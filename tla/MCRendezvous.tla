---------------------------- MODULE MCRendezvous ----------------------------
(* Three nodes, of which two make a round.                                 *)
EXTENDS Rendezvous

MCNodes == 1..3
=============================================================================

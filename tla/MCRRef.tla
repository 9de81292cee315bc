------------------------------- MODULE MCRRef -------------------------------
(* Small instances of the RRef protocol.                                   *)
EXTENDS RRef, TLC

CONSTANTS u1, u2, f1, f2, f3

MCUsers == {u1, u2}
MCForks == {f1, f2, f3}
MCForks2 == {f1, f2}

\* The users are interchangeable; ForkIds are not, they are allocated in order.
Symmetry == Permutations(MCUsers)
=============================================================================

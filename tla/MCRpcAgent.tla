----------------------------- MODULE MCRpcAgent -----------------------------
(* Small instances of the agent.                                           *)
EXTENDS RpcAgent

CONSTANTS a, b, p

\* Both calls go to one peer and share its pipe.
OnePeer == [c \in Calls |-> p]

\* One call that is retried twice, and two with one retry and a shutdown.
MCWorkloads ==
  {[calls |-> {a}, retries |-> 2, stops |-> FALSE],
   [calls |-> {a, b}, retries |-> 1, stops |-> TRUE]}
=============================================================================

------------------------------ MODULE RpcCalls ------------------------------
(***************************************************************************)
(* What RpcAgent::sendWithRetries() promises its caller: a                 *)
(* call is refused or its future is completed once, with a value only if   *)
(* the callee ran the request; a request may run several times, even after *)
(* the future was completed (torch/csrc/distributed/rpc/rpc_agent.h:       *)
(* "it does not guarantee exactly-once semantics").                        *)
(***************************************************************************)
CONSTANT Calls

VARIABLES
  outcome,   \* what the caller sees of each call
  ran        \* the calls whose request the callee ran

Init == outcome = [c \in Calls |-> "none"] /\ ran = {}

Begin(c) ==
  /\ outcome[c] = "none" /\ outcome' = [outcome EXCEPT ![c] = "open"]
  /\ UNCHANGED ran

\* The call throws.
Refuse(c) ==
  /\ outcome[c] \in {"none", "open"} /\ c \notin ran
  /\ outcome' = [outcome EXCEPT ![c] = "refused"]
  /\ UNCHANGED ran

Execute(c) ==
  /\ outcome[c] \in {"open", "ok", "err"}
  /\ ran' = ran \cup {c}
  /\ UNCHANGED outcome

Complete(c, r) ==
  /\ outcome[c] = "open" /\ outcome' = [outcome EXCEPT ![c] = r]
  /\ r = "ok" => c \in ran
  /\ UNCHANGED ran

Next ==
  \E c \in Calls :
    Begin(c) \/ Refuse(c) \/ Execute(c) \/ \E r \in {"ok", "err"} : Complete(c, r)

Spec == Init /\ [][Next]_<<outcome, ran>>
=============================================================================

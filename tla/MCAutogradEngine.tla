-------------------------- MODULE MCAutogradEngine --------------------------
(* Small graphs for the autograd engine.                                     *)
EXTENDS AutogradEngine, TLC

CONSTANTS u, v, d, e, p1, p2, g1, g2, g3, g4, k1, k2, k3

(* With a maximum depth of 1, u runs g1, a diamond in which r feeds a and b,  *)
(* which feed c; b calls g2, x -> y.  v runs g3, which is z, and u goes on    *)
(* with g4, which is q.  With a maximum depth of 0, u runs k1, in which kr     *)
(* feeds ka and kb, and these call k2 and k3: kx and kz.                      *)
Diamond(r, a, b, c) == {<<r, a>>, <<r, b>>, <<a, c>>, <<b, c>>}
DeepNodes == {"r", "a", "b", "c", "h", "x", "y", "z", "q"}
PoolNodes == {"kr", "ka", "kb", "kx", "kz"}
MCNodes == DeepNodes \cup PoolNodes
MCEdges ==
  Diamond("r", "a", "b", "c") \cup {<<"r", "h">>, <<"x", "y">>, <<"kr", "ka">>, <<"kr", "kb">>}
MCTasks == {g1, g2, g3, g4, k1, k2, k3}
MCCalls == [m \in {0, 1} |-> IF m = 0 THEN {k1} ELSE {g1, g3, g4}]

GraphOf(n) ==
  CASE n \in {"r", "a", "b", "c", "h"} -> g1 [] n \in {"x", "y"} -> g2 [] n = "z" -> g3
    [] n = "q" -> g4 [] n \in {"kr", "ka", "kb"} -> k1 [] n = "kx" -> k2 [] n = "kz" -> k3
TaskOfNode == [n \in Nodes |-> GraphOf(n)]
Roots == [g \in Tasks |-> CHOOSE n \in Nodes : TaskOfNode[n] = g /\ Preds(n) = {}]

\* The order in which the Nodes were made.
Made == <<"h", "c", "b", "a", "r", "y", "x", "z", "q", "kb", "ka", "kr", "kx", "kz">>
Sequence == [n \in Nodes |-> CHOOSE i \in DOMAIN Made : Made[i] = n]

\* grad(): the gradient of c is captured and nothing needs h.
MCNeeded == MCNodes \ {"c", "h"}
MCCaptured == {"c"}

MCOrigin == [g \in Tasks |->
  CASE g = g2 -> "b" [] g = g3 -> v [] g = k2 -> "ka" [] g = k3 -> "kb" [] OTHER -> u]

\* b is on the CPU; ka and kb are on the same device.
MCDevice == [n \in Nodes |->
  CASE n \in {"a", "y", "z", "ka", "kb"} -> d [] n = "kx" -> e [] OTHER -> CPU]

\* At the maximum depth b calls a graph that starts on the device.
SleepNodes == {"r", "a", "b", "c", "x", "y"}
SleepEdges == Diamond("r", "a", "b", "c") \cup {<<"x", "y">>}
SleepCalls == 0 :> {g1}
SleepDevice == [n \in Nodes |-> IF n \in {"a", "x"} THEN d ELSE CPU]
=============================================================================

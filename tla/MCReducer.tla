----------------------------- MODULE MCReducer -----------------------------
(* Two ranks and three parameters.                                          *)
EXTENDS Reducer

Loss(a, b, c) == <<a, b, c>>
AllOnce == [out |-> Params, loss |-> Loss(1, 1, 1)]
FirstTwo == [out |-> {1, 2}, loss |-> Loss(1, 1, 0)]
LastTwo == [out |-> {2, 3}, loss |-> Loss(0, 1, 1)]
PartOfOutputs == [out |-> {1, 2}, loss |-> Loss(1, 0, 0)]
OutsideForward == [out |-> {1}, loss |-> Loss(1, 0, 1)]
AllTwice == [out |-> Params, loss |-> Loss(2, 2, 2)]
Twice == [out |-> {1, 2}, loss |-> Loss(2, 1, 0)]

\* The number of buckets depends on the order of the parameters.
MixedSize == [p \in Params |-> IF p = 2 THEN 2 ELSE 1]
Prog(m, s) == [mode |-> m, passes |-> s]

MCPrograms ==
  {Prog("plain", <<"ignored", "sync", "nosync", "sync">>),
   Prog("plain", <<"sync", "sync", "nosync">>),
   Prog("unused", <<"nosync", "sync">>),
   Prog("unused", <<"sync", "sync", "nosync">>),
   Prog("static", <<"nosync", "sync", "sync", "sync">>),
   Prog("static", <<"ignored", "nosync", "sync">>)}

MCGraphs == [m \in Modes |->
  CASE m = "plain" -> {AllOnce, FirstTwo}
    [] m = "unused" -> {AllOnce, FirstTwo, LastTwo, PartOfOutputs, OutsideForward}
    [] m = "static" -> {Twice, LastTwo, AllTwice}]

\* The loss leaves out an output, in every pass the same.
PartPasses == {Prog("static", <<"sync", "sync", "sync">>)}
PartGraphs == [m \in Modes |-> {PartOfOutputs}]

\* The pass after no_sync() may leave out a parameter that was used under it.
NoSyncPasses == {Prog("unused", <<"nosync", "sync">>)}
NoSyncGraphs == [m \in Modes |-> {AllOnce, FirstTwo}]
=============================================================================

-------------------------- MODULE MCGraphTaskInit --------------------------
(* All graphs of a few Nodes.                                              *)
EXTENDS GraphTaskInit
=============================================================================

---------------------------- MODULE MCAveraging -----------------------------
(* Two workers and an evaluation node on two threads; data node 1 shares   *)
(* the thread of the first worker.                                         *)
EXTENDS Averaging, TLC

CONSTANTS n1, n2, eval

MC_Targets == <<n1, eval, n2>>
MC_Outs == (n1 :> {n2}) @@ (n2 :> {n1})
MC_Thread == [x \in Feeders \cup Nodes |-> IF x \in {1, n1} THEN "s" ELSE "t"]
MC_Flaky == {<<1, n2>>, <<n1, n2>>}
=============================================================================

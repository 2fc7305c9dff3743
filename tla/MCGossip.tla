------------------------------ MODULE MCGossip ------------------------------
(* Two or three workers on two threads; feeder 10 shares the thread of worker 0. *)
EXTENDS Gossip

MC_Thread == [x \in Feeders \cup Workers |-> IF x \in {0, 10} THEN "s" ELSE "t"]

(* The two threads are on two daemons. *)
MC_Flaky == {p \in (Feeders \cup Workers) \X Workers : MC_Thread[p[1]] # MC_Thread[p[2]]}

(* They are on one, but for the data nodes. *)
MC_FlakyFeed == {p \in MC_Flaky : p[1] \in Feeders}

MC_Height2 == [f \in Feeders |-> 2]
=============================================================================

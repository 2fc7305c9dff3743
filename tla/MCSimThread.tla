---------------------------- MODULE MCSimThread ----------------------------
(* Small daemons for TLC: two threads, at most three nodes. *)
EXTENDS SimThread

CONSTANTS a, b, c

MC_ThreadOf == [n \in Nodes |-> IF n = c THEN 2 ELSE 1]
MC_Outs == [n \in Nodes |-> IF n = a THEN {b, c} \cap Nodes ELSE {a} \cap Nodes]
=============================================================================

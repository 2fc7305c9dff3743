---------------------------- MODULE MCConnection ----------------------------
(* A thread that makes the connection, a second sender next to it, and one *)
(* at the other end.                                                       *)
EXTENDS Connection, TLC

CONSTANTS creator, second, other, open, first, data, back, reply

MC_EndOf == [s \in Senders |-> IF s = other THEN "b" ELSE "a"]
MC_Script == (creator :> <<open, first>>) @@ (second :> <<data>>) @@ (other :> <<back>>)
MC_Attempts == [k \in Kinds |-> IF k = "peer" THEN 2 ELSE 1]
=============================================================================

------------------------------ MODULE MCGrowth ------------------------------
(* Models of one or two groups; a second model adds to the first, with or  *)
(* without a Host line of its own.  Root takes part in the smaller ones.   *)
EXTENDS Infos

CONSTANTS A, B, root, me, libA, libB

Host == [op |-> "host"]
Group(g) == [op |-> "group", grp |-> g]
Assign(g, h, nb, star, t) ==
    [op |-> "assign", grp |-> g, host |-> h, nb |-> nb, star |-> star, thread |-> t]
Even(g, nb) == Assign(g, me, nb, FALSE, -1)
Same(g, ref, limit) == [op |-> "same", grp |-> g, ref |-> ref, limit |-> limit]

End == [op |-> "end"]

MC_Watched == {
    <<Host, Group(A), Assign(A, root, 1, FALSE, -1), Even(A, 2), Group(B), Same(B, A, 1), End>>,
    <<Group(A), Assign(A, root, 1, FALSE, -1), End,
      Host, Assign(A, me, 2, FALSE, 1), Group(B), Same(B, A, -1), End>>}
MC_Scripts == MC_Watched \cup {
    <<Host, Group(A), Assign(A, me, 2, FALSE, 1), Group(B), End, Same(B, A, -1), End>>,
    <<Host, Group(A), Even(A, 2), End, Even(A, 3), Group(B), Even(B, 3), End>>,
    <<Host, Group(A), Assign(A, me, 1, TRUE, -1), End, Host, Group(B), Even(B, 5), End>>,
    <<Host, Group(A), Assign(A, me, 1, FALSE, 2), End>>}
MC_DeclThreads == (root :> 1) @@ (me :> 2)
MC_Provides == (libA :> {A}) @@ (libB :> {B})
=============================================================================

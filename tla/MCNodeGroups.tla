---------------------------- MODULE MCNodeGroups ----------------------------
(* Two hosts, two groups, and every model of four statements out of a set. *)
EXTENDS NodeGroups

CONSTANTS h1, h2, g1, g2

Link(src, dst, self, local) ==
    [op |-> "connect", link |-> [src |-> src, dst |-> dst, self |-> self, local |-> local]]

Assign(g, h, nb, perThread) ==
    [op |-> "assign", grp |-> g, host |-> h, nb |-> nb, perThread |-> perThread]

Same(g, ref, limit) == [op |-> "same", grp |-> g, ref |-> ref, limit |-> limit]

MC_Statements ==
    {Link(g1, g1, FALSE, FALSE), Link(g1, g1, TRUE, FALSE),
     Link(g1, g2, FALSE, FALSE), Link(g1, g2, FALSE, TRUE), Link(g2, g1, FALSE, FALSE),
     Link(g1, g1, FALSE, TRUE),
     Assign(g1, h1, 2, FALSE), Assign(g1, h2, 1, TRUE),
     Assign(g2, h1, 1, FALSE), Assign(g2, h2, 3, FALSE),
     Same(g2, g1, 0), Same(g2, g1, 1)}

MC_Scripts == {f \in [1 .. 4 -> MC_Statements] : Cardinality({f[i] : i \in 1 .. 4}) = 4}

MC_DeclThreads == [h \in Hosts |-> 2]

(* One node of the group on each host, linked to its own group. *)
MC_SelfScripts ==
    {<<Assign(g1, h1, 1, FALSE), Assign(g1, h2, 1, FALSE), Link(g1, g1, FALSE, FALSE)>>}
=============================================================================

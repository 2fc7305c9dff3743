------------------------------- MODULE Infos --------------------------------
(***************************************************************************)
(* What is shown of the nodes of the daemon Me at the daemon Root          *)
(* (topology/Topology.cpp, Info.cpp, common/Commands.cpp).                 *)
(*                                                                         *)
(* Once asked for infos, Me sends Root every second what it knows of its   *)
(* nodes, as a byte stream it makes in two passes over its groups: the     *)
(* first finds the size, the second writes.  Root reads the same models at *)
(* its own speed and stores what comes by the names of group and host and  *)
(* the position of the node in its block.  Meanwhile Me may read a model   *)
(* (Growth).                                                               *)
(*                                                                         *)
(* An information is known here by the node it is about.  A process that   *)
(* follows a null pointer or leaves an array is lost, and with it the run. *)
(***************************************************************************)
EXTENDS Growth

CONSTANTS
    Watched,        \* bound: the scripts in which Root takes part
    MaxUpdates      \* bound: updates on the way

ASSUME UpdatesAssumption == Watched \subseteq Scripts /\ MaxUpdates \in Nat

VARIABLES
    rpos,           \* statements Root has read
    remote_infos,   \* of the first block of Me in each group, at Root
    upd,            \* the update thread: what it has dumped
    chan,           \* updates sent, not yet read
    lost            \* what a process was lost by

infos == <<rpos, remote_infos, upd, chan, lost>>
vars == <<growth, infos>>

Zero == -1          \* an information about no node

Init ==
    /\ InitGrowth
    /\ rpos = 0
    /\ remote_infos = [g \in Groups |-> <<>>]
    /\ upd = [pc |-> "off"]
    /\ chan = <<>>
    /\ lost = "no"

Running == lost = "no" /\ ~At("crash")

-----------------------------------------------------------------------------
(* What Root knows: the groups, and the sizes of their blocks by the text. *)

RootGroups == {script[i].grp : i \in {j \in 1 .. rpos : script[j].op = "group"}}

Announced(old, s) ==
    CASE s.op = "assign" -> [old EXCEPT ![s.grp] = Append(@, [host |-> s.host, nb |-> Amount(s)])]
      [] s.op = "same" -> [old EXCEPT ![s.grp] =
            @ \o [i \in DOMAIN old[s.ref] |->
                     [old[s.ref][i] EXCEPT !.nb = Least(s.limit, @)]]]
      [] s.op \in {"host", "group", "end"} -> old

(* The blocks of each group by the first n statements. *)
Declared[n \in 0 .. Len(script)] ==
    IF n = 0 THEN [g \in Groups |-> <<>>] ELSE Announced(Declared[n - 1], script[n])

RootHosts == Declared[rpos]

FirstHere(g, i) ==
    /\ i \in DOMAIN RootHosts[g] /\ RootHosts[g][i].host = Me
    /\ \A j \in 1 .. i - 1 : RootHosts[g][j].host # Me
get_first_host(g) == CHOOSE i \in DOMAIN RootHosts[g] : FirstHere(g, i)
Room(g) == RootHosts[g][get_first_host(g)].nb

RootReads ==
    /\ Running /\ script \in Watched /\ rpos < Len(script)
    /\ rpos' = rpos + 1
    /\ UNCHANGED <<growth, remote_infos, upd, chan, lost>>

-----------------------------------------------------------------------------
(* The update thread.                                                      *)

agml_infos_start_update_thread == upd.pc = "off" /\ upd' = [pc |-> "rest"]

agml_command_do_start_infos ==
    /\ Running /\ script \in Watched /\ agml_infos_start_update_thread
    /\ UNCHANGED <<growth, rpos, remote_infos, chan, lost>>

(* Topology::cur is made when the first model begins to be read.           *)
BeginDump ==
    /\ Running /\ upd.pc = "rest" /\ Len(chan) < MaxUpdates
    /\ \/ upd' = [pc |-> "dump", write |-> FALSE, todo |-> groups, size |-> 0,
                  room |-> 0, out |-> <<>>] /\ UNCHANGED lost
       \/ pos = 0 /\ lost' = "no topology" /\ UNCHANGED upd
    /\ UNCHANGED <<growth, rpos, remote_infos, chan>>

(* The nodes of each block; the bytes of a group, its blocks and nodes     *)
(* count one each.                                                         *)
Entry(g) ==
    [i \in DOMAIN local_hosts[g] |->
        [j \in DOMAIN local_hosts[g][i].nodes |-> local_hosts[g][i].nodes[j].id]]

Size(blocks) == 1 + Len(blocks) + Len(FlattenSeq(blocks))

Written(out, g) == [h \in DOMAIN out \cup {g} |-> IF h = g THEN Entry(g) ELSE out[h]]

(* Writing beyond what the first pass has counted destroys the heap. *)
dump_local_infos ==
    /\ Running /\ upd.pc = "dump" /\ upd.todo # <<>>
    /\ LET g == Head(upd.todo)
           size == upd.size + Size(Entry(g))
       IN \/ /\ ~upd.write \/ size <= upd.room
             /\ upd' = [upd EXCEPT !.todo = Tail(@), !.size = size,
                            !.out = IF upd.write THEN Written(@, g) ELSE @]
             /\ UNCHANGED lost
          \/ /\ upd.write /\ size > upd.room
             /\ lost' = "room" /\ UNCHANGED upd
    /\ UNCHANGED <<growth, rpos, remote_infos, chan>>

SecondPass ==
    /\ Running /\ upd.pc = "dump" /\ upd.todo = <<>> /\ ~upd.write
    /\ upd' = [upd EXCEPT !.write = TRUE, !.todo = groups, !.room = upd.size, !.size = 0]
    /\ UNCHANGED <<growth, rpos, remote_infos, chan, lost>>

SendInfos ==
    /\ Running /\ upd.pc = "dump" /\ upd.todo = <<>> /\ upd.write
    /\ chan' = Append(chan, upd.out)
    /\ upd' = [pc |-> "rest"]
    /\ UNCHANGED <<growth, rpos, remote_infos, lost>>

-----------------------------------------------------------------------------
(* Root receives.  All blocks of a group on Me go to the first one.        *)

Unknown(u, g) == u[g] # <<>> /\ g \notin RootGroups
NoBlock(u, g) == u[g] # <<>> /\ ~ \E i \in DOMAIN RootHosts[g] : FirstHere(g, i)
TooLong(u, g) == \E i \in DOMAIN u[g] : Len(u[g][i]) > Room(g)

(* Each block overwrites the array from its beginning; the array is filled *)
(* at first use, with room for the nodes the text gives the first block.   *)
Stored(g, old, blocks) ==
    IF \A i \in DOMAIN blocks : Len(blocks[i]) = 0 THEN old
    ELSE [k \in 1 .. Room(g) |->
             LET with == {i \in DOMAIN blocks : k <= Len(blocks[i])}
             IN IF with # {} THEN blocks[Max(with)][k]
                ELSE IF old = <<>> THEN Zero ELSE old[k]]

update_infos(u) ==
    [g \in Groups |-> IF g \in DOMAIN u THEN Stored(g, remote_infos[g], u[g]) ELSE remote_infos[g]]

(* Before the first model the update is left aside. *)
agml_command_update_infos ==
    LET u == Head(chan)
        in(Bad(_, _)) == \E g \in DOMAIN u : Bad(u, g)
    IN /\ Running /\ chan # <<>>
       /\ chan' = Tail(chan)
       /\ \/ rpos = 0 /\ UNCHANGED <<remote_infos, lost>>
          \/ in(Unknown) /\ lost' = "no group" /\ UNCHANGED remote_infos
          \/ ~in(Unknown) /\ in(NoBlock) /\ lost' = "no block" /\ UNCHANGED remote_infos
          \/ /\ ~in(Unknown) /\ ~in(NoBlock) /\ in(TooLong)
             /\ lost' = "range" /\ UNCHANGED remote_infos
          \/ /\ ~in(Unknown) /\ ~in(NoBlock) /\ ~in(TooLong)
             /\ remote_infos' = update_infos(u) /\ UNCHANGED lost
       /\ UNCHANGED <<growth, rpos, upd>>

-----------------------------------------------------------------------------
Next ==
    \/ Running /\ NextGrowth /\ UNCHANGED infos
    \/ RootReads
    \/ agml_command_do_start_infos
    \/ BeginDump \/ dump_local_infos \/ SecondPass \/ SendInfos
    \/ agml_command_update_infos

Spec == Init /\ [][Next]_vars

-----------------------------------------------------------------------------
(* What Root answers to "agml infos": for each block of a group the infos  *)
(* of its nodes, of which those it was never told, and those of a second   *)
(* block on Me, are zero; and what is printed then for node k on Me.       *)
dump_all_infos(g) ==
    [i \in DOMAIN RootHosts[g] |->
        [k \in 1 .. RootHosts[g][i].nb |->
            IF FirstHere(g, i) /\ remote_infos[g] # <<>> THEN remote_infos[g][k] ELSE Zero]]

Shown(g, k) == dump_all_infos(g)[get_first_host(g)][k]

(* The node that a request for node k of the group on Me reaches. *)
node_request(g, k) == local_hosts[g][1].nodes[k].id

TypeOK ==
    /\ TypeGrowth
    /\ rpos \in 0 .. Len(script)
    /\ remote_infos \in [Groups -> Seq(Nat \cup {Zero})]
    /\ upd.pc \in {"off", "rest", "dump"}
    /\ lost \in {"no", "no topology", "room", "no group", "no block", "range"}

(* If no group has two blocks on a host, the number under which Root shows *)
(* an information is that under which a request asks for its node, and no  *)
(* update leaves the arrays of Root; a name in it is unknown there only if *)
(* Root has not read all that Me has begun (Topology::update_infos,        *)
(* dump_local_infos, dump_all_infos, agml_command_node_request).           *)
OneBlock ==
    LET all == Declared[Len(script)]
    IN \A g \in Groups : \A i, j \in DOMAIN all[g] : all[g][i].host = all[g][j].host => i = j

InfosAgree ==
    OneBlock =>
        /\ lost # "range"
        /\ lost \in {"no group", "no block"} => rpos < pos
        /\ \A g \in Groups : \A k \in DOMAIN remote_infos[g] :
              Shown(g, k) # Zero => Shown(g, k) = node_request(g, k)
=============================================================================

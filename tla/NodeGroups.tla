----------------------------- MODULE NodeGroups -----------------------------
(***************************************************************************)
(* The node groups of a model and the routing of messages between them     *)
(* (topology/NodeGroup.cpp and .h, Topology.cpp, DataHost.cpp,             *)
(* TopologyReader.cpp).                                                    *)
(*                                                                         *)
(* Every daemon reads the same model text, at its own speed, and keeps for *)
(* each group the blocks of nodes on each host, the links, and counters it *)
(* updates as statements come.  A node knows its neighbours by numbers     *)
(* below get_nb_outs(); its daemon turns such a number into a link, a      *)
(* block and an id in it, and the daemon of that host uses the id as the   *)
(* number of a local node.  Daemons never compare their counters.          *)
(*                                                                         *)
(* A statement is one step: before the end of the first reading no         *)
(* simulation thread runs that could look in between.                      *)
(***************************************************************************)
EXTENDS Integers, Sequences, FiniteSets, FiniteSetsExt, SequencesExt

CONSTANTS
    Hosts,          \* the hosts of the model, one daemon each
    Groups,
    Scripts,        \* the models: sequences of statements after the Host lines
    DeclThreads     \* the number of threads each Host line declares

Links == [src : Groups, dst : Groups, self : BOOLEAN, local : BOOLEAN]

(* perThread: the thread is given as a star, nb counts for each thread; an *)
(* assign to the host star is one statement for each host; limit 0 stands  *)
(* for an assign_same_as without limit.  A group that is to be like itself *)
(* would grow for ever.                                                    *)
Statements ==
    [op : {"connect"}, link : Links]
    \cup [op : {"assign"}, grp : Groups, host : Hosts, nb : Nat, perThread : BOOLEAN]
    \cup [op : {"same"}, grp : Groups, ref : Groups, limit : Nat]

ASSUME GroupsAssumption ==
    /\ IsFiniteSet(Hosts)
    /\ Scripts \subseteq Seq(Statements)
    /\ \A t \in Scripts : \A i \in DOMAIN t : t[i].op = "same" => t[i].ref # t[i].grp
    /\ DeclThreads \in [Hosts -> Nat \ {0}]

VARIABLES
    script,     \* the model all daemons read
    read,       \* how many of its statements each daemon has executed
    phase,      \* "unread", "reading", "running", or "dead"
    view,       \* the NodeGroups of each daemon
    nbThreads,  \* DataHost::nb_threads each daemon knows, 0 if it has no DataHost
    conn        \* the hosts each daemon has a data connection to

groups == <<script, read, phase, view, nbThreads, conn>>

Blocks == [host : Hosts, nb : Nat]
GroupState ==
    [hosts : Seq(Blocks), outs : Seq(Links), ins : Seq(Links), nb_nodes : Nat,
     nb_local_nodes : Nat, nb_out_nodes : Int, nb_in_nodes : Int]
Views == [Groups -> GroupState]

TypeGroups ==
    /\ script \in Scripts
    /\ read \in [Hosts -> 0 .. Len(script)]
    /\ phase \in [Hosts -> {"unread", "reading", "running", "dead"}]
    /\ view \in [Hosts -> Views]
    /\ nbThreads \in [Hosts -> [Hosts -> Nat]]
    /\ conn \in [Hosts -> SUBSET Hosts]
    /\ \A d \in Hosts : d \notin conn[d]

EmptyGroup == [hosts |-> <<>>, outs |-> <<>>, ins |-> <<>>, nb_nodes |-> 0,
               nb_local_nodes |-> 0, nb_out_nodes |-> 0, nb_in_nodes |-> 0]

InitGroups ==
    /\ script \in Scripts
    /\ read = [d \in Hosts |-> 0]
    /\ phase = [d \in Hosts |-> "unread"]
    /\ view = [d \in Hosts |-> [g \in Groups |-> EmptyGroup]]
    /\ nbThreads = [d \in Hosts |-> [h \in Hosts |-> 0]]
    /\ conn = [d \in Hosts |-> {}]

-----------------------------------------------------------------------------
(* Links (NodeGroup.h).                                                    *)

Skips(l) == ~l.self /\ l.src = l.dst

Minus(l, n) == IF n = 0 THEN 0 ELSE IF Skips(l) THEN n - 1 ELSE n

get_nb_out(v, l) ==
    Minus(l, IF l.local THEN v[l.dst].nb_local_nodes ELSE v[l.dst].nb_nodes)

get_nb_local_in(v, l) == Minus(l, v[l.src].nb_local_nodes)

get_nb_in(v, l) ==
    IF l.local THEN get_nb_local_in(v, l) ELSE Minus(l, v[l.src].nb_nodes)

(* A node without a link to itself skips its own number.  The mutant is    *)
(* off by one.                                                             *)
SkipLate(l, src, i) == IF Skips(l) /\ i > src THEN i + 1 ELSE i
get_out_node_id(l, src, i) == IF Skips(l) /\ i >= src THEN i + 1 ELSE i

(* What a new block adds to the counter of neighbours behind a link        *)
(* (on_dst_add_host, on_src_add_host); only the first block of a group     *)
(* loses the node itself.                                                  *)
Grow(d, v, l, b) ==
    IF l.local /\ b.host # d THEN 0
    ELSE IF Skips(l) /\ v[l.src].nb_nodes = 0 THEN b.nb - 1 ELSE b.nb

-----------------------------------------------------------------------------
(* What the statements do to the groups v of daemon d.                     *)

(* What it adds to the counters of group x, over all links of its own      *)
(* group g.                                                                *)
OutGrowth(d, v, g, b, x) ==
    LET ins == v[g].ins
    IN SumFunction([i \in DOMAIN ins |-> IF ins[i].src = x THEN Grow(d, v, ins[i], b) ELSE 0])
InGrowth(d, v, g, b, x) ==
    LET outs == v[g].outs
    IN SumFunction([i \in DOMAIN outs |-> IF outs[i].dst = x THEN Grow(d, v, outs[i], b) ELSE 0])

(* NodeGroup::add_host, after the block has instantiated its local nodes.  *)
AddHost(d, v, g, b) ==
    LET counted == [x \in Groups |->
                       [v[x] EXCEPT !.nb_out_nodes = @ + OutGrowth(d, v, g, b, x),
                                    !.nb_in_nodes = @ + InGrowth(d, v, g, b, x)]]
    IN [counted EXCEPT ![g].hosts = Append(@, b),
                       ![g].nb_nodes = @ + b.nb,
                       ![g].nb_local_nodes = IF b.host = d THEN @ + b.nb ELSE @]

AtMost(limit, n) == IF limit = 0 \/ n < limit THEN n ELSE limit

(* assign_same_as: a block for each block of the other group. *)
AddSame(d, v, s) ==
    LET like == v[s.ref].hosts
        after[i \in 0 .. Len(like)] ==
            IF i = 0 THEN v
            ELSE AddHost(d, after[i - 1], s.grp,
                         [host |-> like[i].host, nb |-> AtMost(s.limit, like[i].nb)])
    IN after[Len(like)]

AddLink(v, l) ==
    [v EXCEPT ![l.src].outs = Append(@, l),
              ![l.src].nb_out_nodes = @ + get_nb_out(v, l),
              ![l.dst].ins = Append(@, l),
              ![l.dst].nb_in_nodes = @ + get_nb_in(v, l)]

Execute(d, v, s) ==
    CASE s.op = "connect" -> AddLink(v, s.link)
      [] s.op = "same" -> AddSame(d, v, s)
      [] s.op = "assign" ->
            AddHost(d, v, s.grp, [host |-> s.host,
                                  nb |-> IF s.perThread THEN s.nb * nbThreads[d][s.host]
                                         ELSE s.nb])

(* connect_hosts_as_needed: who group g must be connected to.  One mutant  *)
(* looks at the group's own nodes, the other forgets the test is_local.    *)
NeededByOwn(v, g) == v[g].nb_local_nodes > 0
Needed(v, g) ==
    \E i \in DOMAIN v[g].ins :
        ~v[g].ins[i].local /\ get_nb_local_in(v, v[g].ins[i]) > 0

WantedAll(d, v, g) == IF Needed(v, g) THEN {v[g].hosts[i].host : i \in DOMAIN v[g].hosts} ELSE {}
Wanted(d, v, g) ==
    IF Needed(v, g) THEN {v[g].hosts[i].host : i \in DOMAIN v[g].hosts} \ {d} ELSE {}

-----------------------------------------------------------------------------
(* The steps of a daemon.                                                  *)

(* agml_get_datahost: whether d has a DataHost for h.                      *)
Known(d, h) == nbThreads[d][h] # 0

(* A DataHost is made for the hosts that have none: nb are their threads.  *)
NewDataHosts(d, nb) ==
    [nbThreads EXCEPT ![d] =
        [h \in Hosts |-> IF h \notin DOMAIN nb \/ Known(d, h) THEN @[h] ELSE nb[h]]]

(* A host that is connected stays so. *)
connect(d, hs) == conn' = [conn EXCEPT ![d] = @ \cup hs]

(* NodeGroupHost::connect for each of the hosts of a group.  After a       *)
(* failure the block has a NULL host, which dump_groups dereferences at  *)
(* the latest: the daemon is lost.                                         *)
Open(d, hs, next) ==
    \/ connect(d, hs) /\ phase' = [phase EXCEPT ![d] = next]
    \/ hs \ conn[d] # {} /\ UNCHANGED conn /\ phase' = [phase EXCEPT ![d] = "dead"]

(* The Host lines; a host that is already known keeps what is known. *)
DeclareHosts(d) ==
    /\ phase[d] = "unread"
    /\ phase' = [phase EXCEPT ![d] = "reading"]
    /\ nbThreads' = NewDataHosts(d, DeclThreads)
    /\ UNCHANGED <<script, read, view, conn>>

(* One statement; a connect statement also opens the connections that the  *)
(* links into the target group needed before it.                           *)
ReadStatement(d) ==
    /\ phase[d] = "reading"
    /\ read[d] < Len(script)
    /\ LET s == script[read[d] + 1]
       IN /\ view' = [view EXCEPT ![d] = Execute(d, @, s)]
          /\ Open(d, IF s.op = "connect" THEN Wanted(d, view[d], s.link.dst) ELSE {},
                  "reading")
    /\ read' = [read EXCEPT ![d] = @ + 1]
    /\ UNCHANGED <<script, nbThreads>>

(* The end of Topology::read: connections, then the threads are started. *)
Finish(d) ==
    /\ phase[d] = "reading"
    /\ read[d] = Len(script)
    /\ Open(d, UNION {Wanted(d, view[d], g) : g \in Groups}, "running")
    /\ UNCHANGED <<script, read, view, nbThreads>>

(* The data_host command p sent when it connected: d now has a connection  *)
(* to p, and a DataHost with one thread if it had none.                    *)
DataHostCommand(d, p) ==
    /\ d \in conn[p]
    /\ p \notin conn[d]
    /\ connect(d, {p})
    /\ nbThreads' = NewDataHosts(d, [h \in {p} |-> 1])
    /\ UNCHANGED <<script, read, phase, view>>

NextGroups ==
    \E d \in Hosts :
        \/ DeclareHosts(d)
        \/ ReadStatement(d)
        \/ Finish(d)
        \/ \E p \in Hosts : DataHostCommand(d, p)

SpecGroups == InitGroups /\ [][NextGroups]_groups

-----------------------------------------------------------------------------
(* Routing of a message of node id of group g on daemon d to its neighbour *)
(* number i (send_out, then send).                                         *)

(* Where x falls if w[1] numbers go to the first, w[2] to the second, ...  *)
Before(w, j) == SumFunction([i \in 1 .. j - 1 |-> w[i]])
FallsOn(w, x, j) == j \in DOMAIN w /\ Before(w, j) <= x /\ x < Before(w, j) + w[j]

Lost == [grp |-> "?", host |-> "?", id |-> -1]

(* NodeGroup::send to node k of the daemon's numbering: local nodes first, *)
(* then the blocks of the other hosts, each from its own id 0.             *)
Far(d, hosts) == [i \in DOMAIN hosts |-> IF hosts[i].host = d THEN 0 ELSE hosts[i].nb]

Send(d, v, g, k) ==
    LET far == Far(d, v[g].hosts)
        rest == k - v[g].nb_local_nodes
        j == CHOOSE j \in DOMAIN far : FallsOn(far, rest, j)
    IN IF k >= v[g].nb_nodes THEN Lost
       ELSE IF rest < 0 THEN [grp |-> g, host |-> d, id |-> k]
       ELSE [grp |-> g, host |-> v[g].hosts[j].host, id |-> rest - Before(far, j)]

(* The position in outs of the link that neighbour number i falls on. *)
SendOut(d, v, g, id, i) ==
    LET outs == v[g].outs
        nb == [j \in DOMAIN outs |-> get_nb_out(v, outs[j])]
        j == CHOOSE j \in DOMAIN outs : FallsOn(nb, i, j)
    IN IF \E n \in DOMAIN outs : FallsOn(nb, i, n)
       THEN <<j, Send(d, v, outs[j].dst, get_out_node_id(outs[j], id, i - Before(nb, j)))>>
       ELSE <<0, Lost>>

-----------------------------------------------------------------------------
(* The meaning of a model, from its text alone.                            *)

(* How many nodes of each group the first n statements put on each host,   *)
(* and the links they make from it.                                        *)
Given(old, s) ==
    CASE s.op = "connect" -> old
      [] s.op = "assign" ->
            [old EXCEPT ![s.grp][s.host] =
                @ + s.nb * (IF s.perThread THEN DeclThreads[s.host] ELSE 1)]
      [] s.op = "same" ->
            [old EXCEPT ![s.grp] = [h \in Hosts |-> @[h] + AtMost(s.limit, old[s.ref][h])]]

Amounts[n \in 0 .. Len(script)] ==
    IF n = 0 THEN [g \in Groups |-> [h \in Hosts |-> 0]]
    ELSE Given(Amounts[n - 1], script[n])

Drawn(old, s) ==
    IF s.op = "connect" THEN [old EXCEPT ![s.link.src] = Append(@, s.link)] ELSE old

LinksFrom[n \in 0 .. Len(script)] ==
    IF n = 0 THEN [g \in Groups |-> <<>>] ELSE Drawn(LinksFrom[n - 1], script[n])

Placed(g, h) == Amounts[Len(script)][g][h]

NodesOf(g) ==
    UNION {{[grp |-> g, host |-> h, id |-> k] : k \in 0 .. Placed(g, h) - 1} : h \in Hosts}

(* Whom node n of the text talks to through a link. *)
Targets(l, n) ==
    {m \in NodesOf(l.dst) : (l.local => m.host = n.host) /\ (Skips(l) => m # n)}

Neighbours(n) ==
    LET outs == LinksFrom[Len(script)][n.grp]
    IN UNION {{<<j, m>> : m \in Targets(outs[j], n)} : j \in DOMAIN outs}

-----------------------------------------------------------------------------
(* No group gets two blocks on one host. *)
OneBlock ==
    \A d \in Hosts, g \in Groups :
        LET hosts == view[d][g].hosts
        IN \A i, j \in DOMAIN hosts : hosts[i].host = hosts[j].host => i = j

(* No daemon learnt of a host by its data_host command before it read the  *)
(* Host line.                                                              *)
Agreed == \A d, h \in Hosts : nbThreads[d][h] \in {0, DeclThreads[h]}

Loaded == \A d \in Hosts : phase[d] = "running"

(* A link of a group to the nodes of the group on the same host comes      *)
(* after the blocks of the group: what such a link adds for a block        *)
(* depends on the blocks on other hosts that came before.                  *)
LoopsLast ==
    \A j, k \in DOMAIN script :
        /\ j < k /\ script[j].op = "connect" /\ script[k].op # "connect"
        /\ script[j].link.local /\ Skips(script[j].link)
        => script[k].grp # script[j].link.src

NoneEmpty == \A i \in DOMAIN script : script[i].op = "assign" => script[i].nb > 0

(* The numbers below get_nb_outs() lead node n to each of its neighbours   *)
(* in the text, to each by one number.                                     *)
Routed(n) ==
    LET v == view[n.host]
        route == [i \in 0 .. v[n.grp].nb_out_nodes - 1 |-> SendOut(n.host, v, n.grp, n.id, i)]
    IN /\ n.id < v[n.grp].nb_local_nodes
       /\ {route[i] : i \in DOMAIN route} = Neighbours(n)
       /\ Cardinality(DOMAIN route) = Cardinality(Neighbours(n))

(* "each Node in grp1 will talk to all Nodes in grp2" (doc/agml_syntax.html): *)
(* the numbers of its neighbours lead a node to all of them, and the       *)
(* daemon of the neighbour has a node under that id, although each daemon  *)
(* numbers the blocks by itself (send_out, send, com_decode_local_node).   *)
EveryNeighbour ==
    Loaded /\ OneBlock /\ Agreed /\ LoopsLast /\ NoneEmpty =>
        \A g \in Groups : \A n \in NodesOf(g) : Routed(n)

(* A daemon that runs has a data connection to every host its nodes may    *)
(* send to (connect_hosts_as_needed), except for a group whose only node   *)
(* here is linked to its own group.                                        *)
Reaches(d, g, l) ==
    ~l.local => \A i \in DOMAIN view[d][l.dst].hosts :
                    view[d][l.dst].hosts[i].host \in conn[d] \cup {d}

Connected ==
    \A d \in Hosts, g \in Groups :
        LET v == view[d][g]
        IN phase[d] = "running" /\ v.nb_local_nodes > 0 =>
              \A i \in DOMAIN v.outs :
                  Reaches(d, g, v.outs[i]) \/ (Skips(v.outs[i]) /\ v.nb_local_nodes = 1)

(* The same without the exception: "grp1 -> grp1 makes each grp1's Node    *)
(* communicate with the other Nodes in grp1" (doc/agml_syntax.html).       *)
SelfConnected ==
    \A d \in Hosts, g \in Groups :
        phase[d] = "running" /\ view[d][g].nb_local_nodes > 0 =>
            \A i \in DOMAIN view[d][g].outs : Reaches(d, g, view[d][g].outs[i])
=============================================================================

------------------------------- MODULE Growth -------------------------------
(***************************************************************************)
(* How a daemon makes the nodes of its blocks, statement by statement and  *)
(* node by node (topology/TopologyReader.cpp, NodeGroup.cpp,               *)
(* NodeLibrary.cpp, simulation/Thread.cpp), while other threads look up    *)
(* nodes and simulation threads come to their end: models are read when    *)
(* simulation threads already run ("at any time in an incremental way",    *)
(* doc/agml.html:51).                                                      *)
(*                                                                         *)
(* One thread reads, one model after another; script is all their lines,   *)
(* with an "end" after each model.  A block of nodes is filled before it   *)
(* enters the lists of its group, but its nodes get their numbers from a   *)
(* counter of the group that others already see.  An exception of init()   *)
(* ends the reading of the model where it is.                              *)
(*                                                                         *)
(* The array of threads is indexed without its lock, anew at each use,     *)
(* while ended threads take themselves out of it.  Its memory is slots:    *)
(* what erase leaves behind the last element is still there to be read.    *)
(***************************************************************************)
EXTENDS Integers, Sequences, FiniteSets, FiniteSetsExt, SequencesExt, TLC

CONSTANTS
    Groups,
    Root, Me,       \* the host that collects infos (see Infos), and this one
    Scripts,
    DeclThreads,    \* the number of threads the Host line of a host declares
    Files,          \* shared libraries in the directories that are searched
    Provides,       \* the groups whose node class each of them has
    Fragile,        \* the groups the init() of whose nodes may throw
    MaxLeft         \* bound: nodes that ever leave their thread

Hosts == {Root, Me}

(* thread -1 stands for an even spread, limit -1 for none; star says that  *)
(* nb counts for each thread.                                              *)
Statements ==
    [op : {"host", "end"}]
    \cup [op : {"group"}, grp : Groups]
    \cup [op : {"assign"}, grp : Groups, host : Hosts, nb : Nat, star : BOOLEAN,
          thread : Nat \cup {-1}]
    \cup [op : {"same"}, grp : Groups, ref : Groups, limit : Nat \cup {-1}]

Declares(s, n, g) == \E i \in 1 .. n : s[i].op = "group" /\ s[i].grp = g

(* A line is about groups of the text before it. *)
ASSUME ConstantsAssumption ==
    /\ Root # Me
    /\ Scripts \subseteq Seq(Statements)
    /\ \A s \in Scripts : \A i \in DOMAIN s :
          /\ s[i].op \in {"assign", "same"} => Declares(s, i, s[i].grp)
          /\ s[i].op = "same" => s[i].ref # s[i].grp /\ Declares(s, i, s[i].ref)
    /\ DeclThreads \in [Hosts -> Nat \ {0}]
    /\ Provides \in [Files -> SUBSET Groups]
    /\ Fragile \subseteq Groups
    /\ MaxLeft \in Nat

VARIABLES
    script,
    lib,            \* the libraries that could be opened
    pos,            \* statements begun
    groups,         \* Topology::groups
    plans,          \* what the statement has left to do: blocks to make
    slots,          \* the memory of the array threads
    nbThreads,      \* threads.size()
    made,           \* threads made so far, numbered from 0
    started,        \* the threads numbered below have been started
    quitting,       \* threads whose bRunning was reset
    locked,         \* threads whose mutex is held
    hosts, local_hosts,     \* the blocks of each group
    nb_nodes, nb_local_nodes,
    block,          \* the block in the making, or None
    orphans,        \* of blocks given up: nodes made, and the one that threw
    away, left,     \* nodes not on their thread's list now, or ever
    finished,
    endedAt         \* history: what was being done when a thread ended

reading == <<script, lib, pos, groups, plans>>
array == <<slots, nbThreads, made>>
lists == <<hosts, local_hosts, nb_nodes, nb_local_nodes>>
life == <<started, quitting, away, left, finished, endedAt>>
growth == <<reading, array, lists, life, locked, block, orphans>>

None == [pc |-> "none"]

Local(h) == h = Me

(* The blocks a statement makes.  The nodes of a same block go where those *)
(* of the block like are.                                                  *)
Plan(g, h, nb, thread) == [grp |-> g, host |-> h, nb |-> nb, thread |-> thread, same |-> FALSE]
Like(g, nodes) ==
    [grp |-> g, host |-> Me, same |-> TRUE,
     jobs |-> [i \in DOMAIN nodes |-> [thread |-> nodes[i].thread, nb |-> 1]]]

(* Any of the libraries may be missing. *)
Opened == SUBSET Files

InitGrowth ==
    /\ script \in Scripts
    /\ lib \in Opened
    /\ pos = 0 /\ groups = <<>> /\ plans = <<>>
    /\ slots = <<>> /\ nbThreads = 0 /\ made = 0
    /\ started = 0 /\ quitting = {} /\ locked = {}
    /\ hosts = [g \in Groups |-> <<>>]
    /\ local_hosts = [g \in Groups |-> <<>>]
    /\ nb_nodes = [g \in Groups |-> 0]
    /\ nb_local_nodes = [g \in Groups |-> 0]
    /\ block = None
    /\ orphans = [g \in Groups |-> {}]
    /\ away = {} /\ left = {} /\ finished = {} /\ endedAt = {}

-----------------------------------------------------------------------------
(* The array of threads.                                                   *)

ThreadAt(i) == slots[i + 1]
InMemory(i) == i < Len(slots)
Live == {ThreadAt(i) : i \in 0 .. nbThreads - 1}

(* push_back of n new threads, over what erase has left. *)
Grown(n) ==
    [i \in 1 .. Max({Len(slots), nbThreads + n}) |->
        IF i > nbThreads /\ i <= nbThreads + n THEN made + (i - nbThreads) - 1 ELSE slots[i]]

(* erase: those after it move up, the last one is there twice. *)
Erased(t) ==
    LET at == CHOOSE i \in 1 .. nbThreads : slots[i] = t
    IN [i \in DOMAIN slots |-> IF i >= at /\ i < nbThreads THEN slots[i + 1] ELSE slots[i]]

-----------------------------------------------------------------------------
(* What the others see.                                                    *)

(* A library that has the class is found, whichever was opened last. *)
Installed(g) == \E f \in lib : g \in Provides[f]

LocalNodes(g) == FlattenSeq([i \in DOMAIN local_hosts[g] |-> local_hosts[g][i].nodes])

NoNode == [id |-> -1, thread |-> -1]

get_local_node(g, id) ==
    IF id < Len(LocalNodes(g)) THEN LocalNodes(g)[id + 1] ELSE NoNode

(* All nodes of this daemon as <<group, id>>, those of the block in the    *)
(* making and of blocks given up included, and those on thread t.  A node  *)
(* whose init() threw is on none.                                          *)
NodesOf(g) ==
    ToSet(LocalNodes(g)) \cup orphans[g]
    \cup (IF block # None /\ block.plan.grp = g THEN ToSet(block.nodes) ELSE {})
On(t) == UNION {{<<g, n.id>> : n \in {x \in NodesOf(g) : x.thread = t}} : g \in Groups}

Load(t) == Cardinality(On(t) \ away)

-----------------------------------------------------------------------------
(* Statements.                                                             *)

Ready == block = None /\ plans = <<>> /\ pos < Len(script)

(* A Host line makes threads each time it is read, that of another host    *)
(* none.                                                                   *)
execute_statement_declare_host ==
    /\ Ready /\ script[pos + 1].op = "host"
    /\ pos' = pos + 1
    /\ slots' = Grown(DeclThreads[Me])
    /\ nbThreads' = nbThreads + DeclThreads[Me]
    /\ made' = made + DeclThreads[Me]
    /\ UNCHANGED <<script, lib, groups, plans, lists, life, locked, block, orphans>>

execute_statement_add_group ==
    /\ Ready /\ script[pos + 1].op = "group"
    /\ pos' = pos + 1
    /\ groups' = Append(groups, script[pos + 1].grp)
    /\ UNCHANGED <<script, lib, plans, array, lists, life, locked, block, orphans>>

Amount(s) == s.nb * (IF s.star THEN DeclThreads[s.host] ELSE 1)

(* A group whose line was given up is reported, and no block made. *)
Known(g) == g \in ToSet(groups)

execute_statement_assign ==
    /\ Ready /\ script[pos + 1].op = "assign"
    /\ pos' = pos + 1
    /\ plans' = LET s == script[pos + 1]
                IN IF Known(s.grp) THEN <<Plan(s.grp, s.host, Amount(s), s.thread)>> ELSE <<>>
    /\ UNCHANGED <<script, lib, groups, array, lists, life, locked, block, orphans>>

Least(limit, n) == IF limit = -1 THEN n ELSE Min({limit, n})

(* The mutant forgets the limit for local nodes. *)
AllNodes(limit, b) == b.nodes
FirstNodes(limit, b) == SubSeq(b.nodes, 1, Least(limit, b.nb))

assign_same_as ==
    /\ Ready /\ script[pos + 1].op = "same"
    /\ pos' = pos + 1
    /\ plans' =
          LET s == script[pos + 1]
          IN [i \in (IF Known(s.grp) /\ Known(s.ref) THEN DOMAIN hosts[s.ref] ELSE {}) |->
                 LET b == hosts[s.ref][i]
                 IN IF Local(b.host) THEN Like(s.grp, FirstNodes(s.limit, b))
                    ELSE Plan(s.grp, b.host, Least(s.limit, b.nb), -1)]
    /\ UNCHANGED <<script, lib, groups, array, lists, life, locked, block, orphans>>

(* The end of a model.  A thread that misses its start because another one *)
(* ends meanwhile (SimThread) is here one that takes no step.              *)
agml_threads_start ==
    /\ Ready /\ script[pos + 1].op = "end"
    /\ pos' = pos + 1
    /\ started' = made
    /\ UNCHANGED <<script, lib, groups, plans, array, lists, quitting, away, left, finished,
                   endedAt, locked, block, orphans>>

-----------------------------------------------------------------------------
(* A block, from its constructor to the end of add_host.  A job is a call  *)
(* of instantiate_nodes with a thread: its index, or for same itself.      *)

Job(t, n) == [thread |-> t, nb |-> n]

At(pc) == block # None /\ block.pc = pc
Goto(pc) == block' = [block EXCEPT !.pc = pc]

Begun(p, pc, jobs) ==
    [pc |-> pc, plan |-> p, nodes |-> <<>>, k |-> 0, jobs |-> jobs, th |-> 0, load |-> -1,
     each |-> 0, turn |-> 0]

NewBlock ==
    LET p == Head(plans)
    IN /\ block = None /\ plans # <<>>
       /\ plans' = Tail(plans)
       /\ block' =
             CASE p.same -> Begun(p, "lock", p.jobs)
               [] ~p.same /\ (~Local(p.host) \/ p.nb = 0) -> Begun(p, "enter", <<>>)
               [] ~p.same /\ Local(p.host) /\ p.nb > 0 /\ p.thread = -1 -> Begun(p, "scan", <<>>)
               [] ~p.same /\ Local(p.host) /\ p.nb > 0 /\ p.thread >= 0 ->
                     Begun(p, "lock", <<Job(p.thread, p.nb)>>)
       /\ UNCHANGED <<script, lib, pos, groups, array, lists, life, locked, orphans>>

(* The test of the loop, that of a load, and, for a lighter thread, the    *)
(* second call of nb_nodes(), each on the array of its moment.  The mutant *)
(* takes the first thread.                                                 *)
NotLighter(t) == block.load = -1
Lighter(t) == Load(t) < block.load \/ block.load = -1

threads_get_lightest ==
    /\ \/ At("scan") /\ Goto(IF block.k < nbThreads THEN "look" ELSE "each")
       \/ /\ At("look")
          /\ block' = IF Lighter(ThreadAt(block.k)) THEN [block EXCEPT !.pc = "take"]
                      ELSE [block EXCEPT !.pc = "scan", !.k = @ + 1]
       \/ /\ At("take")
          /\ block' = [block EXCEPT !.pc = "scan", !.th = block.k,
                           !.load = Load(ThreadAt(block.k)), !.k = @ + 1]
    /\ UNCHANGED <<reading, array, lists, life, locked, orphans>>

(* instantiate_nodes without a thread: all get the same number, after the  *)
(* rest went to the lightest one.  Without a thread the division ends the  *)
(* process.                                                                *)
Share ==
    /\ \/ At("each") /\ nbThreads = 0 /\ Goto("crash")
       \/ /\ At("each") /\ nbThreads > 0
          /\ block' = [block EXCEPT !.pc = "rest", !.k = 0,
                           !.each = block.plan.nb \div nbThreads]
       \/ /\ At("rest")
          /\ block' = LET rest == block.plan.nb - block.each * nbThreads
                      IN [block EXCEPT !.pc = "lock",
                              !.jobs = IF rest > 0 THEN <<Job(block.th, rest)>> ELSE <<>>]
    /\ UNCHANGED <<reading, array, lists, life, locked, orphans>>

(* The loop over the threads, its test and its next turn.  The mutant goes *)
(* past the last thread.                                                   *)
Past(i, th) == i + th
Turn(i, th) == (i + th) % nbThreads

NextJob ==
    /\ \/ /\ At("lock") /\ block.jobs = <<>>
          /\ Goto(IF block.turn < nbThreads /\ block.each > 0 THEN "pick" ELSE "enter")
       \/ At("pick") /\ nbThreads = 0 /\ Goto("crash")
       \/ /\ At("pick") /\ nbThreads > 0
          /\ block' = [block EXCEPT !.pc = "lock", !.turn = @ + 1,
                           !.jobs = <<Job(Turn(block.turn, block.th), block.each)>>]
    /\ UNCHANGED <<reading, array, lists, life, locked, orphans>>

(* threads[thread], or what the same block goes by. *)
InReach == block.plan.same \/ InMemory(Head(block.jobs).thread)
Target ==
    IF block.plan.same THEN Head(block.jobs).thread ELSE ThreadAt(Head(block.jobs).thread)

(* A mutex that was left locked stops the reading thread for good, a       *)
(* thread beyond the array ends the process.                               *)
Lock ==
    /\ At("lock") /\ block.jobs # <<>>
    /\ \/ ~InReach /\ Goto("crash") /\ UNCHANGED locked
       \/ InReach /\ Target \in locked /\ Goto("stuck") /\ UNCHANGED locked
       \/ InReach /\ Target \notin locked /\ Goto("make") /\ locked' = locked \cup {Target}
    /\ UNCHANGED <<reading, array, lists, life, orphans>>

(* NodeGroupHost::add; the mutant takes the number from the block. *)
NumberInBlock(g) == Len(block.nodes)
Number(g) == nb_local_nodes[g]

Making == At("make") /\ block.k < Head(block.jobs).nb

NewNode(t) == [id |-> Number(block.plan.grp), thread |-> t]
Numbered == nb_local_nodes' = [nb_local_nodes EXCEPT ![block.plan.grp] = @ + 1]

(* instantiate_node, from node_library_instanciate to Thread::add. *)
instantiate_node ==
    /\ Making /\ Installed(block.plan.grp)
    /\ Numbered
    /\ block' = [block EXCEPT !.k = @ + 1, !.nodes = Append(@, NewNode(Target))]
    /\ UNCHANGED <<reading, array, hosts, local_hosts, nb_nodes, life, locked, orphans>>

(* Without the class an assign goes on with its next node, assign_same_as  *)
(* returns, with the mutex locked.                                         *)
NoSuchClass ==
    /\ Making /\ ~Installed(block.plan.grp)
    /\ block' = IF block.plan.same THEN [block EXCEPT !.pc = "enter"] ELSE [block EXCEPT !.k = @ + 1]
    /\ UNCHANGED <<reading, array, lists, life, locked, orphans>>

(* Where the model in which line n is ends. *)
EndOfModel(n) ==
    IF \E i \in n .. Len(script) : script[i].op = "end"
    THEN CHOOSE i \in n .. Len(script) :
            script[i].op = "end" /\ \A j \in n .. i - 1 : script[j].op # "end"
    ELSE Len(script)

(* init() throws, which nobody catches before com_connection_thread: the   *)
(* node has its number but is on no thread, its block is in no list, the   *)
(* mutex stays locked, and the rest of the model is not read.              *)
InitThrows ==
    LET g == block.plan.grp
    IN /\ Making /\ Installed(g) /\ g \in Fragile
       /\ Numbered
       /\ orphans' = [orphans EXCEPT ![g] = @ \cup ToSet(block.nodes) \cup {NewNode(-1)}]
       /\ block' = None /\ plans' = <<>> /\ pos' = EndOfModel(pos)
       /\ UNCHANGED <<script, lib, groups, array, hosts, local_hosts, nb_nodes, life, locked>>

(* The mutant leaves it locked when no node could be made. *)
KeepIfNone(t) == IF block.nodes = <<>> THEN locked ELSE locked \ {t}
Released(t) == locked \ {t}

Unlock ==
    /\ At("make") /\ block.k = Head(block.jobs).nb
    /\ locked' = Released(Target)
    /\ block' = [block EXCEPT !.pc = "lock", !.jobs = Tail(@), !.k = 0]
    /\ UNCHANGED <<reading, array, lists, life, orphans>>

MadeBlock ==
    [host |-> block.plan.host, nodes |-> block.nodes,
     nb |-> IF Local(block.plan.host) THEN Len(block.nodes) ELSE block.plan.nb]

(* The order of add_host, in which others see the block; the mutant counts *)
(* its nodes before it is there.                                           *)
CountedFirst == <<"nb_nodes", "local_hosts", "hosts">>
Order == <<"local_hosts", "hosts", "nb_nodes">>

add_host ==
    LET g == block.plan.grp
        step == Order[block.k + 1]
    IN /\ At("enter") /\ block.k < Len(Order)
       /\ block' = [block EXCEPT !.k = @ + 1]
       /\ local_hosts' = IF step = "local_hosts" /\ Local(block.plan.host)
                         THEN [local_hosts EXCEPT ![g] = Append(@, MadeBlock)] ELSE local_hosts
       /\ hosts' = IF step = "hosts" THEN [hosts EXCEPT ![g] = Append(@, MadeBlock)] ELSE hosts
       /\ nb_nodes' = IF step = "nb_nodes" THEN [nb_nodes EXCEPT ![g] = @ + MadeBlock.nb]
                      ELSE nb_nodes
       /\ UNCHANGED <<reading, array, nb_local_nodes, life, locked, orphans>>

BlockDone ==
    /\ At("enter") /\ block.k = Len(Order)
    /\ block' = None
    /\ UNCHANGED <<reading, array, lists, life, locked, orphans>>

-----------------------------------------------------------------------------
(* The simulation threads that run.                                        *)

(* A node leaves the list of its thread for a while, or has finished; the  *)
(* last one that runs resets bRunning.                                     *)
Leave(t, n) ==
    /\ t < started /\ n \in On(t) \ finished /\ Cardinality(left \cup {n}) <= MaxLeft
    /\ away' = away \cup {n} /\ left' = left \cup {n}
    /\ \/ UNCHANGED <<finished, quitting>>
       \/ /\ finished' = finished \cup {n}
          /\ quitting' = IF On(t) \subseteq finished' THEN quitting \cup {t} ELSE quitting
    /\ UNCHANGED <<reading, array, lists, started, endedAt, locked, block, orphans>>

Return(n) ==
    /\ n \in away \ finished
    /\ away' = away \ {n}
    /\ UNCHANGED <<reading, array, lists, started, quitting, left, finished, endedAt, locked,
                   block, orphans>>

(* What the reading thread does with an index of the array. *)
Indexing == IF block = None \/ block.plan.same THEN "nothing" ELSE block.pc

agml_thread_end(t) ==
    /\ t \in quitting \cap Live
    /\ slots' = Erased(t)
    /\ nbThreads' = nbThreads - 1
    /\ endedAt' = endedAt \cup {Indexing}
    /\ UNCHANGED <<reading, made, lists, started, quitting, away, left, finished, locked, block,
                   orphans>>

Reader ==
    \/ execute_statement_declare_host \/ execute_statement_add_group
    \/ execute_statement_assign \/ assign_same_as \/ agml_threads_start
    \/ NewBlock \/ threads_get_lightest \/ Share \/ NextJob \/ Lock
    \/ instantiate_node \/ NoSuchClass \/ InitThrows \/ Unlock \/ add_host \/ BlockDone

Others ==
    \/ \E t \in 0 .. made - 1 : (\E n \in On(t) : Leave(t, n)) \/ agml_thread_end(t)
    \/ \E n \in left : Return(n)

NextGrowth == Reader \/ Others

SpecGrowth == InitGrowth /\ [][NextGrowth]_growth

-----------------------------------------------------------------------------
Nodes == [id : Nat, thread : Nat]

(* Nodes, mutexes and the memory of the array are of threads that were     *)
(* made, no thread is twice in the array, and the reading thread follows   *)
(* no wrong pointer unless a line names a thread that is not there or the  *)
(* last one has ended.                                                     *)
TypeGrowth ==
    /\ script \in Scripts /\ lib \subseteq Files /\ pos \in 0 .. Len(script)
    /\ groups \in Seq(Groups) /\ made \in Nat /\ started \in 0 .. made
    /\ slots \in Seq(0 .. made - 1) /\ nbThreads \in 0 .. Len(slots)
    /\ \A i, j \in 1 .. nbThreads : slots[i] = slots[j] => i = j
    /\ locked \subseteq 0 .. made - 1 /\ quitting \subseteq 0 .. started - 1
    /\ \A g \in Groups :
          /\ nb_nodes[g] \in Nat /\ nb_local_nodes[g] \in Nat
          /\ \A b \in ToSet(hosts[g]) \cup ToSet(local_hosts[g]) :
                b.host \in Hosts /\ b.nb \in Nat /\ b.nodes \in Seq(Nodes)
          /\ \A n \in NodesOf(g) : n.thread \in -1 .. made - 1
    /\ block # None => block.nodes \in Seq(Nodes)
    /\ At("crash") => nbThreads = 0 \/ block.plan.thread >= Len(slots)
    /\ finished \subseteq away /\ away \subseteq left

(* Nodes are "evenly spread on available threads" (doc/agml_syntax.html:75) *)
(* over a long sequence of models too: the numbers of nodes made on two    *)
(* threads of the array differ by less than the number of threads made,    *)
(* and by one more for each node that left its list, since                 *)
(* threads_get_lightest counts the nodes on the lists only.  Threads may   *)
(* end between blocks; one that ends while nodes are spread shifts the     *)
(* indexes, and a block given up stays as uneven as it is.                 *)
EvenOnly ==
    \A i \in DOMAIN script :
        /\ script[i].op = "host" => i = 1
        /\ script[i].op = "assign" => script[i].thread = -1
        /\ script[i].op # "same"

Steady == endedAt \subseteq {"nothing"}
NothingThrown == \A g \in Groups : orphans[g] = {}

EvenLoads ==
    EvenOnly /\ Steady /\ NothingThrown /\ block = None =>
        \A t, u \in Live : Cardinality(On(t)) - Cardinality(On(u)) < made + Cardinality(left)

(* As long as no init() of the group threw: unless a block of the group is *)
(* in the making, a number below nb_local_nodes is that of a node here, so *)
(* com_decode_local_node, which tests just that, finds it with             *)
(* get_local_node; and NodeGroup::send, which tests nb_nodes too, finds it *)
(* at any moment, if no block of the group is on another host.             *)
AllLocal(g) == \A b \in ToSet(hosts[g]) : Local(b.host)
InMaking(g) == block # None /\ block.plan.grp = g

NodeFound ==
    \A g \in Groups : orphans[g] = {} =>
        /\ ~InMaking(g) =>
              \A id \in 0 .. nb_local_nodes[g] - 1 : get_local_node(g, id).id = id
        /\ InMaking(g) /\ AllLocal(g) /\ Local(block.plan.host) =>
              \A id \in 0 .. Min({nb_nodes[g], nb_local_nodes[g]}) - 1 :
                  get_local_node(g, id).id = id

(* Between blocks no thread's mutex is held, whatever classes are missing, *)
(* unless one was: by assign_same_as for a group whose class is missing,   *)
(* by an init() that threw, or by a thread that ended between LOCK and     *)
(* UNLOCK, so that UNLOCK went to another one.                             *)
LocksFree ==
    /\ block = None /\ NothingThrown /\ "make" \notin endedAt
    /\ \A i \in 1 .. pos : script[i].op = "same" => Installed(script[i].grp)
    => locked = {}
=============================================================================

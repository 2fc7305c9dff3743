----------------------------- MODULE SimThread -----------------------------
(***************************************************************************)
(* The simulation threads of an AGML daemon (simulation/Thread.cpp), the   *)
(* life cycle of a node (agml/node.cpp) and the queues between threads     *)
(* (util/fifo.h).                                                          *)
(*                                                                         *)
(* A simulation thread sleeps on its semaphore until it has an attached    *)
(* node or a queued message, drains its queue, then lets one attached node *)
(* perform one process().  Other threads act on it: the simulation threads *)
(* whose nodes send to its nodes, the connection threads that deliver      *)
(* remote messages (Host::on_receive), and the thread that reads a model,  *)
(* which instantiates nodes and then starts the threads.                   *)
(*                                                                         *)
(* One action is one access to memory that another thread reads or writes. *)
(* A write that makes work visible is followed by a sem_post, a step of    *)
(* its own: post[p] is the thread whose semaphore p is about to post.      *)
(*                                                                         *)
(* bStopped and bHasThread have no variable.  Nothing calls Thread::stop,  *)
(* so bStopped is reset once, before the thread exists, and is TRUE        *)
(* exactly while tpc is "none"; start() then always finds bHasThread FALSE *)
(* and its run() always finds bStopped FALSE.                              *)
(***************************************************************************)
EXTENDS Integers, Sequences, FiniteSets

CONSTANTS
    NbThreads,    \* nb_threads of the local Host statement
    Nodes,        \* the nodes this daemon instantiates
    Workers,      \* those whose init() attaches only once they have data (NodeEM)
    Late,         \* those a second, incremental model request instantiates
    ThreadOf,     \* Node::thread, chosen by NodeGroupHost::instantiate_nodes
    Outs,         \* the neighbours a node may send to
    Conns,        \* the connection threads
    Cfg,          \* the thread that reads the model
    NoThread, NoNode, NoMsg,
    SemGarbage,   \* the values the semaphore may start with: nobody calls sem_init
    MaxMsgs       \* bound: messages sent in a behaviour

Threads == 1 .. NbThreads
Procs == Threads \cup Conns \cup {Cfg}
Kinds == {"data", "work", "finish"}
Messages == [dst : Nodes, kind : Kinds]

ASSUME ConstantsAssumption ==
    /\ NbThreads \in Nat
    /\ Workers \subseteq Nodes
    /\ Late \subseteq Nodes
    /\ ThreadOf \in [Nodes -> Threads]
    /\ Outs \in [Nodes -> SUBSET Nodes]
    /\ SemGarbage \subseteq Nat
    /\ MaxMsgs \in Nat

ASSUME DistinctAssumption ==
    /\ Threads \cap Conns = {}
    /\ Cfg \notin Threads \cup Conns
    /\ NoThread \notin Threads
    /\ NoNode \notin Nodes
    /\ NoMsg \notin Messages

VARIABLES
    tpc,        \* where each simulation thread is in Thread::run
    bRunning, nbRunning,
    tmp,        \* the register of a non-atomic ++ or -- of nb_running_nodes
    clash,      \* history: threads whose ++ and -- overlapped, or came too late
    sem, fifo,
    nodes,      \* Thread::nodes, the attached nodes the scheduler draws from
    post,       \* the thread whose semaphore a process is about to post
    cur,        \* the node whose process() a thread is in
    msg,        \* the message a thread is delivering to a node
    inited, attached, finished,     \* bInited, bAttached, bFinished
    hasData,    \* the node class has its training matrix X
    made,       \* the nodes instantiate_node has created
    addr,       \* the nodes NodeGroup::add_host has made addressable
    threads,    \* the global array of live simulation threads
    cpc, cnode, cidx,               \* the thread that reads the model
    budget      \* what is left of MaxMsgs

runVars == <<bRunning, nbRunning, tmp, clash>>
workVars == <<sem, fifo, nodes, post>>
callVars == <<cur, msg>>
nodeVars == <<inited, attached, finished, hasData>>
cfgVars == <<made, addr, threads, cpc, cnode, cidx>>
vars == <<tpc, runVars, workVars, callVars, nodeVars, cfgVars, budget>>

ThreadPC == {"none", "loop", "fifo?", "wait", "drain", "recv", "sched", "proc",
             "decr", "store", "remove", "end", "dead"}
CfgPC == {"pick", "init", "incr", "store", "attach", "flag", "start", "call", "idle"}

Ended(t) == tpc[t] \in {"end", "dead"}

TypeOK ==
    /\ tpc \in [Threads -> ThreadPC]
    /\ bRunning \in [Threads -> BOOLEAN]
    /\ nbRunning \in [Threads -> Int]
    /\ tmp \in [Threads \cup {Cfg} -> Int]
    /\ clash \subseteq Threads
    /\ sem \in [Threads -> Nat]
    /\ fifo \in [Threads -> Seq(Messages)]
    /\ nodes \in [Threads -> SUBSET Nodes]
    /\ post \in [Procs -> Threads \cup {NoThread}]
    /\ cur \in [Threads -> Nodes \cup {NoNode}]
    /\ msg \in [Threads -> Messages \cup {NoMsg}]
    /\ inited \in [Nodes -> BOOLEAN]
    /\ attached \in [Nodes -> BOOLEAN]
    /\ finished \in [Nodes -> BOOLEAN]
    /\ hasData \in [Nodes -> BOOLEAN]
    /\ made \subseteq Nodes
    /\ addr \subseteq Nodes
    /\ threads \in Seq(Threads)
    /\ cpc \in CfgPC
    /\ cnode \in Nodes \cup {NoNode}
    /\ cidx \in Nat \ {0}
    /\ budget \in Nat

(* As agml_threads_create leaves the daemon, no node instantiated yet. *)
Init ==
    /\ tpc = [t \in Threads |-> "none"]
    /\ bRunning = [t \in Threads |-> FALSE]
    /\ nbRunning = [t \in Threads |-> 0]
    /\ tmp = [p \in Threads \cup {Cfg} |-> 0]
    /\ clash = {}
    /\ sem \in [Threads -> SemGarbage]
    /\ fifo = [t \in Threads |-> <<>>]
    /\ nodes = [t \in Threads |-> {}]
    /\ post = [p \in Procs |-> NoThread]
    /\ cur = [t \in Threads |-> NoNode]
    /\ msg = [t \in Threads |-> NoMsg]
    /\ inited = [n \in Nodes |-> FALSE]
    /\ attached = [n \in Nodes |-> FALSE]
    /\ finished = [n \in Nodes |-> FALSE]
    /\ hasData = [n \in Nodes |-> FALSE]
    /\ made = {}
    /\ addr = {}
    /\ threads = [t \in Threads |-> t]
    /\ cpc = "pick"
    /\ cnode = NoNode
    /\ cidx = 1
    /\ budget = MaxMsgs

-----------------------------------------------------------------------------
(* Waking a thread.                                                        *)

Owe(p, t) == post' = [post EXCEPT ![p] = t]

(* sem_post of the semaphore of the thread the process has given work to. *)
Post(p) ==
    /\ post[p] # NoThread
    /\ sem' = [sem EXCEPT ![post[p]] = @ + 1]
    /\ Owe(p, NoThread)
    /\ UNCHANGED <<tpc, runVars, fifo, nodes, callVars, nodeVars, cfgVars, budget>>

Enqueue(m) ==
    /\ budget > 0
    /\ budget' = budget - 1
    /\ fifo' = [fifo EXCEPT ![ThreadOf[m.dst]] = Append(@, m)]

(* FIFO::push under its lock; the sem_post of push_message comes after.    *)
(* The mutant never posts.                                                 *)
PushSilently(p, m) == Enqueue(m) /\ UNCHANGED post
Push(p, m) == Enqueue(m) /\ Owe(p, ThreadOf[m.dst])

(* A connection thread delivers a remote message to a local node. *)
ConnReceive(c) ==
    /\ post[c] = NoThread
    /\ \E n \in addr, k \in Kinds : Push(c, [dst |-> n, kind |-> k])
    /\ UNCHANGED <<tpc, runVars, sem, nodes, callVars, nodeVars, cfgVars>>

-----------------------------------------------------------------------------
(* Thread::run, up to the delivery of a message or the choice of a node.   *)

At(t, pc) == tpc[t] = pc /\ post[t] = NoThread
Goto(t, pc) == tpc' = [tpc EXCEPT ![t] = pc]

(* The heads of the two outer loops.  bRunning is the thread's own, so its *)
(* test goes with the read of nb_nodes(); fifo.empty() is a later read.    *)
Test(t) ==
    /\ \/ At(t, "loop") /\ ~bRunning[t] /\ Goto(t, "end")
       \/ At(t, "loop") /\ bRunning[t] /\ nodes[t] = {} /\ Goto(t, "fifo?")
       \/ At(t, "loop") /\ bRunning[t] /\ nodes[t] # {} /\ Goto(t, "drain")
       \/ At(t, "fifo?") /\ Goto(t, IF fifo[t] = <<>> THEN "wait" ELSE "drain")
    /\ UNCHANGED <<runVars, workVars, callVars, nodeVars, cfgVars, budget>>

(* The value sem_wait returns on; the mutant returns on any. *)
AnyValue(t) == TRUE
Positive(t) == sem[t] > 0

(* sem_wait, then back to the tests (bRunning is still TRUE). *)
Wake(t) ==
    /\ At(t, "wait")
    /\ Positive(t)
    /\ sem' = [sem EXCEPT ![t] = @ - 1]
    /\ Goto(t, "loop")
    /\ UNCHANGED <<runVars, fifo, nodes, post, callVars, nodeVars, cfgVars, budget>>

(* FIFO::pop. *)
Dequeue(t) == fifo' = [fifo EXCEPT ![t] = Tail(@)]

(* Only the thread itself pops, so its emptiness test and pop are one step. *)
Drain(t) ==
    /\ At(t, "drain")
    /\ \/ /\ fifo[t] # <<>>
          /\ msg' = [msg EXCEPT ![t] = Head(fifo[t])]
          /\ Dequeue(t)
          /\ Goto(t, "recv")
       \/ fifo[t] = <<>> /\ Goto(t, "sched") /\ UNCHANGED <<msg, fifo>>
    /\ UNCHANGED <<runVars, sem, nodes, post, cur, nodeVars, cfgVars, budget>>

-----------------------------------------------------------------------------
(* Node life cycle, as the node's own thread performs it.  A second owed   *)
(* post of the same step (a worker that detaches, then attaches in one     *)
(* call) is left out: it only causes a spurious wake-up.                   *)

listVars == <<nodes, attached, post>>

(* Node::attach.  Nobody but t looks at the flag of an addressable node,   *)
(* so it is set together with the insertion.                               *)
AttachSelf(t, n) ==
    IF attached[n]
    THEN UNCHANGED listVars
    ELSE /\ nodes' = [nodes EXCEPT ![t] = @ \cup {n}]
         /\ attached' = [attached EXCEPT ![n] = TRUE]
         /\ Owe(t, t)

(* What Node::detach leaves in bAttached; the mutant forgets the reset. *)
FlagKept(n) == UNCHANGED attached
FlagReset(n) == attached' = [attached EXCEPT ![n] = FALSE]

DetachSelf(t, n) ==
    IF ~attached[n]
    THEN UNCHANGED listVars
    ELSE /\ nodes' = [nodes EXCEPT ![t] = @ \ {n}]
         /\ FlagReset(n)
         /\ Owe(t, t)

(* init() of the node classes: a worker without data detaches itself. *)
InitNode(t, n, data) ==
    IF n \notin Workers THEN UNCHANGED listVars
    ELSE IF data THEN AttachSelf(t, n) ELSE DetachSelf(t, n)

(* The thread has left on_receive: back to the process() that sent the     *)
(* message when it was delivered directly, else to the queue.              *)
Received(t) ==
    /\ msg' = [msg EXCEPT ![t] = NoMsg]
    /\ Goto(t, IF cur[t] = NoNode THEN "drain" ELSE "proc")

(* Node::_receive: the lazy _init(), then on_receive.  A training set      *)
(* makes a worker attach; AGML_FINISH makes it call Node::finish, which    *)
(* does nothing the second time.                                           *)
Receive(t) ==
    /\ At(t, "recv")
    /\ LET n == msg[t].dst
           training == n \in Workers /\ msg[t].kind = "work"
           finishes == n \in Workers /\ msg[t].kind = "finish"
       IN /\ hasData' = [hasData EXCEPT ![n] = @ \/ training]
          /\ inited' = [inited EXCEPT ![n] = TRUE]
          /\ finished' = [finished EXCEPT ![n] = @ \/ finishes]
          /\ IF training \/ ~inited[n]
             THEN InitNode(t, n, hasData[n] \/ training)
             ELSE UNCHANGED listVars
          /\ IF finishes /\ ~finished[n]
             THEN Goto(t, "decr") /\ UNCHANGED msg
             ELSE Received(t)
    /\ UNCHANGED <<runVars, sem, fifo, cur, cfgVars, budget>>

(* The test of bAttached after _init(). *)
StillAttached(n) == attached'[n]

(* draw_random_node, the lazy _init(), then process() if still attached. *)
DrawNode(t, n) ==
    /\ ~finished[n]
    /\ inited' = [inited EXCEPT ![n] = TRUE]
    /\ IF inited[n] THEN UNCHANGED listVars ELSE InitNode(t, n, hasData[n])
    /\ IF StillAttached(n)
       THEN Goto(t, "proc") /\ cur' = [cur EXCEPT ![t] = n]
       ELSE Goto(t, "loop") /\ UNCHANGED cur

(* No node to draw, or a finished one: back to the loop. *)
Draw(t) ==
    /\ At(t, "sched")
    /\ \/ \E n \in nodes[t] : DrawNode(t, n)
       \/ /\ nodes[t] = {} \/ \E n \in nodes[t] : finished[n]
          /\ Goto(t, "loop")
          /\ UNCHANGED <<listVars, inited, cur>>
    /\ UNCHANGED <<runVars, sem, fifo, msg, finished, hasData, cfgVars, budget>>

-----------------------------------------------------------------------------
(* process() of the node cur[t]: any number of sends, then it finishes or  *)
(* returns.                                                                *)

(* The choice send makes; the mutant calls the node from any thread. *)
AnyThread(t, n) == TRUE
SameThread(t, n) == ThreadOf[n] = t

(* NodeGroup::send to a local node: delivered inside this very process()   *)
(* when both nodes share the thread, else copied to the other's queue.     *)
Send(t) ==
    /\ At(t, "proc")
    /\ \E n \in Outs[cur[t]] \cap addr, k \in Kinds :
          IF SameThread(t, n)
          THEN /\ budget > 0
               /\ budget' = budget - 1
               /\ msg' = [msg EXCEPT ![t] = [dst |-> n, kind |-> k]]
               /\ Goto(t, "recv")
               /\ UNCHANGED <<fifo, post>>
          ELSE Push(t, [dst |-> n, kind |-> k]) /\ UNCHANGED <<msg, tpc>>
    /\ UNCHANGED <<runVars, sem, nodes, cur, nodeVars, cfgVars>>

(* process() returns, after Node::finish if it is done for good. *)
Return(t) ==
    /\ At(t, "proc")
    /\ \/ /\ Goto(t, "loop")
          /\ cur' = [cur EXCEPT ![t] = NoNode]
          /\ UNCHANGED finished
       \/ /\ ~finished[cur[t]]
          /\ finished' = [finished EXCEPT ![cur[t]] = TRUE]
          /\ Goto(t, "decr")
          /\ UNCHANGED cur
    /\ UNCHANGED <<runVars, workVars, msg, inited, attached, hasData, cfgVars, budget>>

(* The node a thread is finishing: it got FINISH, or it is in process(). *)
Finishing(t) == IF msg[t] # NoMsg THEN msg[t].dst ELSE cur[t]

(* Marks a thread in the history variable clash if the condition holds.    *)
Clash(t, cond) == clash' = clash \cup {u \in {t} : cond}

(* Thread::remove: nb_running_nodes-- is a read, then a write, unlocked.   *)
(* The counter is a uint; it is only compared to 0, which the integer and  *)
(* its value modulo 2^32 reach together.                                   *)
Decrement(t) ==
    /\ \/ /\ At(t, "decr")
          /\ tmp' = [tmp EXCEPT ![t] = nbRunning[t]]
          /\ Clash(t, cpc = "store" /\ ThreadOf[cnode] = t)
          /\ Goto(t, "store")
          /\ UNCHANGED nbRunning
       \/ /\ At(t, "store")
          /\ nbRunning' = [nbRunning EXCEPT ![t] = tmp[t] - 1]
          /\ Goto(t, "remove")
          /\ UNCHANGED <<tmp, clash>>
    /\ UNCHANGED <<bRunning, workVars, callVars, nodeVars, cfgVars, budget>>

(* The count at which remove stops the loop, and two mutants of it. *)
OneLeft(t) == nbRunning[t] <= 1
Never(t) == FALSE
NoneRunning(t) == nbRunning[t] = 0

(* The rest of Thread::remove: the last running node stops the loop, and   *)
(* the node is detached.                                                   *)
RemoveNode(t) ==
    /\ At(t, "remove")
    /\ bRunning' = [bRunning EXCEPT ![t] = @ /\ ~NoneRunning(t)]
    /\ DetachSelf(t, Finishing(t))
    /\ IF msg[t] # NoMsg
       THEN Received(t) /\ UNCHANGED cur
       ELSE Goto(t, "loop") /\ cur' = [cur EXCEPT ![t] = NoNode] /\ UNCHANGED msg
    /\ UNCHANGED <<nbRunning, tmp, clash, sem, fifo, inited, finished, hasData, cfgVars, budget>>

(* The loop is over: agml_thread_end takes the thread out of the array. *)
ThreadEnd(t) ==
    /\ At(t, "end")
    /\ \E i \in DOMAIN threads :
          /\ threads[i] = t
          /\ threads' = SubSeq(threads, 1, i - 1) \o SubSeq(threads, i + 1, Len(threads))
    /\ Goto(t, "dead")
    /\ UNCHANGED <<runVars, workVars, callVars, nodeVars, made, addr, cpc, cnode, cidx, budget>>

ThreadStep(t) ==
    \/ Test(t) \/ Wake(t) \/ Drain(t) \/ Receive(t) \/ Draw(t) \/ Send(t)
    \/ Return(t) \/ Decrement(t) \/ RemoveNode(t) \/ ThreadEnd(t)

-----------------------------------------------------------------------------
(* The thread that reads a model: the nodes of an assign statement are     *)
(* instantiated one by one, then agml_threads_start starts the threads.    *)

CfgAt(pc) == cpc = pc /\ post[Cfg] = NoThread
others == <<tpc, bRunning, sem, fifo, callVars, inited, finished, hasData, threads, budget>>

(* What the request at hand still instantiates: the nodes of its batch     *)
(* whose thread is in the array instantiate_nodes indexes.                 *)
Batch == {n \in IF (Nodes \ Late) \subseteq addr THEN Late ELSE Nodes \ Late :
             n \in made \/ \E i \in DOMAIN threads : threads[i] = ThreadOf[n]}

(* instantiate_node up to its call of n->init(); in that call, without     *)
(* data, no node class attaches.                                           *)
Instantiate ==
    /\ \/ /\ CfgAt("pick")
          /\ \E n \in Batch \ made : cnode' = n /\ made' = made \cup {n}
          /\ cpc' = "init"
       \/ CfgAt("init") /\ cpc' = "incr" /\ UNCHANGED <<cnode, made>>
    /\ UNCHANGED <<others, nbRunning, tmp, clash, nodes, post, attached, addr, cidx>>

(* Thread::add: nb_running_nodes++ is a read, then a write; the lock the   *)
(* caller holds is not one the running thread takes.                       *)
Increment ==
    /\ \/ /\ CfgAt("incr")
          /\ tmp' = [tmp EXCEPT ![Cfg] = nbRunning[ThreadOf[cnode]]]
          /\ Clash(ThreadOf[cnode], tpc[ThreadOf[cnode]] = "store")
          /\ cpc' = "store"
          /\ UNCHANGED nbRunning
       \/ /\ CfgAt("store")
          /\ nbRunning' = [nbRunning EXCEPT ![ThreadOf[cnode]] = tmp[Cfg] + 1]
          /\ Clash(ThreadOf[cnode], tpc[ThreadOf[cnode]] # "none" /\ ~bRunning[ThreadOf[cnode]])
          /\ cpc' = "attach"
          /\ UNCHANGED tmp
    /\ UNCHANGED <<others, nodes, post, attached, made, addr, cnode, cidx>>

(* Node::attach from the outside inserts, posts, and only then sets        *)
(* bAttached.  The mutant of the last step forgets it.                     *)
NotFlagged(n) == UNCHANGED attached
Flagged(n) == attached' = [attached EXCEPT ![n] = TRUE]

Attach ==
    /\ \/ /\ CfgAt("attach")
          /\ nodes' = [nodes EXCEPT ![ThreadOf[cnode]] = @ \cup {cnode}]
          /\ Owe(Cfg, ThreadOf[cnode])
          /\ cpc' = "flag"
          /\ UNCHANGED <<attached, cnode>>
       \/ /\ CfgAt("flag")
          /\ Flagged(cnode)
          /\ cpc' = "pick"
          /\ cnode' = NoNode
          /\ UNCHANGED <<nodes, post>>
    /\ UNCHANGED <<others, nbRunning, tmp, clash, made, addr, cidx>>

(* add_host publishes the nodes of the statement, the last of the model. *)
Publish ==
    /\ CfgAt("pick")
    /\ Batch \subseteq made
    /\ addr' = addr \cup Batch
    /\ cpc' = "start"
    /\ cidx' = 1
    /\ UNCHANGED <<others, nbRunning, tmp, clash, nodes, post, attached, made, cnode>>

(* The loop of agml_threads_start: the test of its index, then start() of  *)
(* the thread at that index, each on the array of its moment; a slot the   *)
(* array has given up in between still holds some thread it held before.   *)
(* start() does nothing to a thread that is already started.               *)
Start ==
    /\ \/ /\ CfgAt("start")
          /\ cpc' = IF cidx <= Len(threads) THEN "call" ELSE "idle"
          /\ UNCHANGED <<tpc, bRunning, post, cidx>>
       \/ /\ CfgAt("call")
          /\ \E t \in Threads :
                /\ cidx <= Len(threads) => t = threads[cidx]
                /\ IF tpc[t] = "none"
                   THEN /\ Goto(t, "loop")
                        /\ bRunning' = [bRunning EXCEPT ![t] = TRUE]
                        /\ Owe(Cfg, t)
                   ELSE UNCHANGED <<tpc, bRunning, post>>
          /\ cpc' = "start"
          /\ cidx' = cidx + 1
    /\ UNCHANGED <<nbRunning, tmp, clash, sem, fifo, nodes, callVars, nodeVars, made, addr,
                   threads, cnode, budget>>

CfgStep == Instantiate \/ Increment \/ Attach \/ Publish \/ Start

(* A further model request; it may never come. *)
Incremental ==
    /\ CfgAt("idle")
    /\ ~(Batch \subseteq made)
    /\ cpc' = "pick"
    /\ UNCHANGED <<others, nbRunning, tmp, clash, nodes, post, attached, made, addr, cnode, cidx>>

-----------------------------------------------------------------------------
Next ==
    \/ \E p \in Procs : Post(p)
    \/ \E t \in Threads : ThreadStep(t)
    \/ \E c \in Conns : ConnReceive(c)
    \/ CfgStep
    \/ Incremental

Spec == Init /\ [][Next]_vars

(* Every operating-system thread that can run is eventually scheduled;     *)
(* remote messages and further model requests need never come.             *)
Fairness ==
    /\ \A p \in Procs : WF_vars(Post(p))
    /\ \A t \in Threads : WF_vars(ThreadStep(t))
    /\ WF_vars(CfgStep)

FairSpec == Spec /\ Fairness

-----------------------------------------------------------------------------
(* A thread sleeping on a zero semaphore with work to do has a wake-up on  *)
(* its way: somebody is about to sem_post (Thread::run line 112 against    *)
(* attach, detach and push_message).                                       *)
NoLostWakeup ==
    \A t \in Threads :
        /\ tpc[t] = "wait" /\ sem[t] = 0
        /\ nodes[t] # {} \/ fifo[t] # <<>>
        => \E p \in Procs : post[p] = t

(* A node is in the scheduler list exactly when its flag says so, so that  *)
(* the list never holds it twice and detach never leaves it behind; but    *)
(* for the window of Node::attach in the thread that reads a model.        *)
Attachment ==
    \A n \in Nodes :
        (attached[n] <=> n \in nodes[ThreadOf[n]]) \/ (cpc = "flag" /\ cnode = n)

(* "the init(), process(), or on_receive() methods are guaranteed to be    *)
(* never called simultaneously for a same Node" (doc/tutorial_3.html:52):  *)
(* no node is in two of them at a time.                                    *)
Exclusive ==
    \A n \in Nodes :
        LET processing == {t \in Threads : cur[t] = n}
            receiving == {t \in Threads : msg[t] # NoMsg /\ msg[t].dst = n}
        IN /\ \A t \in processing, u \in processing : t = u
           /\ \A t \in receiving, u \in receiving : t = u
           /\ processing = {} \/ receiving = {}
           /\ cpc = "init" /\ cnode = n => processing = {} /\ receiving = {}

(* The nodes Thread::add has counted. *)
Counted(n) == n \in made /\ ~(cpc \in {"init", "incr", "store"} /\ cnode = n)

(* A thread leaves its loop only when each node counted on it has          *)
(* finished, also when a later request adds nodes to the running thread,   *)
(* unless the unlocked ++ of Thread::add and -- of Thread::remove (lines   *)
(* 66 and 71) overlapped or the node came when the loop was over.          *)
ThreadExitSound ==
    \A t \in Threads :
        Ended(t) /\ t \notin clash =>
            \A n \in Nodes : Counted(n) /\ ThreadOf[n] = t => finished[n]

(* The queue of a started thread is eventually drained, unless the thread  *)
(* has ended (push_message against the tests of Thread::run).              *)
Delivered ==
    \A t \in Threads :
        tpc[t] # "none" /\ fifo[t] # <<>> ~> fifo[t] = <<>> \/ Ended(t)

(* "This command executes the model, and stops then every node has         *)
(* converged" (doc/tutorial_1.html:82): a started thread whose nodes have  *)
(* all finished ends, if it had a node to begin with and got none later.   *)
Termination ==
    \A t \in Threads :
        /\ tpc[t] # "none"
        /\ \E n \in Nodes \ Late : ThreadOf[n] = t
        /\ \A n \in Nodes : ThreadOf[n] = t => n \notin Late /\ finished[n]
        ~> tpc[t] = "dead"
=============================================================================

------------------------------- MODULE Gossip -------------------------------
(***************************************************************************)
(* The model of the tutorials: data nodes feed the rows of a file to       *)
(* workers (agml/nodes/data/NodeData.cpp), which run gossip k-means        *)
(* (agml_node_clustering/NodeEM.cpp, NodeKMeans.cpp).                      *)
(*                                                                         *)
(* The scheduler never runs two handlers of a node at a time (SimThread),  *)
(* so a handler is a step here.  A message to a node of the same thread is *)
(* handled within it, one to another thread goes to a queue; sends to      *)
(* another daemon may fail and then return false (NodeGroup::send_out).    *)
(*                                                                         *)
(* Only weights are modelled: the sums S and s_MSE go through the same     *)
(* operations as w and w0.  A weight of 1 is Unit, so that halving stays   *)
(* in the integers; in floats it is exact as well.                         *)
(***************************************************************************)
EXTENDS Integers, Sequences, FiniteSets, Functions

CONSTANTS
    Feeders,        \* data nodes, linked to all workers
    N,              \* number of workers
    Height,         \* the number of rows each feeder reads
    K,              \* number of clusters
    M,              \* sends between two E-steps
    Patience,       \* epsilon_t: E-steps in a row without progress to converge
    SelfLink,       \* workers are linked to themselves as well (-o>)
    Thread,         \* where each feeder and each worker runs
    Flaky,          \* the pairs of nodes between which a send may fail
    Unit,           \* bound: a weight of 1 can be halved log2(Unit) times
    MaxQueue        \* bound: no codebook, and no further finish, is sent to a
                    \* queue that is longer

Workers == 0 .. N - 1
Clusters == 1 .. K
Rows == UNION {{f} \X (0 .. Height[f] - 1) : f \in Feeders}

ASSUME ConstantsAssumption ==
    /\ Feeders \cap Workers = {}
    /\ N \in Nat \ {0} /\ K \in Nat \ {0} /\ M \in Nat /\ Patience \in Nat \ {0}
    /\ Height \in [Feeders -> Nat \ {0}]
    /\ Flaky \subseteq (Feeders \cup Workers) \X Workers
    /\ \A p \in Flaky : Thread[p[1]] # Thread[p[2]]
    /\ SelfLink \in BOOLEAN
    /\ Unit \in Nat \ {0} /\ MaxQueue \in Nat \ {0}

VARIABLES
    ack,        \* the workers each feeder has sent their part to
    done,       \* the feeders that have finished
    node,       \* the state of each worker
    queue       \* what waits for each worker in the queue of its thread

vars == <<ack, done, node, queue>>

Weights == [Clusters -> Int]

Messages ==
    [kind : {"data"}, rows : SUBSET Rows]
    \cup [kind : {"codebook"}, w : Weights, w0 : Nat]
    \cup [kind : {"finish"}]

(* given and lost are history: the weight a worker brought in, and what it *)
(* was sent before it could take it.                                       *)
States == [rows : SUBSET Rows, w : Weights, w_new : Weights, w0 : Nat,
           m : 0 .. M, tepsilon : 0 .. Patience,
           attached : BOOLEAN, finished : BOOLEAN, given : Nat, lost : Nat]

TypeOK ==
    /\ ack \in [Feeders -> SUBSET Workers]
    /\ done \subseteq Feeders
    /\ node \in [Workers -> States]
    /\ queue \in [Workers -> Seq(Messages)]

Zero == [k \in Clusters |-> 0]

(* init() of a worker that has no data only detaches it: start after that; *)
(* the node library creates nodes with new cls(), which zeroes the fields. *)
Init ==
    /\ ack = [f \in Feeders |-> {}]
    /\ done = {}
    /\ node = [a \in Workers |->
                 [rows |-> {}, w |-> Zero, w_new |-> Zero, w0 |-> 0, m |-> 0,
                  tepsilon |-> 0, attached |-> FALSE, finished |-> FALSE,
                  given |-> 0, lost |-> 0]]
    /\ queue = [a \in Workers |-> <<>>]

-----------------------------------------------------------------------------
(* Matrix::part: part i of k of h rows; the last takes what remains. *)
PartOf(h, i, k) ==
    LET q == h \div k
    IN IF q = 0 THEN {i} \cap (0 .. h - 1)
       ELSE i * q .. (IF i = k - 1 THEN h - 1 ELSE i * q + q - 1)

Part(f, a) == {f} \X PartOf(Height[f], a, N)

Outs(a) == IF SelfLink THEN Workers ELSE Workers \ {a}

(* The weight of each cluster when c assigns the rows. *)
Count(c, rows) == [k \in Clusters |-> Unit * Cardinality({r \in rows : c[r] = k})]

Trained(s) == s.given # 0

-----------------------------------------------------------------------------
(* What the handlers of a worker in state s do.                            *)

(* NodeKMeans::init with data: only the first set makes the codebook; c is *)
(* the random assignment of init_codebook.                                 *)
Train(s, rows, c) ==
    LET t == [s EXCEPT !.rows = rows, !.attached = TRUE, !.tepsilon = 0]
        n == Count(c, rows)
    IN IF Trained(s) THEN t
       ELSE [t EXCEPT !.w = n, !.w_new = n,
                      !.w0 = Unit * Cardinality(rows), !.given = Unit * Cardinality(rows)]

(* the_end, Node::finish *)
TheEnd(s) == IF s.finished THEN s ELSE [s EXCEPT !.finished = TRUE, !.attached = FALSE]

(* A codebook that comes before the data has other dimensions than the     *)
(* empty S: operator+= throws and the message is gone.                     *)
Merge(s, m) ==
    IF Trained(s)
    THEN [s EXCEPT !.w = [k \in Clusters |-> @[k] + m.w[k]], !.w0 = @ + m.w0]
    ELSE [s EXCEPT !.lost = @ + m.w0]

OnReceive(s, m, c) ==
    CASE m.kind = "data" -> Train(s, m.rows, c)
      [] m.kind = "codebook" -> Merge(s, m)
      [] m.kind = "finish" -> TheEnd(s)

(* The second half of E_step.  The mutant forgets the old assignment. *)
KeepOld(s, c) ==
    [s EXCEPT !.w = [k \in Clusters |-> @[k] + Count(c, s.rows)[k]],
              !.w_new = Count(c, s.rows)]
Reassign(s, c) ==
    [s EXCEPT !.w = [k \in Clusters |-> @[k] - s.w_new[k] + Count(c, s.rows)[k]],
              !.w_new = Count(c, s.rows)]

Even(s) == s.w0 % 2 = 0 /\ \A k \in Clusters : s.w[k] % 2 = 0

Halve(s) == [s EXCEPT !.w = [k \in Clusters |-> @[k] \div 2], !.w0 = @ \div 2]

(* What M_step does after a failed send.  The mutant forgets it. *)
StayHalf(s) == s
Double(s) == [s EXCEPT !.w = [k \in Clusters |-> 2 * @[k]], !.w0 = 2 * @]

-----------------------------------------------------------------------------
(* Node a sends the messages ms, a function on some workers, when the      *)
(* workers are in the states nd: the new states and queues.                *)

SameThread(a, b) == Thread[a] = Thread[b]

Handled(nd, a, ms, c) ==
    [b \in Workers |-> IF b \in DOMAIN ms /\ SameThread(a, b)
                       THEN OnReceive(nd[b], ms[b], c) ELSE nd[b]]

Queued(a, ms) ==
    [b \in Workers |-> IF b \in DOMAIN ms /\ ~SameThread(a, b)
                       THEN Append(queue[b], ms[b]) ELSE queue[b]]

(* The sets of the targets T that sends of a may succeed for. *)
Successes(a, T) == {ok \in SUBSET T : \A b \in T \ ok : <<a, b>> \in Flaky}

(* NodeData::process: the workers that are marked after the sends to ok.   *)
(* The mutants do not look at the result of send, and never mark a worker  *)
(* whose part is empty.                                                    *)
MarkAll(f, ok) == Workers
MarkSent(f, ok) == ack[f] \cup ok
Mark(f, ok) == ack[f] \cup ok \cup {b \in Workers : Part(f, b) = {}}

(* Whom a worker tells that it has converged.  The mutant tells nobody. *)
Nobody(a) == {}
Told(a) == Outs(a)

(* process() makes an E-step.  The mutant is off by one. *)
LateE(s) == s.m > M
TimeForE(s) == s.m >= M

-----------------------------------------------------------------------------
(* The steps.                                                              *)

Feed(f, ok) ==
    \E c \in [{f} \X (0 .. Height[f] - 1) -> Clusters] :
        LET ms == [b \in ok |-> [kind |-> "data", rows |-> Part(f, b)]]
        IN /\ node' = Handled(node, f, ms, c)
           /\ queue' = Queued(f, ms)
           /\ ack' = [ack EXCEPT ![f] = Mark(f, ok)]
           /\ UNCHANGED done

FeederProcess(f) ==
    /\ f \notin done
    /\ IF ack[f] = Workers
       THEN done' = done \cup {f} /\ UNCHANGED <<ack, node, queue>>
       ELSE \E ok \in Successes(f, {b \in Workers \ ack[f] : Part(f, b) # {}}) : Feed(f, ok)

(* compute_codebook with check_termination, whose outcome depends on the   *)
(* values, then the new assignment c.                                      *)
EStep(a) ==
    /\ node[a].attached /\ node[a].rows # {}
    /\ TimeForE(node[a]) \/ Outs(a) = {}
    /\ node[a].finished => \A b \in Workers : Len(queue[b]) < MaxQueue
    /\ \E t \in {0, IF node[a].tepsilon < Patience THEN node[a].tepsilon + 1 ELSE Patience} :
       \E c \in [node[a].rows -> Clusters] :
       \E ok \in Successes(a, IF t = Patience THEN Told(a) ELSE {}) :
          LET ms == [b \in ok |-> [kind |-> "finish"]]
              nd == Handled([node EXCEPT ![a].tepsilon = t], a, ms, c)
              s == IF t = Patience THEN TheEnd(nd[a]) ELSE nd[a]
          IN /\ node' = [nd EXCEPT ![a] = [Reassign(s, c) EXCEPT !.m = 0]]
             /\ queue' = Queued(a, ms)
    /\ UNCHANGED <<ack, done>>

MStep(a) ==
    /\ node[a].attached /\ node[a].rows # {}
    /\ ~TimeForE(node[a])
    /\ Even(node[a])
    /\ \E b \in Outs(a) :
       \E ok \in Successes(a, {b}) :
          LET s == [Halve(node[a]) EXCEPT !.m = @ + 1]
              ms == [x \in ok |-> [kind |-> "codebook", w |-> s.w, w0 |-> s.w0]]
          IN /\ SameThread(a, b) \/ Len(queue[b]) < MaxQueue
             /\ node' = Handled([node EXCEPT ![a] = IF b \in ok THEN s ELSE Double(s)], a, ms, <<>>)
             /\ queue' = Queued(a, ms)
    /\ UNCHANGED <<ack, done>>

Receive(a) ==
    /\ queue[a] # <<>>
    /\ queue' = [queue EXCEPT ![a] = Tail(@)]
    /\ LET m == Head(queue[a])
       IN \E c \in IF m.kind = "data" THEN [m.rows -> Clusters] ELSE {<<>>} :
             node' = [node EXCEPT ![a] = OnReceive(@, m, c)]
    /\ UNCHANGED <<ack, done>>

Next ==
    \/ \E f \in Feeders : FeederProcess(f)
    \/ \E a \in Workers : EStep(a) \/ MStep(a) \/ Receive(a)

Spec == Init /\ [][Next]_vars

(* A thread that has a node that did not finish goes on draining its queue *)
(* and drawing its nodes (SimThread); a send that is repeated again and    *)
(* again succeeds at last.                                                 *)
Fairness ==
    /\ \A f \in Feeders :
          /\ WF_vars(FeederProcess(f))
          /\ SF_vars(f \notin done
                     /\ Feed(f, {b \in Workers \ ack[f] : Part(f, b) # {}}))
    /\ \A a \in Workers : WF_vars(~node[a].finished /\ Receive(a))

FairSpec == Spec /\ Fairness

-----------------------------------------------------------------------------
(* Gossip moves weight and neither makes nor destroys it ("will converge   *)
(* to the global average", doc/tutorial_3.html): what the workers and the  *)
(* queued codebooks hold is what the training sets brought in, but for the *)
(* codebooks that reached a worker before its data (M_step, on_receive).   *)
WeightOf(m) == IF m.kind = "codebook" THEN m.w0 ELSE 0
Waiting(q) == SumFunction([i \in DOMAIN q |-> WeightOf(q[i])])
Held(a) == node[a].w0 + node[a].lost + Waiting(queue[a])

MassConserved ==
    SumFunction([a \in Workers |-> Held(a)]) = SumFunction([a \in Workers |-> node[a].given])

(* The weights of the clusters add up to w0, by which MSE is divided, in   *)
(* every worker and in every codebook on its way, if all the sets a worker *)
(* gets have the same number of rows (E_step, M_step, on_receive, init).   *)
EqualSets == \A f, g \in Feeders : Height[f] = Height[g]

Balanced ==
    EqualSets =>
        \A a \in Workers :
            /\ SumFunction(node[a].w) = node[a].w0
            /\ \A i \in DOMAIN queue[a] :
                  queue[a][i].kind = "codebook" => SumFunction(queue[a][i].w) = queue[a][i].w0

(* "all destination nodes get an equally-sized and distinct sample (if     *)
(* possible)" (doc/tutorial_4.html): when a data node has finished, each   *)
(* of its rows is with one worker only, in its queue or in its training    *)
(* set, unless a set of another data node has replaced that.               *)
Holds(a, r) ==
    \/ r \in node[a].rows
    \/ \E i \in DOMAIN queue[a] : queue[a][i].kind = "data" /\ r \in queue[a][i].rows

Fed ==
    \A r \in Rows :
        LET holders == {a \in Workers : Holds(a, r)}
        IN /\ Cardinality(holders) <= 1
           /\ r[1] \in done /\ holders = {} =>
                 \E a \in Workers : r \in Part(r[1], a)
                                    /\ \E x \in node[a].rows : x[1] # r[1]

(* A data node repeats what failed until all workers have their part. *)
EveryoneFed == \A f \in Feeders : <>(f \in done)

(* Where no send between workers fails, one that has converged ends all    *)
(* (check_termination, AGML_FINISH).                                       *)
AllFinish ==
    (\E a \in Workers : node[a].finished) ~> (\A a \in Workers : node[a].finished)
=============================================================================

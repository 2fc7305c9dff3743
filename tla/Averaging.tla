----------------------------- MODULE Averaging ------------------------------
(***************************************************************************)
(* Averaging by gossip (NodeAvg) of the rows that data nodes hand out      *)
(* (NodeData), with a node that only keeps what it is given                *)
(* (NodeEvalKMeans), seen from the memory their matrices are in.  A        *)
(* message to a node of the same thread carries pointers into the sender's *)
(* matrix; one to another thread is copied, and whoever takes the copy out *)
(* of the message owns it (com/message.cpp, common/Message.cpp).           *)
(*                                                                         *)
(* All nodes are initialised: workers have no rows and are detached.       *)
(***************************************************************************)
EXTENDS Integers, Sequences, FiniteSets, Functions, Matrices

CONSTANTS
    Feeders,        \* data nodes: 1 .. their number
    Heights,        \* of their matrices
    Workers, Keepers,
    Targets,        \* the neighbours of a data node, in order
    Outs,           \* the neighbours of each worker
    Thread,         \* of each node
    Flaky,          \* pairs of nodes between which a send may fail
    Unit,           \* weight of a training set, a power of 2
    MaxQueue,       \* bound: messages on the way to a node
    MaxBuf          \* bound: buffers

Nodes == Workers \cup Keepers
N == Len(Targets)

ASSUME ConstantsAssumption ==
    /\ IsFiniteSet(Feeders) /\ Feeders = 1 .. Cardinality(Feeders)
    /\ IsFiniteSet(Nodes) /\ Feeders \cap Nodes = {} /\ Workers \cap Keepers = {}
    /\ Heights \subseteq Nat \ {0} /\ Heights # {}
    /\ Targets \in Seq(Nodes) /\ Outs \in [Workers -> SUBSET Workers]
    /\ \A n \in Workers : n \notin Outs[n]
    /\ Thread \in [Feeders \cup Nodes -> STRING]
    /\ Flaky \subseteq {p \in (Feeders \cup Nodes) \X Nodes : Thread[p[1]] # Thread[p[2]]}
    /\ Unit \in Nat /\ MaxQueue \in Nat /\ MaxBuf \in Nat

VARIABLES
    heap,           \* the live buffers
    X, S, w,        \* of each node
    attached,       \* workers whose thread calls process()
    queue,          \* messages to each node that its thread has not taken
    ack,            \* the parts each data node has sent
    pass,           \* those it has yet to try in this call of process()
    dirty,          \* rows of the data nodes that someone has overwritten
    fed             \* number of training sets that workers were given

vars == <<heap, X, S, w, attached, queue, ack, pass, dirty, fed>>
feeding == <<ack, pass, fed>>

Messages == [channel : {"TRAINING_DATA", "GRADIENT"}, mat : SomeMatrix, w : Nat]

TypeOK ==
    /\ IsHeap(heap)
    /\ X \in [Feeders \cup Nodes -> SomeMatrix] /\ S \in [Workers -> SomeMatrix]
    /\ w \in [Workers -> Nat]
    /\ attached = {n \in Workers : HasData(S[n])}
    /\ queue \in [Nodes -> Seq(Messages)]
    /\ ack \in [Feeders -> SUBSET (1 .. N)] /\ pass \in [Feeders -> SUBSET (1 .. N)]
    /\ dirty \subseteq Feeders \X Nat
    /\ fed \in Nat

(* NodeData::init has generated the rows, in a buffer with the node's name. *)
Init ==
    /\ heap \in [Feeders -> Heights]
    /\ X = [n \in Feeders \cup Nodes |->
               IF n \in Feeders THEN [buf |-> n, off |-> 0, height |-> heap[n], own |-> TRUE]
               ELSE NoMatrix]
    /\ S = [n \in Workers |-> NoMatrix] /\ w = [n \in Workers |-> 0]
    /\ attached = {} /\ queue = [n \in Nodes |-> <<>>]
    /\ ack = [f \in Feeders |-> {}] /\ pass = [f \in Feeders |-> {}]
    /\ dirty = {} /\ fed = 0

-----------------------------------------------------------------------------
(* message_get_matrix: the matrix owns the data if the message had         *)
(* allocated it, and the message does no longer.  One mutant does not own, *)
(* in the other the message frees what was taken out of it.                *)
NotOwned(m) == [m EXCEPT !.own = FALSE]
Taken(m) == m
FreedTwice(h, m) == Delete(h, m)
Released(h, m) == h

(* init_sum_weight unless there is S; it attaches the worker, the mutant   *)
(* does not.                                                               *)
Sum(n, h, height) == Assigned(h, S[n], height)
StillDetached(n) == attached
Attached(n) == attached \cup {n}

(* NodeAvg::on_receive of rows x, then init(): S += X throws if the sizes  *)
(* differ, before w is raised.  What X had been is not freed.              *)
TakeRows(n, x, h) ==
    LET s == Sum(n, h, x.height)
    IN /\ X' = [X EXCEPT ![n] = x]
       /\ S' = [S EXCEPT ![n] = s.m] /\ attached' = Attached(n)
       /\ heap' = s.heap
       /\ w' = [w EXCEPT ![n] = IF SameSize(s.m, x) THEN @ + Unit ELSE @]
       /\ UNCHANGED dirty

(* What update() writes: X = S, in place if X has data.                    *)
Overwritten(x) == {r \in Rows(x) : r[1] \in Feeders}

(* NodeAvg::on_receive of a gradient Sin of weight win, where the weights  *)
(* are W: S += Sin throws if the sizes differ; update() throws if X has    *)
(* another size than S.  Sin is destroyed.                                 *)
AddGradient(n, Sin, win, h, W) ==
    LET s == Sum(n, h, Sin.height)
        added == SameSize(s.m, Sin)
        x == IF added THEN Assigned(s.heap, X[n], s.m.height) ELSE [heap |-> s.heap, m |-> X[n]]
    IN /\ S' = [S EXCEPT ![n] = s.m] /\ attached' = Attached(n)
       /\ w' = [W EXCEPT ![n] = IF added THEN @ + win ELSE @]
       /\ X' = [X EXCEPT ![n] = x.m]
       /\ dirty' = IF added /\ SameSize(x.m, s.m) THEN dirty \cup Overwritten(x.m) ELSE dirty
       /\ heap' = Delete(x.heap, Sin)

(* NodeEvalKmeans::on_receive keeps the first training set; what is not    *)
(* taken is freed with the message.                                        *)
Keep(n, channel, m, h) ==
    /\ IF channel = "TRAINING_DATA" /\ ~HasData(X[n])
       THEN X' = [X EXCEPT ![n] = Taken(m)] /\ heap' = Released(h, m)
       ELSE UNCHANGED X /\ heap' = Delete(h, m)
    /\ UNCHANGED <<S, attached, dirty>>

Receive(n, channel, m, win, h, W) ==
    IF n \in Keepers THEN Keep(n, channel, m, h) /\ w' = W
    ELSE IF channel = "TRAINING_DATA" THEN TakeRows(n, Taken(m), Released(h, m))
    ELSE AddGradient(n, Taken(m), win, Released(h, m), W)

NewMessage(channel, m, win) == [channel |-> channel, mat |-> m, w |-> win]

(* NodeGroup::send: a call, a copy in a queue, or (Message::copy) ...      *)
SameThread(m, n) == Thread[m] = Thread[n]
Busy(t) == \E f \in Feeders : Thread[f] = t /\ pass[f] # {}
HasRoom(n) == Len(queue[n]) < MaxQueue /\ Cardinality(DOMAIN heap) < MaxBuf

(* the mutant puts the sender's own pointers into the queue.               *)
SharedCopy(h, m) == [heap |-> h, m |-> [m EXCEPT !.own = TRUE]]
CopyOf(h, m) == New(h, m.height)

Post(n, channel, m, win) ==
    LET c == CopyOf(heap, m)
    IN /\ HasRoom(n)
       /\ queue' = [queue EXCEPT ![n] = Append(@, NewMessage(channel, c.m, win))]
       /\ heap' = c.heap

-----------------------------------------------------------------------------
(* NodeData::process: tries every part that is not yet acknowledged ...    *)
StartPass(f) ==
    /\ ~Busy(Thread[f]) /\ ack[f] # 1 .. N
    /\ pass' = [pass EXCEPT ![f] = (1 .. N) \ ack[f]]
    /\ UNCHANGED <<heap, X, S, w, attached, queue, ack, dirty, fed>>

(* one after the other.  An empty part counts as sent.                     *)
Acked(f, i) == ack' = [ack EXCEPT ![f] = @ \cup {i}]
Given(n) == fed' = IF n \in Workers THEN fed + 1 ELSE fed

TryPart(f, i) ==
    LET n == Targets[i]
        p == Part(X[f], i - 1, N)
    IN /\ i \in pass[f] /\ \A j \in pass[f] : i <= j
       /\ pass' = [pass EXCEPT ![f] = @ \ {i}]
       /\ \/ /\ ~HasData(p) /\ Acked(f, i)
             /\ UNCHANGED <<heap, X, S, w, attached, queue, dirty, fed>>
          \/ /\ HasData(p) /\ SameThread(f, n) /\ Acked(f, i) /\ Given(n)
             /\ Receive(n, "TRAINING_DATA", p, 0, heap, w)
             /\ UNCHANGED queue
          \/ /\ HasData(p) /\ ~SameThread(f, n) /\ Acked(f, i)
             /\ Post(n, "TRAINING_DATA", p, 0)
             /\ UNCHANGED <<X, S, w, attached, dirty, fed>>
          \/ /\ HasData(p) /\ <<f, n>> \in Flaky
             /\ UNCHANGED <<heap, X, S, w, attached, queue, ack, dirty, fed>>

(* NodeAvg::process halves S and w, sends them, and doubles them when that *)
(* fails.  The mutant does not.                                            *)
StayHalf(x) == x
Double(x) == 2 * x

Average(n) ==
    LET half == w[n] \div 2
        W == [w EXCEPT ![n] = half]
        message == NotOwned(S[n])
    IN /\ n \in attached /\ ~Busy(Thread[n]) /\ w[n] % 2 = 0 /\ w[n] > 0
       /\ \E x \in Outs[n] :
            \/ /\ SameThread(n, x)
               /\ Receive(x, "GRADIENT", message, half, heap, W)
               /\ UNCHANGED queue
            \/ /\ ~SameThread(n, x) /\ Post(x, "GRADIENT", message, half)
               /\ w' = W /\ UNCHANGED <<X, S, attached, dirty>>
            \/ /\ <<n, x>> \in Flaky
               /\ w' = [w EXCEPT ![n] = Double(half)]
               /\ UNCHANGED <<heap, X, S, attached, queue, dirty>>
       /\ UNCHANGED feeding

(* Thread::run hands a queued message to its node and deletes it.          *)
Deliver(n) ==
    LET m == Head(queue[n])
    IN /\ queue[n] # <<>> /\ ~Busy(Thread[n])
       /\ queue' = [queue EXCEPT ![n] = Tail(@)]
       /\ Receive(n, m.channel, m.mat, m.w, heap, w)
       /\ IF m.channel = "TRAINING_DATA" THEN Given(n) ELSE UNCHANGED fed
       /\ UNCHANGED <<ack, pass>>

Next ==
    \/ \E f \in Feeders : StartPass(f) \/ \E i \in 1 .. N : TryPart(f, i)
    \/ \E n \in Workers : Average(n)
    \/ \E n \in Nodes : Deliver(n)

Spec == Init /\ [][Next]_vars

-----------------------------------------------------------------------------
InQueue == UNION {{n} \X DOMAIN queue[n] : n \in Nodes}
QueuedAt(q) == queue[q[1]][q[2]]

(* Where matrices are kept.                                                *)
Places ==
    ({"X"} \X (Feeders \cup Nodes)) \cup ({"S"} \X Workers) \cup ({"queue"} \X InQueue)
MatrixAt(p) ==
    CASE p[1] = "X" -> X[p[2]] [] p[1] = "S" -> S[p[2]] [] p[1] = "queue" -> QueuedAt(p[2]).mat
Owners == {p \in Places : MatrixAt(p).own}

(* No buffer has two owners, so none is freed twice; no matrix of a node   *)
(* or message points to a buffer that is freed, or beyond its end; and     *)
(* buffers are lost only when a training set replaces rows that a worker   *)
(* owned, one at most for each set.  Whether a matrix shares its rows or   *)
(* owns them depends on where the sender's thread was (message_get_matrix, *)
(* ~Message, Matrix).                                                      *)
OneOwner == \A p, q \in Owners : MatrixAt(p).buf = MatrixAt(q).buf => p = q
InBounds(m) == m.buf \in DOMAIN heap /\ m.off + m.height <= heap[m.buf]
Lost == DOMAIN heap \ {MatrixAt(p).buf : p \in Owners}
MemorySafe ==
    /\ OneOwner
    /\ \A p \in Places : HasData(MatrixAt(p)) => InBounds(MatrixAt(p))
    /\ Cardinality(Lost) <= fed

(* Rows a data node has yet to send are not overwritten by update() of a   *)
(* worker of its thread that shares the rows it was sent.                  *)
PartsIntact ==
    \A f \in Feeders : \A i \in (1 .. N) \ ack[f] :
        Rows(Part(X[f], i - 1, N)) \cap dirty = {}

EqualParts ==
    \A f, g \in Feeders : \A i, j \in 1 .. N :
        LET p == Part(X[f], i - 1, N)
            q == Part(X[g], j - 1, N)
        IN HasData(p) /\ HasData(q) => SameSize(p, q)

(* The weights are those of the training sets received, so that the means  *)
(* converge to that of the data (doc/tutorial_3.html:37); some is lost,    *)
(* never won, if the parts have different sizes (S += X, S += Sin).        *)
Weight(q) == SumFunction([i \in DOMAIN q |-> q[i].w])

AvgMass ==
    LET total == SumFunction(w) + SumFunction([n \in Nodes |-> Weight(queue[n])])
    IN /\ total <= Unit * fed
       /\ EqualParts => total = Unit * fed
=============================================================================

---------------------------- MODULE GossipProofs ----------------------------
(* Proofs about the feeding of the workers and the weights they exchange. *)
EXTENDS Gossip, Sums, FiniteSetTheorems, SequenceTheorems, TLAPS

-----------------------------------------------------------------------------
(* Matrix::part splits h rows among k nodes: the parts are disjoint ...    *)
LEMMA PartsDisjoint ==
    ASSUME NEW h \in Nat, NEW k \in Nat \ {0},
           NEW i \in 0 .. k - 1, NEW j \in 0 .. k - 1, i # j
    PROVE  PartOf(h, i, k) \cap PartOf(h, j, k) = {}
<1> DEFINE q == h \div k
<1>0. q \in Nat
  OBVIOUS
<1>1. CASE q = 0
  BY <1>1 DEF PartOf
<1>2. CASE q # 0
  <2>1. ASSUME NEW x \in 0 .. k - 1, NEW y \in 0 .. k - 1, x < y
        PROVE  PartOf(h, x, k) \cap PartOf(h, y, k) = {}
    <3>0. x \in Nat /\ y \in Nat /\ x + 1 <= y /\ x # k - 1
      BY <2>1
    <3>1. x * q + q = (x + 1) * q
      BY <1>0, <3>0
    <3>2. (x + 1) * q <= y * q
      BY <1>0, <3>0
    <3>3. PartOf(h, x, k) = x * q .. x * q + q - 1
      BY <1>2, <3>0 DEF PartOf
    <3>4. PartOf(h, y, k) = y * q .. (IF y = k - 1 THEN h - 1 ELSE y * q + q - 1)
      BY <1>2 DEF PartOf
    <3>5. x * q \in Int /\ y * q \in Int /\ x * q + q <= y * q
      BY <1>0, <3>0, <3>1, <3>2
    <3> HIDE DEF q
    <3> QED
      BY <1>0, <3>3, <3>4, <3>5
  <2>2. i < j \/ j < i
    OBVIOUS
  <2> QED
    BY <2>1, <2>2
<1> QED
  BY <1>1, <1>2

(* ... and cover all rows.                                                 *)
LEMMA PartsCover ==
    ASSUME NEW h \in Nat, NEW k \in Nat \ {0}, NEW r \in 0 .. h - 1
    PROVE  \E i \in 0 .. k - 1 : r \in PartOf(h, i, k)
<1> DEFINE q == h \div k
<1>0. q \in Nat /\ r \in Nat
  OBVIOUS
<1>1. CASE q = 0
  <2>1. h < k
    BY <1>1
  <2>2. r \in 0 .. k - 1 /\ r \in PartOf(h, r, k)
    BY <1>1, <2>1 DEF PartOf
  <2> QED
    BY <2>2
<1>2. CASE q # 0
  <2> DEFINE i == r \div q
  <2>1. i \in Nat /\ i * q <= r /\ r <= i * q + q - 1
    BY <1>0, <1>2
  <2>2. CASE i < k - 1
    BY <1>2, <2>1, <2>2 DEF PartOf
  <2>3. CASE i >= k - 1
    <3>1. (k - 1) * q <= i * q
      BY <1>0, <2>1, <2>3
    <3>2. k - 1 \in 0 .. k - 1 /\ r \in PartOf(h, k - 1, k)
      BY <1>2, <2>1, <3>1 DEF PartOf
    <3> QED
      BY <3>2
  <2> QED
    BY <2>1, <2>2, <2>3
<1> QED
  BY <1>1, <1>2

-----------------------------------------------------------------------------
(* A training set that is under way or in use is the part of its worker.   *)
IsPart(a, rows) == rows # {} /\ \E f \in Feeders : rows = Part(f, a)

Owned(nd) == \A a \in Workers : nd[a].rows = {} \/ IsPart(a, nd[a].rows)

OwnMessage(a, m) == m \in Messages /\ (m.kind = "data" => IsPart(a, m.rows))

QueueInv ==
    \A a \in Workers : \A i \in 1 .. Len(queue[a]) : OwnMessage(a, queue[a][i])

(* What a feeder has marked is under way or has arrived; it may have been  *)
(* replaced since, but only by a part of another feeder.                   *)
Reached(f, a) ==
    \/ Part(f, a) = {}
    \/ node[a].rows # {}
    \/ \E i \in 1 .. Len(queue[a]) : queue[a][i].kind = "data" /\ queue[a][i].rows = Part(f, a)

AckInv == \A f \in Feeders : \A a \in ack[f] : Reached(f, a)

DoneInv == \A f \in done : ack[f] = Workers

IInv ==
    /\ TypeOK
    /\ Owned(node)
    /\ QueueInv
    /\ AckInv
    /\ DoneInv

LEMMA PartType ==
    ASSUME NEW f \in Feeders, NEW a \in Workers
    PROVE  Part(f, a) \subseteq {f} \X (0 .. Height[f] - 1) /\ Part(f, a) \subseteq Rows
           /\ IsFiniteSet(Part(f, a))
<1>0. Height[f] \in Nat \ {0} /\ N \in Nat \ {0} /\ a \in Nat /\ a <= N - 1
  BY ConstantsAssumption DEF Workers
<1> DEFINE S == PartOf(Height[f], a, N)  q == Height[f] \div N
<1>1. q \in Nat /\ q * N <= Height[f]
  BY <1>0
<1>2. S \subseteq 0 .. Height[f] - 1
  <2>1. CASE q = 0
    BY <1>0, <2>1 DEF PartOf
  <2>2. CASE q # 0
    <3>0. \A x, y, z \in Nat : x <= y => x * z <= y * z
      OBVIOUS
    <3>1. a * q \in Nat /\ (a + 1) * q = a * q + q /\ (a + 1) * q <= N * q
      <4> HIDE DEF q
      <4>1. a * q \in Nat /\ (a + 1) * q = a * q + q
        BY <1>0, <1>1
      <4>2. a + 1 \in Nat /\ N \in Nat /\ a + 1 <= N /\ q \in Nat
        BY <1>0, <1>1
      <4>3. (a + 1) * q <= N * q
        BY <3>0, <4>2
      <4> QED
        BY <4>1, <4>3
    <3>2. a * q + q <= Height[f]
      <4> HIDE DEF q
      <4>1. N * q = q * N /\ N * q \in Nat
        BY <1>0, <1>1
      <4> QED
        BY <1>0, <1>1, <3>1, <4>1
    <3>3. S = a * q .. (IF a = N - 1 THEN Height[f] - 1 ELSE a * q + q - 1)
      BY <2>2 DEF PartOf
    <3> HIDE DEF q, S
    <3> QED
      BY <1>0, <1>1, <3>1, <3>2, <3>3
  <2> QED
    BY <2>1, <2>2
<1>3. IsFiniteSet(S)
  <2>1. IsFiniteSet(0 .. Height[f] - 1)
    BY SMTT(30), <1>0, FS_Interval
  <2> QED
    BY <1>2, <2>1, FS_Subset
<1>4. IsFiniteSet({f} \X S)
  <2> DEFINE g == [x \in S |-> <<f, x>>]
  <2>1. g \in Surjection(S, {f} \X S)
    BY DEF Surjection
  <2> QED
    BY <1>3, <2>1, FS_Surjection
<1> HIDE DEF S
<1> QED
  BY <1>2, <1>4 DEF Part, Rows, S

LEMMA CountType ==
    ASSUME NEW c, NEW rows, IsFiniteSet(rows)
    PROVE  Count(c, rows) \in Weights /\ Unit * Cardinality(rows) \in Nat
<1>1. \A k \in Clusters : Cardinality({r \in rows : c[r] = k}) \in Nat
  <2> TAKE k \in Clusters
  <2>1. IsFiniteSet({r \in rows : c[r] = k})
    BY FS_Subset
  <2> QED
    BY <2>1, FS_CardinalityType
<1>2. Cardinality(rows) \in Nat
  BY FS_CardinalityType
<1>3. Unit \in Nat
  BY ConstantsAssumption
<1>4. \A k \in Clusters : Unit * Cardinality({r \in rows : c[r] = k}) \in Int
  BY <1>1, <1>3
<1> QED
  BY <1>2, <1>3, <1>4 DEF Count, Weights

-----------------------------------------------------------------------------
(* The handlers keep the type of a worker; only data changes its rows.     *)

LEMMA ReceiveType ==
    ASSUME NEW a \in Workers, NEW s \in States, NEW m, OwnMessage(a, m), NEW c
    PROVE  /\ OnReceive(s, m, c) \in States
           /\ OnReceive(s, m, c).rows = IF m.kind = "data" THEN m.rows ELSE s.rows
<1>1. m \in Messages
  BY DEF OwnMessage
<1>2. CASE m.kind = "data"
  <2>1. PICK f \in Feeders : m.rows = Part(f, a)
    BY <1>2 DEF OwnMessage, IsPart
  <2>2. m.rows \in SUBSET Rows /\ IsFiniteSet(m.rows)
    BY <2>1, PartType
  <2>3. Count(c, m.rows) \in Weights /\ Unit * Cardinality(m.rows) \in Nat
    BY <2>2, CountType
  <2>4. OnReceive(s, m, c) = Train(s, m.rows, c)
    BY <1>2 DEF OnReceive
  <2>5. 0 \in 0 .. Patience
    BY ConstantsAssumption
  <2>6. Train(s, m.rows, c) \in States /\ Train(s, m.rows, c).rows = m.rows
    BY <2>2, <2>3, <2>5 DEF Train, States
  <2> QED
    BY <1>2, <2>4, <2>6
<1>3. CASE m.kind = "codebook"
  <2>1. m.w \in Weights /\ m.w0 \in Nat
    BY <1>1, <1>3 DEF Messages
  <2>2. Merge(s, m) \in States /\ Merge(s, m).rows = s.rows
    <3>1. [k \in Clusters |-> s.w[k] + m.w[k]] \in Weights
      BY <2>1 DEF Weights, States
    <3>2. s.w0 + m.w0 \in Nat /\ s.lost + m.w0 \in Nat
      BY <2>1 DEF States
    <3> QED
      BY <3>1, <3>2 DEF Merge, States
  <2> QED
    BY <1>3, <2>2 DEF OnReceive
<1>4. CASE m.kind = "finish"
  BY <1>4 DEF OnReceive, TheEnd, States
<1> QED
  BY <1>1, <1>2, <1>3, <1>4 DEF Messages

LEMMA ReassignType ==
    ASSUME NEW a \in Workers, NEW s \in States, s.rows = {} \/ IsPart(a, s.rows), NEW c
    PROVE  Reassign(s, c) \in States /\ Reassign(s, c).rows = s.rows
<1>1. IsFiniteSet(s.rows)
  <2>1. IsFiniteSet({})
    BY FS_EmptySet
  <2>2. ASSUME IsPart(a, s.rows) PROVE IsFiniteSet(s.rows)
    BY <2>2, PartType DEF IsPart
  <2> QED
    BY <2>1, <2>2
<1>2. Count(c, s.rows) \in Weights
  BY <1>1, CountType
<1>3. [k \in Clusters |-> s.w[k] - s.w_new[k] + Count(c, s.rows)[k]] \in Weights
  BY <1>2 DEF Weights, States
<1> QED
  BY <1>2, <1>3 DEF Reassign, States

LEMMA HalveType ==
    ASSUME NEW s \in States, s.m < M
    PROVE  LET h == [Halve(s) EXCEPT !.m = @ + 1]
           IN /\ h \in States /\ Double(h) \in States
              /\ h.rows = s.rows /\ Double(h).rows = s.rows
<1> DEFINE h == [Halve(s) EXCEPT !.m = @ + 1]
<1>1. [k \in Clusters |-> s.w[k] \div 2] \in Weights
  BY DEF Weights, States
<1>2. s.w0 \div 2 \in Nat /\ s.m + 1 \in 0 .. M
  BY ConstantsAssumption DEF States
<1>3. h \in States /\ h.rows = s.rows
  BY <1>1, <1>2 DEF Halve, States
<1>4. [k \in Clusters |-> 2 * h.w[k]] \in Weights /\ 2 * h.w0 \in Nat
  BY <1>3 DEF Weights, States
<1> HIDE DEF h
<1>5. Double(h) \in States /\ Double(h).rows = h.rows
  BY <1>3, <1>4 DEF Double, States
<1> QED
  BY <1>3, <1>5 DEF h

(* A multicast of messages that suit their targets. *)
Suits(ms) == DOMAIN ms \subseteq Workers /\ \A b \in DOMAIN ms : OwnMessage(b, ms[b])

LEMMA HandledType ==
    ASSUME NEW nd \in [Workers -> States], NEW a, NEW ms, Suits(ms), NEW c
    PROVE  /\ Handled(nd, a, ms, c) \in [Workers -> States]
           /\ \A b \in Workers : Handled(nd, a, ms, c)[b].rows =
                 IF b \in DOMAIN ms /\ SameThread(a, b) /\ ms[b].kind = "data"
                 THEN ms[b].rows ELSE nd[b].rows
<1>1. ASSUME NEW b \in Workers, b \in DOMAIN ms /\ SameThread(a, b)
      PROVE  /\ Handled(nd, a, ms, c)[b] \in States
             /\ Handled(nd, a, ms, c)[b].rows =
                   IF ms[b].kind = "data" THEN ms[b].rows ELSE nd[b].rows
  <2>1. OwnMessage(b, ms[b]) /\ nd[b] \in States
    BY <1>1 DEF Suits
  <2>2. Handled(nd, a, ms, c)[b] = OnReceive(nd[b], ms[b], c)
    BY <1>1 DEF Handled
  <2> QED
    BY <2>1, <2>2, ReceiveType
<1>2. ASSUME NEW b \in Workers, ~(b \in DOMAIN ms /\ SameThread(a, b))
      PROVE  Handled(nd, a, ms, c)[b] = nd[b]
  BY <1>2 DEF Handled
<1>3. Handled(nd, a, ms, c) = [b \in Workers |-> Handled(nd, a, ms, c)[b]]
  BY DEF Handled
<1> QED
  BY <1>1, <1>2, <1>3

LEMMA QueuedType ==
    ASSUME TypeOK, QueueInv, NEW a, NEW ms, Suits(ms), queue' = Queued(a, ms)
    PROVE  /\ queue' \in [Workers -> Seq(Messages)]
           /\ QueueInv'
           /\ \A b \in Workers : \A i \in 1 .. Len(queue[b]) :
                 i \in 1 .. Len(queue'[b]) /\ queue'[b][i] = queue[b][i]
           /\ \A b \in DOMAIN ms : ~SameThread(a, b) =>
                 \E i \in 1 .. Len(queue'[b]) : queue'[b][i] = ms[b]
<1>1. ASSUME NEW b \in Workers, b \in DOMAIN ms /\ ~SameThread(a, b)
      PROVE  /\ queue'[b] \in Seq(Messages)
             /\ Len(queue'[b]) = Len(queue[b]) + 1
             /\ \A i \in 1 .. Len(queue[b]) : queue'[b][i] = queue[b][i]
             /\ queue'[b][Len(queue[b]) + 1] = ms[b]
             /\ OwnMessage(b, ms[b])
             /\ Len(queue[b]) \in Nat
  <2>1. queue'[b] = Append(queue[b], ms[b])
    BY <1>1 DEF Queued
  <2>2. queue[b] \in Seq(Messages) /\ OwnMessage(b, ms[b])
    BY <1>1 DEF TypeOK, Suits
  <2>3. ms[b] \in Messages
    BY <2>2 DEF OwnMessage
  <2> QED
    BY <2>1, <2>2, <2>3, AppendProperties
<1>2. ASSUME NEW b \in Workers, ~(b \in DOMAIN ms /\ ~SameThread(a, b))
      PROVE  queue'[b] = queue[b] /\ queue[b] \in Seq(Messages)
  BY <1>2 DEF Queued, TypeOK
<1>3. queue' = [b \in Workers |-> queue'[b]]
  BY DEF Queued
<1>4. queue' \in [Workers -> Seq(Messages)]
  BY <1>1, <1>2, <1>3
<1>5. QueueInv'
  <2> SUFFICES ASSUME NEW b \in Workers, NEW i \in 1 .. Len(queue'[b])
               PROVE  OwnMessage(b, queue'[b][i])
    BY DEF QueueInv, OwnMessage, IsPart, Part, Messages
  <2>1. CASE b \in DOMAIN ms /\ ~SameThread(a, b)
    <3>1. i \in 1 .. Len(queue[b]) \/ i = Len(queue[b]) + 1
      BY <1>1, <2>1
    <3> QED
      BY <1>1, <2>1, <3>1 DEF QueueInv
  <2>2. CASE ~(b \in DOMAIN ms /\ ~SameThread(a, b))
    BY <1>2, <2>2 DEF QueueInv
  <2> QED
    BY <2>1, <2>2
<1>6. \A b \in Workers : \A i \in 1 .. Len(queue[b]) :
         i \in 1 .. Len(queue'[b]) /\ queue'[b][i] = queue[b][i]
  BY <1>1, <1>2
<1>7. \A b \in DOMAIN ms : ~SameThread(a, b) =>
         \E i \in 1 .. Len(queue'[b]) : queue'[b][i] = ms[b]
  <2> SUFFICES ASSUME NEW b \in DOMAIN ms, ~SameThread(a, b)
               PROVE  \E i \in 1 .. Len(queue'[b]) : queue'[b][i] = ms[b]
    OBVIOUS
  <2>1. b \in Workers
    BY DEF Suits
  <2>2. Len(queue[b]) + 1 \in 1 .. Len(queue'[b])
    BY <1>1, <2>1
  <2> QED
    BY <1>1, <2>1, <2>2
<1> QED
  BY <1>4, <1>5, <1>6, <1>7
(* A step of a that sends ms and changes no rows but by data. *)
Delivered(a, ms) ==
    /\ queue' = Queued(a, ms)
    /\ node' \in [Workers -> States]
    /\ \A b \in Workers : node'[b].rows =
          IF b \in DOMAIN ms /\ SameThread(a, b) /\ ms[b].kind = "data"
          THEN ms[b].rows ELSE node[b].rows

LEMMA Delivery ==
    ASSUME TypeOK, Owned(node), QueueInv, NEW a, NEW ms, Suits(ms),
           Delivered(a, ms)
    PROVE  /\ queue' \in [Workers -> Seq(Messages)]
           /\ Owned(node')
           /\ QueueInv'
           /\ \A f \in Feeders, b \in Workers : Reached(f, b) => Reached(f, b)'
           /\ \A f \in Feeders : \A b \in DOMAIN ms :
                 ms[b].kind = "data" /\ ms[b].rows = Part(f, b) => Reached(f, b)'
<1>1. /\ queue' \in [Workers -> Seq(Messages)]
      /\ QueueInv'
      /\ \A b \in Workers : \A i \in 1 .. Len(queue[b]) :
            i \in 1 .. Len(queue'[b]) /\ queue'[b][i] = queue[b][i]
      /\ \A b \in DOMAIN ms : ~SameThread(a, b) =>
            \E i \in 1 .. Len(queue'[b]) : queue'[b][i] = ms[b]
  BY QueuedType DEF Delivered
<1>2. \A b \in DOMAIN ms : b \in Workers /\ (ms[b].kind = "data" => IsPart(b, ms[b].rows))
  BY DEF Suits, OwnMessage
<1>3. \A b \in Workers : node[b].rows = {} \/ IsPart(b, node[b].rows)
  BY DEF Owned
<1>4. Owned(node')
  <2> SUFFICES ASSUME NEW b \in Workers
               PROVE  node'[b].rows = {} \/ IsPart(b, node'[b].rows)
    BY DEF Owned
  <2> QED
    BY <1>2, <1>3 DEF Delivered
<1>5. ASSUME NEW f \in Feeders, NEW b \in Workers, Reached(f, b)
      PROVE  Reached(f, b)'
  <2>1. CASE Part(f, b) = {}
    BY <2>1 DEF Reached, Part
  <2>2. CASE node[b].rows # {}
    <3>1. node'[b].rows # {}
      BY <1>2, <2>2 DEF IsPart, Delivered
    <3> QED
      BY <3>1 DEF Reached
  <2>3. ASSUME NEW i \in 1 .. Len(queue[b]),
               queue[b][i].kind = "data" /\ queue[b][i].rows = Part(f, b)
        PROVE  Reached(f, b)'
    <3>1. i \in 1 .. Len(queue'[b]) /\ queue'[b][i] = queue[b][i]
      BY <1>1
    <3> QED
      BY <2>3, <3>1 DEF Reached, Part
  <2> QED
    BY <1>5, <2>1, <2>2, <2>3 DEF Reached
<1>6. ASSUME NEW f \in Feeders, NEW b \in DOMAIN ms,
             ms[b].kind = "data" /\ ms[b].rows = Part(f, b)
      PROVE  Reached(f, b)'
  <2>1. CASE SameThread(a, b)
    <3>1. node'[b].rows # {}
      BY <1>2, <1>6, <2>1 DEF IsPart, Delivered
    <3> QED
      BY <3>1 DEF Reached
  <2>2. CASE ~SameThread(a, b)
    <3>1. PICK i \in 1 .. Len(queue'[b]) : queue'[b][i] = ms[b]
      BY <1>1, <2>2
    <3> QED
      BY <1>6, <3>1 DEF Reached, Part
  <2> QED
    BY <2>1, <2>2
<1> QED
  BY <1>1, <1>4, <1>5, <1>6

-----------------------------------------------------------------------------
LEMMA InitIInv == Init => IInv
<1> SUFFICES ASSUME Init PROVE IInv
  OBVIOUS
<1>0. M \in Nat /\ Patience \in Nat
  BY ConstantsAssumption
<1>1. Zero \in Weights
  BY DEF Zero, Weights
<1>2. node \in [Workers -> States]
  BY <1>0, <1>1 DEF Init, States
<1>3. TypeOK
  <2>1. ack \in [Feeders -> SUBSET Workers] /\ done \subseteq Feeders
    BY DEF Init
  <2>2. queue \in [Workers -> Seq(Messages)]
    BY DEF Init
  <2> QED
    BY <1>2, <2>1, <2>2 DEF TypeOK
<1>4. Owned(node)
  BY DEF Init, Owned
<1>5. QueueInv
  BY DEF Init, QueueInv
<1>6. AckInv /\ DoneInv
  BY DEF Init, AckInv, DoneInv
<1> QED
  BY <1>3, <1>4, <1>5, <1>6 DEF IInv

(* A step that marks nobody and takes nobody back keeps the marks true.    *)
LEMMA AckStep ==
    ASSUME IInv, UNCHANGED <<ack, done>>,
           \A f \in Feeders, b \in Workers : Reached(f, b) => Reached(f, b)'
    PROVE  AckInv' /\ DoneInv'
<1>1. ack' = ack /\ done' = done
  OBVIOUS
<1>2. \A f \in Feeders : \A b \in ack[f] : b \in Workers
  BY DEF IInv, TypeOK
<1>3. AckInv'
  BY <1>1, <1>2 DEF AckInv, IInv
<1>4. DoneInv'
  BY <1>1 DEF DoneInv, IInv
<1> QED
  BY <1>3, <1>4

LEMMA FeederStep ==
    ASSUME IInv, NEW f \in Feeders, FeederProcess(f)
    PROVE  IInv'
<1>0. TypeOK /\ Owned(node) /\ QueueInv /\ AckInv /\ DoneInv
  BY DEF IInv
<1>1. CASE ack[f] = Workers
  <2>1. done' = done \cup {f} /\ ack' = ack /\ node' = node /\ queue' = queue
    BY <1>1 DEF FeederProcess
  <2>2. TypeOK'
    BY <1>0, <2>1 DEF TypeOK
  <2>3. Owned(node') /\ QueueInv' /\ AckInv'
    BY <1>0, <2>1 DEF Owned, QueueInv, OwnMessage, IsPart, Part, AckInv, Reached
  <2>4. DoneInv'
    BY <1>0, <1>1, <2>1 DEF DoneInv
  <2> QED
    BY <2>2, <2>3, <2>4 DEF IInv
<1>2. CASE ack[f] # Workers
  <2>1. PICK ok \in Successes(f, {b \in Workers \ ack[f] : Part(f, b) # {}}) : Feed(f, ok)
    BY <1>2 DEF FeederProcess
  <2>2. ok \subseteq Workers /\ \A b \in ok : Part(f, b) # {}
    BY DEF Successes
  <2>3. PICK ms, c :
          /\ ms = [b \in ok |-> [kind |-> "data", rows |-> Part(f, b)]]
          /\ node' = Handled(node, f, ms, c)
          /\ queue' = Queued(f, ms)
          /\ ack' = [ack EXCEPT ![f] = Mark(f, ok)]
          /\ done' = done
    BY <2>1 DEF Feed
  <2>4. Suits(ms)
    <3> SUFFICES ASSUME NEW b \in ok PROVE OwnMessage(b, ms[b])
      BY <2>2, <2>3 DEF Suits
    <3>1. b \in Workers /\ ms[b] = [kind |-> "data", rows |-> Part(f, b)]
      BY <2>2, <2>3
    <3>2. Part(f, b) \in SUBSET Rows
      BY <3>1, PartType
    <3>3. IsPart(b, Part(f, b))
      BY <2>2 DEF IsPart
    <3> QED
      BY <3>1, <3>2, <3>3 DEF OwnMessage, Messages
  <2>5. node \in [Workers -> States]
    BY <1>0 DEF TypeOK
  <2>6. Delivered(f, ms)
    <3>1. /\ Handled(node, f, ms, c) \in [Workers -> States]
          /\ \A b \in Workers : Handled(node, f, ms, c)[b].rows =
                IF b \in DOMAIN ms /\ SameThread(f, b) /\ ms[b].kind = "data"
                THEN ms[b].rows ELSE node[b].rows
      BY <2>4, <2>5, HandledType
    <3> QED
      BY <2>3, <3>1 DEF Delivered
  <2>7. /\ queue' \in [Workers -> Seq(Messages)]
        /\ Owned(node')
        /\ QueueInv'
        /\ \A g \in Feeders, b \in Workers : Reached(g, b) => Reached(g, b)'
        /\ \A g \in Feeders : \A b \in DOMAIN ms :
              ms[b].kind = "data" /\ ms[b].rows = Part(g, b) => Reached(g, b)'
    BY <1>0, <2>4, <2>6, Delivery
  <2>8. ack' \in [Feeders -> SUBSET Workers] /\ done' \subseteq Feeders
    <3>1. Mark(f, ok) \in SUBSET Workers
      BY <1>0, <2>2 DEF Mark, TypeOK
    <3> QED
      BY <1>0, <2>3, <3>1 DEF TypeOK
  <2>9. TypeOK'
    BY <2>6, <2>7, <2>8 DEF TypeOK, Delivered
  <2>10. AckInv'
    <3> SUFFICES ASSUME NEW g \in Feeders, NEW b \in ack'[g] PROVE Reached(g, b)'
      BY DEF AckInv
    <3>0. b \in Workers
      BY <2>8
    <3>1. CASE b \in ack[g]
      BY <1>0, <2>7, <3>0, <3>1 DEF AckInv
    <3>2. CASE b \notin ack[g]
      <4>1. g = f /\ b \in Mark(f, ok)
        BY <1>0, <2>3, <3>2 DEF TypeOK
      <4>2. b \in ok \/ Part(f, b) = {}
        BY <3>2, <4>1 DEF Mark
      <4>3. CASE b \in ok
        BY <2>3, <2>7, <4>1, <4>3
      <4>4. CASE Part(f, b) = {}
        BY <4>1, <4>4 DEF Reached, Part
      <4> QED
        BY <4>2, <4>3, <4>4
    <3> QED
      BY <3>1, <3>2
  <2>11. DoneInv'
    <3> SUFFICES ASSUME NEW g \in done PROVE ack'[g] = Workers
      BY <2>3 DEF DoneInv
    <3>1. ack[g] = Workers /\ g \in Feeders
      BY <1>0 DEF DoneInv, TypeOK
    <3>2. g # f
      BY <1>2, <3>1
    <3> QED
      BY <1>0, <2>3, <3>1, <3>2 DEF TypeOK
  <2> QED
    BY <2>7, <2>9, <2>10, <2>11 DEF IInv
<1> QED
  BY <1>1, <1>2

LEMMA EStepStep ==
    ASSUME IInv, NEW a \in Workers, EStep(a)
    PROVE  IInv'
<1>0. TypeOK /\ Owned(node) /\ QueueInv /\ AckInv /\ DoneInv
  BY DEF IInv
<1>1. node \in [Workers -> States] /\ 0 \in 0 .. M /\ Patience \in Nat /\ Outs(a) \subseteq Workers
  BY <1>0, ConstantsAssumption DEF TypeOK, Outs
<1> DEFINE Step(t, c, ok) ==
      LET ms == [b \in ok |-> [kind |-> "finish"]]
          nd == Handled([node EXCEPT ![a].tepsilon = t], a, ms, c)
          s == IF t = Patience THEN TheEnd(nd[a]) ELSE nd[a]
      IN /\ node' = [nd EXCEPT ![a] = [Reassign(s, c) EXCEPT !.m = 0]]
         /\ queue' = Queued(a, ms)
<1>2p. PICK t \in {0, IF node[a].tepsilon < Patience THEN node[a].tepsilon + 1 ELSE Patience} :
          \E c \in [node[a].rows -> Clusters] :
          \E ok \in Successes(a, IF t = Patience THEN Told(a) ELSE {}) : Step(t, c, ok)
  BY DEF EStep
<1>2q. PICK c : \E ok \in Successes(a, IF t = Patience THEN Told(a) ELSE {}) : Step(t, c, ok)
  BY <1>2p
<1>2. PICK ok \in Successes(a, IF t = Patience THEN Told(a) ELSE {}) : Step(t, c, ok)
  BY <1>2q
<1>3. PICK ms, before, nd, s :
          /\ ms = [b \in ok |-> [kind |-> "finish"]]
          /\ before = [node EXCEPT ![a].tepsilon = t]
          /\ nd = Handled(before, a, ms, c)
          /\ s = IF t = Patience THEN TheEnd(nd[a]) ELSE nd[a]
          /\ node' = [nd EXCEPT ![a] = [Reassign(s, c) EXCEPT !.m = 0]]
          /\ queue' = Queued(a, ms)
  BY <1>2
<1>4. ack' = ack /\ done' = done
  BY DEF EStep
<1>5. Suits(ms)
  <2>1. ok \subseteq Workers
    BY <1>1 DEF Successes, Told
  <2> QED
    BY <1>3, <2>1 DEF Suits, OwnMessage, Messages
<1>6. before \in [Workers -> States] /\ \A b \in Workers : before[b].rows = node[b].rows
  <2>1. t \in 0 .. Patience
    BY <1>1 DEF States
  <2>2. node[a] \in States
    BY <1>1
  <2>3. [node[a] EXCEPT !.tepsilon = t] \in States
        /\ [node[a] EXCEPT !.tepsilon = t].rows = node[a].rows
    BY <2>1, <2>2 DEF States
  <2>4. before = [node EXCEPT ![a] = [node[a] EXCEPT !.tepsilon = t]]
    BY <1>3
  <2> QED
    BY <1>1, <2>3, <2>4
<1>7. /\ nd \in [Workers -> States]
      /\ \A b \in Workers : nd[b].rows = node[b].rows
  <2>1. /\ Handled(before, a, ms, c) \in [Workers -> States]
        /\ \A b \in Workers : Handled(before, a, ms, c)[b].rows =
              IF b \in DOMAIN ms /\ SameThread(a, b) /\ ms[b].kind = "data"
              THEN ms[b].rows ELSE before[b].rows
    BY <1>5, <1>6, HandledType
  <2>2. \A b \in DOMAIN ms : ms[b].kind # "data"
    BY <1>3
  <2> QED
    BY <1>3, <1>6, <2>1, <2>2
<1>8. s \in States /\ s.rows = node[a].rows
  <2>1. nd[a] \in States /\ nd[a].rows = node[a].rows
    BY <1>7
  <2>2. TheEnd(nd[a]) \in States /\ TheEnd(nd[a]).rows = nd[a].rows
    BY <2>1 DEF TheEnd, States
  <2> QED
    BY <1>3, <2>1, <2>2
<1>9. Reassign(s, c) \in States /\ Reassign(s, c).rows = s.rows
  BY <1>0, <1>8, ReassignType DEF Owned
<1>10. [Reassign(s, c) EXCEPT !.m = 0] \in States
       /\ [Reassign(s, c) EXCEPT !.m = 0].rows = s.rows
  BY <1>1, <1>9 DEF States
<1>11. /\ node' \in [Workers -> States]
       /\ \A b \in Workers : node'[b].rows = node[b].rows
  BY <1>3, <1>7, <1>8, <1>10
<1>12. Delivered(a, ms)
  <2>1. \A b \in DOMAIN ms : ms[b].kind # "data"
    BY <1>3
  <2> QED
    BY <1>3, <1>11, <2>1 DEF Delivered
<1>13. /\ queue' \in [Workers -> Seq(Messages)]
       /\ Owned(node')
       /\ QueueInv'
       /\ \A f \in Feeders, b \in Workers : Reached(f, b) => Reached(f, b)'
  BY <1>0, <1>5, <1>12, Delivery
<1>14. TypeOK'
  BY <1>0, <1>4, <1>11, <1>13 DEF TypeOK
<1>15. AckInv' /\ DoneInv'
  BY <1>4, <1>13, AckStep
<1> QED
  BY <1>13, <1>14, <1>15 DEF IInv
LEMMA MStepStep ==
    ASSUME IInv, NEW a \in Workers, MStep(a)
    PROVE  IInv'
<1>0. TypeOK /\ Owned(node) /\ QueueInv /\ AckInv /\ DoneInv
  BY DEF IInv
<1>1. node \in [Workers -> States] /\ M \in Nat /\ Outs(a) \subseteq Workers
  BY <1>0, ConstantsAssumption DEF TypeOK, Outs
<1> DEFINE Sent == [Halve(node[a]) EXCEPT !.m = @ + 1]
           Step(b, ok) ==
             LET ms == [x \in ok |-> [kind |-> "codebook", w |-> Sent.w, w0 |-> Sent.w0]]
             IN /\ node' = Handled([node EXCEPT ![a] = IF b \in ok THEN Sent ELSE Double(Sent)],
                                   a, ms, <<>>)
                /\ queue' = Queued(a, ms)
<1>2p. PICK b \in Outs(a) : \E ok \in Successes(a, {b}) : Step(b, ok)
  BY DEF MStep
<1>2. PICK ok \in Successes(a, {b}) : Step(b, ok)
  BY <1>2p
<1>3. PICK s, ms, before :
          /\ s = Sent
          /\ ms = [x \in ok |-> [kind |-> "codebook", w |-> s.w, w0 |-> s.w0]]
          /\ before = [node EXCEPT ![a] = IF b \in ok THEN s ELSE Double(s)]
          /\ node' = Handled(before, a, ms, <<>>)
          /\ queue' = Queued(a, ms)
  BY <1>2
<1>4. ack' = ack /\ done' = done
  BY DEF MStep
<1>5. /\ s \in States /\ Double(s) \in States
      /\ s.rows = node[a].rows /\ Double(s).rows = node[a].rows
  <2>1. node[a] \in States /\ node[a].m < M
    BY SMTT(30), <1>1 DEF MStep, TimeForE, States
  <2> QED
    BY <1>3, <2>1, HalveType
<1>6. Suits(ms)
  <2>1. ok \subseteq Workers
    BY <1>1 DEF Successes
  <2>2. s.w \in Weights /\ s.w0 \in Nat
    BY <1>5 DEF States
  <2>3. [kind |-> "codebook", w |-> s.w, w0 |-> s.w0] \in Messages
    BY <2>2 DEF Messages
  <2> QED
    BY <1>3, <2>1, <2>3 DEF Suits, OwnMessage
<1>7. before \in [Workers -> States] /\ \A x \in Workers : before[x].rows = node[x].rows
  BY <1>1, <1>3, <1>5
<1>8. Delivered(a, ms)
  <2>1. /\ Handled(before, a, ms, <<>>) \in [Workers -> States]
        /\ \A x \in Workers : Handled(before, a, ms, <<>>)[x].rows =
              IF x \in DOMAIN ms /\ SameThread(a, x) /\ ms[x].kind = "data"
              THEN ms[x].rows ELSE before[x].rows
    BY <1>6, <1>7, HandledType
  <2> QED
    BY <1>3, <1>7, <2>1 DEF Delivered
<1>9. /\ queue' \in [Workers -> Seq(Messages)]
      /\ Owned(node')
      /\ QueueInv'
      /\ \A f \in Feeders, x \in Workers : Reached(f, x) => Reached(f, x)'
  BY <1>0, <1>6, <1>8, Delivery
<1>10. TypeOK'
  BY <1>0, <1>4, <1>8, <1>9 DEF TypeOK, Delivered
<1>11. AckInv' /\ DoneInv'
  BY <1>4, <1>9, AckStep
<1> QED
  BY <1>9, <1>10, <1>11 DEF IInv

(* The head of the queue is handled: if it is data, the worker has rows.   *)
LEMMA ReceiveStep ==
    ASSUME IInv, NEW a \in Workers, Receive(a)
    PROVE  IInv'
<1>0. TypeOK /\ Owned(node) /\ QueueInv /\ AckInv /\ DoneInv
  BY DEF IInv
<1>1. node \in [Workers -> States] /\ queue \in [Workers -> Seq(Messages)]
  BY <1>0 DEF TypeOK
<1>2. PICK m, c :
          /\ m = Head(queue[a])
          /\ node' = [node EXCEPT ![a] = OnReceive(@, m, c)]
  BY DEF Receive
<1>3. /\ ack' = ack /\ done' = done
      /\ queue[a] # <<>>
      /\ queue' = [queue EXCEPT ![a] = Tail(@)]
  BY DEF Receive
<1>4. /\ m = queue[a][1] /\ Len(queue[a]) \in Nat \ {0}
      /\ queue'[a] \in Seq(Messages)
      /\ Len(queue'[a]) = Len(queue[a]) - 1
      /\ \A i \in 1 .. Len(queue'[a]) : queue'[a][i] = queue[a][i + 1]
  <2>1. queue[a] \in Seq(Messages) /\ queue'[a] = Tail(queue[a])
    BY <1>1, <1>3
  <2>2. /\ Head(queue[a]) = queue[a][1] /\ Tail(queue[a]) \in Seq(Messages)
        /\ Len(Tail(queue[a])) = Len(queue[a]) - 1
        /\ \A i \in 1 .. Len(Tail(queue[a])) : Tail(queue[a])[i] = queue[a][i + 1]
    BY <1>3, <2>1, HeadTailProperties
  <2>3. Len(queue[a]) \in Nat \ {0}
    BY <1>3, <2>1, EmptySeq, LenProperties
  <2> QED
    BY <1>2, <2>1, <2>2, <2>3
<1>5. \A b \in Workers : b # a => queue'[b] = queue[b] /\ node'[b] = node[b]
  BY <1>1, <1>2, <1>3
<1>6. OwnMessage(a, m)
  BY <1>0, <1>4 DEF QueueInv
<1>7. /\ node'[a] \in States
      /\ node'[a].rows = IF m.kind = "data" THEN m.rows ELSE node[a].rows
  <2>1. node'[a] = OnReceive(node[a], m, c)
    BY <1>1, <1>2
  <2>2. node[a] \in States
    BY <1>1
  <2>3. /\ OnReceive(node[a], m, c) \in States
        /\ OnReceive(node[a], m, c).rows = IF m.kind = "data" THEN m.rows ELSE node[a].rows
    BY <1>6, <2>2, ReceiveType
  <2> QED
    BY <2>1, <2>3
<1>8. TypeOK'
  <2>1. node' \in [Workers -> States]
    BY <1>1, <1>2, <1>5, <1>7
  <2>2. queue' \in [Workers -> Seq(Messages)]
    BY <1>1, <1>3, <1>4, <1>5
  <2> QED
    BY <1>0, <1>3, <2>1, <2>2 DEF TypeOK
<1>9. Owned(node')
  BY <1>0, <1>5, <1>6, <1>7 DEF Owned, OwnMessage
<1>10. QueueInv'
  <2> SUFFICES ASSUME NEW b \in Workers, NEW i \in 1 .. Len(queue'[b])
               PROVE  OwnMessage(b, queue'[b][i])
    BY DEF QueueInv, OwnMessage, IsPart, Part, Messages
  <2>1. CASE b = a
    <3>1. i + 1 \in 1 .. Len(queue[a]) /\ queue'[a][i] = queue[a][i + 1]
      BY <1>4, <2>1
    <3> QED
      BY <1>0, <2>1, <3>1 DEF QueueInv
  <2>2. CASE b # a
    BY <1>0, <1>5, <2>2 DEF QueueInv
  <2> QED
    BY <2>1, <2>2
<1>11. ASSUME NEW f \in Feeders, NEW b \in Workers, Reached(f, b)
       PROVE  Reached(f, b)'
  <2>1. CASE b # a
    BY <1>5, <1>11, <2>1 DEF Reached, Part
  <2>2. CASE b = a
    <3>1. CASE m.kind = "data"
      <4>1. node'[a].rows # {}
        BY <1>6, <1>7, <3>1 DEF OwnMessage, IsPart
      <4> QED
        BY <2>2, <4>1 DEF Reached
    <3>2. CASE m.kind # "data"
      <4>1. node'[a].rows = node[a].rows
        BY <1>7, <3>2
      <4>2. ASSUME NEW i \in 1 .. Len(queue[a]),
                   queue[a][i].kind = "data" /\ queue[a][i].rows = Part(f, a)
            PROVE  Reached(f, a)'
        <5>1. i # 1
          BY <1>4, <3>2, <4>2
        <5>2. i - 1 \in 1 .. Len(queue'[a]) /\ queue'[a][i - 1] = queue[a][i]
          BY <1>4, <5>1
        <5> QED
          BY <4>2, <5>2 DEF Reached, Part
      <4> QED
        BY <1>11, <2>2, <4>1, <4>2 DEF Reached, Part
    <3> QED
      BY <3>1, <3>2
  <2> QED
    BY <2>1, <2>2
<1>12. AckInv' /\ DoneInv'
  BY <1>3, <1>11, AckStep
<1> QED
  BY <1>8, <1>9, <1>10, <1>12 DEF IInv

-----------------------------------------------------------------------------
LEMMA StepIInv == IInv /\ [Next]_vars => IInv'
<1> SUFFICES ASSUME IInv, [Next]_vars PROVE IInv'
  OBVIOUS
<1>1. ASSUME NEW f \in Feeders, FeederProcess(f) PROVE IInv'
  BY <1>1, FeederStep
<1>2. ASSUME NEW a \in Workers, EStep(a) PROVE IInv'
  BY <1>2, EStepStep
<1>3. ASSUME NEW a \in Workers, MStep(a) PROVE IInv'
  BY <1>3, MStepStep
<1>4. ASSUME NEW a \in Workers, Receive(a) PROVE IInv'
  BY <1>4, ReceiveStep
<1>5. CASE UNCHANGED vars
  <2>1. ack' = ack /\ done' = done /\ node' = node /\ queue' = queue
    BY <1>5 DEF vars
  <2>2. TypeOK' /\ Owned(node')
    BY <2>1 DEF IInv, TypeOK, Owned, IsPart, Part
  <2>3. QueueInv'
    BY <2>1 DEF IInv, QueueInv, OwnMessage, IsPart, Part, Messages
  <2>4. \A f \in Feeders, b \in Workers : Reached(f, b) => Reached(f, b)'
    BY <2>1 DEF Reached, Part
  <2>5. AckInv' /\ DoneInv'
    BY <2>1, <2>4, AckStep
  <2> QED
    BY <2>2, <2>3, <2>5 DEF IInv
<1> QED
  BY <1>1, <1>2, <1>3, <1>4, <1>5 DEF Next

(* A row is in one part of its feeder only, and a worker that has a part   *)
(* has its own, so no two workers hold a row.                              *)
LEMMA IInvFed == IInv => Fed
<1> SUFFICES ASSUME IInv, NEW r \in Rows
             PROVE  LET holders == {a \in Workers : Holds(a, r)}
                    IN /\ Cardinality(holders) <= 1
                       /\ r[1] \in done /\ holders = {} =>
                             \E a \in Workers : r \in Part(r[1], a)
                                                /\ \E x \in node[a].rows : x[1] # r[1]
  BY DEF Fed
<1> DEFINE holders == {a \in Workers : Holds(a, r)}
<1>0. /\ \A a \in Workers : node[a].rows = {} \/ IsPart(a, node[a].rows)
      /\ \A a \in Workers : \A i \in 1 .. Len(queue[a]) :
            queue[a][i].kind = "data" => IsPart(a, queue[a][i].rows)
      /\ \A f \in done : f \in Feeders /\ \A a \in Workers : Reached(f, a)
      /\ queue \in [Workers -> Seq(Messages)]
  BY DEF IInv, Owned, QueueInv, OwnMessage, AckInv, DoneInv, TypeOK
<1>1p. PICK f \in Feeders : \E x \in 0 .. Height[f] - 1 : r = <<f, x>>
  BY DEF Rows
<1>1. PICK x \in 0 .. Height[f] - 1 : r = <<f, x>>
  BY <1>1p
<1>2. N \in Nat \ {0} /\ Height[f] \in Nat /\ Workers = 0 .. N - 1
  BY ConstantsAssumption DEF Workers
<1>3. \A a \in Workers : DOMAIN queue[a] = 1 .. Len(queue[a])
  BY <1>0, LenProperties
<1>4. ASSUME NEW a \in holders
      PROVE  a \in Workers /\ x \in PartOf(Height[f], a, N)
  <2>1. a \in Workers /\ Holds(a, r)
    OBVIOUS
  <2>2. PICK rows : IsPart(a, rows) /\ r \in rows
    BY <1>0, <1>3, <2>1 DEF Holds
  <2> QED
    BY <1>1, <2>1, <2>2 DEF IsPart, Part
<1>5. Cardinality(holders) <= 1
  <2>1. \A a, b \in holders : a = b
    BY <1>2, <1>4, PartsDisjoint
  <2> HIDE DEF holders
  <2>2. CASE holders = {}
    <3>1. Cardinality({}) = 0
      BY FS_EmptySet
    <3> QED
      BY <2>2, <3>1
  <2>3. CASE holders # {}
    <3>1. PICK a : a \in holders
      BY <2>3
    <3>2. holders = {a}
      BY <2>1, <3>1
    <3> QED
      BY SMTT(30), <3>2, FS_Singleton
  <2> QED
    BY <2>2, <2>3
<1>6. ASSUME r[1] \in done, holders = {}
      PROVE  \E a \in Workers : r \in Part(r[1], a) /\ \E y \in node[a].rows : y[1] # r[1]
  <2>1. PICK a \in Workers : x \in PartOf(Height[f], a, N)
    BY <1>2, PartsCover
  <2>2. r \in Part(f, a) /\ r[1] = f
    BY <1>1, <2>1 DEF Part
  <2>3. Reached(f, a) /\ ~Holds(a, r)
    BY <1>0, <1>6, <2>2
  <2>4. node[a].rows # {}
    BY <1>3, <2>2, <2>3 DEF Reached, Holds
  <2>5. PICK g \in Feeders : node[a].rows = Part(g, a)
    BY <1>0, <2>4 DEF IsPart
  <2>6. g # f
    BY <2>2, <2>3, <2>5 DEF Holds
  <2>7. \A y \in node[a].rows : y[1] = g
    BY <2>5 DEF Part
  <2> QED
    BY <2>2, <2>4, <2>6, <2>7
<1> QED
  BY <1>5, <1>6

(* The messages and the states of the workers are what the code's types    *)
(* say, for any number of feeders, workers and clusters.                   *)
THEOREM TypeCorrect == Spec => []TypeOK
<1>1. IInv => TypeOK
  BY DEF IInv
<1> QED
  BY <1>1, InitIInv, StepIInv, PTL DEF Spec

(* Each row of a data node that has finished is with one worker only,      *)
(* whatever sends failed and in whatever order the rest came (NodeData,    *)
(* Matrix::part), unless another data node's set has replaced it.          *)
THEOREM EachRowOnce == Spec => []Fed
<1> QED
  BY InitIInv, StepIInv, IInvFed, PTL DEF Spec
-----------------------------------------------------------------------------
(* Weights.  A worker that has no data holds no weight; where all data     *)
(* nodes have as many rows, the weights of the clusters add up to w0, and  *)
(* those of the last assignment to what the first training set weighed.    *)
Weighed(a, s) ==
    /\ ~Trained(s) => s.w0 = 0
    /\ s.rows # {} => Trained(s)
    /\ EqualSets =>
          /\ SumFunction(s.w) = s.w0 /\ SumFunction(s.w_new) = s.given
          /\ Trained(s) => \A f \in Feeders : Unit * Cardinality(Part(f, a)) = s.given

MessageWeighed(m) == EqualSets /\ m.kind = "codebook" => SumFunction(m.w) = m.w0

(* What a worker holds beyond what it brought in.                          *)
Net(s) == s.w0 + s.lost - s.given

LEMMA ClustersFinite == IsFiniteSet(Clusters) /\ IsFiniteSet(Workers) /\ Unit \in Nat \ {0}
<1>1. K \in Nat /\ N \in Nat /\ Unit \in Nat \ {0}
  BY ConstantsAssumption
<1>2. IsFiniteSet(1 .. K) /\ IsFiniteSet(0 .. N - 1)
  BY <1>1, FS_Interval
<1> QED
  BY <1>1, <1>2 DEF Clusters, Workers

LEMMA WeightsSummable == \A w \in Weights : Summable(w) /\ DOMAIN w = Clusters
BY ClustersFinite DEF Summable, Weights

(* Every row counts for one cluster.                                       *)
LEMMA CountSum ==
    ASSUME NEW c, NEW rows, IsFiniteSet(rows), \A r \in rows : c[r] \in Clusters
    PROVE  SumFunction(Count(c, rows)) = Unit * Cardinality(rows)
<1> DEFINE T == {s \in SUBSET rows : SumFunction(Count(c, s)) # Unit * Cardinality(s)}
<1> SUFFICES ASSUME T # {} PROVE FALSE
  OBVIOUS
<1>0. Unit \in Nat
  BY ConstantsAssumption
<1>1. PICK s \in T : \A t \in T : t \subseteq s => t = s
  <2>1. T \subseteq SUBSET rows
    OBVIOUS
  <2> HIDE DEF T
  <2> QED
    BY <2>1, LeastSubset
<1>2. s \in SUBSET rows /\ SumFunction(Count(c, s)) # Unit * Cardinality(s) /\ IsFiniteSet(s)
  BY <1>1, FS_Subset
<1>3. s # {}
  <2>1. Cardinality({}) = 0 /\ IsFiniteSet({})
    BY FS_EmptySet
  <2>2. Count(c, {}) \in Weights
    BY <2>1, CountType
  <2>3. \A k \in Clusters : {r \in {} : c[r] = k} = {}
    OBVIOUS
  <2>4. \A k \in Clusters : Count(c, {})[k] = 0
    BY <1>0, <2>1, <2>3 DEF Count
  <2>5. SumFunction(Count(c, {})) = 0
    BY <2>2, <2>4, WeightsSummable, SumZero
  <2> QED
    BY <1>0, <1>2, <2>1, <2>5
<1>4. PICK r : r \in s
  BY <1>3
<1> DEFINE t == s \ {r}
           k == c[r]
<1>5. t \in SUBSET rows /\ IsFiniteSet(t) /\ Cardinality(t) = Cardinality(s) - 1
      /\ Cardinality(s) \in Nat
  BY <1>2, <1>4, FS_RemoveElement, FS_CardinalityType
<1>6. SumFunction(Count(c, t)) = Unit * Cardinality(t)
  <2>1. t \notin T
    BY <1>1, <1>4
  <2> QED
    BY <1>5, <2>1
<1>7. k \in Clusters
  BY <1>2, <1>4
<1>8. Count(c, t) \in Weights /\ Count(c, s) \in Weights
  BY <1>2, <1>5, CountType
<1>9. \A j \in Clusters : j # k => Count(c, t)[j] = Count(c, s)[j]
  <2> TAKE j \in Clusters
  <2> SUFFICES ASSUME j # k PROVE Count(c, t)[j] = Count(c, s)[j]
    OBVIOUS
  <2>1. {x \in t : c[x] = j} = {x \in s : c[x] = j}
    OBVIOUS
  <2> QED
    BY <2>1 DEF Count
<1>10. Count(c, s)[k] = Count(c, t)[k] + Unit
  <2> DEFINE A == {x \in s : c[x] = k}
             B == {x \in t : c[x] = k}
  <2>1. B = A \ {r} /\ r \in A
    BY <1>4
  <2>2. IsFiniteSet(A)
    BY <1>2, FS_Subset
  <2>3. Count(c, s)[k] = Unit * Cardinality(A) /\ Count(c, t)[k] = Unit * Cardinality(B)
    BY <1>7 DEF Count
  <2> HIDE DEF A, B
  <2>4. Cardinality(B) = Cardinality(A) - 1 /\ Cardinality(A) \in Nat
    BY <2>1, <2>2, FS_RemoveElement, FS_CardinalityType
  <2>5. Unit * Cardinality(A) = Unit * (Cardinality(A) - 1) + Unit
    BY <1>0, <2>4
  <2> QED
    BY <2>3, <2>4, <2>5
<1> HIDE DEF t, k
<1>11. SumFunction(Count(c, s)) = SumFunction(Count(c, t)) - Count(c, t)[k] + Count(c, s)[k]
  BY <1>7, <1>8, <1>9, WeightsSummable, SumUpdate
<1>12. Count(c, t)[k] \in Int /\ SumFunction(Count(c, t)) \in Int
  BY <1>7, <1>8, WeightsSummable, SumType DEF Weights
<1>13. Unit * Cardinality(s) = Unit * (Cardinality(s) - 1) + Unit
  BY <1>0, <1>5
<1>14. SumFunction(Count(c, s)) = SumFunction(Count(c, t)) + Unit
  BY <1>0, <1>10, <1>11, <1>12
<1>15. SumFunction(Count(c, t)) = Unit * (Cardinality(s) - 1)
  BY <1>5, <1>6
<1> HIDE DEF T
<1> QED
  BY <1>2, <1>13, <1>14, <1>15

(* Parts of as many rows are as large.                                     *)
LEMMA EqualPartSize ==
    ASSUME EqualSets, NEW f \in Feeders, NEW g \in Feeders, NEW a \in Workers
    PROVE  Cardinality(Part(f, a)) = Cardinality(Part(g, a))
<1>1. IsFiniteSet(Part(f, a))
  BY PartType
<1>2. Height[f] = Height[g]
  BY DEF EqualSets
<1> DEFINE S == PartOf(Height[f], a, N)
           pi == [x \in Part(f, a) |-> <<g, x[2]>>]
<1>3. Part(f, a) = {f} \X S /\ Part(g, a) = {g} \X S
  BY <1>2 DEF Part
<1> HIDE DEF S
<1>4. pi \in Bijection(Part(f, a), Part(g, a))
  <2>1. pi \in [Part(f, a) -> Part(g, a)]
    BY <1>3
  <2>2. \A x, y \in Part(f, a) : pi[x] = pi[y] => x = y
    BY <1>3
  <2>3. \A z \in Part(g, a) : \E x \in Part(f, a) : pi[x] = z
    <3> TAKE z \in Part(g, a)
    <3>1. <<f, z[2]>> \in Part(f, a) /\ pi[<<f, z[2]>>] = z
      BY <1>3
    <3> QED
      BY <3>1
  <2> QED
    <3> HIDE DEF pi
    <3>1. pi \in Injection(Part(f, a), Part(g, a))
      BY <2>1, <2>2 DEF Injection, IsInjective
    <3>2. pi \in Surjection(Part(f, a), Part(g, a))
      BY <2>1, <2>3 DEF Surjection
    <3> QED
      BY <3>1, <3>2 DEF Bijection
<1> QED
  BY <1>1, <1>4, FS_Bijection DEF ExistsBijection

-----------------------------------------------------------------------------
(* The handlers keep the weights.                                          *)
GoodChoice(m, c) == m.kind = "data" => \A r \in m.rows : c[r] \in Clusters

LEMMA TrainWeighs ==
    ASSUME NEW a \in Workers, NEW s \in States, Weighed(a, s),
           NEW rows, IsPart(a, rows), NEW c, \A r \in rows : c[r] \in Clusters
    PROVE  /\ Weighed(a, Train(s, rows, c)) /\ Net(Train(s, rows, c)) = Net(s)
<1>1. PICK f \in Feeders : rows = Part(f, a) /\ rows # {}
  BY DEF IsPart
<1>2. IsFiniteSet(rows) /\ Unit \in Nat \ {0}
  BY <1>1, PartType, ClustersFinite
<1> DEFINE u == Unit * Cardinality(rows)
           n == Count(c, rows)
<1>3. u \in Nat /\ u # 0
  <2>1. Cardinality(rows) \in Nat /\ Cardinality(rows) # 0
    BY <1>1, <1>2, FS_CardinalityType, FS_EmptySet
  <2> QED
    BY <1>2, <2>1
<1>4. SumFunction(n) = u
  BY <1>2, CountSum
<1>5. CASE Trained(s)
  <2> DEFINE t == Train(s, rows, c)
  <2>1. /\ t.w = s.w /\ t.w_new = s.w_new /\ t.w0 = s.w0 /\ t.given = s.given
        /\ t.lost = s.lost /\ t.rows = rows
    BY <1>5 DEF Train, States
  <2> HIDE DEF t
  <2>2. Net(t) = Net(s) /\ Trained(t)
    BY <1>5, <2>1 DEF Net, Trained
  <2>3. Weighed(a, t)
    BY <1>5, <2>1, <2>2 DEF Weighed
  <2> QED
    BY <2>2, <2>3 DEF t
<1>6. CASE ~Trained(s)
  <2> DEFINE t == Train(s, rows, c)
  <2>1. /\ t.w = n /\ t.w_new = n /\ t.w0 = u /\ t.given = u
        /\ t.lost = s.lost /\ t.rows = rows
    BY <1>6 DEF Train, States
  <2> HIDE DEF t, n
  <2>2. s.w0 = 0 /\ s.given = 0 /\ s.lost \in Nat
    BY <1>6 DEF Weighed, Trained, States
  <2>3. Net(t) = Net(s) /\ Trained(t)
    <3> HIDE DEF u
    <3> QED
      BY <1>3, <2>1, <2>2 DEF Net, Trained
  <2>4. EqualSets => \A g \in Feeders : Unit * Cardinality(Part(g, a)) = t.given
    <3> SUFFICES ASSUME EqualSets, NEW g \in Feeders
                 PROVE  Unit * Cardinality(Part(g, a)) = t.given
      OBVIOUS
    <3>1. Cardinality(Part(g, a)) = Cardinality(rows)
      BY <1>1, EqualPartSize
    <3> QED
      BY <2>1, <3>1
  <2> HIDE DEF u
  <2>5. Weighed(a, t)
    BY <1>4, <2>1, <2>3, <2>4 DEF Weighed
  <2> QED
    BY <2>3, <2>5 DEF t
<1> QED
  BY <1>5, <1>6

LEMMA MergeWeighs ==
    ASSUME NEW a \in Workers, NEW s \in States, Weighed(a, s),
           NEW m, m \in Messages, m.kind = "codebook", MessageWeighed(m)
    PROVE  Weighed(a, Merge(s, m)) /\ Net(Merge(s, m)) = Net(s) + m.w0
<1>0. m.w \in Weights /\ m.w0 \in Nat
  BY DEF Messages
<1>1. s.w0 \in Nat /\ s.lost \in Nat /\ s.given \in Nat /\ s.w \in Weights
  BY DEF States
<1> DEFINE t == Merge(s, m)
<1>2. CASE Trained(s)
  <2> DEFINE v == [k \in Clusters |-> s.w[k] + m.w[k]]
  <2>1. /\ t.w = v /\ t.w_new = s.w_new /\ t.w0 = s.w0 + m.w0 /\ t.given = s.given
        /\ t.lost = s.lost /\ t.rows = s.rows
    BY <1>2 DEF Merge, States
  <2>2. v \in Weights /\ \A k \in Clusters : v[k] = s.w[k] + m.w[k]
    BY <1>0, <1>1 DEF Weights
  <2> HIDE DEF t, v
  <2>3. SumFunction(v) = SumFunction(s.w) + SumFunction(m.w)
    BY <1>0, <1>1, <2>2, WeightsSummable, SumPlus
  <2>4. Net(t) = Net(s) + m.w0 /\ Trained(t)
    BY <1>0, <1>1, <1>2, <2>1 DEF Net, Trained
  <2>5. Weighed(a, t)
    BY <1>2, <2>1, <2>3, <2>4 DEF Weighed, MessageWeighed
  <2> QED
    BY <2>4, <2>5 DEF t
<1>3. CASE ~Trained(s)
  <2>1. /\ t.w = s.w /\ t.w_new = s.w_new /\ t.w0 = s.w0 /\ t.given = s.given
        /\ t.lost = s.lost + m.w0 /\ t.rows = s.rows
    BY <1>3 DEF Merge, States
  <2> HIDE DEF t
  <2>2. Net(t) = Net(s) + m.w0
    BY <1>0, <1>1, <2>1 DEF Net
  <2>3. Weighed(a, t)
    BY <2>1 DEF Weighed, Trained
  <2> QED
    BY <2>2, <2>3 DEF t
<1> QED
  BY <1>2, <1>3

(* States that differ in what is not weighed.                              *)
SameWeights(s, t) ==
    /\ t.w = s.w /\ t.w_new = s.w_new /\ t.w0 = s.w0 /\ t.given = s.given
    /\ t.lost = s.lost /\ t.rows = s.rows

LEMMA SameWeighs ==
    ASSUME NEW a, NEW s, NEW t, Weighed(a, s), SameWeights(s, t)
    PROVE  Weighed(a, t) /\ Net(t) = Net(s)
BY DEF SameWeights, Weighed, Net, Trained

LEMMA ReceiveWeighs ==
    ASSUME NEW a \in Workers, NEW s \in States, Weighed(a, s),
           NEW m, OwnMessage(a, m), MessageWeighed(m), NEW c, GoodChoice(m, c)
    PROVE  /\ Weighed(a, OnReceive(s, m, c))
           /\ Net(OnReceive(s, m, c)) = Net(s) + WeightOf(m)
<1>1. m \in Messages /\ Net(s) \in Int
  BY DEF OwnMessage, Net, States
<1>2. CASE m.kind = "data"
  <2>1. IsPart(a, m.rows) /\ \A r \in m.rows : c[r] \in Clusters
    BY <1>2 DEF OwnMessage, GoodChoice
  <2>2. Weighed(a, Train(s, m.rows, c)) /\ Net(Train(s, m.rows, c)) = Net(s)
    BY <2>1, TrainWeighs
  <2>3. OnReceive(s, m, c) = Train(s, m.rows, c) /\ WeightOf(m) = 0
    BY <1>2 DEF OnReceive, WeightOf
  <2> QED
    BY <1>1, <2>2, <2>3
<1>3. CASE m.kind = "codebook"
  <2>1. OnReceive(s, m, c) = Merge(s, m) /\ WeightOf(m) = m.w0
    BY <1>3 DEF OnReceive, WeightOf
  <2> QED
    BY <1>1, <1>3, <2>1, MergeWeighs
<1>4. CASE m.kind = "finish"
  <2>1. OnReceive(s, m, c) = TheEnd(s) /\ WeightOf(m) = 0
    BY <1>4 DEF OnReceive, WeightOf
  <2>2. SameWeights(s, TheEnd(s))
    BY DEF SameWeights, TheEnd, States
  <2> QED
    BY <1>1, <2>1, <2>2, SameWeighs
<1> QED
  BY <1>1, <1>2, <1>3, <1>4 DEF Messages

LEMMA ReassignWeighs ==
    ASSUME NEW a \in Workers, NEW s \in States, Weighed(a, s), IsPart(a, s.rows),
           NEW c, \A r \in s.rows : c[r] \in Clusters
    PROVE  Weighed(a, Reassign(s, c)) /\ Net(Reassign(s, c)) = Net(s)
<1>1. PICK f \in Feeders : s.rows = Part(f, a) /\ s.rows # {}
  BY DEF IsPart
<1>2. IsFiniteSet(s.rows)
  BY <1>1, PartType
<1>3. s.w \in Weights /\ s.w_new \in Weights /\ s.w0 \in Nat /\ s.given \in Nat
  BY DEF States
<1> DEFINE n == Count(c, s.rows)
           t == Reassign(s, c)
           d == [k \in Clusters |-> s.w[k] - s.w_new[k]]
           v == [k \in Clusters |-> s.w[k] - s.w_new[k] + n[k]]
<1>4. n \in Weights /\ SumFunction(n) = Unit * Cardinality(s.rows)
  BY <1>2, CountType, CountSum
<1>5. /\ t.w = v /\ t.w_new = n /\ t.w0 = s.w0 /\ t.given = s.given
      /\ t.lost = s.lost /\ t.rows = s.rows
  BY DEF Reassign, States
<1> HIDE DEF t, n
<1>6. d \in Weights /\ v \in Weights
  BY <1>3, <1>4 DEF Weights
<1>7. /\ \A k \in Clusters : s.w[k] = s.w_new[k] + d[k]
      /\ \A k \in Clusters : v[k] = d[k] + n[k]
  BY <1>3, <1>4 DEF Weights
<1> HIDE DEF d, v
<1>8. SumFunction(s.w) = SumFunction(s.w_new) + SumFunction(d)
  BY <1>3, <1>6, <1>7, WeightsSummable, SumPlus
<1>9. SumFunction(v) = SumFunction(d) + SumFunction(n)
  BY <1>4, <1>6, <1>7, WeightsSummable, SumPlus
<1>10. SumFunction(d) \in Int /\ SumFunction(s.w_new) \in Int
  BY <1>3, <1>6, WeightsSummable, SumType
<1>11. Net(t) = Net(s) /\ (Trained(t) <=> Trained(s))
  BY <1>5 DEF Net, Trained
<1>12. EqualSets => SumFunction(v) = s.w0 /\ SumFunction(n) = s.given
  <2> SUFFICES ASSUME EqualSets PROVE SumFunction(v) = s.w0 /\ SumFunction(n) = s.given
    OBVIOUS
  <2>1. SumFunction(s.w) = s.w0 /\ SumFunction(s.w_new) = s.given
    BY DEF Weighed
  <2>2. SumFunction(n) = s.given
    BY <1>1, <1>4 DEF Weighed
  <2> QED
    BY <1>3, <1>8, <1>9, <1>10, <2>1, <2>2
<1>13. Weighed(a, t)
  BY <1>5, <1>11, <1>12 DEF Weighed
<1> QED
  BY <1>11, <1>13 DEF t

(* Weights that are all even are halved without a remainder.               *)
Sending(a, s, h) ==
    Weighed(a, s) /\ s.m < M /\ Even(s) /\ h = [Halve(s) EXCEPT !.m = @ + 1]

LEMMA HalveWeighs ==
    ASSUME NEW a \in Workers, NEW s \in States, NEW h, Sending(a, s, h)
    PROVE  /\ Weighed(a, h) /\ Net(h) = Net(s) - h.w0 /\ h.w0 \in Nat /\ h.w \in Weights
           /\ EqualSets => SumFunction(h.w) = h.w0
           /\ Weighed(a, Double(h)) /\ Net(Double(h)) = Net(s)
<1>0. Weighed(a, s) /\ s.m < M /\ Even(s) /\ h = [Halve(s) EXCEPT !.m = @ + 1]
  BY DEF Sending
<1>1. s.w \in Weights /\ s.w0 \in Nat /\ s.lost \in Nat /\ s.given \in Nat
  BY DEF States
<1> DEFINE v == [k \in Clusters |-> s.w[k] \div 2]
<1>2. /\ h.w = v /\ h.w_new = s.w_new /\ h.w0 = s.w0 \div 2 /\ h.given = s.given
      /\ h.lost = s.lost /\ h.rows = s.rows
  BY <1>0 DEF Halve, States
<1>3. h.w0 \in Nat /\ s.w0 = h.w0 + h.w0
  <2>1. \A x \in Nat : x % 2 = 0 => x \div 2 \in Nat /\ x = (x \div 2) + (x \div 2)
    BY SMTT(30)
  <2>2. s.w0 % 2 = 0
    BY <1>0 DEF Even
  <2> QED
    BY <1>1, <1>2, <2>1, <2>2
<1>4. h \in States
  BY <1>0, HalveType
<1>5. v \in Weights /\ \A k \in Clusters : s.w[k] = v[k] + v[k]
  BY <1>0, <1>1 DEF Weights, Even
<1> HIDE DEF v
<1>6. SumFunction(s.w) = SumFunction(v) + SumFunction(v)
  BY <1>1, <1>5, WeightsSummable, SumPlus
<1>7. SumFunction(v) \in Int
  BY <1>5, WeightsSummable, SumType
<1>8. EqualSets => SumFunction(v) = h.w0
  <2> SUFFICES ASSUME EqualSets PROVE SumFunction(v) = h.w0
    OBVIOUS
  <2>1. SumFunction(s.w) = s.w0
    BY <1>0 DEF Weighed
  <2>2. \A x, y \in Int : x + x = y + y => x = y
    OBVIOUS
  <2>3. SumFunction(v) + SumFunction(v) = h.w0 + h.w0
    BY <1>3, <1>6, <2>1
  <2>4. h.w0 \in Int
    BY <1>3
  <2> QED
    BY <1>7, <2>2, <2>3, <2>4
<1>9. Net(h) = Net(s) - h.w0
  BY <1>1, <1>2, <1>3 DEF Net
<1>10. Weighed(a, h)
  <2>1. (Trained(h) <=> Trained(s)) /\ (s.w0 = 0 => h.w0 = 0)
    BY <1>2, <1>3 DEF Trained
  <2> QED
    BY <1>0, <1>2, <1>8, <2>1 DEF Weighed
<1> DEFINE d == Double(h)
           u == [k \in Clusters |-> 2 * h.w[k]]
<1>11. /\ d.w = u /\ d.w_new = h.w_new /\ d.w0 = 2 * h.w0 /\ d.given = h.given
       /\ d.lost = h.lost /\ d.rows = h.rows
  BY <1>4 DEF Double, States
<1> HIDE DEF d
<1>12. d.w0 = s.w0
  BY <1>3, <1>11
<1>13. d.w = s.w
  <2>1. s.w = [k \in Clusters |-> s.w[k]]
    BY <1>1 DEF Weights
  <2>2. \A k \in Clusters : 2 * h.w[k] = s.w[k]
    BY <1>2, <1>5 DEF Weights
  <2> QED
    BY <1>11, <2>1, <2>2
<1>14. SameWeights(s, d)
  BY <1>2, <1>11, <1>12, <1>13 DEF SameWeights
<1>15. Weighed(a, d) /\ Net(d) = Net(s)
  BY <1>0, <1>14, SameWeighs
<1> QED
  BY <1>2, <1>3, <1>5, <1>8, <1>9, <1>10, <1>15 DEF d

-----------------------------------------------------------------------------
(* What waits in a queue.                                                  *)
Loads(q) == [i \in DOMAIN q |-> WeightOf(q[i])]

LEMMA LoadsSummable ==
    ASSUME NEW q \in Seq(Messages)
    PROVE  /\ Summable(Loads(q)) /\ DOMAIN Loads(q) = 1 .. Len(q) /\ Len(q) \in Nat
           /\ Waiting(q) = SumFunction(Loads(q)) /\ Waiting(q) \in Int
           /\ \A i \in 1 .. Len(q) : Loads(q)[i] = WeightOf(q[i])
<1>1. DOMAIN q = 1 .. Len(q) /\ Len(q) \in Nat /\ \A i \in 1 .. Len(q) : q[i] \in Messages
  BY LenProperties, ElementOfSeq
<1>2. \A m \in Messages : WeightOf(m) \in Int
  BY DEF Messages, WeightOf
<1>3. IsFiniteSet(1 .. Len(q))
  BY <1>1, FS_Interval
<1>4. Summable(Loads(q)) /\ DOMAIN Loads(q) = 1 .. Len(q)
  BY <1>1, <1>2, <1>3 DEF Summable, Loads
<1>5. Waiting(q) = SumFunction(Loads(q))
  BY DEF Waiting, Loads
<1> QED
  BY <1>1, <1>4, <1>5, SumType DEF Loads

LEMMA WaitingAppend ==
    ASSUME NEW q \in Seq(Messages), NEW m \in Messages
    PROVE  Waiting(Append(q, m)) = Waiting(q) + WeightOf(m)
<1> DEFINE p == Append(q, m)
<1>1. /\ p \in Seq(Messages) /\ Len(p) = Len(q) + 1 /\ p[Len(q) + 1] = m
      /\ \A i \in 1 .. Len(q) : p[i] = q[i]
  BY AppendProperties
<1> HIDE DEF p
<1>2. /\ Summable(Loads(q)) /\ DOMAIN Loads(q) = 1 .. Len(q) /\ Len(q) \in Nat
      /\ Waiting(q) = SumFunction(Loads(q))
      /\ \A i \in 1 .. Len(q) : Loads(q)[i] = WeightOf(q[i])
  BY LoadsSummable
<1>3. /\ Summable(Loads(p)) /\ DOMAIN Loads(p) = 1 .. Len(p)
      /\ Waiting(p) = SumFunction(Loads(p))
      /\ \A i \in 1 .. Len(p) : Loads(p)[i] = WeightOf(p[i])
  BY <1>1, LoadsSummable
<1>4. \A i \in 1 .. Len(q) : Loads(p)[i] = Loads(q)[i]
  BY <1>1, <1>2, <1>3
<1>5. Loads(p)[Len(q) + 1] = WeightOf(m)
  BY <1>1, <1>2, <1>3
<1>6. SumFunction(Loads(p)) = SumFunction(Loads(q)) + Loads(p)[Len(q) + 1]
  BY <1>1, <1>2, <1>3, <1>4, SumAppend
<1> QED
  BY <1>2, <1>3, <1>5, <1>6 DEF p

LEMMA WaitingTail ==
    ASSUME NEW q \in Seq(Messages), q # <<>>
    PROVE  Waiting(q) = WeightOf(Head(q)) + Waiting(Tail(q))
<1> DEFINE p == Tail(q)
<1>1. /\ p \in Seq(Messages) /\ Len(p) = Len(q) - 1 /\ Head(q) = q[1]
      /\ \A i \in 1 .. Len(p) : p[i] = q[i + 1]
  BY HeadTailProperties
<1>2. Len(q) \in Nat \ {0}
  BY EmptySeq, LenProperties
<1> HIDE DEF p
<1>3. /\ Summable(Loads(q)) /\ DOMAIN Loads(q) = 1 .. Len(q)
      /\ Waiting(q) = SumFunction(Loads(q))
      /\ \A i \in 1 .. Len(q) : Loads(q)[i] = WeightOf(q[i])
  BY LoadsSummable
<1>4. /\ Summable(Loads(p)) /\ DOMAIN Loads(p) = 1 .. Len(p)
      /\ Waiting(p) = SumFunction(Loads(p))
      /\ \A i \in 1 .. Len(p) : Loads(p)[i] = WeightOf(p[i])
  BY <1>1, LoadsSummable
<1>5. \A i \in 1 .. Len(q) - 1 : Loads(p)[i] = Loads(q)[i + 1]
  BY <1>1, <1>2, <1>3, <1>4
<1>6. SumFunction(Loads(q)) = Loads(q)[1] + SumFunction(Loads(p))
  BY <1>1, <1>2, <1>3, <1>4, <1>5, SumTail
<1>7. Loads(q)[1] = WeightOf(Head(q))
  BY <1>1, <1>2, <1>3
<1> QED
  BY <1>3, <1>4, <1>6, <1>7 DEF p

-----------------------------------------------------------------------------
(* All weights, and what all workers hold beyond what they brought in.     *)
AllWeighed(nd) == \A a \in Workers : Weighed(a, nd[a])

QueuesWeighed == \A a \in Workers : \A i \in 1 .. Len(queue[a]) : MessageWeighed(queue[a][i])

Surplus(nd, q) == [a \in Workers |-> Net(nd[a]) + Waiting(q[a])]

WInv ==
    /\ IInv
    /\ AllWeighed(node)
    /\ QueuesWeighed
    /\ SumFunction(Surplus(node, queue)) = 0

LEMMA SurplusSummable ==
    ASSUME NEW nd \in [Workers -> States], NEW q \in [Workers -> Seq(Messages)]
    PROVE  /\ Summable(Surplus(nd, q)) /\ DOMAIN Surplus(nd, q) = Workers
           /\ \A a \in Workers : Net(nd[a]) \in Int /\ Waiting(q[a]) \in Int
           /\ \A a \in Workers : Surplus(nd, q)[a] = Net(nd[a]) + Waiting(q[a])
<1>1. \A a \in Workers : Net(nd[a]) \in Int
  BY DEF Net, States
<1>2. \A a \in Workers : Waiting(q[a]) \in Int
  BY LoadsSummable
<1> QED
  BY <1>1, <1>2, ClustersFinite DEF Summable, Surplus

(* What the messages add to whom they are sent to.                         *)
Given(ms, b) == IF b \in DOMAIN ms THEN WeightOf(ms[b]) ELSE 0

FairMessages(ms, c) ==
    Suits(ms) /\ \A b \in DOMAIN ms : MessageWeighed(ms[b]) /\ GoodChoice(ms[b], c)

Spread(nd, H, ms) ==
    \A b \in Workers : Net(H[b]) + Waiting(queue'[b]) = Surplus(nd, queue)[b] + Given(ms, b)

LEMMA MulticastWeighs ==
    ASSUME TypeOK, QueueInv, QueuesWeighed, NEW nd \in [Workers -> States], AllWeighed(nd),
           NEW a, NEW ms, NEW c, FairMessages(ms, c),
           queue' = Queued(a, ms)
    PROVE  /\ AllWeighed(Handled(nd, a, ms, c))
           /\ QueuesWeighed'
           /\ Spread(nd, Handled(nd, a, ms, c), ms)
<1> DEFINE H == Handled(nd, a, ms, c)
<1>1. queue \in [Workers -> Seq(Messages)]
  BY DEF TypeOK
<1>2. \A b \in Workers : /\ Net(nd[b]) \in Int /\ Waiting(queue[b]) \in Int
                         /\ Surplus(nd, queue)[b] = Net(nd[b]) + Waiting(queue[b])
  BY <1>1, SurplusSummable
<1>3. ASSUME NEW b \in Workers
      PROVE  /\ Weighed(b, H[b])
             /\ \A i \in 1 .. Len(queue'[b]) : MessageWeighed(queue'[b][i])
             /\ Net(H[b]) + Waiting(queue'[b]) = Surplus(nd, queue)[b] + Given(ms, b)
  <2>0. /\ nd[b] \in States /\ Weighed(b, nd[b]) /\ queue[b] \in Seq(Messages)
        /\ \A i \in 1 .. Len(queue[b]) : MessageWeighed(queue[b][i])
    BY <1>1 DEF AllWeighed, QueuesWeighed
  <2>1. CASE b \in DOMAIN ms /\ SameThread(a, b)
    <3>1. H[b] = OnReceive(nd[b], ms[b], c) /\ queue'[b] = queue[b]
      BY <2>1 DEF Handled, Queued
    <3>2. OwnMessage(b, ms[b]) /\ MessageWeighed(ms[b]) /\ GoodChoice(ms[b], c)
      BY <2>1 DEF Suits, FairMessages
    <3>3. Weighed(b, H[b]) /\ Net(H[b]) = Net(nd[b]) + WeightOf(ms[b])
      BY <2>0, <3>1, <3>2, ReceiveWeighs
    <3>4. WeightOf(ms[b]) \in Int
      BY <3>2 DEF OwnMessage, Messages, WeightOf
    <3> HIDE DEF H
    <3>5. Net(H[b]) + Waiting(queue'[b]) = Surplus(nd, queue)[b] + Given(ms, b)
      BY <1>2, <2>1, <3>1, <3>3, <3>4 DEF Given
    <3> QED
      BY <2>0, <3>1, <3>3, <3>5
  <2>2. CASE b \in DOMAIN ms /\ ~SameThread(a, b)
    <3>1. H[b] = nd[b] /\ queue'[b] = Append(queue[b], ms[b])
      BY <2>2 DEF Handled, Queued
    <3>2. OwnMessage(b, ms[b]) /\ MessageWeighed(ms[b]) /\ ms[b] \in Messages
      BY <2>2 DEF Suits, OwnMessage, FairMessages
    <3>3. Waiting(queue'[b]) = Waiting(queue[b]) + WeightOf(ms[b])
      BY <2>0, <3>1, <3>2, WaitingAppend
    <3>4. WeightOf(ms[b]) \in Int
      BY <3>2 DEF OwnMessage, Messages, WeightOf
    <3>5. /\ Len(queue'[b]) = Len(queue[b]) + 1 /\ queue'[b][Len(queue[b]) + 1] = ms[b]
          /\ \A i \in 1 .. Len(queue[b]) : queue'[b][i] = queue[b][i]
          /\ Len(queue[b]) \in Nat
      BY <2>0, <3>1, <3>2, AppendProperties, LenProperties
    <3> HIDE DEF H
    <3>6. Net(H[b]) + Waiting(queue'[b]) = Surplus(nd, queue)[b] + Given(ms, b)
      BY <1>2, <2>2, <3>1, <3>3, <3>4 DEF Given
    <3>7. ASSUME NEW i \in 1 .. Len(queue'[b]) PROVE MessageWeighed(queue'[b][i])
      <4>1. i \in 1 .. Len(queue[b]) \/ i = Len(queue[b]) + 1
        BY <3>5
      <4> QED
        BY <2>0, <3>2, <3>5, <4>1
    <3> QED
      BY <2>0, <3>1, <3>6, <3>7
  <2>3. CASE b \notin DOMAIN ms
    <3>1. H[b] = nd[b] /\ queue'[b] = queue[b] /\ Given(ms, b) = 0
      BY <2>3 DEF Handled, Queued, Given
    <3> HIDE DEF H
    <3>2. Net(H[b]) + Waiting(queue'[b]) = Surplus(nd, queue)[b] + Given(ms, b)
      BY <1>2, <3>1
    <3> QED
      BY <2>0, <3>1, <3>2
  <2> QED
    BY <2>1, <2>2, <2>3
<1>4. QueuesWeighed'
  BY <1>3 DEF QueuesWeighed, MessageWeighed, EqualSets
<1>5. AllWeighed(H)
  BY <1>3 DEF AllWeighed
<1>6. Spread(nd, H, ms)
  <2> HIDE DEF H
  <2> QED
    BY <1>3 DEF Spread
<1> QED
  BY <1>4, <1>5, <1>6

(* The surplus after a step, a function G that adds up to nothing.         *)
LEMMA SurplusIs ==
    ASSUME IInv', AllWeighed(node'), QueuesWeighed',
           NEW G, Summable(G), DOMAIN G = Workers, SumFunction(G) = 0,
           \A b \in Workers : Net(node'[b]) + Waiting(queue'[b]) = G[b]
    PROVE  WInv'
<1>2. node' \in [Workers -> States] /\ queue' \in [Workers -> Seq(Messages)]
  BY DEF IInv, TypeOK
<1>4. /\ Summable(Surplus(node', queue')) /\ DOMAIN Surplus(node', queue') = Workers
      /\ \A b \in Workers : Surplus(node', queue')[b] = Net(node'[b]) + Waiting(queue'[b])
  <2> PICK nd, q : nd = node' /\ q = queue'
    OBVIOUS
  <2>1. /\ Summable(Surplus(nd, q)) /\ DOMAIN Surplus(nd, q) = Workers
        /\ \A b \in Workers : Surplus(nd, q)[b] = Net(nd[b]) + Waiting(q[b])
    BY <1>2, SurplusSummable
  <2> QED
    BY <2>1
<1>5. SumFunction(Surplus(node', queue')) = 0
  BY <1>4, SumSame
<1>6. SumFunction(Surplus(node, queue))' = SumFunction(Surplus(node', queue'))
  BY DEF Surplus, Net, Waiting, WeightOf
<1> QED
  BY <1>5, <1>6 DEF WInv, AllWeighed, Weighed, Part, Trained, EqualSets

(* Nobody's surplus changes.                                               *)
LEMMA SurplusKept ==
    ASSUME IInv, IInv', AllWeighed(node'), QueuesWeighed',
           SumFunction(Surplus(node, queue)) = 0,
           \A b \in Workers : Net(node'[b]) + Waiting(queue'[b]) = Surplus(node, queue)[b]
    PROVE  WInv'
<1>1. node \in [Workers -> States] /\ queue \in [Workers -> Seq(Messages)]
  BY DEF IInv, TypeOK
<1>2. Summable(Surplus(node, queue)) /\ DOMAIN Surplus(node, queue) = Workers
  BY <1>1, SurplusSummable
<1> QED
  BY <1>2, SurplusIs

-----------------------------------------------------------------------------
(* The steps.                                                              *)
LEMMA InitWInv == Init => WInv
<1> SUFFICES ASSUME Init PROVE WInv
  OBVIOUS
<1>1. IInv
  BY InitIInv
<1>2. Zero \in Weights /\ \A k \in Clusters : Zero[k] = 0
  BY DEF Zero, Weights
<1>3. SumFunction(Zero) = 0
  <2>1. Summable(Zero) /\ \A k \in DOMAIN Zero : Zero[k] = 0
    BY <1>2, WeightsSummable
  <2> QED
    BY <2>1, SumZero
<1>4. \A a \in Workers : /\ node[a].w = Zero /\ node[a].w_new = Zero /\ node[a].w0 = 0
                         /\ node[a].given = 0 /\ node[a].lost = 0 /\ node[a].rows = {}
                         /\ queue[a] = <<>>
  BY DEF Init
<1>5. AllWeighed(node)
  BY <1>3, <1>4 DEF AllWeighed, Weighed, Trained
<1>6. QueuesWeighed
  BY <1>4 DEF QueuesWeighed
<1>7. Waiting(<<>>) = 0
  <2>1. Waiting(<<>>) = SumFunction(Loads(<<>>))
    BY DEF Waiting, Loads
  <2>2. DOMAIN Loads(<<>>) = {}
    BY DEF Loads
  <2> QED
    BY <2>1, <2>2, SumEmpty
<1>8. node \in [Workers -> States] /\ queue \in [Workers -> Seq(Messages)]
  BY <1>1 DEF IInv, TypeOK
<1>9. /\ Summable(Surplus(node, queue)) /\ DOMAIN Surplus(node, queue) = Workers
      /\ \A a \in Workers : Surplus(node, queue)[a] = Net(node[a]) + Waiting(queue[a])
  BY <1>8, SurplusSummable
<1>10. \A a \in Workers : Surplus(node, queue)[a] = 0
  BY <1>4, <1>7, <1>9 DEF Net
<1> QED
  BY <1>1, <1>5, <1>6, <1>9, <1>10, SumZero DEF WInv

LEMMA FeederWeighs ==
    ASSUME WInv, NEW f \in Feeders, FeederProcess(f)
    PROVE  WInv'
<1>0. /\ IInv /\ IInv' /\ TypeOK /\ QueueInv /\ AllWeighed(node) /\ QueuesWeighed
      /\ SumFunction(Surplus(node, queue)) = 0
  BY FeederStep DEF WInv, IInv
<1>1. node \in [Workers -> States] /\ queue \in [Workers -> Seq(Messages)]
  BY <1>0 DEF TypeOK
<1>2. CASE ack[f] = Workers
  <2>1. node' = node /\ queue' = queue
    BY <1>2 DEF FeederProcess
  <2>2. AllWeighed(node') /\ QueuesWeighed'
    BY <1>0, <2>1 DEF AllWeighed, QueuesWeighed, MessageWeighed, EqualSets
  <2>3. \A b \in Workers : Net(node'[b]) + Waiting(queue'[b]) = Surplus(node, queue)[b]
    BY <1>1, <2>1, SurplusSummable
  <2> QED
    BY <1>0, <2>2, <2>3, SurplusKept
<1>3. CASE ack[f] # Workers
  <2>1. PICK ok \in Successes(f, {b \in Workers \ ack[f] : Part(f, b) # {}}) : Feed(f, ok)
    BY <1>3 DEF FeederProcess
  <2>2. ok \subseteq Workers /\ \A b \in ok : Part(f, b) # {}
    BY DEF Successes
  <2>3. PICK ms, c :
          /\ c \in [{f} \X (0 .. Height[f] - 1) -> Clusters]
          /\ ms = [b \in ok |-> [kind |-> "data", rows |-> Part(f, b)]]
          /\ node' = Handled(node, f, ms, c)
          /\ queue' = Queued(f, ms)
    BY <2>1 DEF Feed
  <2>4. /\ Suits(ms)
        /\ \A b \in DOMAIN ms : MessageWeighed(ms[b]) /\ GoodChoice(ms[b], c) /\ WeightOf(ms[b]) = 0
    <3> SUFFICES ASSUME NEW b \in ok
                 PROVE  /\ OwnMessage(b, ms[b])
                        /\ MessageWeighed(ms[b]) /\ GoodChoice(ms[b], c) /\ WeightOf(ms[b]) = 0
      BY <2>2, <2>3 DEF Suits
    <3>1. b \in Workers /\ ms[b] = [kind |-> "data", rows |-> Part(f, b)]
      BY <2>2, <2>3
    <3>2. Part(f, b) \in SUBSET Rows /\ Part(f, b) \subseteq {f} \X (0 .. Height[f] - 1)
      BY <3>1, PartType
    <3>3. IsPart(b, Part(f, b))
      BY <2>2 DEF IsPart
    <3>4. OwnMessage(b, ms[b])
      BY <3>1, <3>2, <3>3 DEF OwnMessage, Messages
    <3>5. MessageWeighed(ms[b]) /\ WeightOf(ms[b]) = 0
      BY <3>1 DEF MessageWeighed, WeightOf
    <3>6. GoodChoice(ms[b], c)
      BY <2>3, <3>1, <3>2 DEF GoodChoice
    <3> QED
      BY <3>4, <3>5, <3>6
  <2>8. FairMessages(ms, c)
    BY <2>4 DEF FairMessages
  <2>9. /\ AllWeighed(Handled(node, f, ms, c)) /\ QueuesWeighed'
        /\ Spread(node, Handled(node, f, ms, c), ms)
    <3>1. queue' = Queued(f, ms)
      BY <2>3
    <3> QED
      BY <1>0, <1>1, <2>8, <3>1, MulticastWeighs
  <2>5. /\ AllWeighed(node') /\ QueuesWeighed'
        /\ \A b \in Workers : Net(node'[b]) + Waiting(queue'[b])
                              = Surplus(node, queue)[b] + Given(ms, b)
    BY <2>3, <2>9 DEF Spread
  <2>6. \A b \in Workers : Given(ms, b) = 0 /\ Surplus(node, queue)[b] \in Int
    BY <1>1, <2>4, SurplusSummable DEF Given
  <2>7. \A b \in Workers : Net(node'[b]) + Waiting(queue'[b]) = Surplus(node, queue)[b]
    BY <2>5, <2>6
  <2> QED
    BY <1>0, <2>5, <2>7, SurplusKept
<1> QED
  BY <1>2, <1>3

LEMMA EStepWeighs ==
    ASSUME WInv, NEW a \in Workers, EStep(a)
    PROVE  WInv'
<1>0. /\ IInv /\ IInv' /\ TypeOK /\ Owned(node) /\ QueueInv /\ AllWeighed(node) /\ QueuesWeighed
      /\ SumFunction(Surplus(node, queue)) = 0
  BY EStepStep DEF WInv, IInv
<1>1. /\ node \in [Workers -> States] /\ queue \in [Workers -> Seq(Messages)]
      /\ 0 \in 0 .. M /\ Patience \in Nat /\ Outs(a) \subseteq Workers
  BY <1>0, ConstantsAssumption DEF TypeOK, Outs
<1> DEFINE Stepped(t, c, ok) ==
      LET ms == [b \in ok |-> [kind |-> "finish"]]
          nd == Handled([node EXCEPT ![a].tepsilon = t], a, ms, c)
          s == IF t = Patience THEN TheEnd(nd[a]) ELSE nd[a]
      IN /\ node' = [nd EXCEPT ![a] = [Reassign(s, c) EXCEPT !.m = 0]]
         /\ queue' = Queued(a, ms)
<1>2p. PICK t \in {0, IF node[a].tepsilon < Patience THEN node[a].tepsilon + 1 ELSE Patience} :
          \E c \in [node[a].rows -> Clusters] :
          \E ok \in Successes(a, IF t = Patience THEN Told(a) ELSE {}) : Stepped(t, c, ok)
  BY DEF EStep
<1>2q. PICK c \in [node[a].rows -> Clusters] :
          \E ok \in Successes(a, IF t = Patience THEN Told(a) ELSE {}) : Stepped(t, c, ok)
  BY <1>2p
<1>2. PICK ok \in Successes(a, IF t = Patience THEN Told(a) ELSE {}) : Stepped(t, c, ok)
  BY <1>2q
<1>3. PICK ms, before, nd, s, r :
          /\ ms = [b \in ok |-> [kind |-> "finish"]]
          /\ before = [node EXCEPT ![a].tepsilon = t]
          /\ nd = Handled(before, a, ms, c)
          /\ s = IF t = Patience THEN TheEnd(nd[a]) ELSE nd[a]
          /\ r = Reassign(s, c)
          /\ node' = [nd EXCEPT ![a] = [r EXCEPT !.m = 0]]
          /\ queue' = Queued(a, ms)
  BY <1>2
<1>4. /\ Suits(ms)
      /\ \A b \in DOMAIN ms : /\ MessageWeighed(ms[b]) /\ GoodChoice(ms[b], c)
                              /\ WeightOf(ms[b]) = 0 /\ ms[b].kind # "data"
  <2>1. ok \subseteq Workers
    BY <1>1 DEF Successes, Told
  <2>2. \A b \in DOMAIN ms : b \in Workers /\ ms[b] = [kind |-> "finish"]
    BY <1>3, <2>1
  <2>3. \A b \in DOMAIN ms : OwnMessage(b, ms[b])
    BY <2>2 DEF OwnMessage, Messages
  <2> QED
    BY <2>2, <2>3 DEF Suits, MessageWeighed, GoodChoice, WeightOf
<1>5. /\ before \in [Workers -> States]
      /\ \A b \in Workers : SameWeights(node[b], before[b])
  <2>1. t \in 0 .. Patience
    BY <1>1 DEF States
  <2>2. node[a] \in States
    BY <1>1
  <2>3. [node[a] EXCEPT !.tepsilon = t] \in States
        /\ SameWeights(node[a], [node[a] EXCEPT !.tepsilon = t])
    BY <2>1, <2>2 DEF States, SameWeights
  <2>4. before = [node EXCEPT ![a] = [node[a] EXCEPT !.tepsilon = t]]
    BY <1>3
  <2>5. \A b \in Workers : b # a => before[b] = node[b]
    BY <1>1, <2>4
  <2>6. before[a] = [node[a] EXCEPT !.tepsilon = t]
    BY <1>1, <2>4
  <2> QED
    BY <1>1, <2>3, <2>4, <2>5, <2>6 DEF SameWeights
<1>6. /\ AllWeighed(before)
      /\ \A b \in Workers : Net(before[b]) = Net(node[b])
  BY <1>0, <1>5, SameWeighs DEF AllWeighed
<1>7. /\ AllWeighed(nd) /\ QueuesWeighed'
      /\ \A b \in Workers : Net(nd[b]) + Waiting(queue'[b]) = Surplus(before, queue)[b] + Given(ms, b)
  <2>1. FairMessages(ms, c)
    BY <1>4 DEF FairMessages
  <2>2. queue' = Queued(a, ms)
    BY <1>3
  <2>3. /\ AllWeighed(Handled(before, a, ms, c)) /\ QueuesWeighed'
        /\ Spread(before, Handled(before, a, ms, c), ms)
    BY <1>0, <1>5, <1>6, <2>1, <2>2, MulticastWeighs
  <2> QED
    BY <1>3, <2>3 DEF Spread
<1>8. \A b \in Workers : Surplus(before, queue)[b] + Given(ms, b) = Surplus(node, queue)[b]
  <2>1. \A b \in Workers : Given(ms, b) = 0
    BY <1>4 DEF Given
  <2>2. \A b \in Workers : Surplus(before, queue)[b] = Net(before[b]) + Waiting(queue[b])
    BY <1>1, <1>5, SurplusSummable
  <2>3. \A b \in Workers : /\ Surplus(node, queue)[b] = Net(node[b]) + Waiting(queue[b])
                           /\ Net(node[b]) \in Int /\ Waiting(queue[b]) \in Int
    BY <1>1, SurplusSummable
  <2> QED
    BY <1>6, <2>1, <2>2, <2>3
<1>9. nd \in [Workers -> States] /\ nd[a].rows = node[a].rows
  <2>1. /\ Handled(before, a, ms, c) \in [Workers -> States]
        /\ \A b \in Workers : Handled(before, a, ms, c)[b].rows =
              IF b \in DOMAIN ms /\ SameThread(a, b) /\ ms[b].kind = "data"
              THEN ms[b].rows ELSE before[b].rows
    BY <1>4, <1>5, HandledType
  <2>2. before[a].rows = node[a].rows
    BY <1>5 DEF SameWeights
  <2> QED
    BY <1>3, <1>4, <2>1, <2>2
<1>10. s \in States /\ Weighed(a, s) /\ Net(s) = Net(nd[a]) /\ s.rows = node[a].rows
  <2>1. nd[a] \in States /\ Weighed(a, nd[a])
    BY <1>7, <1>9 DEF AllWeighed
  <2>2. SameWeights(nd[a], TheEnd(nd[a])) /\ TheEnd(nd[a]) \in States
    BY <2>1 DEF SameWeights, TheEnd, States
  <2>3. SameWeights(nd[a], nd[a])
    BY DEF SameWeights
  <2>4. SameWeights(nd[a], s) /\ s \in States
    BY <1>3, <2>1, <2>2, <2>3
  <2> QED
    BY <1>9, <2>1, <2>4, SameWeighs DEF SameWeights
<1>11. r \in States /\ Weighed(a, r) /\ Net(r) = Net(s)
  <2>1. IsPart(a, s.rows)
    BY <1>0, <1>10 DEF Owned, EStep
  <2>2. \A x \in s.rows : c[x] \in Clusters
    BY <1>10, <1>2q
  <2> QED
    <3>1. Reassign(s, c) \in States
      BY <1>10, <2>1, ReassignType
    <3>2. Weighed(a, Reassign(s, c)) /\ Net(Reassign(s, c)) = Net(s)
      BY <1>10, <2>1, <2>2, ReassignWeighs
    <3> QED
      BY <1>3, <3>1, <3>2
<1>12. Weighed(a, [r EXCEPT !.m = 0]) /\ Net([r EXCEPT !.m = 0]) = Net(nd[a])
  <2>1. SameWeights(r, [r EXCEPT !.m = 0])
    BY <1>11 DEF SameWeights, States
  <2> QED
    BY <1>10, <1>11, <2>1, SameWeighs
<1>13. /\ \A b \in Workers : b # a => node'[b] = nd[b]
       /\ node'[a] = [r EXCEPT !.m = 0]
  BY <1>3, <1>9
<1>14. AllWeighed(node')
  BY <1>7, <1>12, <1>13 DEF AllWeighed
<1>15. \A b \in Workers : Net(node'[b]) + Waiting(queue'[b]) = Surplus(node, queue)[b]
  BY <1>7, <1>8, <1>12, <1>13
<1> QED
  BY <1>0, <1>7, <1>14, <1>15, SurplusKept

(* What the sender gives up reaches the other worker, or does not leave.   *)
LEMMA MStepWeighs ==
    ASSUME WInv, NEW a \in Workers, MStep(a)
    PROVE  WInv'
<1>0. /\ IInv /\ IInv' /\ TypeOK /\ QueueInv /\ AllWeighed(node) /\ QueuesWeighed
      /\ SumFunction(Surplus(node, queue)) = 0
  BY MStepStep DEF WInv, IInv
<1>1. /\ node \in [Workers -> States] /\ queue \in [Workers -> Seq(Messages)]
      /\ M \in Nat /\ Outs(a) \subseteq Workers
  BY <1>0, ConstantsAssumption DEF TypeOK, Outs
<1> DEFINE Sent == [Halve(node[a]) EXCEPT !.m = @ + 1]
           Stepped(b, ok) ==
             LET ms == [x \in ok |-> [kind |-> "codebook", w |-> Sent.w, w0 |-> Sent.w0]]
             IN /\ node' = Handled([node EXCEPT ![a] = IF b \in ok THEN Sent ELSE Double(Sent)],
                                   a, ms, <<>>)
                /\ queue' = Queued(a, ms)
<1>2p. PICK b \in Outs(a) : \E ok \in Successes(a, {b}) : Stepped(b, ok)
  BY DEF MStep
<1>2. PICK ok \in Successes(a, {b}) : Stepped(b, ok)
  BY <1>2p
<1>3. PICK s, ms, before, c :
          /\ s = Sent /\ c = <<>>
          /\ ms = [x \in ok |-> [kind |-> "codebook", w |-> s.w, w0 |-> s.w0]]
          /\ before = [node EXCEPT ![a] = IF b \in ok THEN s ELSE Double(s)]
          /\ node' = Handled(before, a, ms, c)
          /\ queue' = Queued(a, ms)
  BY <1>2
<1>4. node[a] \in States /\ node[a].m < M /\ Even(node[a]) /\ Weighed(a, node[a])
  <2>1. node[a] \in States /\ node[a].m < M
    BY SMTT(30), <1>1 DEF MStep, TimeForE, States
  <2> QED
    BY <1>0, <2>1 DEF MStep, AllWeighed
<1>5. /\ Weighed(a, s) /\ Net(s) = Net(node[a]) - s.w0 /\ s.w0 \in Nat /\ s.w \in Weights
      /\ EqualSets => SumFunction(s.w) = s.w0
      /\ Weighed(a, Double(s)) /\ Net(Double(s)) = Net(node[a])
      /\ s \in States /\ Double(s) \in States
  <2>1. s = [Halve(node[a]) EXCEPT !.m = @ + 1]
    BY <1>3
  <2> HIDE DEF Sent, Stepped
  <2>2. s \in States /\ Double(s) \in States
    BY <1>4, <2>1, HalveType
  <2>3. /\ Weighed(a, s) /\ Net(s) = Net(node[a]) - s.w0 /\ s.w0 \in Nat /\ s.w \in Weights
        /\ EqualSets => SumFunction(s.w) = s.w0
        /\ Weighed(a, Double(s)) /\ Net(Double(s)) = Net(node[a])
    <3>1. Sending(a, node[a], s)
      BY <1>4, <2>1 DEF Sending
    <3> QED
      BY <1>4, <3>1, HalveWeighs
  <2> QED
    BY <2>2, <2>3
<1>6. ok \subseteq {b} /\ b \in Workers
  BY <1>1 DEF Successes
<1>7. FairMessages(ms, c)
  <2>1. \A x \in DOMAIN ms : x \in Workers /\ ms[x] = [kind |-> "codebook", w |-> s.w, w0 |-> s.w0]
    BY <1>3, <1>6
  <2>2. \A x \in DOMAIN ms : OwnMessage(x, ms[x])
    BY <1>5, <2>1 DEF OwnMessage, Messages
  <2>3. \A x \in DOMAIN ms : MessageWeighed(ms[x]) /\ GoodChoice(ms[x], c)
    BY <1>5, <2>1 DEF MessageWeighed, GoodChoice
  <2>4. Suits(ms)
    BY <2>1, <2>2 DEF Suits
  <2> QED
    BY <2>3, <2>4 DEF FairMessages
<1> DEFINE paid == IF b \in ok THEN s.w0 ELSE 0
<1>8. /\ before \in [Workers -> States] /\ AllWeighed(before)
      /\ \A x \in Workers : x # a => Net(before[x]) = Net(node[x])
      /\ Net(before[a]) = Net(node[a]) - paid
  <2>1. /\ \A x \in Workers : x # a => before[x] = node[x]
        /\ before[a] = IF b \in ok THEN s ELSE Double(s)
        /\ before \in [Workers -> States]
    BY <1>1, <1>3, <1>5
  <2>2. AllWeighed(before)
    BY <1>0, <1>5, <2>1 DEF AllWeighed
  <2>3. Net(node[a]) \in Int
    BY <1>1, SurplusSummable
  <2> QED
    BY <1>5, <2>1, <2>2, <2>3
<1>9. /\ AllWeighed(node') /\ QueuesWeighed'
      /\ \A x \in Workers : Net(node'[x]) + Waiting(queue'[x]) = Surplus(before, queue)[x] + Given(ms, x)
  <2>1. queue' = Queued(a, ms)
    BY <1>3
  <2>2. /\ AllWeighed(Handled(before, a, ms, c)) /\ QueuesWeighed'
        /\ Spread(before, Handled(before, a, ms, c), ms)
    <3>1. before \in [Workers -> States] /\ AllWeighed(before)
      BY <1>8
    <3>2. TypeOK /\ QueueInv /\ QueuesWeighed
      BY <1>0
    <3> QED
      BY <1>7, <2>1, <3>1, <3>2, MulticastWeighs
  <2> QED
    BY <1>3, <2>2 DEF Spread
<1>10. /\ \A x \in Workers : x # b => Given(ms, x) = 0
       /\ Given(ms, b) = paid /\ paid \in Int
  <2>1. b \in ok => WeightOf(ms[b]) = s.w0
    BY <1>3 DEF WeightOf
  <2> QED
    BY <1>3, <1>5, <1>6, <2>1 DEF Given
<1> HIDE DEF paid
<1>11. PICK F, G, E : /\ F = Surplus(node, queue) /\ E = Surplus(before, queue)
                      /\ G = [x \in Workers |-> E[x] + Given(ms, x)]
  OBVIOUS
<1>12. /\ Summable(F) /\ DOMAIN F = Workers /\ Summable(E) /\ DOMAIN E = Workers
       /\ \A x \in Workers : F[x] = Net(node[x]) + Waiting(queue[x])
       /\ \A x \in Workers : E[x] = Net(before[x]) + Waiting(queue[x])
       /\ \A x \in Workers : Net(node[x]) \in Int /\ Waiting(queue[x]) \in Int
  BY <1>1, <1>8, <1>11, SurplusSummable
<1>13. /\ \A x \in Workers : x # a => E[x] = F[x]
       /\ E[a] = F[a] - paid
  BY <1>8, <1>10, <1>12
<1>14. \A x \in Workers : F[x] \in Int /\ E[x] \in Int
  BY <1>12 DEF Summable
<1>15. /\ DOMAIN G = Workers /\ Summable(G)
       /\ \A x \in Workers : x # b => G[x] = E[x]
       /\ G[b] = E[b] + paid
  <2>1. DOMAIN G = Workers /\ \A x \in Workers : G[x] = E[x] + Given(ms, x)
    BY <1>11
  <2>2. \A x \in Workers : x # b => G[x] = E[x]
    BY <1>10, <1>14, <2>1
  <2>3. G[b] = E[b] + paid
    BY <1>6, <1>10, <2>1
  <2>4. \A x \in Workers : G[x] \in Int
    BY <1>6, <1>10, <1>14, <2>2, <2>3
  <2> QED
    BY <2>1, <2>2, <2>3, <2>4, ClustersFinite DEF Summable
<1>16. SumFunction(E) = SumFunction(F) - F[a] + E[a]
  BY <1>12, <1>13, SumUpdate
<1>17. SumFunction(G) = SumFunction(E) - E[b] + G[b]
  BY <1>6, <1>12, <1>15, SumUpdate
<1>18. SumFunction(G) = 0
  <2>1. SumFunction(F) = 0
    BY <1>0, <1>11
  <2>2. F[a] \in Int /\ E[b] \in Int
    BY <1>6, <1>14
  <2> QED
    BY <1>10, <1>13, <1>15, <1>16, <1>17, <2>1, <2>2
<1>19. \A x \in Workers : Net(node'[x]) + Waiting(queue'[x]) = G[x]
  BY <1>9, <1>11
<1> QED
  BY <1>0, <1>9, <1>15, <1>18, <1>19, SurplusIs

LEMMA ReceiveStepWeighs ==
    ASSUME WInv, NEW a \in Workers, Receive(a)
    PROVE  WInv'
<1>0. /\ IInv /\ IInv' /\ TypeOK /\ QueueInv /\ AllWeighed(node) /\ QueuesWeighed
      /\ SumFunction(Surplus(node, queue)) = 0
  BY ReceiveStep DEF WInv, IInv
<1>1. node \in [Workers -> States] /\ queue \in [Workers -> Seq(Messages)]
  BY <1>0 DEF TypeOK
<1>2. PICK m, c :
          /\ m = Head(queue[a])
          /\ c \in IF m.kind = "data" THEN [m.rows -> Clusters] ELSE {<<>>}
          /\ node' = [node EXCEPT ![a] = OnReceive(@, m, c)]
  BY DEF Receive
<1>3. queue[a] # <<>> /\ queue' = [queue EXCEPT ![a] = Tail(@)]
  BY DEF Receive
<1>4. /\ queue[a] \in Seq(Messages) /\ queue'[a] = Tail(queue[a])
      /\ m = queue[a][1] /\ 1 \in 1 .. Len(queue[a]) /\ Len(queue[a]) \in Nat \ {0}
      /\ Len(queue'[a]) = Len(queue[a]) - 1
      /\ \A i \in 1 .. Len(queue'[a]) : queue'[a][i] = queue[a][i + 1]
  <2>1. queue[a] \in Seq(Messages) /\ queue'[a] = Tail(queue[a])
    BY <1>1, <1>3
  <2>2. /\ Head(queue[a]) = queue[a][1]
        /\ Len(Tail(queue[a])) = Len(queue[a]) - 1
        /\ \A i \in 1 .. Len(Tail(queue[a])) : Tail(queue[a])[i] = queue[a][i + 1]
    BY <1>3, <2>1, HeadTailProperties
  <2>3. Len(queue[a]) \in Nat \ {0}
    BY <1>3, <2>1, EmptySeq, LenProperties
  <2> QED
    BY <1>2, <2>1, <2>2, <2>3
<1>5. \A b \in Workers : b # a => queue'[b] = queue[b] /\ node'[b] = node[b]
  BY <1>1, <1>2, <1>3
<1>6. OwnMessage(a, m) /\ MessageWeighed(m) /\ GoodChoice(m, c)
  BY <1>0, <1>2, <1>4 DEF QueueInv, QueuesWeighed, GoodChoice
<1>7. node'[a] = OnReceive(node[a], m, c) /\ node[a] \in States /\ Weighed(a, node[a])
  BY <1>0, <1>1, <1>2 DEF AllWeighed
<1>8. Weighed(a, node'[a]) /\ Net(node'[a]) = Net(node[a]) + WeightOf(m)
  BY <1>6, <1>7, ReceiveWeighs
<1>9. Waiting(queue[a]) = WeightOf(m) + Waiting(queue'[a])
  BY <1>2, <1>3, <1>4, WaitingTail
<1>10. /\ WeightOf(m) \in Int /\ Net(node[a]) \in Int
       /\ Waiting(queue'[a]) \in Int
       /\ \A b \in Workers : Surplus(node, queue)[b] = Net(node[b]) + Waiting(queue[b])
  <2>1. WeightOf(m) \in Int
    BY <1>6 DEF OwnMessage, Messages, WeightOf
  <2>2. Tail(queue[a]) \in Seq(Messages)
    BY <1>3, <1>4, HeadTailProperties
  <2>3. Waiting(queue'[a]) \in Int
    BY <1>4, <2>2, LoadsSummable
  <2> QED
    BY <1>1, <2>1, <2>3, SurplusSummable
<1>11. \A b \in Workers : Net(node'[b]) + Waiting(queue'[b]) = Surplus(node, queue)[b]
  <2> TAKE b \in Workers
  <2>1. CASE b = a
    BY <1>8, <1>9, <1>10, <2>1
  <2>2. CASE b # a
    BY <1>5, <1>10, <2>2
  <2> QED
    BY <2>1, <2>2
<1>12. AllWeighed(node')
  BY <1>0, <1>5, <1>8 DEF AllWeighed
<1>13. QueuesWeighed'
  <2> SUFFICES ASSUME NEW b \in Workers, NEW i \in 1 .. Len(queue'[b])
               PROVE  MessageWeighed(queue'[b][i])
    BY DEF QueuesWeighed, MessageWeighed, EqualSets
  <2>1. CASE b = a
    <3>1. i + 1 \in 1 .. Len(queue[a]) /\ queue'[a][i] = queue[a][i + 1]
      <4>1. i \in 1 .. Len(queue'[a])
        BY <2>1
      <4>2. Len(queue'[a]) = Len(queue[a]) - 1 /\ Len(queue[a]) \in Nat
        BY <1>4
      <4>3. i + 1 \in 1 .. Len(queue[a])
        BY <4>1, <4>2
      <4> QED
        BY <1>4, <4>1, <4>3
    <3> QED
      BY <1>0, <2>1, <3>1 DEF QueuesWeighed
  <2>2. CASE b # a
    BY <1>0, <1>5, <2>2 DEF QueuesWeighed
  <2> QED
    BY <2>1, <2>2
<1> QED
  BY <1>0, <1>11, <1>12, <1>13, SurplusKept

LEMMA StepWInv == WInv /\ [Next]_vars => WInv'
<1> SUFFICES ASSUME WInv, [Next]_vars PROVE WInv'
  OBVIOUS
<1>1. ASSUME NEW f \in Feeders, FeederProcess(f) PROVE WInv'
  BY <1>1, FeederWeighs
<1>2. ASSUME NEW a \in Workers, EStep(a) PROVE WInv'
  BY <1>2, EStepWeighs
<1>3. ASSUME NEW a \in Workers, MStep(a) PROVE WInv'
  BY <1>3, MStepWeighs
<1>4. ASSUME NEW a \in Workers, Receive(a) PROVE WInv'
  BY <1>4, ReceiveStepWeighs
<1>5. CASE UNCHANGED vars
  <2>1. node' = node /\ queue' = queue
    BY <1>5 DEF vars
  <2>2. IInv'
    BY <1>5, StepIInv DEF WInv
  <2>3. AllWeighed(node') /\ QueuesWeighed'
    BY <2>1 DEF WInv, AllWeighed, QueuesWeighed, MessageWeighed, EqualSets
  <2>4. node \in [Workers -> States] /\ queue \in [Workers -> Seq(Messages)]
    BY DEF WInv, IInv, TypeOK
  <2>5. \A b \in Workers : Net(node'[b]) + Waiting(queue'[b]) = Surplus(node, queue)[b]
    BY <2>1, <2>4, SurplusSummable
  <2> QED
    BY <2>2, <2>3, <2>5, SurplusKept DEF WInv
<1> QED
  BY <1>1, <1>2, <1>3, <1>4, <1>5 DEF Next

LEMMA WInvMass == WInv => MassConserved
<1> SUFFICES ASSUME WInv PROVE MassConserved
  OBVIOUS
<1>1. node \in [Workers -> States] /\ queue \in [Workers -> Seq(Messages)]
  BY DEF WInv, IInv, TypeOK
<1> DEFINE F == Surplus(node, queue)
           G == [a \in Workers |-> node[a].given]
           H == [a \in Workers |-> Held(a)]
<1>2. /\ Summable(F) /\ DOMAIN F = Workers
      /\ \A a \in Workers : Waiting(queue[a]) \in Int
      /\ \A a \in Workers : F[a] = Net(node[a]) + Waiting(queue[a])
  BY <1>1, SurplusSummable
<1>3. \A a \in Workers : node[a].given \in Nat /\ node[a].w0 \in Nat /\ node[a].lost \in Nat
  BY <1>1 DEF States
<1>4. DOMAIN G = Workers /\ Summable(G)
  BY <1>3, ClustersFinite DEF Summable
<1>5. \A a \in Workers : Held(a) \in Int
  BY <1>2, <1>3 DEF Held
<1>6. DOMAIN H = Workers /\ Summable(H)
  BY <1>5, ClustersFinite DEF Summable
<1>7. \A a \in Workers : H[a] = G[a] + F[a]
  BY <1>2, <1>3 DEF Held, Net
<1>8. SumFunction(F) = 0
  BY DEF WInv
<1> HIDE DEF F, G, H
<1>9. SumFunction(H) = SumFunction(G) + SumFunction(F)
  BY <1>2, <1>4, <1>6, <1>7, SumPlus
<1>10. SumFunction(H) = SumFunction(G)
  BY <1>4, <1>8, <1>9, SumType
<1> QED
  BY <1>10 DEF MassConserved, G, H

LEMMA WInvBalanced == WInv => Balanced
<1> SUFFICES ASSUME WInv, EqualSets, NEW a \in Workers
             PROVE  /\ SumFunction(node[a].w) = node[a].w0
                    /\ \A i \in DOMAIN queue[a] :
                          queue[a][i].kind = "codebook" => SumFunction(queue[a][i].w) = queue[a][i].w0
  BY DEF Balanced
<1>1. queue[a] \in Seq(Messages)
  BY DEF WInv, IInv, TypeOK
<1>2. DOMAIN queue[a] = 1 .. Len(queue[a])
  BY <1>1, LenProperties
<1> QED
  BY <1>2 DEF WInv, AllWeighed, Weighed, QueuesWeighed, MessageWeighed

(* Gossip neither makes nor destroys weight: whatever fails, what the      *)
(* workers and the messages hold is what was brought in, but for what      *)
(* reached a worker before its data (M_step, on_receive).                  *)
THEOREM MassStays == Spec => []MassConserved
<1> QED
  BY InitWInv, StepWInv, WInvMass, PTL DEF Spec

(* The weights of the clusters add up to w0 in every worker and in every   *)
(* codebook on its way, so that MSE is divided by the weight of what it    *)
(* was added up from (E_step, M_step, on_receive, init).                   *)
THEOREM WeightsAddUp == Spec => []Balanced
<1> QED
  BY InitWInv, StepWInv, WInvBalanced, PTL DEF Spec
=============================================================================

-------------------------- MODULE AveragingProofs ---------------------------
(***************************************************************************)
(* Proofs about the memory of averaging by gossip, for any numbers of data *)
(* nodes, rows and workers, any neighbours and threads: no buffer has two  *)
(* owners, none that is freed is used, and what is overwritten has been    *)
(* sent; and about the weights of the means.                               *)
(***************************************************************************)
EXTENDS Averaging, Sums, FiniteSetTheorems, SequenceTheorems, TLAPS

-----------------------------------------------------------------------------
(* Matrices.                                                               *)

(* A new buffer has a name that is not in use.                             *)
LEMMA NewName ==
    ASSUME NEW h, IsHeap(h)
    PROVE  Fresh(h) \in Nat \ {0} /\ Fresh(h) \notin DOMAIN h
<1> DEFINE n == Cardinality(DOMAIN h)
<1>1. n \in Nat
  BY FS_CardinalityType DEF IsHeap
<1>2. IsFiniteSet(1 .. n + 1) /\ Cardinality(1 .. n + 1) = n + 1
  BY <1>1, FS_Interval
<1>3. ~(1 .. n + 1 \subseteq DOMAIN h)
  <2> SUFFICES ASSUME 1 .. n + 1 \subseteq DOMAIN h PROVE FALSE
    OBVIOUS
  <2>1. Cardinality(1 .. n + 1) <= n
    BY FS_Subset DEF IsHeap
  <2> QED
    BY <1>1, <1>2, <2>1
<1> HIDE DEF n
<1>4. \E b \in 1 .. n + 1 : b \notin DOMAIN h
  BY <1>3
<1> QED
  BY <1>1, <1>4 DEF Fresh, n

LEMMA NewBuffer ==
    ASSUME NEW h, IsHeap(h), NEW k \in Nat \ {0}
    PROVE  /\ IsHeap(New(h, k).heap)
           /\ DOMAIN New(h, k).heap = DOMAIN h \cup {Fresh(h)}
           /\ New(h, k).heap[Fresh(h)] = k
           /\ \A b \in DOMAIN h : New(h, k).heap[b] = h[b]
           /\ New(h, k).m = [buf |-> Fresh(h), off |-> 0, height |-> k, own |-> TRUE]
<1>1. Fresh(h) \in Nat \ {0} /\ Fresh(h) \notin DOMAIN h
  BY NewName
<1> DEFINE g == New(h, k).heap
<1>2. g = [b \in DOMAIN h \cup {Fresh(h)} |-> IF b = Fresh(h) THEN k ELSE h[b]]
  BY DEF New
<1>3. New(h, k).m = [buf |-> Fresh(h), off |-> 0, height |-> k, own |-> TRUE]
  BY DEF New
<1> HIDE DEF g
<1>4. /\ DOMAIN g = DOMAIN h \cup {Fresh(h)} /\ g[Fresh(h)] = k
      /\ \A b \in DOMAIN h : g[b] = h[b]
  BY <1>1, <1>2
<1>5. IsFiniteSet(DOMAIN g)
  BY <1>4, FS_AddElement DEF IsHeap
<1>6. IsHeap(g)
  BY <1>1, <1>4, <1>5 DEF IsHeap
<1> QED
  BY <1>3, <1>4, <1>6 DEF g

LEMMA DeletedBuffer ==
    ASSUME NEW h, IsHeap(h), NEW m \in SomeMatrix
    PROVE  /\ IsHeap(Delete(h, m))
           /\ DOMAIN Delete(h, m) = IF m.own THEN DOMAIN h \ {m.buf} ELSE DOMAIN h
           /\ \A b \in DOMAIN Delete(h, m) : Delete(h, m)[b] = h[b]
<1> DEFINE g == Delete(h, m)
<1>1. /\ DOMAIN g = IF m.own THEN DOMAIN h \ {m.buf} ELSE DOMAIN h
      /\ \A b \in DOMAIN g : g[b] = h[b]
  BY DEF Delete
<1> HIDE DEF g
<1>2. DOMAIN g \in SUBSET DOMAIN h
  BY <1>1
<1>3. IsFiniteSet(DOMAIN g)
  BY <1>2, FS_Subset DEF IsHeap
<1>4. IsHeap(g)
  BY <1>1, <1>2, <1>3 DEF IsHeap
<1> QED
  BY <1>1, <1>4 DEF g

(* The matrix of a data node, over height rows.                            *)
Root(f, height) == [buf |-> f, off |-> 0, height |-> height, own |-> TRUE]

LEMMA RootFields ==
    ASSUME NEW f, NEW k, NEW m, m = Root(f, k)
    PROVE  m.buf = f /\ m.off = 0 /\ m.height = k /\ m.own /\ m # NoMatrix
BY DEF Root, NoMatrix

LEMMA Multiples ==
    ASSUME NEW i \in Nat, NEW k \in Nat, NEW q \in Nat, i + 1 <= k
    PROVE  i * q \in Nat /\ i * q + q <= k * q
<1>1. i * q \in Nat /\ (i + 1) * q = i * q + q
  OBVIOUS
<1>2. (i + 1) * q <= k * q
  OBVIOUS
<1> QED
  BY <1>1, <1>2

LEMMA Quotient ==
    ASSUME NEW h \in Nat, NEW n \in Nat \ {0}
    PROVE  h \div n \in Nat /\ n * (h \div n) <= h /\ (h \div n = 0 => h < n)
OBVIOUS

(* Matrix::part yields no rows or some rows of the matrix ...              *)
LEMMA PartInside ==
    ASSUME NEW f \in Nat \ {0}, NEW h \in Nat \ {0}, NEW n \in Nat \ {0}, NEW i \in 0 .. n - 1,
           NEW p, p = Part(Root(f, h), i, n)
    PROVE  /\ p \in SomeMatrix /\ ~p.own
           /\ HasData(p) => p.buf = f /\ p.height > 0 /\ p.off + p.height <= h
           /\ ~HasData(p) => p = NoMatrix
<1> DEFINE q == h \div n
           m == Root(f, h)
<1>1. q \in Nat /\ n * q <= h /\ (q = 0 => h < n)
  BY Quotient
<1>2. m.height = h /\ m.off = 0 /\ m.buf = f
  BY DEF Root
<1>3. ASSUME NEW o \in Nat, NEW k \in Nat
      PROVE  View(m, o, k) = [buf |-> f, off |-> o, height |-> k, own |-> FALSE]
  <2>1. 0 + o = o
    OBVIOUS
  <2> QED
    BY <1>2, <2>1 DEF View
<1>4. CASE q = 0
  <2>1. Part(m, i, n) = IF i < h THEN View(m, i, 1) ELSE NoMatrix
    BY <1>2, <1>4 DEF Part
  <2>2. View(m, i, 1) = [buf |-> f, off |-> i, height |-> 1, own |-> FALSE]
    BY <1>3
  <2>3. CASE i < h
    <3>1. Part(m, i, n) = [buf |-> f, off |-> i, height |-> 1, own |-> FALSE]
      BY <2>1, <2>2, <2>3
    <3> QED
      BY <2>3, <3>1 DEF HasData, SomeMatrix
  <2>4. CASE ~(i < h)
    <3>1. Part(m, i, n) = NoMatrix
      BY <2>1, <2>4
    <3> QED
      BY <3>1 DEF HasData, SomeMatrix, NoMatrix
  <2> QED
    BY <2>3, <2>4
<1>5. CASE q # 0
  <2>1. i * q \in Nat /\ i * q + q <= n * q
    BY <1>1, Multiples
  <2> DEFINE k == IF i = n - 1 THEN h - i * q ELSE q
  <2>2. Part(m, i, n) = View(m, i * q, k)
    BY <1>1, <1>2, <1>5 DEF Part
  <2> HIDE DEF q
  <2>3. k \in Nat /\ k > 0 /\ i * q + k <= h
    BY <1>1, <1>5, <2>1
  <2> HIDE DEF k
  <2>4. Part(m, i, n) = [buf |-> f, off |-> i * q, height |-> k, own |-> FALSE]
    BY <1>3, <2>1, <2>2, <2>3
  <2> QED
    BY <2>1, <2>3, <2>4 DEF HasData, SomeMatrix
<1> QED
  BY <1>4, <1>5

(* ... and no two parts share a row.                                       *)
LEMMA PartsApart ==
    ASSUME NEW f \in Nat \ {0}, NEW h \in Nat \ {0}, NEW n \in Nat \ {0},
           NEW i \in 0 .. n - 1, NEW j \in 0 .. n - 1, i # j
    PROVE  Rows(Part(Root(f, h), i, n)) \cap Rows(Part(Root(f, h), j, n)) = {}
<1> DEFINE q == h \div n
           m == Root(f, h)
<1>1. q \in Nat /\ n * q <= h /\ (q = 0 => h < n)
  BY Quotient
<1>2. m.height = h /\ m.off = 0 /\ m.buf = f
  BY DEF Root
<1>3. \A o, k \in Nat : Rows(View(m, o, k)) = {<<f, r>> : r \in o + 1 .. o + k}
  BY DEF View, Root, Rows
<1>4. ASSUME NEW x \in 0 .. n - 1, NEW y \in 0 .. n - 1, x < y
      PROVE  Rows(Part(m, x, n)) \cap Rows(Part(m, y, n)) = {}
  <2>1. CASE q = 0
    <3>1. ASSUME NEW z \in 0 .. n - 1
          PROVE  Rows(Part(m, z, n)) \subseteq {<<f, z + 1>>}
      <4>1. Part(m, z, n) = IF z < h THEN View(m, z, 1) ELSE NoMatrix
        BY <1>2, <2>1 DEF Part
      <4>2. Rows(NoMatrix) = {}
        BY DEF Rows, NoMatrix
      <4>3. Rows(View(m, z, 1)) = {<<f, r>> : r \in z + 1 .. z + 1}
        BY <1>3
      <4> QED
        BY <4>1, <4>2, <4>3
    <3>2. x + 1 # y + 1
      BY <1>4
    <3> QED
      BY <3>1, <3>2
  <2>2. CASE q # 0
    <3>1. x * q \in Nat /\ y * q \in Nat /\ x * q + q <= y * q /\ y * q + q <= n * q
      BY <1>1, <1>4, Multiples
    <3> DEFINE k == IF y = n - 1 THEN h - y * q ELSE q
    <3>2. Part(m, x, n) = View(m, x * q, q) /\ Part(m, y, n) = View(m, y * q, k)
      BY <1>1, <1>2, <1>4, <2>2 DEF Part
    <3> HIDE DEF q
    <3>3. k \in Nat
      BY <1>1, <3>1
    <3> HIDE DEF k
    <3>4. /\ Rows(Part(m, x, n)) = {<<f, r>> : r \in x * q + 1 .. x * q + q}
          /\ Rows(Part(m, y, n)) = {<<f, r>> : r \in y * q + 1 .. y * q + k}
      BY <1>1, <1>3, <3>1, <3>2, <3>3
    <3>5. \A r \in x * q + 1 .. x * q + q : r \notin y * q + 1 .. y * q + k
      BY <1>1, <3>1, <3>3
    <3> QED
      BY <3>4, <3>5
  <2> QED
    BY <2>1, <2>2
<1>5. i < j \/ j < i
  OBVIOUS
<1> QED
  BY <1>4, <1>5

-----------------------------------------------------------------------------
(* Holdings: M gives the matrix at every place, h the live buffers, A the  *)
(* parts that the data nodes have sent.  A matrix is empty, owns a whole   *)
(* buffer, or shares a part that was sent.                                 *)
Whole(h, m) == m.buf \in DOMAIN h /\ m = Root(m.buf, h[m.buf])
Shared(h, A, m) ==
    HasData(m) /\ \E f \in Feeders : \E i \in A[f] : m = Part(Root(f, h[f]), i - 1, N)

At(f) == <<"X", f>>

Proper(M, h, A) == \A p \in DOMAIN M : M[p] = NoMatrix \/ Whole(h, M[p]) \/ Shared(h, A, M[p])
Single(M) == \A p, q \in DOMAIN M : M[p].own /\ M[q].own /\ M[p].buf = M[q].buf => p = q
Rooted(M, h) == \A f \in Feeders : f \in DOMAIN h /\ At(f) \in DOMAIN M /\ M[At(f)] = Root(f, h[f])
Acks == [Feeders -> SUBSET (1 .. N)]

Sound(M, h, A) == IsHeap(h) /\ A \in Acks /\ Proper(M, h, A) /\ Single(M) /\ Rooted(M, h)

Unowned(M, h) == {b \in DOMAIN h : \A p \in DOMAIN M : ~(M[p].own /\ M[p].buf = b)}

LEMMA FeederNumbers ==
    /\ \A f \in Feeders : f \in Nat \ {0}
    /\ N \in Nat /\ \A i \in 1 .. N : i - 1 \in 0 .. N - 1 /\ N \in Nat \ {0}
<1>1. Cardinality(Feeders) \in Nat
  BY ConstantsAssumption, FS_CardinalityType
<1>2. Feeders = 1 .. Cardinality(Feeders)
  BY ConstantsAssumption
<1>3. \A f \in Feeders : f \in Nat \ {0}
  BY <1>1, <1>2
<1>4. N \in Nat
  BY ConstantsAssumption, LenProperties DEF N
<1> QED
  BY <1>3, <1>4

(* A part that was sent lies within the rows of its data node.             *)
LEMMA SharedInside ==
    ASSUME NEW M, NEW h, NEW A, Sound(M, h, A), NEW m, Shared(h, A, m)
    PROVE  /\ m \in SomeMatrix /\ ~m.own /\ m.height > 0
           /\ m.buf \in Feeders /\ m.buf \in DOMAIN h /\ m.off + m.height <= h[m.buf]
           /\ \E i \in A[m.buf] : m = Part(Root(m.buf, h[m.buf]), i - 1, N)
<1>0. PICK f \in Feeders : \E i \in A[f] : m = Part(Root(f, h[f]), i - 1, N)
  BY DEF Shared
<1>1. PICK i \in A[f] : m = Part(Root(f, h[f]), i - 1, N)
  BY <1>0
<1>2. f \in DOMAIN h /\ h[f] \in Nat \ {0} /\ i \in 1 .. N
  BY <1>1 DEF Sound, Rooted, IsHeap, Acks
<1>3. HasData(m) /\ f \in Nat \ {0} /\ i - 1 \in 0 .. N - 1 /\ N \in Nat \ {0}
  BY <1>1, <1>2, FeederNumbers DEF Shared
<1>4. m \in SomeMatrix /\ ~m.own /\ m.buf = f /\ m.height > 0 /\ m.off + m.height <= h[f]
  <2> DEFINE k == h[f]
             j == i - 1
  <2>1. k \in Nat \ {0} /\ j \in 0 .. N - 1 /\ m = Part(Root(f, k), j, N)
    BY <1>1, <1>2, <1>3
  <2> HIDE DEF k, j
  <2>2. m \in SomeMatrix /\ ~m.own /\ m.buf = f /\ m.height > 0 /\ m.off + m.height <= k
    BY <1>3, <2>1, PartInside
  <2> QED
    BY <2>2 DEF k
<1> QED
  BY <1>1, <1>2, <1>4

LEMMA WholeInside ==
    ASSUME NEW h, IsHeap(h), NEW m, Whole(h, m)
    PROVE  /\ m \in SomeMatrix /\ m.own /\ m.height > 0 /\ HasData(m)
           /\ m.buf \in DOMAIN h /\ m.off + m.height <= h[m.buf]
<1>1. m.buf \in Nat \ {0} /\ m.buf \in DOMAIN h /\ h[m.buf] \in Nat \ {0}
  BY DEF Whole, IsHeap
<1>2. m = [buf |-> m.buf, off |-> 0, height |-> h[m.buf], own |-> TRUE]
  BY DEF Whole, Root
<1>3. m.off = 0 /\ m.height = h[m.buf] /\ m.own
  BY <1>2
<1>4. m \in SomeMatrix
  <2>1. \A b, k \in Nat : Root(b, k) \in SomeMatrix
    BY DEF Root, SomeMatrix
  <2> QED
    BY <1>1, <2>1 DEF Whole
<1>5. m.off + m.height <= h[m.buf] /\ m.height > 0
  BY <1>1, <1>3
<1> QED
  BY <1>1, <1>3, <1>4, <1>5 DEF HasData

LEMMA Inside ==
    ASSUME NEW M, NEW h, NEW A, Sound(M, h, A), NEW p \in DOMAIN M
    PROVE  /\ M[p] \in SomeMatrix
           /\ ~HasData(M[p]) => M[p] = NoMatrix
           /\ HasData(M[p]) => /\ M[p].buf \in DOMAIN h /\ M[p].height > 0
                               /\ M[p].off + M[p].height <= h[M[p].buf]
           /\ M[p].own => Whole(h, M[p]) /\ HasData(M[p])
<1>1. CASE M[p] = NoMatrix
  BY <1>1 DEF NoMatrix, SomeMatrix, HasData
<1>2. CASE Whole(h, M[p])
  BY <1>2, WholeInside DEF Sound
<1>3. CASE Shared(h, A, M[p])
  BY <1>3, SharedInside DEF Shared
<1> QED
  BY <1>1, <1>2, <1>3 DEF Sound, Proper

(* An owned matrix of a place that is not a data node is not in the buffer *)
(* of one.                                                                 *)
LEMMA NotRoot ==
    ASSUME NEW M, NEW h, NEW A, Sound(M, h, A), NEW p \in DOMAIN M, M[p].own,
           \A f \in Feeders : p # At(f)
    PROVE  M[p].buf \notin Feeders
<1> SUFFICES ASSUME M[p].buf \in Feeders PROVE FALSE
  OBVIOUS
<1>1. PICK f \in Feeders : M[p].buf = f
  OBVIOUS
<1>2. At(f) \in DOMAIN M /\ M[At(f)].own /\ M[At(f)].buf = f
  BY RootFields DEF Sound, Rooted
<1> QED
  BY <1>1, <1>2 DEF Sound, Single

-----------------------------------------------------------------------------
(* Matrices move from place to place: what is at p was at pi[p], or p is   *)
(* one of the places E that are empty.                                     *)
Moves(M, M2, E, pi) ==
    /\ \A p \in E : M2[p] = NoMatrix
    /\ \A p \in DOMAIN M2 \ E : pi[p] \in DOMAIN M /\ M2[p] = M[pi[p]]
    /\ \A p, q \in DOMAIN M2 \ E : pi[p] = pi[q] => p = q
    /\ \A f \in Feeders : At(f) \in DOMAIN M2 \ E /\ pi[At(f)] = At(f)

LEMMA Moved ==
    ASSUME NEW M, NEW h, NEW A, Sound(M, h, A), NEW M2, NEW E, NEW pi, Moves(M, M2, E, pi)
    PROVE  Sound(M2, h, A)
<1>1. Proper(M2, h, A)
  BY DEF Sound, Proper, Moves
<1>2. Single(M2)
  BY DEF Sound, Single, NoMatrix, Moves
<1>3. Rooted(M2, h)
  BY DEF Sound, Rooted, Moves
<1> QED
  BY <1>1, <1>2, <1>3 DEF Sound

(* M2 differs from M at x, where it is v.                                  *)
Updated(M, M2, x, v) ==
    /\ DOMAIN M2 = DOMAIN M /\ x \in DOMAIN M
    /\ \A p \in DOMAIN M : M2[p] = IF p = x THEN v ELSE M[p]

(* An empty place takes a new buffer.                                      *)
LEMMA Allocated ==
    ASSUME NEW M, NEW h, NEW A, Sound(M, h, A), NEW k \in Nat \ {0}, NEW M2,
           NEW x, M[x] = NoMatrix, Updated(M, M2, x, New(h, k).m)
    PROVE  /\ Sound(M2, New(h, k).heap, A)
           /\ Unowned(M2, New(h, k).heap) \subseteq Unowned(M, h)
           /\ New(h, k).m.buf \notin Feeders
           /\ \A b \in DOMAIN h : b \in DOMAIN New(h, k).heap /\ New(h, k).heap[b] = h[b]
<1> DEFINE g == New(h, k).heap
           b0 == Fresh(h)
<1>0. IsHeap(h)
  BY DEF Sound
<1>1. /\ IsHeap(g) /\ DOMAIN g = DOMAIN h \cup {b0} /\ g[b0] = k
      /\ \A b \in DOMAIN h : g[b] = h[b]
      /\ New(h, k).m = Root(b0, k) /\ b0 \notin DOMAIN h
  BY <1>0, NewBuffer, NewName DEF Root
<1> HIDE DEF g, b0
<1>2. /\ M2[x] = Root(b0, k) /\ \A p \in DOMAIN M : p # x => M2[p] = M[p]
      /\ DOMAIN M2 = DOMAIN M /\ x \in DOMAIN M
  BY <1>1 DEF Updated
<1>3. \A f \in Feeders : f \in DOMAIN h /\ g[f] = h[f]
  BY <1>1 DEF Sound, Rooted
<1>4. \A m : Shared(h, A, m) => Shared(g, A, m)
  BY <1>3 DEF Shared
<1>5. \A m : Whole(h, m) => Whole(g, m)
  BY <1>1 DEF Whole
<1>6. Whole(g, M2[x]) /\ M2[x].own /\ M2[x].buf = b0
  BY <1>1, <1>2 DEF Whole, Root
<1>7. Proper(M2, g, A)
  BY <1>2, <1>4, <1>5, <1>6 DEF Sound, Proper
<1>8. \A p \in DOMAIN M : M[p].own => M[p].buf # b0
  BY <1>1, Inside DEF Whole
<1>9. Single(M2)
  BY <1>2, <1>6, <1>8 DEF Sound, Single
<1>10. Rooted(M2, g)
  <2>1. \A f \in Feeders : At(f) # x
    BY RootFields DEF Sound, Rooted
  <2> QED
    BY <1>1, <1>2, <1>3, <2>1 DEF Sound, Rooted
<1>11. Sound(M2, g, A)
  BY <1>1, <1>7, <1>9, <1>10 DEF Sound
<1>12. Unowned(M2, g) \subseteq Unowned(M, h)
  <2> SUFFICES ASSUME NEW b \in Unowned(M2, g) PROVE b \in Unowned(M, h)
    OBVIOUS
  <2>1. b # b0
    BY <1>2, <1>6 DEF Unowned
  <2>2. \A p \in DOMAIN M : ~(M[p].own /\ M[p].buf = b)
    BY <1>2 DEF Unowned, NoMatrix
  <2> QED
    BY <1>1, <2>1, <2>2 DEF Unowned
<1>13. b0 \notin Feeders /\ New(h, k).m.buf = b0
  BY <1>1, <1>3 DEF Root
<1> QED
  BY <1>1, <1>11, <1>12, <1>13 DEF g

(* The matrix of a place goes, and its buffer with it if it is the owner.  *)
LEMMA Freed ==
    ASSUME NEW M, NEW h, NEW A, Sound(M, h, A), NEW M2,
           NEW x, \A f \in Feeders : x # At(f), Updated(M, M2, x, NoMatrix)
    PROVE  /\ Sound(M2, Delete(h, M[x]), A)
           /\ Unowned(M2, Delete(h, M[x])) \subseteq Unowned(M, h)
           /\ \A f \in Feeders : Delete(h, M[x])[f] = h[f]
<1> DEFINE g == Delete(h, M[x])
<1>0. IsHeap(h) /\ M[x] \in SomeMatrix
  BY Inside DEF Sound, Updated
<1>1. /\ IsHeap(g) /\ DOMAIN g = IF M[x].own THEN DOMAIN h \ {M[x].buf} ELSE DOMAIN h
      /\ \A b \in DOMAIN g : g[b] = h[b]
  BY <1>0, DeletedBuffer
<1> HIDE DEF g
<1>2. /\ M2[x] = NoMatrix /\ ~M2[x].own /\ \A p \in DOMAIN M : p # x => M2[p] = M[p]
      /\ DOMAIN M2 = DOMAIN M /\ x \in DOMAIN M
  BY DEF NoMatrix, Updated
<1>3. \A f \in Feeders : f \in DOMAIN g /\ g[f] = h[f]
  BY <1>1, <1>2, NotRoot DEF Sound, Rooted
<1>4. \A m : Shared(h, A, m) => Shared(g, A, m)
  BY <1>3 DEF Shared
<1>5. \A p \in DOMAIN M : p # x /\ Whole(h, M[p]) => Whole(g, M[p])
  <2> SUFFICES ASSUME NEW p \in DOMAIN M, p # x, Whole(h, M[p]) PROVE Whole(g, M[p])
    OBVIOUS
  <2>1. M[p].own /\ M[p].buf \in DOMAIN h
    BY <1>0, WholeInside
  <2>2. ~(M[x].own /\ M[x].buf = M[p].buf)
    BY <1>2, <2>1 DEF Sound, Single
  <2>3. M[p].buf \in DOMAIN g
    BY <1>1, <2>1, <2>2
  <2> QED
    BY <1>1, <2>3 DEF Whole
<1>6. Proper(M2, g, A)
  BY <1>2, <1>4, <1>5 DEF Sound, Proper
<1>7. Single(M2)
  BY <1>2 DEF Sound, Single
<1>8. Rooted(M2, g)
  BY <1>2, <1>3 DEF Sound, Rooted
<1>9. Sound(M2, g, A)
  BY <1>1, <1>6, <1>7, <1>8 DEF Sound
<1>10. Unowned(M2, g) \subseteq Unowned(M, h)
  <2> SUFFICES ASSUME NEW b \in Unowned(M2, g) PROVE b \in Unowned(M, h)
    OBVIOUS
  <2>1. b \in DOMAIN g /\ b \in DOMAIN h /\ ~(M[x].own /\ M[x].buf = b)
    BY <1>1 DEF Unowned
  <2>2. \A p \in DOMAIN M : ~(M[p].own /\ M[p].buf = b)
    BY <1>2, <2>1 DEF Unowned
  <2> QED
    BY <2>1, <2>2 DEF Unowned
<1> QED
  BY <1>3, <1>9, <1>10 DEF g

(* More parts are sent.                                                    *)
LEMMA MoreSent ==
    ASSUME NEW M, NEW h, NEW A, Sound(M, h, A), NEW B \in Acks,
           \A f \in Feeders : A[f] \subseteq B[f]
    PROVE  Sound(M, h, B)
<1>1. \A m : Shared(h, A, m) => Shared(h, B, m)
  BY DEF Shared
<1> QED
  BY <1>1 DEF Sound, Proper

(* A place that was empty shares a part that was sent.                     *)
LEMMA Lent ==
    ASSUME NEW M, NEW h, NEW A, Sound(M, h, A), NEW m, Shared(h, A, m), NEW M2,
           NEW x, M[x] = NoMatrix, Updated(M, M2, x, m)
    PROVE  Sound(M2, h, A) /\ Unowned(M2, h) \subseteq Unowned(M, h)
<1>1. /\ ~m.own /\ M2[x] = m /\ \A p \in DOMAIN M : p # x => M2[p] = M[p]
      /\ DOMAIN M2 = DOMAIN M /\ x \in DOMAIN M
  BY SharedInside DEF Updated
<1>2. Proper(M2, h, A)
  BY <1>1 DEF Sound, Proper
<1>3. Single(M2)
  BY <1>1 DEF Sound, Single
<1>4. \A f \in Feeders : At(f) # x
  BY RootFields DEF Sound, Rooted
<1>5. Rooted(M2, h)
  BY <1>1, <1>4 DEF Sound, Rooted
<1>6. \A b \in Unowned(M2, h) : b \in Unowned(M, h)
  BY <1>1 DEF Unowned, NoMatrix
<1> QED
  BY <1>2, <1>3, <1>5, <1>6 DEF Sound

LEMMA LessUnowned ==
    ASSUME NEW M, NEW M2, NEW h, NEW D,
           \A p \in DOMAIN M : M[p].own => M[p].buf \in D \/ \E q \in DOMAIN M2 : M2[q] = M[p]
    PROVE  Unowned(M2, h) \subseteq Unowned(M, h) \cup D
BY DEF Unowned

(* What may be overwritten: nothing of a data node but what it has sent.   *)
Sent(r, h, A) ==
    r \in Feeders \X Nat /\ \E i \in A[r[1]] : r \in Rows(Part(Root(r[1], h[r[1]]), i - 1, N))

LEMMA OverwrittenSent ==
    ASSUME NEW M, NEW h, NEW A, Sound(M, h, A),
           NEW p \in DOMAIN M, \A f \in Feeders : p # At(f),
           NEW r \in Overwritten(M[p])
    PROVE  Sent(r, h, A)
<1> DEFINE m == M[p]
<1>1. r \in Rows(m) /\ r[1] = m.buf /\ m.buf \in Feeders
  BY DEF Overwritten, Rows
<1>2. HasData(m) /\ ~m.own
  BY <1>1, FeederNumbers, NotRoot DEF HasData
<1>3. Shared(h, A, m)
  BY <1>2, WholeInside DEF Sound, Proper, NoMatrix, HasData
<1>4. PICK i \in A[m.buf] : m = Part(Root(m.buf, h[m.buf]), i - 1, N)
  BY <1>3, SharedInside
<1>5. PICK j \in m.off + 1 .. m.off + m.height : r = <<m.buf, j>>
  BY <1>1 DEF Rows
<1>6. m.off \in Nat /\ m.height \in Nat
  BY <1>3, SharedInside DEF SomeMatrix
<1>7. j \in Nat
  BY <1>5, <1>6
<1> QED
  BY <1>1, <1>4, <1>5, <1>7 DEF Sent

-----------------------------------------------------------------------------
(* The places of the model; what a handler has in hand is at one more.     *)
AtS(n) == <<"S", n>>
AtQueue(n, i) == <<"queue", <<n, i>>>>
Hand == <<"hand", 0>>

PlacesOf(q) ==
    ({"X"} \X (Feeders \cup Nodes)) \cup ({"S"} \X Workers)
    \cup ({"queue"} \X UNION {{n} \X DOMAIN q[n] : n \in Nodes})

Memory(x, s, q, m) ==
    [p \in PlacesOf(q) \cup {Hand} |->
        CASE p[1] = "X" -> x[p[2]] [] p[1] = "S" -> s[p[2]]
          [] p[1] = "queue" -> q[p[2][1]][p[2][2]].mat [] p[1] = "hand" -> m]

LEMMA Names ==
    /\ \A n, k : At(n) = At(k) => n = k
    /\ \A n, k : AtS(n) = AtS(k) => n = k
    /\ \A n, k, i, j : AtQueue(n, i) = AtQueue(k, j) => n = k /\ i = j
    /\ \A n, k, i : /\ At(n) # AtS(k) /\ At(n) # AtQueue(k, i) /\ At(n) # Hand
                    /\ AtS(n) # AtQueue(k, i) /\ AtS(n) # Hand /\ AtQueue(k, i) # Hand
BY DEF At, AtS, AtQueue, Hand

LEMMA MemoryAt ==
    ASSUME NEW x, NEW s, NEW q, NEW m, NEW M, M = Memory(x, s, q, m)
    PROVE  /\ \A n \in Feeders \cup Nodes : At(n) \in DOMAIN M /\ M[At(n)] = x[n]
           /\ \A n \in Workers : AtS(n) \in DOMAIN M /\ M[AtS(n)] = s[n]
           /\ \A n \in Nodes : \A i \in DOMAIN q[n] :
                  AtQueue(n, i) \in DOMAIN M /\ M[AtQueue(n, i)] = q[n][i].mat
           /\ Hand \in DOMAIN M /\ M[Hand] = m
           /\ \A p \in DOMAIN M :
                  \/ \E n \in Feeders \cup Nodes : p = At(n)
                  \/ \E n \in Workers : p = AtS(n)
                  \/ \E n \in Nodes : \E i \in DOMAIN q[n] : p = AtQueue(n, i)
                  \/ p = Hand
<1>0. DOMAIN M = PlacesOf(q) \cup {Hand}
  BY DEF Memory
<1>1. ASSUME NEW n \in Feeders \cup Nodes PROVE At(n) \in DOMAIN M /\ M[At(n)] = x[n]
  <2>1. At(n) \in PlacesOf(q) \cup {Hand} /\ At(n)[1] = "X" /\ At(n)[2] = n
    BY DEF PlacesOf, At
  <2> QED
    BY <1>0, <2>1 DEF Memory
<1>2. ASSUME NEW n \in Workers PROVE AtS(n) \in DOMAIN M /\ M[AtS(n)] = s[n]
  <2>1. AtS(n) \in PlacesOf(q) \cup {Hand} /\ AtS(n)[1] = "S" /\ AtS(n)[2] = n
    BY DEF PlacesOf, AtS
  <2> QED
    BY <1>0, <2>1 DEF Memory
<1>3. ASSUME NEW n \in Nodes, NEW i \in DOMAIN q[n]
      PROVE  AtQueue(n, i) \in DOMAIN M /\ M[AtQueue(n, i)] = q[n][i].mat
  <2>1. /\ AtQueue(n, i) \in PlacesOf(q) \cup {Hand} /\ AtQueue(n, i)[1] = "queue"
        /\ AtQueue(n, i)[2][1] = n /\ AtQueue(n, i)[2][2] = i
    BY DEF PlacesOf, AtQueue
  <2> QED
    BY <1>0, <2>1 DEF Memory
<1>4. Hand \in DOMAIN M /\ M[Hand] = m
  <2>1. Hand[1] = "hand" /\ Hand \in PlacesOf(q) \cup {Hand}
    BY DEF Hand
  <2> QED
    BY <1>0, <2>1 DEF Memory
<1>5. ASSUME NEW p \in DOMAIN M
      PROVE  \/ \E n \in Feeders \cup Nodes : p = At(n)
             \/ \E n \in Workers : p = AtS(n)
             \/ \E n \in Nodes : \E i \in DOMAIN q[n] : p = AtQueue(n, i)
             \/ p = Hand
  BY <1>0 DEF PlacesOf, At, AtS, AtQueue
<1> QED
  BY <1>1, <1>2, <1>3, <1>4, <1>5

Typed(x, s, q) ==
    /\ x \in [Feeders \cup Nodes -> SomeMatrix] /\ s \in [Workers -> SomeMatrix]
    /\ q \in [Nodes -> Seq(Messages)]

LEMMA SetX ==
    ASSUME NEW x, NEW s, NEW q, NEW m, Typed(x, s, q), NEW n \in Nodes, NEW v
    PROVE  Updated(Memory(x, s, q, m), Memory([x EXCEPT ![n] = v], s, q, m), At(n), v)
<1> DEFINE M == Memory(x, s, q, m)
           x2 == [x EXCEPT ![n] = v]
           M2 == Memory(x2, s, q, m)
<1>0. DOMAIN M2 = DOMAIN M
  BY DEF Memory
<1>m. M2 = Memory(x2, s, q, m) /\ M = Memory(x, s, q, m)
  OBVIOUS
<1>1. \A k \in Feeders \cup Nodes : x2[k] = IF k = n THEN v ELSE x[k]
  BY DEF Typed
<1>2. At(n) \in DOMAIN M
  BY <1>m, MemoryAt
<1> HIDE DEF x2, M, M2
<1>3. ASSUME NEW p \in DOMAIN M PROVE M2[p] = IF p = At(n) THEN v ELSE M[p]
  <2>1. CASE \E k \in Feeders \cup Nodes : p = At(k)
    <3>1. PICK k \in Feeders \cup Nodes : p = At(k)
      BY <2>1
    <3>2. M2[p] = x2[k] /\ M[p] = x[k] /\ (p = At(n) => k = n)
      BY <3>1, <1>m, MemoryAt, Names
    <3> QED
      BY <1>1, <3>1, <3>2
  <2>2. CASE \E k \in Workers : p = AtS(k)
    BY <2>2, <1>m, MemoryAt, Names
  <2>3. CASE \E k \in Nodes : \E i \in DOMAIN q[k] : p = AtQueue(k, i)
    BY <2>3, <1>m, MemoryAt, Names
  <2>4. CASE p = Hand
    BY <2>4, <1>m, MemoryAt, Names
  <2> QED
    BY <2>1, <2>2, <2>3, <2>4, <1>m, MemoryAt
<1> QED
  BY <1>0, <1>2, <1>3 DEF x2, M, M2, Updated

LEMMA SetS ==
    ASSUME NEW x, NEW s, NEW q, NEW m, Typed(x, s, q), NEW n \in Workers, NEW v
    PROVE  Updated(Memory(x, s, q, m), Memory(x, [s EXCEPT ![n] = v], q, m), AtS(n), v)
<1> DEFINE M == Memory(x, s, q, m)
           s2 == [s EXCEPT ![n] = v]
           M2 == Memory(x, s2, q, m)
<1>0. DOMAIN M2 = DOMAIN M
  BY DEF Memory
<1>m. M2 = Memory(x, s2, q, m) /\ M = Memory(x, s, q, m)
  OBVIOUS
<1>1. \A k \in Workers : s2[k] = IF k = n THEN v ELSE s[k]
  BY DEF Typed
<1>2. AtS(n) \in DOMAIN M
  BY <1>m, MemoryAt
<1> HIDE DEF s2, M, M2
<1>3. ASSUME NEW p \in DOMAIN M PROVE M2[p] = IF p = AtS(n) THEN v ELSE M[p]
  <2>1. CASE \E k \in Workers : p = AtS(k)
    <3>1. PICK k \in Workers : p = AtS(k)
      BY <2>1
    <3>2. M2[p] = s2[k] /\ M[p] = s[k] /\ (p = AtS(n) => k = n)
      BY <3>1, <1>m, MemoryAt, Names
    <3> QED
      BY <1>1, <3>1, <3>2
  <2>2. CASE \E k \in Feeders \cup Nodes : p = At(k)
    <3>1. PICK k \in Feeders \cup Nodes : p = At(k)
      BY <2>2
    <3>2. M2[At(k)] = x[k]
      BY <1>m, MemoryAt
    <3>3. M[At(k)] = x[k]
      BY <1>m, MemoryAt
    <3>4. At(k) # AtS(n)
      BY Names
    <3> QED
      BY <3>1, <3>2, <3>3, <3>4
  <2>3. CASE \E k \in Nodes : \E i \in DOMAIN q[k] : p = AtQueue(k, i)
    BY <2>3, <1>m, MemoryAt, Names
  <2>4. CASE p = Hand
    BY <2>4, <1>m, MemoryAt, Names
  <2> QED
    BY <2>1, <2>2, <2>3, <2>4, <1>m, MemoryAt
<1> QED
  BY <1>0, <1>2, <1>3 DEF s2, M, M2, Updated

LEMMA SetHand ==
    ASSUME NEW x, NEW s, NEW q, NEW m, NEW v
    PROVE  Updated(Memory(x, s, q, m), Memory(x, s, q, v), Hand, v)
<1> DEFINE M == Memory(x, s, q, m)
           M2 == Memory(x, s, q, v)
<1>m. M2 = Memory(x, s, q, v) /\ M = Memory(x, s, q, m)
  OBVIOUS
<1>0. DOMAIN M2 = DOMAIN M
  BY DEF Memory
<1> HIDE DEF M, M2
<1>1. Hand \in DOMAIN M
  BY <1>m, MemoryAt
<1>2. ASSUME NEW p \in DOMAIN M PROVE M2[p] = IF p = Hand THEN v ELSE M[p]
  <2>1. CASE \E k \in Workers : p = AtS(k)
    BY <2>1, <1>m, MemoryAt, Names
  <2>2. CASE \E k \in Feeders \cup Nodes : p = At(k)
    BY <2>2, <1>m, MemoryAt, Names
  <2>3. CASE \E k \in Nodes : \E i \in DOMAIN q[k] : p = AtQueue(k, i)
    BY <2>3, <1>m, MemoryAt, Names
  <2>4. CASE p = Hand
    BY <2>4, <1>m, MemoryAt, Names
  <2> QED
    BY <2>1, <2>2, <2>3, <2>4, <1>m, MemoryAt
<1> QED
  BY <1>0, <1>1, <1>2 DEF M, M2, Updated

(* What is in hand becomes the X of a node.                                *)
LEMMA IntoX ==
    ASSUME NEW x, NEW s, NEW q, NEW m, NEW h, NEW A, Typed(x, s, q),
           Sound(Memory(x, s, q, m), h, A), NEW n \in Nodes
    PROVE  /\ Sound(Memory([x EXCEPT ![n] = m], s, q, NoMatrix), h, A)
           /\ Unowned(Memory([x EXCEPT ![n] = m], s, q, NoMatrix), h)
              \subseteq Unowned(Memory(x, s, q, m), h) \cup {b \in {x[n].buf} : x[n].own}
<1> DEFINE M == Memory(x, s, q, m)
           M1 == Memory([x EXCEPT ![n] = m], s, q, m)
           M2 == Memory([x EXCEPT ![n] = m], s, q, NoMatrix)
           E == {Hand}
           pi == [p \in DOMAIN M |-> IF p = At(n) THEN Hand ELSE p]
<1>1. /\ DOMAIN M1 = DOMAIN M /\ At(n) \in DOMAIN M
      /\ \A p \in DOMAIN M : M1[p] = IF p = At(n) THEN m ELSE M[p]
  <2>1. Updated(M, M1, At(n), m)
    BY SetX
  <2> QED
    BY <2>1 DEF Updated
<1>2. /\ DOMAIN M2 = DOMAIN M1 /\ Hand \in DOMAIN M1
      /\ \A p \in DOMAIN M1 : M2[p] = IF p = Hand THEN NoMatrix ELSE M1[p]
  <2>1. Updated(M1, M2, Hand, NoMatrix)
    BY SetHand
  <2> QED
    BY <2>1 DEF Updated
<1>3. M[Hand] = m /\ M[At(n)] = x[n] /\ Hand # At(n)
  BY MemoryAt, Names
<1>4. \A f \in Feeders : At(f) \in DOMAIN M /\ At(f) # At(n) /\ At(f) # Hand
  BY MemoryAt, Names, ConstantsAssumption
<1>5. \A p \in DOMAIN M : pi[p] = IF p = At(n) THEN Hand ELSE p
  OBVIOUS
<1> HIDE DEF M, M1, M2, pi
<1>6. DOMAIN M2 = DOMAIN M
  BY <1>1, <1>2
<1>7. \A p \in DOMAIN M2 \ {Hand} : pi[p] \in DOMAIN M /\ M2[p] = M[pi[p]]
  BY <1>1, <1>2, <1>3, <1>5, <1>6
<1>8. \A p, r \in DOMAIN M2 \ {Hand} : pi[p] = pi[r] => p = r
  BY <1>5, <1>6
<1>9. \A p \in {Hand} : M2[p] = NoMatrix
  BY <1>1, <1>2
<1>10. \A f \in Feeders : At(f) \in DOMAIN M2 \ {Hand} /\ pi[At(f)] = At(f)
  BY <1>4, <1>5, <1>6
<1>11. Sound(M, h, A)
  BY DEF M
<1>12. Sound(M2, h, A)
  <2>1. /\ \A p \in DOMAIN M2 \ E : pi[p] \in DOMAIN M /\ M2[p] = M[pi[p]]
        /\ \A p, r \in DOMAIN M2 \ E : pi[p] = pi[r] => p = r
        /\ \A p \in E : M2[p] = NoMatrix
        /\ \A f \in Feeders : At(f) \in DOMAIN M2 \ E /\ pi[At(f)] = At(f)
    BY <1>7, <1>8, <1>9, <1>10
  <2>2. Moves(M, M2, E, pi)
    BY <2>1 DEF Moves
  <2> HIDE DEF E
  <2> QED
    BY <1>11, <2>2, Moved
<1> DEFINE D == {b \in {x[n].buf} : x[n].own}
<1>13. \A p \in DOMAIN M : M[p].own => M[p].buf \in D \/ \E r \in DOMAIN M2 : M2[r] = M[p]
  <2> SUFFICES ASSUME NEW p \in DOMAIN M, M[p].own
               PROVE  M[p].buf \in D \/ \E r \in DOMAIN M2 : M2[r] = M[p]
    OBVIOUS
  <2>1. CASE p = At(n)
    BY <1>3, <2>1
  <2>2. CASE p = Hand
    <3>1. M2[At(n)] = M[p] /\ At(n) \in DOMAIN M2
      BY <1>1, <1>2, <1>3, <2>2
    <3> QED
      BY <3>1
  <2>3. CASE p # At(n) /\ p # Hand
    <3>1. M2[p] = M[p] /\ p \in DOMAIN M2
      BY <1>1, <1>2, <2>3
    <3> QED
      BY <3>1
  <2> QED
    BY <2>1, <2>2, <2>3
<1>14. Unowned(M2, h) \subseteq Unowned(M, h) \cup D
  <2> HIDE DEF D
  <2> QED
    BY <1>13, LessUnowned
<1> QED
  BY <1>12, <1>14 DEF M, M2

-----------------------------------------------------------------------------
(* A queue.                                                                *)
LEMMA FirstTaken ==
    ASSUME NEW x, NEW s, NEW q, NEW h, NEW A, Typed(x, s, q),
           Sound(Memory(x, s, q, NoMatrix), h, A), NEW n \in Nodes, q[n] # <<>>
    PROVE  LET q2 == [q EXCEPT ![n] = Tail(q[n])]
               M2 == Memory(x, s, q2, Head(q[n]).mat)
           IN  /\ Typed(x, s, q2) /\ Sound(M2, h, A) /\ Head(q[n]) \in Messages
               /\ Unowned(M2, h) \subseteq Unowned(Memory(x, s, q, NoMatrix), h)
<1> DEFINE t == q[n]
           q2 == [q EXCEPT ![n] = Tail(t)]
           M == Memory(x, s, q, NoMatrix)
           M2 == Memory(x, s, q2, Head(t).mat)
<1>1. /\ t \in Seq(Messages) /\ t # <<>> /\ Len(t) \in Nat \ {0}
      /\ DOMAIN t = 1 .. Len(t) /\ Head(t) = t[1]
      /\ Tail(t) \in Seq(Messages) /\ DOMAIN Tail(t) = 1 .. Len(t) - 1
      /\ \A i \in 1 .. Len(t) - 1 : Tail(t)[i] = t[i + 1]
  BY HeadTailProperties, LenProperties DEF Typed
<1>2. /\ q2 \in [Nodes -> Seq(Messages)] /\ q2[n] = Tail(t)
      /\ \A k \in Nodes : k # n => q2[k] = q[k]
  BY <1>1 DEF Typed
<1>3. Typed(x, s, q2) /\ Head(t) \in Messages
  BY <1>1, <1>2, ElementOfSeq DEF Typed
<1> HIDE DEF q2
<1> DEFINE E == {}
           From(p) == IF p = Hand THEN AtQueue(n, 1)
                      ELSE IF p \in {AtQueue(n, i) : i \in 1 .. Len(t) - 1} THEN AtQueue(n, p[2][2] + 1)
                      ELSE p
           pi == [p \in DOMAIN M2 |-> From(p)]
<1>4. \A i \in 1 .. Len(t) - 1 : From(AtQueue(n, i)) = AtQueue(n, i + 1)
  <2>1. \A i : AtQueue(n, i)[2][2] = i
    BY DEF AtQueue
  <2> QED
    BY <2>1, Names
<1>5. /\ From(Hand) = AtQueue(n, 1)
      /\ \A k \in Feeders \cup Nodes : From(At(k)) = At(k)
      /\ \A k \in Workers : From(AtS(k)) = AtS(k)
      /\ \A k \in Nodes : k # n => \A i \in DOMAIN q[k] : From(AtQueue(k, i)) = AtQueue(k, i)
  BY Names
<1>6. \A p \in DOMAIN M2 : pi[p] = From(p)
  OBVIOUS
<1> HIDE DEF From, pi
<1>7. ASSUME NEW p \in DOMAIN M2 PROVE From(p) \in DOMAIN M /\ M2[p] = M[From(p)]
  <2>1. CASE \E k \in Feeders \cup Nodes : p = At(k)
    BY <1>5, <2>1, MemoryAt
  <2>2. CASE \E k \in Workers : p = AtS(k)
    BY <1>5, <2>2, MemoryAt
  <2>3. CASE \E k \in Nodes : \E i \in DOMAIN q2[k] : p = AtQueue(k, i)
    <3>1. PICK k \in Nodes : \E i \in DOMAIN q2[k] : p = AtQueue(k, i)
      BY <2>3
    <3>2. PICK i \in DOMAIN q2[k] : p = AtQueue(k, i)
      BY <3>1
    <3>3. CASE k = n
      <4>1. i \in 1 .. Len(t) - 1 /\ i + 1 \in DOMAIN t
        BY <1>1, <1>2, <3>2, <3>3
      <4>2. From(p) = AtQueue(n, i + 1) /\ M2[p] = Tail(t)[i].mat
        BY <1>2, <1>4, <3>2, <3>3, <4>1, MemoryAt
      <4>3. AtQueue(n, i + 1) \in DOMAIN M /\ M[AtQueue(n, i + 1)] = t[i + 1].mat
        BY <4>1, MemoryAt
      <4> QED
        BY <1>1, <4>1, <4>2, <4>3
    <3>4. CASE k # n
      BY <1>2, <1>5, <3>2, <3>4, MemoryAt
    <3> QED
      BY <3>3, <3>4
  <2>4. CASE p = Hand
    <3>1. 1 \in DOMAIN t
      BY <1>1
    <3>2. AtQueue(n, 1) \in DOMAIN M /\ M[AtQueue(n, 1)] = t[1].mat
      BY <3>1, MemoryAt
    <3>3. M2[Hand] = Head(t).mat
      BY MemoryAt
    <3> QED
      BY <1>1, <1>5, <2>4, <3>2, <3>3
  <2> QED
    BY <2>1, <2>2, <2>3, <2>4, MemoryAt
<1>8. \A p, r \in DOMAIN M2 : From(p) = From(r) => p = r
  <2> DEFINE Moving(p) == \E i \in 1 .. Len(t) - 1 : p = AtQueue(n, i)
  <2>1. \A p : Moving(p) => \E i \in 1 .. Len(t) - 1 : p = AtQueue(n, i) /\ From(p) = AtQueue(n, i + 1)
    BY <1>4
  <2>2. \A p \in DOMAIN M2 : Moving(p) \/ p = Hand \/ (From(p) = p /\ \A i : p # AtQueue(n, i))
    <3> SUFFICES ASSUME NEW p \in DOMAIN M2, ~Moving(p), p # Hand
                 PROVE  From(p) = p /\ \A i : p # AtQueue(n, i)
      OBVIOUS
    <3>1. \A i : p # AtQueue(n, i)
      <4>1. ASSUME NEW i, p = AtQueue(n, i) PROVE FALSE
        <5>1. \E k \in Nodes : \E j \in DOMAIN q2[k] : p = AtQueue(k, j)
          <6>1. /\ \A k : p # At(k) /\ p # AtS(k)
                /\ p # Hand
            BY <4>1, Names
          <6> QED
            BY <6>1, MemoryAt
        <5>2. PICK k \in Nodes : \E j \in DOMAIN q2[k] : p = AtQueue(k, j)
          BY <5>1
        <5>3. PICK j \in DOMAIN q2[k] : p = AtQueue(k, j)
          BY <5>2
        <5>4. k = n /\ j = i
          <6>1. AtQueue(n, i) = AtQueue(k, j)
            BY <4>1, <5>3
          <6> QED
            BY <6>1, Zenon, Names
        <5>5. DOMAIN q2[n] = 1 .. Len(t) - 1
          BY <1>1, <1>2
        <5>6. j \in 1 .. Len(t) - 1
          BY <5>3, <5>4, <5>5
        <5> QED
          BY <5>3, <5>4, <5>6
      <4> QED
        BY <4>1
    <3> QED
      BY <3>1 DEF From
  <2>3. From(Hand) = AtQueue(n, 1) /\ \A i \in 1 .. Len(t) - 1 : i + 1 # 1
    BY <1>1, <1>5
  <2>4. \A i, j \in 1 .. Len(t) - 1 : i + 1 = j + 1 => i = j
    BY <1>1
  <2> HIDE DEF Moving
  <2> SUFFICES ASSUME NEW p \in DOMAIN M2, NEW r \in DOMAIN M2, From(p) = From(r) PROVE p = r
    OBVIOUS
  <2>5. CASE Moving(p) /\ Moving(r)
    BY <2>1, <2>4, <2>5, Names
  <2>6. CASE Moving(p) /\ ~Moving(r)
    BY <2>1, <2>2, <2>3, <2>6, Names
  <2>7. CASE ~Moving(p) /\ Moving(r)
    BY <2>1, <2>2, <2>3, <2>7, Names
  <2>8. CASE ~Moving(p) /\ ~Moving(r)
    BY <2>2, <2>3, <2>8, Names
  <2> QED
    BY <2>5, <2>6, <2>7, <2>8
<1>9. \A f \in Feeders : At(f) \in DOMAIN M2 \ {} /\ pi[At(f)] = At(f)
  <2>1. \A f \in Feeders : At(f) \in DOMAIN M2
    BY MemoryAt
  <2> QED
    BY <1>5, <1>6, <2>1
<1>10. Sound(M, h, A)
  OBVIOUS
<1>11. Unowned(M2, h) \subseteq Unowned(M, h)
  <2>1. \A p \in DOMAIN M : M[p].own => M[p].buf \in {} \/ \E r \in DOMAIN M2 : M2[r] = M[p]
    <3> SUFFICES ASSUME NEW p \in DOMAIN M, M[p].own PROVE \E r \in DOMAIN M2 : M2[r] = M[p]
      OBVIOUS
    <3>1. p # Hand
      BY MemoryAt DEF NoMatrix
    <3>2. CASE \E k \in Feeders \cup Nodes : p = At(k)
      BY <3>2, MemoryAt
    <3>3. CASE \E k \in Workers : p = AtS(k)
      BY <3>3, MemoryAt
    <3>4. CASE \E k \in Nodes : \E i \in DOMAIN q[k] : p = AtQueue(k, i)
      <4>1. PICK k \in Nodes : \E i \in DOMAIN q[k] : p = AtQueue(k, i)
        BY <3>4
      <4>2. PICK i \in DOMAIN q[k] : p = AtQueue(k, i)
        BY <4>1
      <4>3. M[p] = q[k][i].mat
        BY <4>2, MemoryAt
      <4>4. CASE k # n
        <5>1. AtQueue(k, i) \in DOMAIN M2 /\ M2[AtQueue(k, i)] = q[k][i].mat
          BY <1>2, <4>4, MemoryAt
        <5> QED
          BY <4>3, <5>1
      <4>5. CASE k = n /\ i = 1
        <5>1. Hand \in DOMAIN M2 /\ M2[Hand] = t[1].mat
          BY <1>1, MemoryAt
        <5> QED
          BY <4>3, <4>5, <5>1
      <4>6. CASE k = n /\ i # 1
        <5>1. i \in 1 .. Len(t) /\ i - 1 \in 1 .. Len(t) - 1 /\ (i - 1) + 1 = i
          BY <1>1, <4>6
        <5>2. i - 1 \in DOMAIN q2[n] /\ q2[n][i - 1] = t[i]
          BY <1>1, <1>2, <5>1
        <5>3. AtQueue(n, i - 1) \in DOMAIN M2 /\ M2[AtQueue(n, i - 1)] = t[i].mat
          BY <5>2, MemoryAt
        <5> QED
          BY <4>3, <4>6, <5>3
      <4> QED
        BY <4>4, <4>5, <4>6
    <3> QED
      BY <3>1, <3>2, <3>3, <3>4, MemoryAt
  <2> HIDE DEF M, M2
  <2>2. Unowned(M2, h) \subseteq Unowned(M, h) \cup {}
    BY <2>1, LessUnowned
  <2> QED
    BY <2>2
<1>12. Sound(M2, h, A)
  <2> HIDE DEF M, M2
  <2>1. /\ \A p \in DOMAIN M2 \ E : pi[p] \in DOMAIN M /\ M2[p] = M[pi[p]]
        /\ \A p, r \in DOMAIN M2 \ E : pi[p] = pi[r] => p = r
        /\ \A p \in E : M2[p] = NoMatrix
        /\ \A f \in Feeders : At(f) \in DOMAIN M2 \ E /\ pi[At(f)] = At(f)
    BY <1>6, <1>7, <1>8, <1>9
  <2>2. Moves(M, M2, E, pi)
    BY <2>1 DEF Moves
  <2> HIDE DEF E, t
  <2> QED
    BY <1>10, <2>2, Moved
<1> QED
  BY <1>3, <1>11, <1>12 DEF q2

Grown(q, q2, n, e) == q2 = [q EXCEPT ![n] = Append(q[n], e)]

LEMMA LastAdded ==
    ASSUME NEW x, NEW s, NEW q, NEW h, NEW A, NEW c, Typed(x, s, q),
           Sound(Memory(x, s, q, c), h, A), NEW n \in Nodes,
           NEW e \in Messages, e.mat = c, NEW q2,
           Grown(q, q2, n, e)
    PROVE  /\ Typed(x, s, q2) /\ Sound(Memory(x, s, q2, NoMatrix), h, A)
           /\ Unowned(Memory(x, s, q2, NoMatrix), h) \subseteq Unowned(Memory(x, s, q, c), h)
<1> DEFINE t == q[n]
           u == Append(t, e)
           M == Memory(x, s, q, c)
           M2 == Memory(x, s, q2, NoMatrix)
           E == {Hand}
           new == AtQueue(n, Len(t) + 1)
           From(p) == IF p = new THEN Hand ELSE p
           pi == [p \in DOMAIN M2 |-> From(p)]
<1>1. /\ t \in Seq(Messages) /\ Len(t) \in Nat /\ DOMAIN t = 1 .. Len(t)
      /\ u \in Seq(Messages) /\ DOMAIN u = 1 .. Len(t) + 1
      /\ u[Len(t) + 1] = e /\ \A i \in 1 .. Len(t) : u[i] = t[i]
  BY AppendProperties, LenProperties DEF Typed
<1>2. /\ q2 \in [Nodes -> Seq(Messages)] /\ q2[n] = u
      /\ \A k \in Nodes : k # n => q2[k] = q[k]
  BY <1>1 DEF Typed, Grown
<1>3. Typed(x, s, q2)
  BY <1>2 DEF Typed
<1>m. M = Memory(x, s, q, c) /\ M2 = Memory(x, s, q2, NoMatrix)
  OBVIOUS
<1> HIDE DEF t, u, M, M2
<1>4. /\ From(new) = Hand
      /\ \A k \in Feeders \cup Nodes : From(At(k)) = At(k)
      /\ \A k \in Workers : From(AtS(k)) = AtS(k)
      /\ \A k, i : k # n \/ i # Len(t) + 1 => From(AtQueue(k, i)) = AtQueue(k, i)
  BY Names
<1>5. \A p \in DOMAIN M2 : pi[p] = From(p)
  OBVIOUS
<1>6. new # Hand
  BY Names
<1>7. ASSUME NEW p \in DOMAIN M2 \ E PROVE From(p) \in DOMAIN M /\ M2[p] = M[From(p)]
  <2>1. CASE \E k \in Feeders \cup Nodes : p = At(k)
    <3>1. PICK k \in Feeders \cup Nodes : p = At(k)
      BY <2>1
    <3>2. M2[At(k)] = x[k]
      BY <1>m, MemoryAt
    <3>3. M[At(k)] = x[k] /\ At(k) \in DOMAIN M
      BY <1>m, MemoryAt
    <3> QED
      BY <1>4, <3>1, <3>2, <3>3
  <2>2. CASE \E k \in Workers : p = AtS(k)
    <3>1. PICK k \in Workers : p = AtS(k)
      BY <2>2
    <3>2. M2[AtS(k)] = s[k]
      BY <1>m, MemoryAt
    <3>3. M[AtS(k)] = s[k] /\ AtS(k) \in DOMAIN M
      BY <1>m, MemoryAt
    <3> QED
      BY <1>4, <3>1, <3>2, <3>3
  <2>3. CASE \E k \in Nodes : \E i \in DOMAIN q2[k] : p = AtQueue(k, i)
    <3>1. PICK k \in Nodes : \E i \in DOMAIN q2[k] : p = AtQueue(k, i)
      BY <2>3
    <3>2. PICK i \in DOMAIN q2[k] : p = AtQueue(k, i)
      BY <3>1
    <3>3. M2[p] = q2[k][i].mat
      <4>1. M2[AtQueue(k, i)] = q2[k][i].mat
        BY <1>m, MemoryAt
      <4> QED
        BY <3>2, <4>1
    <3>4. CASE k = n /\ i = Len(t) + 1
      <4>1. q2[k][i] = e /\ From(p) = Hand
        BY <1>1, <1>2, <1>4, <3>2, <3>4
      <4>2. Hand \in DOMAIN M /\ M[Hand] = c
        BY <1>m, MemoryAt
      <4> QED
        BY <3>3, <4>1, <4>2
    <3>5. CASE k # n \/ i # Len(t) + 1
      <4>1. i \in DOMAIN q[k] /\ q2[k][i] = q[k][i]
        BY <1>1, <1>2, <3>2, <3>5 DEF t
      <4>2. AtQueue(k, i) \in DOMAIN M /\ M[AtQueue(k, i)] = q[k][i].mat
        BY <4>1, <1>m, MemoryAt
      <4>3. From(p) = AtQueue(k, i)
        BY <1>4, <3>2, <3>5
      <4> QED
        BY <3>3, <4>1, <4>2, <4>3
    <3> QED
      BY <3>4, <3>5
  <2>4. \/ \E k \in Feeders \cup Nodes : p = At(k)
        \/ \E k \in Workers : p = AtS(k)
        \/ \E k \in Nodes : \E i \in DOMAIN q2[k] : p = AtQueue(k, i)
        \/ p = Hand
    BY <1>m, MemoryAt
  <2> QED
    BY <2>1, <2>2, <2>3, <2>4
<1>8. \A p, r \in DOMAIN M2 \ E : From(p) = From(r) => p = r
  OBVIOUS
<1>9. \A f \in Feeders : At(f) \in DOMAIN M2 \ E
  <2>1. \A f \in Feeders : At(f) \in DOMAIN M2
    BY <1>m, MemoryAt
  <2> QED
    BY <2>1, Names
<1>10. M2[Hand] = NoMatrix /\ new \in DOMAIN M2 /\ M2[new] = c
  <2>1. Len(t) + 1 \in DOMAIN q2[n] /\ q2[n][Len(t) + 1] = e
    BY <1>1, <1>2
  <2>2. M2[Hand] = NoMatrix
    BY <1>m, MemoryAt
  <2>3. new \in DOMAIN M2 /\ M2[new] = q2[n][Len(t) + 1].mat
    <3> DEFINE j == Len(t) + 1
    <3>1. j \in DOMAIN q2[n]
      BY <2>1
    <3> HIDE DEF j
    <3>2. AtQueue(n, j) \in DOMAIN M2 /\ M2[AtQueue(n, j)] = q2[n][j].mat
      BY <3>1, <1>m, MemoryAt
    <3> QED
      BY <3>2 DEF j
  <2> QED
    BY <2>1, <2>2, <2>3
<1>11. Moves(M, M2, E, pi)
  <2> HIDE DEF pi
  <2>1. \A p \in DOMAIN M2 \ E : pi[p] \in DOMAIN M /\ M2[p] = M[pi[p]]
    BY <1>5, <1>7
  <2>2. \A p, r \in DOMAIN M2 \ E : pi[p] = pi[r] => p = r
    BY <1>5, <1>8
  <2>3. \A f \in Feeders : At(f) \in DOMAIN M2 \ E /\ pi[At(f)] = At(f)
    BY <1>4, <1>5, <1>9
  <2> QED
    BY <1>10, <2>1, <2>2, <2>3 DEF Moves
<1>12. \A p \in DOMAIN M : M[p].own => M[p].buf \in {} \/ \E r \in DOMAIN M2 : M2[r] = M[p]
  <2> SUFFICES ASSUME NEW p \in DOMAIN M PROVE \E r \in DOMAIN M2 : M2[r] = M[p]
    OBVIOUS
  <2>1. CASE p = Hand
    <3>1. M[p] = c
      BY <2>1, <1>m, MemoryAt
    <3> QED
      BY <1>10, <3>1
  <2>2. CASE p # Hand
    <3>1. p \in DOMAIN M2 \ E /\ From(p) = p
      <4>1. CASE \E k \in Feeders \cup Nodes : p = At(k)
        BY <1>4, <2>2, <4>1, <1>m, MemoryAt
      <4>2. CASE \E k \in Workers : p = AtS(k)
        BY <1>4, <2>2, <4>2, <1>m, MemoryAt
      <4>3. CASE \E k \in Nodes : \E i \in DOMAIN q[k] : p = AtQueue(k, i)
        <5>1. PICK k \in Nodes : \E i \in DOMAIN q[k] : p = AtQueue(k, i)
          BY <4>3
        <5>2. PICK i \in DOMAIN q[k] : p = AtQueue(k, i)
          BY <5>1
        <5>3. i \in DOMAIN q2[k] /\ (k # n \/ i # Len(t) + 1)
          BY <1>1, <1>2, <5>2 DEF t
        <5>4. AtQueue(k, i) \in DOMAIN M2
          <6> HIDE DEF new, From, pi, E
          <6> QED
            BY <5>3, <1>m, MemoryAt
        <5> QED
          BY <1>4, <2>2, <5>2, <5>3, <5>4
      <4> QED
        BY <2>2, <4>1, <4>2, <4>3, <1>m, MemoryAt
    <3> QED
      BY <1>7, <3>1
  <2> QED
    BY <2>1, <2>2
<1> HIDE DEF E, pi
<1>13. Sound(M, h, A)
  BY DEF M
<1>14. Sound(M2, h, A)
  BY <1>11, <1>13, Moved
<1>15. Unowned(M2, h) \subseteq Unowned(M, h) \cup {}
  BY <1>12, LessUnowned
<1> QED
  BY <1>3, <1>14, <1>15 DEF M, M2

-----------------------------------------------------------------------------
(* The handlers.  Like gives a matrix to S or X when it is empty.          *)
LEMMA SentSame ==
    ASSUME NEW h, NEW g, NEW A, NEW r, Sent(r, h, A), \A f \in Feeders : g[f] = h[f]
    PROVE  Sent(r, g, A)
BY DEF Sent

LEMMA FeedersKept ==
    ASSUME NEW M, NEW h, NEW A, Sound(M, h, A), NEW k \in Nat \ {0}
    PROVE  \A f \in Feeders : New(h, k).heap[f] = h[f]
<1>1. \A f \in Feeders : f \in DOMAIN h
  BY DEF Sound, Rooted
<1>2. IsHeap(h)
  BY DEF Sound
<1>3. \A b \in DOMAIN h : New(h, k).heap[b] = h[b]
  BY <1>2, NewBuffer
<1> QED
  BY <1>1, <1>3

(* A step from holdings M in h to M2 in g loses no buffer.                 *)
Keeps(M, h, M2, g, A) ==
    /\ Sound(M2, g, A) /\ Unowned(M2, g) \subseteq Unowned(M, h)
    /\ \A f \in Feeders : g[f] = h[f]

LEMMA LikeS ==
    ASSUME NEW x, NEW s, NEW q, NEW m, NEW h, NEW A, Typed(x, s, q),
           Sound(Memory(x, s, q, m), h, A), NEW n \in Workers, NEW k \in Nat \ {0}
    PROVE  LET r == Assigned(h, s[n], k)
               s2 == [s EXCEPT ![n] = r.m]
           IN  /\ Typed(x, s2, q) /\ Keeps(Memory(x, s, q, m), h, Memory(x, s2, q, m), r.heap, A)
               /\ HasData(r.m) /\ r.m.height \in Nat \ {0}
<1> DEFINE M == Memory(x, s, q, m)
           r == Assigned(h, s[n], k)
           s2 == [s EXCEPT ![n] = r.m]
<1>r. s2 = [s EXCEPT ![n] = r.m]
  OBVIOUS
<1>1. AtS(n) \in DOMAIN M /\ M[AtS(n)] = s[n] /\ s[n] \in SomeMatrix
  BY MemoryAt DEF Typed
<1>2. /\ ~HasData(s[n]) => s[n] = NoMatrix
      /\ HasData(s[n]) => s[n].height > 0
  BY <1>1, Inside
<1>3. CASE HasData(s[n])
  <2>1. r.heap = h /\ r.m = s[n]
    BY <1>3 DEF Assigned
  <2> HIDE DEF r, s2, Keeps
  <2>2. s2 = s
    BY <1>r, <2>1 DEF Typed
  <2>3. r.m.height \in Nat \ {0}
    BY <1>1, <1>2, <1>3, <2>1 DEF SomeMatrix
  <2> QED
    BY <1>3, <2>1, <2>2, <2>3 DEF r, s2, Keeps
<1>4. CASE ~HasData(s[n])
  <2> DEFINE v == New(h, k).m
             g == New(h, k).heap
             M2 == Memory(x, [s EXCEPT ![n] = v], q, m)
  <2>0. IsHeap(h)
    BY DEF Sound
  <2>1. r.heap = g /\ r.m = v
    BY <1>4 DEF Assigned
  <2>2. v = [buf |-> Fresh(h), off |-> 0, height |-> k, own |-> TRUE] /\ Fresh(h) \in Nat \ {0}
    BY <2>0, NewBuffer, NewName
  <2>3. v \in SomeMatrix /\ HasData(v) /\ v.height = k
    BY <2>2 DEF SomeMatrix, HasData
  <2>4. \A f \in Feeders : g[f] = h[f]
    BY FeedersKept
  <2> HIDE DEF v, g, r, s2
  <2>5. Typed(x, s2, q)
    BY <1>r, <2>1, <2>3 DEF Typed
  <2>6. Updated(M, M2, AtS(n), v)
    BY SetS
  <2>7. M2 = Memory(x, s2, q, m)
    BY <1>r, <2>1
  <2>8. M[AtS(n)] = NoMatrix
    BY <1>1, <1>2, <1>4
  <2>9. Sound(M, h, A)
    OBVIOUS
  <2> HIDE DEF M, M2
  <2>10. Sound(M2, g, A) /\ Unowned(M2, g) \subseteq Unowned(M, h)
    BY <1>1, <2>6, <2>8, <2>9, Allocated DEF v, g
  <2> QED
    BY <2>1, <2>3, <2>4, <2>5, <2>7, <2>10 DEF M, r, s2, Keeps
<1> QED
  BY <1>3, <1>4

LEMMA LikeX ==
    ASSUME NEW x, NEW s, NEW q, NEW m, NEW h, NEW A, Typed(x, s, q),
           Sound(Memory(x, s, q, m), h, A), NEW n \in Nodes, NEW k \in Nat \ {0}
    PROVE  LET r == Assigned(h, x[n], k)
               x2 == [x EXCEPT ![n] = r.m]
           IN  Typed(x2, s, q) /\ Keeps(Memory(x, s, q, m), h, Memory(x2, s, q, m), r.heap, A)
<1> DEFINE M == Memory(x, s, q, m)
           r == Assigned(h, x[n], k)
           x2 == [x EXCEPT ![n] = r.m]
<1>r. x2 = [x EXCEPT ![n] = r.m]
  OBVIOUS
<1>1. At(n) \in DOMAIN M /\ M[At(n)] = x[n]
  BY MemoryAt
<1>2. ~HasData(x[n]) => x[n] = NoMatrix
  BY <1>1, Inside
<1>3. CASE HasData(x[n])
  <2>1. r.heap = h /\ r.m = x[n]
    BY <1>3 DEF Assigned
  <2> HIDE DEF r, x2, Keeps
  <2>2. x2 = x
    BY <1>r, <2>1 DEF Typed
  <2> QED
    BY <2>1, <2>2 DEF r, x2, Keeps
<1>4. CASE ~HasData(x[n])
  <2> DEFINE v == New(h, k).m
             g == New(h, k).heap
             M2 == Memory([x EXCEPT ![n] = v], s, q, m)
  <2>0. IsHeap(h)
    BY DEF Sound
  <2>1. r.heap = g /\ r.m = v
    BY <1>4 DEF Assigned
  <2>2. v = [buf |-> Fresh(h), off |-> 0, height |-> k, own |-> TRUE] /\ Fresh(h) \in Nat \ {0}
    BY <2>0, NewBuffer, NewName
  <2>3. v \in SomeMatrix
    BY <2>2 DEF SomeMatrix
  <2>4. \A f \in Feeders : g[f] = h[f]
    BY FeedersKept
  <2> HIDE DEF v, g, r, x2
  <2>5. Typed(x2, s, q)
    BY <1>r, <2>1, <2>3 DEF Typed
  <2>6. Updated(M, M2, At(n), v)
    BY SetX
  <2>7. M2 = Memory(x2, s, q, m)
    BY <1>r, <2>1
  <2>8. M[At(n)] = NoMatrix
    BY <1>1, <1>2, <1>4
  <2>9. Sound(M, h, A)
    OBVIOUS
  <2> HIDE DEF M, M2
  <2>10. Sound(M2, g, A) /\ Unowned(M2, g) \subseteq Unowned(M, h)
    BY <1>1, <2>6, <2>8, <2>9, Allocated DEF v, g
  <2> QED
    BY <2>1, <2>4, <2>5, <2>7, <2>10 DEF M, r, x2, Keeps
<1> QED
  BY <1>3, <1>4

Summing == attached = {n \in Workers : HasData(S[n])}
Weighing == w \in [Workers -> Nat]

LEMMA HandRows ==
    ASSUME NEW x, NEW s, NEW q, NEW m, NEW h, NEW A,
           Sound(Memory(x, s, q, m), h, A), HasData(m)
    PROVE  m \in SomeMatrix /\ m.height \in Nat \ {0}
<1> DEFINE M == Memory(x, s, q, m)
<1>1. Hand \in DOMAIN M /\ M[Hand] = m
  BY MemoryAt
<1>2. Sound(M, h, A)
  OBVIOUS
<1> HIDE DEF M
<1>3. m \in SomeMatrix /\ m.height > 0
  BY <1>1, <1>2, Inside
<1> QED
  BY <1>3 DEF SomeMatrix

LEMMA RowsTaken ==
    ASSUME NEW q, NEW m, NEW A, Typed(X, S, q), Sound(Memory(X, S, q, m), heap, A),
           Summing, Weighing, NEW n \in Workers, HasData(m), TakeRows(n, m, heap)
    PROVE  /\ Typed(X', S', q) /\ Sound(Memory(X', S', q, NoMatrix), heap', A)
           /\ Unowned(Memory(X', S', q, NoMatrix), heap')
              \subseteq Unowned(Memory(X, S, q, m), heap) \cup {X[n].buf}
           /\ Summing' /\ Weighing' /\ \A f \in Feeders : heap'[f] = heap[f]
<1> DEFINE k == m.height
           s == Assigned(heap, S[n], k)
           S2 == [S EXCEPT ![n] = s.m]
<1>0. m \in SomeMatrix /\ m.height \in Nat \ {0} /\ n \in Nodes
  BY HandRows DEF Nodes
<1>2. /\ X' = [X EXCEPT ![n] = m] /\ S' = S2 /\ S2 = [S EXCEPT ![n] = s.m] /\ heap' = s.heap
      /\ attached' = attached \cup {n}
      /\ w' = [w EXCEPT ![n] = IF SameSize(s.m, m) THEN w[n] + Unit ELSE w[n]]
  BY DEF TakeRows, Attached, Sum
<1>1. /\ Typed(X, S2, q) /\ Sound(Memory(X, S2, q, m), s.heap, A)
      /\ Unowned(Memory(X, S2, q, m), s.heap) \subseteq Unowned(Memory(X, S, q, m), heap)
      /\ \A f \in Feeders : s.heap[f] = heap[f]
      /\ HasData(s.m)
  <2>1. k \in Nat \ {0}
    BY <1>0
  <2> HIDE DEF k
  <2>2. /\ Typed(X, S2, q) /\ HasData(s.m)
        /\ Keeps(Memory(X, S, q, m), heap, Memory(X, S2, q, m), s.heap, A)
    BY <2>1, LikeS
  <2> QED
    BY <2>2 DEF Keeps
<1> HIDE DEF s, S2
<1>3. /\ Typed(X, S', q) /\ Sound(Memory(X, S', q, m), heap', A)
      /\ Unowned(Memory(X, S', q, m), heap') \subseteq Unowned(Memory(X, S, q, m), heap)
      /\ \A f \in Feeders : heap'[f] = heap[f]
      /\ HasData(s.m)
  BY <1>1, <1>2
<1>4. /\ Sound(Memory(X', S', q, NoMatrix), heap', A)
      /\ Unowned(Memory(X', S', q, NoMatrix), heap')
         \subseteq Unowned(Memory(X, S', q, m), heap') \cup {b \in {X[n].buf} : X[n].own}
  BY <1>0, <1>2, <1>3, IntoX
<1>5. Typed(X', S', q)
  BY <1>0, <1>2, <1>3 DEF Typed
<1>6. Summing'
  <2>1. \A j \in Workers : S'[j] = IF j = n THEN s.m ELSE S[j]
    BY <1>2 DEF Typed
  <2> QED
    BY <1>2, <1>3, <2>1 DEF Summing
<1>7. Weighing'
  BY <1>2, ConstantsAssumption DEF Weighing
<1> QED
  BY <1>3, <1>4, <1>5, <1>6, <1>7

(* A matrix that is destroyed after use, if what is in hand owns it.       *)
LEMMA HandFreed ==
    ASSUME NEW x, NEW s, NEW q, NEW m, NEW hand, NEW h, NEW A,
           Sound(Memory(x, s, q, hand), h, A),
           hand = m \/ (hand = NoMatrix /\ ~m.own)
    PROVE  Keeps(Memory(x, s, q, hand), h, Memory(x, s, q, NoMatrix), Delete(h, m), A)
<1>1. CASE hand = NoMatrix /\ ~m.own
  <2>1. Delete(h, m) = h
    BY <1>1 DEF Delete
  <2> QED
    BY <1>1, <2>1 DEF Keeps
<1>2. CASE hand = m
  <2> DEFINE M == Memory(x, s, q, m)
             M2 == Memory(x, s, q, NoMatrix)
  <2>1. Updated(M, M2, Hand, NoMatrix)
    BY SetHand
  <2>2. M[Hand] = m
    BY MemoryAt
  <2>3. \A f \in Feeders : Hand # At(f)
    BY Names
  <2>4. Sound(M, h, A)
    BY <1>2
  <2> HIDE DEF M, M2
  <2>5. /\ Sound(M2, Delete(h, M[Hand]), A)
        /\ Unowned(M2, Delete(h, M[Hand])) \subseteq Unowned(M, h)
        /\ \A f \in Feeders : Delete(h, M[Hand])[f] = h[f]
    BY <2>1, <2>3, <2>4, Freed
  <2> QED
    BY <1>2, <2>2, <2>5 DEF M, M2, Keeps
<1> QED
  BY <1>1, <1>2

LEMMA GradientAdded ==
    ASSUME NEW q, NEW m, NEW hand, NEW A, NEW W \in [Workers -> Nat], NEW win \in Nat,
           Typed(X, S, q), Sound(Memory(X, S, q, hand), heap, A),
           Summing, NEW n \in Workers, m.height \in Nat \ {0},
           hand = m \/ (hand = NoMatrix /\ ~m.own),
           \A r \in dirty : Sent(r, heap, A),
           AddGradient(n, m, win, heap, W)
    PROVE  /\ Typed(X', S', q) /\ Sound(Memory(X', S', q, NoMatrix), heap', A)
           /\ Unowned(Memory(X', S', q, NoMatrix), heap')
              \subseteq Unowned(Memory(X, S, q, hand), heap)
           /\ Summing' /\ Weighing' /\ \A f \in Feeders : heap'[f] = heap[f]
           /\ \A r \in dirty' : Sent(r, heap', A)
<1> DEFINE s == Assigned(heap, S[n], m.height)
           S2 == [S EXCEPT ![n] = s.m]
           added == SameSize(s.m, m)
           k == s.m.height
           y == Assigned(s.heap, X[n], k)
           x == IF added THEN y ELSE [heap |-> s.heap, m |-> X[n]]
<1>0. n \in Nodes /\ n \notin Feeders
  BY ConstantsAssumption DEF Nodes
<1>1. /\ Typed(X, S2, q) /\ Sound(Memory(X, S2, q, hand), s.heap, A)
      /\ Unowned(Memory(X, S2, q, hand), s.heap) \subseteq Unowned(Memory(X, S, q, hand), heap)
      /\ \A f \in Feeders : s.heap[f] = heap[f]
      /\ HasData(s.m) /\ s.m.height \in Nat \ {0}
  <2>1. /\ Typed(X, S2, q) /\ HasData(s.m) /\ s.m.height \in Nat \ {0}
        /\ Keeps(Memory(X, S, q, hand), heap, Memory(X, S2, q, hand), s.heap, A)
    BY LikeS
  <2> QED
    BY <2>1 DEF Keeps
<1>2. /\ X' = [X EXCEPT ![n] = x.m] /\ S' = S2 /\ S2 = [S EXCEPT ![n] = s.m]
      /\ heap' = Delete(x.heap, m) /\ attached' = attached \cup {n}
      /\ w' = [W EXCEPT ![n] = IF added THEN W[n] + win ELSE W[n]]
      /\ dirty' = IF added /\ SameSize(x.m, s.m) THEN dirty \cup Overwritten(x.m) ELSE dirty
  BY DEF AddGradient, Attached, Sum
<1>3. /\ added => x = y
      /\ ~added => x.heap = s.heap /\ x.m = X[n]
  OBVIOUS
<1> HIDE DEF s, S2, added, x
<1>4. /\ Typed(X, S', q) /\ Sound(Memory(X, S', q, hand), s.heap, A)
      /\ Unowned(Memory(X, S', q, hand), s.heap) \subseteq Unowned(Memory(X, S, q, hand), heap)
      /\ \A f \in Feeders : s.heap[f] = heap[f]
      /\ HasData(s.m) /\ s.m.height \in Nat \ {0}
  BY <1>1, <1>2
<1>5. /\ Typed(X', S', q) /\ Sound(Memory(X', S', q, hand), x.heap, A)
      /\ Unowned(Memory(X', S', q, hand), x.heap) \subseteq Unowned(Memory(X, S', q, hand), s.heap)
      /\ \A f \in Feeders : x.heap[f] = s.heap[f]
  <2>1. CASE added
    <3> DEFINE X2 == [X EXCEPT ![n] = y.m]
    <3>1. x = y /\ X' = X2
      BY <1>2, <1>3, <2>1
    <3>2. /\ Typed(X2, S', q) /\ Sound(Memory(X2, S', q, hand), y.heap, A)
          /\ Unowned(Memory(X2, S', q, hand), y.heap) \subseteq Unowned(Memory(X, S', q, hand), s.heap)
          /\ \A f \in Feeders : y.heap[f] = s.heap[f]
      <4>1. k \in Nat \ {0}
        BY <1>4
      <4> HIDE DEF k
      <4>2. /\ Typed(X2, S', q)
            /\ Keeps(Memory(X, S', q, hand), s.heap, Memory(X2, S', q, hand), y.heap, A)
        BY <1>0, <1>4, <4>1, LikeX
      <4> QED
        BY <4>2 DEF Keeps
    <3> QED
      BY <3>1, <3>2
  <2>2. CASE ~added
    <3>1. X' = X
      BY <1>2, <1>3, <1>4, <2>2 DEF Typed
    <3> QED
      BY <1>3, <1>4, <2>2, <3>1
  <2> QED
    BY <2>1, <2>2
<1> HIDE DEF y
<1>d. heap' = Delete(x.heap, m) /\ Sound(Memory(X', S', q, hand), x.heap, A)
  BY <1>2, <1>5
<1>6. /\ Sound(Memory(X', S', q, NoMatrix), heap', A)
      /\ Unowned(Memory(X', S', q, NoMatrix), heap') \subseteq Unowned(Memory(X', S', q, hand), x.heap)
      /\ \A f \in Feeders : heap'[f] = x.heap[f]
  <2> DEFINE g == Delete(x.heap, m)
             M == Memory(X', S', q, NoMatrix)
  <2>1. /\ Sound(M, g, A)
        /\ Unowned(M, g) \subseteq Unowned(Memory(X', S', q, hand), x.heap)
        /\ \A f \in Feeders : g[f] = x.heap[f]
    <3>1. Keeps(Memory(X', S', q, hand), x.heap, M, g, A)
      BY <1>d, HandFreed
    <3> QED
      BY <3>1 DEF Keeps
  <2> HIDE DEF M
  <2> QED
    BY <1>d, <2>1 DEF M
<1>7. Summing'
  <2>1. \A j \in Workers : S'[j] = IF j = n THEN s.m ELSE S[j]
    BY <1>2 DEF Typed
  <2> QED
    BY <1>2, <1>4, <2>1 DEF Summing
<1>8. Weighing'
  BY <1>2 DEF Weighing
<1>9. \A f \in Feeders : heap'[f] = heap[f]
  BY <1>4, <1>5, <1>6
<1>10. \A r \in Overwritten(x.m) : Sent(r, heap', A)
  <2> DEFINE M == Memory(X', S', q, NoMatrix)
  <2>1. At(n) \in DOMAIN M /\ M[At(n)] = X'[n]
    BY <1>0, MemoryAt
  <2>2. X'[n] = x.m
    BY <1>0, <1>2 DEF Typed
  <2>3. \A f \in Feeders : At(n) # At(f)
    BY <1>0, Names
  <2>4. Sound(M, heap', A)
    BY <1>6
  <2> HIDE DEF M
  <2>5. \A r \in Overwritten(M[At(n)]) : Sent(r, heap', A)
    BY <2>1, <2>3, <2>4, OverwrittenSent
  <2> QED
    BY <2>1, <2>2, <2>5
<1>11. \A r \in dirty' : Sent(r, heap', A)
  <2>1. \A r \in dirty : Sent(r, heap', A)
    BY <1>9, SentSame
  <2> QED
    BY <1>2, <1>10, <2>1
<1> QED
  BY <1>4, <1>5, <1>6, <1>7, <1>8, <1>9, <1>11

(* The buffer that a worker may lose when a training set comes.            *)
Replaced(n, channel) == {b \in {X[n].buf} : n \in Workers /\ channel = "TRAINING_DATA"}

LEMMA Received ==
    ASSUME NEW q, NEW m, NEW hand, NEW channel, NEW A, NEW W \in [Workers -> Nat], NEW win \in Nat,
           Typed(X, S, q), Sound(Memory(X, S, q, hand), heap, A), Summing, Weighing,
           NEW n \in Nodes, HasData(m), m.height \in Nat \ {0},
           hand = m \/ (hand = NoMatrix /\ ~m.own /\ channel # "TRAINING_DATA"),
           \A r \in dirty : Sent(r, heap, A),
           Receive(n, channel, m, win, heap, W)
    PROVE  /\ Typed(X', S', q) /\ Sound(Memory(X', S', q, NoMatrix), heap', A)
           /\ Unowned(Memory(X', S', q, NoMatrix), heap')
              \subseteq Unowned(Memory(X, S, q, hand), heap)
                        \cup Replaced(n, channel)
           /\ Summing' /\ Weighing' /\ \A f \in Feeders : heap'[f] = heap[f]
           /\ \A r \in dirty' : Sent(r, heap', A)
<1>1. CASE n \in Keepers
  <2>1. n \notin Workers /\ w' = W /\ Keep(n, channel, m, heap) /\ UNCHANGED <<S, attached, dirty>>
    BY <1>1, ConstantsAssumption DEF Receive, Keep
  <2>2. CASE channel = "TRAINING_DATA" /\ ~HasData(X[n])
    <3> DEFINE X2 == [X EXCEPT ![n] = m]
               M2 == Memory(X2, S, q, NoMatrix)
               M == Memory(X, S, q, m)
               L == {b \in {X[n].buf} : X[n].own}
    <3>1. X' = X2 /\ heap' = heap
      BY <2>1, <2>2 DEF Keep, Taken, Released
    <3>2. hand = m /\ m \in SomeMatrix
      BY <2>2, HandRows
    <3>3. Sound(M, heap, A)
      BY <3>2
    <3>4. Typed(X2, S, q)
      BY <3>2 DEF Typed
    <3>5. X[n] = NoMatrix
      <4>1. At(n) \in DOMAIN M /\ M[At(n)] = X[n]
        BY MemoryAt
      <4> HIDE DEF M
      <4> QED
        BY <2>2, <3>3, <4>1, Inside
    <3>6. L = {}
      BY <3>5 DEF NoMatrix
    <3>7. Sound(M2, heap, A) /\ Unowned(M2, heap) \subseteq Unowned(M, heap) \cup L
      BY <3>3, IntoX
    <3>8. Summing' /\ Weighing'
      BY <2>1 DEF Summing, Weighing
    <3>9. Typed(X', S', q) /\ Memory(X', S', q, NoMatrix) = M2 /\ Memory(X, S, q, hand) = M
      BY <2>1, <3>1, <3>2, <3>4
    <3> HIDE DEF M, M2, L, X2
    <3> QED
      BY <2>1, <3>1, <3>6, <3>7, <3>8, <3>9
  <2>3. CASE ~(channel = "TRAINING_DATA" /\ ~HasData(X[n]))
    <3>1. X' = X /\ S' = S /\ heap' = Delete(heap, m)
      BY <2>1, <2>3 DEF Keep
    <3>2. hand = m \/ (hand = NoMatrix /\ ~m.own)
      OBVIOUS
    <3>3. Keeps(Memory(X, S, q, hand), heap, Memory(X, S, q, NoMatrix), Delete(heap, m), A)
      BY <3>2, HandFreed
    <3>4. Keeps(Memory(X, S, q, hand), heap, Memory(X', S', q, NoMatrix), heap', A) /\ Typed(X', S', q)
      BY <3>1, <3>3
    <3>5. Summing' /\ Weighing'
      BY <2>1 DEF Summing, Weighing
    <3>6. \A r \in dirty' : Sent(r, heap', A)
      BY <2>1, <3>4, SentSame DEF Keeps
    <3> QED
      BY <3>4, <3>5, <3>6 DEF Keeps
  <2> QED
    BY <2>2, <2>3
<1>2. CASE n \in Workers /\ channel = "TRAINING_DATA"
  <2>1. TakeRows(n, m, heap) /\ hand = m
    BY <1>2, ConstantsAssumption DEF Receive, Taken, Released
  <2>2. Sound(Memory(X, S, q, m), heap, A)
    BY <2>1
  <2>3. /\ Typed(X', S', q) /\ Sound(Memory(X', S', q, NoMatrix), heap', A)
        /\ Unowned(Memory(X', S', q, NoMatrix), heap')
           \subseteq Unowned(Memory(X, S, q, m), heap) \cup {X[n].buf}
        /\ Summing' /\ Weighing' /\ \A f \in Feeders : heap'[f] = heap[f]
    BY <1>2, <2>1, <2>2, RowsTaken
  <2>4. dirty' = dirty
    BY <2>1 DEF TakeRows
  <2>5. \A r \in dirty' : Sent(r, heap', A)
    BY <2>3, <2>4, SentSame
  <2> QED
    BY <1>2, <2>1, <2>3, <2>5 DEF Replaced
<1>3. CASE n \in Workers /\ channel # "TRAINING_DATA"
  <2>1. AddGradient(n, m, win, heap, W)
    BY <1>3, ConstantsAssumption DEF Receive, Taken, Released
  <2>2. hand = m \/ (hand = NoMatrix /\ ~m.own)
    OBVIOUS
  <2>3. /\ Typed(X', S', q) /\ Sound(Memory(X', S', q, NoMatrix), heap', A)
        /\ Unowned(Memory(X', S', q, NoMatrix), heap') \subseteq Unowned(Memory(X, S, q, hand), heap)
        /\ Summing' /\ Weighing' /\ \A f \in Feeders : heap'[f] = heap[f]
        /\ \A r \in dirty' : Sent(r, heap', A)
    BY <1>3, <2>1, <2>2, GradientAdded
  <2> QED
    BY <2>3
<1> QED
  BY <1>1, <1>2, <1>3 DEF Nodes

-----------------------------------------------------------------------------
(* The inductive invariant.  A buffer without an owner was the X of a      *)
(* worker when a training set came.                                        *)
Loaded == \A n \in Nodes : \A i \in DOMAIN queue[n] : HasData(queue[n][i].mat)
Held == Memory(X, S, queue, NoMatrix)

Good(A) ==
    /\ Typed(X, S, queue) /\ Summing /\ Weighing /\ Loaded
    /\ Sound(Held, heap, A)
    /\ fed \in Nat /\ Cardinality(Unowned(Held, heap)) <= fed
    /\ \A r \in dirty : Sent(r, heap, A)

IInv == Good(ack) /\ pass \in Acks

LEMMA Few ==
    ASSUME NEW U, IsFiniteSet(U), NEW k \in Nat, Cardinality(U) <= k, NEW V
    PROVE  /\ V \subseteq U => Cardinality(V) <= k
           /\ \A b : V \subseteq U \cup {b} => Cardinality(V) <= k + 1
<1>1. Cardinality(U) \in Nat
  BY FS_CardinalityType
<1>2. ASSUME V \subseteq U PROVE Cardinality(V) <= k
  <2>1. Cardinality(V) <= Cardinality(U) /\ IsFiniteSet(V)
    BY <1>2, FS_Subset
  <2>2. Cardinality(V) \in Nat
    BY <2>1, FS_CardinalityType
  <2> QED
    BY <1>1, <2>1, <2>2
<1>3. ASSUME NEW b, V \subseteq U \cup {b} PROVE Cardinality(V) <= k + 1
  <2> DEFINE D == U \cup {b}
  <2>1. IsFiniteSet(D) /\ (Cardinality(D) = Cardinality(U) \/ Cardinality(D) = Cardinality(U) + 1)
    BY FS_AddElement
  <2> HIDE DEF D
  <2>2. Cardinality(V) <= Cardinality(D) /\ IsFiniteSet(V)
    BY <1>3, <2>1, FS_Subset DEF D
  <2>3. Cardinality(V) \in Nat /\ Cardinality(D) \in Nat
    BY <2>1, <2>2, FS_CardinalityType
  <2> QED
    BY <1>1, <2>1, <2>2, <2>3
<1> QED
  BY <1>2, <1>3

LEMMA FiniteUnowned ==
    ASSUME NEW M, NEW h, IsHeap(h)
    PROVE  IsFiniteSet(Unowned(M, h))
<1>1. Unowned(M, h) \subseteq DOMAIN h
  BY DEF Unowned
<1> QED
  BY <1>1, FS_Subset DEF IsHeap

LEMMA HeldAt ==
    /\ \A n \in Feeders \cup Nodes : At(n) \in DOMAIN Held /\ Held[At(n)] = X[n]
    /\ \A n \in Workers : AtS(n) \in DOMAIN Held /\ Held[AtS(n)] = S[n]
    /\ \A n \in Nodes : \A i \in DOMAIN queue[n] :
           AtQueue(n, i) \in DOMAIN Held /\ Held[AtQueue(n, i)] = queue[n][i].mat
    /\ Hand \in DOMAIN Held /\ Held[Hand] = NoMatrix
    /\ \A p \in DOMAIN Held :
           \/ \E n \in Feeders \cup Nodes : p = At(n)
           \/ \E n \in Workers : p = AtS(n)
           \/ \E n \in Nodes : \E i \in DOMAIN queue[n] : p = AtQueue(n, i)
           \/ p = Hand
BY MemoryAt DEF Held

LEMMA Started == Init => IInv
<1> SUFFICES ASSUME Init PROVE IInv
  OBVIOUS
<1> USE DEF Init
<1>0. /\ \A f \in Feeders : f \in Nat \ {0} /\ heap[f] \in Nat \ {0} /\ f \notin Nodes
      /\ DOMAIN heap = Feeders /\ dirty = {} /\ fed = 0
  BY FeederNumbers, ConstantsAssumption
<1>1. IsHeap(heap)
  BY <1>0, ConstantsAssumption DEF IsHeap
<1>2. NoMatrix \in SomeMatrix /\ ~HasData(NoMatrix) /\ ~NoMatrix.own
  BY DEF NoMatrix, SomeMatrix, HasData
<1>3. /\ \A f \in Feeders : X[f] = Root(f, heap[f]) /\ X[f] \in SomeMatrix
      /\ \A n \in Nodes : X[n] = NoMatrix
  <2>1. \A b, k \in Nat : Root(b, k) \in SomeMatrix
    BY DEF Root, SomeMatrix
  <2>2. \A f \in Feeders : X[f] = Root(f, heap[f])
    BY DEF Root
  <2>3. \A n \in Nodes : X[n] = NoMatrix
    BY <1>0
  <2>4. \A f \in Feeders : Root(f, heap[f]) \in SomeMatrix
    BY <1>0, <2>1
  <2> QED
    BY <2>2, <2>3, <2>4
<1>4. X \in [Feeders \cup Nodes -> SomeMatrix]
  BY <1>2, <1>3
<1>5. Typed(X, S, queue)
  <2>1. <<>> \in Seq(Messages)
    BY EmptySeq
  <2> QED
    BY <1>2, <1>4, <2>1 DEF Typed
<1>6. Summing /\ Weighing /\ Loaded
  BY <1>2 DEF Summing, Weighing, Loaded
<1>7. pass \in Acks /\ ack \in Acks /\ fed \in Nat
  BY DEF Acks
<1>8. /\ \A n \in Nodes : DOMAIN queue[n] = {}
      /\ \A n \in Workers : S[n] = NoMatrix
  OBVIOUS
<1> HIDE DEF Init
<1>9. \A p \in DOMAIN Held : Held[p] = NoMatrix \/ \E f \in Feeders : p = At(f) /\ Held[p] = Root(f, heap[f])
  <2> SUFFICES ASSUME NEW p \in DOMAIN Held
               PROVE  Held[p] = NoMatrix \/ \E f \in Feeders : p = At(f) /\ Held[p] = Root(f, heap[f])
    OBVIOUS
  <2>1. CASE \E n \in Feeders \cup Nodes : p = At(n)
    <3>1. PICK n \in Feeders \cup Nodes : p = At(n)
      BY <2>1
    <3>2. Held[p] = X[n]
      BY <3>1, HeldAt
    <3> QED
      BY <1>3, <3>1, <3>2
  <2>2. CASE \E n \in Workers : p = AtS(n)
    BY <1>8, <2>2, HeldAt
  <2>3. CASE p = Hand
    BY <2>3, HeldAt
  <2> QED
    BY <1>8, <2>1, <2>2, <2>3, HeldAt
<1>10. Rooted(Held, heap)
  <2>1. \A f \in Feeders : At(f) \in DOMAIN Held /\ Held[At(f)] = X[f]
    BY HeldAt
  <2>2. \A f \in Feeders : f \in DOMAIN heap
    BY <1>0
  <2> QED
    BY <1>3, <2>1, <2>2 DEF Rooted
<1>11. Proper(Held, heap, ack)
  <2>1. \A f \in Feeders : Whole(heap, Root(f, heap[f]))
    BY <1>0 DEF Whole, Root
  <2> QED
    BY <1>9, <2>1 DEF Proper
<1>12. Single(Held)
  <2>1. \A f, k : Root(f, k).buf = f
    BY DEF Root
  <2> QED
    BY <1>2, <1>9, <2>1 DEF Single
<1>13. Unowned(Held, heap) = {}
  <2>1. \A f, k : Root(f, k).buf = f /\ Root(f, k).own
    BY DEF Root
  <2> QED
    BY <1>0, <1>10, <2>1 DEF Unowned, Rooted
<1>14. Cardinality(Unowned(Held, heap)) <= fed
  BY <1>0, <1>13, FS_EmptySet
<1> QED
  BY <1>0, <1>1, <1>5, <1>6, <1>7, <1>10, <1>11, <1>12, <1>14 DEF IInv, Good, Sound

LEMMA PassStarted ==
    ASSUME IInv, NEW f \in Feeders, StartPass(f)
    PROVE  IInv'
<1>1. UNCHANGED <<heap, X, S, w, attached, queue, ack, dirty, fed>>
  BY DEF StartPass
<1>2. pass' \in Acks
  BY DEF IInv, StartPass, Acks
<1> QED
  BY <1>1, <1>2 DEF IInv, Good, Typed, Summing, Weighing, Loaded, Held

(* A part about to be tried, with the acknowledgements that follow.        *)
LEMMA Trying ==
    ASSUME IInv, NEW f \in Feeders, NEW i \in pass[f], NEW B, B = [ack EXCEPT ![f] = @ \cup {i}]
    PROVE  /\ Good(B)
           /\ [pass EXCEPT ![f] = @ \ {i}] \in Acks
           /\ Targets[i] \in Nodes
           /\ LET p == Part(X[f], i - 1, N)
              IN  HasData(p) => Shared(heap, B, p) /\ p \in SomeMatrix /\ p.height \in Nat \ {0}
<1>1. i \in 1 .. N /\ ack \in Acks
  BY DEF IInv, Good, Acks, Sound
<1>2. B \in Acks /\ \A g \in Feeders : ack[g] \subseteq B[g]
  BY <1>1 DEF Acks
<1>3. [pass EXCEPT ![f] = @ \ {i}] \in Acks
  BY DEF IInv, Acks
<1>4. Sound(Held, heap, B)
  BY <1>2, MoreSent DEF IInv, Good
<1>5. \A r \in dirty : Sent(r, heap, B)
  BY <1>2 DEF IInv, Good, Sent
<1>6. Targets[i] \in Nodes
  BY <1>1, ConstantsAssumption, ElementOfSeq DEF N
<1>7. X[f] = Root(f, heap[f])
  <2>1. Held[At(f)] = X[f]
    BY MemoryAt DEF Held
  <2> QED
    BY <1>4, <2>1 DEF Sound, Rooted
<1> DEFINE p == Part(X[f], i - 1, N)
<1>8. ASSUME HasData(p) PROVE Shared(heap, B, p) /\ p \in SomeMatrix /\ p.height \in Nat \ {0}
  <2>1. i \in B[f]
    BY <1>1 DEF Acks
  <2>2. Shared(heap, B, p)
    BY <1>7, <1>8, <2>1 DEF Shared
  <2> HIDE DEF p
  <2>3. p \in SomeMatrix /\ p.height > 0
    BY <1>4, <2>2, SharedInside
  <2> QED
    BY <2>2, <2>3 DEF SomeMatrix
<1>9. Good(B)
  BY <1>4, <1>5 DEF IInv, Good
<1> QED
  BY <1>3, <1>6, <1>8, <1>9

(* A message is received in a step that does nothing else to matrices.     *)
LEMMA GoodReceived ==
    ASSUME NEW q, NEW m, NEW hand, NEW channel, NEW A, NEW W \in [Workers -> Nat], NEW win \in Nat,
           Good(A), Typed(X, S, q), Sound(Memory(X, S, q, hand), heap, A),
           Unowned(Memory(X, S, q, hand), heap) \subseteq Unowned(Held, heap),
           NEW n \in Nodes, HasData(m), m.height \in Nat \ {0},
           hand = m \/ (hand = NoMatrix /\ ~m.own /\ channel # "TRAINING_DATA"),
           Receive(n, channel, m, win, heap, W), queue' = q, Loaded',
           fed' = IF n \in Workers /\ channel = "TRAINING_DATA" THEN fed + 1 ELSE fed
    PROVE  Good(A)'
<1> DEFINE L == Replaced(n, channel)
           U == Unowned(Held, heap)
           M2 == Memory(X', S', q, NoMatrix)
<1>1. Summing /\ Weighing /\ \A r \in dirty : Sent(r, heap, A)
  BY DEF Good
<1>2. Typed(X', S', q) /\ Sound(M2, heap', A)
  BY <1>1, Received
<1>3. Summing' /\ Weighing' /\ \A r \in dirty' : Sent(r, heap', A)
  <2>1. \A r \in dirty' : Sent(r, heap', A)
    BY <1>1, Received
  <2>2. Summing'
    BY <1>1, Received
  <2>3. Weighing'
    BY <1>1, Received
  <2> QED
    BY <2>1, <2>2, <2>3
<1>4. Held' = M2
  BY DEF Held
<1>5. IsFiniteSet(U) /\ Cardinality(U) <= fed /\ fed \in Nat
  BY FiniteUnowned DEF Good, Sound
<1>6. Unowned(M2, heap') \subseteq U \cup L
  <2>1. Unowned(M2, heap') \subseteq Unowned(Memory(X, S, q, hand), heap) \cup L
    BY <1>1, Received
  <2> QED
    BY <2>1
<1> HIDE DEF M2, U
<1>7. Cardinality(Unowned(M2, heap')) <= fed' /\ fed' \in Nat
  <2>1. CASE n \in Workers /\ channel = "TRAINING_DATA"
    <3>1. Unowned(M2, heap') \subseteq U \cup {X[n].buf}
      BY <1>6 DEF Replaced
    <3> QED
      BY <1>5, <2>1, <3>1, Few
  <2>2. CASE ~(n \in Workers /\ channel = "TRAINING_DATA")
    <3>1. L = {}
      BY <2>2 DEF Replaced
    <3>2. Unowned(M2, heap') \subseteq U
      BY <1>6, <3>1
    <3> QED
      BY <1>5, <2>2, <3>2, Few
  <2> QED
    BY <2>1, <2>2
<1>8. /\ Typed(X', S', queue') /\ Sound(Held', heap', A)
      /\ fed' \in Nat /\ Cardinality(Unowned(Held', heap')) <= fed'
  BY <1>2, <1>4, <1>7
<1> QED
  BY <1>2, <1>3, <1>8 DEF Good

(* A message is copied for another thread in a step that does nothing else *)
(* to matrices.                                                            *)
LEMMA GoodPosted ==
    ASSUME NEW A, Good(A), NEW n \in Nodes, NEW channel \in {"TRAINING_DATA", "GRADIENT"},
           NEW m, m.height \in Nat \ {0}, NEW win \in Nat, Post(n, channel, m, win),
           UNCHANGED <<X, S, attached, dirty, fed>>, Weighing'
    PROVE  Good(A)'
<1> DEFINE k == m.height
           c == New(heap, k).m
           g == New(heap, k).heap
           e == NewMessage(channel, c, win)
           M1 == Memory(X, S, queue, c)
           M2 == Memory(X, S, queue', NoMatrix)
<1>1. queue' = [queue EXCEPT ![n] = Append(queue[n], e)] /\ heap' = g
  BY DEF Post, CopyOf
<1>2. IsHeap(heap) /\ k \in Nat \ {0}
  BY DEF Good, Sound
<1>3. c = [buf |-> Fresh(heap), off |-> 0, height |-> k, own |-> TRUE] /\ Fresh(heap) \in Nat \ {0}
  <2> HIDE DEF k
  <2> QED
    BY <1>2, NewBuffer, NewName
<1>4. c \in SomeMatrix /\ HasData(c)
  BY <1>2, <1>3 DEF SomeMatrix, HasData
<1> HIDE DEF c
<1>5. e \in Messages /\ e.mat = c
  BY <1>4 DEF NewMessage, Messages
<1> HIDE DEF e
<1>6. Held = Memory(X, S, queue, NoMatrix) /\ Held' = M2
  BY DEF Held
<1>7. Sound(M1, g, A) /\ Unowned(M1, g) \subseteq Unowned(Held, heap)
  <2>1. Updated(Held, M1, Hand, c)
    BY <1>6, SetHand
  <2>2. Held[Hand] = NoMatrix
    BY HeldAt
  <2>3. Sound(Held, heap, A)
    BY DEF Good
  <2> HIDE DEF M1, k, g
  <2> QED
    BY <1>2, <2>1, <2>2, <2>3, Allocated DEF c, g
<1>8. \A f \in Feeders : g[f] = heap[f]
  <2>1. Sound(Held, heap, A)
    BY DEF Good
  <2> HIDE DEF k
  <2> QED
    BY <1>2, <2>1, FeedersKept
<1> HIDE DEF k, g
<1>9. Typed(X, S, queue)
  BY DEF Good
<1>10. Typed(X, S, queue') /\ Sound(M2, g, A) /\ Unowned(M2, g) \subseteq Unowned(M1, g)
  <2>1. Grown(queue, queue', n, e)
    BY <1>1 DEF Grown
  <2> QED
    BY <1>5, <1>7, <1>9, <2>1, LastAdded
<1>11. Loaded'
  <2>1. queue[n] \in Seq(Messages) /\ queue'[n] = Append(queue[n], e)
        /\ \A x \in Nodes : x # n => queue'[x] = queue[x]
    BY <1>1, <1>9 DEF Typed
  <2>2. \A i \in DOMAIN queue'[n] : queue'[n][i] = e \/ (i \in DOMAIN queue[n] /\ queue'[n][i] = queue[n][i])
    BY <1>5, <2>1, AppendProperties, LenProperties
  <2> QED
    BY <1>4, <1>5, <2>1, <2>2 DEF Good, Loaded
<1>12. Summing'
  BY DEF Good, Summing
<1>13. Cardinality(Unowned(M2, g)) <= fed
  <2>1. IsFiniteSet(Unowned(Held, heap))
    BY <1>2, FiniteUnowned
  <2>2. Unowned(M2, g) \subseteq Unowned(Held, heap)
    BY <1>7, <1>10
  <2> QED
    BY <2>1, <2>2, Few DEF Good
<1>14. \A r \in dirty : Sent(r, g, A)
  BY <1>8, SentSame DEF Good
<1>15. /\ Typed(X', S', queue') /\ Sound(Held', heap', A)
       /\ fed' \in Nat /\ Cardinality(Unowned(Held', heap')) <= fed'
       /\ \A r \in dirty' : Sent(r, heap', A)
  BY <1>1, <1>6, <1>10, <1>13, <1>14 DEF Good
<1> QED
  BY <1>11, <1>12, <1>15 DEF Good

LEMMA PartTried ==
    ASSUME IInv, NEW f \in Feeders, NEW i \in 1 .. N, TryPart(f, i)
    PROVE  IInv'
<1> DEFINE n == Targets[i]
           p == Part(X[f], i - 1, N)
<1>1. PICK B : B = [ack EXCEPT ![f] = @ \cup {i}]
  OBVIOUS
<1>2. i \in pass[f] /\ pass' = [pass EXCEPT ![f] = @ \ {i}]
  BY DEF TryPart
<1>3. /\ Good(B) /\ pass' \in Acks /\ n \in Nodes
      /\ HasData(p) => Shared(heap, B, p) /\ p \in SomeMatrix /\ p.height \in Nat \ {0}
  BY <1>1, <1>2, Trying
<1>4. Acked(f, i) => ack' = B
  BY <1>1 DEF Acked
<1> HIDE DEF n, p
<1>5. CASE ~HasData(p) /\ Acked(f, i) /\ UNCHANGED <<heap, X, S, w, attached, queue, dirty, fed>>
  <2>1. Sound(Held', heap, B) /\ Held' = Held
    BY <1>3, <1>5 DEF Held, Good
  <2>2. Good(ack)'
    BY <1>3, <1>4, <1>5, <2>1 DEF Good, Typed, Summing, Weighing, Loaded
  <2> QED
    BY <1>3, <2>2 DEF IInv
<1>6. CASE /\ HasData(p) /\ SameThread(f, n) /\ Acked(f, i) /\ Given(n)
           /\ Receive(n, "TRAINING_DATA", p, 0, heap, w) /\ UNCHANGED queue
  <2> DEFINE M == Memory(X, S, queue, p)
  <2>1. Sound(M, heap, B) /\ Unowned(M, heap) \subseteq Unowned(Held, heap)
    <3>1. Updated(Held, M, Hand, p)
      BY SetHand DEF Held
    <3>2. Held[Hand] = NoMatrix /\ Sound(Held, heap, B)
      BY <1>3, HeldAt DEF Good
    <3> HIDE DEF M
    <3> QED
      BY <1>3, <1>6, <3>1, <3>2, Lent
  <2>2. queue' = queue /\ Loaded' /\ Typed(X, S, queue) /\ w \in [Workers -> Nat]
    BY <1>3, <1>6 DEF Good, Loaded, Weighing
  <2>3. fed' = IF n \in Workers /\ "TRAINING_DATA" = "TRAINING_DATA" THEN fed + 1 ELSE fed
    BY <1>6 DEF Given
  <2>4. Good(B)'
    BY <1>3, <1>6, <2>1, <2>2, <2>3, GoodReceived
  <2>5. Good(ack)'
    BY <1>4, <1>6, <2>4 DEF Good
  <2> QED
    BY <1>3, <2>5 DEF IInv
<1>7. CASE /\ HasData(p) /\ ~SameThread(f, n) /\ Acked(f, i) /\ Post(n, "TRAINING_DATA", p, 0)
           /\ UNCHANGED <<X, S, w, attached, dirty, fed>>
  <2>1. Weighing'
    BY <1>3, <1>7 DEF Good, Weighing
  <2>2. Good(B)'
    BY <1>3, <1>7, <2>1, GoodPosted
  <2>3. Good(ack)'
    BY <1>4, <1>7, <2>2 DEF Good
  <2> QED
    BY <1>3, <2>3 DEF IInv
<1>8. CASE UNCHANGED <<heap, X, S, w, attached, queue, ack, dirty, fed>>
  <2>1. Good(ack)'
    BY <1>8 DEF IInv, Good, Typed, Summing, Weighing, Loaded, Held
  <2> QED
    BY <1>3, <2>1 DEF IInv
<1> QED
  BY <1>5, <1>6, <1>7, <1>8 DEF TryPart, n, p

LEMMA Averaged ==
    ASSUME IInv, NEW n \in Workers, Average(n)
    PROVE  IInv'
<1> DEFINE half == w[n] \div 2
           W == [w EXCEPT ![n] = half]
           message == NotOwned(S[n])
<1>1. /\ n \in attached /\ w[n] \in Nat /\ UNCHANGED <<ack, pass, fed>>
  BY DEF Average, feeding, IInv, Good, Weighing
<1>2. half \in Nat /\ W \in [Workers -> Nat]
  BY <1>1 DEF IInv, Good, Weighing
<1>3. PICK A : A = ack
  OBVIOUS
<1>4. Good(A) /\ ack' = A /\ pass' \in Acks
  BY <1>1, <1>3 DEF IInv, Good
<1>5. HasData(message) /\ message.height \in Nat \ {0} /\ ~message.own
  <2>1. S[n] \in SomeMatrix /\ HasData(S[n])
    BY <1>1, <1>4 DEF Good, Summing, Typed
  <2>2. S[n].height > 0
    BY <1>4, <2>1, HeldAt, Inside DEF Good
  <2> QED
    BY <2>1, <2>2 DEF NotOwned, HasData, SomeMatrix
<1>6. PICK x \in Outs[n] :
        \/ /\ SameThread(n, x) /\ Receive(x, "GRADIENT", message, half, heap, W) /\ UNCHANGED queue
        \/ /\ ~SameThread(n, x) /\ Post(x, "GRADIENT", message, half)
           /\ w' = W /\ UNCHANGED <<X, S, attached, dirty>>
        \/ /\ <<n, x>> \in Flaky /\ w' = [w EXCEPT ![n] = Double(half)]
           /\ UNCHANGED <<heap, X, S, attached, queue, dirty>>
  BY DEF Average
<1>7. x \in Nodes
  BY <1>6, ConstantsAssumption DEF Nodes
<1> HIDE DEF half, W, message
<1>8. CASE SameThread(n, x) /\ Receive(x, "GRADIENT", message, half, heap, W) /\ UNCHANGED queue
  <2>1. /\ queue' = queue /\ Loaded' /\ Typed(X, S, queue)
        /\ Sound(Memory(X, S, queue, NoMatrix), heap, A)
        /\ Unowned(Memory(X, S, queue, NoMatrix), heap) \subseteq Unowned(Held, heap)
    BY <1>4, <1>8 DEF Good, Loaded, Held
  <2>2. "GRADIENT" # "TRAINING_DATA"
    OBVIOUS
  <2>3. fed' = IF x \in Workers /\ "GRADIENT" = "TRAINING_DATA" THEN fed + 1 ELSE fed
    BY <1>1
  <2>4. Good(A)'
    BY <1>2, <1>4, <1>5, <1>7, <1>8, <2>1, <2>2, <2>3, GoodReceived
  <2> QED
    BY <1>4, <2>4 DEF IInv, Good
<1>9. CASE /\ Post(x, "GRADIENT", message, half)
           /\ w' = W /\ UNCHANGED <<X, S, attached, dirty>>
  <2>1. Weighing' /\ UNCHANGED <<X, S, attached, dirty, fed>>
    BY <1>1, <1>2, <1>9 DEF Weighing
  <2>2. Good(A)'
    BY <1>2, <1>4, <1>5, <1>7, <1>9, <2>1, GoodPosted
  <2> QED
    BY <1>4, <2>2 DEF IInv, Good
<1>10. CASE w' = [w EXCEPT ![n] = Double(half)] /\ UNCHANGED <<heap, X, S, attached, queue, dirty>>
  <2>1. Weighing'
    BY <1>2, <1>4, <1>10 DEF Weighing, Good, Double
  <2>2. Good(ack)'
    BY <1>1, <1>10, <2>1 DEF IInv, Good, Typed, Summing, Loaded, Held
  <2> QED
    BY <1>4, <2>2 DEF IInv
<1> QED
  BY <1>6, <1>8, <1>9, <1>10

LEMMA Delivered ==
    ASSUME IInv, NEW n \in Nodes, Deliver(n)
    PROVE  IInv'
<1> DEFINE m == Head(queue[n])
           q == [queue EXCEPT ![n] = Tail(queue[n])]
           M == Memory(X, S, q, m.mat)
<1>1. PICK A : A = ack
  OBVIOUS
<1>2. Good(A) /\ ack' = A /\ pass' \in Acks /\ Typed(X, S, queue)
  BY <1>1 DEF IInv, Good, Deliver
<1>3. /\ queue[n] # <<>> /\ queue' = q /\ Receive(n, m.channel, m.mat, m.w, heap, w)
      /\ IF m.channel = "TRAINING_DATA" THEN Given(n) ELSE UNCHANGED fed
  BY DEF Deliver
<1>4. /\ Typed(X, S, q) /\ Sound(M, heap, A) /\ m \in Messages
      /\ Unowned(M, heap) \subseteq Unowned(Held, heap)
  <2>1. Sound(Memory(X, S, queue, NoMatrix), heap, A) /\ Held = Memory(X, S, queue, NoMatrix)
    BY <1>2 DEF Good, Held
  <2> QED
    BY <1>2, <1>3, <2>1, FirstTaken
<1>5. /\ queue[n] \in Seq(Messages) /\ queue'[n] = Tail(queue[n])
      /\ \A k \in Nodes : k # n => queue'[k] = queue[k]
  BY <1>2, <1>3 DEF Typed
<1> HIDE DEF q
<1>6. /\ Len(queue[n]) \in Nat \ {0} /\ DOMAIN queue[n] = 1 .. Len(queue[n]) /\ m = queue[n][1]
      /\ DOMAIN queue'[n] = 1 .. Len(queue[n]) - 1
      /\ \A i \in 1 .. Len(queue[n]) - 1 : queue'[n][i] = queue[n][i + 1]
  BY <1>3, <1>5, HeadTailProperties, LenProperties
<1>7. \A i \in 1 .. Len(queue[n]) - 1 : i + 1 \in 1 .. Len(queue[n])
  BY <1>6
<1>8. Loaded'
  <2>1. Loaded
    BY <1>2 DEF Good
  <2>2. ASSUME NEW k \in Nodes, NEW i \in DOMAIN queue'[k] PROVE HasData(queue'[k][i].mat)
    <3>1. CASE k = n
      <4>1. i \in 1 .. Len(queue[n]) - 1 /\ i + 1 \in DOMAIN queue[n]
        BY <1>6, <1>7, <2>2, <3>1
      <4>2. queue'[k][i] = queue[n][i + 1] /\ HasData(queue[n][i + 1].mat)
        BY <1>6, <2>1, <3>1, <4>1 DEF Loaded
      <4> QED
        BY <4>2
    <3>2. CASE k # n
      BY <1>5, <2>1, <2>2, <3>2 DEF Loaded
    <3> QED
      BY <3>1, <3>2
  <2> QED
    BY <2>2 DEF Loaded
<1>9. HasData(m.mat)
  <2>1. 1 \in DOMAIN queue[n]
    BY <1>6
  <2> QED
    BY <1>2, <1>6, <2>1 DEF Good, Loaded
<1> HIDE DEF m
<1>10. m.mat.height \in Nat \ {0} /\ m.w \in Nat
  BY <1>4, <1>9, HandRows DEF Messages
<1>11. fed' = IF n \in Workers /\ m.channel = "TRAINING_DATA" THEN fed + 1 ELSE fed
  BY <1>3 DEF Given
<1>12. w \in [Workers -> Nat]
  BY <1>2 DEF Good, Weighing
<1>13. Good(A)'
  BY <1>2, <1>3, <1>4, <1>8, <1>9, <1>10, <1>11, <1>12, GoodReceived
<1> QED
  BY <1>2, <1>13 DEF IInv, Good

LEMMA Kept == IInv /\ [Next]_vars => IInv'
<1> SUFFICES ASSUME IInv, [Next]_vars PROVE IInv'
  OBVIOUS
<1>1. CASE Next
  BY <1>1, PassStarted, PartTried, Averaged, Delivered DEF Next
<1>2. CASE UNCHANGED vars
  BY <1>2 DEF vars, IInv, Good, Typed, Summing, Weighing, Loaded, Held
<1> QED
  BY <1>1, <1>2

LEMMA Invariant == Spec => []IInv
BY Started, Kept, PTL DEF Spec

-----------------------------------------------------------------------------
(* Heights, weights and counters of messages, matrices and nodes are       *)
(* numbers; a node is attached just when it has a sum; what has been       *)
(* overwritten is rows of data nodes (NodeAvg, NodeData).                  *)
THEOREM TypeCorrect == Spec => []TypeOK
<1>1. IInv => TypeOK
  BY DEF IInv, Good, Typed, Summing, Weighing, Acks, Sound, Sent, TypeOK
<1> QED
  BY <1>1, Invariant, PTL

(* No buffer is freed twice or used after it is freed, none is lost but    *)
(* the rows a worker owned when it is given others (message_get_matrix,    *)
(* Message::~Message, Matrix).                                             *)
THEOREM MemoryIsSafe == Spec => []MemorySafe
<1> SUFFICES ASSUME IInv PROVE MemorySafe
  BY Invariant, PTL
<1>1. /\ Sound(Held, heap, ack) /\ Cardinality(Unowned(Held, heap)) <= fed
      /\ Held = Memory(X, S, queue, NoMatrix)
  BY DEF IInv, Good, Held
<1>2. DOMAIN Held = Places \cup {Hand} /\ \A p \in Places : Held[p] = MatrixAt(p)
  <2>1. Places = PlacesOf(queue)
    BY DEF Places, PlacesOf, InQueue
  <2>2. \A p \in Places : p[1] \in {"X", "S", "queue"}
    BY DEF Places
  <2> QED
    BY <1>1, <2>1, <2>2 DEF Memory, MatrixAt, QueuedAt
<1>3. ~Held[Hand].own
  BY HeldAt DEF NoMatrix
<1>4. OneOwner
  BY <1>1, <1>2 DEF Sound, Single, OneOwner, Owners
<1>5. ASSUME NEW p \in Places, HasData(MatrixAt(p)) PROVE InBounds(MatrixAt(p))
  BY <1>1, <1>2, <1>5, Inside DEF InBounds
<1>6. Lost = Unowned(Held, heap)
  BY <1>2, <1>3 DEF Lost, Owners, Unowned
<1> QED
  BY <1>1, <1>4, <1>5, <1>6 DEF MemorySafe

(* What update() of a worker writes through rows it shares with a data     *)
(* node has been sent (NodeData::process, NodeAvg::update).                *)
THEOREM PartsStayIntact == Spec => []PartsIntact
<1> SUFFICES ASSUME IInv, NEW f \in Feeders, NEW i \in (1 .. N) \ ack[f],
                    NEW r \in dirty, r \in Rows(Part(X[f], i - 1, N))
             PROVE  FALSE
  <2>1. IInv => PartsIntact
    BY DEF PartsIntact
  <2> QED
    BY <2>1, Invariant, PTL
<1>1. Sound(Held, heap, ack) /\ Sent(r, heap, ack)
  BY DEF IInv, Good
<1>2. X[f] = Root(f, heap[f]) /\ heap[f] \in Nat \ {0}
  BY <1>1, HeldAt DEF Sound, Rooted, IsHeap
<1> DEFINE k == heap[f]
           p == Part(Root(f, k), i - 1, N)
<1>3. /\ f \in Nat \ {0} /\ k \in Nat \ {0} /\ N \in Nat \ {0}
      /\ \A j \in 1 .. N : j - 1 \in 0 .. N - 1
      /\ i \in 1 .. N /\ r \in Rows(p)
  BY <1>2, FeederNumbers
<1> HIDE DEF k
<1>4. r[1] = f
  <2>1. \A j \in 0 .. N - 1 : LET m == Part(Root(f, k), j, N) IN
            (HasData(m) => m.buf = f) /\ (~HasData(m) => m = NoMatrix)
    BY <1>3, PartInside
  <2>2. (HasData(p) => p.buf = f) /\ (~HasData(p) => p = NoMatrix)
    BY <1>3, <2>1
  <2> HIDE DEF p
  <2>3. r[1] = p.buf /\ \E x \in p.off + 1 .. p.off + p.height : TRUE
    BY <1>3 DEF Rows
  <2>4. p # NoMatrix
    BY <2>3 DEF NoMatrix
  <2> QED
    BY <2>2, <2>3, <2>4
<1>5. PICK j \in ack[f] : r \in Rows(Part(Root(f, k), j - 1, N))
  BY <1>1, <1>4 DEF Sent, k
<1>6. j \in 1 .. N /\ i # j
  BY <1>1, <1>5 DEF Sound, Acks
<1>7. i - 1 # j - 1
  BY <1>3, <1>6
<1>8. Rows(p) \cap Rows(Part(Root(f, k), j - 1, N)) = {}
  BY <1>3, <1>6, <1>7, PartsApart
<1> QED
  BY <1>3, <1>5, <1>8

-----------------------------------------------------------------------------
(* Weights.  Sums and messages are as high as parts; only a gradient to a  *)
(* worker weighs.                                                          *)
PartSized(k) ==
    \E f \in Feeders : \E i \in 1 .. N :
        HasData(Part(X[f], i - 1, N)) /\ k = Part(X[f], i - 1, N).height

SumsSized == \A n \in Workers : HasData(S[n]) => PartSized(S[n].height)

FairMessage(n, m) ==
    PartSized(m.mat.height) /\ (m.channel = "TRAINING_DATA" \/ n \in Keepers => m.w = 0)

QueuesFair == \A n \in Nodes : \A i \in 1 .. Len(queue[n]) : FairMessage(n, queue[n][i])

OnTheWay(q) == SumFunction([n \in Nodes |-> Weight(q[n])])
Total == SumFunction(w) + OnTheWay(queue)

Weighs == Total <= Unit * fed /\ (EqualParts => Total = Unit * fed)

WInv == IInv /\ SumsSized /\ QueuesFair /\ Weighs

SameFeeders == \A f \in Feeders : X'[f] = X[f]

LEMMA SizesKept ==
    ASSUME SameFeeders
    PROVE  /\ \A k : PartSized(k)' <=> PartSized(k)
           /\ EqualParts' <=> EqualParts
<1>1. \A f \in Feeders : X'[f] = X[f]
  BY DEF SameFeeders
<1> QED
  BY <1>1 DEF PartSized, EqualParts

LEMMA EqualSizes ==
    ASSUME EqualParts, NEW j, NEW k, PartSized(j), PartSized(k)
    PROVE  j = k
BY DEF EqualParts, PartSized, SameSize

LEMMA NodesFinite ==
    IsFiniteSet(Nodes) /\ IsFiniteSet(Workers) /\ Workers \subseteq Nodes /\ Unit \in Nat
<1>1. IsFiniteSet(Nodes) /\ Workers \subseteq Nodes /\ Unit \in Nat
  BY ConstantsAssumption DEF Nodes
<1> QED
  BY <1>1, FS_Subset

LEMMA WeightsSummable ==
    ASSUME NEW u \in [Workers -> Nat]
    PROVE  Summable(u) /\ DOMAIN u = Workers /\ SumFunction(u) \in Int
<1>1. Summable(u)
  BY NodesFinite DEF Summable
<1> QED
  BY <1>1, SumType

(* What waits in a queue.                                                  *)
Loads(q) == [i \in DOMAIN q |-> q[i].w]

LEMMA LoadsSummable ==
    ASSUME NEW q \in Seq(Messages)
    PROVE  /\ Summable(Loads(q)) /\ DOMAIN Loads(q) = 1 .. Len(q) /\ Len(q) \in Nat
           /\ Weight(q) = SumFunction(Loads(q)) /\ Weight(q) \in Int
           /\ \A i \in 1 .. Len(q) : Loads(q)[i] = q[i].w
<1>1. DOMAIN q = 1 .. Len(q) /\ Len(q) \in Nat /\ \A i \in 1 .. Len(q) : q[i] \in Messages
  BY LenProperties, ElementOfSeq
<1>2. \A m \in Messages : m.w \in Int
  BY DEF Messages
<1>3. IsFiniteSet(1 .. Len(q))
  BY <1>1, FS_Interval
<1>4. Summable(Loads(q)) /\ DOMAIN Loads(q) = 1 .. Len(q)
  BY <1>1, <1>2, <1>3 DEF Summable, Loads
<1>5. Weight(q) = SumFunction(Loads(q))
  BY DEF Weight, Loads
<1> QED
  BY <1>1, <1>4, <1>5, SumType DEF Loads

LEMMA WeightAppend ==
    ASSUME NEW q \in Seq(Messages), NEW m \in Messages
    PROVE  Weight(Append(q, m)) = Weight(q) + m.w
<1> DEFINE p == Append(q, m)
<1>1. /\ p \in Seq(Messages) /\ Len(p) = Len(q) + 1 /\ p[Len(q) + 1] = m
      /\ \A i \in 1 .. Len(q) : p[i] = q[i]
  BY AppendProperties
<1> HIDE DEF p
<1>2. /\ Summable(Loads(q)) /\ DOMAIN Loads(q) = 1 .. Len(q) /\ Len(q) \in Nat
      /\ Weight(q) = SumFunction(Loads(q))
      /\ \A i \in 1 .. Len(q) : Loads(q)[i] = q[i].w
  BY LoadsSummable
<1>3. /\ Summable(Loads(p)) /\ DOMAIN Loads(p) = 1 .. Len(p)
      /\ Weight(p) = SumFunction(Loads(p))
      /\ \A i \in 1 .. Len(p) : Loads(p)[i] = p[i].w
  BY <1>1, LoadsSummable
<1>4. \A i \in 1 .. Len(q) : Loads(p)[i] = Loads(q)[i]
  BY <1>1, <1>2, <1>3
<1>5. Loads(p)[Len(q) + 1] = m.w
  BY <1>1, <1>2, <1>3
<1>6. SumFunction(Loads(p)) = SumFunction(Loads(q)) + Loads(p)[Len(q) + 1]
  BY <1>1, <1>2, <1>3, <1>4, SumAppend
<1> QED
  BY <1>2, <1>3, <1>5, <1>6 DEF p

LEMMA WeightTail ==
    ASSUME NEW q \in Seq(Messages), q # <<>>
    PROVE  Weight(q) = Head(q).w + Weight(Tail(q))
<1> DEFINE p == Tail(q)
<1>1. /\ p \in Seq(Messages) /\ Len(p) = Len(q) - 1 /\ Head(q) = q[1]
      /\ \A i \in 1 .. Len(p) : p[i] = q[i + 1]
  BY HeadTailProperties
<1>2. Len(q) \in Nat \ {0}
  BY EmptySeq, LenProperties
<1> HIDE DEF p
<1>3. /\ Summable(Loads(q)) /\ DOMAIN Loads(q) = 1 .. Len(q)
      /\ Weight(q) = SumFunction(Loads(q))
      /\ \A i \in 1 .. Len(q) : Loads(q)[i] = q[i].w
  BY LoadsSummable
<1>4. /\ Summable(Loads(p)) /\ DOMAIN Loads(p) = 1 .. Len(p)
      /\ Weight(p) = SumFunction(Loads(p))
      /\ \A i \in 1 .. Len(p) : Loads(p)[i] = p[i].w
  BY <1>1, LoadsSummable
<1>5. \A i \in 1 .. Len(q) - 1 : Loads(p)[i] = Loads(q)[i + 1]
  BY <1>1, <1>2, <1>3, <1>4
<1>6. SumFunction(Loads(q)) = Loads(q)[1] + SumFunction(Loads(p))
  BY <1>1, <1>2, <1>3, <1>4, <1>5, SumTail
<1>7. Loads(q)[1] = Head(q).w
  BY <1>1, <1>2, <1>3
<1> QED
  BY <1>3, <1>4, <1>6, <1>7 DEF p

(* One queue changes.                                                      *)
LEMMA OnTheWayUpdate ==
    ASSUME NEW q \in [Nodes -> Seq(Messages)], NEW p \in [Nodes -> Seq(Messages)],
           NEW n \in Nodes, \A k \in Nodes : k # n => p[k] = q[k]
    PROVE  /\ OnTheWay(p) = OnTheWay(q) - Weight(q[n]) + Weight(p[n])
           /\ OnTheWay(q) \in Int /\ Weight(q[n]) \in Int /\ Weight(p[n]) \in Int
<1> DEFINE F == [k \in Nodes |-> Weight(q[k])]
           G == [k \in Nodes |-> Weight(p[k])]
<1>1. \A k \in Nodes : Weight(q[k]) \in Int /\ Weight(p[k]) \in Int
  BY LoadsSummable
<1>2. Summable(F) /\ Summable(G) /\ DOMAIN F = Nodes /\ DOMAIN G = Nodes
  BY <1>1, NodesFinite DEF Summable
<1>3. \A k \in Nodes : k # n => G[k] = F[k]
  OBVIOUS
<1>4. F[n] = Weight(q[n]) /\ G[n] = Weight(p[n])
  OBVIOUS
<1> HIDE DEF F, G
<1>5. SumFunction(G) = SumFunction(F) - F[n] + G[n] /\ SumFunction(F) \in Int
  BY <1>2, <1>3, SumUpdate, SumType
<1> QED
  BY <1>1, <1>4, <1>5 DEF OnTheWay, F, G

(* A sum is made as high as the rows that are added to it.                 *)
LEMMA SumSized ==
    ASSUME S \in [Workers -> SomeMatrix], SumsSized, NEW k, PartSized(k), NEW n \in Workers,
           NEW s, s = Sum(n, heap, k), S' = [S EXCEPT ![n] = s.m], SameFeeders
    PROVE  SumsSized' /\ (EqualParts => s.m.height = k)
<1>1. PartSized(s.m.height)
  <2>1. CASE HasData(S[n])
    <3>1. s.m = S[n]
      BY <2>1 DEF Sum, Assigned
    <3> QED
      BY <2>1, <3>1 DEF SumsSized
  <2>2. CASE ~HasData(S[n])
    <3>1. s.m.height = k
      BY <2>2 DEF Sum, Assigned, New
    <3> QED
      BY <3>1
  <2> QED
    BY <2>1, <2>2
<1>2. ASSUME NEW j \in Workers, HasData(S'[j]) PROVE PartSized(S'[j].height)
  <2>1. S'[j] = IF j = n THEN s.m ELSE S[j]
    OBVIOUS
  <2> QED
    BY <1>1, <1>2, <2>1 DEF SumsSized
<1>3. SumsSized'
  <2>1. ASSUME NEW j \in Workers, HasData(S'[j]) PROVE PartSized(S[j].height)'
    <3>1. PartSized(S'[j].height)
      BY <1>2, <2>1
    <3> QED
      BY <3>1 DEF PartSized, SameFeeders
  <2> QED
    BY <2>1 DEF SumsSized
<1>4. EqualParts => s.m.height = k
  BY <1>1, EqualSizes
<1> QED
  BY <1>3, <1>4

Gained(n, W, full) ==
    \E gain \in Nat :
        /\ gain <= full /\ (EqualParts => gain = full)
        /\ w' = [W EXCEPT ![n] = W[n] + gain]

Full(channel, win) == IF channel = "TRAINING_DATA" THEN Unit ELSE win

LEMMA Added ==
    ASSUME NEW W \in [Workers -> Nat], NEW n \in Workers, NEW full \in Nat, NEW same \in BOOLEAN,
           EqualParts => same, w' = [W EXCEPT ![n] = IF same THEN W[n] + full ELSE W[n]]
    PROVE  Gained(n, W, full)
<1> DEFINE gain == IF same THEN full ELSE 0
<1>1. gain \in Nat /\ gain <= full /\ (EqualParts => gain = full)
  OBVIOUS
<1>2. W[n] \in Nat /\ W[n] + 0 = W[n]
  OBVIOUS
<1>3. w' = [W EXCEPT ![n] = W[n] + gain]
  BY <1>2
<1> HIDE DEF gain
<1> QED
  BY <1>1, <1>3 DEF Gained

(* What a node receives raises its weight by no more than it should.       *)
LEMMA Got ==
    ASSUME NEW n \in Nodes, NEW channel, NEW m, NEW win \in Nat, NEW W \in [Workers -> Nat],
           X \in [Feeders \cup Nodes -> SomeMatrix], S \in [Workers -> SomeMatrix],
           SumsSized, PartSized(m.height), channel = "TRAINING_DATA" => W = w,
           Receive(n, channel, m, win, heap, W)
    PROVE  /\ SameFeeders /\ SumsSized'
           /\ n \in Workers => Gained(n, W, Full(channel, win))
           /\ n \in Keepers => w' = W
<1>0. /\ n \notin Feeders /\ Unit \in Nat /\ (n \in Workers <=> n \notin Keepers)
  BY ConstantsAssumption DEF Nodes
<1>1. CASE n \in Keepers
  <2>1. Keep(n, channel, m, heap) /\ w' = W
    BY <1>1 DEF Receive
  <2>2. S' = S /\ (X' = X \/ X' = [X EXCEPT ![n] = Taken(m)])
    BY <2>1 DEF Keep
  <2>3. SameFeeders
    BY <1>0, <2>2 DEF SameFeeders
  <2>4. SumsSized'
    BY <2>2, <2>3 DEF SumsSized, PartSized, SameFeeders
  <2> QED
    BY <1>0, <1>1, <2>1, <2>3, <2>4
<1>2. CASE n \in Workers /\ channel = "TRAINING_DATA"
  <2>1. PICK s : s = Sum(n, heap, m.height)
    OBVIOUS
  <2>2. /\ X' = [X EXCEPT ![n] = m] /\ S' = [S EXCEPT ![n] = s.m]
        /\ w' = [w EXCEPT ![n] = IF SameSize(s.m, m) THEN w[n] + Unit ELSE w[n]]
    BY <1>0, <1>2, <2>1 DEF Receive, TakeRows, Taken, Released
  <2>3. SameFeeders
    BY <1>0, <2>2 DEF SameFeeders
  <2>4. SumsSized' /\ (EqualParts => s.m.height = m.height)
    BY <1>2, <2>1, <2>2, <2>3, SumSized
  <2>5. PICK same \in BOOLEAN : same = SameSize(s.m, m)
    BY DEF SameSize
  <2>6. Gained(n, W, Unit)
    BY <1>0, <1>2, <2>2, <2>4, <2>5, Added DEF SameSize
  <2> QED
    BY <1>0, <1>2, <2>3, <2>4, <2>6 DEF Full
<1>3. CASE n \in Workers /\ channel # "TRAINING_DATA"
  <2>1. PICK s : s = Sum(n, heap, m.height)
    OBVIOUS
  <2>2. /\ \E x : X' = [X EXCEPT ![n] = x]
        /\ S' = [S EXCEPT ![n] = s.m]
        /\ w' = [W EXCEPT ![n] = IF SameSize(s.m, m) THEN W[n] + win ELSE W[n]]
    BY <1>0, <1>3, <2>1 DEF Receive, AddGradient, Taken, Released
  <2>3. SameFeeders
    BY <1>0, <2>2 DEF SameFeeders
  <2>4. SumsSized' /\ (EqualParts => s.m.height = m.height)
    BY <1>3, <2>1, <2>2, <2>3, SumSized
  <2>5. PICK same \in BOOLEAN : same = SameSize(s.m, m)
    BY DEF SameSize
  <2>6. Gained(n, W, win)
    BY <1>3, <2>2, <2>4, <2>5, Added DEF SameSize
  <2> QED
    BY <1>0, <1>3, <2>3, <2>4, <2>6 DEF Full
<1> QED
  BY <1>0, <1>1, <1>2, <1>3

LEMMA GainWeighs ==
    ASSUME NEW W \in [Workers -> Nat], NEW n \in Workers, NEW full \in Nat, Gained(n, W, full)
    PROVE  \E gain \in Nat : /\ gain <= full /\ (EqualParts => gain = full)
                             /\ SumFunction(w') = SumFunction(W) + gain
<1>1. PICK gain \in Nat : /\ gain <= full /\ (EqualParts => gain = full)
                          /\ w' = [W EXCEPT ![n] = W[n] + gain]
  BY DEF Gained
<1>2. w' \in [Workers -> Nat] /\ w'[n] = W[n] + gain /\ \A k \in Workers : k # n => w'[k] = W[k]
  BY <1>1
<1>3. /\ Summable(W) /\ DOMAIN W = Workers /\ SumFunction(W) \in Int
      /\ Summable(w') /\ DOMAIN w' = Workers
  BY <1>2, WeightsSummable
<1>4. SumFunction(w') = SumFunction(W) - W[n] + w'[n]
  BY <1>2, <1>3, SumUpdate
<1>5. SumFunction(w') = SumFunction(W) + gain
  <2>1. W[n] \in Nat
    OBVIOUS
  <2> QED
    BY <1>2, <1>3, <1>4, <2>1
<1> QED
  BY <1>1, <1>5

(* The total rises by no more than it should.                              *)
Rises(d) ==
    /\ Total \in Int /\ Total' \in Int
    /\ Total' <= Total + d /\ (EqualParts => Total' = Total + d)

LEMMA StillWeighs ==
    ASSUME Weighs, SameFeeders, fed \in Nat,
           (Rises(0) /\ fed' = fed) \/ (Rises(Unit) /\ fed' = fed + 1)
    PROVE  Weighs'
<1>1. EqualParts' <=> EqualParts
  BY SizesKept
<1>2. PICK t : t = Total
  OBVIOUS
<1>3. PICK u : u = Total'
  OBVIOUS
<1>4. Unit \in Nat
  BY ConstantsAssumption
<1>5. CASE Rises(0) /\ fed' = fed
  <2>1. /\ t \in Int /\ u \in Int /\ u <= t + 0 /\ (EqualParts => u = t + 0)
        /\ t <= Unit * fed /\ (EqualParts => t = Unit * fed)
    BY <1>2, <1>3, <1>5 DEF Rises, Weighs
  <2>2. Unit * fed \in Int
    BY <1>4
  <2>3. u <= Unit * fed /\ (EqualParts => u = Unit * fed)
    BY <2>1, <2>2
  <2> QED
    BY <1>1, <1>3, <1>5, <2>3 DEF Weighs
<1>6. CASE Rises(Unit) /\ fed' = fed + 1
  <2>1. /\ t \in Int /\ u \in Int /\ u <= t + Unit /\ (EqualParts => u = t + Unit)
        /\ t <= Unit * fed /\ (EqualParts => t = Unit * fed)
    BY <1>2, <1>3, <1>6 DEF Rises, Weighs
  <2>2. Unit * fed \in Int /\ Unit * (fed + 1) = Unit * fed + Unit
    BY <1>4
  <2>3. u <= Unit * (fed + 1) /\ (EqualParts => u = Unit * (fed + 1))
    BY <1>4, <2>1, <2>2
  <2> QED
    BY <1>1, <1>3, <1>6, <2>3 DEF Weighs
<1> QED
  BY <1>5, <1>6

LEMMA TotalIs ==
    ASSUME NEW u \in [Workers -> Nat], NEW q \in [Nodes -> Seq(Messages)]
    PROVE  SumFunction(u) \in Int /\ OnTheWay(q) \in Int
<1>1. \A n \in Nodes : Weight(q[n]) \in Int
  BY LoadsSummable
<1>2. Summable([n \in Nodes |-> Weight(q[n])])
  BY <1>1, NodesFinite DEF Summable
<1> QED
  BY <1>2, WeightsSummable, SumType DEF OnTheWay

LEMMA StillFair ==
    ASSUME SameFeeders, \A n \in Nodes : \A i \in 1 .. Len(queue'[n]) : FairMessage(n, queue'[n][i])
    PROVE  QueuesFair'
<1>1. ASSUME NEW n \in Nodes, NEW i \in 1 .. Len(queue'[n]) PROVE FairMessage(n, queue[n][i])'
  <2>1. FairMessage(n, queue'[n][i])
    OBVIOUS
  <2> QED
    BY <2>1 DEF FairMessage, PartSized, SameFeeders
<1> QED
  BY <1>1 DEF QueuesFair

(* A copy weighs what its sender gave it.                                  *)
LEMMA Posted ==
    ASSUME Typed(X, S, queue), IsHeap(heap), QueuesFair, NEW n \in Nodes,
           NEW channel \in {"TRAINING_DATA", "GRADIENT"}, NEW m, m.height \in Nat \ {0},
           PartSized(m.height), NEW win \in Nat,
           channel = "TRAINING_DATA" \/ n \in Keepers => win = 0,
           Post(n, channel, m, win), X' = X
    PROVE  /\ QueuesFair' /\ SameFeeders
           /\ queue' \in [Nodes -> Seq(Messages)]
           /\ OnTheWay(queue') = OnTheWay(queue) + win
<1> DEFINE k == m.height
           c == New(heap, k).m
           e == NewMessage(channel, c, win)
<1>1. queue' = [queue EXCEPT ![n] = Append(queue[n], e)]
  BY DEF Post, CopyOf
<1>2. c = [buf |-> Fresh(heap), off |-> 0, height |-> k, own |-> TRUE] /\ Fresh(heap) \in Nat \ {0}
  <2>1. k \in Nat \ {0}
    OBVIOUS
  <2> HIDE DEF k
  <2> QED
    BY <2>1, NewBuffer, NewName
<1>3. c \in SomeMatrix /\ c.height = k
  BY <1>2 DEF SomeMatrix
<1> HIDE DEF c
<1>4. e \in Messages /\ e.mat = c /\ e.w = win /\ e.channel = channel
  BY <1>3 DEF NewMessage, Messages
<1>5. FairMessage(n, e)
  BY <1>3, <1>4 DEF FairMessage
<1> HIDE DEF e
<1>6. queue \in [Nodes -> Seq(Messages)] /\ queue[n] \in Seq(Messages)
  BY DEF Typed
<1>7. /\ queue' \in [Nodes -> Seq(Messages)] /\ queue'[n] = Append(queue[n], e)
      /\ \A j \in Nodes : j # n => queue'[j] = queue[j]
  <2>1. Append(queue[n], e) \in Seq(Messages)
    BY <1>4, <1>6
  <2> QED
    BY <1>1, <1>6, <2>1
<1>8. SameFeeders
  BY DEF SameFeeders
<1>9. QueuesFair'
  <2>1. ASSUME NEW j \in Nodes, NEW i \in 1 .. Len(queue'[j]) PROVE FairMessage(j, queue'[j][i])
    <3>1. CASE j = n
      <4>1. i \in 1 .. Len(queue[n]) + 1 /\ Len(queue[n]) \in Nat
        BY <1>4, <1>6, <1>7, <3>1, AppendProperties, LenProperties
      <4>2. i \in 1 .. Len(queue[n]) => queue'[n][i] = queue[n][i]
        BY <1>4, <1>6, <1>7, AppendProperties
      <4>3. i = Len(queue[n]) + 1 => queue'[n][i] = e
        BY <1>4, <1>6, <1>7, AppendProperties
      <4>4. i \in 1 .. Len(queue[n]) \/ i = Len(queue[n]) + 1
        BY <4>1
      <4> QED
        BY <1>5, <3>1, <4>2, <4>3, <4>4 DEF QueuesFair
    <3>2. CASE j # n
      BY <1>7, <3>2 DEF QueuesFair
    <3> QED
      BY <3>1, <3>2
  <2> QED
    BY <1>8, <2>1, StillFair
<1>10. OnTheWay(queue') = OnTheWay(queue) + win
  <2>1. PICK p : p = queue'
    OBVIOUS
  <2>2. p \in [Nodes -> Seq(Messages)] /\ \A j \in Nodes : j # n => p[j] = queue[j]
    BY <1>7, <2>1
  <2>3. /\ OnTheWay(p) = OnTheWay(queue) - Weight(queue[n]) + Weight(p[n])
        /\ OnTheWay(queue) \in Int /\ Weight(queue[n]) \in Int /\ Weight(p[n]) \in Int
    BY <1>6, <2>2, OnTheWayUpdate
  <2>4. Weight(p[n]) = Weight(queue[n]) + e.w
    BY <1>4, <1>6, <1>7, <2>1, WeightAppend
  <2>5. OnTheWay(p) = OnTheWay(queue) + win
    BY <1>4, <2>3, <2>4
  <2> QED
    BY <2>1, <2>5
<1> QED
  BY <1>7, <1>8, <1>9, <1>10

LEMMA WStarted == Init => WInv
<1> SUFFICES ASSUME Init PROVE WInv
  OBVIOUS
<1> USE DEF Init
<1>1. IInv
  BY Started
<1>2. SumsSized
  BY DEF SumsSized, HasData, NoMatrix
<1>3. \A n \in Nodes : queue[n] = <<>>
  OBVIOUS
<1>4. QueuesFair
  BY <1>3 DEF QueuesFair
<1>5. SumFunction(w) = 0
  <2>1. w \in [Workers -> Nat] /\ \A n \in Workers : w[n] = 0
    OBVIOUS
  <2> QED
    BY <2>1, WeightsSummable, SumZero
<1>6. Weight(<<>>) = 0
  <2>1. DOMAIN [i \in DOMAIN <<>> |-> <<>>[i].w] = {}
    OBVIOUS
  <2> QED
    BY <2>1, SumEmpty DEF Weight
<1>7. OnTheWay(queue) = 0
  <2> DEFINE F == [n \in Nodes |-> Weight(queue[n])]
  <2>1. DOMAIN F = Nodes /\ \A n \in Nodes : F[n] = 0
    BY <1>3, <1>6
  <2> HIDE DEF F
  <2>2. Summable(F)
    BY <2>1, NodesFinite DEF Summable
  <2>3. SumFunction(F) = 0
    BY <2>1, <2>2, SumZero
  <2> QED
    BY <2>3 DEF OnTheWay, F
<1>8. Total = 0
  BY <1>5, <1>7 DEF Total
<1>9. Unit * fed = 0
  BY NodesFinite
<1> QED
  BY <1>1, <1>2, <1>4, <1>8, <1>9 DEF WInv, Weighs

(* Weight v leaves and gain comes, of which full is expected.              *)
LEMMA RiseBy ==
    ASSUME NEW a \in Int, NEW b \in Int, NEW v \in Nat, NEW gain \in Nat, NEW full \in Nat,
           NEW d \in Nat, full = v + d, gain <= full, EqualParts => gain = full,
           Total = a + b, Total' = a + gain + (b - v)
    PROVE  Rises(d)
<1>1. /\ a + b \in Int /\ a + gain + (b - v) \in Int
      /\ a + gain + (b - v) <= a + b + d
      /\ gain = full => a + gain + (b - v) = a + b + d
  OBVIOUS
<1> QED
  BY <1>1 DEF Rises

(* The facts about the present that the steps use.                         *)
LEMMA WFacts ==
    ASSUME WInv
    PROVE  /\ Typed(X, S, queue) /\ IsHeap(heap) /\ SumsSized /\ QueuesFair /\ Weighs
           /\ X \in [Feeders \cup Nodes -> SomeMatrix] /\ S \in [Workers -> SomeMatrix]
           /\ queue \in [Nodes -> Seq(Messages)] /\ w \in [Workers -> Nat]
           /\ attached = {n \in Workers : HasData(S[n])} /\ fed \in Nat
           /\ SumFunction(w) \in Int /\ OnTheWay(queue) \in Int
<1>1. /\ Typed(X, S, queue) /\ IsHeap(heap) /\ w \in [Workers -> Nat]
      /\ attached = {n \in Workers : HasData(S[n])} /\ fed \in Nat
  BY DEF WInv, IInv, Good, Sound, Summing, Weighing
<1> QED
  BY <1>1, TotalIs DEF Typed, WInv

(* A step that moves no weight.                                            *)
LEMMA WSame ==
    ASSUME WInv, UNCHANGED <<X, S, w, queue, fed>>
    PROVE  SumsSized' /\ QueuesFair' /\ Weighs'
BY DEF WInv, SumsSized, QueuesFair, FairMessage, PartSized, Weighs, Total, OnTheWay, EqualParts

LEMMA WTried ==
    ASSUME WInv, NEW f \in Feeders, NEW i \in 1 .. N, TryPart(f, i)
    PROVE  SumsSized' /\ QueuesFair' /\ Weighs'
<1> DEFINE n == Targets[i]
           p == Part(X[f], i - 1, N)
<1>1. /\ n \in Nodes /\ (n \in Workers <=> n \notin Keepers)
      /\ HasData(p) => p.height \in Nat \ {0}
  <2>1. PICK B : B = [ack EXCEPT ![f] = @ \cup {i}]
    OBVIOUS
  <2>2. IInv /\ i \in pass[f]
    BY DEF WInv, TryPart
  <2>3. n \in Nodes /\ (HasData(p) => p.height \in Nat \ {0})
    BY <2>1, <2>2, Trying
  <2> QED
    BY <2>3, ConstantsAssumption DEF Nodes
<1>2. HasData(p) => PartSized(p.height)
  BY DEF PartSized
<1> HIDE DEF n, p
<1>3. CASE UNCHANGED <<X, S, w, queue, fed>>
  BY <1>3, WSame
<1>4. CASE /\ HasData(p) /\ Given(n) /\ UNCHANGED queue
           /\ Receive(n, "TRAINING_DATA", p, 0, heap, w)
  <2>1. /\ SameFeeders /\ SumsSized'
        /\ n \in Workers => Gained(n, w, Full("TRAINING_DATA", 0))
        /\ n \in Keepers => w' = w
    BY <1>1, <1>2, <1>4, WFacts, Got
  <2>2. QueuesFair'
    <3>1. \A j \in Nodes : \A k \in 1 .. Len(queue'[j]) : FairMessage(j, queue'[j][k])
      BY <1>4, WFacts DEF QueuesFair
    <3> QED
      BY <2>1, <3>1, StillFair
  <2>3. CASE n \in Workers
    <3>1. Unit \in Nat
      BY NodesFinite
    <3>2. Gained(n, w, Unit)
      BY <2>1, <2>3 DEF Full
    <3>3. PICK gain \in Nat : /\ gain <= Unit /\ (EqualParts => gain = Unit)
                              /\ SumFunction(w') = SumFunction(w) + gain
      BY <2>3, <3>1, <3>2, WFacts, GainWeighs
    <3>4. OnTheWay(queue') = OnTheWay(queue)
      BY <1>4
    <3>5. Total = SumFunction(w) + OnTheWay(queue) /\ Total' = SumFunction(w') + OnTheWay(queue')
      BY DEF Total, OnTheWay
    <3>6. Rises(Unit)
      <4>1. Total' = SumFunction(w) + gain + (OnTheWay(queue) - 0)
        BY <3>3, <3>4, <3>5, WFacts
      <4>2. Unit = 0 + Unit
        BY <3>1
      <4> QED
        BY <3>1, <3>3, <3>5, <4>1, <4>2, WFacts, RiseBy
    <3>7. fed' = fed + 1
      BY <1>4, <2>3 DEF Given
    <3> QED
      BY <2>1, <2>2, <3>6, <3>7, WFacts, StillWeighs
  <2>4. CASE n \in Keepers
    <3>1. UNCHANGED <<w, queue, fed>>
      BY <1>1, <1>4, <2>1, <2>4 DEF Given
    <3>2. Total' = Total /\ Total \in Int
      BY <3>1, WFacts DEF Total, OnTheWay
    <3>3. Rises(0)
      BY <3>2 DEF Rises
    <3> QED
      BY <2>1, <2>2, <3>1, <3>3, WFacts, StillWeighs
  <2> QED
    BY <1>1, <2>3, <2>4
<1>5. CASE /\ HasData(p) /\ Post(n, "TRAINING_DATA", p, 0)
           /\ UNCHANGED <<X, S, w, fed>>
  <2>1. /\ QueuesFair' /\ SameFeeders
        /\ OnTheWay(queue') = OnTheWay(queue) + 0
    BY <1>1, <1>2, <1>5, WFacts, Posted
  <2>2. SumsSized'
    BY <1>5, WFacts DEF SumsSized, PartSized
  <2>3. Total' = Total /\ Total \in Int
    <3>1. Total = SumFunction(w) + OnTheWay(queue) /\ Total' = SumFunction(w') + OnTheWay(queue')
      BY DEF Total, OnTheWay
    <3> QED
      BY <1>5, <2>1, <3>1, WFacts
  <2>4. Rises(0)
    BY <2>3 DEF Rises
  <2> QED
    BY <1>5, <2>1, <2>2, <2>4, WFacts, StillWeighs
<1> QED
  BY <1>3, <1>4, <1>5 DEF TryPart, n, p

LEMMA WAveraged ==
    ASSUME WInv, NEW n \in Workers, Average(n)
    PROVE  SumsSized' /\ QueuesFair' /\ Weighs'
<1> DEFINE half == w[n] \div 2
           W == [w EXCEPT ![n] = half]
           message == NotOwned(S[n])
<1>1. w[n] \in Nat /\ w[n] % 2 = 0 /\ n \in attached /\ UNCHANGED fed
  BY WFacts DEF Average, feeding
<1>2. half \in Nat /\ half + half = w[n]
  BY <1>1
<1>3. PICK x \in Outs[n] :
        \/ /\ SameThread(n, x) /\ Receive(x, "GRADIENT", message, half, heap, W) /\ UNCHANGED queue
        \/ /\ ~SameThread(n, x) /\ Post(x, "GRADIENT", message, half)
           /\ w' = W /\ UNCHANGED <<X, S, attached, dirty>>
        \/ /\ <<n, x>> \in Flaky /\ w' = [w EXCEPT ![n] = Double(half)]
           /\ UNCHANGED <<heap, X, S, attached, queue, dirty>>
  BY DEF Average
<1>4. x \in Workers /\ x \in Nodes /\ x \notin Keepers
  BY <1>3, ConstantsAssumption DEF Nodes
<1>5. message.height \in Nat \ {0} /\ PartSized(message.height)
  <2>1. HasData(S[n]) /\ S[n] \in SomeMatrix
    BY <1>1, WFacts
  <2>2. message.height = S[n].height
    BY <2>1 DEF NotOwned, SomeMatrix
  <2>3. S[n].height > 0
    BY <2>1, HeldAt, Inside DEF WInv, IInv, Good
  <2>4. S[n].height \in Nat
    BY <2>1 DEF SomeMatrix
  <2> QED
    BY <2>1, <2>2, <2>3, <2>4, WFacts DEF SumsSized
<1>6. /\ W \in [Workers -> Nat] /\ SumFunction(W) = SumFunction(w) - w[n] + half
      /\ SumFunction(W) \in Int
  <2>1. /\ W \in [Workers -> Nat] /\ W[n] = half /\ \A k \in Workers : k # n => W[k] = w[k]
    BY <1>2, WFacts
  <2> HIDE DEF W, half
  <2>2. Summable(W) /\ DOMAIN W = Workers /\ Summable(w) /\ DOMAIN w = Workers
        /\ SumFunction(W) \in Int
    BY <2>1, WFacts, WeightsSummable
  <2>3. SumFunction(W) = SumFunction(w) - w[n] + W[n]
    BY <2>1, <2>2, SumUpdate
  <2> QED
    BY <2>1, <2>2, <2>3
<1>7. W[n] = half
  BY WFacts
<1> HIDE DEF half, W, message
<1>8. Total = SumFunction(w) + OnTheWay(queue) /\ Total' = SumFunction(w') + OnTheWay(queue')
  BY DEF Total, OnTheWay
<1>9. CASE /\ Receive(x, "GRADIENT", message, half, heap, W) /\ UNCHANGED queue
  <2>1. "GRADIENT" # "TRAINING_DATA"
    OBVIOUS
  <2>2. /\ SameFeeders /\ SumsSized'
        /\ Gained(x, W, Full("GRADIENT", half))
    BY <1>2, <1>4, <1>5, <1>6, <1>9, <2>1, WFacts, Got
  <2>3. QueuesFair'
    <3>1. \A j \in Nodes : \A k \in 1 .. Len(queue'[j]) : FairMessage(j, queue'[j][k])
      BY <1>9, WFacts DEF QueuesFair
    <3> QED
      BY <2>2, <3>1, StillFair
  <2>4. Gained(x, W, half)
    BY <2>1, <2>2 DEF Full
  <2>5. PICK gain \in Nat : /\ gain <= half /\ (EqualParts => gain = half)
                            /\ SumFunction(w') = SumFunction(W) + gain
    BY <1>2, <1>4, <1>6, <2>4, GainWeighs
  <2>6. SumFunction(W) = SumFunction(w) - half
    BY <1>1, <1>2, <1>6, WFacts
  <2>7. /\ Total = SumFunction(w) + OnTheWay(queue)
        /\ Total' = SumFunction(w) + gain + (OnTheWay(queue) - half)
    BY <1>2, <1>8, <1>9, <2>5, <2>6, WFacts
  <2>8. half = half + 0
    BY <1>2
  <2>9. Rises(0)
    BY <1>2, <2>5, <2>7, <2>8, WFacts, RiseBy
  <2> QED
    BY <1>1, <2>2, <2>3, <2>9, WFacts, StillWeighs
<1>10. CASE /\ Post(x, "GRADIENT", message, half)
            /\ w' = W /\ UNCHANGED <<X, S, attached, dirty>>
  <2>1. "GRADIENT" # "TRAINING_DATA" /\ "GRADIENT" \in {"TRAINING_DATA", "GRADIENT"}
    OBVIOUS
  <2>2. /\ QueuesFair' /\ SameFeeders
        /\ OnTheWay(queue') = OnTheWay(queue) + half
    BY <1>2, <1>4, <1>5, <1>10, <2>1, WFacts, Posted
  <2>3. SumsSized'
    BY <1>10, WFacts DEF SumsSized, PartSized
  <2>4. SumFunction(W) = SumFunction(w) - half
    BY <1>1, <1>2, <1>6, WFacts
  <2>5. Rises(0)
    <3>1. /\ Total = SumFunction(w) + OnTheWay(queue)
          /\ Total' = SumFunction(w) + half + (OnTheWay(queue) - half)
      BY <1>2, <1>8, <1>10, <2>2, <2>4, WFacts
    <3>2. half = half + 0 /\ half <= half
      BY <1>2
    <3> QED
      BY <1>2, <3>1, <3>2, WFacts, RiseBy
  <2> QED
    BY <1>1, <2>2, <2>3, <2>5, WFacts, StillWeighs
<1>11. CASE /\ w' = [w EXCEPT ![n] = Double(half)] /\ UNCHANGED <<X, S, queue>>
  <2>1. Double(half) = w[n]
    BY <1>1, <1>2 DEF Double
  <2>2. w' = w
    BY <1>11, <2>1, WFacts
  <2> QED
    BY <1>1, <1>11, <2>2, WSame
<1> QED
  BY <1>3, <1>9, <1>10, <1>11

LEMMA WDelivered ==
    ASSUME WInv, NEW n \in Nodes, Deliver(n)
    PROVE  SumsSized' /\ QueuesFair' /\ Weighs'
<1> DEFINE m == Head(queue[n])
           q == [queue EXCEPT ![n] = Tail(queue[n])]
<1>1. /\ queue[n] # <<>> /\ queue' = q /\ Receive(n, m.channel, m.mat, m.w, heap, w)
      /\ IF m.channel = "TRAINING_DATA" THEN Given(n) ELSE UNCHANGED fed
  BY DEF Deliver
<1>2. /\ queue[n] \in Seq(Messages) /\ Len(queue[n]) \in Nat \ {0} /\ m = queue[n][1]
      /\ Tail(queue[n]) \in Seq(Messages) /\ Len(Tail(queue[n])) = Len(queue[n]) - 1
      /\ \A i \in 1 .. Len(Tail(queue[n])) : Tail(queue[n])[i] = queue[n][i + 1]
  <2>1. queue[n] \in Seq(Messages)
    BY WFacts
  <2> QED
    BY <1>1, <2>1, HeadTailProperties, EmptySeq, LenProperties
<1>3. FairMessage(n, m) /\ m \in Messages /\ m.w \in Nat
  <2>1. 1 \in 1 .. Len(queue[n])
    BY <1>2
  <2>2. FairMessage(n, queue[n][1])
    BY <2>1, WFacts DEF QueuesFair
  <2>3. m \in Messages
    BY <1>2, <2>1, ElementOfSeq
  <2> QED
    BY <1>2, <2>2, <2>3 DEF Messages
<1>4. Weight(queue[n]) = m.w + Weight(Tail(queue[n]))
  BY <1>1, <1>2, WeightTail
<1> HIDE DEF m
<1>5. /\ q \in [Nodes -> Seq(Messages)] /\ q[n] = Tail(queue[n])
      /\ \A j \in Nodes : j # n => q[j] = queue[j]
  BY <1>2, WFacts
<1> HIDE DEF q
<1>6. OnTheWay(q) = OnTheWay(queue) - m.w
  <2>1. /\ OnTheWay(q) = OnTheWay(queue) - Weight(queue[n]) + Weight(q[n])
        /\ OnTheWay(queue) \in Int /\ Weight(queue[n]) \in Int /\ Weight(q[n]) \in Int
    BY <1>5, WFacts, OnTheWayUpdate
  <2> QED
    BY <1>3, <1>4, <1>5, <2>1
<1>7. /\ SameFeeders /\ SumsSized'
      /\ n \in Workers => Gained(n, w, Full(m.channel, m.w))
      /\ n \in Keepers => w' = w
  <2>1. PartSized(m.mat.height) /\ w \in [Workers -> Nat] /\ (m.channel = "TRAINING_DATA" => w = w)
    BY <1>3, WFacts DEF FairMessage
  <2> QED
    BY <1>1, <1>3, <2>1, WFacts, Got
<1>8. QueuesFair'
  <2>1. ASSUME NEW j \in Nodes, NEW i \in 1 .. Len(queue'[j]) PROVE FairMessage(j, queue'[j][i])
    <3>1. CASE j = n
      <4>1. /\ i \in 1 .. Len(Tail(queue[n])) /\ queue'[j][i] = queue[n][i + 1]
        BY <1>1, <1>2, <1>5, <3>1
      <4>2. i + 1 \in 1 .. Len(queue[n])
        BY <1>2, <4>1
      <4> QED
        BY <3>1, <4>1, <4>2, WFacts DEF QueuesFair
    <3>2. CASE j # n
      BY <1>1, <1>5, <3>2, WFacts DEF QueuesFair
    <3> QED
      BY <3>1, <3>2
  <2> QED
    BY <1>7, <2>1, StillFair
<1>9. Total = SumFunction(w) + OnTheWay(queue) /\ Total' = SumFunction(w') + OnTheWay(q)
  BY <1>1 DEF Total, OnTheWay
<1>10. CASE n \in Workers /\ m.channel = "TRAINING_DATA"
  <2>1. Unit \in Nat /\ m.w = 0 /\ fed' = fed + 1
    BY <1>1, <1>3, <1>10, NodesFinite DEF FairMessage, Given
  <2>2. Gained(n, w, Unit)
    BY <1>7, <1>10 DEF Full
  <2>3. PICK gain \in Nat : /\ gain <= Unit /\ (EqualParts => gain = Unit)
                            /\ SumFunction(w') = SumFunction(w) + gain
    BY <1>10, <2>1, <2>2, WFacts, GainWeighs
  <2>4. Rises(Unit)
    <3>1. Total' = SumFunction(w) + gain + (OnTheWay(queue) - 0)
      BY <1>6, <1>9, <2>1, <2>3, WFacts
    <3>2. Unit = 0 + Unit
      BY <2>1
    <3> QED
      BY <1>9, <2>3, <3>1, <3>2, NodesFinite, WFacts, RiseBy
  <2> QED
    BY <1>7, <1>8, <2>1, <2>4, WFacts, StillWeighs
<1>11. CASE n \in Workers /\ m.channel # "TRAINING_DATA"
  <2>1. Gained(n, w, m.w) /\ fed' = fed
    BY <1>1, <1>7, <1>11 DEF Full
  <2>2. PICK gain \in Nat : /\ gain <= m.w /\ (EqualParts => gain = m.w)
                            /\ SumFunction(w') = SumFunction(w) + gain
    BY <1>3, <1>11, <2>1, WFacts, GainWeighs
  <2>3. Rises(0)
    <3>1. Total' = SumFunction(w) + gain + (OnTheWay(queue) - m.w)
      BY <1>6, <1>9, <2>2
    <3>2. m.w = m.w + 0
      BY <1>3
    <3> QED
      BY <1>3, <1>9, <2>2, <3>1, <3>2, WFacts, RiseBy
  <2> QED
    BY <1>7, <1>8, <2>1, <2>3, WFacts, StillWeighs
<1>12. CASE n \in Keepers
  <2>1. m.w = 0 /\ w' = w /\ fed' = fed
    BY <1>1, <1>3, <1>7, <1>12, ConstantsAssumption DEF FairMessage, Given
  <2>2. Rises(0)
    <3>1. Total' = SumFunction(w) + OnTheWay(queue) /\ Total \in Int
      BY <1>6, <1>9, <2>1, WFacts
    <3> QED
      BY <1>9, <3>1 DEF Rises
  <2> QED
    BY <1>7, <1>8, <2>1, <2>2, WFacts, StillWeighs
<1> QED
  BY <1>10, <1>11, <1>12 DEF Nodes

LEMMA WKept == WInv /\ [Next]_vars => WInv'
<1> SUFFICES ASSUME WInv, [Next]_vars PROVE WInv'
  OBVIOUS
<1>1. IInv'
  BY Kept DEF WInv
<1>2. ASSUME NEW f \in Feeders, StartPass(f) PROVE SumsSized' /\ QueuesFair' /\ Weighs'
  BY <1>2, WSame DEF StartPass
<1>3. SumsSized' /\ QueuesFair' /\ Weighs'
  <2>1. CASE Next
    BY <1>2, <2>1, WTried, WAveraged, WDelivered DEF Next
  <2>2. CASE UNCHANGED vars
    BY <2>2, WSame DEF vars
  <2> QED
    BY <2>1, <2>2
<1> QED
  BY <1>1, <1>3 DEF WInv

(* The weights of workers and of gradients on the way are never more than  *)
(* the training sets that workers were given, and just those if all parts  *)
(* have one size (NodeAvg::process, NodeAvg::on_receive).                  *)
THEOREM MeansKeepWeight == Spec => []AvgMass
<1>1. WInv => AvgMass
  BY DEF WInv, Weighs, Total, OnTheWay, AvgMass
<1> QED
  BY <1>1, WStarted, WKept, PTL DEF Spec
=============================================================================

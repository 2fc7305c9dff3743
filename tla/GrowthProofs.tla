---------------------------- MODULE GrowthProofs ----------------------------
(***************************************************************************)
(* Proofs about the making of nodes, for any models, threads and           *)
(* libraries, and about the infos that are sent of them meanwhile.         *)
(***************************************************************************)
EXTENDS Infos, Sums, SequenceTheorems, FiniteSetTheorems, TLAPS

-----------------------------------------------------------------------------
(* Whatever is sent or stored of the nodes, they are made as in Growth.    *)
LEMMA OnlyMade == Spec => SpecGrowth
<1>1. Init => InitGrowth
  BY DEF Init
<1>2. [Next]_vars => [NextGrowth]_growth
  <2> SUFFICES ASSUME [Next]_vars PROVE [NextGrowth]_growth
    OBVIOUS
  <2>1. CASE UNCHANGED vars
    BY <2>1 DEF vars
  <2>2. CASE Next
    BY <2>2 DEF Next, RootReads, agml_command_do_start_infos, BeginDump, dump_local_infos,
                SecondPass, SendInfos, agml_command_update_infos
  <2> QED
    BY <2>1, <2>2
<1> QED
  BY <1>1, <1>2, PTL DEF Spec, SpecGrowth

-----------------------------------------------------------------------------
(* FlattenSeq, by partial results.                                         *)
IsFlat(f, ss, n) == f = [i \in 1 .. n |-> IF i = 1 THEN ss[i] ELSE f[i - 1] \o ss[i]]

LEMMA FlatAt ==
    ASSUME NEW f, NEW ss, NEW n \in Nat, IsFlat(f, ss, n), NEW i \in 1 .. n
    PROVE  f[i] = IF i = 1 THEN ss[i] ELSE f[i - 1] \o ss[i]
<1> DEFINE F(j) == IF j = 1 THEN ss[j] ELSE f[j - 1] \o ss[j]
<1>1. f = [j \in 1 .. n |-> F(j)]
  BY DEF IsFlat
<1> HIDE DEF F
<1>2. f[i] = F(i)
  BY <1>1
<1> QED
  BY <1>2 DEF F

LEMMA FlatExists ==
    ASSUME NEW ss, NEW n \in Nat
    PROVE  \E f : IsFlat(f, ss, n)
<1> DEFINE T == {k \in Nat : ~ \E f : IsFlat(f, ss, k)}
<1> SUFFICES ASSUME T # {} PROVE FALSE
  OBVIOUS
<1>1. PICK k \in T : \A j \in T : k <= j
  <2> HIDE DEF T
  <2>1. T \subseteq Nat
    BY DEF T
  <2> QED
    BY <2>1, LeastNumber
<1>2. k \in Nat /\ ~ \E f : IsFlat(f, ss, k)
  OBVIOUS
<1>3. CASE k = 0
  <2> DEFINE f == [i \in 1 .. 0 |-> 0]
  <2>1. f = [i \in 1 .. 0 |-> IF i = 1 THEN ss[i] ELSE f[i - 1] \o ss[i]]
    OBVIOUS
  <2> QED
    BY <1>2, <1>3, <2>1 DEF IsFlat
<1>4. CASE k # 0
  <2>1. k - 1 \in Nat /\ ~(k - 1 \in T)
    BY <1>1, <1>2, <1>4
  <2>2. PICK f : IsFlat(f, ss, k - 1)
    BY <2>1
  <2> DEFINE h == [i \in 1 .. k |-> IF i = k THEN (IF k = 1 THEN ss[k] ELSE f[k - 1] \o ss[k])
                                    ELSE f[i]]
  <2>3. \A i \in 1 .. k - 1 : h[i] = f[i]
    BY <1>2
  <2>4. h[k] = IF k = 1 THEN ss[k] ELSE f[k - 1] \o ss[k]
    BY <1>2, <1>4
  <2>5. DOMAIN h = 1 .. k /\ h = [i \in 1 .. k |-> h[i]]
    OBVIOUS
  <2> HIDE DEF h
  <2>6. ASSUME NEW i \in 1 .. k
        PROVE  h[i] = IF i = 1 THEN ss[i] ELSE h[i - 1] \o ss[i]
    <3>1. CASE i = k
      <4>1. CASE k = 1
        BY <2>4, <3>1, <4>1
      <4>2. CASE k # 1
        <5>1. k - 1 \in 1 .. k - 1
          BY <1>2, <1>4, <4>2
        <5>2. h[k - 1] = f[k - 1]
          BY <2>3, <5>1
        <5> QED
          BY <2>4, <3>1, <4>2, <5>2
      <4> QED
        BY <4>1, <4>2
    <3>2. CASE i # k
      <4>1. i \in 1 .. k - 1
        BY <1>2, <3>2
      <4>2. f[i] = IF i = 1 THEN ss[i] ELSE f[i - 1] \o ss[i]
        BY <2>1, <2>2, <4>1, FlatAt
      <4>3. i # 1 => i - 1 \in 1 .. k - 1
        BY <1>2, <4>1
      <4> QED
        BY <2>3, <4>1, <4>2, <4>3
    <3> QED
      BY <3>1, <3>2
  <2>7. IsFlat(h, ss, k)
    BY <2>5, <2>6 DEF IsFlat
  <2> QED
    BY <1>2, <2>7
<1> QED
  BY <1>3, <1>4

(* A longer sequence begins with the same partial results.                 *)
Agrees(f, h, n) == \A i \in 1 .. n : h[i] = f[i]

LEMMA FlatAgree ==
    ASSUME NEW ss, NEW tt, NEW n \in Nat, NEW m \in Nat, n <= m, Agrees(ss, tt, n),
           NEW f, IsFlat(f, ss, n), NEW h, IsFlat(h, tt, m)
    PROVE  Agrees(f, h, n)
<1> DEFINE T == {k \in 1 .. n : h[k] # f[k]}
<1> USE DEF Agrees
<1> SUFFICES ASSUME T # {} PROVE FALSE
  OBVIOUS
<1>1. PICK k \in T : \A j \in T : k <= j
  <2> HIDE DEF T
  <2>1. T \subseteq Nat
    BY DEF T
  <2> QED
    BY <2>1, LeastNumber
<1>2. k \in 1 .. n /\ k \in 1 .. m /\ h[k] # f[k]
  OBVIOUS
<1>3. /\ f[k] = IF k = 1 THEN ss[k] ELSE f[k - 1] \o ss[k]
      /\ h[k] = IF k = 1 THEN tt[k] ELSE h[k - 1] \o tt[k]
  BY <1>2, FlatAt
<1>4. k # 1 => h[k - 1] = f[k - 1]
  <2>1. k # 1 => k - 1 \in 1 .. n /\ ~(k <= k - 1)
    BY <1>2
  <2> QED
    BY <1>1, <2>1
<1> QED
  BY <1>2, <1>3, <1>4

LEMMA FlatIs ==
    ASSUME NEW ss, Len(ss) \in Nat \ {0}
    PROVE  \E f : IsFlat(f, ss, Len(ss)) /\ FlattenSeq(ss) = f[Len(ss)]
<1>1. \E f : IsFlat(f, ss, Len(ss))
  BY FlatExists
<1> DEFINE f == CHOOSE g : g = [i \in 1 .. Len(ss) |-> IF i = 1 THEN ss[i] ELSE g[i - 1] \o ss[i]]
<1>2. FlattenSeq(ss) = f[Len(ss)]
  BY DEF FlattenSeq
<1>3. IsFlat(f, ss, Len(ss))
  BY <1>1 DEF IsFlat
<1> QED
  BY <1>2, <1>3

LEMMA FlatEmpty == FlattenSeq(<<>>) = <<>>
BY DEF FlattenSeq

LEMMA FlatType ==
    ASSUME NEW V, NEW ss \in Seq(Seq(V))
    PROVE  FlattenSeq(ss) \in Seq(V)
<1>1. CASE ss = <<>>
  BY <1>1, FlatEmpty, EmptySeq
<1>2. CASE ss # <<>>
  <2>1. Len(ss) \in Nat \ {0} /\ \A i \in 1 .. Len(ss) : ss[i] \in Seq(V)
    BY <1>2, EmptySeq, LenProperties, ElementOfSeq
  <2>2. PICK f : IsFlat(f, ss, Len(ss)) /\ FlattenSeq(ss) = f[Len(ss)]
    BY <2>1, FlatIs
  <2> DEFINE T == {k \in 1 .. Len(ss) : f[k] \notin Seq(V)}
  <2>3. CASE T # {}
    <3>1. PICK k \in T : \A j \in T : k <= j
      <4> HIDE DEF T
      <4>1. T \subseteq Nat
        BY DEF T
      <4> QED
        BY <2>3, <4>1, LeastNumber
    <3>2. k \in 1 .. Len(ss) /\ f[k] \notin Seq(V)
      OBVIOUS
    <3>3. f[k] = IF k = 1 THEN ss[k] ELSE f[k - 1] \o ss[k]
      BY <2>1, <2>2, <3>2, FlatAt
    <3>4. k # 1 => f[k - 1] \in Seq(V)
      <4>1. k # 1 => k - 1 \in 1 .. Len(ss) /\ ~(k <= k - 1)
        BY <2>1, <3>2
      <4> QED
        BY <3>1, <4>1
    <3>5. ss[k] \in Seq(V)
      BY <2>1, <3>2
    <3>6. k # 1 => f[k - 1] \o ss[k] \in Seq(V)
      BY <3>4, <3>5, ConcatProperties
    <3> QED
      BY <3>2, <3>3, <3>5, <3>6
  <2>4. CASE T = {}
    <3>1. Len(ss) \in 1 .. Len(ss)
      BY <2>1
    <3> QED
      BY <2>2, <2>4, <3>1
  <2> QED
    BY <2>3, <2>4
<1> QED
  BY <1>1, <1>2

LEMMA FlatAppend ==
    ASSUME NEW V, NEW ss \in Seq(Seq(V)), NEW s \in Seq(V)
    PROVE  FlattenSeq(Append(ss, s)) = FlattenSeq(ss) \o s
<1> DEFINE tt == Append(ss, s)
<1>1. /\ tt \in Seq(Seq(V)) /\ Len(tt) = Len(ss) + 1 /\ tt[Len(ss) + 1] = s
      /\ \A i \in 1 .. Len(ss) : tt[i] = ss[i]
  BY AppendProperties
<1> HIDE DEF tt
<1>2. Len(ss) \in Nat /\ Len(tt) \in Nat \ {0}
  BY <1>1, LenProperties
<1>3. PICK h : IsFlat(h, tt, Len(tt)) /\ FlattenSeq(tt) = h[Len(tt)]
  BY <1>2, FlatIs
<1>4. Len(tt) \in 1 .. Len(tt)
  BY <1>2
<1>5. h[Len(tt)] = IF Len(tt) = 1 THEN tt[Len(tt)] ELSE h[Len(tt) - 1] \o tt[Len(tt)]
  <2>1. PICK n \in Nat : n = Len(tt)
    BY <1>2
  <2>2. IsFlat(h, tt, n) /\ n \in 1 .. n
    BY <1>3, <1>4, <2>1
  <2>3. h[n] = IF n = 1 THEN tt[n] ELSE h[n - 1] \o tt[n]
    BY <2>2, FlatAt
  <2> QED
    BY <2>1, <2>3
<1>6. CASE ss = <<>>
  <2>1. Len(tt) = 1
    BY <1>1, <1>6
  <2>2. FlattenSeq(tt) = s
    BY <1>1, <1>3, <1>5, <2>1, <1>6
  <2>3. <<>> \o s = s
    OBVIOUS
  <2> QED
    BY <1>6, <2>2, <2>3, FlatEmpty DEF tt
<1>7. CASE ss # <<>>
  <2>1. Len(ss) \in Nat \ {0}
    BY <1>7, EmptySeq, LenProperties
  <2>2. PICK f : IsFlat(f, ss, Len(ss)) /\ FlattenSeq(ss) = f[Len(ss)]
    BY <2>1, FlatIs
  <2>3. \A i \in 1 .. Len(ss) : h[i] = f[i]
    <3>1. PICK n \in Nat, m \in Nat : n = Len(ss) /\ m = Len(tt) /\ n <= m
      BY <1>1, <1>2
    <3>2. /\ Agrees(ss, tt, n)
          /\ IsFlat(f, ss, n) /\ IsFlat(h, tt, m)
      BY <1>1, <1>3, <2>2, <3>1 DEF Agrees
    <3>3. Agrees(f, h, n)
      BY <3>1, <3>2, FlatAgree
    <3> QED
      BY <3>1, <3>3 DEF Agrees
  <2>4. Len(tt) - 1 = Len(ss) /\ Len(tt) # 1 /\ Len(ss) \in 1 .. Len(ss)
    BY <1>1, <2>1
  <2>5. FlattenSeq(tt) = h[Len(ss)] \o s
    BY <1>1, <1>3, <1>5, <2>4
  <2> QED
    BY <2>2, <2>3, <2>4, <2>5 DEF tt
<1> QED
  BY <1>6, <1>7

-----------------------------------------------------------------------------
(* The array of threads.                                                   *)
MadeThreads == 0 .. made - 1

Array ==
    /\ made \in Nat /\ started \in 0 .. made
    /\ slots \in Seq(MadeThreads) /\ nbThreads \in 0 .. Len(slots) /\ nbThreads <= made
    /\ \A i, j \in 1 .. nbThreads : slots[i] = slots[j] => i = j

LEMMA StartedArray == InitGrowth => Array
<1> SUFFICES ASSUME InitGrowth PROVE Array
  OBVIOUS
<1>1. slots = <<>> /\ nbThreads = 0 /\ made = 0 /\ started = 0
  BY DEF InitGrowth
<1>2. slots \in Seq(MadeThreads) /\ Len(slots) = 0
  BY <1>1, EmptySeq
<1> QED
  BY <1>1, <1>2 DEF Array

LEMMA SlotIs ==
    ASSUME Array, NEW i \in Nat, i < Len(slots)
    PROVE  ThreadAt(i) \in MadeThreads /\ ThreadAt(i) \in Nat
<1>1. slots \in Seq(MadeThreads) /\ Len(slots) \in Nat /\ made \in Nat
  BY LenProperties DEF Array
<1>2. i + 1 \in 1 .. Len(slots)
  BY <1>1
<1>3. slots[i + 1] \in MadeThreads
  BY <1>1, <1>2, ElementOfSeq
<1> QED
  BY <1>1, <1>3 DEF ThreadAt, MadeThreads

LEMMA GreaterOf ==
    ASSUME NEW a \in Nat, NEW b \in Nat
    PROVE  Max({a, b}) \in {a, b} /\ Max({a, b}) >= a /\ Max({a, b}) >= b
<1>1. a <= b \/ b <= a
  OBVIOUS
<1>2. \E x \in {a, b} : \A y \in {a, b} : x >= y
  BY <1>1
<1> QED
  BY <1>2 DEF Max

(* What is in the array after new threads were added. *)
LEMMA ArrayGrows ==
    ASSUME Array, NEW n \in Nat,
           slots' = Grown(n), nbThreads' = nbThreads + n, made' = made + n, started' = started
    PROVE  Array' /\ Len(slots') >= Len(slots) /\ Len(slots') \in Nat
<1> DEFINE m == Max({Len(slots), nbThreads + n})
           E(i) == IF i > nbThreads /\ i <= nbThreads + n THEN made + (i - nbThreads) - 1 ELSE slots[i]
<1>1. /\ made \in Nat /\ started \in 0 .. made /\ slots \in Seq(MadeThreads) /\ Len(slots) \in Nat
      /\ nbThreads \in 0 .. Len(slots) /\ nbThreads <= made /\ nbThreads \in Nat
      /\ \A i, j \in 1 .. nbThreads : slots[i] = slots[j] => i = j
  BY LenProperties DEF Array
<1>2. m \in Nat /\ m >= Len(slots) /\ m >= nbThreads + n /\ m \in {Len(slots), nbThreads + n}
  BY <1>1, GreaterOf
<1>3. slots' = [i \in 1 .. m |-> E(i)]
  BY DEF Grown
<1> HIDE DEF m
<1>4. ASSUME NEW i \in 1 .. m PROVE E(i) \in 0 .. made + n - 1
  <2>1. CASE i > nbThreads /\ i <= nbThreads + n
    BY <1>1, <2>1
  <2>2. CASE ~(i > nbThreads /\ i <= nbThreads + n)
    <3>1. i \in 1 .. Len(slots)
      BY <1>1, <1>2, <2>2
    <3>2. slots[i] \in MadeThreads
      BY <1>1, <3>1, ElementOfSeq
    <3> QED
      BY <1>1, <2>2, <3>2 DEF MadeThreads
  <2> QED
    BY <2>1, <2>2
<1>5. \A i \in 1 .. m : slots'[i] = E(i)
  BY <1>3
<1>6. slots' \in Seq(0 .. made + n - 1) /\ Len(slots') = m
  <2> HIDE DEF E
  <2> QED
    BY <1>2, <1>3, <1>4
<1>7. \A i \in 1 .. nbThreads : slots[i] \in 0 .. made - 1
  BY <1>1, ElementOfSeq DEF MadeThreads
<1>8. ASSUME NEW i \in 1 .. nbThreads + n, NEW j \in 1 .. nbThreads + n, slots'[i] = slots'[j]
      PROVE  i = j
  <2>1. i \in 1 .. m /\ j \in 1 .. m
    BY <1>1, <1>2
  <2>2. E(i) = E(j)
    BY <1>5, <1>8, <2>1
  <2>3. CASE i > nbThreads /\ j > nbThreads
    BY <1>1, <2>2, <2>3
  <2>4. CASE i <= nbThreads /\ j <= nbThreads
    BY <1>1, <2>2, <2>4
  <2>5. CASE i > nbThreads /\ j <= nbThreads
    <3>1. E(i) = made + (i - nbThreads) - 1 /\ E(j) = slots[j] /\ j \in 1 .. nbThreads
      BY <1>1, <2>5
    <3> QED
      BY <1>1, <1>7, <2>2, <2>5, <3>1
  <2>6. CASE i <= nbThreads /\ j > nbThreads
    <3>1. E(j) = made + (j - nbThreads) - 1 /\ E(i) = slots[i] /\ i \in 1 .. nbThreads
      BY <1>1, <2>6
    <3> QED
      BY <1>1, <1>7, <2>2, <2>6, <3>1
  <2> QED
    BY <1>1, <2>3, <2>4, <2>5, <2>6
<1> QED
  BY <1>1, <1>2, <1>6, <1>8 DEF Array, MadeThreads

(* What is in the array after a thread has taken itself out. *)
LEMMA ArrayShrinks ==
    ASSUME Array, NEW t \in Live,
           slots' = Erased(t), nbThreads' = nbThreads - 1, UNCHANGED <<made, started>>
    PROVE  Array' /\ Len(slots') = Len(slots) /\ nbThreads >= 1 /\ Live' \subseteq Live \ {t}
<1>1. /\ made \in Nat /\ started \in 0 .. made /\ slots \in Seq(MadeThreads) /\ Len(slots) \in Nat
      /\ nbThreads \in 0 .. Len(slots) /\ nbThreads <= made /\ nbThreads \in Nat
      /\ \A i, j \in 1 .. nbThreads : slots[i] = slots[j] => i = j
      /\ DOMAIN slots = 1 .. Len(slots)
  BY LenProperties DEF Array
<1> DEFINE at == CHOOSE i \in 1 .. nbThreads : slots[i] = t
           E(i) == IF i >= at /\ i < nbThreads THEN slots[i + 1] ELSE slots[i]
<1>2. \E i \in 1 .. nbThreads : slots[i] = t
  <2>1. PICK i \in 0 .. nbThreads - 1 : t = slots[i + 1]
    BY DEF Live, ThreadAt
  <2>2. i + 1 \in 1 .. nbThreads
    BY <1>1
  <2> QED
    BY <2>1, <2>2
<1>3. at \in 1 .. nbThreads /\ slots[at] = t
  BY <1>2
<1>4. slots' = [i \in 1 .. Len(slots) |-> E(i)]
  BY <1>1 DEF Erased
<1> HIDE DEF at
<1>5. ASSUME NEW i \in 1 .. Len(slots) PROVE E(i) \in MadeThreads
  <2>1. i + 1 \in 1 .. Len(slots) \/ ~(i < nbThreads)
    BY <1>1
  <2> QED
    BY <1>1, <2>1, ElementOfSeq
<1>6. \A i \in 1 .. Len(slots) : slots'[i] = E(i)
  BY <1>4
<1>7. slots' \in Seq(MadeThreads) /\ Len(slots') = Len(slots)
  <2> HIDE DEF E
  <2> QED
    BY <1>1, <1>4, <1>5
<1> DEFINE up(i) == IF i >= at THEN i + 1 ELSE i
<1>8. \A i \in 1 .. nbThreads - 1 :
         /\ slots'[i] = slots[up(i)] /\ up(i) \in 1 .. nbThreads /\ up(i) # at
         /\ \A j \in 1 .. nbThreads - 1 : up(i) = up(j) => i = j
  BY <1>1, <1>3, <1>6
<1>9. \A i, j \in 1 .. nbThreads - 1 : slots'[i] = slots'[j] => i = j
  <2> HIDE DEF up
  <2> QED
    BY <1>1, <1>8
<1>10. Array'
  BY <1>1, <1>3, <1>7, <1>9 DEF Array, MadeThreads
<1>11. ASSUME NEW u \in Live' PROVE u \in Live \ {t}
  <2>1. PICK i \in 0 .. nbThreads - 2 : u = slots'[i + 1]
    BY <1>1 DEF Live, ThreadAt
  <2>2. i + 1 \in 1 .. nbThreads - 1
    BY <1>1
  <2>3. u = slots[up(i + 1)] /\ up(i + 1) \in 1 .. nbThreads /\ up(i + 1) # at
    BY <1>8, <2>1, <2>2
  <2>4. u # t
    BY <1>1, <1>3, <2>3
  <2>5. up(i + 1) - 1 \in 0 .. nbThreads - 1 /\ u = slots[(up(i + 1) - 1) + 1]
    BY <1>1, <2>3
  <2> QED
    BY <2>4, <2>5 DEF Live, ThreadAt
<1> QED
  BY <1>1, <1>3, <1>7, <1>10, <1>11

-----------------------------------------------------------------------------
(* Types and phases.                                                       *)
Blocks ==
    {b \in [host : Hosts, nodes : Seq(Nodes), nb : Nat] : Local(b.host) => b.nb = Len(b.nodes)}

JobsOf(J) == Seq([thread : Nat, nb : J])

NumberPlans == [grp : Groups, host : Hosts, nb : Nat, thread : Nat \cup {-1}, same : {FALSE}]
SamePlans == [grp : Groups, host : {Me}, same : {TRUE}, jobs : JobsOf({1})]
Plans == NumberPlans \cup SamePlans

Pcs == {"scan", "look", "take", "each", "rest", "lock", "pick", "make", "enter", "crash", "stuck"}

Building(L) ==
    [pc : Pcs, plan : Plans, nodes : Seq(Nodes), k : Nat, jobs : JobsOf(Nat), th : Nat, load : L,
     each : Nat, turn : Nat]

Even(p) == ~p.same /\ p.thread = -1

Built(b) ==
    /\ \E L : b \in Building(L)
    /\ b.plan.same => b.jobs \in JobsOf({1})
    /\ ~b.plan.same => Len(b.jobs) <= 1
    /\ ~Even(b.plan) => b.each = 0

(* The beginning of a spread, before the first thread is taken. *)
Choosing == {"scan", "look", "take", "each", "rest"}

Phase(b) ==
    /\ b.pc \in {"rest", "lock"} => b.k = 0
    /\ b.pc = "enter" => b.k \in 0 .. 3 /\ b.jobs \in JobsOf(Nat)
    /\ b.pc # "enter" => Local(b.plan.host)
    /\ b.pc \in Choosing => b.nodes = <<>> /\ Even(b.plan) /\ b.jobs = <<>> /\ b.turn = 0
    /\ b.pc = "pick" => b.jobs = <<>> /\ b.each > 0 /\ b.k = 0
    /\ b.pc = "make" => b.jobs # <<>>
    /\ ~Local(b.plan.host) => b.nodes = <<>>

(* Where the array may be indexed. *)
InArray(b) ==
    /\ b.pc \in {"look", "take"} => b.k < Len(slots)
    /\ b.pc = "make" /\ ~b.plan.same => Head(b.jobs).thread < Len(slots)
    /\ b.pc \notin {"scan", "look", "take", "each", "enter", "crash"} /\ Even(b.plan) =>
          b.th < Len(slots)
    /\ Even(b.plan) =>
          /\ b.th = 0 \/ b.th < Len(slots)
          /\ \A i \in 1 .. Len(b.jobs) : b.jobs[i].thread < Len(slots)
    /\ ~b.plan.same /\ b.plan.thread # -1 =>
          \A i \in 1 .. Len(b.jobs) : b.jobs[i].thread = b.plan.thread
    /\ b.pc = "crash" => nbThreads = 0 \/ b.plan.thread >= Len(slots)

Lists ==
    /\ hosts \in [Groups -> Seq(Blocks)] /\ local_hosts \in [Groups -> Seq(Blocks)]
    /\ nb_nodes \in [Groups -> Nat] /\ nb_local_nodes \in [Groups -> Nat]

Text == script \in Seq(Statements) /\ pos \in 0 .. Len(script) /\ Len(script) \in Nat

Sound(b) == Built(b) /\ Phase(b) /\ InArray(b)

Shape ==
    /\ Text /\ Array /\ Lists /\ plans \in Seq(Plans)
    /\ block # None => Sound(block)

LEMMA StartedShape == InitGrowth => Shape
<1> SUFFICES ASSUME InitGrowth PROVE Shape
  OBVIOUS
<1>0. Array
  BY StartedArray
<1> USE DEF InitGrowth
<1>1. Text
  <2>1. script \in Seq(Statements)
    BY ConstantsAssumption
  <2> QED
    BY <2>1, LenProperties DEF Text
<1>2. Lists
  BY EmptySeq DEF Lists
<1> QED
  BY <1>0, <1>1, <1>2, EmptySeq DEF Shape

LEMMA PlanFields ==
    ASSUME NEW p \in Plans
    PROVE  /\ p.grp \in Groups /\ p.host \in Hosts /\ p.same \in BOOLEAN
           /\ p.same => p.host = Me /\ p.jobs \in JobsOf({1})
           /\ ~p.same => p.nb \in Nat /\ p.thread \in Nat \cup {-1}
<1>1. CASE p \in NumberPlans
  BY <1>1 DEF NumberPlans
<1>2. CASE p \in SamePlans
  <2>1. p.same = TRUE /\ p.host = Me
    BY <1>2 DEF SamePlans
  <2> QED
    BY <1>2, <2>1 DEF SamePlans, Hosts
<1> QED
  BY <1>1, <1>2 DEF Plans

LEMMA BlockFields ==
    ASSUME NEW b, Built(b)
    PROVE  /\ b.pc \in Pcs /\ b.plan \in Plans
           /\ b.nodes \in Seq(Nodes) /\ b.k \in Nat /\ b.th \in Nat /\ b.jobs \in JobsOf(Nat)
           /\ b.each \in Nat /\ b.turn \in Nat
           /\ b # None /\ b.plan.grp \in Groups /\ b.plan.host \in Hosts /\ b.plan.same \in BOOLEAN
<1>1. PICK L : b \in Building(L)
  BY DEF Built
<1>2. /\ b.pc \in Pcs /\ b.plan \in Plans
      /\ b.nodes \in Seq(Nodes) /\ b.k \in Nat /\ b.th \in Nat /\ b.jobs \in JobsOf(Nat)
      /\ b.each \in Nat /\ b.turn \in Nat
  BY <1>1 DEF Building
<1>3. b # None
  <2>1. None.pc = "none"
    BY DEF None
  <2> QED
    BY <1>2, <2>1 DEF Pcs
<1> QED
  BY <1>2, <1>3, PlanFields

(* The first job, its thread and its number. *)
LEMMA FirstJob ==
    ASSUME NEW b, Built(b), b.jobs # <<>>
    PROVE  /\ Head(b.jobs).thread \in Nat /\ Head(b.jobs).nb \in Nat
           /\ b.plan.same => Head(b.jobs).nb = 1
           /\ Tail(b.jobs) \in JobsOf(Nat) /\ (b.plan.same => Tail(b.jobs) \in JobsOf({1}))
           /\ Len(b.jobs) \in Nat /\ Len(b.jobs) >= 1 /\ Len(Tail(b.jobs)) = Len(b.jobs) - 1
           /\ Head(b.jobs) = b.jobs[1]
           /\ \A i \in 1 .. Len(Tail(b.jobs)) : Tail(b.jobs)[i] = b.jobs[i + 1]
           /\ ~b.plan.same => Tail(b.jobs) = <<>>
<1>1. b.jobs \in JobsOf(Nat) /\ (b.plan.same => b.jobs \in JobsOf({1}))
  BY BlockFields DEF Built
<1>2. ASSUME NEW J, b.jobs \in JobsOf(J)
      PROVE  Head(b.jobs) \in [thread : Nat, nb : J] /\ Tail(b.jobs) \in JobsOf(J)
  BY <1>2, HeadTailProperties DEF JobsOf
<1>3. /\ Len(b.jobs) \in Nat /\ Len(b.jobs) >= 1 /\ Len(Tail(b.jobs)) = Len(b.jobs) - 1
      /\ Head(b.jobs) = b.jobs[1]
      /\ \A i \in 1 .. Len(Tail(b.jobs)) : Tail(b.jobs)[i] = b.jobs[i + 1]
  BY <1>1, HeadTailProperties, LenProperties, EmptySeq DEF JobsOf
<1>4. ~b.plan.same => Tail(b.jobs) = <<>>
  <2>1. Tail(b.jobs) \in Seq([thread : Nat, nb : Nat])
    BY <1>1, <1>2 DEF JobsOf
  <2>2. ASSUME ~b.plan.same PROVE Len(Tail(b.jobs)) = 0
    <3>1. Len(b.jobs) <= 1
      BY <2>2 DEF Built
    <3>2. Len(b.jobs) \in Nat /\ Len(b.jobs) >= 1 /\ Len(Tail(b.jobs)) = Len(b.jobs) - 1
      BY <1>3
    <3>3. \A x \in Nat : x >= 1 /\ x <= 1 => x - 1 = 0
      OBVIOUS
    <3> QED
      BY <3>1, <3>2, <3>3
  <2> QED
    BY <2>1, <2>2, EmptySeq
<1> QED
  BY <1>1, <1>2, <1>3, <1>4

LEMMA StatementRead ==
    ASSUME Text, pos < Len(script)
    PROVE  script[pos + 1] \in Statements /\ pos + 1 \in 0 .. Len(script)
<1>1. Len(script) \in Nat /\ pos + 1 \in 1 .. Len(script)
  BY DEF Text
<1> QED
  BY <1>1, ElementOfSeq DEF Text

(* A statement changes the text only, but for the plans. *)
LEMMA ShapeRead ==
    ASSUME Shape, Ready, pos' = pos + 1, plans' \in Seq(Plans),
           UNCHANGED <<script, lists, block>>, Array'
    PROVE  Shape'
<1>1. Text /\ pos < Len(script) /\ block = None
  BY DEF Ready, Shape
<1>2. Text'
  BY <1>1, StatementRead DEF Text
<1> QED
  BY <1>1, <1>2 DEF Shape, Lists, lists

LEMMA SameArray ==
    ASSUME Array, UNCHANGED <<array, started>>
    PROVE  Array'
BY DEF Array, array, MadeThreads

LEMMA AssignPlan ==
    ASSUME NEW s \in Statements, s.op = "assign"
    PROVE  /\ Plan(s.grp, s.host, Amount(s), s.thread) \in Plans
           /\ s.grp \in Groups /\ s.host \in Hosts /\ s.thread \in Nat \cup {-1}
           /\ Amount(s) \in Nat
<1>3. /\ s.grp \in Groups /\ s.host \in Hosts /\ s.nb \in Nat /\ s.star \in BOOLEAN
      /\ s.thread \in Nat \cup {-1}
  BY DEF Statements
<1>4. Amount(s) \in Nat
  <2>1. DeclThreads[s.host] \in Nat
    BY <1>3, ConstantsAssumption
  <2>2. \A x, y \in Nat : x * y \in Nat
    OBVIOUS
  <2> QED
    BY <1>3, <2>1, <2>2 DEF Amount
<1>5. Plan(s.grp, s.host, Amount(s), s.thread) \in Plans
  BY <1>3, <1>4 DEF Plan, Plans, NumberPlans
<1> QED
  BY <1>3, <1>4, <1>5

LEMMA AssignShape ==
    ASSUME Shape, execute_statement_assign
    PROVE  Shape'
<1> DEFINE s == script[pos + 1]
           p == Plan(s.grp, s.host, Amount(s), s.thread)
<1>1. Text /\ Array /\ pos < Len(script) /\ s.op = "assign" /\ Ready
  BY DEF execute_statement_assign, Ready, Shape
<1>2. s \in Statements
  BY <1>1, StatementRead
<1>5. p \in Plans
  BY <1>1, <1>2, AssignPlan
<1>6. /\ plans' \in {<<p>>, <<>>} /\ pos' = pos + 1
      /\ UNCHANGED <<script, array, lists, started, block>>
  BY DEF execute_statement_assign, life
<1> HIDE DEF p
<1>7. plans' \in Seq(Plans)
  <2>1. <<p>> \in Seq(Plans) /\ <<>> \in Seq(Plans)
    BY <1>5
  <2> QED
    BY <1>6, <2>1
<1> QED
  BY <1>1, <1>6, <1>7, ShapeRead, SameArray

LEMMA LeastOf ==
    ASSUME NEW a \in Nat, NEW b \in Nat
    PROVE  Min({a, b}) \in {a, b} /\ Min({a, b}) <= a /\ Min({a, b}) <= b
<1>1. a <= b \/ b <= a
  OBVIOUS
<1>2. \E x \in {a, b} : \A y \in {a, b} : x =< y
  BY <1>1
<1> QED
  BY <1>2 DEF Min

LEMMA LeastLimit ==
    ASSUME NEW limit \in Nat \cup {-1}, NEW n \in Nat
    PROVE  Least(limit, n) \in 0 .. n
<1>1. CASE limit = -1
  BY <1>1 DEF Least
<1>2. CASE limit # -1
  <2>1. limit \in Nat
    BY <1>2
  <2> QED
    BY <1>2, <2>1, LeastOf DEF Least
<1> QED
  BY <1>1, <1>2

LEMMA LikePlan ==
    ASSUME NEW g \in Groups, NEW nodes \in Seq(Nodes)
    PROVE  Like(g, nodes) \in Plans
<1> DEFINE jobs == [i \in DOMAIN nodes |-> [thread |-> nodes[i].thread, nb |-> 1]]
<1>1. DOMAIN nodes = 1 .. Len(nodes) /\ Len(nodes) \in Nat /\ \A i \in 1 .. Len(nodes) : nodes[i] \in Nodes
  BY LenProperties, ElementOfSeq
<1>2. \A i \in 1 .. Len(nodes) : [thread |-> nodes[i].thread, nb |-> 1] \in [thread : Nat, nb : {1}]
  BY <1>1 DEF Nodes
<1>3. jobs \in JobsOf({1})
  BY <1>1, <1>2 DEF JobsOf
<1> QED
  BY <1>3 DEF Like, Plans, SamePlans

LEMMA PlanLike ==
    ASSUME NEW s \in Statements, s.op = "same", NEW b \in Blocks
    PROVE  /\ (IF Local(b.host) THEN Like(s.grp, FirstNodes(s.limit, b))
               ELSE Plan(s.grp, b.host, Least(s.limit, b.nb), -1)) \in Plans
           /\ s.grp \in Groups /\ s.ref \in Groups /\ s.limit \in Nat \cup {-1}
           /\ Least(s.limit, b.nb) \in 0 .. b.nb /\ b.nb \in Nat /\ b.host \in Hosts
           /\ Local(b.host) => FirstNodes(s.limit, b) \in Seq(Nodes)
                               /\ Len(FirstNodes(s.limit, b)) = Least(s.limit, b.nb)
                               /\ \A i \in 1 .. Len(FirstNodes(s.limit, b)) :
                                     /\ FirstNodes(s.limit, b)[i] = b.nodes[i]
                                     /\ i \in 1 .. Len(b.nodes)
<1>3. s.grp \in Groups /\ s.ref \in Groups /\ s.limit \in Nat \cup {-1}
  BY DEF Statements
<1>4. /\ b.host \in Hosts /\ b.nodes \in Seq(Nodes) /\ b.nb \in Nat
      /\ Local(b.host) => b.nb = Len(b.nodes)
  BY DEF Blocks
<1>5. Least(s.limit, b.nb) \in 0 .. b.nb
  BY <1>3, <1>4, LeastLimit
<1> DEFINE l == Least(s.limit, b.nb)
<1> HIDE DEF l
<1>6. CASE Local(b.host)
  <2>1. l \in 0 .. Len(b.nodes) /\ Len(b.nodes) \in Nat
    BY <1>4, <1>5, <1>6 DEF l
  <2>2. /\ SubSeq(b.nodes, 1, l) \in Seq(Nodes) /\ Len(SubSeq(b.nodes, 1, l)) = l
        /\ \A i \in 1 .. l : SubSeq(b.nodes, 1, l)[i] = b.nodes[i] /\ i \in 1 .. Len(b.nodes)
    <3>1. \A i \in 1 .. l : i \in 1 .. Len(b.nodes)
      BY <2>1
    <3>2. Len(SubSeq(b.nodes, 1, l)) = l /\ SubSeq(b.nodes, 1, l) \in Seq(Nodes)
      BY <1>4, <2>1, <3>1, SubSeqProperties
    <3>3. \A i \in 1 .. l : SubSeq(b.nodes, 1, l)[i] = b.nodes[i]
      BY <1>4, <2>1
    <3> QED
      BY <3>1, <3>2, <3>3
  <2>3. FirstNodes(s.limit, b) = SubSeq(b.nodes, 1, l)
    BY DEF FirstNodes, l
  <2> QED
    BY <1>3, <1>4, <1>5, <1>6, <2>2, <2>3, LikePlan DEF l
<1>7. CASE ~Local(b.host)
  <2>1. Least(s.limit, b.nb) \in Nat
    BY <1>4, <1>5
  <2> QED
    BY <1>3, <1>4, <1>5, <1>7, <2>1 DEF Plan, Plans, NumberPlans
<1> QED
  BY <1>6, <1>7

LEMMA SameShape ==
    ASSUME Shape, assign_same_as
    PROVE  Shape'
<1> DEFINE s == script[pos + 1]
           P(b) == IF Local(b.host) THEN Like(s.grp, FirstNodes(s.limit, b))
                   ELSE Plan(s.grp, b.host, Least(s.limit, b.nb), -1)
           D == IF Known(s.grp) /\ Known(s.ref) THEN DOMAIN hosts[s.ref] ELSE {}
<1>1. Text /\ pos < Len(script) /\ s.op = "same" /\ Lists /\ Ready /\ Array
  BY DEF assign_same_as, Ready, Shape
<1>2. s \in Statements
  BY <1>1, StatementRead
<1>3. s.ref \in Groups
  BY <1>1, <1>2 DEF Statements
<1>4. ASSUME NEW b \in Blocks PROVE P(b) \in Plans
  BY <1>1, <1>2, PlanLike
<1>5. /\ plans' = [i \in D |-> P(hosts[s.ref][i])]
      /\ pos' = pos + 1 /\ UNCHANGED <<script, array, lists, started, block>>
  BY DEF assign_same_as, life
<1> HIDE DEF P
<1>6. plans' \in Seq(Plans)
  <2>1. hosts[s.ref] \in Seq(Blocks)
    BY <1>1, <1>3 DEF Lists
  <2> DEFINE q == hosts[s.ref]
  <2>2. DOMAIN q = 1 .. Len(q) /\ Len(q) \in Nat /\ \A i \in 1 .. Len(q) : q[i] \in Blocks
    BY <2>1, LenProperties, ElementOfSeq
  <2>3. D = 1 .. Len(q) \/ D = 1 .. 0
    BY <2>2
  <2>4. \A i \in D : q[i] \in Blocks
    BY <2>2, <2>3
  <2>5. plans' = [i \in D |-> P(q[i])]
    BY <1>5
  <2> HIDE DEF q, D
  <2>6. \A i \in D : P(q[i]) \in Plans
    BY <1>4, <2>4
  <2> QED
    BY <2>2, <2>3, <2>5, <2>6
<1> QED
  BY <1>1, <1>5, <1>6, ShapeRead, SameArray
(* The reader's steps on a block.                                          *)
LEMMA ShapeKept ==
    ASSUME Shape, UNCHANGED <<script, array, started>>, pos' \in 0 .. Len(script),
           plans' \in Seq(Plans), Lists', block' # None => Sound(block')
    PROVE  Shape'
<1>1. Array' /\ Text'
  BY SameArray DEF Shape, Text
<1>2. block' # None => Sound(block)'
  BY DEF Sound, InArray, array
<1> QED
  BY <1>1, <1>2 DEF Shape

LEMMA BegunBuilt ==
    ASSUME NEW p \in Plans, NEW pc \in Pcs, NEW jobs \in JobsOf(Nat),
           p.same => jobs \in JobsOf({1}), ~p.same => Len(jobs) <= 1
    PROVE  /\ Built(Begun(p, pc, jobs))
           /\ Begun(p, pc, jobs).pc = pc /\ Begun(p, pc, jobs).plan = p
           /\ Begun(p, pc, jobs).nodes = <<>> /\ Begun(p, pc, jobs).k = 0
           /\ Begun(p, pc, jobs).jobs = jobs
           /\ Begun(p, pc, jobs).load = -1 /\ Begun(p, pc, jobs).th = 0
           /\ Begun(p, pc, jobs).each = 0 /\ Begun(p, pc, jobs).turn = 0
<1> DEFINE b == Begun(p, pc, jobs)
<1>1. b = [pc |-> pc, plan |-> p, nodes |-> <<>>, k |-> 0, jobs |-> jobs, th |-> 0, load |-> -1,
           each |-> 0, turn |-> 0]
  BY DEF Begun
<1> HIDE DEF b
<1>2. b \in Building({-1})
  BY <1>1, EmptySeq DEF Building
<1>3. b.pc = pc /\ b.plan = p /\ b.nodes = <<>> /\ b.k = 0 /\ b.jobs = jobs
      /\ b.load = -1 /\ b.th = 0 /\ b.each = 0 /\ b.turn = 0
  BY <1>1
<1>4. Built(b)
  BY <1>2, <1>3 DEF Built
<1> QED
  BY <1>3, <1>4 DEF b

LEMMA NoJobs == <<>> \in JobsOf(Nat) /\ Len(<<>>) = 0 /\ <<>> \in JobsOf({1})
BY EmptySeq DEF JobsOf

LEMMA SingleJobs ==
    ASSUME NEW jobs \in JobsOf({1})
    PROVE  jobs \in JobsOf(Nat)
<1>1. jobs \in Seq([thread : Nat, nb : {1}])
  BY DEF JobsOf
<1>2. Len(jobs) \in Nat /\ jobs = [i \in 1 .. Len(jobs) |-> jobs[i]]
  BY <1>1, LenProperties
<1>3. \A i \in 1 .. Len(jobs) : jobs[i] \in [thread : Nat, nb : Nat]
  <2>1. \A i \in 1 .. Len(jobs) : jobs[i] \in [thread : Nat, nb : {1}]
    BY <1>1, ElementOfSeq
  <2> QED
    BY <2>1
<1>4. [i \in 1 .. Len(jobs) |-> jobs[i]] \in Seq([thread : Nat, nb : Nat])
  BY <1>2, <1>3
<1> QED
  BY <1>2, <1>4 DEF JobsOf

LEMMA OneJob ==
    ASSUME NEW t \in Nat, NEW n \in Nat
    PROVE  /\ <<Job(t, n)>> \in JobsOf(Nat) /\ Len(<<Job(t, n)>>) = 1
           /\ <<Job(t, n)>> # <<>> /\ Head(<<Job(t, n)>>) = Job(t, n)
           /\ Job(t, n).thread = t /\ Job(t, n).nb = n
           /\ <<Job(t, n)>>[1] = Job(t, n) /\ Tail(<<Job(t, n)>>) = <<>>
<1>1. Job(t, n) \in [thread : Nat, nb : Nat] /\ Job(t, n).thread = t /\ Job(t, n).nb = n
  BY DEF Job
<1> DEFINE j == Job(t, n)
<1> HIDE DEF j
<1>2. <<j>> \in JobsOf(Nat)
  BY <1>1 DEF JobsOf, j
<1>3. Len(<<j>>) = 1 /\ <<j>> # <<>> /\ Head(<<j>>) = j /\ <<j>>[1] = j /\ Tail(<<j>>) = <<>>
  OBVIOUS
<1> QED
  BY <1>1, <1>2, <1>3 DEF j

LEMMA NewBlockBuilt ==
    ASSUME Shape, NewBlock
    PROVE  /\ Head(plans) \in Plans /\ Tail(plans) \in Seq(Plans)
           /\ Sound(block') /\ block = None /\ plans # <<>> /\ plans' = Tail(plans)
           /\ block'.plan = Head(plans) /\ block'.nodes = <<>> /\ block'.k = 0
           /\ block'.each = 0 /\ block'.turn = 0 /\ block'.load = -1 /\ block'.th = 0
           /\ block'.pc \in {"lock", "enter", "scan"}
           /\ ~Head(plans).same /\ Head(plans).thread = -1 => block'.pc # "lock"
           /\ block'.pc = "lock" /\ Head(plans).same => block'.jobs = Head(plans).jobs
           /\ block'.pc = "lock" /\ ~Head(plans).same =>
                 Head(plans).thread \in Nat /\ Head(plans).nb \in Nat /\
                 block'.jobs = <<Job(Head(plans).thread, Head(plans).nb)>>
           /\ block'.pc # "lock" => block'.jobs = <<>> /\ ~Head(plans).same
           /\ block'.pc = "scan" => Head(plans).nb \in Nat
<1> DEFINE p == Head(plans)
<1>1. /\ p \in Plans /\ Tail(plans) \in Seq(Plans) /\ Array
      /\ block = None /\ plans # <<>> /\ plans' = Tail(plans)
  BY HeadTailProperties DEF Shape, NewBlock
<1>2. /\ p.same \in BOOLEAN /\ (p.same => p.host = Me /\ p.jobs \in JobsOf({1}))
      /\ (~p.same => p.nb \in Nat /\ p.thread \in Nat \cup {-1})
  BY <1>1, PlanFields
<1>3. block' =
             CASE p.same -> Begun(p, "lock", p.jobs)
               [] ~p.same /\ (~Local(p.host) \/ p.nb = 0) -> Begun(p, "enter", <<>>)
               [] ~p.same /\ Local(p.host) /\ p.nb > 0 /\ p.thread = -1 -> Begun(p, "scan", <<>>)
               [] ~p.same /\ Local(p.host) /\ p.nb > 0 /\ p.thread >= 0 ->
                     Begun(p, "lock", <<Job(p.thread, p.nb)>>)
  BY DEF NewBlock
<1>4. Len(slots) \in Nat
  BY <1>1, LenProperties DEF Array
<1> HIDE DEF p
<1>5. CASE p.same
  <2>1. block' = Begun(p, "lock", p.jobs)
    BY <1>3, <1>5
  <2>2. Local(p.host)
    BY <1>2, <1>5 DEF Local
  <2>3. p.jobs \in JobsOf(Nat)
    BY <1>2, <1>5, SingleJobs
  <2>4. /\ Built(block') /\ block'.pc = "lock" /\ block'.plan = p /\ block'.nodes = <<>> /\ block'.k = 0
        /\ block'.each = 0 /\ block'.turn = 0 /\ block'.load = -1 /\ block'.th = 0 /\ block'.jobs = p.jobs
    BY <1>1, <1>2, <1>5, <2>1, <2>3, BegunBuilt DEF Pcs
  <2>5. Phase(block') /\ InArray(block')
    BY <1>5, <2>2, <2>4 DEF Phase, InArray, Choosing, Even
  <2> QED
    BY <1>1, <1>5, <2>4, <2>5 DEF p, Sound
<1>6. CASE ~p.same /\ (~Local(p.host) \/ p.nb = 0)
  <2>1. block' = Begun(p, "enter", <<>>)
    BY <1>3, <1>6
  <2>2. /\ Built(block') /\ block'.pc = "enter" /\ block'.plan = p /\ block'.nodes = <<>> /\ block'.k = 0
        /\ block'.each = 0 /\ block'.turn = 0 /\ block'.load = -1 /\ block'.th = 0 /\ block'.jobs = <<>>
    BY <1>1, <1>6, <2>1, NoJobs, BegunBuilt DEF Pcs
  <2>3. Phase(block') /\ InArray(block')
    BY <1>6, <2>2, NoJobs DEF Phase, InArray, Choosing
  <2> QED
    BY <1>1, <1>6, <2>2, <2>3 DEF p, Sound
<1>7. CASE ~p.same /\ Local(p.host) /\ p.nb > 0 /\ p.thread = -1
  <2>1. block' = Begun(p, "scan", <<>>)
    BY <1>2, <1>3, <1>7
  <2>2. /\ Built(block') /\ block'.pc = "scan" /\ block'.plan = p /\ block'.nodes = <<>> /\ block'.k = 0
        /\ block'.each = 0 /\ block'.turn = 0 /\ block'.load = -1 /\ block'.th = 0 /\ block'.jobs = <<>>
    BY <1>1, <1>7, <2>1, NoJobs, BegunBuilt DEF Pcs
  <2>3. Phase(block') /\ InArray(block')
    BY <1>7, <2>2, NoJobs DEF Phase, InArray, Choosing, Even
  <2> QED
    BY <1>1, <1>2, <1>7, <2>2, <2>3 DEF p, Sound
<1>8. CASE ~p.same /\ Local(p.host) /\ p.nb > 0 /\ p.thread >= 0
  <2>1. block' = Begun(p, "lock", <<Job(p.thread, p.nb)>>)
    BY <1>2, <1>3, <1>8
  <2>2. p.thread \in Nat /\ p.nb \in Nat
    BY <1>2, <1>8
  <2> DEFINE js == <<Job(p.thread, p.nb)>>
  <2>3. js \in JobsOf(Nat) /\ Len(js) = 1 /\ js[1].thread = p.thread
    BY <2>2, OneJob
  <2>a. block' = Begun(p, "lock", js) /\ (~p.same => Len(js) <= 1) /\ "lock" \in Pcs
    BY <2>1, <2>3 DEF Pcs
  <2> HIDE DEF js
  <2>4. /\ Built(block') /\ block'.pc = "lock" /\ block'.plan = p /\ block'.nodes = <<>> /\ block'.k = 0
        /\ block'.each = 0 /\ block'.turn = 0 /\ block'.load = -1 /\ block'.th = 0 /\ block'.jobs = js
    BY <1>1, <1>8, <2>a, <2>3, BegunBuilt
  <2>5. \A i \in 1 .. 1 : js[i].thread = p.thread
    <3>1. \A i \in 1 .. 1 : i = 1
      OBVIOUS
    <3> QED
      BY <2>3, <3>1
  <2>b. ~Even(p) /\ Len(block'.jobs) = 1
    BY <2>2, <2>3, <2>4 DEF Even
  <2>6. Phase(block')
    BY <1>8, <2>4 DEF Phase, Choosing
  <2>7. InArray(block')
    BY <1>8, <2>4, <2>5, <2>b DEF InArray
  <2> QED
    BY <1>1, <1>8, <2>2, <2>4, <2>6, <2>7 DEF p, Sound, js
<1> QED
  BY <1>2, <1>5, <1>6, <1>7, <1>8

LEMMA BuiltIs ==
    ASSUME NEW b, Built(b)
    PROVE  /\ \E L : b \in Building(L)
           /\ b.plan.same => b.jobs \in JobsOf({1})
           /\ ~b.plan.same => Len(b.jobs) <= 1
           /\ ~Even(b.plan) => b.each = 0
BY DEF Built

(* The three reads of the loop over the threads. *)
LEMMA LightestBuilt ==
    ASSUME Shape, threads_get_lightest
    PROVE  /\ block # None /\ Sound(block) /\ Sound(block')
           /\ block'.plan = block.plan /\ block'.nodes = <<>> /\ block.nodes = <<>>
           /\ block'.jobs = <<>> /\ block'.turn = 0 /\ block'.each = block.each
           /\ block.pc \in {"scan", "look", "take"} /\ block'.pc \in {"scan", "look", "take", "each"}
           /\ \/ /\ block.pc = "scan" /\ block'.k = block.k
                 /\ block'.th = block.th /\ block'.load = block.load
                 /\ \/ block.k < nbThreads /\ block'.pc = "look"
                    \/ ~(block.k < nbThreads) /\ block'.pc = "each"
              \/ /\ block.pc = "look" /\ Lighter(ThreadAt(block.k)) /\ block'.pc = "take"
                 /\ block'.k = block.k /\ block'.th = block.th /\ block'.load = block.load
              \/ /\ block.pc = "look" /\ ~Lighter(ThreadAt(block.k)) /\ block'.pc = "scan"
                 /\ block'.k = block.k + 1 /\ block'.th = block.th /\ block'.load = block.load
              \/ /\ block.pc = "take" /\ block'.pc = "scan" /\ block'.k = block.k + 1
                 /\ block'.th = block.k /\ block'.load = Load(ThreadAt(block.k))
<1>1. block # None /\ Sound(block) /\ block.pc \in {"scan", "look", "take"} /\ Array
  BY DEF Shape, threads_get_lightest, At
<1>2. /\ Built(block) /\ Phase(block) /\ InArray(block)
      /\ block.plan \in Plans /\ block.k \in Nat /\ block.th \in Nat /\ block.nodes \in Seq(Nodes)
      /\ block.jobs \in JobsOf(Nat) /\ block.each \in Nat /\ block.turn \in Nat /\ block.k + 1 \in Nat
  BY <1>1, BlockFields DEF Sound
<1>3. /\ block.nodes = <<>> /\ Even(block.plan) /\ block.jobs = <<>> /\ block.turn = 0
      /\ Local(block.plan.host)
  BY <1>1, <1>2 DEF Phase, Choosing
<1>a. /\ block.plan.same => block.jobs \in JobsOf({1})
      /\ ~block.plan.same => Len(block.jobs) <= 1
      /\ ~Even(block.plan) => block.each = 0
  BY <1>2, BuiltIs
<1>4. nbThreads \in Nat /\ Len(slots) \in Nat /\ nbThreads <= Len(slots)
  BY <1>1, LenProperties DEF Array
<1>b. PICK L : block \in Building(L)
  BY <1>2, BuiltIs
<1> DEFINE Good(c) ==
      /\ \E M : c \in Building(M)
      /\ c.pc \in {"scan", "look", "take", "each"} /\ (c.pc \in {"look", "take"} => c.k < Len(slots))
      /\ c.th = 0 \/ c.th < Len(slots)
      /\ c.plan = block.plan /\ c.nodes = block.nodes /\ c.jobs = block.jobs
      /\ c.turn = block.turn /\ c.each = block.each
<1>5. ASSUME Good(block')
      PROVE  /\ Sound(block') /\ block'.plan = block.plan /\ block'.nodes = <<>> /\ block.nodes = <<>>
             /\ block'.jobs = <<>> /\ block'.turn = 0 /\ block'.each = block.each
             /\ block'.pc \in {"scan", "look", "take", "each"}
  <2>2. Built(block')
    BY <1>a, <1>5 DEF Built
  <2>3. Phase(block')
    BY <1>3, <1>5 DEF Phase, Choosing
  <2>4. InArray(block')
    <3>1. Len(<<>>) = 0 /\ ~(-1 # -1) /\ 1 .. 0 = {}
      BY NoJobs
    <3>2. block'.plan.thread = -1 /\ ~block'.plan.same /\ block'.jobs = <<>>
      BY <1>3, <1>5 DEF Even
    <3> QED
      BY <1>5, <3>1, <3>2 DEF InArray
  <2> QED
    BY <1>3, <1>5, <2>2, <2>3, <2>4 DEF Sound
<1>6. block.th = 0 \/ block.th < Len(slots)
  BY <1>2, <1>3 DEF InArray
<1>7. CASE block.pc = "scan"
  <2>1. PICK x \in {"look", "each"} : x = (IF block.k < nbThreads THEN "look" ELSE "each")
    OBVIOUS
  <2>2. block' = [block EXCEPT !.pc = x]
    BY <1>7, <2>1 DEF threads_get_lightest, At, Goto
  <2>3. /\ block' \in Building(L) /\ block'.pc = x /\ block'.k = block.k /\ block'.th = block.th
        /\ block'.load = block.load /\ block'.plan = block.plan /\ block'.nodes = block.nodes
        /\ block'.jobs = block.jobs /\ block'.turn = block.turn /\ block'.each = block.each
    BY <1>b, <2>2 DEF Building, Pcs
  <2>4. x = "look" => block.k < Len(slots)
    BY <1>2, <1>4, <2>1
  <2>5. Good(block')
    BY <1>6, <2>3, <2>4
  <2> HIDE DEF Good
  <2> QED
    BY <1>1, <1>5, <1>7, <2>1, <2>3, <2>5
<1>8. CASE block.pc = "look"
  <2>1. block' = IF Lighter(ThreadAt(block.k)) THEN [block EXCEPT !.pc = "take"]
                 ELSE [block EXCEPT !.pc = "scan", !.k = block.k + 1]
    BY <1>8 DEF threads_get_lightest, At
  <2>2. block.k < Len(slots)
    BY <1>2, <1>8 DEF InArray
  <2>3. CASE Lighter(ThreadAt(block.k))
    <3>1. block' = [block EXCEPT !.pc = "take"]
      BY <2>1, <2>3
    <3>2. /\ block' \in Building(L) /\ block'.pc = "take" /\ block'.k = block.k /\ block'.th = block.th
          /\ block'.load = block.load /\ block'.plan = block.plan /\ block'.nodes = block.nodes
          /\ block'.jobs = block.jobs /\ block'.turn = block.turn /\ block'.each = block.each
      BY <1>b, <3>1 DEF Building, Pcs
    <3>3. Good(block')
      BY <1>6, <2>2, <3>2
    <3> HIDE DEF Good
    <3> QED
      BY <1>1, <1>5, <1>8, <2>3, <3>2, <3>3
  <2>4. CASE ~Lighter(ThreadAt(block.k))
    <3>1. block' = [block EXCEPT !.pc = "scan", !.k = block.k + 1]
      BY <2>1, <2>4
    <3>2. /\ block' \in Building(L) /\ block'.pc = "scan" /\ block'.k = block.k + 1
          /\ block'.th = block.th
          /\ block'.load = block.load /\ block'.plan = block.plan /\ block'.nodes = block.nodes
          /\ block'.jobs = block.jobs /\ block'.turn = block.turn /\ block'.each = block.each
      BY <1>2, <1>b, <3>1 DEF Building, Pcs
    <3>3. Good(block')
      BY <1>6, <3>2
    <3> HIDE DEF Good
    <3> QED
      BY <1>1, <1>5, <1>8, <2>4, <3>2, <3>3
  <2> QED
    BY <2>3, <2>4
<1>9. CASE block.pc = "take"
  <2>1. PICK l : l = Load(ThreadAt(block.k))
    OBVIOUS
  <2>2. block' = [block EXCEPT !.pc = "scan", !.th = block.k, !.load = l, !.k = block.k + 1]
    BY <1>9, <2>1 DEF threads_get_lightest, At
  <2>3. block.k < Len(slots)
    BY <1>2, <1>9 DEF InArray
  <2>4. /\ block' \in Building({l}) /\ block'.pc = "scan" /\ block'.k = block.k + 1
        /\ block'.th = block.k
        /\ block'.load = l /\ block'.plan = block.plan /\ block'.nodes = block.nodes
        /\ block'.jobs = block.jobs /\ block'.turn = block.turn /\ block'.each = block.each
    BY <1>2, <1>b, <2>2 DEF Building, Pcs
  <2>5. Good(block')
    BY <2>3, <2>4
  <2> HIDE DEF Good
  <2> QED
    BY <1>1, <1>5, <1>9, <2>1, <2>4, <2>5
<1> QED
  BY <1>1, <1>7, <1>8, <1>9

(* The division among the threads, and the rest. *)
LEMMA ShareBuilt ==
    ASSUME Shape, Share
    PROVE  /\ block # None /\ Sound(block) /\ Sound(block')
           /\ block'.plan = block.plan /\ block'.nodes = <<>> /\ block.nodes = <<>>
           /\ block.jobs = <<>> /\ block'.turn = 0 /\ block'.th = block.th
           /\ block.plan.nb \in Nat
           /\ \/ block.pc = "each" /\ nbThreads = 0 /\ block'.pc = "crash" /\ block'.jobs = <<>>
              \/ /\ block.pc = "each" /\ nbThreads > 0 /\ block'.pc = "rest" /\ block'.jobs = <<>>
                 /\ block'.each = block.plan.nb \div nbThreads
              \/ /\ block.pc = "rest" /\ block'.pc = "lock" /\ block'.each = block.each
                 /\ block'.k = block.k
                 /\ \/ /\ block.plan.nb - block.each * nbThreads > 0
                       /\ block.plan.nb - block.each * nbThreads \in Nat
                       /\ block'.jobs = <<Job(block.th, block.plan.nb - block.each * nbThreads)>>
                    \/ /\ ~(block.plan.nb - block.each * nbThreads > 0)
                       /\ block'.jobs = <<>>
<1>1. block # None /\ Sound(block) /\ block.pc \in {"each", "rest"} /\ Array
  BY DEF Shape, Share, At
<1>2. /\ Built(block) /\ Phase(block) /\ InArray(block)
      /\ block.plan \in Plans /\ block.k \in Nat /\ block.th \in Nat /\ block.nodes \in Seq(Nodes)
      /\ block.jobs \in JobsOf(Nat) /\ block.each \in Nat /\ block.turn \in Nat
  BY <1>1, BlockFields DEF Sound
<1>3. /\ block.nodes = <<>> /\ Even(block.plan) /\ block.jobs = <<>> /\ block.turn = 0
      /\ Local(block.plan.host)
  BY <1>1, <1>2 DEF Phase, Choosing
<1>4. nbThreads \in Nat /\ Len(slots) \in Nat /\ nbThreads <= Len(slots)
  BY <1>1, LenProperties DEF Array
<1>5. block.plan.nb \in Nat /\ ~block.plan.same /\ block.plan.thread = -1
  BY <1>2, <1>3, PlanFields DEF Even
<1>6. PICK L : block \in Building(L)
  BY <1>2, BuiltIs
<1>7. /\ Len(<<>>) = 0 /\ 1 .. 0 = {} /\ <<>> \in JobsOf(Nat)
      /\ block.th = 0 \/ block.th < Len(slots)
  BY <1>2, <1>3, NoJobs DEF InArray
<1>8. CASE block.pc = "each" /\ nbThreads = 0
  <2>1. block' = [block EXCEPT !.pc = "crash"]
    BY <1>8 DEF Share, At, Goto
  <2>2. /\ block' \in Building(L) /\ block'.pc = "crash" /\ block'.k = block.k /\ block'.th = block.th
        /\ block'.plan = block.plan /\ block'.nodes = block.nodes
        /\ block'.jobs = block.jobs /\ block'.turn = block.turn /\ block'.each = block.each
    BY <1>6, <2>1 DEF Building, Pcs
  <2>3. Built(block')
    BY <1>3, <1>5, <1>7, <2>2 DEF Built
  <2>4. Phase(block') /\ InArray(block')
    BY <1>3, <1>5, <1>7, <1>8, <2>2 DEF Phase, Choosing, InArray
  <2> QED
    BY <1>1, <1>3, <1>5, <1>8, <2>2, <2>3, <2>4 DEF Sound
<1>9. CASE block.pc = "each" /\ nbThreads > 0
  <2>1. PICK e : e = block.plan.nb \div nbThreads
    OBVIOUS
  <2>2. e \in Nat
    <3>1. ASSUME NEW x \in Nat, NEW n \in Nat, n > 0 PROVE x \div n \in Nat
      BY <3>1
    <3>2. PICK x \in Nat : x = block.plan.nb
      BY <1>5
    <3>3. x \div nbThreads \in Nat
      BY <1>4, <1>9, <3>1
    <3> QED
      BY <2>1, <3>2, <3>3
  <2>3. block' = [block EXCEPT !.pc = "rest", !.k = 0, !.each = e]
    BY <1>9, <2>1 DEF Share, At
  <2>4. /\ block' \in Building(L) /\ block'.pc = "rest" /\ block'.k = 0 /\ block'.th = block.th
        /\ block'.plan = block.plan /\ block'.nodes = block.nodes
        /\ block'.jobs = block.jobs /\ block'.turn = block.turn /\ block'.each = e
    BY <1>6, <2>2, <2>3 DEF Building, Pcs
  <2>5. Built(block')
    BY <1>3, <1>5, <1>7, <2>4 DEF Built
  <2>6. Phase(block')
    BY <1>3, <1>5, <1>7, <2>4 DEF Phase, Choosing
  <2>7. InArray(block')
    <3>1. block.th < Len(slots)
      BY <1>2, <1>4, <1>7, <1>9
    <3> QED
      BY <1>3, <1>5, <1>7, <2>4, <3>1 DEF InArray
  <2> QED
    BY <1>1, <1>3, <1>5, <1>9, <2>1, <2>4, <2>5, <2>6, <2>7 DEF Sound
<1>10. CASE block.pc = "rest"
  <2>1. PICK r : r = block.plan.nb - block.each * nbThreads
    OBVIOUS
  <2> DEFINE js == IF r > 0 THEN <<Job(block.th, r)>> ELSE <<>>
  <2>2. block' = [block EXCEPT !.pc = "lock", !.jobs = js]
    BY <1>10, <2>1 DEF Share, At
  <2>3. r \in Int
    <3>1. \A x, y \in Nat : x * y \in Int
      OBVIOUS
    <3>2. block.each * nbThreads \in Int
      BY <1>2, <1>4, <3>1
    <3> QED
      BY <1>5, <2>1, <3>2
  <2>4. block.th < Len(slots)
    BY <1>2, <1>3, <1>10 DEF InArray
  <2>5. /\ js \in JobsOf(Nat) /\ Len(js) <= 1 /\ \A i \in 1 .. Len(js) : js[i].thread = block.th
        /\ \/ r > 0 /\ r \in Nat /\ js = <<Job(block.th, r)>>
           \/ ~(r > 0) /\ js = <<>>
    <3>1. CASE r > 0
      <4>1. r \in Nat
        BY <2>3, <3>1
      <4>2. /\ <<Job(block.th, r)>> \in JobsOf(Nat) /\ Len(<<Job(block.th, r)>>) = 1
            /\ <<Job(block.th, r)>>[1].thread = block.th
        BY <1>2, <4>1, OneJob
      <4>3. \A i \in 1 .. 1 : i = 1
        OBVIOUS
      <4>4. \A i \in 1 .. Len(js) : i = 1
        BY <3>1, <4>2, <4>3
      <4> QED
        BY <3>1, <4>1, <4>2, <4>4
    <3>2. CASE ~(r > 0)
      <4>1. js = <<>>
        BY <3>2
      <4> HIDE DEF js
      <4> QED
        BY <1>7, <3>2, <4>1
    <3> QED
      BY <3>1, <3>2
  <2> HIDE DEF js
  <2>6. /\ block' \in Building(L) /\ block'.pc = "lock" /\ block'.k = block.k /\ block'.th = block.th
        /\ block'.plan = block.plan /\ block'.nodes = block.nodes
        /\ block'.jobs = js /\ block'.turn = block.turn /\ block'.each = block.each
    BY <1>6, <2>2, <2>5 DEF Building, Pcs
  <2>7. Built(block')
    <3>1. block'.plan = block.plan /\ block'.jobs = js
      BY <2>6
    <3>2. Len(block'.jobs) <= 1
      BY <2>5, <3>1
    <3>3. ~block'.plan.same /\ Even(block'.plan)
      BY <1>3, <1>5, <3>1
    <3>4. \E M : block' \in Building(M)
      BY <2>6
    <3> QED
      BY <3>2, <3>3, <3>4 DEF Built
  <2>8. block.k = 0
    BY <1>2, <1>10 DEF Phase
  <2>9. Phase(block')
    BY <1>3, <1>5, <2>6, <2>8 DEF Phase, Choosing
  <2>10. InArray(block')
    BY <1>3, <1>5, <2>4, <2>5, <2>6 DEF InArray
  <2> QED
    BY <1>1, <1>3, <1>5, <1>10, <2>1, <2>5, <2>6, <2>7, <2>9, <2>10 DEF Sound
<1> QED
  BY <1>1, <1>4, <1>8, <1>9, <1>10

LEMMA TurnIn ==
    ASSUME NEW i \in Nat, NEW th \in Nat, nbThreads \in Nat, nbThreads > 0
    PROVE  Turn(i, th) \in Nat /\ Turn(i, th) < nbThreads
<1>1. i + th \in Nat /\ nbThreads \in Nat \ {0}
  OBVIOUS
<1>2. \A a \in Nat : \A b \in Nat \ {0} : a % b \in Nat /\ a % b < b
  OBVIOUS
<1> QED
  BY <1>1, <1>2 DEF Turn

(* The next turn of the loop over the threads. *)
LEMMA NextJobBuilt ==
    ASSUME Shape, NextJob
    PROVE  /\ block # None /\ Sound(block) /\ Sound(block')
           /\ block'.plan = block.plan /\ block'.nodes = block.nodes
           /\ block.jobs = <<>> /\ block'.th = block.th /\ block'.each = block.each
           /\ block'.k = block.k /\ block.k = 0
           /\ \/ /\ block.pc = "lock" /\ block.turn < nbThreads /\ block.each > 0
                 /\ block'.pc = "pick" /\ block'.turn = block.turn /\ block'.jobs = <<>>
              \/ /\ block.pc = "lock" /\ ~(block.turn < nbThreads /\ block.each > 0)
                 /\ block'.pc = "enter" /\ block'.turn = block.turn /\ block'.jobs = <<>>
              \/ /\ block.pc = "pick" /\ nbThreads = 0
                 /\ block'.pc = "crash" /\ block'.turn = block.turn /\ block'.jobs = <<>>
              \/ /\ block.pc = "pick" /\ nbThreads > 0 /\ block'.pc = "lock"
                 /\ block'.turn = block.turn + 1
                 /\ block'.jobs = <<Job(Turn(block.turn, block.th), block.each)>>
<1>1. block # None /\ Sound(block) /\ block.pc \in {"lock", "pick"} /\ Array
  BY DEF Shape, NextJob, At
<1>2. /\ Built(block) /\ Phase(block) /\ InArray(block)
      /\ block.plan \in Plans /\ block.k \in Nat /\ block.th \in Nat /\ block.nodes \in Seq(Nodes)
      /\ block.jobs \in JobsOf(Nat) /\ block.each \in Nat /\ block.turn \in Nat
  BY <1>1, BlockFields DEF Sound
<1>3. block.jobs = <<>> /\ block.k = 0
  BY <1>1, <1>2 DEF Phase, NextJob, At
<1>4. nbThreads \in Nat /\ Len(slots) \in Nat /\ nbThreads <= Len(slots)
  BY <1>1, LenProperties DEF Array
<1>5. /\ block.plan.same => block.jobs \in JobsOf({1})
      /\ ~Even(block.plan) => block.each = 0
      /\ Local(block.plan.host)
  BY <1>1, <1>2, BuiltIs DEF Phase
<1>6. PICK L : block \in Building(L)
  BY <1>2, BuiltIs
<1>7. /\ Len(<<>>) = 0 /\ 1 .. 0 = {} /\ <<>> \in JobsOf(Nat) /\ <<>> \in JobsOf({1})
  BY NoJobs
<1>8. CASE block.pc = "lock"
  <2>1. PICK x \in {"pick", "enter"} : x = (IF block.turn < nbThreads /\ block.each > 0 THEN "pick" ELSE "enter")
    OBVIOUS
  <2>2. block' = [block EXCEPT !.pc = x]
    BY <1>8, <2>1 DEF NextJob, At, Goto
  <2>3. /\ block' \in Building(L) /\ block'.pc = x /\ block'.k = block.k /\ block'.th = block.th
        /\ block'.plan = block.plan /\ block'.nodes = block.nodes
        /\ block'.jobs = block.jobs /\ block'.turn = block.turn /\ block'.each = block.each
    BY <1>6, <2>2 DEF Building, Pcs
  <2>4. Built(block')
    BY <1>3, <1>5, <1>7, <2>3 DEF Built
  <2>5. Phase(block')
    BY <1>3, <1>5, <1>7, <2>1, <2>3 DEF Phase, Choosing
  <2>6. Even(block.plan) => block.th < Len(slots)
    BY <1>2, <1>8 DEF InArray
  <2>7. InArray(block')
    BY <1>3, <1>7, <2>3, <2>6 DEF InArray
  <2> QED
    BY <1>1, <1>2, <1>3, <1>4, <1>8, <2>1, <2>3, <2>4, <2>5, <2>7 DEF Sound
<1>9. CASE block.pc = "pick" /\ nbThreads = 0
  <2>1. block' = [block EXCEPT !.pc = "crash"]
    BY <1>9 DEF NextJob, At, Goto
  <2>3. /\ block' \in Building(L) /\ block'.pc = "crash" /\ block'.k = block.k /\ block'.th = block.th
        /\ block'.plan = block.plan /\ block'.nodes = block.nodes
        /\ block'.jobs = block.jobs /\ block'.turn = block.turn /\ block'.each = block.each
    BY <1>6, <2>1 DEF Building, Pcs
  <2>4. Built(block')
    BY <1>3, <1>5, <1>7, <2>3 DEF Built
  <2>5. Phase(block')
    BY <1>3, <1>5, <2>3 DEF Phase, Choosing
  <2>6. Even(block.plan) => block.th < Len(slots)
    BY <1>2, <1>9 DEF InArray
  <2>7. InArray(block')
    BY <1>3, <1>7, <1>9, <2>3, <2>6 DEF InArray
  <2> QED
    BY <1>1, <1>3, <1>9, <2>3, <2>4, <2>5, <2>7 DEF Sound
<1>10. CASE block.pc = "pick" /\ nbThreads > 0
  <2>1. PICK t : t = Turn(block.turn, block.th)
    OBVIOUS
  <2>2. t \in Nat /\ t < Len(slots)
    <3>1. t \in Nat /\ t < nbThreads
      BY <1>2, <1>4, <1>10, <2>1, TurnIn
    <3> QED
      BY <1>4, <3>1
  <2> DEFINE js == <<Job(t, block.each)>>
  <2>3. js \in JobsOf(Nat) /\ Len(js) = 1 /\ js[1].thread = t
    BY <1>2, <2>2, OneJob
  <2>b. PICK u \in Nat : u = block.turn + 1
    BY <1>2
  <2>4. block' = [block EXCEPT !.pc = "lock", !.turn = u, !.jobs = js]
    BY <1>10, <2>1, <2>b DEF NextJob, At
  <2>a. js = <<Job(Turn(block.turn, block.th), block.each)>>
    BY <2>1
  <2> HIDE DEF js
  <2>5. /\ block' \in Building(L) /\ block'.pc = "lock" /\ block'.k = block.k /\ block'.th = block.th
        /\ block'.plan = block.plan /\ block'.nodes = block.nodes
        /\ block'.jobs = js /\ block'.turn = u /\ block'.each = block.each
    BY <1>6, <2>3, <2>4 DEF Building, Pcs
  <2>6. Even(block.plan) /\ ~block.plan.same /\ block.plan.thread = -1
    <3>1. block.each > 0
      BY <1>2, <1>10 DEF Phase
    <3> QED
      BY <1>2, <1>5, <3>1 DEF Even
  <2>7. Built(block')
    <3>1. block'.plan = block.plan /\ block'.jobs = js
      BY <2>5
    <3>2. Len(block'.jobs) <= 1
      BY <2>3, <3>1
    <3>3. ~block'.plan.same /\ Even(block'.plan)
      BY <2>6, <3>1
    <3>4. \E M : block' \in Building(M)
      BY <2>5
    <3> QED
      BY <3>2, <3>3, <3>4 DEF Built
  <2>8. Phase(block')
    BY <1>3, <1>5, <2>5 DEF Phase, Choosing
  <2>9. Even(block.plan) => block.th < Len(slots)
    BY <1>2, <1>10 DEF InArray
  <2>10. \A i \in 1 .. Len(js) : js[i].thread < Len(slots)
    <3>1. \A i \in 1 .. 1 : i = 1
      OBVIOUS
    <3>2. \A i \in 1 .. Len(js) : i = 1
      BY <2>3, <3>1
    <3> QED
      BY <2>2, <2>3, <3>2
  <2>11. InArray(block')
    BY <2>5, <2>6, <2>9, <2>10 DEF InArray
  <2> QED
    BY <1>1, <1>3, <1>10, <2>a, <2>b, <2>5, <2>7, <2>8, <2>11 DEF Sound
<1> QED
  BY <1>1, <1>4, <1>8, <1>9, <1>10

(* What LOCK finds. *)
LEMMA LockBuilt ==
    ASSUME Shape, Lock
    PROVE  /\ block # None /\ Sound(block) /\ Sound(block') /\ block.pc = "lock" /\ block.jobs # <<>>
           /\ block'.plan = block.plan /\ block'.nodes = block.nodes /\ block'.jobs = block.jobs
           /\ block'.k = block.k /\ block'.th = block.th /\ block'.each = block.each
           /\ block'.turn = block.turn /\ block.k = 0
           /\ \/ ~InReach /\ ~block.plan.same /\ block'.pc = "crash" /\ UNCHANGED locked
              \/ InReach /\ Target \in locked /\ block'.pc = "stuck" /\ UNCHANGED locked
              \/ /\ InReach /\ Target \notin locked /\ block'.pc = "make"
                 /\ locked' = locked \cup {Target}
<1>1. /\ block # None /\ Sound(block) /\ block.pc = "lock" /\ block.jobs # <<>> /\ Array
      /\ UNCHANGED <<slots, nbThreads>>
  BY DEF Shape, Lock, At, array
<1>2. Built(block) /\ Phase(block) /\ InArray(block) /\ block.plan \in Plans
  BY <1>1, BlockFields DEF Sound
<1>3. PICK L : block \in Building(L)
  BY <1>2, BuiltIs
<1>4. PICK x \in {"crash", "stuck", "make"} :
         /\ block' = [block EXCEPT !.pc = x]
         /\ \/ ~InReach /\ x = "crash" /\ UNCHANGED locked
            \/ InReach /\ Target \in locked /\ x = "stuck" /\ UNCHANGED locked
            \/ InReach /\ Target \notin locked /\ x = "make" /\ locked' = locked \cup {Target}
  BY DEF Lock, Goto
<1>5. /\ block' \in Building(L) /\ block'.pc = x /\ block'.k = block.k /\ block'.th = block.th
      /\ block'.plan = block.plan /\ block'.nodes = block.nodes
      /\ block'.jobs = block.jobs /\ block'.turn = block.turn /\ block'.each = block.each
  BY <1>3, <1>4 DEF Building, Pcs
<1>6. /\ block.k = 0 /\ Local(block.plan.host)
      /\ block.plan.same => block.jobs \in JobsOf({1})
      /\ ~block.plan.same => Len(block.jobs) <= 1
      /\ ~Even(block.plan) => block.each = 0
  BY <1>1, <1>2, BuiltIs DEF Phase
<1>7. Built(block')
  BY <1>5, <1>6 DEF Built
<1>8. Phase(block')
  BY <1>1, <1>5, <1>6 DEF Phase, Choosing
<1>9. /\ Head(block.jobs) = block.jobs[1] /\ Head(block.jobs).thread \in Nat
      /\ 1 \in 1 .. Len(block.jobs)
  BY <1>1, <1>2, FirstJob
<1>10. /\ block.plan.same \in BOOLEAN
       /\ ~block.plan.same => block.plan.thread \in Nat \cup {-1}
  BY <1>2, PlanFields
<1>11. ASSUME ~InReach
       PROVE  ~block.plan.same /\ block.plan.thread >= Len(slots)
  <2>1. ~block.plan.same /\ ~(Head(block.jobs).thread < Len(slots))
    BY <1>11 DEF InReach, InMemory
  <2>2. ~Even(block.plan)
    BY <1>2, <1>9, <2>1 DEF InArray
  <2>3. block.jobs[1].thread = block.plan.thread
    BY <1>2, <1>9, <2>1, <2>2 DEF InArray, Even
  <2>4. Len(slots) \in Nat
    BY <1>1, LenProperties DEF Array
  <2> QED
    BY <1>9, <2>1, <2>3, <2>4
<1>12. InReach => block.plan.same \/ Head(block.jobs).thread < Len(slots)
  BY DEF InReach, InMemory
<1>13. InArray(block')
  BY <1>1, <1>2, <1>4, <1>5, <1>11, <1>12 DEF InArray
<1> QED
  BY <1>1, <1>2, <1>4, <1>5, <1>6, <1>7, <1>8, <1>11, <1>13 DEF Sound

(* The thread that is locked, while a job is done. *)
LEMMA TargetIs ==
    ASSUME Shape, At("make")
    PROVE  /\ Target \in Nat
           /\ ~block.plan.same => Target \in MadeThreads
           /\ block # None /\ Sound(block) /\ block.pc = "make" /\ block.jobs # <<>>
           /\ block.plan.same => Target = Head(block.jobs).thread
<1>1. block # None /\ Sound(block) /\ block.pc = "make" /\ block.jobs # <<>> /\ Array
  BY DEF Shape, At, Sound, Phase
<1>2. Built(block) /\ InArray(block) /\ Head(block.jobs).thread \in Nat
  BY <1>1, FirstJob DEF Sound
<1>3. CASE block.plan.same
  BY <1>1, <1>2, <1>3 DEF Target
<1>4. CASE ~block.plan.same
  <2>1. PICK i \in Nat : i = Head(block.jobs).thread
    BY <1>2
  <2>2. i < Len(slots)
    BY <1>1, <1>2, <1>4, <2>1 DEF InArray
  <2>3. ThreadAt(i) \in MadeThreads /\ ThreadAt(i) \in Nat
    BY <1>1, <2>2, SlotIs
  <2> QED
    BY <1>1, <1>4, <2>1, <2>3 DEF Target
<1> QED
  BY <1>1, <1>3, <1>4

LEMMA NewNodeIs ==
    ASSUME Shape, At("make")
    PROVE  /\ NewNode(Target) \in Nodes
           /\ NewNode(Target).id = nb_local_nodes[block.plan.grp] /\ NewNode(Target).thread = Target
           /\ nb_local_nodes[block.plan.grp] \in Nat /\ block.plan.grp \in Groups
           /\ NewNode(-1) = [id |-> nb_local_nodes[block.plan.grp], thread |-> -1]
<1>1. Target \in Nat /\ block # None /\ Sound(block)
  BY TargetIs
<1>2. block.plan.grp \in Groups
  BY <1>1, BlockFields DEF Sound
<1>3. nb_local_nodes[block.plan.grp] \in Nat
  BY <1>2 DEF Shape, Lists
<1>4. NewNode(Target) = [id |-> nb_local_nodes[block.plan.grp], thread |-> Target]
  BY DEF NewNode, Number
<1> QED
  BY <1>1, <1>2, <1>3, <1>4 DEF Nodes, NewNode, Number

LEMMA MadeOne ==
    ASSUME Shape, instantiate_node
    PROVE  /\ block # None /\ Sound(block) /\ Sound(block') /\ block.pc = "make" /\ block.jobs # <<>>
           /\ block'.plan = block.plan /\ block'.jobs = block.jobs /\ block'.pc = "make"
           /\ block'.th = block.th /\ block'.each = block.each /\ block'.turn = block.turn
           /\ block'.k = block.k + 1 /\ block.k < Head(block.jobs).nb
           /\ block'.nodes = Append(block.nodes, NewNode(Target))
           /\ nb_local_nodes' = [nb_local_nodes EXCEPT ![block.plan.grp] = @ + 1]
           /\ Lists' /\ Target' = Target
<1>1. /\ block # None /\ Sound(block) /\ block.pc = "make" /\ block.jobs # <<>> /\ Array /\ At("make")
      /\ UNCHANGED <<slots, nbThreads>> /\ block.k < Head(block.jobs).nb
  BY TargetIs DEF Shape, instantiate_node, Making, array
<1>2. Built(block) /\ Phase(block) /\ InArray(block) /\ block.k \in Nat /\ block.nodes \in Seq(Nodes)
  BY <1>1, BlockFields DEF Sound
<1>3. PICK L : block \in Building(L)
  BY <1>2, BuiltIs
<1>4. PICK n \in Nodes : n = NewNode(Target)
  BY <1>1, NewNodeIs
<1>5. PICK k \in Nat : k = block.k + 1
  BY <1>2
<1>6. PICK ns \in Seq(Nodes) : ns = Append(block.nodes, n)
  BY <1>2, <1>4, AppendProperties
<1>7. block' = [block EXCEPT !.k = k, !.nodes = ns]
  BY <1>4, <1>5, <1>6 DEF instantiate_node
<1>8. /\ block' \in Building(L) /\ block'.pc = block.pc /\ block'.k = k /\ block'.th = block.th
      /\ block'.plan = block.plan /\ block'.nodes = ns
      /\ block'.jobs = block.jobs /\ block'.turn = block.turn /\ block'.each = block.each
  BY <1>3, <1>7 DEF Building, Pcs
<1>9. /\ Local(block.plan.host)
      /\ block.plan.same => block.jobs \in JobsOf({1})
      /\ ~block.plan.same => Len(block.jobs) <= 1
      /\ ~Even(block.plan) => block.each = 0
  BY <1>1, <1>2, BuiltIs DEF Phase
<1>10. Built(block')
  BY <1>8, <1>9 DEF Built
<1>11. Phase(block')
  BY <1>1, <1>8, <1>9 DEF Phase, Choosing
<1>12. InArray(block')
  BY <1>1, <1>2, <1>8 DEF InArray
<1>13. nb_local_nodes' = [nb_local_nodes EXCEPT ![block.plan.grp] = @ + 1]
  BY DEF instantiate_node, Numbered
<1>14. Lists'
  <2>1. Lists /\ UNCHANGED <<hosts, local_hosts, nb_nodes>>
    BY DEF instantiate_node, Shape
  <2>2. block.plan.grp \in Groups
    BY <1>1, NewNodeIs
  <2>3. nb_local_nodes' \in [Groups -> Nat]
    BY <1>13, <2>1, <2>2 DEF Lists
  <2> QED
    BY <2>1, <2>3 DEF Lists
<1>15. Target' = Target
  BY <1>1, <1>8 DEF Target, ThreadAt
<1> QED
  BY <1>1, <1>2, <1>4, <1>5, <1>6, <1>8, <1>10, <1>11, <1>12, <1>13, <1>14, <1>15 DEF Sound

LEMMA SkippedOne ==
    ASSUME Shape, NoSuchClass
    PROVE  /\ block # None /\ Sound(block) /\ Sound(block') /\ block.pc = "make" /\ block.jobs # <<>>
           /\ block'.plan = block.plan /\ block'.jobs = block.jobs
           /\ block'.th = block.th /\ block'.each = block.each /\ block'.turn = block.turn
           /\ block'.nodes = block.nodes /\ ~Installed(block.plan.grp)
           /\ \/ block.plan.same /\ block'.pc = "enter" /\ block'.k = 0
              \/ /\ ~block.plan.same /\ block'.pc = "make" /\ block'.k = block.k + 1
                 /\ block.k < Head(block.jobs).nb /\ Target' = Target
<1>1. /\ block # None /\ Sound(block) /\ block.pc = "make" /\ block.jobs # <<>> /\ Array
      /\ UNCHANGED <<slots, nbThreads>> /\ block.k < Head(block.jobs).nb /\ ~Installed(block.plan.grp)
  BY TargetIs DEF Shape, NoSuchClass, Making, array
<1>2. /\ Built(block) /\ Phase(block) /\ InArray(block) /\ block.k \in Nat
      /\ block.plan.same => Head(block.jobs).nb = 1
      /\ block.jobs \in JobsOf(Nat) /\ block.plan.same \in BOOLEAN
  BY <1>1, BlockFields, FirstJob DEF Sound
<1>3. PICK L : block \in Building(L)
  BY <1>2, BuiltIs
<1>4. /\ Local(block.plan.host)
      /\ block.plan.same => block.jobs \in JobsOf({1})
      /\ ~block.plan.same => Len(block.jobs) <= 1
      /\ ~Even(block.plan) => block.each = 0
  BY <1>1, <1>2, BuiltIs DEF Phase
<1>5. CASE block.plan.same
  <2>1. block' = [block EXCEPT !.pc = "enter"]
    BY <1>5 DEF NoSuchClass
  <2>2. /\ block' \in Building(L) /\ block'.pc = "enter" /\ block'.k = block.k /\ block'.th = block.th
        /\ block'.plan = block.plan /\ block'.nodes = block.nodes
        /\ block'.jobs = block.jobs /\ block'.turn = block.turn /\ block'.each = block.each
    BY <1>3, <2>1 DEF Building, Pcs
  <2>3. block.k = 0
    BY <1>1, <1>2, <1>5
  <2>4. Built(block')
    BY <1>4, <2>2 DEF Built
  <2>5. Phase(block')
    BY <1>2, <1>4, <2>2, <2>3 DEF Phase, Choosing
  <2>6. InArray(block')
    BY <1>2, <1>5, <2>2 DEF InArray, Even
  <2> QED
    BY <1>1, <1>5, <2>2, <2>3, <2>4, <2>5, <2>6 DEF Sound
<1>6. CASE ~block.plan.same
  <2>1. PICK k \in Nat : k = block.k + 1
    BY <1>2
  <2>2. block' = [block EXCEPT !.k = k]
    BY <1>6, <2>1 DEF NoSuchClass
  <2>3. /\ block' \in Building(L) /\ block'.pc = block.pc /\ block'.k = k /\ block'.th = block.th
        /\ block'.plan = block.plan /\ block'.nodes = block.nodes
        /\ block'.jobs = block.jobs /\ block'.turn = block.turn /\ block'.each = block.each
    BY <1>3, <2>2 DEF Building, Pcs
  <2>4. Built(block')
    BY <1>4, <2>3 DEF Built
  <2>5. Phase(block')
    BY <1>1, <1>4, <2>3 DEF Phase, Choosing
  <2>6. InArray(block')
    BY <1>1, <1>2, <2>3 DEF InArray
  <2>7. Target' = Target
    BY <1>1, <2>3 DEF Target, ThreadAt
  <2> QED
    BY <1>1, <1>6, <2>1, <2>3, <2>4, <2>5, <2>6, <2>7 DEF Sound
<1> QED
  BY <1>2, <1>5, <1>6

LEMMA UnlockBuilt ==
    ASSUME Shape, Unlock
    PROVE  /\ block # None /\ Sound(block) /\ Sound(block') /\ block.pc = "make" /\ block.jobs # <<>>
           /\ block'.plan = block.plan /\ block'.nodes = block.nodes /\ block'.jobs = Tail(block.jobs)
           /\ block'.th = block.th /\ block'.each = block.each /\ block'.turn = block.turn
           /\ block'.pc = "lock" /\ block'.k = 0 /\ block.k = Head(block.jobs).nb
           /\ locked' = locked \ {Target}
<1>1. /\ block # None /\ Sound(block) /\ block.pc = "make" /\ block.jobs # <<>> /\ Array
      /\ UNCHANGED <<slots, nbThreads>> /\ block.k = Head(block.jobs).nb
      /\ locked' = locked \ {Target}
  BY TargetIs DEF Shape, Unlock, array, Released
<1>2. Built(block) /\ Phase(block) /\ InArray(block)
  BY <1>1 DEF Sound
<1>3. PICK L : block \in Building(L)
  BY <1>2, BuiltIs
<1>4. /\ Local(block.plan.host)
      /\ ~Even(block.plan) => block.each = 0
  BY <1>1, <1>2, BuiltIs DEF Phase
<1>5. PICK js \in JobsOf(Nat) : js = Tail(block.jobs)
  BY <1>1, <1>2, FirstJob
<1>6. /\ block.plan.same => js \in JobsOf({1})
      /\ ~block.plan.same => js = <<>>
      /\ Len(block.jobs) \in Nat /\ Len(block.jobs) >= 1 /\ Len(js) = Len(block.jobs) - 1
      /\ \A i \in 1 .. Len(js) : js[i] = block.jobs[i + 1]
  BY <1>1, <1>2, <1>5, FirstJob
<1>7. block' = [block EXCEPT !.pc = "lock", !.jobs = js, !.k = 0]
  BY <1>5 DEF Unlock
<1>8. /\ block' \in Building(L) /\ block'.pc = "lock" /\ block'.k = 0 /\ block'.th = block.th
      /\ block'.plan = block.plan /\ block'.nodes = block.nodes
      /\ block'.jobs = js /\ block'.turn = block.turn /\ block'.each = block.each
  BY <1>3, <1>7 DEF Building, Pcs
<1>9. Built(block')
  <2>1. ~block.plan.same => Len(js) <= 1
    BY <1>6, NoJobs
  <2> QED
    BY <1>4, <1>6, <1>8, <2>1 DEF Built
<1>10. Phase(block')
  BY <1>4, <1>8 DEF Phase, Choosing
<1>11. InArray(block')
  <2>1. \A i \in 1 .. Len(js) : i + 1 \in 1 .. Len(block.jobs)
    BY <1>6
  <2> QED
    BY <1>1, <1>2, <1>6, <1>8, <2>1 DEF InArray
<1> QED
  BY <1>1, <1>5, <1>8, <1>9, <1>10, <1>11 DEF Sound

(* Where the reading goes on after an exception.                           *)
LEMMA ModelEnd ==
    ASSUME Text, pos \in Nat
    PROVE  EndOfModel(pos) \in pos .. Len(script) /\ EndOfModel(pos) \in 0 .. Len(script)
<1> DEFINE E == {i \in pos .. Len(script) : script[i].op = "end"}
<1>1. CASE E = {}
  BY <1>1 DEF EndOfModel, Text
<1>2. CASE E # {}
  <2>1. E \subseteq Nat
    BY DEF Text
  <2>2. PICK e \in E : \A i \in E : e <= i
    <3> HIDE DEF E
    <3> QED
      BY <1>2, <2>1, LeastNumber
  <2>3. \A j \in pos .. e - 1 : script[j].op # "end"
    <3> SUFFICES ASSUME NEW j \in pos .. e - 1, script[j].op = "end" PROVE FALSE
      OBVIOUS
    <3>1. j \in E /\ j < e /\ j \in Nat
      BY <2>1, <2>2 DEF Text
    <3> QED
      BY <2>1, <2>2, <3>1
  <2>4. EndOfModel(pos) \in pos .. Len(script)
    BY <2>2, <2>3 DEF EndOfModel
  <2> QED
    BY <2>4 DEF Text
<1> QED
  BY <1>1, <1>2

LEMMA ThrownIs ==
    ASSUME Shape, InitThrows
    PROVE  /\ block # None /\ Sound(block) /\ block.pc = "make" /\ block.jobs # <<>>
           /\ block.plan.grp \in Groups
           /\ block' = None /\ plans' = <<>> /\ pos' \in pos .. Len(script) /\ pos' \in 0 .. Len(script)
           /\ nb_local_nodes' = [nb_local_nodes EXCEPT ![block.plan.grp] = @ + 1]
           /\ orphans' = [orphans EXCEPT ![block.plan.grp] =
                             @ \cup ToSet(block.nodes) \cup {NewNode(-1)}]
           /\ Lists'
<1>1. At("make") /\ Text /\ Lists
  BY DEF InitThrows, Making, Shape
<1>2. block # None /\ Sound(block) /\ block.pc = "make" /\ block.jobs # <<>> /\ block.plan.grp \in Groups
  BY <1>1, TargetIs, NewNodeIs
<1>3. pos' \in pos .. Len(script) /\ pos' \in 0 .. Len(script)
  <2>1. pos \in Nat /\ pos' = EndOfModel(pos)
    BY <1>1 DEF InitThrows, Text
  <2> QED
    BY <1>1, <2>1, ModelEnd
<1>4. /\ nb_local_nodes' = [nb_local_nodes EXCEPT ![block.plan.grp] = @ + 1]
      /\ UNCHANGED <<hosts, local_hosts, nb_nodes>>
  BY DEF InitThrows, Numbered
<1>5. Lists'
  <2>1. nb_local_nodes' \in [Groups -> Nat]
    BY <1>1, <1>2, <1>4 DEF Lists
  <2> QED
    BY <1>1, <1>4, <2>1 DEF Lists
<1> QED
  BY <1>2, <1>3, <1>4, <1>5 DEF InitThrows

(* The three steps in which a block becomes known.                         *)
AddHostIs(g) ==
    \/ /\ block.k = 0
       /\ local_hosts' = IF Local(block.plan.host)
                         THEN [local_hosts EXCEPT ![g] = Append(@, MadeBlock)] ELSE local_hosts
       /\ hosts' = hosts /\ nb_nodes' = nb_nodes
    \/ /\ block.k = 1
       /\ hosts' = [hosts EXCEPT ![g] = Append(@, MadeBlock)]
       /\ local_hosts' = local_hosts /\ nb_nodes' = nb_nodes
    \/ /\ block.k = 2
       /\ nb_nodes' = [nb_nodes EXCEPT ![g] = @ + MadeBlock.nb]
       /\ local_hosts' = local_hosts /\ hosts' = hosts

LEMMA MadeBlockIs ==
    ASSUME Shape, block # None
    PROVE  /\ MadeBlock \in Blocks /\ MadeBlock.nodes = block.nodes
           /\ MadeBlock.host = block.plan.host /\ MadeBlock.nb \in Nat
           /\ MadeBlock.nb = IF Local(block.plan.host) THEN Len(block.nodes) ELSE block.plan.nb
<1>1. block.nodes \in Seq(Nodes) /\ Len(block.nodes) \in Nat /\ block.plan \in Plans
  BY BlockFields, LenProperties DEF Shape, Sound
<1>2. block.plan.host \in Hosts /\ (~Local(block.plan.host) => block.plan.nb \in Nat)
  BY <1>1, PlanFields DEF Local
<1>3. PICK nb : nb = IF Local(block.plan.host) THEN Len(block.nodes) ELSE block.plan.nb
  OBVIOUS
<1>4. MadeBlock = [host |-> block.plan.host, nodes |-> block.nodes, nb |-> nb]
  BY <1>3 DEF MadeBlock
<1>5. nb \in Nat /\ (Local(block.plan.host) => nb = Len(block.nodes))
  BY <1>1, <1>2, <1>3
<1> QED
  BY <1>1, <1>2, <1>3, <1>4, <1>5 DEF Blocks

LEMMA AddHostBuilt ==
    ASSUME Shape, add_host
    PROVE  /\ block.pc = "enter" /\ block # None /\ Sound(block) /\ Sound(block')
           /\ block'.plan = block.plan /\ block'.pc = "enter" /\ block'.nodes = block.nodes
           /\ block'.k = block.k + 1 /\ block'.jobs = block.jobs /\ block'.th = block.th
           /\ block'.each = block.each /\ block'.turn = block.turn
           /\ block.plan.grp \in Groups
           /\ AddHostIs(block.plan.grp) /\ nb_local_nodes' = nb_local_nodes
<1>1. /\ Sound(block) /\ block # None /\ block.pc = "enter" /\ block.k < 3
      /\ UNCHANGED <<slots, nbThreads>>
  BY DEF Shape, add_host, At, Order, array
<1>2. Built(block) /\ Phase(block) /\ InArray(block) /\ block.k \in Nat /\ block.plan.grp \in Groups
  BY <1>1, BlockFields DEF Sound
<1>3. PICK L : block \in Building(L)
  BY <1>2, BuiltIs
<1>4. /\ block.plan.same => block.jobs \in JobsOf({1})
      /\ ~block.plan.same => Len(block.jobs) <= 1
      /\ ~Even(block.plan) => block.each = 0
      /\ ~Local(block.plan.host) => block.nodes = <<>>
      /\ block.jobs \in JobsOf(Nat)
  BY <1>1, <1>2, BuiltIs DEF Phase
<1>5. PICK k \in Nat : k = block.k + 1
  BY <1>2
<1>6. block' = [block EXCEPT !.k = k]
  BY <1>5 DEF add_host
<1>7. /\ block' \in Building(L) /\ block'.pc = block.pc /\ block'.k = k /\ block'.th = block.th
      /\ block'.plan = block.plan /\ block'.nodes = block.nodes
      /\ block'.jobs = block.jobs /\ block'.turn = block.turn /\ block'.each = block.each
  BY <1>3, <1>6 DEF Building, Pcs
<1>8. Built(block')
  BY <1>4, <1>7 DEF Built
<1>9. k \in 0 .. 3 /\ block.k \in {0, 1, 2}
  BY <1>1, <1>2, <1>5
<1>10. Phase(block')
  BY <1>1, <1>4, <1>7, <1>9 DEF Phase, Choosing
<1>11. InArray(block')
  BY <1>1, <1>2, <1>7 DEF InArray
<1>12. AddHostIs(block.plan.grp)
  <2>1. Order[1] = "local_hosts" /\ Order[2] = "hosts" /\ Order[3] = "nb_nodes"
    BY DEF Order
  <2>2. CASE block.k = 0
    BY <2>1, <2>2 DEF add_host, AddHostIs
  <2>3. CASE block.k = 1
    BY <2>1, <2>3 DEF add_host, AddHostIs
  <2>4. CASE block.k = 2
    BY <2>1, <2>4 DEF add_host, AddHostIs
  <2> QED
    BY <1>9, <2>2, <2>3, <2>4
<1>13. nb_local_nodes' = nb_local_nodes
  BY DEF add_host
<1> QED
  BY <1>1, <1>2, <1>5, <1>7, <1>8, <1>10, <1>11, <1>12, <1>13 DEF Sound

LEMMA AddHostLists ==
    ASSUME Shape, add_host
    PROVE  Lists'
<1> DEFINE g == block.plan.grp
<1>1. AddHostIs(g) /\ nb_local_nodes' = nb_local_nodes /\ g \in Groups /\ block # None
  BY AddHostBuilt
<1>2. MadeBlock.nb \in Nat /\ MadeBlock \in Blocks
  BY <1>1, MadeBlockIs
<1>3. Lists
  BY DEF Shape
<1>4. ASSUME NEW f \in [Groups -> Seq(Blocks)]
      PROVE  [f EXCEPT ![g] = Append(@, MadeBlock)] \in [Groups -> Seq(Blocks)]
  <2>1. Append(f[g], MadeBlock) \in Seq(Blocks)
    BY <1>1, <1>2, AppendProperties
  <2> QED
    BY <1>1, <2>1
<1>5. [nb_nodes EXCEPT ![g] = @ + MadeBlock.nb] \in [Groups -> Nat]
  <2>1. nb_nodes[g] + MadeBlock.nb \in Nat
    BY <1>1, <1>2, <1>3 DEF Lists
  <2> QED
    BY <1>1, <1>3, <2>1 DEF Lists
<1> QED
  BY <1>1, <1>3, <1>4, <1>5 DEF Lists, AddHostIs

(* The other threads change nothing of what is read.                       *)
LEMMA OthersOnly ==
    ASSUME Others
    PROVE  /\ UNCHANGED <<reading, lists, locked, block, orphans, made, started>>
           /\ left \subseteq left' /\ endedAt \subseteq endedAt'
           /\ \/ UNCHANGED <<array, endedAt>>
              \/ \E t \in quitting \cap Live :
                    /\ slots' = Erased(t) /\ nbThreads' = nbThreads - 1
                    /\ endedAt' = endedAt \cup {Indexing} /\ UNCHANGED <<away, left, finished, quitting>>
BY DEF Others, Leave, Return, agml_thread_end, array

(* An ended thread leaves its place in the memory of the array.            *)
LEMMA ShapeOthers ==
    ASSUME Shape, Others
    PROVE  Shape' /\ Len(slots') = Len(slots) /\ nbThreads' \in Nat /\ nbThreads' <= nbThreads
<1>1. UNCHANGED <<reading, lists, locked, block, orphans, made, started>>
  BY OthersOnly
<1>2. Text' /\ Lists' /\ plans' \in Seq(Plans)
  BY <1>1 DEF Shape, Text, Lists, reading, lists
<1>3. Array /\ (block # None => Sound(block))
  BY DEF Shape
<1>4. CASE UNCHANGED array
  <2>1. Array' /\ UNCHANGED <<slots, nbThreads>> /\ nbThreads \in Nat
    BY <1>1, <1>3, <1>4, SameArray, LenProperties DEF array, Array
  <2>2. block' # None => Sound(block)'
    BY <1>1, <1>3, <2>1 DEF Sound, InArray
  <2> QED
    BY <1>2, <2>1, <2>2 DEF Shape
<1>5. ASSUME NEW t \in Live, slots' = Erased(t), nbThreads' = nbThreads - 1
      PROVE  Shape' /\ Len(slots') = Len(slots) /\ nbThreads' \in Nat /\ nbThreads' <= nbThreads
  <2>1. Array' /\ Len(slots') = Len(slots) /\ nbThreads >= 1
    BY <1>1, <1>3, <1>5, ArrayShrinks
  <2>2. nbThreads \in Nat
    BY <1>3, LenProperties DEF Array
  <2>3. nbThreads' \in Nat /\ nbThreads' <= nbThreads
    BY <1>5, <2>1, <2>2
  <2>4. nbThreads # 0
    BY <2>1, <2>2
  <2>5. ASSUME block' # None PROVE Sound(block)'
    BY <1>1, <1>3, <2>1, <2>4, <2>5 DEF Sound, InArray
  <2> QED
    BY <1>2, <2>1, <2>3, <2>5 DEF Shape
<1> QED
  BY <1>4, <1>5, OthersOnly

LEMMA ShapeHost ==
    ASSUME Shape, execute_statement_declare_host
    PROVE  /\ Shape' /\ slots' = Grown(DeclThreads[Me]) /\ DeclThreads[Me] \in Nat
           /\ nbThreads' = nbThreads + DeclThreads[Me] /\ made' = made + DeclThreads[Me]
<1>1. DeclThreads[Me] \in Nat
  BY ConstantsAssumption DEF Hosts
<1>2. PICK n \in Nat : n = DeclThreads[Me]
  BY <1>1
<1>3. /\ Ready /\ pos' = pos + 1 /\ UNCHANGED <<script, lists, block, plans, started>>
      /\ slots' = Grown(n) /\ nbThreads' = nbThreads + n /\ made' = made + n
  BY <1>2 DEF execute_statement_declare_host, life
<1>4. Array'
  BY <1>3, ArrayGrows DEF Shape
<1>5. plans' \in Seq(Plans)
  BY <1>3 DEF Shape
<1> QED
  BY <1>2, <1>3, <1>4, <1>5, ShapeRead

LEMMA ShapeStart ==
    ASSUME Shape, agml_threads_start
    PROVE  Shape'
<1>1. /\ Ready /\ pos' = pos + 1 /\ UNCHANGED <<script, lists, block, plans, array>>
      /\ started' = made
  BY DEF agml_threads_start
<1>2. Array /\ plans' \in Seq(Plans)
  BY <1>1 DEF Shape
<1>3. Array'
  BY <1>1, <1>2 DEF Array, array, MadeThreads
<1> QED
  BY <1>1, <1>2, <1>3, ShapeRead

LEMMA ShapeStep ==
    ASSUME Shape, NextGrowth
    PROVE  Shape'
<1>1. Text /\ Lists /\ plans \in Seq(Plans) /\ Array
  BY DEF Shape
<1>2. ASSUME UNCHANGED <<script, pos, array, life, lists>>, plans' \in Seq(Plans),
             block' # None => Sound(block')
      PROVE  Shape'
  <2>1. Lists' /\ pos' \in 0 .. Len(script) /\ UNCHANGED <<script, array, started>>
    BY <1>1, <1>2 DEF Lists, lists, Text, life
  <2> QED
    BY <1>2, <2>1, ShapeKept
<1>3. CASE execute_statement_add_group
  <2>1. /\ Ready /\ pos' = pos + 1 /\ UNCHANGED <<script, lists, block, plans, array, started>>
    BY <1>3 DEF execute_statement_add_group, life
  <2>2. Array' /\ plans' \in Seq(Plans)
    BY <1>1, <2>1, SameArray
  <2> QED
    BY <2>1, <2>2, ShapeRead
<1>4. CASE NewBlock
  <2>1. UNCHANGED <<script, pos, array, life, lists>>
    BY <1>4 DEF NewBlock
  <2> QED
    BY <1>2, <1>4, <2>1, NewBlockBuilt
<1>5. CASE threads_get_lightest \/ Share \/ NextJob \/ Lock \/ NoSuchClass \/ Unlock
  <2>1. UNCHANGED <<script, pos, plans, array, life, lists>>
    BY <1>5 DEF threads_get_lightest, Share, NextJob, Lock, NoSuchClass, Unlock, reading
  <2>2. Sound(block')
    BY <1>5, LightestBuilt, ShareBuilt, NextJobBuilt, LockBuilt, SkippedOne, UnlockBuilt
  <2> QED
    BY <1>1, <1>2, <2>1, <2>2
<1>6. CASE instantiate_node
  <2>1. UNCHANGED <<script, pos, plans, array, started>>
    BY <1>6 DEF instantiate_node, reading, life
  <2> QED
    BY <1>1, <1>6, <2>1, MadeOne, ShapeKept DEF Text
<1>7. CASE add_host
  <2>1. UNCHANGED <<script, pos, plans, array, started>>
    BY <1>7 DEF add_host, reading, life
  <2> QED
    BY <1>1, <1>7, <2>1, AddHostBuilt, AddHostLists, ShapeKept DEF Text
<1>8. CASE InitThrows
  <2>1. UNCHANGED <<script, array, started>> /\ plans' \in Seq(Plans)
    BY <1>8, EmptySeq DEF InitThrows, life
  <2> QED
    BY <1>8, <2>1, ThrownIs, ShapeKept
<1>9. CASE BlockDone
  <2>1. UNCHANGED <<script, pos, plans, array, life, lists>> /\ block' = None
    BY <1>9 DEF BlockDone, reading
  <2> QED
    BY <1>1, <1>2, <2>1
<1> QED
  BY <1>3, <1>4, <1>5, <1>6, <1>7, <1>8, <1>9, AssignShape, SameShape, ShapeHost, ShapeStart, ShapeOthers
  DEF NextGrowth, Reader

LEMMA Shapes == SpecGrowth => []Shape
<1>1. Shape /\ UNCHANGED growth => Shape'
  <2> SUFFICES ASSUME Shape, UNCHANGED growth PROVE Shape'
    OBVIOUS
  <2>1. UNCHANGED <<script, pos, plans, array, started, lists, block>>
    BY DEF growth, reading, life
  <2>2. Lists' /\ UNCHANGED <<slots, nbThreads>> /\ pos' \in 0 .. Len(script) /\ plans' \in Seq(Plans)
    BY <2>1 DEF Shape, Lists, lists, Text, array
  <2>3. block' # None => Sound(block')
    BY <2>1 DEF Shape
  <2> QED
    BY <2>1, <2>2, <2>3, ShapeKept
<1> QED
  BY <1>1, StartedShape, ShapeStep, PTL DEF SpecGrowth

-----------------------------------------------------------------------------
(* Mutexes.  While a job is done just the mutex of its thread is held; the *)
(* hypotheses of LocksFree only ever cease to hold.                        *)
Thrown == [id : Nat, thread : Nat \cup {-1}]

ClassesKnown == \A i \in 1 .. pos : script[i].op = "same" => Installed(script[i].grp)
Unspoilt == NothingThrown /\ "make" \notin endedAt /\ ClassesKnown

PlansKnown == \A i \in DOMAIN plans : plans[i].same => Installed(plans[i].grp)

HeldOnly(b) ==
    /\ b.plan.same => Installed(b.plan.grp)
    /\ b.pc # "make" => locked = {}
    /\ b.pc = "make" => locked = {Target}

Locking ==
    Unspoilt =>
        /\ PlansKnown
        /\ block = None => locked = {}
        /\ block # None => HeldOnly(block)

LEMMA PosMoves ==
    ASSUME Text, lib' = lib, script' = script, pos' = pos \/ (pos' = pos + 1 /\ pos < Len(script)),
           ClassesKnown'
    PROVE  ClassesKnown
<1>1. Len(script) \in Nat /\ pos \in Nat /\ pos' \in Nat /\ pos <= pos' /\ script \in Seq(Statements)
  BY LenProperties DEF Text
<1>2. \A i \in 1 .. pos : i \in 1 .. pos'
  BY <1>1
<1> QED
  BY <1>1, <1>2 DEF ClassesKnown, Installed

(* The reading goes on line by line unless init() throws.                  *)
LEMMA OneLine ==
    ASSUME NextGrowth
    PROVE  /\ UNCHANGED <<script, lib>>
           /\ endedAt \subseteq endedAt' /\ (~Others => UNCHANGED endedAt)
           /\ InitThrows \/ (UNCHANGED orphans /\ (pos' = pos \/ (pos' = pos + 1 /\ pos < Len(script))))
<1>1. CASE Others
  BY <1>1, OthersOnly DEF reading
<1>2. CASE Reader
  BY <1>2 DEF Reader, execute_statement_declare_host, execute_statement_add_group,
         execute_statement_assign, assign_same_as, agml_threads_start, NewBlock,
         threads_get_lightest, Share, NextJob, Lock, instantiate_node, NoSuchClass, InitThrows,
         Unlock, add_host, BlockDone, reading, life, Ready
<1> QED
  BY <1>1, <1>2 DEF NextGrowth

OrphansOf == orphans \in [Groups -> SUBSET Thrown]

LEMMA ThrownOrphans ==
    ASSUME Shape, OrphansOf, InitThrows
    PROVE  OrphansOf' /\ ~NothingThrown' /\ \A g \in Groups : orphans[g] \subseteq orphans'[g]
<1> DEFINE g == block.plan.grp
<1>1. /\ g \in Groups /\ Sound(block) /\ At("make")
      /\ orphans' = [orphans EXCEPT ![g] = @ \cup ToSet(block.nodes) \cup {NewNode(-1)}]
  BY ThrownIs DEF InitThrows, Making
<1>2. block.nodes \in Seq(Nodes)
  BY <1>1, BlockFields DEF Sound
<1>3. ToSet(block.nodes) \subseteq Thrown
  <2>1. \A i \in DOMAIN block.nodes : block.nodes[i] \in Nodes
    BY <1>2, LenProperties, ElementOfSeq
  <2>2. Nodes \subseteq Thrown
    BY DEF Nodes, Thrown
  <2> QED
    BY <2>1, <2>2 DEF ToSet
<1>4. NewNode(-1) \in Thrown
  BY <1>1, NewNodeIs DEF Thrown
<1>5. orphans[g] \in SUBSET Thrown
  BY <1>1 DEF OrphansOf
<1>6. orphans' \in [Groups -> SUBSET Thrown]
  BY <1>1, <1>3, <1>4, <1>5 DEF OrphansOf
<1>7. NewNode(-1) \in orphans'[g] /\ orphans[g] \subseteq orphans'[g]
  BY <1>1 DEF OrphansOf
<1> QED
  BY <1>1, <1>6, <1>7 DEF OrphansOf, NothingThrown

LEMMA OrphansStep ==
    ASSUME Shape, OrphansOf, NextGrowth
    PROVE  OrphansOf' /\ \A g \in Groups : orphans[g] \subseteq orphans'[g]
BY OneLine, ThrownOrphans DEF OrphansOf

LEMMA LockingStep ==
    ASSUME Shape, OrphansOf, Locking, NextGrowth
    PROVE  Locking'
<1> SUFFICES ASSUME Unspoilt'
             PROVE  /\ PlansKnown'
                    /\ block' = None => locked' = {}
                    /\ block' # None => HeldOnly(block)'
  BY DEF Locking
<1>1. Text /\ Lists /\ plans \in Seq(Plans) /\ (block # None => Sound(block)) /\ Array
  BY DEF Shape
<1>2. /\ lib' = lib /\ script' = script /\ ~InitThrows
      /\ pos' = pos \/ (pos' = pos + 1 /\ pos < Len(script))
  BY OneLine, ThrownOrphans DEF Unspoilt
<1>3. Unspoilt
  <2>1. NothingThrown
    BY OrphansStep DEF Unspoilt, NothingThrown
  <2>2. ClassesKnown
    BY <1>1, <1>2, PosMoves DEF Unspoilt
  <2> QED
    BY <2>1, <2>2, OneLine DEF Unspoilt
<1>4. /\ PlansKnown
      /\ block = None => locked = {}
      /\ block # None => HeldOnly(block)
  BY <1>3 DEF Locking
<1>5. ASSUME plans' = plans PROVE PlansKnown'
  BY <1>2, <1>4, <1>5 DEF PlansKnown, Installed
<1>6. CASE execute_statement_declare_host \/ execute_statement_add_group \/ agml_threads_start
  <2>1. UNCHANGED <<plans, block, locked>> /\ block = None
    BY <1>6 DEF execute_statement_declare_host, execute_statement_add_group, agml_threads_start, Ready
  <2> QED
    BY <1>4, <1>5, <2>1
<1>7. CASE execute_statement_assign
  <2> DEFINE s == script[pos + 1]
             p == Plan(s.grp, s.host, Amount(s), s.thread)
  <2>1. UNCHANGED <<block, locked>> /\ block = None /\ plans' \in {<<p>>, <<>>}
    BY <1>7 DEF execute_statement_assign, Ready
  <2>a. p.same = FALSE
    BY DEF Plan
  <2> HIDE DEF p
  <2>2. PlansKnown'
    BY <2>1, <2>a DEF PlansKnown
  <2> QED
    BY <1>4, <2>1, <2>2
<1>8. CASE assign_same_as
  <2>1. PICK s : s = script[pos + 1]
    OBVIOUS
  <2>2. /\ pos' = pos + 1 /\ pos < Len(script) /\ UNCHANGED <<block, locked>> /\ block = None
        /\ s.op = "same"
    BY <1>8, <2>1 DEF assign_same_as, Ready
  <2>3. Installed(s.grp)'
    <3>1. pos + 1 \in 1 .. pos' /\ script'[pos + 1] = s
      BY <1>1, <1>2, <2>1, <2>2 DEF Text
    <3> QED
      BY <2>2, <3>1 DEF ClassesKnown, Unspoilt
  <2>4. ASSUME NEW i \in DOMAIN plans' PROVE plans'[i].grp = s.grp
    <3>1. PICK b : b = hosts[s.ref][i]
      OBVIOUS
    <3>2. plans'[i] = IF Local(b.host) THEN Like(s.grp, FirstNodes(s.limit, b))
                      ELSE Plan(s.grp, b.host, Least(s.limit, b.nb), -1)
      BY <1>8, <2>1, <3>1 DEF assign_same_as
    <3> QED
      BY <3>2 DEF Like, Plan
  <2>5. PlansKnown'
    BY <2>3, <2>4 DEF PlansKnown
  <2> QED
    BY <1>4, <2>2, <2>5
<1>9. CASE NewBlock
  <2>1. /\ plans' = Tail(plans) /\ plans # <<>> /\ block = None /\ locked' = locked
        /\ block'.plan = Head(plans) /\ block'.pc # "make"
    BY <1>9, NewBlockBuilt DEF NewBlock
  <2>2. locked = {}
    BY <1>4, <2>1
  <2>3. /\ Len(plans) \in Nat \ {0} /\ DOMAIN plans = 1 .. Len(plans) /\ Head(plans) = plans[1]
        /\ DOMAIN Tail(plans) = 1 .. Len(plans) - 1
        /\ \A i \in 1 .. Len(plans) - 1 : Tail(plans)[i] = plans[i + 1]
    BY <1>1, <2>1, EmptySeq, LenProperties, HeadTailProperties
  <2>4. Head(plans).same => Installed(Head(plans).grp)
    BY <1>4, <2>3 DEF PlansKnown
  <2>5. PlansKnown'
    <3>1. ASSUME NEW i \in 1 .. Len(plans) - 1, Tail(plans)[i].same PROVE Installed(Tail(plans)[i].grp)
      <4>1. i + 1 \in 1 .. Len(plans)
        BY <2>3
      <4> QED
        BY <1>4, <2>3, <3>1, <4>1 DEF PlansKnown
    <3> QED
      BY <1>2, <2>1, <2>3, <3>1 DEF PlansKnown, Installed
  <2>6. HeldOnly(block)'
    BY <1>2, <2>1, <2>2, <2>4 DEF HeldOnly, Installed
  <2> QED
    BY <2>1, <2>2, <2>5, <2>6
<1>10. CASE threads_get_lightest \/ Share \/ NextJob
  <2>1. plans' = plans /\ locked' = locked
    BY <1>10 DEF threads_get_lightest, Share, NextJob, reading
  <2>2. /\ block.pc # "make" /\ block # None /\ block'.plan = block.plan /\ block'.pc # "make"
    BY <1>10, LightestBuilt, ShareBuilt, NextJobBuilt
  <2>3. HeldOnly(block)'
    BY <1>2, <1>4, <2>1, <2>2 DEF HeldOnly, Installed
  <2> QED
    BY <1>1, <1>5, <1>10, <2>1, <2>3, LightestBuilt, ShareBuilt, NextJobBuilt, BlockFields DEF Sound
<1>11. CASE Lock
  <2>1. plans' = plans /\ UNCHANGED slots
    BY <1>11 DEF Lock, reading, array
  <2>2. /\ block.pc = "lock" /\ block # None /\ block'.plan = block.plan /\ block'.jobs = block.jobs
        /\ \/ block'.pc # "make" /\ UNCHANGED locked
           \/ block'.pc = "make" /\ locked' = locked \cup {Target}
        /\ Sound(block')
    BY <1>11, LockBuilt
  <2>3. Target' = Target
    BY <2>1, <2>2 DEF Target, ThreadAt
  <2>4. HeldOnly(block)'
    BY <1>2, <1>4, <2>2, <2>3 DEF HeldOnly, Installed
  <2> QED
    BY <1>5, <2>1, <2>2, <2>4, BlockFields DEF Sound
<1>12. CASE instantiate_node
  <2>1. plans' = plans /\ locked' = locked
    BY <1>12 DEF instantiate_node, reading
  <2>2. /\ block.pc = "make" /\ block # None /\ block'.plan = block.plan /\ block'.pc = "make"
        /\ Target' = Target /\ Sound(block')
    BY <1>12, MadeOne
  <2>3. HeldOnly(block)'
    BY <1>2, <1>4, <2>1, <2>2 DEF HeldOnly, Installed
  <2> QED
    BY <1>5, <2>1, <2>2, <2>3, BlockFields DEF Sound
<1>13. CASE NoSuchClass
  <2>1. plans' = plans /\ locked' = locked
    BY <1>13 DEF NoSuchClass, reading
  <2>2. /\ block.pc = "make" /\ block # None /\ block'.plan = block.plan
        /\ ~Installed(block.plan.grp) /\ Sound(block')
        /\ \/ block.plan.same
           \/ block'.pc = "make" /\ Target' = Target
    BY <1>13, SkippedOne
  <2>3. HeldOnly(block)'
    BY <1>2, <1>4, <2>1, <2>2 DEF HeldOnly, Installed
  <2> QED
    BY <1>5, <2>1, <2>2, <2>3, BlockFields DEF Sound
<1>14. CASE Unlock
  <2>1. plans' = plans
    BY <1>14 DEF Unlock, reading
  <2>2. /\ block.pc = "make" /\ block # None /\ block'.plan = block.plan
        /\ block'.pc = "lock" /\ locked' = locked \ {Target} /\ Sound(block')
    BY <1>14, UnlockBuilt
  <2>3. HeldOnly(block)'
    BY <1>2, <1>4, <2>2 DEF HeldOnly, Installed
  <2> QED
    BY <1>5, <2>1, <2>2, <2>3, BlockFields DEF Sound
<1>15. CASE add_host
  <2>1. plans' = plans /\ locked' = locked
    BY <1>15 DEF add_host, reading
  <2>2. /\ block.pc = "enter" /\ block # None /\ block'.plan = block.plan
        /\ block'.pc = "enter" /\ Sound(block')
    BY <1>15, AddHostBuilt
  <2>3. HeldOnly(block)'
    BY <1>2, <1>4, <2>1, <2>2 DEF HeldOnly, Installed
  <2> QED
    BY <1>5, <2>1, <2>2, <2>3, BlockFields DEF Sound
<1>16. CASE BlockDone
  <2>1. /\ plans' = plans /\ locked' = locked /\ block' = None
        /\ block # None /\ block.pc = "enter"
    BY <1>16 DEF BlockDone, reading, At
  <2> QED
    BY <1>4, <1>5, <2>1 DEF HeldOnly
<1>17. CASE Others
  <2>1. plans' = plans /\ locked' = locked /\ block' = block
    BY <1>17, OthersOnly DEF reading
  <2>2. ASSUME block # None, block.pc = "make" PROVE Target' = Target
    <3>1. CASE block.plan.same
      BY <2>1, <3>1 DEF Target
    <3>2. CASE UNCHANGED array
      BY <2>1, <3>2 DEF Target, ThreadAt, array
    <3>3. CASE ~block.plan.same /\ endedAt' = endedAt \cup {Indexing}
      BY <2>2, <3>3 DEF Indexing, Unspoilt
    <3> QED
      BY <1>17, <3>1, <3>2, <3>3, OthersOnly
  <2>3. block # None => HeldOnly(block)'
    BY <1>2, <1>4, <2>1, <2>2 DEF HeldOnly, Installed
  <2> QED
    BY <1>4, <1>5, <2>1, <2>3
<1> QED
  BY <1>2, <1>6, <1>7, <1>8, <1>9, <1>10, <1>11, <1>12, <1>13, <1>14, <1>15, <1>16, <1>17
     DEF NextGrowth, Reader

LEMMA Orphans == SpecGrowth => []OrphansOf
<1>1. InitGrowth => OrphansOf
  BY DEF InitGrowth, OrphansOf
<1>2. Shape /\ OrphansOf /\ [NextGrowth]_growth => OrphansOf'
  BY OrphansStep DEF OrphansOf, growth
<1> QED
  BY <1>1, <1>2, Shapes, PTL DEF SpecGrowth

(* Whatever is read, and whatever other threads do meanwhile, no thread's  *)
(* mutex stays locked after a block (NodeGroupHost, instantiate_nodes),    *)
(* unless an init() has thrown, a thread has ended between LOCK and UNLOCK *)
(* or assign_same_as had a class that is missing.                          *)
THEOREM NoLockLeft == (SpecGrowth => []LocksFree) /\ (Spec => []LocksFree)
<1>1. InitGrowth => Locking
  BY DEF InitGrowth, Locking, PlansKnown
<1>2. Shape /\ OrphansOf /\ Locking /\ [NextGrowth]_growth => Locking'
  <2>1. Locking /\ UNCHANGED growth => Locking'
    BY DEF Locking, Unspoilt, NothingThrown, ClassesKnown, PlansKnown, HeldOnly, Target, ThreadAt,
           Installed, growth, reading, lists, life, array
  <2> QED
    BY <2>1, LockingStep
<1>3. Locking => LocksFree
  BY DEF Locking, LocksFree, ClassesKnown, Unspoilt
<1> QED
  BY <1>1, <1>2, <1>3, Shapes, Orphans, OnlyMade, PTL DEF SpecGrowth

-----------------------------------------------------------------------------
(* Numbers.  As long as none of its nodes threw, the nodes of a group are  *)
(* numbered from 0 without a gap, first those in its blocks, then those of *)
(* the block in the making; a block of this host that is in the group's    *)
(* list is counted soon.                                                   *)
Rising(s, p, n) ==
    /\ s \in Seq(Nodes) /\ p \in Seq(Nodes) /\ n = Len(s) + Len(p)
    /\ \A i \in 1 .. Len(s) : s[i].id = i - 1
    /\ \A i \in 1 .. Len(p) : p[i].id = Len(s) + i - 1

Early(b) == b.pc = "enter" => b.k = 0

Pending(g) == IF InMaking(g) /\ Early(block) THEN block.nodes ELSE <<>>

Uncounted(g) ==
    IF InMaking(g) /\ block.pc = "enter" /\ block.k \in {1, 2} THEN Len(block.nodes) ELSE 0

Here(g) == AllLocal(g) /\ (InMaking(g) => Local(block.plan.host))

Counted(g) ==
    /\ Here(g) => nb_nodes[g] + Uncounted(g) = Len(LocalNodes(g))
    /\ InMaking(g) /\ block.pc = "enter" /\ block.k \in {2, 3} /\ AllLocal(g) => Here(g)

Numbers ==
    \A g \in Groups : orphans[g] = {} =>
        Rising(LocalNodes(g), Pending(g), nb_local_nodes[g]) /\ Counted(g)

LEMMA NumberedMore ==
    ASSUME NEW s, NEW p, NEW n, Rising(s, p, n), NEW t \in Nat
    PROVE  Rising(s, Append(p, [id |-> n, thread |-> t]), n + 1)
<1> DEFINE x == [id |-> n, thread |-> t]
           q == Append(p, x)
<1>1. s \in Seq(Nodes) /\ p \in Seq(Nodes) /\ Len(s) \in Nat /\ Len(p) \in Nat /\ n \in Nat
  BY LenProperties DEF Rising
<1>2. x \in Nodes /\ x.id = n
  BY <1>1 DEF Nodes
<1> HIDE DEF x
<1>3. /\ q \in Seq(Nodes) /\ Len(q) = Len(p) + 1 /\ q[Len(p) + 1] = x
      /\ \A i \in 1 .. Len(p) : q[i] = p[i]
  BY <1>1, <1>2, AppendProperties
<1> HIDE DEF q
<1>4. \A i \in 1 .. Len(q) : i \in 1 .. Len(p) \/ i = Len(p) + 1
  BY <1>1, <1>3
<1>5. ASSUME NEW i \in 1 .. Len(q) PROVE q[i].id = Len(s) + i - 1
  <2>1. CASE i \in 1 .. Len(p)
    BY <1>3, <2>1 DEF Rising
  <2>2. CASE i = Len(p) + 1
    <3>1. Len(s) + i - 1 = Len(s) + Len(p)
      BY <1>1, <2>2
    <3> QED
      BY <1>2, <1>3, <2>2, <3>1 DEF Rising
  <2> QED
    BY <1>4, <2>1, <2>2
<1>6. n + 1 = Len(s) + Len(q)
  BY <1>1, <1>3 DEF Rising
<1> QED
  BY <1>1, <1>3, <1>5, <1>6 DEF Rising, q, x

LEMMA NumberedEnter ==
    ASSUME NEW s, NEW p, NEW n, Rising(s, p, n)
    PROVE  Rising(s \o p, <<>>, n) /\ Len(s \o p) = Len(s) + Len(p)
<1>1. s \in Seq(Nodes) /\ p \in Seq(Nodes) /\ Len(s) \in Nat /\ Len(p) \in Nat /\ n \in Nat
  BY LenProperties DEF Rising
<1>2. /\ s \o p \in Seq(Nodes) /\ Len(s \o p) = Len(s) + Len(p)
      /\ \A i \in 1 .. Len(s) + Len(p) :
            (s \o p)[i] = IF i <= Len(s) THEN s[i] ELSE p[i - Len(s)]
  BY <1>1, ConcatProperties
<1>3. ASSUME NEW i \in 1 .. Len(s) + Len(p) PROVE (s \o p)[i].id = i - 1
  <2>1. CASE i <= Len(s)
    <3>1. i \in 1 .. Len(s)
      BY <2>1
    <3> QED
      BY <1>2, <2>1, <3>1 DEF Rising
  <2>2. CASE ~(i <= Len(s))
    <3>1. i - Len(s) \in 1 .. Len(p) /\ Len(s) + (i - Len(s)) - 1 = i - 1
      BY <1>1, <2>2
    <3> QED
      BY <1>2, <2>2, <3>1 DEF Rising
  <2> QED
    BY <2>1, <2>2
<1>4. Len(<<>>) = 0 /\ <<>> \in Seq(Nodes)
  BY EmptySeq
<1> QED
  BY <1>1, <1>2, <1>3, <1>4 DEF Rising

LEMMA StartedNumbers == InitGrowth => Numbers
<1> SUFFICES ASSUME InitGrowth, NEW g \in Groups
             PROVE  Rising(LocalNodes(g), Pending(g), nb_local_nodes[g]) /\ Counted(g)
  BY DEF Numbers
<1>1. local_hosts[g] = <<>> /\ hosts[g] = <<>> /\ nb_local_nodes[g] = 0 /\ nb_nodes[g] = 0 /\ block = None
  BY DEF InitGrowth
<1>2. LocalNodes(g) = <<>>
  <2>1. [i \in DOMAIN <<>> |-> local_hosts[g][i].nodes] = <<>>
    BY EmptySeq
  <2> QED
    BY <1>1, <2>1, FlatEmpty DEF LocalNodes
<1>3. Pending(g) = <<>> /\ Uncounted(g) = 0 /\ ~InMaking(g)
  BY <1>1 DEF Pending, Uncounted, InMaking
<1>4. Len(<<>>) = 0 /\ <<>> \in Seq(Nodes)
  BY EmptySeq
<1> QED
  BY <1>1, <1>2, <1>3, <1>4 DEF Rising, Counted

(* What a new block does to the nodes that are found.                      *)
LEMMA NodesTyped ==
    ASSUME Lists, NEW g \in Groups
    PROVE  /\ [i \in DOMAIN local_hosts[g] |-> local_hosts[g][i].nodes] \in Seq(Seq(Nodes))
           /\ LocalNodes(g) \in Seq(Nodes)
<1> DEFINE s == local_hosts[g]
<1>1. s \in Seq(Blocks)
  BY DEF Lists
<1>2. DOMAIN s = 1 .. Len(s) /\ Len(s) \in Nat /\ \A i \in 1 .. Len(s) : s[i] \in Blocks
  BY <1>1, LenProperties, ElementOfSeq
<1>3. \A i \in 1 .. Len(s) : s[i].nodes \in Seq(Nodes)
  BY <1>2 DEF Blocks
<1> HIDE DEF s
<1>4. [i \in DOMAIN s |-> s[i].nodes] \in Seq(Seq(Nodes))
  BY <1>2, <1>3
<1> QED
  BY <1>4, FlatType DEF LocalNodes, s

LEMMA NodesAppended ==
    ASSUME Lists, NEW g \in Groups, NEW b \in Blocks,
           local_hosts' = [local_hosts EXCEPT ![g] = Append(@, b)]
    PROVE  /\ LocalNodes(g)' = LocalNodes(g) \o b.nodes
           /\ \A h \in Groups \ {g} : LocalNodes(h)' = LocalNodes(h)
<1> DEFINE s == local_hosts[g]
           t == Append(s, b)
           f == [i \in DOMAIN s |-> s[i].nodes]
<1>1. s \in Seq(Blocks) /\ local_hosts'[g] = t /\ \A h \in Groups \ {g} : local_hosts'[h] = local_hosts[h]
  BY DEF Lists
<1>2. /\ DOMAIN s = 1 .. Len(s) /\ Len(s) \in Nat /\ t \in Seq(Blocks)
      /\ DOMAIN t = 1 .. Len(s) + 1 /\ t[Len(s) + 1] = b /\ \A i \in 1 .. Len(s) : t[i] = s[i]
  BY <1>1, LenProperties, AppendProperties
<1>3. f \in Seq(Seq(Nodes)) /\ b.nodes \in Seq(Nodes)
  BY NodesTyped DEF Blocks
<1>4. [i \in DOMAIN t |-> t[i].nodes] = Append(f, b.nodes)
  <2>1. DOMAIN f = 1 .. Len(s) /\ Len(f) = Len(s)
    BY <1>2, <1>3, LenProperties
  <2>2. \A i \in 1 .. Len(s) : f[i] = s[i].nodes
    BY <1>2
  <2> HIDE DEF f
  <2>3. /\ Append(f, b.nodes) \in Seq(Seq(Nodes)) /\ DOMAIN Append(f, b.nodes) = 1 .. Len(s) + 1
        /\ Append(f, b.nodes)[Len(s) + 1] = b.nodes
        /\ \A i \in 1 .. Len(s) : Append(f, b.nodes)[i] = f[i]
    BY <1>3, <2>1, AppendProperties, LenProperties
  <2> DEFINE u == [i \in DOMAIN t |-> t[i].nodes]
             v == Append(f, b.nodes)
  <2>4. DOMAIN u = 1 .. Len(s) + 1 /\ \A i \in 1 .. Len(s) + 1 : u[i] = t[i].nodes
    BY <1>2
  <2>5. \A i \in 1 .. Len(s) + 1 : i \in 1 .. Len(s) \/ i = Len(s) + 1
    BY <1>2
  <2>6. u = [i \in 1 .. Len(s) + 1 |-> u[i]] /\ v = [i \in 1 .. Len(s) + 1 |-> v[i]]
    <3>1. u = [i \in 1 .. Len(s) + 1 |-> u[i]]
      BY <2>4
    <3>2. v = [i \in 1 .. Len(s) + 1 |-> v[i]]
      <4> HIDE DEF u
      <4> QED
        BY <2>3
    <3> QED
      BY <3>1, <3>2
  <2> HIDE DEF u, t, s
  <2>7. \A i \in 1 .. Len(s) + 1 : u[i] = v[i]
    BY <1>2, <2>2, <2>3, <2>4, <2>5
  <2> HIDE DEF v
  <2>8. u = v
    BY <2>6, <2>7
  <2> QED
    BY <2>8 DEF u, v
<1>5. FlattenSeq(Append(f, b.nodes)) = FlattenSeq(f) \o b.nodes
  <2> HIDE DEF f
  <2> QED
    BY <1>3, FlatAppend
<1>6. LocalNodes(g)' = FlattenSeq([i \in DOMAIN t |-> t[i].nodes])
  BY <1>1 DEF LocalNodes
<1>7. LocalNodes(g) = FlattenSeq(f)
  BY DEF LocalNodes
<1>8. \A h \in Groups \ {g} : LocalNodes(h)' = LocalNodes(h)
  BY <1>1 DEF LocalNodes
<1> HIDE DEF f, t
<1> QED
  BY <1>4, <1>5, <1>6, <1>7, <1>8

(* Steps that leave the lists and the nodes of the block alone.            *)
LEMMA NumbersKept ==
    ASSUME Numbers, UNCHANGED <<lists, block, orphans>>
    PROVE  Numbers'
<1> SUFFICES ASSUME NEW g \in Groups, orphans'[g] = {}
             PROVE  Rising(LocalNodes(g), Pending(g), nb_local_nodes[g])' /\ Counted(g)'
  BY DEF Numbers
<1>1. Rising(LocalNodes(g), Pending(g), nb_local_nodes[g]) /\ Counted(g)
  BY DEF Numbers
<1>2. /\ InMaking(g)' = InMaking(g) /\ LocalNodes(g)' = LocalNodes(g) /\ AllLocal(g)' = AllLocal(g)
      /\ nb_local_nodes' = nb_local_nodes /\ nb_nodes' = nb_nodes /\ block' = block
  BY DEF InMaking, LocalNodes, AllLocal, lists
<1>3. Pending(g)' = Pending(g) /\ Uncounted(g)' = Uncounted(g) /\ Here(g)' = Here(g)
  BY <1>2 DEF Pending, Uncounted, Here, Early
<1>4. Counted(g)'
  BY <1>1, <1>2, <1>3 DEF Counted
<1> QED
  BY <1>1, <1>2, <1>3, <1>4 DEF Rising

LEMMA NumbersSameNodes ==
    ASSUME Numbers, UNCHANGED <<lists, orphans>>, block # None, block' # None, Early(block), Early(block)',
           block'.plan = block.plan, block'.nodes = block.nodes
    PROVE  Numbers'
<1> SUFFICES ASSUME NEW g \in Groups, orphans'[g] = {}
             PROVE  Rising(LocalNodes(g), Pending(g), nb_local_nodes[g])' /\ Counted(g)'
  BY DEF Numbers
<1>1. Rising(LocalNodes(g), Pending(g), nb_local_nodes[g]) /\ Counted(g)
  BY DEF Numbers
<1>2. /\ InMaking(g)' = InMaking(g) /\ LocalNodes(g)' = LocalNodes(g) /\ AllLocal(g)' = AllLocal(g)
      /\ nb_local_nodes' = nb_local_nodes /\ nb_nodes' = nb_nodes
  BY DEF InMaking, LocalNodes, AllLocal, lists
<1>3. Pending(g)' = Pending(g)
  BY <1>2 DEF Pending
<1>4. Uncounted(g)' = 0 /\ Uncounted(g) = 0
  BY DEF Uncounted, Early
<1>5. Here(g)' = Here(g)
  BY <1>2 DEF Here, InMaking
<1>6. Counted(g)'
  BY <1>1, <1>2, <1>4, <1>5 DEF Counted, Early
<1> QED
  BY <1>1, <1>2, <1>3, <1>6 DEF Rising

LEMMA NumbersNewBlock ==
    ASSUME Shape, Shape', Numbers, NewBlock
    PROVE  Numbers'
<1>1. block = None /\ UNCHANGED <<lists, orphans>>
  BY DEF NewBlock
<1>2. block'.nodes = <<>> /\ block'.k = 0
  BY NewBlockBuilt
<1> SUFFICES ASSUME NEW g \in Groups, orphans'[g] = {}
             PROVE  Rising(LocalNodes(g), Pending(g), nb_local_nodes[g])' /\ Counted(g)'
  BY DEF Numbers
<1>3. Rising(LocalNodes(g), Pending(g), nb_local_nodes[g]) /\ Counted(g)
  BY <1>1 DEF Numbers
<1>4. /\ ~InMaking(g) /\ LocalNodes(g)' = LocalNodes(g) /\ AllLocal(g)' = AllLocal(g)
      /\ nb_local_nodes' = nb_local_nodes /\ nb_nodes' = nb_nodes
  BY <1>1 DEF InMaking, LocalNodes, AllLocal, lists
<1>5. Pending(g)' = <<>> /\ Pending(g) = <<>> /\ Uncounted(g)' = 0 /\ Uncounted(g) = 0
  BY <1>2, <1>4 DEF Pending, Uncounted
<1>6. Here(g)' => Here(g)
  BY <1>4 DEF Here
<1>7. Counted(g)'
  BY <1>2, <1>3, <1>4, <1>5, <1>6 DEF Counted
<1> QED
  BY <1>3, <1>4, <1>5, <1>7 DEF Rising

LEMMA NumbersMade ==
    ASSUME Shape, Shape', Numbers, instantiate_node
    PROVE  Numbers'
<1> DEFINE G == block.plan.grp
<1>1. /\ block.pc = "make" /\ block # None /\ block' # None /\ block'.plan = block.plan
      /\ Early(block) /\ Early(block)'
  BY MadeOne, BlockFields DEF Early, Sound
<1>2. UNCHANGED <<hosts, local_hosts, nb_nodes, orphans>>
  BY DEF instantiate_node
<1>4. /\ nb_local_nodes' = [nb_local_nodes EXCEPT ![G] = @ + 1]
      /\ \E t \in Nat :
            block'.nodes = Append(block.nodes, [id |-> nb_local_nodes[G], thread |-> t])
  <2>1. At("make") /\ Target \in Nat
    BY TargetIs DEF instantiate_node, Making
  <2> QED
    BY <2>1, MadeOne DEF NewNode, Number
<1>5. QED
  <2> SUFFICES ASSUME NEW g \in Groups, orphans'[g] = {}
               PROVE  Rising(LocalNodes(g), Pending(g), nb_local_nodes[g])' /\ Counted(g)'
    BY DEF Numbers
  <2>1. Rising(LocalNodes(g), Pending(g), nb_local_nodes[g]) /\ Counted(g)
    BY <1>2 DEF Numbers
  <2>2. /\ InMaking(g)' = InMaking(g) /\ LocalNodes(g)' = LocalNodes(g) /\ AllLocal(g)' = AllLocal(g)
        /\ nb_nodes' = nb_nodes
    BY <1>1, <1>2 DEF InMaking, LocalNodes, AllLocal
  <2>3. Uncounted(g)' = 0 /\ Uncounted(g) = 0
    BY <1>1 DEF Uncounted, Early
  <2>4. Here(g)' = Here(g)
    BY <1>1, <2>2 DEF Here
  <2>5. Counted(g)'
    BY <1>1, <2>1, <2>2, <2>3, <2>4 DEF Counted, Early
  <2>6. nb_local_nodes \in [Groups -> Nat]
    BY DEF Shape, Lists
  <2>7. CASE InMaking(g)
    <3>1. /\ g = G /\ Pending(g) = block.nodes /\ Pending(g)' = block'.nodes
          /\ nb_local_nodes'[g] = nb_local_nodes[g] + 1
      BY <1>1, <1>4, <2>2, <2>6, <2>7 DEF InMaking, Pending
    <3>2. PICK t \in Nat : Pending(g)' = Append(Pending(g), [id |-> nb_local_nodes[g], thread |-> t])
      BY <1>4, <3>1
    <3>3. Rising(LocalNodes(g), Append(Pending(g), [id |-> nb_local_nodes[g], thread |-> t]),
                   nb_local_nodes[g] + 1)
      BY <2>1, NumberedMore
    <3> QED
      BY <2>2, <2>5, <3>1, <3>2, <3>3 DEF Rising
  <2>8. CASE ~InMaking(g)
    <3>1. g # G /\ Pending(g) = <<>> /\ Pending(g)' = <<>> /\ nb_local_nodes'[g] = nb_local_nodes[g]
      BY <1>1, <1>4, <2>2, <2>6, <2>8 DEF InMaking, Pending
    <3> QED
      BY <2>1, <2>2, <2>5, <3>1 DEF Rising
  <2> QED
    BY <2>7, <2>8

LEMMA NumbersEntered ==
    ASSUME Shape, Shape', Numbers, add_host
    PROVE  Numbers'
<1> DEFINE G == block.plan.grp
           b == MadeBlock
<1>1. /\ block.pc = "enter" /\ block # None /\ Built(block) /\ Phase(block) /\ orphans' = orphans
      /\ block'.plan = block.plan /\ block'.pc = "enter" /\ block'.nodes = block.nodes
      /\ block'.k = block.k + 1 /\ block' # None
      /\ b \in Blocks /\ b.nodes = block.nodes /\ b.host = block.plan.host
      /\ AddHostIs(G) /\ nb_local_nodes' = nb_local_nodes
  BY AddHostBuilt, MadeBlockIs, BlockFields DEF Sound, add_host
<1>2. G \in Groups /\ Lists /\ block.k \in {0, 1, 2}
  BY <1>1, BlockFields DEF Shape, AddHostIs
<1>3. (Local(b.host) => b.nb = Len(b.nodes)) /\ (~Local(b.host) => b.nodes = <<>>)
      /\ b.nb \in Nat /\ b.nodes \in Seq(Nodes) /\ Len(b.nodes) \in Nat
  BY <1>1, LenProperties DEF Blocks, Phase
<1> HIDE DEF b
<1> SUFFICES ASSUME NEW g \in Groups, orphans'[g] = {}
             PROVE  Rising(LocalNodes(g), Pending(g), nb_local_nodes[g])' /\ Counted(g)'
  BY DEF Numbers
<1>4. Rising(LocalNodes(g), Pending(g), nb_local_nodes[g]) /\ Counted(g)
  BY <1>1 DEF Numbers
<1>5. /\ InMaking(g)' = InMaking(g) /\ (InMaking(g) <=> g = G)
  BY <1>1 DEF InMaking
<1>6. CASE g # G
  <2>1. /\ hosts'[g] = hosts[g] /\ nb_nodes'[g] = nb_nodes[g]
        /\ LocalNodes(g)' = LocalNodes(g)
    <3>1. hosts'[g] = hosts[g] /\ local_hosts'[g] = local_hosts[g] /\ nb_nodes'[g] = nb_nodes[g]
      BY <1>1, <1>2, <1>6 DEF AddHostIs, Lists
    <3> QED
      BY <3>1 DEF LocalNodes
  <2>2. /\ AllLocal(g)' = AllLocal(g) /\ Pending(g)' = Pending(g)
        /\ Uncounted(g)' = 0 /\ Uncounted(g) = 0
    BY <1>5, <1>6, <2>1 DEF AllLocal, Pending, Uncounted
  <2>3. Here(g)' = Here(g)
    BY <1>5, <1>6, <2>2 DEF Here
  <2>4. Counted(g)'
    BY <1>4, <1>5, <1>6, <2>1, <2>2, <2>3 DEF Counted
  <2> QED
    BY <1>1, <1>4, <2>1, <2>2, <2>4 DEF Rising
<1>7. CASE g = G /\ block.k = 0
  <2>1. /\ local_hosts' = IF Local(b.host) THEN [local_hosts EXCEPT ![g] = Append(@, b)]
                          ELSE local_hosts
        /\ hosts' = hosts /\ nb_nodes' = nb_nodes
    BY <1>1, <1>7 DEF AddHostIs, b
  <2>2. Pending(g) = b.nodes /\ Pending(g)' = <<>> /\ Uncounted(g) = 0 /\ Uncounted(g)' = Len(b.nodes)
    BY <1>1, <1>5, <1>7 DEF Pending, Uncounted, Early
  <2>3. LocalNodes(g)' = LocalNodes(g) \o b.nodes
    <3>1. CASE Local(b.host)
      BY <1>1, <1>2, <2>1, <3>1, NodesAppended
    <3>2. CASE ~Local(b.host)
      <4>1. LocalNodes(g)' = LocalNodes(g) /\ b.nodes = <<>>
        BY <1>3, <2>1, <3>2 DEF LocalNodes
      <4>2. LocalNodes(g) \o <<>> = LocalNodes(g)
        BY <1>2, NodesTyped, ConcatEmptySeq
      <4> QED
        BY <4>1, <4>2
    <3> QED
      BY <3>1, <3>2
  <2>4. /\ Rising(LocalNodes(g) \o b.nodes, <<>>, nb_local_nodes[g])
        /\ Len(LocalNodes(g) \o b.nodes) = Len(LocalNodes(g)) + Len(b.nodes)
    BY <1>4, <2>2, NumberedEnter
  <2>5. Here(g)' = Here(g)
    BY <1>1, <1>5, <2>1 DEF Here, AllLocal
  <2>6. Counted(g)'
    <3>1. Here(g) => nb_nodes[g] + 0 = Len(LocalNodes(g))
      BY <1>4, <2>2 DEF Counted
    <3>2. nb_nodes[g] \in Nat
      BY <1>2 DEF Lists
    <3>3. Here(g) => nb_nodes[g] + Len(b.nodes) = Len(LocalNodes(g)) + Len(b.nodes)
      BY <1>3, <3>1, <3>2
    <3>4. block'.k = 1
      BY <1>1, <1>7
    <3> QED
      BY <2>1, <2>2, <2>3, <2>4, <2>5, <3>3, <3>4 DEF Counted
  <2> QED
    BY <1>1, <2>2, <2>3, <2>4, <2>6 DEF Rising
<1>8. CASE g = G /\ block.k = 1
  <2>1. /\ hosts'[g] = Append(hosts[g], b) /\ nb_nodes' = nb_nodes
        /\ LocalNodes(g)' = LocalNodes(g)
    BY <1>1, <1>2, <1>8 DEF AddHostIs, Lists, LocalNodes, b
  <2>2. Pending(g) = <<>> /\ Pending(g)' = <<>> /\ Uncounted(g)' = Uncounted(g)
    BY <1>1, <1>5, <1>8 DEF Pending, Uncounted, Early
  <2>3. AllLocal(g)' => AllLocal(g) /\ Local(b.host)
    <3>1. hosts[g] \in Seq(Blocks)
      BY <1>2 DEF Lists
    <3>2. \A x : x \in ToSet(hosts[g]) => x \in ToSet(Append(hosts[g], b))
      <4>1. /\ DOMAIN hosts[g] = 1 .. Len(hosts[g]) /\ Len(hosts[g]) \in Nat
            /\ DOMAIN Append(hosts[g], b) = 1 .. Len(hosts[g]) + 1
            /\ \A i \in 1 .. Len(hosts[g]) : Append(hosts[g], b)[i] = hosts[g][i]
        BY <1>1, <3>1, AppendProperties, LenProperties
      <4> QED
        BY <4>1 DEF ToSet
    <3>3. b \in ToSet(Append(hosts[g], b))
      <4>1. /\ Len(hosts[g]) + 1 \in DOMAIN Append(hosts[g], b)
            /\ Append(hosts[g], b)[Len(hosts[g]) + 1] = b
        BY <1>1, <3>1, AppendProperties, LenProperties
      <4> QED
        BY <4>1 DEF ToSet
    <3>4. AllLocal(g)' <=> \A x \in ToSet(Append(hosts[g], b)) : Local(x.host)
      BY <2>1 DEF AllLocal
    <3> QED
      BY <3>2, <3>3, <3>4 DEF AllLocal
  <2>4. Here(g)' => Here(g)
    BY <1>1, <1>5, <2>3 DEF Here
  <2>5. AllLocal(g)' => Here(g)'
    BY <1>1, <2>3 DEF Here, b
  <2>6. Counted(g)'
    BY <1>4, <2>1, <2>2, <2>4, <2>5 DEF Counted
  <2> QED
    BY <1>1, <1>4, <2>1, <2>2, <2>6 DEF Rising
<1>9. CASE g = G /\ block.k = 2
  <2>1. /\ hosts' = hosts /\ nb_nodes'[g] = nb_nodes[g] + b.nb
        /\ LocalNodes(g)' = LocalNodes(g)
    BY <1>1, <1>2, <1>9 DEF AddHostIs, Lists, LocalNodes, b
  <2>2. /\ Pending(g) = <<>> /\ Pending(g)' = <<>>
        /\ Uncounted(g) = Len(b.nodes) /\ Uncounted(g)' = 0
    BY <1>1, <1>5, <1>9 DEF Pending, Uncounted, Early
  <2>3. Here(g)' = Here(g) /\ AllLocal(g)' = AllLocal(g)
    BY <1>1, <1>5, <2>1 DEF Here, AllLocal
  <2>4. Here(g) => Local(b.host)
    BY <1>1, <1>5, <1>9 DEF Here
  <2>5. Counted(g)'
    <3>1. Here(g) => nb_nodes'[g] + 0 = Len(LocalNodes(g))
      <4>1. Here(g) => nb_nodes[g] + Len(b.nodes) = Len(LocalNodes(g)) /\ b.nb = Len(b.nodes)
        BY <1>3, <1>4, <2>2, <2>4 DEF Counted
      <4>2. nb_nodes[g] \in Nat
        BY <1>2 DEF Lists
      <4> QED
        BY <1>3, <2>1, <4>1, <4>2
    <3>2. AllLocal(g) => Here(g)
      BY <1>1, <1>4, <1>5, <1>9 DEF Counted
    <3> QED
      BY <2>1, <2>2, <2>3, <3>1, <3>2 DEF Counted
  <2> QED
    BY <1>1, <1>4, <2>1, <2>2, <2>5 DEF Rising
<1> QED
  BY <1>2, <1>6, <1>7, <1>8, <1>9

LEMMA NumbersDone ==
    ASSUME Shape, Numbers, BlockDone
    PROVE  Numbers'
<1>1. /\ block.pc = "enter" /\ block.k = 3 /\ block # None /\ block' = None /\ UNCHANGED <<lists, orphans>>
  BY DEF BlockDone, At, Order
<1> SUFFICES ASSUME NEW g \in Groups, orphans'[g] = {}
             PROVE  Rising(LocalNodes(g), Pending(g), nb_local_nodes[g])' /\ Counted(g)'
  BY DEF Numbers
<1>2. Rising(LocalNodes(g), Pending(g), nb_local_nodes[g]) /\ Counted(g)
  BY <1>1 DEF Numbers
<1>3. /\ ~InMaking(g)' /\ LocalNodes(g)' = LocalNodes(g) /\ AllLocal(g)' = AllLocal(g)
      /\ nb_local_nodes' = nb_local_nodes /\ nb_nodes' = nb_nodes
  BY <1>1 DEF InMaking, LocalNodes, AllLocal, lists
<1>4. Pending(g)' = <<>> /\ Pending(g) = <<>> /\ Uncounted(g)' = 0 /\ Uncounted(g) = 0
  BY <1>1, <1>3 DEF Pending, Uncounted, Early
<1>5. Here(g)' => Here(g)
  BY <1>1, <1>2, <1>3 DEF Counted, Here
<1>6. Counted(g)'
  BY <1>2, <1>3, <1>4, <1>5 DEF Counted
<1> QED
  BY <1>2, <1>3, <1>4, <1>6 DEF Rising

(* A number given to a node that threw is a gap, in its group only.        *)
LEMMA NumbersThrown ==
    ASSUME Shape, OrphansOf, Numbers, InitThrows
    PROVE  Numbers'
<1> DEFINE G == block.plan.grp
<1>1. /\ G \in Groups /\ block # None /\ block.pc = "make" /\ block' = None /\ Sound(block)
      /\ nb_local_nodes' = [nb_local_nodes EXCEPT ![G] = @ + 1]
      /\ orphans' = [orphans EXCEPT ![G] = @ \cup ToSet(block.nodes) \cup {NewNode(-1)}]
      /\ UNCHANGED <<hosts, local_hosts, nb_nodes>>
  BY ThrownIs DEF InitThrows
<1> SUFFICES ASSUME NEW g \in Groups, orphans'[g] = {}
             PROVE  Rising(LocalNodes(g), Pending(g), nb_local_nodes[g])' /\ Counted(g)'
  BY DEF Numbers
<1>2. g # G /\ orphans'[g] = orphans[g] /\ nb_local_nodes'[g] = nb_local_nodes[g]
  BY <1>1 DEF OrphansOf, Shape, Lists
<1>3. Rising(LocalNodes(g), Pending(g), nb_local_nodes[g]) /\ Counted(g)
  BY <1>2 DEF Numbers
<1>4. /\ ~InMaking(g) /\ ~InMaking(g)' /\ LocalNodes(g)' = LocalNodes(g) /\ AllLocal(g)' = AllLocal(g)
  BY <1>1, <1>2 DEF InMaking, LocalNodes, AllLocal
<1>5. Pending(g)' = <<>> /\ Pending(g) = <<>> /\ Uncounted(g)' = 0 /\ Uncounted(g) = 0
  BY <1>4 DEF Pending, Uncounted
<1>6. Here(g)' = Here(g)
  BY <1>4 DEF Here
<1>7. Counted(g)'
  BY <1>1, <1>3, <1>4, <1>5, <1>6 DEF Counted
<1> QED
  BY <1>2, <1>3, <1>4, <1>5, <1>7 DEF Rising

LEMMA NumbersStep ==
    ASSUME Shape, Shape', OrphansOf, Numbers, NextGrowth
    PROVE  Numbers'
<1>1. CASE \/ execute_statement_declare_host \/ execute_statement_add_group
           \/ execute_statement_assign \/ assign_same_as \/ agml_threads_start \/ Others
  <2>1. UNCHANGED <<lists, block, orphans>>
    BY <1>1, OthersOnly DEF execute_statement_declare_host, execute_statement_add_group,
       execute_statement_assign, assign_same_as, agml_threads_start
  <2> QED
    BY <2>1, NumbersKept
<1>2. CASE threads_get_lightest \/ Share \/ NextJob \/ Lock \/ NoSuchClass \/ Unlock
  <2>1. UNCHANGED <<lists, orphans>>
    BY <1>2 DEF threads_get_lightest, Share, NextJob, Lock, NoSuchClass, Unlock
  <2>2. /\ block # None /\ Sound(block') /\ Early(block) /\ Early(block)'
        /\ block'.plan = block.plan /\ block'.nodes = block.nodes
    BY <1>2, LightestBuilt, ShareBuilt, NextJobBuilt, LockBuilt, SkippedOne, UnlockBuilt DEF Early
  <2> QED
    BY <2>1, <2>2, NumbersSameNodes, BlockFields DEF Sound
<1> QED
  BY <1>1, <1>2, NumbersNewBlock, NumbersMade, NumbersThrown, NumbersEntered, NumbersDone
     DEF NextGrowth, Reader

LEMMA NumbersFound ==
    ASSUME Shape, Numbers
    PROVE  NodeFound
<1> SUFFICES ASSUME NEW g \in Groups, orphans[g] = {}
             PROVE  /\ ~InMaking(g) =>
                          \A id \in 0 .. nb_local_nodes[g] - 1 : get_local_node(g, id).id = id
                    /\ InMaking(g) /\ AllLocal(g) /\ Local(block.plan.host) =>
                          \A id \in 0 .. Min({nb_nodes[g], nb_local_nodes[g]}) - 1 :
                              get_local_node(g, id).id = id
  BY DEF NodeFound
<1> DEFINE s == LocalNodes(g)
           n == nb_nodes[g]
           m == nb_local_nodes[g]
<1>1. n \in Nat /\ m \in Nat
  BY DEF Shape, Lists
<1> HIDE DEF n, m
<1>2. Rising(s, Pending(g), m) /\ Counted(g)
  BY DEF Numbers, m
<1>3. Len(s) \in Nat /\ s \in Seq(Nodes)
  BY <1>2, LenProperties DEF Rising
<1>4. ASSUME NEW id \in Nat, id < Len(s) PROVE get_local_node(g, id).id = id
  <2>1. id + 1 \in 1 .. Len(s)
    BY <1>3, <1>4
  <2>2. s[id + 1].id = id
    BY <1>2, <2>1 DEF Rising
  <2> QED
    BY <1>4, <2>2 DEF get_local_node
<1>5. ASSUME ~InMaking(g), NEW id \in 0 .. m - 1 PROVE get_local_node(g, id).id = id
  <2>1. Pending(g) = <<>>
    BY <1>5 DEF Pending
  <2>2. m = Len(s)
    BY <1>2, <1>3, <2>1 DEF Rising
  <2>3. id \in Nat /\ id < Len(s)
    BY <1>1, <2>2
  <2> QED
    BY <1>4, <2>3
<1>6. ASSUME InMaking(g), AllLocal(g), Local(block.plan.host), NEW id \in 0 .. Min({n, m}) - 1
      PROVE  get_local_node(g, id).id = id
  <2>1. Min({n, m}) \in {n, m} /\ Min({n, m}) <= n /\ Min({n, m}) <= m
    BY <1>1, LeastOf
  <2>2. id \in Nat /\ id < n
    BY <1>1, <2>1
  <2>3. n + Uncounted(g) = Len(s)
    BY <1>2, <1>6 DEF Counted, Here, n
  <2>4. Uncounted(g) \in Nat
    <3>1. block.nodes \in Seq(Nodes)
      BY <1>6, BlockFields DEF Shape, InMaking, Sound
    <3> QED
      BY <3>1, LenProperties DEF Uncounted
  <2>5. id < Len(s)
    BY <1>1, <1>3, <2>2, <2>3, <2>4
  <2> QED
    BY <1>4, <2>2, <2>5
<1> QED
  BY <1>5, <1>6 DEF n, m

LEMMA NumbersAlways == SpecGrowth => []Numbers
<1>1. Shape /\ Shape' /\ OrphansOf /\ Numbers /\ [NextGrowth]_growth => Numbers'
  <2>1. Numbers /\ UNCHANGED growth => Numbers'
    BY NumbersKept DEF growth
  <2> QED
    BY <2>1, NumbersStep
<1> QED
  BY <1>1, Shapes, Orphans, StartedNumbers, PTL DEF SpecGrowth

(* Unless an init() of its group has thrown, and a block of the group is   *)
(* in the making, a number that com_decode_local_node found below the      *)
(* counter is that of a node which get_local_node then finds; where all    *)
(* blocks are local, so it is at any moment for one that NodeGroup::send   *)
(* found below both counters.                                              *)
THEOREM NodesFound == (SpecGrowth => []NodeFound) /\ (Spec => []NodeFound)
<1>1. Shape /\ Numbers => NodeFound
  BY NumbersFound
<1> QED
  BY <1>1, Shapes, NumbersAlways, OnlyMade, PTL

-----------------------------------------------------------------------------
(* The nodes on a thread.  Only instantiate_node makes more of them.       *)
SameNodes == \A g \in Groups : NodesOf(g)' = NodesOf(g)

LEMMA OnMember ==
    ASSUME NEW t, NEW n
    PROVE  n \in On(t) <=> \E g \in Groups : \E x \in NodesOf(g) : x.thread = t /\ n = <<g, x.id>>
BY DEF On

LEMMA OnKept ==
    ASSUME SameNodes
    PROVE  \A t : On(t)' = On(t)
<1> SUFFICES ASSUME NEW t PROVE On(t)' = On(t)
  OBVIOUS
<1>1. \A g \in Groups : {<<g, n.id>> : n \in {x \in NodesOf(g)' : x.thread = t}}
                      = {<<g, n.id>> : n \in {x \in NodesOf(g) : x.thread = t}}
  BY DEF SameNodes
<1>2. {{<<g, n.id>> : n \in {x \in NodesOf(g)' : x.thread = t}} : g \in Groups}
      = {{<<g, n.id>> : n \in {x \in NodesOf(g) : x.thread = t}} : g \in Groups}
  BY <1>1
<1> QED
  BY <1>2 DEF On

Entered ==
    block # None /\ block.pc = "enter" /\ block.k # 0 =>
        ToSet(block.nodes) \subseteq ToSet(LocalNodes(block.plan.grp))

LEMMA ToSetConcat ==
    ASSUME NEW V, NEW s \in Seq(V), NEW p \in Seq(V)
    PROVE  ToSet(s \o p) = ToSet(s) \cup ToSet(p)
<1>1. /\ Len(s) \in Nat /\ Len(p) \in Nat /\ DOMAIN s = 1 .. Len(s) /\ DOMAIN p = 1 .. Len(p)
      /\ s \o p \in Seq(V) /\ Len(s \o p) = Len(s) + Len(p)
      /\ \A i \in 1 .. Len(s) + Len(p) :
            (s \o p)[i] = IF i <= Len(s) THEN s[i] ELSE p[i - Len(s)]
  BY ConcatProperties, LenProperties
<1>2. DOMAIN (s \o p) = 1 .. Len(s) + Len(p)
  BY <1>1, LenProperties
<1>3. ASSUME NEW x \in ToSet(s \o p) PROVE x \in ToSet(s) \cup ToSet(p)
  <2>1. PICK i \in 1 .. Len(s) + Len(p) : x = (s \o p)[i]
    BY <1>2 DEF ToSet
  <2>2. CASE i <= Len(s)
    <3>1. i \in DOMAIN s /\ x = s[i]
      BY <1>1, <2>1, <2>2
    <3> QED
      BY <3>1 DEF ToSet
  <2>3. CASE ~(i <= Len(s))
    <3>1. i - Len(s) \in DOMAIN p /\ x = p[i - Len(s)]
      BY <1>1, <2>1, <2>3
    <3> QED
      BY <3>1 DEF ToSet
  <2> QED
    BY <2>2, <2>3
<1>4. ASSUME NEW x \in ToSet(s) PROVE x \in ToSet(s \o p)
  <2>1. PICK i \in 1 .. Len(s) : x = s[i]
    BY <1>1 DEF ToSet
  <2>2. i \in 1 .. Len(s) + Len(p) /\ x = (s \o p)[i]
    BY <1>1, <2>1
  <2> QED
    BY <1>2, <2>2 DEF ToSet
<1>5. ASSUME NEW x \in ToSet(p) PROVE x \in ToSet(s \o p)
  <2>1. PICK i \in 1 .. Len(p) : x = p[i]
    BY <1>1 DEF ToSet
  <2>2. Len(s) + i \in 1 .. Len(s) + Len(p) /\ ~(Len(s) + i <= Len(s)) /\ (Len(s) + i) - Len(s) = i
    BY <1>1
  <2>3. x = (s \o p)[Len(s) + i]
    BY <1>1, <2>1, <2>2
  <2> QED
    BY <1>2, <2>2, <2>3 DEF ToSet
<1> QED
  BY <1>3, <1>4, <1>5

LEMMA ToSetAppend ==
    ASSUME NEW V, NEW s \in Seq(V), NEW e \in V
    PROVE  ToSet(Append(s, e)) = ToSet(s) \cup {e}
<1>1. Append(s, e) = s \o <<e>>
  BY AppendIsConcat
<1>2. <<e>> \in Seq(V) /\ ToSet(<<e>>) = {e}
  BY DEF ToSet
<1>3. PICK p \in Seq(V) : p = <<e>>
  BY <1>2
<1>4. ToSet(s \o p) = ToSet(s) \cup ToSet(p)
  BY ToSetConcat
<1> QED
  BY <1>1, <1>2, <1>3, <1>4

(* What add_host does to the nodes that are found.                         *)
LEMMA NodesMoved ==
    ASSUME Shape, add_host, NEW g \in Groups
    PROVE  IF g = block.plan.grp /\ block.k = 0
           THEN ToSet(LocalNodes(g)') = ToSet(LocalNodes(g)) \cup ToSet(block.nodes)
           ELSE LocalNodes(g)' = LocalNodes(g)
<1>1. PICK b, G : b = MadeBlock /\ G = block.plan.grp
  OBVIOUS
<1>2. /\ AddHostIs(G) /\ b \in Blocks /\ b.nodes = block.nodes /\ b.host = block.plan.host
      /\ Phase(block) /\ G \in Groups /\ block.nodes \in Seq(Nodes) /\ Lists
  BY <1>1, AddHostBuilt, MadeBlockIs, BlockFields DEF Shape, Sound
<1>3. local_hosts' = local_hosts => LocalNodes(g)' = LocalNodes(g)
  BY DEF LocalNodes
<1>4. CASE block.k # 0 \/ ~Local(b.host)
  <2>1. local_hosts' = local_hosts
    BY <1>1, <1>2, <1>4 DEF AddHostIs
  <2>2. ~Local(b.host) => ToSet(block.nodes) = {}
    BY <1>1, <1>2 DEF Phase, ToSet
  <2> QED
    BY <1>3, <1>4, <2>1, <2>2
<1>5. CASE block.k = 0 /\ Local(b.host)
  <2>1. local_hosts' = [local_hosts EXCEPT ![G] = Append(@, b)]
    BY <1>1, <1>2, <1>5 DEF AddHostIs
  <2>2. /\ LocalNodes(G)' = LocalNodes(G) \o b.nodes
        /\ \A h \in Groups \ {G} : LocalNodes(h)' = LocalNodes(h)
    BY <1>2, <2>1, NodesAppended
  <2>3. LocalNodes(G) \in Seq(Nodes) /\ b.nodes \in Seq(Nodes)
    BY <1>2, NodesTyped
  <2>4. ToSet(LocalNodes(G) \o b.nodes) = ToSet(LocalNodes(G)) \cup ToSet(b.nodes)
    BY <2>3, ToSetConcat
  <2>5. CASE g = G
    BY <1>1, <1>2, <1>5, <2>2, <2>4, <2>5
  <2>6. CASE g # G
    BY <1>1, <2>2, <2>6
  <2> QED
    BY <2>5, <2>6
<1> QED
  BY <1>4, <1>5

LEMMA EnteredStep ==
    ASSUME Shape, Entered, NextGrowth
    PROVE  Entered'
<1>1. CASE UNCHANGED <<block, local_hosts>>
  <2>1. \A g : LocalNodes(g)' = LocalNodes(g)
    BY <1>1 DEF LocalNodes
  <2>2. ToSet(LocalNodes(block.plan.grp))' = ToSet(LocalNodes(block.plan.grp))
    BY <1>1, <2>1 DEF ToSet
  <2>3. ToSet(block.nodes)' = ToSet(block.nodes)
    BY <1>1 DEF ToSet
  <2> QED
    BY <1>1, <2>2, <2>3 DEF Entered
<1>2. CASE block' = None \/ block'.pc # "enter" \/ block'.k = 0
  BY <1>2 DEF Entered
<1>3. CASE add_host
  <2>1. /\ block'.plan = block.plan /\ block'.nodes = block.nodes /\ block.pc = "enter" /\ block # None
    BY <1>3, AddHostBuilt
  <2>2. PICK G \in Groups : G = block.plan.grp /\ block'.plan.grp = G
    BY <1>3, <2>1, AddHostBuilt
  <2>3. ToSet(block.nodes) \subseteq ToSet(LocalNodes(G)')
    <3>1. CASE block.k = 0
      BY <1>3, <2>2, <3>1, NodesMoved
    <3>2. CASE block.k # 0
      <4>1. LocalNodes(G)' = LocalNodes(G)
        BY <1>3, <2>2, <3>2, NodesMoved
      <4> QED
        BY <2>1, <2>2, <3>2, <4>1 DEF Entered
    <3> QED
      BY <3>1, <3>2
  <2> QED
    BY <2>1, <2>2, <2>3 DEF Entered, ToSet
<1>4. CASE NewBlock
  BY <1>2, <1>4, NewBlockBuilt
<1>5. CASE threads_get_lightest \/ Share \/ NextJob \/ Lock \/ instantiate_node \/ NoSuchClass \/ Unlock
  BY <1>2, <1>5, LightestBuilt, ShareBuilt, NextJobBuilt, LockBuilt, MadeOne, SkippedOne, UnlockBuilt
<1>6. CASE BlockDone \/ InitThrows
  BY <1>2, <1>6 DEF BlockDone, InitThrows
<1> QED
  BY <1>1, <1>3, <1>4, <1>5, <1>6, OthersOnly
     DEF NextGrowth, Reader, execute_statement_declare_host, execute_statement_add_group,
         execute_statement_assign, assign_same_as, agml_threads_start, lists

LEMMA NodesOfKept ==
    ASSUME Shape, Entered, NextGrowth, ~instantiate_node, ~InitThrows
    PROVE  SameNodes
<1>0. orphans' = orphans
  BY OneLine
<1>1. ASSUME local_hosts' = local_hosts PROVE \A g : ToSet(LocalNodes(g)') = ToSet(LocalNodes(g))
  <2>1. \A g : LocalNodes(g)' = LocalNodes(g)
    BY <1>1 DEF LocalNodes
  <2> QED
    BY <2>1
<1>2. \A g : NodesOf(g)' = ToSet(LocalNodes(g)') \cup orphans[g]
                \cup (IF block' # None /\ block'.plan.grp = g THEN ToSet(block'.nodes) ELSE {})
  BY <1>0 DEF NodesOf, ToSet
<1>3. CASE local_hosts' = local_hosts /\ block' = block
  BY <1>1, <1>2, <1>3 DEF SameNodes, NodesOf
<1>4. CASE /\ local_hosts' = local_hosts /\ block # None /\ block' # None
           /\ block'.plan = block.plan /\ block'.nodes = block.nodes
  BY <1>1, <1>2, <1>4 DEF SameNodes, NodesOf
<1>5. CASE NewBlock
  <2>1. local_hosts' = local_hosts /\ block = None /\ block'.nodes = <<>>
    BY <1>5, NewBlockBuilt DEF NewBlock, lists
  <2>2. ToSet(<<>>) = {}
    BY DEF ToSet
  <2> QED
    BY <1>1, <1>2, <2>1, <2>2 DEF SameNodes, NodesOf
<1>6. CASE add_host
  <2>1. /\ block # None /\ block' # None /\ block'.plan = block.plan /\ block'.nodes = block.nodes
    BY <1>6, AddHostBuilt, BlockFields DEF Sound
  <2> SUFFICES ASSUME NEW g \in Groups PROVE NodesOf(g)' = NodesOf(g)
    BY DEF SameNodes
  <2>2. CASE g = block.plan.grp /\ block.k = 0
    <3>1. ToSet(LocalNodes(g)') = ToSet(LocalNodes(g)) \cup ToSet(block.nodes)
      BY <1>6, <2>2, NodesMoved
    <3> QED
      BY <1>2, <2>1, <2>2, <3>1 DEF NodesOf
  <2>3. CASE ~(g = block.plan.grp /\ block.k = 0)
    <3>1. LocalNodes(g)' = LocalNodes(g)
      BY <1>6, <2>3, NodesMoved
    <3> QED
      BY <1>2, <2>1, <3>1 DEF NodesOf
  <2> QED
    BY <2>2, <2>3
<1>7. CASE BlockDone
  <2>1. /\ local_hosts' = local_hosts /\ block' = None /\ block # None /\ block.pc = "enter"
        /\ block.k # 0
    BY <1>7 DEF BlockDone, At, lists, Order
  <2>2. ToSet(block.nodes) \subseteq ToSet(LocalNodes(block.plan.grp))
    BY <2>1 DEF Entered
  <2> QED
    BY <1>1, <1>2, <2>1, <2>2 DEF SameNodes, NodesOf
<1>8. CASE threads_get_lightest \/ Share \/ NextJob \/ Lock \/ NoSuchClass \/ Unlock
  <2>1. local_hosts' = local_hosts
    BY <1>8 DEF threads_get_lightest, Share, NextJob, Lock, NoSuchClass, Unlock, lists
  <2>2. block # None /\ Sound(block') /\ block'.plan = block.plan /\ block'.nodes = block.nodes
    BY <1>8, LightestBuilt, ShareBuilt, NextJobBuilt, LockBuilt, SkippedOne, UnlockBuilt
  <2> QED
    BY <1>4, <2>1, <2>2, BlockFields DEF Sound
<1> QED
  BY <1>3, <1>5, <1>6, <1>7, <1>8, OthersOnly
     DEF NextGrowth, Reader, execute_statement_declare_host, execute_statement_add_group,
         execute_statement_assign, assign_same_as, agml_threads_start, lists

LEMMA NumberedBelow ==
    ASSUME NEW s, NEW p, NEW n, Rising(s, p, n), NEW x \in ToSet(s) \cup ToSet(p)
    PROVE  x.id # n
<1>1. s \in Seq(Nodes) /\ p \in Seq(Nodes) /\ Len(s) \in Nat /\ Len(p) \in Nat
      /\ DOMAIN s = 1 .. Len(s) /\ DOMAIN p = 1 .. Len(p) /\ n = Len(s) + Len(p)
  BY LenProperties DEF Rising
<1>2. CASE x \in ToSet(s)
  <2>1. PICK i \in 1 .. Len(s) : x = s[i]
    BY <1>1, <1>2 DEF ToSet
  <2>2. x.id = i - 1
    BY <2>1 DEF Rising
  <2> QED
    BY <1>1, <2>2
<1>3. CASE x \in ToSet(p)
  <2>1. PICK i \in 1 .. Len(p) : x = p[i]
    BY <1>1, <1>3 DEF ToSet
  <2>2. x.id = Len(s) + i - 1
    BY <2>1 DEF Rising
  <2> QED
    BY <1>1, <2>2
<1> QED
  BY <1>2, <1>3

(* A node that is made is a new one on its thread.                         *)
LEMMA OneMore ==
    ASSUME Shape, Numbers, NothingThrown, instantiate_node
    PROVE  \E n : \A t : /\ n \notin On(t)
                         /\ On(t)' = IF t = Target THEN On(t) \cup {n} ELSE On(t)
<1>0. At("make") /\ UNCHANGED <<local_hosts, orphans>>
  BY DEF instantiate_node, Making
<1>1. PICK G, th, id : /\ G \in Groups /\ G = block.plan.grp /\ th = Target
                       /\ id = nb_local_nodes[G]
  BY <1>0, NewNodeIs
<1> DEFINE e == [id |-> id, thread |-> th]
<1>2. /\ block # None /\ block' # None /\ block'.plan = block.plan /\ block.pc = "make"
      /\ block.nodes \in Seq(Nodes) /\ th \in Nat /\ block'.nodes = Append(block.nodes, e)
  <2>1. Sound(block) /\ Sound(block') /\ Target \in Nat
    BY <1>0, MadeOne, TargetIs
  <2>2. NewNode(Target) = e
    BY <1>1 DEF NewNode, Number
  <2> QED
    BY <1>1, <2>1, <2>2, MadeOne, BlockFields DEF Sound
<1>3. id \in Nat /\ e \in Nodes
  BY <1>1, <1>2 DEF Shape, Lists, Nodes
<1>4. local_hosts' = local_hosts
  BY <1>0
<1>5. \A g : LocalNodes(g)' = LocalNodes(g)
  BY <1>4 DEF LocalNodes
<1>6. \A g : NodesOf(g)' = ToSet(LocalNodes(g)') \cup orphans[g]
                \cup (IF block' # None /\ block'.plan.grp = g THEN ToSet(block'.nodes) ELSE {})
  BY <1>0 DEF NodesOf, ToSet
<1> HIDE DEF e
<1>7. ToSet(block'.nodes) = ToSet(block.nodes) \cup {e}
  BY <1>2, <1>3, ToSetAppend
<1>8. \A g : NodesOf(g)' = IF g = G THEN NodesOf(g) \cup {e} ELSE NodesOf(g)
  BY <1>1, <1>2, <1>5, <1>6, <1>7 DEF NodesOf
<1>9. \A x \in NodesOf(G) : x.id # id
  <2>1. Rising(LocalNodes(G), Pending(G), id)
    BY <1>1 DEF Numbers, NothingThrown
  <2>2. Pending(G) = block.nodes
    BY <1>1, <1>2 DEF Pending, InMaking, Early
  <2>3. NodesOf(G) = ToSet(LocalNodes(G)) \cup ToSet(Pending(G))
    BY <1>1, <1>2, <2>2 DEF NodesOf, NothingThrown
  <2> QED
    BY <2>1, <2>3, NumberedBelow
<1>10. e.id = id /\ e.thread = th
  BY DEF e
<1>11. ASSUME NEW t
       PROVE  /\ <<G, id>> \notin On(t)
              /\ On(t)' = IF t = th THEN On(t) \cup {<<G, id>>} ELSE On(t)
  <2>1. <<G, id>> \notin On(t)
    <3>1. \A g \in Groups : \A x \in NodesOf(g) : <<G, id>> # <<g, x.id>>
      BY <1>9
    <3> QED
      BY <3>1, OnMember
  <2>2. ASSUME NEW n
        PROVE  n \in On(t)' <=> n \in On(t) \/ (t = th /\ n = <<G, id>>)
    <3>1. n \in On(t)' <=> \E g \in Groups : \E x \in NodesOf(g)' : x.thread = t /\ n = <<g, x.id>>
      BY DEF On
    <3>2. n \in On(t) <=> \E g \in Groups : \E x \in NodesOf(g) : x.thread = t /\ n = <<g, x.id>>
      BY OnMember
    <3>3. ASSUME NEW g \in Groups, NEW x \in NodesOf(g)', x.thread = t, n = <<g, x.id>>
          PROVE  n \in On(t) \/ (t = th /\ n = <<G, id>>)
      BY <1>8, <1>10, <3>2, <3>3
    <3>4. ASSUME NEW g \in Groups, NEW x \in NodesOf(g), x.thread = t, n = <<g, x.id>>
          PROVE  n \in On(t)'
      BY <1>8, <3>1, <3>4
    <3>5. ASSUME t = th, n = <<G, id>> PROVE n \in On(t)'
      <4>1. e \in NodesOf(G)' /\ e.thread = t /\ n = <<G, e.id>> /\ G \in Groups
        BY <1>1, <1>8, <1>10, <3>5
      <4> QED
        BY <3>1, <4>1
    <3> QED
      BY <3>1, <3>2, <3>3, <3>4, <3>5
  <2>3. On(t)' = UNION {{<<g, n.id>> : n \in {x \in NodesOf(g) : x.thread = t}} : g \in Groups}'
    BY DEF On
  <2>4. CASE t = th
    <3>1. \A n : n \in On(t)' <=> n \in On(t) \cup {<<G, id>>}
      BY <2>2, <2>4
    <3> QED
      BY <2>1, <2>3, <2>4, <3>1
  <2>5. CASE t # th
    <3>1. \A n : n \in On(t)' <=> n \in On(t)
      BY <2>2, <2>5
    <3>2. On(t)' \subseteq On(t) /\ On(t) \subseteq On(t)'
      BY <3>1
    <3>3. On(t)' = On(t)
      BY <3>2 DEF On
    <3> QED
      BY <2>1, <2>5, <3>3
  <2> QED
    BY <2>4, <2>5
<1> QED
  BY <1>1, <1>11


(* No node is on two threads.                                              *)
LEMMA NumberedOnce ==
    ASSUME NEW s, NEW p, NEW n, Rising(s, p, n),
           NEW x \in ToSet(s) \cup ToSet(p), NEW y \in ToSet(s) \cup ToSet(p), x.id = y.id
    PROVE  x = y
<1>1. s \in Seq(Nodes) /\ p \in Seq(Nodes) /\ Len(s) \in Nat /\ Len(p) \in Nat
      /\ DOMAIN s = 1 .. Len(s) /\ DOMAIN p = 1 .. Len(p)
  BY LenProperties DEF Rising
<1>2. ASSUME NEW z \in ToSet(s) \cup ToSet(p)
      PROVE  \/ \E i \in 1 .. Len(s) : z = s[i] /\ z.id = i - 1
             \/ \E i \in 1 .. Len(p) : z = p[i] /\ z.id = Len(s) + i - 1
  BY <1>1 DEF ToSet, Rising
<1>3. CASE \E i \in 1 .. Len(s) : x = s[i] /\ x.id = i - 1
  <2>1. PICK i \in 1 .. Len(s) : x = s[i] /\ x.id = i - 1
    BY <1>3
  <2>2. ASSUME NEW j \in 1 .. Len(p), y.id = Len(s) + j - 1 PROVE FALSE
    BY <1>1, <2>1, <2>2
  <2>3. PICK j \in 1 .. Len(s) : y = s[j] /\ y.id = j - 1
    BY <1>2, <2>2
  <2> QED
    BY <1>1, <2>1, <2>3
<1>4. CASE \E i \in 1 .. Len(p) : x = p[i] /\ x.id = Len(s) + i - 1
  <2>1. PICK i \in 1 .. Len(p) : x = p[i] /\ x.id = Len(s) + i - 1
    BY <1>4
  <2>2. ASSUME NEW j \in 1 .. Len(s), y.id = j - 1 PROVE FALSE
    BY <1>1, <2>1, <2>2
  <2>3. PICK j \in 1 .. Len(p) : y = p[j] /\ y.id = Len(s) + j - 1
    BY <1>2, <2>2
  <2> QED
    BY <1>1, <2>1, <2>3
<1> QED
  BY <1>2, <1>3, <1>4

LEMMA OnOneThread ==
    ASSUME Numbers, Entered, NothingThrown, NEW t, NEW u, t # u
    PROVE  On(t) \cap On(u) = {}
<1> SUFFICES ASSUME NEW n \in On(t), n \in On(u) PROVE FALSE
  OBVIOUS
<1>1. PICK g \in Groups : \E x \in NodesOf(g) : x.thread = t /\ n = <<g, x.id>>
  BY OnMember
<1>2. PICK x \in NodesOf(g) : x.thread = t /\ n = <<g, x.id>>
  BY <1>1
<1>3. PICK y \in NodesOf(g) : y.thread = u /\ n = <<g, y.id>>
  <2>1. PICK h \in Groups : \E y \in NodesOf(h) : y.thread = u /\ n = <<h, y.id>>
    BY OnMember
  <2>2. h = g
    BY <1>2, <2>1
  <2> QED
    BY <2>1, <2>2
<1>4. Rising(LocalNodes(g), Pending(g), nb_local_nodes[g])
  BY DEF Numbers, NothingThrown
<1>5. NodesOf(g) \subseteq ToSet(LocalNodes(g)) \cup ToSet(Pending(g))
  <2>1. orphans[g] = {}
    BY DEF NothingThrown
  <2>2. CASE ~InMaking(g)
    BY <2>1, <2>2 DEF NodesOf, InMaking
  <2>3. CASE InMaking(g) /\ Early(block)
    BY <2>1, <2>3 DEF NodesOf, Pending
  <2>4. CASE InMaking(g) /\ ~Early(block)
    BY <2>1, <2>4 DEF NodesOf, InMaking, Early, Entered
  <2> QED
    BY <2>2, <2>3, <2>4
<1>6. x.id = y.id
  BY <1>2, <1>3
<1>7. x = y
  BY <1>4, <1>5, <1>6, NumberedOnce
<1> QED
  BY <1>2, <1>3, <1>7

-----------------------------------------------------------------------------
(* Even loads.  What two threads of the array have and will get of the     *)
(* block in the making differs by less than the number of threads made and *)
(* of the nodes that left.  Each load is read twice, so the lightest       *)
(* thread may have more nodes than another one, but no more than the nodes *)
(* that left the threads read so far.                                      *)
Count(t) == Cardinality(On(t))
Slack == made + Cardinality(left)

Level == \A t, u \in Live : Count(t) - Count(u) < Slack

Gone(t) == Cardinality(left \cap On(t))
Seen(k) == left \cap UNION {On(ThreadAt(i)) : i \in 0 .. k - 1}

Lightest(th, load, k) ==
    \/ load = -1 /\ k = 0
    \/ /\ load \in Nat /\ k \in 1 .. nbThreads /\ th \in 0 .. k - 1
       /\ load <= Count(ThreadAt(th)) /\ Count(ThreadAt(th)) <= load + Gone(ThreadAt(th))
       /\ \A i \in 0 .. k - 1 : Count(ThreadAt(th)) <= Count(ThreadAt(i)) + Cardinality(Seen(k))

Looked(load, k) == load = -1 \/ Count(ThreadAt(k)) < load + Gone(ThreadAt(k))

Chosen(th) ==
    /\ th \in 0 .. nbThreads - 1
    /\ \A i \in 0 .. nbThreads - 1 : Count(ThreadAt(th)) <= Count(ThreadAt(i)) + Cardinality(left)

(* What is left to do: of the job, and of the turns. *)
Owed(b, i) == IF b.jobs # <<>> /\ Head(b.jobs).thread = i THEN Head(b.jobs).nb - b.k ELSE 0
Later(b, i) == IF \E j \in b.turn .. nbThreads - 1 : Turn(j, b.th) = i THEN b.each ELSE 0
WillHave(b, i) == Count(ThreadAt(i)) + Owed(b, i) + Later(b, i)

WillLevel(b) == \A i, j \in 0 .. nbThreads - 1 : WillHave(b, i) - WillHave(b, j) < Slack

Within(b) ==
    /\ b.th \in 0 .. nbThreads - 1
    /\ b.jobs # <<>> => Head(b.jobs).thread \in 0 .. nbThreads - 1 /\ b.k <= Head(b.jobs).nb
    /\ b.pc = "pick" => b.turn < nbThreads

Working(b) == Within(b) /\ IF Installed(b.plan.grp) THEN WillLevel(b) ELSE Level

Away == IsFiniteSet(left) /\ away \subseteq left

EvenText ==
    /\ pos = 0 => plans = <<>> /\ block = None /\ \A t : On(t) = {}
    /\ \A i \in DOMAIN plans : Even(plans[i])
    /\ block # None => Even(block.plan)

EvenFinite == \A t : IsFiniteSet(On(t))

EvenLoad(b) ==
    /\ b.pc \in {"scan", "look", "take", "each", "rest", "enter"} => Level
    /\ b.pc \in {"scan", "look", "take"} => b.plan.nb \in Nat /\ Lightest(b.th, b.load, b.k)
    /\ b.pc \in {"look", "take"} => b.k < nbThreads
    /\ b.pc = "take" => Looked(b.load, b.k)
    /\ b.pc = "each" => b.plan.nb \in Nat /\ (nbThreads > 0 => Chosen(b.th))
    /\ b.pc = "rest" =>
          /\ b.plan.nb \in Nat /\ Chosen(b.th) /\ nbThreads > 0
          /\ b.each = b.plan.nb \div nbThreads
    /\ b.pc \in {"lock", "pick", "make"} => Working(b)

Evenly == (block = None => Level) /\ (block # None => EvenLoad(block))

Fair == EvenOnly /\ Steady /\ NothingThrown

EvenInv == Away /\ (Fair => EvenText /\ EvenFinite /\ Evenly)

LEMMA StartedEven == InitGrowth => EvenInv /\ Entered
<1> SUFFICES ASSUME InitGrowth PROVE EvenInv /\ Entered
  OBVIOUS
<1>1. /\ block = None /\ plans = <<>> /\ pos = 0 /\ nbThreads = 0 /\ left = {} /\ away = {}
      /\ \A g \in Groups : local_hosts[g] = <<>> /\ orphans[g] = {}
  BY DEF InitGrowth
<1>2. \A g \in Groups : NodesOf(g) = {}
  <2> SUFFICES ASSUME NEW g \in Groups PROVE NodesOf(g) = {}
    OBVIOUS
  <2>1. [i \in DOMAIN <<>> |-> local_hosts[g][i].nodes] = <<>>
    BY EmptySeq
  <2>2. LocalNodes(g) = <<>>
    BY <1>1, <2>1, FlatEmpty DEF LocalNodes
  <2>3. ToSet(<<>>) = {}
    BY DEF ToSet
  <2> QED
    BY <1>1, <2>2, <2>3 DEF NodesOf
<1>3. \A t : On(t) = {}
  BY <1>2, OnMember DEF On
<1>4. Live = {}
  BY <1>1 DEF Live
<1>5. Away
  BY <1>1, FS_EmptySet DEF Away
<1>6. EvenText
  BY <1>1, <1>3, EmptySeq DEF EvenText
<1>7. EvenFinite /\ Evenly
  BY <1>1, <1>3, <1>4, FS_EmptySet DEF EvenFinite, Evenly, Level
<1>8. Entered
  BY <1>1 DEF Entered
<1> QED
  BY <1>5, <1>6, <1>7, <1>8 DEF EvenInv

(* The hypotheses of EvenLoads only ever cease to hold, and while they do, *)
(* the array stays as it is while nodes are made.                          *)
LEMMA FairBefore ==
    ASSUME Shape, OrphansOf, NextGrowth, Fair'
    PROVE  /\ Fair /\ ~InitThrows /\ UNCHANGED <<script, lib, orphans>>
           /\ pos' = pos \/ (pos' = pos + 1 /\ pos < Len(script))
<1>1. ~InitThrows
  BY ThrownOrphans DEF Fair
<1>2. /\ UNCHANGED <<script, lib, orphans>> /\ endedAt \subseteq endedAt'
      /\ pos' = pos \/ (pos' = pos + 1 /\ pos < Len(script))
  BY <1>1, OneLine
<1>3. EvenOnly /\ Steady /\ NothingThrown
  BY <1>2 DEF Fair, EvenOnly, Steady, NothingThrown
<1> QED
  BY <1>1, <1>2, <1>3 DEF Fair

LEMMA ArrayFixed ==
    ASSUME Shape, EvenText, Fair', NextGrowth, block # None
    PROVE  UNCHANGED array
<1>1. CASE Others
  <2>1. Sound(block) /\ Even(block.plan)
    BY DEF Shape, EvenText
  <2>2. block.pc \in Pcs /\ block.pc # "nothing" /\ ~block.plan.same
    BY <2>1, BlockFields DEF Sound, Pcs, Even
  <2>3. Indexing # "nothing"
    BY <2>2 DEF Indexing
  <2>4. ASSUME endedAt' = endedAt \cup {Indexing} PROVE FALSE
    BY <2>3, <2>4 DEF Fair, Steady
  <2> QED
    BY <1>1, <2>4, OthersOnly
<1>2. CASE Reader
  BY <1>2 DEF Reader, Ready, execute_statement_declare_host, execute_statement_add_group,
         execute_statement_assign, assign_same_as, agml_threads_start, NewBlock,
         threads_get_lightest, Share, NextJob, Lock, instantiate_node, NoSuchClass, InitThrows,
         Unlock, add_host, BlockDone
<1> QED
  BY <1>1, <1>2 DEF NextGrowth

LEMMA AwayStep ==
    ASSUME Away, NextGrowth
    PROVE  /\ Away' /\ Cardinality(left) \in Nat /\ Cardinality(left') \in Nat
           /\ Cardinality(left) <= Cardinality(left') /\ left \subseteq left'
<1>1. Cardinality(left) \in Nat /\ IsFiniteSet(left)
  BY FS_CardinalityType DEF Away
<1>2. CASE left' = left /\ away' \subseteq away
  BY <1>1, <1>2 DEF Away
<1>3. CASE \E n : away' = away \cup {n} /\ left' = left \cup {n}
  <2>1. PICK n : away' = away \cup {n} /\ left' = left \cup {n}
    BY <1>3
  <2>2. /\ IsFiniteSet(left \cup {n})
        /\ Cardinality(left \cup {n}) = (IF n \in left THEN Cardinality(left) ELSE Cardinality(left) + 1)
    BY <1>1, FS_AddElement
  <2> QED
    BY <1>1, <2>1, <2>2 DEF Away
<1>4. CASE Others
  <2>1. (left' = left /\ away' \subseteq away) \/ (\E n : away' = away \cup {n} /\ left' = left \cup {n})
    BY <1>4 DEF Others, Leave, Return, agml_thread_end
  <2> QED
    BY <1>2, <1>3, <2>1
<1>5. CASE Reader
  <2>1. UNCHANGED <<away, left>>
    BY <1>5 DEF Reader, execute_statement_declare_host, execute_statement_add_group,
         execute_statement_assign, assign_same_as, agml_threads_start, NewBlock,
         threads_get_lightest, Share, NextJob, Lock, instantiate_node, NoSuchClass, InitThrows,
         Unlock, add_host, BlockDone, life
  <2> QED
    BY <1>2, <2>1
<1> QED
  BY <1>4, <1>5 DEF NextGrowth

(* Only the first line makes threads.                                      *)
LEMMA EvenTextStep ==
    ASSUME Shape, OrphansOf, Entered, Fair', EvenText, NextGrowth
    PROVE  EvenText' /\ (~(pos = 0) => ~execute_statement_declare_host)
<1>0. /\ EvenOnly /\ ~InitThrows /\ UNCHANGED script
      /\ pos' = pos \/ (pos' = pos + 1 /\ pos < Len(script))
  BY FairBefore DEF Fair
<1>1. Text /\ plans \in Seq(Plans)
  BY DEF Shape
<1>2. pos \in Nat /\ pos + 1 # 0
  BY <1>1, LenProperties DEF Text
<1>3. ASSUME UNCHANGED <<pos, plans, block>>, SameNodes PROVE EvenText'
  <2>1. \A t : On(t)' = On(t)
    BY <1>3, OnKept
  <2> QED
    BY <1>3, <2>1 DEF EvenText, Even
<1>4. ASSUME pos' = pos + 1, block' = None, \A i \in DOMAIN plans' : Even(plans'[i])
      PROVE  EvenText'
  BY <1>2, <1>4 DEF EvenText
<1>5. pos < Len(script) => pos + 1 \in DOMAIN script
  BY <1>1, LenProperties DEF Text
<1>a. ASSUME execute_statement_declare_host PROVE pos = 0
  <2>1. script[pos + 1].op = "host" /\ pos + 1 \in DOMAIN script
    BY <1>5, <1>a DEF execute_statement_declare_host, Ready
  <2> QED
    BY <1>0, <1>2, <2>1 DEF EvenOnly
<1>6. CASE \/ execute_statement_declare_host \/ execute_statement_add_group \/ agml_threads_start
  <2>1. pos' = pos + 1 /\ plans' = plans /\ block' = block /\ block = None
    BY <1>6 DEF execute_statement_declare_host, execute_statement_add_group, agml_threads_start, Ready
  <2> QED
    BY <1>4, <1>a, <2>1 DEF EvenText
<1>8. CASE execute_statement_assign
  <2>1. PICK s : s = script[pos + 1]
    OBVIOUS
  <2>2. /\ pos' = pos + 1 /\ block' = block /\ block = None
        /\ s.op = "assign" /\ pos + 1 \in DOMAIN script
        /\ plans' \in {<<Plan(s.grp, s.host, Amount(s), s.thread)>>, <<>>}
    BY <1>5, <1>8, <2>1 DEF execute_statement_assign, Ready
  <2>3. s.thread = -1
    BY <1>0, <2>1, <2>2 DEF EvenOnly
  <2>4. PICK p : p = Plan(s.grp, s.host, Amount(s), s.thread)
    OBVIOUS
  <2>5. Even(p)
    BY <2>3, <2>4 DEF Plan, Even
  <2>6. (\A i \in DOMAIN <<p>> : <<p>>[i] = p) /\ DOMAIN <<>> = {}
    OBVIOUS
  <2>7. \A i \in DOMAIN plans' : Even(plans'[i])
    BY <2>2, <2>4, <2>5, <2>6
  <2> QED
    BY <1>4, <1>8, <1>a, <2>2, <2>7
<1>9. CASE assign_same_as
  <2>1. script[pos + 1].op = "same" /\ pos + 1 \in DOMAIN script
    BY <1>5, <1>9 DEF assign_same_as, Ready
  <2> QED
    BY <1>0, <2>1 DEF EvenOnly
<1>10. CASE NewBlock
  <2>1. /\ pos' = pos /\ plans # <<>> /\ plans' = Tail(plans)
        /\ block'.plan = Head(plans) /\ pos # 0
    BY <1>10, NewBlockBuilt DEF NewBlock, EvenText
  <2>2. /\ DOMAIN plans = 1 .. Len(plans) /\ Len(plans) \in Nat \ {0} /\ Head(plans) = plans[1]
        /\ DOMAIN Tail(plans) = 1 .. Len(plans) - 1
        /\ \A i \in 1 .. Len(plans) - 1 : Tail(plans)[i] = plans[i + 1]
    BY <1>1, <2>1, EmptySeq, LenProperties, HeadTailProperties
  <2>3. \A i \in 1 .. Len(plans) - 1 : i + 1 \in DOMAIN plans
    BY <2>2
  <2>4. Even(Head(plans))
    BY <2>2 DEF EvenText
  <2>5. \A i \in DOMAIN plans' : Even(plans'[i])
    BY <2>1, <2>2, <2>3 DEF EvenText
  <2> QED
    BY <1>a, <2>1, <2>4, <2>5 DEF EvenText
<1>11. CASE \/ threads_get_lightest \/ Share \/ NextJob \/ Lock \/ instantiate_node \/ NoSuchClass
            \/ Unlock \/ add_host
  <2>1. UNCHANGED <<pos, plans>>
    BY <1>11 DEF threads_get_lightest, Share, NextJob, Lock, instantiate_node, NoSuchClass, Unlock,
                 add_host, reading
  <2>2. block # None /\ block'.plan = block.plan
    BY <1>11, LightestBuilt, ShareBuilt, NextJobBuilt, LockBuilt, MadeOne, SkippedOne, UnlockBuilt,
       AddHostBuilt
  <2>3. pos # 0 /\ Even(block'.plan)
    BY <2>2 DEF EvenText
  <2> QED
    BY <1>a, <2>1, <2>2, <2>3 DEF EvenText
<1>12. CASE BlockDone
  <2>1. /\ UNCHANGED <<pos, plans>> /\ block # None /\ block' = None
    BY <1>12 DEF BlockDone, At, reading
  <2> QED
    BY <1>a, <2>1 DEF EvenText
<1>13. CASE Others
  <2>1. UNCHANGED <<pos, plans, lists, block, orphans>>
    BY <1>13, OthersOnly DEF reading
  <2>2. SameNodes
    BY <2>1 DEF SameNodes, NodesOf, LocalNodes, lists, ToSet
  <2> QED
    BY <1>3, <1>a, <2>1, <2>2
<1> QED
  BY <1>0, <1>6, <1>8, <1>9, <1>10, <1>11, <1>12, <1>13 DEF NextGrowth, Reader

LEMMA EvenFiniteStep ==
    ASSUME Shape, OrphansOf, Numbers, Entered, Fair', EvenFinite, NextGrowth
    PROVE  EvenFinite'
<1>1. ~InitThrows /\ NothingThrown
  BY FairBefore DEF Fair
<1> SUFFICES ASSUME NEW t PROVE IsFiniteSet(On(t)')
  BY DEF EvenFinite
<1>2. IsFiniteSet(On(t))
  BY DEF EvenFinite
<1>3. CASE instantiate_node
  <2>1. PICK n : On(t)' = On(t) \cup {n} \/ On(t)' = On(t)
    BY <1>1, <1>3, OneMore
  <2>2. IsFiniteSet(On(t) \cup {n})
    BY <1>2, FS_AddElement
  <2> QED
    BY <1>2, <2>1, <2>2
<1>4. CASE ~instantiate_node
  <2>1. On(t)' = On(t)
    BY <1>1, <1>4, NodesOfKept, OnKept
  <2> QED
    BY <1>2, <2>1
<1> QED
  BY <1>3, <1>4

LEMMA LoadBounds ==
    ASSUME Away, EvenFinite, NEW t
    PROVE  /\ Load(t) \in Nat /\ Count(t) \in Nat /\ Gone(t) \in Nat
           /\ Load(t) <= Count(t) /\ Count(t) <= Load(t) + Gone(t)
           /\ Cardinality(left) \in Nat
<1> DEFINE On1 == On(t)
           S == On(t) \ away
           G == left \cap On(t)
<1>1. /\ IsFiniteSet(left) /\ Cardinality(left) \in Nat /\ IsFiniteSet(On(t)) /\ Count(t) \in Nat
      /\ away \subseteq left
  BY FS_CardinalityType DEF Away, Count, EvenFinite
<1>2. IsFiniteSet(S) /\ Cardinality(S) <= Cardinality(On(t)) /\ IsFiniteSet(G)
  BY <1>1, FS_Subset
<1>3. Cardinality(S) \in Nat /\ Cardinality(G) \in Nat
  BY <1>2, FS_CardinalityType
<1>4. IsFiniteSet(S \cup G)
      /\ Cardinality(S \cup G) = Cardinality(S) + Cardinality(G) - Cardinality(S \cap G)
  <2> HIDE DEF S, G
  <2> QED
    BY <1>2, FS_Union
<1>5. Cardinality(S \cap G) \in Nat
  <2>1. IsFiniteSet(S \cap G)
    BY <1>2, FS_Subset
  <2> QED
    BY <2>1, FS_CardinalityType
<1>6. Cardinality(On(t)) <= Cardinality(S \cup G)
  <2>1. On(t) \subseteq S \cup G
    BY <1>1
  <2> QED
    BY <1>4, <2>1, FS_Subset
<1>7. Cardinality(On(t)) <= Cardinality(S) + Cardinality(G)
  <2> HIDE DEF S, G
  <2> QED
    BY <1>1, <1>3, <1>4, <1>5, <1>6 DEF Count
<1> QED
  BY <1>1, <1>2, <1>3, <1>7 DEF Load, Count, Gone

LEMMA SeenMore ==
    ASSUME Away, NEW k \in Nat
    PROVE  /\ IsFiniteSet(Seen(k)) /\ Cardinality(Seen(k)) \in Nat
           /\ Cardinality(Seen(k)) <= Cardinality(left)
           /\ Seen(k + 1) = Seen(k) \cup (left \cap On(ThreadAt(k)))
<1>1. IsFiniteSet(left)
  BY DEF Away
<1>2. Seen(k) \subseteq left
  BY DEF Seen
<1>3. 0 .. (k + 1) - 1 = (0 .. k - 1) \cup {k}
  OBVIOUS
<1>4. Seen(k + 1) = Seen(k) \cup (left \cap On(ThreadAt(k)))
  BY <1>3 DEF Seen
<1> QED
  BY <1>1, <1>2, <1>4, FS_Subset, FS_CardinalityType

(* The nodes seen so far are not those of a thread that is yet to come.    *)
LEMMA SeenDisjoint ==
    ASSUME Array, Away, Numbers, Entered, NothingThrown, NEW k \in Nat, k < nbThreads
    PROVE  /\ Cardinality(Seen(k + 1)) = Cardinality(Seen(k)) + Gone(ThreadAt(k))
           /\ Cardinality(Seen(k)) \in Nat /\ Gone(ThreadAt(k)) \in Nat
           /\ Cardinality(Seen(k + 1)) \in Nat
<1> DEFINE G == left \cap On(ThreadAt(k))
           S == Seen(k)
<1>1. /\ IsFiniteSet(S) /\ Cardinality(S) \in Nat /\ Seen(k + 1) = S \cup G
      /\ IsFiniteSet(left)
  BY SeenMore DEF Away
<1>2. IsFiniteSet(G) /\ Cardinality(G) \in Nat
  BY <1>1, FS_Subset, FS_CardinalityType
<1>3. S \cap G = {}
  <2> SUFFICES ASSUME NEW i \in 0 .. k - 1 PROVE On(ThreadAt(i)) \cap On(ThreadAt(k)) = {}
    BY DEF Seen
  <2>1. /\ i + 1 \in 1 .. nbThreads /\ k + 1 \in 1 .. nbThreads /\ i + 1 # k + 1
        /\ \A a, b \in 1 .. nbThreads : slots[a] = slots[b] => a = b
    BY LenProperties DEF Array
  <2>2. ThreadAt(i) # ThreadAt(k)
    BY <2>1 DEF ThreadAt
  <2> QED
    BY <2>2, OnOneThread
<1> HIDE DEF S, G
<1>4. Cardinality(S \cup G) = Cardinality(S) + Cardinality(G) - Cardinality(S \cap G)
  BY <1>1, <1>2, FS_Union
<1>5. Cardinality(S \cap G) = 0
  BY <1>3, FS_EmptySet
<1>6. Cardinality(S \cup G) = Cardinality(S) + Cardinality(G)
  BY <1>1, <1>2, <1>4, <1>5
<1> QED
  BY <1>1, <1>2, <1>6 DEF Gone, S, G

LEMMA InLive ==
    ASSUME NEW i \in 0 .. nbThreads - 1
    PROVE  ThreadAt(i) \in Live
BY DEF Live

(* Where no node is made.                                                  *)
Calm ==
    /\ SameNodes /\ UNCHANGED array /\ EvenFinite /\ Away /\ Away' /\ Array
    /\ left \subseteq left' /\ Cardinality(left) \in Nat /\ Cardinality(left') \in Nat
    /\ Cardinality(left) <= Cardinality(left')

LEMMA CalmFacts ==
    ASSUME Calm
    PROVE  /\ Live' = Live /\ nbThreads' = nbThreads /\ \A i : ThreadAt(i)' = ThreadAt(i)
           /\ \A t : Count(t)' = Count(t) /\ Count(t) \in Nat
           /\ Slack \in Nat /\ Slack' \in Nat /\ Slack <= Slack'
           /\ Level => Level'
           /\ EvenFinite'
<1>1. /\ Live' = Live /\ nbThreads' = nbThreads /\ \A i : ThreadAt(i)' = ThreadAt(i)
      /\ made' = made /\ made \in Nat
  BY DEF Calm, Live, ThreadAt, array, Array
<1>2. \A t : On(t)' = On(t) /\ Count(t)' = Count(t) /\ Count(t) \in Nat
  BY OnKept, FS_CardinalityType DEF Calm, Count, EvenFinite
<1>3. Slack \in Nat /\ Slack' \in Nat /\ Slack <= Slack'
  BY <1>1 DEF Calm, Slack
<1>4. ASSUME Level, NEW t \in Live, NEW u \in Live PROVE Count(t) - Count(u) < Slack'
  <2>1. Count(t) - Count(u) < Slack
    BY <1>4 DEF Level
  <2>2. \A x, y, s, r \in Nat : x - y < s /\ s <= r => x - y < r
    OBVIOUS
  <2>3. Count(t) \in Nat /\ Count(u) \in Nat
    BY <1>2
  <2> QED
    BY <1>3, <2>1, <2>2, <2>3
<1>5. Level => Level'
  BY <1>1, <1>2, <1>4 DEF Level
<1>6. EvenFinite'
  <2>1. \A t : IsFiniteSet(On(t)')
    BY <1>2 DEF Calm, EvenFinite
  <2> QED
    BY <2>1 DEF EvenFinite
<1> QED
  BY <1>1, <1>2, <1>3, <1>5, <1>6

LEMMA GoneKept ==
    ASSUME Calm
    PROVE  /\ \A t : Gone(t) \in Nat /\ Gone(t)' \in Nat /\ Gone(t) <= Gone(t)'
           /\ \A k \in Nat : /\ Cardinality(Seen(k)) \in Nat /\ Cardinality(Seen(k)') \in Nat
                             /\ Cardinality(Seen(k)) <= Cardinality(Seen(k)')
<1>1. /\ IsFiniteSet(left) /\ IsFiniteSet(left') /\ left \subseteq left'
      /\ \A t : On(t)' = On(t)
  BY OnKept DEF Calm, Away
<1>2. ASSUME NEW S, NEW T, IsFiniteSet(T), S \subseteq T
      PROVE  Cardinality(S) \in Nat /\ Cardinality(T) \in Nat /\ Cardinality(S) <= Cardinality(T)
  BY <1>2, FS_Subset, FS_CardinalityType
<1>3. ASSUME NEW t PROVE Gone(t) \in Nat /\ Gone(t)' \in Nat /\ Gone(t) <= Gone(t)'
  <2>1. left \cap On(t) \subseteq left' \cap On(t) /\ IsFiniteSet(left' \cap On(t))
    BY <1>1, FS_Subset
  <2>2. Gone(t)' = Cardinality(left' \cap On(t))
    BY <1>1 DEF Gone
  <2> QED
    BY <1>2, <2>1, <2>2 DEF Gone
<1>4. ASSUME NEW k \in Nat
      PROVE  /\ Cardinality(Seen(k)) \in Nat /\ Cardinality(Seen(k)') \in Nat
             /\ Cardinality(Seen(k)) <= Cardinality(Seen(k)')
  <2>1. \A i : On(ThreadAt(i))' = On(ThreadAt(i))
    <3>1. \A i : ThreadAt(i)' = ThreadAt(i)
      BY CalmFacts
    <3>2. \A i : On(ThreadAt(i))' =
             UNION {{<<g, n.id>> : n \in {x \in NodesOf(g)' : x.thread = ThreadAt(i)'}} : g \in Groups}
      BY DEF On
    <3>3. \A i : On(ThreadAt(i))' = UNION {{<<g, n.id>> : n \in {x \in NodesOf(g)' : x.thread = ThreadAt(i)}} : g \in Groups}
      BY <3>1, <3>2
    <3>4. \A i : On(ThreadAt(i))' \subseteq On(ThreadAt(i)) /\ On(ThreadAt(i)) \subseteq On(ThreadAt(i))'
      BY <3>3 DEF Calm, SameNodes, On
    <3> QED
      BY <3>4 DEF On
  <2>2. Seen(k)' = left' \cap UNION {On(ThreadAt(i)) : i \in 0 .. k - 1}
    BY <2>1 DEF Seen
  <2>3. Seen(k) \subseteq Seen(k)' /\ Seen(k)' \subseteq left'
    BY <1>1, <2>2 DEF Seen
  <2>4. IsFiniteSet(Seen(k)')
    BY <1>1, <2>3, FS_Subset
  <2> QED
    BY <1>2, <2>3, <2>4
<1> QED
  BY <1>3, <1>4

LEMMA CountAt ==
    ASSUME Calm
    PROVE  /\ \A i : Count(ThreadAt(i))' = Count(ThreadAt(i)) /\ Count(ThreadAt(i)) \in Nat
           /\ \A i : /\ Gone(ThreadAt(i)) \in Nat /\ Gone(ThreadAt(i))' \in Nat
                     /\ Gone(ThreadAt(i)) <= Gone(ThreadAt(i))'
<1> SUFFICES ASSUME NEW i
             PROVE  /\ Count(ThreadAt(i))' = Count(ThreadAt(i)) /\ Count(ThreadAt(i)) \in Nat
                    /\ Gone(ThreadAt(i)) \in Nat /\ Gone(ThreadAt(i))' \in Nat
                    /\ Gone(ThreadAt(i)) <= Gone(ThreadAt(i))'
  OBVIOUS
<1>1. PICK t : t = ThreadAt(i)
  OBVIOUS
<1>2. ThreadAt(i)' = t
  BY <1>1, CalmFacts
<1>3. Count(ThreadAt(i))' = Count(t)' /\ Gone(ThreadAt(i))' = Gone(t)'
  BY <1>2 DEF Count, Gone, On
<1> QED
  BY <1>1, <1>3, CalmFacts, GoneKept

LEMMA LightestKept ==
    ASSUME Calm, NEW th, NEW load, NEW k, Lightest(th, load, k)
    PROVE  Lightest(th, load, k)'
<1>1. CASE load = -1 /\ k = 0
  BY <1>1 DEF Lightest
<1>2. CASE /\ load \in Nat /\ k \in 1 .. nbThreads /\ th \in 0 .. k - 1
           /\ load <= Count(ThreadAt(th)) /\ Count(ThreadAt(th)) <= load + Gone(ThreadAt(th))
           /\ \A i \in 0 .. k - 1 : Count(ThreadAt(th)) <= Count(ThreadAt(i)) + Cardinality(Seen(k))
  <2>1. PICK c, d, e \in Nat :
           /\ c = Count(ThreadAt(th)) /\ c = Count(ThreadAt(th))'
           /\ d = Gone(ThreadAt(th)) /\ e = Gone(ThreadAt(th))' /\ d <= e
    BY CountAt
  <2>2. c <= load + d /\ load <= c
    BY <1>2, <2>1
  <2>3. c <= load + e
    BY <1>2, <2>1, <2>2
  <2>4. k \in Nat /\ k \in 1 .. nbThreads'
    BY <1>2, CalmFacts DEF Calm, Array
  <2>5. PICK s, r \in Nat : s = Cardinality(Seen(k)) /\ r = Cardinality(Seen(k)') /\ s <= r
    BY <2>4, GoneKept
  <2>6. ASSUME NEW i \in 0 .. k - 1 PROVE c <= Count(ThreadAt(i))' + r
    <3>1. PICK a \in Nat : a = Count(ThreadAt(i)) /\ a = Count(ThreadAt(i))'
      BY CountAt
    <3>2. c <= a + s
      BY <1>2, <2>1, <2>5, <3>1
    <3>3. c <= a + r
      BY <2>1, <2>5, <3>1, <3>2
    <3> QED
      BY <3>1, <3>3
  <2> QED
    BY <1>2, <2>1, <2>2, <2>3, <2>4, <2>5, <2>6 DEF Lightest
<1> QED
  BY <1>1, <1>2 DEF Lightest

LEMMA LookedKept ==
    ASSUME Calm, NEW load \in Nat \cup {-1}, NEW k, Looked(load, k)
    PROVE  Looked(load, k)'
<1>1. CASE load = -1
  BY <1>1 DEF Looked
<1>2. CASE load \in Nat /\ Count(ThreadAt(k)) < load + Gone(ThreadAt(k))
  <2>1. PICK c, d, e \in Nat :
           /\ c = Count(ThreadAt(k)) /\ c = Count(ThreadAt(k))'
           /\ d = Gone(ThreadAt(k)) /\ e = Gone(ThreadAt(k))' /\ d <= e
    BY CountAt
  <2>2. c < load + e
    BY <1>2, <2>1
  <2> QED
    BY <2>1, <2>2 DEF Looked
<1> QED
  BY <1>1, <1>2 DEF Looked

LEMMA ChosenKept ==
    ASSUME Calm, NEW th, Chosen(th)
    PROVE  Chosen(th)'
<1>1. th \in 0 .. nbThreads' - 1 /\ nbThreads' = nbThreads
  BY CalmFacts DEF Chosen
<1>2. ASSUME NEW i \in 0 .. nbThreads - 1
      PROVE  Count(ThreadAt(th))' <= Count(ThreadAt(i))' + Cardinality(left')
  <2>1. PICK c, a \in Nat : /\ c = Count(ThreadAt(th)) /\ c = Count(ThreadAt(th))'
                            /\ a = Count(ThreadAt(i)) /\ a = Count(ThreadAt(i))'
    BY CountAt
  <2>2. c <= a + Cardinality(left)
    BY <2>1 DEF Chosen
  <2>3. c <= a + Cardinality(left')
    BY <2>1, <2>2 DEF Calm
  <2> QED
    BY <2>1, <2>3
<1> QED
  BY <1>1, <1>2 DEF Chosen

(* The reads of the loop over the threads.                                 *)
LEMMA NotTaken ==
    ASSUME Array, Away, Numbers, Entered, NothingThrown, EvenFinite,
           NEW th, NEW load, NEW k \in Nat, k < nbThreads, Lightest(th, load, k),
           load # -1, ~(Load(ThreadAt(k)) < load)
    PROVE  Lightest(th, load, k + 1)
<1>1. /\ load \in Nat /\ k \in 1 .. nbThreads /\ th \in 0 .. k - 1
      /\ load <= Count(ThreadAt(th)) /\ Count(ThreadAt(th)) <= load + Gone(ThreadAt(th))
      /\ \A i \in 0 .. k - 1 : Count(ThreadAt(th)) <= Count(ThreadAt(i)) + Cardinality(Seen(k))
  BY DEF Lightest
<1>2. PICK l, n, g \in Nat : /\ l = Load(ThreadAt(k)) /\ n = Count(ThreadAt(k)) /\ l <= n
                             /\ g = Gone(ThreadAt(th))
  BY LoadBounds
<1>3. PICK s, r \in Nat : s = Cardinality(Seen(k)) /\ r = Cardinality(Seen(k + 1)) /\ s <= r
  BY SeenDisjoint
<1>4. g <= r
  <2>1. left \cap On(ThreadAt(th)) \subseteq Seen(k + 1)
    <3>1. th \in 0 .. (k + 1) - 1
      BY <1>1
    <3> QED
      BY <3>1 DEF Seen
  <2>2. IsFiniteSet(Seen(k + 1))
    BY SeenMore
  <2> QED
    BY <1>2, <1>3, <2>1, <2>2, FS_Subset DEF Gone
<1>5. PICK c \in Nat : c = Count(ThreadAt(th))
  BY LoadBounds
<1>6. ASSUME NEW i \in 0 .. (k + 1) - 1 PROVE c <= Count(ThreadAt(i)) + r
  <2>1. PICK a \in Nat : a = Count(ThreadAt(i))
    BY LoadBounds
  <2>2. CASE i = k
    <3>1. a = n /\ load <= l /\ c <= load + g
      BY <1>1, <1>2, <1>5, <2>1, <2>2
    <3>2. c <= a + r
      BY <1>1, <1>2, <1>3, <1>4, <1>5, <2>1, <3>1
    <3> QED
      BY <2>1, <3>2
  <2>3. CASE i # k
    <3>1. i \in 0 .. k - 1
      BY <2>3
    <3>2. c <= a + s
      BY <1>1, <1>3, <1>5, <2>1, <3>1
    <3>3. c <= a + r
      BY <1>3, <1>5, <2>1, <3>2
    <3> QED
      BY <2>1, <3>3
  <2> QED
    BY <2>2, <2>3
<1>7. k + 1 \in 1 .. nbThreads /\ th \in 0 .. (k + 1) - 1
  BY <1>1 DEF Array
<1> QED
  BY <1>1, <1>3, <1>5, <1>6, <1>7 DEF Lightest

LEMMA Taken ==
    ASSUME Array, Away, Numbers, Entered, NothingThrown, EvenFinite,
           NEW th, NEW load, NEW k \in Nat, k < nbThreads, Lightest(th, load, k), Looked(load, k)
    PROVE  Lightest(k, Load(ThreadAt(k)), k + 1)
<1>1. PICK l, n, g \in Nat : /\ l = Load(ThreadAt(k)) /\ n = Count(ThreadAt(k)) /\ l <= n
                             /\ g = Gone(ThreadAt(k)) /\ n <= l + g
  BY LoadBounds
<1>2. PICK s, r \in Nat : s = Cardinality(Seen(k)) /\ r = Cardinality(Seen(k + 1)) /\ r = s + g
  BY <1>1, SeenDisjoint
<1>3. ASSUME NEW i \in 0 .. (k + 1) - 1 PROVE n <= Count(ThreadAt(i)) + r
  <2>1. PICK a \in Nat : a = Count(ThreadAt(i))
    BY LoadBounds
  <2>2. CASE i = k
    BY <1>1, <1>2, <2>1, <2>2
  <2>3. CASE i # k
    <3>1. i \in 0 .. k - 1 /\ k # 0
      BY <2>3
    <3>2. /\ load \in Nat /\ load <= Count(ThreadAt(th))
          /\ Count(ThreadAt(th)) <= Count(ThreadAt(i)) + Cardinality(Seen(k))
      BY <3>1 DEF Lightest
    <3>3. PICK c \in Nat : c = Count(ThreadAt(th))
      BY LoadBounds
    <3>4. load <= c /\ c <= a + s
      BY <1>2, <2>1, <3>2, <3>3
    <3>5. n < load + g
      BY <1>1, <3>2 DEF Looked
    <3>6. n <= a + r
      BY <1>1, <1>2, <2>1, <3>2, <3>3, <3>4, <3>5
    <3> QED
      BY <2>1, <3>6
  <2> QED
    BY <2>2, <2>3
<1>4. k + 1 \in 1 .. nbThreads /\ k \in 0 .. (k + 1) - 1
  BY DEF Array
<1> QED
  BY <1>1, <1>2, <1>3, <1>4 DEF Lightest

LEMMA AllSeen ==
    ASSUME Array, Away, EvenFinite, NEW th, NEW load, NEW k \in Nat, Lightest(th, load, k),
           ~(k < nbThreads), nbThreads > 0
    PROVE  Chosen(th)
<1>1. nbThreads \in Nat
  BY DEF Array
<1>2. /\ k = nbThreads /\ th \in 0 .. k - 1
      /\ \A i \in 0 .. k - 1 : Count(ThreadAt(th)) <= Count(ThreadAt(i)) + Cardinality(Seen(k))
  BY <1>1 DEF Lightest
<1>3. ASSUME NEW i \in 0 .. nbThreads - 1
      PROVE  Count(ThreadAt(th)) <= Count(ThreadAt(i)) + Cardinality(left)
  <2>1. PICK c, a, s, l \in Nat :
           /\ c = Count(ThreadAt(th)) /\ a = Count(ThreadAt(i))
           /\ s = Cardinality(Seen(k)) /\ l = Cardinality(left) /\ s <= l
    BY LoadBounds, SeenMore
  <2>2. c <= a + s
    BY <1>2, <2>1
  <2>3. c <= a + l
    BY <2>1, <2>2
  <2> QED
    BY <2>1, <2>3
<1> QED
  BY <1>2, <1>3 DEF Chosen

(* Each thread has one turn.                                               *)
LEMMA TurnIs ==
    ASSUME nbThreads \in Nat \ {0}, NEW th \in 0 .. nbThreads - 1, NEW j \in 0 .. nbThreads - 1
    PROVE  Turn(j, th) = IF j + th < nbThreads THEN j + th ELSE j + th - nbThreads
<1>1. PICK n \in Nat \ {0} : n = nbThreads
  OBVIOUS
<1>2. ASSUME NEW x \in 0 .. n - 1 PROVE x % n = x /\ (x + n) % n = x
  OBVIOUS
<1>3. CASE j + th < n
  <2>1. j + th \in 0 .. n - 1
    BY <1>1, <1>3
  <2> QED
    BY <1>1, <1>2, <1>3, <2>1 DEF Turn
<1>4. CASE ~(j + th < n)
  <2>1. j + th - n \in 0 .. n - 1 /\ (j + th - n) + n = j + th
    BY <1>1, <1>4
  <2> QED
    BY <1>1, <1>2, <1>4, <2>1 DEF Turn
<1> QED
  BY <1>1, <1>3, <1>4

LEMMA EachOnce ==
    ASSUME nbThreads \in Nat \ {0}, NEW th \in 0 .. nbThreads - 1
    PROVE  /\ \A j \in 0 .. nbThreads - 1 : Turn(j, th) \in 0 .. nbThreads - 1
           /\ \A i, j \in 0 .. nbThreads - 1 : Turn(i, th) = Turn(j, th) => i = j
           /\ \A t \in 0 .. nbThreads - 1 : \E j \in 0 .. nbThreads - 1 : Turn(j, th) = t
<1> DEFINE n == nbThreads
<1>1. \A j \in 0 .. n - 1 : Turn(j, th) = IF j + th < n THEN j + th ELSE j + th - n
  BY TurnIs
<1>2. \A j \in 0 .. n - 1 : Turn(j, th) \in 0 .. n - 1
  BY <1>1
<1>3. \A i, j \in 0 .. n - 1 : Turn(i, th) = Turn(j, th) => i = j
  BY <1>1
<1>4. ASSUME NEW t \in 0 .. n - 1 PROVE \E j \in 0 .. n - 1 : Turn(j, th) = t
  <2>1. CASE t >= th
    <3>1. t - th \in 0 .. n - 1 /\ (t - th) + th = t /\ t < n
      BY <2>1
    <3>2. Turn(t - th, th) = t
      BY <1>1, <3>1
    <3> QED
      BY <3>1, <3>2
  <2>2. CASE t < th
    <3>1. t - th + n \in 0 .. n - 1 /\ (t - th + n) + th = t + n /\ ~(t + n < n) /\ t + n - n = t
      BY <2>2
    <3>2. Turn(t - th + n, th) = t
      BY <1>1, <3>1
    <3> QED
      BY <3>1, <3>2
  <2> QED
    BY <2>1, <2>2
<1> QED
  BY <1>2, <1>3, <1>4

(* The rest goes to a thread that no other one is far below.               *)
LEMMA SpreadLevel ==
    ASSUME Array, Away, EvenFinite, Level, NEW b, NEW c, Chosen(b.th), nbThreads > 0,
           b.plan.nb \in Nat, b.each = b.plan.nb \div nbThreads, c.th = b.th, c.each = b.each,
           c.turn = 0, c.k = 0, c.plan = b.plan, c.pc = "lock",
           \/ /\ b.plan.nb - b.each * nbThreads > 0
              /\ c.jobs = <<Job(b.th, b.plan.nb - b.each * nbThreads)>>
           \/ ~(b.plan.nb - b.each * nbThreads > 0) /\ c.jobs = <<>>
    PROVE  Working(c)
<1>1. PICK n \in Nat \ {0} : n = nbThreads /\ made \in Nat /\ n <= made
  BY DEF Array
<1>2. PICK nb \in Nat, th \in 0 .. n - 1, each \in {b.each} : nb = b.plan.nb /\ th = b.th
  BY <1>1 DEF Chosen
<1>3. /\ each \in Nat /\ nb - each * n \in 0 .. n - 1
  <2>1. \A x \in Nat : \A m \in Nat \ {0} : x \div m \in Nat /\ x - (x \div m) * m \in 0 .. m - 1
    OBVIOUS
  <2>2. each = nb \div n
    BY <1>1, <1>2
  <2> QED
    BY <2>1, <2>2
<1>4. PICK rest \in 0 .. n - 1 : rest = nb - each * n
  BY <1>3
<1>5. \/ rest > 0 /\ c.jobs = <<Job(th, rest)>>
      \/ ~(rest > 0) /\ c.jobs = <<>>
  BY <1>1, <1>2, <1>4
<1>a. th \in Nat /\ rest \in Nat
  BY <1>1
<1>b. ASSUME rest > 0 PROVE c.jobs # <<>> /\ Head(c.jobs).thread = th /\ Head(c.jobs).nb = rest
  <2>1. /\ <<Job(th, rest)>> # <<>> /\ Head(<<Job(th, rest)>>) = Job(th, rest)
        /\ Job(th, rest).thread = th /\ Job(th, rest).nb = rest
    BY <1>a, OneJob
  <2> QED
    BY <1>5, <1>b, <2>1
<1>6. \A i \in 0 .. n - 1 : Owed(c, i) = IF i = th THEN rest ELSE 0
  <2>1. CASE rest > 0
    <3>1. rest - 0 = rest
      BY <1>a
    <3> QED
      BY <1>b, <2>1, <3>1 DEF Owed
  <2>2. CASE ~(rest > 0)
    <3>1. rest = 0 /\ c.jobs = <<>>
      BY <1>5, <1>a, <2>2
    <3> QED
      BY <3>1 DEF Owed
  <2> QED
    BY <2>1, <2>2
<1>7. \A i \in 0 .. n - 1 : Later(c, i) = each
  <2>1. \A t \in 0 .. n - 1 : \E j \in 0 .. n - 1 : Turn(j, th) = t
    BY <1>1, <1>2, EachOnce
  <2> QED
    BY <1>1, <1>2, <2>1 DEF Later
<1>8. ASSUME NEW i \in 0 .. n - 1, NEW j \in 0 .. n - 1 PROVE WillHave(c, i) - WillHave(c, j) < Slack
  <2>1. PICK x, y, l, m, d, q \in Nat :
           /\ x = Count(ThreadAt(i)) /\ y = Count(ThreadAt(j)) /\ l = Cardinality(left) /\ m = made
           /\ d = each /\ q = rest
    BY <1>1, <1>3, <1>a, LoadBounds
  <2>2. x - y < m + l
    BY <1>1, <2>1, InLive DEF Level, Slack
  <2>3. i = th => x <= y + l
    BY <1>1, <1>2, <2>1 DEF Chosen
  <2>4. /\ WillHave(c, i) = x + (IF i = th THEN q ELSE 0) + d
        /\ WillHave(c, j) = y + (IF j = th THEN q ELSE 0) + d
    BY <1>6, <1>7, <2>1 DEF WillHave
  <2>6. q < m
    BY <1>1, <1>4, <2>1
  <2>5. (x + (IF i = th THEN q ELSE 0) + d) - (y + (IF j = th THEN q ELSE 0) + d) < m + l
    <3>1. CASE i = th /\ j = th
      BY <2>1, <2>6, <3>1
    <3>2. CASE i = th /\ j # th
      <4>1. x <= y + l
        BY <2>3, <3>2
      <4> QED
        BY <2>6, <3>2, <4>1
    <3>3. CASE i # th /\ j = th
      BY <2>2, <3>3
    <3>4. CASE i # th /\ j # th
      BY <2>2, <3>4
    <3> QED
      BY <3>1, <3>2, <3>3, <3>4
  <2> QED
    BY <2>1, <2>4, <2>5 DEF Slack
<1>9. WillLevel(c)
  BY <1>1, <1>8 DEF WillLevel
<1>10. Within(c)
  <2>1. ASSUME c.jobs # <<>> PROVE Head(c.jobs).thread \in 0 .. nbThreads - 1 /\ c.k <= Head(c.jobs).nb
    <3>1. rest > 0
      BY <1>5, <2>1
    <3>2. Head(c.jobs).thread = th /\ Head(c.jobs).nb = rest
      BY <1>b, <3>1
    <3> QED
      BY <1>1, <1>2, <1>a, <3>2
  <2> QED
    BY <1>1, <1>2, <2>1 DEF Within
<1> QED
  BY <1>9, <1>10 DEF Working

(* The steps on the block, in the array as it is.                          *)
LEMMA WillHaveIs ==
    ASSUME Away, EvenFinite, NEW c, Built(c), NEW i
    PROVE  /\ WillHave(c, i) = Count(ThreadAt(i)) + Owed(c, i) + Later(c, i)
           /\ WillHave(c, i) \in Int /\ Owed(c, i) \in Int /\ Later(c, i) \in Nat
           /\ Count(ThreadAt(i)) \in Nat
<1>1. Count(ThreadAt(i)) \in Nat
  BY LoadBounds
<1>2. c.each \in Nat /\ c.k \in Nat /\ (c.jobs # <<>> => Head(c.jobs).nb \in Nat)
  BY BlockFields, FirstJob
<1>3. Owed(c, i) \in Int
  <2>1. CASE c.jobs # <<>> /\ Head(c.jobs).thread = i
    <3>1. PICK n, k \in Nat : n = Head(c.jobs).nb /\ k = c.k
      BY <1>2, <2>1
    <3>2. Owed(c, i) = n - k
      BY <2>1, <3>1 DEF Owed
    <3> QED
      BY <3>2
  <2>2. CASE ~(c.jobs # <<>> /\ Head(c.jobs).thread = i)
    <3>1. Owed(c, i) = 0
      BY <2>2 DEF Owed
    <3> QED
      BY <3>1
  <2> QED
    BY <2>1, <2>2
<1>4. Later(c, i) \in Nat
  BY <1>2 DEF Later
<1>5. WillHave(c, i) = Count(ThreadAt(i)) + Owed(c, i) + Later(c, i)
  BY DEF WillHave
<1> QED
  BY <1>1, <1>3, <1>4, <1>5

LEMMA KeptEven ==
    ASSUME Calm, lib' = lib, NEW c, Built(c), EvenLoad(c)
    PROVE  EvenLoad(c)'
<1>1. /\ nbThreads' = nbThreads /\ Slack \in Nat /\ Slack' \in Nat /\ Slack <= Slack'
      /\ Level => Level'
  BY CalmFacts
<1>2. ASSUME WillLevel(c) PROVE WillLevel(c)'
  <2> SUFFICES ASSUME NEW i \in 0 .. nbThreads - 1, NEW j \in 0 .. nbThreads - 1
               PROVE  WillHave(c, i)' - WillHave(c, j)' < Slack'
    BY <1>1 DEF WillLevel
  <2>1. \A h : /\ Count(ThreadAt(h))' = Count(ThreadAt(h)) /\ Owed(c, h)' = Owed(c, h)
               /\ Later(c, h)' = Later(c, h)
    BY <1>1, CountAt DEF Owed, Later, Turn
  <2>2. WillHave(c, i)' = WillHave(c, i) /\ WillHave(c, j)' = WillHave(c, j)
    BY <2>1 DEF WillHave
  <2>3. WillHave(c, i) \in Int /\ WillHave(c, j) \in Int
    BY WillHaveIs DEF Calm
  <2>4. WillHave(c, i) - WillHave(c, j) < Slack
    BY <1>2 DEF WillLevel
  <2>5. \A x, y \in Int : \A s, r \in Nat : x - y < s /\ s <= r => x - y < r
    OBVIOUS
  <2> QED
    BY <1>1, <2>2, <2>3, <2>4, <2>5
<1>3. Within(c) => Within(c)'
  BY <1>1 DEF Within
<1>4. Working(c) => Working(c)'
  BY <1>1, <1>2, <1>3 DEF Working, Installed
<1>5. Lightest(c.th, c.load, c.k) => Lightest(c.th, c.load, c.k)'
  BY LightestKept
<1>6. Lightest(c.th, c.load, c.k) /\ Looked(c.load, c.k) => Looked(c.load, c.k)'
  <2>1. Lightest(c.th, c.load, c.k) => c.load \in Nat \cup {-1}
    BY DEF Lightest
  <2> QED
    BY <2>1, LookedKept
<1>7. Chosen(c.th) => Chosen(c.th)'
  BY ChosenKept
<1> QED
  BY <1>1, <1>4, <1>5, <1>6, <1>7 DEF EvenLoad

LEMMA NowEven ==
    ASSUME NEW c, c = block', EvenLoad(c)'
    PROVE  EvenLoad(block)'
<1>1. Lightest(c.th, c.load, c.k)' => Lightest(block.th, block.load, block.k)'
  BY DEF Lightest, Seen, Gone, Count, On, ThreadAt
<1>2. Looked(c.load, c.k)' => Looked(block.load, block.k)'
  BY DEF Looked, Gone, Count, On, ThreadAt
<1>3. Chosen(c.th)' => Chosen(block.th)'
  BY DEF Chosen, Count, On, ThreadAt
<1>4. Within(c)' => Within(block)'
  BY DEF Within
<1>5. WillLevel(c)' => WillLevel(block)'
  <2>1. \A i : Owed(c, i)' = Owed(block, i)'
    BY DEF Owed
  <2>2. \A i : Later(c, i)' = Later(block, i)'
    BY DEF Later, Turn
  <2>3. \A i : WillHave(c, i)' = WillHave(block, i)'
    BY <2>1, <2>2 DEF WillHave
  <2> QED
    BY <2>3 DEF WillLevel
<1>6. Working(c)' => Working(block)'
  BY <1>4, <1>5 DEF Working, Installed
<1> QED
  BY <1>1, <1>2, <1>3, <1>6 DEF EvenLoad

LEMMA LightestEven ==
    ASSUME Shape, Away, Numbers, Entered, NothingThrown, EvenFinite, EvenLoad(block),
           threads_get_lightest
    PROVE  EvenLoad(block')
<1>1. PICK c : c = block'
  OBVIOUS
<1>2. Array
  BY DEF Shape
<1>3. /\ c.plan = block.plan /\ Sound(block) /\ block.pc \in {"scan", "look", "take"}
      /\ \/ /\ block.pc = "scan" /\ c.k = block.k /\ c.th = block.th /\ c.load = block.load
            /\ \/ block.k < nbThreads /\ c.pc = "look"
               \/ ~(block.k < nbThreads) /\ c.pc = "each"
         \/ /\ block.pc = "look" /\ Lighter(ThreadAt(block.k)) /\ c.pc = "take"
            /\ c.k = block.k /\ c.th = block.th /\ c.load = block.load
         \/ /\ block.pc = "look" /\ ~Lighter(ThreadAt(block.k)) /\ c.pc = "scan"
            /\ c.k = block.k + 1 /\ c.th = block.th /\ c.load = block.load
         \/ /\ block.pc = "take" /\ c.pc = "scan" /\ c.k = block.k + 1
            /\ c.th = block.k /\ c.load = Load(ThreadAt(block.k))
  BY <1>1, LightestBuilt
<1>4. /\ Level /\ block.plan.nb \in Nat /\ Lightest(block.th, block.load, block.k)
      /\ block.pc \in {"look", "take"} => block.k < nbThreads
      /\ block.pc = "take" => Looked(block.load, block.k)
  BY <1>3 DEF EvenLoad
<1>5. PICK th, load, k : th = block.th /\ load = block.load /\ k = block.k /\ k \in Nat
  BY <1>3, BlockFields DEF Sound
<1>6. Lightest(th, load, k) /\ load \in Nat \cup {-1}
  BY <1>4, <1>5 DEF Lightest
<1>7. CASE block.pc = "scan" /\ c.pc = "look" /\ block.k < nbThreads
  BY <1>1, <1>3, <1>4, <1>7 DEF EvenLoad
<1>8. CASE block.pc = "scan" /\ c.pc = "each" /\ ~(block.k < nbThreads)
  <2>1. nbThreads > 0 => Chosen(th)
    BY <1>2, <1>5, <1>6, <1>8, AllSeen
  <2>2. c.th = th
    BY <1>3, <1>5, <1>8
  <2> QED
    BY <1>1, <1>3, <1>4, <1>8, <2>1, <2>2 DEF EvenLoad
<1>9. CASE block.pc = "look" /\ Lighter(ThreadAt(block.k)) /\ c.pc = "take"
  <2>1. Load(ThreadAt(k)) < load \/ load = -1
    BY <1>5, <1>9 DEF Lighter
  <2>2. PICK l, n, g \in Nat : /\ l = Load(ThreadAt(k)) /\ n = Count(ThreadAt(k))
                               /\ g = Gone(ThreadAt(k)) /\ n <= l + g
    BY LoadBounds
  <2>3. load = -1 \/ n < load + g
    BY <1>6, <2>1, <2>2
  <2>4. Looked(load, k)
    BY <2>2, <2>3 DEF Looked
  <2> QED
    BY <1>1, <1>3, <1>4, <1>5, <1>9, <2>4 DEF EvenLoad
<1>10. CASE block.pc = "look" /\ ~Lighter(ThreadAt(block.k)) /\ c.pc = "scan"
  <2>1. ~(Load(ThreadAt(k)) < load) /\ load # -1
    BY <1>5, <1>10 DEF Lighter
  <2>2. k < nbThreads
    BY <1>4, <1>5, <1>10
  <2>3. Lightest(th, load, k + 1)
    BY <1>2, <1>5, <1>6, <2>1, <2>2, NotTaken
  <2>4. c.th = th /\ c.load = load /\ c.k = k + 1
    BY <1>3, <1>5, <1>10
  <2> QED
    BY <1>1, <1>3, <1>4, <1>10, <2>3, <2>4 DEF EvenLoad
<1>11. CASE block.pc = "take" /\ c.pc = "scan"
  <2>1. k < nbThreads /\ Looked(load, k)
    BY <1>4, <1>5, <1>11
  <2>2. Lightest(k, Load(ThreadAt(k)), k + 1)
    BY <1>2, <1>5, <1>6, <2>1, Taken
  <2>3. c.th = k /\ c.load = Load(ThreadAt(k)) /\ c.k = k + 1
    BY <1>3, <1>5, <1>11
  <2> QED
    BY <1>1, <1>3, <1>4, <1>11, <2>2, <2>3 DEF EvenLoad
<1> QED
  BY <1>3, <1>7, <1>8, <1>9, <1>10, <1>11

LEMMA ShareEven ==
    ASSUME Shape, Away, EvenFinite, EvenLoad(block), Share
    PROVE  EvenLoad(block')
<1>1. PICK c : c = block'
  OBVIOUS
<1>2. Array /\ nbThreads \in Nat
  BY DEF Shape, Array
<1>3. /\ block # None /\ Sound(block) /\ block.plan.nb \in Nat
      /\ c.plan = block.plan /\ block.jobs = <<>> /\ c.turn = 0 /\ c.th = block.th
      /\ \/ block.pc = "each" /\ nbThreads = 0 /\ c.pc = "crash" /\ c.jobs = <<>>
         \/ /\ block.pc = "each" /\ nbThreads > 0 /\ c.pc = "rest"
            /\ c.each = block.plan.nb \div nbThreads
         \/ /\ block.pc = "rest" /\ c.pc = "lock" /\ c.each = block.each /\ c.k = block.k
            /\ \/ /\ block.plan.nb - block.each * nbThreads > 0
                  /\ c.jobs = <<Job(block.th, block.plan.nb - block.each * nbThreads)>>
               \/ ~(block.plan.nb - block.each * nbThreads > 0) /\ c.jobs = <<>>
  BY <1>1, ShareBuilt
<1>4. CASE c.pc = "crash"
  BY <1>1, <1>4 DEF EvenLoad
<1>5. CASE block.pc = "each" /\ nbThreads > 0 /\ c.pc = "rest"
  BY <1>1, <1>3, <1>5 DEF EvenLoad
<1>6. CASE block.pc = "rest" /\ c.pc = "lock"
  <2>1. /\ Level /\ Chosen(block.th) /\ nbThreads > 0 /\ block.each = block.plan.nb \div nbThreads
        /\ block.k = 0
    BY <1>3, <1>6 DEF EvenLoad, Sound, Phase
  <2>2. /\ c.each = block.each /\ c.k = 0
        /\ \/ /\ block.plan.nb - block.each * nbThreads > 0
              /\ c.jobs = <<Job(block.th, block.plan.nb - block.each * nbThreads)>>
           \/ ~(block.plan.nb - block.each * nbThreads > 0) /\ c.jobs = <<>>
    BY <1>3, <1>6, <2>1
  <2>3. Working(c)
    BY <1>2, <1>3, <1>6, <2>1, <2>2, SpreadLevel
  <2> QED
    BY <1>1, <1>6, <2>3 DEF EvenLoad
<1> QED
  BY <1>3, <1>4, <1>5, <1>6

LEMMA LevelAgain ==
    ASSUME Array, WillLevel(block), \A i \in 0 .. nbThreads - 1 : WillHave(block, i) = Count(ThreadAt(i))
    PROVE  Level
<1> SUFFICES ASSUME NEW t \in Live, NEW u \in Live PROVE Count(t) - Count(u) < Slack
  BY DEF Level
<1>1. PICK i, j \in 0 .. nbThreads - 1 : t = ThreadAt(i) /\ u = ThreadAt(j)
  BY DEF Live
<1> QED
  BY <1>1 DEF WillLevel

LEMMA NextJobEven ==
    ASSUME Shape, Away, EvenFinite, Even(block.plan), EvenLoad(block), NextJob
    PROVE  EvenLoad(block')
<1>1. PICK c : c = block'
  OBVIOUS
<1>2. Array /\ nbThreads \in Nat
  BY DEF Shape, Array
<1>3. /\ Sound(block) /\ Sound(c) /\ block.pc \in {"lock", "pick"}
      /\ c.plan = block.plan /\ block.jobs = <<>> /\ c.th = block.th /\ c.each = block.each
      /\ c.k = block.k /\ block.k = 0
      /\ \/ /\ block.pc = "lock" /\ block.turn < nbThreads /\ block.each > 0
            /\ c.pc = "pick" /\ c.turn = block.turn /\ c.jobs = <<>>
         \/ /\ block.pc = "lock" /\ ~(block.turn < nbThreads /\ block.each > 0)
            /\ c.pc = "enter" /\ c.turn = block.turn /\ c.jobs = <<>>
         \/ block.pc = "pick" /\ c.pc = "crash"
         \/ /\ block.pc = "pick" /\ nbThreads > 0 /\ c.pc = "lock" /\ c.turn = block.turn + 1
            /\ c.jobs = <<Job(Turn(block.turn, block.th), block.each)>>
  BY <1>1, NextJobBuilt
<1>4. Working(block)
  BY <1>3 DEF EvenLoad
<1>5. /\ Built(block) /\ Built(c) /\ block.turn \in Nat /\ block.each \in Nat
      /\ block.th \in 0 .. nbThreads - 1 /\ block.th \in Nat
  BY <1>3, <1>4, BlockFields DEF Sound, Working, Within
<1>6. CASE c.pc = "pick"
  <2>1. \A i : WillHave(c, i) = WillHave(block, i)
    BY <1>3, <1>6 DEF WillHave, Owed, Later
  <2>2. Within(c)
    BY <1>3, <1>5, <1>6 DEF Within
  <2>3. Working(c)
    BY <1>3, <1>4, <2>1, <2>2 DEF Working, WillLevel
  <2> QED
    BY <1>1, <1>6, <2>3 DEF EvenLoad
<1>7. CASE c.pc = "enter"
  <2>1. \A i : WillHave(block, i) = Count(ThreadAt(i))
    <3> SUFFICES ASSUME NEW i PROVE WillHave(block, i) = Count(ThreadAt(i))
      OBVIOUS
    <3>1. Owed(block, i) = 0
      BY <1>3 DEF Owed
    <3>2. Later(block, i) = 0
      <4>1. CASE block.each = 0
        BY <4>1 DEF Later
      <4>2. CASE ~(block.turn < nbThreads)
        <5>1. block.turn .. nbThreads - 1 = {}
          BY <1>2, <1>5, <4>2
        <5> QED
          BY <5>1 DEF Later
      <4> QED
        BY <1>3, <1>5, <1>7, <4>1, <4>2
    <3>3. WillHave(block, i) = Count(ThreadAt(i)) + Owed(block, i) + Later(block, i)
          /\ Count(ThreadAt(i)) \in Nat
      BY <1>5, WillHaveIs
    <3> QED
      BY <3>1, <3>2, <3>3
  <2>2. Level
    BY <1>2, <1>4, <2>1, LevelAgain DEF Working
  <2> QED
    BY <1>1, <1>7, <2>2 DEF EvenLoad
<1>8. CASE c.pc = "crash"
  BY <1>1, <1>8 DEF EvenLoad
<1>9. CASE c.pc = "lock"
  <2>1. /\ block.pc = "pick" /\ nbThreads > 0 /\ c.turn = block.turn + 1
        /\ c.jobs = <<Job(Turn(block.turn, block.th), block.each)>> /\ block.turn < nbThreads
    BY <1>3, <1>4, <1>9 DEF Working, Within
  <2>0. PICK n \in Nat \ {0} : n = nbThreads
    BY <1>2, <2>1
  <2>2. PICK th \in 0 .. n - 1, j \in 0 .. n - 1, each \in Nat, h \in {Turn(block.turn, block.th)} :
           /\ n = nbThreads /\ th = block.th /\ j = block.turn /\ each = block.each
           /\ h = Turn(j, th)
    BY <1>2, <1>5, <2>0, <2>1
  <2>3. /\ h \in 0 .. n - 1
        /\ \A i \in 0 .. n - 1 : Turn(i, th) = h => i = j
    BY <2>2, EachOnce
  <2>4. /\ <<Job(h, each)>> # <<>> /\ Head(<<Job(h, each)>>) = Job(h, each)
        /\ Job(h, each).thread = h /\ Job(h, each).nb = each
    <3>1. h \in Nat /\ each \in Nat
      BY <2>2, <2>3
    <3> QED
      BY <3>1, OneJob
  <2>5. /\ c.jobs # <<>> /\ Head(c.jobs).thread = h /\ Head(c.jobs).nb = each
        /\ c.turn = j + 1 /\ c.th = th /\ c.each = each /\ c.k = 0
    BY <1>3, <2>1, <2>2, <2>4
  <2>6. ASSUME NEW i \in 0 .. n - 1 PROVE WillHave(c, i) = WillHave(block, i)
    <3>1. Owed(block, i) = 0
      BY <1>3 DEF Owed
    <3>2. Owed(c, i) = IF i = h THEN each ELSE 0
      <4>1. each - 0 = each
        BY <2>2
      <4> QED
        BY <2>5, <4>1 DEF Owed
    <3>3. Later(block, i) = IF \E q \in j .. n - 1 : Turn(q, th) = i THEN each ELSE 0
      BY <2>2 DEF Later
    <3>4. Later(c, i) = IF \E q \in j + 1 .. n - 1 : Turn(q, th) = i THEN each ELSE 0
      BY <2>2, <2>5 DEF Later
    <3>5. /\ j .. n - 1 = {j} \cup (j + 1 .. n - 1) /\ j \notin (j + 1 .. n - 1)
          /\ j + 1 .. n - 1 \subseteq 0 .. n - 1
      OBVIOUS
    <3>6. CASE i = h
      <4>1. Later(block, i) = each
        BY <2>2, <3>3, <3>6
      <4>2. Later(c, i) = 0
        BY <2>3, <3>4, <3>5, <3>6
      <4> QED
        BY <2>2, <3>1, <3>2, <3>6, <4>1, <4>2, <1>5, WillHaveIs
    <3>7. CASE i # h
      <4>1. Later(c, i) = Later(block, i)
        BY <2>2, <3>3, <3>4, <3>5, <3>7
      <4> QED
        BY <3>1, <3>2, <3>7, <4>1 DEF WillHave
    <3> QED
      BY <3>6, <3>7
  <2>7. Within(c)
    BY <1>9, <2>2, <2>3, <2>5 DEF Within
  <2>8. Working(c)
    BY <1>3, <1>4, <2>2, <2>6, <2>7 DEF Working, WillLevel
  <2> QED
    BY <1>1, <1>9, <2>8 DEF EvenLoad
<1> QED
  BY <1>3, <1>6, <1>7, <1>8, <1>9

(* Steps on the block that make no node and share nothing out. *)
LEMMA StillWorking ==
    ASSUME Working(block), NEW c, c.plan = block.plan, c.th = block.th, c.each = block.each,
           c.turn = block.turn, c.pc # "pick",
           c.jobs # <<>> => Head(c.jobs).thread \in 0 .. nbThreads - 1 /\ c.k <= Head(c.jobs).nb,
           Installed(block.plan.grp) => \A i : Owed(c, i) = Owed(block, i)
    PROVE  Working(c)
<1>1. Within(c)
  BY DEF Working, Within
<1>2. ASSUME Installed(block.plan.grp) PROVE WillLevel(c)
  <2>1. \A i : WillHave(c, i) = WillHave(block, i)
    BY <1>2 DEF WillHave, Later
  <2> QED
    BY <1>2, <2>1 DEF Working, WillLevel
<1> QED
  BY <1>1, <1>2 DEF Working

LEMMA LockEven ==
    ASSUME Shape, EvenLoad(block), Lock
    PROVE  EvenLoad(block')
<1>1. PICK c : c = block'
  OBVIOUS
<1>2. /\ c.plan = block.plan /\ c.jobs = block.jobs /\ c.k = block.k /\ c.th = block.th
      /\ c.each = block.each /\ c.turn = block.turn /\ block.pc = "lock"
      /\ c.pc \in {"crash", "stuck", "make"}
  BY <1>1, LockBuilt
<1>3. Working(block)
  BY <1>2 DEF EvenLoad
<1>4. /\ \A i : Owed(c, i) = Owed(block, i)
      /\ c.jobs # <<>> => Head(c.jobs).thread \in 0 .. nbThreads - 1 /\ c.k <= Head(c.jobs).nb
  BY <1>2, <1>3 DEF Owed, Working, Within
<1>5. Working(c)
  BY <1>2, <1>3, <1>4, StillWorking
<1> QED
  BY <1>1, <1>2, <1>5 DEF EvenLoad

LEMMA SkipEven ==
    ASSUME Shape, Even(block.plan), EvenLoad(block), NoSuchClass
    PROVE  EvenLoad(block')
<1>1. PICK c : c = block'
  OBVIOUS
<1>2. /\ c.plan = block.plan /\ c.jobs = block.jobs /\ c.th = block.th /\ Sound(block)
      /\ c.each = block.each /\ c.turn = block.turn /\ block.pc = "make" /\ block.jobs # <<>>
      /\ ~Installed(block.plan.grp)
      /\ c.pc = "make" /\ c.k = block.k + 1 /\ block.k < Head(block.jobs).nb
  BY <1>1, SkippedOne DEF Even
<1>3. Working(block) /\ block.k \in Nat /\ Head(block.jobs).nb \in Nat
  BY <1>2, BlockFields, FirstJob DEF EvenLoad, Sound
<1>4. Head(c.jobs).thread \in 0 .. nbThreads - 1 /\ c.k <= Head(c.jobs).nb
  BY <1>2, <1>3 DEF Working, Within
<1>5. Working(c)
  BY <1>2, <1>3, <1>4, StillWorking
<1> QED
  BY <1>1, <1>2, <1>5 DEF EvenLoad

LEMMA UnlockEven ==
    ASSUME Shape, Even(block.plan), EvenLoad(block), Unlock
    PROVE  EvenLoad(block')
<1>1. PICK c : c = block'
  OBVIOUS
<1>2. /\ c.plan = block.plan /\ c.jobs = Tail(block.jobs) /\ c.th = block.th /\ Sound(block)
      /\ c.each = block.each /\ c.turn = block.turn /\ block.pc = "make" /\ block.jobs # <<>>
      /\ c.pc = "lock" /\ block.k = Head(block.jobs).nb
  BY <1>1, UnlockBuilt
<1>3. Working(block) /\ block.k \in Nat /\ c.jobs = <<>>
  BY <1>2, BlockFields, FirstJob DEF EvenLoad, Sound, Even
<1>4. \A i : Owed(c, i) = Owed(block, i)
  <2>1. \A x \in Nat : x - x = 0
    OBVIOUS
  <2> QED
    BY <1>2, <1>3, <2>1 DEF Owed
<1>5. Working(c)
  BY <1>2, <1>3, <1>4, StillWorking
<1> QED
  BY <1>1, <1>2, <1>5 DEF EvenLoad

LEMMA AddHostEven ==
    ASSUME Shape, EvenLoad(block), add_host
    PROVE  EvenLoad(block')
<1>1. PICK c : c = block'
  OBVIOUS
<1>2. block.pc = "enter" /\ c.pc = "enter"
  BY <1>1, AddHostBuilt
<1>3. Level
  BY <1>2 DEF EvenLoad
<1> QED
  BY <1>1, <1>2, <1>3 DEF EvenLoad

LEMMA NewBlockEven ==
    ASSUME Shape, Level, EvenText, NewBlock
    PROVE  EvenLoad(block')
<1>1. PICK c : c = block'
  OBVIOUS
<1>2. /\ c.plan = Head(plans) /\ plans # <<>> /\ plans \in Seq(Plans)
      /\ c.load = -1 /\ c.k = 0 /\ c.pc \in {"lock", "enter", "scan"}
      /\ ~Head(plans).same /\ Head(plans).thread = -1 => c.pc # "lock"
      /\ c.pc = "scan" => Head(plans).nb \in Nat
  BY <1>1, NewBlockBuilt DEF Shape
<1>3. 1 \in DOMAIN plans /\ Head(plans) = plans[1]
  BY <1>2, EmptySeq, LenProperties, HeadTailProperties
<1>4. c.pc \in {"enter", "scan"}
  BY <1>2, <1>3 DEF EvenText, Even
<1>5. Lightest(c.th, c.load, c.k)
  BY <1>2 DEF Lightest
<1> QED
  BY <1>1, <1>2, <1>4, <1>5 DEF EvenLoad

(* A node more for a thread, and one less to come.                         *)
LEMMA ThreadsDiffer ==
    ASSUME Array, NEW i \in 0 .. nbThreads - 1, NEW j \in 0 .. nbThreads - 1,
           ThreadAt(i) = ThreadAt(j)
    PROVE  i = j
<1>1. i + 1 \in 1 .. nbThreads /\ j + 1 \in 1 .. nbThreads
  BY DEF Array
<1>2. i + 1 = j + 1
  BY <1>1 DEF Array, ThreadAt
<1> QED
  BY <1>2

LEMMA MadeEven ==
    ASSUME Shape, Away, Numbers, NothingThrown, EvenFinite, Even(block.plan), EvenLoad(block),
           instantiate_node
    PROVE  EvenLoad(block)'
<1>1. PICK c : c = block'
  OBVIOUS
<1>2. /\ Array /\ UNCHANGED <<slots, nbThreads, made, left, lib>> /\ Installed(block.plan.grp)
  BY DEF Shape, instantiate_node, array, life, reading
<1>3. /\ c.plan = block.plan /\ c.jobs = block.jobs /\ c.th = block.th /\ Sound(block) /\ Sound(c)
      /\ c.each = block.each /\ c.turn = block.turn /\ block.pc = "make" /\ block.jobs # <<>>
      /\ c.pc = "make" /\ c.k = block.k + 1 /\ block.k < Head(block.jobs).nb
  BY <1>1, MadeOne
<1>4. /\ Working(block) /\ block.k \in Nat /\ Head(block.jobs).nb \in Nat /\ Built(block)
      /\ Head(block.jobs).thread \in 0 .. nbThreads - 1
  BY <1>3, BlockFields, FirstJob DEF EvenLoad, Sound, Working, Within
<1>5. PICK h \in 0 .. nbThreads - 1 : h = Head(block.jobs).thread /\ Target = ThreadAt(h)
  BY <1>3, <1>4 DEF Target, Even
<1>6. PICK e : \A t : e \notin On(t) /\ On(t)' = IF t = Target THEN On(t) \cup {e} ELSE On(t)
  BY OneMore
<1>7. ASSUME NEW i \in 0 .. nbThreads - 1 PROVE WillHave(c, i)' = WillHave(block, i)
  <2>1. ThreadAt(i)' = ThreadAt(i)
    BY <1>2 DEF ThreadAt
  <2>2. PICK t : t = ThreadAt(i)
    OBVIOUS
  <2>3. Count(ThreadAt(i))' = Cardinality(On(t)')
    BY <2>1, <2>2 DEF Count, On
  <2>4. Later(c, i)' = Later(block, i)
    BY <1>2, <1>3 DEF Later, Turn
  <2>5. IsFiniteSet(On(t)) /\ Count(t) \in Nat /\ Count(t) = Cardinality(On(t))
    BY LoadBounds DEF EvenFinite, Count
  <2>6. CASE i = h
    <3>1. On(t)' = On(t) \cup {e} /\ e \notin On(t)
      BY <1>5, <1>6, <2>2, <2>6
    <3>2. Cardinality(On(t) \cup {e}) = Cardinality(On(t)) + 1
      BY <2>5, <3>1, FS_AddElement
    <3>3. PICK x, n, k \in Nat : x = Count(t) /\ n = Head(block.jobs).nb /\ k = block.k
      BY <1>4, <2>5
    <3>4. Count(ThreadAt(i))' = x + 1
      BY <2>3, <2>5, <3>1, <3>2, <3>3
    <3>5. Owed(block, i) = n - k /\ Owed(c, i)' = n - (k + 1)
      BY <1>3, <1>5, <2>6, <3>3 DEF Owed
    <3>6. Later(block, i) \in Nat
      BY <1>4, WillHaveIs
    <3>7. PICK y \in Nat : y = Later(block, i)
      BY <3>6
    <3>8. WillHave(c, i)' = (x + 1) + (n - (k + 1)) + y
      BY <2>4, <3>4, <3>5, <3>7 DEF WillHave
    <3>9. WillHave(block, i) = x + (n - k) + y
      BY <2>2, <3>3, <3>5, <3>7 DEF WillHave
    <3> QED
      BY <3>8, <3>9
  <2>7. CASE i # h
    <3>1. t # Target
      BY <1>2, <1>5, <2>2, <2>7, ThreadsDiffer
    <3>2. On(t)' = On(t)
      BY <1>6, <3>1
    <3>3. Count(ThreadAt(i))' = Count(ThreadAt(i))
      BY <2>2, <2>3, <2>5, <3>2
    <3>4. Owed(block, i) = 0 /\ Owed(c, i)' = 0
      BY <1>3, <1>5, <2>7 DEF Owed
    <3> QED
      BY <2>4, <3>3, <3>4 DEF WillHave
  <2> QED
    BY <2>6, <2>7
<1>8. Slack' = Slack /\ nbThreads' = nbThreads
  BY <1>2 DEF Slack
<1>9. WillLevel(c)'
  <2> SUFFICES ASSUME NEW i \in 0 .. nbThreads - 1, NEW j \in 0 .. nbThreads - 1
               PROVE  WillHave(c, i)' - WillHave(c, j)' < Slack'
    BY <1>8 DEF WillLevel
  <2>1. WillHave(block, i) - WillHave(block, j) < Slack
    BY <1>2, <1>4 DEF Working, WillLevel
  <2> QED
    BY <1>7, <1>8, <2>1
<1>10. Within(c)'
  <2>1. c.k <= Head(c.jobs).nb
    BY <1>3, <1>4
  <2>2. block.th \in 0 .. nbThreads - 1
    BY <1>4 DEF Within, Working
  <2>3. /\ c.th \in 0 .. nbThreads' - 1 /\ Head(c.jobs).thread \in 0 .. nbThreads' - 1
        /\ c.pc # "pick"
    BY <1>3, <1>4, <1>8, <2>2
  <2> QED
    BY <2>1, <2>3 DEF Within
<1>11. Working(c)'
  BY <1>2, <1>3, <1>9, <1>10 DEF Working, Installed
<1>12. EvenLoad(c)'
  BY <1>3, <1>11 DEF EvenLoad
<1> QED
  BY <1>1, <1>12, NowEven

(* Where no block is in the making.                                        *)
LEMMA EmptyLevel ==
    ASSUME Array, IsFiniteSet(left), \A t : On(t) = {}
    PROVE  Level
<1> SUFFICES ASSUME NEW t \in Live, NEW u \in Live PROVE Count(t) - Count(u) < Slack
  BY DEF Level
<1>1. Count(t) = 0 /\ Count(u) = 0
  BY FS_EmptySet DEF Count
<1>2. PICK i \in 0 .. nbThreads - 1 : t = ThreadAt(i)
  BY DEF Live
<1>3. made \in Nat /\ made >= 1 /\ Cardinality(left) \in Nat
  BY <1>2, FS_CardinalityType DEF Array
<1> QED
  BY <1>1, <1>3 DEF Slack

LEMMA FewerLevel ==
    ASSUME Level, Away, Away', EvenFinite, SameNodes, made \in Nat, made' = made,
           Live' \subseteq Live, Cardinality(left) <= Cardinality(left'),
           Cardinality(left) \in Nat, Cardinality(left') \in Nat
    PROVE  Level'
<1> SUFFICES ASSUME NEW t \in Live', NEW u \in Live' PROVE Count(t)' - Count(u)' < Slack'
  BY DEF Level
<1>1. Count(t)' = Count(t) /\ Count(u)' = Count(u) /\ Count(t) \in Nat /\ Count(u) \in Nat
  BY OnKept, LoadBounds DEF Count
<1>2. Count(t) - Count(u) < Slack
  BY DEF Level
<1>3. PICK x, y, m, l, r \in Nat : /\ x = Count(t) /\ y = Count(u) /\ m = made
                                   /\ l = Cardinality(left) /\ r = Cardinality(left') /\ l <= r
  BY <1>1
<1>4. x - y < m + l
  BY <1>2, <1>3 DEF Slack
<1>5. x - y < m + r
  BY <1>3, <1>4
<1> QED
  BY <1>1, <1>3, <1>5 DEF Slack

LEMMA CalmStep ==
    ASSUME Shape, OrphansOf, Entered, Away, EvenFinite, Fair', NextGrowth,
           UNCHANGED array, ~instantiate_node
    PROVE  Calm /\ lib' = lib
<1>1. ~InitThrows /\ lib' = lib
  BY FairBefore
<1>2. SameNodes
  BY <1>1, NodesOfKept
<1>3. Array
  BY DEF Shape
<1> QED
  BY <1>1, <1>2, <1>3, AwayStep DEF Calm

(* With a block in the making. *)
LEMMA BlockStep ==
    ASSUME Shape, OrphansOf, Numbers, Entered, Away, EvenText, EvenFinite, Evenly, Fair',
           block # None, NextGrowth
    PROVE  Evenly'
<1>1. /\ Sound(block) /\ Even(block.plan) /\ EvenLoad(block) /\ UNCHANGED array
      /\ NothingThrown /\ ~InitThrows
  BY ArrayFixed, FairBefore DEF Shape, EvenText, Evenly, Fair
<1>2. ASSUME EvenLoad(block'), Sound(block'), ~instantiate_node PROVE Evenly'
  <2>1. Calm /\ lib' = lib
    BY <1>1, <1>2, CalmStep
  <2>2. PICK c : c = block'
    OBVIOUS
  <2>3. Built(c) /\ EvenLoad(c) /\ c # None
    BY <1>2, <2>2, BlockFields DEF Sound
  <2>4. EvenLoad(block)'
    BY <2>1, <2>2, <2>3, KeptEven, NowEven
  <2> QED
    BY <2>2, <2>3, <2>4 DEF Evenly
<1>3. CASE threads_get_lightest \/ Share \/ NextJob \/ Lock \/ NoSuchClass \/ Unlock \/ add_host
  <2>1. Sound(block')
    BY <1>3, LightestBuilt, ShareBuilt, NextJobBuilt, LockBuilt, SkippedOne, UnlockBuilt, AddHostBuilt
  <2>2. EvenLoad(block')
    BY <1>1, <1>3, LightestEven, ShareEven, NextJobEven, LockEven, SkipEven, UnlockEven, AddHostEven
  <2>3. ~instantiate_node
    <3>1. instantiate_node =>
             At("make") /\ Installed(block.plan.grp) /\ block.k < Head(block.jobs).nb
      BY DEF instantiate_node, Making
    <3>2. ~(threads_get_lightest \/ Share \/ NextJob \/ Lock \/ add_host) \/ ~At("make")
      BY DEF threads_get_lightest, Share, NextJob, Lock, add_host, At
    <3>3. ~NoSuchClass \/ ~Installed(block.plan.grp)
      BY DEF NoSuchClass
    <3>4. ~Unlock \/ ~(block.k < Head(block.jobs).nb)
      <4>1. \A x \in Nat : ~(x < x)
        OBVIOUS
      <4>2. block.k \in Nat
        BY <1>1, BlockFields DEF Sound
      <4> QED
        BY <4>1, <4>2 DEF Unlock
    <3> QED
      BY <1>3, <3>1, <3>2, <3>3, <3>4
  <2> QED
    BY <1>2, <2>1, <2>2, <2>3
<1>4. CASE instantiate_node
  <2>1. EvenLoad(block)' /\ block' # None
    BY <1>1, <1>4, MadeEven, MadeOne, BlockFields DEF Sound
  <2> QED
    BY <2>1 DEF Evenly
<1>5. CASE BlockDone
  <2>1. block.pc = "enter" /\ block' = None
    BY <1>5 DEF BlockDone, At
  <2>2. ~instantiate_node
    BY <2>1 DEF instantiate_node, Making, At
  <2>3. Level
    BY <1>1, <2>1 DEF EvenLoad
  <2>4. Level'
    BY <1>1, <2>2, <2>3, CalmStep, CalmFacts
  <2> QED
    BY <2>1, <2>4 DEF Evenly
<1>6. CASE Others
  <2>1. UNCHANGED block
    BY <1>6, OthersOnly
  <2>2. ~instantiate_node
    <3>1. ASSUME instantiate_node PROVE FALSE
      BY <1>1, <2>1, <3>1, MadeOne, BlockFields DEF Sound
    <3> QED
      BY <3>1
  <2> QED
    BY <1>1, <1>2, <2>1, <2>2
<1>7. CASE \/ execute_statement_declare_host \/ execute_statement_add_group
           \/ execute_statement_assign \/ assign_same_as \/ agml_threads_start \/ NewBlock
  BY <1>7 DEF execute_statement_declare_host, execute_statement_add_group,
     execute_statement_assign, assign_same_as, agml_threads_start, NewBlock, Ready
<1> QED
  BY <1>1, <1>3, <1>4, <1>5, <1>6, <1>7 DEF NextGrowth, Reader

(* Between blocks. *)
LEMMA IdleStep ==
    ASSUME Shape, OrphansOf, Numbers, Entered, Away, EvenText, EvenFinite, Evenly, Fair',
           block = None, NextGrowth
    PROVE  Evenly'
<1>1. Level /\ Array /\ Array' /\ ~InitThrows /\ (~(pos = 0) => ~execute_statement_declare_host)
  BY ShapeStep, FairBefore, EvenTextStep DEF Evenly, Shape
<1>2. ~instantiate_node
  BY DEF instantiate_node, Making, At
<1>3. SameNodes /\ Away'
  BY <1>1, <1>2, NodesOfKept, AwayStep
<1>4. CASE execute_statement_declare_host
  <2>1. \A t : On(t)' = {}
    BY <1>1, <1>3, <1>4, OnKept DEF EvenText
  <2>2. IsFiniteSet(left') /\ block' = None
    BY <1>3, <1>4 DEF Away, execute_statement_declare_host
  <2>3. Level'
    <3> SUFFICES ASSUME NEW t \in Live', NEW u \in Live' PROVE Count(t)' - Count(u)' < Slack'
      BY DEF Level
    <3>1. Count(t)' = 0 /\ Count(u)' = 0
      BY <2>1, FS_EmptySet DEF Count
    <3>2. PICK i \in 0 .. nbThreads' - 1 : t = ThreadAt(i)'
      BY DEF Live
    <3>3. made' \in Nat /\ made' >= 1 /\ Cardinality(left') \in Nat
      <4>1. Cardinality(left') \in Nat
        BY <2>2, FS_CardinalityType
      <4>2. made' \in Nat /\ nbThreads' \in Nat /\ nbThreads' <= made'
        BY <1>1 DEF Array
      <4>3. \A n, m \in Nat : i \in 0 .. n - 1 /\ n <= m => m >= 1
        OBVIOUS
      <4>4. i \in 0 .. nbThreads' - 1
        BY <3>2
      <4>5. made' >= 1
        BY <4>2, <4>3, <4>4
      <4> QED
        BY <4>1, <4>2, <4>5
    <3> QED
      BY <3>1, <3>3 DEF Slack
  <2> QED
    BY <2>2, <2>3 DEF Evenly
<1>5. CASE \/ execute_statement_add_group \/ execute_statement_assign \/ assign_same_as
           \/ agml_threads_start
  <2>1. UNCHANGED array /\ block' = None
    BY <1>5 DEF execute_statement_add_group, execute_statement_assign, assign_same_as,
       agml_threads_start
  <2>2. Level'
    BY <1>1, <1>2, <2>1, CalmStep, CalmFacts
  <2> QED
    BY <2>1, <2>2 DEF Evenly
<1>6. CASE NewBlock
  <2>1. UNCHANGED array /\ Sound(block')
    BY <1>6, NewBlockBuilt DEF NewBlock
  <2>2. EvenLoad(block')
    BY <1>1, <1>6, NewBlockEven
  <2>3. Calm /\ lib' = lib
    BY <1>2, <2>1, CalmStep
  <2>4. PICK c : c = block'
    OBVIOUS
  <2>5. Built(c) /\ EvenLoad(c) /\ c # None
    BY <2>1, <2>2, <2>4, BlockFields DEF Sound
  <2>6. EvenLoad(block)'
    BY <2>3, <2>4, <2>5, KeptEven, NowEven
  <2> QED
    BY <2>4, <2>5, <2>6 DEF Evenly
<1>7. CASE Others
  <2>1. /\ block' = None /\ made' = made /\ made \in Nat
        /\ \/ UNCHANGED array
           \/ \E t \in quitting \cap Live : slots' = Erased(t) /\ nbThreads' = nbThreads - 1
    BY <1>1, <1>7, OthersOnly DEF Array
  <2>2. CASE UNCHANGED array
    BY <1>1, <1>2, <2>1, <2>2, CalmStep, CalmFacts DEF Evenly
  <2>3. CASE \E t \in quitting \cap Live : slots' = Erased(t) /\ nbThreads' = nbThreads - 1
    <3>1. PICK t \in quitting \cap Live : slots' = Erased(t) /\ nbThreads' = nbThreads - 1
      BY <2>3
    <3>2. Live' \subseteq Live
      BY <1>1, <1>7, <2>1, <3>1, OthersOnly, ArrayShrinks
    <3>3. Level'
      BY <1>1, <1>3, <2>1, <3>2, AwayStep, FewerLevel
    <3> QED
      BY <2>1, <3>3 DEF Evenly
  <2> QED
    BY <2>1, <2>2, <2>3
<1>8. CASE \/ threads_get_lightest \/ Share \/ NextJob \/ Lock \/ NoSuchClass \/ Unlock \/ add_host
           \/ BlockDone
  BY <1>8 DEF threads_get_lightest, Share, NextJob, Lock, NoSuchClass, Unlock, add_host, BlockDone,
     At, Making
<1> QED
  BY <1>1, <1>2, <1>4, <1>5, <1>6, <1>7, <1>8 DEF NextGrowth, Reader

LEMMA EvenStep ==
    ASSUME Shape, OrphansOf, Numbers, Entered, EvenInv, NextGrowth
    PROVE  EvenInv' /\ Entered'
<1>1. Away' /\ Entered'
  BY AwayStep, EnteredStep DEF EvenInv
<1>2. ASSUME Fair' PROVE EvenText' /\ EvenFinite' /\ Evenly'
  <2>1. Fair
    BY <1>2, FairBefore
  <2>2. Away /\ EvenText /\ EvenFinite /\ Evenly
    BY <2>1 DEF EvenInv
  <2> QED
    BY <1>2, <2>2, EvenTextStep, EvenFiniteStep, BlockStep, IdleStep
<1> QED
  BY <1>1, <1>2 DEF EvenInv

LEMMA EvenKept ==
    ASSUME Shape, EvenInv, Entered, UNCHANGED growth
    PROVE  EvenInv' /\ Entered'
<1>1. /\ UNCHANGED <<script, lib, pos, groups, plans, slots, nbThreads, made, hosts, local_hosts,
                     nb_nodes, nb_local_nodes, away, left, finished, endedAt, block, orphans>>
  BY DEF growth, reading, array, lists, life
<1>2. SameNodes /\ (Entered => Entered')
  BY <1>1 DEF SameNodes, NodesOf, LocalNodes, ToSet, Entered
<1>3. \A t : On(t)' = On(t)
  BY <1>2, OnKept
<1>4. Away' /\ (Fair' => Fair)
  BY <1>1 DEF EvenInv, Away, Fair, EvenOnly, Steady, NothingThrown
<1>5. ASSUME Fair PROVE EvenText' /\ EvenFinite' /\ Evenly'
  <2>1. EvenText /\ EvenFinite /\ Evenly /\ Away
    BY <1>5 DEF EvenInv
  <2>2. EvenText'
    BY <1>1, <1>3, <2>1 DEF EvenText, Even
  <2>3. EvenFinite'
    BY <1>3, <2>1 DEF EvenFinite
  <2>4. Evenly'
    <3>1. Calm /\ lib' = lib
      BY <1>1, <1>2, <1>4, <2>1, FS_CardinalityType DEF Calm, array, Shape, Away
    <3>2. CASE block = None
      BY <1>1, <2>1, <3>1, <3>2, CalmFacts DEF Evenly
    <3>3. CASE block # None
      <4>1. PICK c : c = block /\ c = block'
        BY <1>1
      <4>2. Built(c) /\ EvenLoad(c)
        BY <2>1, <3>3, <4>1 DEF Shape, Sound, Evenly
      <4>3. EvenLoad(block)'
        BY <3>1, <4>1, <4>2, KeptEven, NowEven
      <4> QED
        BY <1>1, <3>3, <4>3 DEF Evenly
    <3> QED
      BY <3>2, <3>3
  <2> QED
    BY <2>2, <2>3, <2>4
<1> QED
  BY <1>2, <1>4, <1>5 DEF EvenInv

LEMMA EvenHolds ==
    ASSUME EvenInv
    PROVE  EvenLoads
BY DEF EvenInv, EvenLoads, Fair, Evenly, Level, Count, Slack

(* While all assignments are even, no init() throws and no thread ends     *)
(* while nodes are spread, no thread of the array ever gets far ahead of   *)
(* another one, however many blocks are read, whatever leaves the threads  *)
(* meanwhile and whichever threads end between blocks                      *)
(* (threads_get_lightest and instantiate_nodes).                           *)
THEOREM LoadsStayEven == (SpecGrowth => []EvenLoads) /\ (Spec => []EvenLoads)
<1>1. InitGrowth => EvenInv /\ Entered
  BY StartedEven
<1>2. /\ Shape /\ OrphansOf /\ Numbers /\ EvenInv /\ Entered /\ [NextGrowth]_growth
      => EvenInv' /\ Entered'
  BY EvenStep, EvenKept
<1>3. EvenInv => EvenLoads
  BY EvenHolds
<1> QED
  BY <1>1, <1>2, <1>3, Shapes, Orphans, NumbersAlways, OnlyMade, PTL DEF SpecGrowth

-----------------------------------------------------------------------------
(* The blocks by the text.                                                 *)
Entries == [host : Hosts, nb : Nat]

Begins(s, t) == Len(s) <= Len(t) /\ \A i \in 1 .. Len(s) : t[i] = s[i]

IsDeclared(f, n) ==
    f = [i \in 0 .. n |-> IF i = 0 THEN [g \in Groups |-> <<>>] ELSE Announced(f[i - 1], script[i])]

LEMMA DeclaredNext ==
    ASSUME NEW n \in Nat, NEW f, IsDeclared(f, n), NEW i \in 0 .. n
    PROVE  f[i] = IF i = 0 THEN [g \in Groups |-> <<>>] ELSE Announced(f[i - 1], script[i])
<1> DEFINE F(j) == IF j = 0 THEN [g \in Groups |-> <<>>] ELSE Announced(f[j - 1], script[j])
<1>1. f = [j \in 0 .. n |-> F(j)]
  BY DEF IsDeclared
<1> HIDE DEF F
<1>2. f[i] = F(i)
  BY <1>1
<1> QED
  BY <1>2 DEF F

LEMMA DeclaredExists ==
    ASSUME NEW n \in Nat
    PROVE  \E f : IsDeclared(f, n)
<1> DEFINE T == {k \in Nat : ~ \E f : IsDeclared(f, k)}
           E == [g \in Groups |-> <<>>]
           A(old, i) == Announced(old, script[i])
<1> SUFFICES ASSUME T # {} PROVE FALSE
  OBVIOUS
<1>1. PICK k \in T : \A j \in T : k <= j
  <2> HIDE DEF T
  <2>1. T \subseteq Nat
    BY DEF T
  <2> QED
    BY <2>1, LeastNumber
<1>2. k \in Nat /\ ~ \E f : IsDeclared(f, k)
  OBVIOUS
<1> HIDE DEF E, A
<1>3. \A f, j : IsDeclared(f, j) <=> f = [i \in 0 .. j |-> IF i = 0 THEN E ELSE A(f[i - 1], i)]
  BY DEF IsDeclared, E, A
<1>4. CASE k = 0
  <2> DEFINE f == [i \in 0 .. 0 |-> E]
  <2>1. f = [i \in 0 .. 0 |-> IF i = 0 THEN E ELSE A(f[i - 1], i)]
    OBVIOUS
  <2> QED
    BY <1>2, <1>3, <1>4, <2>1
<1>5. CASE k # 0
  <2>1. k - 1 \in Nat /\ ~(k - 1 \in T)
    BY <1>1, <1>2, <1>5
  <2>2. PICK f : IsDeclared(f, k - 1)
    BY <2>1
  <2>3. \A i \in 0 .. k - 1 : f[i] = IF i = 0 THEN E ELSE A(f[i - 1], i)
    BY <2>1, <2>2, DeclaredNext DEF E, A
  <2> DEFINE h == [i \in 0 .. k |-> IF i = k THEN A(f[k - 1], k) ELSE f[i]]
  <2>4. h[k] = A(f[k - 1], k) /\ \A i \in 0 .. k - 1 : h[i] = f[i]
    BY <1>2
  <2>5. DOMAIN h = 0 .. k /\ h = [i \in 0 .. k |-> h[i]]
    OBVIOUS
  <2> HIDE DEF h
  <2>6. ASSUME NEW i \in 0 .. k
        PROVE  h[i] = IF i = 0 THEN E ELSE A(h[i - 1], i)
    <3>1. CASE i = k
      <4>1. h[k - 1] = f[k - 1]
        BY <2>1, <2>4
      <4> QED
        BY <1>5, <2>4, <3>1, <4>1
    <3>2. CASE i # k
      <4>1. i \in 0 .. k - 1 /\ (i # 0 => i - 1 \in 0 .. k - 1)
        BY <1>2, <3>2
      <4> QED
        BY <2>3, <2>4, <4>1
    <3> QED
      BY <3>1, <3>2
  <2>7. IsDeclared(h, k)
    BY <1>3, <2>5, <2>6
  <2> QED
    BY <1>2, <2>7
<1> QED
  BY <1>4, <1>5

LEMMA DeclaredIs ==
    ASSUME script \in Seq(Statements)
    PROVE  IsDeclared(Declared, Len(script))
<1>1. Len(script) \in Nat
  BY LenProperties
<1>2. \E f : IsDeclared(f, Len(script))
  BY <1>1, DeclaredExists
<1> QED
  BY <1>2 DEF IsDeclared, Declared

(* One statement.                                                          *)
Copied(s, old) ==
    [i \in DOMAIN old |-> [host |-> old[i].host, nb |-> Least(s.limit, old[i].nb)]]

Tables == [Groups -> Seq(Entries)]

LEMMA StatementFields ==
    ASSUME NEW s \in Statements
    PROVE  /\ s.op \in {"host", "group", "end", "assign", "same"}
           /\ s.op = "group" => s.grp \in Groups
           /\ s.op = "assign" => /\ s.grp \in Groups /\ s.host \in Hosts
                                 /\ Amount(s) \in Nat /\ s.thread \in Nat \cup {-1}
           /\ s.op = "same" => s.grp \in Groups /\ s.ref \in Groups /\ s.limit \in Nat \cup {-1}
<1>1. /\ s.op \in {"host", "group", "end", "assign", "same"}
      /\ s.op = "group" => s.grp \in Groups
      /\ s.op = "same" => s.grp \in Groups /\ s.ref \in Groups /\ s.limit \in Nat \cup {-1}
      /\ s.op = "assign" => /\ s.grp \in Groups /\ s.host \in Hosts /\ s.nb \in Nat
                            /\ s.star \in BOOLEAN /\ s.thread \in Nat \cup {-1}
  BY DEF Statements
<1>2. ASSUME s.op = "assign" PROVE Amount(s) \in Nat
  <2>1. DeclThreads[s.host] \in Nat
    BY <1>1, <1>2, ConstantsAssumption
  <2>2. \A x, y \in Nat : x * y \in Nat
    OBVIOUS
  <2> QED
    BY <1>1, <1>2, <2>1, <2>2 DEF Amount
<1> QED
  BY <1>1, <1>2

LEMMA CopiedType ==
    ASSUME NEW s, s.limit \in Nat \cup {-1}, NEW old \in Seq(Entries)
    PROVE  /\ Copied(s, old) \in Seq(Entries) /\ Len(Copied(s, old)) = Len(old)
           /\ \A i \in 1 .. Len(old) : /\ Copied(s, old)[i].host = old[i].host
                                       /\ Copied(s, old)[i].nb = Least(s.limit, old[i].nb)
           /\ Copied(s, old) = [i \in DOMAIN old |-> [old[i] EXCEPT !.nb = Least(s.limit, @)]]
<1>1. DOMAIN old = 1 .. Len(old) /\ Len(old) \in Nat /\ \A i \in 1 .. Len(old) : old[i] \in Entries
  BY LenProperties, ElementOfSeq
<1>2. ASSUME NEW e \in Entries
      PROVE  /\ [e EXCEPT !.nb = Least(s.limit, @)] = [host |-> e.host, nb |-> Least(s.limit, e.nb)]
             /\ [host |-> e.host, nb |-> Least(s.limit, e.nb)] \in Entries
  <2>1. e.host \in Hosts /\ e.nb \in Nat
    BY DEF Entries
  <2>2. Least(s.limit, e.nb) \in Nat
    <3>1. PICK a \in Nat \cup {-1}, b \in Nat : a = s.limit /\ b = e.nb
      BY <2>1
    <3>2. Least(a, b) \in 0 .. b
      BY LeastLimit
    <3>3. Least(a, b) \in Nat
      BY <3>2
    <3> QED
      BY <3>1, <3>3
  <2> QED
    BY <2>1, <2>2 DEF Entries
<1> DEFINE C == [i \in 1 .. Len(old) |-> [host |-> old[i].host, nb |-> Least(s.limit, old[i].nb)]]
<1>3. Copied(s, old) = C
  BY <1>1 DEF Copied
<1>4. \A i \in 1 .. Len(old) : C[i] \in Entries
  BY <1>1, <1>2
<1>5. C \in Seq(Entries) /\ Len(C) = Len(old)
  BY <1>1, <1>4
<1>6. C = [i \in DOMAIN old |-> [old[i] EXCEPT !.nb = Least(s.limit, @)]]
  BY <1>1, <1>2
<1>7. \A i \in 1 .. Len(old) : C[i].host = old[i].host /\ C[i].nb = Least(s.limit, old[i].nb)
  OBVIOUS
<1> HIDE DEF C
<1> QED
  BY <1>3, <1>5, <1>6, <1>7

LEMMA BeginsMore ==
    ASSUME NEW s \in Seq(Entries)
    PROVE  /\ Begins(s, s)
           /\ \A e \in Entries : Begins(s, Append(s, e))
           /\ \A p \in Seq(Entries) : Begins(s, s \o p)
BY LenProperties, AppendProperties, ConcatProperties DEF Begins

LEMMA BeginsOn ==
    ASSUME NEW s \in Seq(Entries), NEW t \in Seq(Entries), NEW u \in Seq(Entries),
           Begins(s, t), Begins(t, u)
    PROVE  Begins(s, u)
<1>1. Len(s) \in Nat /\ Len(t) \in Nat /\ Len(u) \in Nat
  BY LenProperties
<1> QED
  BY <1>1 DEF Begins

LEMMA AnnouncedIs ==
    ASSUME NEW old \in Tables, NEW s \in Statements
    PROVE  /\ Announced(old, s) \in Tables
           /\ \A g \in Groups : Begins(old[g], Announced(old, s)[g])
           /\ s.op \in {"host", "group", "end"} => Announced(old, s) = old
           /\ s.op \in {"assign", "same"} =>
                 \A g \in Groups \ {s.grp} : Announced(old, s)[g] = old[g]
           /\ s.op = "assign" =>
                 Announced(old, s)[s.grp] = Append(old[s.grp], [host |-> s.host, nb |-> Amount(s)])
           /\ s.op = "same" => Announced(old, s)[s.grp] = old[s.grp] \o Copied(s, old[s.ref])
<1>1. /\ s.op \in {"host", "group", "end", "assign", "same"}
      /\ s.op = "assign" => s.grp \in Groups /\ s.host \in Hosts /\ Amount(s) \in Nat
      /\ s.op = "same" => s.grp \in Groups /\ s.ref \in Groups /\ s.limit \in Nat \cup {-1}
  BY StatementFields
<1>2. \A g \in Groups : old[g] \in Seq(Entries) /\ Begins(old[g], old[g])
  BY BeginsMore DEF Tables
<1>3. ASSUME NEW g \in Groups, NEW q \in Seq(Entries), Begins(old[g], q),
             Announced(old, s) = [old EXCEPT ![g] = q]
      PROVE  /\ Announced(old, s) \in Tables
             /\ \A h \in Groups : Begins(old[h], Announced(old, s)[h])
             /\ \A h \in Groups \ {g} : Announced(old, s)[h] = old[h]
             /\ Announced(old, s)[g] = q
  BY <1>2, <1>3 DEF Tables
<1>4. CASE s.op \in {"host", "group", "end"}
  BY <1>2, <1>4 DEF Announced
<1>5. CASE s.op = "assign"
  <2> DEFINE e == [host |-> s.host, nb |-> Amount(s)]
             q == Append(old[s.grp], e)
  <2>1. e \in Entries
    BY <1>1, <1>5 DEF Entries
  <2>2. Announced(old, s) = [old EXCEPT ![s.grp] = q]
    BY <1>5 DEF Announced
  <2> HIDE DEF e
  <2>3. q \in Seq(Entries) /\ Begins(old[s.grp], q)
    BY <1>1, <1>2, <1>5, <2>1, BeginsMore, AppendProperties
  <2> HIDE DEF q
  <2>4. /\ Announced(old, s) \in Tables
        /\ \A h \in Groups : Begins(old[h], Announced(old, s)[h])
        /\ \A h \in Groups \ {s.grp} : Announced(old, s)[h] = old[h]
        /\ Announced(old, s)[s.grp] = q
    BY <1>1, <1>3, <1>5, <2>2, <2>3
  <2> QED
    BY <1>5, <2>4 DEF q, e
<1>6. CASE s.op = "same"
  <2> DEFINE c == Copied(s, old[s.ref])
             q == old[s.grp] \o c
  <2>1. c \in Seq(Entries) /\ c = [i \in DOMAIN old[s.ref] |-> [old[s.ref][i] EXCEPT !.nb = Least(s.limit, @)]]
    BY <1>1, <1>2, <1>6, CopiedType
  <2> HIDE DEF c
  <2>2. Announced(old, s) = [old EXCEPT ![s.grp] = q]
    BY <1>6, <2>1 DEF Announced
  <2>3. q \in Seq(Entries) /\ Begins(old[s.grp], q)
    BY <1>1, <1>2, <1>6, <2>1, BeginsMore, ConcatProperties
  <2> HIDE DEF q
  <2>4. /\ Announced(old, s) \in Tables
        /\ \A h \in Groups : Begins(old[h], Announced(old, s)[h])
        /\ \A h \in Groups \ {s.grp} : Announced(old, s)[h] = old[h]
        /\ Announced(old, s)[s.grp] = q
    BY <1>1, <1>3, <1>6, <2>2, <2>3
  <2> QED
    BY <1>6, <2>4 DEF q, c
<1> QED
  BY <1>1, <1>4, <1>5, <1>6

LEMMA DeclaredAt ==
    ASSUME script \in Seq(Statements)
    PROVE  /\ Declared[0] = [g \in Groups |-> <<>>]
           /\ \A n \in 1 .. Len(script) :
                 script[n] \in Statements /\ Declared[n] = Announced(Declared[n - 1], script[n])
<1>1. PICK m \in Nat : m = Len(script)
  BY LenProperties
<1>2. IsDeclared(Declared, m)
  BY <1>1, DeclaredIs
<1>3. \A i \in 0 .. m :
         Declared[i] = IF i = 0 THEN [g \in Groups |-> <<>>] ELSE Announced(Declared[i - 1], script[i])
  BY <1>1, <1>2, DeclaredNext
<1>4. \A n \in 1 .. m : script[n] \in Statements /\ n \in 0 .. m /\ n # 0
  BY <1>1, ElementOfSeq
<1> QED
  BY <1>1, <1>3, <1>4

LEMMA DeclaredType ==
    ASSUME script \in Seq(Statements)
    PROVE  \A n \in 0 .. Len(script) : Declared[n] \in Tables
<1>1. PICK m \in Nat : m = Len(script)
  BY LenProperties
<1> DEFINE T == {k \in 0 .. m : Declared[k] \notin Tables}
<1> SUFFICES ASSUME T # {} PROVE FALSE
  BY <1>1
<1>2. PICK k \in T : \A j \in T : k <= j
  <2> HIDE DEF T
  <2>1. T \subseteq Nat
    BY DEF T
  <2> QED
    BY <2>1, LeastNumber
<1>3. k \in 0 .. m /\ Declared[k] \notin Tables
  OBVIOUS
<1>4. CASE k = 0
  BY <1>3, <1>4, DeclaredAt, EmptySeq DEF Tables
<1>5. CASE k # 0
  <2>1. k \in 1 .. Len(script) /\ k - 1 \in 0 .. m /\ ~(k <= k - 1)
    BY <1>1, <1>3, <1>5
  <2>2. Declared[k - 1] \in Tables
    BY <1>2, <2>1
  <2>3. script[k] \in Statements /\ Declared[k] = Announced(Declared[k - 1], script[k])
    BY <2>1, DeclaredAt
  <2> QED
    BY <1>3, <2>2, <2>3, AnnouncedIs
<1> QED
  BY <1>4, <1>5

LEMMA DeclaredGrows ==
    ASSUME script \in Seq(Statements), NEW n \in 0 .. Len(script), NEW m \in 0 .. Len(script), n <= m,
           NEW g \in Groups
    PROVE  /\ Declared[n][g] \in Seq(Entries) /\ Declared[m][g] \in Seq(Entries)
           /\ Begins(Declared[n][g], Declared[m][g])
<1>1. PICK l \in Nat : l = Len(script)
  BY LenProperties
<1> DEFINE T == {k \in n .. l : ~ Begins(Declared[n][g], Declared[k][g])}
<1>2. \A k \in 0 .. l : Declared[k] \in Tables /\ Declared[k][g] \in Seq(Entries)
  BY <1>1, DeclaredType DEF Tables
<1>3. CASE T # {}
  <2>1. PICK k \in T : \A j \in T : k <= j
    <3> HIDE DEF T
    <3>1. T \subseteq Nat
      BY DEF T
    <3> QED
      BY <1>3, <3>1, LeastNumber
  <2>2. k \in n .. l /\ ~ Begins(Declared[n][g], Declared[k][g])
    OBVIOUS
  <2>3. CASE k = n
    BY <1>1, <1>2, <2>2, <2>3, BeginsMore
  <2>4. CASE k # n
    <3>1. k \in 1 .. Len(script) /\ k - 1 \in n .. l /\ ~(k <= k - 1) /\ k \in 0 .. l /\ k - 1 \in 0 .. l
      BY <1>1, <2>2, <2>4
    <3>2. Begins(Declared[n][g], Declared[k - 1][g])
      BY <2>1, <3>1
    <3>3. Begins(Declared[k - 1][g], Declared[k][g])
      <4>1. Declared[k - 1] \in Tables /\ script[k] \in Statements
            /\ Declared[k] = Announced(Declared[k - 1], script[k])
        BY <1>2, <3>1, DeclaredAt
      <4>2. Begins(Declared[k - 1][g], Announced(Declared[k - 1], script[k])[g])
        BY <4>1, AnnouncedIs
      <4> QED
        BY <4>1, <4>2
    <3> QED
      BY <1>1, <1>2, <2>2, <3>1, <3>2, <3>3, BeginsOn
  <2> QED
    BY <2>3, <2>4
<1>4. CASE T = {}
  BY <1>1, <1>2, <1>4
<1> QED
  BY <1>3, <1>4

-----------------------------------------------------------------------------
(* If no group has two blocks on a host, a group has one block here at     *)
(* most, no larger than the text says.  A block in the making will have n  *)
(* nodes at most: those it has, those of its jobs, and those of the turns, *)
(* which no longer array is made for.                                      *)
Due(b) ==
    IF b.plan.same THEN Len(b.jobs)
    ELSE IF b.jobs = <<>> THEN 0 ELSE Head(b.jobs).nb

Turns(b, m, n) ==
    \E r \in Nat :
        /\ m - b.turn <= r /\ (b.pc = "pick" => r # 0)
        /\ Len(b.nodes) + Due(b) - b.k + b.each * r <= n

Fill(b, m, n) ==
    /\ b.pc \in Choosing => b.plan.nb <= n
    /\ b.pc = "rest" => b.each * m <= b.plan.nb
    /\ b.pc \in {"lock", "pick", "make"} => Turns(b, m, n)
    /\ b.pc = "make" => b.k <= Head(b.jobs).nb
    /\ b.pc = "enter" => Len(b.nodes) <= n

PlanFill(p, n) == IF p.same THEN Len(p.jobs) <= n ELSE p.nb <= n

LEMMA DueIs ==
    ASSUME NEW b, Built(b)
    PROVE  /\ Due(b) \in Nat /\ Len(b.nodes) \in Nat
           /\ b.k \in Nat /\ b.each \in Nat /\ b.turn \in Nat
           /\ b.jobs = <<>> => Due(b) = 0
           /\ b.jobs # <<>> =>
                 /\ Head(b.jobs).nb \in Nat /\ Head(b.jobs).nb <= Due(b)
                 /\ \A c : c.plan = b.plan /\ c.jobs = Tail(b.jobs) =>
                       Due(c) = Due(b) - Head(b.jobs).nb
<1>1. /\ b.nodes \in Seq(Nodes) /\ b.k \in Nat /\ b.jobs \in JobsOf(Nat)
      /\ b.each \in Nat /\ b.turn \in Nat /\ b.plan.same \in BOOLEAN
  BY BlockFields
<1>2. Len(b.nodes) \in Nat /\ Len(b.jobs) \in Nat
  BY <1>1, LenProperties DEF JobsOf
<1>3. CASE b.jobs = <<>>
  BY <1>1, <1>2, <1>3 DEF Due
<1>4. CASE b.jobs # <<>>
  <2>1. /\ Head(b.jobs).nb \in Nat /\ (b.plan.same => Head(b.jobs).nb = 1)
        /\ Len(b.jobs) >= 1 /\ Len(Tail(b.jobs)) = Len(b.jobs) - 1
        /\ ~b.plan.same => Tail(b.jobs) = <<>>
    BY <1>4, FirstJob
  <2>2. Due(b) = IF b.plan.same THEN Len(b.jobs) ELSE Head(b.jobs).nb
    BY <1>4 DEF Due
  <2>3. PICK n, l \in Nat : n = Head(b.jobs).nb /\ l = Len(b.jobs)
    BY <1>2, <2>1
  <2>4. ASSUME NEW c, c.plan = b.plan, c.jobs = Tail(b.jobs)
        PROVE  Due(c) = Due(b) - n
    <3>1. CASE b.plan.same
      BY <2>1, <2>2, <2>3, <2>4, <3>1 DEF Due
    <3>2. CASE ~b.plan.same
      <4>1. Due(c) = 0 /\ Due(b) = n
        BY <2>1, <2>2, <2>3, <2>4, <3>2 DEF Due
      <4> QED
        BY <4>1
    <3> QED
      BY <3>1, <3>2
  <2>5. n <= Due(b) /\ Due(b) \in Nat
    BY <2>1, <2>2, <2>3
  <2> QED
    BY <1>1, <1>2, <1>4, <2>3, <2>4, <2>5
<1> QED
  BY <1>3, <1>4

(* The arithmetic of the turns. *)
LEMMA TurnsFrom ==
    ASSUME NEW b, Built(b), NEW c, Built(c), NEW m \in Nat, NEW n \in Nat, Turns(b, m, n),
           c.each = b.each, c.turn = b.turn, b.pc = "pick" \/ c.pc # "pick",
           Len(c.nodes) + Due(c) - c.k <= Len(b.nodes) + Due(b) - b.k
    PROVE  Turns(c, m, n)
<1>1. PICK r \in Nat : /\ m - b.turn <= r /\ (b.pc = "pick" => r # 0)
                       /\ Len(b.nodes) + Due(b) - b.k + b.each * r <= n
  BY DEF Turns
<1>2. PICK x, y, z \in Int : /\ x = Len(b.nodes) + Due(b) - b.k /\ y = Len(c.nodes) + Due(c) - c.k
                             /\ z = b.each * r
  <2>1. \A p, q \in Nat : p * q \in Int
    OBVIOUS
  <2>2. b.each * r \in Int
    <3>1. PICK e \in Nat : e = b.each
      BY DueIs
    <3> QED
      BY <2>1, <3>1
  <2>3. Len(b.nodes) + Due(b) - b.k \in Int /\ Len(c.nodes) + Due(c) - c.k \in Int
    <3>1. /\ Len(b.nodes) \in Nat /\ Due(b) \in Nat /\ b.k \in Nat
          /\ Len(c.nodes) \in Nat /\ Due(c) \in Nat /\ c.k \in Nat
      BY DueIs
    <3>2. \A x, y, z \in Nat : x + y - z \in Int
      OBVIOUS
    <3> QED
      BY <3>1, <3>2
  <2> QED
    BY <2>2, <2>3
<1>3. y + z <= n
  BY <1>1, <1>2
<1> QED
  BY <1>1, <1>2, <1>3 DEF Turns

LEMMA FillNew ==
    ASSUME Shape, NewBlock, Local(Head(plans).host), NEW n \in Nat, PlanFill(Head(plans), n)
    PROVE  Fill(block', nbThreads, n)
<1>1. PICK c : c = block'
  OBVIOUS
<1>2. /\ Head(plans) \in Plans /\ Sound(c) /\ c.plan = Head(plans) /\ c.nodes = <<>> /\ c.k = 0
      /\ c.each = 0 /\ c.turn = 0 /\ c.pc \in {"lock", "enter", "scan"}
      /\ c.pc = "lock" /\ Head(plans).same => c.jobs = Head(plans).jobs
      /\ c.pc = "lock" /\ ~Head(plans).same =>
            Head(plans).thread \in Nat /\ Head(plans).nb \in Nat /\
            c.jobs = <<Job(Head(plans).thread, Head(plans).nb)>>
      /\ c.pc # "lock" => ~Head(plans).same
  BY <1>1, NewBlockBuilt
<1>3. Len(c.nodes) = 0 /\ nbThreads \in Nat
  BY <1>2, EmptySeq DEF Shape, Array
<1>4. CASE c.pc = "scan"
  BY <1>1, <1>2, <1>4 DEF Fill, PlanFill
<1>5. CASE c.pc = "enter"
  BY <1>1, <1>2, <1>3, <1>5 DEF Fill, Choosing
<1>6. CASE c.pc = "lock"
  <2>1. Due(c) <= n /\ Due(c) \in Nat
    <3>1. CASE Head(plans).same
      BY <1>2, <1>6, <3>1, DueIs DEF Due, PlanFill, Sound
    <3>2. CASE ~Head(plans).same
      <4>1. PICK t, q \in Nat : /\ t = Head(plans).thread /\ q = Head(plans).nb
                                /\ c.jobs = <<Job(t, q)>> /\ q <= n
        BY <1>2, <1>6, <3>2 DEF PlanFill
      <4>2. c.jobs # <<>> /\ Head(c.jobs).nb = q
        BY <4>1, OneJob
      <4> QED
        BY <1>2, <3>2, <4>1, <4>2 DEF Due
    <3> QED
      BY <3>1, <3>2
  <2>2. PICK m, d \in Nat : m = nbThreads /\ d = Due(c) /\ d <= n
    BY <1>3, <2>1
  <2>3. m - c.turn <= m /\ Len(c.nodes) + Due(c) - c.k + c.each * m <= n
    <3>1. \A x \in Nat : 0 * x = 0
      OBVIOUS
    <3>2. c.each * m = 0
      BY <1>2, <3>1
    <3>3. 0 + d - 0 + 0 <= n /\ m - 0 <= m
      BY <2>2
    <3> QED
      BY <1>2, <1>3, <2>2, <3>2, <3>3
  <2>4. Turns(c, m, n)
    BY <1>6, <2>3 DEF Turns
  <2> QED
    BY <1>1, <1>6, <2>2, <2>4 DEF Fill, Choosing
<1> QED
  BY <1>2, <1>4, <1>5, <1>6

LEMMA FillLightest ==
    ASSUME Shape, threads_get_lightest, NEW n \in Nat, Fill(block, nbThreads, n)
    PROVE  Fill(block', nbThreads, n)
<1>1. PICK c : c = block'
  OBVIOUS
<1>2. c.plan = block.plan /\ block.pc \in {"scan", "look", "take"} /\ c.pc \in {"scan", "look", "take", "each"}
  BY <1>1, LightestBuilt
<1> QED
  BY <1>1, <1>2 DEF Fill, Choosing

LEMMA FillShare ==
    ASSUME Shape, Share, NEW n \in Nat, Fill(block, nbThreads, n)
    PROVE  Fill(block', nbThreads, n)
<1>1. PICK c : c = block'
  OBVIOUS
<1>2. /\ Sound(block) /\ Sound(c) /\ c.plan = block.plan /\ c.nodes = <<>> /\ c.turn = 0
      /\ block.plan.nb \in Nat
      /\ \/ block.pc = "each" /\ c.pc = "crash"
         \/ /\ block.pc = "each" /\ nbThreads > 0 /\ c.pc = "rest"
            /\ c.each = block.plan.nb \div nbThreads
         \/ /\ block.pc = "rest" /\ c.pc = "lock" /\ c.each = block.each
            /\ \/ /\ block.plan.nb - block.each * nbThreads > 0
                  /\ block.plan.nb - block.each * nbThreads \in Nat
                  /\ c.jobs = <<Job(block.th, block.plan.nb - block.each * nbThreads)>>
               \/ ~(block.plan.nb - block.each * nbThreads > 0) /\ c.jobs = <<>>
  BY <1>1, ShareBuilt
<1>3. PICK m, q \in Nat : m = nbThreads /\ q = block.plan.nb
  BY <1>2 DEF Shape, Array
<1>4. CASE c.pc = "crash"
  BY <1>1, <1>4 DEF Fill, Choosing
<1>5. CASE c.pc = "rest"
  <2>1. block.pc = "each" /\ m > 0 /\ c.each = q \div m /\ q <= n
    BY <1>2, <1>3, <1>5 DEF Fill, Choosing
  <2>2. \A x \in Nat, y \in Nat \ {0} : (x \div y) * y <= x
    OBVIOUS
  <2>3. c.each * m <= q
    BY <2>1, <2>2
  <2> QED
    BY <1>1, <1>2, <1>3, <1>5, <2>1, <2>3 DEF Fill, Choosing
<1>6. CASE c.pc = "lock"
  <2>1. block.pc = "rest" /\ c.each = block.each /\ block.each * m <= q /\ q <= n
    BY <1>2, <1>3, <1>6 DEF Fill, Choosing
  <2>2. c.k = 0 /\ c.each \in Nat /\ block.th \in Nat /\ Len(c.nodes) = 0 /\ ~c.plan.same
    BY <1>2, <1>6, <2>1, BlockFields, EmptySeq DEF Sound, Phase, Choosing, Even
  <2>3. PICK e \in Nat : e = c.each /\ e = block.each
    BY <2>1, <2>2
  <2>4. PICK p \in Nat : p = e * m
    <3>1. \A x, y \in Nat : x * y \in Nat
      OBVIOUS
    <3> QED
      BY <3>1
  <2>5. Due(c) + p <= n /\ Due(c) \in Nat
    <3>1. CASE q - p > 0
      <4>1. PICK t, r \in Nat : t = block.th /\ r = q - p /\ c.jobs = <<Job(t, r)>>
        <5>1. block.each * nbThreads = p /\ block.plan.nb = q
          BY <1>3, <2>3, <2>4
        <5>2. c.jobs = <<Job(block.th, q - p)>>
          BY <1>2, <1>6, <2>1, <3>1, <5>1
        <5> QED
          BY <2>2, <3>1, <5>2
      <4>2. c.jobs # <<>> /\ Head(c.jobs).nb = r
        <5>1. <<Job(t, r)>> # <<>> /\ Head(<<Job(t, r)>>) = Job(t, r) /\ Job(t, r).nb = r
          BY OneJob
        <5> QED
          BY <4>1, <5>1
      <4>3. Due(c) = r
        BY <2>2, <4>2 DEF Due
      <4> QED
        BY <2>1, <4>1, <4>3
    <3>2. CASE ~(q - p > 0)
      <4>1. c.jobs = <<>>
        <5>1. block.each * nbThreads = p /\ block.plan.nb = q
          BY <1>3, <2>3, <2>4
        <5> QED
          BY <1>2, <1>6, <2>1, <3>2, <5>1
      <4>2. Due(c) = 0
        BY <2>2, <4>1 DEF Due
      <4> QED
        BY <2>1, <2>3, <2>4, <4>2
    <3> QED
      BY <3>1, <3>2
  <2>6. Len(c.nodes) + Due(c) - c.k + c.each * m <= n
    <3>1. PICK d \in Nat : d = Due(c) /\ d + p <= n
      BY <2>5
    <3>2. 0 + d - 0 + p <= n
      BY <3>1
    <3> QED
      BY <2>2, <2>3, <2>4, <3>1, <3>2
  <2>7. m - c.turn <= m
    BY <1>2
  <2>8. Turns(c, m, n)
    BY <1>6, <2>6, <2>7 DEF Turns
  <2> QED
    BY <1>1, <1>3, <1>6, <2>8 DEF Fill, Choosing
<1> QED
  BY <1>2, <1>4, <1>5, <1>6

LEMMA FillNext ==
    ASSUME Shape, NextJob, NEW n \in Nat, Fill(block, nbThreads, n)
    PROVE  Fill(block', nbThreads, n)
<1>1. PICK c : c = block'
  OBVIOUS
<1>2. /\ Sound(block) /\ Sound(c) /\ c.plan = block.plan /\ c.nodes = block.nodes
      /\ block.jobs = <<>> /\ c.th = block.th /\ c.each = block.each
      /\ c.k = block.k /\ block.k = 0
      /\ \/ /\ block.pc = "lock" /\ block.turn < nbThreads
            /\ c.pc = "pick" /\ c.turn = block.turn /\ c.jobs = <<>>
         \/ /\ block.pc = "lock" /\ c.pc = "enter" /\ c.turn = block.turn /\ c.jobs = <<>>
         \/ block.pc = "pick" /\ c.pc = "crash"
         \/ /\ block.pc = "pick" /\ nbThreads > 0 /\ c.pc = "lock" /\ c.turn = block.turn + 1
            /\ c.jobs = <<Job(Turn(block.turn, block.th), block.each)>>
  BY <1>1, NextJobBuilt
<1>3. PICK m \in Nat : m = nbThreads
  BY DEF Shape, Array
<1>4. Built(block) /\ Built(c) /\ Due(block) = 0
  BY <1>2, DueIs DEF Sound
<1>5. PICK l, e, t \in Nat : /\ l = Len(block.nodes) /\ l = Len(c.nodes)
                             /\ e = block.each /\ e = c.each /\ t = block.turn
  BY <1>2, <1>4, DueIs
<1>6. block.pc \in {"lock", "pick"}
  BY <1>2
<1>7. Turns(block, m, n)
  BY <1>3, <1>6 DEF Fill
<1>8. PICK r \in Nat : m - t <= r /\ (block.pc = "pick" => r # 0) /\ l + 0 - 0 + e * r <= n
  BY <1>2, <1>4, <1>5, <1>7 DEF Turns
<1>9. PICK p \in Nat : p = e * r
  <2>1. \A x, y \in Nat : x * y \in Nat
    OBVIOUS
  <2> QED
    BY <2>1
<1>10. l + p <= n
  BY <1>8, <1>9
<1>11. CASE c.pc = "pick"
  <2>1. Due(c) = 0 /\ r # 0 /\ c.k = 0 /\ c.turn = t
    BY <1>2, <1>3, <1>4, <1>5, <1>8, <1>11, DueIs
  <2>2. Turns(c, m, n)
    BY <1>5, <1>8, <2>1 DEF Turns
  <2> QED
    BY <1>1, <1>3, <1>11, <2>2 DEF Fill, Choosing
<1>12. CASE c.pc = "enter"
  <2>1. Len(c.nodes) <= n
    BY <1>5, <1>10
  <2> QED
    BY <1>1, <1>12, <2>1 DEF Fill, Choosing
<1>13. CASE c.pc = "crash"
  BY <1>1, <1>13 DEF Fill, Choosing
<1>14. CASE c.pc = "lock"
  <2>1. block.pc = "pick" /\ c.turn = t + 1 /\ c.k = 0 /\ c.jobs = <<Job(Turn(block.turn, block.th), e)>>
    BY <1>2, <1>5, <1>14
  <2>2. ~c.plan.same /\ block.each > 0 /\ block.th \in Nat
    BY <1>2, <1>4, <2>1, BlockFields DEF Sound, Phase, Built, Even
  <2>3. Turn(block.turn, block.th) \in Nat
    BY <1>2, <1>3, <1>5, <1>14, <2>2, TurnIn
  <2>4. PICK h \in Nat : h = Turn(block.turn, block.th)
    BY <2>3
  <2>5. c.jobs # <<>> /\ Head(c.jobs).nb = e
    BY <2>1, <2>4, OneJob
  <2>6. Due(c) = e
    BY <2>2, <2>5 DEF Due
  <2>7. PICK s \in Nat : s = r - 1 /\ m - (t + 1) <= s
    BY <1>8, <2>1
  <2>8. e * s = p - e
    <3>1. \A x \in Nat, y \in Nat : x * (y + 1) = x * y + x
      OBVIOUS
    <3>2. PICK z \in Nat : z = e * s
      <4>1. \A x, y \in Nat : x * y \in Nat
        OBVIOUS
      <4> QED
        BY <4>1
    <3>3. r = s + 1 /\ e * (s + 1) = e * s + e
      BY <2>7, <3>1
    <3> QED
      BY <1>9, <3>2, <3>3
  <2>9. l + e - 0 + (p - e) <= n
    BY <1>10
  <2>10. Turns(c, m, n)
    BY <1>5, <1>14, <2>1, <2>6, <2>7, <2>8, <2>9 DEF Turns
  <2> QED
    BY <1>1, <1>3, <1>14, <2>10 DEF Fill, Choosing
<1> QED
  BY <1>2, <1>11, <1>12, <1>13, <1>14

LEMMA FillLock ==
    ASSUME Shape, Lock, NEW n \in Nat, Fill(block, nbThreads, n)
    PROVE  Fill(block', nbThreads, n)
<1>1. PICK c : c = block'
  OBVIOUS
<1>2. /\ Sound(block) /\ Sound(c) /\ c.plan = block.plan /\ c.jobs = block.jobs /\ c.k = 0
      /\ block.k = 0 /\ c.nodes = block.nodes /\ block.jobs # <<>>
      /\ c.each = block.each /\ c.turn = block.turn /\ block.pc = "lock"
      /\ c.pc \in {"crash", "stuck", "make"}
  BY <1>1, LockBuilt
<1>3. Built(block) /\ Built(c) /\ nbThreads \in Nat /\ Turns(block, nbThreads, n)
  BY <1>2 DEF Sound, Shape, Array, Fill
<1>4. /\ Due(c) = Due(block) /\ Due(c) \in Nat /\ Len(c.nodes) \in Nat
      /\ Head(c.jobs).nb \in Nat
  BY <1>2, <1>3, DueIs DEF Due
<1>5. Len(c.nodes) + Due(c) - c.k <= Len(block.nodes) + Due(block) - block.k
  BY <1>2, <1>4
<1>6. Turns(c, nbThreads, n)
  BY <1>2, <1>3, <1>5, TurnsFrom
<1>7. c.k <= Head(c.jobs).nb
  BY <1>2, <1>4
<1> QED
  BY <1>1, <1>2, <1>6, <1>7 DEF Fill, Choosing

LEMMA FillMade ==
    ASSUME Shape, instantiate_node, NEW n \in Nat, Fill(block, nbThreads, n)
    PROVE  Fill(block', nbThreads, n)
<1>1. PICK c : c = block'
  OBVIOUS
<1>2. /\ Sound(block) /\ Sound(c) /\ c.plan = block.plan /\ c.jobs = block.jobs /\ c.k = block.k + 1
      /\ block.k < Head(block.jobs).nb /\ c.nodes = Append(block.nodes, NewNode(Target))
      /\ c.each = block.each /\ c.turn = block.turn /\ block.pc = "make" /\ c.pc = "make"
      /\ block.jobs # <<>>
  BY <1>1, MadeOne
<1>3. Built(block) /\ Built(c) /\ nbThreads \in Nat /\ Turns(block, nbThreads, n)
  BY <1>2 DEF Sound, Shape, Array, Fill
<1>4. /\ Due(c) = Due(block) /\ Due(c) \in Nat /\ Len(block.nodes) \in Nat /\ block.k \in Nat
      /\ Head(c.jobs).nb \in Nat
  BY <1>2, <1>3, DueIs DEF Due
<1>5. Len(c.nodes) = Len(block.nodes) + 1
  <2>1. block.nodes \in Seq(Nodes) /\ NewNode(Target) \in Nodes
    BY <1>2, <1>3, BlockFields, NewNodeIs DEF instantiate_node, Making
  <2> QED
    BY <1>2, <2>1, AppendProperties
<1>6. Len(c.nodes) + Due(c) - c.k <= Len(block.nodes) + Due(block) - block.k
  BY <1>2, <1>4, <1>5
<1>7. Turns(c, nbThreads, n)
  BY <1>2, <1>3, <1>6, TurnsFrom
<1>8. c.k <= Head(c.jobs).nb
  BY <1>2, <1>4
<1> QED
  BY <1>1, <1>2, <1>7, <1>8 DEF Fill, Choosing

LEMMA TurnsDone ==
    ASSUME NEW b, Built(b), NEW m \in Nat, NEW n \in Nat, Turns(b, m, n), b.k <= Due(b)
    PROVE  Len(b.nodes) <= n
<1>1. PICK r \in Nat : Len(b.nodes) + Due(b) - b.k + b.each * r <= n
  BY DEF Turns
<1>2. \A x, y \in Nat : x * y \in Nat
  OBVIOUS
<1>3. PICK l, d, k, z \in Nat : l = Len(b.nodes) /\ d = Due(b) /\ k = b.k /\ z = b.each * r
  BY <1>2, DueIs
<1>4. l + d - k + z <= n /\ k <= d
  BY <1>1, <1>3
<1>5. l <= n
  BY <1>4
<1> QED
  BY <1>3, <1>5

LEMMA FillSkip ==
    ASSUME Shape, NoSuchClass, NEW n \in Nat, Fill(block, nbThreads, n)
    PROVE  Fill(block', nbThreads, n)
<1>1. PICK c : c = block'
  OBVIOUS
<1>2. /\ Sound(block) /\ Sound(c) /\ c.plan = block.plan /\ c.jobs = block.jobs
      /\ c.nodes = block.nodes /\ block.jobs # <<>> /\ block.pc = "make"
      /\ c.each = block.each /\ c.turn = block.turn
      /\ \/ c.pc = "enter"
         \/ c.pc = "make" /\ c.k = block.k + 1 /\ block.k < Head(block.jobs).nb
  BY <1>1, SkippedOne
<1>3. /\ Built(block) /\ Built(c) /\ nbThreads \in Nat /\ Turns(block, nbThreads, n)
      /\ block.k <= Head(block.jobs).nb
  BY <1>2 DEF Sound, Shape, Array, Fill
<1>4. /\ Due(c) = Due(block) /\ Due(c) \in Nat /\ Len(c.nodes) \in Nat /\ block.k \in Nat
      /\ Head(block.jobs).nb \in Nat /\ Head(block.jobs).nb <= Due(block)
  BY <1>2, <1>3, DueIs DEF Due
<1>5. CASE c.pc = "enter"
  <2>1. block.k <= Due(block)
    BY <1>3, <1>4
  <2>2. Len(c.nodes) <= n
    BY <1>2, <1>3, <2>1, TurnsDone
  <2> QED
    BY <1>1, <1>5, <2>2 DEF Fill, Choosing
<1>6. CASE c.pc = "make" /\ c.k = block.k + 1 /\ block.k < Head(block.jobs).nb
  <2>1. Len(c.nodes) + Due(c) - c.k <= Len(block.nodes) + Due(block) - block.k
    BY <1>2, <1>4, <1>6
  <2>2. Turns(c, nbThreads, n)
    BY <1>2, <1>3, <1>6, <2>1, TurnsFrom
  <2>3. c.k <= Head(c.jobs).nb
    BY <1>2, <1>4, <1>6
  <2> QED
    BY <1>1, <1>6, <2>2, <2>3 DEF Fill, Choosing
<1> QED
  BY <1>2, <1>5, <1>6

LEMMA FillUnlock ==
    ASSUME Shape, Unlock, NEW n \in Nat, Fill(block, nbThreads, n)
    PROVE  Fill(block', nbThreads, n)
<1>1. PICK c : c = block'
  OBVIOUS
<1>2. /\ Sound(block) /\ Sound(c) /\ c.plan = block.plan /\ c.jobs = Tail(block.jobs) /\ c.k = 0
      /\ block.k = Head(block.jobs).nb /\ c.nodes = block.nodes /\ block.jobs # <<>>
      /\ c.each = block.each /\ c.turn = block.turn /\ block.pc = "make" /\ c.pc = "lock"
  BY <1>1, UnlockBuilt
<1>3. Built(block) /\ Built(c) /\ nbThreads \in Nat /\ Turns(block, nbThreads, n)
  BY <1>2 DEF Sound, Shape, Array, Fill
<1>4. Due(c) = Due(block) - Head(block.jobs).nb
  BY <1>2, <1>3, DueIs
<1>5. /\ Due(block) \in Nat /\ Len(c.nodes) \in Nat /\ Head(block.jobs).nb \in Nat
  BY <1>2, <1>3, DueIs
<1>6. Len(c.nodes) + Due(c) - c.k <= Len(block.nodes) + Due(block) - block.k
  BY <1>2, <1>4, <1>5
<1>7. Turns(c, nbThreads, n)
  BY <1>2, <1>3, <1>6, TurnsFrom
<1> QED
  BY <1>1, <1>2, <1>7 DEF Fill, Choosing

(* A thread that ends meanwhile makes it no more. *)
LEMMA FillFewer ==
    ASSUME NEW b, Built(b), NEW m \in Nat, NEW q \in Nat, q <= m, NEW n, Fill(b, m, n),
           b.pc = "rest" => b.plan.nb \in Nat
    PROVE  Fill(b, q, n)
<1>1. b.each \in Nat /\ b.turn \in Nat
  BY DueIs
<1>2. ASSUME b.pc = "rest" PROVE b.each * q <= b.plan.nb
  <2>1. \A x, y, z \in Nat : y <= z => x * y <= x * z /\ x * y \in Nat /\ x * z \in Nat
    OBVIOUS
  <2>2. b.each * q <= b.each * m /\ b.each * q \in Nat /\ b.each * m \in Nat
    BY <1>1, <2>1
  <2>3. b.each * m <= b.plan.nb
    BY <1>2 DEF Fill
  <2>4. PICK u, v, w \in Nat : u = b.each * q /\ v = b.each * m /\ w = b.plan.nb
    BY <1>2, <2>2
  <2> QED
    BY <2>2, <2>3, <2>4
<1>3. ASSUME Turns(b, m, n) PROVE Turns(b, q, n)
  <2>1. PICK r \in Nat : /\ m - b.turn <= r /\ (b.pc = "pick" => r # 0)
                         /\ Len(b.nodes) + Due(b) - b.k + b.each * r <= n
    BY <1>3 DEF Turns
  <2>2. q - b.turn <= r
    BY <1>1, <2>1
  <2> QED
    BY <2>1, <2>2 DEF Turns
<1> QED
  BY <1>2, <1>3 DEF Fill

(* Here: what has been declared, the lists, what is left to do, the block  *)
(* in the making and the size of the array.                                *)
Fit(s, n) == \E i \in 1 .. Len(s) : s[i].host = Me /\ n <= s[i].nb

Free(l, h) == l = <<>> /\ \A i \in 1 .. Len(h) : h[i].host # Me

OwnList(l, h, s) ==
    /\ Len(l) <= 1 /\ (l # <<>> => Fit(s, Len(l[1].nodes)))
    /\ \A i \in 1 .. Len(h) : h[i].host = Me =>
          Fit(s, Len(h[i].nodes)) /\ \A j \in 1 .. Len(h) : h[j].host = Me => i = j

OwnPlan(p, l, h, s) == Free(l, h) /\ \E n \in Nat : Fit(s, n) /\ PlanFill(p, n)

OwnPlans(ps, L, H, T) ==
    \A i \in 1 .. Len(ps) : ps[i].host = Me =>
        /\ OwnPlan(ps[i], L[ps[i].grp], H[ps[i].grp], T[ps[i].grp])
        /\ \A j \in 1 .. Len(ps) : ps[j].host = Me => i = j

OwnBlock(b, m, l, h, s) ==
    /\ b.pc # "enter" \/ b.k = 0 => l = <<>>
    /\ b.pc # "enter" \/ b.k \in {0, 1} => \A i \in 1 .. Len(h) : h[i].host # Me
    /\ \E n \in Nat : Fit(s, n) /\ Fill(b, m, n)

NoOwn(ps) == \A i \in 1 .. Len(ps) : ps[i].host # Me

OneHost(T, L, H, ps, b, m) ==
    /\ \A g \in Groups : OwnList(L[g], H[g], T[g])
    /\ OwnPlans(ps, L, H, T)
    /\ b # None /\ b.plan.host = Me =>
          OwnBlock(b, m, L[b.plan.grp], H[b.plan.grp], T[b.plan.grp]) /\ NoOwn(ps)

OneHere == OneHost(Declared[pos], local_hosts, hosts, plans, block, nbThreads)

BlockLists == [Groups -> Seq(Blocks)]

LEMMA NowOne ==
    ASSUME NEW T, NEW L, NEW H, NEW ps, NEW b, NEW m, OneHost(T, L, H, ps, b, m),
           T = Declared'[pos'], L = local_hosts', H = hosts', ps = plans', b = block', m = nbThreads'
    PROVE  OneHere'
BY DEF OneHere

LEMMA FitMore ==
    ASSUME NEW s \in Seq(Entries), NEW t \in Seq(Entries), Begins(s, t), NEW n, Fit(s, n)
    PROVE  Fit(t, n)
<1>1. Len(s) \in Nat /\ Len(t) \in Nat
  BY LenProperties
<1>2. PICK i \in 1 .. Len(s) : s[i].host = Me /\ n <= s[i].nb
  BY DEF Fit
<1>3. i \in 1 .. Len(t) /\ t[i] = s[i]
  BY <1>1, <1>2 DEF Begins
<1> QED
  BY <1>2, <1>3 DEF Fit

LEMMA FitLess ==
    ASSUME NEW s \in Seq(Entries), NEW n \in Nat, NEW k \in Nat, k <= n, Fit(s, n)
    PROVE  Fit(s, k)
<1>1. PICK i \in 1 .. Len(s) : s[i].host = Me /\ n <= s[i].nb
  BY DEF Fit
<1>2. s[i] \in Entries
  BY ElementOfSeq
<1>3. PICK x \in Nat : x = s[i].nb
  BY <1>2 DEF Entries
<1>4. k <= s[i].nb
  BY <1>1, <1>3
<1> QED
  BY <1>1, <1>4 DEF Fit

LEMMA OwnListMore ==
    ASSUME NEW s \in Seq(Entries), NEW t \in Seq(Entries), Begins(s, t), NEW l, NEW h, OwnList(l, h, s)
    PROVE  OwnList(l, h, t)
<1>1. \A n : Fit(s, n) => Fit(t, n)
  BY FitMore
<1> QED
  BY <1>1 DEF OwnList

(* The text goes on, or a thread ends. *)
LEMMA HostMoved ==
    ASSUME NEW T \in Tables, NEW U \in Tables, \A g \in Groups : Begins(T[g], U[g]),
           NEW L, NEW H, NEW ps \in Seq(Plans), NEW b, NEW m \in Nat, NEW q \in Nat,
           OneHost(T, L, H, ps, b, m), b = None \/ q <= m, b # None => Sound(b)
    PROVE  OneHost(U, L, H, ps, b, q)
<1>1. \A g \in Groups : T[g] \in Seq(Entries) /\ U[g] \in Seq(Entries)
  BY DEF Tables
<1>2. \A g \in Groups : \A n : Fit(T[g], n) => Fit(U[g], n)
  BY <1>1, FitMore
<1>3. \A g \in Groups : OwnList(L[g], H[g], U[g])
  BY <1>1, OwnListMore DEF OneHost
<1>4. \A i \in 1 .. Len(ps) : ps[i].grp \in Groups
  <2>1. \A i \in 1 .. Len(ps) : ps[i] \in Plans
    BY ElementOfSeq
  <2> QED
    BY <2>1, PlanFields
<1>5. OwnPlans(ps, L, H, U)
  BY <1>2, <1>4 DEF OneHost, OwnPlans, OwnPlan
<1>6. ASSUME b # None, b.plan.host = Me
      PROVE  OwnBlock(b, q, L[b.plan.grp], H[b.plan.grp], U[b.plan.grp]) /\ NoOwn(ps)
  <2>1. /\ OwnBlock(b, m, L[b.plan.grp], H[b.plan.grp], T[b.plan.grp]) /\ NoOwn(ps)
    BY <1>6 DEF OneHost
  <2>2. Built(b) /\ b.plan \in Plans /\ b.plan.grp \in Groups
    BY <1>6, BlockFields DEF Sound
  <2>3. b.pc = "rest" => b.plan.nb \in Nat
    BY <1>6, <2>2, PlanFields DEF Sound, Phase, Choosing, Even
  <2>4. PICK n \in Nat : Fit(T[b.plan.grp], n) /\ Fill(b, m, n)
    BY <2>1 DEF OwnBlock
  <2>5. Fit(U[b.plan.grp], n) /\ Fill(b, q, n)
    BY <1>2, <1>6, <2>2, <2>3, <2>4, FillFewer
  <2> QED
    BY <2>1, <2>5 DEF OwnBlock
<1> QED
  BY <1>3, <1>5, <1>6 DEF OneHost

(* A block is worked on. *)
LEMMA HostWorked ==
    ASSUME NEW T, NEW L, NEW H, NEW ps, NEW b, NEW d, NEW m,
           OneHost(T, L, H, ps, b, m), b # None, d.plan = b.plan,
           b.pc # "enter" \/ b.k = 2, d.pc # "enter" \/ d.k = 0 => b.pc # "enter",
           d.pc # "enter" \/ d.k \in {0, 1} => b.pc # "enter",
           \A n \in Nat : Fill(b, m, n) => Fill(d, m, n)
    PROVE  OneHost(T, L, H, ps, d, m)
<1>1. ASSUME d.plan.host = Me
      PROVE  OwnBlock(d, m, L[d.plan.grp], H[d.plan.grp], T[d.plan.grp]) /\ NoOwn(ps)
  BY <1>1 DEF OneHost, OwnBlock
<1> QED
  BY <1>1 DEF OneHost

(* A block is done, or given up with all that is left to do. *)
LEMMA HostDropped ==
    ASSUME NEW T, NEW L, NEW H, NEW ps, NEW b, NEW m, OneHost(T, L, H, ps, b, m)
    PROVE  OneHost(T, L, H, ps, None, m) /\ OneHost(T, L, H, <<>>, None, m)
<1>1. OwnPlans(<<>>, L, H, T)
  BY EmptySeq DEF OwnPlans
<1> QED
  BY <1>1 DEF OneHost

LEMMA HostTaken ==
    ASSUME NEW T, NEW L, NEW H, NEW ps \in Seq(Plans), ps # <<>>, NEW d, NEW m,
           OneHost(T, L, H, ps, None, m), d.plan = Head(ps), d.k = 0,
           d.plan.host = Me => \A n \in Nat : PlanFill(Head(ps), n) => Fill(d, m, n)
    PROVE  OneHost(T, L, H, Tail(ps), d, m)
<1>1. /\ Len(ps) \in Nat \ {0} /\ Head(ps) = ps[1] /\ Len(Tail(ps)) = Len(ps) - 1
      /\ \A i \in 1 .. Len(ps) - 1 : Tail(ps)[i] = ps[i + 1]
  BY EmptySeq, LenProperties, HeadTailProperties
<1>2. 1 \in 1 .. Len(ps) /\ \A i \in 1 .. Len(Tail(ps)) : i + 1 \in 1 .. Len(ps) /\ i + 1 # 1
  BY <1>1
<1>3. OwnPlans(ps, L, H, T)
  BY DEF OneHost
<1>4. OwnPlans(Tail(ps), L, H, T)
  <2> SUFFICES ASSUME NEW i \in 1 .. Len(Tail(ps)), Tail(ps)[i].host = Me
               PROVE  /\ OwnPlan(Tail(ps)[i], L[Tail(ps)[i].grp], H[Tail(ps)[i].grp], T[Tail(ps)[i].grp])
                      /\ \A j \in 1 .. Len(Tail(ps)) : Tail(ps)[j].host = Me => i = j
    BY DEF OwnPlans
  <2>1. Tail(ps)[i] = ps[i + 1] /\ i + 1 \in 1 .. Len(ps)
    BY <1>1, <1>2
  <2>2. ASSUME NEW j \in 1 .. Len(Tail(ps)), Tail(ps)[j].host = Me PROVE i = j
    <3>1. Tail(ps)[j] = ps[j + 1] /\ j + 1 \in 1 .. Len(ps)
      BY <1>1, <1>2
    <3>2. i + 1 = j + 1
      BY <1>3, <2>1, <2>2, <3>1 DEF OwnPlans
    <3> QED
      BY <3>2
  <2> QED
    BY <1>3, <2>1, <2>2 DEF OwnPlans
<1>5. ASSUME d.plan.host = Me
      PROVE  OwnBlock(d, m, L[d.plan.grp], H[d.plan.grp], T[d.plan.grp]) /\ NoOwn(Tail(ps))
  <2>1. OwnPlan(d.plan, L[d.plan.grp], H[d.plan.grp], T[d.plan.grp])
    BY <1>1, <1>2, <1>3, <1>5 DEF OwnPlans
  <2>2. ASSUME NEW i \in 1 .. Len(Tail(ps)), Tail(ps)[i].host = Me PROVE FALSE
    <3>1. Tail(ps)[i] = ps[i + 1] /\ i + 1 \in 1 .. Len(ps)
      BY <1>1, <1>2
    <3>2. i + 1 = 1
      BY <1>1, <1>2, <1>3, <1>5, <2>2, <3>1 DEF OwnPlans
    <3> QED
      BY <1>2, <3>2
  <2>3. OwnBlock(d, m, L[d.plan.grp], H[d.plan.grp], T[d.plan.grp])
    BY <1>5, <2>1 DEF OwnPlan, OwnBlock, Free
  <2> QED
    BY <2>2, <2>3 DEF NoOwn
<1> QED
  BY <1>4, <1>5 DEF OneHost

(* The two lists it enters. *)
LEMMA HostLocal ==
    ASSUME NEW T \in Tables, NEW L \in BlockLists, NEW H, NEW ps, NEW b, NEW d, NEW m,
           OneHost(T, L, H, ps, b, m), b # None, b.pc = "enter", b.k = 0, b.plan.grp \in Groups,
           d.plan = b.plan, d.pc = "enter", d.k = 1, d.nodes = b.nodes,
           NEW e \in Blocks, e.nodes = b.nodes, NEW K,
           K = IF b.plan.host = Me THEN [L EXCEPT ![b.plan.grp] = Append(@, e)] ELSE L
    PROVE  OneHost(T, K, H, ps, d, m)
<1>1. CASE b.plan.host # Me
  BY <1>1 DEF OneHost
<1>2. CASE b.plan.host = Me
  <2>1. PICK g \in Groups : g = b.plan.grp
    OBVIOUS
  <2>2. /\ L[g] = <<>> /\ NoOwn(ps) /\ \A i \in 1 .. Len(H[g]) : H[g][i].host # Me
    BY <1>2, <2>1 DEF OneHost, OwnBlock
  <2>3. PICK n \in Nat : Fit(T[g], n) /\ Fill(b, m, n)
    BY <1>2, <2>1 DEF OneHost, OwnBlock
  <2>4. Len(b.nodes) <= n /\ Fill(d, m, n)
    BY <2>3 DEF Fill, Choosing
  <2>5. K[g] = <<e>> /\ \A h \in Groups \ {g} : K[h] = L[h]
    BY <1>2, <2>1, <2>2 DEF BlockLists
  <2>6. Fit(T[g], Len(e.nodes))
    <3>1. T[g] \in Seq(Entries) /\ Len(e.nodes) \in Nat
      BY LenProperties DEF Tables, Blocks
    <3> QED
      BY <2>3, <2>4, <3>1, FitLess
  <2>7. OwnList(K[g], H[g], T[g])
    <3>1. Len(<<e>>) = 1 /\ <<e>>[1] = e
      OBVIOUS
    <3>2. OwnList(L[g], H[g], T[g])
      BY DEF OneHost
    <3> QED
      BY <2>5, <2>6, <3>1, <3>2 DEF OwnList
  <2>8. \A h \in Groups : OwnList(K[h], H[h], T[h])
    BY <2>5, <2>7 DEF OneHost
  <2>9. OwnPlans(ps, K, H, T)
    BY <2>2 DEF OwnPlans, NoOwn
  <2>10. OwnBlock(d, m, K[g], H[g], T[g])
    BY <2>2, <2>3, <2>4 DEF OwnBlock
  <2> QED
    BY <2>1, <2>2, <2>8, <2>9, <2>10 DEF OneHost
<1> QED
  BY <1>1, <1>2

LEMMA HostListed ==
    ASSUME NEW T \in Tables, NEW L, NEW H \in BlockLists, NEW ps \in Seq(Plans), NEW b, NEW d, NEW m,
           OneHost(T, L, H, ps, b, m), b # None, b.pc = "enter", b.k = 1, b.plan.grp \in Groups,
           d.plan = b.plan, d.pc = "enter", d.k = 2, d.nodes = b.nodes,
           NEW e \in Blocks, e.nodes = b.nodes, e.host = b.plan.host, NEW K,
           K = [H EXCEPT ![b.plan.grp] = Append(@, e)]
    PROVE  OneHost(T, L, K, ps, d, m)
<1>1. PICK g \in Groups : g = b.plan.grp
  OBVIOUS
<1>2. H[g] \in Seq(Blocks) /\ K[g] = Append(H[g], e) /\ \A h \in Groups \ {g} : K[h] = H[h]
  BY <1>1 DEF BlockLists
<1>3. PICK x : x = H[g]
  OBVIOUS
<1>4. PICK n \in Nat : n = Len(x)
  BY <1>2, <1>3, LenProperties
<1>5. /\ Len(K[g]) = n + 1 /\ K[g][n + 1] = e /\ \A i \in 1 .. n : K[g][i] = x[i]
  BY <1>2, <1>3, <1>4, AppendProperties
<1>6. \A i \in 1 .. n + 1 : i \in 1 .. n \/ i = n + 1
  OBVIOUS
<1>7. CASE b.plan.host # Me
  <2>1. \A i \in 1 .. Len(K[g]) : K[g][i].host = Me => i \in 1 .. n
    BY <1>5, <1>6, <1>7
  <2>2. OwnList(L[g], x, T[g])
    BY <1>3 DEF OneHost
  <2>3. OwnList(L[g], K[g], T[g])
    BY <1>4, <1>5, <2>1, <2>2 DEF OwnList
  <2>4. \A h \in Groups : OwnList(L[h], K[h], T[h])
    BY <1>2, <2>3 DEF OneHost
  <2>5. \A h \in Groups : Free(L[h], H[h]) => Free(L[h], K[h])
    <3>1. Free(L[g], x) => Free(L[g], K[g])
      BY <1>4, <1>5, <2>1 DEF Free
    <3> QED
      BY <1>2, <1>3, <3>1
  <2>6. \A i \in 1 .. Len(ps) : ps[i].grp \in Groups
    <3>1. \A i \in 1 .. Len(ps) : ps[i] \in Plans
      BY ElementOfSeq
    <3> QED
      BY <3>1, PlanFields
  <2>7. OwnPlans(ps, L, K, T)
    BY <2>5, <2>6 DEF OneHost, OwnPlans, OwnPlan
  <2> QED
    BY <1>7, <2>4, <2>7 DEF OneHost
<1>8. CASE b.plan.host = Me
  <2>1. NoOwn(ps) /\ \A i \in 1 .. n : x[i].host # Me
    BY <1>1, <1>3, <1>4, <1>8 DEF OneHost, OwnBlock
  <2>2. PICK s \in Nat : Fit(T[g], s) /\ Fill(b, m, s)
    BY <1>1, <1>8 DEF OneHost, OwnBlock
  <2>3. Len(b.nodes) <= s /\ Fill(d, m, s)
    BY <2>2 DEF Fill, Choosing
  <2>4. Fit(T[g], Len(e.nodes))
    <3>1. T[g] \in Seq(Entries) /\ Len(e.nodes) \in Nat
      BY LenProperties DEF Tables, Blocks
    <3> QED
      BY <2>2, <2>3, <3>1, FitLess
  <2>5. \A i \in 1 .. Len(K[g]) : K[g][i].host = Me => i = n + 1 /\ K[g][i] = e
    BY <1>5, <1>6, <2>1
  <2>6. OwnList(L[g], K[g], T[g])
    <3>1. OwnList(L[g], x, T[g])
      BY <1>3 DEF OneHost
    <3> QED
      BY <2>4, <2>5, <3>1 DEF OwnList
  <2>7. \A h \in Groups : OwnList(L[h], K[h], T[h])
    BY <1>2, <2>6 DEF OneHost
  <2>8. OwnPlans(ps, L, K, T)
    BY <2>1 DEF OwnPlans, NoOwn
  <2>9. OwnBlock(d, m, L[g], K[g], T[g])
    BY <2>2, <2>3 DEF OwnBlock
  <2> QED
    BY <1>1, <2>1, <2>7, <2>8, <2>9 DEF OneHost
<1> QED
  BY <1>7, <1>8

(* A line is read: what it declares here is new. *)
Unique(s) == \A i, j \in 1 .. Len(s) : s[i].host = s[j].host => i = j

NewHere(ps, s, t, g) ==
    /\ \A i \in 1 .. Len(ps) : ps[i].host = Me =>
          /\ ps[i].grp = g
          /\ \E j \in 1 .. Len(t) : ~(j <= Len(s)) /\ t[j].host = Me /\ PlanFill(ps[i], t[j].nb)
    /\ \A i, j \in 1 .. Len(ps) : ps[i].host = Me /\ ps[j].host = Me => i = j

LEMMA HostRead ==
    ASSUME NEW T \in Tables, NEW U \in Tables, \A h \in Groups : Begins(T[h], U[h]),
           NEW L \in BlockLists, NEW H, NEW m \in Nat, NEW e, e = <<>>, NEW z, z = None,
           OneHost(T, L, H, e, z, m),
           NEW g \in Groups, Unique(U[g]), NEW ps \in Seq(Plans),
           NewHere(ps, T[g], U[g], g)
    PROVE  OneHost(U, L, H, ps, z, m)
<1>1. OneHost(U, L, H, e, z, m)
  <2>1. e \in Seq(Plans)
    BY EmptySeq
  <2> QED
    BY <2>1, HostMoved
<1>2. T[g] \in Seq(Entries) /\ U[g] \in Seq(Entries) /\ L[g] \in Seq(Blocks)
      /\ Len(T[g]) \in Nat /\ Len(U[g]) \in Nat
  BY LenProperties DEF Tables, BlockLists
<1>3. ASSUME NEW i \in 1 .. Len(ps), ps[i].host = Me
      PROVE  OwnPlan(ps[i], L[g], H[g], U[g]) /\ ps[i].grp = g
  <2>1. PICK j \in 1 .. Len(U[g]) : /\ ~(j <= Len(T[g])) /\ U[g][j].host = Me
                                    /\ PlanFill(ps[i], U[g][j].nb)
    BY <1>3 DEF NewHere
  <2>2. ASSUME NEW n, Fit(T[g], n) PROVE FALSE
    <3>1. PICK k \in 1 .. Len(T[g]) : T[g][k].host = Me
      BY <2>2 DEF Fit
    <3>2. k \in 1 .. Len(U[g]) /\ U[g][k] = T[g][k] /\ k # j
      BY <1>2, <2>1, <3>1 DEF Begins
    <3> QED
      BY <2>1, <3>1, <3>2 DEF Unique
  <2>3. OwnList(L[g], H[g], T[g])
    BY DEF OneHost
  <2>4. L[g] = <<>>
    BY <2>2, <2>3 DEF OwnList
  <2>5. \A k \in 1 .. Len(H[g]) : H[g][k].host # Me
    BY <2>2, <2>3 DEF OwnList
  <2>6. U[g][j].nb \in Nat
    <3>1. U[g][j] \in Entries
      BY <1>2, ElementOfSeq
    <3> QED
      BY <3>1 DEF Entries
  <2>7. Fit(U[g], U[g][j].nb)
    BY <2>1, <2>6 DEF Fit
  <2> QED
    BY <1>3, <2>1, <2>4, <2>5, <2>6, <2>7 DEF OwnPlan, Free, NewHere
<1>4. OwnPlans(ps, L, H, U)
  BY <1>3 DEF OwnPlans, NewHere
<1> QED
  BY <1>1, <1>4 DEF OneHost

-----------------------------------------------------------------------------
(* What is here, as the text is read.                                      *)
LEMMA SameText ==
    ASSUME script' = script
    PROVE  Declared' = Declared
BY DEF Declared, Announced

LEMMA HereParts ==
    ASSUME Shape
    PROVE  /\ script \in Seq(Statements) /\ pos \in 0 .. Len(script) /\ Len(script) \in Nat
           /\ Declared[pos] \in Tables /\ hosts \in BlockLists /\ local_hosts \in BlockLists
           /\ plans \in Seq(Plans) /\ nbThreads \in Nat
           /\ block # None => Sound(block) /\ Built(block) /\ block.plan \in Plans /\ block.plan.grp \in Groups
<1>1. /\ script \in Seq(Statements) /\ pos \in 0 .. Len(script) /\ hosts \in BlockLists
      /\ local_hosts \in BlockLists /\ plans \in Seq(Plans) /\ nbThreads \in Nat
  BY LenProperties DEF Shape, Text, Lists, BlockLists, Array
<1>2. Declared[pos] \in Tables /\ Len(script) \in Nat
  BY <1>1, DeclaredType, LenProperties
<1>3. block # None =>
         Sound(block) /\ Built(block) /\ block.plan \in Plans /\ block.plan.grp \in Groups
  BY BlockFields DEF Shape, Sound
<1> QED
  BY <1>1, <1>2, <1>3

LEMMA HereGrown ==
    ASSUME Shape, Shape', script' = script, pos <= pos'
    PROVE  /\ Declared[pos] \in Tables /\ Declared'[pos'] \in Tables
           /\ \A g \in Groups : Begins(Declared[pos][g], Declared'[pos'][g])
<1>1. script \in Seq(Statements) /\ Declared' = Declared
  BY HereParts, SameText
<1>2. PICK n \in 0 .. Len(script), m \in 0 .. Len(script) : n = pos /\ m = pos' /\ n <= m
  BY DEF Shape, Text
<1>3. /\ Declared[n] \in Tables /\ Declared[m] \in Tables
      /\ \A g \in Groups : Begins(Declared[n][g], Declared[m][g])
  BY <1>1, <1>2, DeclaredType, DeclaredGrows
<1> QED
  BY <1>1, <1>2, <1>3

LEMMA StartedOneHere == InitGrowth => OneHere
<1> SUFFICES ASSUME InitGrowth PROVE OneHere
  OBVIOUS
<1>1. /\ local_hosts = [g \in Groups |-> <<>>] /\ hosts = [g \in Groups |-> <<>>]
      /\ plans = <<>> /\ block = None /\ Len(<<>>) = 0
  BY EmptySeq DEF InitGrowth
<1>2. \A g \in Groups : OwnList(local_hosts[g], hosts[g], Declared[pos][g])
  BY <1>1 DEF OwnList
<1> QED
  BY <1>1, <1>2 DEF OneHere, OneHost, OwnPlans

LEMMA OneByText ==
    ASSUME script \in Seq(Statements), OneBlock, NEW n \in 0 .. Len(script), NEW g \in Groups
    PROVE  Unique(Declared[n][g])
<1>1. PICK m \in Nat : m = Len(script)
  BY LenProperties
<1>2. n \in 0 .. m /\ m \in 0 .. m /\ n <= m
  BY <1>1
<1>3. PICK s \in Seq(Entries), t \in Seq(Entries) :
         s = Declared[n][g] /\ t = Declared[m][g] /\ Begins(s, t)
  BY <1>1, <1>2, DeclaredGrows
<1>4. PICK a \in Nat, b \in Nat : a = Len(s) /\ b = Len(t) /\ a <= b
  BY <1>3, LenProperties DEF Begins
<1>5. \A i \in 1 .. a : i \in 1 .. b /\ t[i] = s[i]
  BY <1>3, <1>4 DEF Begins
<1>6. DOMAIN t = 1 .. b
  BY <1>3, <1>4, LenProperties
<1>7. \A i, j \in 1 .. b : t[i].host = t[j].host => i = j
  BY <1>1, <1>3, <1>6 DEF OneBlock
<1> QED
  BY <1>3, <1>4, <1>5, <1>7 DEF Unique

LEMMA LeastGrows ==
    ASSUME NEW limit \in Nat \cup {-1}, NEW a \in Nat, NEW b \in Nat, a <= b
    PROVE  Least(limit, a) <= Least(limit, b)
<1>1. CASE limit = -1
  BY <1>1 DEF Least
<1>2. CASE limit # -1
  <2>1. limit \in Nat
    BY <1>2
  <2>2. Least(limit, a) = Min({limit, a}) /\ Least(limit, b) = Min({limit, b})
    BY <1>2 DEF Least
  <2> QED
    BY <2>1, <2>2, LeastOf
<1> QED
  BY <1>1, <1>2

(* What is not of the block or the text leaves it alone.                   *)
LEMMA HereMoved ==
    ASSUME Shape, Shape', OneHere, script' = script, pos <= pos',
           UNCHANGED <<hosts, local_hosts>>,
           \/ UNCHANGED <<plans, block>> /\ (block = None \/ nbThreads' <= nbThreads)
           \/ block' = None /\ plans' = <<>> /\ nbThreads' = nbThreads
    PROVE  OneHere'
<1>1. PICK T \in Tables, U \in Tables : /\ T = Declared[pos] /\ U = Declared'[pos']
                                        /\ \A g \in Groups : Begins(T[g], U[g])
  BY HereGrown
<1>2. PICK L, H, ps, b, m : /\ L = local_hosts /\ H = hosts /\ ps = plans /\ b = block
                            /\ m = nbThreads /\ m \in Nat
  BY HereParts
<1>3. PICK q \in Nat : q = nbThreads'
  BY LenProperties DEF Shape, Array
<1>4. OneHost(T, L, H, ps, b, m) /\ ps \in Seq(Plans) /\ (b # None => Sound(b))
  BY <1>1, <1>2, HereParts DEF OneHere
<1>5. CASE UNCHANGED <<plans, block>> /\ (block = None \/ nbThreads' <= nbThreads)
  <2>1. OneHost(U, L, H, ps, b, q)
    BY <1>1, <1>2, <1>3, <1>4, <1>5, HostMoved
  <2> QED
    BY <1>1, <1>2, <1>3, <1>5, <2>1, NowOne
<1>6. CASE block' = None /\ plans' = <<>> /\ nbThreads' = nbThreads
  <2>1. PICK e \in Seq(Plans), z \in {None} : e = <<>>
    BY EmptySeq
  <2>2. OneHost(T, L, H, e, z, m)
    BY <1>4, <2>1, HostDropped
  <2>3. OneHost(U, L, H, e, z, m)
    BY <1>1, <1>2, <2>1, <2>2, HostMoved
  <2> QED
    BY <1>1, <1>2, <1>6, <2>1, <2>3, NowOne
<1> QED
  BY <1>5, <1>6

(* A line that makes blocks.                                               *)
LEMMA HereRead ==
    ASSUME Shape, Shape', OneBlock, OneHere, Ready, pos' = pos + 1,
           UNCHANGED <<script, hosts, local_hosts, block, nbThreads>>,
           NEW g \in Groups, NewHere(plans', Declared[pos][g], Declared[pos + 1][g], g)
    PROVE  OneHere'
<1>1. pos \in Nat /\ pos <= pos' /\ Declared' = Declared
  BY HereParts, SameText
<1>2. PICK T \in Tables, U \in Tables : /\ T = Declared[pos] /\ U = Declared'[pos']
                                        /\ \A h \in Groups : Begins(T[h], U[h])
  BY <1>1, HereGrown
<1>3. PICK L, H, m : /\ L = local_hosts /\ H = hosts /\ m = nbThreads
                     /\ L \in BlockLists /\ m \in Nat
  BY HereParts
<1>4. PICK ps \in Seq(Plans) : ps = plans'
  BY DEF Shape
<1>5. OneHost(T, L, H, <<>>, None, m)
  BY <1>2, <1>3 DEF OneHere, Ready
<1>6. U = Declared[pos + 1] /\ pos + 1 \in 0 .. Len(script) /\ script \in Seq(Statements)
  BY <1>1, <1>2 DEF Shape, Text
<1>7. Unique(U[g])
  BY <1>6, OneByText
<1>8. OneHost(U, L, H, ps, None, m)
  <2>1. NewHere(ps, T[g], U[g], g)
    BY <1>2, <1>4, <1>6
  <2>3. PICK e, z : e = <<>> /\ z = None
    OBVIOUS
  <2>4. OneHost(T, L, H, e, z, m)
    BY <1>5, <2>3
  <2>5. OneHost(U, L, H, ps, z, m)
    BY <1>2, <1>3, <1>4, <1>7, <2>1, <2>3, <2>4, HostRead
  <2> QED
    BY <2>3, <2>5
<1>9. block' = None
  BY DEF Ready
<1> QED
  BY <1>2, <1>3, <1>4, <1>8, <1>9, NowOne

LEMMA HereAssign ==
    ASSUME Shape, Shape', OneBlock, OneHere, execute_statement_assign
    PROVE  OneHere'
<1> DEFINE p(s) == Plan(s.grp, s.host, Amount(s), s.thread)
<1>1. PICK s \in Statements, T \in Tables :
         /\ s = script[pos + 1] /\ T = Declared[pos] /\ s.op = "assign"
         /\ plans' = <<p(s)>> \/ plans' = <<>>
         /\ Ready /\ pos' = pos + 1 /\ UNCHANGED <<script, hosts, local_hosts, block, nbThreads>>
  BY HereParts, StatementRead DEF execute_statement_assign, Ready, array, lists, Shape
<1>2. s.grp \in Groups /\ s.host \in Hosts /\ Amount(s) \in Nat
  BY <1>1, StatementFields
<1>3. Declared[pos + 1] = Announced(T, s)
  <2>1. pos + 1 \in 1 .. Len(script) /\ (pos + 1) - 1 = pos
    BY <1>1, HereParts DEF Ready
  <2>2. script \in Seq(Statements)
    BY HereParts
  <2>3. Declared[pos + 1] = Announced(Declared[(pos + 1) - 1], script[pos + 1])
    BY <2>1, <2>2, DeclaredAt
  <2> QED
    BY <1>1, <2>1, <2>3
<1>4. PICK l \in Nat, e \in Entries : l = Len(T[s.grp]) /\ e = [host |-> s.host, nb |-> Amount(s)]
  BY <1>2, LenProperties DEF Entries, Tables
<1>5. Announced(T, s)[s.grp] = Append(T[s.grp], e) /\ T[s.grp] \in Seq(Entries)
  BY <1>1, <1>2, <1>4, AnnouncedIs DEF Tables
<1>6. PICK t : t = Declared[pos + 1][s.grp]
  OBVIOUS
<1>7. Len(t) = l + 1 /\ t[l + 1] = e
  BY <1>3, <1>4, <1>5, <1>6, AppendProperties
<1>8. p(s).grp = s.grp /\ p(s).host = s.host /\ PlanFill(p(s), Amount(s))
  BY <1>2 DEF Plan, PlanFill
<1> HIDE DEF p
<1>9. \A i \in 1 .. Len(plans') : i = 1 /\ plans'[i] = p(s)
  <2>1. CASE plans' = <<p(s)>>
    <3>1. PICK x : x = p(s)
      OBVIOUS
    <3>2. Len(<<x>>) = 1 /\ <<x>>[1] = x
      OBVIOUS
    <3> QED
      BY <2>1, <3>1, <3>2
  <2>2. CASE plans' = <<>>
    BY <2>2, EmptySeq
  <2> QED
    BY <1>1, <2>1, <2>2
<1>10. ASSUME NEW i \in 1 .. Len(plans'), plans'[i].host = Me
       PROVE  /\ plans'[i].grp = s.grp
              /\ \E j \in 1 .. Len(t) : /\ ~(j <= l) /\ t[j].host = Me
                                        /\ PlanFill(plans'[i], t[j].nb)
  <2>1. plans'[i] = p(s) /\ s.host = Me
    BY <1>8, <1>9, <1>10
  <2>2. e.host = Me /\ PlanFill(p(s), e.nb)
    BY <1>4, <1>8, <2>1
  <2>3. l + 1 \in 1 .. Len(t) /\ ~(l + 1 <= l)
    BY <1>7
  <2> QED
    BY <1>7, <1>8, <2>1, <2>2, <2>3
<1>11. PICK u : u = Declared[pos][s.grp] /\ Len(u) = l
  BY <1>1, <1>4
<1>12. NewHere(plans', u, t, s.grp)
  BY <1>9, <1>10, <1>11 DEF NewHere
<1>13. /\ Ready /\ pos' = pos + 1 /\ UNCHANGED <<script, hosts, local_hosts, block, nbThreads>>
  BY <1>1
<1> QED
  BY <1>2, <1>6, <1>11, <1>12, <1>13, HereRead

LEMMA LikeFill ==
    ASSUME NEW g \in Groups, NEW nodes \in Seq(Nodes)
    PROVE  /\ Like(g, nodes).grp = g /\ Like(g, nodes).host = Me
           /\ \A n : Len(nodes) <= n => PlanFill(Like(g, nodes), n)
<1>1. PICK l \in Nat : l = Len(nodes) /\ DOMAIN nodes = 1 .. l
  BY LenProperties
<1>2. PICK jobs : jobs = [i \in 1 .. l |-> [thread |-> nodes[i].thread, nb |-> 1]]
  OBVIOUS
<1>3. Like(g, nodes) = [grp |-> g, host |-> Me, same |-> TRUE, jobs |-> jobs] /\ Len(jobs) = l
  BY <1>1, <1>2 DEF Like
<1> QED
  BY <1>1, <1>3 DEF PlanFill

LEMMA HereSame ==
    ASSUME Shape, Shape', OneBlock, OneHere, assign_same_as
    PROVE  OneHere'
<1> DEFINE p(s, b) == IF Local(b.host) THEN Like(s.grp, FirstNodes(s.limit, b))
                      ELSE Plan(s.grp, b.host, Least(s.limit, b.nb), -1)
<1>1. PICK s \in Statements, T \in Tables :
         /\ s = script[pos + 1] /\ T = Declared[pos] /\ s.op = "same"
         /\ plans' = [i \in (IF Known(s.grp) /\ Known(s.ref) THEN DOMAIN hosts[s.ref] ELSE {}) |->
                         p(s, hosts[s.ref][i])]
         /\ Ready /\ pos' = pos + 1 /\ UNCHANGED <<script, hosts, local_hosts, block, nbThreads>>
  BY HereParts, StatementRead DEF assign_same_as, Ready, array, lists, Shape
<1>2. s.grp \in Groups /\ s.ref \in Groups /\ s.limit \in Nat \cup {-1}
  BY <1>1, StatementFields
<1>3. Declared[pos + 1] = Announced(T, s)
  <2>1. pos + 1 \in 1 .. Len(script) /\ (pos + 1) - 1 = pos
    BY <1>1, HereParts DEF Ready
  <2>2. script \in Seq(Statements)
    BY HereParts
  <2>3. Declared[pos + 1] = Announced(Declared[(pos + 1) - 1], script[pos + 1])
    BY <2>1, <2>2, DeclaredAt
  <2> QED
    BY <1>1, <2>1, <2>3
<1>4. PICK u \in Seq(Entries), v \in Seq(Entries), c \in Seq(Entries) :
         u = T[s.grp] /\ v = T[s.ref] /\ c = Copied(s, T[s.ref])
  BY <1>2, CopiedType DEF Tables
<1>5. PICK l \in Nat, r \in Nat : l = Len(u) /\ r = Len(v) /\ Len(c) = r
  BY <1>2, <1>4, CopiedType, LenProperties
<1>6. PICK t : t = Declared[pos + 1][s.grp]
  OBVIOUS
<1>7. t = u \o c
  <2>1. s.op = "same"
    BY <1>1
  <2>2. Announced(T, s)[s.grp] = T[s.grp] \o Copied(s, T[s.ref])
    BY <2>1, AnnouncedIs
  <2> QED
    BY <1>3, <1>4, <1>6, <2>2
<1>8. Len(t) = l + r /\ \A k \in 1 .. r : t[l + k] = c[k]
  <2>2. Len(t) = l + r /\ \A k \in 1 .. l + r : t[k] = IF k <= l THEN u[k] ELSE c[k - l]
    <3>1. /\ Len(u \o c) = Len(u) + Len(c)
          /\ \A k \in 1 .. Len(u) + Len(c) : (u \o c)[k] = IF k <= Len(u) THEN u[k] ELSE c[k - Len(u)]
      BY ConcatProperties
    <3> QED
      BY <1>5, <1>7, <3>1
  <2>3. ASSUME NEW k \in 1 .. r PROVE t[l + k] = c[k]
    <3>1. l + k \in 1 .. l + r /\ ~(l + k <= l) /\ (l + k) - l = k
      OBVIOUS
    <3> QED
      BY <2>2, <3>1
  <2> QED
    BY <2>2, <2>3
<1>9. PICK h \in Seq(Blocks) : h = hosts[s.ref]
  BY <1>2, HereParts DEF BlockLists
<1>10. PICK q \in Seq(Plans) : q = plans'
  BY DEF Shape
<1>11. \A i \in 1 .. Len(q) : i \in 1 .. Len(h) /\ h[i] \in Blocks /\ q[i] = p(s, h[i])
  <2>1. DOMAIN h = 1 .. Len(h) /\ DOMAIN q = 1 .. Len(q)
    BY LenProperties
  <2>2. \A i \in DOMAIN q : i \in DOMAIN h /\ q[i] = p(s, h[i])
    <3> HIDE DEF p
    <3> QED
      BY <1>1, <1>9, <1>10
  <2> QED
    BY <2>1, <2>2, ElementOfSeq
<1>12. OwnList(local_hosts[s.ref], h, v)
  BY <1>1, <1>2, <1>4, <1>9 DEF OneHere, OneHost
<1>13. ASSUME NEW i \in 1 .. Len(q), q[i].host = Me
       PROVE  /\ q[i].grp = s.grp /\ h[i].host = Me
              /\ \E j \in 1 .. Len(t) : ~(j <= l) /\ t[j].host = Me /\ PlanFill(q[i], t[j].nb)
  <2>1. PICK b \in Blocks : b = h[i] /\ q[i] = p(s, b) /\ i \in 1 .. Len(h)
    BY <1>11
  <2>2. b.host = Me
    BY <1>13, <2>1 DEF Plan, Local
  <2>3. PICK k \in 1 .. r : v[k].host = Me /\ Len(b.nodes) <= v[k].nb
    BY <1>5, <1>12, <2>1, <2>2 DEF OwnList, Fit
  <2>4. PICK nodes \in Seq(Nodes) : nodes = FirstNodes(s.limit, b) /\ Len(nodes) = Least(s.limit, b.nb)
    BY <1>1, <2>2, PlanLike DEF Local
  <2>5. q[i] = Like(s.grp, nodes)
    BY <2>1, <2>2, <2>4 DEF Local
  <2>6. b.nb = Len(b.nodes) /\ b.nb \in Nat /\ v[k].nb \in Nat
    <3>1. v[k] \in Entries
      BY <1>5, ElementOfSeq
    <3> QED
      BY <2>2, <3>1 DEF Blocks, Local, Entries
  <2>7. c[k].host = Me /\ c[k].nb = Least(s.limit, v[k].nb)
    BY <1>2, <1>4, <1>5, <2>3, CopiedType
  <2>8. Len(nodes) <= c[k].nb
    BY <1>2, <2>3, <2>4, <2>6, <2>7, LeastGrows
  <2>9. PlanFill(q[i], c[k].nb) /\ q[i].grp = s.grp
    BY <1>2, <2>5, <2>8, LikeFill
  <2>10. l + k \in 1 .. Len(t) /\ ~(l + k <= l)
    BY <1>8
  <2> QED
    BY <1>8, <2>1, <2>2, <2>7, <2>9, <2>10
<1>14. \A i, j \in 1 .. Len(q) : q[i].host = Me /\ q[j].host = Me => i = j
  BY <1>11, <1>12, <1>13 DEF OwnList
<1> HIDE DEF p
<1>15. u = Declared[pos][s.grp]
  BY <1>1, <1>4
<1>16. NewHere(plans', u, t, s.grp)
  BY <1>5, <1>10, <1>13, <1>14 DEF NewHere
<1>17. /\ Ready /\ pos' = pos + 1 /\ UNCHANGED <<script, hosts, local_hosts, block, nbThreads>>
  BY <1>1
<1> QED
  BY <1>2, <1>6, <1>15, <1>16, <1>17, HereRead

(* A block is begun, worked on, entered and done. *)
LEMMA HereStays ==
    ASSUME NEW T, NEW L, NEW H, NEW ps, NEW b, NEW m, OneHost(T, L, H, ps, b, m),
           UNCHANGED <<script, pos>>, T = Declared[pos],
           L = local_hosts', H = hosts', ps = plans', b = block', m = nbThreads'
    PROVE  OneHere'
<1>1. Declared' = Declared
  BY SameText
<1>2. T = Declared'[pos']
  BY <1>1
<1> QED
  BY <1>2, NowOne

LEMMA HereNew ==
    ASSUME Shape, OneHere, NewBlock
    PROVE  OneHere'
<1>1. PICK T, L, H, ps, m : /\ T = Declared[pos] /\ L = local_hosts /\ H = hosts /\ ps = plans
                            /\ m = nbThreads /\ ps \in Seq(Plans)
  BY HereParts
<1>2. PICK d, z : d = block' /\ z = None
  OBVIOUS
<1>3. /\ block = None /\ ps # <<>> /\ plans' = Tail(ps) /\ d.plan = Head(ps) /\ d.k = 0
  BY <1>1, <1>2, NewBlockBuilt
<1>4. UNCHANGED <<script, pos, hosts, local_hosts, nbThreads>>
  BY DEF NewBlock, array, lists
<1>5. OneHost(T, L, H, ps, z, m)
  BY <1>1, <1>2, <1>3 DEF OneHere
<1>6. ASSUME d.plan.host = Me, NEW n \in Nat, PlanFill(Head(ps), n)
      PROVE  Fill(d, m, n)
  <2>1. Local(Head(plans).host) /\ PlanFill(Head(plans), n)
    BY <1>1, <1>3, <1>6 DEF Local
  <2> QED
    BY <1>1, <1>2, <2>1, FillNew
<1>7. OneHost(T, L, H, Tail(ps), d, m)
  <2>1. d.plan.host = Me => \A n \in Nat : PlanFill(Head(ps), n) => Fill(d, m, n)
    BY <1>6
  <2>2. OneHost(T, L, H, ps, None, m)
    BY <1>2, <1>5
  <2> QED
    BY <1>1, <1>3, <2>1, <2>2, HostTaken
<1> QED
  BY <1>1, <1>2, <1>3, <1>4, <1>7, HereStays

LEMMA HereWorked ==
    ASSUME Shape, OneHere, block # None, block'.plan = block.plan,
           UNCHANGED <<script, pos, plans, hosts, local_hosts, nbThreads>>,
           block.pc # "enter" \/ block.k = 2,
           block'.pc # "enter" \/ block'.k = 0 => block.pc # "enter",
           block'.pc # "enter" \/ block'.k \in {0, 1} => block.pc # "enter",
           \A n \in Nat : Fill(block, nbThreads, n) => Fill(block', nbThreads, n)
    PROVE  OneHere'
<1>1. PICK T, L, H, ps, m : /\ T = Declared[pos] /\ L = local_hosts /\ H = hosts /\ ps = plans
                            /\ m = nbThreads
  OBVIOUS
<1>2. PICK b, d : b = block /\ d = block'
  OBVIOUS
<1>3. OneHost(T, L, H, ps, b, m)
  BY <1>1, <1>2 DEF OneHere
<1>4. OneHost(T, L, H, ps, d, m)
  BY <1>1, <1>2, <1>3, HostWorked
<1> QED
  BY <1>1, <1>2, <1>4, HereStays

LEMMA HereAtWork ==
    ASSUME Shape, OneHere,
           threads_get_lightest \/ Share \/ NextJob \/ Lock \/ instantiate_node \/ NoSuchClass \/ Unlock
    PROVE  OneHere'
<1>1. UNCHANGED <<script, pos, plans, hosts, local_hosts, nbThreads>>
  BY DEF threads_get_lightest, Share, NextJob, Lock, instantiate_node, NoSuchClass, Unlock,
         reading, array, lists
<1>2. block # None /\ block'.plan = block.plan
  BY LightestBuilt, ShareBuilt, NextJobBuilt, LockBuilt, MadeOne, SkippedOne, UnlockBuilt
<1>3. block.pc # "enter"
  BY LightestBuilt, ShareBuilt, NextJobBuilt, LockBuilt, MadeOne, SkippedOne, UnlockBuilt
<1>4. ASSUME NEW n \in Nat, Fill(block, nbThreads, n) PROVE Fill(block', nbThreads, n)
  BY <1>4, FillLightest, FillShare, FillNext, FillLock, FillMade, FillSkip, FillUnlock
<1> QED
  BY <1>1, <1>2, <1>3, <1>4, HereWorked

LEMMA HereEntered ==
    ASSUME Shape, OneHere, add_host
    PROVE  OneHere'
<1>1. PICK T \in Tables, L \in BlockLists, H \in BlockLists, ps \in Seq(Plans) :
         T = Declared[pos] /\ L = local_hosts /\ H = hosts /\ ps = plans
  BY HereParts
<1>2. PICK b, d, m, e : /\ b = block /\ d = block' /\ m = nbThreads /\ e = MadeBlock
                        /\ e \in Blocks /\ e.nodes = b.nodes /\ e.host = b.plan.host
  BY AddHostBuilt, MadeBlockIs
<1>3. /\ b # None /\ b.pc = "enter" /\ b.plan.grp \in Groups /\ d.plan = b.plan /\ d.pc = "enter"
      /\ d.k = b.k + 1 /\ d.nodes = b.nodes /\ AddHostIs(b.plan.grp)
  BY <1>2, AddHostBuilt
<1>4. UNCHANGED <<script, pos, plans, nbThreads>>
  BY DEF add_host, reading, array
<1>5. OneHost(T, L, H, ps, b, m)
  BY <1>1, <1>2 DEF OneHere
<1>6. CASE b.k = 0
  <2>1. PICK K : K = local_hosts'
    OBVIOUS
  <2>2. /\ K = IF b.plan.host = Me THEN [L EXCEPT ![b.plan.grp] = Append(@, e)] ELSE L
        /\ hosts' = H /\ d.k = 1
    BY <1>1, <1>2, <1>3, <1>6, <2>1 DEF AddHostIs, Local
  <2>3. OneHost(T, K, H, ps, d, m)
    BY <1>2, <1>3, <1>5, <1>6, <2>2, HostLocal
  <2> QED
    BY <1>1, <1>2, <1>4, <2>1, <2>2, <2>3, HereStays
<1>7. CASE b.k = 1
  <2>1. PICK K : K = hosts'
    OBVIOUS
  <2>2. K = [H EXCEPT ![b.plan.grp] = Append(@, e)] /\ local_hosts' = L /\ d.k = 2
    BY <1>1, <1>2, <1>3, <1>7, <2>1 DEF AddHostIs
  <2>3. OneHost(T, L, K, ps, d, m)
    BY <1>1, <1>2, <1>3, <1>5, <1>7, <2>2, HostListed
  <2> QED
    BY <1>1, <1>2, <1>4, <2>1, <2>2, <2>3, HereStays
<1>8. CASE b.k = 2
  <2>1. UNCHANGED <<hosts, local_hosts>> /\ d.k = 3
    BY <1>2, <1>3, <1>8 DEF AddHostIs
  <2>2. ASSUME NEW n \in Nat, Fill(b, m, n) PROVE Fill(d, m, n)
    BY <1>3, <2>2 DEF Fill, Choosing
  <2> QED
    BY <1>2, <1>3, <1>4, <1>8, <2>1, <2>2, HereWorked
<1> QED
  BY <1>2, <1>3, <1>6, <1>7, <1>8 DEF AddHostIs

LEMMA OneHereStep ==
    ASSUME Shape, Shape', OneBlock, OneHere, NextGrowth
    PROVE  OneHere'
<1>1. CASE execute_statement_declare_host \/ execute_statement_add_group \/ agml_threads_start
  <2>1. /\ Ready /\ pos' = pos + 1 /\ UNCHANGED <<script, plans, hosts, local_hosts, block>>
    BY <1>1 DEF execute_statement_declare_host, execute_statement_add_group, agml_threads_start, lists
  <2>2. pos \in Nat /\ pos <= pos' /\ block = None
    BY <2>1, HereParts DEF Ready
  <2> QED
    BY <2>1, <2>2, HereMoved
<1>2. CASE Others
  <2>1. UNCHANGED <<script, pos, plans, hosts, local_hosts, block>> /\ nbThreads' <= nbThreads
    BY <1>2, OthersOnly, ShapeOthers DEF reading, lists
  <2>2. pos <= pos'
    BY <2>1, HereParts
  <2> QED
    BY <2>1, <2>2, HereMoved
<1>3. CASE InitThrows
  <2>1. UNCHANGED <<script, hosts, local_hosts, nbThreads>> /\ block' = None /\ plans' = <<>>
    BY <1>3 DEF InitThrows, array
  <2>2. pos <= pos'
    BY <1>3, ThrownIs, HereParts
  <2> QED
    BY <2>1, <2>2, HereMoved
<1>4. CASE BlockDone
  <2>1. UNCHANGED <<script, pos, plans, hosts, local_hosts, nbThreads>> /\ block' = None
    BY <1>4 DEF BlockDone, reading, array, lists
  <2>2. PICK T, L, H, ps, m, b, z : /\ T = Declared[pos] /\ L = local_hosts /\ H = hosts /\ ps = plans
                                    /\ m = nbThreads /\ b = block /\ z = None
    OBVIOUS
  <2>3. OneHost(T, L, H, ps, b, m)
    BY <2>2 DEF OneHere
  <2>4. OneHost(T, L, H, ps, z, m)
    BY <2>2, <2>3, HostDropped
  <2> QED
    BY <2>1, <2>2, <2>4, HereStays
<1> QED
  BY <1>1, <1>2, <1>3, <1>4, HereAssign, HereSame, HereNew, HereAtWork, HereEntered
  DEF NextGrowth, Reader

-----------------------------------------------------------------------------
(* Infos on the way.                                                       *)
EntryOf(l) == [i \in DOMAIN l |-> [j \in DOMAIN l[i].nodes |-> l[i].nodes[j].id]]
IsEntry(x, l) == x = <<>> \/ x = EntryOf(l)

Named(u) ==
    \A g \in DOMAIN u : g \in Groups /\ Declares(script, pos, g) /\ IsEntry(u[g], local_hosts[g])

DumpAs(w, t, s, r, o) ==
    [pc |-> "dump", write |-> w, todo |-> t, size |-> s, room |-> r, out |-> o]

Dumps ==
    upd.pc = "dump" =>
        \E w, s, r, o : \E t \in Seq(Groups) :
            /\ upd = DumpAs(w, t, s, r, o) /\ Named(o)
            /\ \A i \in 1 .. Len(t) : Declares(script, pos, t[i])

Sent == \E S : chan \in Seq(S) /\ \A u \in S : Named(u)

(* What Root has of the first block here.                                  *)
KnownAs(x, n, l) ==
    /\ DOMAIN x = 1 .. n
    /\ \A k \in 1 .. n :
          x[k] = Zero \/ (l # <<>> /\ k \in 1 .. Len(l[1].nodes) /\ x[k] = l[1].nodes[k].id)

Keeps ==
    /\ DOMAIN remote_infos = Groups
    /\ \A g \in Groups :
          \/ remote_infos[g] = <<>>
          \/ \E i \in DOMAIN RootHosts[g] :
                FirstHere(g, i) /\ KnownAs(remote_infos[g], RootHosts[g][i].nb, local_hosts[g])

Survives == lost # "range" /\ (lost \in {"no group", "no block"} => rpos < pos)

Reads ==
    /\ rpos \in 0 .. Len(script)
    /\ groups \in Seq(Groups) /\ \A i \in 1 .. Len(groups) : Declares(script, pos, groups[i])

InfosInv == Reads /\ (OneBlock => OneHere /\ Dumps /\ Sent /\ Keeps /\ Survives)

(* What others see of the groups only grows.                               *)
Grows ==
    /\ script' = script /\ pos <= pos'
    /\ \A g \in Groups : local_hosts[g] = <<>> \/ local_hosts'[g] = local_hosts[g]

LEMMA StartedInfos == Init => InfosInv
<1> SUFFICES ASSUME Init PROVE InfosInv
  OBVIOUS
<1>1. OneHere /\ script \in Seq(Statements)
  BY StartedOneHere, ConstantsAssumption DEF Init, InitGrowth
<1>2. Reads
  <2>1. Len(script) \in Nat /\ Len(<<>>) = 0
    BY <1>1, LenProperties
  <2> QED
    BY <2>1, EmptySeq DEF Reads, Init, InitGrowth
<1>3. Dumps /\ Sent /\ Survives
  <2>1. <<>> \in Seq({}) /\ \A u \in {} : Named(u)
    BY EmptySeq
  <2> QED
    BY <2>1 DEF Dumps, Sent, Survives, Init
<1>4. Keeps
  BY DEF Keeps, Init
<1> QED
  BY <1>1, <1>2, <1>3, <1>4 DEF InfosInv

LEMMA DeclaresKept ==
    ASSUME script' = script, pos <= pos', pos \in Nat, pos' \in Nat, NEW g, Declares(script, pos, g)
    PROVE  Declares(script, pos, g)'
<1>1. PICK i \in 1 .. pos : script[i].op = "group" /\ script[i].grp = g
  BY DEF Declares
<1>2. i \in 1 .. pos' /\ script' = script
  OBVIOUS
<1> QED
  BY <1>1, <1>2 DEF Declares

LEMMA EntryKept ==
    ASSUME Grows, NEW g \in Groups, NEW x, IsEntry(x, local_hosts[g])
    PROVE  IsEntry(x, local_hosts[g])'
<1>1. CASE local_hosts'[g] = local_hosts[g]
  BY <1>1 DEF IsEntry, EntryOf
<1>2. CASE local_hosts[g] = <<>>
  <2>1. EntryOf(<<>>) = <<>>
    BY DEF EntryOf
  <2>2. x = <<>>
    BY <1>2, <2>1 DEF IsEntry
  <2> QED
    BY <2>2 DEF IsEntry
<1> QED
  BY <1>1, <1>2 DEF Grows

LEMMA NamedKept ==
    ASSUME Grows, pos \in Nat, pos' \in Nat, NEW u, Named(u)
    PROVE  Named(u)'
<1> SUFFICES ASSUME NEW g \in DOMAIN u
             PROVE  g \in Groups /\ Declares(script, pos, g)' /\ IsEntry(u[g], local_hosts[g])'
  BY DEF Named
<1>1. g \in Groups /\ Declares(script, pos, g) /\ IsEntry(u[g], local_hosts[g])
  BY DEF Named
<1> QED
  BY <1>1, DeclaresKept, EntryKept DEF Grows

LEMMA KnownKept ==
    ASSUME Grows, NEW g \in Groups, NEW x, NEW n, KnownAs(x, n, local_hosts[g])
    PROVE  KnownAs(x, n, local_hosts[g])'
BY DEF Grows, KnownAs

(* Reading on leaves the first block where it is.                          *)
LEMMA FirstKept ==
    ASSUME Shape, NEW n \in 0 .. Len(script), n = rpos, NEW m \in 0 .. Len(script), m = rpos', n <= m,
           script' = script, NEW g \in Groups, NEW i \in DOMAIN RootHosts[g], FirstHere(g, i)
    PROVE  /\ i \in DOMAIN RootHosts'[g] /\ FirstHere(g, i)'
           /\ RootHosts'[g][i] = RootHosts[g][i]
<1>1. PICK s \in Seq(Entries), t \in Seq(Entries) :
         s = Declared[n][g] /\ t = Declared[m][g] /\ Begins(s, t)
  BY HereParts, DeclaredGrows
<1>2. RootHosts[g] = s /\ RootHosts'[g] = t
  BY <1>1, SameText DEF RootHosts
<1>3. PICK a \in Nat, b \in Nat : a = Len(s) /\ b = Len(t) /\ a <= b /\ DOMAIN s = 1 .. a /\ DOMAIN t = 1 .. b
  BY <1>1, LenProperties DEF Begins
<1>4. i \in 1 .. a /\ i \in 1 .. b /\ \A j \in 1 .. i - 1 : j \in 1 .. a
  BY <1>2, <1>3
<1>5. \A j \in 1 .. a : t[j] = s[j]
  BY <1>1, <1>3 DEF Begins
<1>6. s[i].host = Me /\ \A j \in 1 .. i - 1 : s[j].host # Me
  BY <1>2 DEF FirstHere
<1>7. t[i] = s[i] /\ t[i].host = Me /\ \A j \in 1 .. i - 1 : t[j].host # Me
  BY <1>4, <1>5, <1>6
<1>8. i \in DOMAIN t
  BY <1>3, <1>4
<1> QED
  BY <1>2, <1>7, <1>8 DEF FirstHere

LEMMA KeepsKept ==
    ASSUME Shape, Keeps, Grows, rpos \in 0 .. Len(script), rpos' \in 0 .. Len(script), rpos <= rpos',
           remote_infos' = remote_infos
    PROVE  Keeps'
<1> SUFFICES ASSUME NEW g \in Groups
             PROVE  \/ remote_infos'[g] = <<>>
                    \/ \E i \in DOMAIN RootHosts'[g] :
                          FirstHere(g, i)' /\ KnownAs(remote_infos'[g], RootHosts'[g][i].nb, local_hosts'[g])
  BY DEF Keeps
<1>1. CASE remote_infos[g] = <<>>
  BY <1>1
<1>2. CASE remote_infos[g] # <<>>
  <2>1. PICK i \in DOMAIN RootHosts[g] :
           FirstHere(g, i) /\ KnownAs(remote_infos[g], RootHosts[g][i].nb, local_hosts[g])
    BY <1>2 DEF Keeps
  <2>2. PICK n \in 0 .. Len(script), m \in 0 .. Len(script) : n = rpos /\ m = rpos' /\ n <= m
    OBVIOUS
  <2>3. /\ i \in DOMAIN RootHosts'[g] /\ FirstHere(g, i)' /\ RootHosts'[g][i] = RootHosts[g][i]
    BY <2>1, <2>2, FirstKept DEF Grows
  <2>4. PICK x, k : x = remote_infos[g] /\ k = RootHosts[g][i].nb
    OBVIOUS
  <2>5. KnownAs(x, k, local_hosts[g])'
    BY <2>1, <2>4, KnownKept
  <2>6. KnownAs(remote_infos'[g], RootHosts'[g][i].nb, local_hosts'[g])
    BY <2>3, <2>4, <2>5 DEF KnownAs
  <2> QED
    BY <2>3, <2>6
<1> QED
  BY <1>1, <1>2

LEMMA GroupsKept ==
    ASSUME Reads, script' = script, pos <= pos', pos \in Nat, pos' \in Nat, groups' = groups,
           rpos' \in 0 .. Len(script)
    PROVE  Reads'
BY DeclaresKept DEF Reads

(* The nodes are made while infos are under way.                           *)
LEMMA TextGrows ==
    ASSUME Shape, Shape', NextGrowth
    PROVE  script' = script /\ pos \in Nat /\ pos' \in Nat /\ pos <= pos'
<1>1. pos \in Nat /\ pos' \in Nat
  BY DEF Shape, Text
<1>2. CASE InitThrows
  <2>1. script' = script
    BY <1>2 DEF InitThrows
  <2> QED
    BY <1>1, <1>2, <2>1, ThrownIs
<1>3. CASE Others
  BY <1>1, <1>3, OthersOnly DEF reading
<1>4. ASSUME NextGrowth, ~InitThrows, ~Others
      PROVE  script' = script /\ (pos' = pos \/ pos' = pos + 1)
  BY <1>4 DEF NextGrowth, Reader, reading, execute_statement_declare_host,
     execute_statement_add_group, execute_statement_assign, assign_same_as, agml_threads_start,
     NewBlock, threads_get_lightest, Share, NextJob, Lock, instantiate_node, NoSuchClass, Unlock,
     add_host, BlockDone
<1> QED
  BY <1>1, <1>2, <1>3, <1>4

LEMMA LocalGrows ==
    ASSUME Shape, Shape', OneHere', NextGrowth
    PROVE  Grows
<1>1. script' = script /\ pos <= pos'
  BY TextGrows
<1>2. CASE ~add_host
  <2>1. Others => local_hosts' = local_hosts
    BY OthersOnly DEF lists
  <2>2. ~Others => local_hosts' = local_hosts
    BY <1>2 DEF NextGrowth, Reader, lists, execute_statement_declare_host,
       execute_statement_add_group, execute_statement_assign, assign_same_as, agml_threads_start,
       NewBlock, threads_get_lightest, Share, NextJob, Lock, instantiate_node, NoSuchClass,
       InitThrows, Unlock, BlockDone
  <2>3. local_hosts' = local_hosts
    BY <2>1, <2>2
  <2> QED
    BY <1>1, <2>3 DEF Grows
<1>3. CASE add_host
  <2>1. AddHostIs(block.plan.grp) /\ MadeBlock \in Blocks /\ block # None
    BY <1>3, AddHostBuilt, MadeBlockIs
  <2>2. local_hosts' = local_hosts
        \/ local_hosts' = [local_hosts EXCEPT ![block.plan.grp] = Append(@, MadeBlock)]
    BY <2>1 DEF AddHostIs
  <2>3. ASSUME NEW g \in Groups, local_hosts'[g] # local_hosts[g] PROVE local_hosts[g] = <<>>
    <3>1. local_hosts[g] \in Seq(Blocks) /\ local_hosts \in [Groups -> Seq(Blocks)]
      BY DEF Shape, Lists
    <3>2. local_hosts'[g] = Append(local_hosts[g], MadeBlock)
      BY <2>2, <2>3, <3>1
    <3>3. Len(local_hosts'[g]) = Len(local_hosts[g]) + 1
      BY <2>1, <3>1, <3>2, AppendProperties
    <3>4. Len(local_hosts'[g]) <= 1
      BY DEF OneHere, OneHost, OwnList
    <3>5. Len(local_hosts[g]) = 0
      BY <3>1, <3>3, <3>4, LenProperties
    <3> QED
      BY <3>1, <3>5, EmptySeq
  <2> QED
    BY <1>1, <2>3 DEF Grows
<1> QED
  BY <1>2, <1>3

(* The first block here, by the text.                                      *)
LEMMA FirstIs ==
    ASSUME Shape, rpos \in 0 .. Len(script), NEW g \in Groups, NEW i, FirstHere(g, i)
    PROVE  get_first_host(g) = i
<1>1. RootHosts[g] \in Seq(Entries)
  <2>1. PICK n \in 0 .. Len(script) : n = rpos
    OBVIOUS
  <2> QED
    BY <2>1, HereParts, DeclaredType DEF Tables, RootHosts
<1>2. PICK s \in Seq(Entries), m \in Nat : s = RootHosts[g] /\ m = Len(s) /\ DOMAIN s = 1 .. m
  BY <1>1, LenProperties
<1>3. ASSUME NEW a \in DOMAIN s, NEW b \in DOMAIN s, FirstHere(g, a), FirstHere(g, b)
      PROVE  ~(a < b)
  <2>1. a \in Nat /\ b \in Nat /\ 1 <= a
    BY <1>2
  <2>2. a < b => a \in 1 .. b - 1
    BY <2>1
  <2>3. s[a].host = Me /\ \A j \in 1 .. b - 1 : s[j].host # Me
    BY <1>2, <1>3 DEF FirstHere
  <2> QED
    BY <2>2, <2>3
<1>4. ASSUME NEW a \in DOMAIN s, FirstHere(g, a) PROVE a = i
  <2>1. i \in DOMAIN s
    BY <1>2 DEF FirstHere
  <2>2. ~(a < i) /\ ~(i < a)
    BY <1>3, <1>4, <2>1
  <2>3. a \in Nat /\ i \in Nat
    BY <1>2, <2>1
  <2> QED
    BY <2>2, <2>3
<1>5. i \in DOMAIN s
  BY <1>2 DEF FirstHere
<1>6. get_first_host(g) = CHOOSE a \in DOMAIN s : FirstHere(g, a)
  BY <1>2 DEF get_first_host
<1> QED
  BY <1>4, <1>5, <1>6

LEMMA FirstExists ==
    ASSUME Shape, rpos \in 0 .. Len(script), NEW g \in Groups,
           NEW k \in 1 .. Len(RootHosts[g]), RootHosts[g][k].host = Me
    PROVE  \E i \in DOMAIN RootHosts[g] : FirstHere(g, i)
<1>1. RootHosts[g] \in Seq(Entries)
  <2>1. PICK n \in 0 .. Len(script) : n = rpos
    OBVIOUS
  <2> QED
    BY <2>1, HereParts, DeclaredType DEF Tables, RootHosts
<1>2. PICK s \in Seq(Entries), m \in Nat : s = RootHosts[g] /\ m = Len(s) /\ DOMAIN s = 1 .. m
  BY <1>1, LenProperties
<1> DEFINE T == {a \in 1 .. m : s[a].host = Me}
<1>3. T \subseteq Nat /\ k \in T
  BY <1>2
<1>4. PICK a \in T : \A b \in T : a <= b
  <2> HIDE DEF T
  <2> QED
    BY <1>3, LeastNumber
<1>5. a \in 1 .. m /\ s[a].host = Me
  OBVIOUS
<1>6. ASSUME NEW j \in 1 .. a - 1 PROVE s[j].host # Me
  <2>1. j \in 1 .. m /\ ~(a <= j)
    BY <1>2, <1>5
  <2>2. j \notin T
    BY <1>4, <2>1
  <2> QED
    BY <2>1, <2>2
<1>7. a \in DOMAIN RootHosts[g]
  BY <1>2, <1>5
<1> QED
  BY <1>2, <1>5, <1>6, <1>7 DEF FirstHere

LEMMA SameSize ==
    ASSUME Shape, OneBlock, rpos \in 0 .. Len(script), NEW g \in Groups,
           NEW k \in 1 .. Len(Declared[pos][g]), Declared[pos][g][k].host = Me,
           NEW i, FirstHere(g, i)
    PROVE  Declared[pos][g][k].nb = RootHosts[g][i].nb
<1>1. PICK m \in Nat, n \in Nat, r \in Nat :
         m = Len(script) /\ n = pos /\ r = rpos /\ n <= m /\ r <= m
  BY HereParts
<1>2. m \in 0 .. m /\ n <= m /\ r <= m /\ m \in 0 .. Len(script) /\ n \in 0 .. Len(script) /\ r \in 0 .. Len(script)
  BY <1>1
<1>3. PICK s \in Seq(Entries), t \in Seq(Entries) :
         s = Declared[n][g] /\ t = Declared[m][g] /\ Begins(s, t)
  BY <1>2, HereParts, DeclaredGrows
<1>4. PICK u \in Seq(Entries) : u = Declared[r][g] /\ Begins(u, t)
  BY <1>2, <1>3, HereParts, DeclaredGrows
<1>5. PICK a \in Nat, b \in Nat, c \in Nat :
         /\ a = Len(s) /\ b = Len(t) /\ c = Len(u) /\ a <= b /\ c <= b /\ DOMAIN u = 1 .. c
  <2>1. Len(s) \in Nat /\ Len(t) \in Nat /\ Len(u) \in Nat /\ DOMAIN u = 1 .. Len(u)
    BY LenProperties
  <2>2. Len(s) <= Len(t) /\ Len(u) <= Len(t)
    BY <1>3, <1>4 DEF Begins
  <2> QED
    BY <2>1, <2>2
<1>6. k \in 1 .. a /\ i \in 1 .. c /\ u[i].host = Me /\ u[i].nb = RootHosts[g][i].nb
  <2>1. u = RootHosts[g]
    BY <1>1, <1>4 DEF RootHosts
  <2>2. k \in 1 .. a
    BY <1>1, <1>3, <1>5
  <2>3. i \in DOMAIN u /\ u[i].host = Me
    BY <2>1 DEF FirstHere
  <2> QED
    BY <1>5, <2>1, <2>2, <2>3
<1>7. t[k] = s[k] /\ t[i] = u[i]
  BY <1>3, <1>4, <1>5, <1>6 DEF Begins
<1>8. k \in 1 .. b /\ i \in 1 .. b
  BY <1>5, <1>6
<1>9. t[k].host = t[i].host
  BY <1>1, <1>3, <1>6, <1>7
<1>10. k = i
  <2>1. Unique(Declared[m][g])
    BY <1>2, HereParts, OneByText
  <2> QED
    BY <1>3, <1>5, <1>8, <1>9, <2>1 DEF Unique
<1> QED
  BY <1>1, <1>3, <1>6, <1>7, <1>10

(* An entry that is not empty is that of the one block here.               *)
IsOwn(x, l, t) ==
    \E b, e, k :
        /\ b \in Blocks /\ l = <<b>> /\ x = <<e>>
        /\ Len(e) = Len(b.nodes) /\ \A j \in 1 .. Len(b.nodes) : e[j] = b.nodes[j].id
        /\ k \in 1 .. Len(t) /\ t[k].host = Me /\ Len(b.nodes) <= t[k].nb

LEMMA OneEntry ==
    ASSUME Shape, OneHere, NEW g \in Groups, NEW x, x # <<>>, IsEntry(x, local_hosts[g])
    PROVE  IsOwn(x, local_hosts[g], Declared[pos][g])
<1>1. PICK l \in Seq(Blocks) : l = local_hosts[g] /\ x = EntryOf(l)
  BY DEF Shape, Lists, IsEntry
<1>2. l # <<>>
  <2>1. EntryOf(<<>>) = <<>>
    BY DEF EntryOf
  <2> QED
    BY <1>1, <2>1
<1>3. PICK h, t : h = hosts[g] /\ t = Declared[pos][g] /\ OwnList(l, h, t)
  BY <1>1 DEF OneHere, OneHost
<1>4. Len(l) = 1
  <2>1. Len(l) \in Nat /\ Len(l) # 0
    BY <1>2, LenProperties, EmptySeq
  <2>2. Len(l) <= 1
    BY <1>3 DEF OwnList
  <2>3. \A y \in Nat : y # 0 /\ y <= 1 => y = 1
    OBVIOUS
  <2> QED
    BY <2>1, <2>2, <2>3
<1>5. PICK b \in Blocks : b = l[1]
  BY <1>4, ElementOfSeq
<1>6. l = <<b>>
  BY <1>4, <1>5, LenProperties
<1>7. PICK e : e = [j \in DOMAIN b.nodes |-> b.nodes[j].id]
  OBVIOUS
<1>8. EntryOf(l) = <<e>>
  <2>1. DOMAIN l = {1}
    BY <1>4, LenProperties
  <2>2. <<e>> = [i \in {1} |-> e]
    OBVIOUS
  <2> QED
    BY <1>5, <1>7, <2>1, <2>2 DEF EntryOf
<1>9. b.nodes \in Seq(Nodes)
  BY DEF Blocks
<1>10. Len(e) = Len(b.nodes) /\ \A j \in 1 .. Len(b.nodes) : e[j] = b.nodes[j].id
  BY <1>7, <1>9, LenProperties
<1>11. PICK k \in 1 .. Len(t) : t[k].host = Me /\ Len(l[1].nodes) <= t[k].nb
  BY <1>2, <1>3 DEF OwnList, Fit
<1> QED
  BY <1>1, <1>3, <1>5, <1>6, <1>8, <1>10, <1>11 DEF IsOwn

(* Root stores an update.                                                  *)
Stands(x, g) ==
    x = <<>> \/ \E i \in DOMAIN RootHosts[g] : FirstHere(g, i) /\ KnownAs(x, RootHosts[g][i].nb, local_hosts[g])

LEMMA StoredStands ==
    ASSUME Shape, OneHere, rpos \in 0 .. Len(script), NEW g \in Groups, NEW old, Stands(old, g),
           NEW x, IsEntry(x, local_hosts[g]),
           x # <<>> => \E i \in DOMAIN RootHosts[g] : FirstHere(g, i)
    PROVE  Stands(Stored(g, old, x), g)
<1>1. CASE x = <<>>
  <2>1. Stored(g, old, x) = old
    BY <1>1 DEF Stored
  <2> QED
    BY <2>1
<1>2. CASE x # <<>>
  <2>1. PICK i \in DOMAIN RootHosts[g] : FirstHere(g, i)
    BY <1>2
  <2>2. PICK m : m = RootHosts[g][i].nb /\ m = Room(g)
    BY <2>1, FirstIs DEF Room
  <2>3. PICK l : l = local_hosts[g]
    OBVIOUS
  <2>4. PICK b, e, k :
           /\ b \in Blocks /\ l = <<b>> /\ x = <<e>>
           /\ Len(e) = Len(b.nodes) /\ \A j \in 1 .. Len(b.nodes) : e[j] = b.nodes[j].id
    <3>1. IsOwn(x, l, Declared[pos][g])
      BY <1>2, <2>3, OneEntry
    <3> QED
      BY <3>1 DEF IsOwn
  <2>5. PICK n \in Nat : n = Len(b.nodes)
    <3>1. b.nodes \in Seq(Nodes)
      BY <2>4 DEF Blocks
    <3> QED
      BY <3>1, LenProperties
  <2>6. old = <<>> \/ KnownAs(old, m, l)
    <3>1. ASSUME NEW j \in DOMAIN RootHosts[g], FirstHere(g, j), KnownAs(old, RootHosts[g][j].nb, l)
          PROVE  KnownAs(old, m, l)
      <4>1. j = i
        BY <2>1, <3>1, FirstIs
      <4> QED
        BY <2>2, <3>1, <4>1
    <3> QED
      BY <2>3, <3>1 DEF Stands
  <2>7. DOMAIN x = {1} /\ x[1] = e
    BY <2>4
  <2>8. CASE n = 0
    <3>1. \A j \in DOMAIN x : Len(x[j]) = 0
      BY <2>4, <2>5, <2>7, <2>8
    <3>2. Stored(g, old, x) = old
      BY <3>1 DEF Stored
    <3> QED
      BY <3>2
  <2>9. CASE n # 0
    <3> DEFINE new == [a \in 1 .. m |-> IF a <= n THEN e[a] ELSE IF old = <<>> THEN Zero ELSE old[a]]
    <3>1. Stored(g, old, x) = new
      <4>1. ~ \A j \in DOMAIN x : Len(x[j]) = 0
        BY <2>4, <2>5, <2>7, <2>9
      <4>2. ASSUME NEW y \in 1 .. m, NEW w, w = {j \in DOMAIN x : y <= Len(x[j])}
            PROVE  (IF w # {} THEN x[Max(w)][y] ELSE IF old = <<>> THEN Zero ELSE old[y])
                   = IF y <= n THEN e[y] ELSE IF old = <<>> THEN Zero ELSE old[y]
        <5>1. w = IF y <= n THEN {1} ELSE {}
          BY <2>4, <2>5, <2>7, <4>2
        <5>2. Max({1}) = 1
          BY DEF Max
        <5> QED
          BY <2>7, <5>1, <5>2
      <4> QED
        BY <2>2, <4>1, <4>2 DEF Stored
    <3>2. KnownAs(new, m, l)
      <4>1. DOMAIN new = 1 .. m
        OBVIOUS
      <4>2. ASSUME NEW y \in 1 .. m
            PROVE  new[y] = Zero \/ (l # <<>> /\ y \in 1 .. Len(l[1].nodes) /\ new[y] = l[1].nodes[y].id)
        <5>1. new[y] = IF y <= n THEN e[y] ELSE IF old = <<>> THEN Zero ELSE old[y]
          OBVIOUS
        <5>2. l # <<>> /\ l[1] = b
          BY <2>4
        <5> HIDE DEF new
        <5>3. CASE y <= n
          <6>1. y \in 1 .. n
            BY <5>3
          <6> QED
            BY <2>4, <2>5, <5>1, <5>2, <5>3, <6>1
        <5>4. CASE ~(y <= n) /\ old # <<>>
          <6>1. new[y] = old[y] /\ KnownAs(old, m, l)
            BY <2>6, <5>1, <5>4
          <6> QED
            BY <6>1 DEF KnownAs
        <5>5. CASE ~(y <= n) /\ old = <<>>
          BY <5>1, <5>5
        <5> QED
          BY <5>3, <5>4, <5>5
      <4> HIDE DEF new
      <4> QED
        BY <4>1, <4>2 DEF KnownAs
    <3> HIDE DEF new
    <3> QED
      BY <2>1, <2>2, <2>3, <3>1, <3>2 DEF Stands
  <2> QED
    BY <2>8, <2>9
<1> QED
  BY <1>1, <1>2

(* A name is unknown to Root only if it lags behind, and no entry is longer *)
(* than the array it goes to.                                              *)
LEMMA UnknownLags ==
    ASSUME Shape, Reads, NEW u, Named(u), NEW g \in DOMAIN u, Unknown(u, g)
    PROVE  rpos < pos
<1>1. pos \in Nat /\ rpos \in Nat
  BY DEF Shape, Text, Reads
<1>2. PICK i \in 1 .. pos : script[i].op = "group" /\ script[i].grp = g
  BY DEF Named, Declares
<1>3. i \notin 1 .. rpos
  BY <1>2 DEF Unknown, RootGroups
<1> QED
  BY <1>1, <1>2, <1>3

LEMMA NoBlockLags ==
    ASSUME Shape, Reads, OneHere, NEW u, Named(u), NEW g \in DOMAIN u, NoBlock(u, g)
    PROVE  rpos < pos
<1>1. pos \in Nat /\ rpos \in Nat
  BY DEF Shape, Text, Reads
<1>2. g \in Groups /\ u[g] # <<>> /\ IsEntry(u[g], local_hosts[g])
  BY DEF Named, NoBlock
<1>3. PICK k : k \in 1 .. Len(Declared[pos][g]) /\ Declared[pos][g][k].host = Me
  BY <1>2, OneEntry DEF IsOwn
<1>4. SUFFICES ASSUME pos <= rpos PROVE FALSE
  BY <1>1
<1>5. PICK n \in 0 .. Len(script), r \in 0 .. Len(script) : n = pos /\ r = rpos /\ n <= r
  BY <1>4 DEF Shape, Text, Reads
<1>6. PICK s \in Seq(Entries), t \in Seq(Entries) :
         s = Declared[n][g] /\ t = Declared[r][g] /\ Begins(s, t)
  BY <1>2, <1>5, HereParts, DeclaredGrows
<1>7. k \in 1 .. Len(s) /\ s[k].host = Me
  BY <1>3, <1>5, <1>6
<1>8. k \in 1 .. Len(t) /\ t[k].host = Me
  <2>1. Len(s) \in Nat /\ Len(t) \in Nat /\ Len(s) <= Len(t)
    BY <1>6, LenProperties DEF Begins
  <2>2. t[k] = s[k]
    BY <1>6, <1>7 DEF Begins
  <2> QED
    BY <1>7, <2>1, <2>2
<1>9. RootHosts[g] = t
  BY <1>5, <1>6 DEF RootHosts
<1>10. \E i \in DOMAIN RootHosts[g] : FirstHere(g, i)
  BY <1>2, <1>8, <1>9, FirstExists DEF Reads
<1> QED
  BY <1>10 DEF NoBlock

LEMMA NeverTooLong ==
    ASSUME Shape, Reads, OneBlock, OneHere, NEW u, Named(u), NEW g \in DOMAIN u, ~NoBlock(u, g)
    PROVE  ~TooLong(u, g)
<1>1. SUFFICES ASSUME NEW a \in DOMAIN u[g], Len(u[g][a]) > Room(g) PROVE FALSE
  BY DEF TooLong
<1>2. g \in Groups /\ u[g] # <<>> /\ IsEntry(u[g], local_hosts[g])
  BY <1>1 DEF Named
<1>3. PICK b, e, k :
         /\ b \in Blocks /\ u[g] = <<e>> /\ Len(e) = Len(b.nodes)
         /\ k \in 1 .. Len(Declared[pos][g]) /\ Declared[pos][g][k].host = Me
         /\ Len(b.nodes) <= Declared[pos][g][k].nb
  <2>1. IsOwn(u[g], local_hosts[g], Declared[pos][g])
    BY <1>2, OneEntry
  <2> QED
    BY <2>1 DEF IsOwn
<1>4. PICK i \in DOMAIN RootHosts[g] : FirstHere(g, i)
  BY <1>2 DEF NoBlock
<1>5. Room(g) = RootHosts[g][i].nb
  BY <1>2, <1>4, FirstIs DEF Reads, Room
<1>6. Declared[pos][g][k].nb = RootHosts[g][i].nb
  BY <1>2, <1>3, <1>4, SameSize DEF Reads
<1>7. PICK s \in Seq(Entries) : s = Declared[pos][g]
  BY <1>2, HereParts DEF Tables
<1>8. PICK x \in Nat, y \in Nat : x = Len(b.nodes) /\ y = s[k].nb
  <2>1. b.nodes \in Seq(Nodes) /\ s[k] \in Entries
    BY <1>3, <1>7, ElementOfSeq DEF Blocks
  <2> QED
    BY <2>1, LenProperties DEF Entries
<1>9. x <= y /\ x > y
  <2>1. a = 1 /\ u[g][1] = e
    BY <1>1, <1>3
  <2> QED
    BY <1>1, <1>3, <1>5, <1>6, <1>7, <1>8, <2>1
<1> QED
  BY <1>8, <1>9

-----------------------------------------------------------------------------
(* Each step of infos keeps what they say true.                            *)
LEMMA SameOneBlock ==
    ASSUME script' = script
    PROVE  OneBlock' <=> OneBlock
<1>1. Declared' = Declared
  BY SameText
<1> QED
  BY <1>1 DEF OneBlock

LEMMA StoodStill ==
    ASSUME Shape, UNCHANGED growth
    PROVE  /\ Grows /\ script' = script /\ pos <= pos' /\ pos \in Nat /\ pos' \in Nat /\ groups' = groups
           /\ OneHere => OneHere'
<1>1. UNCHANGED <<script, pos, groups, local_hosts, hosts, plans, block, nbThreads>>
  BY DEF growth, reading, lists, array
<1>2. pos \in Nat /\ pos <= pos'
  BY <1>1 DEF Shape, Text
<1>3. Declared' = Declared
  BY <1>1, SameText
<1> QED
  BY <1>1, <1>2, <1>3 DEF Grows, OneHere

LEMMA DumpsKept ==
    ASSUME Grows, pos \in Nat, pos' \in Nat, Dumps, upd' = upd
    PROVE  Dumps'
<1> SUFFICES ASSUME upd'.pc = "dump"
             PROVE  \E w, s, r, o : \E t \in Seq(Groups) :
                        /\ upd' = DumpAs(w, t, s, r, o) /\ Named(o)'
                        /\ \A i \in 1 .. Len(t) : Declares(script, pos, t[i])'
  BY DEF Dumps
<1>1. PICK w, s, r, o, t :
         /\ t \in Seq(Groups) /\ upd = DumpAs(w, t, s, r, o) /\ Named(o)
         /\ \A i \in 1 .. Len(t) : Declares(script, pos, t[i])
  BY DEF Dumps
<1>2. Named(o)'
  BY <1>1, NamedKept
<1>3. \A i \in 1 .. Len(t) : Declares(script, pos, t[i])'
  BY <1>1, DeclaresKept DEF Grows
<1> QED
  BY <1>1, <1>2, <1>3

LEMMA SentKept ==
    ASSUME Grows, pos \in Nat, pos' \in Nat, Sent, chan' = chan
    PROVE  Sent'
<1>1. PICK S : chan \in Seq(S) /\ \A u \in S : Named(u)
  BY DEF Sent
<1>2. \A u \in S : Named(u)'
  BY <1>1, NamedKept
<1> QED
  BY <1>1, <1>2 DEF Sent

LEMMA SurvivesKept ==
    ASSUME lost' \notin {"range", "no group", "no block"}
    PROVE  Survives'
BY DEF Survives

(* The nodes are made, or Root reads, while infos are where they were.     *)
LEMMA ReadsStep ==
    ASSUME Shape, Shape', Reads, NextGrowth, rpos' = rpos
    PROVE  Reads'
<1>1. script' = script /\ pos \in Nat /\ pos' \in Nat /\ pos <= pos'
  BY TextGrows
<1>2. CASE groups' = groups
  BY <1>1, <1>2, GroupsKept DEF Reads
<1>3. CASE execute_statement_add_group
  <2>1. PICK g : g = script[pos + 1].grp
    OBVIOUS
  <2>2. pos' = pos + 1 /\ script[pos + 1].op = "group" /\ groups' = Append(groups, g) /\ pos < Len(script)
    BY <1>3, <2>1 DEF execute_statement_add_group, Ready
  <2>3. g \in Groups
    <3>1. script \in Seq(Statements) /\ Len(script) \in Nat
      BY LenProperties DEF Shape, Text
    <3>2. pos + 1 \in 1 .. Len(script)
      BY <1>1, <2>2, <3>1
    <3>3. script[pos + 1] \in Statements
      BY <3>1, <3>2, ElementOfSeq
    <3> QED
      BY <2>1, <2>2, <3>3, StatementFields
  <2>4. PICK n \in Nat : groups \in Seq(Groups) /\ n = Len(groups)
    BY LenProperties DEF Reads
  <2>5. /\ groups' \in Seq(Groups) /\ Len(groups') = n + 1 /\ groups'[n + 1] = g
        /\ \A i \in 1 .. n : groups'[i] = groups[i]
    BY <2>2, <2>3, <2>4, AppendProperties
  <2>6. Declares(script, pos, g)'
    <3>1. pos + 1 \in 1 .. pos'
      BY <1>1, <2>2
    <3> QED
      BY <1>1, <2>1, <2>2, <3>1 DEF Declares
  <2>7. ASSUME NEW i \in 1 .. n + 1 PROVE Declares(script, pos, groups[i])'
    <3>1. CASE i = n + 1
      BY <2>5, <2>6, <3>1 DEF Declares
    <3>2. CASE i # n + 1
      <4>1. i \in 1 .. n
        BY <3>2
      <4>2. PICK h : h = groups[i] /\ h = groups'[i]
        BY <2>5, <4>1
      <4>3. Declares(script, pos, h)
        BY <2>4, <4>1, <4>2 DEF Reads
      <4>4. Declares(script, pos, h)'
        BY <1>1, <4>3, DeclaresKept
      <4> QED
        BY <4>2, <4>4 DEF Declares
    <3> QED
      BY <3>1, <3>2
  <2> QED
    BY <1>1, <2>5, <2>7 DEF Reads
<1>4. groups' = groups \/ execute_statement_add_group
  <2>1. CASE Others
    BY <2>1, OthersOnly DEF reading
  <2>2. CASE ~Others
    BY <2>2 DEF NextGrowth, Reader, reading, execute_statement_declare_host,
       execute_statement_assign, assign_same_as, agml_threads_start, NewBlock, threads_get_lightest,
       Share, NextJob, Lock, instantiate_node, NoSuchClass, InitThrows, Unlock, add_host, BlockDone
  <2> QED
    BY <2>1, <2>2
<1> QED
  BY <1>2, <1>3, <1>4

LEMMA MadeStep ==
    ASSUME Shape, Shape', InfosInv, Running, NextGrowth, UNCHANGED infos
    PROVE  InfosInv'
<1>1. script' = script /\ pos \in Nat /\ pos' \in Nat /\ pos <= pos'
  BY TextGrows
<1>2. rpos' = rpos /\ remote_infos' = remote_infos /\ upd' = upd /\ chan' = chan /\ lost' = "no"
  BY DEF infos, Running
<1>3. Reads'
  BY <1>2, ReadsStep DEF InfosInv
<1>4. ASSUME OneBlock PROVE OneHere' /\ Dumps' /\ Sent' /\ Keeps' /\ Survives'
  <2>1. OneHere /\ Dumps /\ Sent /\ Keeps /\ Reads
    BY <1>4 DEF InfosInv
  <2>2. OneHere'
    BY <1>4, <2>1, OneHereStep
  <2>3. Grows
    BY <2>2, LocalGrows
  <2>4. rpos \in 0 .. Len(script) /\ rpos' \in 0 .. Len(script) /\ rpos <= rpos'
    BY <1>2, <2>1 DEF Reads
  <2>5. Dumps' /\ Sent'
    BY <1>1, <1>2, <2>1, <2>3, DumpsKept, SentKept
  <2>6. Keeps'
    BY <1>2, <2>1, <2>3, <2>4, KeepsKept
  <2> QED
    BY <1>2, <2>2, <2>5, <2>6, SurvivesKept
<1> QED
  BY <1>1, <1>3, <1>4, SameOneBlock DEF InfosInv

LEMMA RootStep ==
    ASSUME Shape, Shape', InfosInv, RootReads
    PROVE  InfosInv'
<1>1. /\ Grows /\ script' = script /\ pos <= pos' /\ pos \in Nat /\ pos' \in Nat /\ groups' = groups
      /\ OneHere => OneHere'
  BY StoodStill DEF RootReads
<1>2. rpos' = rpos + 1 /\ rpos < Len(script) /\ UNCHANGED <<remote_infos, upd, chan>> /\ lost' = "no"
  BY DEF RootReads, Running
<1>3. rpos \in 0 .. Len(script) /\ rpos' \in 0 .. Len(script) /\ rpos <= rpos'
  <2>1. script \in Seq(Statements) /\ Len(script) \in Nat /\ rpos \in 0 .. Len(script)
    BY LenProperties DEF Shape, Text, InfosInv, Reads
  <2> QED
    BY <1>2, <2>1
<1>4. Reads'
  BY <1>1, <1>3, GroupsKept DEF InfosInv
<1>5. ASSUME OneBlock PROVE OneHere' /\ Dumps' /\ Sent' /\ Keeps' /\ Survives'
  <2>1. OneHere /\ Dumps /\ Sent /\ Keeps
    BY <1>5 DEF InfosInv
  <2>2. Dumps' /\ Sent' /\ Keeps'
    BY <1>1, <1>2, <1>3, <2>1, DumpsKept, SentKept, KeepsKept
  <2> QED
    BY <1>1, <1>2, <2>1, <2>2, SurvivesKept
<1> QED
  BY <1>1, <1>4, <1>5, SameOneBlock DEF InfosInv

LEMMA RootStays ==
    ASSUME Shape, rpos \in 0 .. Len(script), rpos' = rpos
    PROVE  rpos' \in 0 .. Len(script) /\ rpos <= rpos'
BY HereParts

(* The update thread dumps and sends.                                      *)
LEMMA DumpStep ==
    ASSUME Shape, Shape', InfosInv, UNCHANGED growth, rpos' = rpos, remote_infos' = remote_infos,
           lost' \notin {"range", "no group", "no block"},
           OneBlock /\ Reads /\ Dumps /\ Sent => Dumps' /\ Sent'
    PROVE  InfosInv'
<1>1. /\ Grows /\ script' = script /\ pos <= pos' /\ pos \in Nat /\ pos' \in Nat /\ groups' = groups
      /\ OneHere => OneHere'
  BY StoodStill
<1>2. rpos \in 0 .. Len(script) /\ rpos' \in 0 .. Len(script) /\ rpos <= rpos'
  BY RootStays DEF InfosInv, Reads
<1>3. Reads'
  BY <1>1, <1>2, GroupsKept DEF InfosInv
<1>4. ASSUME OneBlock PROVE OneHere' /\ Dumps' /\ Sent' /\ Keeps' /\ Survives'
  <2>1. OneHere /\ Dumps /\ Sent /\ Keeps /\ Reads
    BY <1>4 DEF InfosInv
  <2>2. Keeps'
    BY <1>1, <1>2, <2>1, KeepsKept
  <2> QED
    BY <1>1, <1>4, <2>1, <2>2, SurvivesKept
<1> QED
  BY <1>1, <1>3, <1>4, SameOneBlock DEF InfosInv

LEMMA BeginStep ==
    ASSUME Shape, Shape', InfosInv, BeginDump
    PROVE  InfosInv'
<1>1. /\ UNCHANGED growth /\ rpos' = rpos /\ remote_infos' = remote_infos /\ chan' = chan
      /\ upd.pc = "rest" /\ lost' \notin {"range", "no group", "no block"}
      /\ upd' = upd \/ upd' = DumpAs(FALSE, groups, 0, 0, <<>>)
  BY DEF BeginDump, Running, DumpAs
<1>2. ASSUME OneBlock, Reads, Dumps, Sent PROVE Dumps' /\ Sent'
  <2>1. Grows /\ pos \in Nat /\ pos' \in Nat /\ groups' = groups /\ script' = script /\ pos <= pos'
    BY <1>1, StoodStill
  <2>2. Sent'
    BY <1>1, <1>2, <2>1, SentKept
  <2>3. CASE upd' = upd
    BY <1>2, <2>1, <2>2, <2>3, DumpsKept
  <2>4. CASE upd' = DumpAs(FALSE, groups, 0, 0, <<>>)
    <3>1. PICK t : t = groups
      OBVIOUS
    <3>2. t \in Seq(Groups) /\ \A i \in 1 .. Len(t) : Declares(script, pos, t[i])
      BY <1>2, <3>1 DEF Reads
    <3>3. \A i \in 1 .. Len(t) : Declares(script, pos, t[i])'
      BY <2>1, <3>2, DeclaresKept
    <3>4. Named(<<>>)'
      BY DEF Named
    <3>5. upd' = DumpAs(FALSE, t, 0, 0, <<>>)
      BY <2>4, <3>1
    <3> QED
      BY <2>2, <3>2, <3>3, <3>4, <3>5 DEF Dumps
  <2> QED
    BY <1>1, <2>3, <2>4
<1> QED
  BY <1>1, <1>2, DumpStep

LEMMA WriteStep ==
    ASSUME Shape, Shape', InfosInv, dump_local_infos
    PROVE  InfosInv'
<1>1. /\ UNCHANGED growth /\ rpos' = rpos /\ remote_infos' = remote_infos /\ chan' = chan
      /\ upd.pc = "dump" /\ upd.todo # <<>> /\ lost' \notin {"range", "no group", "no block"}
  BY DEF dump_local_infos, Running
<1>2. ASSUME OneBlock, Reads, Dumps, Sent PROVE Dumps' /\ Sent'
  <2>1. Grows /\ pos \in Nat /\ pos' \in Nat /\ script' = script /\ pos <= pos'
    BY <1>1, StoodStill
  <2>2. Sent'
    BY <1>1, <1>2, <2>1, SentKept
  <2>3. CASE upd' = upd
    BY <1>1, <1>2, <2>1, <2>2, <2>3, DumpsKept
  <2>4. CASE upd' # upd
    <3>1. PICK w, s, r, o, t :
             /\ t \in Seq(Groups) /\ upd = DumpAs(w, t, s, r, o) /\ Named(o)
             /\ \A i \in 1 .. Len(t) : Declares(script, pos, t[i])
      BY <1>1, <1>2 DEF Dumps
    <3>2. upd.todo = t /\ upd.out = o /\ t # <<>>
      BY <1>1, <3>1 DEF DumpAs
    <3>3. PICK g, q, v : g = Head(t) /\ q = Tail(t) /\ v = IF w THEN Written(o, g) ELSE o
      OBVIOUS
    <3>4. PICK n : upd' = DumpAs(w, q, n, r, v)
      BY <2>4, <3>1, <3>3 DEF dump_local_infos, DumpAs
    <3>5. /\ g \in Groups /\ Declares(script, pos, g)
          /\ q \in Seq(Groups) /\ \A i \in 1 .. Len(q) : Declares(script, pos, q[i])
      <4>1. PICK m \in Nat : m = Len(t) /\ m # 0
        BY <3>1, <3>2, LenProperties, EmptySeq
      <4>2. g = t[1] /\ 1 \in 1 .. m /\ g \in Groups
        BY <3>1, <3>2, <3>3, <4>1, HeadTailProperties, ElementOfSeq
      <4>3. q \in Seq(Groups) /\ Len(q) = m - 1 /\ \A i \in 1 .. Len(q) : q[i] = t[i + 1]
        BY <3>1, <3>2, <3>3, <4>1, HeadTailProperties
      <4>4. ASSUME NEW i \in 1 .. Len(q) PROVE Declares(script, pos, q[i])
        <5>1. i + 1 \in 1 .. m /\ q[i] = t[i + 1]
          BY <4>1, <4>3
        <5> QED
          BY <3>1, <4>1, <5>1
      <4> QED
        BY <3>1, <4>1, <4>2, <4>3, <4>4
    <3>6. Named(v)
      <4>1. CASE ~w
        BY <3>1, <3>3, <4>1
      <4>2. CASE w
        <5>1. Entry(g) = EntryOf(local_hosts[g])
          BY DEF Entry, EntryOf
        <5>2. v = [h \in DOMAIN o \cup {g} |-> IF h = g THEN Entry(g) ELSE o[h]]
          BY <3>3, <4>2 DEF Written
        <5>3. ASSUME NEW h \in DOMAIN v
              PROVE  h \in Groups /\ Declares(script, pos, h) /\ IsEntry(v[h], local_hosts[h])
          <6>1. CASE h = g
            <7>1. v[h] = EntryOf(local_hosts[h])
              BY <5>1, <5>2, <6>1
            <7> QED
              BY <3>5, <6>1, <7>1 DEF IsEntry
          <6>2. CASE h # g
            <7>1. h \in DOMAIN o /\ v[h] = o[h]
              BY <5>2, <5>3, <6>2
            <7> QED
              BY <3>1, <7>1 DEF Named
          <6> QED
            BY <6>1, <6>2
        <5> QED
          BY <5>3 DEF Named
      <4> QED
        BY <4>1, <4>2
    <3>7. Named(v)'
      BY <2>1, <3>6, NamedKept
    <3>8. \A i \in 1 .. Len(q) : Declares(script, pos, q[i])'
      BY <2>1, <3>5, DeclaresKept
    <3> QED
      BY <2>2, <3>4, <3>5, <3>7, <3>8 DEF Dumps
  <2> QED
    BY <2>3, <2>4
<1> QED
  BY <1>1, <1>2, DumpStep

LEMMA SecondStep ==
    ASSUME Shape, Shape', InfosInv, SecondPass
    PROVE  InfosInv'
<1>1. /\ UNCHANGED growth /\ rpos' = rpos /\ remote_infos' = remote_infos /\ chan' = chan
      /\ upd.pc = "dump" /\ lost' \notin {"range", "no group", "no block"}
      /\ upd' = [upd EXCEPT !.write = TRUE, !.todo = groups, !.room = upd.size, !.size = 0]
  BY DEF SecondPass, Running
<1>2. ASSUME OneBlock, Reads, Dumps, Sent PROVE Dumps' /\ Sent'
  <2>1. Grows /\ pos \in Nat /\ pos' \in Nat /\ script' = script /\ pos <= pos'
    BY <1>1, StoodStill
  <2>2. Sent'
    BY <1>1, <1>2, <2>1, SentKept
  <2>3. PICK w, s, r, o, t : upd = DumpAs(w, t, s, r, o) /\ Named(o)
    BY <1>1, <1>2 DEF Dumps
  <2>4. PICK q : q = groups
    OBVIOUS
  <2>5. upd' = DumpAs(TRUE, q, 0, s, o)
    BY <1>1, <2>3, <2>4 DEF DumpAs
  <2>6. q \in Seq(Groups) /\ \A i \in 1 .. Len(q) : Declares(script, pos, q[i])
    BY <1>2, <2>4 DEF Reads
  <2>7. Named(o)' /\ \A i \in 1 .. Len(q) : Declares(script, pos, q[i])'
    BY <2>1, <2>3, <2>6, NamedKept, DeclaresKept
  <2> QED
    BY <2>2, <2>5, <2>6, <2>7 DEF Dumps
<1> QED
  BY <1>1, <1>2, DumpStep

LEMMA SendStep ==
    ASSUME Shape, Shape', InfosInv, SendInfos
    PROVE  InfosInv'
<1>1. /\ UNCHANGED growth /\ rpos' = rpos /\ remote_infos' = remote_infos
      /\ upd.pc = "dump" /\ lost' \notin {"range", "no group", "no block"}
      /\ chan' = Append(chan, upd.out) /\ upd'.pc = "rest"
  BY DEF SendInfos, Running
<1>2. ASSUME OneBlock, Reads, Dumps, Sent PROVE Dumps' /\ Sent'
  <2>1. Grows /\ pos \in Nat /\ pos' \in Nat
    BY <1>1, StoodStill
  <2>2. PICK w, s, r, o, t : upd = DumpAs(w, t, s, r, o) /\ Named(o)
    BY <1>1, <1>2 DEF Dumps
  <2>3. upd.out = o
    BY <2>2 DEF DumpAs
  <2>4. PICK S : chan \in Seq(S) /\ \A u \in S : Named(u)
    BY <1>2 DEF Sent
  <2>5. PICK R : R = S \cup {o}
    OBVIOUS
  <2>6. chan' \in Seq(R)
    <3>1. chan \in Seq(R)
      <4>1. chan \in [1 .. Len(chan) -> S] /\ Len(chan) \in Nat
        BY <2>4, LenProperties
      <4>2. chan \in [1 .. Len(chan) -> R]
        BY <2>5, <4>1
      <4> QED
        BY <4>1, <4>2, SeqDef
    <3> QED
      BY <1>1, <2>3, <2>5, <3>1, AppendProperties
  <2>7. \A u \in R : Named(u)'
    BY <2>1, <2>2, <2>4, <2>5, NamedKept
  <2> QED
    BY <1>1, <2>6, <2>7 DEF Dumps, Sent
<1> QED
  BY <1>1, <1>2, DumpStep

LEMMA AskedStep ==
    ASSUME Shape, Shape', InfosInv, agml_command_do_start_infos
    PROVE  InfosInv'
<1>1. /\ UNCHANGED growth /\ rpos' = rpos /\ remote_infos' = remote_infos /\ chan' = chan
      /\ upd'.pc = "rest" /\ lost' \notin {"range", "no group", "no block"}
  BY DEF agml_command_do_start_infos, agml_infos_start_update_thread, Running
<1>2. ASSUME Sent PROVE Dumps' /\ Sent'
  <2>1. Grows /\ pos \in Nat /\ pos' \in Nat
    BY <1>1, StoodStill
  <2> QED
    BY <1>1, <1>2, <2>1, SentKept DEF Dumps
<1> QED
  BY <1>1, <1>2, DumpStep

LEMMA UpdateKeeps ==
    ASSUME Shape, Reads, OneBlock, OneHere, Keeps, UNCHANGED growth, rpos' = rpos,
           NEW u, Named(u), ~ \E g \in DOMAIN u : NoBlock(u, g), remote_infos' = update_infos(u)
    PROVE  Keeps'
<1>1. UNCHANGED <<script, local_hosts>>
  BY DEF growth, reading, lists
<1>2. RootHosts' = RootHosts
  BY <1>1, SameText DEF RootHosts
<1>3. rpos \in 0 .. Len(script)
  BY DEF Reads
<1>4. \A g \in Groups : Stands(remote_infos[g], g)
  BY DEF Keeps, Stands
<1>5. ASSUME NEW g \in Groups
      PROVE  Stands(remote_infos'[g], g)
  <2>1. remote_infos'[g] = IF g \in DOMAIN u THEN Stored(g, remote_infos[g], u[g]) ELSE remote_infos[g]
    BY DEF update_infos
  <2>2. CASE g \notin DOMAIN u
    BY <1>4, <2>1, <2>2
  <2>3. CASE g \in DOMAIN u
    <3>1. PICK x, old : x = u[g] /\ old = remote_infos[g]
      OBVIOUS
    <3>2. IsEntry(x, local_hosts[g])
      BY <2>3, <3>1 DEF Named
    <3>3. x # <<>> => \E i \in DOMAIN RootHosts[g] : FirstHere(g, i)
      BY <2>3, <3>1 DEF NoBlock
    <3>4. Stands(old, g)
      BY <1>4, <3>1
    <3>5. Stands(Stored(g, old, x), g)
      BY <1>3, <3>2, <3>3, <3>4, StoredStands
    <3> QED
      BY <2>1, <2>3, <3>1, <3>5
  <2> QED
    BY <2>2, <2>3
<1>6. \A g, i : FirstHere(g, i)' <=> FirstHere(g, i)
  BY <1>2 DEF FirstHere
<1>7. \A x, n, l : KnownAs(x, n, l)' <=> KnownAs(x, n, l)
  BY DEF KnownAs, Zero
<1>8. DOMAIN remote_infos' = Groups
  BY DEF update_infos
<1>9. ASSUME NEW g \in Groups
      PROVE  \/ remote_infos'[g] = <<>>
             \/ \E i \in DOMAIN RootHosts'[g] :
                   FirstHere(g, i)' /\ KnownAs(remote_infos'[g], RootHosts'[g][i].nb, local_hosts'[g])
  <2>1. CASE remote_infos'[g] = <<>>
    BY <2>1
  <2>2. CASE remote_infos'[g] # <<>>
    <3>1. PICK i \in DOMAIN RootHosts[g] :
             FirstHere(g, i) /\ KnownAs(remote_infos'[g], RootHosts[g][i].nb, local_hosts[g])
      BY <1>5, <2>2 DEF Stands
    <3>2. i \in DOMAIN RootHosts'[g] /\ FirstHere(g, i)'
      BY <1>2, <1>6, <3>1
    <3>3. KnownAs(remote_infos'[g], RootHosts'[g][i].nb, local_hosts'[g])
      BY <1>1, <1>2, <3>1
    <3> QED
      BY <3>2, <3>3
  <2> QED
    BY <2>1, <2>2
<1> QED
  BY <1>8, <1>9 DEF Keeps

LEMMA UpdateStep ==
    ASSUME Shape, Shape', InfosInv, agml_command_update_infos
    PROVE  InfosInv'
<1>1. UNCHANGED growth /\ rpos' = rpos /\ upd' = upd /\ lost = "no" /\ chan # <<>> /\ chan' = Tail(chan)
  BY DEF agml_command_update_infos, Running
<1>2. /\ Grows /\ script' = script /\ pos <= pos' /\ pos \in Nat /\ pos' \in Nat /\ groups' = groups
      /\ OneHere => OneHere'
  BY <1>1, StoodStill
<1>3. rpos \in 0 .. Len(script)
  BY DEF InfosInv, Reads
<1>4. rpos' \in 0 .. Len(script) /\ rpos <= rpos'
  BY <1>1, <1>3, RootStays
<1>5. Reads /\ Reads'
  BY <1>2, <1>4, GroupsKept DEF InfosInv
<1>6. ASSUME OneBlock PROVE OneHere' /\ Dumps' /\ Sent' /\ Keeps' /\ Survives'
  <2>1. OneHere /\ Dumps /\ Sent /\ Keeps
    BY <1>6 DEF InfosInv
  <2>2. PICK S : chan \in Seq(S) /\ \A u \in S : Named(u)
    BY <2>1 DEF Sent
  <2>3. PICK u \in S : u = Head(chan) /\ Named(u) /\ Tail(chan) \in Seq(S)
    BY <1>1, <2>2, HeadTailProperties
  <2>4. Dumps' /\ Sent'
    <3>1. Dumps'
      BY <1>1, <1>2, <2>1, DumpsKept
    <3>2. \A w \in S : Named(w)'
      BY <1>2, <2>2, NamedKept
    <3> QED
      BY <1>1, <2>3, <3>1, <3>2 DEF Sent
  <2>5. \A g \in DOMAIN u : /\ Unknown(u, g) \/ NoBlock(u, g) => rpos < pos
                            /\ ~NoBlock(u, g) => ~TooLong(u, g)
    BY <1>5, <1>6, <2>1, <2>3, UnknownLags, NoBlockLags, NeverTooLong
  <2>6. CASE remote_infos' = remote_infos /\ lost' = lost
    <3>1. Keeps'
      BY <1>2, <1>3, <1>4, <2>1, <2>6, KeepsKept
    <3>2. Survives'
      BY <1>1, <2>6, SurvivesKept
    <3> QED
      BY <1>2, <2>1, <2>4, <3>1, <3>2
  <2>7. CASE \E g \in DOMAIN u : Unknown(u, g) \/ NoBlock(u, g)
    <3>1. rpos < pos
      BY <2>5, <2>7
    <3>2. pos' = pos
      BY <1>1 DEF growth, reading
    <3>3. \/ remote_infos' = remote_infos /\ lost' \in {"no", "no group", "no block"}
          \/ lost' = "no" /\ ~ \E g \in DOMAIN u : Unknown(u, g) \/ NoBlock(u, g)
          \/ ~ (\E g \in DOMAIN u : NoBlock(u, g)) /\ \E g \in DOMAIN u : TooLong(u, g)
      BY <1>1, <2>3 DEF agml_command_update_infos
    <3>4. remote_infos' = remote_infos /\ lost' \in {"no", "no group", "no block"}
      BY <2>5, <2>7, <3>3
    <3>5. Keeps'
      BY <1>2, <1>3, <1>4, <2>1, <3>4, KeepsKept
    <3>6. Survives'
      BY <1>1, <3>1, <3>2, <3>4 DEF Survives
    <3> QED
      BY <1>2, <2>1, <2>4, <3>5, <3>6
  <2>8. CASE /\ ~ \E g \in DOMAIN u : Unknown(u, g) \/ NoBlock(u, g)
             /\ ~(remote_infos' = remote_infos /\ lost' = lost)
    <3>1. ~ \E g \in DOMAIN u : TooLong(u, g)
      BY <2>5, <2>8
    <3>2. remote_infos' = update_infos(u) /\ lost' = lost
      BY <1>1, <2>3, <2>8, <3>1 DEF agml_command_update_infos
    <3>3. Keeps'
      BY <1>1, <1>5, <1>6, <2>1, <2>3, <2>8, <3>2, UpdateKeeps
    <3>4. Survives'
      BY <1>1, <3>2, SurvivesKept
    <3> QED
      BY <1>2, <2>1, <2>4, <3>3, <3>4
  <2> QED
    BY <2>6, <2>7, <2>8
<1> QED
  BY <1>2, <1>5, <1>6, SameOneBlock DEF InfosInv

LEMMA InfosStep ==
    ASSUME Shape, Shape', InfosInv, [Next]_vars
    PROVE  InfosInv'
<1>1. CASE UNCHANGED vars
  <2>1. UNCHANGED growth /\ rpos' = rpos /\ remote_infos' = remote_infos /\ upd' = upd /\ chan' = chan
        /\ lost' = lost
    BY <1>1 DEF vars, infos
  <2>2. /\ Grows /\ script' = script /\ pos <= pos' /\ pos \in Nat /\ pos' \in Nat /\ groups' = groups
        /\ OneHere => OneHere'
    BY <2>1, StoodStill
  <2>3. Reads /\ rpos \in 0 .. Len(script)
    BY DEF InfosInv, Reads
  <2>4. rpos' \in 0 .. Len(script) /\ rpos <= rpos'
    BY <2>1, <2>3, RootStays
  <2>5. Reads'
    BY <2>2, <2>3, <2>4, GroupsKept
  <2>6. ASSUME OneBlock PROVE OneHere' /\ Dumps' /\ Sent' /\ Keeps' /\ Survives'
    <3>1. OneHere /\ Dumps /\ Sent /\ Keeps /\ Survives
      BY <2>6 DEF InfosInv
    <3>2. Dumps' /\ Sent' /\ Keeps'
      BY <2>1, <2>2, <2>3, <2>4, <3>1, DumpsKept, SentKept, KeepsKept
    <3>3. Survives'
      <4>1. pos' = pos
        BY <2>1 DEF growth, reading
      <4> QED
        BY <2>1, <3>1, <4>1 DEF Survives
    <3> QED
      BY <2>2, <3>1, <3>2, <3>3
  <2> QED
    BY <2>2, <2>5, <2>6, SameOneBlock DEF InfosInv
<1>2. CASE Running /\ NextGrowth /\ UNCHANGED infos
  BY <1>2, MadeStep
<1>3. CASE RootReads
  BY <1>3, RootStep
<1>4. CASE agml_command_do_start_infos
  BY <1>4, AskedStep
<1>5. CASE BeginDump
  BY <1>5, BeginStep
<1>6. CASE dump_local_infos
  BY <1>6, WriteStep
<1>7. CASE SecondPass
  BY <1>7, SecondStep
<1>8. CASE SendInfos
  BY <1>8, SendStep
<1>9. CASE agml_command_update_infos
  BY <1>9, UpdateStep
<1> QED
  BY <1>1, <1>2, <1>3, <1>4, <1>5, <1>6, <1>7, <1>8, <1>9 DEF Next

LEMMA InfosHold ==
    ASSUME Shape, InfosInv
    PROVE  InfosAgree
<1> SUFFICES ASSUME OneBlock PROVE /\ lost # "range"
                                   /\ lost \in {"no group", "no block"} => rpos < pos
                                   /\ \A g \in Groups : \A k \in DOMAIN remote_infos[g] :
                                         Shown(g, k) # Zero => Shown(g, k) = node_request(g, k)
  BY DEF InfosAgree
<1>1. Survives /\ Keeps /\ rpos \in 0 .. Len(script)
  BY DEF InfosInv, Reads
<1>2. ASSUME NEW g \in Groups, NEW k \in DOMAIN remote_infos[g]
      PROVE  Shown(g, k) # Zero => Shown(g, k) = node_request(g, k)
  <2>1. remote_infos[g] # <<>>
    BY <1>2
  <2>2. PICK i \in DOMAIN RootHosts[g] :
           FirstHere(g, i) /\ KnownAs(remote_infos[g], RootHosts[g][i].nb, local_hosts[g])
    BY <1>1, <2>1 DEF Keeps
  <2>3. get_first_host(g) = i
    BY <1>1, <2>2, FirstIs
  <2>4. PICK x, n, l : x = remote_infos[g] /\ n = RootHosts[g][i].nb /\ l = local_hosts[g]
    OBVIOUS
  <2>5. /\ k \in 1 .. n
        /\ x[k] = Zero \/ x[k] = l[1].nodes[k].id
    BY <1>2, <2>2, <2>4 DEF KnownAs
  <2>6. Shown(g, k) = x[k]
    BY <2>1, <2>2, <2>3, <2>4, <2>5 DEF Shown, dump_all_infos
  <2> QED
    BY <2>4, <2>5, <2>6 DEF node_request
<1> QED
  BY <1>1, <1>2 DEF Survives

LEMMA InfosInvariant == Spec => []InfosInv
<1>1. Shape /\ Shape' /\ InfosInv /\ [Next]_vars => InfosInv'
  BY InfosStep
<1> QED
  BY <1>1, StartedInfos, Shapes, OnlyMade, PTL DEF Spec

(* If no group has two blocks on a host, then whatever models are read and *)
(* wherever the two daemons are in them, the number under which an         *)
(* information is shown is that of the node it is about, no update leaves  *)
(* an array at Root, and a name is unknown there only if Root has not read *)
(* all that Me has begun.                                                  *)
THEOREM InfosAreTrue == Spec => []InfosAgree
<1>1. SpecGrowth => []Shape
  BY Shapes
<1>2. Shape /\ InfosInv => InfosAgree
  BY InfosHold
<1> QED
  BY <1>1, <1>2, InfosInvariant, OnlyMade, PTL

-----------------------------------------------------------------------------
(* What is sent and stored has its type, with any number of blocks here.   *)
IdsOnly(u) == \A g \in DOMAIN u : g \in Groups /\ u[g] \in Seq(Seq(Nat))

InfoNumbers == Nat \cup {Zero}

StoredFor(x, g) ==
    x = <<>> \/ \E i \in DOMAIN RootHosts[g] : FirstHere(g, i) /\ x \in [1 .. RootHosts[g][i].nb -> InfoNumbers]

DumpTyped ==
    upd.pc = "dump" =>
        \E w, s, r, o : \E t \in Seq(Groups) : upd = DumpAs(w, t, s, r, o) /\ IdsOnly(o)

SentTyped == \E S : chan \in Seq(S) /\ \A u \in S : IdsOnly(u)

StoreTyped ==
    /\ remote_infos = [g \in Groups |-> remote_infos[g]]
    /\ \A g \in Groups : StoredFor(remote_infos[g], g)

InfosTyped ==
    /\ upd.pc \in {"off", "rest", "dump"}
    /\ lost \in {"no", "no topology", "room", "no group", "no block", "range"}
    /\ DumpTyped /\ SentTyped /\ StoreTyped

LEMMA StartedTyped == Init => InfosTyped
<1> SUFFICES ASSUME Init PROVE InfosTyped
  OBVIOUS
<1>1. SentTyped
  <2>1. chan \in Seq({})
    BY EmptySeq DEF Init
  <2> QED
    BY <2>1 DEF SentTyped
<1> QED
  BY <1>1 DEF Init, InfosTyped, DumpTyped, StoreTyped, StoredFor

LEMMA GreatestNumber ==
    ASSUME NEW n \in Nat, NEW S, S \subseteq 1 .. n, S # {}
    PROVE  Max(S) \in S
<1> DEFINE T == {n - x : x \in S}
<1>1. T \subseteq Nat /\ T # {}
  <2>1. \A x \in 1 .. n : n - x \in Nat
    OBVIOUS
  <2>2. \A x \in S : n - x \in Nat
    BY <2>1
  <2>3. T \subseteq Nat
    BY <2>2
  <2>4. T # {}
    OBVIOUS
  <2> QED
    BY <2>3, <2>4
<1>2. PICK t \in T : \A x \in T : t <= x
  <2> HIDE DEF T
  <2> QED
    BY <1>1, LeastNumber
<1>3. PICK m \in S : t = n - m
  OBVIOUS
<1>4. ASSUME NEW x \in S PROVE m >= x
  <2>1. t <= n - x
    BY <1>2
  <2>2. m \in 1 .. n /\ x \in 1 .. n
    OBVIOUS
  <2> QED
    BY <1>3, <2>1, <2>2
<1> HIDE DEF T
<1> QED
  BY <1>3, <1>4 DEF Max

LEMMA StoredTyped ==
    ASSUME Shape, rpos \in 0 .. Len(script), NEW g \in Groups, NEW old, StoredFor(old, g),
           NEW x \in Seq(Seq(Nat)), x # <<>> => \E i \in DOMAIN RootHosts[g] : FirstHere(g, i)
    PROVE  StoredFor(Stored(g, old, x), g)
<1>1. CASE \A i \in DOMAIN x : Len(x[i]) = 0
  <2>1. Stored(g, old, x) = old
    BY <1>1 DEF Stored
  <2> QED
    BY <2>1
<1>2. CASE ~ \A i \in DOMAIN x : Len(x[i]) = 0
  <2>1. x # <<>>
    BY <1>2
  <2>2. PICK i \in DOMAIN RootHosts[g] : FirstHere(g, i)
    BY <2>1
  <2>3. PICK m : m = RootHosts[g][i].nb /\ m = Room(g)
    BY <2>2, FirstIs DEF Room
  <2>4. old = <<>> \/ old \in [1 .. m -> InfoNumbers]
    <3>1. ASSUME NEW j \in DOMAIN RootHosts[g], FirstHere(g, j), old \in [1 .. RootHosts[g][j].nb -> InfoNumbers]
          PROVE  old \in [1 .. m -> InfoNumbers]
      <4>1. j = i
        BY <2>2, <3>1, FirstIs
      <4> QED
        BY <2>3, <3>1, <4>1
    <3> QED
      BY <3>1 DEF StoredFor
  <2> DEFINE W(k) == {j \in DOMAIN x : k <= Len(x[j])}
             V(k) == IF W(k) # {} THEN x[Max(W(k))][k] ELSE IF old = <<>> THEN Zero ELSE old[k]
  <2>5. Stored(g, old, x) = [k \in 1 .. m |-> V(k)]
    BY <1>2, <2>3 DEF Stored
  <2>6. PICK n \in Nat : DOMAIN x = 1 .. n /\ n = Len(x)
    BY LenProperties
  <2>7. ASSUME NEW k \in 1 .. m PROVE V(k) \in InfoNumbers
    <3>1. CASE W(k) # {}
      <4>1. PICK j : j = Max(W(k))
        OBVIOUS
      <4>2. j \in W(k)
        <5>1. W(k) \subseteq 1 .. n
          BY <2>6
        <5> HIDE DEF W
        <5> QED
          BY <3>1, <4>1, <5>1, GreatestNumber
      <4>3. j \in 1 .. n /\ k <= Len(x[j])
        BY <2>6, <4>2
      <4>4. x[j] \in Seq(Nat)
        BY <2>6, <4>3, ElementOfSeq
      <4>5. k \in 1 .. Len(x[j])
        BY <4>3, <4>4, LenProperties
      <4>6. x[j][k] \in Nat
        BY <4>4, <4>5, ElementOfSeq
      <4>7. V(k) = x[j][k]
        BY <3>1, <4>1
      <4> QED
        BY <4>6, <4>7 DEF InfoNumbers
    <3>2. CASE W(k) = {}
      BY <2>4, <3>2 DEF InfoNumbers
    <3> QED
      BY <3>1, <3>2
  <2> HIDE DEF V
  <2>8. Stored(g, old, x) \in [1 .. m -> InfoNumbers]
    BY <2>5, <2>7
  <2> QED
    BY <2>2, <2>3, <2>8 DEF StoredFor
<1> QED
  BY <1>1, <1>2

LEMMA FilledKept ==
    ASSUME Shape, StoreTyped, script' = script, rpos \in 0 .. Len(script),
           rpos' \in 0 .. Len(script), rpos <= rpos', remote_infos' = remote_infos
    PROVE  StoreTyped'
<1> SUFFICES ASSUME NEW g \in Groups
             PROVE  \/ remote_infos'[g] = <<>>
                    \/ \E i \in DOMAIN RootHosts'[g] :
                          FirstHere(g, i)' /\ remote_infos'[g] \in [1 .. RootHosts'[g][i].nb -> InfoNumbers]
  BY DEF StoreTyped, StoredFor, InfoNumbers, Zero
<1>1. CASE remote_infos[g] = <<>>
  BY <1>1
<1>2. CASE remote_infos[g] # <<>>
  <2>1. PICK i \in DOMAIN RootHosts[g] :
           FirstHere(g, i) /\ remote_infos[g] \in [1 .. RootHosts[g][i].nb -> InfoNumbers]
    BY <1>2 DEF StoreTyped, StoredFor
  <2>2. PICK n \in 0 .. Len(script), m \in 0 .. Len(script) : n = rpos /\ m = rpos' /\ n <= m
    OBVIOUS
  <2>3. /\ i \in DOMAIN RootHosts'[g] /\ FirstHere(g, i)' /\ RootHosts'[g][i] = RootHosts[g][i]
    BY <2>1, <2>2, FirstKept
  <2>4. remote_infos'[g] \in [1 .. RootHosts'[g][i].nb -> InfoNumbers]
    BY <2>1, <2>3
  <2> QED
    BY <2>3, <2>4
<1> QED
  BY <1>1, <1>2

LEMMA NumberedKept == \A u : IdsOnly(u)' <=> IdsOnly(u)
BY DEF IdsOnly

LEMMA EntryTyped ==
    ASSUME Shape, NEW g \in Groups
    PROVE  Entry(g) \in Seq(Seq(Nat))
<1>1. PICK l \in Seq(Blocks) : l = local_hosts[g]
  BY DEF Shape, Lists
<1>2. PICK n \in Nat : DOMAIN l = 1 .. n /\ n = Len(l)
  BY LenProperties
<1>3. ASSUME NEW b \in Blocks PROVE [j \in DOMAIN b.nodes |-> b.nodes[j].id] \in Seq(Nat)
  <2>1. PICK s \in Seq(Nodes), k \in Nat : s = b.nodes /\ k = Len(s) /\ DOMAIN s = 1 .. k
    BY LenProperties DEF Blocks
  <2>2. ASSUME NEW j \in 1 .. k PROVE s[j].id \in Nat
    <3>1. j \in 1 .. Len(s)
      BY <2>1
    <3>2. s[j] \in Nodes
      BY <3>1, ElementOfSeq
    <3> QED
      BY <3>2 DEF Nodes
  <2>3. \A f : f \in [1 .. k -> Nat] => f \in Seq(Nat)
    OBVIOUS
  <2>4. [j \in 1 .. k |-> s[j].id] \in [1 .. k -> Nat]
    BY <2>2
  <2>5. [j \in 1 .. k |-> s[j].id] \in Seq(Nat)
    BY <2>3, <2>4
  <2>6. [j \in DOMAIN b.nodes |-> b.nodes[j].id] = [j \in 1 .. k |-> s[j].id]
    BY <2>1
  <2> QED
    BY <2>5, <2>6
<1> DEFINE E(b) == [j \in DOMAIN b.nodes |-> b.nodes[j].id]
<1>4. Entry(g) = [i \in 1 .. n |-> E(l[i])]
  BY <1>1, <1>2 DEF Entry
<1>5. \A i \in 1 .. n : E(l[i]) \in Seq(Nat)
  BY <1>2, <1>3, ElementOfSeq
<1> HIDE DEF E
<1> QED
  BY <1>4, <1>5

LEMMA TypedUpdate ==
    ASSUME Shape, rpos \in 0 .. Len(script), StoreTyped, UNCHANGED growth, rpos' = rpos,
           NEW u, IdsOnly(u), ~ \E g \in DOMAIN u : NoBlock(u, g), remote_infos' = update_infos(u)
    PROVE  StoreTyped'
<1>1. RootHosts' = RootHosts
  <2>1. script' = script
    BY DEF growth, reading
  <2> QED
    BY <2>1, SameText DEF RootHosts
<1>2. ASSUME NEW g \in Groups PROVE StoredFor(remote_infos'[g], g)
  <2>1. remote_infos'[g] = IF g \in DOMAIN u THEN Stored(g, remote_infos[g], u[g]) ELSE remote_infos[g]
    BY DEF update_infos
  <2>2. StoredFor(remote_infos[g], g)
    BY DEF StoreTyped
  <2>3. CASE g \notin DOMAIN u
    BY <2>1, <2>2, <2>3
  <2>4. CASE g \in DOMAIN u
    <3>1. PICK x, old : x = u[g] /\ old = remote_infos[g]
      OBVIOUS
    <3>2. x \in Seq(Seq(Nat))
      BY <2>4, <3>1 DEF IdsOnly
    <3>3. x # <<>> => \E i \in DOMAIN RootHosts[g] : FirstHere(g, i)
      BY <2>4, <3>1 DEF NoBlock
    <3>4. StoredFor(Stored(g, old, x), g)
      BY <2>2, <3>1, <3>2, <3>3, StoredTyped
    <3> QED
      BY <2>1, <2>4, <3>1, <3>4
  <2> QED
    BY <2>3, <2>4
<1>3. remote_infos' = [g \in Groups |-> remote_infos'[g]]
  BY DEF update_infos
<1>4. \A g, i : FirstHere(g, i)' <=> FirstHere(g, i)
  BY <1>1 DEF FirstHere
<1>5. ASSUME NEW g \in Groups
      PROVE  \/ remote_infos'[g] = <<>>
             \/ \E i \in DOMAIN RootHosts'[g] :
                   FirstHere(g, i)' /\ remote_infos'[g] \in [1 .. RootHosts'[g][i].nb -> InfoNumbers]
  BY <1>1, <1>2, <1>4 DEF StoredFor
<1> QED
  BY <1>3, <1>5 DEF StoreTyped, StoredFor, InfoNumbers, Zero

LEMMA TypedKept ==
    ASSUME Shape, Shape', InfosTyped, script' = script, rpos \in 0 .. Len(script),
           rpos' \in 0 .. Len(script), rpos <= rpos', remote_infos' = remote_infos,
           upd' = upd, chan' = chan, lost' = lost
    PROVE  InfosTyped'
<1>1. StoreTyped'
  BY FilledKept DEF InfosTyped
<1>2. DumpTyped'
  BY DEF InfosTyped, DumpTyped, IdsOnly
<1>3. SentTyped'
  BY DEF InfosTyped, SentTyped, IdsOnly
<1> QED
  BY <1>1, <1>2, <1>3 DEF InfosTyped

LEMMA TypedSent ==
    ASSUME Shape, InfosTyped, UNCHANGED growth, rpos' = rpos, remote_infos' = remote_infos,
           rpos \in 0 .. Len(script), upd'.pc \in {"off", "rest", "dump"},
           lost' \in {"no", "no topology", "room"}, DumpTyped', SentTyped'
    PROVE  InfosTyped'
<1>1. script' = script
  BY DEF growth, reading
<1>2. rpos' \in 0 .. Len(script) /\ rpos <= rpos'
  BY RootStays
<1>3. StoreTyped'
  BY <1>1, <1>2, FilledKept DEF InfosTyped
<1> QED
  BY <1>3 DEF InfosTyped

LEMMA TypedStep ==
    ASSUME Shape, Shape', Reads, InfosTyped, [Next]_vars
    PROVE  InfosTyped'
<1>1. rpos \in 0 .. Len(script) /\ groups \in Seq(Groups)
  BY DEF Reads
<1>2. DumpTyped /\ SentTyped
  BY DEF InfosTyped
<1>3. CASE UNCHANGED vars \/ (Running /\ NextGrowth /\ UNCHANGED infos)
  <2>1. UNCHANGED infos
    BY <1>3 DEF vars
  <2>2. script' = script
    <3>1. CASE NextGrowth
      BY <3>1, TextGrows
    <3>2. CASE UNCHANGED vars
      BY <3>2 DEF vars, growth, reading
    <3> QED
      BY <1>3, <3>1, <3>2
  <2>3. rpos' = rpos /\ remote_infos' = remote_infos /\ upd' = upd /\ chan' = chan /\ lost' = lost
    BY <2>1 DEF infos
  <2>4. rpos' \in 0 .. Len(script) /\ rpos <= rpos'
    BY <1>1, <2>3, RootStays
  <2> QED
    BY <1>1, <2>2, <2>3, <2>4, TypedKept
<1>4. CASE RootReads
  <2>1. rpos' = rpos + 1 /\ rpos < Len(script) /\ UNCHANGED <<remote_infos, upd, chan, lost>> /\ script' = script
    BY <1>4 DEF RootReads, growth, reading
  <2>2. rpos' \in 0 .. Len(script) /\ rpos <= rpos'
    <3>1. Len(script) \in Nat
      BY HereParts
    <3> QED
      BY <1>1, <2>1, <3>1
  <2> QED
    BY <1>1, <2>1, <2>2, TypedKept
<1>5. CASE agml_command_do_start_infos
  <2>1. /\ UNCHANGED growth /\ rpos' = rpos /\ remote_infos' = remote_infos /\ chan' = chan
        /\ upd'.pc = "rest" /\ lost' = "no"
    BY <1>5 DEF agml_command_do_start_infos, agml_infos_start_update_thread, Running
  <2>2. DumpTyped' /\ SentTyped'
    BY <1>2, <2>1 DEF DumpTyped, SentTyped, IdsOnly
  <2> QED
    BY <1>1, <2>1, <2>2, TypedSent
<1>6. CASE BeginDump
  <2>1. /\ UNCHANGED growth /\ rpos' = rpos /\ remote_infos' = remote_infos /\ chan' = chan
        /\ upd.pc = "rest" /\ lost' \in {"no", "no topology"}
        /\ upd' = upd \/ upd' = DumpAs(FALSE, groups, 0, 0, <<>>)
    BY <1>6 DEF BeginDump, Running, DumpAs
  <2>2. SentTyped'
    BY <1>2, <2>1 DEF SentTyped, IdsOnly
  <2>3. CASE upd' = upd
    <3>1. DumpTyped'
      BY <2>1, <2>3 DEF DumpTyped
    <3>2. upd'.pc = "rest"
      BY <2>1, <2>3
    <3> QED
      BY <1>1, <2>1, <2>2, <3>1, <3>2, TypedSent
  <2>4. CASE upd' = DumpAs(FALSE, groups, 0, 0, <<>>)
    <3>1. PICK t \in Seq(Groups) : t = groups
      BY <1>1
    <3>2. upd' = DumpAs(FALSE, t, 0, 0, <<>>) /\ upd'.pc = "dump"
      BY <2>4, <3>1 DEF DumpAs
    <3>3. IdsOnly(<<>>)'
      BY DEF IdsOnly
    <3>5. DumpTyped'
      BY <3>2, <3>3 DEF DumpTyped
    <3> QED
      BY <1>1, <2>1, <2>2, <3>2, <3>5, TypedSent
  <2> QED
    BY <2>1, <2>3, <2>4
<1>7. CASE dump_local_infos
  <2>1. /\ UNCHANGED growth /\ rpos' = rpos /\ remote_infos' = remote_infos /\ chan' = chan
        /\ upd.pc = "dump" /\ upd.todo # <<>> /\ lost' \in {"no", "room"}
    BY <1>7 DEF dump_local_infos, Running
  <2>2. SentTyped'
    BY <1>2, <2>1 DEF SentTyped, IdsOnly
  <2>3. CASE upd' = upd
    <3>1. DumpTyped'
      BY <1>2, <2>1, <2>3 DEF DumpTyped, IdsOnly
    <3>2. upd'.pc = "dump"
      BY <2>1, <2>3
    <3> QED
      BY <1>1, <2>1, <2>2, <3>1, <3>2, TypedSent
  <2>4. CASE upd' # upd
    <3>1. PICK w, s, r, o, t : t \in Seq(Groups) /\ upd = DumpAs(w, t, s, r, o) /\ IdsOnly(o)
      BY <1>2, <2>1 DEF DumpTyped
    <3>2. upd.todo = t /\ upd.out = o /\ t # <<>>
      BY <2>1, <3>1 DEF DumpAs
    <3>3. PICK g, q, v : g = Head(t) /\ q = Tail(t) /\ v = IF w THEN Written(o, g) ELSE o
      OBVIOUS
    <3>4. PICK n : upd' = DumpAs(w, q, n, r, v)
      BY <1>7, <2>4, <3>1, <3>3 DEF dump_local_infos, DumpAs
    <3>5. g \in Groups /\ q \in Seq(Groups)
      BY <3>1, <3>2, <3>3, HeadTailProperties
    <3>6. IdsOnly(v)
      <4>1. Entry(g) \in Seq(Seq(Nat))
        BY <3>5, EntryTyped
      <4>2. IdsOnly(Written(o, g))
        BY <3>1, <3>5, <4>1 DEF IdsOnly, Written
      <4> QED
        BY <3>1, <3>3, <4>2
    <3>7. IdsOnly(v)' /\ upd'.pc = "dump"
      BY <3>4, <3>6 DEF IdsOnly, DumpAs
    <3>9. DumpTyped'
      BY <3>4, <3>5, <3>7 DEF DumpTyped
    <3> QED
      BY <1>1, <2>1, <2>2, <3>7, <3>9, TypedSent
  <2> QED
    BY <2>3, <2>4
<1>8. CASE SecondPass
  <2>1. /\ UNCHANGED growth /\ rpos' = rpos /\ remote_infos' = remote_infos /\ chan' = chan
        /\ upd.pc = "dump" /\ lost' = "no"
        /\ upd' = [upd EXCEPT !.write = TRUE, !.todo = groups, !.room = upd.size, !.size = 0]
    BY <1>8 DEF SecondPass, Running
  <2>2. PICK w, s, r, o, t : upd = DumpAs(w, t, s, r, o) /\ IdsOnly(o)
    BY <1>2, <2>1 DEF DumpTyped
  <2>3. PICK q \in Seq(Groups) : q = groups
    BY <1>1
  <2>4. upd' = DumpAs(TRUE, q, 0, s, o) /\ upd'.pc = "dump"
    BY <2>1, <2>2, <2>3 DEF DumpAs
  <2>5. IdsOnly(o)'
    BY <2>2 DEF IdsOnly
  <2>6. SentTyped'
    BY <1>2, <2>1 DEF SentTyped, IdsOnly
  <2>7. DumpTyped' /\ SentTyped'
    BY <2>4, <2>5, <2>6 DEF DumpTyped
  <2> QED
    BY <1>1, <2>1, <2>4, <2>7, TypedSent
<1>9. CASE SendInfos
  <2>1. /\ UNCHANGED growth /\ rpos' = rpos /\ remote_infos' = remote_infos
        /\ upd.pc = "dump" /\ lost' = "no"
        /\ chan' = Append(chan, upd.out) /\ upd'.pc = "rest"
    BY <1>9 DEF SendInfos, Running
  <2>2. PICK w, s, r, o, t : upd = DumpAs(w, t, s, r, o) /\ IdsOnly(o)
    BY <1>2, <2>1 DEF DumpTyped
  <2>3. upd.out = o
    BY <2>2 DEF DumpAs
  <2>4. PICK S, R : chan \in Seq(S) /\ (\A u \in S : IdsOnly(u)) /\ R = S \cup {o}
    BY <1>2 DEF SentTyped
  <2>5. chan' \in Seq(R)
    <3>1. chan \in [1 .. Len(chan) -> S] /\ Len(chan) \in Nat
      BY <2>4, LenProperties
    <3>2. chan \in [1 .. Len(chan) -> R]
      BY <2>4, <3>1
    <3>3. chan \in Seq(R)
      BY <3>1, <3>2, SeqDef
    <3> QED
      BY <2>1, <2>3, <2>4, <3>3, AppendProperties
  <2>6. \A u \in R : IdsOnly(u)'
    BY <2>2, <2>4, NumberedKept
  <2>7. DumpTyped' /\ SentTyped'
    BY <2>1, <2>5, <2>6 DEF DumpTyped, SentTyped
  <2> QED
    BY <1>1, <2>1, <2>7, TypedSent
<1>10. CASE agml_command_update_infos
  <2>1. UNCHANGED growth /\ rpos' = rpos /\ upd' = upd /\ lost = "no" /\ chan # <<>> /\ chan' = Tail(chan)
    BY <1>10 DEF agml_command_update_infos, Running
  <2>2. PICK S : chan \in Seq(S) /\ \A w \in S : IdsOnly(w)
    BY <1>2 DEF SentTyped
  <2>3. PICK u \in S : Head(chan) = u /\ IdsOnly(u) /\ Tail(chan) \in Seq(S)
    BY <2>1, <2>2, HeadTailProperties
  <2>4. DumpTyped' /\ SentTyped'
    <3>1. \A w \in S : IdsOnly(w)'
      BY <2>2, NumberedKept
    <3>2. DumpTyped'
      BY <1>2, <2>1 DEF DumpTyped, IdsOnly
    <3> QED
      BY <2>1, <2>3, <3>1, <3>2 DEF SentTyped
  <2>5. lost' \in {"no", "no group", "no block", "range"}
    BY <1>10, <2>1 DEF agml_command_update_infos
  <2>6. StoreTyped'
    <3>1. CASE remote_infos' = remote_infos
      <4>1. script' = script
        BY <2>1 DEF growth, reading
      <4>2. rpos' \in 0 .. Len(script) /\ rpos <= rpos'
        BY <1>1, <2>1, RootStays
      <4> QED
        BY <1>1, <3>1, <4>1, <4>2, FilledKept DEF InfosTyped
    <3>2. CASE remote_infos' # remote_infos
      <4>1. remote_infos' = update_infos(u) /\ ~ \E g \in DOMAIN u : NoBlock(u, g)
        BY <1>10, <2>3, <3>2 DEF agml_command_update_infos
      <4>2. StoreTyped
        BY DEF InfosTyped
      <4> QED
        BY <1>1, <2>1, <2>3, <4>1, <4>2, TypedUpdate
    <3> QED
      BY <3>1, <3>2
  <2> QED
    BY <2>1, <2>4, <2>5, <2>6 DEF InfosTyped
<1> QED
  BY <1>3, <1>4, <1>5, <1>6, <1>7, <1>8, <1>9, <1>10 DEF Next

-----------------------------------------------------------------------------
(* Nodes, and the mutexes that are held, are of threads that were made.    *)
AllMade(s, m) == \A i \in 1 .. Len(s) : s[i].thread \in 0 .. m - 1

PlanMade(p, m) == p.same => AllMade(p.jobs, m)
PlansMade(ps, m) == \A i \in 1 .. Len(ps) : PlanMade(ps[i], m)
ListsMade(f, m) == \A g \in Groups : \A i \in 1 .. Len(f[g]) : AllMade(f[g][i].nodes, m)
BlockMade(b, m) == b # None => AllMade(b.nodes, m) /\ (b.plan.same => AllMade(b.jobs, m))
OrphansMade(f, m) == \A g \in Groups : \A n \in f[g] : n.thread \in -1 .. m - 1

NodesMade(m) ==
    /\ ListsMade(hosts, m) /\ ListsMade(local_hosts, m) /\ PlansMade(plans, m)
    /\ BlockMade(block, m) /\ OrphansMade(orphans, m)

Attending ==
    /\ script \in Scripts /\ lib \subseteq Files
    /\ locked \subseteq MadeThreads /\ quitting \subseteq 0 .. started - 1
    /\ finished \subseteq away /\ away \subseteq left

InThreads == NodesMade(made) /\ Attending

LEMMA NoneMade ==
    ASSUME NEW e, e = <<>>, NEW m
    PROVE  AllMade(e, m) /\ PlansMade(e, m) /\ BlockMade(None, m)
<1>1. Len(<<>>) = 0
  OBVIOUS
<1> QED
  BY <1>1 DEF AllMade, PlansMade, BlockMade

LEMMA StartedInThreads == InitGrowth => InThreads
<1> SUFFICES ASSUME InitGrowth PROVE InThreads
  OBVIOUS
<1>1. Len(<<>>) = 0
  OBVIOUS
<1>2. ListsMade(hosts, made) /\ ListsMade(local_hosts, made) /\ OrphansMade(orphans, made)
  BY <1>1 DEF InitGrowth, ListsMade, OrphansMade
<1>3. PlansMade(plans, made) /\ BlockMade(block, made)
  BY NoneMade DEF InitGrowth
<1>4. Attending
  BY DEF InitGrowth, Attending, Opened
<1> QED
  BY <1>2, <1>3, <1>4 DEF InThreads, NodesMade

(* More threads only leave more room. *)
LEMMA MadeMore ==
    ASSUME NEW m \in Nat, NEW n \in Nat, m <= n
    PROVE  /\ \A s : AllMade(s, m) => AllMade(s, n)
           /\ NodesMade(m) => NodesMade(n)
<1>1. 0 .. m - 1 \subseteq 0 .. n - 1 /\ -1 .. m - 1 \subseteq -1 .. n - 1
  OBVIOUS
<1>2. \A s : AllMade(s, m) => AllMade(s, n)
  BY <1>1 DEF AllMade
<1>3. \A ps : PlansMade(ps, m) => PlansMade(ps, n)
  BY <1>2 DEF PlansMade, PlanMade
<1>4. \A f : ListsMade(f, m) => ListsMade(f, n)
  BY <1>2 DEF ListsMade
<1>5. \A f : OrphansMade(f, m) => OrphansMade(f, n)
  BY <1>1 DEF OrphansMade
<1>6. \A b : BlockMade(b, m) => BlockMade(b, n)
  BY <1>2 DEF BlockMade
<1> QED
  BY <1>2, <1>3, <1>4, <1>5, <1>6 DEF NodesMade

(* The plans of a line.                                                    *)
LEMMA LikeMade ==
    ASSUME NEW g, NEW m, NEW q \in Seq(Nodes), AllMade(q, m)
    PROVE  PlanMade(Like(g, q), m)
<1>1. PICK n \in Nat : n = Len(q) /\ DOMAIN q = 1 .. n
  BY LenProperties
<1>2. PICK jobs : jobs = [i \in 1 .. n |-> [thread |-> q[i].thread, nb |-> 1]]
  OBVIOUS
<1>3. Len(jobs) = n /\ \A i \in 1 .. n : jobs[i].thread = q[i].thread
  BY <1>2
<1>4. AllMade(jobs, m)
  BY <1>1, <1>3 DEF AllMade
<1>5. Like(g, q) = [grp |-> g, host |-> Me, same |-> TRUE, jobs |-> jobs]
  BY <1>1, <1>2 DEF Like
<1> QED
  BY <1>4, <1>5 DEF PlanMade

LEMMA PlanFree ==
    ASSUME NEW g, NEW h, NEW n, NEW t, NEW m
    PROVE  PlanMade(Plan(g, h, n, t), m)
BY DEF Plan, PlanMade

LEMMA SameMade ==
    ASSUME Shape, NEW m, ListsMade(hosts, m), assign_same_as
    PROVE  PlansMade(plans', m)
<1> DEFINE s == script[pos + 1]
           P(b) == IF Local(b.host) THEN Like(s.grp, FirstNodes(s.limit, b))
                   ELSE Plan(s.grp, b.host, Least(s.limit, b.nb), -1)
           D == IF Known(s.grp) /\ Known(s.ref) THEN DOMAIN hosts[s.ref] ELSE {}
<1>1. Text /\ pos < Len(script) /\ s.op = "same" /\ Lists
  BY DEF assign_same_as, Ready, Shape
<1>2. s \in Statements
  BY <1>1, StatementRead
<1>3. s.ref \in Groups
  BY <1>1, <1>2 DEF Statements
<1>4. ASSUME NEW b \in Blocks, AllMade(b.nodes, m) PROVE PlanMade(P(b), m)
  <2>1. CASE Local(b.host)
    <3>1. PICK q \in Seq(Nodes) : q = FirstNodes(s.limit, b)
      BY <1>1, <1>2, <2>1, PlanLike
    <3>2. \A i \in 1 .. Len(q) : q[i] = b.nodes[i] /\ i \in 1 .. Len(b.nodes)
      BY <1>1, <1>2, <2>1, <3>1, PlanLike
    <3>3. AllMade(q, m)
      BY <1>4, <3>2 DEF AllMade
    <3> QED
      BY <2>1, <3>1, <3>3, LikeMade
  <2>2. CASE ~Local(b.host)
    BY <2>2, PlanFree
  <2> QED
    BY <2>1, <2>2
<1>5. plans' = [i \in D |-> P(hosts[s.ref][i])]
  BY DEF assign_same_as
<1> HIDE DEF P
<1> DEFINE q == hosts[s.ref]
<1>6. q \in Seq(Blocks)
  BY <1>1, <1>3 DEF Lists
<1>7. DOMAIN q = 1 .. Len(q) /\ Len(q) \in Nat /\ \A i \in 1 .. Len(q) : q[i] \in Blocks
  BY <1>6, LenProperties, ElementOfSeq
<1>8. \A i \in 1 .. Len(q) : PlanMade(P(q[i]), m)
  BY <1>3, <1>4, <1>7 DEF ListsMade
<1>9. PICK n \in Nat : D = 1 .. n /\ n <= Len(q)
  <2>1. D = 1 .. Len(q) \/ D = 1 .. 0
    BY <1>7
  <2> QED
    BY <1>7, <2>1
<1>10. plans' = [i \in 1 .. n |-> P(q[i])]
  BY <1>5, <1>9
<1> HIDE DEF q, D
<1>11. Len(plans') = n /\ \A i \in 1 .. n : plans'[i] = P(q[i]) /\ i \in 1 .. Len(q)
  BY <1>7, <1>9, <1>10
<1> QED
  BY <1>8, <1>11 DEF PlansMade

LEMMA AssignMade ==
    ASSUME NEW m, execute_statement_assign
    PROVE  PlansMade(plans', m)
<1>1. PICK p, e : e = <<>> /\ PlanMade(p, m) /\ plans' \in {<<p>>, e}
  BY PlanFree DEF execute_statement_assign
<1>2. PlansMade(<<p>>, m)
  <2>1. Len(<<p>>) = 1 /\ <<p>>[1] = p
    OBVIOUS
  <2> QED
    BY <1>1, <2>1 DEF PlansMade
<1> QED
  BY <1>1, <1>2, NoneMade

(* The block in the making.                                                *)
LEMMA NewMade ==
    ASSUME Shape, NEW m, PlansMade(plans, m), NewBlock
    PROVE  PlansMade(plans', m) /\ BlockMade(block', m)
<1>1. PICK ps \in Seq(Plans), n \in Nat \ {0} : ps = plans /\ n = Len(ps)
  BY LenProperties, EmptySeq DEF Shape, NewBlock
<1>2. /\ Head(ps) = ps[1] /\ Len(Tail(ps)) = n - 1
      /\ \A i \in 1 .. n - 1 : Tail(ps)[i] = ps[i + 1]
  BY <1>1, EmptySeq, HeadTailProperties
<1>3. PlanMade(Head(ps), m)
  <2>1. 1 \in 1 .. n
    OBVIOUS
  <2> QED
    BY <1>1, <1>2, <2>1 DEF PlansMade
<1>4. ASSUME NEW i \in 1 .. n - 1 PROVE PlanMade(Tail(ps)[i], m)
  <2>1. i + 1 \in 1 .. n
    OBVIOUS
  <2> QED
    BY <1>1, <1>2, <2>1 DEF PlansMade
<1>5. plans' = Tail(ps)
  BY <1>1 DEF NewBlock
<1>6. PlansMade(plans', m)
  BY <1>2, <1>4, <1>5 DEF PlansMade
<1>7. PICK p, c : p = Head(plans) /\ c = block'
  OBVIOUS
<1>8. /\ c.plan = p /\ c.nodes = <<>> /\ c.pc \in {"lock", "enter", "scan"}
      /\ (c.pc = "lock" /\ p.same => c.jobs = p.jobs) /\ (c.pc # "lock" => ~p.same)
  BY <1>7, NewBlockBuilt
<1>9. AllMade(c.nodes, m)
  BY <1>8, NoneMade
<1>10. c.plan.same => AllMade(c.jobs, m)
  BY <1>1, <1>3, <1>7, <1>8 DEF PlanMade
<1>11. BlockMade(c, m)
  BY <1>9, <1>10 DEF BlockMade
<1> QED
  BY <1>6, <1>7, <1>11

LEMMA JobMade ==
    ASSUME Shape, block # None, block.jobs # <<>>, InReach, BlockMade(block, made)
    PROVE  Target \in MadeThreads
<1>1. Built(block) /\ Array
  BY DEF Shape, Sound
<1>2. PICK i \in Nat : i = Head(block.jobs).thread /\ Len(block.jobs) \in Nat /\ Len(block.jobs) >= 1
                       /\ Head(block.jobs) = block.jobs[1]
  BY <1>1, FirstJob
<1>3. CASE block.plan.same
  <2>1. 1 \in 1 .. Len(block.jobs)
    BY <1>2
  <2>2. i \in 0 .. made - 1
    BY <1>2, <1>3, <2>1 DEF BlockMade, AllMade
  <2> QED
    BY <1>2, <1>3, <2>2 DEF Target, MadeThreads
<1>4. CASE ~block.plan.same
  <2>1. i < Len(slots)
    BY <1>2, <1>4 DEF InReach, InMemory
  <2> QED
    BY <1>1, <1>2, <1>4, <2>1, SlotIs DEF Target
<1> QED
  BY <1>3, <1>4

LEMMA WhereMade ==
    ASSUME Shape, At("make"), BlockMade(block, made)
    PROVE  Target \in MadeThreads
<1>1. /\ ~block.plan.same => Target \in MadeThreads
      /\ block # None /\ block.jobs # <<>>
  BY TargetIs
<1>2. block.plan.same => InReach
  BY DEF InReach
<1> QED
  BY <1>1, <1>2, JobMade

(* Steps that make no node. *)
LEMMA SameNodesMade ==
    ASSUME NEW b, NEW c, NEW m, b # None, BlockMade(b, m), c.nodes = b.nodes, c.plan = b.plan,
           c.plan.same => c.jobs = b.jobs
    PROVE  BlockMade(c, m)
BY DEF BlockMade

LEMMA NoNodesMade ==
    ASSUME NEW c, NEW m, c.nodes = <<>>, c.jobs = <<>>
    PROVE  BlockMade(c, m)
<1>1. AllMade(c.nodes, m) /\ AllMade(c.jobs, m)
  BY NoneMade
<1> QED
  BY <1>1 DEF BlockMade

LEMMA WorkedMade ==
    ASSUME Shape, BlockMade(block, made),
           threads_get_lightest \/ Share \/ NextJob \/ Lock \/ NoSuchClass \/ Unlock \/ add_host
    PROVE  BlockMade(block', made)
<1>1. PICK c, m : c = block' /\ m = made
  OBVIOUS
<1>2. CASE threads_get_lightest
  <2>1. c.nodes = <<>> /\ c.jobs = <<>>
    BY <1>1, <1>2, LightestBuilt
  <2> QED
    BY <1>1, <2>1, NoNodesMade
<1>3. CASE Share
  <2>1. /\ c.plan = block.plan /\ c.nodes = block.nodes /\ block # None /\ Sound(block)
        /\ block.pc \in {"each", "rest"}
    BY <1>1, <1>3, ShareBuilt
  <2>2. ~c.plan.same
    BY <2>1 DEF Sound, Phase, Choosing, Even
  <2> QED
    BY <1>1, <2>1, <2>2, SameNodesMade
<1>4. CASE NextJob
  <2>1. /\ c.plan = block.plan /\ c.nodes = block.nodes /\ block # None /\ Sound(block) /\ block.jobs = <<>>
        /\ block.pc = "pick" \/ c.jobs = <<>>
    BY <1>1, <1>4, NextJobBuilt
  <2>2. block.pc = "pick" => ~c.plan.same
    <3>1. block.pc = "pick" => block.each > 0
      BY <2>1 DEF Sound, Phase
    <3>2. ~Even(block.plan) => block.each = 0
      BY <2>1 DEF Sound, Built
    <3>3. ~(0 > 0)
      OBVIOUS
    <3> QED
      BY <2>1, <3>1, <3>2, <3>3 DEF Even
  <2> QED
    BY <1>1, <2>1, <2>2, SameNodesMade
<1>5. CASE Lock
  <2>1. c.plan = block.plan /\ c.nodes = block.nodes /\ block # None /\ c.jobs = block.jobs
    BY <1>1, <1>5, LockBuilt
  <2> QED
    BY <1>1, <2>1, SameNodesMade
<1>6. CASE NoSuchClass
  <2>1. c.plan = block.plan /\ c.nodes = block.nodes /\ block # None /\ c.jobs = block.jobs
    BY <1>1, <1>6, SkippedOne
  <2> QED
    BY <1>1, <2>1, SameNodesMade
<1>7. CASE add_host
  <2>1. c.plan = block.plan /\ c.nodes = block.nodes /\ block # None /\ c.jobs = block.jobs
    BY <1>1, <1>7, AddHostBuilt
  <2> QED
    BY <1>1, <2>1, SameNodesMade
<1>8. CASE Unlock
  <2>1. /\ c.plan = block.plan /\ c.nodes = block.nodes /\ block # None /\ c.jobs = Tail(block.jobs)
        /\ Sound(block) /\ block.jobs # <<>>
    BY <1>1, <1>8, UnlockBuilt
  <2>2. PICK j, q : j = block.jobs /\ q = Tail(block.jobs)
    OBVIOUS
  <2>3. PICK n \in Nat : n = Len(j) /\ Len(q) = n - 1 /\ \A i \in 1 .. Len(q) : q[i] = j[i + 1]
    BY <2>1, <2>2, FirstJob DEF Sound
  <2>4. block.plan.same => AllMade(j, m)
    BY <1>1, <2>1, <2>2 DEF BlockMade
  <2>5. \A i \in 1 .. n - 1 : i + 1 \in 1 .. n
    OBVIOUS
  <2>6. AllMade(j, m) => AllMade(q, m)
    BY <2>3, <2>5 DEF AllMade
  <2>7. AllMade(c.nodes, m)
    BY <1>1, <2>1 DEF BlockMade
  <2> QED
    BY <1>1, <2>1, <2>2, <2>4, <2>6, <2>7 DEF BlockMade
<1> QED
  BY <1>2, <1>3, <1>4, <1>5, <1>6, <1>7, <1>8

LEMMA OneMade ==
    ASSUME Shape, BlockMade(block, made), instantiate_node
    PROVE  BlockMade(block', made)
<1>1. At("make") /\ block # None
  BY TargetIs DEF instantiate_node, Making
<1>2. PICK c, m, n : c = block' /\ m = made /\ n = NewNode(Target)
  OBVIOUS
<1>3. /\ c.plan = block.plan /\ c.jobs = block.jobs /\ c.nodes = Append(block.nodes, n)
  BY <1>2, MadeOne
<1>4. n.thread \in 0 .. m - 1
  BY <1>1, <1>2, NewNodeIs, WhereMade DEF MadeThreads
<1>5. PICK s \in Seq(Nodes), k \in Nat : s = block.nodes /\ k = Len(s)
  BY <1>1, BlockFields, LenProperties DEF Shape, Sound
<1>6. /\ Len(Append(s, n)) = k + 1 /\ Append(s, n)[k + 1] = n
      /\ \A i \in 1 .. k : Append(s, n)[i] = s[i]
  BY <1>1, <1>2, <1>5, NewNodeIs, AppendProperties
<1>7. AllMade(s, m)
  BY <1>1, <1>2, <1>5 DEF BlockMade
<1>8. PICK t : t = Append(s, n)
  OBVIOUS
<1>9. \A i \in 1 .. k + 1 : i \in 1 .. k \/ i = k + 1
  OBVIOUS
<1>10. AllMade(t, m)
  BY <1>4, <1>5, <1>6, <1>7, <1>8, <1>9 DEF AllMade
<1> QED
  BY <1>1, <1>2, <1>3, <1>5, <1>8, <1>10 DEF BlockMade

LEMMA EnteredMade ==
    ASSUME Shape, NEW m, BlockMade(block, m), ListsMade(hosts, m), ListsMade(local_hosts, m), add_host
    PROVE  ListsMade(hosts', m) /\ ListsMade(local_hosts', m)
<1>1. block # None /\ block.plan.grp \in Groups /\ AddHostIs(block.plan.grp) /\ Lists
  BY AddHostBuilt DEF Shape
<1>2. PICK h \in Groups, b \in Blocks : h = block.plan.grp /\ b = MadeBlock /\ AllMade(b.nodes, m)
  BY <1>1, MadeBlockIs DEF BlockMade
<1>3. ASSUME NEW f \in [Groups -> Seq(Blocks)], ListsMade(f, m)
      PROVE  ListsMade([f EXCEPT ![h] = Append(@, b)], m)
  <2>1. PICK s \in Seq(Blocks), k \in Nat : s = f[h] /\ k = Len(s)
    BY <1>2, LenProperties
  <2>2. /\ Len(Append(s, b)) = k + 1 /\ Append(s, b)[k + 1] = b
        /\ \A i \in 1 .. k : Append(s, b)[i] = s[i]
    BY <2>1, AppendProperties
  <2>3. \A i \in 1 .. k : AllMade(s[i].nodes, m)
    BY <1>2, <1>3, <2>1 DEF ListsMade
  <2>4. PICK t : t = Append(s, b)
    OBVIOUS
  <2>5. \A i \in 1 .. k + 1 : i \in 1 .. k \/ i = k + 1
    OBVIOUS
  <2>6. Len(t) = k + 1 /\ \A i \in 1 .. k + 1 : AllMade(t[i].nodes, m)
    BY <1>2, <2>2, <2>3, <2>4, <2>5
  <2>7. PICK f2 : f2 = [f EXCEPT ![h] = Append(@, b)]
    OBVIOUS
  <2>8. f2[h] = t /\ \A x \in Groups \ {h} : f2[x] = f[x]
    BY <1>2, <2>1, <2>4, <2>7
  <2>9. ASSUME NEW x \in Groups PROVE \A i \in 1 .. Len(f2[x]) : AllMade(f2[x][i].nodes, m)
    <3>1. CASE x = h
      BY <2>6, <2>8, <3>1
    <3>2. CASE x # h
      BY <1>3, <2>8, <3>2 DEF ListsMade
    <3> QED
      BY <3>1, <3>2
  <2>10. ListsMade(f2, m)
    BY <2>9 DEF ListsMade
  <2> QED
    BY <2>7, <2>10
<1> QED
  BY <1>1, <1>2, <1>3 DEF AddHostIs, Lists

(* What threw is on no thread.                                            *)
LEMMA ThrownMade ==
    ASSUME Shape, OrphansOf, BlockMade(block, made), OrphansMade(orphans, made), InitThrows
    PROVE  OrphansMade(orphans', made)
<1>1. /\ block # None /\ Sound(block) /\ block.plan.grp \in Groups
      /\ orphans' = [orphans EXCEPT ![block.plan.grp] = @ \cup ToSet(block.nodes) \cup {NewNode(-1)}]
  BY ThrownIs
<1>2. At("make") /\ made \in Nat
  BY DEF InitThrows, Making, Shape, Array
<1>3. PICK h \in Groups, m \in Nat, z \in {NewNode(-1)} : h = block.plan.grp /\ m = made
  BY <1>1, <1>2
<1>4. z.thread \in -1 .. m - 1
  BY <1>2, <1>3, NewNodeIs
<1>5. \A n \in ToSet(block.nodes) : n.thread \in -1 .. m - 1
  <2>1. DOMAIN block.nodes = 1 .. Len(block.nodes)
    BY <1>1, BlockFields, LenProperties DEF Sound
  <2>2. 0 .. m - 1 \subseteq -1 .. m - 1
    OBVIOUS
  <2> QED
    BY <1>1, <1>3, <2>1, <2>2 DEF BlockMade, AllMade, ToSet
<1>6. PICK S : S = ToSet(block.nodes)
  OBVIOUS
<1>7. PICK f : f = orphans'
  OBVIOUS
<1>8. f[h] = orphans[h] \cup S \cup {z} /\ \A x \in Groups \ {h} : f[x] = orphans[x]
  BY <1>1, <1>3, <1>6, <1>7 DEF OrphansOf
<1>9. ASSUME NEW x \in Groups PROVE \A n \in f[x] : n.thread \in -1 .. m - 1
  BY <1>3, <1>4, <1>5, <1>6, <1>8 DEF OrphansMade
<1>10. OrphansMade(f, m)
  BY <1>9 DEF OrphansMade
<1> QED
  BY <1>3, <1>7, <1>10

LEMMA AttendingStep ==
    ASSUME Shape, Shape', Attending, BlockMade(block, made), NextGrowth
    PROVE  Attending'
<1>1. script' = script /\ lib' = lib
  BY OneLine
<1>2. /\ made \in Nat /\ made' \in Nat /\ started \in 0 .. made /\ started' \in 0 .. made'
  BY DEF Shape, Array
<1>3. CASE Others
  <2>1. UNCHANGED <<locked, made, started>>
    BY <1>3, OthersOnly
  <2>2. finished' \subseteq away' /\ away' \subseteq left'
    BY <1>3 DEF Others, Leave, Return, agml_thread_end, Attending
  <2>3. quitting' \subseteq 0 .. started - 1
    <3>1. ASSUME NEW t \in 0 .. made - 1, NEW n, Leave(t, n) PROVE quitting' \subseteq 0 .. started - 1
      <4>1. t \in 0 .. started - 1
        BY <1>2, <3>1 DEF Leave
      <4> QED
        BY <3>1, <4>1 DEF Leave, Attending
    <3>2. quitting' = quitting \/ \E t \in 0 .. made - 1 : \E n : Leave(t, n)
      BY <1>3 DEF Others, Return, agml_thread_end
    <3> QED
      BY <3>1, <3>2 DEF Attending
  <2> QED
    BY <1>1, <2>1, <2>2, <2>3 DEF Attending, MadeThreads
<1>4. CASE ~Others
  <2>1. /\ UNCHANGED <<quitting, away, left, finished>> /\ started <= started' /\ made <= made'
    <3>1. CASE execute_statement_declare_host
      <4>1. DeclThreads[Me] \in Nat
        BY ConstantsAssumption DEF Hosts
      <4> QED
        BY <1>2, <3>1, <4>1 DEF execute_statement_declare_host, life
    <3>2. CASE agml_threads_start
      BY <1>2, <3>2 DEF agml_threads_start, array
    <3>3. CASE ~execute_statement_declare_host /\ ~agml_threads_start
      <4>1. UNCHANGED <<quitting, away, left, finished, started, made>>
        BY <1>4, <3>3 DEF NextGrowth, Reader, life, array,
           execute_statement_add_group, execute_statement_assign, assign_same_as,
           NewBlock, threads_get_lightest, Share, NextJob, Lock, instantiate_node, NoSuchClass,
           InitThrows, Unlock, add_host, BlockDone
      <4> QED
        BY <1>2, <4>1
    <3> QED
      BY <3>1, <3>2, <3>3
  <2>2. locked' \subseteq 0 .. made - 1
    <3>1. CASE Lock
      <4>1. /\ block # None /\ block.jobs # <<>>
            /\ locked' = locked \/ (InReach /\ locked' = locked \cup {Target})
        BY <3>1, LockBuilt
      <4>2. InReach => Target \in 0 .. made - 1
        BY <4>1, JobMade DEF MadeThreads
      <4> QED
        BY <4>1, <4>2 DEF Attending, MadeThreads
    <3>2. CASE Unlock
      BY <3>2, UnlockBuilt DEF Attending, MadeThreads
    <3>3. CASE ~Lock /\ ~Unlock
      <4>1. locked' = locked
        BY <1>4, <3>3 DEF NextGrowth, Reader, execute_statement_declare_host,
           execute_statement_add_group, execute_statement_assign, assign_same_as, agml_threads_start,
           NewBlock, threads_get_lightest, Share, NextJob, instantiate_node, NoSuchClass,
           InitThrows, add_host, BlockDone
      <4> QED
        BY <4>1 DEF Attending, MadeThreads
    <3> QED
      BY <3>1, <3>2, <3>3
  <2>3. 0 .. made - 1 \subseteq 0 .. made' - 1 /\ 0 .. started - 1 \subseteq 0 .. started' - 1
    <3>1. \A a, b \in Nat : a <= b => 0 .. a - 1 \subseteq 0 .. b - 1
      OBVIOUS
    <3>2. started \in Nat /\ started' \in Nat
      BY <1>2
    <3> QED
      BY <1>2, <2>1, <3>1, <3>2
  <2> QED
    BY <1>1, <2>1, <2>2, <2>3 DEF Attending, MadeThreads
<1> QED
  BY <1>3, <1>4

LEMMA MadeNext ==
    ASSUME NEW m, ListsMade(hosts', m), ListsMade(local_hosts', m), PlansMade(plans', m),
           BlockMade(block', m), OrphansMade(orphans', m)
    PROVE  NodesMade(m)'
BY DEF NodesMade, ListsMade, PlansMade, PlanMade, BlockMade, OrphansMade, AllMade

LEMMA NodesMadeStep ==
    ASSUME Shape, Shape', OrphansOf, NodesMade(made), NextGrowth
    PROVE  NodesMade(made)'
<1>1. made \in Nat /\ made' \in Nat
  BY DEF Shape, Array
<1>2. PICK m \in Nat : m = made
  BY <1>1
<1>3. /\ ListsMade(hosts, m) /\ ListsMade(local_hosts, m) /\ PlansMade(plans, m)
      /\ BlockMade(block, m) /\ OrphansMade(orphans, m)
  BY <1>2 DEF NodesMade
<1>4. CASE execute_statement_declare_host
  <2>1. UNCHANGED <<plans, hosts, local_hosts, block, orphans>>
    BY <1>4 DEF execute_statement_declare_host, lists
  <2>2. made <= made'
    <3>1. DeclThreads[Me] \in Nat
      BY ConstantsAssumption DEF Hosts
    <3> QED
      BY <1>1, <1>4, <3>1 DEF execute_statement_declare_host
  <2>3. PICK n \in Nat : n = made' /\ m <= n
    BY <1>1, <1>2, <2>2
  <2>4. NodesMade(n)
    BY <1>2, <2>3, MadeMore
  <2>5. ListsMade(hosts', n) /\ ListsMade(local_hosts', n) /\ PlansMade(plans', n)
        /\ BlockMade(block', n) /\ OrphansMade(orphans', n)
    BY <2>1, <2>4 DEF NodesMade
  <2> QED
    BY <2>3, <2>5, MadeNext
<1>5. CASE ~execute_statement_declare_host
  <2>1. made' = m
    BY <1>2, <1>5, OthersOnly DEF NextGrowth, Reader, array,
       execute_statement_add_group, execute_statement_assign, assign_same_as, agml_threads_start,
       NewBlock, threads_get_lightest, Share, NextJob, Lock, instantiate_node, NoSuchClass,
       InitThrows, Unlock, add_host, BlockDone
  <2>2. ListsMade(hosts', m) /\ ListsMade(local_hosts', m)
    <3>1. CASE add_host
      BY <1>3, <3>1, EnteredMade
    <3>2. CASE ~add_host
      <4>1. hosts' = hosts /\ local_hosts' = local_hosts
        BY <1>5, <3>2, OthersOnly DEF NextGrowth, Reader, lists,
           execute_statement_add_group, execute_statement_assign, assign_same_as, agml_threads_start,
           NewBlock, threads_get_lightest, Share, NextJob, Lock, instantiate_node, NoSuchClass,
           InitThrows, Unlock, BlockDone
      <4> QED
        BY <1>3, <4>1
    <3> QED
      BY <3>1, <3>2
  <2>3. PlansMade(plans', m)
    <3>1. CASE execute_statement_assign \/ assign_same_as \/ NewBlock
      BY <1>3, <3>1, AssignMade, SameMade, NewMade
    <3>2. CASE InitThrows
      BY <3>2, ThrownIs, NoneMade
    <3>3. CASE ~(execute_statement_assign \/ assign_same_as \/ NewBlock \/ InitThrows)
      <4>1. plans' = plans
        BY <1>5, <3>3, OthersOnly DEF NextGrowth, Reader, reading,
           execute_statement_add_group, agml_threads_start,
           threads_get_lightest, Share, NextJob, Lock, instantiate_node, NoSuchClass,
           Unlock, add_host, BlockDone
      <4> QED
        BY <1>3, <4>1
    <3> QED
      BY <3>1, <3>2, <3>3
  <2>4. BlockMade(block', m)
    <3>1. CASE NewBlock
      BY <1>3, <3>1, NewMade
    <3>2. CASE \/ threads_get_lightest \/ Share \/ NextJob \/ Lock \/ NoSuchClass \/ Unlock
               \/ add_host \/ instantiate_node
      BY <1>2, <1>3, <3>2, WorkedMade, OneMade
    <3>3. CASE InitThrows \/ BlockDone
      <4>1. block' = None
        BY <3>3, ThrownIs DEF BlockDone
      <4> QED
        BY <4>1, NoneMade
    <3>4. CASE ~(\/ NewBlock \/ threads_get_lightest \/ Share \/ NextJob \/ Lock \/ NoSuchClass
                 \/ Unlock \/ add_host \/ instantiate_node \/ InitThrows \/ BlockDone)
      <4>1. block' = block
        BY <1>5, <3>4, OthersOnly DEF NextGrowth, Reader,
           execute_statement_add_group, execute_statement_assign, assign_same_as, agml_threads_start
      <4> QED
        BY <1>3, <4>1
    <3> QED
      BY <3>1, <3>2, <3>3, <3>4
  <2>5. OrphansMade(orphans', m)
    <3>1. CASE InitThrows
      BY <1>2, <1>3, <3>1, ThrownMade
    <3>2. CASE ~InitThrows
      <4>1. orphans' = orphans
        BY <3>2, OneLine
      <4> QED
        BY <1>3, <4>1
    <3> QED
      BY <3>1, <3>2
  <2> QED
    BY <2>1, <2>2, <2>3, <2>4, <2>5, MadeNext
<1> QED
  BY <1>4, <1>5

LEMMA ThreadsHold == SpecGrowth => []InThreads
<1>1. Shape /\ Shape' /\ OrphansOf /\ InThreads /\ [NextGrowth]_growth => InThreads'
  <2> SUFFICES ASSUME Shape, Shape', OrphansOf, InThreads, [NextGrowth]_growth PROVE InThreads'
    OBVIOUS
  <2>1. CASE NextGrowth
    BY <2>1, NodesMadeStep, AttendingStep DEF InThreads, NodesMade
  <2>2. CASE UNCHANGED growth
    <3>1. /\ UNCHANGED <<script, lib, made, started, locked, quitting, away, left, finished>>
          /\ UNCHANGED <<plans, hosts, local_hosts, block, orphans>>
      BY <2>2 DEF growth, reading, array, lists, life
    <3>2. Attending'
      BY <3>1 DEF InThreads, Attending, MadeThreads
    <3>3. PICK m : m = made /\ NodesMade(m)
      BY DEF InThreads
    <3>4. NodesMade(m)'
      BY <3>1, <3>3, MadeNext DEF NodesMade
    <3> QED
      BY <3>1, <3>2, <3>3, <3>4 DEF InThreads
  <2> QED
    BY <2>1, <2>2
<1> QED
  BY <1>1, StartedInThreads, Shapes, Orphans, PTL DEF SpecGrowth

(* All nodes of this daemon are on threads that were made, or on none.     *)
LEMMA NodesOnThreads ==
    ASSUME Shape, NodesMade(made), NEW g \in Groups
    PROVE  \A n \in NodesOf(g) : n.thread \in -1 .. made - 1
<1>1. PICK m \in Nat : m = made
  BY DEF Shape, Array
<1>2. 0 .. m - 1 \subseteq -1 .. m - 1
  OBVIOUS
<1>3. PICK S : S = {n \in Nodes : n.thread \in 0 .. m - 1}
  OBVIOUS
<1>4. ASSUME NEW s \in Seq(Nodes), AllMade(s, m) PROVE s \in Seq(S) /\ ToSet(s) \subseteq S
  <2>1. PICK k \in Nat : k = Len(s) /\ DOMAIN s = 1 .. k
    BY LenProperties
  <2>2. \A i \in 1 .. k : s[i] \in S
    BY <1>3, <1>4, <2>1, ElementOfSeq DEF AllMade
  <2>3. s \in [1 .. k -> S]
    BY <2>1, <2>2, SeqDef
  <2>4. s \in Seq(S)
    BY <2>3, SeqDef
  <2> QED
    BY <2>1, <2>2, <2>4 DEF ToSet
<1>5. ToSet(LocalNodes(g)) \subseteq S
  <2>1. PICK l \in Seq(Blocks) : l = local_hosts[g]
    BY DEF Shape, Lists
  <2>2. PICK k \in Nat : k = Len(l) /\ DOMAIN l = 1 .. k /\ \A i \in 1 .. k : l[i] \in Blocks
    BY LenProperties, ElementOfSeq
  <2>3. \A i \in 1 .. k : l[i].nodes \in Seq(S)
    BY <1>1, <1>4, <2>1, <2>2 DEF NodesMade, ListsMade, Blocks
  <2>4. PICK f : f = [i \in DOMAIN l |-> l[i].nodes]
    OBVIOUS
  <2>5. f \in Seq(Seq(S))
    <3>1. f \in [1 .. k -> Seq(S)]
      BY <2>2, <2>3, <2>4
    <3> QED
      BY <3>1, SeqDef
  <2>6. PICK r : r = FlattenSeq(f) /\ r \in Seq(S)
    BY <2>5, FlatType
  <2>7. \A i \in DOMAIN r : r[i] \in S
    BY <2>6, LenProperties, ElementOfSeq
  <2> QED
    BY <2>1, <2>4, <2>6, <2>7 DEF LocalNodes, ToSet
<1>6. block # None => ToSet(block.nodes) \subseteq S
  BY <1>1, <1>4, BlockFields DEF Shape, Sound, NodesMade, BlockMade
<1>7. \A n \in orphans[g] : n.thread \in -1 .. m - 1
  BY <1>1 DEF NodesMade, OrphansMade
<1> QED
  BY <1>1, <1>2, <1>3, <1>5, <1>6, <1>7 DEF NodesOf

LEMMA GrowthTyped ==
    ASSUME Shape, Reads, InThreads
    PROVE  TypeGrowth
<1>1. /\ script \in Scripts /\ lib \subseteq Files /\ pos \in 0 .. Len(script) /\ groups \in Seq(Groups)
      /\ quitting \subseteq 0 .. started - 1 /\ finished \subseteq away /\ away \subseteq left
  BY DEF Shape, Text, Reads, InThreads, Attending
<1>2. /\ made \in Nat /\ started \in 0 .. made /\ slots \in Seq(0 .. made - 1)
      /\ nbThreads \in 0 .. Len(slots) /\ locked \subseteq 0 .. made - 1
      /\ \A i, j \in 1 .. nbThreads : slots[i] = slots[j] => i = j
  BY DEF Shape, Array, InThreads, Attending, MadeThreads
<1>3. ASSUME NEW g \in Groups
      PROVE  /\ nb_nodes[g] \in Nat /\ nb_local_nodes[g] \in Nat
             /\ \A b \in ToSet(hosts[g]) \cup ToSet(local_hosts[g]) :
                   b.host \in Hosts /\ b.nb \in Nat /\ b.nodes \in Seq(Nodes)
             /\ \A n \in NodesOf(g) : n.thread \in -1 .. made - 1
  <2>1. /\ nb_nodes[g] \in Nat /\ nb_local_nodes[g] \in Nat
        /\ hosts[g] \in Seq(Blocks) /\ local_hosts[g] \in Seq(Blocks)
    BY DEF Shape, Lists
  <2>2. ToSet(hosts[g]) \cup ToSet(local_hosts[g]) \subseteq Blocks
    BY <2>1, ElementOfSeq, LenProperties DEF ToSet
  <2>3. \A b \in Blocks : b.host \in Hosts /\ b.nb \in Nat /\ b.nodes \in Seq(Nodes)
    BY DEF Blocks
  <2> QED
    BY <2>1, <2>2, <2>3, NodesOnThreads DEF InThreads
<1>4. block # None => block.nodes \in Seq(Nodes)
  BY BlockFields DEF Shape, Sound
<1>5. At("crash") => nbThreads = 0 \/ block.plan.thread >= Len(slots)
  BY DEF At, Shape, Sound, InArray
<1> QED
  BY <1>1, <1>2, <1>3, <1>4, <1>5 DEF TypeGrowth

LEMMA StoreIds ==
    ASSUME script \in Seq(Statements), rpos \in 0 .. Len(script), StoreTyped
    PROVE  remote_infos \in [Groups -> Seq(Nat \cup {Zero})]
<1>1. ASSUME NEW g \in Groups PROVE remote_infos[g] \in Seq(Nat \cup {Zero})
  <2>1. CASE remote_infos[g] = <<>>
    BY <2>1
  <2>2. CASE remote_infos[g] # <<>>
    <3>1. PICK i \in DOMAIN RootHosts[g] :
             FirstHere(g, i) /\ remote_infos[g] \in [1 .. RootHosts[g][i].nb -> InfoNumbers]
      BY <2>2 DEF StoreTyped, StoredFor
    <3>2. RootHosts \in Tables
      BY DeclaredType DEF RootHosts
    <3>5. PICK l \in Seq(Entries) : l = RootHosts[g]
      BY <3>2 DEF Tables
    <3>6. l[i] \in Entries
      BY <3>1, <3>5, ElementOfSeq, LenProperties
    <3>3. PICK n \in Nat : n = RootHosts[g][i].nb
      BY <3>5, <3>6 DEF Entries
    <3>7. PICK x \in [1 .. n -> InfoNumbers] : x = remote_infos[g]
      BY <3>1, <3>3
    <3>8. \A S : \A m \in Nat : \A f \in [1 .. m -> S] : f \in Seq(S)
      OBVIOUS
    <3>4. remote_infos[g] \in Seq(InfoNumbers)
      BY <3>7, <3>8
    <3> QED
      BY <3>4 DEF InfoNumbers
  <2> QED
    BY <2>1, <2>2
<1> QED
  BY <1>1 DEF StoreTyped

(* Whatever models are read, and whichever threads end meanwhile, nodes,   *)
(* mutexes and what is left in the memory of the array are of threads that *)
(* were made, no thread is twice in the array, and the reading thread      *)
(* follows no wrong pointer unless a line names a thread that is not there *)
(* or the last one has ended; an information is about a node or none.      *)
THEOREM InfosTypeCorrect == Spec => []TypeOK
<1>1. Shape /\ Shape' /\ Reads /\ InfosTyped /\ [Next]_vars => InfosTyped'
  BY TypedStep
<1>2. InfosInv => Reads
  BY DEF InfosInv
<1>3. Shape /\ Reads /\ InThreads /\ InfosTyped => TypeOK
  <2> SUFFICES ASSUME Shape, Reads, InThreads, InfosTyped PROVE TypeOK
    OBVIOUS
  <2>1. TypeGrowth
    BY GrowthTyped
  <2>2. rpos \in 0 .. Len(script)
    BY DEF Reads
  <2>3. remote_infos \in [Groups -> Seq(Nat \cup {Zero})]
    BY <2>2, StoreIds DEF Shape, Text, InfosTyped
  <2> QED
    BY <2>1, <2>2, <2>3 DEF TypeOK, InfosTyped
<1> QED
  BY <1>1, <1>2, <1>3, InfosInvariant, StartedTyped, ThreadsHold, Shapes, OnlyMade, PTL DEF Spec
=============================================================================

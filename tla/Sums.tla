-------------------------------- MODULE Sums --------------------------------
(***************************************************************************)
(* Sums of functions over finite sets (SumFunction) and over queues, for   *)
(* the proofs about weights, and least elements.  The sums are folds, that *)
(* is recursive; what is proved of them uses no induction but least        *)
(* elements and tables of partial sums.                                    *)
(***************************************************************************)
EXTENDS Integers, FiniteSets, Functions, FiniteSetTheorems, TLAPS

LEMMA LeastNumber ==
    ASSUME NEW T, T \subseteq Nat, T # {}
    PROVE  \E n \in T : \A k \in T : n <= k
<1>1. \E x \in T : \A y \in T : ~(<<y, x>> \in OpToRel(<, Nat))
  BY NatLessThanWellFounded, WFMin
<1>2. \A x, y \in Nat : y < x => <<y, x>> \in OpToRel(<, Nat)
  BY DEF OpToRel
<1>3. PICK n \in T : \A k \in T : ~(k < n)
  BY <1>1, <1>2
<1> QED
  BY <1>3

LEMMA LeastSubset ==
    ASSUME NEW S, IsFiniteSet(S), NEW T, T \subseteq SUBSET S, T # {}
    PROVE  \E s \in T : \A t \in T : t \subseteq s => t = s
<1>1. T \subseteq FiniteSubsetsOf(S) /\ IsWellFoundedOn(StrictSubsetOrdering(S), FiniteSubsetsOf(S))
  BY FS_StrictSubsetOrderingWellFounded, FS_FiniteSubsetsOfFinite
<1>2. \E x \in T : \A y \in T : ~(<<y, x>> \in StrictSubsetOrdering(S))
  BY <1>1, WFMin
<1> QED
  BY <1>2 DEF StrictSubsetOrdering

SomeOf(s) == CHOOSE x \in s : TRUE

Row(g, f, s) == IF s = {} THEN 0 ELSE f[SomeOf(s)] + g[s \ {SomeOf(s)}]

IsTable(g, f, S) == g = [s \in SUBSET S |-> Row(g, f, s)]

TableUpto(g, f, S, n) ==
    /\ g = [s \in SUBSET S |-> g[s]]
    /\ \A s \in SUBSET S : Cardinality(s) <= n => g[s] = Row(g, f, s)

LEMMA SmallerSet ==
    ASSUME NEW S, IsFiniteSet(S), NEW s, s \subseteq S, s # {}
    PROVE  /\ SomeOf(s) \in s /\ s \ {SomeOf(s)} \subseteq S /\ s \ {SomeOf(s)} # s
           /\ IsFiniteSet(s) /\ Cardinality(s) \in Nat
           /\ Cardinality(s \ {SomeOf(s)}) = Cardinality(s) - 1
<1>1. SomeOf(s) \in s
  BY DEF SomeOf
<1>2. IsFiniteSet(s)
  BY FS_Subset
<1>3. Cardinality(s \ {SomeOf(s)}) = Cardinality(s) - 1
  BY <1>1, <1>2, FS_RemoveElement
<1>4. Cardinality(s) \in Nat
  BY <1>2, FS_CardinalityType
<1> QED
  BY <1>1, <1>2, <1>3, <1>4

LEMMA TableExists ==
    ASSUME NEW f, NEW S, IsFiniteSet(S)
    PROVE  \E g : IsTable(g, f, S)
<1>1. ASSUME NEW n \in Nat, NEW g, TableUpto(g, f, S, n)
      PROVE  \E h : TableUpto(h, f, S, n + 1)
  <2> DEFINE h == [s \in SUBSET S |-> Row(g, f, s)]
  <2>1. ASSUME NEW s \in SUBSET S, Cardinality(s) <= n + 1
        PROVE  h[s] = Row(h, f, s)
    <3>1. CASE s = {}
      BY <3>1 DEF Row
    <3>2. CASE s # {}
      <4> DEFINE t == s \ {SomeOf(s)}
      <4>1. t \in SUBSET S /\ Cardinality(t) <= n
        BY <2>1, <3>2, SmallerSet
      <4>2. g[t] = Row(g, f, t)
        BY <4>1, <1>1 DEF TableUpto
      <4>3. h[t] = g[t]
        BY <4>1, <4>2
      <4> QED
        BY <3>2, <4>3 DEF Row
    <3> QED
      BY <3>1, <3>2
  <2>2. h = [s \in SUBSET S |-> h[s]]
    OBVIOUS
  <2> QED
    BY <2>1, <2>2 DEF TableUpto
<1>2. \E g : TableUpto(g, f, S, 0)
  <2> DEFINE g == [s \in SUBSET S |-> 0]
  <2>1. ASSUME NEW s \in SUBSET S, Cardinality(s) <= 0 PROVE g[s] = Row(g, f, s)
    <3>1. s = {}
      <4>1. IsFiniteSet(s) /\ Cardinality(s) = 0
        BY <2>1, FS_Subset, FS_CardinalityType
      <4> QED
        BY <4>1, FS_EmptySet
    <3> QED
      BY <3>1 DEF Row
  <2> QED
    BY <2>1 DEF TableUpto
<1>3. \A n \in Nat : \E g : TableUpto(g, f, S, n)
  <2> DEFINE T == {n \in Nat : ~\E g : TableUpto(g, f, S, n)}
  <2> SUFFICES ASSUME T # {} PROVE FALSE
    OBVIOUS
  <2>1. PICK n \in T : \A k \in T : n <= k
    <3>1. T \subseteq Nat
      OBVIOUS
    <3> HIDE DEF T
    <3> QED
      BY <3>1, LeastNumber
  <2>2. n # 0
    BY <1>2
  <2>3. n - 1 \in Nat /\ n - 1 \notin T /\ (n - 1) + 1 = n
    BY <2>1, <2>2
  <2> QED
    BY <1>1, <2>1, <2>3
<1>4. Cardinality(S) \in Nat /\ \A s \in SUBSET S : Cardinality(s) <= Cardinality(S)
  BY FS_Subset, FS_CardinalityType
<1>5. PICK g : TableUpto(g, f, S, Cardinality(S))
  BY <1>3, <1>4
<1>6. IsTable(g, f, S)
  BY <1>4, <1>5 DEF TableUpto, IsTable
<1> QED
  BY <1>6

LEMMA SumTable ==
    ASSUME NEW f, IsFiniteSet(DOMAIN f)
    PROVE  \E g : IsTable(g, f, DOMAIN f) /\ SumFunction(f) = g[DOMAIN f]
<1> DEFINE S == DOMAIN f
           g == CHOOSE h : IsTable(h, f, S)
<1>1. IsTable(g, f, S)
  BY TableExists
<1>2. SumFunction(f) = g[S]
  BY DEF SumFunction, SumFunctionOnSet, FoldFunctionOnSet, MapThenFoldSet, IsTable, Row, SomeOf
<1> QED
  BY <1>1, <1>2

(* What a table gives does not depend on the order.                        *)
AddsUp(g, f, S) ==
    /\ g[{}] = 0
    /\ \A s \in SUBSET S : g[s] \in Int /\ \A x \in s : g[s] = f[x] + g[s \ {x}]

LEMMA TableAddsUp ==
    ASSUME NEW f, NEW S, IsFiniteSet(S), \A x \in S : f[x] \in Int, NEW g, IsTable(g, f, S)
    PROVE  AddsUp(g, f, S)
<1>1. g[{}] = 0
  BY DEF IsTable, Row
<1> DEFINE Fine(s) == g[s] \in Int /\ \A x \in s : g[s] = f[x] + g[s \ {x}]
           T == {s \in SUBSET S : ~Fine(s)}
<1>2. ASSUME NEW s \in SUBSET S, s # {}, \A t \in SUBSET S : t \subseteq s /\ t # s => Fine(t)
      PROVE  Fine(s)
  <2> DEFINE c == SomeOf(s)
  <2>1. c \in s
    BY <1>2, SmallerSet
  <2>2. g[s] = f[c] + g[s \ {c}]
    BY <1>2 DEF IsTable, Row
  <2>3. Fine(s \ {c})
    <3>1. s \ {c} \in SUBSET S /\ s \ {c} \subseteq s /\ s \ {c} # s
      BY <2>1
    <3> HIDE DEF Fine
    <3> QED
      BY <1>2, <3>1
  <2> HIDE DEF c
  <2>4. g[s] \in Int
    BY <2>1, <2>2, <2>3
  <2>5. ASSUME NEW x \in s, x # c PROVE g[s] = f[x] + g[s \ {x}]
    <3> DEFINE u == s \ {c}
               v == s \ {x}
    <3>1. u \ {x} = v \ {c}
      OBVIOUS
    <3>2. Fine(v)
      <4>1. v \in SUBSET S /\ v \subseteq s /\ v # s
        OBVIOUS
      <4> HIDE DEF Fine, v
      <4> QED
        BY <1>2, <4>1
    <3>3. g[u] = f[x] + g[u \ {x}]
      BY <2>3, <2>5
    <3>4. g[v] = f[c] + g[v \ {c}]
      BY <2>1, <2>5, <3>2
    <3>5. u \ {x} \in SUBSET S /\ Fine(u \ {x})
      <4>1. u \ {x} \in SUBSET S /\ u \ {x} \subseteq s /\ u \ {x} # s
        BY <2>1
      <4>2. u \ {x} \in SUBSET S
        OBVIOUS
      <4> HIDE DEF Fine, u
      <4> QED
        BY <1>2, <4>1
    <3>6. g[u \ {x}] \in Int /\ f[x] \in Int /\ f[c] \in Int
      BY <2>1, <3>5
    <3> HIDE DEF u, v, Fine
    <3>7. g[s] = f[c] + (f[x] + g[u \ {x}])
      BY <2>2, <3>3 DEF u
    <3>8. g[v] = f[c] + g[u \ {x}]
      BY <3>1, <3>4
    <3> QED
      BY <3>6, <3>7, <3>8 DEF v
  <2> QED
    BY <2>2, <2>4, <2>5
<1>3. T = {}
  <2> SUFFICES ASSUME T # {} PROVE FALSE
    OBVIOUS
  <2>1. T \subseteq SUBSET S
    OBVIOUS
  <2>2. PICK s \in T : \A t \in T : t \subseteq s => t = s
    <3> HIDE DEF T
    <3> QED
      BY <2>1, LeastSubset
  <2>3. s # {}
    BY <1>1
  <2>4. \A t \in SUBSET S : t \subseteq s /\ t # s => Fine(t)
    BY <2>2
  <2>5. s \in SUBSET S /\ ~Fine(s)
    BY <2>2
  <2> HIDE DEF Fine, T
  <2> QED
    BY <1>2, <2>3, <2>4, <2>5
<1> QED
  BY <1>1, <1>3 DEF AddsUp

(* Tables over matching elements match.                                    *)
LEMMA TablesMatch ==
    ASSUME NEW f, NEW S, IsFiniteSet(S), NEW g, AddsUp(g, f, S),
           NEW e, NEW R, NEW h, AddsUp(h, e, R),
           NEW pi, \A x \in S : pi[x] \in R /\ e[pi[x]] = f[x],
           \A x, y \in S : pi[x] = pi[y] => x = y
    PROVE  \A s \in SUBSET S : g[s] = h[{pi[x] : x \in s}]
<1> DEFINE Image(s) == {pi[x] : x \in s}
           T == {s \in SUBSET S : g[s] # h[Image(s)]}
<1>3. T = {}
  <2> SUFFICES ASSUME T # {} PROVE FALSE
    OBVIOUS
  <2>1. T \subseteq SUBSET S
    OBVIOUS
  <2>2. PICK s \in T : \A t \in T : t \subseteq s => t = s
    <3> HIDE DEF T
    <3> QED
      BY <2>1, LeastSubset
  <2>3. s \in SUBSET S /\ s # {}
    <3>1. Image({}) = {}
      OBVIOUS
    <3>2. g[{}] = h[Image({})]
      BY <3>1 DEF AddsUp
    <3> QED
      BY <2>1, <2>2, <3>2
  <2>4. PICK x \in s : TRUE
    BY <2>3
  <2> DEFINE t == s \ {x}
  <2>5. t \in SUBSET S /\ g[t] = h[Image(t)]
    <3>1. t \in SUBSET S /\ t \subseteq s /\ t # s
      BY <2>3, <2>4
    <3>2. t \notin T
      BY <2>2, <3>1
    <3> QED
      BY <3>1, <3>2
  <2>6. Image(s) \in SUBSET R /\ pi[x] \in Image(s)
    BY <2>3, <2>4
  <2>10. Image(s) \ {pi[x]} = Image(t)
    BY <2>3, <2>4
  <2>7. g[s] = f[x] + g[t]
    BY <2>3, <2>4 DEF AddsUp
  <2>8. h[Image(s)] = e[pi[x]] + h[Image(s) \ {pi[x]}]
    <3> HIDE DEF Image
    <3> QED
      BY <2>6 DEF AddsUp
  <2>9. e[pi[x]] = f[x] /\ g[s] # h[Image(s)]
    BY <2>2, <2>3, <2>4
  <2> HIDE DEF t, Image
  <2> QED
    BY <2>5, <2>7, <2>8, <2>9, <2>10
<1> QED
  BY <1>3

-----------------------------------------------------------------------------
(* Sums.                                                                   *)
Summable(f) == IsFiniteSet(DOMAIN f) /\ \A x \in DOMAIN f : f[x] \in Int

LEMMA SumEmpty ==
    ASSUME NEW f, DOMAIN f = {}
    PROVE  SumFunction(f) = 0
<1>1. IsFiniteSet(DOMAIN f)
  BY FS_EmptySet
<1>2. PICK g : IsTable(g, f, DOMAIN f) /\ SumFunction(f) = g[DOMAIN f]
  BY <1>1, SumTable
<1> QED
  BY <1>2 DEF IsTable, Row

LEMMA SumType ==
    ASSUME NEW f, Summable(f)
    PROVE  SumFunction(f) \in Int
<1>1. PICK g : IsTable(g, f, DOMAIN f) /\ SumFunction(f) = g[DOMAIN f]
  BY SumTable DEF Summable
<1>2. \A s \in SUBSET DOMAIN f : g[s] \in Int
  BY <1>1, TableAddsUp DEF Summable, AddsUp
<1> QED
  BY <1>1, <1>2

(* Sums of functions that match.                                           *)
Match(f, e, pi) ==
    /\ \A x \in DOMAIN f : pi[x] \in DOMAIN e /\ e[pi[x]] = f[x]
    /\ \A x, y \in DOMAIN f : pi[x] = pi[y] => x = y
    /\ \A y \in DOMAIN e : \E x \in DOMAIN f : y = pi[x]

LEMMA SumMatch ==
    ASSUME NEW f, Summable(f), NEW e, Summable(e), NEW pi, Match(f, e, pi)
    PROVE  SumFunction(f) = SumFunction(e)
<1> DEFINE S == DOMAIN f
           R == DOMAIN e
<1>1. PICK g : IsTable(g, f, S) /\ SumFunction(f) = g[S]
  BY SumTable DEF Summable
<1>2. PICK h : IsTable(h, e, R) /\ SumFunction(e) = h[R]
  BY SumTable DEF Summable
<1>3. \A s \in SUBSET S : g[s] = h[{pi[x] : x \in s}]
  <2>1. IsFiniteSet(S) /\ AddsUp(g, f, S)
    BY <1>1, TableAddsUp DEF Summable
  <2>2. AddsUp(h, e, R)
    BY <1>2, TableAddsUp DEF Summable
  <2>3. /\ \A x \in S : pi[x] \in R /\ e[pi[x]] = f[x]
        /\ \A x, y \in S : pi[x] = pi[y] => x = y
    BY DEF Match
  <2> HIDE DEF S, R
  <2> QED
    BY <2>1, <2>2, <2>3, TablesMatch
<1>4. {pi[x] : x \in S} = R
  BY DEF Match
<1> QED
  BY <1>1, <1>2, <1>3, <1>4

(* One element apart.                                                      *)
LEMMA SumSplit ==
    ASSUME NEW f, Summable(f), NEW x \in DOMAIN f, NEW e, Summable(e),
           DOMAIN e = DOMAIN f \ {x}, \A y \in DOMAIN e : e[y] = f[y]
    PROVE  SumFunction(f) = f[x] + SumFunction(e)
<1> DEFINE S == DOMAIN f
           R == DOMAIN e
           pi == [y \in R |-> y]
<1>1. PICK g : IsTable(g, f, S) /\ SumFunction(f) = g[S]
  BY SumTable DEF Summable
<1>2. PICK h : IsTable(h, e, R) /\ SumFunction(e) = h[R]
  BY SumTable DEF Summable
<1>3. g[S] = f[x] + g[S \ {x}]
  BY <1>1, TableAddsUp DEF Summable, AddsUp
<1>4. \A s \in SUBSET R : h[s] = g[{pi[y] : y \in s}]
  <2>1. /\ \A y \in R : pi[y] \in S /\ f[pi[y]] = e[y]
        /\ \A y, z \in R : pi[y] = pi[z] => y = z
    OBVIOUS
  <2>2. AddsUp(g, f, S)
    BY <1>1, TableAddsUp DEF Summable
  <2>3. IsFiniteSet(R) /\ AddsUp(h, e, R)
    BY <1>2, TableAddsUp DEF Summable
  <2> HIDE DEF S, R, pi
  <2> QED
    BY <2>1, <2>2, <2>3, TablesMatch
<1>5. {pi[y] : y \in R} = S \ {x}
  OBVIOUS
<1> QED
  BY <1>1, <1>2, <1>3, <1>4, <1>5

(* One value changes.                                                      *)
LEMMA SumUpdate ==
    ASSUME NEW f, Summable(f), NEW e, Summable(e), DOMAIN e = DOMAIN f,
           NEW x \in DOMAIN f, \A y \in DOMAIN f : y # x => e[y] = f[y]
    PROVE  SumFunction(e) = SumFunction(f) - f[x] + e[x]
<1> DEFINE r == [y \in DOMAIN f \ {x} |-> f[y]]
<1>1. IsFiniteSet(DOMAIN f \ {x})
  BY FS_RemoveElement DEF Summable
<1>2. Summable(r) /\ DOMAIN r = DOMAIN f \ {x}
  BY <1>1 DEF Summable
<1>3. \A y \in DOMAIN r : r[y] = f[y] /\ r[y] = e[y]
  OBVIOUS
<1> HIDE DEF r
<1>4. SumFunction(f) = f[x] + SumFunction(r)
  BY <1>2, <1>3, SumSplit
<1>5. SumFunction(e) = e[x] + SumFunction(r)
  BY <1>2, <1>3, SumSplit
<1>6. SumFunction(r) \in Int /\ f[x] \in Int /\ e[x] \in Int
  BY <1>2, SumType DEF Summable
<1> QED
  BY <1>4, <1>5, <1>6

(* Nothing changes.                                                        *)
LEMMA SumSame ==
    ASSUME NEW f, Summable(f), NEW e, Summable(e), DOMAIN e = DOMAIN f,
           \A y \in DOMAIN f : e[y] = f[y]
    PROVE  SumFunction(e) = SumFunction(f)
<1>1. CASE DOMAIN f = {}
  BY <1>1, SumEmpty
<1>2. CASE DOMAIN f # {}
  <2>1. PICK x : x \in DOMAIN f
    BY <1>2
  <2>2. SumFunction(e) = SumFunction(f) - f[x] + e[x]
    BY <2>1, SumUpdate
  <2>3. SumFunction(f) \in Int /\ f[x] \in Int /\ e[x] = f[x]
    BY <2>1, SumType DEF Summable
  <2> QED
    BY <2>2, <2>3
<1> QED
  BY <1>1, <1>2

(* The sum of two functions.                                               *)
LEMMA SumPlus ==
    ASSUME NEW f, Summable(f), NEW e, Summable(e), NEW d, Summable(d),
           DOMAIN e = DOMAIN f, DOMAIN d = DOMAIN f,
           \A x \in DOMAIN f : d[x] = f[x] + e[x]
    PROVE  SumFunction(d) = SumFunction(f) + SumFunction(e)
<1> DEFINE S == DOMAIN f
<1>1. PICK g : IsTable(g, f, S) /\ SumFunction(f) = g[S]
  BY SumTable DEF Summable
<1>2. PICK h : IsTable(h, e, S) /\ SumFunction(e) = h[S]
  BY SumTable DEF Summable
<1>3. PICK k : IsTable(k, d, S) /\ SumFunction(d) = k[S]
  BY SumTable DEF Summable
<1>4. IsFiniteSet(S) /\ AddsUp(g, f, S) /\ AddsUp(h, e, S) /\ AddsUp(k, d, S)
  BY <1>1, <1>2, <1>3, TableAddsUp DEF Summable
<1> DEFINE T == {s \in SUBSET S : k[s] # g[s] + h[s]}
<1>5. T = {}
  <2> SUFFICES ASSUME T # {} PROVE FALSE
    OBVIOUS
  <2>1. T \subseteq SUBSET S
    OBVIOUS
  <2>2. PICK s \in T : \A t \in T : t \subseteq s => t = s
    <3> HIDE DEF T
    <3> QED
      BY <1>4, <2>1, LeastSubset
  <2>3. s \in SUBSET S /\ s # {}
    <3>1. k[{}] = g[{}] + h[{}]
      BY <1>4 DEF AddsUp
    <3> QED
      BY <2>2, <3>1
  <2>4. PICK x \in s : TRUE
    BY <2>3
  <2> DEFINE t == s \ {x}
  <2>5. t \in SUBSET S /\ k[t] = g[t] + h[t]
    <3>1. t \in SUBSET S /\ t \subseteq s /\ t # s
      BY <2>3, <2>4
    <3>2. t \notin T
      BY <2>2, <3>1
    <3> QED
      BY <3>1, <3>2
  <2>6. g[s] = f[x] + g[t] /\ h[s] = e[x] + h[t] /\ k[s] = d[x] + k[t]
    BY <1>4, <2>3, <2>4 DEF AddsUp
  <2>7. g[t] \in Int /\ h[t] \in Int
    BY <1>4, <2>5 DEF AddsUp
  <2>8. f[x] \in Int /\ e[x] \in Int /\ d[x] = f[x] + e[x] /\ k[s] # g[s] + h[s]
    BY <2>2, <2>3, <2>4 DEF Summable
  <2> HIDE DEF t
  <2> QED
    BY <2>5, <2>6, <2>7, <2>8
<1>6. S \in SUBSET S /\ S \notin T
  BY <1>5
<1> QED
  BY <1>1, <1>2, <1>3, <1>6

LEMMA SumZero ==
    ASSUME NEW f, Summable(f), \A x \in DOMAIN f : f[x] = 0
    PROVE  SumFunction(f) = 0
<1>1. \A x \in DOMAIN f : f[x] = f[x] + f[x]
  OBVIOUS
<1>2. SumFunction(f) = SumFunction(f) + SumFunction(f)
  BY <1>1, SumPlus
<1> QED
  BY <1>2, SumType

(* Sequences of numbers.                                                   *)
LEMMA SumAppend ==
    ASSUME NEW n \in Nat, NEW f, Summable(f), DOMAIN f = 1 .. n,
           NEW e, Summable(e), DOMAIN e = 1 .. n + 1, \A i \in 1 .. n : e[i] = f[i]
    PROVE  SumFunction(e) = SumFunction(f) + e[n + 1]
<1> DEFINE x == n + 1
<1>1. x \in DOMAIN e /\ DOMAIN f = DOMAIN e \ {x} /\ \A y \in DOMAIN f : f[y] = e[y]
  OBVIOUS
<1> HIDE DEF x
<1>2. SumFunction(e) = e[x] + SumFunction(f)
  BY <1>1, SumSplit
<1>3. e[n + 1] \in Int /\ SumFunction(f) \in Int
  BY <1>1, SumType DEF Summable, x
<1> QED
  BY <1>2, <1>3 DEF x

LEMMA SumTail ==
    ASSUME NEW n \in Nat \ {0}, NEW f, Summable(f), DOMAIN f = 1 .. n,
           NEW e, Summable(e), DOMAIN e = 1 .. n - 1, \A i \in 1 .. n - 1 : e[i] = f[i + 1]
    PROVE  SumFunction(f) = f[1] + SumFunction(e)
<1> DEFINE r == [i \in 2 .. n |-> f[i]]
           pi == [i \in 1 .. n - 1 |-> i + 1]
<1>1. /\ 1 \in DOMAIN f /\ \A i \in DOMAIN r : r[i] = f[i]
      /\ DOMAIN r = DOMAIN f \ {1}
  <2>1. 2 .. n = (1 .. n) \ {1} /\ 1 \in 1 .. n
    OBVIOUS
  <2> QED
    BY <2>1
<1>2. Summable(r) /\ Summable(e)
  <2>1. IsFiniteSet(1 .. n) /\ 2 .. n \subseteq 1 .. n
    BY DEF Summable
  <2>2. IsFiniteSet(2 .. n)
    BY <2>1, FS_Subset
  <2>3. \A i \in 2 .. n : f[i] \in Int
    BY <2>1 DEF Summable
  <2> QED
    BY <2>2, <2>3 DEF Summable
<1>3. /\ \A x \in DOMAIN e : pi[x] \in DOMAIN r /\ r[pi[x]] = e[x]
      /\ \A x, y \in DOMAIN e : pi[x] = pi[y] => x = y
  OBVIOUS
<1>4. \A y \in DOMAIN r : \E x \in DOMAIN e : y = pi[x]
  <2> TAKE y \in DOMAIN r
  <2>1. y - 1 \in DOMAIN e /\ y = pi[y - 1]
    OBVIOUS
  <2> QED
    BY <2>1
<1>7. Match(e, r, pi)
  BY <1>3, <1>4 DEF Match
<1> HIDE DEF r, pi
<1>5. SumFunction(f) = f[1] + SumFunction(r)
  <2> DEFINE x == 1
  <2>1. x \in DOMAIN f /\ DOMAIN r = DOMAIN f \ {x}
    BY <1>1
  <2>3. \A y \in DOMAIN r : r[y] = f[y]
    BY <1>1
  <2> HIDE DEF x
  <2>2. SumFunction(f) = f[x] + SumFunction(r)
    BY <1>2, <2>1, <2>3, SumSplit
  <2> QED
    BY <2>2 DEF x
<1>6. SumFunction(e) = SumFunction(r)
  BY <1>2, <1>7, SumMatch
<1> QED
  BY <1>5, <1>6
=============================================================================

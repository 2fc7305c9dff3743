---------------------------- MODULE DaemonProofs ----------------------------
(***************************************************************************)
(* The life of a daemon process: why it stops, and what can make it crash, *)
(* for any number of simulation threads, clients and ports.  Then the node *)
(* groups it keeps: the counters, the routing of messages and the          *)
(* connections, for any hosts, groups and models.                          *)
(***************************************************************************)
EXTENDS Daemon, NodeGroups, Sums, SequenceTheorems, TLAPS

-----------------------------------------------------------------------------
(* The state of a daemon has its type: main tries no port beyond the last, *)
(* and a thread that leaves the array of threads, or joins it, is one of   *)
(* the model (main, agml_thread_end).                                      *)
THEOREM TypeCorrect == Spec => []TypeOK
<1>1. Init => TypeOK
  <2> SUFFICES ASSUME Init PROVE TypeOK
    OBVIOUS
  <2>1. port \in 1 .. NbPorts
    BY ConstantsAssumption DEF Init
  <2>2. ppc \in [Procs -> ProcPC] /\ threads \subseteq Threads
    BY DEF Init, ProcPC
  <2>3. mpc \in MainPC /\ apc \in AcceptPC /\ object \in {"none", "live", "freed"}
    BY DEF Init, MainPC, AcceptPC
  <2> QED
    BY <2>1, <2>2, <2>3 DEF Init, TypeOK
<1>2. TypeOK /\ [Next]_vars => TypeOK'
  <2> SUFFICES ASSUME TypeOK, [Next]_vars PROVE TypeOK'
    OBVIOUS
  <2>0. \A p \in Procs, l \in ProcPC : Goto(p, l) => ppc' \in [Procs -> ProcPC]
    BY DEF Goto, TypeOK
  <2>1. CASE UNCHANGED vars
    BY <2>1 DEF TypeOK, vars, mainVars, objectVars, workVars
  <2>2. CASE Construct
    <3>1. port' \in 1 .. NbPorts
      BY <2>2, ConstantsAssumption DEF Construct, NextPort, TypeOK
    <3>2. mpc' \in MainPC /\ apc' \in AcceptPC /\ object' \in {"none", "live", "freed"} /\ open' \in BOOLEAN
      BY <2>2 DEF Construct, TypeOK, MainPC, AcceptPC
    <3> QED
      BY <2>2, <3>1, <3>2 DEF Construct, TypeOK, workVars
  <2>3. CASE Assign \/ Enter \/ Join \/ Joined
    <3>1. mpc' \in MainPC /\ server' \in BOOLEAN /\ crashed' \in BOOLEAN
      BY <2>3 DEF Assign, Enter, Join, Joined, JoinOnly, TypeOK, MainPC
    <3> QED
      BY <2>3, <3>1 DEF Assign, Enter, Join, Joined, JoinOnly, TypeOK, objectVars, workVars
  <2>4. CASE MainModel
    <3>1. mpc' \in MainPC
      BY <2>4 DEF MainModel, MainPC
    <3>2. ppc' \in [Procs -> ProcPC] /\ threads' \subseteq Threads /\ started' \in BOOLEAN
      BY <2>4 DEF MainModel, StartModel, TypeOK, ProcPC, workVars
    <3> QED
      BY <2>4, <3>1, <3>2 DEF MainModel, TypeOK, objectVars
  <2>5. CASE AcceptStep
    BY <2>5 DEF AcceptStep, AcceptPC, TypeOK, mainVars, objectVars, workVars
  <2>6. ASSUME NEW c \in Clients, Connect(c) PROVE TypeOK'
    <3>1. ppc' \in [Procs -> ProcPC] /\ apc' \in AcceptPC
      BY <2>6 DEF Connect, TypeOK, ProcPC, AcceptPC
    <3> QED
      BY <2>6, <3>1 DEF Connect, TypeOK, mainVars, objectVars, workVars
  <2>7. ASSUME NEW c \in Clients, Command(c) PROVE TypeOK'
    <3>1. CASE Goto(c, "stop") /\ asked' = TRUE /\ UNCHANGED workVars
      <4>1. ppc' \in [Procs -> ProcPC]
        BY <2>0, <3>1 DEF Procs, ProcPC
      <4> QED
        BY <2>7, <3>1, <4>1 DEF Command, TypeOK, mainVars, objectVars, workVars
    <3>2. CASE /\ StartModel /\ asked' = asked
               /\ ppc' = [p \in Procs |-> IF p = c THEN "done"
                                          ELSE IF Started(p) THEN "run" ELSE ppc[p]]
      <4>1. ppc' \in [Procs -> ProcPC] /\ threads' \subseteq Threads /\ started' \in BOOLEAN
        BY <3>2 DEF StartModel, TypeOK, ProcPC
      <4> QED
        BY <2>7, <3>2, <4>1 DEF Command, TypeOK, mainVars, objectVars
    <3> QED
      BY <2>7, <3>1, <3>2 DEF Command
  <2>8. ASSUME NEW t \in Threads, ThreadEnd(t) PROVE TypeOK'
    <3>1. \E l \in ProcPC : Goto(t, l)
      BY <2>8 DEF ThreadEnd, ProcPC
    <3>2. ppc' \in [Procs -> ProcPC]
      BY <2>0, <3>1 DEF Procs
    <3> QED
      BY <2>8, <3>2 DEF ThreadEnd, TypeOK, mainVars, objectVars
  <2>9. ASSUME NEW p \in Procs, Close(p) PROVE TypeOK'
    <3>1. \E l \in ProcPC : Goto(p, l)
      BY <2>9 DEF Close, ProcPC
    <3>2. ppc' \in [Procs -> ProcPC]
      BY <2>0, <3>1
    <3>3. bClosed' \in BOOLEAN /\ shut' \in BOOLEAN /\ open' \in BOOLEAN
      BY <2>9 DEF Close, Shutdown, TypeOK
    <3> QED
      BY <2>9, <3>2, <3>3 DEF Close, TypeOK, mainVars, workVars
  <2>10. ASSUME NEW p \in Procs, Delete(p) \/ Forget(p) PROVE TypeOK'
    <3>1. ppc' = ppc \/ \E l \in ProcPC : Goto(p, l)
      BY <2>10 DEF Delete, Forget, ProcPC
    <3>2. ppc' \in [Procs -> ProcPC]
      BY <2>0, <3>1 DEF TypeOK
    <3>3. object' \in {"none", "live", "freed"} /\ crashed' \in BOOLEAN /\ server' \in BOOLEAN
      BY <2>10 DEF Delete, Forget, TypeOK, objectVars
    <3> QED
      BY <2>10, <3>2, <3>3 DEF Delete, Forget, TypeOK, mainVars, objectVars, workVars
  <2> QED
    BY <2>1, <2>2, <2>3, <2>4, <2>5, <2>6, <2>7, <2>8, <2>9, <2>10 DEF Next, Main, ServerStop
<1> QED
  BY <1>1, <1>2, PTL DEF Spec

-----------------------------------------------------------------------------
Reason == asked \/ (started /\ threads = {})

(* A thread that has run belongs to a model that was read; whoever is in   *)
(* server_stop has a reason; nothing is closed or freed without one.       *)
ReasonInv ==
    /\ ppc \in [Procs -> ProcPC]
    /\ \A t \in Threads : ppc[t] # "new" => started
    /\ \A p \in Stoppers : Reason
    /\ bClosed \/ shut \/ object = "freed" => Reason

LEMMA ReasonStep == ReasonInv /\ [Next]_vars => ReasonInv'
<1> SUFFICES ASSUME ReasonInv, [Next]_vars PROVE ReasonInv'
    OBVIOUS
<1> USE ConstantsAssumption DEF ReasonInv, Reason, Stoppers, Procs, ProcPC
<1>1. CASE UNCHANGED vars
  BY <1>1 DEF vars, mainVars, objectVars, workVars
<1>2. CASE Main
  <2>1. CASE Construct
    BY <2>1 DEF Construct, workVars
  <2>2. CASE Assign
    BY <2>2 DEF Assign, objectVars, workVars
  <2>3. CASE MainModel
    BY <2>3 DEF MainModel, StartModel, Started, objectVars, workVars
  <2>4. CASE Join
    BY <2>4 DEF Join, objectVars, workVars
  <2>5. CASE Joined
    BY <2>5 DEF Joined, JoinOnly, workVars
  <2>6. CASE Enter
    BY <2>6 DEF Enter, objectVars, workVars
  <2> QED BY <1>2, <2>1, <2>2, <2>3, <2>4, <2>5, <2>6 DEF Main
<1>3. CASE AcceptStep
  BY <1>3 DEF AcceptStep, objectVars, workVars
<1>4. CASE \E c \in Clients : Connect(c)
  BY <1>4 DEF Connect, objectVars, workVars
<1>5. CASE \E c \in Clients : Command(c)
  <2> PICK c \in Clients : Command(c)
    BY <1>5
  <2>1. CASE asked' = TRUE /\ Goto(c, "stop") /\ UNCHANGED workVars
    BY <2>1 DEF Command, Goto, objectVars, workVars
  <2>2. CASE StartModel /\ UNCHANGED asked
    BY <2>2 DEF Command, At, Goto, StartModel, Started, objectVars, workVars
  <2> QED BY <2>1, <2>2 DEF Command
<1>6. CASE \E t \in Threads : ThreadEnd(t)
  BY <1>6 DEF ThreadEnd, LastEnd, At, Goto, objectVars
<1>7. CASE \E p \in Procs : ServerStop(p)
  <2> PICK p \in Procs : ServerStop(p)
    BY <1>7
  <2>1. CASE Close(p)
    BY <2>1 DEF Close, Shutdown, At, Goto, workVars
  <2>2. CASE Delete(p)
    BY <2>2 DEF Delete, At, Goto, workVars
  <2>3. CASE Forget(p)
    BY <2>3 DEF Forget, At, Goto, objectVars, workVars
  <2> QED BY <2>1, <2>2, <2>3 DEF ServerStop
<1> QED BY <1>1, <1>2, <1>3, <1>4, <1>5, <1>6, <1>7 DEF Next

(* The server is closed only because a client asked the daemon to exit or  *)
(* because every simulation thread has ended (agml_thread_end,             *)
(* agml_command_exit, server_stop), whatever races with what.              *)
THEOREM StopReason == Spec => []StopsForAReason
<1>1. Init => ReasonInv
  BY DEF Init, ReasonInv, Procs, ProcPC, Stoppers
<1>2. ReasonInv => StopsForAReason
  BY DEF ReasonInv, Reason, StopsForAReason
<1> QED BY <1>1, <1>2, ReasonStep, PTL DEF Spec

-----------------------------------------------------------------------------
(* A thread that has run belongs to a model that was read, so no thread is *)
(* set to run twice; whoever frees the object is about to forget the       *)
(* pointer or has; nobody leaves server_stop for anything else.            *)
CrashInv ==
    /\ ppc \in [Procs -> ProcPC]
    /\ \A t \in Threads : ppc[t] # "new" => started
    /\ object = "freed" => \E p \in Procs : ppc[p] \in {"null", "stopped"}
    /\ CrashCause

LEMMA CrashStep == CrashInv /\ [Next]_vars => CrashInv'
<1> SUFFICES ASSUME CrashInv, [Next]_vars PROVE CrashInv'
    OBVIOUS
<1> USE ConstantsAssumption DEF CrashInv, CrashCause, Stoppers, Procs, ProcPC
<1>1. CASE UNCHANGED vars
  BY <1>1 DEF vars, mainVars, objectVars, workVars
<1> SUFFICES ASSUME ~Gone, Next PROVE CrashInv'
    BY <1>1 DEF Next
<1>a. ~crashed
  BY DEF Gone
<1>2. CASE Main
  <2>1. CASE Construct
    BY <1>a, <2>1 DEF Construct, workVars
  <2>2. CASE Assign
    BY <1>a, <2>2 DEF Assign, objectVars, workVars
  <2>3. CASE MainModel
    <3>1. \A p \in Procs : ppc[p] # "new" => ppc'[p] = ppc[p]
      BY <2>3 DEF MainModel, StartModel, Started
    <3>2. ppc' \in [Procs -> ProcPC]
      BY <2>3 DEF MainModel, Started
    <3>3. \A t \in Threads : ppc'[t] # "new" => started'
      BY <2>3 DEF MainModel, StartModel, Started, workVars
    <3>4. UNCHANGED <<object, crashed>>
      BY <2>3 DEF MainModel, objectVars
    <3> QED BY <1>a, <3>1, <3>2, <3>3, <3>4
  <2>4. CASE Join
    BY <1>a, <2>4 DEF Join, objectVars, workVars
  <2>5. CASE Joined
    BY <1>a, <2>5 DEF Joined, JoinOnly, workVars
  <2>6. CASE Enter
    BY <1>a, <2>6 DEF Enter, objectVars, workVars
  <2> QED BY <1>2, <2>1, <2>2, <2>3, <2>4, <2>5, <2>6 DEF Main
<1>3. CASE AcceptStep
  BY <1>a, <1>3 DEF AcceptStep, mainVars, objectVars, workVars
<1>4. CASE \E c \in Clients : Connect(c)
  BY <1>a, <1>4 DEF Connect, mainVars, objectVars, workVars
<1>5. CASE \E c \in Clients : Command(c)
  <2> PICK c \in Clients : Command(c)
    BY <1>5
  <2>1. CASE asked' = TRUE /\ Goto(c, "stop") /\ UNCHANGED workVars
    BY <1>a, <2>1 DEF Command, At, Goto, mainVars, objectVars, workVars
  <2>2. CASE /\ StartModel
             /\ ppc' = [p \in Procs |-> IF p = c THEN "done"
                                        ELSE IF Started(p) THEN "run" ELSE ppc[p]]
    <3>1. \A p \in Procs : ppc[p] \in {"null", "stopped"} => ppc'[p] = ppc[p]
      BY <2>2 DEF Command, At, Started
    <3>2. ppc' \in [Procs -> ProcPC]
      BY <2>2 DEF Started
    <3>3. \A t \in Threads : ppc'[t] # "new" => started'
      BY <2>2 DEF StartModel
    <3>4. UNCHANGED <<object, crashed>>
      BY DEF Command, objectVars
    <3> QED BY <1>a, <3>1, <3>2, <3>3, <3>4
  <2> QED BY <2>1, <2>2 DEF Command
<1>6. CASE \E t \in Threads : ThreadEnd(t)
  BY <1>a, <1>6 DEF ThreadEnd, At, Goto, mainVars, objectVars
<1>7. CASE \E p \in Procs : ServerStop(p)
  <2> PICK p \in Procs : ServerStop(p)
    BY <1>7
  <2>1. CASE Close(p)
    BY <1>a, <2>1 DEF Close, At, Goto, mainVars, workVars
  <2>2. CASE Delete(p)
    <3>1. CASE ~server \/ object = "live"
      BY <1>a, <2>2, <3>1 DEF Delete, At, Goto, mainVars, workVars
    <3>2. CASE object = "freed"
      <4> PICK q \in Procs : ppc[q] \in {"null", "stopped"}
        BY <3>2
      <4>1. p # q /\ {p, q} \subseteq Stoppers'
        BY <2>2 DEF Delete, At, Goto
      <4>2. ppc' \in [Procs -> ProcPC] /\ ppc'[q] = ppc[q]
        BY <2>2, <4>1 DEF Delete, At, Goto
      <4>3. \A t \in Threads : ppc'[t] # "new" => started'
        BY <2>2, <4>1 DEF Delete, At, Goto, workVars
      <4> QED BY <4>1, <4>2, <4>3
    <3> QED BY <2>2, <3>1, <3>2 DEF Delete
  <2>3. CASE Forget(p)
    BY <1>a, <2>3 DEF Forget, At, Goto, mainVars, objectVars, workVars
  <2> QED BY <2>1, <2>2, <2>3 DEF ServerStop
<1> QED BY <1>2, <1>3, <1>4, <1>5, <1>6, <1>7 DEF Next

(* A daemon crashes at its end only if two threads are in server_stop      *)
(* together or main comes to server_join too late: with one simulation     *)
(* thread, no exit command, and main waiting, it ends by the return of     *)
(* main (agml_thread_end, server_stop, server_join).                       *)
THEOREM CrashNeedsRace == Spec => []CrashCause
<1>1. Init => CrashInv
  BY DEF Init, CrashInv, CrashCause, Procs, ProcPC
<1>2. CrashInv => CrashCause
  BY DEF CrashInv
<1> QED BY <1>1, <1>2, CrashStep, PTL DEF Spec

-----------------------------------------------------------------------------
(* Node groups: numbers and functions defined from below.                  *)

(* What holds of 0 and of a number if it holds of the one before.          *)
LEMMA Climb ==
    ASSUME NEW n \in Nat, NEW T, 0 \in T, \A i \in 1 .. n : i - 1 \in T => i \in T
    PROVE  \A i \in 0 .. n : i \in T
<1> DEFINE Out == {i \in 0 .. n : i \notin T}
<1> SUFFICES ASSUME Out # {} PROVE FALSE
  OBVIOUS
<1>1. PICK k \in Out : \A j \in Out : k <= j
  <2>1. Out \subseteq Nat
    OBVIOUS
  <2> HIDE DEF Out
  <2> QED
    BY <2>1, LeastNumber
<1>2. k \in 1 .. n /\ k \notin T
  OBVIOUS
<1>3. k - 1 \in 0 .. n /\ ~(k <= k - 1)
  BY <1>2
<1>4. k - 1 \in T
  BY <1>1, <1>3
<1> QED
  BY <1>2, <1>4

(* A function that is defined by its value at the number before exists.    *)
IsUnrolled(f, n, base, step) ==
    f = [i \in 0 .. n |-> IF i = 0 THEN base ELSE step[<<f[i - 1], i>>]]

LEMMA UnrolledAt ==
    ASSUME NEW n \in Nat, NEW f, NEW base, NEW step, IsUnrolled(f, n, base, step)
    PROVE  f[0] = base /\ \A i \in 1 .. n : f[i] = step[<<f[i - 1], i>>]
<1> DEFINE F(i) == IF i = 0 THEN base ELSE step[<<f[i - 1], i>>]
<1>1. f = [i \in 0 .. n |-> F(i)]
  BY DEF IsUnrolled
<1> HIDE DEF F
<1>2. \A i \in 0 .. n : f[i] = F(i)
  BY <1>1
<1>3. 0 \in 0 .. n /\ \A i \in 1 .. n : i \in 0 .. n /\ i # 0
  OBVIOUS
<1> QED
  BY <1>2, <1>3 DEF F

LEMMA Unrolls ==
    ASSUME NEW n \in Nat, NEW base, NEW step
    PROVE  \E f : IsUnrolled(f, n, base, step)
<1> DEFINE T == {k \in Nat : \E f : IsUnrolled(f, k, base, step)}
<1>1. 0 \in T
  <2> DEFINE f == [i \in 0 .. 0 |-> base]
  <2>1. f = [i \in 0 .. 0 |-> IF i = 0 THEN base ELSE step[<<f[i - 1], i>>]]
    OBVIOUS
  <2> QED
    BY <2>1 DEF IsUnrolled
<1>2. ASSUME NEW k \in 1 .. n, k - 1 \in T PROVE k \in T
  <2>1. PICK f : IsUnrolled(f, k - 1, base, step)
    BY <1>2
  <2>2. k - 1 \in Nat
    OBVIOUS
  <2>3. f[0] = base /\ \A i \in 1 .. k - 1 : f[i] = step[<<f[i - 1], i>>]
    BY <2>1, <2>2, UnrolledAt
  <2> DEFINE h == [i \in 0 .. k |-> IF i = k THEN step[<<f[k - 1], k>>] ELSE f[i]]
  <2>4. h[k] = step[<<f[k - 1], k>>] /\ \A i \in 0 .. k - 1 : h[i] = f[i]
    OBVIOUS
  <2>5. DOMAIN h = 0 .. k /\ h = [i \in 0 .. k |-> h[i]]
    OBVIOUS
  <2> HIDE DEF h
  <2>6. ASSUME NEW i \in 0 .. k
        PROVE  h[i] = IF i = 0 THEN base ELSE step[<<h[i - 1], i>>]
    <3>1. CASE i = k
      <4>1. h[k - 1] = f[k - 1] /\ k # 0
        BY <2>2, <2>4
      <4> QED
        BY <2>4, <3>1, <4>1
    <3>2. CASE i = 0
      <4>1. i \in 0 .. k - 1
        BY <3>2
      <4> QED
        BY <2>3, <2>4, <3>2, <4>1
    <3>3. CASE i # k /\ i # 0
      <4>1. i \in 0 .. k - 1 /\ i - 1 \in 0 .. k - 1 /\ i \in 1 .. k - 1
        BY <3>3
      <4> QED
        BY <2>3, <2>4, <3>3, <4>1
    <3> QED
      BY <3>1, <3>2, <3>3
  <2>7. IsUnrolled(h, k, base, step)
    BY <2>5, <2>6 DEF IsUnrolled
  <2> QED
    BY <2>7
<1> HIDE DEF T
<1>3. \A i \in 0 .. n : i \in T
  BY <1>1, <1>2, Climb
<1>4. n \in T
  BY <1>3
<1> QED
  BY <1>4 DEF T

-----------------------------------------------------------------------------
(* The steps on the groups of a daemon.                                    *)
LEMMA GrowType ==
    ASSUME NEW d, NEW v, NEW l, NEW b \in Blocks
    PROVE  Grow(d, v, l, b) \in Int
BY DEF Grow, Blocks

LEMMA GrowthType ==
    ASSUME NEW d, NEW v \in Views, NEW g \in Groups, NEW b \in Blocks, NEW x
    PROVE  OutGrowth(d, v, g, b, x) \in Int /\ InGrowth(d, v, g, b, x) \in Int
<1>1. ASSUME NEW ls \in Seq(Links), NEW S
      PROVE  SumFunction([i \in DOMAIN ls |-> IF i \in S THEN Grow(d, v, ls[i], b) ELSE 0]) \in Int
  <2> DEFINE f == [i \in DOMAIN ls |-> IF i \in S THEN Grow(d, v, ls[i], b) ELSE 0]
  <2>1. \A i \in DOMAIN f : f[i] \in Int
    BY GrowType
  <2>2. IsFiniteSet(DOMAIN f)
    <3>1. DOMAIN ls = 1 .. Len(ls) /\ Len(ls) \in Nat
      BY LenProperties
    <3> QED
      BY <3>1, FS_Interval
  <2> HIDE DEF f
  <2>3. SumFunction(f) \in Int
    BY <2>1, <2>2, SumType DEF Summable
  <2> QED
    BY <2>3 DEF f
<1>2. v[g].ins \in Seq(Links) /\ v[g].outs \in Seq(Links)
  BY DEF Views, GroupState
<1>3. OutGrowth(d, v, g, b, x) \in Int
  <2> DEFINE ls == v[g].ins
             S == {i \in DOMAIN ls : ls[i].src = x}
  <2>1. OutGrowth(d, v, g, b, x) =
             SumFunction([i \in DOMAIN ls |-> IF i \in S THEN Grow(d, v, ls[i], b) ELSE 0])
    <3>1. [i \in DOMAIN ls |-> IF i \in S THEN Grow(d, v, ls[i], b) ELSE 0]
          = [i \in DOMAIN ls |-> IF ls[i].src = x THEN Grow(d, v, ls[i], b) ELSE 0]
      OBVIOUS
    <3> QED
      BY <3>1 DEF OutGrowth
  <2> QED
    BY <1>1, <1>2, <2>1
<1>4. InGrowth(d, v, g, b, x) \in Int
  <2> DEFINE ls == v[g].outs
             S == {i \in DOMAIN ls : ls[i].dst = x}
  <2>1. InGrowth(d, v, g, b, x) =
             SumFunction([i \in DOMAIN ls |-> IF i \in S THEN Grow(d, v, ls[i], b) ELSE 0])
    <3>1. [i \in DOMAIN ls |-> IF i \in S THEN Grow(d, v, ls[i], b) ELSE 0]
          = [i \in DOMAIN ls |-> IF ls[i].dst = x THEN Grow(d, v, ls[i], b) ELSE 0]
      OBVIOUS
    <3> QED
      BY <3>1 DEF InGrowth
  <2> QED
    BY <1>1, <1>2, <2>1
<1> QED
  BY <1>3, <1>4

Counted(d, v, g, b, x, w) ==
    /\ w.hosts = (IF x = g THEN Append(v[x].hosts, b) ELSE v[x].hosts)
    /\ w.outs = v[x].outs /\ w.ins = v[x].ins
    /\ w.nb_nodes = (IF x = g THEN v[x].nb_nodes + b.nb ELSE v[x].nb_nodes)
    /\ w.nb_local_nodes = (IF x = g /\ b.host = d THEN v[x].nb_local_nodes + b.nb ELSE v[x].nb_local_nodes)
    /\ w.nb_out_nodes = v[x].nb_out_nodes + OutGrowth(d, v, g, b, x)
    /\ w.nb_in_nodes = v[x].nb_in_nodes + InGrowth(d, v, g, b, x)

LEMMA AddHostIs ==
    ASSUME NEW d, NEW v \in Views, NEW g \in Groups, NEW b \in Blocks
    PROVE  /\ AddHost(d, v, g, b) \in Views
           /\ \A x \in Groups : Counted(d, v, g, b, x, AddHost(d, v, g, b)[x])
<1> DEFINE out(x) == OutGrowth(d, v, g, b, x)
           in(x) == InGrowth(d, v, g, b, x)
           counted == [x \in Groups |-> [v[x] EXCEPT !.nb_out_nodes = @ + out(x), !.nb_in_nodes = @ + in(x)]]
           w == AddHost(d, v, g, b)
<1>1. w = [counted EXCEPT ![g].hosts = Append(@, b),
                          ![g].nb_nodes = @ + b.nb,
                          ![g].nb_local_nodes = IF b.host = d THEN @ + b.nb ELSE @]
  BY DEF AddHost
<1>2. \A x \in Groups : out(x) \in Int /\ in(x) \in Int
  BY GrowthType
<1>3. \A x, y \in Int : x + y \in Int
  OBVIOUS
<1>4. \A x, y \in Nat : x + y \in Nat
  OBVIOUS
<1>5. b.host \in Hosts /\ b.nb \in Nat /\ Append(v[g].hosts, b) \in Seq(Blocks)
  <2>1. v[g].hosts \in Seq(Blocks)
    BY DEF Views, GroupState
  <2> QED
    BY <2>1, AppendProperties DEF Blocks
<1>6. \A x \in Groups : v[x] \in GroupState
  BY DEF Views
<1> HIDE DEF out, in
<1>7. ASSUME NEW x \in Groups
      PROVE  /\ counted[x] \in GroupState
             /\ counted[x].hosts = v[x].hosts /\ counted[x].outs = v[x].outs /\ counted[x].ins = v[x].ins
             /\ counted[x].nb_nodes = v[x].nb_nodes /\ counted[x].nb_local_nodes = v[x].nb_local_nodes
             /\ counted[x].nb_out_nodes = v[x].nb_out_nodes + out(x)
             /\ counted[x].nb_in_nodes = v[x].nb_in_nodes + in(x)
  BY <1>2, <1>3, <1>6 DEF GroupState
<1> HIDE DEF counted
<1>8. counted = [x \in Groups |-> counted[x]]
  BY DEF counted
<1>9. w = [x \in Groups |-> w[x]] /\ \A x \in Groups \ {g} : w[x] = counted[x]
  BY <1>1, <1>8
<1> DEFINE m == v[g].nb_nodes + b.nb
           n == IF b.host = d THEN v[g].nb_local_nodes + b.nb ELSE v[g].nb_local_nodes
           hs == Append(v[g].hosts, b)
<1>15. v[g].nb_nodes \in Nat /\ v[g].nb_local_nodes \in Nat
  BY <1>6 DEF GroupState
<1>16. m \in Nat /\ n \in Nat
  BY <1>4, <1>5, <1>15
<1>17. w[g] = [counted[g] EXCEPT !.hosts = hs, !.nb_nodes = m, !.nb_local_nodes = n]
  <2>1. w[g] = [counted[g] EXCEPT !.hosts = Append(counted[g].hosts, b),
                                  !.nb_nodes = counted[g].nb_nodes + b.nb,
                                  !.nb_local_nodes = IF b.host = d THEN counted[g].nb_local_nodes + b.nb
                                                     ELSE counted[g].nb_local_nodes]
    BY <1>1, <1>8
  <2> QED
    BY <1>7, <2>1
<1>10. /\ w[g] \in GroupState
       /\ w[g].hosts = Append(v[g].hosts, b)
       /\ w[g].outs = v[g].outs /\ w[g].ins = v[g].ins
       /\ w[g].nb_nodes = v[g].nb_nodes + b.nb
       /\ w[g].nb_local_nodes = (IF b.host = d THEN v[g].nb_local_nodes + b.nb ELSE v[g].nb_local_nodes)
       /\ w[g].nb_out_nodes = v[g].nb_out_nodes + out(g)
       /\ w[g].nb_in_nodes = v[g].nb_in_nodes + in(g)
  <2>1. counted[g] \in GroupState /\ hs \in Seq(Blocks)
    BY <1>5, <1>7
  <2> HIDE DEF w, hs, m, n
  <2>2. /\ w[g] \in GroupState
        /\ w[g].hosts = hs /\ w[g].nb_nodes = m /\ w[g].nb_local_nodes = n
        /\ w[g].outs = counted[g].outs /\ w[g].ins = counted[g].ins
        /\ w[g].nb_out_nodes = counted[g].nb_out_nodes /\ w[g].nb_in_nodes = counted[g].nb_in_nodes
    <3>1. PICK r : r = counted[g]
      OBVIOUS
    <3>2. PICK q : q = w[g]
      OBVIOUS
    <3>3. q = [r EXCEPT !.hosts = hs, !.nb_nodes = m, !.nb_local_nodes = n]
      BY ONLY <1>17, <3>1, <3>2
    <3>4. r \in GroupState
      BY <2>1, <3>1
    <3>5. /\ q \in GroupState
          /\ q.hosts = hs /\ q.nb_nodes = m /\ q.nb_local_nodes = n
          /\ q.outs = r.outs /\ q.ins = r.ins
          /\ q.nb_out_nodes = r.nb_out_nodes /\ q.nb_in_nodes = r.nb_in_nodes
      BY <1>16, <2>1, <3>3, <3>4 DEF GroupState
    <3> QED
      BY <3>1, <3>2, <3>5
  <2> QED
    BY <1>7, <2>2 DEF hs, m, n
<1> HIDE DEF m, n, hs
<1> HIDE DEF w
<1>11. \A x \in Groups : w[x] \in GroupState
  BY <1>7, <1>9, <1>10
<1>12. ASSUME NEW x \in Groups PROVE Counted(d, v, g, b, x, w[x])
  <2>1. CASE x = g
    BY <1>10, <2>1 DEF Counted, out, in
  <2>2. CASE x # g
    BY <1>7, <1>9, <2>2 DEF Counted, out, in
  <2> QED
    BY <2>1, <2>2
<1>13. w \in Views
  BY <1>9, <1>11 DEF Views
<1> QED
  BY <1>12, <1>13 DEF w

(* What a link statement does to group x.                                  *)
Linked(v, l, x, w) ==
    /\ w.hosts = v[x].hosts
    /\ w.nb_nodes = v[x].nb_nodes /\ w.nb_local_nodes = v[x].nb_local_nodes
    /\ w.outs = (IF x = l.src THEN Append(v[x].outs, l) ELSE v[x].outs)
    /\ w.ins = (IF x = l.dst THEN Append(v[x].ins, l) ELSE v[x].ins)
    /\ w.nb_out_nodes = (IF x = l.src THEN v[x].nb_out_nodes + get_nb_out(v, l) ELSE v[x].nb_out_nodes)

LEMMA LinkNumbers ==
    ASSUME NEW v \in Views, NEW l \in Links
    PROVE  get_nb_out(v, l) \in Nat /\ get_nb_in(v, l) \in Nat /\ get_nb_local_in(v, l) \in Nat
<1>1. \A n \in Nat : Minus(l, n) \in Nat
  BY DEF Minus
<1>2. l.src \in Groups /\ l.dst \in Groups
  BY DEF Links
<1>3. \A x \in Groups : v[x].nb_nodes \in Nat /\ v[x].nb_local_nodes \in Nat
  BY DEF Views, GroupState
<1> QED
  BY <1>1, <1>2, <1>3 DEF get_nb_out, get_nb_in, get_nb_local_in

LEMMA AddLinkIs ==
    ASSUME NEW v \in Views, NEW l \in Links
    PROVE  /\ AddLink(v, l) \in Views
           /\ \A x \in Groups : Linked(v, l, x, AddLink(v, l)[x])
<1> DEFINE out == get_nb_out(v, l)
           in == get_nb_in(v, l)
           u == [v EXCEPT ![l.src].outs = Append(@, l), ![l.src].nb_out_nodes = @ + out]
           w == AddLink(v, l)
<1>1. w = [u EXCEPT ![l.dst].ins = Append(@, l), ![l.dst].nb_in_nodes = @ + in]
  BY DEF AddLink
<1>2. out \in Int /\ in \in Int
  BY LinkNumbers
<1>3. l.src \in Groups /\ l.dst \in Groups
  BY DEF Links
<1>4. \A x \in Groups : v[x] \in GroupState
  BY DEF Views
<1>5. \A ls \in Seq(Links) : Append(ls, l) \in Seq(Links)
  BY AppendProperties
<1>6. \A x, y \in Int : x + y \in Int
  OBVIOUS
<1> HIDE DEF out, in
<1>7. u \in Views /\ \A x \in Groups \ {l.src} : u[x] = v[x]
  <2> PICK r : r = v[l.src]
    OBVIOUS
  <2>1. u[l.src] = [r EXCEPT !.outs = Append(r.outs, l), !.nb_out_nodes = r.nb_out_nodes + out]
    BY <1>3 DEF Views
  <2>2. r \in GroupState /\ r.outs \in Seq(Links) /\ r.nb_out_nodes \in Int
    BY <1>3, <1>4 DEF GroupState
  <2>3. Append(r.outs, l) \in Seq(Links) /\ r.nb_out_nodes + out \in Int
    BY <1>2, <1>5, <1>6, <2>2
  <2>4. u[l.src] \in GroupState
    <3> HIDE DEF u
    <3> QED
      BY <2>1, <2>2, <2>3 DEF GroupState
  <2>5. u = [x \in Groups |-> u[x]] /\ \A x \in Groups \ {l.src} : u[x] = v[x]
    BY DEF Views
  <2> HIDE DEF u
  <2> QED
    BY <1>4, <2>4, <2>5 DEF Views
<1>8. /\ u[l.src].hosts = v[l.src].hosts /\ u[l.src].ins = v[l.src].ins
      /\ u[l.src].nb_nodes = v[l.src].nb_nodes /\ u[l.src].nb_local_nodes = v[l.src].nb_local_nodes
      /\ u[l.src].outs = Append(v[l.src].outs, l)
      /\ u[l.src].nb_out_nodes = v[l.src].nb_out_nodes + out
      /\ u[l.src].nb_in_nodes = v[l.src].nb_in_nodes
  <2> PICK r \in GroupState : r = v[l.src]
    BY <1>3, <1>4
  <2>1. u[l.src] = [r EXCEPT !.outs = Append(r.outs, l), !.nb_out_nodes = r.nb_out_nodes + out]
    BY <1>3 DEF Views
  <2>2. PICK q : q = u[l.src]
    OBVIOUS
  <2>3. q = [r EXCEPT !.outs = Append(r.outs, l), !.nb_out_nodes = r.nb_out_nodes + out]
    BY ONLY <2>1, <2>2
  <2>4. /\ q.hosts = r.hosts /\ q.ins = r.ins
        /\ q.nb_nodes = r.nb_nodes /\ q.nb_local_nodes = r.nb_local_nodes
        /\ q.outs = Append(r.outs, l)
        /\ q.nb_out_nodes = r.nb_out_nodes + out
        /\ q.nb_in_nodes = r.nb_in_nodes
    BY <2>3 DEF GroupState
  <2> HIDE DEF u
  <2> QED
    BY <2>2, <2>4
<1> HIDE DEF u
<1>9. w \in Views /\ \A x \in Groups \ {l.dst} : w[x] = u[x]
  <2> PICK r \in GroupState : r = u[l.dst]
    BY <1>3, <1>7 DEF Views
  <2>1. w[l.dst] = [r EXCEPT !.ins = Append(r.ins, l), !.nb_in_nodes = r.nb_in_nodes + in]
    BY <1>1, <1>3, <1>7 DEF Views
  <2>2. r.ins \in Seq(Links) /\ r.nb_in_nodes \in Int
    BY DEF GroupState
  <2>3. Append(r.ins, l) \in Seq(Links) /\ r.nb_in_nodes + in \in Int
    BY <1>2, <1>5, <1>6, <2>2
  <2> HIDE DEF w
  <2>4. w[l.dst] \in GroupState
    BY <2>1, <2>3 DEF GroupState
  <2>5. w = [x \in Groups |-> w[x]] /\ \A x \in Groups \ {l.dst} : w[x] = u[x]
    BY <1>1, <1>7 DEF Views
  <2> QED
    BY <1>7, <2>4, <2>5 DEF Views
<1>10. /\ w[l.dst].hosts = u[l.dst].hosts /\ w[l.dst].outs = u[l.dst].outs
       /\ w[l.dst].nb_nodes = u[l.dst].nb_nodes /\ w[l.dst].nb_local_nodes = u[l.dst].nb_local_nodes
       /\ w[l.dst].ins = Append(u[l.dst].ins, l)
       /\ w[l.dst].nb_out_nodes = u[l.dst].nb_out_nodes
  <2> PICK r \in GroupState : r = u[l.dst]
    BY <1>3, <1>7 DEF Views
  <2>1. w[l.dst] = [r EXCEPT !.ins = Append(r.ins, l), !.nb_in_nodes = r.nb_in_nodes + in]
    BY <1>1, <1>3, <1>7 DEF Views
  <2>2. PICK q : q = w[l.dst]
    OBVIOUS
  <2>3. q = [r EXCEPT !.ins = Append(r.ins, l), !.nb_in_nodes = r.nb_in_nodes + in]
    BY ONLY <2>1, <2>2
  <2>4. /\ q.hosts = r.hosts /\ q.outs = r.outs
        /\ q.nb_nodes = r.nb_nodes /\ q.nb_local_nodes = r.nb_local_nodes
        /\ q.ins = Append(r.ins, l)
        /\ q.nb_out_nodes = r.nb_out_nodes
    BY <2>3 DEF GroupState
  <2> HIDE DEF w
  <2> QED
    BY <2>2, <2>4
<1> HIDE DEF w
<1>11. ASSUME NEW x \in Groups PROVE Linked(v, l, x, w[x])
  <2>1. CASE x = l.src /\ x = l.dst
    BY <1>8, <1>10, <2>1 DEF Linked, out
  <2>2. CASE x = l.src /\ x # l.dst
    BY <1>8, <1>9, <2>2 DEF Linked, out
  <2>3. CASE x # l.src /\ x = l.dst
    BY <1>7, <1>10, <2>3 DEF Linked, out
  <2>4. CASE x # l.src /\ x # l.dst
    BY <1>7, <1>9, <2>4 DEF Linked, out
  <2> QED
    BY <2>1, <2>2, <2>3, <2>4
<1> QED
  BY <1>9, <1>11 DEF w

(* The block that stands for block i of the other group.                   *)
SameBlock(v, s, i) ==
    [host |-> v[s.ref].hosts[i].host, nb |-> AtMost(s.limit, v[s.ref].hosts[i].nb)]

(* The groups after each of the blocks of an assign_same_as.               *)
SameSteps(d, v, s, f) ==
    /\ f[0] = v
    /\ \A i \in 0 .. Len(v[s.ref].hosts) : f[i] \in Views
    /\ \A i \in 1 .. Len(v[s.ref].hosts) :
          SameBlock(v, s, i) \in Blocks /\ f[i] = AddHost(d, f[i - 1], s.grp, SameBlock(v, s, i))
    /\ AddSame(d, v, s) = f[Len(v[s.ref].hosts)]

LEMMA AddSameIs ==
    ASSUME NEW d, NEW v \in Views, NEW s \in Statements, s.op = "same"
    PROVE  \E f : SameSteps(d, v, s, f)
<1> DEFINE like == v[s.ref].hosts
           n == Len(like)
           step == [p \in Views \X (1 .. n) |-> AddHost(d, p[1], s.grp, SameBlock(v, s, p[2]))]
           Eq(f) == f = [i \in 0 .. n |-> IF i = 0 THEN v
                                          ELSE AddHost(d, f[i - 1], s.grp, SameBlock(v, s, i))]
<1>1. s.grp \in Groups /\ s.ref \in Groups /\ s.limit \in Nat
  BY DEF Statements
<1>2. like \in Seq(Blocks) /\ n \in Nat /\ DOMAIN like = 1 .. n
  BY <1>1, LenProperties DEF Views, GroupState
<1>3. \A i \in 1 .. n : SameBlock(v, s, i) \in Blocks
  <2> SUFFICES ASSUME NEW i \in 1 .. n PROVE SameBlock(v, s, i) \in Blocks
    OBVIOUS
  <2>1. like[i] \in Blocks
    BY <1>2, ElementOfSeq
  <2>2. like[i].host \in Hosts /\ like[i].nb \in Nat
    BY <2>1 DEF Blocks
  <2>3. AtMost(s.limit, like[i].nb) \in Nat
    BY <1>1, <2>2 DEF AtMost
  <2> QED
    BY <2>2, <2>3 DEF SameBlock, Blocks
<1>4. \A w \in Views, i \in 1 .. n : AddHost(d, w, s.grp, SameBlock(v, s, i)) \in Views
  BY <1>1, <1>3, AddHostIs
<1>5. AddSame(d, v, s) = (CHOOSE f : Eq(f))[n]
  BY DEF AddSame, SameBlock
<1>6. \E f : Eq(f)
  <2> HIDE DEF step
  <2>1. PICK f : IsUnrolled(f, n, v, step)
    BY <1>2, Unrolls
  <2>2. f[0] = v /\ \A i \in 1 .. n : f[i] = step[<<f[i - 1], i>>]
    BY <1>2, <2>1, UnrolledAt
  <2>3. \A w \in Views, i \in 1 .. n : step[<<w, i>>] = AddHost(d, w, s.grp, SameBlock(v, s, i))
    BY DEF step
  <2> DEFINE T == {i \in 0 .. n : f[i] \in Views}
  <2>4. \A i \in 0 .. n : i \in T
    <3>1. 0 \in T
      BY <1>2, <2>2
    <3>2. ASSUME NEW i \in 1 .. n, i - 1 \in T PROVE i \in T
      <4>1. f[i - 1] \in Views
        BY <3>2
      <4>3. f[i] = AddHost(d, f[i - 1], s.grp, SameBlock(v, s, i))
        BY <2>2, <2>3, <4>1
      <4>2. f[i] \in Views
        BY <1>4, <4>1, <4>3
      <4> QED
        BY <4>2
    <3> HIDE DEF T
    <3> QED
      BY <1>2, <3>1, <3>2, Climb
  <2>5. \A i \in 1 .. n : f[i] = AddHost(d, f[i - 1], s.grp, SameBlock(v, s, i))
    <3> SUFFICES ASSUME NEW i \in 1 .. n
                 PROVE  f[i] = AddHost(d, f[i - 1], s.grp, SameBlock(v, s, i))
      OBVIOUS
    <3>1. i - 1 \in 0 .. n
      BY <1>2
    <3>2. f[i - 1] \in Views
      BY <2>4, <3>1
    <3> QED
      BY <2>2, <2>3, <3>2
  <2> DEFINE F(i) == IF i = 0 THEN v ELSE AddHost(d, f[i - 1], s.grp, SameBlock(v, s, i))
  <2>6. f = [i \in 0 .. n |-> f[i]]
    BY <2>1 DEF IsUnrolled
  <2>7. \A i \in 0 .. n : f[i] = F(i)
    <3>1. \A i \in 0 .. n : i = 0 \/ i \in 1 .. n
      BY <1>2
    <3>2. \A i \in 1 .. n : i # 0
      BY <1>2
    <3> QED
      BY <2>2, <2>5, <3>1, <3>2
  <2> HIDE DEF F
  <2>8. f = [i \in 0 .. n |-> F(i)]
    BY <2>6, <2>7
  <2> QED
    BY <2>8 DEF F
<1> DEFINE f == CHOOSE f : Eq(f)
<1>7. Eq(f)
  BY <1>6
<1> HIDE DEF f
<1> DEFINE F(i) == IF i = 0 THEN v ELSE AddHost(d, f[i - 1], s.grp, SameBlock(v, s, i))
<1>8. f = [i \in 0 .. n |-> F(i)]
  BY <1>7
<1> HIDE DEF F
<1>9. \A i \in 0 .. n : f[i] = F(i)
  BY <1>8
<1>10. 0 \in 0 .. n /\ \A i \in 1 .. n : i \in 0 .. n /\ i # 0 /\ i - 1 \in 0 .. n
  BY <1>2
<1>11. f[0] = v /\ \A i \in 1 .. n : f[i] = AddHost(d, f[i - 1], s.grp, SameBlock(v, s, i))
  BY <1>9, <1>10 DEF F
<1> DEFINE T == {i \in 0 .. n : f[i] \in Views}
<1>12. \A i \in 0 .. n : i \in T
  <2>1. 0 \in T
    BY <1>10, <1>11
  <2>2. ASSUME NEW i \in 1 .. n, i - 1 \in T PROVE i \in T
    BY <1>4, <1>10, <1>11, <2>2
  <2> HIDE DEF T
  <2> QED
    BY <1>2, <2>1, <2>2, Climb
<1>13. \A i \in 0 .. n : f[i] \in Views
  BY <1>12
<1>14. AddSame(d, v, s) = f[n]
  BY <1>5 DEF f
<1> QED
  BY <1>3, <1>11, <1>13, <1>14 DEF SameSteps

(* The block of an assign statement.                                       *)
NewBlock(d, s) ==
    [host |-> s.host, nb |-> IF s.perThread THEN s.nb * nbThreads[d][s.host] ELSE s.nb]

LEMMA ExecuteIs ==
    ASSUME NEW d \in Hosts, NEW v \in Views, NEW s \in Statements, nbThreads \in [Hosts -> [Hosts -> Nat]]
    PROVE  /\ Execute(d, v, s) \in Views
           /\ s.op \in {"connect", "assign", "same"}
           /\ s.op = "connect" => s.link \in Links /\ Execute(d, v, s) = AddLink(v, s.link)
           /\ s.op = "assign" => /\ s.grp \in Groups /\ s.host \in Hosts /\ s.nb \in Nat /\ s.perThread \in BOOLEAN
                                 /\ NewBlock(d, s) \in Blocks
                                 /\ Execute(d, v, s) = AddHost(d, v, s.grp, NewBlock(d, s))
           /\ s.op = "same" => /\ s.grp \in Groups /\ s.ref \in Groups /\ s.limit \in Nat
                               /\ Execute(d, v, s) = AddSame(d, v, s)
<1>1. s.op \in {"connect", "assign", "same"}
  BY DEF Statements
<1>2. CASE s.op = "connect"
  <2>1. s.link \in Links
    BY <1>2 DEF Statements
  <2>2. Execute(d, v, s) = AddLink(v, s.link)
    BY <1>2 DEF Execute
  <2> QED
    BY <1>2, <2>1, <2>2, AddLinkIs
<1>3. CASE s.op = "assign"
  <2>1. s.grp \in Groups /\ s.host \in Hosts /\ s.nb \in Nat /\ s.perThread \in BOOLEAN
    BY <1>3 DEF Statements
  <2>2. nbThreads[d][s.host] \in Nat
    BY <2>1
  <2>3. \A x, y \in Nat : x * y \in Nat
    OBVIOUS
  <2>4. NewBlock(d, s) \in Blocks
    BY <2>1, <2>2, <2>3 DEF NewBlock, Blocks
  <2>5. Execute(d, v, s) = AddHost(d, v, s.grp, NewBlock(d, s))
    <3> DEFINE new == [host |-> s.host, nb |-> IF s.perThread THEN s.nb * nbThreads[d][s.host] ELSE s.nb]
    <3>1. "assign" # "connect" /\ "assign" # "same"
      OBVIOUS
    <3>2. Execute(d, v, s) = CASE s.op = "connect" -> AddLink(v, s.link)
                               [] s.op = "same" -> AddSame(d, v, s)
                               [] s.op = "assign" -> AddHost(d, v, s.grp, new)
      BY DEF Execute
    <3>3. new = NewBlock(d, s)
      BY DEF NewBlock
    <3> HIDE DEF new
    <3>4. Execute(d, v, s) = AddHost(d, v, s.grp, new)
      BY <1>3, <3>1, <3>2
    <3> QED
      BY <3>3, <3>4
  <2>6. PICK g \in Groups, b \in Blocks : g = s.grp /\ b = NewBlock(d, s)
    BY <2>1, <2>4
  <2>7. AddHost(d, v, g, b) \in Views
    BY AddHostIs
  <2>8. "assign" # "connect" /\ "assign" # "same"
    OBVIOUS
  <2> QED
    BY <1>3, <2>1, <2>4, <2>5, <2>6, <2>7, <2>8
<1>4. CASE s.op = "same"
  <2>1. s.grp \in Groups /\ s.ref \in Groups /\ s.limit \in Nat
    BY <1>4 DEF Statements
  <2>2. Execute(d, v, s) = AddSame(d, v, s)
    BY <1>4 DEF Execute
  <2>3. PICK f : SameSteps(d, v, s, f)
    BY <1>4, AddSameIs
  <2>4. Len(v[s.ref].hosts) \in Nat
    BY <2>1, LenProperties DEF Views, GroupState
  <2>5. Len(v[s.ref].hosts) \in 0 .. Len(v[s.ref].hosts)
    BY <2>4
  <2>6. AddSame(d, v, s) \in Views
    BY <2>3, <2>5 DEF SameSteps
  <2> QED
    BY <1>4, <2>1, <2>2, <2>6
<1> QED
  BY <1>1, <1>2, <1>3, <1>4

LEMMA ScriptType ==
    ASSUME TypeGroups
    PROVE  script \in Seq(Statements) /\ Len(script) \in Nat
<1>1. script \in Seq(Statements)
  BY GroupsAssumption DEF TypeGroups
<1> QED
  BY <1>1, LenProperties

(* The statement a daemon reads next.                                      *)
Reads(d, s) ==
    /\ s \in Statements /\ s = script[read[d] + 1]
    /\ read[d] + 1 \in 1 .. Len(script)
    /\ phase[d] = "reading"
    /\ read' = [read EXCEPT ![d] = read[d] + 1]
    /\ view' = [view EXCEPT ![d] = Execute(d, view[d], s)]
    /\ view'[d] = Execute(d, view[d], s) /\ read'[d] = read[d] + 1
    /\ Open(d, IF s.op = "connect" THEN Wanted(d, view[d], s.link.dst) ELSE {}, "reading")
    /\ UNCHANGED <<script, nbThreads>>

LEMMA ReadsNext ==
    ASSUME TypeGroups, NEW d \in Hosts, ReadStatement(d)
    PROVE  \E s \in Statements : Reads(d, s)
<1>1. script \in Seq(Statements) /\ Len(script) \in Nat
  BY ScriptType
<1>2. read[d] \in 0 .. Len(script) /\ read[d] < Len(script)
  BY DEF TypeGroups, ReadStatement
<1>3. read[d] + 1 \in 1 .. Len(script)
  BY <1>1, <1>2
<1>4. script[read[d] + 1] \in Statements
  BY <1>1, <1>3, ElementOfSeq
<1>5. /\ view' = [view EXCEPT ![d] = Execute(d, view[d], script[read[d] + 1])]
      /\ read' = [read EXCEPT ![d] = read[d] + 1]
      /\ Open(d, IF script[read[d] + 1].op = "connect" THEN Wanted(d, view[d], script[read[d] + 1].link.dst) ELSE {}, "reading")
      /\ phase[d] = "reading" /\ UNCHANGED <<script, nbThreads>>
  BY DEF ReadStatement
<1>6. view'[d] = Execute(d, view[d], script[read[d] + 1]) /\ read'[d] = read[d] + 1
  BY <1>5 DEF TypeGroups
<1> QED
  BY <1>3, <1>4, <1>5, <1>6 DEF Reads

LEMMA WantedHosts ==
    ASSUME NEW d \in Hosts, NEW v \in Views, NEW g \in Groups
    PROVE  Wanted(d, v, g) \subseteq Hosts \ {d}
<1>1. v[g].hosts \in Seq(Blocks)
  BY DEF Views, GroupState
<1>2. \A i \in DOMAIN v[g].hosts : v[g].hosts[i].host \in Hosts
  <2>1. \A i \in DOMAIN v[g].hosts : v[g].hosts[i] \in Blocks
    BY <1>1
  <2> QED
    BY <2>1 DEF Blocks
<1> QED
  BY <1>2 DEF Wanted

LEMMA OpenType ==
    ASSUME TypeGroups, NEW d \in Hosts, NEW hs, hs \subseteq Hosts \ {d},
           NEW next \in {"reading", "running"}, Open(d, hs, next)
    PROVE  /\ phase' \in [Hosts -> {"unread", "reading", "running", "dead"}]
           /\ conn' \in [Hosts -> SUBSET Hosts]
           /\ \A h \in Hosts : h \notin conn'[h]
<1>1. CASE connect(d, hs) /\ phase' = [phase EXCEPT ![d] = next]
  BY <1>1 DEF connect, TypeGroups
<1>2. CASE UNCHANGED conn /\ phase' = [phase EXCEPT ![d] = "dead"]
  BY <1>2 DEF TypeGroups
<1> QED
  BY <1>1, <1>2 DEF Open

LEMMA NewDataHostsType ==
    ASSUME TypeGroups, NEW d \in Hosts, NEW nb, \A h \in DOMAIN nb : nb[h] \in Nat
    PROVE  NewDataHosts(d, nb) \in [Hosts -> [Hosts -> Nat]]
<1> DEFINE new == [h \in Hosts |-> IF h \notin DOMAIN nb \/ Known(d, h) THEN nbThreads[d][h] ELSE nb[h]]
<1>1. new \in [Hosts -> Nat]
  BY DEF TypeGroups
<1>2. NewDataHosts(d, nb) = [nbThreads EXCEPT ![d] = new]
  BY DEF NewDataHosts
<1> HIDE DEF new
<1> QED
  BY <1>1, <1>2 DEF TypeGroups

(* The variables keep their types, whatever the hosts, groups and models:  *)
(* the counters of a group stay numbers of nodes, and no daemon connects   *)
(* to itself (connect_hosts_as_needed, agml_command_data_host).            *)
THEOREM GroupsTypeCorrect == SpecGroups => []TypeGroups
<1>1. InitGroups => TypeGroups
  <2> SUFFICES ASSUME InitGroups PROVE TypeGroups
    OBVIOUS
  <2>1. script \in Seq(Statements) /\ Len(script) \in Nat
    BY GroupsAssumption, LenProperties DEF InitGroups
  <2>2. read \in [Hosts -> 0 .. Len(script)]
    BY <2>1 DEF InitGroups
  <2>3. EmptyGroup \in GroupState
    <3>1. <<>> \in Seq(Blocks) /\ <<>> \in Seq(Links)
      OBVIOUS
    <3> QED
      BY <3>1 DEF EmptyGroup, GroupState
  <2>4. view \in [Hosts -> Views]
    BY <2>3 DEF InitGroups, Views
  <2> QED
    BY <2>2, <2>4 DEF InitGroups, TypeGroups
<1>2. TypeGroups /\ [NextGroups]_groups => TypeGroups'
  <2> SUFFICES ASSUME TypeGroups, [NextGroups]_groups PROVE TypeGroups'
    OBVIOUS
  <2>1. CASE UNCHANGED groups
    BY <2>1 DEF TypeGroups, groups
  <2>2. ASSUME NEW d \in Hosts, DeclareHosts(d) PROVE TypeGroups'
    <3>1. \A h \in DOMAIN DeclThreads : DeclThreads[h] \in Nat
      BY GroupsAssumption
    <3>2. nbThreads' \in [Hosts -> [Hosts -> Nat]]
      BY <2>2, <3>1, NewDataHostsType DEF DeclareHosts
    <3> QED
      BY <2>2, <3>2 DEF DeclareHosts, TypeGroups
  <2>3. ASSUME NEW d \in Hosts, ReadStatement(d) PROVE TypeGroups'
    <3>1. PICK s \in Statements : Reads(d, s)
      BY <2>3, ReadsNext
    <3>2. view[d] \in Views /\ nbThreads \in [Hosts -> [Hosts -> Nat]]
      BY DEF TypeGroups
    <3>3. Execute(d, view[d], s) \in Views /\ (s.op = "connect" => s.link.dst \in Groups)
      BY <3>2, ExecuteIs DEF Links
    <3>4. view' \in [Hosts -> Views]
      BY <3>1, <3>3 DEF Reads, TypeGroups
    <3> DEFINE hs == IF s.op = "connect" THEN Wanted(d, view[d], s.link.dst) ELSE {}
    <3>5. hs \subseteq Hosts \ {d}
      BY <3>2, <3>3, WantedHosts
    <3>6. Open(d, hs, "reading")
      BY <3>1 DEF Reads
    <3> HIDE DEF hs
    <3>7. /\ phase' \in [Hosts -> {"unread", "reading", "running", "dead"}]
          /\ conn' \in [Hosts -> SUBSET Hosts]
          /\ \A h \in Hosts : h \notin conn'[h]
      BY <3>5, <3>6, OpenType
    <3>8. read' \in [Hosts -> 0 .. Len(script)]
      <4>1. Len(script) \in Nat
        BY ScriptType
      <4>2. read[d] + 1 \in 0 .. Len(script)
        BY <3>1, <4>1 DEF Reads
      <4> QED
        BY <3>1, <4>2 DEF Reads, TypeGroups
    <3>9. script' = script /\ nbThreads' = nbThreads
      BY <3>1 DEF Reads
    <3> QED
      BY <3>4, <3>7, <3>8, <3>9 DEF TypeGroups
  <2>4. ASSUME NEW d \in Hosts, Finish(d) PROVE TypeGroups'
    <3> DEFINE hs == UNION {Wanted(d, view[d], g) : g \in Groups}
    <3>1. view[d] \in Views
      BY DEF TypeGroups
    <3>2. hs \subseteq Hosts \ {d}
      BY <3>1, WantedHosts
    <3>3. Open(d, hs, "running")
      BY <2>4 DEF Finish
    <3> HIDE DEF hs
    <3>4. /\ phase' \in [Hosts -> {"unread", "reading", "running", "dead"}]
          /\ conn' \in [Hosts -> SUBSET Hosts]
          /\ \A h \in Hosts : h \notin conn'[h]
      BY <3>2, <3>3, OpenType
    <3> QED
      BY <2>4, <3>4 DEF Finish, TypeGroups
  <2>5. ASSUME NEW d \in Hosts, NEW p \in Hosts, DataHostCommand(d, p) PROVE TypeGroups'
    <3> DEFINE nb == [h \in {p} |-> 1]
    <3>1. \A h \in DOMAIN nb : nb[h] \in Nat
      OBVIOUS
    <3>2. nbThreads' = NewDataHosts(d, nb)
      BY <2>5 DEF DataHostCommand
    <3> HIDE DEF nb
    <3>3. nbThreads' \in [Hosts -> [Hosts -> Nat]]
      BY <3>1, <3>2, NewDataHostsType
    <3>4. p # d
      BY <2>5 DEF DataHostCommand, TypeGroups
    <3>5. conn' \in [Hosts -> SUBSET Hosts] /\ \A h \in Hosts : h \notin conn'[h]
      BY <2>5, <3>4 DEF DataHostCommand, connect, TypeGroups
    <3> QED
      BY <2>5, <3>3, <3>5 DEF DataHostCommand, TypeGroups
  <2> QED
    BY <2>1, <2>2, <2>3, <2>4, <2>5 DEF NextGroups
<1> QED
  BY <1>1, <1>2, PTL DEF SpecGroups

(* What a step is for daemon h: nothing, a statement, the Host lines, or   *)
(* the end of the reading.                                                 *)
Idles(h) == view'[h] = view[h] /\ read'[h] = read[h] /\ phase'[h] = phase[h]
ReadsOne(h) == (\E s \in Statements : Reads(h, s)) /\ phase'[h] \in {"reading", "dead"}
Declares(h) ==
    /\ view'[h] = view[h] /\ read'[h] = read[h] /\ phase[h] = "unread" /\ phase'[h] = "reading"
    /\ \A x \in Hosts : nbThreads'[h][x] # 0
Finishes(h) ==
    /\ view'[h] = view[h] /\ read'[h] = read[h]
    /\ phase[h] = "reading" /\ read[h] = Len(script)
    /\ \/ phase'[h] = "dead"
       \/ phase'[h] = "running" /\ \A g \in Groups : Wanted(h, view[h], g) \subseteq conn'[h]

Keeps(h) ==
    /\ script' = script
    /\ conn[h] \subseteq conn'[h]
    /\ \A x \in Hosts : nbThreads[h][x] # 0 => nbThreads'[h][x] = nbThreads[h][x]

StepOf(h) == Keeps(h) /\ (Idles(h) \/ ReadsOne(h) \/ Declares(h) \/ Finishes(h))

LEMMA OpenIs ==
    ASSUME TypeGroups, NEW d \in Hosts, NEW hs, NEW next, Open(d, hs, next)
    PROVE  /\ \A h \in Hosts : conn[h] \subseteq conn'[h]
           /\ \A h \in Hosts \ {d} : phase'[h] = phase[h]
           /\ phase'[d] = "dead" \/ (phase'[d] = next /\ hs \subseteq conn'[d])
<1>1. CASE connect(d, hs) /\ phase' = [phase EXCEPT ![d] = next]
  BY <1>1 DEF connect, TypeGroups
<1>2. CASE UNCHANGED conn /\ phase' = [phase EXCEPT ![d] = "dead"]
  BY <1>2 DEF TypeGroups
<1> QED
  BY <1>1, <1>2 DEF Open

LEMMA KnownStays ==
    ASSUME TypeGroups, NEW d \in Hosts, NEW nb, nbThreads' = NewDataHosts(d, nb),
           NEW h \in Hosts, NEW x \in Hosts
    PROVE  /\ nbThreads[h][x] # 0 => nbThreads'[h][x] = nbThreads[h][x]
           /\ h = d /\ x \in DOMAIN nb /\ nbThreads[h][x] = 0 => nbThreads'[h][x] = nb[x]
<1> DEFINE new == [y \in Hosts |-> IF y \notin DOMAIN nb \/ Known(d, y) THEN nbThreads[d][y] ELSE nb[y]]
<1>1. nbThreads' = [nbThreads EXCEPT ![d] = new]
  BY DEF NewDataHosts
<1>2. new[x] = IF x \notin DOMAIN nb \/ nbThreads[d][x] # 0 THEN nbThreads[d][x] ELSE nb[x]
  BY DEF Known
<1> HIDE DEF new
<1>3. nbThreads'[h] = IF h = d THEN new ELSE nbThreads[h]
  BY <1>1 DEF TypeGroups
<1> QED
  BY <1>2, <1>3

LEMMA Steps ==
    ASSUME TypeGroups, [NextGroups]_groups, NEW h \in Hosts
    PROVE  StepOf(h)
<1>1. CASE UNCHANGED groups
  BY <1>1 DEF groups, StepOf, Keeps, Idles
<1>2. ASSUME NEW d \in Hosts, DeclareHosts(d) PROVE StepOf(h)
  <2>1. nbThreads' = NewDataHosts(d, DeclThreads)
    BY <1>2 DEF DeclareHosts
  <2>2. Keeps(h)
    BY <1>2, <2>1, KnownStays DEF DeclareHosts, Keeps
  <2>3. CASE h = d
    <3>1. \A x \in Hosts : DeclThreads[x] # 0 /\ x \in DOMAIN DeclThreads
      BY GroupsAssumption
    <3>2. \A x \in Hosts : nbThreads'[h][x] # 0
      BY <2>1, <2>3, <3>1, KnownStays
    <3> QED
      BY <1>2, <2>2, <2>3, <3>2 DEF DeclareHosts, StepOf, Declares, TypeGroups
  <2>4. CASE h # d
    BY <1>2, <2>2, <2>4 DEF DeclareHosts, StepOf, Idles, TypeGroups
  <2> QED
    BY <2>3, <2>4
<1>3. ASSUME NEW d \in Hosts, ReadStatement(d) PROVE StepOf(h)
  <2>1. PICK s \in Statements : Reads(d, s)
    BY <1>3, ReadsNext
  <2> DEFINE hs == IF s.op = "connect" THEN Wanted(d, view[d], s.link.dst) ELSE {}
  <2>2. Open(d, hs, "reading") /\ script' = script /\ nbThreads' = nbThreads
    BY <2>1 DEF Reads
  <2> HIDE DEF hs
  <2>3. /\ \A x \in Hosts : conn[x] \subseteq conn'[x]
        /\ \A x \in Hosts \ {d} : phase'[x] = phase[x]
        /\ phase'[d] = "dead" \/ phase'[d] = "reading"
    BY <2>2, OpenIs
  <2>4. Keeps(h)
    BY <2>2, <2>3 DEF Keeps
  <2>5. CASE h = d
    BY <2>1, <2>3, <2>4, <2>5 DEF StepOf, ReadsOne
  <2>6. CASE h # d
    <3>1. view'[h] = view[h] /\ read'[h] = read[h]
      BY <2>1, <2>6 DEF Reads, TypeGroups
    <3> QED
      BY <2>3, <2>4, <2>6, <3>1 DEF StepOf, Idles
  <2> QED
    BY <2>5, <2>6
<1>4. ASSUME NEW d \in Hosts, Finish(d) PROVE StepOf(h)
  <2> DEFINE hs == UNION {Wanted(d, view[d], g) : g \in Groups}
  <2>1. Open(d, hs, "running")
    BY <1>4 DEF Finish
  <2>2. \A g \in Groups : Wanted(d, view[d], g) \subseteq hs
    OBVIOUS
  <2> HIDE DEF hs
  <2>3. /\ \A x \in Hosts : conn[x] \subseteq conn'[x]
        /\ \A x \in Hosts \ {d} : phase'[x] = phase[x]
        /\ phase'[d] = "dead" \/ (phase'[d] = "running" /\ hs \subseteq conn'[d])
    BY <2>1, OpenIs
  <2>4. Keeps(h)
    BY <1>4, <2>3 DEF Keeps, Finish
  <2>5. CASE h = d
    BY <1>4, <2>2, <2>3, <2>4, <2>5 DEF StepOf, Finishes, Finish
  <2>6. CASE h # d
    BY <1>4, <2>3, <2>4, <2>6 DEF StepOf, Idles, Finish
  <2> QED
    BY <2>5, <2>6
<1>5. ASSUME NEW d \in Hosts, NEW p \in Hosts, DataHostCommand(d, p) PROVE StepOf(h)
  <2> DEFINE nb == [x \in {p} |-> 1]
  <2>1. nbThreads' = NewDataHosts(d, nb)
    BY <1>5 DEF DataHostCommand
  <2> HIDE DEF nb
  <2>2. \A x \in Hosts : nbThreads[h][x] # 0 => nbThreads'[h][x] = nbThreads[h][x]
    BY <2>1, KnownStays
  <2>3. conn[h] \subseteq conn'[h]
    BY <1>5 DEF DataHostCommand, connect, TypeGroups
  <2> QED
    BY <1>5, <2>2, <2>3 DEF DataHostCommand, StepOf, Keeps, Idles
<1> QED
  BY <1>1, <1>2, <1>3, <1>4, <1>5 DEF NextGroups

(* Blocks change no links.                                                 *)
SameLinks(v, w) == \A x \in Groups : w[x].outs = v[x].outs /\ w[x].ins = v[x].ins

LEMMA SameKeepsLinks ==
    ASSUME NEW d, NEW v \in Views, NEW s \in Statements, s.op = "same", NEW f, SameSteps(d, v, s, f)
    PROVE  \A i \in 0 .. Len(v[s.ref].hosts) : SameLinks(v, f[i])
<1> DEFINE n == Len(v[s.ref].hosts)
           T == {i \in 0 .. n : SameLinks(v, f[i])}
<1>1. s.grp \in Groups /\ s.ref \in Groups
  BY DEF Statements
<1>2. n \in Nat
  BY <1>1, LenProperties DEF Views, GroupState
<1>3. 0 \in T
  BY <1>2 DEF SameSteps, SameLinks
<1>4. ASSUME NEW i \in 1 .. n, i - 1 \in T PROVE i \in T
  <2>1. i - 1 \in 0 .. n /\ i \in 0 .. n
    BY <1>2
  <2>2. f[i - 1] \in Views /\ SameBlock(v, s, i) \in Blocks /\ f[i] = AddHost(d, f[i - 1], s.grp, SameBlock(v, s, i))
    BY <2>1 DEF SameSteps
  <2>3. PICK w \in Views, b \in Blocks : w = f[i - 1] /\ b = SameBlock(v, s, i)
    BY <2>2
  <2>4. \A x \in Groups : Counted(d, w, s.grp, b, x, AddHost(d, w, s.grp, b)[x])
    BY <1>1, AddHostIs
  <2>5. SameLinks(w, f[i])
    BY <2>2, <2>3, <2>4 DEF Counted, SameLinks
  <2>6. SameLinks(v, w)
    BY <1>4, <2>3
  <2> QED
    BY <2>1, <2>5, <2>6 DEF SameLinks
<1> HIDE DEF T
<1>5. \A i \in 0 .. n : i \in T
  BY <1>2, <1>3, <1>4, Climb
<1> QED
  BY <1>5 DEF T

LEMMA ExecuteLinks ==
    ASSUME NEW d \in Hosts, NEW v \in Views, NEW s \in Statements, nbThreads \in [Hosts -> [Hosts -> Nat]]
    PROVE  IF s.op = "connect" THEN \A x \in Groups : Linked(v, s.link, x, Execute(d, v, s)[x])
           ELSE SameLinks(v, Execute(d, v, s))
<1>1. s.op \in {"connect", "assign", "same"}
  BY ExecuteIs
<1>2. CASE s.op = "connect"
  BY <1>2, ExecuteIs, AddLinkIs
<1>3. CASE s.op = "assign"
  <2>1. PICK g \in Groups, b \in Blocks : Execute(d, v, s) = AddHost(d, v, g, b)
    BY <1>3, ExecuteIs
  <2>2. \A x \in Groups : Counted(d, v, g, b, x, Execute(d, v, s)[x])
    BY <2>1, AddHostIs
  <2> QED
    BY <1>3, <2>2 DEF Counted, SameLinks
<1>4. CASE s.op = "same"
  <2>1. PICK f : SameSteps(d, v, s, f)
    BY <1>4, AddSameIs
  <2>2. Len(v[s.ref].hosts) \in Nat
    BY <1>4, ExecuteIs, LenProperties DEF Views, GroupState
  <2>3. Len(v[s.ref].hosts) \in 0 .. Len(v[s.ref].hosts)
    BY <2>2
  <2>4. Execute(d, v, s) = f[Len(v[s.ref].hosts)]
    BY <1>4, <2>1, ExecuteIs DEF SameSteps
  <2>5. SameLinks(v, Execute(d, v, s))
    BY <1>4, <2>1, <2>3, <2>4, SameKeepsLinks
  <2> QED
    BY <1>4, <2>5
<1> QED
  BY <1>1, <1>2, <1>3, <1>4

-----------------------------------------------------------------------------
(* Both ends of a link know it.                                            *)
Mutual(v) ==
    \A g \in Groups : \A i \in DOMAIN v[g].outs :
        /\ v[g].outs[i].src = g /\ v[g].outs[i] \in Links
        /\ \E j \in DOMAIN v[v[g].outs[i].dst].ins : v[v[g].outs[i].dst].ins[j] = v[g].outs[i]

(* Sequence p is q with e at its end.                                      *)
Longer(q, e, p) ==
    /\ DOMAIN p = DOMAIN q \cup {Len(q) + 1} /\ p[Len(q) + 1] = e
    /\ \A i \in DOMAIN q : p[i] = q[i]

LEMMA AppendLonger ==
    ASSUME NEW S, NEW q \in Seq(S), NEW e \in S
    PROVE  Longer(q, e, Append(q, e))
<1>1. DOMAIN q = 1 .. Len(q) /\ Len(q) \in Nat
  BY LenProperties
<1>2. DOMAIN Append(q, e) = 1 .. Len(q) + 1 /\ Append(q, e)[Len(q) + 1] = e
      /\ \A i \in 1 .. Len(q) : Append(q, e)[i] = q[i]
  BY AppendProperties, LenProperties
<1>3. \A m \in Nat : 1 .. m + 1 = (1 .. m) \cup {m + 1}
  OBVIOUS
<1> QED
  BY <1>1, <1>2, <1>3 DEF Longer

LEMMA LinkedLonger ==
    ASSUME NEW v \in Views, NEW l \in Links, NEW x \in Groups, NEW u, Linked(v, l, x, u)
    PROVE  /\ x = l.src => Longer(v[x].outs, l, u.outs)
           /\ x # l.src => u.outs = v[x].outs
           /\ x = l.dst => Longer(v[x].ins, l, u.ins)
           /\ x # l.dst => u.ins = v[x].ins
<1>1. v[x].outs \in Seq(Links) /\ v[x].ins \in Seq(Links)
  BY DEF Views, GroupState
<1>2. CASE x = l.src
  <2>1. u.outs = Append(v[x].outs, l)
    BY <1>2 DEF Linked
  <2> QED
    <3>1. Longer(v[x].outs, l, Append(v[x].outs, l))
      BY <1>1, AppendLonger
    <3>2. x = l.dst => u.ins = Append(v[x].ins, l)
      BY DEF Linked
    <3>3. Longer(v[x].ins, l, Append(v[x].ins, l))
      BY <1>1, AppendLonger
    <3>4. x # l.dst => u.ins = v[x].ins
      BY DEF Linked
    <3> QED
      BY <1>2, <2>1, <3>1, <3>2, <3>3, <3>4, Zenon
<1>3. CASE x # l.src
  <2>1. u.outs = v[x].outs
    BY <1>3 DEF Linked
  <2>2. x = l.dst => u.ins = Append(v[x].ins, l)
    BY DEF Linked
  <2>3. Longer(v[x].ins, l, Append(v[x].ins, l))
    BY <1>1, AppendLonger
  <2>4. x # l.dst => u.ins = v[x].ins
    BY DEF Linked
  <2> QED
    BY <1>3, <2>1, <2>2, <2>3, <2>4, Zenon
<1> QED
  BY <1>2, <1>3

LEMMA MutualStays ==
    ASSUME NEW d \in Hosts, NEW v \in Views, NEW s \in Statements, nbThreads \in [Hosts -> [Hosts -> Nat]],
           Mutual(v)
    PROVE  Mutual(Execute(d, v, s))
<1> PICK w : w = Execute(d, v, s)
  OBVIOUS
<1>1. CASE s.op = "connect"
  <2> DEFINE l == s.link
  <2>1. l \in Links /\ l.src \in Groups /\ l.dst \in Groups
    BY <1>1, ExecuteIs DEF Links
  <2>2. \A x \in Groups : Linked(v, l, x, w[x])
    BY <1>1, ExecuteLinks
  <2> HIDE DEF l
  <2>3. \A x \in Groups : /\ x = l.src => Longer(v[x].outs, l, w[x].outs)
                          /\ x # l.src => w[x].outs = v[x].outs
                          /\ x = l.dst => Longer(v[x].ins, l, w[x].ins)
                          /\ x # l.dst => w[x].ins = v[x].ins
    BY <2>1, <2>2, LinkedLonger
  <2>5. ASSUME NEW x \in Groups, NEW j \in DOMAIN v[x].ins
        PROVE  j \in DOMAIN w[x].ins /\ w[x].ins[j] = v[x].ins[j]
    BY <2>3 DEF Longer
  <2>6. \E j \in DOMAIN w[l.dst].ins : w[l.dst].ins[j] = l
    BY <2>1, <2>3 DEF Longer
  <2>7. ASSUME NEW g \in Groups, NEW i \in DOMAIN w[g].outs
        PROVE  /\ w[g].outs[i].src = g /\ w[g].outs[i] \in Links
               /\ \E j \in DOMAIN w[w[g].outs[i].dst].ins : w[w[g].outs[i].dst].ins[j] = w[g].outs[i]
    <3>1. CASE i \in DOMAIN v[g].outs
      <4>1. w[g].outs[i] = v[g].outs[i]
        BY <2>3, <3>1 DEF Longer
      <4>5. PICK k : k = v[g].outs[i]
        OBVIOUS
      <4>6. k \in Links /\ k.src = g /\ \E j \in DOMAIN v[k.dst].ins : v[k.dst].ins[j] = k
        BY <3>1, <4>5 DEF Mutual
      <4>2. k = v[g].outs[i] /\ k \in Links /\ k.src = g /\ k.dst \in Groups
            /\ \E j \in DOMAIN v[k.dst].ins : v[k.dst].ins[j] = k
        BY <4>5, <4>6 DEF Links
      <4>3. PICK j \in DOMAIN v[k.dst].ins : v[k.dst].ins[j] = k
        BY <4>2
      <4>4. j \in DOMAIN w[k.dst].ins /\ w[k.dst].ins[j] = k
        BY <2>5, <4>2, <4>3
      <4> QED
        BY <4>1, <4>2, <4>4
    <3>2. CASE i \notin DOMAIN v[g].outs
      <4>1. g = l.src /\ w[g].outs[i] = l
        BY <2>3, <3>2 DEF Longer
      <4> QED
        BY <2>1, <2>6, <4>1
    <3> QED
      BY <3>1, <3>2
  <2>8. Mutual(w)
    BY <2>7 DEF Mutual
  <2> QED
    BY <2>8
<1>2. CASE s.op # "connect"
  <2>1. SameLinks(v, w)
    BY <1>2, ExecuteLinks
  <2>2. ASSUME NEW g \in Groups, NEW i \in DOMAIN w[g].outs
        PROVE  /\ w[g].outs[i].src = g /\ w[g].outs[i] \in Links
               /\ \E j \in DOMAIN w[w[g].outs[i].dst].ins : w[w[g].outs[i].dst].ins[j] = w[g].outs[i]
    <3>1. w[g].outs = v[g].outs
      BY <2>1 DEF SameLinks
    <3>2. PICK k : k = v[g].outs[i]
      OBVIOUS
    <3>3. k \in Links /\ k.src = g /\ \E j \in DOMAIN v[k.dst].ins : v[k.dst].ins[j] = k
      BY <3>1, <3>2 DEF Mutual
    <3>4. k.dst \in Groups
      BY <3>3 DEF Links
    <3>5. w[k.dst].ins = v[k.dst].ins
      BY <2>1, <3>4 DEF SameLinks
    <3> QED
      BY <3>1, <3>2, <3>3, <3>5
  <2>3. Mutual(w)
    BY <2>2 DEF Mutual
  <2> QED
    BY <2>3
<1> QED
  BY <1>1, <1>2

ConnectionsInv ==
    \A h \in Hosts :
        /\ Mutual(view[h])
        /\ phase[h] = "running" => \A g \in Groups : Wanted(h, view[h], g) \subseteq conn[h]

LEMMA ConnectionsStart == InitGroups => ConnectionsInv
<1> SUFFICES ASSUME InitGroups, NEW h \in Hosts PROVE Mutual(view[h]) /\ phase[h] # "running"
  BY DEF ConnectionsInv
<1>1. \A g \in Groups : view[h][g].outs = <<>>
  BY DEF InitGroups, EmptyGroup
<1>2. DOMAIN <<>> = {}
  OBVIOUS
<1>3. phase[h] = "unread"
  BY DEF InitGroups
<1> QED
  BY <1>1, <1>2, <1>3 DEF Mutual

LEMMA ConnectionsInvStays == TypeGroups /\ ConnectionsInv /\ [NextGroups]_groups => ConnectionsInv'
<1> SUFFICES ASSUME TypeGroups, ConnectionsInv, [NextGroups]_groups, NEW h \in Hosts
             PROVE  /\ Mutual(view[h])'
                    /\ (phase[h] = "running" => \A g \in Groups : Wanted(h, view[h], g) \subseteq conn[h])'
  BY DEF ConnectionsInv
<1>1. StepOf(h)
  BY Steps
<1>2. Mutual(view[h]) /\ (phase[h] = "running" => \A g \in Groups : Wanted(h, view[h], g) \subseteq conn[h])
  BY DEF ConnectionsInv
<1>3. conn[h] \subseteq conn'[h]
  BY <1>1 DEF StepOf, Keeps
<1>4. view[h] \in Views /\ nbThreads \in [Hosts -> [Hosts -> Nat]]
  BY DEF TypeGroups
<1>5. PICK u : u = view'[h]
  OBVIOUS
<1> SUFFICES Mutual(u) /\ (phase'[h] = "running" => \A g \in Groups : Wanted(h, u, g) \subseteq conn'[h])
  BY <1>5
<1>6. CASE Idles(h)
  BY <1>2, <1>3, <1>5, <1>6 DEF Idles
<1>7. CASE ReadsOne(h)
  <2>1. PICK s \in Statements : Reads(h, s)
    BY <1>7 DEF ReadsOne
  <2>2. u = Execute(h, view[h], s) /\ phase'[h] # "running"
    BY <1>5, <1>7, <2>1 DEF Reads, ReadsOne
  <2> QED
    BY <1>2, <1>4, <2>2, MutualStays
<1>8. CASE Declares(h)
  BY <1>2, <1>5, <1>8 DEF Declares
<1>9. CASE Finishes(h)
  BY <1>2, <1>5, <1>9 DEF Finishes
<1> QED
  BY <1>1, <1>6, <1>7, <1>8, <1>9 DEF StepOf

LEMMA RunsConnected == TypeGroups /\ ConnectionsInv => Connected
<1> SUFFICES ASSUME TypeGroups, ConnectionsInv, NEW d \in Hosts, NEW g \in Groups,
                    phase[d] = "running", view[d][g].nb_local_nodes > 0,
                    NEW i \in DOMAIN view[d][g].outs, NEW l, l = view[d][g].outs[i],
                    ~l.local, ~(Skips(l) /\ view[d][g].nb_local_nodes = 1)
             PROVE  Reaches(d, g, l)
  BY DEF Connected, Reaches
<1> PICK v \in Views : v = view[d]
  BY DEF TypeGroups
<1>6. l.src = g /\ l \in Links /\ \E j \in DOMAIN v[l.dst].ins : v[l.dst].ins[j] = l
  <2>1. Mutual(v)
    BY DEF ConnectionsInv
  <2>2. i \in DOMAIN v[g].outs /\ v[g].outs[i] = l
    OBVIOUS
  <2>3. /\ v[g].outs[i].src = g /\ v[g].outs[i] \in Links
        /\ \E j \in DOMAIN v[v[g].outs[i].dst].ins : v[v[g].outs[i].dst].ins[j] = v[g].outs[i]
    BY <2>1, <2>2 DEF Mutual
  <2> QED
    BY <2>2, <2>3
<1>1. l.src = g /\ l \in Links /\ l.dst \in Groups /\ \E j \in DOMAIN v[l.dst].ins : v[l.dst].ins[j] = l
  BY <1>6 DEF Links
<1>2. v[g].nb_local_nodes \in Nat
  BY DEF Views, GroupState
<1>3. get_nb_local_in(v, l) > 0
  BY <1>1, <1>2 DEF get_nb_local_in, Minus
<1>4. Needed(v, l.dst)
  BY <1>1, <1>3 DEF Needed
<1>5. {v[l.dst].hosts[k].host : k \in DOMAIN v[l.dst].hosts} \ {d} \subseteq conn[d]
  BY <1>1, <1>4 DEF Wanted, ConnectionsInv
<1> QED
  BY <1>5 DEF Reaches

(* A running daemon is connected to every host its nodes send to, whatever *)
(* the model and the order in which the daemons read it: both ends of a    *)
(* link know it, and the end of the reading opens what the links into each *)
(* group need (Topology::read, connect_hosts_as_needed).                   *)
THEOREM RunningConnected == SpecGroups => []Connected
<1>1. InitGroups => ConnectionsInv
  BY ConnectionsStart
<1>2. TypeGroups /\ ConnectionsInv => Connected
  BY RunsConnected
<1>3. TypeGroups /\ ConnectionsInv /\ [NextGroups]_groups => ConnectionsInv'
  BY ConnectionsInvStays
<1> QED
  BY <1>1, <1>2, <1>3, GroupsTypeCorrect, PTL DEF SpecGroups

-----------------------------------------------------------------------------
(* Numbers that fall on the items of a sequence of amounts.                *)
Tallies(w, n) == n \in Nat /\ DOMAIN w = 1 .. n /\ \A i \in 1 .. n : w[i] \in Nat

LEMMA BeforeIs ==
    ASSUME NEW w, NEW n, Tallies(w, n)
    PROVE  /\ \A j \in 1 .. n + 1 : Before(w, j) \in Int
           /\ Before(w, 1) = 0
           /\ \A j \in 1 .. n : Before(w, j + 1) = Before(w, j) + w[j]
           /\ Before(w, n + 1) = SumFunction(w)
<1> DEFINE f(j) == [i \in 1 .. j - 1 |-> w[i]]
<1>1. n \in Nat /\ DOMAIN w = 1 .. n /\ \A i \in 1 .. n : w[i] \in Nat
  BY DEF Tallies
<1>2. \A j : Before(w, j) = SumFunction(f(j))
  BY DEF Before
<1>3. ASSUME NEW j \in 1 .. n + 1
      PROVE  Summable(f(j)) /\ DOMAIN f(j) = 1 .. j - 1 /\ \A i \in 1 .. j - 1 : f(j)[i] = w[i]
  <2>1. DOMAIN f(j) = 1 .. j - 1 /\ \A i \in 1 .. j - 1 : f(j)[i] = w[i]
    OBVIOUS
  <2>2. IsFiniteSet(1 .. j - 1)
    BY <1>1, FS_Interval
  <2>3. \A i \in 1 .. j - 1 : i \in 1 .. n
    BY <1>1
  <2>4. \A i \in 1 .. j - 1 : w[i] \in Int
    BY <1>1, <2>3
  <2> HIDE DEF f
  <2> QED
    BY <2>1, <2>2, <2>4 DEF Summable
<1>4. DOMAIN f(1) = {}
  OBVIOUS
<1>5. SumFunction(f(n + 1)) = SumFunction(w)
  <2>1. n + 1 \in 1 .. n + 1 /\ n + 1 - 1 = n
    BY <1>1
  <2> HIDE DEF f
  <2>2. Summable(f(n + 1)) /\ DOMAIN f(n + 1) = 1 .. n /\ \A i \in 1 .. n : f(n + 1)[i] = w[i]
    <3>1. PICK k \in 1 .. n + 1 : k = n + 1
      BY <2>1
    <3>2. k - 1 = n
      BY <1>1, <3>1
    <3>3. Summable(f(k)) /\ DOMAIN f(k) = 1 .. n /\ \A i \in 1 .. n : f(k)[i] = w[i]
      BY <1>3, <3>2
    <3> QED
      BY <3>1, <3>3
  <2>3. Summable(w)
    <3>1. IsFiniteSet(1 .. n)
      BY <1>1, FS_Interval
    <3>2. \A i \in 1 .. n : w[i] \in Int
      BY <1>1
    <3> QED
      BY <1>1, <3>1, <3>2 DEF Summable
  <2> QED
    <3> PICK a : a = f(n + 1)
      OBVIOUS
    <3>1. Summable(a) /\ DOMAIN a = 1 .. n /\ \A i \in 1 .. n : a[i] = w[i]
      BY <2>2
    <3>2. SumFunction(w) = SumFunction(a)
      BY <1>1, <2>3, <3>1, SumSame
    <3> QED
      BY <3>2
<1> HIDE DEF f
<1>6. \A j \in 1 .. n + 1 : Before(w, j) \in Int
  BY <1>2, <1>3, SumType
<1>7. Before(w, 1) = 0
  BY <1>2, <1>4, SumEmpty
<1>8. ASSUME NEW j \in 1 .. n PROVE Before(w, j + 1) = Before(w, j) + w[j]
  <2>1. j \in 1 .. n + 1 /\ j + 1 \in 1 .. n + 1 /\ j - 1 \in Nat /\ j + 1 - 1 = j /\ j - 1 + 1 = j
        /\ j \in 1 .. j /\ \A i \in 1 .. j - 1 : i \in 1 .. j
    BY <1>1
  <2>2. Summable(f(j)) /\ DOMAIN f(j) = 1 .. j - 1 /\ \A i \in 1 .. j - 1 : f(j)[i] = w[i]
    BY <1>3, <2>1
  <2>3. Summable(f(j + 1)) /\ DOMAIN f(j + 1) = 1 .. j /\ \A i \in 1 .. j : f(j + 1)[i] = w[i]
    BY <1>3, <2>1
  <2> PICK a, b : a = f(j) /\ b = f(j + 1)
    OBVIOUS
  <2>4. PICK m \in Nat : m = j - 1 /\ m + 1 = j
    BY <2>1
  <2>5. SumFunction(b) = SumFunction(a) + b[m + 1]
    <3>1. Summable(a) /\ DOMAIN a = 1 .. m /\ Summable(b) /\ DOMAIN b = 1 .. m + 1 /\ \A i \in 1 .. m : b[i] = a[i]
      BY <2>1, <2>2, <2>3, <2>4
    <3> QED
      BY <3>1, SumAppend
  <2> QED
    BY <1>2, <2>1, <2>3, <2>4, <2>5
<1> QED
  BY <1>2, <1>5, <1>6, <1>7, <1>8

LEMMA BeforeGrows ==
    ASSUME NEW w, NEW n, Tallies(w, n)
    PROVE  \A k \in 1 .. n + 1 : \A j \in 1 .. k : 0 <= Before(w, j) /\ Before(w, j) <= Before(w, k)
<1> DEFINE T == {m \in 0 .. n : \A j \in 1 .. m + 1 : 0 <= Before(w, j) /\ Before(w, j) <= Before(w, m + 1)}
<1>1. n \in Nat /\ DOMAIN w = 1 .. n /\ \A i \in 1 .. n : w[i] \in Nat
  BY DEF Tallies
<1>2. 0 \in T
  <2>1. \A j \in 1 .. 0 + 1 : j = 1
    OBVIOUS
  <2>2. Before(w, 1) = 0
    BY BeforeIs
  <2> QED
    BY <1>1, <2>1, <2>2
<1>3. ASSUME NEW m \in 1 .. n, m - 1 \in T PROVE m \in T
  <2>1. m - 1 + 1 = m /\ m \in 0 .. n /\ m \in 1 .. m /\ m \in 1 .. n + 1 /\ m + 1 \in 1 .. n + 1
    BY <1>1
  <2>2. \A j \in 1 .. m : 0 <= Before(w, j) /\ Before(w, j) <= Before(w, m)
    BY <1>3, <2>1
  <2>3. Before(w, m + 1) = Before(w, m) + w[m] /\ w[m] \in Nat /\ Before(w, m) \in Int /\ Before(w, m + 1) \in Int
    BY <1>1, <2>1, BeforeIs
  <2>4. 0 <= Before(w, m) /\ Before(w, m) <= Before(w, m + 1)
    BY <2>1, <2>2, <2>3
  <2>5. \A j \in 1 .. m + 1 : j \in 1 .. m \/ j = m + 1
    BY <1>1
  <2>6. \A j \in 1 .. m : Before(w, j) \in Int
    BY <1>1, BeforeIs
  <2>7. ASSUME NEW j \in 1 .. m + 1 PROVE 0 <= Before(w, j) /\ Before(w, j) <= Before(w, m + 1)
    <3>1. CASE j \in 1 .. m
      <4>1. 0 <= Before(w, j) /\ Before(w, j) <= Before(w, m) /\ Before(w, j) \in Int
        BY <2>2, <2>6, <3>1
      <4> QED
        BY <2>3, <2>4, <4>1
    <3>2. CASE j = m + 1
      BY <2>3, <2>4, <3>2
    <3> QED
      BY <2>5, <3>1, <3>2
  <2> QED
    BY <2>1, <2>7
<1> HIDE DEF T
<1>4. \A m \in 0 .. n : m \in T
  BY <1>1, <1>2, <1>3, Climb
<1>5. ASSUME NEW k \in 1 .. n + 1 PROVE \A j \in 1 .. k : 0 <= Before(w, j) /\ Before(w, j) <= Before(w, k)
  <2>1. k - 1 \in 0 .. n /\ k - 1 + 1 = k
    BY <1>1
  <2> QED
    BY <1>4, <2>1 DEF T
<1> QED
  BY <1>5

LEMMA FallsOnce ==
    ASSUME NEW w, NEW n, Tallies(w, n), NEW x \in Int, NEW j, FallsOn(w, x, j), NEW k, FallsOn(w, x, k)
    PROVE  j = k
<1>1. n \in Nat /\ DOMAIN w = 1 .. n /\ \A i \in 1 .. n : w[i] \in Nat
  BY DEF Tallies
<1>2. ASSUME NEW a \in 1 .. n, NEW b \in 1 .. n, FallsOn(w, x, a), FallsOn(w, x, b) PROVE ~(a < b)
  <2> SUFFICES ASSUME a < b PROVE FALSE
    OBVIOUS
  <2>1. a + 1 \in 1 .. b /\ b \in 1 .. n + 1 /\ a \in 1 .. n + 1 /\ a + 1 \in 1 .. n + 1
    BY <1>1
  <2>2. Before(w, a + 1) <= Before(w, b)
    BY <2>1, BeforeGrows
  <2>3. Before(w, a + 1) = Before(w, a) + w[a]
    BY BeforeIs
  <2>4. Before(w, a) \in Int /\ Before(w, b) \in Int /\ w[a] \in Nat
    BY <1>1, <2>1, BeforeIs
  <2>5. x < Before(w, a) + w[a] /\ Before(w, b) <= x
    BY <1>2 DEF FallsOn
  <2> QED
    BY <2>2, <2>3, <2>4, <2>5
<1>3. j \in 1 .. n /\ k \in 1 .. n
  BY <1>1 DEF FallsOn
<1>4. ~(j < k) /\ ~(k < j)
  BY <1>2, <1>3
<1> QED
  BY <1>1, <1>3, <1>4

LEMMA Falls ==
    ASSUME NEW w, NEW n, Tallies(w, n), NEW x \in Int, 0 <= x, x < SumFunction(w)
    PROVE  \E j \in 1 .. n : FallsOn(w, x, j) /\ x - Before(w, j) \in 0 .. w[j] - 1
<1> DEFINE T == {m \in 0 .. n : x < Before(w, m + 1) => \E j \in 1 .. n : FallsOn(w, x, j)}
<1>1. n \in Nat /\ DOMAIN w = 1 .. n /\ \A i \in 1 .. n : w[i] \in Nat
  BY DEF Tallies
<1>2. 0 \in T
  <2>1. Before(w, 0 + 1) = 0
    BY BeforeIs
  <2> QED
    BY <1>1, <2>1
<1>3. ASSUME NEW m \in 1 .. n, m - 1 \in T PROVE m \in T
  <2>1. m - 1 + 1 = m /\ m \in 0 .. n /\ m \in 1 .. n + 1
    BY <1>1
  <2>2. x < Before(w, m) => \E j \in 1 .. n : FallsOn(w, x, j)
    BY <1>3, <2>1
  <2>3. Before(w, m + 1) = Before(w, m) + w[m] /\ Before(w, m) \in Int
    BY <2>1, BeforeIs
  <2>4. x < Before(w, m + 1) /\ ~(x < Before(w, m)) => FallsOn(w, x, m)
    BY <1>1, <2>3 DEF FallsOn
  <2> QED
    BY <2>1, <2>2, <2>4
<1> HIDE DEF T
<1>4. \A m \in 0 .. n : m \in T
  BY <1>1, <1>2, <1>3, Climb
<1>5. n \in T /\ Before(w, n + 1) = SumFunction(w)
  BY <1>1, <1>4, BeforeIs
<1>6. PICK j \in 1 .. n : FallsOn(w, x, j)
  BY <1>5 DEF T
<1>7. Before(w, j) \in Int /\ w[j] \in Nat
  <2>1. j \in 1 .. n + 1
    BY <1>1
  <2> QED
    BY <1>1, <2>1, BeforeIs
<1>8. x - Before(w, j) \in 0 .. w[j] - 1
  BY <1>6, <1>7 DEF FallsOn
<1> QED
  BY <1>6, <1>8

LEMMA FallsBack ==
    ASSUME NEW w, NEW n, Tallies(w, n), NEW j \in 1 .. n, NEW p \in 0 .. w[j] - 1
    PROVE  /\ FallsOn(w, Before(w, j) + p, j)
           /\ Before(w, j) + p \in 0 .. SumFunction(w) - 1
<1>1. n \in Nat /\ DOMAIN w = 1 .. n /\ w[j] \in Nat
  BY DEF Tallies
<1>2. j \in 1 .. n + 1 /\ j + 1 \in 1 .. n + 1 /\ n + 1 \in 1 .. n + 1 /\ j \in 1 .. j
  BY <1>1
<1>3. Before(w, j) \in Int /\ Before(w, j + 1) = Before(w, j) + w[j] /\ Before(w, n + 1) = SumFunction(w)
      /\ Before(w, n + 1) \in Int
  BY <1>2, BeforeIs
<1>4. 0 <= Before(w, j) /\ Before(w, j + 1) <= Before(w, n + 1)
  BY <1>2, BeforeGrows
<1>5. FallsOn(w, Before(w, j) + p, j)
  BY <1>1, <1>3 DEF FallsOn
<1> QED
  BY <1>1, <1>3, <1>4, <1>5

LEMMA SumOfNats ==
    ASSUME NEW w, NEW n, Tallies(w, n)
    PROVE  SumFunction(w) \in Nat
<1>1. n \in Nat
  BY DEF Tallies
<1>2. n + 1 \in 1 .. n + 1 /\ 1 \in 1 .. n + 1
  BY <1>1
<1>3. 0 <= Before(w, 1) /\ Before(w, 1) <= Before(w, n + 1) /\ Before(w, 1) = 0 /\ Before(w, n + 1) = SumFunction(w)
      /\ Before(w, n + 1) \in Int
  BY <1>2, BeforeGrows, BeforeIs
<1> QED
  BY <1>3

-----------------------------------------------------------------------------
(* The groups of daemon d hold the nodes A of the model.                   *)
FitsGroup(d, w, a) ==
    /\ a \in [Hosts -> Nat]
    /\ w.nb_nodes = w.nb_local_nodes + SumFunction(Far(d, w.hosts))
    /\ w.nb_local_nodes = a[d]
    /\ \A i \in DOMAIN w.hosts : w.hosts[i].nb = a[w.hosts[i].host]
    /\ \A h \in Hosts : a[h] # 0 => \E i \in DOMAIN w.hosts : w.hosts[i].host = h
    /\ \A i, j \in DOMAIN w.hosts : w.hosts[i].host = w.hosts[j].host => i = j

Node(g, h, k) == [grp |-> g, host |-> h, id |-> k]
NodesBy(a, g) == UNION {{Node(g, h, k) : k \in 0 .. a[h] - 1} : h \in Hosts}

LEMMA FarTallies ==
    ASSUME NEW d, NEW hosts \in Seq(Blocks)
    PROVE  Tallies(Far(d, hosts), Len(hosts))
<1>1. Len(hosts) \in Nat /\ DOMAIN hosts = 1 .. Len(hosts) /\ \A i \in 1 .. Len(hosts) : hosts[i] \in Blocks
  BY LenProperties, ElementOfSeq
<1>2. \A i \in 1 .. Len(hosts) : hosts[i].nb \in Nat
  BY <1>1 DEF Blocks
<1> QED
  BY <1>1, <1>2 DEF Tallies, Far

(* Where the number k of group g leads.                                    *)
Near(d, w, g, k, m) == k < w.nb_local_nodes /\ m = Node(g, d, k)
Beyond(d, w, g, k, m, j) ==
    /\ k >= w.nb_local_nodes
    /\ j \in DOMAIN w.hosts /\ w.hosts[j].host # d
    /\ FallsOn(Far(d, w.hosts), k - w.nb_local_nodes, j)
    /\ k - w.nb_local_nodes - Before(Far(d, w.hosts), j) \in 0 .. w.hosts[j].nb - 1
    /\ m = Node(g, w.hosts[j].host, k - w.nb_local_nodes - Before(Far(d, w.hosts), j))

LEMMA SendIs ==
    ASSUME NEW d \in Hosts, NEW v \in Views, NEW g \in Groups, NEW a, FitsGroup(d, v[g], a),
           NEW k \in 0 .. v[g].nb_nodes - 1
    PROVE  \/ Near(d, v[g], g, k, Send(d, v, g, k))
           \/ \E j : Beyond(d, v[g], g, k, Send(d, v, g, k), j)
<1> DEFINE far == Far(d, v[g].hosts)
           rest == k - v[g].nb_local_nodes
           C == CHOOSE j \in DOMAIN far : FallsOn(far, rest, j)
<1>1. v[g].nb_nodes \in Nat /\ v[g].nb_local_nodes \in Nat /\ v[g].hosts \in Seq(Blocks)
  BY DEF Views, GroupState
<1>2. Tallies(far, Len(v[g].hosts)) /\ DOMAIN v[g].hosts = 1 .. Len(v[g].hosts)
  BY <1>1, FarTallies, LenProperties
<1>3. Send(d, v, g, k) = IF k >= v[g].nb_nodes THEN Lost
                         ELSE IF rest < 0 THEN Node(g, d, k)
                         ELSE Node(g, v[g].hosts[C].host, rest - Before(far, C))
  BY DEF Send, Node
<1>4. ~(k >= v[g].nb_nodes)
  BY <1>1
<1>5. CASE rest < 0
  <2>1. k < v[g].nb_local_nodes
    BY <1>1, <1>5
  <2> HIDE DEF rest
  <2>2. Send(d, v, g, k) = Node(g, d, k)
    BY <1>3, <1>4, <1>5
  <2> QED
    BY <2>1, <2>2 DEF Near
<1>6. CASE ~(rest < 0)
  <2>1. rest \in Int /\ 0 <= rest /\ k >= v[g].nb_local_nodes
    BY <1>1, <1>6
  <2>2. v[g].nb_nodes = v[g].nb_local_nodes + SumFunction(far)
    BY DEF FitsGroup
  <2> HIDE DEF far
  <2>3. SumFunction(far) \in Nat
    BY <1>2, SumOfNats
  <2>4. rest < SumFunction(far)
    BY <1>1, <2>2, <2>3
  <2> HIDE DEF rest
  <2>5. PICK j \in 1 .. Len(v[g].hosts) : FallsOn(far, rest, j) /\ rest - Before(far, j) \in 0 .. far[j] - 1
    BY <1>2, <2>1, <2>4, Falls
  <2>6. DOMAIN far = 1 .. Len(v[g].hosts)
    BY <1>2 DEF Tallies
  <2>7. C \in DOMAIN far /\ FallsOn(far, rest, C)
    BY <2>5, <2>6
  <2> HIDE DEF C
  <2>8. C = j
    BY <1>2, <2>1, <2>5, <2>7, FallsOnce
  <2>9. Send(d, v, g, k) = Node(g, v[g].hosts[j].host, rest - Before(far, j))
    BY <1>3, <1>4, <1>6, <2>8
  <2>10. far[j] = IF v[g].hosts[j].host = d THEN 0 ELSE v[g].hosts[j].nb
    BY <1>2, <2>5 DEF far, Far
  <2>11. v[g].hosts[j].host # d /\ far[j] = v[g].hosts[j].nb
    <3>1. far[j] # 0
      BY <2>5
    <3> QED
      BY <2>10, <3>1
  <2>12. Beyond(d, v[g], g, k, Send(d, v, g, k), j)
    BY <1>2, <2>1, <2>5, <2>9, <2>11 DEF Beyond, far, rest
  <2> QED
    BY <2>12
<1> QED
  BY <1>5, <1>6

LEMMA SendInto ==
    ASSUME NEW d \in Hosts, NEW v \in Views, NEW g \in Groups, NEW a, FitsGroup(d, v[g], a),
           NEW k \in 0 .. v[g].nb_nodes - 1
    PROVE  /\ Send(d, v, g, k) \in NodesBy(a, g)
           /\ Send(d, v, g, k).host = d <=> k < v[g].nb_local_nodes
           /\ k < v[g].nb_local_nodes => Send(d, v, g, k) = Node(g, d, k)
<1>1. v[g].nb_nodes \in Nat /\ v[g].nb_local_nodes \in Nat /\ v[g].hosts \in Seq(Blocks)
  BY DEF Views, GroupState
<1>2. CASE Near(d, v[g], g, k, Send(d, v, g, k))
  <2>1. k < v[g].nb_local_nodes /\ Send(d, v, g, k) = Node(g, d, k)
    BY <1>2 DEF Near
  <2>2. v[g].nb_local_nodes = a[d]
    BY DEF FitsGroup
  <2>3. k \in 0 .. a[d] - 1
    BY <1>1, <2>1, <2>2
  <2>4. Node(g, d, k) \in NodesBy(a, g) /\ Node(g, d, k).host = d
    BY <2>3 DEF NodesBy, Node
  <2> QED
    BY <2>1, <2>4
<1>3. CASE \E j : Beyond(d, v[g], g, k, Send(d, v, g, k), j)
  <2>1. PICK j : Beyond(d, v[g], g, k, Send(d, v, g, k), j)
    BY <1>3
  <2>2. PICK p : p = k - v[g].nb_local_nodes - Before(Far(d, v[g].hosts), j)
    OBVIOUS
  <2>3. j \in DOMAIN v[g].hosts /\ v[g].hosts[j].host # d /\ p \in 0 .. v[g].hosts[j].nb - 1
        /\ Send(d, v, g, k) = Node(g, v[g].hosts[j].host, p) /\ ~(k < v[g].nb_local_nodes)
    BY <1>1, <2>1, <2>2 DEF Beyond
  <2>4. v[g].hosts[j].host \in Hosts
    <3>1. v[g].hosts[j] \in Blocks
      BY <1>1, <2>3, LenProperties, ElementOfSeq
    <3> QED
      BY <3>1 DEF Blocks
  <2>5. v[g].hosts[j].nb = a[v[g].hosts[j].host]
    BY <2>3 DEF FitsGroup
  <2>6. Node(g, v[g].hosts[j].host, p) \in NodesBy(a, g)
    BY <2>3, <2>4, <2>5 DEF NodesBy
  <2>7. Send(d, v, g, k).host = v[g].hosts[j].host
    BY <2>3 DEF Node
  <2> QED
    BY <2>3, <2>6, <2>7
<1> QED
  BY <1>2, <1>3, SendIs

LEMMA SendApart ==
    ASSUME NEW d \in Hosts, NEW v \in Views, NEW g \in Groups, NEW a, FitsGroup(d, v[g], a),
           NEW k \in 0 .. v[g].nb_nodes - 1, NEW q \in 0 .. v[g].nb_nodes - 1,
           Send(d, v, g, k) = Send(d, v, g, q)
    PROVE  k = q
<1>1. v[g].nb_nodes \in Nat /\ v[g].nb_local_nodes \in Nat /\ v[g].hosts \in Seq(Blocks)
  BY DEF Views, GroupState
<1> PICK m : m = Send(d, v, g, k)
  OBVIOUS
<1>2. k < v[g].nb_local_nodes <=> q < v[g].nb_local_nodes
  BY SendInto
<1>3. CASE k < v[g].nb_local_nodes
  <2>1. Node(g, d, k) = Node(g, d, q)
    BY <1>2, <1>3, SendInto
  <2> QED
    BY <2>1 DEF Node
<1>4. CASE ~(k < v[g].nb_local_nodes)
  <2>1. PICK i : Beyond(d, v[g], g, k, m, i)
    BY <1>4, SendIs DEF Near
  <2>2. PICK j : Beyond(d, v[g], g, q, m, j)
    BY <1>2, <1>4, SendIs DEF Near
  <2> DEFINE far == Far(d, v[g].hosts)
  <2>3. i = j
    <3>1. m.host = v[g].hosts[i].host /\ m.host = v[g].hosts[j].host
      BY <2>1, <2>2 DEF Beyond, Node
    <3> QED
      BY <2>1, <2>2, <3>1 DEF Beyond, FitsGroup
  <2>4. m.id = k - v[g].nb_local_nodes - Before(far, i) /\ m.id = q - v[g].nb_local_nodes - Before(far, i)
    BY <2>1, <2>2, <2>3 DEF Beyond, Node
  <2>5. Before(far, i) \in Int
    <3>1. Tallies(far, Len(v[g].hosts)) /\ DOMAIN v[g].hosts = 1 .. Len(v[g].hosts) /\ Len(v[g].hosts) \in Nat
      BY <1>1, FarTallies, LenProperties
    <3>2. i \in 1 .. Len(v[g].hosts) + 1
      BY <2>1, <3>1 DEF Beyond
    <3> HIDE DEF far
    <3> QED
      BY <3>1, <3>2, BeforeIs
  <2> HIDE DEF far
  <2> QED
    BY <1>1, <2>4, <2>5
<1> QED
  BY <1>3, <1>4

LEMMA SendOnto ==
    ASSUME NEW d \in Hosts, NEW v \in Views, NEW g \in Groups, NEW a, FitsGroup(d, v[g], a),
           NEW h \in Hosts, NEW p \in 0 .. a[h] - 1
    PROVE  \E k \in 0 .. v[g].nb_nodes - 1 :
               Send(d, v, g, k) = Node(g, h, p) /\ (h = d => k < v[g].nb_local_nodes)
<1>1. v[g].nb_nodes \in Nat /\ v[g].nb_local_nodes \in Nat /\ v[g].hosts \in Seq(Blocks)
  BY DEF Views, GroupState
<1> DEFINE far == Far(d, v[g].hosts)
           n == Len(v[g].hosts)
<1>2. Tallies(far, n) /\ DOMAIN v[g].hosts = 1 .. n /\ n \in Nat
  BY <1>1, FarTallies, LenProperties
<1>3. SumFunction(far) \in Nat /\ v[g].nb_nodes = v[g].nb_local_nodes + SumFunction(far)
  BY <1>2, SumOfNats DEF FitsGroup
<1>4. a[h] \in Nat /\ v[g].nb_local_nodes = a[d]
  BY DEF FitsGroup
<1>5. CASE h = d
  <2>1. p \in 0 .. v[g].nb_nodes - 1 /\ p < v[g].nb_local_nodes
    BY <1>1, <1>3, <1>4, <1>5
  <2>2. Send(d, v, g, p) = Node(g, d, p)
    BY <2>1, SendInto
  <2> QED
    BY <1>5, <2>1, <2>2
<1>6. CASE h # d
  <2>1. PICK j \in DOMAIN v[g].hosts : v[g].hosts[j].host = h
    BY <1>4 DEF FitsGroup
  <2>2. v[g].hosts[j].nb = a[h]
    BY <2>1 DEF FitsGroup
  <2>3. far[j] = a[h] /\ j \in 1 .. n
    BY <1>2, <1>6, <2>1, <2>2 DEF Far
  <2> HIDE DEF far
  <2> DEFINE k == v[g].nb_local_nodes + (Before(far, j) + p)
  <2>4. FallsOn(far, Before(far, j) + p, j) /\ Before(far, j) + p \in 0 .. SumFunction(far) - 1
    BY <1>2, <2>3, FallsBack
  <2>5. j \in 1 .. n + 1
    BY <1>2, <2>3
  <2>6. Before(far, j) \in Int
    BY <1>2, <2>5, BeforeIs
  <2>7. k \in 0 .. v[g].nb_nodes - 1 /\ k - v[g].nb_local_nodes = Before(far, j) + p /\ ~(k < v[g].nb_local_nodes)
    <3>1. \A x, s \in Nat : \A y \in 0 .. s - 1 :
              x + y \in 0 .. (x + s) - 1 /\ x + y - x = y /\ ~(x + y < x)
      OBVIOUS
    <3>2. PICK y \in 0 .. SumFunction(far) - 1 : y = Before(far, j) + p
      BY <2>4
    <3>3. k = v[g].nb_local_nodes + y
      BY <3>2
    <3> HIDE DEF k
    <3>4. PICK x \in Nat : x = v[g].nb_local_nodes
      BY <1>1
    <3>5. PICK s \in Nat : s = SumFunction(far)
      BY <1>3
    <3>6. v[g].nb_nodes = x + s /\ k = x + y /\ y \in 0 .. s - 1
      BY <1>3, <3>2, <3>3, <3>4, <3>5
    <3>7. x + y \in 0 .. (x + s) - 1 /\ x + y - x = y /\ ~(x + y < x)
      BY <3>1, <3>6
    <3> QED
      BY <3>2, <3>4, <3>6, <3>7
  <2> HIDE DEF k
  <2>8. PICK i : Beyond(d, v[g], g, k, Send(d, v, g, k), i)
    BY <2>7, SendIs DEF Near
  <2>9. FallsOn(far, Before(far, j) + p, i)
    BY <2>7, <2>8 DEF Beyond, far
  <2>10. Before(far, j) + p \in Int
    BY <2>6
  <2>11. i = j
    BY <1>2, <2>4, <2>9, <2>10, FallsOnce
  <2>12. Before(far, j) + p - Before(far, j) = p
    BY <2>6
  <2>13. Send(d, v, g, k) = Node(g, v[g].hosts[j].host, k - v[g].nb_local_nodes - Before(far, j))
    BY <2>8, <2>11 DEF Beyond, far
  <2>14. Send(d, v, g, k) = Node(g, h, p)
    <3> PICK y : y = k - v[g].nb_local_nodes
      OBVIOUS
    <3>3. y = Before(far, j) + p
      BY <2>7
    <3> PICK b \in Int : b = Before(far, j)
      BY <2>6
    <3>4. y = b + p
      BY <3>3
    <3>2. y - b = p
      BY <3>4
    <3>1. k - v[g].nb_local_nodes - Before(far, j) = p
      BY <3>2
    <3> QED
      BY <2>1, <2>13, <3>1
  <2> QED
    BY <1>6, <2>7, <2>14
<1> QED
  BY <1>5, <1>6

-----------------------------------------------------------------------------
(* Through a link.                                                         *)
Fits(d, v, a) == \A x \in Groups : FitsGroup(d, v[x], a[x])

Width(v, l) == IF l.local THEN v[l.dst].nb_local_nodes ELSE v[l.dst].nb_nodes

TargetsBy(a, l, n) ==
    {m \in NodesBy(a[l.dst], l.dst) : (l.local => m.host = n.host) /\ (Skips(l) => m # n)}

(* Node id of group g on daemon d, and a link of the group.                *)
Sender(d, v, a, g, id, l) ==
    /\ v \in Views /\ Fits(d, v, a) /\ g \in Groups /\ l \in Links /\ l.src = g
    /\ id \in Nat /\ id < v[g].nb_local_nodes

Meets(d, v, l, id, p) == Send(d, v, l.dst, get_out_node_id(l, id, p))

LEMMA OutNumbers ==
    ASSUME NEW d \in Hosts, NEW v, NEW a, NEW g, NEW id, NEW l, Sender(d, v, a, g, id, l)
    PROVE  /\ Width(v, l) \in Nat /\ get_nb_out(v, l) \in Nat /\ l.dst \in Groups
           /\ Width(v, l) <= v[l.dst].nb_nodes /\ v[l.dst].nb_local_nodes <= v[l.dst].nb_nodes
           /\ \A p \in 0 .. get_nb_out(v, l) - 1 :
                 /\ get_out_node_id(l, id, p) \in 0 .. Width(v, l) - 1
                 /\ get_out_node_id(l, id, p) \in 0 .. v[l.dst].nb_nodes - 1
                 /\ Skips(l) => get_out_node_id(l, id, p) # id
           /\ \A p, q \in 0 .. get_nb_out(v, l) - 1 :
                 get_out_node_id(l, id, p) = get_out_node_id(l, id, q) => p = q
           /\ \A q \in 0 .. Width(v, l) - 1 :
                 (Skips(l) => q # id) =>
                 \E p \in 0 .. get_nb_out(v, l) - 1 : q = get_out_node_id(l, id, p)
<1>1. /\ v \in Views /\ g \in Groups /\ l \in Links /\ l.src = g /\ id \in Nat /\ id < v[g].nb_local_nodes
      /\ l.dst \in Groups
  BY DEF Sender, Links
<1>2. v[l.dst].nb_nodes \in Nat /\ v[l.dst].nb_local_nodes \in Nat /\ v[l.dst].hosts \in Seq(Blocks)
  BY <1>1 DEF Views, GroupState
<1>3. v[l.dst].nb_nodes = v[l.dst].nb_local_nodes + SumFunction(Far(d, v[l.dst].hosts))
  BY <1>1 DEF Sender, Fits, FitsGroup
<1>4. SumFunction(Far(d, v[l.dst].hosts)) \in Nat
  BY <1>2, FarTallies, SumOfNats
<1>5. v[l.dst].nb_local_nodes <= v[l.dst].nb_nodes
  BY <1>2, <1>3, <1>4
<1> DEFINE N == Width(v, l)
           O == get_nb_out(v, l)
<1>6. N \in Nat /\ v[l.dst].nb_local_nodes <= N /\ N <= v[l.dst].nb_nodes
  BY <1>2, <1>5 DEF Width
<1>7. O = Minus(l, N)
  BY DEF get_nb_out, Width
<1>8. Skips(l) => id < N
  <2> SUFFICES ASSUME Skips(l) PROVE id < N
    OBVIOUS
  <2>1. l.dst = g
    BY <1>1 DEF Skips
  <2> HIDE DEF N
  <2> QED
    BY <1>1, <1>2, <1>6, <2>1
<1> HIDE DEF N, O
<1>9. O \in Nat /\ (Skips(l) => O = N - 1) /\ (~Skips(l) => O = N)
  BY <1>1, <1>6, <1>7, <1>8 DEF Minus
<1>10. ASSUME NEW p \in 0 .. O - 1
       PROVE  get_out_node_id(l, id, p) \in 0 .. N - 1 /\ (Skips(l) => get_out_node_id(l, id, p) # id)
  BY <1>1, <1>6, <1>8, <1>9 DEF get_out_node_id
<1>11. \A p \in 0 .. O - 1 : get_out_node_id(l, id, p) \in 0 .. v[l.dst].nb_nodes - 1
  <2>1. \A q \in 0 .. N - 1 : q \in 0 .. v[l.dst].nb_nodes - 1
    BY <1>2, <1>6
  <2> QED
    BY <1>10, <2>1
<1>12. ASSUME NEW p \in 0 .. O - 1, NEW q \in 0 .. O - 1, get_out_node_id(l, id, p) = get_out_node_id(l, id, q)
       PROVE  p = q
  BY <1>1, <1>9, <1>12 DEF get_out_node_id
<1>13. ASSUME NEW q \in 0 .. N - 1, Skips(l) => q # id
       PROVE  \E p \in 0 .. O - 1 : q = get_out_node_id(l, id, p)
  <2>1. CASE Skips(l) /\ q > id
    <3>1. q - 1 \in 0 .. O - 1 /\ q - 1 >= id /\ q - 1 + 1 = q
      BY <1>1, <1>6, <1>9, <2>1
    <3>2. q = get_out_node_id(l, id, q - 1)
      BY <2>1, <3>1 DEF get_out_node_id
    <3> QED
      BY <3>1, <3>2
  <2>2. CASE ~Skips(l) \/ q < id
    <3>1. q \in 0 .. O - 1
      BY <1>1, <1>6, <1>8, <1>9, <2>2
    <3>2. q = get_out_node_id(l, id, q)
      BY <1>1, <2>2, <3>1 DEF get_out_node_id
    <3> QED
      BY <3>1, <3>2
  <2> QED
    BY <1>1, <1>13, <2>1, <2>2
<1> QED
  BY <1>1, <1>5, <1>6, <1>9, <1>10, <1>11, <1>12, <1>13 DEF N, O

LEMMA MeetsInto ==
    ASSUME NEW d \in Hosts, NEW v, NEW a, NEW g, NEW id, NEW l, Sender(d, v, a, g, id, l),
           NEW p \in 0 .. get_nb_out(v, l) - 1
    PROVE  Meets(d, v, l, id, p) \in TargetsBy(a, l, Node(g, d, id))
<1>1. /\ v \in Views /\ g \in Groups /\ l \in Links /\ l.src = g /\ id \in Nat /\ id < v[g].nb_local_nodes
      /\ l.dst \in Groups /\ FitsGroup(d, v[l.dst], a[l.dst])
  BY DEF Sender, Links, Fits
<1> DEFINE q == get_out_node_id(l, id, p)
           m == Send(d, v, l.dst, q)
<1>2. q \in 0 .. Width(v, l) - 1 /\ q \in 0 .. v[l.dst].nb_nodes - 1 /\ (Skips(l) => q # id)
  BY OutNumbers
<1> HIDE DEF q
<1>3. /\ m \in NodesBy(a[l.dst], l.dst)
      /\ m.host = d <=> q < v[l.dst].nb_local_nodes
      /\ q < v[l.dst].nb_local_nodes => m = Node(l.dst, d, q)
  BY <1>1, <1>2, SendInto
<1>4. v[l.dst].nb_local_nodes \in Nat
  BY <1>1 DEF Views, GroupState
<1> HIDE DEF m
<1>5. l.local => m.host = d
  BY <1>2, <1>3, <1>4 DEF Width
<1>6. Skips(l) => m # Node(g, d, id)
  <2> SUFFICES ASSUME Skips(l), m = Node(g, d, id) PROVE FALSE
    OBVIOUS
  <2>1. l.dst = g /\ m.host = d
    BY <1>1 DEF Skips, Node
  <2>2. Node(g, d, q) = Node(g, d, id)
    BY <1>3, <2>1
  <2> QED
    BY <1>2, <2>2 DEF Node
<1>7. Node(g, d, id).host = d
  BY DEF Node
<1>8. m \in TargetsBy(a, l, Node(g, d, id))
  BY <1>3, <1>5, <1>6, <1>7 DEF TargetsBy
<1> QED
  BY <1>8 DEF m, q, Meets

LEMMA MeetsApart ==
    ASSUME NEW d \in Hosts, NEW v, NEW a, NEW g, NEW id, NEW l, Sender(d, v, a, g, id, l),
           NEW p \in 0 .. get_nb_out(v, l) - 1, NEW q \in 0 .. get_nb_out(v, l) - 1,
           Meets(d, v, l, id, p) = Meets(d, v, l, id, q)
    PROVE  p = q
<1>1. v \in Views /\ l.dst \in Groups /\ FitsGroup(d, v[l.dst], a[l.dst])
  BY DEF Sender, Links, Fits
<1>2. get_out_node_id(l, id, p) \in 0 .. v[l.dst].nb_nodes - 1 /\ get_out_node_id(l, id, q) \in 0 .. v[l.dst].nb_nodes - 1
  BY OutNumbers
<1>3. get_out_node_id(l, id, p) = get_out_node_id(l, id, q)
  BY <1>1, <1>2, SendApart DEF Meets
<1> QED
  BY <1>3, OutNumbers

LEMMA MeetsOnto ==
    ASSUME NEW d \in Hosts, NEW v, NEW a, NEW g, NEW id, NEW l, Sender(d, v, a, g, id, l),
           NEW m \in TargetsBy(a, l, Node(g, d, id))
    PROVE  \E p \in 0 .. get_nb_out(v, l) - 1 : m = Meets(d, v, l, id, p)
<1>1. /\ v \in Views /\ g \in Groups /\ l \in Links /\ l.src = g /\ id \in Nat /\ id < v[g].nb_local_nodes
      /\ l.dst \in Groups /\ FitsGroup(d, v[l.dst], a[l.dst])
  BY DEF Sender, Links, Fits
<1>2. PICK h \in Hosts : \E k \in 0 .. a[l.dst][h] - 1 : m = Node(l.dst, h, k)
  BY DEF TargetsBy, NodesBy
<1>3. PICK k \in 0 .. a[l.dst][h] - 1 : m = Node(l.dst, h, k)
  BY <1>2
<1>4. PICK q \in 0 .. v[l.dst].nb_nodes - 1 : Send(d, v, l.dst, q) = m /\ (h = d => q < v[l.dst].nb_local_nodes)
  BY <1>1, <1>3, SendOnto
<1>5. v[l.dst].nb_local_nodes \in Nat /\ v[l.dst].nb_nodes \in Nat
  BY <1>1 DEF Views, GroupState
<1>6. l.local => h = d
  BY <1>3 DEF TargetsBy, Node
<1>7. q \in 0 .. Width(v, l) - 1
  BY <1>4, <1>5, <1>6 DEF Width
<1>8. Skips(l) => q # id
  <2> SUFFICES ASSUME Skips(l), q = id PROVE FALSE
    OBVIOUS
  <2>1. l.dst = g /\ m # Node(g, d, id)
    BY <1>1 DEF Skips, TargetsBy
  <2>2. m = Node(g, d, id)
    <3>1. q < v[l.dst].nb_local_nodes
      BY <1>1, <2>1
    <3>2. Send(d, v, l.dst, q) = Node(l.dst, d, q)
      BY <1>1, <1>4, <3>1, SendInto
    <3> QED
      BY <1>4, <2>1, <3>2
  <2> QED
    BY <2>1, <2>2
<1>9. PICK p \in 0 .. get_nb_out(v, l) - 1 : q = get_out_node_id(l, id, p)
  BY <1>7, <1>8, OutNumbers
<1> QED
  BY <1>4, <1>9 DEF Meets

-----------------------------------------------------------------------------
(* All the links of a group.                                               *)
Behind(v, g) == [j \in DOMAIN v[g].outs |-> get_nb_out(v, v[g].outs[j])]

LEMMA BehindTallies ==
    ASSUME NEW v \in Views, NEW g \in Groups
    PROVE  Tallies(Behind(v, g), Len(v[g].outs)) /\ \A j \in 1 .. Len(v[g].outs) : v[g].outs[j] \in Links
<1>1. v[g].outs \in Seq(Links)
  BY DEF Views, GroupState
<1>2. Len(v[g].outs) \in Nat /\ DOMAIN v[g].outs = 1 .. Len(v[g].outs) /\ \A i \in 1 .. Len(v[g].outs) : v[g].outs[i] \in Links
  BY <1>1, LenProperties, ElementOfSeq
<1>3. \A i \in 1 .. Len(v[g].outs) : get_nb_out(v, v[g].outs[i]) \in Nat
  BY <1>2, LinkNumbers
<1> QED
  BY <1>2, <1>3 DEF Tallies, Behind

(* Group g and node id of it, on a daemon whose groups fit.                *)
Emits(d, v, a, g, id) ==
    /\ v \in Views /\ Fits(d, v, a) /\ g \in Groups /\ id \in Nat /\ id < v[g].nb_local_nodes
    /\ \A j \in DOMAIN v[g].outs : v[g].outs[j].src = g
    /\ v[g].nb_out_nodes = SumFunction(Behind(v, g))

(* Neighbour number i is the pth behind link j.                            *)
Takes(v, g, i, j, p) ==
    /\ j \in 1 .. Len(v[g].outs) /\ FallsOn(Behind(v, g), i, j)
    /\ p = i - Before(Behind(v, g), j) /\ p \in 0 .. Behind(v, g)[j] - 1

LEMMA SendOutIs ==
    ASSUME NEW d \in Hosts, NEW v, NEW a, NEW g, NEW id, Emits(d, v, a, g, id),
           NEW i \in 0 .. v[g].nb_out_nodes - 1
    PROVE  \E j, p : Takes(v, g, i, j, p) /\ SendOut(d, v, g, id, i) = <<j, Meets(d, v, v[g].outs[j], id, p)>>
<1>1. v \in Views /\ g \in Groups /\ v[g].nb_out_nodes = SumFunction(Behind(v, g))
  BY DEF Emits
<1> DEFINE nb == Behind(v, g)
           n == Len(v[g].outs)
           C == CHOOSE j \in DOMAIN v[g].outs : FallsOn(nb, i, j)
<1>2. Tallies(nb, n)
  BY <1>1, BehindTallies
<1>3. SumFunction(nb) \in Nat
  BY <1>2, SumOfNats
<1>4. DOMAIN nb = DOMAIN v[g].outs /\ DOMAIN nb = 1 .. n
  BY <1>2 DEF Behind, Tallies
<1>5. SendOut(d, v, g, id, i) =
          IF \E k \in DOMAIN v[g].outs : FallsOn(nb, i, k)
          THEN <<C, Send(d, v, v[g].outs[C].dst, get_out_node_id(v[g].outs[C], id, i - Before(nb, C)))>>
          ELSE <<0, Lost>>
  BY DEF SendOut, Behind
<1> HIDE DEF nb
<1>6. i \in Int /\ 0 <= i /\ i < SumFunction(nb)
  BY <1>1, <1>3 DEF nb
<1>7. PICK j \in 1 .. n : FallsOn(nb, i, j) /\ i - Before(nb, j) \in 0 .. nb[j] - 1
  BY <1>2, <1>6, Falls
<1>8. C \in DOMAIN v[g].outs /\ FallsOn(nb, i, C)
  BY <1>4, <1>7
<1> HIDE DEF C
<1>9. C = j
  BY <1>2, <1>6, <1>7, <1>8, FallsOnce
<1>10. SendOut(d, v, g, id, i) = <<j, Send(d, v, v[g].outs[j].dst, get_out_node_id(v[g].outs[j], id, i - Before(nb, j)))>>
  BY <1>4, <1>5, <1>7, <1>9
<1> PICK p : p = i - Before(nb, j)
  OBVIOUS
<1>11. Takes(v, g, i, j, p)
  BY <1>7 DEF Takes, nb
<1>12. SendOut(d, v, g, id, i) = <<j, Meets(d, v, v[g].outs[j], id, p)>>
  BY <1>10 DEF Meets
<1> QED
  BY <1>11, <1>12

RouteOf(d, v, g, id) == [i \in 0 .. v[g].nb_out_nodes - 1 |-> SendOut(d, v, g, id, i)]
NeighboursBy(a, outs, n) == UNION {{<<j, m>> : m \in TargetsBy(a, outs[j], n)} : j \in DOMAIN outs}

LEMMA RouteBijects ==
    ASSUME NEW d \in Hosts, NEW v, NEW a, NEW g, NEW id, Emits(d, v, a, g, id)
    PROVE  RouteOf(d, v, g, id) \in Bijection(0 .. v[g].nb_out_nodes - 1,
                                              NeighboursBy(a, v[g].outs, Node(g, d, id)))
<1> DEFINE f == RouteOf(d, v, g, id)
           S == 0 .. v[g].nb_out_nodes - 1
           N == NeighboursBy(a, v[g].outs, Node(g, d, id))
           n == Len(v[g].outs)
<1>1. v \in Views /\ g \in Groups /\ v[g].nb_out_nodes = SumFunction(Behind(v, g))
  BY DEF Emits
<1>2. Tallies(Behind(v, g), n) /\ DOMAIN v[g].outs = 1 .. n
  <2>1. v[g].outs \in Seq(Links)
    BY <1>1 DEF Views, GroupState
  <2> QED
    BY <1>1, <2>1, BehindTallies, LenProperties
<1>3. \A j \in 1 .. n : Sender(d, v, a, g, id, v[g].outs[j])
  BY <1>1, <1>2, BehindTallies DEF Emits, Sender
<1>4. \A j \in 1 .. n : Behind(v, g)[j] = get_nb_out(v, v[g].outs[j])
  BY <1>2 DEF Behind
<1>5. \A i \in S : f[i] = SendOut(d, v, g, id, i)
  BY DEF RouteOf
<1>6. DOMAIN f = S /\ f = [i \in S |-> f[i]]
  BY DEF RouteOf
<1> HIDE DEF f
<1>7. ASSUME NEW i \in S PROVE f[i] \in N
  <2>1. PICK j, p : Takes(v, g, i, j, p) /\ SendOut(d, v, g, id, i) = <<j, Meets(d, v, v[g].outs[j], id, p)>>
    BY SendOutIs
  <2>2. j \in 1 .. n /\ p \in 0 .. get_nb_out(v, v[g].outs[j]) - 1
    BY <1>4, <2>1 DEF Takes
  <2>3. Meets(d, v, v[g].outs[j], id, p) \in TargetsBy(a, v[g].outs[j], Node(g, d, id))
    BY <1>3, <2>2, MeetsInto
  <2> QED
    BY <1>2, <1>5, <2>1, <2>2, <2>3 DEF NeighboursBy
<1>8. ASSUME NEW i \in S, NEW k \in S, f[i] = f[k] PROVE i = k
  <2>1. PICK j, p : Takes(v, g, i, j, p) /\ SendOut(d, v, g, id, i) = <<j, Meets(d, v, v[g].outs[j], id, p)>>
    BY SendOutIs
  <2>2. PICK b, q : Takes(v, g, k, b, q) /\ SendOut(d, v, g, id, k) = <<b, Meets(d, v, v[g].outs[b], id, q)>>
    BY SendOutIs
  <2>3. b = j /\ Meets(d, v, v[g].outs[j], id, p) = Meets(d, v, v[g].outs[j], id, q)
    <3>1. <<j, Meets(d, v, v[g].outs[j], id, p)>> = <<b, Meets(d, v, v[g].outs[b], id, q)>>
      BY <1>5, <1>8, <2>1, <2>2
    <3> QED
      BY <3>1
  <2>4. j \in 1 .. n /\ p \in 0 .. get_nb_out(v, v[g].outs[j]) - 1 /\ q \in 0 .. get_nb_out(v, v[g].outs[j]) - 1
    BY <1>4, <2>1, <2>2, <2>3 DEF Takes
  <2>5. p = q
    BY <1>3, <2>3, <2>4, MeetsApart
  <2>6. p = i - Before(Behind(v, g), j) /\ p = k - Before(Behind(v, g), j)
    BY <2>1, <2>2, <2>3, <2>5 DEF Takes
  <2>7. Before(Behind(v, g), j) \in Int
    <3>1. n \in Nat
      BY <1>2 DEF Tallies
    <3>2. j \in 1 .. n + 1
      BY <2>4, <3>1
    <3> QED
      BY <1>2, <3>2, BeforeIs
  <2> QED
    BY <2>6, <2>7
<1>9. ASSUME NEW t \in N PROVE \E i \in S : f[i] = t
  <2>1. PICK j \in 1 .. n : \E m \in TargetsBy(a, v[g].outs[j], Node(g, d, id)) : t = <<j, m>>
    BY <1>2 DEF NeighboursBy
  <2>2. PICK m \in TargetsBy(a, v[g].outs[j], Node(g, d, id)) : t = <<j, m>>
    BY <2>1
  <2>3. PICK p \in 0 .. get_nb_out(v, v[g].outs[j]) - 1 : m = Meets(d, v, v[g].outs[j], id, p)
    BY <1>3, MeetsOnto
  <2>4. p \in 0 .. Behind(v, g)[j] - 1
    BY <1>4
  <2> DEFINE i == Before(Behind(v, g), j) + p
  <2>5. FallsOn(Behind(v, g), i, j) /\ i \in S
    BY <1>1, <1>2, <2>4, FallsBack
  <2> HIDE DEF i
  <2>6. PICK b, q : Takes(v, g, i, b, q) /\ SendOut(d, v, g, id, i) = <<b, Meets(d, v, v[g].outs[b], id, q)>>
    BY <2>5, SendOutIs
  <2>7. b = j
    <3>1. i \in Int
      BY <2>5
    <3>2. FallsOn(Behind(v, g), i, b)
      BY <2>6 DEF Takes
    <3> QED
      BY <1>2, <2>5, <3>1, <3>2, FallsOnce
  <2>8. q = p
    <3>1. n \in Nat
      BY <1>2 DEF Tallies
    <3>2. j \in 1 .. n + 1
      BY <3>1
    <3>3. PICK c \in Int : c = Before(Behind(v, g), j)
      BY <1>2, <3>2, BeforeIs
    <3>4. i = c + p /\ q = i - c
      BY <2>6, <2>7, <3>3 DEF i, Takes
    <3> QED
      BY <3>4
  <2> QED
    BY <1>5, <2>2, <2>3, <2>5, <2>6, <2>7, <2>8
<1>10. f \in [S -> N]
  BY <1>6, <1>7
<1> HIDE DEF S, N
<1>11. f \in Injection(S, N)
  BY <1>8, <1>10 DEF Injection, IsInjective
<1>12. f \in Surjection(S, N)
  BY <1>9, <1>10 DEF Surjection
<1>13. f \in Bijection(S, N)
  BY <1>11, <1>12 DEF Bijection
<1> QED
  BY <1>13 DEF f, S, N

Covers(f, N) == {f[i] : i \in DOMAIN f} = N /\ Cardinality(DOMAIN f) = Cardinality(N)

LEMMA RouteReaches ==
    ASSUME NEW d \in Hosts, NEW v, NEW a, NEW g, NEW id, Emits(d, v, a, g, id),
           NEW f, f = RouteOf(d, v, g, id), NEW N, N = NeighboursBy(a, v[g].outs, Node(g, d, id))
    PROVE  Covers(f, N)
<1> PICK S : S = 0 .. v[g].nb_out_nodes - 1
  OBVIOUS
<1>1. f \in Bijection(S, N)
  BY RouteBijects
<1>2. DOMAIN f = S /\ f \in [S -> N] /\ \A t \in N : \E i \in S : f[i] = t
  BY <1>1 DEF Bijection, Surjection
<1>3. {f[i] : i \in DOMAIN f} = N
  BY <1>2
<1>4. IsFiniteSet(S)
  <2>1. v \in Views /\ g \in Groups
    BY DEF Emits
  <2>2. v[g].nb_out_nodes \in Int
    BY <2>1 DEF Views, GroupState
  <2>3. v[g].nb_out_nodes - 1 \in Int
    BY <2>2
  <2> QED
    BY <2>3, FS_Interval
<1>5. ExistsBijection(S, N)
  BY <1>1 DEF ExistsBijection
<1> QED
  BY <1>2, <1>3, <1>4, <1>5, FS_Bijection DEF Covers

-----------------------------------------------------------------------------
(* The meaning of the text.                                                *)
LEMMA UnrollsIn ==
    ASSUME NEW n \in Nat, NEW T, NEW base \in T, NEW step \in [T \X (1 .. n) -> T]
    PROVE  \E f : IsUnrolled(f, n, base, step) /\ \A i \in 0 .. n : f[i] \in T
<1>1. PICK f : IsUnrolled(f, n, base, step)
  BY Unrolls
<1>2. f[0] = base /\ \A i \in 1 .. n : f[i] = step[<<f[i - 1], i>>]
  BY <1>1, UnrolledAt
<1> DEFINE R == {i \in 0 .. n : f[i] \in T}
<1>3. 0 \in R
  BY <1>2
<1>4. ASSUME NEW i \in 1 .. n, i - 1 \in R PROVE i \in R
  <2>1. f[i - 1] \in T /\ i \in 0 .. n
    BY <1>4
  <2>2. <<f[i - 1], i>> \in T \X (1 .. n)
    BY <2>1
  <2> PICK p \in T \X (1 .. n) : p = <<f[i - 1], i>>
    BY <2>2
  <2>3. step[p] \in T
    OBVIOUS
  <2> QED
    BY <1>2, <2>1, <2>3
<1> HIDE DEF R
<1>5. \A i \in 0 .. n : i \in R
  BY <1>3, <1>4, Climb
<1> QED
  BY <1>1, <1>5 DEF R

Plans == [Groups -> [Hosts -> Nat]]
Nobody == [g \in Groups |-> [h \in Hosts |-> 0]]

LEMMA GivenType ==
    ASSUME NEW s \in Statements, NEW a \in Plans
    PROVE  Given(a, s) \in Plans
<1>1. CASE s.op = "connect"
  BY <1>1 DEF Given
<1>2. CASE s.op = "assign"
  <2>1. s.grp \in Groups /\ s.host \in Hosts /\ s.nb \in Nat /\ s.perThread \in BOOLEAN
    BY <1>2 DEF Statements
  <2> DEFINE t == IF s.perThread THEN DeclThreads[s.host] ELSE 1
  <2>2. t \in Nat
    BY <2>1, GroupsAssumption
  <2>3. \A x, y \in Nat : x * y \in Nat
    OBVIOUS
  <2> PICK k \in Nat : k = s.nb * t
    BY <2>1, <2>2, <2>3
  <2>4. Given(a, s) = [a EXCEPT ![s.grp][s.host] = @ + s.nb * t]
    <3>1. "assign" # "connect" /\ "assign" # "same"
      OBVIOUS
    <3> DEFINE e == [a EXCEPT ![s.grp][s.host] = @ + s.nb * t]
    <3>2. Given(a, s) = CASE s.op = "connect" -> a [] s.op = "assign" -> e
                          [] s.op = "same" -> [a EXCEPT ![s.grp] = [h \in Hosts |-> @[h] + AtMost(s.limit, a[s.ref][h])]]
      BY DEF Given
    <3> HIDE DEF e
    <3>3. Given(a, s) = e
      BY <1>2, <3>1, <3>2
    <3> QED
      BY <3>3 DEF e
  <2>5. a[s.grp] \in [Hosts -> Nat] /\ a[s.grp][s.host] \in Nat
    BY <2>1 DEF Plans
  <2>6. Given(a, s) = [a EXCEPT ![s.grp] = [a[s.grp] EXCEPT ![s.host] = a[s.grp][s.host] + k]]
    BY <2>4
  <2> PICK q \in [Hosts -> Nat] : q = [a[s.grp] EXCEPT ![s.host] = a[s.grp][s.host] + k]
    <3>1. a[s.grp][s.host] + k \in Nat
      BY <2>5
    <3> QED
      BY <2>5, <3>1
  <2>7. Given(a, s) = [a EXCEPT ![s.grp] = q]
    BY <2>6
  <2> QED
    BY <2>7 DEF Plans
<1>3. CASE s.op = "same"
  <2>1. s.grp \in Groups /\ s.ref \in Groups /\ s.limit \in Nat
    BY <1>3 DEF Statements
  <2> DEFINE q == [h \in Hosts |-> a[s.grp][h] + AtMost(s.limit, a[s.ref][h])]
  <2>2. q \in [Hosts -> Nat]
    <3>1. \A h \in Hosts : a[s.grp][h] \in Nat /\ a[s.ref][h] \in Nat
      BY <2>1 DEF Plans
    <3>2. \A x \in Nat : AtMost(s.limit, x) \in Nat
      BY <2>1 DEF AtMost
    <3>3. \A h \in Hosts : a[s.grp][h] + AtMost(s.limit, a[s.ref][h]) \in Nat
      BY <3>1, <3>2
    <3> QED
      BY <3>3
  <2>3. Given(a, s) = [a EXCEPT ![s.grp] = q]
    BY <1>3 DEF Given
  <2> HIDE DEF q
  <2> QED
    BY <2>2, <2>3 DEF Plans
<1> QED
  BY <1>1, <1>2, <1>3 DEF Statements

AmountsFollow ==
    /\ Amounts[0] = Nobody
    /\ \A n \in 0 .. Len(script) : Amounts[n] \in Plans
    /\ \A n \in 1 .. Len(script) : Amounts[n] = Given(Amounts[n - 1], script[n])

LEMMA AmountsAre == TypeGroups => AmountsFollow
<1> SUFFICES ASSUME TypeGroups PROVE AmountsFollow
  OBVIOUS
<1> PICK n \in Nat, t \in Seq(Statements) : n = Len(script) /\ t = script
  BY ScriptType
<1> DEFINE F(f, i) == IF i = 0 THEN Nobody ELSE Given(f[i - 1], t[i])
           Eq(f) == f = [i \in 0 .. n |-> F(f, i)]
           step == [p \in Plans \X (1 .. n) |-> Given(p[1], t[p[2]])]
<1>1. Amounts = CHOOSE f : Eq(f)
  BY DEF Amounts, Nobody
<1>2. \A i \in 1 .. n : t[i] \in Statements
  BY ElementOfSeq
<1>3. Nobody \in Plans
  BY DEF Nobody, Plans
<1>4. step \in [Plans \X (1 .. n) -> Plans] /\ \A x \in Plans, i \in 1 .. n : step[<<x, i>>] = Given(x, t[i])
  BY <1>2, GivenType
<1>5. \E f : Eq(f)
  <2> HIDE DEF step
  <2>1. PICK f : IsUnrolled(f, n, Nobody, step) /\ \A i \in 0 .. n : f[i] \in Plans
    BY <1>3, <1>4, UnrollsIn
  <2>2. f[0] = Nobody /\ \A i \in 1 .. n : f[i] = step[<<f[i - 1], i>>]
    BY <2>1, UnrolledAt
  <2>3. f = [i \in 0 .. n |-> f[i]]
    BY <2>1 DEF IsUnrolled
  <2>4. ASSUME NEW i \in 0 .. n PROVE f[i] = F(f, i)
    <3>1. CASE i = 0
      BY <2>2, <3>1
    <3>2. CASE i # 0
      <4>1. i \in 1 .. n /\ i - 1 \in 0 .. n
        BY <3>2
      <4>2. f[i - 1] \in Plans
        BY <2>1, <4>1
      <4>3. f[i] = Given(f[i - 1], t[i])
        BY <1>4, <2>2, <4>1, <4>2
      <4> QED
        BY <3>2, <4>3
    <3> QED
      BY <3>1, <3>2
  <2> HIDE DEF F
  <2>5. f = [i \in 0 .. n |-> F(f, i)]
    BY <2>3, <2>4
  <2> QED
    BY <2>5
<1> PICK a : a = Amounts
  OBVIOUS
<1>6. Eq(a)
  BY <1>1, <1>5
<1> HIDE DEF F
<1>7. \A i \in 0 .. n : a[i] = F(a, i)
  BY <1>6
<1>8. 0 \in 0 .. n /\ \A i \in 1 .. n : i \in 0 .. n /\ i # 0
  OBVIOUS
<1>9. a[0] = Nobody /\ \A i \in 1 .. n : a[i] = Given(a[i - 1], t[i])
  BY <1>7, <1>8 DEF F
<1> DEFINE R == {i \in 0 .. n : a[i] \in Plans}
<1>10. 0 \in R
  BY <1>3, <1>8, <1>9
<1>11. ASSUME NEW i \in 1 .. n, i - 1 \in R PROVE i \in R
  BY <1>2, <1>8, <1>9, <1>11, GivenType
<1> HIDE DEF R
<1>12. \A i \in 0 .. n : i \in R
  BY <1>10, <1>11, Climb
<1>13. \A i \in 0 .. n : a[i] \in Plans
  BY <1>12 DEF R
<1> QED
  BY <1>9, <1>13 DEF AmountsFollow

NoLinks == [g \in Groups |-> <<>>]
Drawings == [Groups -> Seq(Links)]

LinksFollow ==
    /\ LinksFrom[0] = NoLinks
    /\ \A n \in 0 .. Len(script) : LinksFrom[n] \in Drawings
    /\ \A n \in 1 .. Len(script) : LinksFrom[n] = Drawn(LinksFrom[n - 1], script[n])

LEMMA DrawnType ==
    ASSUME NEW s \in Statements, NEW a \in Drawings
    PROVE  Drawn(a, s) \in Drawings
<1>1. CASE s.op = "connect"
  <2>1. s.link \in Links /\ s.link.src \in Groups
    BY <1>1 DEF Statements, Links
  <2> PICK q : q = Append(a[s.link.src], s.link)
    OBVIOUS
  <2>2. q \in Seq(Links)
    BY <2>1, AppendProperties DEF Drawings
  <2>3. Drawn(a, s) = [a EXCEPT ![s.link.src] = q]
    BY <1>1 DEF Drawn
  <2> QED
    BY <2>2, <2>3 DEF Drawings
<1>2. CASE s.op # "connect"
  BY <1>2 DEF Drawn
<1> QED
  BY <1>1, <1>2

LEMMA LinksAre == TypeGroups => LinksFollow
<1> SUFFICES ASSUME TypeGroups PROVE LinksFollow
  OBVIOUS
<1> PICK n \in Nat, t \in Seq(Statements) : n = Len(script) /\ t = script
  BY ScriptType
<1> DEFINE F(f, i) == IF i = 0 THEN NoLinks ELSE Drawn(f[i - 1], t[i])
           Eq(f) == f = [i \in 0 .. n |-> F(f, i)]
           step == [p \in Drawings \X (1 .. n) |-> Drawn(p[1], t[p[2]])]
<1>1. LinksFrom = CHOOSE f : Eq(f)
  BY DEF LinksFrom, NoLinks
<1>2. \A i \in 1 .. n : t[i] \in Statements
  BY ElementOfSeq
<1>3. NoLinks \in Drawings
  <2>1. <<>> \in Seq(Links)
    OBVIOUS
  <2> QED
    BY <2>1 DEF NoLinks, Drawings
<1>4. step \in [Drawings \X (1 .. n) -> Drawings] /\ \A x \in Drawings, i \in 1 .. n : step[<<x, i>>] = Drawn(x, t[i])
  BY <1>2, DrawnType
<1>5. \E f : Eq(f)
  <2> HIDE DEF step
  <2>1. PICK f : IsUnrolled(f, n, NoLinks, step) /\ \A i \in 0 .. n : f[i] \in Drawings
    BY <1>3, <1>4, UnrollsIn
  <2>2. f[0] = NoLinks /\ \A i \in 1 .. n : f[i] = step[<<f[i - 1], i>>]
    BY <2>1, UnrolledAt
  <2>3. f = [i \in 0 .. n |-> f[i]]
    BY <2>1 DEF IsUnrolled
  <2>4. ASSUME NEW i \in 0 .. n PROVE f[i] = F(f, i)
    <3>1. CASE i = 0
      BY <2>2, <3>1
    <3>2. CASE i # 0
      <4>1. i \in 1 .. n /\ i - 1 \in 0 .. n
        BY <3>2
      <4>2. f[i - 1] \in Drawings
        BY <2>1, <4>1
      <4>3. f[i] = Drawn(f[i - 1], t[i])
        BY <1>4, <2>2, <4>1, <4>2
      <4> QED
        BY <3>2, <4>3
    <3> QED
      BY <3>1, <3>2
  <2> HIDE DEF F
  <2>5. f = [i \in 0 .. n |-> F(f, i)]
    BY <2>3, <2>4
  <2> QED
    BY <2>5
<1> PICK a : a = LinksFrom
  OBVIOUS
<1>6. Eq(a)
  BY <1>1, <1>5
<1> HIDE DEF F
<1>7. \A i \in 0 .. n : a[i] = F(a, i)
  BY <1>6
<1>8. 0 \in 0 .. n /\ \A i \in 1 .. n : i \in 0 .. n /\ i # 0
  OBVIOUS
<1>9. a[0] = NoLinks /\ \A i \in 1 .. n : a[i] = Drawn(a[i - 1], t[i])
  BY <1>7, <1>8 DEF F
<1> DEFINE R == {i \in 0 .. n : a[i] \in Drawings}
<1>10. 0 \in R
  BY <1>3, <1>8, <1>9
<1>11. ASSUME NEW i \in 1 .. n, i - 1 \in R PROVE i \in R
  BY <1>2, <1>8, <1>9, <1>11, DrawnType
<1> HIDE DEF R
<1>12. \A i \in 0 .. n : i \in R
  BY <1>10, <1>11, Climb
<1>13. \A i \in 0 .. n : a[i] \in Drawings
  BY <1>12 DEF R
<1> QED
  BY <1>9, <1>13 DEF LinksFollow

-----------------------------------------------------------------------------
(* A daemon whose groups fit the whole text routes as the text says.       *)
LEMMA RoutedBy ==
    ASSUME TypeGroups, NEW d \in Hosts, NEW g \in Groups, NEW n \in NodesOf(g), n.host = d,
           Fits(d, view[d], Amounts[Len(script)]),
           view[d][g].outs = LinksFrom[Len(script)][g],
           \A j \in DOMAIN view[d][g].outs : view[d][g].outs[j].src = g,
           view[d][g].nb_out_nodes = SumFunction(Behind(view[d], g))
    PROVE  Routed(n)
<1> PICK v, a : v = view[d] /\ a = Amounts[Len(script)]
  OBVIOUS
<1>1. v \in Views
  BY DEF TypeGroups
<1>14. PICK h \in Hosts : \E k \in 0 .. a[g][h] - 1 : n = Node(g, h, k)
  BY DEF NodesOf, Placed, Node
<1>2. PICK id \in 0 .. a[g][h] - 1 : n = Node(g, h, id)
  BY <1>14
<1>3. n.grp = g /\ n.id = id /\ h = d /\ n = Node(g, d, id)
  BY <1>2 DEF Node
<1>4. FitsGroup(d, v[g], a[g])
  BY DEF Fits
<1>5. id \in Nat /\ id < v[g].nb_local_nodes
  <2>1. a[g][d] \in Nat /\ v[g].nb_local_nodes = a[g][d]
    BY <1>4 DEF FitsGroup
  <2> QED
    BY <1>2, <1>3, <2>1
<1>6. Emits(d, v, a, g, id)
  BY <1>1, <1>5 DEF Emits
<1>7. \A x \in Groups : NodesOf(x) = NodesBy(a[x], x)
  BY DEF NodesOf, NodesBy, Placed, Node
<1>8. \A l \in Links : Targets(l, n) = TargetsBy(a, l, n)
  BY <1>7 DEF Targets, TargetsBy, Links
<1>9. Neighbours(n) = NeighboursBy(a, v[g].outs, n)
  <2> PICK o : o = v[g].outs
    OBVIOUS
  <2>1. \A j \in DOMAIN o : o[j] \in Links
    BY <1>1 DEF Views, GroupState
  <2>2. \A j \in DOMAIN o : Targets(o[j], n) = TargetsBy(a, o[j], n)
    BY <1>8, <2>1
  <2>3. Neighbours(n) = UNION {{<<j, m>> : m \in Targets(o[j], n)} : j \in DOMAIN o}
    BY <1>3 DEF Neighbours
  <2> QED
    BY <2>2, <2>3 DEF NeighboursBy
<1> PICK f, N : f = RouteOf(d, v, g, id) /\ N = NeighboursBy(a, v[g].outs, Node(g, d, id))
  OBVIOUS
<1>10. Covers(f, N)
  BY <1>6, RouteReaches
<1>11. f = [i \in 0 .. view[n.host][n.grp].nb_out_nodes - 1 |-> SendOut(n.host, view[n.host], n.grp, n.id, i)]
  BY <1>3 DEF RouteOf
<1>12. N = Neighbours(n)
  BY <1>3, <1>9
<1>13. n.id < view[n.host][n.grp].nb_local_nodes
  BY <1>3, <1>5
<1> QED
  BY <1>10, <1>11, <1>12, <1>13 DEF Routed, Covers

-----------------------------------------------------------------------------
(* Blocks and links leave the groups of a daemon in order.                 *)
InFlow(v, g, x, F) ==
    SumFunction([i \in DOMAIN v[g].ins |-> IF v[g].ins[i].src = x THEN F[v[g].ins[i]] ELSE 0])
OutFlow(v, x, g, F) ==
    SumFunction([i \in DOMAIN v[x].outs |-> IF v[x].outs[i].dst = g THEN F[v[x].outs[i]] ELSE 0])

(* The links into a group are those out of the others.                     *)
Paired(v) == \A g, x \in Groups : \A F \in [Links -> Int] : InFlow(v, g, x, F) = OutFlow(v, x, g, F)

Counts(v) == \A x \in Groups : v[x].nb_out_nodes = SumFunction(Behind(v, x))
NonEmpty(v) == \A x \in Groups : \A i \in DOMAIN v[x].hosts : v[x].hosts[i].nb # 0

Filled(d, v, a) ==
    v \in Views /\ a \in Plans /\ Fits(d, v, a) /\ Paired(v) /\ Counts(v) /\ NonEmpty(v)

LEMMA GrowIs ==
    ASSUME NEW d, NEW v \in Views, NEW w, NEW g \in Groups, NEW b \in Blocks, b.nb # 0,
           \A x \in Groups : Counted(d, v, g, b, x, w[x]),
           NEW l \in Links, l.dst = g => ~(l.local /\ Skips(l))
    PROVE  get_nb_out(w, l) = get_nb_out(v, l) + (IF l.dst = g THEN Grow(d, v, l, b) ELSE 0)
<1>1. l.dst \in Groups /\ b.nb \in Nat
  BY DEF Links, Blocks
<1> PICK n, p : n = v[l.dst].nb_nodes /\ p = v[l.dst].nb_local_nodes
  OBVIOUS
<1>2. n \in Nat /\ p \in Nat
  BY <1>1 DEF Views, GroupState
<1>3. /\ w[l.dst].nb_nodes = (IF l.dst = g THEN n + b.nb ELSE n)
      /\ w[l.dst].nb_local_nodes = (IF l.dst = g /\ b.host = d THEN p + b.nb ELSE p)
  BY <1>1 DEF Counted
<1>4. CASE l.dst # g
  <2>1. get_nb_out(w, l) = get_nb_out(v, l)
    BY <1>3, <1>4 DEF get_nb_out
  <2>2. get_nb_out(v, l) \in Nat
    BY LinkNumbers
  <2> QED
    BY <1>4, <2>1, <2>2
<1>5. CASE l.dst = g /\ ~Skips(l)
  <2>1. \A k \in Nat : Minus(l, k) = k
    BY <1>5 DEF Minus
  <2>2. get_nb_out(v, l) = IF l.local THEN p ELSE n
    BY <1>2, <2>1 DEF get_nb_out
  <2>3. get_nb_out(w, l) = IF l.local THEN (IF b.host = d THEN p + b.nb ELSE p) ELSE n + b.nb
    BY <1>1, <1>2, <1>3, <1>5, <2>1 DEF get_nb_out
  <2>4. Grow(d, v, l, b) = IF l.local /\ b.host # d THEN 0 ELSE b.nb
    BY <1>5 DEF Grow
  <2> QED
    BY <1>1, <1>2, <1>5, <2>2, <2>3, <2>4
<1>6. CASE l.dst = g /\ Skips(l)
  <2>1. ~l.local /\ l.src = g
    BY <1>6 DEF Skips
  <2>2. get_nb_out(v, l) = (IF n = 0 THEN 0 ELSE n - 1)
    BY <1>6, <2>1 DEF get_nb_out, Minus
  <2>3. get_nb_out(w, l) = (IF n + b.nb = 0 THEN 0 ELSE n + b.nb - 1)
    <3>1. get_nb_out(w, l) = Minus(l, n + b.nb)
      BY <1>3, <1>6, <2>1 DEF get_nb_out
    <3>2. Minus(l, n + b.nb) = IF n + b.nb = 0 THEN 0 ELSE n + b.nb - 1
      <4> PICK k \in Nat : k = n + b.nb
        BY <1>1, <1>2
      <4>1. Minus(l, k) = IF k = 0 THEN 0 ELSE k - 1
        BY <1>6 DEF Minus
      <4> QED
        BY <1>1, <1>2, <4>1
    <3> QED
      BY <3>1, <3>2
  <2>4. Grow(d, v, l, b) = IF n = 0 THEN b.nb - 1 ELSE b.nb
    BY <1>6, <2>1 DEF Grow
  <2> QED
    BY <1>1, <1>2, <1>6, <2>2, <2>3, <2>4
<1> QED
  BY <1>4, <1>5, <1>6

(* What the counter of a group gains.                                      *)
LEMMA OutGrowthIs ==
    ASSUME NEW d, NEW v \in Views, Paired(v), NEW g \in Groups, NEW b \in Blocks, NEW x \in Groups
    PROVE  OutGrowth(d, v, g, b, x) =
               SumFunction([i \in DOMAIN v[x].outs |-> IF v[x].outs[i].dst = g THEN Grow(d, v, v[x].outs[i], b) ELSE 0])
<1> DEFINE F == [l \in Links |-> Grow(d, v, l, b)]
<1>1. F \in [Links -> Int]
  BY GrowType
<1>2. \A l \in Links : F[l] = Grow(d, v, l, b)
  OBVIOUS
<1>3. (\A i \in DOMAIN v[g].ins : v[g].ins[i] \in Links) /\ (\A i \in DOMAIN v[x].outs : v[x].outs[i] \in Links)
  BY DEF Views, GroupState
<1> HIDE DEF F
<1>4. InFlow(v, g, x, F) = OutFlow(v, x, g, F)
  BY <1>1 DEF Paired
<1>5. InFlow(v, g, x, F) = OutGrowth(d, v, g, b, x)
  <2>1. [i \in DOMAIN v[g].ins |-> IF v[g].ins[i].src = x THEN F[v[g].ins[i]] ELSE 0]
        = [i \in DOMAIN v[g].ins |-> IF v[g].ins[i].src = x THEN Grow(d, v, v[g].ins[i], b) ELSE 0]
    BY <1>2, <1>3
  <2> QED
    BY <2>1 DEF InFlow, OutGrowth
<1>6. [i \in DOMAIN v[x].outs |-> IF v[x].outs[i].dst = g THEN F[v[x].outs[i]] ELSE 0]
      = [i \in DOMAIN v[x].outs |-> IF v[x].outs[i].dst = g THEN Grow(d, v, v[x].outs[i], b) ELSE 0]
  BY <1>2, <1>3
<1> QED
  BY <1>4, <1>5, <1>6 DEF OutFlow

(* A group is not linked to its own nodes on the same host.                *)
NoLoop(v, g) == \A i \in DOMAIN v[g].outs : ~(v[g].outs[i].local /\ Skips(v[g].outs[i]))

LEMMA CountsGrow ==
    ASSUME NEW d, NEW v \in Views, Paired(v), Counts(v), NEW w, NEW g \in Groups, NEW b \in Blocks, b.nb # 0,
           \A x \in Groups : Counted(d, v, g, b, x, w[x]), w \in Views, NoLoop(v, g),
           \A x \in Groups : \A i \in DOMAIN v[x].outs : v[x].outs[i].src = x
    PROVE  Counts(w)
<1> SUFFICES ASSUME NEW x \in Groups PROVE w[x].nb_out_nodes = SumFunction(Behind(w, x))
  BY DEF Counts
<1> DEFINE outs == v[x].outs
           f == Behind(v, x)
           e == [i \in DOMAIN outs |-> IF outs[i].dst = g THEN Grow(d, v, outs[i], b) ELSE 0]
           s == Behind(w, x)
<1>1. w[x].outs = outs /\ w[x].nb_out_nodes = v[x].nb_out_nodes + OutGrowth(d, v, g, b, x)
  BY DEF Counted
<1>2. OutGrowth(d, v, g, b, x) = SumFunction(e)
  BY OutGrowthIs
<1>3. v[x].nb_out_nodes = SumFunction(f)
  BY DEF Counts
<1>4. Tallies(f, Len(outs)) /\ Tallies(s, Len(outs)) /\ \A j \in 1 .. Len(outs) : outs[j] \in Links
  BY <1>1, BehindTallies
<1>5. outs \in Seq(Links) /\ DOMAIN outs = 1 .. Len(outs) /\ Len(outs) \in Nat
  BY LenProperties DEF Views, GroupState
<1>6. \A i \in DOMAIN outs : f[i] = get_nb_out(v, outs[i]) /\ s[i] = get_nb_out(w, outs[i])
  BY <1>1 DEF Behind
<1>7. ASSUME NEW i \in DOMAIN outs PROVE s[i] = f[i] + e[i]
  <2> PICK l \in Links : l = outs[i]
    BY <1>4, <1>5
  <2>1. l.dst = g => ~(l.local /\ Skips(l))
    <3> SUFFICES ASSUME l.dst = g, Skips(l) PROVE ~l.local
      OBVIOUS
    <3>1. x = g
      BY DEF Skips
    <3> QED
      BY <3>1 DEF NoLoop
  <2>2. get_nb_out(w, l) = get_nb_out(v, l) + (IF l.dst = g THEN Grow(d, v, l, b) ELSE 0)
    BY <2>1, GrowIs
  <2> QED
    BY <1>6, <2>2
<1>8. DOMAIN e = DOMAIN outs /\ \A i \in DOMAIN e : e[i] \in Int
  <2>1. \A l \in Links : Grow(d, v, l, b) \in Int
    BY GrowType
  <2> QED
    BY <1>4, <1>5, <2>1
<1> HIDE DEF e, f, s, outs
<1>9. IsFiniteSet(1 .. Len(outs))
  BY <1>5, FS_Interval
<1>10. Summable(f) /\ Summable(s) /\ Summable(e) /\ DOMAIN f = DOMAIN outs /\ DOMAIN s = DOMAIN outs
  <2>1. DOMAIN f = 1 .. Len(outs) /\ DOMAIN s = 1 .. Len(outs)
        /\ (\A i \in DOMAIN f : f[i] \in Int) /\ (\A i \in DOMAIN s : s[i] \in Int)
    BY <1>4 DEF Tallies
  <2> QED
    BY <1>5, <1>8, <1>9, <2>1 DEF Summable
<1>11. SumFunction(s) = SumFunction(f) + SumFunction(e)
  BY <1>7, <1>8, <1>10, SumPlus
<1> QED
  BY <1>1, <1>2, <1>3, <1>11 DEF s

LEMMA FitsGrow ==
    ASSUME NEW d \in Hosts, NEW u \in GroupState, NEW a, FitsGroup(d, u, a), NEW b \in Blocks,
           \A i \in DOMAIN u.hosts : u.hosts[i].host # b.host,
           NEW w \in GroupState, w.hosts = Append(u.hosts, b), w.nb_nodes = u.nb_nodes + b.nb,
           w.nb_local_nodes = (IF b.host = d THEN u.nb_local_nodes + b.nb ELSE u.nb_local_nodes)
    PROVE  FitsGroup(d, w, [a EXCEPT ![b.host] = a[b.host] + b.nb])
<1> DEFINE c == [a EXCEPT ![b.host] = a[b.host] + b.nb]
           n == Len(u.hosts)
<1>1. b.host \in Hosts /\ b.nb \in Nat
  BY DEF Blocks
<1>2. u.nb_nodes \in Nat /\ u.nb_local_nodes \in Nat /\ u.hosts \in Seq(Blocks) /\ w.hosts \in Seq(Blocks)
  BY DEF GroupState
<1>3. Longer(u.hosts, b, w.hosts)
  BY <1>2, AppendLonger
<1>4. n \in Nat /\ DOMAIN u.hosts = 1 .. n /\ DOMAIN w.hosts = DOMAIN u.hosts \cup {n + 1}
      /\ w.hosts[n + 1] = b /\ \A i \in DOMAIN u.hosts : w.hosts[i] = u.hosts[i]
  BY <1>2, <1>3, LenProperties DEF Longer
<1>5. a \in [Hosts -> Nat] /\ a[b.host] = 0
  <2>1. a \in [Hosts -> Nat]
    BY DEF FitsGroup
  <2>2. a[b.host] # 0 => \E i \in DOMAIN u.hosts : u.hosts[i].host = b.host
    BY <1>1 DEF FitsGroup
  <2> QED
    BY <2>1, <2>2
<1>6. c \in [Hosts -> Nat] /\ c[b.host] = b.nb /\ \A h \in Hosts \ {b.host} : c[h] = a[h]
  BY <1>1, <1>5
<1> HIDE DEF c
<1>7. w.nb_nodes = w.nb_local_nodes + SumFunction(Far(d, w.hosts))
  <2> DEFINE f == Far(d, u.hosts)
             e == Far(d, w.hosts)
  <2>1. u.nb_nodes = u.nb_local_nodes + SumFunction(f)
    BY DEF FitsGroup
  <2>2. Tallies(f, n) /\ Tallies(e, Len(w.hosts)) /\ Len(w.hosts) = n + 1
    <3>1. Tallies(Far(d, u.hosts), Len(u.hosts)) /\ Tallies(Far(d, w.hosts), Len(w.hosts))
      BY <1>2, FarTallies
    <3>2. Len(w.hosts) = n + 1
      <4>1. Len(Append(u.hosts, b)) = Len(u.hosts) + 1
        BY <1>2, AppendProperties
      <4> QED
        BY <4>1
    <3> QED
      BY <3>1, <3>2
  <2>3. e[n + 1] = IF b.host = d THEN 0 ELSE b.nb
    BY <1>4 DEF Far
  <2>4. \A i \in 1 .. n : e[i] = f[i]
    BY <1>4 DEF Far
  <2> HIDE DEF e, f
  <2>5. Summable(f) /\ Summable(e) /\ DOMAIN f = 1 .. n /\ DOMAIN e = 1 .. n + 1
    <3>1. IsFiniteSet(1 .. n) /\ IsFiniteSet(1 .. n + 1)
      BY <1>4, FS_Interval
    <3>2. Tallies(e, n + 1)
      BY <2>2
    <3>3. DOMAIN f = 1 .. n /\ DOMAIN e = 1 .. n + 1 /\ (\A i \in 1 .. n : f[i] \in Int) /\ (\A i \in 1 .. n + 1 : e[i] \in Int)
      BY <2>2, <3>2 DEF Tallies
    <3> QED
      BY <3>1, <3>3 DEF Summable
  <2>6. SumFunction(e) = SumFunction(f) + e[n + 1]
    BY <1>4, <2>4, <2>5, SumAppend
  <2>7. SumFunction(f) \in Nat
    BY <2>2, SumOfNats
  <2>8. w.nb_nodes = w.nb_local_nodes + SumFunction(e)
    BY <1>1, <1>2, <2>1, <2>3, <2>6, <2>7
  <2> QED
    BY <2>8 DEF e
<1>8. w.nb_local_nodes = c[d]
  <2>1. u.nb_local_nodes = a[d]
    BY DEF FitsGroup
  <2> QED
    BY <1>1, <1>5, <1>6, <2>1
<1>9. \A i \in DOMAIN w.hosts : w.hosts[i].nb = c[w.hosts[i].host]
  <2> SUFFICES ASSUME NEW i \in DOMAIN w.hosts PROVE w.hosts[i].nb = c[w.hosts[i].host]
    OBVIOUS
  <2>1. CASE i \in DOMAIN u.hosts
    <3>1. w.hosts[i] = u.hosts[i] /\ u.hosts[i].nb = a[u.hosts[i].host] /\ u.hosts[i].host # b.host
      BY <1>4, <2>1 DEF FitsGroup
    <3>2. u.hosts[i].host \in Hosts
      <4>1. u.hosts[i] \in Blocks
        BY <1>2, <2>1
      <4> QED
        BY <4>1 DEF Blocks
    <3> QED
      BY <1>6, <3>1, <3>2
  <2>2. CASE i = n + 1
    BY <1>4, <1>6, <2>2
  <2> QED
    BY <1>4, <2>1, <2>2
<1>10. \A h \in Hosts : c[h] # 0 => \E i \in DOMAIN w.hosts : w.hosts[i].host = h
  <2> SUFFICES ASSUME NEW h \in Hosts, c[h] # 0 PROVE \E i \in DOMAIN w.hosts : w.hosts[i].host = h
    OBVIOUS
  <2>1. CASE h = b.host
    BY <1>4, <2>1
  <2>2. CASE h # b.host
    <3>1. PICK i \in DOMAIN u.hosts : u.hosts[i].host = h
      BY <1>6, <2>2 DEF FitsGroup
    <3> QED
      BY <1>4, <3>1
  <2> QED
    BY <2>1, <2>2
<1>11. \A i, j \in DOMAIN w.hosts : w.hosts[i].host = w.hosts[j].host => i = j
  <2>1. \A i, j \in DOMAIN u.hosts : u.hosts[i].host = u.hosts[j].host => i = j
    BY DEF FitsGroup
  <2> QED
    BY <1>4, <2>1
<1>12. FitsGroup(d, w, c)
  BY <1>6, <1>7, <1>8, <1>9, <1>10, <1>11 DEF FitsGroup
<1> QED
  BY <1>12 DEF c

Put(a, g, h, n) == [a EXCEPT ![g] = [a[g] EXCEPT ![h] = a[g][h] + n]]

LEMMA AddHostFills ==
    ASSUME NEW d \in Hosts, NEW v, NEW a, Filled(d, v, a), Mutual(v), NEW g \in Groups, NEW b \in Blocks,
           b.nb # 0, NoLoop(v, g), \A i \in DOMAIN v[g].hosts : v[g].hosts[i].host # b.host
    PROVE  Filled(d, AddHost(d, v, g, b), Put(a, g, b.host, b.nb))
<1> PICK w : w = AddHost(d, v, g, b)
  OBVIOUS
<1>1. v \in Views /\ a \in Plans /\ Fits(d, v, a) /\ Paired(v) /\ Counts(v) /\ NonEmpty(v)
  BY DEF Filled
<1>2. w \in Views /\ \A x \in Groups : Counted(d, v, g, b, x, w[x])
  BY <1>1, AddHostIs
<1>3. Counts(w)
  <2>1. \A x \in Groups : \A i \in DOMAIN v[x].outs : v[x].outs[i].src = x
    BY DEF Mutual
  <2> QED
    BY <1>1, <1>2, <2>1, CountsGrow
<1>4. Paired(w)
  <2>1. \A x \in Groups : w[x].outs = v[x].outs /\ w[x].ins = v[x].ins
    BY <1>2 DEF Counted
  <2>2. ASSUME NEW y \in Groups, NEW x \in Groups, NEW F \in [Links -> Int]
        PROVE  InFlow(w, y, x, F) = OutFlow(w, x, y, F)
    <3>1. InFlow(v, y, x, F) = OutFlow(v, x, y, F)
      BY <1>1 DEF Paired
    <3>2. InFlow(w, y, x, F) = InFlow(v, y, x, F) /\ OutFlow(w, x, y, F) = OutFlow(v, x, y, F)
      BY <2>1 DEF InFlow, OutFlow
    <3> QED
      BY <3>1, <3>2
  <2> QED
    BY <2>2 DEF Paired
<1> PICK c : c = Put(a, g, b.host, b.nb)
  OBVIOUS
<1> PICK q : q = [a[g] EXCEPT ![b.host] = a[g][b.host] + b.nb]
  OBVIOUS
<1>5. q \in [Hosts -> Nat]
  <2>1. a[g] \in [Hosts -> Nat] /\ b.host \in Hosts /\ b.nb \in Nat
    BY <1>1 DEF Plans, Blocks
  <2>2. a[g][b.host] + b.nb \in Nat
    BY <2>1
  <2> QED
    BY <2>1, <2>2
<1>6. c = [a EXCEPT ![g] = q]
  BY DEF Put
<1>7. c \in Plans /\ c[g] = q /\ \A x \in Groups \ {g} : c[x] = a[x]
  BY <1>1, <1>5, <1>6 DEF Plans
<1>8. ASSUME NEW x \in Groups PROVE FitsGroup(d, w[x], c[x])
  <2>1. FitsGroup(d, v[x], a[x]) /\ v[x] \in GroupState /\ w[x] \in GroupState
    BY <1>1, <1>2 DEF Fits, Views
  <2>2. CASE x = g
    <3>1. /\ w[g].hosts = Append(v[g].hosts, b) /\ w[g].nb_nodes = v[g].nb_nodes + b.nb
          /\ w[g].nb_local_nodes = (IF b.host = d THEN v[g].nb_local_nodes + b.nb ELSE v[g].nb_local_nodes)
      BY <1>2 DEF Counted
    <3>2. FitsGroup(d, w[g], q)
      BY <2>1, <2>2, <3>1, FitsGrow
    <3> QED
      BY <1>7, <2>2, <3>2
  <2>3. CASE x # g
    <3>1. w[x].hosts = v[x].hosts /\ w[x].nb_nodes = v[x].nb_nodes /\ w[x].nb_local_nodes = v[x].nb_local_nodes
      BY <1>2, <2>3 DEF Counted
    <3> QED
      BY <1>7, <2>1, <2>3, <3>1 DEF FitsGroup
  <2> QED
    BY <2>2, <2>3
<1>9. NonEmpty(w)
  <2> SUFFICES ASSUME NEW x \in Groups, NEW i \in DOMAIN w[x].hosts PROVE w[x].hosts[i].nb # 0
    BY DEF NonEmpty
  <2>1. CASE x # g
    BY <1>1, <1>2, <2>1 DEF NonEmpty, Counted
  <2>2. CASE x = g
    <3>1. v[g].hosts \in Seq(Blocks)
      BY <1>1 DEF Views, GroupState
    <3>2. Longer(v[g].hosts, b, Append(v[g].hosts, b))
      BY <3>1, AppendLonger
    <3>3. w[g].hosts = Append(v[g].hosts, b)
      BY <1>2 DEF Counted
    <3>4. Longer(v[g].hosts, b, w[g].hosts)
      BY <3>2, <3>3
    <3> QED
      BY <1>1, <2>2, <3>4 DEF NonEmpty, Longer
  <2> QED
    BY <2>1, <2>2
<1>10. Filled(d, w, c)
  BY <1>2, <1>3, <1>4, <1>7, <1>8, <1>9 DEF Filled, Fits
<1> QED
  BY <1>10

(* The links of a queue that are in T, weighed by F.                       *)
Flow(q, T, F) == SumFunction([i \in DOMAIN q |-> IF q[i] \in T THEN F[q[i]] ELSE 0])
From(x) == {k \in Links : k.src = x}
Onto(g) == {k \in Links : k.dst = g}

LEMMA FlowLonger ==
    ASSUME NEW q \in Seq(Links), NEW l \in Links, NEW p \in Seq(Links), Longer(q, l, p),
           NEW T, NEW F \in [Links -> Int]
    PROVE  Flow(p, T, F) = Flow(q, T, F) + (IF l \in T THEN F[l] ELSE 0) /\ Flow(q, T, F) \in Int
<1> DEFINE f == [i \in DOMAIN q |-> IF q[i] \in T THEN F[q[i]] ELSE 0]
           e == [i \in DOMAIN p |-> IF p[i] \in T THEN F[p[i]] ELSE 0]
           n == Len(q)
<1>1. n \in Nat /\ DOMAIN q = 1 .. n /\ (\A i \in DOMAIN q : q[i] \in Links) /\ (\A i \in DOMAIN p : p[i] \in Links)
  BY LenProperties, ElementOfSeq
<1>2. \A m \in Nat : 1 .. m + 1 = (1 .. m) \cup {m + 1}
  OBVIOUS
<1>3. DOMAIN p = 1 .. n + 1 /\ p[n + 1] = l /\ \A i \in 1 .. n : p[i] = q[i]
  <2>1. DOMAIN p = (1 .. n) \cup {n + 1} /\ p[n + 1] = l /\ \A i \in 1 .. n : p[i] = q[i]
    BY <1>1 DEF Longer
  <2> QED
    BY <1>1, <1>2, <2>1
<1>4. DOMAIN f = 1 .. n /\ (\A i \in DOMAIN f : f[i] \in Int) /\ DOMAIN e = 1 .. n + 1 /\ (\A i \in DOMAIN e : e[i] \in Int)
  BY <1>1, <1>3
<1>5. n + 1 \in 1 .. n + 1 /\ \A i \in 1 .. n : i \in 1 .. n + 1
  BY <1>1
<1>6. e[n + 1] = (IF l \in T THEN F[l] ELSE 0) /\ \A i \in 1 .. n : e[i] = f[i]
  BY <1>1, <1>3, <1>5
<1>7. Flow(p, T, F) = SumFunction(e) /\ Flow(q, T, F) = SumFunction(f)
  BY DEF Flow
<1> HIDE DEF e, f
<1>8. Summable(f) /\ Summable(e)
  <2>1. IsFiniteSet(1 .. n) /\ IsFiniteSet(1 .. n + 1)
    BY <1>1, FS_Interval
  <2> QED
    BY <1>4, <2>1 DEF Summable
<1>9. SumFunction(e) = SumFunction(f) + e[n + 1] /\ SumFunction(f) \in Int
  BY <1>1, <1>4, <1>6, <1>8, SumAppend, SumType
<1> QED
  BY <1>6, <1>7, <1>9

LEMMA FlowsAre ==
    ASSUME NEW v \in Views, NEW g \in Groups, NEW x \in Groups, NEW F \in [Links -> Int]
    PROVE  InFlow(v, g, x, F) = Flow(v[g].ins, From(x), F) /\ OutFlow(v, x, g, F) = Flow(v[x].outs, Onto(g), F)
<1>1. v[g].ins \in Seq(Links) /\ v[x].outs \in Seq(Links)
  BY DEF Views, GroupState
<1>2. (\A i \in DOMAIN v[g].ins : v[g].ins[i] \in Links) /\ (\A i \in DOMAIN v[x].outs : v[x].outs[i] \in Links)
  BY <1>1
<1>3. [i \in DOMAIN v[g].ins |-> IF v[g].ins[i].src = x THEN F[v[g].ins[i]] ELSE 0]
      = [i \in DOMAIN v[g].ins |-> IF v[g].ins[i] \in From(x) THEN F[v[g].ins[i]] ELSE 0]
  BY <1>2 DEF From
<1>4. [i \in DOMAIN v[x].outs |-> IF v[x].outs[i].dst = g THEN F[v[x].outs[i]] ELSE 0]
      = [i \in DOMAIN v[x].outs |-> IF v[x].outs[i] \in Onto(g) THEN F[v[x].outs[i]] ELSE 0]
  BY <1>2 DEF Onto
<1> QED
  BY <1>3, <1>4 DEF InFlow, OutFlow, Flow

LEMMA AddLinkFills ==
    ASSUME NEW d \in Hosts, NEW v, NEW a, Filled(d, v, a), NEW l \in Links
    PROVE  Filled(d, AddLink(v, l), a)
<1> PICK w : w = AddLink(v, l)
  OBVIOUS
<1>1. v \in Views /\ a \in Plans /\ Fits(d, v, a) /\ Paired(v) /\ Counts(v) /\ NonEmpty(v)
  BY DEF Filled
<1>2. w \in Views /\ \A x \in Groups : Linked(v, l, x, w[x])
  BY <1>1, AddLinkIs
<1>3. \A x \in Groups : /\ x = l.src => Longer(v[x].outs, l, w[x].outs)
                        /\ x # l.src => w[x].outs = v[x].outs
                        /\ x = l.dst => Longer(v[x].ins, l, w[x].ins)
                        /\ x # l.dst => w[x].ins = v[x].ins
  BY <1>1, <1>2, LinkedLonger
<1>4. \A x \in Groups : /\ w[x].hosts = v[x].hosts /\ w[x].nb_nodes = v[x].nb_nodes
                        /\ w[x].nb_local_nodes = v[x].nb_local_nodes
  BY <1>2 DEF Linked
<1>5. Fits(d, w, a)
  BY <1>1, <1>4 DEF Fits, FitsGroup
<1>6. NonEmpty(w)
  BY <1>1, <1>4 DEF NonEmpty
<1>7. l.src \in Groups /\ l.dst \in Groups
  BY DEF Links
<1>8. \A k \in Links : get_nb_out(w, k) = get_nb_out(v, k)
  BY <1>4 DEF get_nb_out, Links
<1>9. ASSUME NEW x \in Groups PROVE v[x].outs \in Seq(Links) /\ w[x].outs \in Seq(Links) /\ v[x].ins \in Seq(Links) /\ w[x].ins \in Seq(Links)
  BY <1>1, <1>2 DEF Views, GroupState
<1>10. ASSUME NEW g \in Groups, NEW x \in Groups, NEW F \in [Links -> Int]
       PROVE  InFlow(w, g, x, F) = OutFlow(w, x, g, F)
  <2>1. InFlow(w, g, x, F) = Flow(w[g].ins, From(x), F) /\ OutFlow(w, x, g, F) = Flow(w[x].outs, Onto(g), F)
    BY <1>2, FlowsAre
  <2>2. Flow(v[g].ins, From(x), F) = Flow(v[x].outs, Onto(g), F)
    BY <1>1, FlowsAre DEF Paired
  <2>3. l \in From(x) <=> x = l.src
    BY DEF From
  <2>4. l \in Onto(g) <=> g = l.dst
    BY DEF Onto
  <2>5. g = l.dst => Flow(w[g].ins, From(x), F) = Flow(v[g].ins, From(x), F) + (IF l \in From(x) THEN F[l] ELSE 0)
                     /\ Flow(v[g].ins, From(x), F) \in Int
    BY <1>3, <1>9, FlowLonger
  <2>6. x = l.src => Flow(w[x].outs, Onto(g), F) = Flow(v[x].outs, Onto(g), F) + (IF l \in Onto(g) THEN F[l] ELSE 0)
                     /\ Flow(v[x].outs, Onto(g), F) \in Int
    BY <1>3, <1>9, FlowLonger
  <2>7. g # l.dst => w[g].ins = v[g].ins
    BY <1>3
  <2>8. x # l.src => w[x].outs = v[x].outs
    BY <1>3
  <2> QED
    BY <2>1, <2>2, <2>3, <2>4, <2>5, <2>6, <2>7, <2>8
<1>11. Paired(w)
  BY <1>10 DEF Paired
<1>12. ASSUME NEW x \in Groups PROVE w[x].nb_out_nodes = SumFunction(Behind(w, x))
  <2> DEFINE f == Behind(v, x)
             e == Behind(w, x)
             n == Len(v[x].outs)
  <2>1. v[x].nb_out_nodes = SumFunction(f)
    BY <1>1 DEF Counts
  <2>2. Tallies(f, n) /\ Tallies(e, Len(w[x].outs)) /\ (\A j \in 1 .. n : v[x].outs[j] \in Links)
    BY <1>1, <1>2, BehindTallies
  <2>3. CASE x # l.src
    <3>1. w[x].outs = v[x].outs /\ w[x].nb_out_nodes = v[x].nb_out_nodes
      BY <1>2, <2>3 DEF Linked
    <3>2. \A j \in DOMAIN v[x].outs : v[x].outs[j] \in Links
      BY <1>9
    <3>3. e = f
      BY <1>8, <3>1, <3>2 DEF Behind
    <3> QED
      BY <2>1, <3>1, <3>3
  <2>4. CASE x = l.src
    <3>1. w[x].outs = Append(v[x].outs, l) /\ w[x].nb_out_nodes = v[x].nb_out_nodes + get_nb_out(v, l)
      BY <1>2, <2>4 DEF Linked
    <3>2. Len(w[x].outs) = n + 1 /\ n \in Nat /\ DOMAIN v[x].outs = 1 .. n
      <4>1. Len(Append(v[x].outs, l)) = Len(v[x].outs) + 1
        BY <1>9, AppendProperties
      <4> QED
        BY <1>9, <3>1, <4>1, LenProperties
    <3>3. DOMAIN w[x].outs = DOMAIN v[x].outs \cup {n + 1} /\ w[x].outs[n + 1] = l
          /\ \A i \in DOMAIN v[x].outs : w[x].outs[i] = v[x].outs[i]
      BY <1>3, <2>4 DEF Longer
    <3>4. e[n + 1] = get_nb_out(v, l) /\ \A i \in 1 .. n : e[i] = f[i]
      BY <1>8, <2>2, <3>2, <3>3 DEF Behind
    <3> HIDE DEF e, f
    <3>5. Summable(f) /\ Summable(e) /\ DOMAIN f = 1 .. n /\ DOMAIN e = 1 .. n + 1
      <4>1. IsFiniteSet(1 .. n) /\ IsFiniteSet(1 .. n + 1)
        BY <3>2, FS_Interval
      <4>2. Tallies(e, n + 1)
        BY <2>2, <3>2
      <4>3. DOMAIN f = 1 .. n /\ DOMAIN e = 1 .. n + 1 /\ (\A i \in 1 .. n : f[i] \in Int) /\ (\A i \in 1 .. n + 1 : e[i] \in Int)
        BY <2>2, <4>2 DEF Tallies
      <4> QED
        BY <4>1, <4>3 DEF Summable
    <3>6. SumFunction(e) = SumFunction(f) + e[n + 1]
      BY <3>2, <3>4, <3>5, SumAppend
    <3>7. w[x].nb_out_nodes = SumFunction(e)
      BY <2>1, <3>1, <3>4, <3>6
    <3> QED
      BY <3>7 DEF e
  <2> QED
    BY <2>3, <2>4
<1>13. Filled(d, w, a)
  BY <1>1, <1>2, <1>5, <1>6, <1>11, <1>12 DEF Filled, Counts
<1> QED
  BY <1>13

(* Blocks are only added.                                                  *)
Begins(q, p) == \A i \in DOMAIN q : i \in DOMAIN p /\ p[i] = q[i]
Begun(v, w) == \A x \in Groups : Begins(v[x].hosts, w[x].hosts)
Distinct(v) ==
    \A x \in Groups : \A i, j \in DOMAIN v[x].hosts : v[x].hosts[i].host = v[x].hosts[j].host => i = j

LEMMA BegunDistinct ==
    ASSUME NEW v, NEW w, Begun(v, w), Distinct(w)
    PROVE  Distinct(v)
BY DEF Begun, Begins, Distinct

LEMMA BegunFurther ==
    ASSUME NEW u, NEW v, NEW w, Begun(u, v), Begun(v, w)
    PROVE  Begun(u, w)
BY DEF Begun, Begins

LEMMA AddHostBegins ==
    ASSUME NEW d, NEW v \in Views, NEW g \in Groups, NEW b \in Blocks
    PROVE  /\ Begun(v, AddHost(d, v, g, b))
           /\ Longer(v[g].hosts, b, AddHost(d, v, g, b)[g].hosts)
<1> PICK w : w = AddHost(d, v, g, b)
  OBVIOUS
<1>1. \A x \in Groups : Counted(d, v, g, b, x, w[x])
  BY AddHostIs
<1>2. Longer(v[g].hosts, b, Append(v[g].hosts, b))
  <2>1. v[g].hosts \in Seq(Blocks)
    BY DEF Views, GroupState
  <2> QED
    BY <2>1, AppendLonger
<1>3. Longer(v[g].hosts, b, w[g].hosts)
  <2>1. w[g].hosts = Append(v[g].hosts, b)
    BY <1>1 DEF Counted
  <2> QED
    BY <1>2, <2>1
<1>4. \A x \in Groups \ {g} : w[x].hosts = v[x].hosts
  BY <1>1 DEF Counted
<1>5. Begun(v, w)
  BY <1>3, <1>4 DEF Begun, Begins, Longer
<1> QED
  BY <1>3, <1>5

LEMMA SameBegins ==
    ASSUME NEW d, NEW v \in Views, NEW s \in Statements, s.op = "same", NEW f, SameSteps(d, v, s, f)
    PROVE  \A i \in 0 .. Len(v[s.ref].hosts) : \A j \in 0 .. i : Begun(f[j], f[i])
<1> DEFINE n == Len(v[s.ref].hosts)
           T == {i \in 0 .. n : \A j \in 0 .. i : Begun(f[j], f[i])}
<1>1. s.grp \in Groups /\ s.ref \in Groups
  BY DEF Statements
<1>2. n \in Nat
  BY <1>1, LenProperties DEF Views, GroupState
<1>3. \A i : Begun(f[i], f[i])
  BY DEF Begun, Begins
<1>4. 0 \in T
  <2>1. \A j \in 0 .. 0 : j = 0
    OBVIOUS
  <2> QED
    BY <1>2, <1>3, <2>1
<1>5. ASSUME NEW i \in 1 .. n, i - 1 \in T PROVE i \in T
  <2>1. i - 1 \in 0 .. n /\ i \in 0 .. n /\ \A j \in 0 .. i : j = i \/ j \in 0 .. i - 1
    BY <1>2
  <2>2. f[i - 1] \in Views /\ SameBlock(v, s, i) \in Blocks /\ f[i] = AddHost(d, f[i - 1], s.grp, SameBlock(v, s, i))
    BY <2>1 DEF SameSteps
  <2>3. Begun(f[i - 1], f[i])
    BY <1>1, <2>2, AddHostBegins
  <2>4. \A j \in 0 .. i - 1 : Begun(f[j], f[i - 1])
    BY <1>5
  <2>5. \A j \in 0 .. i - 1 : Begun(f[j], f[i])
    BY <2>3, <2>4, BegunFurther
  <2> QED
    BY <1>3, <2>1, <2>5
<1> HIDE DEF T
<1>6. \A i \in 0 .. n : i \in T
  BY <1>2, <1>4, <1>5, Climb
<1> QED
  BY <1>6 DEF T

LEMMA ExecuteBegins ==
    ASSUME NEW d \in Hosts, NEW v \in Views, NEW s \in Statements, nbThreads \in [Hosts -> [Hosts -> Nat]]
    PROVE  Begun(v, Execute(d, v, s))
<1> PICK w : w = Execute(d, v, s)
  OBVIOUS
<1>1. s.op \in {"connect", "assign", "same"}
  BY ExecuteIs
<1>2. CASE s.op = "connect"
  <2>1. \A x \in Groups : Linked(v, s.link, x, w[x])
    BY <1>2, ExecuteLinks
  <2>2. Begun(v, w)
    BY <2>1 DEF Begun, Begins, Linked
  <2> QED
    BY <2>2
<1>3. CASE s.op = "assign"
  <2>1. s.grp \in Groups /\ NewBlock(d, s) \in Blocks /\ w = AddHost(d, v, s.grp, NewBlock(d, s))
    BY <1>3, ExecuteIs
  <2> QED
    BY <2>1, AddHostBegins
<1>4. CASE s.op = "same"
  <2>1. PICK f : SameSteps(d, v, s, f)
    BY <1>4, AddSameIs
  <2> PICK n : n = Len(v[s.ref].hosts)
    OBVIOUS
  <2>2. n \in Nat
    BY <1>4, ExecuteIs, LenProperties DEF Views, GroupState
  <2>3. n \in 0 .. n /\ 0 \in 0 .. n
    BY <2>2
  <2>4. w = f[n] /\ f[0] = v
    BY <1>4, <2>1, ExecuteIs DEF SameSteps
  <2>5. Begun(f[0], f[n])
    BY <1>4, <2>1, <2>3, SameBegins
  <2> QED
    BY <2>4, <2>5
<1> QED
  BY <1>1, <1>2, <1>3, <1>4

LEMMA LinksKeep ==
    ASSUME NEW v, NEW w, SameLinks(v, w), NEW g \in Groups, Mutual(v), NoLoop(v, g)
    PROVE  Mutual(w) /\ NoLoop(w, g)
<1>1. \A x \in Groups : w[x].outs = v[x].outs /\ w[x].ins = v[x].ins
  BY DEF SameLinks
<1>2. NoLoop(w, g)
  BY <1>1 DEF NoLoop
<1>3. ASSUME NEW x \in Groups, NEW i \in DOMAIN w[x].outs, NEW l, l = w[x].outs[i]
      PROVE  l.src = x /\ l \in Links /\ \E j \in DOMAIN w[l.dst].ins : w[l.dst].ins[j] = l
  <2>1. i \in DOMAIN v[x].outs /\ l = v[x].outs[i]
    BY <1>1, <1>3
  <2>2. l.src = x /\ l \in Links /\ \E j \in DOMAIN v[l.dst].ins : v[l.dst].ins[j] = l
    BY <2>1 DEF Mutual
  <2>3. l.dst \in Groups
    BY <2>2 DEF Links
  <2> QED
    BY <1>1, <2>2, <2>3
<1>4. Mutual(w)
  BY <1>3 DEF Mutual
<1> QED
  BY <1>2, <1>4

(* What the first i blocks of the other group give.                        *)
Share(v, s, a, i) ==
    [h \in Hosts |-> IF \E k \in 1 .. i : v[s.ref].hosts[k].host = h
                     THEN a[s.grp][h] + AtMost(s.limit, a[s.ref][h]) ELSE a[s.grp][h]]
Shared(v, s, a, i) == [a EXCEPT ![s.grp] = Share(v, s, a, i)]

LEMMA AtMostIs ==
    ASSUME NEW limit \in Nat, NEW n \in Nat
    PROVE  AtMost(limit, n) \in Nat /\ (AtMost(limit, n) = 0 <=> n = 0)
BY DEF AtMost

LEMMA ShareType ==
    ASSUME NEW v, NEW s \in Statements, s.op = "same", NEW a \in Plans, NEW i
    PROVE  /\ Share(v, s, a, i) \in [Hosts -> Nat] /\ Shared(v, s, a, i) \in Plans
           /\ Shared(v, s, a, i)[s.grp] = Share(v, s, a, i)
           /\ \A x \in Groups \ {s.grp} : Shared(v, s, a, i)[x] = a[x]
<1>1. s.grp \in Groups /\ s.ref \in Groups /\ s.limit \in Nat
  BY DEF Statements
<1>2. \A h \in Hosts : a[s.grp][h] \in Nat /\ a[s.ref][h] \in Nat
  BY <1>1 DEF Plans
<1>3. \A h \in Hosts : AtMost(s.limit, a[s.ref][h]) \in Nat
  BY <1>1, <1>2, AtMostIs
<1>4. \A x, y \in Nat : x + y \in Nat
  OBVIOUS
<1>5. \A h \in Hosts : a[s.grp][h] + AtMost(s.limit, a[s.ref][h]) \in Nat
  BY <1>2, <1>3, <1>4
<1>6. Share(v, s, a, i) \in [Hosts -> Nat]
  BY <1>2, <1>5 DEF Share
<1> QED
  BY <1>1, <1>6 DEF Shared, Plans

LEMMA SharesGrow ==
    ASSUME NEW d \in Hosts, NEW v, NEW a, Filled(d, v, a), NEW s \in Statements, s.op = "same",
           NEW i \in 1 .. Len(v[s.ref].hosts)
    PROVE  /\ Put(Shared(v, s, a, i - 1), s.grp, SameBlock(v, s, i).host, SameBlock(v, s, i).nb) = Shared(v, s, a, i)
           /\ SameBlock(v, s, i).nb # 0
<1> DEFINE like == v[s.ref].hosts
           h == like[i].host
<1>1. s.grp \in Groups /\ s.ref \in Groups /\ s.limit \in Nat
  BY DEF Statements
<1>2. v \in Views /\ a \in Plans /\ FitsGroup(d, v[s.ref], a[s.ref]) /\ NonEmpty(v)
  BY <1>1 DEF Filled, Fits
<1>3. like \in Seq(Blocks) /\ Len(like) \in Nat /\ DOMAIN like = 1 .. Len(like)
  BY <1>1, <1>2, LenProperties DEF Views, GroupState
<1>4. i \in DOMAIN like /\ like[i] \in Blocks
  BY <1>3, ElementOfSeq
<1>5. h \in Hosts /\ like[i].nb \in Nat /\ like[i].nb # 0 /\ like[i].nb = a[s.ref][h]
  BY <1>1, <1>2, <1>4 DEF Blocks, NonEmpty, FitsGroup
<1>6. SameBlock(v, s, i).host = h /\ SameBlock(v, s, i).nb = AtMost(s.limit, a[s.ref][h])
  BY <1>5 DEF SameBlock
<1>7. AtMost(s.limit, a[s.ref][h]) \in Nat /\ AtMost(s.limit, a[s.ref][h]) # 0
  BY <1>1, <1>5, AtMostIs
<1>8. \A k \in 1 .. i - 1 : like[k].host # h
  <2> SUFFICES ASSUME NEW k \in 1 .. i - 1, like[k].host = h PROVE FALSE
    OBVIOUS
  <2>1. k \in 1 .. Len(like) /\ k # i
    BY <1>3
  <2>2. \A p, q \in DOMAIN like : like[p].host = like[q].host => p = q
    BY <1>2 DEF FitsGroup
  <2> QED
    BY <1>3, <1>4, <2>1, <2>2
<1> DEFINE p == Share(v, s, a, i - 1)
           q == Share(v, s, a, i)
<1>9. p \in [Hosts -> Nat] /\ q \in [Hosts -> Nat]
  BY <1>2, ShareType
<1>10. p[h] = a[s.grp][h] /\ q[h] = a[s.grp][h] + AtMost(s.limit, a[s.ref][h])
  <2>1. ~(\E k \in 1 .. i - 1 : like[k].host = h) /\ (\E k \in 1 .. i : like[k].host = h)
    <3>1. i \in 1 .. i
      BY <1>3
    <3> QED
      BY <1>8, <3>1
  <2> HIDE DEF h, like
  <2>2. h \in Hosts
    BY <1>5
  <2>3. p[h] = IF \E k \in 1 .. i - 1 : like[k].host = h THEN a[s.grp][h] + AtMost(s.limit, a[s.ref][h]) ELSE a[s.grp][h]
    BY <2>2 DEF Share, like
  <2>4. q[h] = IF \E k \in 1 .. i : like[k].host = h THEN a[s.grp][h] + AtMost(s.limit, a[s.ref][h]) ELSE a[s.grp][h]
    BY <2>2 DEF Share, like
  <2> HIDE DEF p, q
  <2> QED
    BY <2>1, <2>3, <2>4
<1>11. ASSUME NEW x \in Hosts \ {h} PROVE p[x] = q[x]
  <2>1. (\E k \in 1 .. i : like[k].host = x) <=> (\E k \in 1 .. i - 1 : like[k].host = x)
    <3>1. \A k \in 1 .. i : k = i \/ k \in 1 .. i - 1
      BY <1>3
    <3>2. \A k \in 1 .. i - 1 : k \in 1 .. i
      BY <1>3
    <3> QED
      BY <3>1, <3>2
  <2> QED
    BY <2>1 DEF Share
<1>12. a[s.grp][h] \in Nat
  BY <1>1, <1>2, <1>5 DEF Plans
<1>13. q[h] = p[h] + AtMost(s.limit, a[s.ref][h])
  BY <1>10
<1> HIDE DEF p, q
<1>14. [p EXCEPT ![h] = p[h] + AtMost(s.limit, a[s.ref][h])] = q
  BY <1>5, <1>9, <1>11, <1>13
<1>15. Shared(v, s, a, i - 1) = [a EXCEPT ![s.grp] = p] /\ Shared(v, s, a, i) = [a EXCEPT ![s.grp] = q]
  BY DEF Shared, p, q
<1>16. Put(Shared(v, s, a, i - 1), s.grp, h, AtMost(s.limit, a[s.ref][h]))
       = [Shared(v, s, a, i - 1) EXCEPT ![s.grp] = q]
  <2>1. Shared(v, s, a, i - 1)[s.grp] = p
    BY <1>1, <1>2, <1>15 DEF Plans
  <2> QED
    BY <1>14, <2>1 DEF Put
<1>17. [Shared(v, s, a, i - 1) EXCEPT ![s.grp] = q] = [a EXCEPT ![s.grp] = q]
  BY <1>1, <1>2, <1>15 DEF Plans
<1> QED
  BY <1>6, <1>7, <1>15, <1>16, <1>17

LEMMA AddSameFills ==
    ASSUME NEW d \in Hosts, NEW v, NEW a, Filled(d, v, a), Mutual(v), NEW s \in Statements, s.op = "same",
           NoLoop(v, s.grp), Distinct(AddSame(d, v, s))
    PROVE  Filled(d, AddSame(d, v, s), Given(a, s))
<1> DEFINE like == v[s.ref].hosts
           n == Len(like)
<1>1. s.grp \in Groups /\ s.ref \in Groups /\ s.limit \in Nat
  BY DEF Statements
<1>2. v \in Views /\ a \in Plans /\ FitsGroup(d, v[s.ref], a[s.ref])
  BY <1>1 DEF Filled, Fits
<1>3. like \in Seq(Blocks) /\ n \in Nat /\ DOMAIN like = 1 .. n
  BY <1>1, <1>2, LenProperties DEF Views, GroupState
<1>4. PICK f : SameSteps(d, v, s, f)
  BY <1>2, AddSameIs
<1>5. Distinct(f[n]) /\ AddSame(d, v, s) = f[n] /\ f[0] = v
  BY <1>4 DEF SameSteps
<1> DEFINE T == {i \in 0 .. n : Filled(d, f[i], Shared(v, s, a, i))}
<1>6. 0 \in T
  <2>1. Share(v, s, a, 0) = a[s.grp]
    <3>1. \A h \in Hosts : ~\E k \in 1 .. 0 : v[s.ref].hosts[k].host = h
      OBVIOUS
    <3>2. a[s.grp] \in [Hosts -> Nat]
      BY <1>1, <1>2 DEF Plans
    <3>3. \A h \in Hosts : Share(v, s, a, 0)[h] = a[s.grp][h]
      BY <3>1, <3>2 DEF Share
    <3>4. Share(v, s, a, 0) \in [Hosts -> Nat]
      BY <1>2, ShareType
    <3> QED
      BY <3>2, <3>3, <3>4
  <2>2. Shared(v, s, a, 0) = a
    BY <1>1, <1>2, <2>1 DEF Shared, Plans
  <2> QED
    BY <1>3, <1>5, <2>2
<1>7. ASSUME NEW i \in 1 .. n, i - 1 \in T PROVE i \in T
  <2>1. i - 1 \in 0 .. n /\ i \in 0 .. n /\ n \in 0 .. n
    BY <1>3
  <2> PICK w : w = f[i - 1]
    OBVIOUS
  <2> PICK b : b = SameBlock(v, s, i)
    OBVIOUS
  <2>2. w \in Views /\ b \in Blocks /\ f[i] = AddHost(d, w, s.grp, b)
    BY <1>4, <2>1 DEF SameSteps
  <2>3. Filled(d, w, Shared(v, s, a, i - 1))
    BY <1>7
  <2>4. Mutual(w) /\ NoLoop(w, s.grp)
    <3>1. SameLinks(v, w)
      BY <1>2, <1>4, <2>1, SameKeepsLinks
    <3> QED
      BY <1>1, <3>1, LinksKeep
  <2>5. Distinct(f[i])
    <3>1. Begun(f[i], f[n])
      BY <1>2, <1>4, <2>1, SameBegins
    <3> QED
      BY <1>5, <3>1, BegunDistinct
  <2>6. Longer(w[s.grp].hosts, b, f[i][s.grp].hosts)
    BY <1>1, <2>2, AddHostBegins
  <2>7. \A j \in DOMAIN w[s.grp].hosts : w[s.grp].hosts[j].host # b.host
    <3> DEFINE q == w[s.grp].hosts
               p == f[i][s.grp].hosts
    <3>1. \A j, k \in DOMAIN p : p[j].host = p[k].host => j = k
      BY <1>1, <2>5 DEF Distinct
    <3>2. DOMAIN q = 1 .. Len(q) /\ Len(q) \in Nat
      BY <1>1, <2>2, LenProperties DEF Views, GroupState
    <3> HIDE DEF p, q
    <3>3. Longer(q, b, p)
      BY <2>6 DEF p, q
    <3>4. \A j \in DOMAIN q : j # Len(q) + 1
      BY <3>2
    <3>5. \A j \in DOMAIN q : q[j].host # b.host
      BY <3>1, <3>3, <3>4 DEF Longer
    <3> QED
      BY <3>5 DEF q
  <2>8. b.nb # 0 /\ Put(Shared(v, s, a, i - 1), s.grp, b.host, b.nb) = Shared(v, s, a, i)
    BY SharesGrow
  <2>9. Filled(d, AddHost(d, w, s.grp, b), Put(Shared(v, s, a, i - 1), s.grp, b.host, b.nb))
    BY <1>1, <2>2, <2>3, <2>4, <2>7, <2>8, AddHostFills
  <2> QED
    BY <2>1, <2>2, <2>8, <2>9
<1>8. n \in T
  <2> HIDE DEF T
  <2>1. \A i \in 0 .. n : i \in T
    BY <1>3, <1>6, <1>7, Climb
  <2>2. n \in 0 .. n
    BY <1>3
  <2> QED
    BY <2>1, <2>2
<1>9. Shared(v, s, a, n) = Given(a, s)
  <2> DEFINE r == [h \in Hosts |-> a[s.grp][h] + AtMost(s.limit, a[s.ref][h])]
  <2>1. Given(a, s) = [a EXCEPT ![s.grp] = r]
    BY <1>1, <1>2 DEF Given, Plans
  <2>2. ASSUME NEW h \in Hosts PROVE Share(v, s, a, n)[h] = r[h]
    <3>1. CASE \E k \in 1 .. n : like[k].host = h
      BY <3>1 DEF Share
    <3>2. CASE ~\E k \in 1 .. n : like[k].host = h
      <4>1. a[s.ref][h] = 0
        BY <1>2, <1>3, <3>2 DEF FitsGroup
      <4>2. AtMost(s.limit, a[s.ref][h]) = 0
        BY <1>1, <4>1, AtMostIs
      <4>3. a[s.grp][h] \in Nat
        BY <1>1, <1>2 DEF Plans
      <4> QED
        BY <3>2, <4>2, <4>3 DEF Share
    <3> QED
      BY <3>1, <3>2
  <2>3. Share(v, s, a, n) = r
    <3>1. Share(v, s, a, n) = [h \in Hosts |-> Share(v, s, a, n)[h]]
      BY DEF Share
    <3>2. r = [h \in Hosts |-> r[h]]
      OBVIOUS
    <3> HIDE DEF r
    <3> QED
      BY <2>2, <3>1, <3>2
  <2> QED
    BY <2>1, <2>3 DEF Shared
<1> QED
  BY <1>5, <1>8, <1>9

LEMMA ExecuteFills ==
    ASSUME NEW d \in Hosts, NEW v, NEW a, Filled(d, v, a), Mutual(v), NEW s \in Statements,
           nbThreads \in [Hosts -> [Hosts -> Nat]], \A h \in Hosts : nbThreads[d][h] = DeclThreads[h],
           s.op = "assign" => s.nb > 0, s.op # "connect" => NoLoop(v, s.grp),
           Distinct(Execute(d, v, s))
    PROVE  Filled(d, Execute(d, v, s), Given(a, s))
<1>1. v \in Views /\ a \in Plans
  BY DEF Filled
<1>2. s.op \in {"connect", "assign", "same"}
  BY <1>1, ExecuteIs
<1>3. CASE s.op = "connect"
  <2>1. s.link \in Links /\ Execute(d, v, s) = AddLink(v, s.link)
    BY <1>1, <1>3, ExecuteIs
  <2>2. Given(a, s) = a
    BY <1>3 DEF Given
  <2> QED
    BY <2>1, <2>2, AddLinkFills
<1>4. CASE s.op = "same"
  BY <1>1, <1>4, ExecuteIs, AddSameFills
<1>5. CASE s.op = "assign"
  <2> PICK b : b = NewBlock(d, s)
    OBVIOUS
  <2>1. /\ s.grp \in Groups /\ s.host \in Hosts /\ s.nb \in Nat /\ s.perThread \in BOOLEAN
        /\ b \in Blocks /\ Execute(d, v, s) = AddHost(d, v, s.grp, b)
    BY <1>1, <1>5, ExecuteIs
  <2>2. DeclThreads[s.host] \in Nat \ {0} /\ s.nb \in Nat \ {0}
    BY <1>5, <2>1, GroupsAssumption
  <2>3. b.host = s.host /\ b.nb = s.nb * (IF s.perThread THEN DeclThreads[s.host] ELSE 1) /\ b.nb # 0
    <3> PICK t \in Nat \ {0} : t = DeclThreads[s.host]
      BY <2>2
    <3> PICK m \in Nat \ {0} : m = s.nb
      BY <2>2
    <3>1. m * 1 = m /\ m * t # 0
      OBVIOUS
    <3>2. b.host = s.host /\ b.nb = IF s.perThread THEN m * t ELSE m
      BY <2>1 DEF NewBlock
    <3> QED
      BY <3>1, <3>2
  <2>4. Given(a, s) = Put(a, s.grp, b.host, b.nb)
    <3> DEFINE e == s.nb * (IF s.perThread THEN DeclThreads[s.host] ELSE 1)
    <3>1. "assign" # "connect" /\ "assign" # "same"
      OBVIOUS
    <3>2. Given(a, s) = CASE s.op = "connect" -> a
                          [] s.op = "assign" -> [a EXCEPT ![s.grp][s.host] = @ + e]
                          [] s.op = "same" -> [a EXCEPT ![s.grp] = [h \in Hosts |-> @[h] + AtMost(s.limit, a[s.ref][h])]]
      BY DEF Given
    <3>3. b.nb = e /\ b.host = s.host
      BY <2>3
    <3> HIDE DEF e
    <3>4. Given(a, s) = [a EXCEPT ![s.grp][s.host] = @ + e]
      BY <1>5, <3>1, <3>2
    <3> QED
      BY <1>1, <2>1, <3>3, <3>4 DEF Put, Plans
  <2>5. Distinct(AddHost(d, v, s.grp, b)) /\ Longer(v[s.grp].hosts, b, AddHost(d, v, s.grp, b)[s.grp].hosts)
    BY <1>1, <2>1, AddHostBegins
  <2>6. \A j \in DOMAIN v[s.grp].hosts : v[s.grp].hosts[j].host # b.host
    <3> DEFINE q == v[s.grp].hosts
               p == AddHost(d, v, s.grp, b)[s.grp].hosts
    <3>1. \A j, k \in DOMAIN p : p[j].host = p[k].host => j = k
      BY <2>1, <2>5 DEF Distinct
    <3>2. DOMAIN q = 1 .. Len(q) /\ Len(q) \in Nat
      BY <1>1, <2>1, LenProperties DEF Views, GroupState
    <3> HIDE DEF p, q
    <3>3. Longer(q, b, p)
      BY <2>5 DEF p, q
    <3>4. \A j \in DOMAIN q : j # Len(q) + 1
      BY <3>2
    <3>5. \A j \in DOMAIN q : q[j].host # b.host
      BY <3>1, <3>3, <3>4 DEF Longer
    <3> QED
      BY <3>5 DEF q
  <2>7. NoLoop(v, s.grp)
    <3>1. "assign" # "connect"
      OBVIOUS
    <3> QED
      BY <1>5, <3>1
  <2>8. Filled(d, AddHost(d, v, s.grp, b), Put(a, s.grp, b.host, b.nb))
    BY <2>1, <2>3, <2>6, <2>7, AddHostFills
  <2> QED
    BY <2>1, <2>4, <2>8
<1> QED
  BY <1>2, <1>3, <1>4, <1>5

-----------------------------------------------------------------------------
(* What a daemon has read.                                                 *)

(* The links come from the statements read.                                *)
Sourced(v, n) ==
    \A x \in Groups : \A i \in DOMAIN v[x].outs :
        \E j \in 1 .. n : script[j].op = "connect" /\ script[j].link = v[x].outs[i]

Plain(v, nb) ==
    /\ Distinct(v) /\ \A x \in Hosts : nb[x] \in {0, DeclThreads[x]}
    /\ LoopsLast /\ NoneEmpty

(* The groups of a daemon are what the statements it has read mean.        *)
TextInv ==
    \A h \in Hosts :
        /\ phase[h] # "unread" => \A x \in Hosts : nbThreads[h][x] # 0
        /\ phase[h] = "running" => read[h] = Len(script)
        /\ \A x \in Groups : view[h][x].outs = LinksFrom[read[h]][x]
        /\ Sourced(view[h], read[h])
        /\ Plain(view[h], nbThreads[h]) => Filled(h, view[h], Amounts[read[h]])

LEMMA NothingFills ==
    ASSUME NEW d \in Hosts, NEW v, v = [x \in Groups |-> EmptyGroup]
    PROVE  Filled(d, v, Nobody)
<1>1. Len(<<>>) = 0 /\ DOMAIN <<>> = {}
  OBVIOUS
<1>2. \A x \in Groups : /\ v[x].hosts = <<>> /\ v[x].outs = <<>> /\ v[x].ins = <<>> /\ v[x].nb_nodes = 0
                        /\ v[x].nb_local_nodes = 0 /\ v[x].nb_out_nodes = 0
  BY DEF EmptyGroup
<1>3. v \in Views
  <2>1. <<>> \in Seq(Blocks) /\ <<>> \in Seq(Links)
    OBVIOUS
  <2>2. EmptyGroup \in GroupState
    BY <2>1 DEF EmptyGroup, GroupState
  <2> QED
    BY <2>2 DEF Views
<1>4. Nobody \in Plans /\ \A x \in Groups, h \in Hosts : Nobody[x][h] = 0
  BY DEF Nobody, Plans
<1>5. ASSUME NEW x \in Groups PROVE FitsGroup(d, v[x], Nobody[x])
  <2>1. DOMAIN Far(d, <<>>) = {}
    BY <1>1 DEF Far
  <2>2. SumFunction(Far(d, <<>>)) = 0
    BY <2>1, SumEmpty
  <2>3. v[x].nb_nodes = v[x].nb_local_nodes + SumFunction(Far(d, v[x].hosts))
    BY <1>2, <2>2
  <2>4. Nobody[x] \in [Hosts -> Nat]
    BY <1>4 DEF Plans
  <2>5. DOMAIN v[x].hosts = {}
    BY <1>1, <1>2
  <2> QED
    BY <1>2, <1>4, <2>3, <2>4, <2>5 DEF FitsGroup
<1>6. Paired(v)
  <2> SUFFICES ASSUME NEW g \in Groups, NEW x \in Groups, NEW F PROVE InFlow(v, g, x, F) = 0 /\ OutFlow(v, x, g, F) = 0
    BY DEF Paired
  <2> DEFINE f == [i \in DOMAIN v[g].ins |-> IF v[g].ins[i].src = x THEN F[v[g].ins[i]] ELSE 0]
             e == [i \in DOMAIN v[x].outs |-> IF v[x].outs[i].dst = g THEN F[v[x].outs[i]] ELSE 0]
  <2>1. DOMAIN f = {} /\ DOMAIN e = {}
    BY <1>1, <1>2
  <2>2. SumFunction(f) = 0 /\ SumFunction(e) = 0
    <3> HIDE DEF f, e
    <3> QED
      BY <2>1, SumEmpty
  <2> QED
    BY <2>2 DEF InFlow, OutFlow
<1>7. Counts(v)
  <2> SUFFICES ASSUME NEW x \in Groups PROVE SumFunction(Behind(v, x)) = 0
    BY <1>2 DEF Counts
  <2>1. DOMAIN Behind(v, x) = {}
    BY <1>1, <1>2 DEF Behind
  <2> QED
    BY <2>1, SumEmpty
<1>8. NonEmpty(v)
  BY <1>1, <1>2 DEF NonEmpty
<1> QED
  BY <1>3, <1>4, <1>5, <1>6, <1>7, <1>8 DEF Filled, Fits

LEMMA TextStarts == TypeGroups /\ InitGroups => TextInv
<1> SUFFICES ASSUME TypeGroups, InitGroups, NEW h \in Hosts
             PROVE  /\ phase[h] = "unread"
                    /\ \A x \in Groups : view[h][x].outs = LinksFrom[read[h]][x]
                    /\ Sourced(view[h], read[h])
                    /\ Filled(h, view[h], Amounts[read[h]])
  BY DEF TextInv
<1>1. phase[h] = "unread" /\ read[h] = 0 /\ view[h] = [x \in Groups |-> EmptyGroup]
  BY DEF InitGroups
<1>2. LinksFrom[0] = NoLinks /\ Amounts[0] = Nobody
  BY LinksAre, AmountsAre DEF LinksFollow, AmountsFollow
<1>3. \A x \in Groups : view[h][x].outs = <<>> /\ NoLinks[x] = <<>>
  BY <1>1 DEF EmptyGroup, NoLinks
<1>4. DOMAIN <<>> = {}
  OBVIOUS
<1>5. Sourced(view[h], read[h])
  BY <1>3, <1>4 DEF Sourced
<1>6. Filled(h, view[h], Nobody)
  BY <1>1, NothingFills
<1> QED
  BY <1>1, <1>2, <1>3, <1>5, <1>6

(* One statement.                                                          *)
LEMMA TextReads ==
    ASSUME TypeGroups, ConnectionsInv, TextInv, NEW h \in Hosts, NEW s \in Statements, Reads(h, s),
           NEW u, u = Execute(h, view[h], s), NEW r, r = read[h] + 1
    PROVE  /\ \A x \in Groups : u[x].outs = LinksFrom[r][x]
           /\ Sourced(u, r)
           /\ Plain(u, nbThreads[h]) => Filled(h, u, Amounts[r])
<1> PICK v : v = view[h]
  OBVIOUS
<1>1. /\ v \in Views /\ nbThreads \in [Hosts -> [Hosts -> Nat]] /\ Mutual(v)
      /\ read[h] \in 0 .. Len(script)
  BY DEF TypeGroups, ConnectionsInv
<1>2. Len(script) \in Nat /\ DOMAIN script = 1 .. Len(script)
  BY ScriptType, LenProperties
<1>3. /\ s = script[r] /\ r \in 1 .. Len(script) /\ r - 1 = read[h] /\ phase[h] = "reading"
      /\ \A j \in 1 .. read[h] : j \in 1 .. Len(script) /\ j < r /\ j \in 1 .. r
      /\ r \in 1 .. r
  BY <1>1, <1>2 DEF Reads
<1>4. /\ \A x \in Hosts : nbThreads[h][x] # 0
      /\ \A x \in Groups : v[x].outs = LinksFrom[read[h]][x]
      /\ Sourced(v, read[h])
      /\ Plain(v, nbThreads[h]) => Filled(h, v, Amounts[read[h]])
  <2>1. "reading" # "unread"
    OBVIOUS
  <2> QED
    BY <1>3, <2>1 DEF TextInv
<1>5. /\ LinksFrom[r] = Drawn(LinksFrom[read[h]], s) /\ LinksFrom[read[h]] \in Drawings
      /\ Amounts[r] = Given(Amounts[read[h]], s)
  <2>1. LinksFollow /\ AmountsFollow
    BY LinksAre, AmountsAre
  <2> QED
    BY <1>1, <1>3, <2>1 DEF LinksFollow, AmountsFollow
<1>6. IF s.op = "connect" THEN \A x \in Groups : Linked(v, s.link, x, u[x]) ELSE SameLinks(v, u)
  BY <1>1, ExecuteLinks
<1>7. s.op = "connect" => s.link \in Links /\ s.link.src \in Groups
  <2>1. s.op = "connect" => s.link \in Links
    BY <1>1, ExecuteIs
  <2> QED
    BY <2>1 DEF Links
<1>8. ASSUME NEW x \in Groups PROVE u[x].outs = LinksFrom[r][x]
  <2> PICK old \in Drawings : old = LinksFrom[read[h]]
    BY <1>5
  <2>1. v[x].outs = old[x] /\ LinksFrom[r] = Drawn(old, s)
    BY <1>4, <1>5
  <2>2. CASE s.op = "connect"
    <3>1. u[x].outs = IF x = s.link.src THEN Append(v[x].outs, s.link) ELSE v[x].outs
      BY <1>6, <2>2 DEF Linked
    <3>2. Drawn(old, s)[x] = IF x = s.link.src THEN Append(old[x], s.link) ELSE old[x]
      BY <1>7, <2>2 DEF Drawn, Drawings
    <3> QED
      BY <2>1, <3>1, <3>2
  <2>3. CASE s.op # "connect"
    BY <1>6, <2>1, <2>3 DEF SameLinks, Drawn
  <2> QED
    BY <2>2, <2>3
<1>9. Sourced(u, r)
  <2> SUFFICES ASSUME NEW x \in Groups, NEW i \in DOMAIN u[x].outs
               PROVE  \E j \in 1 .. r : script[j].op = "connect" /\ script[j].link = u[x].outs[i]
    BY DEF Sourced
  <2>1. ASSUME i \in DOMAIN v[x].outs, u[x].outs[i] = v[x].outs[i]
        PROVE  \E j \in 1 .. r : script[j].op = "connect" /\ script[j].link = u[x].outs[i]
    BY <1>3, <1>4, <2>1 DEF Sourced
  <2>2. CASE s.op = "connect"
    <3>1. /\ x = s.link.src => Longer(v[x].outs, s.link, u[x].outs)
          /\ x # s.link.src => u[x].outs = v[x].outs
      BY <1>1, <1>6, <1>7, <2>2, LinkedLonger
    <3>2. CASE x # s.link.src
      BY <2>1, <3>1, <3>2
    <3>3. CASE x = s.link.src
      <4>1. CASE i \in DOMAIN v[x].outs
        BY <2>1, <3>1, <3>3, <4>1 DEF Longer
      <4>2. CASE i \notin DOMAIN v[x].outs
        <5>1. u[x].outs[i] = s.link
          BY <3>1, <3>3, <4>2 DEF Longer
        <5> QED
          BY <1>3, <2>2, <5>1
      <4> QED
        BY <4>1, <4>2
    <3> QED
      BY <3>2, <3>3
  <2>3. CASE s.op # "connect"
    <3>1. u[x].outs = v[x].outs
      BY <1>6, <2>3 DEF SameLinks
    <3> QED
      BY <2>1, <3>1
  <2> QED
    BY <2>2, <2>3
<1>10. ASSUME Plain(u, nbThreads[h]) PROVE Filled(h, u, Amounts[r])
  <2>1. Distinct(u) /\ LoopsLast /\ NoneEmpty /\ \A x \in Hosts : nbThreads[h][x] \in {0, DeclThreads[x]}
    BY <1>10 DEF Plain
  <2>2. Distinct(v)
    <3>1. Begun(v, u)
      BY <1>1, ExecuteBegins
    <3> QED
      BY <2>1, <3>1, BegunDistinct
  <2>3. Filled(h, v, Amounts[read[h]])
    BY <1>4, <2>1, <2>2 DEF Plain
  <2>4. \A x \in Hosts : nbThreads[h][x] = DeclThreads[x]
    BY <1>4, <2>1
  <2>5. s.op = "assign" => s.nb > 0
    BY <1>2, <1>3, <2>1 DEF NoneEmpty
  <2>6. ASSUME s.op # "connect" PROVE NoLoop(v, s.grp)
    <3> SUFFICES ASSUME NEW i \in DOMAIN v[s.grp].outs, NEW l, l = v[s.grp].outs[i], l.local, Skips(l) PROVE FALSE
      BY DEF NoLoop
    <3>1. s.grp \in Groups
      BY <1>1, <2>6, ExecuteIs
    <3>2. l.src = s.grp
      <4> PICK g \in Groups : g = s.grp
        BY <3>1
      <4>1. i \in DOMAIN v[g].outs /\ l = v[g].outs[i]
        OBVIOUS
      <4>2. v[g].outs[i].src = g
        BY <1>1, <4>1 DEF Mutual
      <4> QED
        BY <4>1, <4>2
    <3>3. PICK j \in 1 .. read[h] : script[j].op = "connect" /\ script[j].link = l
      BY <1>4, <3>1 DEF Sourced
    <3>4. j \in DOMAIN script /\ r \in DOMAIN script /\ j < r
      BY <1>2, <1>3
    <3>5. script[r].grp # l.src
      BY <1>3, <2>1, <2>6, <3>3, <3>4 DEF LoopsLast
    <3> QED
      BY <1>3, <3>2, <3>5
  <2>7. Filled(h, Execute(h, v, s), Given(Amounts[read[h]], s))
    BY <1>1, <2>1, <2>3, <2>4, <2>5, <2>6, ExecuteFills
  <2> QED
    BY <1>5, <2>7
<1> QED
  BY <1>8, <1>9, <1>10

LEMMA TextStays == TypeGroups /\ ConnectionsInv /\ TextInv /\ [NextGroups]_groups => TextInv'
<1> SUFFICES ASSUME TypeGroups, ConnectionsInv, TextInv, [NextGroups]_groups, NEW h \in Hosts
             PROVE  /\ phase'[h] # "unread" => \A x \in Hosts : nbThreads'[h][x] # 0
                    /\ phase'[h] = "running" => read'[h] = Len(script')
                    /\ \A x \in Groups : view'[h][x].outs = LinksFrom'[read'[h]][x]
                    /\ Sourced(view[h], read[h])'
                    /\ Plain(view[h], nbThreads[h])' => Filled(h, view'[h], Amounts'[read'[h]])
  BY DEF TextInv
<1> PICK u, r, nb, p : u = view'[h] /\ r = read'[h] /\ nb = nbThreads'[h] /\ p = phase'[h]
  OBVIOUS
<1>1. StepOf(h)
  BY Steps
<1>2. script' = script /\ \A x \in Hosts : nbThreads[h][x] # 0 => nb[x] = nbThreads[h][x]
  BY <1>1 DEF StepOf, Keeps
<1>3. Amounts' = Amounts
  BY <1>2 DEF Amounts
<1>4. LinksFrom' = LinksFrom
  BY <1>2 DEF LinksFrom
<1>5. Sourced(u, r) => Sourced(view[h], read[h])'
  BY <1>2 DEF Sourced
<1>6. Plain(view[h], nbThreads[h])' => Plain(u, nb)
  BY <1>2 DEF Plain, LoopsLast, NoneEmpty
<1>7. /\ phase[h] # "unread" => \A x \in Hosts : nbThreads[h][x] # 0
      /\ phase[h] = "running" => read[h] = Len(script)
      /\ \A x \in Groups : view[h][x].outs = LinksFrom[read[h]][x]
      /\ Sourced(view[h], read[h])
      /\ Plain(view[h], nbThreads[h]) => Filled(h, view[h], Amounts[read[h]])
  BY DEF TextInv
<1>8. Plain(view[h], nb) => Plain(view[h], nbThreads[h])
  <2>1. ASSUME NEW x \in Hosts, nb[x] \in {0, DeclThreads[x]} PROVE nbThreads[h][x] \in {0, DeclThreads[x]}
    BY <1>2, <2>1
  <2> QED
    BY <2>1 DEF Plain
<1>9. /\ p # "unread" => \A x \in Hosts : nb[x] # 0
      /\ p = "running" => r = Len(script)
      /\ \A x \in Groups : u[x].outs = LinksFrom[r][x]
      /\ Sourced(u, r)
      /\ Plain(u, nb) => Filled(h, u, Amounts[r])
  <2>1. CASE Idles(h)
    <3>1. u = view[h] /\ r = read[h] /\ p = phase[h]
      BY <2>1 DEF Idles
    <3>2. phase[h] # "unread" => \A x \in Hosts : nb[x] # 0
      BY <1>2, <1>7
    <3> QED
      BY <1>7, <1>8, <3>1, <3>2
  <2>2. CASE ReadsOne(h)
    <3>1. PICK s \in Statements : Reads(h, s)
      BY <2>2 DEF ReadsOne
    <3>2. u = Execute(h, view[h], s) /\ r = read[h] + 1 /\ nb = nbThreads[h] /\ phase[h] = "reading"
      BY <3>1 DEF Reads
    <3>3. p # "running"
      BY <2>2 DEF ReadsOne
    <3>4. \A x \in Hosts : nb[x] # 0
      BY <1>7, <3>2
    <3>5. /\ \A x \in Groups : u[x].outs = LinksFrom[r][x]
          /\ Sourced(u, r)
          /\ Plain(u, nbThreads[h]) => Filled(h, u, Amounts[r])
      BY <3>1, <3>2, TextReads
    <3> QED
      BY <3>2, <3>3, <3>4, <3>5
  <2>3. CASE Declares(h)
    <3>1. u = view[h] /\ r = read[h] /\ p = "reading" /\ \A x \in Hosts : nb[x] # 0
      BY <2>3 DEF Declares
    <3> QED
      BY <1>7, <1>8, <3>1
  <2>4. CASE Finishes(h)
    <3>1. u = view[h] /\ r = read[h] /\ phase[h] = "reading" /\ r = Len(script)
      BY <2>4 DEF Finishes
    <3>2. \A x \in Hosts : nb[x] # 0
      BY <1>2, <1>7, <3>1
    <3> QED
      BY <1>7, <1>8, <3>1, <3>2
  <2> QED
    BY <1>1, <2>1, <2>2, <2>3, <2>4 DEF StepOf
<1>10. Plain(view[h], nbThreads[h])' => Filled(h, view'[h], Amounts'[read'[h]])
  BY <1>3, <1>6, <1>9
<1> QED
  BY <1>2, <1>4, <1>5, <1>9, <1>10

LEMMA TextReaches == TypeGroups /\ ConnectionsInv /\ TextInv => EveryNeighbour
<1> SUFFICES ASSUME TypeGroups, ConnectionsInv, TextInv, Loaded, OneBlock, Agreed, LoopsLast, NoneEmpty,
                    NEW g \in Groups, NEW n \in NodesOf(g)
             PROVE  Routed(n)
  BY DEF EveryNeighbour
<1> PICK d : d = n.host
  OBVIOUS
<1>1. d \in Hosts
  BY DEF NodesOf
<1>2. phase[d] = "running"
  BY <1>1 DEF Loaded
<1>3. Plain(view[d], nbThreads[d])
  BY <1>1 DEF Plain, Distinct, OneBlock, Agreed
<1>4. read[d] = Len(script) /\ view[d][g].outs = LinksFrom[Len(script)][g]
  BY <1>1, <1>2 DEF TextInv
<1>5. Filled(d, view[d], Amounts[Len(script)])
  BY <1>1, <1>3, <1>4 DEF TextInv
<1>6. Fits(d, view[d], Amounts[Len(script)]) /\ view[d][g].nb_out_nodes = SumFunction(Behind(view[d], g))
  BY <1>5 DEF Filled, Counts
<1>7. \A j \in DOMAIN view[d][g].outs : view[d][g].outs[j].src = g
  BY <1>1 DEF ConnectionsInv, Mutual
<1> QED
  BY <1>1, <1>4, <1>6, <1>7, RoutedBy

(* The numbers of its neighbours lead a node to all of them, whatever the  *)
(* model, the daemons and the order in which they read it: the counters of *)
(* a group and of the links out of it always are what the statements read  *)
(* so far mean, although each block and each link only adds to them        *)
(* (add_host, add_link, on_dst_add_host).                                  *)
THEOREM NeighboursReached == SpecGroups => []EveryNeighbour
<1>1. InitGroups => ConnectionsInv
  BY ConnectionsStart
<1>2. TypeGroups /\ InitGroups => TextInv
  BY TextStarts
<1>3. TypeGroups /\ ConnectionsInv /\ [NextGroups]_groups => ConnectionsInv'
  BY ConnectionsInvStays
<1>4. TypeGroups /\ ConnectionsInv /\ TextInv /\ [NextGroups]_groups => TextInv'
  BY TextStays
<1>5. TypeGroups /\ ConnectionsInv /\ TextInv => EveryNeighbour
  BY TextReaches
<1> QED
  BY <1>1, <1>2, <1>3, <1>4, <1>5, GroupsTypeCorrect, PTL DEF SpecGroups
=============================================================================

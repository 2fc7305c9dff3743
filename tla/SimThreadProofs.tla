-------------------------- MODULE SimThreadProofs --------------------------
(***************************************************************************)
(* Proofs about SimThread, for any number of threads, nodes, connection    *)
(* threads and messages.                                                   *)
(***************************************************************************)
EXTENDS SimThread, SequenceTheorems, FiniteSetTheorems, TLAPS

(* What the program counters say of the registers that go with them. *)
Shape ==
    /\ \A t \in Threads : tpc[t] = "recv" => msg[t] \in Messages
    /\ \A t \in Threads : tpc[t] = "proc" => cur[t] \in Nodes
    /\ cpc \in {"init", "incr", "store", "attach", "flag"} => cnode \in Nodes

TypeInv == TypeOK /\ Shape

LEMMA TypeInit == Init => TypeInv
<1> SUFFICES ASSUME Init PROVE TypeInv
  OBVIOUS
<1>1. threads \in Seq(Threads)
  BY ConstantsAssumption, IsASeq DEF Init, Threads
<1>2. fifo \in [Threads -> Seq(Messages)]
  BY EmptySeq DEF Init
<1>3. tpc \in [Threads -> ThreadPC] /\ cpc \in CfgPC
  BY DEF Init, ThreadPC, CfgPC
<1>4. sem \in [Threads -> Nat] /\ budget \in Nat
  BY ConstantsAssumption DEF Init
<1>5. TypeOK
  BY <1>1, <1>2, <1>3, <1>4 DEF Init, TypeOK
<1>6. Shape
  BY DEF Init, Shape
<1> QED
  BY <1>5, <1>6 DEF TypeInv

(* The changes of the scheduler list keep the types of what they change. *)
LEMMA ListTypes ==
    ASSUME TypeOK, NEW t \in Threads, NEW n, NEW d,
           DetachSelf(t, n) \/ UNCHANGED listVars
             \/ (n \in Nodes /\ (AttachSelf(t, n) \/ InitNode(t, n, d)))
    PROVE  /\ nodes' \in [Threads -> SUBSET Nodes]
           /\ attached' \in [Nodes -> BOOLEAN]
           /\ post' \in [Procs -> Threads \cup {NoThread}]
<1>0. nodes \in [Threads -> SUBSET Nodes] /\ attached \in [Nodes -> BOOLEAN]
      /\ post \in [Procs -> Threads \cup {NoThread}]
  BY DEF TypeOK
<1>1. CASE UNCHANGED listVars
  BY <1>0, <1>1 DEF listVars
<1>2. CASE /\ n \in Nodes
           /\ nodes' = [nodes EXCEPT ![t] = @ \cup {n}]
           /\ attached' = [attached EXCEPT ![n] = TRUE]
           /\ Owe(t, t)
  <2>1. nodes' \in [Threads -> SUBSET Nodes]
    BY <1>0, <1>2
  <2>2. attached' \in [Nodes -> BOOLEAN]
    BY <1>0, <1>2
  <2>3. post' \in [Procs -> Threads \cup {NoThread}]
    BY <1>0, <1>2 DEF Owe
  <2> QED
    BY <2>1, <2>2, <2>3
<1>3. CASE /\ nodes' = [nodes EXCEPT ![t] = @ \ {n}]
           /\ attached' = [attached EXCEPT ![n] = FALSE]
           /\ Owe(t, t)
  <2>1. nodes' \in [Threads -> SUBSET Nodes]
    BY <1>0, <1>3
  <2>2. attached' \in [Nodes -> BOOLEAN]
    BY <1>0, <1>3
  <2>3. post' \in [Procs -> Threads \cup {NoThread}]
    BY <1>0, <1>3 DEF Owe
  <2> QED
    BY <2>1, <2>2, <2>3
<1> QED
  BY <1>1, <1>2, <1>3 DEF InitNode, AttachSelf, DetachSelf, FlagReset
(* Leaving tpc alone or sending one thread to a known place keeps its type. *)
LEMMA GotoTypes ==
    ASSUME TypeOK, NEW t \in Threads, NEW pc \in ThreadPC, Goto(t, pc)
    PROVE  /\ tpc' \in [Threads -> ThreadPC]
           /\ \A u \in Threads : tpc'[u] = IF u = t THEN pc ELSE tpc[u]
BY DEF TypeOK, Goto

LEMMA OweTypes ==
    ASSUME TypeOK, NEW p \in Procs, NEW t \in Threads \cup {NoThread}, Owe(p, t)
    PROVE  post' \in [Procs -> Threads \cup {NoThread}]
BY DEF TypeOK, Owe

LEMMA EnqueueTypes ==
    ASSUME TypeOK, NEW m \in Messages, Enqueue(m)
    PROVE  /\ fifo' \in [Threads -> Seq(Messages)]
           /\ budget' \in Nat
<1>1. ThreadOf[m.dst] \in Threads
  BY ConstantsAssumption DEF Messages
<1>2. Append(fifo[ThreadOf[m.dst]], m) \in Seq(Messages)
  BY <1>1, AppendProperties DEF TypeOK
<1> QED
  BY <1>1, <1>2 DEF Enqueue, TypeOK

LEMMA ReceivedTypes ==
    ASSUME TypeInv, NEW t \in Threads, Received(t)
    PROVE  /\ tpc' \in [Threads -> ThreadPC]
           /\ msg' \in [Threads -> Messages \cup {NoMsg}]
           /\ \A u \in Threads \ {t} : tpc'[u] = tpc[u] /\ msg'[u] = msg[u]
           /\ tpc'[t] # "recv"
           /\ tpc'[t] = "proc" => cur[t] \in Nodes
<1>1. msg' \in [Threads -> Messages \cup {NoMsg}] /\ \A u \in Threads \ {t} : msg'[u] = msg[u]
  BY DEF TypeInv, TypeOK, Received
<1> DEFINE pc == IF cur[t] = NoNode THEN "drain" ELSE "proc"
<1>2. pc \in ThreadPC /\ Goto(t, pc)
  BY DEF ThreadPC, Received
<1>3. cur[t] \in Nodes \cup {NoNode}
  BY DEF TypeInv, TypeOK
<1> HIDE DEF pc
<1>4. tpc' \in [Threads -> ThreadPC] /\ \A u \in Threads : tpc'[u] = IF u = t THEN pc ELSE tpc[u]
  BY <1>2, GotoTypes DEF TypeInv
<1> QED
  BY <1>1, <1>3, <1>4 DEF pc
-----------------------------------------------------------------------------
(* Type correctness, one lemma per kind of process.                        *)


LEMMA TypePost ==
    ASSUME TypeInv, NEW p \in Procs, Post(p)
    PROVE  TypeInv'
<1>1. post[p] \in Threads
  BY DEF TypeInv, TypeOK, Post
<1>2. sem' \in [Threads -> Nat]
  BY <1>1 DEF TypeInv, TypeOK, Post
<1>3. post' \in [Procs -> Threads \cup {NoThread}]
  BY OweTypes DEF TypeInv, Post
<1>4. TypeOK'
  BY <1>2, <1>3 DEF TypeInv, TypeOK, Post, runVars, callVars, nodeVars, cfgVars
<1>5. Shape'
  BY DEF TypeInv, Shape, Post, callVars, cfgVars
<1> QED
  BY <1>4, <1>5 DEF TypeInv

LEMMA TypeConn ==
    ASSUME TypeInv, NEW c \in Conns, ConnReceive(c)
    PROVE  TypeInv'
<1>1. PICK n \in addr, k \in Kinds : Push(c, [dst |-> n, kind |-> k])
  BY DEF ConnReceive
<1> DEFINE m == [dst |-> n, kind |-> k]
<1>2. m \in Messages /\ ThreadOf[m.dst] \in Threads
  BY ConstantsAssumption DEF TypeInv, TypeOK, Messages
<1>3. Enqueue(m) /\ Owe(c, ThreadOf[m.dst])
  BY <1>1 DEF Push
<1> HIDE DEF m
<1>4. fifo' \in [Threads -> Seq(Messages)] /\ budget' \in Nat
  BY <1>2, <1>3, EnqueueTypes DEF TypeInv
<1>5. post' \in [Procs -> Threads \cup {NoThread}]
  BY <1>2, <1>3, OweTypes DEF TypeInv, Procs
<1>6. TypeOK'
  BY <1>4, <1>5 DEF TypeInv, TypeOK, ConnReceive, runVars, callVars, nodeVars, cfgVars
<1>7. Shape'
  BY DEF TypeInv, Shape, ConnReceive, callVars, cfgVars
<1> QED
  BY <1>6, <1>7 DEF TypeInv

LEMMA TypeThread ==
    ASSUME TypeInv, NEW t \in Threads, ThreadStep(t)
    PROVE  TypeInv'
<1> USE DEF TypeInv
<1>1. CASE Test(t)
  <2>1. PICK pc \in ThreadPC \ {"recv", "proc"} : Goto(t, pc)
    BY <1>1 DEF Test, ThreadPC
  <2>2. tpc' \in [Threads -> ThreadPC] /\ \A u \in Threads : tpc'[u] = IF u = t THEN pc ELSE tpc[u]
    BY <2>1, GotoTypes
  <2>3. TypeOK'
    BY <1>1, <2>2 DEF TypeOK, Test, runVars, workVars, callVars, nodeVars, cfgVars
  <2>4. Shape'
    BY <1>1, <2>1, <2>2 DEF Shape, Test, callVars, cfgVars
  <2> QED
    BY <2>3, <2>4
<1>2. CASE Wake(t)
  <2>1. tpc' \in [Threads -> ThreadPC] /\ \A u \in Threads : tpc'[u] = IF u = t THEN "loop" ELSE tpc[u]
    BY <1>2, GotoTypes DEF Wake, ThreadPC
  <2>2. sem' \in [Threads -> Nat]
    BY <1>2 DEF TypeOK, Wake, Positive
  <2>3. TypeOK'
    BY <1>2, <2>1, <2>2 DEF TypeOK, Wake, runVars, callVars, nodeVars, cfgVars
  <2>4. Shape'
    BY <1>2, <2>1 DEF Shape, Wake, callVars, cfgVars
  <2> QED
    BY <2>3, <2>4
<1>3. CASE Drain(t)
  <2>1. CASE fifo[t] # <<>>
    <3>1. Head(fifo[t]) \in Messages /\ Tail(fifo[t]) \in Seq(Messages)
      BY <2>1, HeadTailProperties DEF TypeOK
    <3>2. fifo' \in [Threads -> Seq(Messages)]
      BY <1>3, <2>1, <3>1 DEF TypeOK, Drain, Dequeue
    <3>3. msg' \in [Threads -> Messages \cup {NoMsg}] /\ msg'[t] \in Messages
          /\ \A u \in Threads \ {t} : msg'[u] = msg[u]
      BY ZenonT(60), <1>3, <2>1, <3>1 DEF TypeOK, Drain, Dequeue
    <3>4. tpc' \in [Threads -> ThreadPC] /\ \A u \in Threads : tpc'[u] = IF u = t THEN "recv" ELSE tpc[u]
      BY <1>3, <2>1, GotoTypes DEF Drain, ThreadPC
    <3>5. TypeOK'
      BY <1>3, <3>2, <3>3, <3>4 DEF TypeOK, Drain, Dequeue, runVars, nodeVars, cfgVars
    <3>6. Shape'
      BY <1>3, <3>3, <3>4 DEF Shape, Drain, Dequeue, cfgVars
    <3> QED
      BY <3>5, <3>6
  <2>2. CASE fifo[t] = <<>>
    <3>1. tpc' \in [Threads -> ThreadPC] /\ \A u \in Threads : tpc'[u] = IF u = t THEN "sched" ELSE tpc[u]
      BY <1>3, <2>2, GotoTypes DEF Drain, ThreadPC
    <3>2. TypeOK'
      BY <1>3, <2>2, <3>1 DEF TypeOK, Drain, Dequeue, runVars, nodeVars, cfgVars
    <3>3. Shape'
      BY <1>3, <2>2, <3>1 DEF Shape, Drain, Dequeue, cfgVars
    <3> QED
      BY <3>2, <3>3
  <2> QED
    BY <2>1, <2>2
<1>4. CASE Receive(t)
  <2> DEFINE n == msg[t].dst
             training == n \in Workers /\ msg[t].kind = "work"
             finishes == n \in Workers /\ msg[t].kind = "finish"
  <2>1. n \in Nodes
    BY <1>4 DEF Shape, Receive, At, Messages
  <2>2. /\ hasData' = [hasData EXCEPT ![n] = @ \/ training]
        /\ inited' = [inited EXCEPT ![n] = TRUE]
        /\ finished' = [finished EXCEPT ![n] = @ \/ finishes]
        /\ InitNode(t, n, hasData[n] \/ training) \/ UNCHANGED listVars
        /\ (Goto(t, "decr") /\ UNCHANGED msg) \/ Received(t)
        /\ UNCHANGED <<runVars, sem, fifo, cur, cfgVars, budget>>
    BY <1>4 DEF Receive
  <2> HIDE DEF n, training, finishes
  <2>3. nodes' \in [Threads -> SUBSET Nodes] /\ attached' \in [Nodes -> BOOLEAN]
        /\ post' \in [Procs -> Threads \cup {NoThread}]
    BY <2>1, <2>2, ListTypes
  <2>4. hasData' \in [Nodes -> BOOLEAN] /\ finished' \in [Nodes -> BOOLEAN]
    BY <2>1, <2>2, Zenon DEF TypeOK
  <2>5. inited' \in [Nodes -> BOOLEAN]
    BY <2>1, <2>2 DEF TypeOK
  <2>6. /\ tpc' \in [Threads -> ThreadPC] /\ msg' \in [Threads -> Messages \cup {NoMsg}]
        /\ \A u \in Threads \ {t} : tpc'[u] = tpc[u] /\ msg'[u] = msg[u]
        /\ tpc'[t] # "recv"
        /\ tpc'[t] = "proc" => cur[t] \in Nodes
    <3>1. CASE Received(t)
      BY <3>1, ReceivedTypes
    <3>2. CASE Goto(t, "decr") /\ UNCHANGED msg
      <4>1. tpc' \in [Threads -> ThreadPC] /\ \A u \in Threads : tpc'[u] = IF u = t THEN "decr" ELSE tpc[u]
        BY <3>2, GotoTypes DEF ThreadPC
      <4> QED
        BY <3>2, <4>1 DEF TypeOK
    <3> QED
      BY <2>2, <3>1, <3>2
  <2>7. TypeOK'
    BY <2>2, <2>3, <2>4, <2>5, <2>6 DEF TypeOK, runVars, cfgVars
  <2>8. Shape'
    BY <2>2, <2>6 DEF Shape, cfgVars
  <2> QED
    BY <2>7, <2>8
<1>5. CASE Draw(t)
  <2>1. CASE \E n \in nodes[t] : DrawNode(t, n)
    <3>1. PICK n \in nodes[t] : DrawNode(t, n)
      BY <2>1
    <3>2. n \in Nodes
      BY <3>1 DEF TypeOK
    <3>3. nodes' \in [Threads -> SUBSET Nodes] /\ attached' \in [Nodes -> BOOLEAN]
          /\ post' \in [Procs -> Threads \cup {NoThread}]
      BY <3>1, <3>2, ListTypes DEF DrawNode
    <3>4. inited' \in [Nodes -> BOOLEAN]
      BY <3>1, <3>2 DEF TypeOK, DrawNode
    <3>5. PICK pc \in {"proc", "loop"} :
             /\ Goto(t, pc)
             /\ IF pc = "proc" THEN cur' = [cur EXCEPT ![t] = n] ELSE UNCHANGED cur
      BY <3>1 DEF DrawNode
    <3>6. tpc' \in [Threads -> ThreadPC] /\ \A u \in Threads : tpc'[u] = IF u = t THEN pc ELSE tpc[u]
      BY <3>5, GotoTypes DEF ThreadPC
    <3>7. cur' \in [Threads -> Nodes \cup {NoNode}] /\ (pc = "proc" => cur'[t] \in Nodes)
          /\ \A u \in Threads \ {t} : cur'[u] = cur[u]
      BY ZenonT(60), <3>2, <3>5 DEF TypeOK
    <3>8. TypeOK'
      BY <1>5, <3>3, <3>4, <3>6, <3>7 DEF TypeOK, Draw, runVars, cfgVars
    <3>9. Shape'
      BY <1>5, <3>5, <3>6, <3>7 DEF Shape, Draw, cfgVars
    <3> QED
      BY <3>8, <3>9
  <2>2. CASE Goto(t, "loop") /\ UNCHANGED <<listVars, inited, cur>>
    <3>1. tpc' \in [Threads -> ThreadPC] /\ \A u \in Threads : tpc'[u] = IF u = t THEN "loop" ELSE tpc[u]
      BY <2>2, GotoTypes DEF ThreadPC
    <3>2. TypeOK'
      BY <1>5, <2>2, <3>1 DEF TypeOK, Draw, listVars, runVars, cfgVars
    <3>3. Shape'
      BY <1>5, <2>2, <3>1 DEF Shape, Draw, cfgVars
    <3> QED
      BY <3>2, <3>3
  <2> QED
    BY <1>5, <2>1, <2>2 DEF Draw
<1>6. CASE Send(t)
  <2>1. PICK n \in Outs[cur[t]] \cap addr, k \in Kinds :
          IF SameThread(t, n)
          THEN /\ budget > 0
               /\ budget' = budget - 1
               /\ msg' = [msg EXCEPT ![t] = [dst |-> n, kind |-> k]]
               /\ Goto(t, "recv")
               /\ UNCHANGED <<fifo, post>>
          ELSE Push(t, [dst |-> n, kind |-> k]) /\ UNCHANGED <<msg, tpc>>
    BY <1>6 DEF Send
  <2> DEFINE m == [dst |-> n, kind |-> k]
  <2>2. m \in Messages /\ ThreadOf[m.dst] \in Threads
    BY ConstantsAssumption DEF TypeOK, Messages
  <2>3. /\ \/ /\ budget > 0
              /\ budget' = budget - 1
              /\ msg' = [msg EXCEPT ![t] = m]
              /\ Goto(t, "recv")
              /\ UNCHANGED <<fifo, post>>
           \/ Push(t, m) /\ UNCHANGED <<msg, tpc>>
        /\ UNCHANGED <<runVars, sem, nodes, cur, nodeVars, cfgVars>>
    BY <1>6, <2>1 DEF Send
  <2> HIDE DEF m
  <2>4. CASE Push(t, m) /\ UNCHANGED <<msg, tpc>>
    <3>1. fifo' \in [Threads -> Seq(Messages)] /\ budget' \in Nat
      BY <2>2, <2>4, EnqueueTypes DEF Push
    <3>2. post' \in [Procs -> Threads \cup {NoThread}]
      BY <2>2, <2>4, OweTypes DEF Push, Procs
    <3>3. TypeOK'
      BY <2>3, <2>4, <3>1, <3>2 DEF TypeOK, runVars, nodeVars, cfgVars
    <3>4. Shape'
      BY <2>3, <2>4 DEF Shape, cfgVars
    <3> QED
      BY <3>3, <3>4
  <2>5. CASE /\ budget > 0
             /\ budget' = budget - 1
             /\ msg' = [msg EXCEPT ![t] = m]
             /\ Goto(t, "recv")
             /\ UNCHANGED <<fifo, post>>
    <3>1. tpc' \in [Threads -> ThreadPC] /\ \A u \in Threads : tpc'[u] = IF u = t THEN "recv" ELSE tpc[u]
      BY <2>5, GotoTypes DEF ThreadPC
    <3>2. budget' \in Nat
      BY <2>5 DEF TypeOK
    <3>3. msg' \in [Threads -> Messages \cup {NoMsg}] /\ msg'[t] \in Messages
          /\ \A u \in Threads \ {t} : msg'[u] = msg[u]
      BY <2>2, <2>5 DEF TypeOK
    <3>4. TypeOK'
      BY <2>3, <2>5, <3>1, <3>2, <3>3 DEF TypeOK, runVars, nodeVars, cfgVars
    <3>5. Shape'
      BY <2>3, <3>1, <3>3 DEF Shape, cfgVars
    <3> QED
      BY <3>4, <3>5
  <2> QED
    BY <2>3, <2>4, <2>5
<1>7. CASE Return(t)
  <2>0. cur[t] \in Nodes
    BY <1>7 DEF Shape, Return, At
  <2>1. CASE Goto(t, "loop") /\ cur' = [cur EXCEPT ![t] = NoNode] /\ UNCHANGED finished
    <3>1. tpc' \in [Threads -> ThreadPC] /\ \A u \in Threads : tpc'[u] = IF u = t THEN "loop" ELSE tpc[u]
      BY <2>1, GotoTypes DEF ThreadPC
    <3>2. cur' \in [Threads -> Nodes \cup {NoNode}] /\ \A u \in Threads \ {t} : cur'[u] = cur[u]
      BY <2>1 DEF TypeOK
    <3>3. TypeOK'
      BY <1>7, <2>1, <3>1, <3>2 DEF TypeOK, Return, runVars, workVars, cfgVars
    <3>4. Shape'
      BY <1>7, <3>1, <3>2 DEF Shape, Return, cfgVars
    <3> QED
      BY <3>3, <3>4
  <2>2. CASE Goto(t, "decr") /\ finished' = [finished EXCEPT ![cur[t]] = TRUE] /\ UNCHANGED cur
    <3>1. tpc' \in [Threads -> ThreadPC] /\ \A u \in Threads : tpc'[u] = IF u = t THEN "decr" ELSE tpc[u]
      BY <2>2, GotoTypes DEF ThreadPC
    <3>2. finished' \in [Nodes -> BOOLEAN]
      BY <2>0, <2>2 DEF TypeOK
    <3>3. TypeOK'
      BY <1>7, <2>2, <3>1, <3>2 DEF TypeOK, Return, runVars, workVars, cfgVars
    <3>4. Shape'
      BY <1>7, <2>2, <3>1 DEF Shape, Return, cfgVars
    <3> QED
      BY <3>3, <3>4
  <2> QED
    BY <1>7, <2>1, <2>2 DEF Return
<1>8. CASE Decrement(t)
  <2>1. PICK pc \in ThreadPC \ {"recv", "proc"} : Goto(t, pc)
    BY <1>8 DEF Decrement, ThreadPC
  <2>2. tpc' \in [Threads -> ThreadPC] /\ \A u \in Threads : tpc'[u] = IF u = t THEN pc ELSE tpc[u]
    BY <2>1, GotoTypes
  <2>3. tmp' \in [Threads \cup {Cfg} -> Int] /\ nbRunning' \in [Threads -> Int]
    <3>1. \/ tmp' = [tmp EXCEPT ![t] = nbRunning[t]] /\ nbRunning' = nbRunning
          \/ nbRunning' = [nbRunning EXCEPT ![t] = tmp[t] - 1] /\ tmp' = tmp
      BY <1>8 DEF Decrement
    <3> QED
      BY <3>1 DEF TypeOK
  <2>3a. clash' \subseteq Threads
    BY <1>8 DEF TypeOK, Decrement, Clash
  <2>4. TypeOK'
    BY <1>8, <2>2, <2>3, <2>3a DEF TypeOK, Decrement, workVars, callVars, nodeVars, cfgVars
  <2>5. Shape'
    BY <1>8, <2>1, <2>2 DEF Shape, Decrement, callVars, cfgVars
  <2> QED
    BY <2>4, <2>5
<1>9. CASE RemoveNode(t)
  <2> DEFINE n == Finishing(t)
  <2>1. /\ bRunning' = [bRunning EXCEPT ![t] = @ /\ ~NoneRunning(t)]
        /\ DetachSelf(t, n)
        /\ \/ Received(t) /\ UNCHANGED cur
           \/ Goto(t, "loop") /\ cur' = [cur EXCEPT ![t] = NoNode] /\ UNCHANGED msg
        /\ UNCHANGED <<nbRunning, tmp, clash, sem, fifo, inited, finished, hasData, cfgVars, budget>>
    BY <1>9 DEF RemoveNode
  <2> HIDE DEF n
  <2>2. bRunning' \in [Threads -> BOOLEAN]
    BY <2>1, Zenon DEF TypeOK, NoneRunning
  <2>3. nodes' \in [Threads -> SUBSET Nodes] /\ attached' \in [Nodes -> BOOLEAN]
        /\ post' \in [Procs -> Threads \cup {NoThread}]
    BY <2>1, ListTypes
  <2>4. /\ tpc' \in [Threads -> ThreadPC] /\ msg' \in [Threads -> Messages \cup {NoMsg}]
        /\ cur' \in [Threads -> Nodes \cup {NoNode}]
        /\ \A u \in Threads \ {t} : tpc'[u] = tpc[u] /\ msg'[u] = msg[u] /\ cur'[u] = cur[u]
        /\ tpc'[t] # "recv"
        /\ tpc'[t] = "proc" => cur'[t] \in Nodes
    <3>1. CASE Received(t) /\ UNCHANGED cur
      BY <3>1, ReceivedTypes DEF TypeOK
    <3>2. CASE Goto(t, "loop") /\ cur' = [cur EXCEPT ![t] = NoNode] /\ UNCHANGED msg
      <4>1. tpc' \in [Threads -> ThreadPC] /\ \A u \in Threads : tpc'[u] = IF u = t THEN "loop" ELSE tpc[u]
        BY <3>2, GotoTypes DEF ThreadPC
      <4> QED
        BY <3>2, <4>1 DEF TypeOK
    <3> QED
      BY <2>1, <3>1, <3>2
  <2>5. TypeOK'
    BY <2>1, <2>2, <2>3, <2>4 DEF TypeOK, cfgVars
  <2>6. Shape'
    BY <2>1, <2>4 DEF Shape, cfgVars
  <2> QED
    BY <2>5, <2>6
<1>10. CASE ThreadEnd(t)
  <2>1. tpc' \in [Threads -> ThreadPC] /\ \A u \in Threads : tpc'[u] = IF u = t THEN "dead" ELSE tpc[u]
    BY <1>10, GotoTypes DEF ThreadEnd, ThreadPC
  <2>2. PICK i \in DOMAIN threads :
           threads' = SubSeq(threads, 1, i - 1) \o SubSeq(threads, i + 1, Len(threads))
    BY <1>10 DEF ThreadEnd
  <2>3. i \in 1 .. Len(threads) /\ Len(threads) \in Nat /\ \A j \in 1 .. Len(threads) : threads[j] \in Threads
    BY LenProperties, ElementOfSeq DEF TypeOK
  <2>4. SubSeq(threads, 1, i - 1) \in Seq(Threads)
    BY <2>3, SubSeqProperties
  <2>5. SubSeq(threads, i + 1, Len(threads)) \in Seq(Threads)
    BY <2>3, SubSeqProperties
  <2>6. threads' \in Seq(Threads)
    BY <2>2, <2>4, <2>5, ConcatProperties
  <2>7. TypeOK'
    BY <1>10, <2>1, <2>6 DEF TypeOK, ThreadEnd, runVars, workVars, callVars, nodeVars
  <2>8. Shape'
    BY <1>10, <2>1 DEF Shape, ThreadEnd, callVars
  <2> QED
    BY <2>7, <2>8
<1> QED
  BY <1>1, <1>2, <1>3, <1>4, <1>5, <1>6, <1>7, <1>8, <1>9, <1>10 DEF ThreadStep

LEMMA TypeCfg ==
    ASSUME TypeInv, CfgStep \/ Incremental
    PROVE  TypeInv'
<1> USE DEF TypeInv
<1>0. /\ Cfg \in Procs
      /\ \A n \in Nodes : ThreadOf[n] \in Threads
  BY ConstantsAssumption DEF Procs
<1>1. CASE Instantiate
  <2>1. cnode' \in Nodes /\ made' \subseteq Nodes /\ cpc' \in CfgPC
    <3>1. CASE CfgAt("pick")
      <4>1. PICK n \in Batch \ made : cnode' = n /\ made' = made \cup {n} /\ cpc' = "init"
        BY <1>1, <3>1 DEF Instantiate, CfgAt
      <4>2. n \in Nodes
        BY <4>1, ConstantsAssumption DEF Batch
      <4> QED
        BY <4>1, <4>2 DEF TypeOK, CfgPC
    <3>2. CASE CfgAt("init")
      BY <1>1, <3>2 DEF TypeOK, Shape, Instantiate, CfgAt, CfgPC
    <3> QED
      BY <1>1, <3>1, <3>2 DEF Instantiate
  <2>2. TypeOK'
    BY <1>1, <2>1 DEF TypeOK, Instantiate, others, callVars
  <2>3. Shape'
    BY <1>1, <2>1 DEF Shape, Instantiate, others, callVars
  <2> QED
    BY <2>2, <2>3
<1>2. CASE Increment
  <2>1. cnode \in Nodes
    BY <1>2 DEF Shape, Increment, CfgAt
  <2>2. tmp' \in [Threads \cup {Cfg} -> Int] /\ nbRunning' \in [Threads -> Int] /\ cpc' \in CfgPC
    BY <1>0, <1>2, <2>1 DEF TypeOK, Increment, CfgPC
  <2>2a. clash' \subseteq Threads
    BY <1>0, <1>2, <2>1 DEF TypeOK, Increment, Clash
  <2>3. TypeOK'
    BY <1>2, <2>2, <2>2a DEF TypeOK, Increment, others, callVars
  <2>4. Shape'
    BY <1>2, <2>1 DEF Shape, Increment, others, callVars
  <2> QED
    BY <2>3, <2>4
<1>3. CASE Attach
  <2>1. cnode \in Nodes
    BY <1>3 DEF Shape, Attach, CfgAt
  <2>2. post' \in [Procs -> Threads \cup {NoThread}]
    BY <1>0, <1>3, <2>1 DEF TypeOK, Attach, Owe
  <2>3. nodes' \in [Threads -> SUBSET Nodes]
    <3>1. ThreadOf[cnode] \in Threads
      BY <1>0, <2>1
    <3>2. nodes' = [nodes EXCEPT ![ThreadOf[cnode]] = @ \cup {cnode}] \/ UNCHANGED nodes
      BY <1>3 DEF Attach
    <3>3. nodes \in [Threads -> SUBSET Nodes]
      BY DEF TypeOK
    <3>4. CASE nodes' = [nodes EXCEPT ![ThreadOf[cnode]] = @ \cup {cnode}]
      <4>1. nodes[ThreadOf[cnode]] \cup {cnode} \in SUBSET Nodes
        BY <2>1, <3>1, <3>3
      <4> QED
        BY <3>1, <3>3, <3>4, <4>1
    <3> QED
      BY <3>2, <3>3, <3>4
  <2>4. attached' \in [Nodes -> BOOLEAN]
    BY <1>3, <2>1 DEF TypeOK, Attach, Flagged
  <2>5. cpc' \in CfgPC /\ cnode' \in Nodes \cup {NoNode} /\ (cpc' = "flag" => cnode' \in Nodes)
        /\ cpc' \in {"flag", "pick"}
    BY <1>3, <2>1 DEF Attach, CfgPC
  <2>6. TypeOK'
    BY <1>3, <2>2, <2>3, <2>4, <2>5 DEF TypeOK, Attach, others, callVars
  <2>7. Shape'
    BY <1>3, <2>5 DEF Shape, Attach, others, callVars
  <2> QED
    BY <2>6, <2>7
<1>4. CASE Publish
  <2>1. addr' \subseteq Nodes /\ cpc' \in CfgPC
    BY <1>4, ConstantsAssumption DEF TypeOK, Publish, Batch, CfgPC
  <2>2. TypeOK'
    BY <1>4, <2>1 DEF TypeOK, Publish, others, callVars
  <2>3. Shape'
    BY <1>4 DEF Shape, Publish, others, callVars
  <2> QED
    BY <2>2, <2>3
<1>5. CASE Start
  <2>1. CASE UNCHANGED <<tpc, bRunning, post, cidx>> /\ cpc' \in {"call", "idle"}
    <3>1. TypeOK'
      BY <1>5, <2>1 DEF TypeOK, Start, CfgPC, callVars, nodeVars
    <3>2. Shape'
      BY <1>5, <2>1 DEF Shape, Start, callVars
    <3> QED
      BY <3>1, <3>2
  <2>2. CASE /\ cpc' = "start"
             /\ cidx' = cidx + 1
             /\ UNCHANGED <<tpc, bRunning, post>>
    <3>1. TypeOK'
      BY <1>5, <2>2 DEF TypeOK, Start, CfgPC, callVars, nodeVars
    <3>2. Shape'
      BY <1>5, <2>2 DEF Shape, Start, callVars
    <3> QED
      BY <3>1, <3>2
  <2>3. ASSUME NEW t \in Threads, Goto(t, "loop"), Owe(Cfg, t),
               bRunning' = [bRunning EXCEPT ![t] = TRUE],
               cpc' = "start", cidx' = cidx + 1
        PROVE  TypeInv'
    <3>1. tpc' \in [Threads -> ThreadPC] /\ \A u \in Threads : tpc'[u] = IF u = t THEN "loop" ELSE tpc[u]
      BY <2>3, GotoTypes DEF ThreadPC
    <3>2. post' \in [Procs -> Threads \cup {NoThread}]
      BY <1>0, <2>3, OweTypes
    <3>3. bRunning' \in [Threads -> BOOLEAN]
      BY <2>3 DEF TypeOK
    <3>4. TypeOK'
      BY <1>5, <2>3, <3>1, <3>2, <3>3 DEF TypeOK, Start, CfgPC, callVars, nodeVars
    <3>5. Shape'
      BY <1>5, <2>3, <3>1 DEF Shape, Start, callVars
    <3> QED
      BY <3>4, <3>5
  <2> QED
    BY <1>5, <2>1, <2>2, <2>3 DEF Start
<1>6. CASE Incremental
  <2>1. TypeOK'
    BY <1>6 DEF TypeOK, Incremental, CfgPC, others, callVars
  <2>2. Shape'
    BY <1>6 DEF Shape, Incremental, others, callVars
  <2> QED
    BY <2>1, <2>2
<1> QED
  BY <1>1, <1>2, <1>3, <1>4, <1>5, <1>6 DEF CfgStep

LEMMA TypeNext == TypeInv /\ [Next]_vars => TypeInv'
<1> SUFFICES ASSUME TypeInv, [Next]_vars PROVE TypeInv'
  OBVIOUS
<1>1. CASE UNCHANGED vars
  <2>1. TypeOK'
    BY <1>1 DEF TypeInv, TypeOK, vars, runVars, workVars, callVars, nodeVars, cfgVars
  <2>2. Shape'
    BY <1>1 DEF TypeInv, Shape, vars, callVars, cfgVars
  <2> QED
    BY <2>1, <2>2 DEF TypeInv
<1> QED
  BY <1>1, TypePost, TypeConn, TypeThread, TypeCfg DEF Next

(* Every reachable state of every daemon has its type: no register is read *)
(* before it is set, and the semaphore never goes below zero.              *)
THEOREM TypeCorrect == Spec => []TypeOK
<1>1. Spec => []TypeInv
  BY TypeInit, TypeNext, PTL DEF Spec
<1>2. TypeInv => TypeOK
  BY DEF TypeInv
<1> QED
  BY <1>1, <1>2, PTL

-----------------------------------------------------------------------------
(* No lost wake-up.                                                        *)

(* The wake-up of t is stored in its semaphore or on its way. *)
Signal(t) == sem[t] > 0 \/ \E p \in Procs : post[p] = t

(* A thread that is past the test of nb_nodes(), or asleep, has missed     *)
(* nothing that no wake-up will tell it of.                                *)
WakeInv ==
    /\ \A t \in Threads : tpc[t] = "fifo?" => nodes[t] = {} \/ Signal(t)
    /\ \A t \in Threads : tpc[t] = "wait" => (nodes[t] = {} /\ fifo[t] = <<>>) \/ Signal(t)

LEMMA WakeInit == Init => WakeInv
BY DEF Init, WakeInv

(* Posting once more loses no signal. *)
LEMMA SignalOwed ==
    ASSUME TypeOK, NEW p \in Procs, NEW u \in Threads, post[p] = NoThread, Owe(p, u),
           NEW t \in Threads, sem'[t] = sem[t]
    PROVE  /\ Signal(u)'
           /\ Signal(t) => Signal(t)'
<1>1. post' = [post EXCEPT ![p] = u] /\ post \in [Procs -> Threads \cup {NoThread}]
  BY DEF TypeOK, Owe
<1>2. post'[p] = u /\ \A q \in Procs : post[q] = t => post'[q] = t
  BY <1>1, DistinctAssumption
<1> QED
  BY <1>2 DEF Signal

(* A step of t that leaves it awake and the other threads alone. *)
LEMMA WakeOther ==
    ASSUME TypeOK, WakeInv, NEW t \in Threads,
           tpc'[t] \notin {"fifo?", "wait"},
           \A u \in Threads \ {t} : /\ tpc'[u] = tpc[u] /\ nodes'[u] = nodes[u]
                                    /\ fifo'[u] = fifo[u] /\ sem'[u] = sem[u],
           UNCHANGED post \/ (post[t] = NoThread /\ Owe(t, t))
    PROVE  WakeInv'
<1>1. ASSUME NEW u \in Threads \ {t} PROVE Signal(u) => Signal(u)'
  <2>1. t \in Procs /\ sem'[u] = sem[u]
    BY DEF Procs
  <2>2. CASE UNCHANGED post
    BY <2>1, <2>2 DEF Signal
  <2>3. CASE post[t] = NoThread /\ Owe(t, t)
    BY <2>1, <2>3, SignalOwed
  <2> QED
    BY <2>2, <2>3
<1> QED
  BY <1>1 DEF WakeInv

(* A push, whoever pushes. *)
LEMMA WakePush ==
    ASSUME TypeOK, WakeInv, NEW p \in Procs, NEW m \in Messages,
           post[p] = NoThread, Push(p, m), UNCHANGED <<tpc, nodes, sem>>
    PROVE  WakeInv'
<1> DEFINE u == ThreadOf[m.dst]
<1>1. u \in Threads
  BY ConstantsAssumption DEF Messages
<1>2. Signal(u)' /\ \A t \in Threads : Signal(t) => Signal(t)'
  BY <1>1, SignalOwed DEF Push
<1>3. \A t \in Threads : t # u => fifo'[t] = fifo[t]
  BY <1>1 DEF TypeOK, Push, Enqueue
<1> QED
  BY <1>2, <1>3 DEF WakeInv

LEMMA WakeThread ==
    ASSUME TypeInv, WakeInv, NEW t \in Threads, ThreadStep(t)
    PROVE  WakeInv'
<1>0. TypeOK /\ t \in Procs /\ (tpc \in [Threads -> ThreadPC])
  BY DEF TypeInv, TypeOK, Procs
<1>1. CASE Test(t)
  <2>1. \A u \in Threads : Signal(u) => Signal(u)'
    BY <1>1 DEF Test, Signal, workVars
  <2>2. \A u \in Threads \ {t} : tpc'[u] = tpc[u]
    BY <1>0, <1>1 DEF Test, Goto
  <2>3. tpc'[t] = "fifo?" => nodes'[t] = {}
    BY <1>0, <1>1 DEF Test, Goto, At, workVars
  <2>4. tpc'[t] = "wait" => tpc[t] = "fifo?" /\ fifo'[t] = <<>>
    BY <1>0, <1>1 DEF Test, Goto, At, workVars
  <2>5. UNCHANGED <<nodes, fifo>>
    BY <1>1 DEF Test, workVars
  <2> QED
    BY <2>1, <2>2, <2>3, <2>4, <2>5 DEF WakeInv
<1>2. CASE Wake(t)
  BY <1>0, <1>2, WakeOther DEF Wake, Goto, TypeOK
<1>3. CASE Drain(t)
  BY <1>0, <1>3, WakeOther DEF Drain, Dequeue, Goto, TypeOK
<1>4. CASE Receive(t)
  <2>1. \A u \in Threads \ {t} : tpc'[u] = tpc[u] /\ nodes'[u] = nodes[u]
    BY <1>0, <1>4 DEF Receive, Received, Goto, InitNode, AttachSelf, DetachSelf, listVars, TypeOK
  <2>2. tpc'[t] \in {"decr", "drain", "proc"}
    BY <1>0, <1>4 DEF Receive, Received, Goto
  <2>3. UNCHANGED post \/ (post[t] = NoThread /\ Owe(t, t))
    BY <1>4 DEF Receive, At, InitNode, AttachSelf, DetachSelf, listVars
  <2> QED
    BY <1>0, <1>4, <2>1, <2>2, <2>3, WakeOther DEF Receive
<1>5. CASE Draw(t)
  <2>1. \A u \in Threads \ {t} : tpc'[u] = tpc[u] /\ nodes'[u] = nodes[u]
    BY <1>0, <1>5 DEF Draw, DrawNode, Goto, InitNode, AttachSelf, DetachSelf, listVars, TypeOK
  <2>2. tpc'[t] \in {"loop", "proc"}
    BY <1>0, <1>5 DEF Draw, DrawNode, Goto
  <2>3. UNCHANGED post \/ (post[t] = NoThread /\ Owe(t, t))
    BY <1>5 DEF Draw, DrawNode, At, InitNode, AttachSelf, DetachSelf, listVars
  <2> QED
    BY <1>0, <1>5, <2>1, <2>2, <2>3, WakeOther DEF Draw
<1>6. CASE Send(t)
  <2>1. PICK n \in Outs[cur[t]] \cap addr, k \in Kinds :
          \/ Goto(t, "recv") /\ UNCHANGED <<fifo, post>>
          \/ Push(t, [dst |-> n, kind |-> k]) /\ UNCHANGED tpc
    BY <1>6 DEF Send
  <2>2. CASE Goto(t, "recv") /\ UNCHANGED <<fifo, post>>
    BY <1>0, <1>6, <2>2, WakeOther DEF Send, Goto
  <2>3. CASE Push(t, [dst |-> n, kind |-> k]) /\ UNCHANGED tpc
    <3>1. [dst |-> n, kind |-> k] \in Messages
      BY <1>0 DEF TypeOK, Messages
    <3> QED
      BY <1>0, <1>6, <2>3, <3>1, WakePush DEF Send, At
  <2> QED
    BY <2>1, <2>2, <2>3
<1>7. CASE Return(t)
  BY <1>0, <1>7, WakeOther DEF Return, Goto, workVars
<1>8. CASE Decrement(t)
  BY <1>0, <1>8, WakeOther DEF Decrement, Goto, workVars
<1>9. CASE RemoveNode(t)
  <2>1. \A u \in Threads \ {t} : tpc'[u] = tpc[u] /\ nodes'[u] = nodes[u]
    BY <1>0, <1>9 DEF RemoveNode, Received, Goto, DetachSelf, listVars, TypeOK
  <2>2. tpc'[t] \in {"drain", "proc", "loop"}
    BY <1>0, <1>9 DEF RemoveNode, Received, Goto
  <2>3. UNCHANGED post \/ (post[t] = NoThread /\ Owe(t, t))
    BY <1>9 DEF RemoveNode, At, DetachSelf, listVars
  <2> QED
    BY <1>0, <1>9, <2>1, <2>2, <2>3, WakeOther DEF RemoveNode
<1>10. CASE ThreadEnd(t)
  BY <1>0, <1>10, WakeOther DEF ThreadEnd, Goto, workVars
<1> QED
  BY <1>1, <1>2, <1>3, <1>4, <1>5, <1>6, <1>7, <1>8, <1>9, <1>10 DEF ThreadStep

LEMMA WakeCfg ==
    ASSUME TypeInv, WakeInv, CfgStep \/ Incremental
    PROVE  WakeInv'
<1>0. TypeOK /\ Cfg \in Procs
  BY DEF TypeInv, Procs
<1>1. CASE UNCHANGED <<tpc, sem, post, nodes, fifo>>
  BY <1>1 DEF WakeInv, Signal
<1>2. CASE Attach /\ ~UNCHANGED <<nodes, post>>
  <2>1. PICK u \in Threads : u = ThreadOf[cnode]
    BY <1>2, ConstantsAssumption DEF Attach, CfgAt, TypeInv, Shape
  <2>2. /\ nodes' = [nodes EXCEPT ![u] = @ \cup {cnode}]
        /\ Owe(Cfg, u) /\ post[Cfg] = NoThread
        /\ UNCHANGED <<tpc, sem, fifo>>
    BY <1>2, <2>1 DEF Attach, CfgAt, others
  <2>3. Signal(u)' /\ \A t \in Threads : Signal(t) => Signal(t)'
    BY <1>0, <2>1, <2>2, SignalOwed
  <2>4. \A t \in Threads : t # u => nodes'[t] = nodes[t]
    BY <1>0, <2>1, <2>2 DEF TypeOK
  <2> QED
    BY <2>2, <2>3, <2>4 DEF WakeInv
<1>3. ASSUME NEW t \in Threads, Goto(t, "loop"), Owe(Cfg, t), post[Cfg] = NoThread,
             UNCHANGED <<sem, nodes, fifo>>
      PROVE  WakeInv'
  <2>1. \A u \in Threads : Signal(u) => Signal(u)'
    BY <1>0, <1>3, SignalOwed
  <2>2. \A u \in Threads : tpc'[u] = IF u = t THEN "loop" ELSE tpc[u]
    BY <1>0, <1>3 DEF TypeOK, Goto
  <2> QED
    BY <1>3, <2>1, <2>2 DEF WakeInv
<1> QED
  BY <1>1, <1>2, <1>3
     DEF CfgStep, Instantiate, Increment, Attach, Publish, Start, Incremental, CfgAt, others

LEMMA WakeNext == TypeInv /\ WakeInv /\ [Next]_vars => WakeInv'
<1> SUFFICES ASSUME TypeInv, WakeInv, [Next]_vars PROVE WakeInv'
  OBVIOUS
<1>1. CASE UNCHANGED vars
  BY <1>1 DEF WakeInv, Signal, vars, workVars
<1>2. ASSUME NEW p \in Procs, Post(p) PROVE WakeInv'
  <2>1. post \in [Procs -> Threads \cup {NoThread}] /\ sem \in [Threads -> Nat]
        /\ post[p] \in Threads
    BY <1>2 DEF TypeInv, TypeOK, Post
  <2>2. ASSUME NEW t \in Threads, Signal(t) PROVE Signal(t)'
    <3>1. CASE post[p] = t \/ sem[t] > 0
      BY <1>2, <2>1, <3>1 DEF Post, Signal
    <3>2. CASE \E q \in Procs \ {p} : post[q] = t
      BY <1>2, <2>1, <3>2 DEF Post, Owe, Signal
    <3> QED
      BY <2>2, <3>1, <3>2 DEF Signal
  <2> QED
    BY <1>2, <2>2 DEF WakeInv, Post
<1>3. ASSUME NEW c \in Conns, ConnReceive(c) PROVE WakeInv'
  <2>1. PICK n \in addr, k \in Kinds : Push(c, [dst |-> n, kind |-> k])
    BY <1>3 DEF ConnReceive
  <2>2. [dst |-> n, kind |-> k] \in Messages /\ c \in Procs /\ TypeOK
    BY DEF TypeInv, TypeOK, Messages, Procs
  <2> QED
    BY <1>3, <2>1, <2>2, WakePush DEF ConnReceive
<1> QED
  BY <1>1, <1>2, <1>3, WakeThread, WakeCfg DEF Next

(* No thread of any daemon sleeps through work: the order of push, insert  *)
(* and sem_post in push_message, attach, detach and start is right against *)
(* the unlocked tests of Thread::run.                                      *)
THEOREM WakeUps == Spec => []NoLostWakeup
<1>1. Init => TypeInv /\ WakeInv
  BY TypeInit, WakeInit
<1>2. TypeInv /\ WakeInv /\ [Next]_vars => (TypeInv /\ WakeInv)'
  BY TypeNext, WakeNext
<1>3. TypeInv /\ WakeInv => NoLostWakeup
  BY DEF WakeInv, Signal, NoLostWakeup
<1> QED
  BY <1>1, <1>2, <1>3, PTL DEF Spec

-----------------------------------------------------------------------------
(* The nodes: the list of the scheduler and the flags agree, no node is    *)
(* called twice at a time, and no thread leaves a node behind.             *)

(* The nodes of which only the thread that reads the model knows: not yet  *)
(* made, or in the hands of instantiate_node.                              *)
Building == cpc \in {"init", "incr", "store", "attach", "flag"}
Raw(n) == n \notin made \/ (Building /\ cnode = n)

(* The messages a thread holds are for its own, addressable nodes.         *)
ForHome(m, t) == m.dst \in addr /\ ThreadOf[m.dst] = t

Homes ==
    /\ \A t \in Threads : \A i \in 1 .. Len(fifo[t]) : ForHome(fifo[t][i], t)
    /\ \A t \in Threads : msg[t] # NoMsg => ForHome(msg[t], t)
    /\ \A t \in Threads : cur[t] # NoNode => ThreadOf[cur[t]] = t
    /\ \A t \in Threads : \A n \in nodes[t] : ThreadOf[n] = t

(* A raw node is out of everyone's reach, but for the window of attach.    *)
Unborn(n) ==
    /\ ~attached[n] /\ ~hasData[n] /\ n \notin addr
    /\ \A t \in Threads : cur[t] # n
    /\ n \in nodes[ThreadOf[n]] <=> cpc = "flag" /\ cnode = n

Births ==
    /\ Building => cnode \in made
    /\ \A n \in Nodes : Raw(n) => Unborn(n)
    /\ \A n \in Nodes : ~Raw(n) => (attached[n] <=> n \in nodes[ThreadOf[n]])

(* What a thread that has no node or no message in its hands is doing; a   *)
(* node called in the process() of another is one of its neighbours; only  *)
(* a node that is being called finishes.                                   *)
Call(t) ==
    /\ tpc[t] \notin {"recv", "proc", "decr", "store", "remove"} => cur[t] = NoNode
    /\ tpc[t] \notin {"recv", "decr", "store", "remove"} => msg[t] = NoMsg
    /\ msg[t] # NoMsg /\ cur[t] # NoNode => msg[t].dst \in Outs[cur[t]]
    /\ tpc[t] \in {"decr", "store", "remove"} => msg[t] # NoMsg \/ cur[t] # NoNode

Calls == \A t \in Threads : Call(t)

NodeInv == Homes /\ Births /\ Calls

(* The nodes of t that nb_running_nodes counts: Thread::add has stored     *)
(* them, Thread::remove has not.                                           *)
Running(t) ==
    {n \in made :
        /\ ThreadOf[n] = t
        /\ ~(cpc \in {"init", "incr", "store"} /\ cnode = n)
        /\ ~finished[n] \/ (tpc[t] \in {"decr", "store"} /\ Finishing(t) = n)}

Finished(t) ==
    \A n \in made :
        ThreadOf[n] = t /\ ~(cpc \in {"init", "incr", "store"} /\ cnode = n) => finished[n]

Count(t) ==
    /\ nbRunning[t] = Cardinality(Running(t))
    /\ tpc[t] = "store" => tmp[t] = nbRunning[t]
    /\ cpc = "store" /\ ThreadOf[cnode] = t => tmp[Cfg] = nbRunning[t] /\ tpc[t] # "store"
    /\ tpc[t] # "none" /\ ~bRunning[t] => Finished(t)

(* A thread that is finishing a node has the node in its hands. *)
Ending(t) ==
    /\ tpc[t] \in {"decr", "store", "remove"} =>
          Finishing(t) \in Nodes /\ finished[Finishing(t)]
    /\ Ended(t) => ~bRunning[t]

Counting ==
    /\ IsFiniteSet(made)
    /\ \A n \in Nodes : Raw(n) => ~finished[n]
    /\ \A t \in Threads : Ending(t)
    /\ \A t \in Threads : t \notin clash => Count(t)

-----------------------------------------------------------------------------
(* The nodes: where they are, and who may reach them.                      *)

LEMMA NodeInit == Init => NodeInv
<1> SUFFICES ASSUME Init PROVE NodeInv
  OBVIOUS
<1>1. \A t \in Threads : fifo[t] = <<>> /\ nodes[t] = {} /\ cur[t] = NoNode /\ msg[t] = NoMsg
  BY DEF Init
<1>2. Homes
  BY <1>1, EmptySeq DEF Homes
<1>3. \A n \in Nodes : Raw(n) /\ Unborn(n)
  BY <1>1, ConstantsAssumption, DistinctAssumption DEF Init, Raw, Unborn
<1>4. Births
  BY <1>3 DEF Init, Births, Building
<1>5. Calls
  BY <1>1 DEF Init, Calls, Call
<1> QED
  BY <1>2, <1>4, <1>5 DEF NodeInv

(* The list of a thread after one of its own changes to it.                *)
ListKept ==
    /\ \A t \in Threads : \A n \in nodes'[t] : ThreadOf[n] = t
    /\ \A n \in Nodes : Raw(n) =>
          /\ attached'[n] = attached[n]
          /\ n \in nodes'[ThreadOf[n]] <=> n \in nodes[ThreadOf[n]]
    /\ \A n \in Nodes : ~Raw(n) => (attached'[n] <=> n \in nodes'[ThreadOf[n]])

LEMMA ListStays ==
    ASSUME Homes, Births, UNCHANGED <<nodes, attached>>
    PROVE  ListKept
BY DEF Homes, Births, ListKept

LEMMA ListChanges ==
    ASSUME TypeOK, Homes, Births, NEW t \in Threads, NEW n \in Nodes, ThreadOf[n] = t,
           NEW d \in BOOLEAN, d => ~Raw(n),
           InitNode(t, n, d) \/ DetachSelf(t, n) \/ UNCHANGED listVars
    PROVE  ListKept
<1>0. /\ nodes \in [Threads -> SUBSET Nodes] /\ attached \in [Nodes -> BOOLEAN]
      /\ \A m \in Nodes : ThreadOf[m] \in Threads
  BY ConstantsAssumption DEF TypeOK
<1>1. CASE UNCHANGED listVars
  BY <1>1, ListStays DEF listVars
<1>2. CASE AttachSelf(t, n) /\ d /\ ~attached[n]
  <2>1. nodes' = [nodes EXCEPT ![t] = @ \cup {n}] /\ attached' = [attached EXCEPT ![n] = TRUE]
    BY <1>2 DEF AttachSelf
  <2>2. \A u \in Threads : nodes'[u] = IF u = t THEN nodes[t] \cup {n} ELSE nodes[u]
    BY <1>0, <2>1
  <2>3. \A m \in Nodes : attached'[m] = IF m = n THEN TRUE ELSE attached[m]
    BY <1>0, <2>1
  <2>5. \A u \in Threads : \A m \in nodes'[u] : ThreadOf[m] = u
    BY <2>2 DEF Homes
  <2>6. \A m \in Nodes : m \in nodes'[ThreadOf[m]] <=> m = n \/ m \in nodes[ThreadOf[m]]
    BY <1>0, <2>2
  <2> QED
    BY <1>2, <2>3, <2>5, <2>6 DEF Births, ListKept
<1>3. CASE DetachSelf(t, n) /\ attached[n]
  <2>1. nodes' = [nodes EXCEPT ![t] = @ \ {n}] /\ attached' = [attached EXCEPT ![n] = FALSE]
    BY <1>3 DEF DetachSelf, FlagReset
  <2>2. \A u \in Threads : nodes'[u] = IF u = t THEN nodes[t] \ {n} ELSE nodes[u]
    BY <1>0, <2>1
  <2>3. \A m \in Nodes : attached'[m] = IF m = n THEN FALSE ELSE attached[m]
    BY <1>0, <2>1
  <2>4. ~Raw(n)
    BY <1>3 DEF Births, Unborn
  <2>5. \A u \in Threads : \A m \in nodes'[u] : ThreadOf[m] = u
    BY <2>2 DEF Homes
  <2>6. \A m \in Nodes : m \in nodes'[ThreadOf[m]] <=> m # n /\ m \in nodes[ThreadOf[m]]
    BY <1>0, <2>2
  <2> QED
    BY <1>3, <2>4, <2>3, <2>5, <2>6 DEF Births, ListKept
<1> QED
  BY <1>1, <1>2, <1>3 DEF InitNode, AttachSelf, DetachSelf

(* Steps that leave the making of nodes alone. *)
LEMMA BirthsKept ==
    ASSUME TypeOK, Births, ListKept, UNCHANGED <<made, addr, cpc, cnode>>,
           \A n \in Nodes : hasData'[n] => hasData[n] \/ n \in addr,
           \A t \in Threads : \/ cur'[t] \in {cur[t], NoNode}
                              \/ cur'[t] \in Nodes /\ attached'[cur'[t]]
    PROVE  Births'
<1>1. \A n : Raw(n)' <=> Raw(n)
  BY DEF Raw, Building
<1>2. ASSUME NEW n \in Nodes, Raw(n) PROVE Unborn(n)'
  <2>1. Unborn(n)
    BY <1>2 DEF Births
  <2>2. ~attached'[n] /\ (n \in nodes'[ThreadOf[n]] <=> cpc = "flag" /\ cnode = n)
    BY <1>2, <2>1 DEF ListKept, Unborn
  <2>3. \A t \in Threads : cur'[t] # n
    BY <2>1, <2>2, DistinctAssumption DEF Unborn
  <2> QED
    BY <2>1, <2>2, <2>3 DEF Unborn
<1>3. (Building => cnode \in made)'
  BY DEF Births, Building
<1> QED
  BY <1>1, <1>2, <1>3 DEF Births, ListKept

(* Steps of one thread, or of a process that fills a queue. *)
LEMMA NodeStep ==
    ASSUME TypeOK, NodeInv, NEW t \in Threads,
           ListKept, UNCHANGED <<made, addr, cpc, cnode>>,
           \A n \in Nodes : hasData'[n] => hasData[n] \/ n \in addr,
           \A u \in Threads : \A i \in 1 .. Len(fifo'[u]) : ForHome(fifo'[u][i], u),
           \A u \in Threads \ {t} : tpc'[u] = tpc[u] /\ cur'[u] = cur[u] /\ msg'[u] = msg[u],
           msg'[t] \in {msg[t], NoMsg} \/ ForHome(msg'[t], t),
           \/ cur'[t] \in {cur[t], NoNode}
           \/ cur'[t] \in Nodes /\ ThreadOf[cur'[t]] = t /\ attached'[cur'[t]],
           Call(t)'
    PROVE  NodeInv'
<1>1. \A m, u : ForHome(m, u)' <=> ForHome(m, u)
  BY DEF ForHome
<1>2. Homes'
  BY <1>1 DEF NodeInv, Homes, ListKept
<1>3. \A u \in Threads : \/ cur'[u] \in {cur[u], NoNode}
                         \/ cur'[u] \in Nodes /\ attached'[cur'[u]]
  OBVIOUS
<1>4. Births'
  BY <1>3, BirthsKept DEF NodeInv
<1>5. \A u \in Threads \ {t} : Call(u)'
  BY DEF NodeInv, Calls, Call
<1> QED
  BY <1>2, <1>4, <1>5 DEF NodeInv, Calls

LEMMA PushHome ==
    ASSUME TypeOK, Homes, NEW m \in Messages, m.dst \in addr, Enqueue(m)
    PROVE  \A u \in Threads : \A i \in 1 .. Len(fifo'[u]) : ForHome(fifo'[u][i], u)
<1> DEFINE h == ThreadOf[m.dst]
<1>1. h \in Threads /\ fifo[h] \in Seq(Messages)
  BY ConstantsAssumption DEF TypeOK, Messages
<1>2. \A u \in Threads : fifo'[u] = IF u = h THEN Append(fifo[h], m) ELSE fifo[u]
  BY <1>1 DEF TypeOK, Enqueue
<1>3. ForHome(m, h)
  BY DEF ForHome
<1> HIDE DEF h
<1>4. /\ Len(Append(fifo[h], m)) = Len(fifo[h]) + 1 /\ Len(fifo[h]) \in Nat
      /\ \A i \in 1 .. Len(fifo[h]) : Append(fifo[h], m)[i] = fifo[h][i]
      /\ Append(fifo[h], m)[Len(fifo[h]) + 1] = m
  BY <1>1, AppendProperties, LenProperties
<1>5. \A i \in 1 .. Len(Append(fifo[h], m)) : i \in 1 .. Len(fifo[h]) \/ i = Len(fifo[h]) + 1
  BY <1>4
<1>6. \A i \in 1 .. Len(Append(fifo[h], m)) : ForHome(Append(fifo[h], m)[i], h)
  BY <1>1, <1>3, <1>4, <1>5 DEF Homes
<1> QED
  BY <1>2, <1>6 DEF Homes

LEMMA NodeThread ==
    ASSUME TypeInv, NodeInv, NEW t \in Threads, ThreadStep(t)
    PROVE  NodeInv'
<1>0. /\ TypeOK /\ tpc \in [Threads -> ThreadPC]
      /\ cur \in [Threads -> Nodes \cup {NoNode}] /\ msg \in [Threads -> Messages \cup {NoMsg}]
      /\ fifo \in [Threads -> Seq(Messages)] /\ hasData \in [Nodes -> BOOLEAN]
  BY DEF TypeInv, TypeOK
<1>1. /\ Homes /\ Births /\ Call(t)
      /\ \A u \in Threads : \A i \in 1 .. Len(fifo[u]) : ForHome(fifo[u][i], u)
      /\ \A n \in addr : n \in Nodes => ~Raw(n)
  BY DEF NodeInv, Homes, Calls, Births, Unborn
<1>2. CASE Test(t)
  <2>1. PICK pc \in {"loop", "fifo?", "wait", "drain", "end"} :
           tpc' = [tpc EXCEPT ![t] = pc] /\ tpc[t] \in {"loop", "fifo?"}
    BY <1>2 DEF Test, At, Goto
  <2>2. ListKept
    BY <1>1, <1>2, ListStays DEF Test, workVars, nodeVars
  <2>3. Call(t)'
    BY <1>0, <1>1, <1>2, <2>1 DEF Call, Test, callVars
  <2>4. \A u \in Threads \ {t} : tpc'[u] = tpc[u]
    BY <1>0, <2>1
  <2> QED
    BY <1>0, <1>1, <1>2, <2>2, <2>3, <2>4, NodeStep DEF Test, workVars, callVars, nodeVars, cfgVars
<1>3. CASE Wake(t)
  <2>1. ListKept
    BY <1>1, <1>3, ListStays DEF Wake, nodeVars
  <2>2. Call(t)' /\ \A u \in Threads \ {t} : tpc'[u] = tpc[u]
    BY <1>0, <1>1, <1>3 DEF Call, Wake, At, Goto, callVars
  <2> QED
    BY <1>0, <1>1, <1>3, <2>1, <2>2, NodeStep DEF Wake, callVars, nodeVars, cfgVars
<1>4. CASE Drain(t)
  <2>1. ListKept
    BY <1>1, <1>4, ListStays DEF Drain, nodeVars
  <2>2. CASE fifo[t] # <<>>
    <3>1. /\ msg' = [msg EXCEPT ![t] = Head(fifo[t])] /\ fifo' = [fifo EXCEPT ![t] = Tail(@)]
          /\ tpc' = [tpc EXCEPT ![t] = "recv"] /\ tpc[t] = "drain"
      BY <1>4, <2>2 DEF Drain, Dequeue, Goto, At
    <3>2. /\ Len(fifo[t]) \in Nat \ {0} /\ Head(fifo[t]) = fifo[t][1]
          /\ Len(Tail(fifo[t])) = Len(fifo[t]) - 1
          /\ \A i \in 1 .. Len(Tail(fifo[t])) : Tail(fifo[t])[i] = fifo[t][i + 1]
      BY <1>0, <2>2, EmptySeq, HeadTailProperties
    <3>3. ForHome(msg'[t], t)
      BY <1>0, <1>1, <3>1, <3>2
    <3>4. \A i \in 1 .. Len(Tail(fifo[t])) : ForHome(Tail(fifo[t])[i], t)
      BY <1>1, <3>2
    <3>5. \A u \in Threads : \A i \in 1 .. Len(fifo'[u]) : ForHome(fifo'[u][i], u)
      BY <1>0, <1>1, <3>1, <3>4
    <3>6. /\ Call(t)'
          /\ \A u \in Threads \ {t} : tpc'[u] = tpc[u] /\ msg'[u] = msg[u]
      BY <1>0, <1>1, <1>4, <3>1 DEF Call, Drain
    <3> QED
      BY <1>0, <1>1, <1>4, <2>1, <3>3, <3>5, <3>6, NodeStep DEF Drain, nodeVars, cfgVars
  <2>3. CASE fifo[t] = <<>>
    <3>1. Call(t)' /\ \A u \in Threads \ {t} : tpc'[u] = tpc[u]
      BY <1>0, <1>1, <1>4, <2>3 DEF Call, Drain, At, Goto
    <3> QED
      BY <1>0, <1>1, <1>4, <2>1, <2>3, <3>1, NodeStep DEF Drain, nodeVars, cfgVars
  <2> QED
    BY <2>2, <2>3
<1>5. CASE Receive(t)
  <2> DEFINE n == msg[t].dst
             training == n \in Workers /\ msg[t].kind = "work"
             finishes == n \in Workers /\ msg[t].kind = "finish"
  <2>1. n \in Nodes /\ msg[t] # NoMsg /\ ForHome(msg[t], t)
    BY <1>1, <1>5, DistinctAssumption DEF TypeInv, Shape, Receive, At, Messages, Homes
  <2>2. /\ hasData' = [hasData EXCEPT ![n] = @ \/ training]
        /\ InitNode(t, n, hasData[n] \/ training) \/ UNCHANGED listVars
        /\ (Goto(t, "decr") /\ UNCHANGED msg) \/ Received(t)
        /\ UNCHANGED <<fifo, cur, cfgVars>>
    BY <1>5 DEF Receive
  <2> HIDE DEF training, finishes
  <2>3. ThreadOf[n] = t /\ n \in addr /\ ~Raw(n)
    BY <1>1, <2>1 DEF ForHome
  <2> HIDE DEF n
  <2>4. ListKept
    BY <1>0, <1>1, <2>1, <2>2, <2>3, ListChanges
  <2>5. \A m \in Nodes : hasData'[m] => hasData[m] \/ m \in addr
    BY <1>0, <2>2, <2>3
  <2>6. CASE Goto(t, "decr") /\ UNCHANGED msg
    <3>1. Call(t)' /\ \A u \in Threads \ {t} : tpc'[u] = tpc[u]
      BY <1>0, <1>1, <2>1, <2>2, <2>6 DEF Call, Goto
    <3> QED
      BY <1>0, <1>1, <2>2, <2>4, <2>5, <2>6, <3>1, NodeStep DEF cfgVars
  <2>7. CASE Received(t)
    <3>1. /\ msg' = [msg EXCEPT ![t] = NoMsg]
          /\ tpc' = [tpc EXCEPT ![t] = IF cur[t] = NoNode THEN "drain" ELSE "proc"]
      BY <2>7 DEF Received, Goto
    <3>2. Call(t)' /\ \A u \in Threads \ {t} : tpc'[u] = tpc[u] /\ msg'[u] = msg[u]
      BY <1>0, <1>1, <2>2, <3>1 DEF Call
    <3>3. msg'[t] = NoMsg
      BY <1>0, <3>1
    <3> QED
      BY <1>0, <1>1, <2>2, <2>4, <2>5, <3>2, <3>3, NodeStep DEF cfgVars
  <2> QED
    BY <2>2, <2>6, <2>7
<1>6. CASE Draw(t)
  <2>1. CASE \E n \in nodes[t] : DrawNode(t, n)
    <3>1. PICK n \in nodes[t] : DrawNode(t, n)
      BY <2>1
    <3>2. n \in Nodes /\ ThreadOf[n] = t
      BY <1>1, <3>1 DEF TypeInv, TypeOK, Homes
    <3>3. ListKept
      <4>1. InitNode(t, n, hasData[n]) \/ UNCHANGED listVars
        BY <3>1 DEF DrawNode
      <4>2. hasData[n] \in BOOLEAN /\ (hasData[n] => ~Raw(n))
        BY <1>0, <1>1, <3>2 DEF Births, Unborn
      <4> QED
        BY <1>0, <1>1, <3>2, <4>1, <4>2, ListChanges
    <3>4. \/ attached'[n] /\ Goto(t, "proc") /\ cur' = [cur EXCEPT ![t] = n]
          \/ Goto(t, "loop") /\ UNCHANGED cur
      BY <3>1 DEF DrawNode, StillAttached
    <3>5. \A u \in Threads \ {t} : tpc'[u] = tpc[u] /\ cur'[u] = cur[u]
      BY <1>0, <3>4 DEF Goto
    <3>6. /\ cur'[t] = cur[t] \/ (cur'[t] = n /\ attached'[n])
          /\ Call(t)'
      BY <1>0, <1>1, <1>6, <3>4 DEF Draw, At, Goto, Call
    <3> QED
      BY <1>0, <1>1, <1>6, <3>2, <3>3, <3>5, <3>6, NodeStep DEF Draw, cfgVars
  <2>2. CASE Goto(t, "loop") /\ UNCHANGED <<listVars, inited, cur>>
    <3>1. ListKept
      BY <1>1, <2>2, ListStays DEF listVars
    <3>2. Call(t)' /\ \A u \in Threads \ {t} : tpc'[u] = tpc[u]
      BY <1>0, <1>1, <1>6, <2>2 DEF Call, Draw, At, Goto
    <3> QED
      BY <1>0, <1>1, <1>6, <2>2, <3>1, <3>2, NodeStep DEF Draw, cfgVars
  <2> QED
    BY <1>6, <2>1, <2>2 DEF Draw
<1>7. CASE Send(t)
  <2>1. PICK n \in Outs[cur[t]] \cap addr, k \in Kinds :
          IF SameThread(t, n)
          THEN /\ budget > 0
               /\ budget' = budget - 1
               /\ msg' = [msg EXCEPT ![t] = [dst |-> n, kind |-> k]]
               /\ Goto(t, "recv")
               /\ UNCHANGED <<fifo, post>>
          ELSE Push(t, [dst |-> n, kind |-> k]) /\ UNCHANGED <<msg, tpc>>
    BY <1>7 DEF Send
  <2>2. ListKept
    BY <1>1, <1>7, ListStays DEF Send, nodeVars
  <2>3. CASE SameThread(t, n)
    <3>1. msg' = [msg EXCEPT ![t] = [dst |-> n, kind |-> k]] /\ Goto(t, "recv")
      BY <2>1, <2>3
    <3>2. msg'[t] = [dst |-> n, kind |-> k] /\ \A u \in Threads \ {t} : msg'[u] = msg[u]
      BY <1>0, <3>1
    <3>3. tpc'[t] = "recv" /\ \A u \in Threads \ {t} : tpc'[u] = tpc[u]
      BY <1>0, <3>1 DEF Goto
    <3>4. ForHome(msg'[t], t)
      BY <2>3, <3>2 DEF ForHome, SameThread
    <3>5. Call(t)'
      BY <1>7, <2>1, <3>2, <3>3 DEF Call, Send
    <3> QED
      BY <1>0, <1>1, <1>7, <2>1, <2>2, <2>3, <3>2, <3>3, <3>4, <3>5, NodeStep DEF Send, nodeVars, cfgVars
  <2>4. CASE ~SameThread(t, n)
    <3>1. [dst |-> n, kind |-> k] \in Messages
      BY <1>0 DEF TypeOK, Messages
    <3>2. Push(t, [dst |-> n, kind |-> k]) /\ UNCHANGED <<msg, tpc>>
      BY <2>1, <2>4
    <3>3. \A u \in Threads : \A i \in 1 .. Len(fifo'[u]) : ForHome(fifo'[u][i], u)
      BY <1>0, <1>1, <3>1, <3>2, PushHome DEF Push
    <3>4. Call(t)'
      BY <1>1, <1>7, <3>2 DEF Call, Send
    <3> QED
      BY <1>0, <1>1, <1>7, <2>2, <3>2, <3>3, <3>4, NodeStep DEF Send, nodeVars, cfgVars
  <2> QED
    BY <2>3, <2>4
<1>8. CASE Return(t)
  <2>1. ListKept
    BY <1>1, <1>8, ListStays DEF Return, workVars
  <2>2. cur[t] # NoNode
    BY <1>8, DistinctAssumption DEF TypeInv, Shape, Return, At
  <2>3. /\ Call(t)' /\ cur'[t] \in {cur[t], NoNode}
        /\ \A u \in Threads \ {t} : tpc'[u] = tpc[u] /\ cur'[u] = cur[u]
    BY <1>0, <1>1, <1>8, <2>2 DEF Call, Return, At, Goto
  <2> QED
    BY <1>0, <1>1, <1>8, <2>1, <2>3, NodeStep DEF Return, workVars, cfgVars
<1>9. CASE Decrement(t)
  <2>1. ListKept
    BY <1>1, <1>9, ListStays DEF Decrement, workVars, nodeVars
  <2>2. Call(t)' /\ \A u \in Threads \ {t} : tpc'[u] = tpc[u]
    BY <1>0, <1>1, <1>9 DEF Call, Decrement, At, Goto, callVars
  <2> QED
    BY <1>0, <1>1, <1>9, <2>1, <2>2, NodeStep DEF Decrement, workVars, callVars, nodeVars, cfgVars
<1>10. CASE RemoveNode(t)
  <2>1. ThreadOf[Finishing(t)] = t /\ Finishing(t) \in Nodes
    <3>1. msg[t] # NoMsg \/ cur[t] # NoNode
      BY <1>1, <1>10 DEF Call, RemoveNode, At
    <3>2. CASE msg[t] # NoMsg
      BY <1>0, <1>1, <3>2 DEF Finishing, Homes, ForHome, Messages
    <3>3. CASE msg[t] = NoMsg
      BY <1>0, <1>1, <3>1, <3>3 DEF Finishing, Homes
    <3> QED
      BY <3>2, <3>3
  <2>2. ListKept
    BY <1>0, <1>1, <1>10, <2>1, ListChanges DEF RemoveNode
  <2>3. /\ Call(t)' /\ cur'[t] \in {cur[t], NoNode} /\ msg'[t] \in {msg[t], NoMsg}
        /\ \A u \in Threads \ {t} : tpc'[u] = tpc[u] /\ cur'[u] = cur[u] /\ msg'[u] = msg[u]
    BY <1>0, <1>1, <1>10 DEF Call, RemoveNode, Received, At, Goto
  <2> QED
    BY <1>0, <1>1, <1>10, <2>2, <2>3, NodeStep DEF RemoveNode, cfgVars
<1>11. CASE ThreadEnd(t)
  <2>1. ListKept
    BY <1>1, <1>11, ListStays DEF ThreadEnd, workVars, nodeVars
  <2>2. Call(t)' /\ \A u \in Threads \ {t} : tpc'[u] = tpc[u]
    BY <1>0, <1>1, <1>11 DEF Call, ThreadEnd, At, Goto, callVars
  <2> QED
    BY <1>0, <1>1, <1>11, <2>1, <2>2, NodeStep DEF ThreadEnd, workVars, callVars, nodeVars
<1> QED
  BY <1>2, <1>3, <1>4, <1>5, <1>6, <1>7, <1>8, <1>9, <1>10, <1>11 DEF ThreadStep

LEMMA NodeCfg ==
    ASSUME TypeInv, NodeInv, CfgStep \/ Incremental
    PROVE  NodeInv'
<1>0. /\ TypeOK /\ Homes /\ Births /\ Calls
      /\ nodes \in [Threads -> SUBSET Nodes] /\ attached \in [Nodes -> BOOLEAN]
      /\ \A n \in Nodes : ThreadOf[n] \in Threads
      /\ Building => cnode \in Nodes
  BY ConstantsAssumption DEF TypeInv, TypeOK, NodeInv, Shape, Building
<1>1. CASE UNCHANGED <<fifo, msg, cur, nodes, addr, attached, hasData, tpc>> /\ (Instantiate \/ Increment)
  <2>1. Homes' /\ Calls'
    BY <1>0, <1>1 DEF Homes, ForHome, Calls, Call
  <2>2. ~Building => Instantiate /\ made' = made \cup {cnode'} /\ cnode' \notin made
    BY <1>1 DEF Instantiate, Increment, CfgAt, Building
  <2>3. Building => UNCHANGED <<made, cnode>>
    BY <1>1 DEF Instantiate, Increment, CfgAt, Building
  <2>4. Building' /\ cpc # "flag" /\ cpc' # "flag"
    BY <1>1 DEF Instantiate, Increment, CfgAt, Building
  <2>5. \A n : Raw(n)' <=> Raw(n)
    BY <2>2, <2>3, <2>4 DEF Raw
  <2>6. \A n : Unborn(n)' <=> Unborn(n)
    BY <1>1, <2>4 DEF Unborn
  <2>7. (Building => cnode \in made)'
    BY <1>0, <2>2, <2>3 DEF Births
  <2>8. Births'
    BY <1>0, <1>1, <2>5, <2>6, <2>7 DEF Births
  <2> QED
    BY <2>1, <2>8 DEF NodeInv
<1>2. CASE Attach /\ cpc = "attach"
  <2>1. /\ nodes' = [nodes EXCEPT ![ThreadOf[cnode]] = @ \cup {cnode}]
        /\ cpc' = "flag"
        /\ UNCHANGED <<fifo, msg, cur, addr, attached, hasData, tpc, made, cnode>>
    BY <1>2 DEF Attach, CfgAt, others, callVars
  <2>2. cnode \in Nodes /\ Raw(cnode) /\ Unborn(cnode)
    BY <1>0, <1>2 DEF Births, Building, Raw
  <2>3. \A u \in Threads : nodes'[u] = IF u = ThreadOf[cnode] THEN nodes[u] \cup {cnode} ELSE nodes[u]
    BY <1>0, <2>1
  <2>4. Homes' /\ Calls'
    BY <1>0, <2>1, <2>3 DEF Homes, ForHome, Calls, Call
  <2>5. \A n : Raw(n)' <=> Raw(n)
    BY <1>2, <2>1 DEF Raw, Building
  <2>6. \A n \in Nodes : n \in nodes'[ThreadOf[n]] <=> n = cnode \/ n \in nodes[ThreadOf[n]]
    BY <1>0, <2>3
  <2>7. \A n \in Nodes : Unborn(n) => Unborn(n)'
    BY <1>2, <2>1, <2>6 DEF Unborn
  <2>8. \A n \in Nodes : ~Raw(n) => n # cnode
    BY <2>2
  <2>9. Births'
    BY <1>0, <1>2, <2>1, <2>5, <2>6, <2>7, <2>8 DEF Births, Building
  <2> QED
    BY <2>4, <2>9 DEF NodeInv
<1>3. CASE Attach /\ cpc = "flag"
  <2>1. /\ attached' = [attached EXCEPT ![cnode] = TRUE]
        /\ cpc' = "pick"
        /\ UNCHANGED <<fifo, msg, cur, addr, nodes, hasData, tpc, made>>
    BY <1>3 DEF Attach, CfgAt, Flagged, others, callVars
  <2>2. cnode \in Nodes /\ cnode \in made /\ Raw(cnode) /\ cnode \in nodes[ThreadOf[cnode]]
    BY <1>0, <1>3 DEF Births, Building, Raw, Unborn
  <2>3. \A n \in Nodes : attached'[n] = IF n = cnode THEN TRUE ELSE attached[n]
    BY <1>0, <2>1
  <2>4. Homes' /\ Calls'
    BY <1>0, <2>1 DEF Homes, ForHome, Calls, Call
  <2>5. \A n \in Nodes : Raw(n)' <=> Raw(n) /\ n # cnode
    BY <1>3, <2>1, <2>2 DEF Raw, Building
  <2>6. \A n \in Nodes : n # cnode /\ Unborn(n) => Unborn(n)'
    BY <1>3, <2>1, <2>3 DEF Unborn
  <2>7. Births'
    BY <1>0, <2>1, <2>2, <2>3, <2>5, <2>6 DEF Births, Building
  <2> QED
    BY <2>4, <2>7 DEF NodeInv
<1>4. CASE Publish
  <2>1. /\ addr' = addr \cup Batch /\ Batch \subseteq made /\ ~Building /\ ~Building'
        /\ cpc # "flag" /\ cpc' # "flag"
        /\ UNCHANGED <<fifo, msg, cur, nodes, attached, hasData, tpc, made>>
    BY <1>4 DEF Publish, CfgAt, Building, others, callVars
  <2>2. \A m, t : ForHome(m, t) => ForHome(m, t)'
    BY <2>1 DEF ForHome
  <2>3. Homes' /\ Calls'
    BY <1>0, <2>1, <2>2 DEF Homes, Calls, Call
  <2>4. \A n \in Nodes : Raw(n)' <=> Raw(n)
    BY <2>1 DEF Raw
  <2>5. \A n \in Nodes : Raw(n) /\ Unborn(n) => Unborn(n)'
    BY <2>1 DEF Raw, Unborn
  <2>6. Births'
    BY <1>0, <2>1, <2>4, <2>5 DEF Births
  <2> QED
    BY <2>3, <2>6 DEF NodeInv
<1>5. CASE Start \/ Incremental
  <2>1. /\ ~Building /\ ~Building' /\ cpc # "flag" /\ cpc' # "flag"
        /\ UNCHANGED <<fifo, msg, cur, nodes, addr, attached, hasData, made>>
    BY <1>5 DEF Start, Incremental, CfgAt, Building, others, callVars, nodeVars
  <2>2. \A t \in Threads : tpc'[t] = tpc[t] \/ (tpc[t] = "none" /\ tpc'[t] = "loop")
    BY <1>0, <1>5 DEF Start, Incremental, Goto, others, TypeOK
  <2>3. Calls'
    BY <1>0, <2>1, <2>2 DEF Calls, Call
  <2>4. Homes'
    BY <1>0, <2>1 DEF Homes, ForHome
  <2>5. \A n : (Raw(n)' <=> Raw(n)) /\ (Unborn(n)' <=> Unborn(n))
    BY <2>1 DEF Raw, Unborn
  <2>6. Births'
    BY <1>0, <2>1, <2>5 DEF Births
  <2> QED
    BY <2>3, <2>4, <2>6 DEF NodeInv
<1> QED
  BY <1>1, <1>2, <1>3, <1>4, <1>5 
     DEF CfgStep, Instantiate, Increment, Attach, CfgAt, others, callVars

LEMMA NodeNext == TypeInv /\ NodeInv /\ [Next]_vars => NodeInv'
<1> SUFFICES ASSUME TypeInv, NodeInv, [Next]_vars PROVE NodeInv'
  OBVIOUS
<1>0. TypeOK /\ Homes /\ Births /\ Calls
  BY DEF TypeInv, NodeInv
<1>1. ASSUME UNCHANGED <<msg, cur, nodes, addr, attached, hasData, tpc, made, cpc, cnode>>,
             \A u \in Threads : \A i \in 1 .. Len(fifo'[u]) : ForHome(fifo'[u][i], u)
      PROVE  NodeInv'
  <2>1. Homes' /\ Calls'
    BY <1>0, <1>1 DEF Homes, ForHome, Calls, Call
  <2>2. Births'
    BY <1>0, <1>1 DEF Births, Building, Raw, Unborn
  <2> QED
    BY <2>1, <2>2 DEF NodeInv
<1>2. CASE UNCHANGED vars
  BY <1>0, <1>1, <1>2 DEF Homes, vars, workVars, callVars, nodeVars, cfgVars
<1>3. ASSUME NEW p \in Procs, Post(p) PROVE NodeInv'
  BY <1>0, <1>1, <1>3 DEF Homes, Post, callVars, nodeVars, cfgVars
<1>4. ASSUME NEW c \in Conns, ConnReceive(c) PROVE NodeInv'
  <2>1. PICK n \in addr, k \in Kinds : Enqueue([dst |-> n, kind |-> k])
    BY <1>4 DEF ConnReceive, Push
  <2>2. [dst |-> n, kind |-> k] \in Messages
    BY <1>0 DEF TypeOK, Messages
  <2>3. \A u \in Threads : \A i \in 1 .. Len(fifo'[u]) : ForHome(fifo'[u][i], u)
    BY <1>0, <2>1, <2>2, PushHome
  <2> QED
    BY <1>1, <1>4, <2>3 DEF ConnReceive, callVars, nodeVars, cfgVars
<1> QED
  BY <1>2, <1>3, <1>4, NodeThread, NodeCfg DEF Next

LEMMA NodesCorrect == Spec => [](TypeInv /\ NodeInv)
<1>1. Init => TypeInv /\ NodeInv
  BY TypeInit, NodeInit
<1>2. TypeInv /\ NodeInv /\ [Next]_vars => (TypeInv /\ NodeInv)'
  BY TypeNext, NodeNext
<1> QED
  BY <1>1, <1>2, PTL DEF Spec

(* The list of the scheduler and the flags of the nodes agree in every     *)
(* daemon, but for the node whose Node::attach, called by the thread that  *)
(* reads a model, is between the insertion and the flag.                   *)
THEOREM ListsAndFlags == Spec => []Attachment
<1>1. TypeInv /\ NodeInv => Attachment
  <2> SUFFICES ASSUME NodeInv, NEW n \in Nodes
               PROVE  (attached[n] <=> n \in nodes[ThreadOf[n]]) \/ (cpc = "flag" /\ cnode = n)
    BY DEF Attachment
  <2> QED
    BY DEF NodeInv, Births, Unborn
<1> QED
  BY <1>1, NodesCorrect, PTL

(* No node is called twice at a time: its thread alone calls it, and calls *)
(* nested in a process() reach neighbours only (NodeGroup::send).  A node  *)
(* linked to itself would be called back by its own message.               *)
THEOREM NeverTwice ==
    ASSUME \A n \in Nodes : n \notin Outs[n]
    PROVE  Spec => []Exclusive
<1>1. TypeInv /\ NodeInv => Exclusive
  <2> SUFFICES ASSUME TypeInv, NodeInv, NEW n \in Nodes
               PROVE  LET processing == {t \in Threads : cur[t] = n}
                          receiving == {t \in Threads : msg[t] # NoMsg /\ msg[t].dst = n}
                      IN /\ \A t \in processing, u \in processing : t = u
                         /\ \A t \in receiving, u \in receiving : t = u
                         /\ processing = {} \/ receiving = {}
                         /\ cpc = "init" /\ cnode = n => processing = {} /\ receiving = {}
    BY DEF Exclusive
  <2> DEFINE processing == {t \in Threads : cur[t] = n}
             receiving == {t \in Threads : msg[t] # NoMsg /\ msg[t].dst = n}
  <2>1. \A t \in processing \cup receiving : t = ThreadOf[n]
    BY DistinctAssumption DEF NodeInv, Homes, ForHome
  <2>2. \A t \in Threads : ~(t \in processing /\ t \in receiving)
    BY DistinctAssumption DEF NodeInv, Calls, Call
  <2>3. cpc = "init" /\ cnode = n => Unborn(n)
    BY DEF NodeInv, Births, Raw, Building
  <2>4. Unborn(n) => processing = {} /\ receiving = {}
    BY DEF Unborn, NodeInv, Homes, ForHome
  <2> QED
    BY <2>1, <2>2, <2>3, <2>4
<1> QED
  BY <1>1, NodesCorrect, PTL

-----------------------------------------------------------------------------
(* Counting the running nodes.                                             *)

LEMMA CountingInit == Init => Counting
<1> SUFFICES ASSUME Init PROVE Counting
  OBVIOUS
<1>1. made = {} /\ \A t \in Threads : Running(t) = {}
  BY DEF Init, Running
<1>2. \A t \in Threads : nbRunning[t] = 0 /\ tpc[t] = "none" /\ bRunning[t] = FALSE
  BY DEF Init
<1>3. IsFiniteSet({}) /\ Cardinality({}) = 0
  BY FS_EmptySet
<1> QED
  BY <1>1, <1>2, <1>3 DEF Init, Counting, Count, Ending, Ended

(* The node a thread is finishing is in the daemon for good. *)
LEMMA FinishingNode ==
    ASSUME TypeInv, NodeInv, NEW t \in Threads, tpc[t] \in {"decr", "store", "remove"}
    PROVE  /\ Finishing(t) \in Nodes /\ ThreadOf[Finishing(t)] = t
           /\ ~Raw(Finishing(t)) /\ Finishing(t) \in made
<1>1. msg[t] # NoMsg \/ cur[t] # NoNode
  BY DEF NodeInv, Calls, Call
<1>2. msg[t] \in Messages \cup {NoMsg} /\ cur[t] \in Nodes \cup {NoNode}
  BY DEF TypeInv, TypeOK
<1>3. CASE msg[t] # NoMsg
  BY <1>2, <1>3 DEF Finishing, NodeInv, Homes, ForHome, Births, Unborn, Messages, Raw
<1>4. CASE msg[t] = NoMsg
  BY <1>1, <1>2, <1>4 DEF Finishing, NodeInv, Homes, Births, Unborn, Raw
<1> QED
  BY <1>3, <1>4

(* Steps of one thread that change neither the count of a thread nor what  *)
(* it counts.                                                              *)
LEMMA CountStep ==
    ASSUME TypeInv, Counting, NEW t \in Threads,
           UNCHANGED <<made, cpc, cnode, nbRunning>>, clash \subseteq clash',
           \A u \in (Threads \ {t}) \cup {Cfg} : tmp'[u] = tmp[u],
           \A u \in Threads \ {t} :
              /\ tpc'[u] = tpc[u] /\ cur'[u] = cur[u] /\ msg'[u] = msg[u]
              /\ bRunning'[u] = bRunning[u],
           \A n \in Nodes : finished'[n] = finished[n]
                              \/ (finished'[n] /\ ThreadOf[n] = t /\ ~Raw(n)),
           Running(t)' = Running(t),
           t \notin clash' =>
              /\ tpc'[t] = "store" => /\ tmp'[t] = nbRunning[t]
                                     /\ ~(cpc = "store" /\ ThreadOf[cnode] = t)
              /\ tpc'[t] # "none" /\ ~bRunning'[t] => Finished(t)',
           Ending(t)'
    PROVE  Counting'
<1>1. made \subseteq Nodes /\ Cfg \notin Threads
  BY DistinctAssumption DEF TypeInv, TypeOK
<1>2. \A n \in Nodes : Raw(n)' <=> Raw(n)
  BY DEF Raw, Building
<1>3. \A n \in Nodes : Raw(n)' => ~finished'[n]
  BY <1>2 DEF Counting
<1>4. ASSUME NEW u \in Threads \ {t} PROVE Ending(u)' /\ (u \notin clash' => Count(u)')
  <2>1. Finishing(u)' = Finishing(u) /\ (Ended(u)' <=> Ended(u))
    BY DEF Finishing, Ended
  <2>2. Ending(u)'
    BY <2>1 DEF Counting, Ending
  <2>3. \A n \in made : ThreadOf[n] = u => finished'[n] = finished[n]
    BY <1>1
  <2>4. Running(u)' = Running(u) /\ (Finished(u)' <=> Finished(u))
    BY <2>1, <2>3 DEF Running, Finished
  <2> QED
    BY <2>1, <2>2, <2>4 DEF Counting, Count
<1>5. t \notin clash' => Count(t)'
  BY DEF Counting, Count
<1> QED
  BY <1>3, <1>4, <1>5 DEF Counting

(* Steps of one thread that finish nothing. *)
LEMMA CountQuiet ==
    ASSUME TypeInv, Counting, NEW t \in Threads,
           UNCHANGED <<made, cpc, cnode, nbRunning, tmp, clash, bRunning, finished>>,
           \A u \in Threads \ {t} : tpc'[u] = tpc[u] /\ cur'[u] = cur[u] /\ msg'[u] = msg[u],
           tpc[t] \notin {"none", "decr", "store"},
           tpc'[t] \notin {"none", "decr", "store", "remove"},
           tpc'[t] \in {"end", "dead"} => ~bRunning[t]
    PROVE  Counting'
<1>1. Running(t)' = Running(t)
  BY DEF Running
<1>2. t \notin clash /\ ~bRunning[t] => Finished(t)'
  BY DEF Counting, Count, Finished
<1>3. Ending(t)'
  BY DEF Ending, Ended
<1> QED
  BY <1>1, <1>2, <1>3, CountStep

(* A step of t that finishes a node of t and begins Thread::remove. *)
LEMMA CountFinish ==
    ASSUME TypeInv, NodeInv, Counting, NEW t \in Threads, NEW n \in Nodes,
           UNCHANGED <<made, cpc, cnode, nbRunning, tmp, clash, bRunning>>,
           \A u \in Threads \ {t} : tpc'[u] = tpc[u] /\ cur'[u] = cur[u] /\ msg'[u] = msg[u],
           \A m \in Nodes : finished'[m] = IF m = n THEN TRUE ELSE finished[m],
           ~Raw(n), ThreadOf[n] = t, ~finished[n], Finishing(t)' = n,
           tpc[t] \notin {"none", "decr", "store"}, tpc'[t] = "decr"
    PROVE  Counting'
<1>1. made \subseteq Nodes
  BY DEF TypeInv, TypeOK
<1>2. Running(t)' = Running(t)
  BY <1>1 DEF Running
<1>3. t \notin clash /\ ~bRunning[t] => Finished(t)'
  BY <1>1 DEF Counting, Count, Finished
<1>4. Ending(t)'
  BY DEF Ending, Ended
<1> QED
  BY <1>2, <1>3, <1>4, CountStep

LEMMA CountThread ==
    ASSUME TypeInv, NodeInv, Counting, NEW t \in Threads, ThreadStep(t)
    PROVE  Counting'
<1>0. /\ tpc \in [Threads -> ThreadPC] /\ made \subseteq Nodes
      /\ cur \in [Threads -> Nodes \cup {NoNode}] /\ msg \in [Threads -> Messages \cup {NoMsg}]
      /\ finished \in [Nodes -> BOOLEAN] /\ bRunning \in [Threads -> BOOLEAN]
      /\ tmp \in [Threads \cup {Cfg} -> Int] /\ nbRunning \in [Threads -> Int]
      /\ Cfg \notin Threads
  BY DistinctAssumption DEF TypeInv, TypeOK
<1>1. CASE Test(t)
  <2>1. PICK pc \in {"loop", "fifo?", "wait", "drain", "end"} :
           /\ tpc' = [tpc EXCEPT ![t] = pc] /\ tpc[t] \in {"loop", "fifo?"}
           /\ pc = "end" => ~bRunning[t]
    BY <1>1 DEF Test, At, Goto
  <2>2. tpc'[t] = pc /\ \A u \in Threads \ {t} : tpc'[u] = tpc[u]
    BY <1>0, <2>1
  <2> QED
    BY <1>1, <2>1, <2>2, CountQuiet DEF Test, runVars, callVars, nodeVars, cfgVars
<1>2. CASE Wake(t)
  <2>1. tpc'[t] = "loop" /\ \A u \in Threads \ {t} : tpc'[u] = tpc[u]
    BY <1>0, <1>2 DEF Wake, Goto
  <2> QED
    BY <1>2, <2>1, CountQuiet DEF Wake, At, runVars, callVars, nodeVars, cfgVars
<1>3. CASE Drain(t)
  <2>1. tpc'[t] \in {"recv", "sched"}
        /\ \A u \in Threads \ {t} : tpc'[u] = tpc[u] /\ msg'[u] = msg[u]
    BY <1>0, <1>3 DEF Drain, Goto
  <2> QED
    BY <1>3, <2>1, CountQuiet DEF Drain, At, runVars, nodeVars, cfgVars
<1>4. CASE Receive(t)
  <2> DEFINE n == msg[t].dst
             finishes == n \in Workers /\ msg[t].kind = "finish"
  <2>1. /\ n \in Nodes /\ msg[t] # NoMsg /\ ThreadOf[n] = t /\ n \in addr /\ tpc[t] = "recv"
    BY <1>4, DistinctAssumption
       DEF TypeInv, Shape, Receive, At, Messages, NodeInv, Homes, ForHome
  <2>2. /\ finished' = [finished EXCEPT ![n] = @ \/ finishes]
        /\ IF finishes /\ ~finished[n] THEN Goto(t, "decr") /\ UNCHANGED msg ELSE Received(t)
        /\ UNCHANGED <<made, cpc, cnode, nbRunning, tmp, clash, bRunning, cur>>
    BY <1>4 DEF Receive, runVars, cfgVars
  <2>3. ~Raw(n)
    BY <2>1 DEF NodeInv, Births, Unborn
  <2>4. CASE finishes /\ ~finished[n]
    <3>1. tpc'[t] = "decr" /\ \A u \in Threads \ {t} : tpc'[u] = tpc[u]
      BY <1>0, <2>2, <2>4 DEF Goto
    <3>2. Finishing(t)' = n /\ UNCHANGED msg
      BY <2>1, <2>2, <2>4 DEF Finishing
    <3>3. \A m \in Nodes : finished'[m] = IF m = n THEN TRUE ELSE finished[m]
      BY <1>0, <2>2, <2>4
    <3> HIDE DEF n, finishes
    <3> QED
      BY <2>1, <2>2, <2>3, <2>4, <3>1, <3>2, <3>3, CountFinish
  <2>5. CASE ~(finishes /\ ~finished[n])
    <3>1. /\ msg' = [msg EXCEPT ![t] = NoMsg]
          /\ tpc' = [tpc EXCEPT ![t] = IF cur[t] = NoNode THEN "drain" ELSE "proc"]
      BY <2>2, <2>5 DEF Received, Goto
    <3>2. /\ tpc'[t] \in {"drain", "proc"}
          /\ \A u \in Threads \ {t} : tpc'[u] = tpc[u] /\ msg'[u] = msg[u]
      BY <1>0, <3>1
    <3> HIDE DEF n, finishes
    <3>3. finished[n] \/ ~finishes
      BY <2>5
    <3>4. finished' = finished
      BY <1>0, <2>1, <2>2, <3>3, Zenon
    <3> QED
      BY <2>1, <2>2, <3>2, <3>4, CountQuiet
  <2> QED
    BY <2>4, <2>5
<1>5. CASE Draw(t)
  <2>1. /\ tpc'[t] \in {"proc", "loop"} /\ tpc[t] = "sched"
        /\ \A u \in Threads \ {t} : tpc'[u] = tpc[u] /\ cur'[u] = cur[u]
    BY <1>0, <1>5 DEF Draw, DrawNode, Goto, At
  <2> QED
    BY <1>5, <2>1, CountQuiet DEF Draw, runVars, cfgVars
<1>6. CASE Send(t)
  <2>1. /\ tpc'[t] \in {"proc", "recv"} /\ tpc[t] = "proc"
        /\ \A u \in Threads \ {t} : tpc'[u] = tpc[u] /\ msg'[u] = msg[u]
    BY <1>0, <1>6 DEF Send, Goto, At
  <2> QED
    BY <1>6, <2>1, CountQuiet DEF Send, runVars, nodeVars, cfgVars
<1>7. CASE Return(t)
  <2>1. /\ tpc[t] = "proc" /\ msg[t] = NoMsg /\ msg'[t] = NoMsg
        /\ UNCHANGED <<made, cpc, cnode, nbRunning, tmp, clash, bRunning, msg>>
    BY <1>7 DEF Return, At, NodeInv, Calls, Call, runVars, cfgVars
  <2>2. CASE Goto(t, "loop") /\ cur' = [cur EXCEPT ![t] = NoNode] /\ UNCHANGED finished
    <3>1. tpc'[t] = "loop" /\ \A u \in Threads \ {t} : tpc'[u] = tpc[u] /\ cur'[u] = cur[u]
      BY <1>0, <2>2 DEF Goto
    <3> QED
      BY <2>1, <2>2, <3>1, CountQuiet
  <2>3. CASE /\ ~finished[cur[t]] /\ finished' = [finished EXCEPT ![cur[t]] = TRUE]
             /\ Goto(t, "decr") /\ UNCHANGED cur
    <3>1. cur[t] \in Nodes /\ ThreadOf[cur[t]] = t /\ ~Raw(cur[t])
      BY <2>1, DistinctAssumption DEF TypeInv, Shape, NodeInv, Homes, Births, Unborn
    <3>2. tpc'[t] = "decr" /\ \A u \in Threads \ {t} : tpc'[u] = tpc[u]
      BY <1>0, <2>3 DEF Goto
    <3>3. Finishing(t)' = cur[t]
      BY <2>1, <2>3 DEF Finishing
    <3>4. \A m \in Nodes : finished'[m] = IF m = cur[t] THEN TRUE ELSE finished[m]
      BY <1>0, <2>3, <3>1
    <3> QED
      BY <2>1, <2>3, <3>1, <3>2, <3>3, <3>4, CountFinish
  <2> QED
    BY <1>7, <2>2, <2>3 DEF Return
<1>8. CASE Decrement(t) /\ tpc[t] = "decr"
  <2>1. /\ tmp' = [tmp EXCEPT ![t] = nbRunning[t]] /\ tpc' = [tpc EXCEPT ![t] = "store"]
        /\ Clash(t, cpc = "store" /\ ThreadOf[cnode] = t)
        /\ UNCHANGED <<made, cpc, cnode, nbRunning, bRunning, finished, cur, msg>>
    BY <1>8 DEF Decrement, At, Goto, callVars, nodeVars, cfgVars
  <2>2. /\ tmp'[t] = nbRunning[t] /\ \A u \in (Threads \ {t}) \cup {Cfg} : tmp'[u] = tmp[u]
        /\ tpc'[t] = "store" /\ \A u \in Threads \ {t} : tpc'[u] = tpc[u]
    BY <1>0, <2>1
  <2>3. Finishing(t)' = Finishing(t) /\ Ending(t)' /\ Running(t)' = Running(t)
    BY <1>8, <2>1, <2>2 DEF Finishing, Counting, Ending, Ended, Running
  <2>4. t \notin clash /\ ~bRunning[t] => Finished(t)'
    BY <1>8, <2>1 DEF Counting, Count, Finished
  <2>5. clash \subseteq clash' /\ (t \notin clash' => ~(cpc = "store" /\ ThreadOf[cnode] = t))
    BY <2>1 DEF Clash
  <2> QED
    BY <2>1, <2>2, <2>3, <2>4, <2>5, CountStep
<1>9. CASE Decrement(t) /\ tpc[t] = "store"
  <2> DEFINE n == Finishing(t)
  <2>1. /\ nbRunning' = [nbRunning EXCEPT ![t] = tmp[t] - 1]
        /\ tpc' = [tpc EXCEPT ![t] = "remove"]
        /\ UNCHANGED <<made, cpc, cnode, tmp, clash, bRunning, finished, cur, msg>>
    BY <1>9 DEF Decrement, At, Goto, callVars, nodeVars, cfgVars
  <2>2. /\ nbRunning'[t] = tmp[t] - 1 /\ \A u \in Threads \ {t} : nbRunning'[u] = nbRunning[u]
        /\ tpc'[t] = "remove" /\ \A u \in Threads \ {t} : tpc'[u] = tpc[u]
    BY <1>0, <2>1
  <2>3. n \in made /\ ThreadOf[n] = t /\ ~Raw(n)
    BY <1>9, FinishingNode
  <2>4. \A u \in Threads : Finishing(u)' = Finishing(u) /\ (Finished(u)' <=> Finished(u))
    BY <2>1 DEF Finishing, Finished
  <2>5. n \in Running(t) /\ Running(t)' = Running(t) \ {n}
    <3>1. ~(cpc \in {"init", "incr", "store"} /\ cnode = n)
      BY <2>3 DEF Raw, Building
    <3>2. finished[n]
      BY <1>9 DEF Counting, Ending
    <3>3. \A m \in Running(t) : m # n <=> m \in Running(t)'
      BY <1>9, <2>1, <2>2, <2>4, <3>2 DEF Running
    <3>4. Running(t)' \subseteq Running(t) /\ n \notin Running(t)'
      BY <1>9, <2>1, <2>2, <2>4, <3>2 DEF Running
    <3> QED
      BY <1>9, <2>3, <3>1, <3>3, <3>4 DEF Running
  <2>6. IsFiniteSet(Running(t))
    BY FS_Subset DEF Counting, Running
  <2>7. Cardinality(Running(t)') = Cardinality(Running(t)) - 1
    BY <2>5, <2>6, FS_RemoveElement
  <2>8. t \notin clash' => Count(t)'
    <3>1. t \notin clash => /\ tmp[t] = Cardinality(Running(t)) /\ (~bRunning[t] => Finished(t))
                           /\ (cpc = "store" => ThreadOf[cnode] # t)
      BY <1>9 DEF Counting, Count
    <3> QED
      BY <2>1, <2>2, <2>4, <2>7, <3>1 DEF Count
  <2>9. \A u \in Threads \ {t} : Running(u)' = Running(u)
    BY <2>1, <2>2, <2>4 DEF Running
  <2>10. \A u \in Threads \ {t} : u \notin clash' => Count(u)'
    BY <2>1, <2>2, <2>4, <2>9 DEF Counting, Count
  <2>11. \A u \in Threads : Ending(u)'
    BY <1>9, <2>1, <2>2, <2>4 DEF Counting, Ending, Ended
  <2>12. IsFiniteSet(made') /\ \A m \in Nodes : Raw(m)' => ~finished'[m]
    BY <2>1 DEF Counting, Raw, Building
  <2> QED
    BY <2>8, <2>10, <2>11, <2>12 DEF Counting
<1>10. CASE RemoveNode(t)
  <2>1. /\ bRunning' = [bRunning EXCEPT ![t] = @ /\ ~NoneRunning(t)]
        /\ tpc[t] = "remove"
        /\ UNCHANGED <<made, cpc, cnode, nbRunning, tmp, clash, finished>>
    BY <1>10 DEF RemoveNode, At, cfgVars
  <2>2. /\ tpc'[t] \in {"drain", "proc", "loop"}
        /\ \A u \in Threads \ {t} : tpc'[u] = tpc[u] /\ cur'[u] = cur[u] /\ msg'[u] = msg[u]
    BY <1>0, <1>10 DEF RemoveNode, Received, Goto
  <2>3. /\ bRunning'[t] => bRunning[t] /\ nbRunning[t] # 0
        /\ \A u \in Threads \ {t} : bRunning'[u] = bRunning[u]
    BY <1>0, <2>1 DEF NoneRunning
  <2>3a. ~bRunning'[t] => ~bRunning[t] \/ nbRunning[t] = 0
    BY <1>0, <2>1, Zenon DEF NoneRunning
  <2>4. Running(t)' = Running(t)
    BY <2>1, <2>2 DEF Running
  <2>5. ASSUME t \notin clash', ~bRunning'[t] PROVE Finished(t)'
    <3>1. CASE ~bRunning[t]
      BY <2>1, <2>5, <3>1 DEF Counting, Count, Finished
    <3>2. CASE nbRunning[t] = 0
      <4>1. IsFiniteSet(Running(t)) /\ Cardinality(Running(t)) = 0
        BY <2>1, <2>5, <3>2, FS_Subset DEF Counting, Count, Running
      <4>2. Running(t) = {}
        BY <4>1, FS_EmptySet
      <4> QED
        BY <2>1, <4>2 DEF Finished, Running
    <3> QED
      BY <2>3a, <2>5, <3>1, <3>2
  <2>6. Ending(t)'
    BY <2>2 DEF Ending, Ended
  <2> QED
    BY <2>1, <2>2, <2>3, <2>4, <2>5, <2>6, CountStep
<1>11. CASE ThreadEnd(t)
  <2>1. tpc[t] = "end" /\ tpc'[t] = "dead" /\ \A u \in Threads \ {t} : tpc'[u] = tpc[u]
    BY <1>0, <1>11 DEF ThreadEnd, Goto, At
  <2>2. ~bRunning[t]
    BY <2>1 DEF Counting, Ending, Ended
  <2> QED
    BY <1>11, <2>1, <2>2, CountQuiet DEF ThreadEnd, runVars, callVars, nodeVars
<1> QED
  BY <1>1, <1>2, <1>3, <1>4, <1>5, <1>6, <1>7, <1>8, <1>9, <1>10, <1>11 DEF ThreadStep, Decrement, At

(* Steps of the thread that reads a model which count nothing. *)
LEMMA CountStays ==
    ASSUME Counting, clash \subseteq clash',
           UNCHANGED <<made, nbRunning, finished, cur, msg>>,
           \A t \in Threads : tmp'[t] = tmp[t],
           \A t \in Threads : \/ tpc'[t] = tpc[t] /\ bRunning'[t] = bRunning[t]
                              \/ tpc'[t] = "loop" /\ bRunning'[t] /\ tpc[t] = "none",
           cpc' = "store" => \/ /\ tmp'[Cfg] = nbRunning[ThreadOf[cnode']]
                                /\ ThreadOf[cnode'] \notin clash' => tpc[ThreadOf[cnode']] # "store"
                            \/ UNCHANGED <<tmp, cpc, cnode>>,
           \A n \in Nodes : Raw(n)' => Raw(n),
           \A n \in made : cpc' \in {"init", "incr", "store"} /\ cnode' = n
                            <=> cpc \in {"init", "incr", "store"} /\ cnode = n
    PROVE  Counting'
<1>1. \A t \in Threads : (tpc'[t] \in {"decr", "store", "remove", "end", "dead"} \/
                          tpc[t] \in {"decr", "store", "remove", "end", "dead"}) => tpc'[t] = tpc[t]
  OBVIOUS
<1>2. ASSUME NEW t \in Threads PROVE Ending(t)' /\ (t \notin clash' => Count(t)')
  <2>1. Finishing(t)' = Finishing(t) /\ (Finished(t)' <=> Finished(t))
    BY DEF Finishing, Finished
  <2>2. Ending(t)'
    BY <1>1, <2>1 DEF Counting, Ending, Ended
  <2>3. Running(t)' = Running(t)
    BY <1>1, <2>1 DEF Running
  <2>4. /\ t \notin clash' => Count(t)
        /\ tpc'[t] = "store" <=> tpc[t] = "store"
        /\ tmp'[t] = tmp[t] /\ nbRunning' = nbRunning
    BY <1>1 DEF Counting
  <2>5. t \notin clash' /\ cpc' = "store" /\ ThreadOf[cnode'] = t
           => tmp'[Cfg] = nbRunning[t] /\ tpc[t] # "store"
    BY <1>1, <2>4 DEF Count
  <2>6. tpc'[t] # "none" /\ ~bRunning'[t] => tpc[t] # "none" /\ ~bRunning[t]
    OBVIOUS
  <2> QED
    BY <2>1, <2>2, <2>3, <2>4, <2>5, <2>6 DEF Count
<1> QED
  BY <1>2 DEF Counting

LEMMA CountCfg ==
    ASSUME TypeInv, NodeInv, Counting, CfgStep \/ Incremental
    PROVE  Counting'
<1>0. /\ tmp \in [Threads \cup {Cfg} -> Int] /\ nbRunning \in [Threads -> Int]
      /\ tpc \in [Threads -> ThreadPC] /\ bRunning \in [Threads -> BOOLEAN]
      /\ Cfg \notin Threads /\ made \subseteq Nodes
      /\ \A n \in Nodes : ThreadOf[n] \in Threads
  BY ConstantsAssumption, DistinctAssumption DEF TypeInv, TypeOK
<1>1. CASE Instantiate /\ cpc = "pick"
  <2>1. PICK n \in Batch \ made :
           /\ cnode' = n /\ made' = made \cup {n} /\ cpc' = "init"
           /\ UNCHANGED <<tpc, bRunning, nbRunning, tmp, clash, finished, cur, msg>>
    BY <1>1 DEF Instantiate, CfgAt, others, callVars
  <2>2. n \in Nodes /\ ~finished[n] /\ IsFiniteSet(made')
    <3>1. n \in Nodes /\ n \notin made
      BY <2>1, ConstantsAssumption DEF Batch
    <3> QED
      BY <2>1, <3>1, FS_AddElement DEF Counting, Raw
  <2>3. \A m \in Nodes : Raw(m)' => ~finished'[m]
    BY <1>1, <2>1 DEF Counting, Raw
  <2>4. ASSUME NEW t \in Threads PROVE Ending(t)' /\ (t \notin clash' => Count(t)')
    <3>1. Finishing(t)' = Finishing(t)
      BY <2>1 DEF Finishing
    <3>2. Ending(t)'
      BY <2>1, <3>1 DEF Counting, Ending, Ended
    <3>3. Running(t)' = Running(t)
      BY <1>1, <2>1, <3>1 DEF Running
    <3>4. Finished(t) => Finished(t)'
      BY <1>1, <2>1 DEF Finished
    <3> QED
      BY <2>1, <3>2, <3>3, <3>4 DEF Counting, Count
  <2> QED
    BY <2>2, <2>3, <2>4 DEF Counting
<1>2. CASE Instantiate /\ cpc = "init"
  BY <1>2, CountStays DEF Instantiate, CfgAt, others, callVars, Raw, Building
<1>3. CASE Increment /\ cpc = "incr"
  <2>1. /\ tmp' = [tmp EXCEPT ![Cfg] = nbRunning[ThreadOf[cnode]]] /\ cpc' = "store"
        /\ Clash(ThreadOf[cnode], tpc[ThreadOf[cnode]] = "store")
        /\ UNCHANGED <<made, cnode, nbRunning, finished, cur, msg, tpc, bRunning>>
    BY <1>3 DEF Increment, CfgAt, others, callVars
  <2>2. /\ tmp'[Cfg] = nbRunning[ThreadOf[cnode']]
        /\ \A t \in Threads : tmp'[t] = tmp[t]
    BY <1>0, <2>1
  <2>3. /\ clash \subseteq clash'
        /\ ThreadOf[cnode'] \notin clash' => tpc[ThreadOf[cnode']] # "store"
    BY <2>1 DEF Clash
  <2> QED
    BY <1>3, <2>1, <2>2, <2>3, CountStays DEF Raw, Building
<1>4. CASE Increment /\ cpc = "store"
  <2>0. PICK h \in Threads : h = ThreadOf[cnode]
    BY <1>0, <1>4 DEF TypeInv, Shape
  <2>1. /\ nbRunning' = [nbRunning EXCEPT ![h] = tmp[Cfg] + 1] /\ cpc' = "attach"
        /\ Clash(h, tpc[h] # "none" /\ ~bRunning[h])
        /\ UNCHANGED <<made, cnode, tmp, finished, cur, msg, tpc, bRunning>>
    BY <1>4, <2>0 DEF Increment, CfgAt, others, callVars
  <2>2. cnode \in made /\ cnode \in Nodes /\ ThreadOf[cnode] = h /\ ~finished[cnode] /\ Raw(cnode)
    BY <1>0, <1>4, <2>0 DEF NodeInv, Births, Building, Raw, Counting
  <2>3. nbRunning'[h] = tmp[Cfg] + 1 /\ \A t \in Threads \ {h} : nbRunning'[t] = nbRunning[t]
    BY <1>0, <2>1, <2>2
  <2>4. /\ \A t \in Threads : Finishing(t)' = Finishing(t)
        /\ \A t \in Threads \ {h} : Finished(t)' <=> Finished(t)
    BY <1>4, <2>1, <2>2 DEF Finishing, Finished
  <2>4a. clash \subseteq clash' /\ (h \notin clash' => tpc[h] = "none" \/ bRunning[h])
    BY <2>1 DEF Clash
  <2>5. \A t \in Threads : Ending(t)'
    BY <2>1, <2>4 DEF Counting, Ending, Ended
  <2>6. \A m \in Nodes : Raw(m)' => ~finished'[m]
    BY <1>4, <2>1 DEF Counting, Raw, Building
  <2>7. \A t \in Threads \ {h} : Running(t)' = Running(t)
    BY <1>4, <2>0, <2>1, <2>4 DEF Running
  <2>8. \A t \in Threads \ {h} : t \notin clash' => Count(t)'
    BY <2>0, <2>1, <2>3, <2>4, <2>4a, <2>7 DEF Counting, Count
  <2>9. Running(h)' = Running(h) \cup {cnode} /\ cnode \notin Running(h)
    BY <1>4, <2>0, <2>1, <2>2, <2>4 DEF Running
  <2>10. IsFiniteSet(Running(h))
    BY FS_Subset DEF Counting, Running
  <2>11. Cardinality(Running(h)') = Cardinality(Running(h)) + 1
    BY <2>9, <2>10, FS_AddElement
  <2>12. h \notin clash' => Count(h)'
    <3>1. h \notin clash => tmp[Cfg] = Cardinality(Running(h)) /\ tpc[h] # "store"
      BY <1>4, <2>0, <2>2 DEF Counting, Count
    <3> QED
      BY <2>1, <2>3, <2>4a, <2>11, <3>1 DEF Count
  <2>13. IsFiniteSet(made')
    BY <2>1 DEF Counting
  <2>14. \A t \in Threads : t \notin clash' => Count(t)'
    BY <2>8, <2>12
  <2> QED
    BY <2>5, <2>6, <2>13, <2>14 DEF Counting
<1>5. CASE Attach
  BY <1>5, CountStays DEF Attach, CfgAt, others, callVars, Raw, Building
<1>6. CASE Publish \/ Incremental
  BY <1>6, CountStays DEF Publish, Incremental, CfgAt, others, callVars, Raw, Building
<1>7. CASE Start
  <2>1. /\ cpc \notin {"init", "incr", "store", "attach", "flag"}
        /\ cpc' \notin {"init", "incr", "store", "attach", "flag"}
        /\ UNCHANGED <<made, nbRunning, finished, cur, msg, tmp, clash>>
    BY <1>7 DEF Start, CfgAt, callVars, nodeVars
  <2>2. \A t \in Threads : \/ tpc'[t] = tpc[t] /\ bRunning'[t] = bRunning[t]
                           \/ tpc'[t] = "loop" /\ bRunning'[t] /\ tpc[t] = "none"
    BY <1>0, <1>7 DEF Start, Goto
  <2> QED
    BY <2>1, <2>2, CountStays DEF Raw, Building
<1> QED
  BY <1>1, <1>2, <1>3, <1>4, <1>5, <1>6, <1>7 DEF CfgStep, Instantiate, Increment, CfgAt

LEMMA CountingNext == TypeInv /\ NodeInv /\ Counting /\ [Next]_vars => Counting'
<1> SUFFICES ASSUME TypeInv, NodeInv, Counting, [Next]_vars PROVE Counting'
  OBVIOUS
<1>1. ASSUME UNCHANGED <<tpc, runVars, callVars, finished, made, cpc, cnode>>
      PROVE  Counting'
  BY <1>1, CountStays DEF runVars, callVars, Raw, Building, Counting
<1>2. ASSUME NEW p \in Procs, Post(p) PROVE Counting'
  BY <1>1, <1>2 DEF Post, nodeVars, cfgVars
<1>3. ASSUME NEW c \in Conns, ConnReceive(c) PROVE Counting'
  BY <1>1, <1>3 DEF ConnReceive, nodeVars, cfgVars
<1>4. CASE UNCHANGED vars
  BY <1>1, <1>4 DEF vars, nodeVars, cfgVars
<1> QED
  BY <1>2, <1>3, <1>4, CountThread, CountCfg DEF Next

(* Thread::remove stops the loop of a thread when the counter says 0: no   *)
(* counted node is left without a thread, in any daemon, also when nodes   *)
(* are added to running threads, unless an unlocked ++ of nb_running_nodes *)
(* overlapped with a -- or came after the loop had been stopped.           *)
THEOREM NoNodeLeft == Spec => []ThreadExitSound
<1>1. Init => TypeInv /\ NodeInv /\ Counting
  BY TypeInit, NodeInit, CountingInit
<1>2. TypeInv /\ NodeInv /\ Counting /\ [Next]_vars
         => (TypeInv /\ NodeInv /\ Counting)'
  BY TypeNext, NodeNext, CountingNext
<1>3. Counting => ThreadExitSound
  BY DEF Counting, Count, Ending, Finished, Ended, Counted, ThreadExitSound
<1> QED
  BY <1>1, <1>2, <1>3, PTL DEF Spec
=============================================================================

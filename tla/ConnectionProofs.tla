-------------------------- MODULE ConnectionProofs --------------------------
(***************************************************************************)
(* Proofs about Connection, for any number of senders, scripts, buffers    *)
(* and attempts: a mutex stays locked only when a write failed, no list    *)
(* leads to a deleted Host, exit(1) has a cause, and each direction of the *)
(* connection implements the abstract Channel.                             *)
(***************************************************************************)
EXTENDS Connection, SequenceTheorems, FiniteSetTheorems, TLAPS

-----------------------------------------------------------------------------
(* The parts of one message, in order: whether y comes after x.            *)
Final(x) == x.part \in {"nodata", "data"}
Follows(x, y) ==
    \/ Final(x) /\ y.part = "head"
    \/ /\ x.part = "head" /\ y.msg = x.msg
       /\ y.part = IF x.msg \in Empty THEN "nodata" ELSE "size"
    \/ /\ x.part = "size" /\ y.msg = x.msg /\ y.part = "data"

Linked(s) == \A i, j \in 1 .. Len(s) : j = i + 1 => Follows(s[i], s[j])
Chain(s) == Linked(s) /\ (s # <<>> => s[1].part = "head")
Joins(s, x) == IF s = <<>> THEN x.part = "head" ELSE Follows(s[Len(s)], x)
Whole(s) == s # <<>> => Final(s[Len(s)])

(* What a thread has still to write: the rest of one message.              *)
Rest(f) ==
    /\ f # <<>> /\ Linked(f)
    /\ \A i \in 1 .. Len(f) : Final(f[i]) <=> i = Len(f)

Holds(p) == pc[p] \in {"write", "unlock"}
Sends(p) == pc[p] \in {"lock", "write"}

(* Registers that belong to a program counter are set when it is reached,  *)
(* and every thread is where its role lets it be.                          *)
Shape ==
    /\ pc[Creator] = "connect" => tries < Attempts[kind]
    /\ \A e \in Ends :
          /\ pc[e] \notin {"handle", "done"} => Len(partial[e]) < 3 /\ ~Complete(partial[e])
          /\ pc[e] = "handle" => Complete(partial[e])
          /\ Len(partial[e]) = 3 => partial[e][2].part # "nodata"
    /\ \A p \in Procs : Sends(p) => Rest(frame[p])
    /\ \A p \in Procs : pc[p] = "lock" => frame[p][1].part = "head"
    /\ \A p \in Procs : pc[p] \in {"connect", "new", "add"} => p = Creator
    /\ \A p \in Senders : pc[p] \notin {"none", "read", "handle", "leave", "delete"}
    /\ \A p \in Ends : pc[p] # "idle"

(* The tool has one thread, which reads when it has written.               *)
Alone ==
    /\ pc[Creator] \in {"connect", "new"} => pc["a"] = "none"
    /\ pc[Creator] = "add" => ~Client
    /\ Client =>
          /\ \A s \in Senders \ {Creator} : pc[s] \in {"idle", "done"} /\ left[s] = <<>>
          /\ \A e \in Ends : ~listed[e]
          /\ pc["a"] # "none" => pc[Creator] = "done"

(* What is over remains so.                                                *)
Gone ==
    /\ \A e \in Ends : dead[e] => \A p \in Procs : End(p) = e => pc[p] = "done"
    /\ \A e \in Ends : closed[e] => pc[e] = "done" /\ (dead[e] \/ host[e] = "deleted")
    /\ \A e \in Ends : host[e] = "deleted" => pc[e] = "done"
    /\ \A p \in Procs : Holds(p) => ~closed[End(p)]
    /\ \A e \in Ends : rst[e] => closed[Peer(e)]

(* The mutexes: who writes has the one of its end.                         *)
Locks ==
    /\ \A p \in Procs : Holds(p) => mut[End(p)] = p
    /\ \A e \in Ends : mut[e] # NoOne => End(mut[e]) = e
    /\ LockKept

(* Until the connection is entered at "a" nothing goes over it.            *)
Early == pc[Creator] \in {"connect", "new", "add"}
Silent ==
    /\ \A e \in Ends : wire[e] = <<>> /\ partial[e] = <<>> /\ ~rst[e] /\ ~listed[e]
    /\ \A s \in Senders \ {Creator} : pc[s] \in {"idle", "done"}
    /\ pc["a"] \in {"none", "read", "leave", "delete", "done"} /\ pc["b"] \in {"none", "read", "done"}
    /\ pc["a"] \in {"leave", "delete"} \/ host["a"] = "deleted" \/ closed["a"] \/ closed["b"]
          => dead["b"]

(* The lists, once a connection thread has gone through them.              *)
Lists ==
    /\ Early => Silent
    /\ \A e \in Ends : kind = "peer" /\ (pc[e] = "delete" \/ host[e] = "deleted") =>
          ~listed[e] \/ (e = "a" /\ dead["b"])

(* What is on its way to an end that can read it: messages one after the   *)
(* other, the last of them perhaps not finished by the thread that writes. *)
Stream(e) ==
    /\ Chain(OnWay(e))
    /\ \A p \in Procs : End(p) = Peer(e) /\ pc[p] = "write" => Joins(OnWay(e), frame[p][1])
    /\ ~dead[Peer(e)] /\ (\A p \in Procs : End(p) = Peer(e) => pc[p] # "write") => Whole(OnWay(e))
Streams == \A e \in Ends : ~closed[e] => Stream(e)

(* Messages begun and handled.                                             *)
Mid(p) == pc[p] = "write" /\ frame[p][1].part # "head"
Behind(e) == Len(got[Peer(e)]) < sent[e]
Numbers ==
    /\ \A e \in Ends : Len(got[e]) + Cardinality(Heads(OnWay(e))) <= sent[Peer(e)]
    /\ \A p \in Procs : Mid(p) => Behind(End(p))
    /\ \A e \in Ends : rst[e] => Behind(e)

(* The tool sends the command, the daemon the answer.                      *)
Line(e) == IF e = "a" THEN Open ELSE Reply
Answers ==
    Client =>
      /\ left[Creator] \in {<<Open>>, <<>>}
      /\ \A p \in Procs : Sends(p) => \A i \in 1 .. Len(frame[p]) : frame[p][i].msg = Line(End(p))
      /\ \A e \in Ends : \A i \in 1 .. Len(OnWay(e)) : OnWay(e)[i].msg = Line(Peer(e))

(* Why a process leaves.                                                   *)
Reasons ==
    /\ \A p \in Procs : pc[p] = "quit" => (Client /\ End(p) = "a") \/ (p \in Ends /\ rst[p])
    /\ \A e \in Ends : exited[e] => rst[e]
-----------------------------------------------------------------------------
(* Sequences of parts.                                                     *)

LEMMA Words ==
  ASSUME NEW m \in Messages
  PROVE  /\ Frame(m) \in Seq(Parts) /\ Rest(Frame(m))
         /\ Frame(m)[1].part = "head"
         /\ \A i \in 1 .. Len(Frame(m)) : Frame(m)[i].msg = m
<1>1. CASE m \in Empty
  <2> DEFINE f == [i \in 1 .. 2 |-> [msg |-> m, part |-> <<"head", "nodata">>[i]]]
  <2>1. Frame(m) = f
    BY <1>1 DEF Frame
  <2>2. f \in [1 .. 2 -> Parts]
    BY DEF Parts
  <2>3. f \in Seq(Parts)
    BY <2>2, SeqDef, 2 \in Nat
  <2>4. Len(f) = 2 /\ f # <<>>
    BY <2>2, <2>3, LenProperties, EmptySeq
  <2>5. f[1] = [msg |-> m, part |-> "head"] /\ f[2] = [msg |-> m, part |-> "nodata"]
    OBVIOUS
  <2> HIDE DEF f
  <2>6. Rest(f) /\ f[1].part = "head" /\ \A i \in 1 .. Len(f) : f[i].msg = m
    BY <1>1, <2>4, <2>5 DEF Rest, Linked, Follows, Final
  <2> QED
    BY <2>1, <2>3, <2>6
<1>2. CASE m \notin Empty
  <2> DEFINE f == [i \in 1 .. 3 |-> [msg |-> m, part |-> <<"head", "size", "data">>[i]]]
  <2>1. Frame(m) = f
    BY <1>2 DEF Frame
  <2>2. f \in [1 .. 3 -> Parts]
    BY DEF Parts
  <2>3. f \in Seq(Parts)
    BY <2>2, SeqDef, 3 \in Nat
  <2>4. Len(f) = 3 /\ f # <<>>
    BY <2>2, <2>3, LenProperties, EmptySeq
  <2>5. f[1] = [msg |-> m, part |-> "head"] /\ f[2] = [msg |-> m, part |-> "size"]
        /\ f[3] = [msg |-> m, part |-> "data"]
    OBVIOUS
  <2> HIDE DEF f
  <2>6. Rest(f) /\ f[1].part = "head" /\ \A i \in 1 .. Len(f) : f[i].msg = m
    BY <1>2, <2>4, <2>5 DEF Rest, Linked, Follows, Final
  <2> QED
    BY <2>1, <2>3, <2>6
<1> QED
  BY <1>1, <1>2

(* Writing the first part of the rest of a message leaves the rest.        *)
LEMMA Written ==
  ASSUME NEW f \in Seq(Parts), Rest(f)
  PROVE  /\ Head(f) = f[1] /\ Head(f) \in Parts /\ Tail(f) \in Seq(Parts)
         /\ Len(f) \in Nat \ {0}
         /\ Len(f) = 1 => Final(f[1])
         /\ Len(f) # 1 => Rest(Tail(f)) /\ Follows(f[1], Tail(f)[1]) /\ Tail(f)[1].part # "head"
         /\ \A i \in 1 .. Len(Tail(f)) : Tail(f)[i] = f[i + 1]
<1>1. f # <<>> /\ Len(f) \in Nat \ {0}
  BY EmptySeq DEF Rest
<1>2. /\ Head(f) = f[1] /\ Head(f) \in Parts /\ Tail(f) \in Seq(Parts)
      /\ Len(Tail(f)) = Len(f) - 1
      /\ \A i \in 1 .. Len(Tail(f)) : Tail(f)[i] = f[i + 1]
  BY <1>1, HeadTailProperties
<1>3. Len(f) = 1 => Final(f[1])
  BY DEF Rest
<1>4. ASSUME Len(f) # 1
      PROVE  Rest(Tail(f)) /\ Follows(f[1], Tail(f)[1]) /\ Tail(f)[1].part # "head"
  <2>1. Tail(f) # <<>> /\ Tail(f)[1] = f[2] /\ 1 \in 1 .. Len(f) /\ 2 \in 1 .. Len(f)
    BY <1>1, <1>2, <1>4, EmptySeq
  <2>2. Follows(f[1], Tail(f)[1]) /\ ~Final(f[1])
    BY <1>1, <1>4, <2>1 DEF Rest, Linked
  <2>3. \A i \in 1 .. Len(Tail(f)) : i + 1 \in 1 .. Len(f) /\ Tail(f)[i] = f[i + 1]
    BY <1>1, <1>2
  <2>4. Linked(Tail(f))
    <3> SUFFICES ASSUME NEW i \in 1 .. Len(Tail(f)), NEW j \in 1 .. Len(Tail(f)), j = i + 1
                 PROVE  Follows(Tail(f)[i], Tail(f)[j])
      BY DEF Linked
    <3>1. j + 1 = (i + 1) + 1
      BY <1>1, <1>2
    <3> QED
      BY <2>3, <3>1 DEF Rest, Linked
  <2>5. \A i \in 1 .. Len(Tail(f)) : Final(Tail(f)[i]) <=> i = Len(Tail(f))
    <3> TAKE i \in 1 .. Len(Tail(f))
    <3>1. Final(f[i + 1]) <=> i + 1 = Len(f)
      BY <2>3 DEF Rest
    <3>2. i + 1 = Len(f) <=> i = Len(Tail(f))
      BY <1>1, <1>2
    <3> QED
      BY <2>3, <3>1, <3>2 DEF Final
  <2> QED
    BY <2>1, <2>2, <2>4, <2>5 DEF Rest, Follows, Final
<1> QED
  BY <1>1, <1>2, <1>3, <1>4

(* A chain grows by a part that joins it.                                  *)
LEMMA Grown ==
  ASSUME NEW s \in Seq(Parts), NEW x \in Parts, Chain(s), Joins(s, x)
  PROVE  /\ Chain(Append(s, x))
         /\ \A y : Follows(x, y) => Joins(Append(s, x), y)
         /\ Final(x) => Whole(Append(s, x))
<1>1. /\ Append(s, x) \in Seq(Parts) /\ Append(s, x) # <<>> /\ Len(Append(s, x)) = Len(s) + 1
      /\ \A i \in 1 .. Len(s) : Append(s, x)[i] = s[i]
      /\ Append(s, x)[Len(s) + 1] = x
  BY AppendProperties
<1>2. Len(s) \in Nat /\ (Len(s) = 0 <=> s = <<>>)
  BY EmptySeq, LenProperties
<1> DEFINE t == Append(s, x)
<1> HIDE DEF t
<1>3. /\ t # <<>> /\ Len(t) = Len(s) + 1 /\ \A i \in 1 .. Len(s) : t[i] = s[i]
      /\ t[Len(s) + 1] = x
  BY <1>1 DEF t
<1>4. ASSUME NEW i \in 1 .. Len(t), NEW j \in 1 .. Len(t), j = i + 1 PROVE Follows(t[i], t[j])
  <2>1. CASE j <= Len(s)
    <3>1. i \in 1 .. Len(s) /\ j \in 1 .. Len(s)
      BY <1>2, <1>3, <1>4, <2>1
    <3> QED
      BY <1>3, <1>4, <3>1 DEF Chain, Linked
  <2>2. CASE j = Len(s) + 1
    BY <1>2, <1>3, <1>4, <2>2 DEF Joins
  <2> QED
    BY <1>2, <1>3, <2>1, <2>2
<1>5. t[1].part = "head"
  BY <1>2, <1>3 DEF Chain, Joins
<1>6. Chain(t) /\ (\A y : Follows(x, y) => Joins(t, y)) /\ (Final(x) => Whole(t))
  BY <1>3, <1>4, <1>5 DEF Chain, Linked, Joins, Whole
<1> QED
  BY <1>6 DEF t

(* A message that comes after a whole one joins.                           *)
LEMMA HeadJoins ==
  ASSUME NEW s, NEW x, Whole(s), x.part = "head"
  PROVE  Joins(s, x)
BY DEF Whole, Joins, Follows

(* What is left of a chain when whole messages are taken from it.          *)
LEMMA Taken ==
  ASSUME NEW s \in Seq(Parts), NEW w \in Seq(Parts), Chain(s \o w), s # <<>>, Final(s[Len(s)])
  PROVE  /\ Chain(w)
         /\ \A x : Joins(s \o w, x) => Joins(w, x)
         /\ Whole(s \o w) => Whole(w)
<1>1. /\ s \o w \in Seq(Parts) /\ Len(s \o w) = Len(s) + Len(w)
      /\ \A i \in 1 .. Len(s) + Len(w) : (s \o w)[i] = IF i <= Len(s) THEN s[i] ELSE w[i - Len(s)]
  BY ConcatProperties
<1>2. /\ Len(s) \in Nat \ {0} /\ Len(w) \in Nat /\ (w = <<>> <=> Len(w) = 0)
  BY EmptySeq, LenProperties
<1> DEFINE t == s \o w
<1> HIDE DEF t
<1>3. /\ Len(t) = Len(s) + Len(w) /\ t # <<>> /\ t[Len(s)] = s[Len(s)]
      /\ \A i \in 1 .. Len(w) : t[i + Len(s)] = w[i]
  BY <1>1, <1>2, EmptySeq DEF t
<1>4. Linked(w)
  <2> SUFFICES ASSUME NEW i \in 1 .. Len(w), NEW j \in 1 .. Len(w), j = i + 1
               PROVE  Follows(w[i], w[j])
    BY DEF Linked
  <2>1. /\ i + Len(s) \in 1 .. Len(t) /\ j + Len(s) \in 1 .. Len(t)
        /\ j + Len(s) = (i + Len(s)) + 1
    BY <1>2, <1>3
  <2>2. Linked(t)
    BY DEF t, Chain
  <2>3. Follows(t[i + Len(s)], t[j + Len(s)])
    BY <2>1, <2>2 DEF Linked
  <2> QED
    BY <1>3, <2>3
<1>5. w # <<>> => w[1].part = "head" /\ w[Len(w)] = t[Len(t)]
  <2> SUFFICES ASSUME w # <<>> PROVE w[1].part = "head" /\ w[Len(w)] = t[Len(t)]
    OBVIOUS
  <2>1. Follows(t[Len(s)], t[1 + Len(s)])
    BY <1>2, <1>3 DEF t, Chain, Linked
  <2>2. w[1].part = "head"
    BY <1>2, <1>3, <2>1 DEF Follows, Final
  <2> QED
    BY <1>2, <1>3, <2>2
<1>6. w = <<>> => t[Len(t)] = s[Len(s)]
  BY <1>2, <1>3
<1>7. \A x : Joins(t, x) => Joins(w, x)
  BY <1>3, <1>5, <1>6 DEF Joins, Follows, Final
<1>8. Whole(t) => Whole(w)
  BY <1>3, <1>5 DEF Whole
<1> QED
  BY <1>4, <1>5, <1>7, <1>8 DEF t, Chain

-----------------------------------------------------------------------------
(* Types.                                                                  *)

LEMMA Roles ==
  /\ "a" \in Ends /\ "b" \in Ends /\ "a" # "b" /\ Peer("a") = "b" /\ Peer("b") = "a"
  /\ \A e \in Ends : Peer(e) \in Ends /\ Peer(e) # e /\ Peer(Peer(e)) = e /\ End(e) = e
  /\ \A e, d \in Ends : d # e => d = Peer(e)
  /\ \A p \in Procs : End(p) \in Ends
  /\ Creator \in Procs /\ Creator \notin Ends /\ End(Creator) = "a" /\ NoOne \notin Procs
  /\ Open \in Messages /\ Reply \in Messages /\ Garbled \notin Messages
  /\ Ends \subseteq Procs /\ Senders \subseteq Procs
  /\ \A p \in Procs : p \in Senders <=> p \notin Ends
BY ConstantsAssumption DEF Ends, Peer, End, Procs, Messages

PcValues == {"connect", "new", "add", "idle", "lock", "write", "unlock", "none",
             "read", "handle", "leave", "delete", "quit", "done", "lost"}

LEMMA TypeInit == Init => TypeOK
<1> SUFFICES ASSUME Init PROVE TypeOK
  OBVIOUS
<1>1. /\ kind \in Kinds /\ up \in BOOLEAN /\ linked \in BOOLEAN
      /\ host \in [Ends -> {"none", "live", "deleted"}]
  BY DEF Init
<1>9. Attempts[kind] \in Nat \ {0} /\ tries = 0
  BY <1>1, ConstantsAssumption DEF Init
<1>0. mut \in [Ends -> Procs \cup {NoOne}]
  BY DEF Init
<1>2. /\ listed \in [Ends -> BOOLEAN] /\ closed \in [Ends -> BOOLEAN] /\ rst \in [Ends -> BOOLEAN]
      /\ dead \in [Ends -> BOOLEAN] /\ exited \in [Ends -> BOOLEAN]
  BY DEF Init
<1>3. <<>> \in Seq(Parts) /\ Len(<<>>) = 0 /\ <<>> \in Seq(Messages) 
      /\ <<>> \in Seq(Messages \cup {Garbled})
  BY EmptySeq
<1>4. wire \in [Ends -> Seq(Parts)] /\ partial \in [Ends -> Seq(Parts)]
      /\ frame \in [Procs -> Seq(Parts)] /\ sent \in [Ends -> Nat]
      /\ got \in [Ends -> Seq(Messages \cup {Garbled})]
  BY <1>3 DEF Init
<1>5. (\A e \in Ends : Len(wire[e]) <= Buffer) /\ \A e \in Ends : Len(partial[e]) <= 3
  BY <1>3, ConstantsAssumption DEF Init
<1>6. pc \in [Procs -> PcValues]
  BY DEF Init, PcValues
<1>7. <<Open>> \in Seq(Messages)
  BY Roles
<1>8. left \in [Senders -> Seq(Messages)]
  BY <1>3, <1>7, ConstantsAssumption DEF Init
<1> QED
  BY <1>0, <1>1, <1>2, <1>4, <1>5, <1>6, <1>8, <1>9 DEF TypeOK, PcValues

LEMMA CloseType ==
  ASSUME TypeOK, NEW e \in Ends, Close(e)
  PROVE  /\ closed' \in [Ends -> BOOLEAN] /\ rst' \in [Ends -> BOOLEAN]
         /\ wire' \in [Ends -> Seq(Parts)] /\ \A d \in Ends : Len(wire'[d]) <= Buffer
<1>1. Peer(e) \in Ends
  BY Roles
<1>2. closed' \in [Ends -> BOOLEAN]
  BY DEF TypeOK, Close
<1>3. rst' = [rst EXCEPT ![Peer(e)] = rst[Peer(e)] \/ wire[Peer(e)] # <<>>] /\ rst \in [Ends -> BOOLEAN]
  BY DEF TypeOK, Close
<1>4. rst' \in [Ends -> BOOLEAN]
  BY <1>1, <1>3, Zenon
<1>5. wire' = [wire EXCEPT ![Peer(e)] = <<>>] /\ <<>> \in Seq(Parts) /\ Len(<<>>) = 0
  BY EmptySeq DEF Close
<1>6. wire' \in [Ends -> Seq(Parts)]
  BY <1>5 DEF TypeOK
<1>7. \A d \in Ends : Len(wire'[d]) <= Buffer
  BY <1>5, ConstantsAssumption DEF TypeOK
<1> QED
  BY <1>2, <1>4, <1>6, <1>7

LEMMA EndType ==
  ASSUME TypeOK, NEW e \in Ends, EndProcess(e), exited' \in [Ends -> BOOLEAN]
  PROVE  TypeOK'
<1>1. dead' \in [Ends -> BOOLEAN] /\ up' \in BOOLEAN
  BY DEF TypeOK, EndProcess
<1>2. /\ closed' \in [Ends -> BOOLEAN] /\ rst' \in [Ends -> BOOLEAN]
      /\ wire' \in [Ends -> Seq(Parts)] /\ \A d \in Ends : Len(wire'[d]) <= Buffer
  BY CloseType DEF TypeOK, EndProcess, tcp
<1>3. pc' \in [Procs -> PcValues]
  BY DEF TypeOK, EndProcess, PcValues
<1> QED
  BY <1>1, <1>2, <1>3 DEF TypeOK, EndProcess, PcValues, setup, objects, traffic

LEMMA TypeNext == TypeOK /\ Shape /\ [Next]_vars => TypeOK'
<1> SUFFICES ASSUME TypeOK, Shape, [Next]_vars PROVE TypeOK'
  OBVIOUS
<1>0. /\ \A p \in Procs : End(p) \in Ends
      /\ \A e \in Ends : Peer(e) \in Ends /\ End(e) = e /\ e \in Procs
      /\ "a" \in Ends /\ "b" \in Ends /\ Creator \in Procs
      /\ \A s \in Senders : s \in Procs
  BY Roles
<1>t. /\ pc \in [Procs -> PcValues] /\ frame \in [Procs -> Seq(Parts)]
      /\ host \in [Ends -> {"none", "live", "deleted"}] /\ mut \in [Ends -> Procs \cup {NoOne}]
      /\ sent \in [Ends -> Nat]
      /\ partial \in [Ends -> Seq(Parts)] /\ \A e \in Ends : Len(partial[e]) <= 3
  BY DEF TypeOK, PcValues
<1>w. wire \in [Ends -> Seq(Parts)] /\ \A e \in Ends : Len(wire[e]) <= Buffer
  BY DEF TypeOK
<1>1. CASE UNCHANGED vars
  BY <1>0, <1>1 DEF TypeOK, vars
<1>2. CASE Listen
  BY <1>0, <1>2 DEF Listen, TypeOK, setup, objects, tcp, traffic
<1>3. CASE Connect
  <2>1. pc' \in [Procs -> PcValues]
    BY <1>0, <1>3 DEF Connect, Goto, TypeOK, PcValues
  <2>2. tries' \in 0 .. Attempts[kind] /\ linked' \in BOOLEAN
    <3>1. tries \in 0 .. Attempts[kind] /\ up \in BOOLEAN /\ Attempts[kind] \in Nat
      BY ConstantsAssumption DEF TypeOK
    <3>2. pc[Creator] = "connect" /\ tries' = tries + 1 /\ linked' = up /\ kind' = kind
      BY <1>3 DEF Connect
    <3> QED
      BY <3>1, <3>2 DEF Shape
  <2> QED
    BY <1>0, <1>3, <2>1, <2>2 DEF Connect, TypeOK, PcValues, objects, tcp, process, traffic
<1>4. CASE NewHost \/ NewClient \/ Accept
  <2>1. pc' \in [Procs -> PcValues]
    <3>1. CASE NewHost
      BY <1>0, <1>t, <3>1 DEF NewHost, PcValues
    <3>2. CASE NewClient \/ Accept
      BY ZenonT(60), <1>0, <1>t, <3>2 DEF NewClient, Accept, Goto, PcValues
    <3> QED
      BY <1>4, <3>1, <3>2
  <2>2. host' \in [Ends -> {"none", "live", "deleted"}]
    BY <1>0, <1>4 DEF NewHost, NewClient, Accept, TypeOK, objects
  <2> QED
    BY <1>0, <1>4, <2>1, <2>2 
       DEF NewHost, NewClient, Accept, TypeOK, PcValues, setup, objects, tcp, process, traffic
<1>5. CASE Add
  BY <1>0, <1>5 DEF Add, Goto, TypeOK, setup, objects, tcp, process, traffic
<1>6. ASSUME NEW s \in Senders, StartSend(s) PROVE TypeOK'
  <2>1. /\ Head(left[s]) \in Messages /\ Tail(left[s]) \in Seq(Messages)
    BY <1>0, <1>6, HeadTailProperties DEF StartSend, TypeOK
  <2>2. Frame(Head(left[s])) \in Seq(Parts)
    BY <2>1, Words
  <2> QED
    BY <1>0, <1>6, <2>1, <2>2 DEF StartSend, Goto, TypeOK, setup, objects, tcp, process, traffic
<1>7. ASSUME NEW p \in Procs, Lock(p) \/ Lost(p) PROVE TypeOK'
  <2>1. pc' \in [Procs -> PcValues]
    <3>1. \E l \in {"write", "lost"} : pc' = [pc EXCEPT ![p] = l]
      BY <1>7 DEF Lock, Lost, Goto
    <3> QED
      BY <1>t, <3>1 DEF PcValues
  <2>2. mut' \in [Ends -> Procs \cup {NoOne}]
    BY <1>0, <1>7 DEF Lock, Lost, TypeOK
  <2> QED
    BY <1>0, <1>7, <2>1, <2>2 DEF Lock, Lost, TypeOK, PcValues, setup, objects, tcp, process, traffic
<1>8. ASSUME NEW p \in Procs, Write(p) PROVE TypeOK'
  <2> DEFINE e == End(p)
  <2>0. /\ e \in Ends /\ pc[p] = "write"
        /\ \/ Len(wire[e]) < Buffer /\ wire' = [wire EXCEPT ![e] = Append(wire[e], Head(frame[p]))]
              /\ rst' = rst
           \/ wire' = wire /\ \E r \in BOOLEAN : rst' = [rst EXCEPT ![e] = r]
        /\ frame' = [frame EXCEPT ![p] = Tail(frame[p])]
        /\ \E n \in {sent[e], sent[e] + 1} : sent' = [sent EXCEPT ![e] = n]
        /\ \E l \in {"unlock", "write"} : pc' = [pc EXCEPT ![p] = l]
    BY <1>0, <1>8 DEF Write, Goto
  <2>1. Head(frame[p]) \in Parts /\ Tail(frame[p]) \in Seq(Parts)
    BY <1>0, <2>0, Written DEF Sends, Shape, TypeOK
  <2>2. rst' \in [Ends -> BOOLEAN]
    BY <1>0, <2>0 DEF TypeOK
  <2>3. /\ Append(wire[e], Head(frame[p])) \in Seq(Parts)
        /\ Len(Append(wire[e], Head(frame[p]))) = Len(wire[e]) + 1
        /\ Len(wire[e]) \in Nat
    BY <1>0, <1>w, <2>0, <2>1, AppendProperties, LenProperties
  <2>4. wire' \in [Ends -> Seq(Parts)]
    BY <1>0, <1>w, <2>0, <2>3
  <2>5. \A d \in Ends : Len(wire'[d]) <= Buffer
    <3>1. (Buffer \in Nat /\ Len(wire[e]) + 1 <= Buffer) \/ wire' = wire
      BY <2>0, <2>3, ConstantsAssumption
    <3> QED
      BY <1>w, <2>0, <2>3, <3>1
  <2>6. frame' \in [Procs -> Seq(Parts)]
    BY <1>t, <2>0, <2>1
  <2>7. sent' \in [Ends -> Nat]
    <3>1. sent[e] \in Nat /\ sent[e] + 1 \in Nat
      BY <1>t, <2>0
    <3> QED
      BY <1>t, <2>0, <3>1
  <2>8. pc' \in [Procs -> PcValues]
    BY <1>t, <2>0 DEF PcValues
  <2> QED
    BY <1>0, <1>8, <2>2, <2>4, <2>5, <2>6, <2>7, <2>8 DEF Write, TypeOK, PcValues, setup, objects, process
<1>9. ASSUME NEW p \in Procs, WriteThrows(p) PROVE TypeOK'
  BY <1>0, <1>9, EmptySeq DEF WriteThrows, Goto, TypeOK, setup, objects, tcp, process, traffic
<1>10. CASE ClientThrows
  BY <1>0, <1>10, EmptySeq DEF ClientThrows, Goto, TypeOK, setup, objects, tcp, process, traffic
<1>11. ASSUME NEW p \in Procs, Unlock(p) PROVE TypeOK'
  BY <1>0, <1>11 DEF Unlock, Unlocked, TypeOK, setup, objects, tcp, process, traffic
<1>12. ASSUME NEW e \in Ends, Read(e) PROVE TypeOK'
  <2>1. Head(wire[Peer(e)]) \in Parts /\ Tail(wire[Peer(e)]) \in Seq(Parts)
        /\ Len(Tail(wire[Peer(e)])) = Len(wire[Peer(e)]) - 1 /\ Len(wire[Peer(e)]) \in Nat
    BY <1>0, <1>12, HeadTailProperties, LenProperties DEF Read, TypeOK
  <2>6. partial[e] \in Seq(Parts) /\ Len(partial[e]) \in Nat /\ Len(partial[e]) < 3
    BY <1>0, <1>12, LenProperties DEF Read, Shape, TypeOK
  <2>2. /\ Append(partial[e], Head(wire[Peer(e)])) \in Seq(Parts)
        /\ Len(Append(partial[e], Head(wire[Peer(e)]))) = Len(partial[e]) + 1
    BY <2>1, <2>6, AppendProperties
  <2>3. wire' \in [Ends -> Seq(Parts)] /\ partial' \in [Ends -> Seq(Parts)]
    BY <1>0, <1>12, <2>1, <2>2 DEF Read, TypeOK
  <2>4. \A d \in Ends : Len(wire'[d]) <= Buffer
    BY <1>0, <1>12, <2>1, ConstantsAssumption DEF Read, TypeOK
  <2>5. \A d \in Ends : Len(partial'[d]) <= 3
    BY <1>0, <1>12, <2>2, <2>6 DEF Read, TypeOK
  <2> QED
    BY <1>0, <1>12, <2>3, <2>4, <2>5 DEF Read, Goto, TypeOK, setup, objects, process, traffic
<1>13. ASSUME NEW e \in Ends, NEW m \in Messages \cup {Garbled}, Received(e, m)
       PROVE  /\ got' \in [Ends -> Seq(Messages \cup {Garbled})]
              /\ partial' \in [Ends -> Seq(Parts)] /\ \A d \in Ends : Len(partial'[d]) <= 3
  <2>1. Append(got[e], m) \in Seq(Messages \cup {Garbled})
    BY AppendProperties DEF TypeOK
  <2>2. <<>> \in Seq(Parts) /\ Len(<<>>) = 0
    BY EmptySeq
  <2>3. got' = [got EXCEPT ![e] = Append(got[e], m)] /\ partial' = [partial EXCEPT ![e] = <<>>]
    BY <1>0, <1>13 DEF Received
  <2>4. got' \in [Ends -> Seq(Messages \cup {Garbled})]
    BY <2>1, <2>3 DEF TypeOK
  <2>5. partial' \in [Ends -> Seq(Parts)] /\ \A d \in Ends : Len(partial'[d]) <= 3
    BY <2>2, <2>3 DEF TypeOK
  <2> QED
    BY <2>4, <2>5
<1>14. ASSUME NEW e \in Ends, NEW m \in Messages \cup {Garbled}, HandleMessage(e, m) PROVE TypeOK'
  BY <1>0, <1>13, <1>14 DEF HandleMessage, Received, Goto, TypeOK, setup, tcp, process
<1>15. ASSUME NEW e \in Ends, HandleCommand(e) PROVE TypeOK'
  <2>1. Frame(Reply) \in Seq(Parts)
    BY Words, Roles
  <2>2. listed' \in [Ends -> BOOLEAN]
    BY <1>0, <1>15 DEF HandleCommand, TypeOK
  <2>3. /\ frame' = frame \/ frame' = [frame EXCEPT ![e] = Frame(Reply)]
        /\ \E l \in {"lock", "leave", "read"} : pc' = [pc EXCEPT ![e] = l]
    BY <1>0, <1>15 DEF HandleCommand, Goto
  <2>4. frame' \in [Procs -> Seq(Parts)]
    BY <2>1, <2>3 DEF TypeOK
  <2>5. pc' \in [Procs -> PcValues]
    BY <2>3 DEF TypeOK, PcValues
  <2>6. /\ got' \in [Ends -> Seq(Messages \cup {Garbled})]
        /\ partial' \in [Ends -> Seq(Parts)] /\ \A d \in Ends : Len(partial'[d]) <= 3
        /\ UNCHANGED <<setup, host, mut, tcp, process, left, sent>>
    BY <1>13, <1>15, Roles DEF HandleCommand, Received
  <2> QED
    BY <2>2, <2>4, <2>5, <2>6 DEF TypeOK, PcValues, setup, tcp, process
<1>16. ASSUME NEW e \in Ends, HandleReply(e) PROVE TypeOK'
  BY <1>13, <1>16, Roles DEF HandleReply, Received, Goto, TypeOK, setup, tcp, process
<1>17. ASSUME NEW e \in Ends, ReadEnds(e) \/ ReadFails(e) PROVE TypeOK'
  <2>1. \E l \in {"quit", "leave"} : pc' = [pc EXCEPT ![e] = l]
    BY <1>0, <1>17 DEF ReadEnds, ReadFails, Ended, Goto
  <2>2. pc' \in [Procs -> PcValues]
    BY <2>1 DEF TypeOK, PcValues
  <2>3. <<>> \in Seq(Parts) /\ Len(<<>>) = 0
    BY EmptySeq
  <2>4. partial' \in [Ends -> Seq(Parts)] /\ \A d \in Ends : Len(partial'[d]) <= 3
    <3>1. partial' = partial \/ partial' = [partial EXCEPT ![e] = <<>>]
      BY <1>17 DEF ReadEnds, ReadFails
    <3>2. partial' \in [Ends -> Seq(Parts)]
      BY <1>t, <2>3, <3>1
    <3>3. \A d \in Ends : partial'[d] = partial[d] \/ partial'[d] = <<>>
      BY <1>t, <3>1
    <3> QED
      BY <1>t, <2>3, <3>2, <3>3
  <2> QED
    BY <1>0, <1>17, <2>2, <2>4 
       DEF ReadEnds, ReadFails, TypeOK, PcValues, setup, objects, tcp, process, traffic
<1>18. ASSUME NEW e \in Ends, Leave(e) PROVE TypeOK'
  <2>1. listed' \in [Ends -> BOOLEAN]
    BY <1>0, <1>18, Zenon DEF Leave, Unlisted, TypeOK
  <2> QED
    BY <1>0, <1>18, <2>1 DEF Leave, Goto, TypeOK, setup, tcp, process, traffic
<1>19. ASSUME NEW e \in Ends, Delete(e) PROVE TypeOK'
  BY <1>0, <1>19, CloseType DEF Delete, Goto, TypeOK, setup, process, traffic
<1>20. ASSUME NEW p \in Procs, Quit(p) PROVE TypeOK'
  <2>1. exited' \in [Ends -> BOOLEAN]
    BY <1>0, <1>20 DEF Quit, TypeOK
  <2> QED
    BY <1>0, <1>20, <2>1, EndType DEF Quit
<1>21. ASSUME NEW e \in Ends, Die(e) PROVE TypeOK'
  BY <1>0, <1>21, EndType DEF Die, TypeOK
<1> QED
  BY <1>0, <1>1, <1>2, <1>3, <1>4, <1>5, <1>6, <1>7, <1>8, <1>9, <1>10, <1>11, <1>12, <1>14, <1>15, <1>16,
     <1>17, <1>18, <1>19, <1>20, <1>21 DEF Next, Step

-----------------------------------------------------------------------------
(* Control: threads, mutexes, lists.                                       *)

Control == Shape /\ Alone /\ Gone /\ Locks /\ Lists

(* Thread p goes on to l, the others stay where they are.                  *)
To(p, l) == \A q \in Procs : pc'[q] = IF q = p THEN l ELSE pc[q]

LEMMA GotoTo == ASSUME TypeOK, NEW p \in Procs, NEW l, Goto(p, l) PROVE To(p, l)
BY DEF TypeOK, Goto, To

LEMMA OneLess == ASSUME NEW m, NEW n \in Nat, m = n + 1, m = 3 PROVE n = 2
OBVIOUS

LEMMA ControlNext == TypeOK /\ Control /\ [Next]_vars => Control'
<1> SUFFICES ASSUME TypeOK, Control, [Next]_vars PROVE Control'
  OBVIOUS
<1>0. Shape /\ Alone /\ Gone /\ Locks /\ Lists
  BY DEF Control
<1>t. /\ pc \in [Procs -> PcValues] /\ frame \in [Procs -> Seq(Parts)]
      /\ left \in [Senders -> Seq(Messages)] /\ host \in [Ends -> {"none", "live", "deleted"}]
      /\ mut \in [Ends -> Procs \cup {NoOne}] /\ listed \in [Ends -> BOOLEAN]
      /\ closed \in [Ends -> BOOLEAN] /\ rst \in [Ends -> BOOLEAN] /\ dead \in [Ends -> BOOLEAN]
      /\ wire \in [Ends -> Seq(Parts)] /\ partial \in [Ends -> Seq(Parts)]
  BY DEF TypeOK, PcValues
<1>m. \A e \in Ends : mut[e] # NoOne => mut[e] \in Procs
  BY DEF TypeOK
<1>r. \A e \in Ends : rst[e] => closed[Peer(e)]
  BY <1>0 DEF Gone
<1>h. \A p \in Procs : Holds(p) => ~closed[End(p)] /\ mut[End(p)] = p
  BY <1>0 DEF Gone, Locks
<1>g. /\ \A e \in Ends : dead[e] => \A p \in Procs : End(p) = e => pc[p] = "done"
      /\ \A e \in Ends : closed[e] => pc[e] = "done" /\ (dead[e] \/ host[e] = "deleted")
      /\ \A e \in Ends : host[e] = "deleted" => pc[e] = "done"
  BY <1>0 DEF Gone
<1>1. CASE Listen \/ UNCHANGED vars
  <2>1. UNCHANGED <<kind, tries, pc, partial, frame, left, listed, dead, closed, host, rst, mut, wire>>
    BY <1>1 DEF Listen, vars, setup, objects, tcp, traffic
  <2>2. Shape' /\ Alone'
    BY <1>0, <2>1 DEF Shape, Sends, Alone, Client
  <2>3. Gone' /\ Locks'
    BY <1>0, <2>1 DEF Gone, Holds, Locks, LockKept, Abandoned
  <2>4. Lists'
    BY <1>0, <2>1 DEF Lists, Early, Silent
  <2> QED
    BY <2>2, <2>3, <2>4 DEF Control
<1>2. CASE Connect
  <2>1. /\ pc[Creator] = "connect"
        /\ \E l \in {"new", "connect", "quit", "done"} : To(Creator, l) /\ (l = "connect" => tries' < Attempts[kind])
        /\ UNCHANGED <<kind, host, listed, mut, closed, rst, dead, exited, wire,
                       partial, frame, left, sent, got>>
    <3>1. pc[Creator] = "connect" /\ tries < Attempts[kind] /\ tries' = tries + 1
      BY <1>0, <1>2 DEF Connect, Shape
    <3>2. tries \in Nat /\ Attempts[kind] \in Nat
      BY ConstantsAssumption DEF TypeOK
    <3>3. \E l \in {"new", "connect", "quit", "done"} :
            Goto(Creator, l) /\ (l = "connect" => ~LastAttempt)
      BY <1>2 DEF Connect
    <3>4. ~LastAttempt => tries' < Attempts[kind]
      BY <3>1, <3>2 DEF LastAttempt
    <3> QED
      BY <1>2, <3>1, <3>3, <3>4, GotoTo, Roles DEF Connect, objects, tcp, process, traffic
  <2>2. Shape'
    BY <1>0, <2>1, Roles DEF Shape, To, Sends, Complete
  <2>3. Alone'
    BY <1>0, <2>1, Roles DEF Alone, Client, To
  <2>4. Gone'
    BY <1>0, <2>1, Roles DEF Gone, Holds, To
  <2>5. Locks'
    BY <1>0, <1>m, <2>1, Roles DEF Locks, LockKept, Abandoned, Holds, To
  <2>6. Lists'
    BY <1>0, <2>1, Roles DEF Lists, Early, Silent, To
  <2> QED
    BY <2>2, <2>3, <2>4, <2>5, <2>6 DEF Control
<1>3. CASE NewHost
  <2>0. pc["a"] = "none" /\ ~closed["a"] /\ ~dead["a"] /\ host["a"] # "deleted"
    BY <1>0, <1>3, Roles DEF NewHost, Alone, Gone
  <2>1. /\ pc[Creator] = "new" /\ ~Client
        /\ \A q \in Procs : pc'[q] = IF q = "a" THEN "read" ELSE IF q = Creator THEN "add" ELSE pc[q]
        /\ \A e \in Ends : host'[e] = IF e = "a" THEN "live" ELSE host[e]
        /\ UNCHANGED <<kind, up, tries, linked, listed, mut, closed, rst, dead, exited,
                       wire, partial, frame, left, sent, got>>
    BY <1>t, <1>3, GotoTo, Roles DEF NewHost, setup, objects, tcp, process, traffic
  <2>2. Shape'
    BY <1>0, <2>0, <2>1, Roles DEF Shape, To, Sends, Complete
  <2>3. Alone'
    BY <1>0, <2>1, Roles DEF Alone, Client, To
  <2>4. Gone'
    BY <1>0, <2>0, <2>1, Roles DEF Gone, Holds, To
  <2>5. Locks'
    BY <1>0, <1>m, <2>0, <2>1, Roles DEF Locks, LockKept, Abandoned, Holds, To
  <2>6. Lists'
    BY <1>0, <2>0, <2>1, Roles DEF Lists, Early, Silent, To
  <2> QED
    BY <2>2, <2>3, <2>4, <2>5, <2>6 DEF Control
<1>4. CASE NewClient
  <2>1. /\ pc[Creator] = "new" /\ Client
        /\ To(Creator, "idle")
        /\ UNCHANGED <<kind, up, tries, linked, host, listed, mut, closed, rst, dead,
                       exited, wire, partial, frame, left, sent, got>>
    BY <1>4, GotoTo, Roles DEF NewClient, setup, objects, tcp, process, traffic
  <2>2. Shape'
    BY <1>0, <2>1, Roles DEF Shape, To, Sends, Complete
  <2>3. Alone'
    BY <1>0, <2>1, Roles DEF Alone, Client, To
  <2>4. Gone'
    BY <1>0, <2>1, Roles DEF Gone, Holds, To
  <2>5. Locks'
    BY <1>0, <1>m, <2>1, Roles DEF Locks, LockKept, Abandoned, Holds, To
  <2>6. Lists'
    BY <1>0, <2>1, Roles DEF Lists, Early, Silent, To
  <2> QED
    BY <2>2, <2>3, <2>4, <2>5, <2>6 DEF Control
<1>5. CASE Add
  <2>1. /\ pc[Creator] = "add"
        /\ To(Creator, "idle")
        /\ \A e \in Ends : listed'[e] = IF e = "a" THEN TRUE ELSE listed[e]
        /\ UNCHANGED <<kind, up, tries, linked, host, mut, closed, rst, dead, exited,
                       wire, partial, frame, left, sent, got>>
    BY <1>t, <1>5, GotoTo, Roles DEF Add, setup, objects, tcp, process, traffic
  <2>2. Shape'
    BY <1>0, <2>1, Roles DEF Shape, To, Sends, Complete
  <2>3. Alone'
    BY <1>0, <2>1, Roles DEF Alone, Client, To
  <2>4. Gone'
    BY <1>0, <2>1, Roles DEF Gone, Holds, To
  <2>5. Locks'
    BY <1>0, <1>m, <2>1, Roles DEF Locks, LockKept, Abandoned, Holds, To
  <2>6. Lists'
    <3>1. Silent /\ ~Early'
      BY <1>0, <2>1, Roles DEF Lists, Early, To
    <3>2. pc["a"] = "delete" \/ host["a"] = "deleted" => dead["b"]
      BY <3>1 DEF Silent
    <3> QED
      BY <1>0, <2>1, <3>1, <3>2, Roles DEF Lists, To
  <2> QED
    BY <2>2, <2>3, <2>4, <2>5, <2>6 DEF Control
<1>6. CASE Accept
  <2>1. /\ pc["b"] = "none"
        /\ To("b", "read")
        /\ \A e \in Ends : host'[e] = IF e = "b" THEN "live" ELSE host[e]
        /\ UNCHANGED <<kind, up, tries, linked, listed, mut, closed, rst, dead, exited,
                       wire, partial, frame, left, sent, got>>
    BY <1>t, <1>6, GotoTo, Roles DEF Accept, setup, objects, tcp, process, traffic
  <2>2. Shape'
    BY <1>0, <2>1, Roles DEF Shape, To, Sends, Complete
  <2>3. Alone'
    BY <1>0, <2>1, Roles DEF Alone, Client, To
  <2>4. Gone'
    BY <1>0, <2>1, Roles DEF Gone, Holds, To
  <2>5. Locks'
    BY <1>0, <1>m, <2>1, Roles DEF Locks, LockKept, Abandoned, Holds, To
  <2>6. Lists'
    BY <1>0, <2>1, Roles DEF Lists, Early, Silent, To
  <2> QED
    BY <2>2, <2>3, <2>4, <2>5, <2>6 DEF Control
<1>7. ASSUME NEW p \in Procs, Lock(p) PROVE Control'
  <2>1. /\ pc[p] = "lock" /\ host[End(p)] # "deleted" /\ mut[End(p)] = NoOne
        /\ To(p, "write")
        /\ \A e \in Ends : mut'[e] = IF e = End(p) THEN p ELSE mut[e]
        /\ UNCHANGED <<kind, up, tries, linked, host, listed, closed, rst, dead, exited, wire,
                       partial, frame, left, sent, got>>
    BY <1>t, <1>7, GotoTo, Roles DEF Lock, Free, setup, objects, tcp, process, traffic
  <2>2. Shape'
    BY <1>0, <2>1, Roles DEF Shape, To, Sends, Complete
  <2>3. Alone'
    BY <1>0, <2>1, Roles DEF Alone, Client, To
  <2>4. Gone'
    BY <1>0, <2>1, Roles DEF Gone, Holds, To
  <2>5. Locks'
    BY <1>0, <1>m, <2>1, Roles DEF Locks, LockKept, Abandoned, Holds, To
  <2>6. Lists'
    BY <1>0, <2>1, Roles DEF Lists, Early, Silent, To
  <2> QED
    BY <2>2, <2>3, <2>4, <2>5, <2>6 DEF Control
<1>8. ASSUME NEW p \in Procs, Lost(p) PROVE Control'
  <2>1. /\ pc[p] = "lock"
        /\ To(p, "lost")
        /\ UNCHANGED <<kind, up, tries, linked, host, listed, mut, closed, rst, dead,
                       exited, wire, partial, frame, left, sent, got>>
    BY <1>8, GotoTo, Roles DEF Lost, setup, objects, tcp, process, traffic
  <2>2. Shape'
    BY <1>0, <2>1, Roles DEF Shape, To, Sends, Complete
  <2>3. Alone'
    BY <1>0, <2>1, Roles DEF Alone, Client, To
  <2>4. Gone'
    BY <1>0, <2>1, Roles DEF Gone, Holds, To
  <2>5. Locks'
    BY <1>0, <1>m, <2>1, Roles DEF Locks, LockKept, Abandoned, Holds, To
  <2>6. Lists'
    BY <1>0, <2>1, Roles DEF Lists, Early, Silent, To
  <2> QED
    BY <2>2, <2>3, <2>4, <2>5, <2>6 DEF Control
<1>9. ASSUME NEW s \in Senders, StartSend(s) PROVE Control'
  <2>0. Head(left[s]) \in Messages
    BY <1>t, <1>9, HeadTailProperties DEF StartSend
  <2>1. /\ s \in Procs /\ pc[s] = "idle" /\ left[s] # <<>> /\ (s = Creator \/ listed[End(s)])
        /\ To(s, "lock")
        /\ \A q \in Procs : frame'[q] = IF q = s THEN Frame(Head(left[s])) ELSE frame[q]
        /\ \A q \in Senders : left'[q] = IF q = s THEN Tail(left[s]) ELSE left[q]
        /\ UNCHANGED <<kind, up, tries, linked, host, listed, mut, closed, rst, dead,
                       exited, wire, partial, sent, got>>
    BY <1>t, <1>9, GotoTo, Roles DEF StartSend, setup, objects, tcp, process
  <2>2. Shape'
    <3>1. Rest(frame'[s]) /\ frame'[s][1].part = "head"
      BY <2>0, <2>1, Words
    <3> QED
      BY <1>0, <2>1, <3>1, Roles DEF Shape, To, Sends, Complete
  <2>3. Alone'
    BY <1>0, <2>1, Roles DEF Alone, Client, To
  <2>4. Gone'
    BY <1>0, <2>1, Roles DEF Gone, Holds, To
  <2>5. Locks'
    BY <1>0, <1>m, <2>1, Roles DEF Locks, LockKept, Abandoned, Holds, To
  <2>6. Lists'
    BY <1>0, <2>1, Roles DEF Lists, Early, Silent, To
  <2> QED
    BY <2>2, <2>3, <2>4, <2>5, <2>6 DEF Control
<1>10. ASSUME NEW p \in Procs, Write(p) PROVE Control'
  <2>0. /\ Len(frame[p]) # 1 => Rest(Tail(frame[p])) /\ Tail(frame[p])[1].part # "head"
    BY <1>0, <1>10, Written DEF Write, Shape, Sends, TypeOK
  <2>1. /\ pc[p] = "write"
        /\ To(p, IF Len(frame[p]) = 1 THEN "unlock" ELSE "write")
        /\ \A q \in Procs : frame'[q] = IF q = p THEN Tail(frame[p]) ELSE frame[q]
        /\ \A e \in Ends : rst'[e] => rst[e] \/ closed[Peer(e)]
        /\ UNCHANGED <<kind, up, tries, linked, host, listed, mut, closed, dead,
                       exited, partial, left, got>>
    <3>1. \A e \in Ends : rst'[e] => rst[e] \/ closed[Peer(e)]
      <4>1. \/ rst' = rst
            \/ closed[Peer(End(p))] /\ \E b \in BOOLEAN : rst' = [rst EXCEPT ![End(p)] = b]
        BY <1>10 DEF Write
      <4> QED
        <5>1. \A e \in Ends : \A b \in BOOLEAN :
                rst' = [rst EXCEPT ![End(p)] = b] => (rst'[e] => rst[e] \/ e = End(p))
          BY <1>t
        <5> QED
          BY <4>1, <5>1, Roles
    <3> QED
      BY <1>t, <1>10, <3>1, GotoTo, Roles DEF Write, setup, objects, process
  <2>2. Shape'
    BY <1>0, <2>0, <2>1, Roles DEF Shape, To, Sends, Complete
  <2>3. Alone'
    BY <1>0, <2>1, Roles DEF Alone, Client, To
  <2>4. Gone'
    BY <1>0, <2>1, Roles DEF Gone, Holds, To
  <2>5. Locks'
    BY <1>0, <1>m, <2>1, Roles DEF Locks, LockKept, Abandoned, Holds, To
  <2>6. Lists'
    BY <1>0, <2>1, Roles DEF Lists, Early, Silent, To
  <2> QED
    BY <2>2, <2>3, <2>4, <2>5, <2>6 DEF Control
<1>11. ASSUME NEW p \in Procs, Unlock(p) PROVE Control'
  <2>0. kind = "request" /\ p \notin Ends => p = Creator /\ End(p) = "a" /\ pc["a"] = "none"
    BY <1>0, <1>11, Roles DEF Alone, Client, Unlock
  <2>9. pc[p] = "unlock" /\ mut[End(p)] = p
    BY <1>0, <1>11 DEF Unlock, Locks, Holds
  <2>8. \A e \in Ends : mut'[e] = IF e = End(p) THEN NoOne ELSE mut[e]
    BY <1>t, <1>11 DEF Unlock, Unlocked
  <2>7. \A q \in Procs : pc'[q] = IF q = p THEN IF p \in Ends THEN "read" ELSE
                 IF kind = "request" THEN "done" ELSE IF kind = "order" THEN "quit" ELSE "idle"
                 ELSE IF q = "a" /\ p \notin Ends /\ kind = "request" THEN "read" ELSE pc[q]
    <3>1. CASE p \in Ends
      BY <1>t, <1>11, <3>1, Roles DEF Unlock
    <3>2. CASE p \notin Ends /\ kind = "request"
      <4>1. pc' = [pc EXCEPT ![p] = "done", !["a"] = "read"] /\ p # "a"
        BY <1>11, <3>2, Roles DEF Unlock
      <4> QED
        BY <1>t, <3>2, <4>1
    <3>3. CASE p \notin Ends /\ kind # "request"
      BY <1>t, <1>11, <3>3, Roles DEF Unlock
    <3> QED
      BY <3>1, <3>2, <3>3
  <2>1. /\ pc[p] = "unlock" /\ mut[End(p)] = p
        /\ \A e \in Ends : mut'[e] = IF e = End(p) THEN NoOne ELSE mut[e]
        /\ \A q \in Procs : pc'[q] = IF q = p THEN IF p \in Ends THEN "read" ELSE
                 IF kind = "request" THEN "done" ELSE IF kind = "order" THEN "quit" ELSE "idle"
                 ELSE IF q = "a" /\ p \notin Ends /\ kind = "request" THEN "read" ELSE pc[q]
        /\ UNCHANGED <<kind, up, tries, linked, host, listed, closed, rst, dead, exited, wire,
                       partial, frame, left, sent, got>>
    BY <1>11, <2>7, <2>8, <2>9 DEF Unlock, setup, objects, tcp, process, traffic
  <2>2. Shape'
    BY <1>0, <2>0, <2>1, Roles DEF Shape, Sends, Complete
  <2>3. Alone'
    BY <1>0, <2>1, Roles DEF Alone, Client
  <2>4. Gone'
    BY <1>0, <2>1, Roles DEF Gone, Holds, Alone, Client
  <2>5. Locks'
    BY <1>0, <1>m, <2>1, <2>0, Roles DEF Locks, LockKept, Abandoned, Holds
  <2>6. Lists'
    BY <1>0, <2>1, Roles DEF Lists, Early, Silent, Alone, Client
  <2> QED
    BY <2>2, <2>3, <2>4, <2>5, <2>6 DEF Control
<1>12. ASSUME NEW p \in Procs, WriteThrows(p) PROVE Control'
  <2>1. /\ pc[p] = "write" /\ rst[End(p)] /\ ~(Client /\ p = Creator)
        /\ To(p, IF p \in Ends THEN "leave" ELSE "idle")
        /\ \A q \in Procs : frame'[q] = IF q = p THEN <<>> ELSE frame[q]
        /\ UNCHANGED <<kind, up, tries, linked, host, listed, mut, closed, rst, dead,
                       exited, wire, partial, left, sent, got>>
    BY <1>t, <1>12, GotoTo, Roles DEF WriteThrows, setup, objects, tcp, process, traffic
  <2>2. Shape'
    BY <1>0, <2>1, Roles DEF Shape, To, Sends, Complete
  <2>3. Alone'
    BY <1>0, <2>1, Roles DEF Alone, Client, To
  <2>4. Gone'
    BY <1>0, <2>1, Roles DEF Gone, Holds, To
  <2>5. Locks'
    <3>1. closed[Peer(End(p))]
      BY <1>0, <2>1, Roles DEF Gone
    <3> QED
      BY <1>0, <1>m, <2>1, <3>1, Roles DEF Locks, LockKept, Abandoned, Holds, To
  <2>6. Lists'
    BY <1>0, <2>1, Roles DEF Lists, Early, Silent, To
  <2> QED
    BY <2>2, <2>3, <2>4, <2>5, <2>6 DEF Control
<1>13. CASE ClientThrows
  <2>1. /\ Client /\ pc[Creator] = "write" /\ rst["a"]
        /\ To(Creator, "quit")
        /\ \A q \in Procs : frame'[q] = IF q = Creator THEN <<>> ELSE frame[q]
        /\ \A e \in Ends : mut'[e] = IF e = "a" THEN NoOne ELSE mut[e]
        /\ UNCHANGED <<kind, up, tries, linked, host, listed, closed, rst, dead,
                       exited, wire, partial, left, sent, got>>
    BY <1>t, <1>13, GotoTo, Roles DEF ClientThrows, setup, objects, tcp, process, traffic
  <2>2. Shape'
    BY <1>0, <2>1, Roles DEF Shape, To, Sends, Complete
  <2>3. Alone'
    BY <1>0, <2>1, Roles DEF Alone, Client, To
  <2>4. Gone'
    BY <1>0, <2>1, Roles DEF Gone, Holds, To
  <2>5. Locks'
    BY <1>0, <1>m, <2>1, Roles DEF Locks, LockKept, Abandoned, Holds, To
  <2>6. Lists'
    BY <1>0, <2>1, Roles DEF Lists, Early, Silent, To
  <2> QED
    BY <2>2, <2>3, <2>4, <2>5, <2>6 DEF Control
<1>14. ASSUME NEW e \in Ends, Read(e) PROVE Control'
  <2>1. /\ pc[e] = "read" /\ wire[Peer(e)] # <<>>
        /\ \A d \in Ends : d # e => partial'[d] = partial[d]
        /\ To(e, IF Complete(partial'[e]) THEN "handle" ELSE "read")
        /\ UNCHANGED <<kind, up, tries, linked, host, listed, mut, closed, rst, dead,
                       exited, frame, left, sent, got>>
    BY <1>t, <1>14, GotoTo, Roles DEF Read, setup, objects, process, traffic
  <2>7. /\ Len(partial'[e]) = Len(partial[e]) + 1 /\ Len(partial[e]) \in Nat
        /\ \A i \in 1 .. Len(partial[e]) : partial'[e][i] = partial[e][i]
    <3>1. partial[e] \in Seq(Parts) /\ wire[Peer(e)] \in Seq(Parts)
      BY Roles DEF TypeOK
    <3>2. Head(wire[Peer(e)]) \in Parts
      BY <2>1, <3>1, HeadTailProperties
    <3>3. partial'[e] = Append(partial[e], Head(wire[Peer(e)]))
      BY <1>t, <1>14 DEF Read
    <3> QED
      BY <3>1, <3>2, <3>3, AppendProperties, LenProperties
  <2>8. /\ Len(partial[e]) < 3 /\ ~Complete(partial[e])
    BY <1>0, <2>1 DEF Shape
  <2>2. Shape'
    <3>1. \A d \in Ends : /\ pc'[d] \notin {"handle", "done"} => Len(partial'[d]) < 3 /\ ~Complete(partial'[d])
                          /\ pc'[d] = "handle" => Complete(partial'[d])
                          /\ Len(partial'[d]) = 3 => partial'[d][2].part # "nodata"
      <4> TAKE d \in Ends
      <4>1. CASE d = e
        <5>1. pc'[e] = IF Complete(partial'[e]) THEN "handle" ELSE "read"
          BY <2>1, Roles DEF To
        <5>2. Len(partial'[e]) = 3 => partial'[e][2].part # "nodata"
          <6>1. ASSUME Len(partial'[e]) = 3
                PROVE  Len(partial[e]) = 2 /\ partial'[e][2] = partial[e][2]
            <7>1. Len(partial[e]) = 2
              BY <2>7, <6>1, OneLess
            <7> QED
              BY <2>7, <7>1
          <6> QED
            BY <2>8, <6>1 DEF Complete
        <5>3. Len(partial'[e]) >= 3 => Complete(partial'[e])
          BY <2>7, <2>8 DEF Complete
        <5>4. Len(partial'[e]) \in Nat
          BY <2>7
        <5> HIDE DEF Complete
        <5> QED
          BY <4>1, <5>1, <5>2, <5>3, <5>4
      <4>2. CASE d # e
        BY <1>0, <2>1, <4>2, Roles DEF Shape, To
      <4> QED
        BY <4>1, <4>2
    <3>2. \A q \in Procs : Sends(q)' => Rest(frame'[q]) /\ (pc'[q] = "lock" => frame'[q][1].part = "head")
      BY <1>0, <2>1, Roles DEF Shape, To, Sends
    <3>3. /\ pc'[Creator] = "connect" => tries' < Attempts[kind']
          /\ \A q \in Procs : pc'[q] \in {"connect", "new", "add"} => q = Creator
          /\ \A q \in Senders : pc'[q] \notin {"none", "read", "handle", "leave", "delete"}
          /\ \A q \in Ends : pc'[q] # "idle"
      BY <1>0, <2>1, Roles DEF Shape, To
    <3> QED
      BY <3>1, <3>2, <3>3 DEF Shape, Sends
  <2>3. Alone'
    BY <1>0, <2>1, Roles DEF Alone, Client, To
  <2>4. Gone'
    BY <1>0, <2>1, Roles DEF Gone, Holds, To
  <2>5. Locks'
    BY <1>0, <1>m, <2>1, Roles DEF Locks, LockKept, Abandoned, Holds, To
  <2>6. Lists'
    BY <1>0, <2>1, Roles DEF Lists, Early, Silent, To
  <2> QED
    BY <2>2, <2>3, <2>4, <2>5, <2>6 DEF Control
<1>15. ASSUME NEW e \in Ends, NEW m, HandleMessage(e, m) PROVE Control'
  <2>1. /\ pc[e] = "handle"
        /\ \A d \in Ends : partial'[d] = IF d = e THEN <<>> ELSE partial[d]
        /\ To(e, IF m \in Bad THEN "leave" ELSE "read")
        /\ UNCHANGED <<kind, up, tries, linked, host, listed, mut, closed, rst, dead,
                       exited, wire, frame, left, sent>>
    BY <1>t, <1>15, GotoTo, Roles DEF HandleMessage, Received, setup, tcp, process
  <2>2. Shape'
    BY <1>0, <2>1, EmptySeq, Roles DEF Shape, To, Sends, Complete
  <2>3. Alone'
    BY <1>0, <2>1, Roles DEF Alone, Client, To
  <2>4. Gone'
    BY <1>0, <2>1, Roles DEF Gone, Holds, To
  <2>5. Locks'
    BY <1>0, <1>m, <2>1, Roles DEF Locks, LockKept, Abandoned, Holds, To
  <2>6. Lists'
    BY <1>0, <2>1, Roles DEF Lists, Early, Silent, To
  <2> QED
    BY <2>2, <2>3, <2>4, <2>5, <2>6 DEF Control
<1>16. ASSUME NEW e \in Ends, HandleReply(e) PROVE Control'
  <2>1. /\ pc[e] = "handle"
        /\ \A d \in Ends : partial'[d] = IF d = e THEN <<>> ELSE partial[d]
        /\ To(e, IF Client THEN "quit" ELSE "read")
        /\ UNCHANGED <<kind, up, tries, linked, host, listed, mut, closed, rst, dead,
                       exited, wire, frame, left, sent>>
    BY <1>t, <1>16, GotoTo, Roles DEF HandleReply, Received, setup, tcp, process
  <2>2. Shape'
    BY <1>0, <2>1, EmptySeq, Roles DEF Shape, To, Sends, Complete
  <2>3. Alone'
    BY <1>0, <2>1, Roles DEF Alone, Client, To
  <2>4. Gone'
    BY <1>0, <2>1, Roles DEF Gone, Holds, To
  <2>5. Locks'
    BY <1>0, <1>m, <2>1, Roles DEF Locks, LockKept, Abandoned, Holds, To
  <2>6. Lists'
    BY <1>0, <2>1, Roles DEF Lists, Early, Silent, To
  <2> QED
    BY <2>2, <2>3, <2>4, <2>5, <2>6 DEF Control
<1>17. ASSUME NEW e \in Ends, HandleCommand(e) PROVE Control'
  <2>1. /\ pc[e] = "handle"
        /\ \A d \in Ends : partial'[d] = IF d = e THEN <<>> ELSE partial[d]
        /\ \A d \in Ends : listed'[d] = IF d = e THEN ~Client ELSE listed[d]
        /\ \E l \in {"lock", "leave", "read"} :
              To(e, l) /\ \A q \in Procs : frame'[q] = IF q = e /\ l = "lock" THEN Frame(Reply) ELSE frame[q]
        /\ UNCHANGED <<kind, up, tries, linked, host, mut, closed, rst, dead, exited,
                       wire, left, sent>>
    <3>1. \/ Goto(e, "lock") /\ frame' = [frame EXCEPT ![e] = Frame(Reply)]
          \/ \E l \in {"leave", "read"} : Goto(e, l) /\ frame' = frame
      BY <1>17 DEF HandleCommand
    <3>2. \E l \in {"lock", "leave", "read"} :
              To(e, l) /\ \A q \in Procs : frame'[q] = IF q = e /\ l = "lock" THEN Frame(Reply) ELSE frame[q]
      <4>1. CASE Goto(e, "lock") /\ frame' = [frame EXCEPT ![e] = Frame(Reply)]
        BY <1>t, <4>1, GotoTo, Roles
      <4>2. ASSUME NEW l \in {"leave", "read"}, Goto(e, l), frame' = frame
            PROVE  To(e, l) /\ \A q \in Procs : frame'[q] = IF q = e /\ l = "lock" THEN Frame(Reply) ELSE frame[q]
        BY <4>2, GotoTo, Roles
      <4> QED
        BY <3>1, <4>1, <4>2
    <3>3. /\ pc[e] = "handle"
          /\ \A d \in Ends : partial'[d] = IF d = e THEN <<>> ELSE partial[d]
          /\ \A d \in Ends : listed'[d] = IF d = e THEN ~Client ELSE listed[d]
      BY <1>t, <1>17 DEF HandleCommand, Received
    <3> QED
      BY <1>17, <3>2, <3>3 DEF HandleCommand, Received, setup, tcp, process
  <2>2. Shape'
    <3>1. Rest(Frame(Reply)) /\ Frame(Reply)[1].part = "head" /\ Len(<<>>) = 0
      BY Words, Roles, EmptySeq
    <3>2. \A q \in Procs : pc'[q] # pc[q] => q = e
      BY <2>1 DEF To
    <3>3. \A q \in Procs : Sends(q)' => Rest(frame'[q]) /\ (pc'[q] = "lock" => frame'[q][1].part = "head")
      BY <1>0, <2>1, <3>1 DEF Shape, To, Sends
    <3> QED
      BY <1>0, <2>1, <3>1, <3>3, Roles DEF Shape, To, Sends, Complete
  <2>3. Alone'
    BY <1>0, <2>1, Roles DEF Alone, Client, To
  <2>4. Gone'
    BY <1>0, <2>1, Roles DEF Gone, Holds, To
  <2>5. Locks'
    BY <1>0, <1>m, <2>1, Roles DEF Locks, LockKept, Abandoned, Holds, To
  <2>6. Lists'
    <3>1. ~Early /\ pc[e] = "handle" /\ host[e] # "deleted"
      BY <1>0, <2>1, Roles DEF Lists, Silent, Gone
    <3>2. ~Early' /\ pc'[e] # "delete" /\ \A q \in Procs : q # e => pc'[q] = pc[q]
      BY <1>0, <2>1, <3>1, Roles DEF Early, To
    <3> QED
      BY <1>0, <2>1, <3>1, <3>2, Roles DEF Lists
  <2> QED
    BY <2>2, <2>3, <2>4, <2>5, <2>6 DEF Control
<1>18. ASSUME NEW e \in Ends, ReadEnds(e) PROVE Control'
  <2>1. /\ pc[e] = "read" /\ closed[Peer(e)]
        /\ \A d \in Ends : partial'[d] = IF d = e THEN <<>> ELSE partial[d]
        /\ To(e, IF Client /\ e = "a" THEN "quit" ELSE "leave")
        /\ UNCHANGED <<kind, up, tries, linked, host, listed, mut, closed, rst, dead,
                       exited, wire, frame, left, sent, got>>
    BY <1>t, <1>18, GotoTo, Roles DEF ReadEnds, Ended, setup, objects, tcp, process, traffic
  <2>2. Shape'
    BY <1>0, <2>1, EmptySeq, Roles DEF Shape, To, Sends, Complete
  <2>3. Alone'
    BY <1>0, <2>1, Roles DEF Alone, Client, To
  <2>4. Gone'
    BY <1>0, <2>1, Roles DEF Gone, Holds, To
  <2>5. Locks'
    BY <1>0, <1>m, <2>1, Roles DEF Locks, LockKept, Abandoned, Holds, To
  <2>6. Lists'
    <3>1. Early' => Early /\ Silent /\ dead["b"] /\ e = "a"
      BY <1>0, <2>1, Roles DEF Lists, Early, Silent, To, Gone
    <3>2. Early' => Silent'
      <4> SUFFICES ASSUME Early' PROVE Silent'
        OBVIOUS
      <4>1. \A d \in Ends : partial'[d] = <<>>
        BY <2>1, <3>1 DEF Silent
      <4>2. pc'["a"] = "leave" /\ \A q \in Procs : q # "a" => pc'[q] = pc[q]
        <5>1. ~Client
          BY <1>0, <2>1, <3>1, Roles DEF To, Early, Alone
        <5> QED
          BY <2>1, <3>1, <5>1, Roles DEF To
      <4> QED
        BY <2>1, <3>1, <4>1, <4>2, Roles DEF Silent
    <3> QED
      BY <1>0, <2>1, <3>2, Roles DEF Lists, To
  <2> QED
    BY <2>2, <2>3, <2>4, <2>5, <2>6 DEF Control
<1>19. ASSUME NEW e \in Ends, ReadFails(e) PROVE Control'
  <2>1. /\ pc[e] = "read" /\ rst[e]
        /\ To(e, "quit")
        /\ UNCHANGED <<kind, up, tries, linked, host, listed, mut, closed, rst, dead,
                       exited, wire, partial, frame, left, sent, got>>
    BY <1>19, GotoTo, Roles DEF ReadFails, setup, objects, tcp, process, traffic
  <2>2. Shape'
    BY <1>0, <2>1, Roles DEF Shape, To, Sends, Complete
  <2>3. Alone'
    BY <1>0, <2>1, Roles DEF Alone, Client, To
  <2>4. Gone'
    BY <1>0, <2>1, Roles DEF Gone, Holds, To
  <2>5. Locks'
    BY <1>0, <1>m, <2>1, Roles DEF Locks, LockKept, Abandoned, Holds, To
  <2>6. Lists'
    BY <1>0, <2>1, Roles DEF Lists, Early, Silent, To
  <2> QED
    BY <2>2, <2>3, <2>4, <2>5, <2>6 DEF Control
<1>20. ASSUME NEW e \in Ends, Leave(e) PROVE Control'
  <2>1. /\ pc[e] = "leave"
        /\ To(e, "delete")
        /\ \A d \in Ends : listed'[d] = IF d = e THEN listed[e] /\ kind # "peer" ELSE listed[d]
        /\ UNCHANGED <<kind, up, tries, linked, host, mut, closed, rst, dead, exited,
                       wire, partial, frame, left, sent, got>>
    BY <1>t, <1>20, GotoTo, Roles DEF Leave, Unlisted, setup, objects, tcp, process, traffic
  <2>2. Shape'
    BY <1>0, <2>1, Roles DEF Shape, To, Sends, Complete
  <2>3. Alone'
    BY <1>0, <2>1, Roles DEF Alone, Client, To
  <2>4. Gone'
    BY <1>0, <2>1, Roles DEF Gone, Holds, To
  <2>5. Locks'
    BY <1>0, <1>m, <2>1, Roles DEF Locks, LockKept, Abandoned, Holds, To
  <2>6. Lists'
    BY ZenonT(60), <1>0, <2>1, Roles DEF Lists, Early, Silent, To
  <2> QED
    BY <2>2, <2>3, <2>4, <2>5, <2>6 DEF Control
<1>21. ASSUME NEW e \in Ends, Delete(e) PROVE Control'
  <2>1. /\ pc[e] = "delete" /\ mut[e] = NoOne
        /\ To(e, "done")
        /\ \A d \in Ends : host'[d] = IF d = e THEN "deleted" ELSE host[d]
        /\ \A d \in Ends : closed'[d] = IF d = e THEN TRUE ELSE closed[d]
        /\ \A d \in Ends : rst'[d] => rst[d] \/ (d = Peer(e) /\ wire[d] # <<>>)
        /\ \A d \in Ends : wire'[d] = IF d = Peer(e) THEN <<>> ELSE wire[d]
        /\ UNCHANGED <<kind, up, tries, linked, listed, mut, dead, exited, partial,
                       frame, left, sent, got>>
    BY <1>t, <1>21, GotoTo, Roles DEF Delete, Close, setup, objects, tcp, process, traffic
  <2>2. Shape'
    BY <1>0, <2>1, Roles DEF Shape, To, Sends, Complete
  <2>3. Alone'
    BY <1>0, <2>1, Roles DEF Alone, Client, To
  <2>4. Gone'
    <3>1. \A q \in Procs : Holds(q) => End(q) # e
      BY <1>h, <2>1, Roles
    <3>2. \A q \in Procs : Holds(q)' => ~closed'[End(q)]
      <4> TAKE q \in Procs
      <4>1. Holds(q)' => Holds(q)
        BY <2>1 DEF Holds, To
      <4> QED
        BY <1>h, <2>1, <3>1, <4>1, Roles
    <3>3. \A d \in Ends : rst'[d] => closed'[Peer(d)]
      BY ZenonT(60), <1>r, <2>1, Roles
    <3>4. \A d \in Ends : dead'[d] => \A q \in Procs : End(q) = d => pc'[q] = "done"
      BY <1>g, <2>1 DEF To
    <3>5. \A d \in Ends : /\ closed'[d] => pc'[d] = "done" /\ (dead'[d] \/ host'[d] = "deleted")
                          /\ host'[d] = "deleted" => pc'[d] = "done"
      BY <1>g, <2>1, Roles DEF To
    <3> QED
      BY <3>2, <3>3, <3>4, <3>5 DEF Gone, Holds
  <2>5. Locks'
    <3>1. closed'[e]
      BY <2>1
    <3> QED
      BY <1>0, <1>m, <2>1, <3>1, Roles DEF Locks, LockKept, Abandoned, Holds, To
  <2>6. Lists'
    <3>1. Early' => Early /\ Silent
      BY <1>0, <2>1, Roles DEF Lists, Early, To
    <3>2. Early' => Silent'
      BY <2>1, <3>1, Roles DEF Silent, To
    <3> QED
      BY <1>0, <2>1, <3>2, Roles DEF Lists, To
  <2> QED
    BY <2>2, <2>3, <2>4, <2>5, <2>6 DEF Control
<1>22. ASSUME NEW x \in Ends, EndProcess(x) PROVE Control'
  <2>1. /\ \A q \in Procs : pc'[q] = IF End(q) = x THEN "done" ELSE pc[q]
        /\ \A d \in Ends : dead'[d] = IF d = x THEN TRUE ELSE dead[d]
        /\ \A d \in Ends : closed'[d] => closed[d] \/ d = x
        /\ \A d \in Ends : closed[d] => closed'[d]
        /\ \A d \in Ends : rst'[d] => rst[d] \/ (d = Peer(x) /\ wire[d] # <<>> /\ closed'[x])
        /\ \A d \in Ends : wire'[d] \in {wire[d], <<>>}
        /\ UNCHANGED <<kind, tries, linked, host, listed, mut, partial, frame, left,
                       sent, got>>
    <3>1. /\ \A q \in Procs : pc'[q] = IF End(q) = x THEN "done" ELSE pc[q]
          /\ \A d \in Ends : dead'[d] = IF d = x THEN TRUE ELSE dead[d]
      BY <1>t, <1>22 DEF EndProcess
    <3>2. CASE Close(x)
      BY <1>t, <1>22, <3>1, <3>2, Roles DEF EndProcess, Close, setup, objects, traffic
    <3>3. CASE UNCHANGED tcp
      BY <1>t, <1>22, <3>1, <3>3, Roles DEF EndProcess, tcp, setup, objects, traffic
    <3> QED
      BY <1>22, <3>2, <3>3 DEF EndProcess
  <2>2. Shape'
    BY <1>0, <2>1, Roles DEF Shape, To, Sends, Complete
  <2>3. Alone'
    BY <1>0, <2>1, Roles DEF Alone, Client, To
  <2>4. Gone'
    <3>1. \A d \in Ends : dead'[d] => \A q \in Procs : End(q) = d => pc'[q] = "done"
      BY <1>g, <2>1
    <3>2. \A q \in Procs : Holds(q)' => ~closed'[End(q)]
      <4> TAKE q \in Procs
      <4>1. Holds(q)' => Holds(q) /\ End(q) # x
        BY <2>1 DEF Holds
      <4> QED
        BY <1>h, <2>1, <4>1, Roles
    <3>3. \A d \in Ends : rst'[d] => closed'[Peer(d)]
      BY <1>r, <2>1, Roles
    <3>4. \A d \in Ends : /\ closed'[d] => pc'[d] = "done" /\ (dead'[d] \/ host'[d] = "deleted")
                          /\ host'[d] = "deleted" => pc'[d] = "done"
      BY ZenonT(60), <1>g, <2>1, Roles
    <3> QED
      BY <3>1, <3>2, <3>3, <3>4 DEF Gone, Holds
  <2>5. Locks'
    BY <1>0, <1>m, <2>1, Roles DEF Locks, LockKept, Abandoned, Holds, To
  <2>6. Lists'
    <3>1. Early' => Early /\ x # "a"
      BY <2>1, Roles DEF Early
    <3>2. (Early => Silent)'
      BY <1>0, <2>1, <3>1, Roles DEF Lists, Silent
    <3> QED
      BY <1>0, <2>1, <3>2, Roles DEF Lists
  <2> QED
    BY <2>2, <2>3, <2>4, <2>5, <2>6 DEF Control
<1> QED
  BY <1>1, <1>2, <1>3, <1>4, <1>5, <1>6, <1>7, <1>8, <1>9, <1>10, <1>11, <1>12, <1>13, <1>14, <1>15,
     <1>16, <1>17, <1>18, <1>19, <1>20, <1>21, <1>22, Roles DEF Next, Step, Quit, Die

LEMMA ControlInit == Init => Control
<1> SUFFICES ASSUME Init PROVE Control
  OBVIOUS
<1>0. <<>> \in Seq(Parts) /\ Len(<<>>) = 0
  BY EmptySeq
<1>1. /\ \A p \in Procs : pc[p] = IF p = Creator THEN "connect" ELSE IF p \in Ends THEN "none" ELSE "idle"
      /\ \A e \in Ends : /\ host[e] = "none" /\ mut[e] = NoOne /\ wire[e] = <<>> /\ partial[e] = <<>>
                         /\ ~listed[e] /\ ~closed[e] /\ ~rst[e] /\ ~dead[e]
      /\ \A s \in Senders \ {Creator} : Client => left[s] = <<>>
  BY DEF Init
<1>2. tries < Attempts[kind]
  BY ConstantsAssumption DEF Init
<1>3. Shape
  BY <1>0, <1>1, <1>2, Roles DEF Shape, Sends, Complete
<1>4. Alone
  BY <1>1, Roles DEF Alone
<1>5. Gone
  BY <1>1, Roles DEF Gone, Holds
<1>6. Locks
  BY <1>1, Roles DEF Locks, LockKept, Abandoned, Holds
<1>7. Lists
  BY <1>1, Roles DEF Lists, Silent
<1> QED
  BY <1>3, <1>4, <1>5, <1>6, <1>7 DEF Control

LEMMA ControlKept == Spec => [](TypeOK /\ Control)
<1>1. Init => TypeOK /\ Control
  BY TypeInit, ControlInit
<1>2. TypeOK /\ Control /\ [Next]_vars => (TypeOK /\ Control)'
  BY TypeNext, ControlNext DEF Control
<1> QED
  BY <1>1, <1>2, PTL DEF Spec

(* The state of a connection has its type: in particular what has been     *)
(* read of a message never exceeds it, and no more is written than fits    *)
(* (Message::read, Socket::write).                                         *)
THEOREM TypeCorrect == Spec => []TypeOK
BY ControlKept, PTL

(* A mutex stays locked by somebody who does not send only when the other  *)
(* end has closed, whoever writes, reads or dies (Host::send).             *)
THEOREM MutexKept == Spec => []LockKept
<1>1. TypeOK /\ Control => LockKept
  BY DEF Control, Locks
<1> QED
  BY <1>1, ControlKept, PTL

(* Where an end gets on a list, or past its lists, in a step.              *)
LEMMA Lister ==
  ASSUME TypeOK, Control, [Next]_vars, NEW e \in Ends, ~Dangles(e), Dangles(e)', kind # "data"
  PROVE  e = "a" /\ Add /\ Over("a")
<1>1. /\ Over(e)' /\ listed[e]' /\ (~listed[e] \/ ~Over(e))
  BY DEF Dangles
<1>2. pc \in [Procs -> {"connect", "new", "add", "idle", "lock", "write", "unlock", "none",
                        "read", "handle", "leave", "delete", "quit", "done", "lost"}]
      /\ listed \in [Ends -> BOOLEAN] /\ host \in [Ends -> {"none", "live", "deleted"}]
  BY DEF TypeOK
<1>3. kind = "peer" \/ \A x \in Ends : ~listed[x]
  BY ConstantsAssumption DEF TypeOK, Control, Alone, Client
<1>4. CASE UNCHANGED vars
  BY <1>1, <1>4 DEF Over, vars, objects
<1> DEFINE Calm == listed'[e] = listed[e] /\ (Over(e)' => Over(e))
<1>5. ~Calm
  BY <1>1
<1>6. \A p \in Procs : \A l : Goto(p, l) => pc'[e] = IF p = e THEN l ELSE pc[e]
  BY <1>2, Roles DEF Goto
<1>7. CASE Listen \/ Connect \/ NewClient \/ ClientThrows
  <2>1. host' = host /\ listed' = listed /\ (pc' = pc \/ \E l : l # "delete" /\ Goto(Creator, l))
    BY <1>7 DEF Listen, Connect, NewClient, ClientThrows, objects
  <2> QED
    BY <1>5, <1>6, <2>1, Roles DEF Over
<1>8. CASE NewHost \/ Accept
  <2>1. /\ listed' = listed /\ (pc'[e] # "delete" \/ pc'[e] = pc[e])
        /\ host'[e] \in {"live", host[e]}
    BY <1>2, <1>8, Roles DEF NewHost, Accept, Goto
  <2> QED
    BY <1>2, <1>5, <2>1 DEF Over
<1>9. CASE Add
  <2>1. /\ host' = host /\ \A x \in Ends : x # "a" => listed'[x] = listed[x]
        /\ pc'[e] = pc[e]
    BY <1>2, <1>6, <1>9, Roles DEF Add
  <2> QED
    BY <1>1, <1>9, <2>1 DEF Over
<1>10. ASSUME NEW p \in Procs, Lock(p) \/ Lost(p) \/ Write(p) \/ WriteThrows(p) \/ Unlock(p)
       PROVE  FALSE
  <2>1. host' = host /\ listed' = listed
    BY <1>10 DEF Lock, Lost, Write, WriteThrows, Unlock, objects
  <2>2. pc'[e] # "delete" \/ pc'[e] = pc[e]
    <3>1. CASE Unlock(p)
      BY <1>2, <3>1, Roles DEF Unlock
    <3>2. CASE ~Unlock(p)
      <4>1. \E l : l # "delete" /\ Goto(p, l)
        BY <1>10, <3>2 DEF Lock, Lost, Write, WriteThrows
      <4> QED
        BY <1>6, <4>1
    <3> QED
      BY <3>1, <3>2
  <2> QED
    BY <1>5, <2>1, <2>2 DEF Over
<1>11. ASSUME NEW x \in Ends, EndProcess(x) PROVE FALSE
  <2>1. host' = host /\ listed' = listed /\ pc'[e] \in {"done", pc[e]}
    BY <1>11, Roles DEF EndProcess, objects
  <2> QED
    BY <1>5, <2>1 DEF Over
<1>12. ASSUME NEW s \in Senders, StartSend(s) PROVE FALSE
  <2>1. host' = host /\ listed' = listed /\ Goto(s, "lock")
    BY <1>12 DEF StartSend, objects
  <2> QED
    BY <1>5, <1>6, <2>1, Roles DEF Over
<1>13. ASSUME NEW x \in Ends, Read(x) \/ ReadEnds(x) \/ ReadFails(x) PROVE FALSE
  <2>1. host' = host /\ listed' = listed /\ \E l : l # "delete" /\ Goto(x, l)
    BY <1>13 DEF Read, ReadEnds, ReadFails, Ended, objects
  <2> QED
    BY <1>5, <1>6, <2>1, Roles DEF Over
<1>14. ASSUME NEW x \in Ends, HandleReply(x) \/ \E m \in Messages \cup {Garbled} : HandleMessage(x, m)
       PROVE  FALSE
  <2>1. host' = host /\ listed' = listed /\ \E l : l # "delete" /\ Goto(x, l)
    BY <1>14 DEF HandleReply, HandleMessage, Received
  <2> QED
    BY <1>5, <1>6, <2>1, Roles DEF Over
<1>15. ASSUME NEW x \in Ends, HandleCommand(x) PROVE FALSE
  <2>1. /\ host' = host /\ pc[x] = "handle" /\ \E l : l # "delete" /\ Goto(x, l)
        /\ listed' = [listed EXCEPT ![x] = ~Client]
    BY <1>15 DEF HandleCommand, Received
  <2>2. x # e => Calm
    BY <1>2, <1>6, <2>1, Roles DEF Over
  <2>3. host[x] # "deleted"
    BY <2>1 DEF Control, Gone
  <2>4. ~Over(x)'
    BY <1>2, <2>1, <2>3, Roles DEF Over, Goto
  <2> QED
    BY <1>1, <1>2, <2>1, <2>2, <2>4, <1>6, Roles DEF Over
<1>16. ASSUME NEW x \in Ends, Leave(x) PROVE FALSE
  <2>1. host' = host /\ listed' = [listed EXCEPT ![x] = FALSE] /\ Goto(x, "delete")
    BY <1>2, <1>3, <1>16 DEF Leave, Unlisted
  <2> QED
    BY <1>1, <1>2, <1>6, <2>1, Roles DEF Over
<1>17. ASSUME NEW x \in Ends, Delete(x) PROVE FALSE
  <2>1. /\ pc[x] = "delete" /\ listed' = listed /\ Goto(x, "done")
        /\ host' = [host EXCEPT ![x] = "deleted"]
    BY <1>17 DEF Delete
  <2> QED
    BY <1>2, <1>5, <1>6, <2>1, Roles DEF Over
<1>18. CASE \E p \in Procs : Step(p)
  <2>1. PICK p \in Procs : Step(p)
    BY <1>18
  <2>2. ~Quit(p) /\ ~(p \in Senders /\ StartSend(p))
    BY <1>11, <1>12, Roles DEF Quit
  <2>3. CASE p \in Ends /\ \/ Read(p) \/ HandleCommand(p) \/ HandleReply(p)
                            \/ \E m \in Messages \cup {Garbled} : HandleMessage(p, m)
                            \/ ReadEnds(p) \/ ReadFails(p) \/ Leave(p) \/ Delete(p)
    BY <1>13, <1>14, <1>15, <1>16, <1>17, <2>3
  <2> QED
    BY <1>7, <1>8, <1>9, <1>10, <2>1, <2>2, <2>3 DEF Step
<1>19. CASE \E x \in Ends : Die(x)
  BY <1>11, <1>19 DEF Die
<1> QED
  BY <1>4, <1>7, <1>18, <1>19 DEF Next

(* No list of commands leads to a Host that its thread has taken from the  *)
(* lists, but for one race: the other process ends while com_enter_network *)
(* is between new Host and masters.add, and the connection thread has gone *)
(* through the lists before that add (com_connection_thread).              *)
THEOREM NothingDangles == Spec => NoDangling
<1> DEFINE A == \A e \in Ends : ~Dangles(e) /\ Dangles(e)' =>
                  kind = "data" \/ (e = "a" /\ Add /\ Over("a") /\ dead["b"])
<1>1. ASSUME TypeOK, Control, TypeOK', Control', [Next]_vars PROVE A
  <2>1. SUFFICES ASSUME NEW e \in Ends, ~Dangles(e), Dangles(e)', kind # "data"
                 PROVE e = "a" /\ Add /\ Over("a") /\ dead["b"]
    OBVIOUS
  <2>2. e = "a" /\ Add /\ Over("a")
    BY <1>1, <2>1, Lister
  <2>3. Silent
    BY <1>1, <2>2 DEF Control, Lists, Early, Add
  <2> QED
    BY <2>2, <2>3 DEF Silent, Over
<1>2. TypeOK /\ Control /\ (TypeOK /\ Control)' /\ [Next]_vars => [A]_vars
  BY <1>1
<1> HIDE DEF A
<1>3. [][A]_vars => NoDangling
  BY DEF A, NoDangling
<1> QED
  BY <1>2, <1>3, ControlKept, PTL DEF Spec

-----------------------------------------------------------------------------
(* What is on the way, and how many messages begin in it.                  *)

LEMMA WayType ==
  ASSUME TypeOK, NEW e \in Ends
  PROVE  /\ OnWay(e) \in Seq(Parts) /\ partial[e] \in Seq(Parts) /\ wire[Peer(e)] \in Seq(Parts)
         /\ wire[Peer(e)] = <<>> => OnWay(e) = partial[e]
         /\ partial[e] = <<>> => OnWay(e) = wire[Peer(e)]
         /\ OnWay(e) = <<>> <=> partial[e] = <<>> /\ wire[Peer(e)] = <<>>
<1>1. partial[e] \in Seq(Parts) /\ wire[Peer(e)] \in Seq(Parts)
  BY Roles DEF TypeOK
<1>2. OnWay(e) \in Seq(Parts)
  BY <1>1, ConcatProperties DEF OnWay
<1>3. OnWay(e) = <<>> <=> partial[e] = <<>> /\ wire[Peer(e)] = <<>>
  BY <1>1, ConcatEqualIffEmpty DEF OnWay
<1>4. /\ wire[Peer(e)] = <<>> => OnWay(e) = partial[e]
      /\ partial[e] = <<>> => OnWay(e) = wire[Peer(e)]
  BY <1>1, ConcatEmptySeq DEF OnWay
<1> QED
  BY <1>1, <1>2, <1>3, <1>4

LEMMA WayWritten ==
  ASSUME NEW s \in Seq(Parts), NEW w \in Seq(Parts), NEW x \in Parts
  PROVE  s \o Append(w, x) = Append(s \o w, x)
<1>1. <<x>> \in Seq(Parts) /\ s \o w \in Seq(Parts)
  BY ConcatProperties
<1> QED
  BY <1>1, AppendIsConcat, ConcatAssociative

LEMMA WayRead ==
  ASSUME NEW s \in Seq(Parts), NEW w \in Seq(Parts), w # <<>>
  PROVE  Append(s, Head(w)) \o Tail(w) = s \o w
<1>1. /\ Head(w) \in Parts /\ Head(w) = w[1] /\ Tail(w) \in Seq(Parts) /\ Len(Tail(w)) = Len(w) - 1
      /\ \A i \in 1 .. Len(Tail(w)) : Tail(w)[i] = w[i + 1]
  BY HeadTailProperties
<1>2. <<Head(w)>> \in Seq(Parts) /\ Len(<<Head(w)>>) = 1 /\ <<Head(w)>>[1] = w[1]
  BY <1>1
<1>3. Len(w) \in Nat \ {0}
  BY EmptySeq
<1> DEFINE v == <<Head(w)>> \o Tail(w)
<1>4. /\ v \in Seq(Parts) /\ Len(v) = 1 + (Len(w) - 1)
      /\ \A i \in 1 .. 1 + (Len(w) - 1) : v[i] = IF i <= 1 THEN <<Head(w)>>[i] ELSE Tail(w)[i - 1]
  BY <1>1, <1>2, ConcatProperties
<1> HIDE DEF v
<1>5. Len(v) = Len(w)
  BY <1>3, <1>4
<1>6. ASSUME NEW i \in 1 .. Len(v) PROVE v[i] = w[i]
  <2>1. CASE i = 1
    BY <1>2, <1>3, <1>4, <1>5, <2>1
  <2>2. CASE i # 1
    <3>1. i - 1 \in 1 .. Len(Tail(w)) /\ (i - 1) + 1 = i /\ ~(i <= 1) /\ i \in 1 .. 1 + (Len(w) - 1)
      BY <1>1, <1>3, <1>5, <2>2
    <3>2. v[i] = Tail(w)[i - 1]
      BY <1>4, <3>1
    <3> QED
      BY <1>1, <3>1, <3>2
  <2> QED
    BY <2>1, <2>2
<1>7. v = w
  BY <1>4, <1>5, <1>6, SeqEqual
<1>8. Append(s, Head(w)) \o Tail(w) = s \o v
  BY <1>1, <1>2, AppendIsConcat, ConcatAssociative DEF v
<1> QED
  BY <1>7, <1>8

LEMMA HeadsType ==
  ASSUME NEW s \in Seq(Parts)
  PROVE  /\ Len(s) \in Nat /\ Heads(s) \subseteq 1 .. Len(s)
         /\ IsFiniteSet(Heads(s)) /\ Cardinality(Heads(s)) \in Nat
<1>1. Len(s) \in Nat /\ Heads(s) \subseteq 1 .. Len(s)
  BY LenProperties DEF Heads
<1>2. IsFiniteSet(1 .. Len(s))
  BY <1>1, FS_Interval
<1>3. IsFiniteSet(Heads(s))
  BY <1>1, <1>2, FS_Subset
<1> QED
  BY <1>1, <1>3, FS_CardinalityType

LEMMA HeadsNone == Heads(<<>>) = {} /\ Cardinality(Heads(<<>>)) = 0
<1>1. Heads(<<>>) = {}
  BY EmptySeq DEF Heads
<1> QED
  BY <1>1, FS_EmptySet

LEMMA HeadsGrown ==
  ASSUME NEW s \in Seq(Parts), NEW x \in Parts
  PROVE  /\ x.part = "head" =>
               /\ Heads(Append(s, x)) = Heads(s) \cup {Len(s) + 1}
               /\ Cardinality(Heads(Append(s, x))) = Cardinality(Heads(s)) + 1
         /\ x.part # "head" => Heads(Append(s, x)) = Heads(s)
<1> DEFINE t == Append(s, x)
<1>1. /\ Len(t) = Len(s) + 1 /\ (\A i \in 1 .. Len(s) : t[i] = s[i]) /\ t[Len(s) + 1] = x
  BY AppendProperties
<1>2. Len(s) \in Nat /\ IsFiniteSet(Heads(s)) /\ Len(s) + 1 \notin Heads(s)
  BY HeadsType
<1> HIDE DEF t
<1>3. \A i : i \in 1 .. Len(t) <=> i \in 1 .. Len(s) \/ i = Len(s) + 1
  BY <1>1, <1>2
<1>4. x.part = "head" => Heads(t) = Heads(s) \cup {Len(s) + 1}
  BY <1>1, <1>3 DEF Heads
<1>5. x.part # "head" => Heads(t) = Heads(s)
  BY <1>1, <1>3 DEF Heads
<1>6. Cardinality(Heads(s) \cup {Len(s) + 1}) = Cardinality(Heads(s)) + 1
  BY <1>2, FS_AddElement
<1> QED
  BY <1>4, <1>5, <1>6 DEF t

LEMMA HeadsSome ==
  ASSUME NEW s \in Seq(Parts), Chain(s), s # <<>>
  PROVE  1 \in Heads(s) /\ Cardinality(Heads(s)) >= 1
<1>1. 1 \in Heads(s)
  BY EmptySeq DEF Heads, Chain
<1> QED
  BY <1>1, HeadsType, FS_EmptySet

(* The positions of s and w in s \o w.                                     *)
LEMMA Positions ==
  ASSUME NEW s \in Seq(Parts), NEW w \in Seq(Parts)
  PROVE  /\ s \o w \in Seq(Parts) /\ Len(s) \in Nat /\ Len(w) \in Nat
         /\ Heads(s) = Heads(s \o w) \cap (1 .. Len(s))
         /\ \A i \in Heads(s) : (s \o w)[i] = s[i]
         /\ \A i \in Heads(w) : i + Len(s) \in Heads(s \o w) /\ (s \o w)[i + Len(s)] = w[i]
         /\ \A j \in Heads(s \o w) : j > Len(s) => j - Len(s) \in Heads(w)
<1>1. /\ s \o w \in Seq(Parts) /\ Len(s \o w) = Len(s) + Len(w)
      /\ \A i \in 1 .. Len(s) + Len(w) : (s \o w)[i] = IF i <= Len(s) THEN s[i] ELSE w[i - Len(s)]
      /\ Len(s) \in Nat /\ Len(w) \in Nat
  BY ConcatProperties, LenProperties
<1> DEFINE t == s \o w
<1>2. /\ Len(t) = Len(s) + Len(w)
      /\ \A i \in 1 .. Len(s) : i \in 1 .. Len(t) /\ t[i] = s[i]
  BY <1>1
<1>3. ASSUME NEW i \in 1 .. Len(w)
      PROVE  i + Len(s) \in 1 .. Len(t) /\ t[i + Len(s)] = w[i]
  <2>1. i + Len(s) \in 1 .. Len(s) + Len(w) /\ ~(i + Len(s) <= Len(s)) /\ (i + Len(s)) - Len(s) = i
    BY <1>1
  <2> QED
    BY <1>1, <2>1
<1>4. ASSUME NEW j \in 1 .. Len(t), j > Len(s)
      PROVE  j - Len(s) \in 1 .. Len(w) /\ t[j] = w[j - Len(s)]
  <2>1. j \in 1 .. Len(s) + Len(w) /\ ~(j <= Len(s)) /\ j - Len(s) \in 1 .. Len(w)
    BY <1>1, <1>4
  <2> QED
    BY <1>1, <2>1
<1> HIDE DEF t
<1>5. Heads(s) = Heads(t) \cap (1 .. Len(s))
  BY <1>2 DEF Heads
<1>6. \A i \in Heads(s) : t[i] = s[i]
  BY <1>2 DEF Heads
<1>7. \A i \in Heads(w) : i + Len(s) \in Heads(t) /\ t[i + Len(s)] = w[i]
  BY <1>3 DEF Heads
<1>8. \A j \in Heads(t) : j > Len(s) => j - Len(s) \in Heads(w)
  BY <1>4 DEF Heads
<1> QED
  BY <1>1, <1>5, <1>6, <1>7, <1>8 DEF t

LEMMA HeadsKept ==
  ASSUME NEW s \in Seq(Parts), NEW w \in Seq(Parts)
  PROVE  Cardinality(Heads(s)) <= Cardinality(Heads(s \o w))
<1>1. s \o w \in Seq(Parts) /\ Heads(s) \in SUBSET Heads(s \o w)
  BY Positions
<1> QED
  BY <1>1, HeadsType, FS_Subset

(* When parts that begin with a head are taken away, so is one head.       *)
LEMMA HeadsTaken ==
  ASSUME NEW s \in Seq(Parts), NEW w \in Seq(Parts), 1 \in Heads(s)
  PROVE  Cardinality(Heads(w)) + 1 <= Cardinality(Heads(s \o w))
<1> DEFINE H == Heads(s \o w) \ {1}
           f == [i \in Heads(w) |-> i + Len(s)]
<1>1. /\ s \o w \in Seq(Parts) /\ Len(s) \in Nat /\ Heads(w) \subseteq Nat /\ 0 \notin Heads(w)
      /\ \A i \in Heads(w) : i + Len(s) \in Heads(s \o w)
  BY Positions, HeadsType
<1>2. 1 \in Heads(s \o w) /\ Len(s) >= 1
  BY Positions, HeadsType
<1>3. IsFiniteSet(H) /\ Cardinality(H) = Cardinality(Heads(s \o w)) - 1
  BY <1>1, <1>2, HeadsType, FS_RemoveElement
<1>4. \A i \in Heads(w) : f[i] \in H
  BY <1>1, <1>2
<1>5. f \in [Heads(w) -> H] /\ \A i, j \in Heads(w) : f[i] = f[j] => i = j
  <2>1. \A i, j \in Heads(w) : i + Len(s) = j + Len(s) => i = j
    BY <1>1
  <2> QED
    BY <1>4, <2>1
<1>6. f \in Injection(Heads(w), H)
  BY <1>5 DEF Injection, IsInjective
<1>7. Cardinality(Heads(w)) <= Cardinality(H)
  BY <1>3, <1>6, FS_Injection
<1>8. Cardinality(Heads(w)) \in Nat /\ Cardinality(Heads(s \o w)) \in Nat
  BY <1>1, HeadsType
<1> QED
  BY <1>3, <1>7, <1>8

-----------------------------------------------------------------------------
(* Traffic: the steps that take nothing from a stream but its end.         *)

Flow == Streams /\ Numbers /\ Answers

Quietly ==
    /\ \A e \in Ends :
          /\ \/ OnWay(e)' = OnWay(e)
             \/ closed'[e] /\ OnWay(e)' = partial[e]
             \/ closed[Peer(e)] /\ OnWay(e)' = <<>>
          /\ rst'[e] => rst[e] \/ (~closed[Peer(e)] /\ OnWay(Peer(e)) # <<>>)
          /\ closed[e] => closed'[e]
          /\ dead[e] => dead'[e]
    /\ \A p \in Procs :
          /\ pc'[p] = "write" => pc[p] = "write"
          /\ pc[p] = "write" /\ pc'[p] # "write" => closed'[Peer(End(p))] \/ dead'[End(p)]
          /\ pc'[p] \in {"lock", "write"} => Sends(p) /\ frame'[p] = frame[p]
    /\ UNCHANGED <<kind, left, got, sent>>

LEMMA Counts ==
  ASSUME TypeOK, NEW e \in Ends
  PROVE  /\ Len(got[e]) \in Nat /\ sent[e] \in Nat
         /\ Cardinality(Heads(OnWay(e))) \in Nat
BY WayType, HeadsType, LenProperties DEF TypeOK

(* While an end can read, something on the way to it is not handled.       *)
LEMMA WayCounts ==
  ASSUME TypeOK, Flow, NEW e \in Ends, ~closed[e], OnWay(e) # <<>>
  PROVE  Behind(Peer(e))
<1>1. Chain(OnWay(e))
  BY DEF Flow, Streams, Stream
<1>2. Cardinality(Heads(OnWay(e))) >= 1
  BY <1>1, WayType, HeadsSome
<1>3. Len(got[e]) + Cardinality(Heads(OnWay(e))) <= sent[Peer(e)]
  BY DEF Flow, Numbers
<1> QED
  BY <1>2, <1>3, Counts, Roles DEF Behind

LEMMA Within == ASSUME NEW m \in Nat, NEW n \in Nat, NEW i \in 1 .. m PROVE i \in 1 .. m + n /\ i <= m
OBVIOUS

LEMMA QuietFlow == ASSUME TypeOK, Control, Flow, Quietly PROVE Flow'
<1>0. Streams /\ Numbers /\ Answers
  BY DEF Flow
<1>1. ASSUME NEW e \in Ends, ~closed'[e] PROVE Stream(e)'
  <2>1. ~closed[e] /\ Stream(e)
    BY <1>0, <1>1 DEF Quietly, Streams
  <2>2. CASE closed[Peer(e)] /\ OnWay(e)' = <<>>
    <3>1. \A p \in Procs : End(p) = Peer(e) => pc'[p] # "write"
      BY <2>2, Roles DEF Quietly, Control, Gone, Holds
    <3>2. Chain(OnWay(e)') /\ Whole(OnWay(e)')
      BY <2>2, EmptySeq DEF Chain, Linked, Whole
    <3> QED
      BY <3>1, <3>2 DEF Stream
  <2>3. CASE OnWay(e)' = OnWay(e)
    <3>1. Chain(OnWay(e)')
      BY <2>1, <2>3 DEF Stream
    <3>2. ASSUME NEW p \in Procs, End(p) = Peer(e), pc'[p] = "write"
          PROVE  Joins(OnWay(e)', frame'[p][1])
      <4>1. pc[p] = "write" /\ frame'[p] = frame[p]
        BY <3>2 DEF Quietly
      <4> QED
        BY <2>1, <2>3, <3>2, <4>1 DEF Stream
    <3>3. ASSUME ~dead'[Peer(e)], \A p \in Procs : End(p) = Peer(e) => pc'[p] # "write"
          PROVE  Whole(OnWay(e)')
      <4>1. ~dead[Peer(e)]
        BY <3>3, Roles DEF Quietly
      <4>2. \A p \in Procs : End(p) = Peer(e) => pc[p] # "write"
        BY <1>1, <3>3, Roles DEF Quietly
      <4> QED
        BY <2>1, <2>3, <4>1, <4>2 DEF Stream
    <3> QED
      BY <3>1, <3>2, <3>3 DEF Stream
  <2> QED
    BY <1>1, <2>2, <2>3 DEF Quietly
<1>2. ASSUME NEW e \in Ends
      PROVE  /\ Cardinality(Heads(OnWay(e)')) \in Nat
             /\ Cardinality(Heads(OnWay(e)')) <= Cardinality(Heads(OnWay(e)))
  <2>1. Cardinality(Heads(OnWay(e))) \in Nat /\ Cardinality(Heads(partial[e])) \in Nat
    BY WayType, HeadsType
  <2>2. Cardinality(Heads(partial[e])) <= Cardinality(Heads(OnWay(e)))
    BY WayType, HeadsKept DEF OnWay
  <2> QED
    BY <2>1, <2>2, HeadsNone DEF Quietly
<1>3. \A e \in Ends : Behind(e)' <=> Behind(e)
  BY DEF Quietly, Behind
<1>4. Numbers'
  <2>1. ASSUME NEW e \in Ends 
        PROVE  Len(got'[e]) + Cardinality(Heads(OnWay(e)')) <= sent'[Peer(e)]
    <3>1. Len(got[e]) + Cardinality(Heads(OnWay(e))) <= sent[Peer(e)]
      BY <1>0 DEF Numbers
    <3> QED
      BY <1>2, <3>1, Counts, Roles DEF Quietly
  <2>2. ASSUME NEW p \in Procs, Mid(p)' PROVE Behind(End(p))'
    <3>1. Mid(p)
      BY <2>2 DEF Quietly, Mid
    <3> QED
      BY <1>0, <1>3, <3>1, Roles DEF Numbers
  <2>3. ASSUME NEW e \in Ends, rst'[e] PROVE Behind(e)'
    <3>1. CASE rst[e]
      BY <1>0, <1>3, <3>1 DEF Numbers
    <3>2. CASE ~closed[Peer(e)] /\ OnWay(Peer(e)) # <<>>
      BY <1>3, <3>2, WayCounts, Roles
    <3> QED
      BY <2>3, <3>1, <3>2 DEF Quietly
  <2> QED
    BY <2>1, <2>2, <2>3 DEF Numbers
<1>5. Answers'
  <2> SUFFICES ASSUME Client PROVE Answers'
    BY DEF Answers, Quietly, Client
  <2>1. left'[Creator] \in {<<Open>>, <<>>}
    BY <1>0 DEF Answers, Quietly
  <2>2. ASSUME NEW p \in Procs, Sends(p)', NEW i \in 1 .. Len(frame'[p])
        PROVE  frame'[p][i].msg = Line(End(p))
    <3>1. Sends(p) /\ frame'[p] = frame[p]
      BY <2>2 DEF Quietly, Sends
    <3> QED
      BY <1>0, <2>2, <3>1 DEF Answers
  <2>3. ASSUME NEW e \in Ends, NEW i \in 1 .. Len(OnWay(e)')
        PROVE  OnWay(e)'[i].msg = Line(Peer(e))
    <3>1. CASE OnWay(e)' = OnWay(e)
      BY <1>0, <2>3, <3>1 DEF Answers
    <3>2. CASE OnWay(e)' = partial[e]
      <4>1. i \in 1 .. Len(OnWay(e)) /\ OnWay(e)[i] = partial[e][i]
        <5>1. partial[e] \in Seq(Parts) /\ wire[Peer(e)] \in Seq(Parts)
          BY WayType
        <5>2. Len(partial[e]) \in Nat /\ Len(wire[Peer(e)]) \in Nat
          BY <5>1, LenProperties
        <5>3. /\ Len(OnWay(e)) = Len(partial[e]) + Len(wire[Peer(e)])
              /\ \A j \in 1 .. Len(partial[e]) + Len(wire[Peer(e)]) :
                    j <= Len(partial[e]) => OnWay(e)[j] = partial[e][j]
          BY <5>1, ConcatProperties DEF OnWay
        <5>4. i \in 1 .. Len(partial[e]) + Len(wire[Peer(e)]) /\ i <= Len(partial[e])
          <6>1. i \in 1 .. Len(partial[e])
            BY <2>3, <3>2
          <6> QED
            BY <5>2, <6>1, Within
        <5> QED
          BY <5>3, <5>4
      <4> QED
        BY <1>0, <3>2, <4>1 DEF Answers
    <3>3. CASE OnWay(e)' = <<>>
      BY <2>3, <3>3, EmptySeq
    <3> QED
      BY <3>1, <3>2, <3>3 DEF Quietly
  <2> QED
    BY <2>1, <2>2, <2>3 DEF Answers
<1>6. Streams'
  BY <1>1 DEF Streams
<1> QED
  BY <1>4, <1>5, <1>6 DEF Flow

(* The parts of a message that has been read, and what it was.             *)
LEMMA ReadWhole ==
  ASSUME TypeOK, Control, Flow, NEW e \in Ends, pc[e] = "handle"
  PROVE  /\ ~closed[e] /\ partial[e] # <<>> /\ Final(partial[e][Len(partial[e])])
         /\ 1 \in Heads(partial[e]) /\ Heads(partial[e]) = {1}
         /\ partial[e] = Frame(partial[e][1].msg)
         /\ partial[e][1].msg \in Messages
         /\ OnWay(e)[1] = partial[e][1] /\ OnWay(e) # <<>> /\ 1 \in 1 .. Len(OnWay(e))
<1> DEFINE s == partial[e]
           m == partial[e][1].msg
<1>1. ~closed[e] /\ Complete(s) /\ (Len(s) = 3 => s[2].part # "nodata")
  BY DEF Control, Gone, Shape
<1>2. /\ s \in Seq(Parts) /\ wire[Peer(e)] \in Seq(Parts) /\ OnWay(e) = s \o wire[Peer(e)]
      /\ Len(s) \in {2, 3} /\ s # <<>>
  <2>1. s \in Seq(Parts) /\ wire[Peer(e)] \in Seq(Parts) /\ OnWay(e) = s \o wire[Peer(e)]
    BY WayType DEF OnWay
  <2>2. Len(s) \in {2, 3}
    BY <1>1 DEF Complete
  <2>3. s # <<>>
    BY <2>2, EmptySeq
  <2> QED
    BY <2>1, <2>2, <2>3
<1>3. /\ Len(OnWay(e)) = Len(s) + Len(wire[Peer(e)]) /\ Len(wire[Peer(e)]) \in Nat
      /\ \A i \in 1 .. Len(s) + Len(wire[Peer(e)]) : i <= Len(s) => OnWay(e)[i] = s[i]
  <2>1. Len(wire[Peer(e)]) \in Nat
    BY <1>2, LenProperties
  <2>2. /\ Len(s \o wire[Peer(e)]) = Len(s) + Len(wire[Peer(e)])
        /\ \A i \in 1 .. Len(s) + Len(wire[Peer(e)]) :
              (s \o wire[Peer(e)])[i] = IF i <= Len(s) THEN s[i] ELSE wire[Peer(e)][i - Len(s)]
    BY <1>2, ConcatProperties
  <2> QED
    BY <1>2, <2>1, <2>2
<1>4. Chain(OnWay(e))
  BY <1>1 DEF Flow, Streams, Stream
<1> HIDE DEF s
<1>5. /\ OnWay(e)[1] = s[1] /\ OnWay(e)[2] = s[2] /\ (Len(s) = 3 => OnWay(e)[3] = s[3])
      /\ 1 \in 1 .. Len(OnWay(e)) /\ 2 \in 1 .. Len(OnWay(e))
      /\ (Len(s) = 3 => 3 \in 1 .. Len(OnWay(e)))
  BY <1>2, <1>3
<1>6. OnWay(e) # <<>>
  BY <1>5, EmptySeq
<1>7. s[1].part = "head" /\ Follows(s[1], s[2]) /\ (Len(s) = 3 => Follows(s[2], s[3]))
  BY <1>4, <1>5, <1>6 DEF Chain, Linked
<1>8. /\ Len(s) = 2 => s[2].part = "nodata"
      /\ Len(s) = 3 => s[2].part = "size" /\ s[3].part = "data" /\ s[3].msg = s[1].msg
      /\ s[2].msg = s[1].msg /\ (Len(s) = 2 <=> s[1].msg \in Empty)
  BY <1>1, <1>2, <1>7 DEF Complete, Follows, Final
<1>9. \A i \in 1 .. Len(s) : s[i] \in Parts
  BY <1>2, ElementOfSeq
<1>10. m \in Messages /\ m = s[1].msg
  BY <1>2, <1>9 DEF Parts, s
<1>11. s = Frame(m)
  <2>1. CASE Len(s) = 2
    <3>1. Frame(m) = [i \in 1 .. 2 |-> [msg |-> m, part |-> <<"head", "nodata">>[i]]]
      BY <1>8, <1>10, <2>1 DEF Frame
    <3>2. s \in [1 .. 2 -> Parts] /\ s[1] \in Parts /\ s[2] \in Parts
      BY <1>2, <1>9, <2>1, LenProperties
    <3>3. s[1] = [msg |-> m, part |-> "head"] /\ s[2] = [msg |-> m, part |-> "nodata"]
      BY <1>7, <1>8, <1>10, <2>1, <3>2 DEF Parts
    <3> QED
      BY <3>1, <3>2, <3>3
  <2>2. CASE Len(s) = 3
    <3>1. Frame(m) = [i \in 1 .. 3 |-> [msg |-> m, part |-> <<"head", "size", "data">>[i]]]
      BY <1>8, <1>10, <2>2 DEF Frame
    <3>2. s \in [1 .. 3 -> Parts] /\ s[1] \in Parts /\ s[2] \in Parts /\ s[3] \in Parts
      BY <1>2, <1>9, <2>2, LenProperties
    <3>3. /\ s[1] = [msg |-> m, part |-> "head"] /\ s[2] = [msg |-> m, part |-> "size"]
          /\ s[3] = [msg |-> m, part |-> "data"]
      BY <1>7, <1>8, <1>10, <2>2, <3>2 DEF Parts
    <3> QED
      BY <3>1, <3>2, <3>3
  <2> QED
    BY <1>2, <2>1, <2>2
<1>12. Heads(s) = {1}
  BY SMTT(30), <1>2, <1>7, <1>8 DEF Heads
<1>13. Final(s[Len(s)])
  BY <1>2, <1>8 DEF Final
<1> QED
  BY <1>1, <1>2, <1>5, <1>6, <1>10, <1>11, <1>12, <1>13 DEF s

LEMMA StartFlow ==
  ASSUME TypeOK, TypeOK', Control, Flow, NEW s \in Senders, StartSend(s)
  PROVE  Flow'
<1>0. Streams /\ Numbers /\ Answers
  BY DEF Flow
<1>1. /\ s \in Procs /\ pc[s] = "idle" /\ left[s] # <<>>
      /\ \A q \in Procs : pc'[q] = IF q = s THEN "lock" ELSE pc[q]
      /\ \A q \in Procs : frame'[q] = IF q = s THEN Frame(Head(left[s])) ELSE frame[q]
      /\ \A q \in Senders : left'[q] = IF q = s THEN Tail(left[s]) ELSE left[q]
      /\ Head(left[s]) \in Messages
  BY HeadTailProperties, Roles DEF StartSend, Goto, TypeOK
<1>2. /\ UNCHANGED <<kind, dead, closed, rst, got, sent>> /\ \A e \in Ends : OnWay(e)' = OnWay(e)
  BY DEF StartSend, OnWay, setup, tcp, process
<1>3. Streams'
  <2>1. \A p \in Procs : /\ pc'[p] = "write" <=> pc[p] = "write"
                         /\ pc[p] = "write" => frame'[p] = frame[p]
    BY <1>1
  <2> QED
    <3> SUFFICES ASSUME NEW e \in Ends, ~closed[e] PROVE Stream(e)'
      BY <1>2 DEF Streams
    <3>1. Stream(e)
      BY <1>0 DEF Streams
    <3> QED
      BY <1>2, <2>1, <3>1 DEF Stream
<1>4. Numbers'
  <2>1. \A p \in Procs : Mid(p)' => Mid(p)
    BY <1>1 DEF Mid
  <2> QED
    BY <1>0, <1>2, <2>1 DEF Numbers, Behind
<1>5. Answers'
  <2> SUFFICES ASSUME Client PROVE Answers'
    BY <1>2 DEF Answers, Client
  <2>1. s = Creator /\ left[Creator] = <<Open>>
    BY <1>0, <1>1 DEF Control, Alone, Answers
  <2>2. Head(left[s]) = Open /\ Tail(left[s]) = <<>> /\ End(s) = "a"
    BY <2>1, Roles
  <2>3. left'[Creator] = <<>>
    BY <1>1, <2>1, <2>2
  <2>4. \A i \in 1 .. Len(frame'[s]) : frame'[s][i].msg = Line(End(s))
    BY <1>1, <2>2, Words DEF Line
  <2>5. \A p \in Procs : Sends(p)' => \A i \in 1 .. Len(frame'[p]) : frame'[p][i].msg = Line(End(p))
    BY <1>0, <1>1, <2>4 DEF Answers, Sends
  <2> QED
    BY <1>0, <1>2, <2>3, <2>5 DEF Answers
<1> QED
  BY <1>3, <1>4, <1>5 DEF Flow

LEMMA LockFlow ==
  ASSUME TypeOK, Control, Flow, NEW p \in Procs, Lock(p)
  PROVE  Flow'
<1>0. Streams /\ Numbers /\ Answers
  BY DEF Flow
<1>1. /\ pc[p] = "lock" /\ mut[End(p)] = NoOne
      /\ \A q \in Procs : pc'[q] = IF q = p THEN "write" ELSE pc[q]
      /\ UNCHANGED <<kind, dead, closed, rst, got, sent, frame, left>>
      /\ \A e \in Ends : OnWay(e)' = OnWay(e)
  BY DEF Lock, Free, Goto, TypeOK, OnWay, setup, tcp, process, traffic
<1>2. frame[p][1].part = "head" /\ ~dead[End(p)]
  BY <1>1, Roles DEF Control, Shape, Gone
<1>3. \A q \in Procs : End(q) = End(p) => pc[q] # "write"
  BY <1>1, Roles DEF Control, Locks, Holds
<1>4. ASSUME NEW e \in Ends, ~closed[e] PROVE Stream(e)'
  <2>1. Stream(e)
    BY <1>0, <1>4 DEF Streams
  <2>2. CASE e = Peer(End(p))
    <3>1. Peer(e) = End(p)
      BY <2>2, Roles
    <3>2. Whole(OnWay(e))
      BY <1>2, <1>3, <2>1, <3>1 DEF Stream
    <3>3. Joins(OnWay(e), frame[p][1])
      BY <1>2, <3>2, HeadJoins
    <3>4. \A q \in Procs : End(q) = Peer(e) /\ pc'[q] = "write" => q = p
      BY <1>1, <1>3, <3>1
    <3> QED
      BY <1>1, <2>1, <3>1, <3>3, <3>4 DEF Stream
  <2>3. CASE e # Peer(End(p))
    <3>1. Peer(e) # End(p)
      BY <2>3, Roles
    <3>2. \A q \in Procs : End(q) = Peer(e) => pc'[q] = pc[q]
      BY <1>1, <3>1
    <3> QED
      BY <1>1, <2>1, <3>2 DEF Stream
  <2> QED
    BY <2>2, <2>3
<1>5. Streams'
  BY <1>1, <1>4 DEF Streams
<1>6. Numbers'
  <2>1. \A q \in Procs : Mid(q)' => Mid(q)
    BY <1>1, <1>2 DEF Mid
  <2> QED
    BY <1>0, <1>1, <2>1 DEF Numbers, Behind
<1>7. Answers'
  <2>1. \A q \in Procs : Sends(q)' => Sends(q)
    BY <1>1 DEF Sends
  <2> QED
    BY <1>0, <1>1, <2>1 DEF Answers, Client
<1> QED
  BY <1>5, <1>6, <1>7 DEF Flow

(* One more part is written.                                               *)
LEMMA WriteFlow ==
  ASSUME TypeOK, Control, Flow, NEW p \in Procs, Write(p)
  PROVE  Flow'
<1> DEFINE e == End(p)
           r == Peer(e)
           x == frame[p][1]
<1>0. Streams /\ Numbers /\ Answers
  BY DEF Flow
<1>1. /\ e \in Ends /\ r \in Ends /\ e # r /\ Peer(r) = e /\ \A d \in Ends : d = e \/ d = r
      /\ pc[p] = "write" /\ Sends(p)
  BY Roles DEF Write, Sends
<1>2. frame[p] \in Seq(Parts) /\ Rest(frame[p])
  BY <1>1 DEF TypeOK, Control, Shape
<1>3. /\ Head(frame[p]) = x /\ x \in Parts /\ Len(frame[p]) \in Nat \ {0}
      /\ Len(frame[p]) = 1 => Final(x)
      /\ Len(frame[p]) # 1 => Follows(x, Tail(frame[p])[1]) /\ Tail(frame[p])[1].part # "head"
      /\ \A i \in 1 .. Len(Tail(frame[p])) : Tail(frame[p])[i] = frame[p][i + 1]
      /\ Tail(frame[p]) \in Seq(Parts)
  BY <1>2, Written
<1>4. /\ \A q \in Procs : pc'[q] = IF q = p THEN IF Len(frame[p]) = 1 THEN "unlock" ELSE "write" ELSE pc[q]
      /\ \A q \in Procs : frame'[q] = IF q = p THEN Tail(frame[p]) ELSE frame[q]
  BY DEF Write, Goto, TypeOK
<1>5. /\ UNCHANGED <<kind, dead, closed, partial, got, left>>
      /\ \A d \in Ends : sent'[d] = IF d = e /\ x.part = "head" THEN sent[d] + 1 ELSE sent[d]
  BY <1>1, <1>3 DEF Write, TypeOK, setup, process
<1>6. \/ /\ ~closed[r] /\ rst' = rst
         /\ wire' = [wire EXCEPT ![e] = Append(wire[e], x)]
      \/ /\ closed[r] /\ wire' = wire
         /\ \E b \in BOOLEAN : rst' = [rst EXCEPT ![e] = b]
  BY <1>3 DEF Write
<1>7. OnWay(e)' = OnWay(e)
  BY <1>1, <1>5, <1>6 DEF OnWay, TypeOK
<1>8. ~closed[r] => OnWay(r)' = Append(OnWay(r), x)
  <2> SUFFICES ASSUME ~closed[r] PROVE OnWay(r)' = Append(OnWay(r), x)
    OBVIOUS
  <2>1. wire'[e] = Append(wire[e], x)
    BY <1>1, <1>6 DEF TypeOK
  <2>2. OnWay(r)' = partial[r] \o Append(wire[e], x)
    BY <1>1, <1>5, <2>1 DEF OnWay
  <2>3. partial[r] \in Seq(Parts) /\ wire[e] \in Seq(Parts) /\ OnWay(r) = partial[r] \o wire[e]
    BY <1>1, WayType DEF OnWay
  <2>4. x \in Parts
    BY <1>3
  <2> HIDE DEF x, r, e
  <2>5. partial[r] \o Append(wire[e], x) = Append(partial[r] \o wire[e], x)
    BY <2>3, <2>4, WayWritten
  <2> QED
    BY <2>2, <2>3, <2>5
<1>9. closed[r] => OnWay(r)' = OnWay(r)
  BY <1>1, <1>5, <1>6 DEF OnWay
<1>10. \A q \in Procs : pc[q] = "write" /\ End(q) = e => q = p
  BY <1>1 DEF Control, Locks, Holds
<1>11. ~closed[r] => Chain(OnWay(r)) /\ Joins(OnWay(r), x)
  BY <1>0, <1>1 DEF Streams, Stream
<1> HIDE DEF e, r, x
<1>12. ASSUME ~closed[r] PROVE Stream(r)'
  <2>1. /\ Chain(OnWay(r)')
        /\ \A y : Follows(x, y) => Joins(OnWay(r)', y)
        /\ Final(x) => Whole(OnWay(r)')
    <3>1. OnWay(r) \in Seq(Parts)
      BY <1>1, WayType
    <3> QED
      BY <1>3, <1>8, <1>11, <1>12, <3>1, Grown
  <2>2. ASSUME NEW q \in Procs, End(q) = Peer(r), pc'[q] = "write"
        PROVE  Joins(OnWay(r)', frame'[q][1])
    <3>1. q = p /\ Len(frame[p]) # 1
      BY <1>1, <1>4, <1>10, <2>2 DEF e
    <3> QED
      BY <1>3, <1>4, <2>1, <3>1
  <2>3. ASSUME \A q \in Procs : End(q) = Peer(r) => pc'[q] # "write"
        PROVE  Whole(OnWay(r)')
    <3>1. Len(frame[p]) = 1
      BY <1>1, <1>4, <2>3 DEF e
    <3> QED
      BY <1>3, <2>1, <3>1
  <2> QED
    BY <2>1, <2>2, <2>3 DEF Stream
<1>13. ASSUME ~closed[e] PROVE Stream(e)'
  <2>1. Stream(e)
    BY <1>0, <1>1, <1>13 DEF Streams
  <2>2. \A q \in Procs : End(q) = Peer(e) => pc'[q] = pc[q] /\ frame'[q] = frame[q]
    BY <1>1, <1>4 DEF e, r
  <2> QED
    BY <1>5, <1>7, <2>1, <2>2 DEF Stream
<1>14. Streams'
  BY <1>1, <1>5, <1>12, <1>13 DEF Streams
<1>15. /\ Len(got[e]) \in Nat /\ sent[e] \in Nat /\ Len(got[r]) \in Nat /\ sent[r] \in Nat
       /\ Len(got[e]) + Cardinality(Heads(OnWay(e))) <= sent[r]
       /\ Len(got[r]) + Cardinality(Heads(OnWay(r))) <= sent[e]
       /\ Cardinality(Heads(OnWay(e))) \in Nat /\ Cardinality(Heads(OnWay(r))) \in Nat
  BY <1>0, <1>1, Counts DEF Numbers, r
<1>16. /\ Len(got'[e]) + Cardinality(Heads(OnWay(e)')) <= sent'[r]
       /\ Len(got'[r]) + Cardinality(Heads(OnWay(r)')) <= sent'[e]
  <2>1. Cardinality(Heads(OnWay(r)')) = Cardinality(Heads(OnWay(r)))
        \/ (x.part = "head" /\ Cardinality(Heads(OnWay(r)')) = Cardinality(Heads(OnWay(r))) + 1)
    <3>1. OnWay(r) \in Seq(Parts)
      BY <1>1, WayType
    <3>2. CASE closed[r]
      BY <1>9, <3>2
    <3>3. CASE ~closed[r]
      <4>1. /\ x.part = "head" =>
                 Cardinality(Heads(Append(OnWay(r), x))) = Cardinality(Heads(OnWay(r))) + 1
            /\ x.part # "head" => Heads(Append(OnWay(r), x)) = Heads(OnWay(r))
        BY <1>3, <3>1, HeadsGrown
      <4>2. Heads(OnWay(r)') = Heads(Append(OnWay(r), x))
        BY <1>8, <3>3
      <4> QED
        BY <4>1, <4>2
    <3> QED
      BY <3>2, <3>3
  <2> QED
    BY <1>1, <1>5, <1>7, <1>15, <2>1
<1>17. Behind(e)' /\ (Behind(r) => Behind(r)')
  <2>1. Len(got[r]) < sent'[e]
    <3>1. CASE x.part = "head"
      BY <1>1, <1>5, <1>15, <3>1
    <3>2. CASE x.part # "head"
      <4>1. Behind(e)
        BY <1>0, <1>1, <3>2 DEF Numbers, Mid, e, x
      <4> QED
        BY <1>1, <1>5, <3>2, <4>1 DEF Behind, r
    <3> QED
      BY <3>1, <3>2
  <2> QED
    BY <1>1, <1>5, <2>1 DEF Behind, r
<1>18. Numbers'
  <2>1. ASSUME NEW q \in Procs, Mid(q)' PROVE Behind(End(q))'
    <3>1. CASE End(q) = e
      BY <1>17, <3>1
    <3>2. CASE End(q) = r
      <4>1. Mid(q)
        BY <1>1, <1>4, <2>1, <3>2 DEF Mid, e
      <4> QED
        BY <1>0, <1>17, <3>2, <4>1 DEF Numbers
    <3> QED
      BY <1>1, <3>1, <3>2, Roles
  <2>2. ASSUME NEW d \in Ends, rst'[d] PROVE Behind(d)'
    <3>1. CASE d = e
      BY <1>17, <3>1
    <3>2. CASE d = r
      <4>1. rst[r]
        BY <1>1, <1>6, <2>2, <3>2 DEF TypeOK
      <4> QED
        BY <1>0, <1>1, <1>17, <3>2, <4>1 DEF Numbers
    <3> QED
      BY <1>1, <3>1, <3>2
  <2> QED
    BY <1>1, <1>16, <2>1, <2>2, Roles DEF Numbers
<1>19. Answers'
  <2> SUFFICES ASSUME Client PROVE Answers'
    BY <1>5 DEF Answers, Client
  <2>1. \A i \in 1 .. Len(frame[p]) : frame[p][i].msg = Line(e)
    BY <1>0, <1>1 DEF Answers, e
  <2>2. x.msg = Line(e)
    BY <1>3, <2>1 DEF x
  <2>3. ASSUME NEW q \in Procs, Sends(q)', NEW i \in 1 .. Len(frame'[q])
        PROVE  frame'[q][i].msg = Line(End(q))
    <3>1. CASE q = p
      <4>1. i \in 1 .. Len(Tail(frame[p])) /\ frame'[q][i] = frame[p][i + 1]
        BY <1>3, <1>4, <2>3, <3>1
      <4>2. i + 1 \in 1 .. Len(frame[p])
        BY <1>2, <1>3, <4>1, HeadTailProperties DEF Rest
      <4> QED
        BY <2>1, <3>1, <4>1, <4>2 DEF e
    <3>2. CASE q # p
      <4>1. Sends(q) /\ frame'[q] = frame[q]
        BY <1>4, <2>3, <3>2 DEF Sends
      <4> QED
        BY <1>0, <2>3, <4>1 DEF Answers
    <3> QED
      BY <3>1, <3>2
  <2>4. \A i \in 1 .. Len(OnWay(e)') : OnWay(e)'[i].msg = Line(Peer(e))
    BY <1>0, <1>1, <1>7 DEF Answers
  <2>5. \A i \in 1 .. Len(OnWay(r)') : OnWay(r)'[i].msg = Line(Peer(r))
    <3>1. OnWay(r) \in Seq(Parts) /\ \A i \in 1 .. Len(OnWay(r)) : OnWay(r)[i].msg = Line(e)
      BY <1>0, <1>1, WayType DEF Answers
    <3>2. CASE closed[r]
      BY <1>1, <1>9, <3>1, <3>2
    <3>3. CASE ~closed[r]
      <4>1. /\ Len(OnWay(r)') = Len(OnWay(r)) + 1 /\ Len(OnWay(r)) \in Nat
            /\ \A i \in 1 .. Len(OnWay(r)) : OnWay(r)'[i] = OnWay(r)[i]
            /\ OnWay(r)'[Len(OnWay(r)) + 1] = x
        BY <1>3, <1>8, <3>1, <3>3, AppendProperties, LenProperties
      <4>2. \A i \in 1 .. Len(OnWay(r)') : i \in 1 .. Len(OnWay(r)) \/ i = Len(OnWay(r)) + 1
        BY <4>1
      <4> QED
        BY <1>1, <2>2, <3>1, <4>1, <4>2
    <3> QED
      BY <3>2, <3>3
  <2>6. left'[Creator] \in {<<Open>>, <<>>}
    BY <1>0, <1>5 DEF Answers
  <2> QED
    BY <1>1, <2>3, <2>4, <2>5, <2>6 DEF Answers
<1> QED
  BY <1>14, <1>18, <1>19 DEF Flow

LEMMA Beyond ==
  ASSUME NEW m \in Nat, NEW n \in Nat, NEW i \in 1 .. n
  PROVE  i + m \in 1 .. m + n /\ ~(i + m <= m) /\ (i + m) - m = i
OBVIOUS

(* A message is taken from what is on the way, and handled.                *)
LEMMA ReceivedFlow ==
  ASSUME TypeOK, Control, Flow, NEW e \in Ends, NEW m, Received(e, m),
         \A q \in Procs : q # e => pc'[q] = pc[q] /\ frame'[q] = frame[q],
         pc'[e] # "write",
         pc'[e] = "lock" => m = Open /\ frame'[e] = Frame(Reply)
  PROVE  Flow'
<1> DEFINE r == Peer(e)
<1>0. Streams /\ Numbers /\ Answers
  BY DEF Flow
<1>1. /\ r \in Ends /\ e # r /\ Peer(r) = e /\ (\A d \in Ends : d = e \/ d = r)
      /\ pc[e] = "handle" /\ e \in Procs /\ End(e) = e
  BY Roles DEF Received
<1>2. /\ UNCHANGED <<kind, closed, rst, dead, sent, left, wire>>
      /\ partial' = [partial EXCEPT ![e] = <<>>]
      /\ got' = [got EXCEPT ![e] = Append(got[e], m)]
      /\ m = Assembled(partial[e])
  BY DEF Received, setup, tcp, process
<1>3. /\ partial[e] \in Seq(Parts) /\ wire[r] \in Seq(Parts) /\ OnWay(e) = partial[e] \o wire[r]
      /\ OnWay(e)' = wire[r] /\ OnWay(r)' = OnWay(r)
  <2>1. partial'[e] = <<>> /\ partial'[r] = partial[r]
    BY <1>1, <1>2 DEF TypeOK
  <2>2. partial[e] \in Seq(Parts) /\ wire[r] \in Seq(Parts) /\ OnWay(e) = partial[e] \o wire[r]
    BY WayType DEF OnWay
  <2>3. <<>> \o wire[r] = wire[r]
    BY <2>2, ConcatEmptySeq
  <2> QED
    BY <1>2, <2>1, <2>2, <2>3 DEF OnWay
<1>4. /\ ~closed[e] /\ partial[e] # <<>> /\ Final(partial[e][Len(partial[e])])
      /\ 1 \in Heads(partial[e]) /\ OnWay(e)[1] = partial[e][1]
      /\ 1 \in 1 .. Len(OnWay(e)) /\ m = partial[e][1].msg
  BY <1>1, <1>2, ReadWhole DEF Assembled
<1>5. Stream(e)
  BY <1>0, <1>4 DEF Streams
<1>6. /\ Chain(wire[r])
      /\ \A x : Joins(OnWay(e), x) => Joins(wire[r], x)
      /\ Whole(OnWay(e)) => Whole(wire[r])
  BY <1>3, <1>4, <1>5, Taken DEF Stream
<1>7. \A q \in Procs : (pc'[q] = "write" <=> pc[q] = "write") /\ (pc[q] = "write" => frame'[q] = frame[q])
  BY <1>1
<1>8. Stream(e)'
  BY <1>2, <1>3, <1>5, <1>6, <1>7 DEF Stream
<1>9. ASSUME ~closed[r] PROVE Stream(r)'
  <2>1. Stream(r)
    BY <1>0, <1>1, <1>9 DEF Streams
  <2> QED
    BY <1>2, <1>3, <1>7, <2>1 DEF Stream
<1>10. Streams'
  BY <1>1, <1>2, <1>8, <1>9 DEF Streams
<1>11. /\ Len(got'[e]) = Len(got[e]) + 1 /\ got'[r] = got[r]
       /\ Len(got[e]) \in Nat /\ Len(got[r]) \in Nat /\ sent[e] \in Nat /\ sent[r] \in Nat
  <2>1. got[e] \in Seq(Messages \cup {Garbled})
    BY DEF TypeOK
  <2>2. got'[e] = Append(got[e], m) /\ got'[r] = got[r]
    BY <1>1, <1>2 DEF TypeOK
  <2>3. m \in Messages \cup {Garbled}
    BY <1>1, <1>2, ReadWhole DEF Assembled
  <2> QED
    BY <1>1, <2>1, <2>2, <2>3, AppendProperties, Counts
<1>12. Len(got'[e]) + Cardinality(Heads(wire[r])) <= sent[r]
  <2>1. Cardinality(Heads(wire[r])) + 1 <= Cardinality(Heads(OnWay(e)))
    BY <1>3, <1>4, HeadsTaken
  <2>2. Cardinality(Heads(wire[r])) \in Nat /\ Cardinality(Heads(OnWay(e))) \in Nat
    BY <1>3, HeadsType, Counts
  <2>3. Len(got[e]) + Cardinality(Heads(OnWay(e))) <= sent[r]
    BY <1>0, <1>1 DEF Numbers
  <2> QED
    BY <1>11, <2>1, <2>2, <2>3
<1>13. wire[r] # <<>> => Behind(r)'
  <2>1. wire[r] # <<>> => Cardinality(Heads(wire[r])) >= 1
    BY <1>3, <1>6, HeadsSome
  <2>2. Cardinality(Heads(wire[r])) \in Nat
    BY <1>3, HeadsType
  <2> QED
    BY <1>1, <1>2, <1>11, <1>12, <2>1, <2>2 DEF Behind
<1>14. Behind(e)' <=> Behind(e)
  BY <1>1, <1>2, <1>11 DEF Behind
<1>15. ASSUME NEW q \in Procs, Mid(q)' PROVE Behind(End(q))'
  <2>1. Mid(q) /\ pc[q] = "write" /\ frame[q][1].part # "head"
    BY <1>7, <1>15 DEF Mid
  <2>2. CASE End(q) = e
    BY <1>0, <1>14, <2>1, <2>2 DEF Numbers
  <2>3. CASE End(q) = r
    <3>1. Joins(wire[r], frame[q][1])
      BY <1>5, <1>6, <2>1, <2>3 DEF Stream
    <3>2. wire[r] # <<>>
      BY <2>1, <3>1 DEF Joins
    <3> QED
      BY <1>13, <2>3, <3>2
  <2> QED
    BY <1>1, <2>2, <2>3, Roles
<1>16. ASSUME NEW d \in Ends, rst'[d] PROVE Behind(d)'
  <2>1. closed[Peer(d)]
    BY <1>2, <1>16 DEF Control, Gone
  <2>2. d = e
    BY <1>1, <1>4, <2>1
  <2> QED
    BY <1>0, <1>2, <1>14, <1>16, <2>2 DEF Numbers
<1>17. Numbers'
  <2>1. Len(got'[r]) + Cardinality(Heads(OnWay(r)')) <= sent'[Peer(r)]
    BY <1>0, <1>1, <1>2, <1>3, <1>11 DEF Numbers
  <2>2. Len(got'[e]) + Cardinality(Heads(OnWay(e)')) <= sent'[Peer(e)]
    BY <1>2, <1>3, <1>12
  <2>3. ASSUME NEW d \in Ends 
        PROVE  Len(got'[d]) + Cardinality(Heads(OnWay(d)')) <= sent'[Peer(d)]
    BY <1>1, <2>1, <2>2
  <2> QED
    BY <1>15, <1>16, <2>3 DEF Numbers
<1>18. Answers'
  <2> SUFFICES ASSUME Client PROVE Answers'
    BY <1>2 DEF Answers, Client
  <2>1. OnWay(e)[1].msg = Line(r)
    BY <1>0, <1>4 DEF Answers
  <2>2. m = Line(r)
    BY <1>4, <2>1
  <2>3. ASSUME NEW q \in Procs, Sends(q)', NEW i \in 1 .. Len(frame'[q])
        PROVE  frame'[q][i].msg = Line(End(q))
    <3>1. CASE q = e
      <4>1. m = Open /\ frame'[e] = Frame(Reply)
        BY <2>3, <3>1 DEF Sends
      <4>2. e = "b"
        BY <1>1, <2>2, <4>1, Roles, ConstantsAssumption DEF Line
      <4>3. frame'[e][i].msg = Reply
        BY <2>3, <3>1, <4>1, Words, Roles
      <4> QED
        BY <1>1, <3>1, <4>2, <4>3 DEF Line
    <3>2. CASE q # e
      <4>1. Sends(q) /\ frame'[q] = frame[q]
        BY <2>3, <3>2 DEF Sends
      <4> QED
        BY <1>0, <2>3, <4>1 DEF Answers
    <3> QED
      BY <3>1, <3>2
  <2>4. ASSUME NEW i \in 1 .. Len(wire[r]) PROVE wire[r][i].msg = Line(r)
    <3>0. Len(partial[e]) \in Nat /\ Len(wire[r]) \in Nat
      BY <1>3, LenProperties
    <3>1. /\ Len(partial[e] \o wire[r]) = Len(partial[e]) + Len(wire[r])
          /\ \A j \in 1 .. Len(partial[e]) + Len(wire[r]) :
                 (partial[e] \o wire[r])[j] =
                     IF j <= Len(partial[e]) THEN partial[e][j] ELSE wire[r][j - Len(partial[e])]
      BY <1>3, ConcatProperties
    <3>2. /\ i + Len(partial[e]) \in 1 .. Len(partial[e]) + Len(wire[r])
          /\ ~(i + Len(partial[e]) <= Len(partial[e])) /\ (i + Len(partial[e])) - Len(partial[e]) = i
      BY <3>0, Beyond
    <3>3. OnWay(e)[i + Len(partial[e])] = wire[r][i]
      BY <1>3, <3>1, <3>2
    <3>4. i + Len(partial[e]) \in 1 .. Len(OnWay(e))
      BY <1>3, <3>1, <3>2
    <3>5. \A j \in 1 .. Len(OnWay(e)) : OnWay(e)[j].msg = Line(r)
      BY <1>0 DEF Answers
    <3> QED
      BY <3>3, <3>4, <3>5
  <2>5. ASSUME NEW d \in Ends, NEW i \in 1 .. Len(OnWay(d)')
        PROVE  OnWay(d)'[i].msg = Line(Peer(d))
    <3>1. CASE d = e
      BY <1>3, <2>4, <2>5, <3>1
    <3>2. CASE d = r
      BY <1>0, <1>3, <2>5, <3>2 DEF Answers
    <3> QED
      BY <1>1, <3>1, <3>2
  <2> QED
    BY <1>0, <1>2, <2>3, <2>5 DEF Answers
<1> QED
  BY <1>10, <1>17, <1>18 DEF Flow

(* A thread goes on that neither writes nor takes part in any message.     *)
LEMMA Still ==
  ASSUME TypeOK, Control, Flow, 
         UNCHANGED <<kind, left, got, sent, dead, closed, rst, wire, partial>>,
         \A q \in Procs : \/ pc'[q] = pc[q] /\ frame'[q] = frame[q]
                          \/ pc[q] # "write" /\ pc'[q] \notin {"lock", "write"}
  PROVE  Flow'
<1>1. \A e \in Ends : OnWay(e)' = OnWay(e)
  BY DEF OnWay
<1>2. Quietly
  BY <1>1 DEF Quietly, Sends
<1> QED
  BY <1>2, QuietFlow

LEMMA StillOne ==
  ASSUME TypeOK, Control, Flow, 
         UNCHANGED <<kind, left, got, sent, dead, closed, rst, wire, partial, frame>>,
         NEW p \in Procs, pc[p] # "write", NEW l, l \notin {"lock", "write"}, pc' = [pc EXCEPT ![p] = l]
  PROVE  Flow'
<1>1. \A q \in Procs : pc'[q] = IF q = p THEN l ELSE pc[q]
  BY DEF TypeOK
<1>2. \A q \in Procs : \/ pc'[q] = pc[q] /\ frame'[q] = frame[q]
                       \/ pc[q] # "write" /\ pc'[q] \notin {"lock", "write"}
  BY <1>1
<1> QED
  BY <1>2, Still

LEMMA StillTwo ==
  ASSUME TypeOK, Control, Flow, 
         UNCHANGED <<kind, left, got, sent, dead, closed, rst, wire, partial, frame>>,
         NEW p \in Procs, pc[p] # "write", NEW d \in Procs, pc[d] # "write",
         \A q \in Procs \ {p, d} : pc'[q] = pc[q],
         pc'[p] \notin {"lock", "write"}, pc'[d] \notin {"lock", "write"}
  PROVE  Flow'
<1>1. \A q \in Procs : \/ pc'[q] = pc[q] /\ frame'[q] = frame[q]
                       \/ pc[q] # "write" /\ pc'[q] \notin {"lock", "write"}
  OBVIOUS
<1> QED
  BY <1>1, Still

LEMMA CloseQuiet ==
  ASSUME TypeOK, NEW e \in Ends, ~closed[e], Close(e), partial' = partial
  PROVE  \A d \in Ends :
            /\ \/ OnWay(d)' = OnWay(d)
               \/ closed'[d] /\ OnWay(d)' = partial[d]
            /\ rst'[d] => rst[d] \/ (~closed[Peer(d)] /\ OnWay(Peer(d)) # <<>>)
            /\ closed[d] => closed'[d]
<1> DEFINE r == Peer(e)
<1>1. r \in Ends /\ e # r /\ Peer(r) = e /\ \A d \in Ends : d = e \/ d = r
  BY Roles
<1>2. /\ closed'[e] /\ closed'[r] = closed[r]
      /\ rst'[e] = rst[e] /\ (rst'[r] <=> rst[r] \/ wire[r] # <<>>)
      /\ wire'[r] = <<>> /\ wire'[e] = wire[e]
  <2>1. closed'[e] /\ closed'[r] = closed[r]
    BY <1>1 DEF Close, TypeOK
  <2>2. wire'[r] = <<>> /\ wire'[e] = wire[e]
    BY <1>1 DEF Close, TypeOK
  <2>3. rst \in [Ends -> BOOLEAN] /\ rst' = [rst EXCEPT ![r] = rst[r] \/ wire[r] # <<>>]
    BY DEF Close, TypeOK
  <2>4. rst'[e] = rst[e] /\ (rst'[r] <=> rst[r] \/ wire[r] # <<>>)
    BY <1>1, <2>3, Zenon
  <2> QED
    BY <2>1, <2>2, <2>4
<1>3. OnWay(e)' = partial[e]
  <2>1. partial[e] \o <<>> = partial[e]
    BY WayType, ConcatEmptySeq
  <2> QED
    BY <1>2, <2>1 DEF OnWay
<1>4. OnWay(r)' = OnWay(r)
  BY <1>1, <1>2 DEF OnWay
<1>5. wire[r] # <<>> => OnWay(e) # <<>>
  BY WayType
<1> QED
  BY <1>1, <1>2, <1>3, <1>4, <1>5

LEMMA EndFlow == ASSUME TypeOK, Control, Flow, NEW e \in Ends, EndProcess(e) PROVE Flow'
<1>1. /\ UNCHANGED <<kind, left, got, sent, partial, frame>>
      /\ \A d \in Ends : dead[d] => dead'[d]
      /\ dead'[e]
      /\ \A p \in Procs : pc'[p] = IF End(p) = e THEN "done" ELSE pc[p]
  BY DEF EndProcess, TypeOK, setup, traffic
<1>2. \A d \in Ends :
         /\ \/ OnWay(d)' = OnWay(d)
            \/ closed'[d] /\ OnWay(d)' = partial[d]
         /\ rst'[d] => rst[d] \/ (~closed[Peer(d)] /\ OnWay(Peer(d)) # <<>>)
         /\ closed[d] => closed'[d]
  <2>1. CASE linked /\ ~closed[e]
    BY <1>1, <2>1, CloseQuiet DEF EndProcess
  <2>2. CASE ~(linked /\ ~closed[e])
    BY <1>1, <2>2 DEF EndProcess, tcp, OnWay
  <2> QED
    BY <2>1, <2>2
<1>3. Quietly
  BY <1>1, <1>2 DEF Quietly, Sends
<1> QED
  BY <1>3, QuietFlow

LEMMA ThrowFlow ==
  ASSUME TypeOK, Control, Flow, NEW p \in Procs, WriteThrows(p) \/ (p = Creator /\ ClientThrows)
  PROVE  Flow'
<1>0. PICK l \in {"leave", "idle", "quit"} :
         /\ pc[p] = "write" /\ rst[End(p)]
         /\ UNCHANGED <<kind, left, got, sent, dead, closed, rst, wire, partial>>
         /\ pc' = [pc EXCEPT ![p] = l] /\ frame' = [frame EXCEPT ![p] = <<>>]
  BY Roles DEF WriteThrows, ClientThrows, Goto, setup, tcp, process, traffic
<1>1. /\ pc[p] = "write" /\ rst[End(p)]
      /\ UNCHANGED <<kind, left, got, sent, dead, closed, rst, wire, partial>>
      /\ \A q \in Procs : q # p => pc'[q] = pc[q] /\ frame'[q] = frame[q]
      /\ pc'[p] = l
  BY <1>0 DEF TypeOK
<1>2. closed[Peer(End(p))]
  BY <1>1, Roles DEF Control, Gone
<1>3. \A e \in Ends : OnWay(e)' = OnWay(e)
  BY <1>1 DEF OnWay
<1>4. Quietly
  BY <1>1, <1>2, <1>3 DEF Quietly, Sends
<1> QED
  BY <1>4, QuietFlow

LEMMA ReadFlow == ASSUME TypeOK, Control, Flow, NEW e \in Ends, Read(e) PROVE Flow'
<1> DEFINE r == Peer(e)
<1>1. /\ pc[e] = "read" /\ wire[r] # <<>> /\ r \in Ends /\ e # r /\ (\A d \in Ends : d = e \/ d = r)
      /\ UNCHANGED <<kind, left, got, sent, dead, closed, rst, frame>>
      /\ \A q \in Procs : q # e => pc'[q] = pc[q]
      /\ pc'[e] \notin {"lock", "write"}
  BY Roles DEF Read, Goto, TypeOK, setup, process, traffic
<1>2. /\ wire'[r] = Tail(wire[r]) /\ wire'[e] = wire[e]
      /\ partial'[e] = Append(partial[e], Head(wire[r])) /\ partial'[r] = partial[r]
  BY <1>1 DEF Read, TypeOK
<1>3. OnWay(e)' = OnWay(e)
  <2>1. Append(partial[e], Head(wire[r])) \o Tail(wire[r]) = partial[e] \o wire[r]
    BY <1>1, WayType, WayRead
  <2> QED
    BY <1>2, <2>1 DEF OnWay
<1>4. OnWay(r)' = OnWay(r)
  BY <1>2, Roles DEF OnWay
<1>5. Quietly
  BY <1>1, <1>3, <1>4 DEF Quietly, Sends
<1> QED
  BY <1>5, QuietFlow

LEMMA ReadEndsFlow == ASSUME TypeOK, Control, Flow, NEW e \in Ends, ReadEnds(e) PROVE Flow'
<1> DEFINE r == Peer(e)
<1>1. /\ pc[e] = "read" /\ wire[r] = <<>> /\ closed[r] /\ r \in Ends /\ e # r
      /\ (\A d \in Ends : d = e \/ d = r) /\ Peer(r) = e
      /\ UNCHANGED <<kind, left, got, sent, dead, closed, rst, wire, frame>>
      /\ \A q \in Procs : q # e => pc'[q] = pc[q]
      /\ pc'[e] \notin {"lock", "write"}
  BY SMTT(30), Roles DEF ReadEnds, Ended, Goto, TypeOK, setup, tcp, process, traffic
<1>2. partial'[e] = <<>> /\ partial'[r] = partial[r]
  BY <1>1 DEF ReadEnds, TypeOK
<1>3. OnWay(e)' = <<>>
  <2>1. <<>> \in Seq(Parts) /\ <<>> \o <<>> = <<>>
    BY ConcatEmptySeq
  <2> QED
    BY <1>1, <1>2, <2>1 DEF OnWay
<1>4. OnWay(r)' = OnWay(r)
  BY <1>1, <1>2 DEF OnWay
<1>5. Quietly
  BY <1>1, <1>3, <1>4 DEF Quietly, Sends
<1> QED
  BY <1>5, QuietFlow

LEMMA DeleteFlow == ASSUME TypeOK, Control, Flow, NEW e \in Ends, Delete(e) PROVE Flow'
<1>1. /\ pc[e] = "delete" /\ UNCHANGED <<kind, left, got, sent, dead, partial, frame>>
      /\ \A q \in Procs : q # e => pc'[q] = pc[q]
      /\ pc'[e] \notin {"lock", "write"}
  BY Roles DEF Delete, Goto, TypeOK, setup, process, traffic
<1>2. ~closed[e]
  BY <1>1 DEF Control, Gone
<1>3. Quietly
  BY <1>1, <1>2, CloseQuiet DEF Quietly, Sends, Delete
<1> QED
  BY <1>3, QuietFlow

LEMMA HandleFlow ==
  ASSUME TypeOK, Control, Flow, NEW e \in Ends, 
         HandleCommand(e) \/ HandleReply(e) \/ \E m \in Messages \cup {Garbled} : HandleMessage(e, m)
  PROVE  Flow'
<1>1. PICK m : /\ Received(e, m)
               /\ \/ m = Open /\ pc' = [pc EXCEPT ![e] = "lock"] /\ frame' = [frame EXCEPT ![e] = Frame(Reply)]
                  \/ frame' = frame /\ \E l \in {"leave", "read", "quit"} : pc' = [pc EXCEPT ![e] = l]
  BY DEF HandleMessage, HandleCommand, HandleReply, Goto
<1>0. e \in Procs
  BY Roles
<1>2. CASE m = Open /\ pc' = [pc EXCEPT ![e] = "lock"] /\ frame' = [frame EXCEPT ![e] = Frame(Reply)]
  <2>1. /\ \A q \in Procs : q # e => pc'[q] = pc[q] /\ frame'[q] = frame[q]
        /\ pc'[e] = "lock" /\ frame'[e] = Frame(Reply)
    BY <1>0, <1>2 DEF TypeOK
  <2> QED
    BY <1>1, <1>2, <2>1, ReceivedFlow
<1>3. ASSUME NEW l \in {"leave", "read", "quit"}, frame' = frame, pc' = [pc EXCEPT ![e] = l]
      PROVE  Flow'
  <2>1. (\A q \in Procs : q # e => pc'[q] = pc[q] /\ frame'[q] = frame[q]) /\ pc'[e] = l
    BY <1>0, <1>3 DEF TypeOK
  <2> QED
    BY <1>1, <1>3, <2>1, ReceivedFlow
<1> QED
  BY <1>1, <1>2, <1>3

LEMMA FlowNext == TypeOK /\ TypeOK' /\ Control /\ Flow /\ [Next]_vars => Flow'
<1> SUFFICES ASSUME TypeOK, TypeOK', Control, Flow, [Next]_vars PROVE Flow'
  OBVIOUS
<1>1. CASE Listen \/ UNCHANGED vars
  <2>1. UNCHANGED <<kind, left, got, sent, dead, closed, rst, wire, partial, pc, frame>>
    BY <1>1 DEF Listen, vars, setup, tcp, traffic
  <2> QED
    BY <2>1, Still
<1>2. CASE Connect \/ NewClient \/ Add
  <2>1. /\ UNCHANGED <<kind, left, got, sent, dead, closed, rst, wire, partial, frame>>
        /\ pc[Creator] # "write"
        /\ \E l \in {"connect", "new", "quit", "done", "idle"} : pc' = [pc EXCEPT ![Creator] = l]
    BY <1>2 DEF Connect, NewClient, Add, Goto, setup, tcp, process, traffic
  <2> QED
    BY <2>1, Roles, StillOne
<1>3. CASE NewHost
  <2>1. /\ UNCHANGED <<kind, left, got, sent, dead, closed, rst, wire, partial, frame>>
        /\ pc[Creator] # "write" /\ pc["a"] # "write"
        /\ pc' = [pc EXCEPT ![Creator] = "add", !["a"] = "read"]
    BY <1>3 DEF NewHost, setup, tcp, process, traffic, Control, Alone
  <2>2. "a" \in Procs /\ Creator \in Procs
    BY Roles
  <2>3. /\ \A q \in Procs \ {"a", Creator} : pc'[q] = pc[q]
        /\ pc'[Creator] = "add" /\ pc'["a"] = "read"
    BY <2>1, <2>2, Roles DEF TypeOK
  <2>4. pc'[Creator] \notin {"lock", "write"} /\ pc'["a"] \notin {"lock", "write"}
    BY <2>3
  <2> QED
    BY <2>1, <2>2, <2>3, <2>4, StillTwo
<1>4. CASE Accept
  <2>1. /\ UNCHANGED <<kind, left, got, sent, dead, closed, rst, wire, partial, frame>>
        /\ pc["b"] # "write" /\ \E l \in {"read"} : pc' = [pc EXCEPT !["b"] = l]
    BY <1>4 DEF Accept, Goto, setup, tcp, process, traffic
  <2> QED
    BY <2>1, Roles, StillOne
<1>5. ASSUME NEW p \in Procs, Lost(p) PROVE Flow'
  <2>1. /\ UNCHANGED <<kind, left, got, sent, dead, closed, rst, wire, partial, frame>>
        /\ pc[p] # "write" /\ \E l \in {"lost"} : pc' = [pc EXCEPT ![p] = l]
    BY <1>5 DEF Lost, Goto, setup, tcp, process, traffic
  <2> QED
    BY <2>1, Roles, StillOne
<1>6. ASSUME NEW p \in Procs, Unlock(p) PROVE Flow'
  <2>1. /\ UNCHANGED <<kind, left, got, sent, dead, closed, rst, wire, partial, frame>>
        /\ pc[p] = "unlock"
        /\ \/ \E l \in {"read", "quit", "idle"} : pc' = [pc EXCEPT ![p] = l]
           \/ p \notin Ends /\ kind = "request" /\ pc' = [pc EXCEPT ![p] = "done", !["a"] = "read"]
    BY <1>6 DEF Unlock, setup, tcp, process, traffic
  <2>3. p \notin Ends /\ kind = "request" => pc["a"] # "write"
    <3> SUFFICES ASSUME p \notin Ends, kind = "request" PROVE pc["a"] # "write"
      OBVIOUS
    <3>1. p \in Senders /\ p = Creator
      BY <2>1, Roles DEF Control, Alone, Client
    <3> QED
      BY <2>1, <3>1 DEF Control, Alone, Client
  <2>2. CASE p \notin Ends /\ kind = "request" /\ pc' = [pc EXCEPT ![p] = "done", !["a"] = "read"]
    <3>1. "a" \in Procs /\ p # "a" /\ pc \in [Procs -> PcValues]
      <4>1. "a" \in Ends /\ Ends \subseteq Procs
        BY Roles
      <4>2. pc \in [Procs -> PcValues]
        BY DEF TypeOK, PcValues
      <4> QED
        BY <2>2, <4>1, <4>2
    <3>2. /\ \A q \in Procs \ {"a", p} : pc'[q] = pc[q]
          /\ pc'[p] = "done" /\ pc'["a"] = "read"
      BY <2>2, <3>1
    <3>3. pc'[p] \notin {"lock", "write"} /\ pc'["a"] \notin {"lock", "write"}
      BY <3>2
    <3> QED
      BY <2>1, <2>2, <2>3, <3>1, <3>2, <3>3, StillTwo
  <2>4. ASSUME NEW l \in {"read", "quit", "idle"}, pc' = [pc EXCEPT ![p] = l] PROVE Flow'
    BY <2>1, <2>4, StillOne
  <2> QED
    BY <2>1, <2>2, <2>4
<1>7. ASSUME NEW e \in Ends, ReadFails(e) \/ Leave(e) PROVE Flow'
  <2>1. /\ UNCHANGED <<kind, left, got, sent, dead, closed, rst, wire, partial, frame>>
        /\ pc[e] # "write" /\ \E l \in {"quit", "delete"} : pc' = [pc EXCEPT ![e] = l]
    BY <1>7 DEF ReadFails, Leave, Goto, setup, tcp, process, traffic
  <2> QED
    BY <2>1, Roles, StillOne
<1>8. ASSUME NEW p \in Procs, Quit(p) PROVE Flow'
  BY <1>8, EndFlow, Roles DEF Quit
<1>9. ASSUME NEW e \in Ends, Die(e) PROVE Flow'
  BY <1>9, EndFlow DEF Die
<1> QED
  BY <1>1, <1>2, <1>3, <1>4, <1>5, <1>6, <1>7, <1>8, <1>9, StartFlow, LockFlow, WriteFlow, ThrowFlow,
     ReadFlow, ReadEndsFlow, DeleteFlow, HandleFlow, Roles DEF Next, Step

LEMMA FlowInit == Init => Flow
<1> SUFFICES ASSUME Init PROVE Flow
  OBVIOUS
<1>1. \A e \in Ends : OnWay(e) = <<>>
  <2>1. <<>> \in Seq(Parts) /\ <<>> \o <<>> = <<>>
    BY ConcatEmptySeq
  <2> QED
    BY <2>1, Roles DEF Init, OnWay
<1>2. \A p \in Procs : pc[p] \notin {"lock", "write"}
  BY DEF Init
<1>3. Len(<<>>) = 0
  BY EmptySeq
<1>4. Streams
  BY <1>1, <1>2, <1>3 DEF Streams, Stream, Chain, Linked, Whole
<1>5. \A e \in Ends : Len(got[e]) + Cardinality(Heads(OnWay(e))) <= sent[Peer(e)]
  <2>1. \A e \in Ends : Len(got[e]) = 0 /\ Cardinality(Heads(OnWay(e))) = 0 /\ sent[Peer(e)] = 0
    BY <1>1, <1>3, HeadsNone, Roles DEF Init
  <2> QED
    BY <2>1
<1>6. Numbers
  BY <1>2, <1>5 DEF Numbers, Mid, Init
<1>7. Client => left[Creator] = <<Open>>
  BY ConstantsAssumption DEF Init
<1>8. Answers
  <2>1. \A e \in Ends : 1 .. Len(OnWay(e)) = {}
    BY <1>1, <1>3
  <2> QED
    BY <1>2, <1>7, <2>1 DEF Answers, Sends
<1> QED
  BY <1>4, <1>6, <1>8 DEF Flow

-----------------------------------------------------------------------------
(* Why processes leave.                                                    *)

LEMMA ResetKept ==
  ASSUME TypeOK, [Next]_vars
  PROVE  kind' = kind /\ \A e \in Ends : rst[e] => rst'[e]
<1>1. ASSUME NEW e \in Ends, Close(e) PROVE \A d \in Ends : rst[d] => rst'[d]
  <2>1. rst \in [Ends -> BOOLEAN] /\ rst' = [rst EXCEPT ![Peer(e)] = rst[Peer(e)] \/ wire[Peer(e)] # <<>>]
    BY <1>1 DEF Close, TypeOK
  <2> QED
    BY <2>1, Zenon
<1>2. ASSUME NEW e \in Ends, EndProcess(e) PROVE kind' = kind /\ \A d \in Ends : rst[d] => rst'[d]
  BY <1>1, <1>2 DEF EndProcess, setup, tcp
<1>3. ASSUME NEW p \in Procs, Quit(p) PROVE kind' = kind /\ \A d \in Ends : rst[d] => rst'[d]
  BY <1>2, <1>3, Roles DEF Quit
<1>4. ASSUME NEW e \in Ends, Die(e) PROVE kind' = kind /\ \A d \in Ends : rst[d] => rst'[d]
  BY <1>2, <1>4 DEF Die
<1>5. ASSUME NEW p \in Procs, Write(p) PROVE kind' = kind /\ \A d \in Ends : rst[d] => rst'[d]
  <2>1. kind' = kind /\ (rst' = rst \/ \E r \in BOOLEAN : ~rst[End(p)] /\ rst' = [rst EXCEPT ![End(p)] = r])
    BY <1>5 DEF Write, setup
  <2>2. rst \in [Ends -> BOOLEAN]
    BY DEF TypeOK
  <2> QED
    BY <2>1, <2>2
<1>6. ASSUME NEW e \in Ends, Delete(e) PROVE kind' = kind /\ \A d \in Ends : rst[d] => rst'[d]
  BY <1>1, <1>6 DEF Delete, setup
<1>7. ASSUME NEW e \in Ends, 
             \/ Read(e) \/ HandleCommand(e) \/ HandleReply(e)
             \/ \E m \in Messages \cup {Garbled} : HandleMessage(e, m)
             \/ ReadEnds(e) \/ ReadFails(e) \/ Leave(e)
      PROVE  kind' = kind /\ rst' = rst
  BY <1>7 DEF Read, HandleCommand, HandleReply, HandleMessage, Received, ReadEnds, ReadFails, Leave,
              setup, tcp
<1>8. ASSUME NEW p \in Procs, Lock(p) \/ Lost(p) \/ WriteThrows(p) \/ Unlock(p)
      PROVE  kind' = kind /\ rst' = rst
  BY <1>8 DEF Lock, Lost, WriteThrows, Unlock, setup, tcp
<1>9. ASSUME NEW s \in Senders, StartSend(s) PROVE kind' = kind /\ rst' = rst
  BY <1>9 DEF StartSend, setup, tcp
<1>10. CASE Listen \/ Connect \/ NewHost \/ NewClient \/ Add \/ ClientThrows \/ Accept \/ UNCHANGED vars
  BY <1>10 DEF Listen, Connect, NewHost, NewClient, Add, ClientThrows, Accept, vars, setup, tcp
<1> QED
  BY <1>3, <1>4, <1>5, <1>6, <1>7, <1>8, <1>9, <1>10 DEF Next, Step

LEMMA AnswerRead ==
  ASSUME TypeOK, Control, Flow, NEW e \in Ends, HandleReply(e), Client
  PROVE  e = "a"
<1>1. pc[e] = "handle" /\ Reply = Assembled(partial[e])
  BY DEF HandleReply, Received
<1>2. Reply = OnWay(e)[1].msg /\ 1 \in 1 .. Len(OnWay(e))
  BY <1>1, ReadWhole DEF Assembled
<1>3. Reply = Line(Peer(e))
  BY <1>2 DEF Flow, Answers
<1> QED
  BY <1>3, Roles, ConstantsAssumption DEF Line

(* What a thread does that then ends its process.                          *)
Justified(p) == (Client /\ End(p) = "a") \/ (p \in Ends /\ rst[p])

LEMMA QuitJustified ==
  ASSUME TypeOK, Control, Flow, [Next]_vars, NEW p \in Procs, pc'[p] = "quit", pc[p] # "quit"
  PROVE  Justified(p)
<1>0. /\ \A e \in Ends : End(e) = e /\ e \in Procs
      /\ Creator \in Procs /\ Creator \notin Ends /\ End(Creator) = "a" /\ "a" \in Ends /\ "b" \in Ends
      /\ \A s \in Senders : s \in Procs /\ s \notin Ends
      /\ \A s \in Procs : s \notin Ends => s \in Senders
  BY Roles
<1>t. pc \in [Procs -> PcValues]
  BY DEF TypeOK, PcValues
<1>1. ASSUME NEW q \in Procs, NEW l, Goto(q, l), l # "quit" PROVE FALSE
  BY <1>1, GotoTo DEF To
<1>2. CASE Listen \/ UNCHANGED vars
  BY <1>2 DEF Listen, vars
<1>3. ASSUME NEW q \in Procs, Lock(q) \/ Lost(q) \/ Write(q) \/ WriteThrows(q) PROVE FALSE
  <2>1. \E l \in {"write", "lost", "unlock", "leave", "idle"} : Goto(q, l)
    BY <1>3 DEF Lock, Lost, Write, WriteThrows
  <2> QED
    BY <1>1, <2>1
<1>4. ASSUME NEW s \in Senders, StartSend(s) PROVE FALSE
  <2>1. \E l \in {"lock"} : Goto(s, l)
    BY <1>4 DEF StartSend
  <2> QED
    BY <1>0, <1>1, <2>1
<1>5. ASSUME NEW e \in Ends, 
             \/ Read(e) \/ HandleCommand(e)
             \/ \E m \in Messages \cup {Garbled} : HandleMessage(e, m)
             \/ Leave(e) \/ Delete(e)
      PROVE  FALSE
  <2>1. \E l \in {"handle", "read", "leave", "lock", "delete", "done"} : Goto(e, l)
    BY <1>5 DEF Read, HandleCommand, HandleMessage, Leave, Delete
  <2> QED
    BY <1>0, <1>1, <2>1
<1>6. CASE NewHost
  BY <1>0, <1>t, <1>6 DEF NewHost
<1>7. CASE NewClient \/ Add
  <2>1. \E l \in {"idle"} : Goto(Creator, l)
    BY <1>7 DEF NewClient, Add
  <2> QED
    BY <1>0, <1>1, <2>1
<1>8. CASE Accept
  <2>1. \E l \in {"read"} : Goto("b", l)
    BY <1>8 DEF Accept
  <2> QED
    BY <1>0, <1>1, <2>1
<1>9. CASE Connect \/ ClientThrows
  <2>1. \E l \in {"new", "connect", "quit", "done"} : Goto(Creator, l) /\ (l = "quit" => Client)
    BY <1>9 DEF Connect, ClientThrows
  <2>2. p = Creator /\ Client
    BY <1>0, <2>1, GotoTo DEF To
  <2> QED
    BY <1>0, <2>2 DEF Justified
<1>10. ASSUME NEW q \in Procs, Unlock(q) PROVE Justified(p)
  <2>1. CASE q \in Ends \/ kind \notin {"request", "order"}
    <3>1. \E l \in {"read", "idle"} : Goto(q, l)
      BY <1>10, <2>1 DEF Unlock, Goto
    <3> QED
      BY <1>1, <3>1
  <2>2. CASE q \notin Ends /\ kind = "request"
    <3>1. pc' = [pc EXCEPT ![q] = "done", !["a"] = "read"]
      BY <1>10, <2>2 DEF Unlock
    <3> QED
      BY <1>0, <1>t, <3>1
  <2>3. CASE q \notin Ends /\ kind = "order"
    <3>1. q = Creator /\ Client
      BY <1>0, <1>10, <2>3 DEF Unlock, Control, Alone, Client
    <3>2. Goto(q, "quit")
      BY <1>10, <2>3 DEF Unlock, Goto
    <3>3. p = Creator
      BY <3>1, <3>2, GotoTo DEF To
    <3> QED
      BY <1>0, <3>1, <3>3 DEF Justified
  <2> QED
    BY <2>1, <2>2, <2>3
<1>11. ASSUME NEW e \in Ends, HandleReply(e) \/ ReadEnds(e) \/ ReadFails(e) PROVE Justified(p)
  <2>1. PICK l \in {"quit", "read", "leave"} : 
            Goto(e, l) /\ (l = "quit" => (Client /\ e = "a") \/ rst[e])
    BY <1>11, AnswerRead DEF HandleReply, ReadEnds, ReadFails, Ended
  <2>2. p = e /\ l = "quit"
    BY <1>0, <2>1, GotoTo DEF To
  <2> QED
    BY <1>0, <2>1, <2>2 DEF Justified
<1>12. ASSUME NEW e \in Ends, EndProcess(e) PROVE FALSE
  BY <1>12 DEF EndProcess
<1> QED
  BY <1>0, <1>2, <1>3, <1>4, <1>5, <1>6, <1>7, <1>8, <1>9, <1>10, <1>11, <1>12, Roles
  DEF Next, Step, Quit, Die

LEMMA ReasonsNext == TypeOK /\ TypeOK' /\ Control /\ Flow /\ Reasons /\ [Next]_vars => Reasons'
<1> SUFFICES ASSUME TypeOK, TypeOK', Control, Flow, Reasons, [Next]_vars PROVE Reasons'
  OBVIOUS
<1>1. kind' = kind /\ \A e \in Ends : rst[e] => rst'[e]
  BY ResetKept
<1>2. ASSUME NEW p \in Procs, pc'[p] = "quit" PROVE Justified(p)'
  <2>1. Justified(p)
    BY <1>2, QuitJustified DEF Reasons, Justified
  <2> QED
    BY <1>1, <2>1 DEF Justified, Client
<1>3. ASSUME NEW e \in Ends, exited'[e], ~exited[e] PROVE rst[e]
  <2>1. exited' # exited
    BY <1>3
  <2>2. ASSUME NEW p \in Procs, Quit(p) PROVE rst[e]
    <3>1. exited' = [exited EXCEPT ![End(p)] = ~(Client /\ End(p) = "a")] /\ End(p) \in Ends
      BY <2>2, Roles DEF Quit
    <3>2. e = End(p)
      BY <1>3, <3>1 DEF TypeOK
    <3>3. ~(Client /\ End(p) = "a")
      BY <1>3, <3>1, <3>2 DEF TypeOK
    <3>4. p \in Ends /\ rst[p]
      BY <2>2, <3>3 DEF Reasons, Quit
    <3> QED
      BY <3>2, <3>4, Roles
  <2>3. ASSUME NEW p \in Procs, Lock(p) \/ Lost(p) \/ Write(p) \/ WriteThrows(p) \/ Unlock(p) PROVE FALSE
    BY <2>1, <2>3 DEF Lock, Lost, Write, WriteThrows, Unlock, process
  <2>4. ASSUME NEW d \in Ends, 
               \/ Read(d) \/ HandleCommand(d) \/ HandleReply(d)
               \/ \E m \in Messages \cup {Garbled} : HandleMessage(d, m)
               \/ ReadEnds(d) \/ ReadFails(d) \/ Leave(d) \/ Delete(d)
        PROVE  FALSE
    BY <2>1, <2>4 DEF Read, HandleCommand, HandleReply, HandleMessage, Received, ReadEnds, ReadFails,
                      Leave, Delete, process
  <2>5. ASSUME NEW s \in Senders, StartSend(s) PROVE FALSE
    BY <2>1, <2>5 DEF StartSend, process
  <2>6. CASE Listen \/ Connect \/ NewHost \/ NewClient \/ Add \/ ClientThrows \/ Accept \/ UNCHANGED vars
    BY <2>1, <2>6 DEF Listen, Connect, NewHost, NewClient, Add, ClientThrows, Accept, vars, process
  <2>7. ASSUME NEW d \in Ends, Die(d) PROVE FALSE
    BY <2>1, <2>7 DEF Die
  <2> QED
    BY <2>2, <2>3, <2>4, <2>5, <2>6, <2>7 DEF Next, Step
<1>4. \A e \in Ends : exited'[e] => rst'[e]
  BY <1>1, <1>3 DEF Reasons
<1> QED
  BY <1>2, <1>4 DEF Reasons, Justified

(* All of it holds together.                                               *)
LEMMA AllKept == Spec => [](TypeOK /\ Control /\ Flow /\ Reasons)
<1>1. Init => TypeOK /\ Control /\ Flow /\ Reasons
  BY TypeInit, ControlInit, FlowInit DEF Init, Reasons
<1>2. TypeOK /\ Control /\ Flow /\ Reasons /\ [Next]_vars => (TypeOK /\ Control /\ Flow /\ Reasons)'
  BY TypeNext, ControlNext, FlowNext, ReasonsNext DEF Control
<1> QED
  BY <1>1, <1>2, PTL DEF Spec

(* A process leaves by exit(1) only when something it sent was lost:       *)
(* whoever ends a process with which all was exchanged takes no other      *)
(* along (com_connection_thread).                                          *)
THEOREM ExitHasCause == Spec => []ExitCause
<1>1. TypeOK /\ Control /\ Flow /\ Reasons => ExitCause
  BY DEF Flow, Numbers, Reasons, Behind, ExitCause
<1> QED
  BY <1>1, AllKept, PTL

-----------------------------------------------------------------------------
(* The messages that begin in a sequence of parts.                         *)

LEMMA UpToNumber == ASSUME NEW n \in Nat PROVE IsFiniteSet(1 .. n) /\ Cardinality(1 .. n) = n
<1>1. IsFiniteSet(1 .. n) /\ Cardinality(1 .. n) = IF 1 > n THEN 0 ELSE n - 1 + 1
  BY FS_Interval
<1> QED
  BY <1>1

(* The heads of a sequence are numbered, from 1 to how many there are.     *)
LEMMA Ranks ==
  ASSUME NEW s \in Seq(Parts)
  PROVE  /\ \A i \in Heads(s) : Rank(s, i) \in 1 .. Cardinality(Heads(s))
         /\ \A i, j \in Heads(s) : Rank(s, i) = Rank(s, j) => i = j
         /\ \A k \in 1 .. Cardinality(Heads(s)) : \E i \in Heads(s) : Rank(s, i) = k
<1> DEFINE n == Cardinality(Heads(s))
           Upto(i) == Heads(s) \cap (1 .. i)
           f == [i \in Heads(s) |-> Rank(s, i)]
<1>1. Heads(s) \subseteq Nat \ {0} /\ IsFiniteSet(Heads(s)) /\ n \in Nat
  BY HeadsType
<1>2. ASSUME NEW i \in Heads(s)
      PROVE  /\ i \in Upto(i) /\ IsFiniteSet(Upto(i))
             /\ Cardinality(Upto(i)) \in Nat /\ Cardinality(Upto(i)) \in 1 .. n
  <2>1. i \in Upto(i) /\ Upto(i) \in SUBSET Heads(s)
    BY <1>1
  <2>2. IsFiniteSet(Upto(i)) /\ Cardinality(Upto(i)) <= n
    BY <1>1, <2>1, FS_Subset
  <2>3. Cardinality(Upto(i)) \in Nat /\ Cardinality(Upto(i)) # 0
    BY <2>1, <2>2, FS_CardinalityType, FS_EmptySet
  <2> QED
    BY <1>1, <2>1, <2>2, <2>3
<1>3. ASSUME NEW i \in Heads(s), NEW j \in Heads(s), i < j
      PROVE  Cardinality(Upto(i)) # Cardinality(Upto(j))
  <2>1. Upto(i) \in SUBSET Upto(j)
    BY <1>1, <1>3
  <2>2. j \in Upto(j) /\ j \notin Upto(i)
    BY <1>1, <1>3
  <2> QED
    BY <1>2, <2>1, <2>2, FS_Subset
<1>4. \A i \in Heads(s) : Rank(s, i) = Cardinality(Upto(i))
  BY DEF Rank
<1> HIDE DEF Upto
<1>5. \A i, j \in Heads(s) : Rank(s, i) = Rank(s, j) => i = j
  <2> SUFFICES ASSUME NEW i \in Heads(s), NEW j \in Heads(s), i # j
               PROVE  Rank(s, i) # Rank(s, j)
    OBVIOUS
  <2>1. i < j \/ j < i
    BY <1>1
  <2> QED
    BY <1>3, <1>4, <2>1
<1>6. \A i \in Heads(s) : Rank(s, i) \in 1 .. n
  BY <1>2, <1>4
<1>7. f \in Injection(Heads(s), 1 .. n)
  <2>1. f \in [Heads(s) -> 1 .. n] /\ \A i, j \in Heads(s) : f[i] = f[j] => i = j
    BY <1>5, <1>6
  <2> QED
    BY <2>1 DEF Injection, IsInjective
<1>8. IsFiniteSet(1 .. n) /\ Cardinality(1 .. n) = n
  BY <1>1, UpToNumber
<1>9. f \in Surjection(Heads(s), 1 .. n)
  BY <1>7, <1>8, FS_Injection
<1>10. \A k \in 1 .. n : \E i \in Heads(s) : f[i] = k
  BY <1>9 DEF Surjection
<1> QED
  BY <1>5, <1>6, <1>10

LEMMA MessagesRead ==
  ASSUME NEW s \in Seq(Parts)
  PROVE  /\ MessagesOf(s) \in Seq(Messages) /\ Len(MessagesOf(s)) = Cardinality(Heads(s))
         /\ Cardinality(Heads(s)) \in Nat
         /\ \A i \in Heads(s) : MessagesOf(s)[Rank(s, i)] = s[i].msg
<1> DEFINE n == Cardinality(Heads(s))
           At(k) == CHOOSE i \in Heads(s) : Rank(s, i) = k
<1>1. n \in Nat /\ Heads(s) \subseteq 1 .. Len(s)
  BY HeadsType
<1>2. \A k \in 1 .. n : At(k) \in Heads(s) /\ Rank(s, At(k)) = k
  BY Ranks
<1>3. \A i \in Heads(s) : s[i].msg \in Messages
  <2>1. \A i \in Heads(s) : s[i] \in Parts
    BY <1>1, ElementOfSeq
  <2> QED
    BY <2>1 DEF Parts
<1>4. MessagesOf(s) = [k \in 1 .. n |-> s[At(k)].msg]
  BY DEF MessagesOf
<1> HIDE DEF At, n
<1>5. MessagesOf(s) \in [1 .. n -> Messages]
  BY <1>2, <1>3, <1>4
<1>6. MessagesOf(s) \in Seq(Messages)
  BY <1>1, <1>5, SeqDef
<1>7. Len(MessagesOf(s)) = n
  BY <1>1, <1>5, <1>6, LenProperties
<1>8. ASSUME NEW i \in Heads(s) PROVE MessagesOf(s)[Rank(s, i)] = s[i].msg
  <2>1. Rank(s, i) \in 1 .. n /\ \A j \in Heads(s) : Rank(s, i) = Rank(s, j) => i = j
    BY Ranks DEF n
  <2>2. At(Rank(s, i)) = i
    BY <1>2, <2>1
  <2> QED
    BY <1>4, <2>1, <2>2
<1> QED
  BY <1>1, <1>6, <1>7, <1>8 DEF n

(* What comes later changes nothing of the messages that come first.       *)
LEMMA MessagesPrefix ==
  ASSUME NEW s \in Seq(Parts), NEW u \in Seq(Parts), Len(s) <= Len(u),
         \A i \in 1 .. Len(s) : u[i] = s[i]
  PROVE  /\ Cardinality(Heads(s)) <= Cardinality(Heads(u))
         /\ \A k \in 1 .. Cardinality(Heads(s)) : MessagesOf(u)[k] = MessagesOf(s)[k]
<1>1. Len(s) \in Nat /\ Len(u) \in Nat
  BY LenProperties
<1>2. Heads(s) = Heads(u) \cap (1 .. Len(s))
  BY <1>1 DEF Heads
<1>3. Cardinality(Heads(s)) <= Cardinality(Heads(u))
  BY <1>2, HeadsType, FS_Subset
<1>4. ASSUME NEW k \in 1 .. Cardinality(Heads(s)) PROVE MessagesOf(u)[k] = MessagesOf(s)[k]
  <2>1. PICK i \in Heads(s) : Rank(s, i) = k
    BY Ranks
  <2>2. i \in Heads(u) /\ i \in 1 .. Len(s) /\ u[i] = s[i]
    BY <1>2
  <2>3. Heads(u) \cap (1 .. i) = Heads(s) \cap (1 .. i)
    BY <1>1, <1>2, <2>2
  <2>4. Rank(u, i) = k
    BY <2>1, <2>3 DEF Rank
  <2> QED
    BY <2>1, <2>2, <2>4, MessagesRead
<1> QED
  BY <1>3, <1>4

LEMMA MessagesGrown ==
  ASSUME NEW s \in Seq(Parts), NEW x \in Parts
  PROVE  MessagesOf(Append(s, x)) = IF x.part = "head" THEN Append(MessagesOf(s), x.msg)
                                    ELSE MessagesOf(s)
<1> DEFINE t == Append(s, x)
           n == Cardinality(Heads(s))
<1>1. /\ t \in Seq(Parts) /\ Len(t) = Len(s) + 1 /\ (\A i \in 1 .. Len(s) : t[i] = s[i])
      /\ t[Len(s) + 1] = x /\ Len(s) \in Nat
  BY AppendProperties, LenProperties
<1>2. /\ x.part = "head" => Heads(t) = Heads(s) \cup {Len(s) + 1} /\ Cardinality(Heads(t)) = n + 1
      /\ x.part # "head" => Cardinality(Heads(t)) = n
  BY HeadsGrown
<1>3. n \in Nat /\ MessagesOf(s) \in Seq(Messages) /\ Len(MessagesOf(s)) = n
  BY MessagesRead
<1> HIDE DEF t, n
<1>4. /\ MessagesOf(t) \in Seq(Messages) /\ Len(MessagesOf(t)) = Cardinality(Heads(t))
  BY <1>1, MessagesRead
<1>5. \A k \in 1 .. n : MessagesOf(t)[k] = MessagesOf(s)[k]
  <2>1. Len(s) <= Len(t)
    BY <1>1
  <2> QED
    BY <1>1, <2>1, MessagesPrefix DEF n
<1>6. CASE x.part # "head"
  <2>1. MessagesOf(t) = MessagesOf(s)
    BY <1>2, <1>3, <1>4, <1>5, <1>6, SeqEqual
  <2> QED
    BY <1>6, <2>1 DEF t
<1>7. CASE x.part = "head"
  <2>1. x.msg \in Messages
    BY DEF Parts
  <2>2. /\ Append(MessagesOf(s), x.msg) \in Seq(Messages) /\ Len(Append(MessagesOf(s), x.msg)) = n + 1
        /\ \A k \in 1 .. n : Append(MessagesOf(s), x.msg)[k] = MessagesOf(s)[k]
        /\ Append(MessagesOf(s), x.msg)[n + 1] = x.msg
    BY <1>3, <2>1, AppendProperties
  <2>3. MessagesOf(t)[n + 1] = x.msg
    <3>1. Len(s) + 1 \in Heads(t) /\ Heads(t) \subseteq 1 .. Len(s) + 1
      BY <1>1, <1>2, <1>7, HeadsType
    <3>2. Heads(t) \cap (1 .. Len(s) + 1) = Heads(t)
      BY <3>1
    <3>3. Rank(t, Len(s) + 1) = n + 1
      BY <1>2, <1>7, <3>2 DEF Rank
    <3> QED
      BY <1>1, <3>1, <3>3, MessagesRead
  <2>4. \A k \in 1 .. n + 1 : k \in 1 .. n \/ k = n + 1
    BY <1>3
  <2>5. \A k \in 1 .. n + 1 : MessagesOf(t)[k] = Append(MessagesOf(s), x.msg)[k]
    BY <1>5, <2>2, <2>3, <2>4
  <2>6. MessagesOf(t) = Append(MessagesOf(s), x.msg)
    BY <1>2, <1>4, <1>7, <2>2, <2>5, SeqEqual
  <2> QED
    BY <1>7, <2>6 DEF t
<1> QED
  BY <1>6, <1>7

(* Taking the parts of one message takes the first message.                *)
LEMMA MessagesTaken ==
  ASSUME NEW s \in Seq(Parts), NEW w \in Seq(Parts), Heads(s) = {1}
  PROVE  LET u == s \o w
         IN  /\ MessagesOf(u) # <<>> /\ Head(MessagesOf(u)) = s[1].msg
             /\ Tail(MessagesOf(u)) = MessagesOf(w)
<1> DEFINE u == s \o w
           L == Len(s)
           n == Cardinality(Heads(w))
<1>1. /\ u \in Seq(Parts) /\ L \in Nat /\ Len(w) \in Nat
      /\ {1} = Heads(u) \cap (1 .. L)
      /\ u[1] = s[1]
      /\ \A i \in Heads(w) : i + L \in Heads(u) /\ u[i + L] = w[i]
      /\ \A j \in Heads(u) : j > L => j - L \in Heads(w)
  BY Positions
<1> HIDE DEF u, L
<1>2. /\ n \in Nat /\ Heads(w) \subseteq Nat \ {0} /\ Heads(u) \subseteq Nat \ {0} 
      /\ IsFiniteSet(Heads(w)) /\ IsFiniteSet(Heads(u)) /\ L >= 1
  <2>1. n \in Nat /\ Heads(w) \subseteq Nat \ {0} /\ IsFiniteSet(Heads(w))
    BY HeadsType
  <2>2. Heads(u) \subseteq Nat \ {0} /\ IsFiniteSet(Heads(u))
    BY <1>1, HeadsType
  <2>3. 1 \in 1 .. L
    BY <1>1
  <2> QED
    BY <1>1, <2>1, <2>2, <2>3
<1> HIDE DEF n
(* The heads up to one of w, shifted.                                      *)
<1>3. ASSUME NEW S \in SUBSET Heads(w), NEW T \in SUBSET Heads(u), 1 \in T,
             \A i \in S : i + L \in T, \A j \in T : j > L => j - L \in S
      PROVE  Cardinality(T) = Cardinality(S) + 1
  <2> DEFINE g == [i \in S |-> i + L]
             R == T \ {1}
  <2>1. IsFiniteSet(T) /\ IsFiniteSet(S) /\ Cardinality(S) \in Nat /\ Cardinality(T) \in Nat
    BY <1>2, <1>3, FS_Subset, FS_CardinalityType
  <2>2. IsFiniteSet(R) /\ Cardinality(R) = Cardinality(T) - 1
    BY <1>3, <2>1, FS_RemoveElement
  <2>3. \A i \in S : g[i] = i + L /\ i \in Nat \ {0} /\ g[i] \in R
    BY <1>1, <1>2, <1>3
  <2>4. \A j \in R : j > L /\ j \in Nat
    BY <1>1, <1>2, <1>3
  <2>5. \A j \in R : \E i \in S : g[i] = j
    <3> SUFFICES ASSUME NEW j \in R PROVE j - L \in S /\ g[j - L] = j
      OBVIOUS
    <3>1. j - L \in S /\ (j - L) + L = j
      BY <1>1, <1>3, <2>4
    <3> QED
      BY <3>1
  <2>6. \A i, j \in S : g[i] = g[j] => i = j
    BY <1>1, <2>3
  <2>7. g \in Injection(S, R) /\ g \in Surjection(S, R)
    <3>1. g \in [S -> R]
      BY <2>3
    <3> HIDE DEF g, R
    <3> QED
      BY <2>5, <2>6, <3>1 DEF Injection, IsInjective, Surjection
  <2>8. Cardinality(S) = Cardinality(R)
    BY <2>2, <2>7, FS_Injection
  <2> QED
    BY <2>1, <2>2, <2>8
<1>4. Cardinality(Heads(u)) = n + 1
  BY <1>1, <1>3 DEF n
<1>5. ASSUME NEW i \in Heads(w) PROVE Rank(u, i + L) = Rank(w, i) + 1
  <2> DEFINE S == Heads(w) \cap (1 .. i)
             T == Heads(u) \cap (1 .. i + L)
  <2>1. 1 \in T /\ \A j \in S : j + L \in T
    BY <1>1, <1>2
  <2>2. \A j \in T : j > L => j - L \in S
    BY <1>1, <1>2
  <2> HIDE DEF S, T
  <2>3. Cardinality(T) = Cardinality(S) + 1
    BY <1>3, <2>1, <2>2 DEF S, T
  <2> QED
    BY <2>3 DEF Rank, S, T
<1>6. Rank(u, 1) = 1
  <2>1. Heads(u) \cap (1 .. 1) = {1}
    BY <1>1, <1>2
  <2> QED
    BY <2>1, FS_Singleton DEF Rank
<1>7. MessagesOf(u) \in Seq(Messages) /\ Len(MessagesOf(u)) = n + 1
  BY <1>1, <1>4, MessagesRead
<1>8. MessagesOf(w) \in Seq(Messages) /\ Len(MessagesOf(w)) = n
  BY MessagesRead DEF n
<1>m. \A j \in Heads(u) : MessagesOf(u)[Rank(u, j)] = u[j].msg
  BY <1>1, MessagesRead
<1>9. MessagesOf(u)[1] = s[1].msg
  <2>1. 1 \in Heads(u)
    BY <1>1
  <2> QED
    BY <1>1, <1>6, <1>m, <2>1
<1>10. MessagesOf(u) # <<>>
  BY <1>2, <1>7, EmptySeq
<1>11. /\ Head(MessagesOf(u)) = MessagesOf(u)[1] /\ Tail(MessagesOf(u)) \in Seq(Messages)
       /\ Len(Tail(MessagesOf(u))) = (n + 1) - 1
       /\ \A k \in 1 .. Len(Tail(MessagesOf(u))) : Tail(MessagesOf(u))[k] = MessagesOf(u)[k + 1]
  BY <1>7, <1>10, HeadTailProperties
<1>12. ASSUME NEW k \in 1 .. n PROVE MessagesOf(u)[k + 1] = MessagesOf(w)[k]
  <2>1. PICK i \in Heads(w) : Rank(w, i) = k
    BY Ranks DEF n
  <2>2. Rank(u, i + L) = k + 1 /\ i + L \in Heads(u) /\ u[i + L] = w[i]
    BY <1>1, <1>5, <2>1
  <2>3. MessagesOf(w)[k] = w[i].msg
    BY <2>1, MessagesRead
  <2> QED
    BY <1>m, <2>2, <2>3
<1>13. (n + 1) - 1 = n
  BY <1>2
<1>14. Tail(MessagesOf(u)) = MessagesOf(w)
  BY <1>8, <1>11, <1>12, <1>13, SeqEqual
<1> QED
  BY <1>9, <1>10, <1>11, <1>14 DEF u

-----------------------------------------------------------------------------
(* Each direction implements Channel.                                      *)

(* What a step does to what is on the way to e.                            *)
Same(e) == OnWay(e)' = OnWay(e) /\ got'[e] = got[e] /\ closed' = closed
Grows(e) ==
    /\ closed' = closed /\ got'[e] = got[e] /\ IsOpen
    /\ \E x \in Parts : OnWay(e)' = Append(OnWay(e), x)
Shrinks(e) ==
    /\ closed' = closed /\ pc[e] = "handle"
    /\ OnWay(e)' = wire[Peer(e)] /\ got'[e] = Append(got[e], Assembled(partial[e]))
Breaks(e) ==
    /\ ~IsOpen' /\ got'[e] = got[e]
    /\ OnWay(e)' \in {OnWay(e), partial[e], <<>>}
Transit(e) == Same(e) \/ Grows(e) \/ Shrinks(e) \/ Breaks(e)

LEMMA CloseTransit ==
  ASSUME TypeOK, NEW d \in Ends, ~closed[d], Close(d), partial' = partial, got' = got
  PROVE  \A e \in Ends : Transit(e)
<1>1. \A e \in Ends : OnWay(e)' \in {OnWay(e), partial[e]}
  BY CloseQuiet
<1>2. closed'[d]
  BY DEF Close, TypeOK
<1> QED
  BY <1>1, <1>2 DEF Transit, Breaks, IsOpen

LEMMA WriteTransit ==
  ASSUME TypeOK, Control, NEW p \in Procs, Write(p)
  PROVE  \A e \in Ends : Transit(e)
<1> DEFINE d == End(p)
           r == Peer(d)
           x == frame[p][1]
<1>1. /\ d \in Ends /\ r \in Ends /\ d # r /\ Peer(r) = d /\ \A e \in Ends : e = d \/ e = r
      /\ pc[p] = "write" /\ Sends(p) /\ Holds(p)
  BY Roles DEF Write, Sends, Holds
<1>2. frame[p] \in Seq(Parts) /\ Rest(frame[p]) /\ ~closed[d]
  BY <1>1 DEF TypeOK, Control, Shape, Gone
<1>3. Head(frame[p]) = x /\ x \in Parts
  BY <1>2, Written
<1>4. UNCHANGED <<closed, partial, got>>
  BY DEF Write
<1>5. \/ wire' = wire
      \/ ~closed[r] /\ wire' = [wire EXCEPT ![d] = Append(wire[d], x)]
  BY <1>3 DEF Write
<1>6. CASE wire' = wire
  BY <1>4, <1>6 DEF Transit, Same, OnWay
<1>7. CASE ~closed[r] /\ wire' = [wire EXCEPT ![d] = Append(wire[d], x)]
  <2>1. wire'[d] = Append(wire[d], x) /\ wire'[r] = wire[r]
    BY <1>1, <1>7 DEF TypeOK
  <2>2. OnWay(d)' = OnWay(d)
    BY <1>4, <2>1 DEF OnWay
  <2>3. partial[r] \in Seq(Parts) /\ wire[d] \in Seq(Parts) /\ OnWay(r) = partial[r] \o wire[d]
    BY <1>1, WayType DEF OnWay
  <2>4. x \in Parts /\ OnWay(r)' = partial[r] \o Append(wire[d], x)
    BY <1>1, <1>3, <1>4, <2>1 DEF OnWay
  <2>5. IsOpen
    BY <1>1, <1>2, <1>7 DEF IsOpen
  <2> HIDE DEF d, r, x
  <2>6. partial[r] \o Append(wire[d], x) = Append(partial[r] \o wire[d], x)
    BY <2>3, <2>4, WayWritten
  <2>7. OnWay(r)' = Append(OnWay(r), x)
    BY <2>3, <2>4, <2>6
  <2> QED
    BY <1>1, <1>4, <2>2, <2>4, <2>5, <2>7 DEF Transit, Same, Grows
<1> QED
  BY <1>5, <1>6, <1>7

LEMMA ReadTransit ==
  ASSUME TypeOK, NEW d \in Ends, Read(d) \/ ReadEnds(d) \/ \E m : Received(d, m)
  PROVE  \A e \in Ends : Transit(e)
<1>1. PICK r \in Ends : r = Peer(d) /\ d = Peer(r) /\ d # r /\ \A e \in Ends : e = d \/ e = r
  BY Roles
<1>2. CASE Read(d)
  <2>1. UNCHANGED <<closed, got>> /\ wire[r] # <<>>
    BY <1>1, <1>2 DEF Read, traffic
  <2>2. /\ wire'[r] = Tail(wire[r]) /\ wire'[d] = wire[d]
        /\ partial'[d] = Append(partial[d], Head(wire[r])) /\ partial'[r] = partial[r]
    BY <1>1, <1>2 DEF Read, TypeOK
  <2>3. Append(partial[d], Head(wire[r])) \o Tail(wire[r]) = partial[d] \o wire[r]
    BY <1>1, <2>1, WayType, WayRead
  <2>4. OnWay(d)' = OnWay(d) /\ OnWay(r)' = OnWay(r)
    BY <1>1, <2>2, <2>3 DEF OnWay
  <2> QED
    BY <1>1, <2>1, <2>4 DEF Transit, Same
<1>3. CASE ReadEnds(d)
  <2>1. UNCHANGED <<closed, got, wire>> /\ wire[r] = <<>> /\ closed[r]
    BY <1>1, <1>3 DEF ReadEnds, tcp, traffic
  <2>2. partial'[d] = <<>> /\ partial'[r] = partial[r]
    BY <1>1, <1>3 DEF ReadEnds, TypeOK
  <2>3. OnWay(d)' = <<>> /\ OnWay(r)' = OnWay(r)
    <3>1. <<>> \in Seq(Parts) /\ <<>> \o <<>> = <<>>
      BY ConcatEmptySeq
    <3> QED
      BY <1>1, <2>1, <2>2, <3>1 DEF OnWay
  <2> QED
    BY <1>1, <2>1, <2>3 DEF Transit, Same, Breaks, IsOpen
<1>4. ASSUME NEW m, Received(d, m) PROVE \A e \in Ends : Transit(e)
  <2>1. UNCHANGED <<closed, wire>> /\ pc[d] = "handle"
    BY <1>4 DEF Received, tcp
  <2>2. /\ partial'[d] = <<>> /\ partial'[r] = partial[r]
        /\ got'[d] = Append(got[d], Assembled(partial[d])) /\ got'[r] = got[r]
    BY <1>1, <1>4 DEF Received, TypeOK
  <2>3. OnWay(d)' = wire[r] /\ OnWay(r)' = OnWay(r)
    <3>1. <<>> \o wire[r] = wire[r]
      BY <1>1, WayType, ConcatEmptySeq
    <3> QED
      BY <1>1, <2>1, <2>2, <3>1 DEF OnWay
  <2> QED
    BY <1>1, <2>1, <2>2, <2>3 DEF Transit, Same, Shrinks
<1> QED
  BY <1>2, <1>3, <1>4

LEMMA Transits == TypeOK /\ Control /\ [Next]_vars => \A e \in Ends : Transit(e)
<1> SUFFICES ASSUME TypeOK, Control, [Next]_vars PROVE \A e \in Ends : Transit(e)
  OBVIOUS
<1>1. UNCHANGED <<closed, wire, partial, got>> => \A e \in Ends : Transit(e)
  BY DEF Transit, Same, OnWay
<1>2. ASSUME NEW d \in Ends, EndProcess(d) PROVE \A e \in Ends : Transit(e)
  BY <1>1, <1>2, CloseTransit DEF EndProcess, tcp, traffic
<1>3. ASSUME NEW p \in Procs, Quit(p) PROVE \A e \in Ends : Transit(e)
  BY <1>2, <1>3, Roles DEF Quit
<1>4. ASSUME NEW d \in Ends, Die(d) PROVE \A e \in Ends : Transit(e)
  BY <1>2, <1>4 DEF Die
<1>5. ASSUME NEW d \in Ends, Delete(d) PROVE \A e \in Ends : Transit(e)
  <2>1. ~closed[d]
    BY <1>5 DEF Delete, Control, Gone
  <2> QED
    BY <1>5, <2>1, CloseTransit DEF Delete, traffic
<1>6. ASSUME NEW d \in Ends, 
             HandleCommand(d) \/ HandleReply(d) \/ \E m \in Messages \cup {Garbled} : HandleMessage(d, m)
      PROVE  \E m : Received(d, m)
  BY <1>6 DEF HandleCommand, HandleReply, HandleMessage
<1>7. ASSUME NEW d \in Ends, ReadFails(d) \/ Leave(d) PROVE \A e \in Ends : Transit(e)
  BY <1>1, <1>7 DEF ReadFails, Leave, tcp, traffic
<1>8. ASSUME NEW p \in Procs, Lock(p) \/ Lost(p) \/ WriteThrows(p) \/ Unlock(p)
      PROVE  \A e \in Ends : Transit(e)
  BY <1>1, <1>8 DEF Lock, Lost, WriteThrows, Unlock, tcp, traffic
<1>9. ASSUME NEW s \in Senders, StartSend(s) PROVE \A e \in Ends : Transit(e)
  BY <1>1, <1>9 DEF StartSend, tcp
<1>10. CASE Listen \/ Connect \/ NewHost \/ NewClient \/ Add \/ ClientThrows \/ Accept \/ UNCHANGED vars
  BY <1>1, <1>10 DEF Listen, Connect, NewHost, NewClient, Add, ClientThrows, Accept, vars, tcp, traffic
<1> QED
  BY <1>3, <1>4, <1>5, <1>6, <1>7, <1>8, <1>9, <1>10, WriteTransit, ReadTransit DEF Next, Step

(* The same for the messages that are on the way.                          *)
Follow(e) ==
    \/ IsOpen /\ IsOpen' /\ got'[e] = got[e] /\ \E m \in Messages : Pending(e)' = Append(Pending(e), m)
    \/ /\ Pending(e) # <<>> /\ IsOpen' = IsOpen
       /\ got'[e] = Append(got[e], Head(Pending(e))) /\ Pending(e)' = Tail(Pending(e))
    \/ /\ IsOpen' = FALSE /\ got'[e] = got[e]
       /\ \E n \in 0 .. Len(Pending(e)) : Pending(e)' = SubSeq(Pending(e), 1, n)
    \/ UNCHANGED <<Pending(e), got[e], IsOpen>>

LEMMA Longer == ASSUME NEW m \in Nat, NEW n \in Nat, NEW l, l = m + n PROVE m <= l
OBVIOUS

LEMMA Followed == TypeOK /\ Control /\ Flow /\ [Next]_vars => \A e \in Ends : Follow(e)
<1> SUFFICES ASSUME TypeOK, Control, Flow, [Next]_vars, NEW e \in Ends PROVE Follow(e)
  OBVIOUS
<1>0. /\ partial[e] \in Seq(Parts) /\ wire[Peer(e)] \in Seq(Parts) /\ OnWay(e) \in Seq(Parts)
      /\ OnWay(e) = partial[e] \o wire[Peer(e)]
  BY WayType DEF OnWay
<1>1. CASE Same(e)
  BY <1>1 DEF Same, Follow, Pending, IsOpen
<1>2. CASE Grows(e)
  <2>1. PICK x \in Parts : OnWay(e)' = Append(OnWay(e), x)
    BY <1>2 DEF Grows
  <2>2. Pending(e)' = IF x.part = "head" THEN Append(Pending(e), x.msg) ELSE Pending(e)
    BY <1>0, <2>1, MessagesGrown DEF Pending
  <2>3. x.msg \in Messages
    BY DEF Parts
  <2>4. IsOpen /\ IsOpen' /\ got'[e] = got[e]
    BY <1>2 DEF Grows, IsOpen
  <2> QED
    BY <2>2, <2>3, <2>4 DEF Follow
<1>3. CASE Shrinks(e)
  <2>1. Heads(partial[e]) = {1} /\ Assembled(partial[e]) = partial[e][1].msg
    BY <1>3, ReadWhole DEF Shrinks, Assembled
  <2>2. /\ Pending(e) # <<>> /\ Head(Pending(e)) = partial[e][1].msg
        /\ Tail(Pending(e)) = MessagesOf(wire[Peer(e)])
    BY <1>0, <2>1, MessagesTaken DEF Pending
  <2>3. Pending(e)' = MessagesOf(wire[Peer(e)])
    BY <1>3 DEF Shrinks, Pending
  <2> QED
    BY <1>3, <2>1, <2>2, <2>3 DEF Shrinks, Follow, IsOpen
<1>4. CASE Breaks(e)
  <2>0. /\ Pending(e) \in Seq(Messages) /\ Len(Pending(e)) = Cardinality(Heads(OnWay(e)))
        /\ Len(Pending(e)) \in Nat
    BY <1>0, MessagesRead DEF Pending
  <2>1. ASSUME NEW s \in Seq(Parts), Len(s) <= Len(OnWay(e)), \A i \in 1 .. Len(s) : OnWay(e)[i] = s[i]
        PROVE  \E n \in 0 .. Len(Pending(e)) : MessagesOf(s) = SubSeq(Pending(e), 1, n)
    <3> DEFINE n == Cardinality(Heads(s))
    <3>1. n \in Nat /\ MessagesOf(s) \in Seq(Messages) /\ Len(MessagesOf(s)) = n
      BY MessagesRead
    <3>2. n <= Len(Pending(e)) /\ \A k \in 1 .. n : Pending(e)[k] = MessagesOf(s)[k]
      BY <1>0, <2>0, <2>1, MessagesPrefix DEF Pending
    <3> HIDE DEF n
    <3>3. n \in 0 .. Len(Pending(e))
      BY <2>0, <3>1, <3>2
    <3>4. MessagesOf(s) = SubSeq(Pending(e), 1, n)
      <4>1. \A k \in 1 .. n : Pending(e)[k] \in Messages
        BY <3>1, <3>2, ElementOfSeq
      <4>2. /\ SubSeq(Pending(e), 1, n) \in Seq(Messages)
            /\ Len(SubSeq(Pending(e), 1, n)) = IF 1 <= n THEN n - 1 + 1 ELSE 0
            /\ \A k \in 1 .. n - 1 + 1 : SubSeq(Pending(e), 1, n)[k] = Pending(e)[1 + k - 1]
        BY <3>1, <4>1, SubSeqProperties
      <4>3. Len(SubSeq(Pending(e), 1, n)) = n
        BY <3>1, <4>2
      <4>4. \A k \in 1 .. n : k \in 1 .. n - 1 + 1 /\ 1 + k - 1 = k
        BY <3>1
      <4>5. \A k \in 1 .. n : SubSeq(Pending(e), 1, n)[k] = MessagesOf(s)[k]
        BY <3>2, <4>2, <4>4
      <4> QED
        BY <3>1, <4>2, <4>3, <4>5, SeqEqual
    <3> QED
      BY <3>3, <3>4
  <2>2. \E n \in 0 .. Len(Pending(e)) : Pending(e)' = SubSeq(Pending(e), 1, n)
    <3>1. CASE OnWay(e)' = OnWay(e)
      <4>1. Len(OnWay(e)) <= Len(OnWay(e))
        BY <1>0, LenProperties
      <4> QED
        BY <1>0, <2>1, <3>1, <4>1 DEF Pending
    <3>2. CASE OnWay(e)' = partial[e]
      <4>1. Len(partial[e]) \in Nat /\ Len(wire[Peer(e)]) \in Nat
        BY <1>0, LenProperties
      <4>2. /\ Len(partial[e] \o wire[Peer(e)]) = Len(partial[e]) + Len(wire[Peer(e)])
            /\ \A j \in 1 .. Len(partial[e]) + Len(wire[Peer(e)]) :
                  (partial[e] \o wire[Peer(e)])[j] =
                      IF j <= Len(partial[e]) THEN partial[e][j] ELSE wire[Peer(e)][j - Len(partial[e])]
        BY <1>0, ConcatProperties
      <4>3. Len(partial[e]) <= Len(OnWay(e)) /\ \A i \in 1 .. Len(partial[e]) : OnWay(e)[i] = partial[e][i]
        <5>0. Len(OnWay(e)) = Len(partial[e]) + Len(wire[Peer(e)])
          BY <1>0, <4>2
        <5>1. Len(partial[e]) <= Len(OnWay(e))
          BY <4>1, <5>0, Longer
        <5>2. \A i \in 1 .. Len(partial[e]) :
                 i \in 1 .. Len(partial[e]) + Len(wire[Peer(e)]) /\ i <= Len(partial[e])
          BY <4>1, Within
        <5> QED
          BY <1>0, <4>2, <5>1, <5>2
      <4> QED
        BY <1>0, <2>1, <3>2, <4>3 DEF Pending
    <3>3. CASE OnWay(e)' = <<>>
      <4>1. <<>> \in Seq(Parts) /\ Len(<<>>) = 0 /\ Len(OnWay(e)) \in Nat
        BY <1>0, EmptySeq, LenProperties
      <4>2. Len(<<>>) <= Len(OnWay(e)) /\ \A i \in 1 .. Len(<<>>) : OnWay(e)[i] = <<>>[i]
        BY <4>1
      <4> QED
        BY <2>1, <3>3, <4>1, <4>2 DEF Pending
    <3> QED
      BY <1>4, <3>1, <3>2, <3>3 DEF Breaks
  <2> QED
    BY <1>4, <2>2 DEF Breaks, Follow, IsOpen
<1> QED
  BY <1>1, <1>2, <1>3, <1>4, Transits DEF Transit

LEMMA Started ==
  ASSUME Init, NEW e \in Ends
  PROVE  Pending(e) = <<>> /\ got[e] = <<>> /\ IsOpen
<1>1. OnWay(e) = <<>>
  <2>1. <<>> \in Seq(Parts) /\ <<>> \o <<>> = <<>>
    BY ConcatEmptySeq
  <2> QED
    BY <2>1, Roles DEF Init, OnWay
<1>2. Pending(e) = <<>>
  <2>1. <<>> \in Seq(Parts)
    BY EmptySeq
  <2>2. MessagesOf(<<>>) \in Seq(Messages) /\ Len(MessagesOf(<<>>)) = 0
    BY <2>1, MessagesRead, HeadsNone
  <2> QED
    BY <1>1, <2>2, EmptySeq DEF Pending
<1> QED
  BY <1>2 DEF Init, IsOpen

(* Each direction of the connection is a channel: the messages that any    *)
(* threads write, in parts and under the mutex, come to the handlers of    *)
(* the other end whole, once and in the order in which they were begun,    *)
(* and when the connection breaks only the last ones are missing           *)
(* (Host::send, Message::read).                                            *)
THEOREM ImplementsChannel == Spec => InOrder
<1>1. Init => ToA!Init /\ ToB!Init
  BY Started, Roles DEF ToA!Init, ToB!Init, IsOpen
<1>2. TypeOK /\ Control /\ Flow /\ [Next]_vars => [ToA!Next]_(ToA!vars)
  <2> SUFFICES ASSUME TypeOK, Control, Flow, [Next]_vars PROVE [ToA!Next]_(ToA!vars)
    OBVIOUS
  <2>1. Follow("a")
    BY Followed, Roles
  <2> QED
    BY <2>1 DEF Follow, ToA!Next, ToA!Send, ToA!Deliver, ToA!Break, ToA!vars, IsOpen
<1>3. TypeOK /\ Control /\ Flow /\ [Next]_vars => [ToB!Next]_(ToB!vars)
  <2> SUFFICES ASSUME TypeOK, Control, Flow, [Next]_vars PROVE [ToB!Next]_(ToB!vars)
    OBVIOUS
  <2>1. Follow("b")
    BY Followed, Roles
  <2> QED
    BY <2>1 DEF Follow, ToB!Next, ToB!Send, ToB!Deliver, ToB!Break, ToB!vars, IsOpen
<1> QED
  BY <1>1, <1>2, <1>3, AllKept, PTL DEF Spec, InOrder, ToA!Safety, ToB!Safety

=============================================================================

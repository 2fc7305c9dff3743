----------------------------- MODULE Connection -----------------------------
(***************************************************************************)
(* One connection between two processes, from new Socket to delete host    *)
(* (tcp/Socket.cpp, common/Host.cpp, common/Message.cpp,                   *)
(* com_connection_thread).  Process "a" connects to the daemon "b".  Any   *)
(* thread of a daemon may send; a message goes out in several writes under *)
(* the mutex of the Host object.  The connection thread of each end reads  *)
(* the parts, calls the handlers, and deletes the Host when the connection *)
(* is over.  Either process may end at any moment.                         *)
(*                                                                         *)
(* The connection is one between daemons for commands ("peer"), one for    *)
(* the messages of nodes ("data"), or that of the command line tool, which *)
(* has one thread, no Host, and a command with an answer ("request") or    *)
(* without ("order").  When a thread follows a pointer to a deleted Host   *)
(* it is lost; what comes after that is left out.                          *)
(***************************************************************************)
EXTENDS Integers, Sequences, FiniteSets

CONSTANTS
    Senders,        \* threads that send
    Creator,        \* the one among them that makes the connection
    EndOf,          \* the end each of them sends from
    Script,         \* what each of them sends, in order
    Open,           \* the command that makes the connection known to b
    Reply,          \* what b's handler of Open answers
    Bad,            \* messages whose handler throws
    Empty,          \* messages without data
    Kinds,          \* the kinds of connection considered
    Attempts,       \* of connecting, for each kind
    MayDie,         \* ends whose process may end at any moment
    Buffer,         \* parts that fit in the buffers of the kernel
    NoOne,          \* holder of a free mutex
    Garbled         \* parts of different messages read as one

Ends == {"a", "b"}
Peer(e) == IF e = "a" THEN "b" ELSE "a"
Procs == Senders \cup Ends
End(p) == IF p \in Ends THEN p ELSE EndOf[p]
Messages == {Open, Reply} \cup UNION {{Script[s][i] : i \in DOMAIN Script[s]} : s \in Senders}

ASSUME ConstantsAssumption ==
    /\ Creator \in Senders /\ EndOf \in [Senders -> Ends] /\ EndOf[Creator] = "a"
    /\ Script \in [Senders -> Seq(Messages)] /\ Script[Creator][1] = Open
    /\ Open # Reply /\ Bad \subseteq Messages /\ Empty \subseteq Messages
    /\ Kinds \subseteq {"peer", "data", "request", "order"} /\ Attempts \in [Kinds -> Nat \ {0}]
    /\ MayDie \subseteq Ends /\ Buffer \in Nat \ {0}
    /\ NoOne \notin Procs /\ Senders \cap Ends = {} /\ Garbled \notin Messages

VARIABLES
    kind,           \* what the connection is for
    up,             \* b accepts connections
    tries,          \* attempts made to connect
    linked,         \* the connection has been made
    host,           \* the Host object of each end
    listed,         \* masters, slaves or a DataHost lead to it
    mut,            \* holder of its mutex
    closed,         \* ends whose socket is closed
    rst,            \* ends whose socket has been reset by the other
    dead,           \* ends whose process is gone
    exited,         \* those that left by exit(1)
    wire,           \* parts written by each end that the other has not read
    partial,        \* parts each end has read of the next message
    pc, frame,      \* of each thread: what it does, what it has yet to write
    left,           \* messages each sender has yet to send
    sent, got       \* messages begun, and handled, at each end

vars == <<kind, up, tries, linked, host, listed, mut, closed, rst, dead, exited, wire,
          partial, pc, frame, left, sent, got>>
setup == <<kind, tries, linked>>
objects == <<host, listed>>
tcp == <<closed, rst, wire>>
process == <<up, dead, exited>>
traffic == <<left, sent, got>>

Client == kind \in {"request", "order"}

Parts == [msg : Messages, part : {"head", "size", "nodata", "data"}]

TypeOK ==
    /\ kind \in Kinds /\ up \in BOOLEAN /\ tries \in 0 .. Attempts[kind] /\ linked \in BOOLEAN
    /\ host \in [Ends -> {"none", "live", "deleted"}]
    /\ listed \in [Ends -> BOOLEAN] /\ mut \in [Ends -> Procs \cup {NoOne}]
    /\ closed \in [Ends -> BOOLEAN] /\ rst \in [Ends -> BOOLEAN]
    /\ dead \in [Ends -> BOOLEAN] /\ exited \in [Ends -> BOOLEAN]
    /\ wire \in [Ends -> Seq(Parts)] /\ \A e \in Ends : Len(wire[e]) <= Buffer
    /\ partial \in [Ends -> Seq(Parts)] /\ \A e \in Ends : Len(partial[e]) <= 3
    /\ pc \in [Procs -> {"connect", "new", "add", "idle", "lock", "write", "unlock", "none",
                         "read", "handle", "leave", "delete", "quit", "done", "lost"}]
    /\ frame \in [Procs -> Seq(Parts)] /\ left \in [Senders -> Seq(Messages)]
    /\ sent \in [Ends -> Nat] /\ got \in [Ends -> Seq(Messages \cup {Garbled})]

Init ==
    /\ kind \in Kinds /\ up \in BOOLEAN /\ tries = 0 /\ linked = FALSE
    /\ host = [e \in Ends |-> "none"] /\ listed = [e \in Ends |-> FALSE]
    /\ mut = [e \in Ends |-> NoOne]
    /\ closed = [e \in Ends |-> FALSE] /\ rst = [e \in Ends |-> FALSE]
    /\ dead = [e \in Ends |-> FALSE] /\ exited = [e \in Ends |-> FALSE]
    /\ wire = [e \in Ends |-> <<>>] /\ partial = [e \in Ends |-> <<>>]
    /\ pc = [p \in Procs |-> IF p = Creator THEN "connect"
                             ELSE IF p \in Ends THEN "none" ELSE "idle"]
    /\ frame = [p \in Procs |-> <<>>] 
    /\ left = [s \in Senders |-> IF ~Client THEN Script[s] ELSE IF s = Creator THEN <<Open>> ELSE <<>>]
    /\ sent = [e \in Ends |-> 0] /\ got = [e \in Ends |-> <<>>]

-----------------------------------------------------------------------------
(* Message::write: the parts a message is written in.                      *)
Frame(m) ==
    LET kinds == IF m \in Empty THEN <<"head", "nodata">> ELSE <<"head", "size", "data">>
    IN [i \in DOMAIN kinds |-> [msg |-> m, part |-> kinds[i]]]

(* Message::read goes by position and by the sizes it reads: a head, a     *)
(* size, and data unless the size is 0; the mutant waits for data always.  *)
ThreeParts(s) == Len(s) = 3
Complete(s) == Len(s) = 3 \/ (Len(s) = 2 /\ s[2].part = "nodata")
Assembled(s) == IF s = Frame(s[1].msg) THEN s[1].msg ELSE Garbled

Goto(p, l) == pc' = [pc EXCEPT ![p] = l]

(* Socket::~Socket, or the end of the process: what the other end has      *)
(* written and nobody read is lost, and the other end is reset.            *)
Close(e) ==
    /\ closed' = [closed EXCEPT ![e] = TRUE]
    /\ rst' = [rst EXCEPT ![Peer(e)] = @ \/ wire[Peer(e)] # <<>>]
    /\ wire' = [wire EXCEPT ![Peer(e)] = <<>>]

(* The process of end e ends, and its threads with it. *)
EndProcess(e) ==
    /\ dead' = [dead EXCEPT ![e] = TRUE] /\ up' = (up /\ e # "b")
    /\ IF linked /\ ~closed[e] THEN Close(e) ELSE UNCHANGED tcp
    /\ pc' = [p \in Procs |-> IF End(p) = e THEN "done" ELSE pc[p]]
    /\ UNCHANGED <<setup, objects, mut, partial, frame, traffic>>

-----------------------------------------------------------------------------
(* The daemon b starts to listen. *)
Listen ==
    /\ ~up /\ ~dead["b"] /\ up' = TRUE
    /\ UNCHANGED <<setup, objects, mut, tcp, dead, exited, partial, pc, frame, traffic>>

(* Socket::connect: one more attempt; the last one to be refused throws.   *)
(* The mutant counts one more.                                             *)
OneMore == tries = Attempts[kind]
LastAttempt == tries + 1 = Attempts[kind]

Connect ==
    /\ pc[Creator] = "connect"
    /\ tries' = tries + 1 /\ linked' = up
    /\ Goto(Creator, IF up THEN "new"
                     ELSE IF ~LastAttempt THEN "connect"
                     ELSE IF Client THEN "quit" ELSE "done")
    /\ UNCHANGED <<kind, objects, mut, tcp, process, partial, frame, traffic>>

(* new Host on the connecting side starts the connection thread.           *)
NewHost ==
    /\ pc[Creator] = "new" /\ ~Client
    /\ host' = [host EXCEPT !["a"] = "live"]
    /\ pc' = [pc EXCEPT ![Creator] = "add", !["a"] = "read"]
    /\ UNCHANGED <<setup, listed, mut, tcp, process, partial, frame, traffic>>

NewClient ==
    /\ pc[Creator] = "new" /\ Client
    /\ Goto(Creator, "idle")
    /\ UNCHANGED <<setup, objects, mut, tcp, process, partial, frame, traffic>>

(* Only then is it entered in masters, slaves or its DataHost.             *)
Add ==
    /\ pc[Creator] = "add"
    /\ listed' = [listed EXCEPT !["a"] = TRUE]
    /\ Goto(Creator, "idle")
    /\ UNCHANGED <<setup, host, mut, tcp, process, partial, frame, traffic>>

(* The accepting side makes its Host in the connection thread itself.      *)
Accept ==
    /\ linked /\ pc["b"] = "none"
    /\ host' = [host EXCEPT !["b"] = "live"]
    /\ Goto("b", "read")
    /\ UNCHANGED <<setup, listed, mut, tcp, process, partial, frame, traffic>>

-----------------------------------------------------------------------------
(* A thread that made or finds the Host sends its next message.            *)
StartSend(s) ==
    /\ pc[s] = "idle" /\ left[s] # <<>>
    /\ s = Creator \/ listed[End(s)]
    /\ frame' = [frame EXCEPT ![s] = Frame(Head(left[s]))]
    /\ left' = [left EXCEPT ![s] = Tail(@)]
    /\ Goto(s, "lock")
    /\ UNCHANGED <<setup, objects, mut, tcp, process, partial, sent, got>>

(* Host::LOCK; the mutant sends without.                                   *)
AlwaysFree(e) == TRUE
Free(e) == mut[e] = NoOne

Lock(p) ==
    /\ pc[p] = "lock" /\ host[End(p)] # "deleted" /\ Free(End(p))
    /\ mut' = [mut EXCEPT ![End(p)] = p]
    /\ Goto(p, "write")
    /\ UNCHANGED <<setup, objects, tcp, process, partial, frame, traffic>>

(* The Host has been deleted since the thread took its pointer to it.      *)
Lost(p) ==
    /\ pc[p] = "lock" /\ host[End(p)] = "deleted"
    /\ Goto(p, "lost")
    /\ UNCHANGED <<setup, objects, mut, tcp, process, partial, frame, traffic>>

(* Socket::write of the next part.  It waits for room; when the other end  *)
(* has closed it works all the same until the reset comes back, after that *)
(* it throws.                                                              *)
Write(p) ==
    LET e == End(p)
    IN /\ pc[p] = "write"
       /\ \/ /\ ~closed[Peer(e)] /\ Len(wire[e]) < Buffer
             /\ wire' = [wire EXCEPT ![e] = Append(@, Head(frame[p]))]
             /\ UNCHANGED rst
          \/ /\ closed[Peer(e)] /\ ~rst[e]
             /\ \E r \in BOOLEAN : rst' = [rst EXCEPT ![e] = r]
             /\ UNCHANGED wire
       /\ sent' = [sent EXCEPT ![e] = IF Head(frame[p]).part = "head" THEN @ + 1 ELSE @]
       /\ frame' = [frame EXCEPT ![p] = Tail(@)]
       /\ Goto(p, IF Len(frame[p]) = 1 THEN "unlock" ELSE "write")
       /\ UNCHANGED <<setup, objects, mut, closed, process, partial, left, got>>

(* Host::send does not unlock when write throws.  The exception is caught  *)
(* by the sender, or ends the loop of a connection thread.                 *)
WriteThrows(p) ==
    /\ pc[p] = "write" /\ rst[End(p)] /\ ~(Client /\ p = Creator)
    /\ frame' = [frame EXCEPT ![p] = <<>>]
    /\ Goto(p, IF p \in Ends THEN "leave" ELSE "idle")
    /\ UNCHANGED <<setup, objects, mut, tcp, process, partial, traffic>>

(* Client::send does unlock; main ends the process.                        *)
ClientThrows ==
    /\ Client /\ pc[Creator] = "write" /\ rst["a"]
    /\ mut' = [mut EXCEPT !["a"] = NoOne]
    /\ frame' = [frame EXCEPT ![Creator] = <<>>]
    /\ Goto(Creator, "quit")
    /\ UNCHANGED <<setup, objects, tcp, process, partial, traffic>>

(* Host::UNLOCK; the mutant forgets it.                                    *)
NotUnlocked(e) == mut
Unlocked(e) == [mut EXCEPT ![e] = NoOne]

(* What the thread does next; the tool reads the answer or has finished.   *)
Unlock(p) ==
    /\ pc[p] = "unlock"
    /\ mut' = Unlocked(End(p))
    /\ pc' = IF p \in Ends THEN [pc EXCEPT ![p] = "read"]
             ELSE IF kind = "request" THEN [pc EXCEPT ![p] = "done", !["a"] = "read"]
             ELSE [pc EXCEPT ![p] = IF kind = "order" THEN "quit" ELSE "idle"]
    /\ UNCHANGED <<setup, objects, tcp, process, partial, frame, traffic>>

-----------------------------------------------------------------------------
(* Message::read: the next part of the next message.                       *)
Read(e) ==
    /\ pc[e] = "read" /\ wire[Peer(e)] # <<>>
    /\ wire' = [wire EXCEPT ![Peer(e)] = Tail(@)]
    /\ partial' = [partial EXCEPT ![e] = Append(@, Head(wire[Peer(e)]))]
    /\ Goto(e, IF Complete(partial'[e]) THEN "handle" ELSE "read")
    /\ UNCHANGED <<setup, objects, mut, closed, rst, process, frame, traffic>>

(* Host::on_receive hands m to the command it names or, by                 *)
(* com_decode_local_node, to the thread of a node.                         *)
Received(e, m) ==
    /\ pc[e] = "handle" /\ m = Assembled(partial[e])
    /\ got' = [got EXCEPT ![e] = Append(@, m)]
    /\ partial' = [partial EXCEPT ![e] = <<>>]
    /\ UNCHANGED <<setup, host, mut, tcp, process, left, sent>>

(* A message for a node that is not here throws.                           *)
HandleMessage(e, m) ==
    /\ m \notin {Open, Reply} /\ Received(e, m)
    /\ Goto(e, IF m \in Bad THEN "leave" ELSE "read")
    /\ UNCHANGED <<listed, frame>>

(* Open enters the Host of b in the lists and is answered on the same      *)
(* connection, by this thread.  The command of a tool may be answered too, *)
(* even if the tool does not wait for it (dump), and it may throw.         *)
HandleCommand(e) ==
    /\ Received(e, Open)
    /\ listed' = [listed EXCEPT ![e] = ~Client]
    /\ \/ /\ kind # "data" /\ Goto(e, "lock")
          /\ frame' = [frame EXCEPT ![e] = Frame(Reply)]
       \/ Client /\ Goto(e, "leave") /\ UNCHANGED frame
       \/ kind \in {"data", "order"} /\ Goto(e, "read") /\ UNCHANGED frame

(* The tool prints the answer and ends.                                    *)
HandleReply(e) ==
    /\ Received(e, Reply)
    /\ Goto(e, IF Client THEN "quit" ELSE "read")
    /\ UNCHANGED <<listed, frame>>

(* recv returns 0: the other end has closed, and all it wrote is read.     *)
(* One mutant takes that for an error like another, one does not see it.   *)
NotCaught(e) == Goto(e, "quit")
ReadAgain(e) == Goto(e, "read")
Ended(e) == Goto(e, IF Client /\ e = "a" THEN "quit" ELSE "leave")

ReadEnds(e) ==
    /\ pc[e] = "read" /\ wire[Peer(e)] = <<>> /\ closed[Peer(e)]
    /\ partial' = [partial EXCEPT ![e] = <<>>]
    /\ Ended(e)
    /\ UNCHANGED <<setup, objects, mut, tcp, process, frame, traffic>>

(* recv fails: the connection thread calls exit(1), the tool returns 1.    *)
ReadFails(e) ==
    /\ pc[e] = "read" /\ rst[e]
    /\ Goto(e, "quit")
    /\ UNCHANGED <<setup, objects, mut, tcp, process, partial, frame, traffic>>

(* exit(1), or the end of the tool.                                        *)
Quit(p) ==
    /\ pc[p] = "quit" /\ EndProcess(End(p))
    /\ exited' = [exited EXCEPT ![End(p)] = ~(Client /\ End(p) = "a")]

(* The loop is left: the Host goes from the lists; a DataHost keeps it.    *)
(* The mutant leaves it among the slaves.                                  *)
StillListed(e) == listed
Unlisted(e) == [listed EXCEPT ![e] = @ /\ kind # "peer"]

Leave(e) ==
    /\ pc[e] = "leave"
    /\ listed' = Unlisted(e)
    /\ Goto(e, "delete")
    /\ UNCHANGED <<setup, host, mut, tcp, process, partial, frame, traffic>>

(* delete h: ~Host waits for the mutex, then closes the socket.            *)
Delete(e) ==
    /\ pc[e] = "delete" /\ mut[e] = NoOne
    /\ host' = [host EXCEPT ![e] = "deleted"]
    /\ Close(e)
    /\ Goto(e, "done")
    /\ UNCHANGED <<setup, listed, mut, process, partial, frame, traffic>>

(* The process ends for a reason of its own.                               *)
Die(e) ==
    /\ e \in MayDie /\ ~dead[e]
    /\ EndProcess(e) /\ UNCHANGED exited

-----------------------------------------------------------------------------
Step(p) ==
    \/ Lock(p) \/ Lost(p) \/ Write(p) \/ WriteThrows(p) \/ Unlock(p) \/ Quit(p)
    \/ p \in Senders /\ StartSend(p)
    \/ p \in Ends /\ \/ Read(p) \/ HandleCommand(p) \/ HandleReply(p)
                     \/ \E m \in Messages \cup {Garbled} : HandleMessage(p, m)
                     \/ ReadEnds(p) \/ ReadFails(p) \/ Leave(p) \/ Delete(p)
    \/ p = Creator /\ (Connect \/ NewHost \/ NewClient \/ Add \/ ClientThrows)
    \/ p = "b" /\ Accept

Next == Listen \/ (\E p \in Procs : Step(p)) \/ (\E e \in Ends : Die(e))

(* Every thread goes on unless it waits.                                   *)
Spec == Init /\ [][Next]_vars /\ \A p \in Procs : WF_vars(Step(p))

-----------------------------------------------------------------------------
(* The parts on the way to end e, those it has read of a message first,    *)
(* and the messages they begin.                                            *)
OnWay(e) == partial[e] \o wire[Peer(e)]

Heads(s) == {i \in 1 .. Len(s) : s[i].part = "head"}
Rank(s, i) == Cardinality(Heads(s) \cap (1 .. i))
MessagesOf(s) ==
    [k \in 1 .. Cardinality(Heads(s)) |-> s[CHOOSE i \in Heads(s) : Rank(s, i) = k].msg]

Pending(e) == MessagesOf(OnWay(e))
IsOpen == \A e \in Ends : ~closed[e]

ToA == INSTANCE Channel WITH queue <- Pending("a"), got <- got["a"], open <- IsOpen
ToB == INSTANCE Channel WITH queue <- Pending("b"), got <- got["b"], open <- IsOpen

(* Each direction is a channel: whatever the threads do, messages arrive   *)
(* whole, once and in order, and when the connection breaks only the last  *)
(* ones are missing (Host::send, Message::read).                           *)
InOrder == ToA!Safety /\ ToB!Safety

(* While the connection is up, every message that was begun is handled in  *)
(* the end: no writer and no reader waits for ever (Host::send,            *)
(* com_connection_thread).                                                 *)
Handled == ToA!Progress /\ ToB!Progress

(* The mutex of a Host stays locked by a thread that is not sending only   *)
(* when a write failed, so that the other end has closed (Host::send).     *)
Abandoned(e) == mut[e] # NoOne /\ pc[mut[e]] \notin {"write", "unlock"}
LockKept == \A e \in Ends : ~dead[e] /\ Abandoned(e) => closed[Peer(e)]

(* A list of commands leads to a Host whose connection thread has taken it *)
(* off the lists only when com_enter_network enters it after that, which   *)
(* takes the end of the other process (com_connection_thread).  A DataHost *)
(* keeps its Host in any case.                                             *)
Over(e) == pc[e] = "delete" \/ host[e] = "deleted"
Dangles(e) == listed[e] /\ Over(e)
NoDangling ==
    [][\A e \in Ends : ~Dangles(e) /\ Dangles(e)' =>
          kind = "data" \/ (e = "a" /\ Add /\ Over("a") /\ dead["b"])]_vars

(* A process leaves by exit(1) only if a message it sent to the other end  *)
(* was not handled: the end of a process with which all was exchanged      *)
(* takes no one along (com_connection_thread).                             *)
ExitCause == \A e \in Ends : exited[e] => Len(got[Peer(e)]) < sent[e]

(* When one end has closed, the other deletes its Host or ends, unless its *)
(* connection thread waits for a mutex that was left locked.               *)
CleanedUp ==
    \A e \in Ends :
        closed[e] ~> \/ host[Peer(e)] = "deleted" \/ dead[Peer(e)]
                     \/ pc[Peer(e)] \in {"lock", "delete"} /\ Abandoned(Peer(e))

(* No connection comes to a halt: messages are handled as long as it is up *)
(* and its ends go away when it is not, except at a mutex left locked      *)
(* (Host::send, com_connection_thread).                                    *)
NeverHangs == Handled /\ CleanedUp
=============================================================================

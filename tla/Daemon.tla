------------------------------- MODULE Daemon -------------------------------
(***************************************************************************)
(* The life of an AGML daemon process, from main() (agml_server/agmld.cpp) *)
(* through its accepting thread (tcp/Server.cpp) to its end: the last      *)
(* simulation thread that ends (agml_thread_end) and the exit command both *)
(* call com_exit, which closes, deletes and forgets the global server      *)
(* (server/Server.cpp), while main waits for the accepting thread.         *)
(*                                                                         *)
(* One action is one access to the global server, to the object it points  *)
(* to, or to the array of simulation threads.  No lock protects the first  *)
(* two.  What a simulation thread does before it ends is in SimThread.     *)
(***************************************************************************)
EXTENDS Integers, FiniteSets

CONSTANTS
    Threads,      \* the simulation threads of the model
    Clients,      \* the clients that connect, each for one command
    Commands,     \* the commands they send, among "model" and "exit"
    Early,        \* whether one may be executed before server_start has returned
    NbPorts,      \* the ports main tries, ninety-nine in the code
    FreePorts     \* those that can be bound

ASSUME ConstantsAssumption ==
    /\ Threads \cap Clients = {}
    /\ Commands \subseteq {"model", "exit"}
    /\ Early \in BOOLEAN
    /\ NbPorts \in Nat \ {0}
    /\ FreePorts \subseteq 1 .. NbPorts

VARIABLES
    mpc, port,          \* main, and the port it tries
    server,             \* whether the global pointer is set
    object,             \* the Server object it was set to
    bClosed,            \* Server::bClosed
    shut, open,         \* the listening socket: shut down, file still open
    apc,                \* the accepting thread, in Server::run
    ppc,                \* each simulation thread and client connection
    started,            \* the model was read and its threads were started
    threads,            \* the global array of simulation threads
    asked,              \* an exit command was received
    crashed             \* the process died of a NULL or freed Server

mainVars == <<mpc, port>>
objectVars == <<object, bClosed, shut, open>>
workVars == <<started, threads>>
vars == <<mainVars, server, objectVars, apc, ppc, workVars, asked, crashed>>

Procs == Threads \cup Clients

MainPC == {"construct", "assign", "enter", "model", "join", "joining", "returned"}
AcceptPC == {"none", "test", "call", "blocked", "over"}
ProcPC == {"new", "command", "run", "remove", "empty?",
           "stop", "close", "shutdown", "fdclose", "delete", "null", "stopped",
           "done"}

TypeOK ==
    /\ mpc \in MainPC
    /\ port \in 1 .. NbPorts
    /\ server \in BOOLEAN
    /\ object \in {"none", "live", "freed"}
    /\ bClosed \in BOOLEAN
    /\ shut \in BOOLEAN
    /\ open \in BOOLEAN
    /\ apc \in AcceptPC
    /\ ppc \in [Procs -> ProcPC]
    /\ started \in BOOLEAN
    /\ threads \subseteq Threads
    /\ asked \in BOOLEAN
    /\ crashed \in BOOLEAN

Init ==
    /\ mpc = "construct"
    /\ port = 1
    /\ server = FALSE
    /\ object = "none"
    /\ bClosed = FALSE
    /\ shut = FALSE
    /\ open = FALSE
    /\ apc = "none"
    /\ ppc = [p \in Procs |-> "new"]
    /\ started = FALSE
    /\ threads = {}
    /\ asked = FALSE
    /\ crashed = FALSE

(* The return of main and a crash both end every thread of the process. *)
Gone == mpc = "returned" \/ crashed

-----------------------------------------------------------------------------
(* Reading a model creates its simulation threads and starts them.  What a *)
(* second model adds to a running daemon is in SimThread.                  *)
StartModel ==
    /\ started' = TRUE
    /\ threads' = IF started THEN threads ELSE Threads

Started(p) == p \in Threads /\ ~started

(* main.  The constructor binds the socket and creates the accepting       *)
(* thread; only its return sets the global pointer.  A port that cannot be *)
(* bound throws: with -p, which tries only one, main ends, else the next   *)
(* port is tried.  The mutant counts a failed port twice.                  *)
SkipPort == port + 2
NextPort == port + 1

Construct ==
    /\ mpc = "construct"
    /\ IF port \in FreePorts
       THEN /\ object' = "live" /\ open' = TRUE
            /\ apc' = "test"
            /\ mpc' = "assign"
            /\ UNCHANGED port
       ELSE /\ UNCHANGED <<object, open, apc>>
            /\ \/ port = 1 /\ mpc' = "returned" /\ UNCHANGED port
               \/ port < NbPorts /\ port' = NextPort /\ UNCHANGED mpc
               \/ port = NbPorts /\ mpc' = "enter" /\ UNCHANGED port
    /\ UNCHANGED <<server, bClosed, shut, ppc, workVars, asked, crashed>>

Assign ==
    /\ mpc = "assign"
    /\ server' = TRUE
    /\ mpc' = "enter"
    /\ UNCHANGED <<port, objectVars, apc, ppc, workVars, asked, crashed>>

(* server_enter_network, if the command line has a bootstrap daemon; when  *)
(* that cannot be reached, main prints an error and returns.               *)
Enter ==
    /\ mpc = "enter"
    /\ mpc' \in {"model", "returned"}
    /\ UNCHANGED <<port, server, objectVars, apc, ppc, workVars, asked, crashed>>

(* com_model in the main thread, if the command line has a model; main     *)
(* returns when a statement of it is unknown.                              *)
MainModel ==
    /\ mpc = "model"
    /\ \/ /\ mpc' = "join"
          /\ StartModel
          /\ ppc' = [p \in Procs |-> IF Started(p) THEN "run" ELSE ppc[p]]
       \/ mpc' \in {"join", "returned"} /\ UNCHANGED <<workVars, ppc>>
    /\ UNCHANGED <<port, server, objectVars, apc, asked, crashed>>

(* server_join: a NULL server crashes, a freed one may. *)
Join ==
    /\ mpc = "join"
    /\ \/ ~server /\ crashed' = TRUE /\ UNCHANGED mpc
       \/ server /\ object = "freed" /\ crashed' = TRUE /\ UNCHANGED mpc
       \/ server /\ mpc' = "joining" /\ UNCHANGED crashed
    /\ UNCHANGED <<port, server, objectVars, apc, ppc, workVars, asked>>

(* What server_join does once the thread is over; the mutant also deletes. *)
JoinDeletes == object' = "freed" /\ crashed' = (server /\ object = "freed")
JoinOnly == UNCHANGED <<object, crashed>>

Joined ==
    /\ mpc = "joining"
    /\ apc = "over"
    /\ JoinOnly
    /\ mpc' = "returned"
    /\ UNCHANGED <<port, server, bClosed, shut, open, apc, ppc, workVars, asked>>

Main == Construct \/ Assign \/ Enter \/ MainModel \/ Join \/ Joined

-----------------------------------------------------------------------------
(* Server::run.  bClosed of a freed object reads as anything.  An accept   *)
(* called after the close fails; one that waits fails at the shutdown.     *)
AcceptStep ==
    /\ \/ /\ apc = "test"
          /\ \E b \in IF object = "live" THEN {bClosed} ELSE BOOLEAN :
                apc' = IF b THEN "over" ELSE "call"
       \/ apc = "call" /\ apc' = IF shut \/ ~open THEN "over" ELSE "blocked"
       \/ apc = "blocked" /\ shut /\ apc' = "over"
    /\ UNCHANGED <<mainVars, server, objectVars, ppc, workVars, asked, crashed>>

(* A client connects and gets a connection thread of its own. *)
Connect(c) ==
    /\ apc = "blocked" /\ ~shut /\ open
    /\ ppc[c] = "new"
    /\ ppc' = [ppc EXCEPT ![c] = "command"]
    /\ apc' = "test"
    /\ UNCHANGED <<mainVars, server, objectVars, workVars, asked, crashed>>

-----------------------------------------------------------------------------
(* What makes the daemon stop.                                             *)

At(p, pc) == ppc[p] = pc
Goto(p, pc) == ppc' = [ppc EXCEPT ![p] = pc]

(* The connection thread executes the command of its client. *)
Command(c) ==
    /\ At(c, "command")
    /\ Early \/ mpc # "assign"
    /\ \/ /\ "exit" \in Commands
          /\ asked' = TRUE
          /\ Goto(c, "stop")
          /\ UNCHANGED workVars
       \/ /\ "model" \in Commands
          /\ StartModel
          /\ ppc' = [p \in Procs |-> IF p = c THEN "done"
                                     ELSE IF Started(p) THEN "run" ELSE ppc[p]]
          /\ UNCHANGED asked
    /\ UNCHANGED <<mainVars, server, objectVars, apc, crashed>>

(* The test of agml_thread_end; the mutant leaves it out. *)
AnyEnd == TRUE
LastEnd == threads = {}

(* agml_thread_end: the thread leaves the array, then looks whether it is  *)
(* empty.  Each access takes the lock of the array, the pair does not.     *)
ThreadEnd(t) ==
    /\ \/ At(t, "run") /\ Goto(t, "remove") /\ UNCHANGED threads
       \/ At(t, "remove") /\ threads' = threads \ {t} /\ Goto(t, "empty?")
       \/ /\ At(t, "empty?")
          /\ Goto(t, IF LastEnd THEN "stop" ELSE "done")
          /\ UNCHANGED threads
    /\ UNCHANGED <<mainVars, server, objectVars, apc, started, asked, crashed>>

(* shutdown() of the socket; the mutant leaves it out. *)
NoShutdown == UNCHANGED shut
Shutdown == shut' = (shut \/ open)

(* server_stop up to the return of close().  On a freed object close()     *)
(* writes to freed memory and shuts a socket that is closed already.       *)
Close(p) ==
    /\ \/ At(p, "stop") /\ Goto(p, IF server THEN "close" ELSE "null")
          /\ UNCHANGED <<bClosed, shut, open>>
       \/ At(p, "close") /\ bClosed' = TRUE /\ Goto(p, "shutdown")
          /\ UNCHANGED <<shut, open>>
       \/ At(p, "shutdown") /\ Shutdown /\ Goto(p, "fdclose")
          /\ UNCHANGED <<bClosed, open>>
       \/ At(p, "fdclose") /\ open' = FALSE /\ Goto(p, "delete")
          /\ UNCHANGED <<bClosed, shut>>
    /\ UNCHANGED <<mainVars, server, object, apc, workVars, asked, crashed>>

(* delete reads the pointer again.  A second delete may crash: the memory  *)
(* of the object, and its pointer to the virtual destructor, are gone.     *)
Delete(p) ==
    /\ At(p, "delete")
    /\ \/ ~server /\ Goto(p, "null") /\ UNCHANGED <<object, crashed>>
       \/ /\ server /\ object = "live"
          /\ object' = "freed"
          /\ Goto(p, "null")
          /\ UNCHANGED crashed
       \/ /\ server /\ object = "freed"
          /\ \/ crashed' = TRUE /\ UNCHANGED ppc
             \/ Goto(p, "null") /\ UNCHANGED crashed
          /\ UNCHANGED object
    /\ UNCHANGED <<mainVars, server, bClosed, shut, open, apc, workVars, asked>>

Forget(p) ==
    /\ At(p, "null")
    /\ server' = FALSE
    /\ Goto(p, "stopped")
    /\ UNCHANGED <<mainVars, objectVars, apc, workVars, asked, crashed>>

ServerStop(p) == Close(p) \/ Delete(p) \/ Forget(p)

-----------------------------------------------------------------------------
Next ==
    /\ ~Gone
    /\ \/ Main
       \/ AcceptStep
       \/ \E c \in Clients : Connect(c) \/ Command(c)
       \/ \E t \in Threads : ThreadEnd(t)
       \/ \E p \in Procs : ServerStop(p)

Spec == Init /\ [][Next]_vars

(* Every thread of the process that can run is eventually scheduled, and   *)
(* the nodes of the model converge; clients need never come.               *)
Fairness ==
    /\ WF_vars(~Gone /\ Main)
    /\ WF_vars(~Gone /\ AcceptStep)
    /\ \A c \in Clients : WF_vars(~Gone /\ Command(c))
    /\ \A t \in Threads : WF_vars(~Gone /\ ThreadEnd(t))
    /\ \A p \in Procs : WF_vars(~Gone /\ ServerStop(p))

FairSpec == Spec /\ Fairness

-----------------------------------------------------------------------------
(* The daemon closes its server only because a client asked it to exit or  *)
(* because every simulation thread of its model has ended ("executes the   *)
(* model, and stops then every node has converged", doc/tutorial_1.html:82; *)
(* agml_thread_end, agml_command_exit).                                    *)
StopsForAReason ==
    bClosed \/ shut \/ object = "freed" => asked \/ (started /\ threads = {})

(* "execute the locally instanciated Nodes until an exit request is        *)
(* received" (doc/agml.html:40), "and stops then every node has converged" *)
(* (doc/tutorial_1.html:82): once a client has asked it to, or the threads *)
(* of its model have ended, the process ends (server_stop, Server::run).   *)
Stops == asked \/ (started /\ threads = {} /\ Threads # {}) ~> Gone

(* The processes that have entered server_stop. *)
Stoppers == {p \in Procs : ppc[p] \in {"stop", "close", "shutdown", "fdclose",
                                       "delete", "null", "stopped"}}

(* Only a race brings the process down: main that reached server_join      *)
(* after the server was stopped or without one, or two threads that were   *)
(* both in server_stop.  One stopper alone, with main waiting, is safe.    *)
CrashCause ==
    crashed => mpc = "join" \/ \E p \in Stoppers, q \in Stoppers : p # q

(* "Everything went fine !" (examples/kmeans_single_host.sh): once main    *)
(* waits, the daemon ends by its return, and not because the server is     *)
(* closed or deleted by one thread under another (server_stop).            *)
CleanStop == crashed => mpc = "join"
=============================================================================

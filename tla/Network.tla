------------------------------ MODULE Network ------------------------------
(***************************************************************************)
(* The network of the daemons (common/com.cpp, common/Commands.cpp): how a *)
(* daemon enters it or is invited, how the root makes itself known, and    *)
(* how a model goes up to the root and floods down to all daemons.         *)
(*                                                                         *)
(* A daemon has a thread for each end of its connections and one for each  *)
(* command of a user; their handlers run concurrently, without a lock but  *)
(* that of each array.  Connections are FIFO and are not lost.  What comes *)
(* after the first crash of a daemon is left out.                          *)
(***************************************************************************)
EXTENDS Integers, Sequences, FiniteSets, SequencesExt, Addresses

CONSTANTS
    Enters,         \* requests to enter, as agmld starts (boot) or later
    Models,         \* requests for a model, with the addresses in its Host lines
    Wishes,         \* the sets of requests the users may make
    Patient,        \* models that are asked for when the network is formed
    MaxConn,        \* bound: connections made
    MaxLog,         \* bound: models a daemon reads
    MaxCopies,      \* bound: ends with commands to read, where these may multiply
    None            \* no end

Requests == Enters \cup Models

Sides == {"client", "server"}
Ends == [conn : 1 .. MaxConn, side : Sides]

ASSUME ConstantsAssumption ==
    /\ Enters \subseteq [at : Daemons, addr : Addresses, boot : BOOLEAN]
    /\ Models \subseteq [at : Daemons, hosts : SUBSET Addresses]
    /\ \A r \in Enters : Listening(r.at, r.addr) # {}
    /\ Wishes \subseteq SUBSET Requests /\ Patient \subseteq Models
    /\ MaxConn \in Nat /\ MaxLog \in Nat /\ MaxCopies \in Nat /\ None \notin Ends

VARIABLES
    conn,           \* the connections made: who connected to whom, and from where
    inbox,          \* what each end has not yet read
    masters,        \* the ends at each daemon that lead to its masters,
    slaves,         \* to its slaves
    root_host,      \* and to the one it takes for the root
    data_hosts,     \* the hosts each daemon knows of
    log,            \* the models each daemon has read, in order
    task,           \* what each thread is doing
    todo,           \* the requests that the users have not yet made,
    made,           \* and those they have
    crashed         \* the daemons that followed a null pointer

vars == <<conn, inbox, masters, slaves, root_host, data_hosts, log, task, todo, made, crashed>>

Daemon(e) == conn[e.conn][e.side]
Peer(e) == [e EXCEPT !.side = IF @ = "client" THEN "server" ELSE "client"]
Made == {e \in Ends : e.conn <= Len(conn)}
(* A thread for each end of a connection and each request of a user. *)
Threads == Ends \cup todo \cup made
At(t) == IF t \in Requests THEN t.at ELSE Daemon(t)

(* The addresses that may be met. *)
IPs == {Loopback} \cup UNION {ToSet(Interfaces[d]) : d \in Daemons}
Known == {r.addr : r \in Enters} \cup (UNION {r.hosts : r \in Models})
         \cup [name : IPs, port : {Port[d] : d \in Daemons}]

Commands ==
    [cmd : {"subscribe", "root_welcome", "add_to_network"}]
    \cup [cmd : {"notify_subscription"}, who : Known]
    \cup [cmd : {"model", "set_topology"}, model : Models]

Idle == [pc |-> "idle"]

(* A thread that sends msg to all its daemon's masters or slaves is at     *)
(* index i of the array; next is what it does after that.                  *)
Tasks ==
    {Idle}
    \cup [pc : {"subscribe", "welcome"}, end : Ends]
    \cup [pc : {"invite"}, model : Models, invited : SUBSET Known]
    \cup [pc : {"join"}, end : Ends, model : Models, invited : SUBSET Known]
    \cup [pc : {"send"}, to : {"masters", "slaves"}, i : 1 .. MaxConn + 1,
          msg : Commands, next : {Idle} \cup [pc : {"read"}, model : Models]]
    \cup [pc : {"read"}, model : Models]

TypeOK ==
    /\ conn \in Seq([client : Daemons, server : Daemons, from : IPs]) /\ Len(conn) <= MaxConn
    /\ inbox \in [Ends -> Seq(Commands)]
    /\ masters \in [Daemons -> Seq(Ends)]
    /\ slaves \in [Daemons -> Seq(Ends)]
    /\ root_host \in [Daemons -> Ends \cup {None}]
    /\ data_hosts \in [Daemons -> SUBSET Known]
    /\ log \in [Daemons -> Seq(Models)] /\ \A d \in Daemons : Len(log[d]) <= MaxLog
    /\ task \in [Threads -> Tasks]
    /\ todo \subseteq Requests /\ made \subseteq Requests
    /\ crashed \subseteq Daemons

Init ==
    /\ conn = <<>>
    /\ inbox = [e \in Ends |-> <<>>]
    /\ masters = [d \in Daemons |-> <<>>]
    /\ slaves = [d \in Daemons |-> <<>>]
    /\ root_host = [d \in Daemons |-> None]
    /\ data_hosts = [d \in Daemons |-> {}]
    /\ log = [d \in Daemons |-> <<>>]
    /\ todo \in Wishes /\ made = {}
    /\ task = [t \in Threads |-> Idle]
    /\ crashed = {}

-----------------------------------------------------------------------------
AGML_IS_ROOT(d) == masters[d] = <<>>
AGML_IS_ISOLATED(d) == masters[d] = <<>> /\ slaves[d] = <<>>

(* new Host(new Socket(...)): the end that d gets of a new connection; the *)
(* mutant takes the number of the last one.                                *)
LastEnd == [conn |-> Len(conn), side |-> "client"]
NewEnd == [conn |-> Len(conn) + 1, side |-> "client"]
Connect(d, a) ==
    /\ Len(conn) < MaxConn
    /\ \E x \in Listening(d, a) :
          conn' = Append(conn, [client |-> d, server |-> x, from |-> PeerIP(d, a)])
Refused(d, a) == Listening(d, a) = {} /\ UNCHANGED conn

Cmd(c) == [cmd |-> c]

(* The inboxes after m was sent through end e, and after t's thread has    *)
(* taken the command it is about.                                          *)
Put(box, e, m) == [box EXCEPT ![Peer(e)] = Append(@, m)]
Taken(t) == IF t \in Requests THEN inbox ELSE [inbox EXCEPT ![t] = Tail(@)]

Make(r) == todo' = todo \ {r} /\ made' = made \cup {r}

Does(t, x) == task' = [task EXCEPT ![t] = x]

(* The thread of end e has a command c to execute. *)
Has(e, c) ==
    /\ crashed = {}
    /\ task[e] = Idle
    /\ inbox[e] # <<>> /\ Head(inbox[e]).cmd = c

Doing(t, pc) == crashed = {} /\ task[t].pc = pc

Hosts(d, to) == IF to = "masters" THEN masters[d] ELSE slaves[d]

(* Nothing is under way. *)
Quiet ==
    /\ crashed = {}
    /\ \A t \in Threads : task[t] = Idle
    /\ \A e \in Ends : inbox[e] = <<>>

SlaveEnds(d, x) == {e \in ToSet(slaves[d]) : Daemon(Peer(e)) = x}

(* Everyone has one master at most, is the slave of one at most, and       *)
(* nobody is the slave of its own slaves.                                  *)
Forest ==
    /\ \A x \in Daemons : Len(masters[x]) <= 1
    /\ \A x \in Daemons : Cardinality(UNION {SlaveEnds(d, x) : d \in Daemons}) <= 1
    /\ \A S \in SUBSET Daemons \ {{}} :
          \E x \in S : \A d \in S : SlaveEnds(d, x) = {}

(* com_send_command_masters, com_send_command_slaves: see Send.            *)
Broadcast(to, m, next) == [pc |-> "send", to |-> to, i |-> 1, msg |-> m, next |-> next]

-----------------------------------------------------------------------------
(* Entering: the new daemon is master's slave when subscribe has been read *)
(* there; the root then speaks to it, on this connection or a new one.     *)

(* A daemon that is started with its own address does not enter. *)
Alone(r) ==
    /\ crashed = {}
    /\ r \in todo \cap Enters
    /\ r.boot /\ is_me(r.at, r.addr)
    /\ Make(r)
    /\ UNCHANGED <<conn, inbox, masters, slaves, root_host, data_hosts, log, task, crashed>>

com_enter_network(r) ==
    /\ crashed = {}
    /\ r \in todo \cap Enters
    /\ r.boot => ~is_me(r.at, r.addr)
    /\ Make(r)
    /\ Connect(r.at, r.addr)
    /\ masters' = [masters EXCEPT ![r.at] = Append(@, NewEnd)]
    /\ Does(r, [pc |-> "subscribe", end |-> NewEnd])
    /\ UNCHANGED <<inbox, slaves, root_host, data_hosts, log, crashed>>

subscribe(t) ==
    /\ Doing(t, "subscribe")
    /\ inbox' = Put(inbox, task[t].end, Cmd("subscribe"))
    /\ Does(t, Idle)
    /\ UNCHANGED <<conn, masters, slaves, root_host, data_hosts, log, todo, made, crashed>>

agml_command_subscribe(e) ==
    /\ Has(e, "subscribe")
    /\ slaves' = [slaves EXCEPT ![Daemon(e)] = Append(@, e)]
    /\ inbox' = Taken(e)
    /\ Does(e, [pc |-> "welcome", end |-> e])
    /\ UNCHANGED <<conn, masters, root_host, data_hosts, log, todo, made, crashed>>

(* Who is not the root passes the news on to its masters, with the address *)
(* the subscriber has from here.                                           *)
server_ip(e) == [name |-> conn[e.conn].from, port |-> Port[Daemon(Peer(e))]]
TellMasters(e) ==
    Broadcast("masters", [cmd |-> "notify_subscription", who |-> server_ip(e)], Idle)

Welcome(e) ==
    /\ Doing(e, "welcome")
    /\ IF AGML_IS_ROOT(Daemon(e))
       THEN inbox' = Put(inbox, e, Cmd("root_welcome")) /\ Does(e, Idle)
       ELSE Does(e, TellMasters(e)) /\ UNCHANGED inbox
    /\ UNCHANGED <<conn, masters, slaves, root_host, data_hosts, log, todo, made, crashed>>

agml_command_notify_subscription(e) ==
    /\ Has(e, "notify_subscription")
    /\ LET d == Daemon(e)
           m == Head(inbox[e])
       IN \/ /\ AGML_IS_ROOT(d)
             /\ \/ Connect(d, m.who) /\ inbox' = Put(Taken(e), NewEnd, Cmd("root_welcome"))
                \/ Refused(d, m.who) /\ inbox' = Taken(e)
             /\ UNCHANGED crashed
          \/ /\ ~AGML_IS_ROOT(d) /\ root_host[d] # None
             /\ inbox' = Put(Taken(e), root_host[d], m)
             /\ UNCHANGED <<conn, crashed>>
          \/ /\ ~AGML_IS_ROOT(d) /\ root_host[d] = None
             /\ crashed' = {d}
             /\ UNCHANGED <<conn, inbox>>
    /\ UNCHANGED <<masters, slaves, root_host, data_hosts, log, task, todo, made>>

Without(s, e) == RemoveFirst(s, e)

agml_command_root_welcome(e) ==
    /\ Has(e, "root_welcome")
    /\ root_host' = [root_host EXCEPT ![Daemon(e)] = e]
    /\ slaves' = [slaves EXCEPT ![Daemon(e)] = Without(@, e)]
    /\ inbox' = Taken(e)
    /\ UNCHANGED <<conn, masters, data_hosts, log, task, todo, made, crashed>>

(* masters.add(host); the mutant leaves it out. *)
Ignored(e) == masters
AddMaster(e) == [masters EXCEPT ![Daemon(e)] = Append(@, e)]

agml_command_add_to_network(e) ==
    /\ Has(e, "add_to_network")
    /\ masters' = AddMaster(e)
    /\ slaves' = [slaves EXCEPT ![Daemon(e)] = Without(@, e)]
    /\ inbox' = Taken(e)
    /\ UNCHANGED <<conn, root_host, data_hosts, log, task, todo, made, crashed>>

-----------------------------------------------------------------------------
(* Models: an isolated daemon invites the hosts of the model; the root     *)
(* floods it, any other daemon passes it to its masters.                   *)

(* agml_command_set_topology sends the model on, then reads it.  The       *)
(* mutants only read it, read it only if they need not send it on, and     *)
(* read what they pass up.                                                 *)
ReadOnly(d, m) == [pc |-> "read", model |-> m]
SendOrRead(d, m) ==
    Broadcast("slaves", [cmd |-> "set_topology", model |-> m],
              IF slaves[d] = <<>> THEN ReadOnly(d, m) ELSE Idle)
SetTopology(d, m) ==
    Broadcast("slaves", [cmd |-> "set_topology", model |-> m], [pc |-> "read", model |-> m])

PassUpAndRead(d, m) ==
    Broadcast("masters", [cmd |-> "model", model |-> m], [pc |-> "read", model |-> m])
PassUp(d, m) == Broadcast("masters", [cmd |-> "model", model |-> m], Idle)

SpreadModel(d, m) == IF AGML_IS_ROOT(d) THEN SetTopology(d, m) ELSE PassUp(d, m)

Model(t, m) ==
    LET d == At(t)
    IN /\ IF AGML_IS_ISOLATED(d)
          THEN /\ data_hosts' = [data_hosts EXCEPT ![d] = @ \cup m.hosts]
               /\ Does(t, [pc |-> "invite", model |-> m, invited |-> {}])
          ELSE Does(t, SpreadModel(d, m)) /\ UNCHANGED data_hosts
       /\ UNCHANGED <<conn, masters, slaves, root_host, log, crashed>>

Formed == todo \cap Enters = {} /\ (Quiet \/ made \cap Models # {})

com_model(r) ==
    /\ crashed = {}
    /\ r \in todo \cap Models /\ (r \in Patient => Formed)
    /\ Make(r)
    /\ Model(r, r)
    /\ UNCHANGED inbox

agml_command_model(e) ==
    /\ Has(e, "model")
    /\ inbox' = Taken(e)
    /\ Model(e, Head(inbox[e]).model)
    /\ UNCHANGED <<todo, made>>

NotInvited(t) == {a \in data_hosts[At(t)] \ task[t].invited : ~com_is_my_ip(At(t), a)}

com_add_to_network(t) ==
    /\ Doing(t, "invite")
    /\ \E a \in NotInvited(t) :
          LET tried == task[t].invited \cup {a}
          IN \/ /\ Connect(At(t), a)
                /\ slaves' = [slaves EXCEPT ![At(t)] = Append(@, NewEnd)]
                /\ Does(t, [pc |-> "join", end |-> NewEnd, model |-> task[t].model, invited |-> tried])
             \/ /\ Refused(At(t), a)
                /\ Does(t, [task[t] EXCEPT !.invited = tried])
                /\ UNCHANGED slaves
    /\ UNCHANGED <<inbox, masters, root_host, data_hosts, log, todo, made, crashed>>

Invite(t) ==
    /\ Doing(t, "join")
    /\ LET e == task[t].end
       IN inbox' = Put(Put(inbox, e, Cmd("add_to_network")), e, Cmd("root_welcome"))
    /\ Does(t, [pc |-> "invite", model |-> task[t].model, invited |-> task[t].invited])
    /\ UNCHANGED <<conn, masters, slaves, root_host, data_hosts, log, todo, made, crashed>>

Decide(t) ==
    /\ Doing(t, "invite")
    /\ NotInvited(t) = {}
    /\ Does(t, SpreadModel(At(t), task[t].model))
    /\ UNCHANGED <<conn, inbox, masters, slaves, root_host, data_hosts, log, todo, made, crashed>>

agml_command_set_topology(e) ==
    /\ Has(e, "set_topology")
    /\ inbox' = Taken(e)
    /\ Does(e, SetTopology(Daemon(e), Head(inbox[e]).model))
    /\ UNCHANGED <<conn, masters, slaves, root_host, data_hosts, log, todo, made, crashed>>

Copies ==
    Cardinality({e \in Made :
        inbox[e] # <<>> /\ Last(inbox[e]).cmd \in {"notify_subscription", "model", "set_topology"}})

Send(t) ==
    LET x == task[t]
        d == At(t)
        e == Hosts(d, x.to)[x.i]
    IN /\ Doing(t, "send")
       /\ \/ /\ x.i <= Len(Hosts(d, x.to))
             /\ Forest \/ Copies < MaxCopies
             /\ inbox' = Put(inbox, e, x.msg)
             /\ Does(t, [x EXCEPT !.i = @ + 1])
          \/ /\ x.i > Len(Hosts(d, x.to))
             /\ Does(t, x.next) /\ UNCHANGED inbox
       /\ UNCHANGED <<conn, masters, slaves, root_host, data_hosts, log, todo, made, crashed>>

(* The end of Topology::read, which is not atomic (NodeGroups). *)
Read(t) ==
    /\ Doing(t, "read")
    /\ Len(log[At(t)]) < MaxLog
    /\ log' = [log EXCEPT ![At(t)] = Append(@, task[t].model)]
    /\ data_hosts' = [data_hosts EXCEPT ![At(t)] = @ \cup task[t].model.hosts]
    /\ Does(t, Idle)
    /\ UNCHANGED <<conn, inbox, masters, slaves, root_host, todo, made, crashed>>

-----------------------------------------------------------------------------
Receive(e) ==
    \/ agml_command_subscribe(e) \/ Welcome(e)
    \/ agml_command_notify_subscription(e)
    \/ agml_command_root_welcome(e)
    \/ agml_command_add_to_network(e)
    \/ agml_command_model(e)
    \/ agml_command_set_topology(e)

Request(r) == Alone(r) \/ com_enter_network(r) \/ com_model(r)

Continue(t) ==
    subscribe(t) \/ com_add_to_network(t) \/ Invite(t) \/ Decide(t) \/ Send(t) \/ Read(t)

Next ==
    \/ \E e \in Ends : Receive(e)
    \/ \E r \in todo : Request(r)
    \/ \E t \in Threads : Continue(t)

Spec == Init /\ [][Next]_vars

(* Some thread that has something to do gets to do it. *)
Fairness == WF_vars(Next)

FairSpec == Spec /\ Fairness

-----------------------------------------------------------------------------
(* In a forest a model is read once at most by each daemon, however the    *)
(* entries, invitations and other models interleave with it; reading it    *)
(* again would make its nodes again (agml_command_set_topology).           *)
ReadOnce ==
    Forest => \A d \in Daemons : \A i, j \in 1 .. Len(log[d]) : log[d][i] = log[d][j] => i = j

(* The daemons that are reached from d along the links R.                  *)
Reached(d, R(_, _)) ==
    {x \in Daemons : \A S \in SUBSET Daemons :
        d \in S /\ (\A y \in S, z \in Daemons : R(y, z) => z \in S) => x \in S}

IsSlave(d, x) == SlaveEnds(d, x) # {}

(* d has read n after m. *)
After(d, m, n) == \E i, j \in 1 .. Len(log[d]) : i < j /\ log[d][i] = m /\ log[d][j] = n

(* A slave reads the models that come from above - those that were asked   *)
(* for neither at its master nor below it - in the order of its master,    *)
(* all of them from the first one on that the master passed on to it: the  *)
(* numbers of groups depend on that order.                                 *)
SameOrder ==
    Quiet /\ Forest =>
        \A d, x \in Daemons : IsSlave(d, x) =>
            LET Above == {m \in Models : m.at \notin Reached(d, IsSlave)}
            IN \A m \in Above \cap ToSet(log[x]) :
                  /\ m \in ToSet(log[d])
                  /\ \A n \in Above : After(x, m, n) <=> After(d, m, n)

(* No daemon was told of another by an address that means somebody else    *)
(* where it is: a subscriber that came by the loopback and whose master is *)
(* not the root.                                                           *)
NamesTravel ==
    \A c \in ToSet(conn) :
        c.from = Loopback => \A d \in Daemons : Interfaces[d] = Interfaces[c.client]

(* When all is quiet both ends of a connection agree on who is the master, *)
(* and who has a master has been spoken to by a root, so that it does not  *)
(* follow a null root_host at the next notify_subscription.                *)
Agreed ==
    Quiet =>
        /\ \A e \in Made :
              e \in ToSet(slaves[Daemon(e)]) <=> Peer(e) \in ToSet(masters[Daemon(Peer(e))])
        /\ NamesTravel =>
              \A d \in Daemons : masters[d] # <<>> => root_host[d] # None

Linked(x, y) == IsSlave(x, y) \/ IsSlave(y, x)

(* x is in the network of d.                                               *)
InNetwork(d, x) == x \in Reached(d, Linked)

(* The daemons that the Host lines of a model mean where it is asked for.  *)
HostsOf(r) == UNION {Listening(r.at, a) : a \in r.hosts}

(* The daemon that is asked knows which of them it is itself: every line   *)
(* has a port, or the name of a machine with one daemon.                   *)
KnowsItself(r) == \A a \in r.hosts : com_is_my_ip(r.at, a) <=> Listening(r.at, a) = {r.at}

(* The first model, asked for when nothing else goes on, is read by all    *)
(* its hosts and all daemons of the network, if the hosts are in it or the *)
(* daemon that was asked was alone and invites them; then all is quiet.    *)
FirstModel(r) ==
    /\ todo = {r} /\ made \cap Models = {} /\ Quiet /\ Forest
    /\ IF AGML_IS_ISOLATED(r.at) THEN KnowsItself(r)
       ELSE \A d \in HostsOf(r) : InNetwork(r.at, d)

Spread ==
    (\E r \in Models : FirstModel(r))
    ~> /\ todo = {} /\ Quiet
       /\ \A r \in made \cap Models, d \in Daemons :
             d \in HostsOf(r) \/ InNetwork(r.at, d) => r \in ToSet(log[d])
=============================================================================

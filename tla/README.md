# A TLA+ model of libAGML

libAGML runs *models* made of asynchronous nodes on a network of daemons. This
directory holds TLA+ modules translated from its C++ source, TLC configurations
that check them on small instances, and TLAPS proofs. Paths below are relative
to the root of the repository (`src/...`, `doc/...`); `lib/` stands for
`src/libagml_comm/`.

## 1. Inventory of the system

| component | code | state | operations |
|---|---|---|---|
| simulation threads | `lib/simulation/Thread.*`, `lib/util/fifo.h`, `array.h` | per thread: `bRunning`, `nb_running_nodes`, the list `nodes` of attached nodes, the message `fifo`, a semaphore; global: the array `threads` | `run`, `add`, `remove`, `attach`, `detach`, `push_message`, `agml_threads_create/start`, `agml_thread_end` |
| node life cycle | `lib/agml/node.*` | `bInited`, `bAttached`, `bFinished` | `_init`, `_process`, `_receive`, `attach`, `detach`, `finish`, `send` |
| node groups and links | `lib/topology/NodeGroup.*` | per group: `hosts`, `local_hosts`, `nb_nodes`, `nb_local_nodes`, links in and out, `nb_out_nodes`, `nb_in_nodes`; per host block `NodeGroupHost` | `connect`, `assign`, `assign_same_as`, `add_host`, `send_out`, `send`, `receive` |
| instantiation | `lib/topology/TopologyReader.*`, `Topology::read`, `NodeGroupHost::instantiate_nodes` | the statements not yet executed, `local_host`, `bLocal` | `read`, `declare_host`, `connect`, `assign`, `assign_same_as` |
| hosts and connections | `lib/common/Host.*`, `com.cpp`, `lib/topology/DataHost.*` | the array `hosts`, per host a socket, a mutex, `bRunning`, `data_host`; the array `data_hosts` | `send`, `on_receive`, `com_connection_thread`, `get_host`, `~Host` |
| commands, daemon network | `lib/common/Commands.*`, `com.cpp` | the arrays `masters`, `slaves` and `hosts`, `root_host` | `enter`, `subscribe`, `notify_subscription`, `root_welcome`, `add_to_network`, `model`, `set_topology`, `data_host`, `exit`, `infos`, ... |
| infos | `lib/topology/Info.*`, `Topology.cpp:93-179`, `Commands.cpp:185-286` | one record per node and per block, in shared memory where the node is and in `remote_infos` at the root | `start_infos`, the update thread, `dump_local_infos`, `update_infos`, `dump_all_infos`, `node_request` |
| daemon | `src/agml_server/agmld.cpp`, `lib/server/Server.*`, `lib/tcp/Server.*` | the global `server`, its `bClosed`, its socket | `server_start`, `server_join`, `server_stop`, `com_init`, `com_exit` |
| client | `src/agml_client/agml.cpp`, `lib/client/Client.*` | the connection to a daemon | command line to commands |
| messages and sockets | `lib/common/Message.*`, `lib/tcp/Socket.*` | a list of elements that own their data or not; a file descriptor | `add`, `get_next`, `copy`; `connect`, `write`, `read_exactly` |
| gossip nodes | `src/agml/nodes/basic/NodeAvg.cpp`, `src/agml_node_clustering/*`, `src/agml/com/message.cpp` | sums and weights, neighbour estimates, termination counters | `init`, `process`, `on_receive` |
| data nodes | `src/agml/nodes/data/*` | the training set, what was acknowledged | `init`, `process`, `on_receive` |
| node library | `lib/topology/NodeLibrary.*` | the table of node classes | `init`, `add`, `instanciate` |
| math, strings, files, vendored code | `src/agml/math`, `lib/util`, `extern` | none of their own | numeric kernels and conversions |

### How they interact

A daemon (`agmld`) has one accepting thread, one connection thread per peer or
client, and one simulation thread per `nb_threads` of its `Host` statement. A
user asks a daemon to `enter` the network of another, or gives it the text of a
`model`, which goes up from master to master to the root and down from there to
all slaves by `set_topology`. The connection thread that gets it reads the model,
without a lock: it creates simulation threads, links groups, instantiates the
local nodes and at the end starts the threads (`Topology.cpp:73-77`). From then on the simulation threads call `init`,
`process` and `on_receive` of the nodes; a node sends to an index among its
neighbours, which `NodeGroup::send_out` turns into a link, a group, a host block
and an index in it. A node of the same thread is called at once; a node of
another thread of the daemon gets a copy in the queue of its thread; a node of
another daemon gets a network message that the peer's connection thread puts in
that queue. When the last running node of the last thread has finished,
`com_exit` stops the daemon.

### What is hard

* Interleaving. The simulation threads test their list and their queue without
  a lock and then sleep; the counter of running nodes is changed by two threads
  without a common lock; the array of threads is indexed by one thread while
  others leave it; `server` is closed and deleted by whichever thread comes first.
* Order. A node can be called before its `init` has finished, told to finish
  twice or inside its own `process`; daemons read the same model at their own
  speed, so a message may arrive before the model it is for.
* Failure. A send to a dead peer throws with the host's mutex locked; a read
  error ends the process; a dropped connection leaves pointers behind.
* Numbers. Routing is arithmetic on counters that links and host blocks update
  one after the other; one wrong counter misroutes for good. Gossip is only
  correct as long as mass is conserved.

The complete list, each at its line, is `hazards` in `PROJECT.json`.

### What makes each component correct

* simulation threads: no wake-up is lost; a thread ends only when all its nodes
  have finished, and then it does end; every thread is started; a queued message
  is delivered.
* node life cycle: the scheduler's list and the flags agree; `init`, `process`
  and `on_receive` of a node never overlap; a detached node is not processed.
* routing: neighbour numbers are exactly the nodes of the linked groups, each
  reached once, and daemons that read the same model agree on every node's id.
* instantiation: every node of the model is instantiated on exactly one daemon
  and one thread.
* hosts and connections: a lock that is taken is given back; a connection thread
  that ends leaves no user of its host behind.
* daemon network: masters and slaves agree, the root is known, a model reaches
  each daemon, once, and in an order they agree on.
* infos: what is shown as node k of a group is about the node that a request for
  k reaches.
* messages and matrices: messages arrive whole and in order; each buffer is freed once,
  and not before its last use.
* daemon: it stops once, after its last thread, and because of it.
* gossip: sums and weights are conserved; data nodes deliver each part once.

## 2. Plan

Order: the most important behaviour first.

| # | module | what | composes with |
|---|---|---|---|
| 1 | `SimThread` | scheduler, queues, semaphores, life cycle of nodes | base |
| 2 | `Daemon` | start and stop of the process | abstracts the threads of `SimThread` to "runs, then ends" |
| 3 | `NodeGroups` | counters of neighbours, routing, data connections | one daemon per host, each reads as `SimThread`'s `Cfg` does |
| 4 | `Gossip` | data nodes and k-means over unreliable sends | uses what `SimThread` guarantees (`Exclusive`) as its atomicity |
| 5 | `Addresses`, `Network` | what an address means; entering, inviting, the root, the flooding of models | reads a model as `NodeGroups` details; its inboxes are `Channel`s |
| 6 | `Channel`, `Connection` | one connection, abstractly and with its mutexes, writes, threads and dying processes | `Connection` implements two `Channel`s |
| 7 | `Matrices`, `Averaging` | whose memory matrices and messages use; averaging with parts of unequal size | the feeding of `Gossip`, seen from memory |
| 8 | `Growth` | nodes made one by one on running threads; missing node classes, an `init` that throws, threads that end | what one statement of `NodeGroups` does |
| 9 | `Infos` | infos sent to a root that reads at its own speed | extends `Growth` |

All of them are written, and every safety property of theirs is proved. A *mailbox* per node that `SimThread` implements, and a *log* of models that slaves follow in
`Network`, are abstract specifications that would be worth stating.

## 3. Modules and the code

`PROJECT.json` maps every definition to its lines. Definitions have the names of
the code where they can; `m.x` of C++ is a field of a record or a variable that is
a function. `MC*` modules give constants their values.

**SimThread** (`simulation/Thread.cpp`, `agml/node.cpp`, `util/fifo.h`). `tpc` is
where each thread is in `Thread::run`; `nodes`, `fifo`, `sem`, `bRunning` and
`nbRunning` are its fields; `cur` and `msg` are the node it processes and the
message it delivers. One action is one access that another thread can see: the
test of the list and of the queue are two actions, `++` and `--` of
`nb_running_nodes` are a read and a write through a register, `sem_post` comes
after the change it announces. `Cfg` is the thread that reads the model
(`Instantiate`, `Increment`, `Attach`, `Publish`, `Start`; `Incremental` is a second
model). What a node class does in `init`, `process` and `on_receive` is abstracted to
attaching, detaching, sending, finishing; a `Worker` detaches itself until it has
data, as `NodeEM` does. `clash` is history: the threads whose counter was changed by a `++`
and a `--` at once, or by a `++` that was stored when the loop had already been stopped.

**Daemon** (`agmld.cpp`, `server/Server.cpp`, `tcp/Server.cpp`). `mpc` is `main`, `apc`
the accepting thread (`main` may end by itself when its bootstrap daemon cannot be
reached or its model cannot be read), `ppc` the simulation threads and the clients' connection
threads; `server` is the global pointer, `object` what became of the object, so
that use after delete is visible. Every access to either is an action.

**NodeGroups** (`topology/*`). `view[d]` is what daemon `d` knows of each group:
blocks, links, counters. `ReadStatement` executes the next statement of the text as
`TopologyReader` does, with every counter update and connection attempt it causes;
`Finish` is the end of `Topology::read`. `SendOut` and `Send` are the routing as
functions. The text itself is a sequence of records, and `Amounts` and `LinksFrom` are what its first
statements mean, with no daemon in sight. The initial states, the steps and the types have names of
their own (`InitGroups`, `NextGroups`, `TypeGroups`), so that `DaemonProofs` can extend it beside `Daemon`.

**Gossip** (`NodeKMeans.cpp`, `NodeEM.cpp`, `NodeData.cpp`, `Matrix::part`). Each handler
is a step; a message to a node of the same thread is handled within the step of the
sender, as `NodeGroup::send` does. Of the sums only the weights are kept: `w` per cluster
and `w0`. `given` and `lost` are history.

**Addresses, Network** (`com.cpp`, `Commands.cpp`, `Host.cpp`; `Socket.cpp`, `agmld.cpp`). A connection has two ends, each
with a FIFO of commands and a thread; `task[t]` is what the thread of an end, or of a
user's request, has still to do. `com_send_command_masters` and `_slaves` walk over
arrays that other threads change, so every turn of their loop is a step and tests the
size again. `Model` is `agml_command_model` up to the invitations, `com_add_to_network`
and `Invite` one turn of its loop, `Decide` its end. `crashed` is a null `root_host`;
nothing happens after it. A daemon runs on a machine with some IPs (`Interfaces`) and listens at
a `Port`; names resolve to IPs (`Names`). An address, with a port or without, leads to the daemon
that listens there (`Listening`), if any, seen from the machine where it is used: the loopback is
another machine everywhere. `conn[i].from` is the IP the accepting side sees, from which the
address of a subscriber is made (`server_ip`). Two daemons of one machine have different ports; the network
interfaces of two machines have no IP in common but the loopback; a name is not an IP. `com_is_my_ip` and `is_me` are two different
tests of whether an address is one's own.

**Channel, Connection** (`Socket.cpp`, `Host.cpp`, `Message.cpp`, `com_connection_thread`,
`Client.cpp`, `agml.cpp`). Process `a` connects to daemon `b`. A message is two or three parts, one for
each write of `Message::write`; `wire[e]` is what `e` has written and the other end has not
read, `partial[e]` what `e` has read of a message. `mut` is the mutex of each `Host`, `pc` what each
thread does: senders go through `StartSend`, `Lock`, `Write` and `Unlock`, a connection
thread through `Read`, a handler, and `Leave` and `Delete` at the end. A closed socket with unread
data resets the other end (`rst`), whose next read or write fails; `WriteThrows` keeps the mutex,
`ReadFails` calls `exit(1)`. `kind` tells the four uses of a connection apart: commands
between daemons, data, and the commands of the tool `agml` that wait for an answer or not.
`Channel` is what one direction promises: a queue that is lost from some message on when the
connection breaks. `Connection` maps it to `Pending(e)`, the messages of which a head was written, by
`INSTANCE Channel WITH`; `InOrder` says that both directions implement its safety part, `Handled` its
fairness (a part of `NeverHangs`). The messages are found by counting heads (`Rank`), a definition without recursion.

**Matrices, Averaging** (`Matrix.h`, `NodeAvg.cpp`, `NodeData.cpp`, `NodeEvalKMeans.cpp`,
`message.cpp`). A matrix is a buffer, an offset, a height, and whether it owns the buffer; `heap` holds
the live buffers. A message to a node of the same thread is handled in the sender's step with the
sender's pointers, one to another thread is copied (`CopyOf`) and its data belongs to whoever takes
it (`Taken`, `Released`). A data node tries its parts one by one (`TryPart`), a worker receives, adds and divides
(`AddGradient`, `Average`). Values are left out but for the weight `w`; `dirty` and `fed` (how many training
sets workers were given) are history. `Places` are all the places a matrix can be in: `MemorySafe` compares
what is there with the heap.

**Growth** (`TopologyReader.cpp`, `NodeGroup.cpp`, `NodeLibrary.cpp`, `Thread.cpp`, `array.h`). A statement
becomes `plans`, the blocks it makes; `block` is the one in the making, with `pc` going through
the loop for the lightest thread (`scan`, `look`, `take`: its test and its two calls of `nb_nodes`), the division
among the threads (`each`, `rest`), the loop over them (`NextJob`, `pick`), the mutex of one (`Lock`), each node
(`instantiate_node`), `Unlock` and `add_host`. A number is given (`nb_local_nodes`) before the block is entered, which
is what others may see. `Leave` and `Return` are nodes that detach and attach; the last one to finish stops its
thread, which takes itself out of the array (`agml_thread_end`). `slots` is the memory of the array and `nbThreads` its
`size()`: every use of an index reads them anew, without the lock of the array, and what `erase` leaves
behind the last element can still be read. `endedAt` is history: what was being done when a thread ended. A class may be
missing (`NoSuchClass`). An `init` may throw (`InitThrows`, for the groups in `Fragile`): the
node has its number but is on no thread, the mutex stays locked, the block is in no list, its earlier nodes
are on their threads all the same (`orphans`), and the rest of the model is not read (`EndOfModel`).
A division by no threads, or an index beyond the memory of the array, ends the process (`crash`); a mutex that was
left locked stops the reading (`stuck`).

**Infos** (`Topology.cpp`, `Info.cpp`, `Commands.cpp`) extends `Growth`: the update thread of `Me` dumps
in two passes (`BeginDump`, `SecondPass`) and sends; `Root`, which has read `rpos` statements, stores
(`update_infos`). An update is sent whether or not the one before was read. An information is the node it is about. `lost` says by what a process was lost:
no topology yet, a buffer too small for the second pass, an unknown group or block, a number out of range.

## 4. Runs

| run | asks | answer |
|---|---|---|
| `threads` | Do two simulation threads, a reading thread and a second model lose wake-ups, nodes or exclusion? | No. A thread never sleeps through work; list and flags agree but for the window of `Node::attach`; no two handlers of a node overlap; no thread ends under a node it has counted, unless it lost an update of `nb_running_nodes`. |
| `live` | Do queues drain and threads end? | Yes, under fairness, for any initial value of the semaphores. |
| `stop` | Why does a daemon stop, does it stop in the end, what can crash it? | Only for an exit request or the end of the threads; then it always does; it crashes only by a race of two stoppers or of `main`. |
| `together` | Is the stop clean when two threads end together? | No (finding): both see the array empty. |
| `models` | Do neighbour numbers and connections agree with the text, in every order of statements? | Yes, under the conditions below. |
| `self` | Also connections for a group with one node per host linked to itself? | No (finding). |
| `mass` | Is weight conserved, are rows fed once, whatever sends fail? | Yes, with the loss of codebooks that come before the data accounted for. |
| `finish` | Does the data node end, and does one converged worker end all? | Yes, where the sends between workers do not fail. |
| `spread` | Is a model read by everyone, once, in one order; do masters and slaves agree? | Yes, where the links form a forest. |
| `ends` | Is a connection a pair of channels, and what is left of it when it ends? | Yes. A mutex stays locked only after a failed write; nothing in the lists leads to a deleted `Host`, but for one race; `exit(1)` only with a message unhandled; the other end is cleaned up unless it waits for such a mutex. |
| `averaging` | Are buffers freed once and rows kept until they are sent; is weight conserved? | Yes; memory leaks only when a second training set replaces the first; weight is lost, never won, if parts differ in size. |
| `growth` | Are nodes spread evenly and found by their numbers, are mutexes released, are infos about the node they are shown for? | Yes, under the conditions below. |

Every property of a passing run has a mutant in `PROJECT.json`: a plausible slip in
one definition, next to the definition in the module, under which TLC finds that
property violated.

### Conditions of properties

Some properties hold under a condition because the code does not promise more, and
they fail without it:

* `clash` (`SimThread`, in `ThreadExitSound`): `nb_running_nodes` has no common lock. When a `++` for a node
  that is added to a running thread overlaps a `--`, one of them is lost; when it comes after the loop was
  stopped it is in vain. Such a thread, which the run reaches, may end under a node. Every other thread, with late nodes or
  without, ends only when all nodes it has counted have finished.
* `OneBlock`, `Agreed` (`NodeGroups`): two blocks on a host share ids; a `data_host` command
  before the `Host` line leaves a host with one thread.
* `LoopsLast`, `NoneEmpty` (`NodeGroups`): what a block adds behind a link of a group to itself depends on
  whether the group has nodes, on any host: a local link must come after the
  blocks (see below), and a block of no nodes would count for -1.
* `EqualSets` (`Gossip`): a second training set of another size. `EqualParts` (`Averaging`): sums of
  parts of different heights throw, and what was sent is lost.
* `Forest` (`Network`, in `ReadOnce`, `SameOrder` and `Spread`): a daemon may get two masters, or two daemons each other
  as slave, by entering twice or by entering while it is invited; models then go round. `Agreed` needs no forest.
* `KnowsItself` (`Network`): `localhost` without a port is not recognised by the daemon it leads to,
  which invites itself; an IP without a port is taken for one's own by every daemon of the machine,
  so that the one it means is not invited.
* `NamesTravel` (`Network`): who enters through the loopback is told of as `127.0.0.1`, by which a
  root on another machine reaches somebody else or nobody; the subscriber has no `root_host`.
* The exceptions of `NoDangling` (`Connection`), which says of each step that no list begins to lead to a deleted
  `Host`: a `DataHost` keeps its own; and `com_enter_network` may add the `Host` to `masters`
  when its connection thread, `b` being dead, has gone through the lists already. Only that step
  of `Add` is excepted, not what else follows the death of `b`.
* `EvenOnly`, `Steady` and `NothingThrown` (`Growth`, in `EvenLoads`): loads are even where the model asks for it, as
  long as threads end between blocks only (one that ends while nodes are spread shifts the indexes: a thread gets two
  shares, or none; with three threads, of which one ends so, TLC finds the bound passed, with the two of the run no
  two are left to compare) and no block was given up.
* The condition of `NodeFound` (`Growth`): after an `init` that threw, its number leads to `NULL` for good.
  While a block is made, `com_decode_local_node`, which tests `nb_local_nodes` only (`com.cpp:113`), is given `NULL` for
  its nodes; for `NodeGroup::send`, which tests `nb_nodes` too, the claim is made then as well, if all blocks
  of the group are here (`AllLocal`).
* The exceptions of `LocksFree` (`Growth`): `assign_same_as` keeps a mutex when the node class is missing, an `init` that
  throws keeps it, and a thread that leaves the array between `LOCK` and `UNLOCK` makes the latter unlock another one.
* `OneBlock` (`Infos`): infos of a second block on one host overwrite those of the first.

Disagreements with the documentation that no run is spent on: in the model `g -L> g`, `g = @ h2 [1]`,
`g = @ h1 [2]`, the nodes of `h1` count two neighbours and have one, because `on_dst_add_host` takes the
node itself off only for the first block on any host (`NodeGroup.h:255`), so that `send_out` throws
"Neighbor overflow" for the last number, where `doc/agml_syntax.html:86` speaks of all nodes of the group
on the same host (`EveryNeighbour` without `LoopsLast` is violated there); a worker that has
converged ends the others whatever their error (`doc/tutorial_1.html:82` speaks of all nodes);
entering through one daemon connects to that one and the root, not to all
(`doc/agmld.html:37`); a detached node that was drawn before its flag was set is
processed (`doc/tutorial_4.html:140`); `agmld localhost:10001` on a machine with a network
interface is not recognised by `is_me` (`agmld.cpp:56`): the daemon at that port enters itself
and follows its null `root_host`, where `doc/agmld.html:46` says that this "is not an error (but
of course has no effect)"; `Host a = localhost` (`doc/agmld.html:54`, `doc/tutorial_3.html:138`) fails as said
under `KnowsItself`.

### Bounds and why they are enough

* `SimThread`: two threads, two or three nodes, one or two messages. Each race
  involves one sleeping thread, one waker, and the reading thread; three nodes let
  one thread have two and one node come late. `SemGarbage` gives the uninitialised
  semaphore 0 (the value that hides no wake-up) or also 1.
* `Daemon`: two threads and two clients: each race is between two of them and
  `main`; two ports, the first one taken, reach the retry.
* `NodeGroups`: two hosts, two groups, all 11880 sequences of four different
  statements out of twelve, with counts 1, 2 and 3, so that every order of link, block
  and same-as occurs, before and after each other, on both sides. `self` checks one model of
  one group.
* `Gossip`: two or three workers, one or two data nodes with two rows, so that
  with three workers one part is empty; `Unit = 2` lets a weight be halved once, `MaxQueue` stops
  senders while a queue holds more. A mass error shows in one exchange.
* `Network`: three daemons (root, middle, leaf), the last two on one machine, up to four requests in
  23 combinations, nine of them about addresses of one's own, the loopback, a port where nobody
  listens and addresses without a port. `MaxConn = 4` is more than those need in a forest; `MaxLog = 2` lets a
  daemon read one model twice; `MaxCopies = 1` limits what is under way once the links
  are no forest, where models multiply without end; in a forest it limits nothing.
  `Patient` models are asked for after everyone has entered, which keeps the scenarios
  with a chain and two models small; the others race with the entries.
* `Connection`: two senders at one end, one at the other, and the two connection threads, five
  messages of which one throws in its handler and two have no data. `Buffer = 2` parts is less
  than a message, so that writers wait in the middle of one. `Attempts` is 2 for the connections of
  commands (10 in the code) and 1 for the others as in the code; either process may die at any moment.
* `Averaging`: two data nodes with two to four rows for three targets, so that parts are equal, unequal
  or missing; `Unit = 4` lets a weight be halved twice; `MaxQueue = 1`; `MaxBuf = 10` buffers, beyond which
  nothing would be copied for another thread, are never reached.
* `Growth`, `Infos`: six texts of one or two models (a remote block and a same-as with a limit; a fixed thread and a
  same-as without limit, in one model or in the next; two blocks of a group and one of another; a second `Host` line; a thread
  that is not there), two threads for each `Host` line, every subset of two libraries, any `init` may throw, two nodes that
  leave their threads (`MaxLeft = 2`: enough to end both threads), two updates on the way (`MaxUpdates = 2`). `Root`
  takes part in the two texts with remote blocks (`Watched`), since infos need no others to differ by.

### Fairness and why the code justifies it

* `SimThread`: weak fairness of every thread and of every pending `sem_post`: the
  operating system schedules all threads. Connections and further models need never come.
* `Daemon`: weak fairness of `main`, the accepting thread, the threads and
  the stoppers until the process is gone; clients may never come.
* `Gossip`: weak fairness of a data node's `process` and of reception (what `live` shows of the
  scheduler: an attached node is drawn, a queue is drained); strong fairness of a
  successful send of a data node, which it repeats at each `process`: a network that
  fails for ever is not claimed about.
* `Network`: weak fairness of `Next` alone: some thread that can go on does.
* `Connection`: weak fairness of each thread: none stops of itself. Nobody need die, and the daemon
  need not come up. Mutexes are not fair: a waiting thread may be passed by.
* `Channel`: the queue of an open channel is handled in the end; `Handled` shows that the threads of
  `Connection` provide it.
* `Averaging`, `Growth` and `Infos` have safety properties only.

## 5. Proofs

TLAPS proves, for all values of the constants under `ConstantsAssumption` (`GroupsAssumption` in
`NodeGroups`, and also `DistinctAssumption` in `SimThread`):

* `SimThreadProofs!TypeCorrect`: `TypeOK`, with `Shape`: registers that belong to a
  program counter are set when it is reached.
* `SimThreadProofs!WakeUps`: `NoLostWakeup`. It is not inductive: a thread between its
  two tests has already seen an empty list. `WakeInv` adds that case: past the first test
  either the list is still empty or a wake-up is stored or on its way; asleep, list and
  queue are empty or so. Each action that fills one leaves its process owing a post
  (`SignalOwed`, `WakePush`); each step of a thread that consumes a post goes back to
  the first test (`WakeThread`).
* `SimThreadProofs!ListsAndFlags`: `Attachment`, from `NodeInv`: what a thread holds is for its own
  nodes (`Homes`), a node that is being made is out of everyone's reach but for the window of
  `Node::attach`, any other is in the list of its thread if and only if its flag says so (`Births`).
* `SimThreadProofs!NeverTwice`: `Exclusive`, where no node is linked to itself: the thread of a node
  alone calls it (`Homes`), and a call nested in `process` is to a neighbour (`Calls`).
* `SimThreadProofs!NoNodeLeft`: `ThreadExitSound`. `Counting` says of each thread that is not in `clash`, whether it
  runs or not, that `nb_running_nodes` is the number of its nodes that were counted and have not
  finished (`Count`), with what the registers of an interrupted `++` or `--` hold, and that a stopped loop has none;
  cardinalities step by step are `CountStep` and its companions.
* `ConnectionProofs!TypeCorrect`, `MutexKept` and `NothingDangles`: `TypeOK`, `LockKept` and
  `NoDangling`, from `Control`: who writes has the mutex of its end (`Locks`), what is over remains
  so (`Gone`), until the connection is entered nothing goes over it (`Silent`). Who enters a `Host` in a list
  is its creator, before anything is over unless `b` is dead, and `Leave` takes it out (`Lister`).
* `ConnectionProofs!ExitHasCause`: `ExitCause`, from `Control`, `Flow` and `Reasons`. `Flow` says what
  is on the way to an end that can read: messages one after the other, the last perhaps unfinished
  by the one who has the mutex (`Stream`), no more of them than were begun and not handled
  (`Numbers`). A reset means that something was unread (`Behind`), and only a reset end calls `exit(1)`.
* `ConnectionProofs!ImplementsChannel`: `InOrder`, the refinement. A step leaves what is on the way
  alone, adds a part, takes the parts of one message or breaks off (`Transit`); counting heads in
  each case (`MessagesGrown`, `MessagesTaken`, `MessagesPrefix`) makes it `Send`, `Deliver`, `Break` or
  a stutter of `Channel` (`Follow`). That a whole message is read as itself is `ReadWhole`.
* `DaemonProofs!TypeCorrect`: `TypeOK`.
* `DaemonProofs!StopReason`: `StopsForAReason`, from `ReasonInv`: whoever is in
  `server_stop` has a reason, and reasons are never withdrawn.
* `DaemonProofs!CrashNeedsRace`: `CrashCause`, from `CrashInv`: an object that is
  freed has a process that is about to reset the pointer, so that somebody else who
  finds it is the second stopper.
* `DaemonProofs!GroupsTypeCorrect`: `TypeGroups`. What a same-as statement does is a recursive function over the
  blocks of the other group; that the function exists (`Unrolls`) and that each of its values is that
  of the one before with a block more (`SameSteps`) is proved from least counterexamples (`Climb`).
* `DaemonProofs!RunningConnected`: `Connected`, from `ConnectionsInv`: both ends of a link know it
  (`Mutual`), and what the links into the groups need is open when a daemon runs.
* `DaemonProofs!NeighboursReached`: `EveryNeighbour`, from `TextInv`: at every moment, the groups of a daemon are what the
  statements it has read mean. `Filled` says so of the groups: the blocks and counters of each are the `Amounts`
  (`Fits`), the links into a group are those out of the others (`Paired`), and the neighbours that are counted are those
  behind its links (`Counts`). A block adds to the counter just what it adds behind each link (`GrowIs`,
  `CountsGrow`), a link what is behind it (`AddLinkFills`), a same-as statement is a block after the other
  (`AddSameFills`). That two blocks on one host stay two (`Begun`) makes the conditions hold of every earlier
  moment. A daemon whose groups are filled routes right (`RoutedBy`): a number falls on just one of the
  links (`FallsOnce`, `Falls`), `get_out_node_id` leaves out just the node itself (`OutNumbers`), `send` finds each
  node of each host by one number (`SendInto`, `SendApart`, `SendOnto`), and so the numbers and the
  neighbours are in bijection (`RouteBijects`).
* `GossipProofs!TypeCorrect` and `EachRowOnce`: `TypeOK` and `Fed`, from `IInv`: training
  sets are parts of their worker (`Owned`, `QueueInv`); a part that is marked as
  sent is on its way, in use, or replaced (`AckInv`); a data node that is done has marked
  everyone (`DoneInv`). `Fed` then follows from `PartsDisjoint` and `PartsCover`,
  the arithmetic of `Matrix::part`.
* `GossipProofs!MassStays` and `WeightsAddUp`: `MassConserved` and `Balanced`, from `WInv`: a worker
  without data holds no weight and the weights of its clusters add up to `w0` (`Weighed`), so do those of a codebook on
  its way (`QueuesWeighed`), and what all workers and queues hold beyond what was brought in is 0
  (`Surplus`). A handler changes it at one worker; a message that is sent takes from the sender what it
  gives to a queue or to a worker of the same thread (`Spread`).
* `AveragingProofs!TypeCorrect`, `MemoryIsSafe` and `PartsStayIntact`: `TypeOK`, `MemorySafe` and
  `PartsIntact`, from `IInv`. `Memory` maps every place to its matrix, with one more place for what a
  handler has in hand; `Sound` says that each is empty, owns a whole buffer that nobody else
  owns, or shares a part that its data node has marked as sent. Whatever a handler does is a
  few of five moves, each of which keeps `Sound` and loses no buffer: matrices change places (`Moved`), a
  place takes a new buffer (`Allocated`), frees its own (`Freed`), shares a sent part (`Lent`), more
  parts are sent (`MoreSent`); a training set that replaces what a worker owned loses one (`IntoX`). Rows that a worker
  writes through a shared part are `Sent`, and parts have no row in common (`PartsApart`).
* `AveragingProofs!MeansKeepWeight`: `AvgMass`, from its own `WInv`: sums and messages are as high as
  some part of a data node (`SumsSized`, `QueuesFair`), so that where all parts have one size no addition throws
  (`Got`); half of a weight goes and what arrives of it is all or nothing (`RiseBy`).
* `GrowthProofs!NoLockLeft`: `LocksFree`, from `Locking`: as long as nothing has spoilt it (`Unspoilt`, which once false
  remains so), the only mutex held is that of the thread that is being given nodes, and that is the one the index
  leads to (`HeldOnly`), and what is still planned has its class.
* `GrowthProofs!NodesFound`: `NodeFound`, from `Numbers`: the nodes of a group none of whose `init` threw are numbered
  without a gap, first those in its blocks, then those of the block in the making (`Rising`); where all blocks are here,
  the group counts the nodes in them but for a block that is entered and not yet counted (`Counted`).
* `GrowthProofs!LoadsStayEven`: `EvenLoads`, from `EvenInv`. While nodes are made the array stays as it is
  (`ArrayFixed`, by `Steady`). While the loads are read, the least one so far is close to what its thread has, but for the nodes
  that left the threads read so far (`Lightest`, `Seen`). Afterwards `WillLevel` says that what two threads have and will still
  get (`WillHave`: the job in hand, `Owed`, and the turn to come, `Later`) differs by no more than at the end. Each thread has
  one turn of the same size (`EachOnce`), so only the rest, smaller than the number of threads and for the lightest,
  can set two apart (`SpreadLevel`). A node that is made is a new one, on one thread (`OneMore`, `OnOneThread`), and
  nothing else changes the sets of nodes (`NodesOfKept`), because a block enters the lists before it is forgotten (`Entered`).
  A thread that ends between blocks leaves those that remain as they are (`FewerLevel`).
* `NetworkProofs!TypeCorrect`: `TypeOK`, from `Links` (`LinksHold`). Where a connection is made to enter, the client has its
  end among its masters, and either `subscribe` is still to be sent, or it is under way, once, or the server has its
  end among its slaves; likewise where it is made to invite (`Handshake`, counted in `Phases`). No
  connection is both (`OneKind`), ends that are not there are idle (`Latent`), an array has ends of its own daemon,
  each once (`Ours`), so that none is longer than `MaxConn`. All actions are seen as one `Effect`: a thread goes from
  one task to the next, at most one command is taken, and some are put into at most one end.
* `NetworkProofs!AgreedHolds`: `Agreed`, from `Links`, and for `root_host` from `Promise` (`PromisesHold`): a daemon with
  masters and without a root is still entering, or a `notify_subscription` with its address or a `root_welcome` is under
  way; after an invitation a welcome always comes in the same queue (`AllBehind`). Each handler either hands the news
  on or is the root's, which reaches the daemon by the address it was given: there `NamesTravel` is needed.
* `NetworkProofs!ReadOnceHolds`: `ReadOnce`, from `Once` (`PlacesHold`). It speaks of `Woods`, a forest stated without
  counting: at most one master, one connection to a slave, and in every set of daemons one without a parent in it
  (`ForestIsWoods`). What is a forest has always been one (`WoodsBefore`), because the arrays only grow: what the
  handlers of `root_welcome` and `add_to_network` remove from `slaves` is never there. In it a model that goes up is
  in one place (`OneUp`); one that comes down is in one place of each daemon (`OneDown`), and all daemons that have it
  but one have it from their parent, which has passed it on to them (`Tree`). A second copy would need a second parent
  or a cycle.
* `NetworkProofs!SameOrderHolds`: `SameOrder`, from `Origin` and `Ordered` (`OrderHolds`). Into a set `S` of daemons that holds all
  that is below its members, a model that was asked for outside comes only from masters, never from a user or a slave
  (`Origin`). `Ordered` compares the two ends of a connection in such a set at every step: what the slave has read, works on or has not yet
  taken (`Got`) comes in the order in which the master read it or sends it (`GotAfter` of the one, `SentAfter` of the
  other), loops that its threads have half done included. When all is quiet what is got or sent is read.

The theorems about `Growth` rest on `Shape`, the types and phases of a block and of the array (`Array`), which covers every
order of indexing and of threads that end (`ArrayGrows`, `ArrayShrinks`, `ShapeOthers`), and hold of `Infos` too, which
only watches (`OnlyMade`).

* `GrowthProofs!InfosAreTrue`: `InfosAgree`. What `Root` knows of blocks it has from the text (`Declared`), what `Me` sends it has from
  its lists. `OneHere` relates the two, with one block for each host in the text: there is at most one block here, in the lists,
  in the making or left to make (`OwnList`, `OwnBlock`, `OwnPlans`), and it has or will have no more nodes than the text says
  (`Fit`): those it has, those of its job (`Due`), and those of the turns to come, which do not become more when a thread ends
  (`Turns`, `FillFewer`). Since a block is not changed once others see it, an entry that was dumped, sent, however many of them
  are on the way, or stored is still that of the block (`InfosInv`). `Reads` (a group that is here was declared by a
  statement that `Me` has begun) gives what is said of unknown names.
* `GrowthProofs!InfosTypeCorrect`: `TypeOK`, with any number of blocks on a host. `InThreads` follows the thread of a node
  through the groups that copy it (`NodesMade`), `Array` the memory of the array through new threads and ended ones, `InArray` the
  index the reading thread goes by: it was below the size once, and the memory never shrinks.

The sums of these proofs (`SumFunction`) are defined by a fold, that is by recursion over a finite set, and the
induction theorems of the library are out of reach. `Sums` proves what is needed of them without
induction: a table of partial sums over all subsets exists because a least cardinality at which it did not
would be contradictory (`TableExists`), and two tables agree because there is no least subset on which they
differ (`TablesMatch`). From that follow the sums of a function with one value changed (`SumUpdate`), of two functions
(`SumPlus`), of functions that differ by a renaming of their domain (`SumMatch`), and of a queue with a message more or
less (`SumAppend`, `SumTail`). In the same way `GrowthProofs` gets from partial results what appending a block does to
`FlattenSeq` (`FlatAppend`).

Only model-checked: all liveness (`Delivered`, `Termination`, `Stops`, `EveryoneFed`,
`AllFinish`, `Spread`, `NeverHangs`: out of the prover's reach). The proofs about `Sums` and about the recursive
functions of `NodeGroups` compute no sum or function for all inputs: they say how its values are related.

## 6. What is not modelled

* The values of sums, centroids and errors in `Gossip` and `Averaging`: whether a worker has
  made progress is a free choice. Widths of matrices: all are equal.
* The text of models: statements are records. Properties of groups (`group.key = value`) are
  values the nodes read. A same-as group that refers to itself makes the code loop for ever
  and is excluded by assumptions of `Growth` and `NodeGroups`.
* Two readings at once: a model is read by one thread in `Growth`, in one step in `Network`; what
  two readers of one topology do to its arrays is undefined and listed as a hazard.
* In `Network` connections are not lost, a daemon that is entered is there, and nothing
  follows a crash; the end of connections is the subject of `Connection`. The two
  commands of an invitation are sent in one step.
* In `Connection` nothing follows a thread that uses a deleted `Host` (state `lost`). Receive timeouts: no code
  sets one.
* Infos at a daemon that is not the root (`Commands.cpp:205`): it reads its root's socket while the
  connection thread of that socket does the same, so that each may take part of the other's
  message, and nothing can be claimed; the counters and rates in an information, and the statistics
  `Node` keeps for them.
* `leave` is an empty function; `shell` runs a command of the user's; `dump` and `localdump` print.
* The dynamic loading of node classes beyond which of them there are; the example node;
  `on_request` of a node class; numeric kernels, helpers, test programs and vendored code: no
  control state another part depends on.

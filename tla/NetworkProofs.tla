--------------------------- MODULE NetworkProofs ---------------------------
(***************************************************************************)
(* Proofs about Network, for any number of daemons, requests and           *)
(* connections.                                                            *)
(***************************************************************************)
EXTENDS Network, Sums, SequenceTheorems, FiniteSetTheorems, TLAPS

-----------------------------------------------------------------------------
(* Sequences as queues and as arrays without duplicates.                   *)

(* x is nowhere twice in s. *)
Single(s, x) == \A i, j \in 1 .. Len(s) : s[i] = x /\ s[j] = x => i = j

LEMMA SetOf ==
    ASSUME NEW S, NEW s \in Seq(S)
    PROVE  /\ ToSet(s) = {s[i] : i \in 1 .. Len(s)}
           /\ ToSet(s) \subseteq S
           /\ s = <<>> <=> ToSet(s) = {}
           /\ Len(s) \in Nat
<1>1. DOMAIN s = 1 .. Len(s) /\ Len(s) \in Nat /\ s \in [1 .. Len(s) -> S]
  BY LenProperties
<1>2. ToSet(s) = {s[i] : i \in 1 .. Len(s)} /\ ToSet(s) \subseteq S
  BY <1>1 DEF ToSet
<1>3. ASSUME s # <<>> PROVE ToSet(s) # {}
  <2>1. Len(s) \in Nat \ {0}
    BY <1>3, EmptySeq
  <2>2. s[1] \in ToSet(s)
    BY <1>2, <2>1
  <2> QED
    BY <2>2
<1>4. ASSUME s = <<>> PROVE ToSet(s) = {}
  <2>1. Len(s) = 0
    BY <1>4
  <2> QED
    BY <1>2, <2>1
<1> QED
  BY <1>1, <1>2, <1>3, <1>4

LEMMA SetAppend ==
    ASSUME NEW S, NEW s \in Seq(S), NEW x \in S
    PROVE  /\ Append(s, x) \in Seq(S)
           /\ ToSet(Append(s, x)) = ToSet(s) \cup {x}
           /\ Len(Append(s, x)) = Len(s) + 1 /\ Len(s) \in Nat
           /\ \A i \in 1 .. Len(s) : Append(s, x)[i] = s[i]
           /\ Append(s, x)[Len(s) + 1] = x
<1>1. /\ Append(s, x) \in Seq(S) /\ Len(Append(s, x)) = Len(s) + 1
      /\ \A i \in 1 .. Len(s) : Append(s, x)[i] = s[i]
      /\ Append(s, x)[Len(s) + 1] = x
  BY AppendProperties
<1>2. Len(s) \in Nat /\ ToSet(s) = {s[i] : i \in 1 .. Len(s)}
  BY SetOf
<1>0. \A t \in Seq(S) : ToSet(t) = {t[i] : i \in 1 .. Len(t)}
  BY SetOf
<1>3. ToSet(Append(s, x)) = {Append(s, x)[i] : i \in 1 .. Len(s) + 1}
  BY <1>0, <1>1
<1>4. ToSet(Append(s, x)) = ToSet(s) \cup {x}
  BY <1>1, <1>2, <1>3
<1> QED
  BY <1>1, <1>2, <1>4

LEMMA SetTail ==
    ASSUME NEW S, NEW s \in Seq(S), s # <<>>
    PROVE  /\ Tail(s) \in Seq(S)
           /\ Head(s) \in S /\ Head(s) = s[1] /\ Head(s) \in ToSet(s)
           /\ ToSet(s) = ToSet(Tail(s)) \cup {Head(s)}
           /\ Len(Tail(s)) = Len(s) - 1 /\ Len(s) \in Nat \ {0}
           /\ \A i \in 1 .. Len(Tail(s)) : Tail(s)[i] = s[i + 1]
<1>1. /\ Tail(s) \in Seq(S) /\ Head(s) \in S /\ Len(Tail(s)) = Len(s) - 1
      /\ \A i \in 1 .. Len(Tail(s)) : Tail(s)[i] = s[i + 1]
  BY HeadTailProperties
<1>2. Len(s) \in Nat \ {0} /\ Head(s) = s[1] /\ ToSet(s) = {s[i] : i \in 1 .. Len(s)}
  BY EmptySeq, SetOf
<1>0. \A t \in Seq(S) : ToSet(t) = {t[i] : i \in 1 .. Len(t)}
  BY SetOf
<1>3. ToSet(Tail(s)) = {Tail(s)[i] : i \in 1 .. Len(s) - 1}
  BY <1>0, <1>1
<1>4. ToSet(s) \subseteq ToSet(Tail(s)) \cup {Head(s)}
  <2> SUFFICES ASSUME NEW i \in 1 .. Len(s), i # 1 PROVE s[i] \in ToSet(Tail(s))
    BY <1>2
  <2>1. i - 1 \in 1 .. Len(s) - 1 /\ Tail(s)[i - 1] = s[i - 1 + 1] /\ i - 1 + 1 = i
    BY <1>1, <1>2
  <2> QED
    BY <1>3, <2>1
<1>5. ToSet(Tail(s)) \subseteq ToSet(s)
  <2> SUFFICES ASSUME NEW i \in 1 .. Len(s) - 1 PROVE Tail(s)[i] \in ToSet(s)
    BY <1>3
  <2>1. i + 1 \in 1 .. Len(s) /\ Tail(s)[i] = s[i + 1]
    BY <1>1, <1>2
  <2> QED
    BY <1>2, <2>1
<1>6. Head(s) \in ToSet(s)
  BY <1>2
<1> QED
  BY <1>1, <1>2, <1>4, <1>5, <1>6

LEMMA SingleAppend ==
    ASSUME NEW S, NEW s \in Seq(S), NEW x \in S, NEW y, Single(s, y), x = y => y \notin ToSet(s)
    PROVE  Single(Append(s, x), y)
<1> SUFFICES ASSUME NEW i \in 1 .. Len(s) + 1, NEW j \in 1 .. Len(s) + 1,
                    Append(s, x)[i] = y, Append(s, x)[j] = y
             PROVE  i = j
  BY SetAppend DEF Single
<1>1. Len(s) \in Nat
  BY SetOf
<1>2. \A k \in 1 .. Len(s) : s[k] \in ToSet(s)
  BY SetOf
<1>3. CASE i \in 1 .. Len(s) /\ j \in 1 .. Len(s)
  BY <1>3, SetAppend DEF Single
<1>4. CASE i = Len(s) + 1 /\ j \in 1 .. Len(s)
  BY <1>4, <1>2, SetAppend
<1>5. CASE j = Len(s) + 1 /\ i \in 1 .. Len(s)
  BY <1>5, <1>2, SetAppend
<1>6. CASE i = Len(s) + 1 /\ j = Len(s) + 1
  BY <1>6
<1> QED
  BY <1>1, <1>3, <1>4, <1>5, <1>6

LEMMA SingleTail ==
    ASSUME NEW S, NEW s \in Seq(S), s # <<>>, NEW y, Single(s, y)
    PROVE  /\ Single(Tail(s), y)
           /\ Head(s) = y => y \notin ToSet(Tail(s))
<1> DEFINE t == Tail(s)
<1>1. /\ t \in Seq(S) /\ Len(t) = Len(s) - 1 /\ Len(s) \in Nat \ {0} /\ Head(s) = s[1]
      /\ \A i \in 1 .. Len(t) : t[i] = s[i + 1]
  BY SetTail
<1>2. ToSet(t) = {t[i] : i \in 1 .. Len(t)}
  BY <1>1, SetOf
<1> HIDE DEF t
<1>3. ASSUME NEW i \in 1 .. Len(t), NEW j \in 1 .. Len(t), t[i] = y, t[j] = y PROVE i = j
  <2>1. s[i + 1] = y /\ s[j + 1] = y /\ i + 1 \in 1 .. Len(s) /\ j + 1 \in 1 .. Len(s)
    BY <1>1, <1>3
  <2>2. i + 1 = j + 1
    BY <2>1 DEF Single
  <2> QED
    BY <2>2
<1>4. ASSUME Head(s) = y, NEW i \in 1 .. Len(t), t[i] = y PROVE FALSE
  <2>1. s[i + 1] = y /\ s[1] = y /\ i + 1 \in 1 .. Len(s) /\ 1 \in 1 .. Len(s)
    BY <1>1, <1>4
  <2>2. i + 1 = 1
    BY <2>1 DEF Single
  <2> QED
    BY <2>2
<1>5. Single(t, y)
  BY <1>3 DEF Single
<1>6. Head(s) = y => y \notin ToSet(t)
  BY <1>2, <1>4
<1> QED
  BY <1>5, <1>6 DEF t

LEMMA RemoveAbsent ==
    ASSUME NEW S, NEW s \in Seq(S), NEW e, e \notin ToSet(s)
    PROVE  Without(s, e) = s
BY SetOf DEF Without, RemoveFirst

-----------------------------------------------------------------------------
(* Ends, threads and addresses.                                            *)
Client(c) == [conn |-> c, side |-> "client"]
Server(c) == [conn |-> c, side |-> "server"]

LEMMA PeerEnds ==
    ASSUME NEW e \in Ends
    PROVE  /\ Peer(e) \in Ends /\ Peer(Peer(e)) = e /\ Peer(e) # e
           /\ Peer(e).conn = e.conn /\ e.conn \in 1 .. MaxConn
           /\ e.side \in {"client", "server"} /\ Peer(e).side \in {"client", "server"}
           /\ e.side = "client" <=> Peer(e).side = "server"
           /\ e.side = "server" <=> Peer(e).side = "client"
<1>1. e.conn \in 1 .. MaxConn /\ e.side \in {"client", "server"}
  BY DEF Ends, Sides
<1>2. e = [conn |-> e.conn, side |-> e.side]
  BY DEF Ends
<1>3. Peer(e) = [conn |-> e.conn, side |-> IF e.side = "client" THEN "server" ELSE "client"]
  BY <1>2 DEF Peer, Ends
<1>4. PICK p : p = Peer(e)
  OBVIOUS
<1>5. p.conn = e.conn /\ p.side = (IF e.side = "client" THEN "server" ELSE "client") /\ p \in Ends
  BY <1>1, <1>3, <1>4 DEF Ends, Sides
<1>6. Peer(p) = [conn |-> p.conn, side |-> IF p.side = "client" THEN "server" ELSE "client"]
  BY <1>5 DEF Peer, Ends
<1>7. Peer(p) = e
  BY <1>1, <1>2, <1>5, <1>6
<1>8. p # e
  BY <1>1, <1>5
<1> QED
  BY <1>1, <1>4, <1>5, <1>7, <1>8

LEMMA PeerInjective ==
    ASSUME NEW e \in Ends, NEW f \in Ends, Peer(e) = Peer(f)
    PROVE  e = f
BY PeerEnds

(* Two ends of one connection are the same or each other's peer. *)
LEMMA SameConn ==
    ASSUME NEW e \in Ends, NEW f \in Ends, e.conn = f.conn
    PROVE  f = e \/ f = Peer(e)
<1>1. e = [conn |-> e.conn, side |-> e.side] /\ f = [conn |-> f.conn, side |-> f.side]
  BY DEF Ends
<1>2. Peer(e) = [conn |-> e.conn, side |-> IF e.side = "client" THEN "server" ELSE "client"]
  BY <1>1 DEF Peer, Ends
<1>3. e.side \in {"client", "server"} /\ f.side \in {"client", "server"}
  BY DEF Ends, Sides
<1> QED
  BY <1>1, <1>2, <1>3

LEMMA EndsOrRequests ==
    /\ Requests \cap Ends = {}
    /\ \A r \in Requests : r.at \in Daemons
    /\ Enters \cap Models = {}
<1>1. \A r \in Requests : DOMAIN r = {"at", "addr", "boot"} \/ DOMAIN r = {"at", "hosts"}
  BY ConstantsAssumption DEF Requests
<1>2. \A e \in Ends : DOMAIN e = {"conn", "side"}
  BY DEF Ends
<1>3. \A r \in Enters : DOMAIN r = {"at", "addr", "boot"}
  BY ConstantsAssumption
<1>4. \A r \in Models : DOMAIN r = {"at", "hosts"}
  BY ConstantsAssumption
<1>5. \A r \in Requests : r.at \in Daemons
  BY ConstantsAssumption DEF Requests
<1>6. Requests \cap Ends = {}
  <2> SUFFICES ASSUME NEW r \in Requests, r \in Ends PROVE FALSE
    OBVIOUS
  <2>1. "at" \in DOMAIN r /\ "at" \notin DOMAIN r
    BY <1>1, <1>2
  <2> QED
    BY <2>1
<1>7. Enters \cap Models = {}
  <2> SUFFICES ASSUME NEW r \in Enters, r \in Models PROVE FALSE
    OBVIOUS
  <2>1. "addr" \in DOMAIN r /\ "addr" \notin DOMAIN r
    BY <1>3, <1>4
  <2> QED
    BY <2>1
<1> QED
  BY <1>5, <1>6, <1>7

LEMMA OwnAddress ==
    ASSUME NEW d \in Daemons
    PROVE  SERVER_IP(d) \in ToSet(Interfaces[d])
<1>1. PICK s : s = Interfaces[d]
  OBVIOUS
<1>2. s \in Seq(STRING) /\ s # <<>>
  BY <1>1, AddressesAssumption
<1>3. Len(s) \in Nat \ {0} /\ DOMAIN s = 1 .. Len(s) /\ ToSet(s) = {s[i] : i \in 1 .. Len(s)}
  BY <1>2, EmptySeq, LenProperties, SetOf
<1> DEFINE net == {i \in DOMAIN s : s[i] # Loopback}
<1>4. CASE net = {}
  <2>1. SERVER_IP(d) = s[Len(s)]
    BY <1>1, <1>4 DEF SERVER_IP, get_my_first_ip, Last
  <2> QED
    BY <1>1, <1>3, <2>1
<1>5. CASE net # {}
  <2>1. net \subseteq Nat
    BY <1>3
  <2>2. PICK n \in net : \A k \in net : n <= k
    <3> HIDE DEF net
    <3> QED
      BY <1>5, <2>1, LeastNumber
  <2>3. Min(net) \in net
    <3> HIDE DEF net
    <3> QED
      BY <2>2 DEF Min
  <2>4. SERVER_IP(d) = s[Min(net)]
    BY <1>1, <1>5 DEF SERVER_IP, get_my_first_ip
  <2> QED
    BY <1>1, <1>3, <2>3, <2>4
<1> QED
  BY <1>4, <1>5

(* The other side sees an IP of the machine, or the loopback. *)
LEMMA SeenAddress ==
    ASSUME NEW d \in Daemons, NEW a
    PROVE  PeerIP(d, a) \in ToSet(Interfaces[d]) \cup {Loopback} /\ PeerIP(d, a) \in IPs
BY OwnAddress DEF PeerIP, IPs

LEMMA ListeningDaemons ==
    ASSUME NEW d, NEW a
    PROVE  Listening(d, a) \subseteq Daemons
BY DEF Listening

(* That IP and the port lead to the daemon, from wherever it means it.     *)
LEMMA LeadsBack ==
    ASSUME NEW d \in Daemons, NEW ip \in ToSet(Interfaces[d]) \cup {Loopback}, NEW x \in Daemons,
           ip = Loopback => \A y \in Daemons : Interfaces[y] = Interfaces[d]
    PROVE  Listening(x, [name |-> ip, port |-> Port[d]]) = {d}
<1> DEFINE a == [name |-> ip, port |-> Port[d]]
<1>1. ip \notin DOMAIN Names
  BY AddressesAssumption
<1>2. Port[d] \in Nat \ {NoPort}
  BY AddressesAssumption
<1>3. Url(a) = [ip |-> ip, port |-> Port[d]]
  BY <1>1, <1>2 DEF Url
<1>4. CASE ip = Loopback
  <2>1. Listening(x, a) = {y \in Daemons : Port[y] = Port[d] /\ Interfaces[y] = Interfaces[x]}
    BY <1>3, <1>4 DEF Listening
  <2>2. \A y \in Daemons : Port[y] = Port[d] /\ Interfaces[y] = Interfaces[d] => y = d
    BY AddressesAssumption
  <2> QED
    BY <1>4, <2>1, <2>2
<1>5. CASE ip # Loopback
  <2>1. Listening(x, a) = {y \in Daemons : Port[y] = Port[d] /\ ip \in ToSet(Interfaces[y])}
    BY <1>3, <1>5 DEF Listening
  <2>2. \A y \in Daemons : Port[y] = Port[d] /\ ip \in ToSet(Interfaces[y]) => y = d
    BY <1>5, AddressesAssumption
  <2> QED
    BY <1>5, <2>1, <2>2
<1> QED
  BY <1>4, <1>5

-----------------------------------------------------------------------------
(* What the steps do to connections, inboxes and tasks.                    *)
ConnOK == conn \in Seq([client : Daemons, server : Daemons, from : IPs]) /\ Len(conn) <= MaxConn

LEMMA MadeEnds ==
    ASSUME ConnOK, NEW e \in Made
    PROVE  /\ e \in Ends /\ Peer(e) \in Made /\ Daemon(e) \in Daemons
           /\ e.conn \in 1 .. Len(conn) /\ conn[e.conn].from \in IPs
<1>1. e \in Ends /\ e.conn <= Len(conn) /\ e.conn \in 1 .. MaxConn /\ Len(conn) \in Nat
  BY PeerEnds, SetOf DEF Made, ConnOK
<1>2. e.conn \in 1 .. Len(conn)
  BY <1>1, ConstantsAssumption
<1>3. conn[e.conn] \in [client : Daemons, server : Daemons, from : IPs]
  BY <1>2, ElementOfSeq DEF ConnOK
<1>4. Daemon(e) \in Daemons
  BY <1>1, <1>3, PeerEnds DEF Daemon
<1>5. Peer(e) \in Made
  BY <1>1, PeerEnds DEF Made
<1> QED
  BY <1>1, <1>2, <1>3, <1>4, <1>5

(* Connect gives a new connection, from d to the one at the address. *)
Connects(d, a, n) ==
    /\ n \in Ends /\ n \notin Made /\ Peer(n) \notin Made /\ n.side = "client"
    /\ Made' = Made \cup {n, Peer(n)}
    /\ Daemon(n)' = d /\ Daemon(Peer(n))' \in Listening(d, a)
    /\ conn'[n.conn].client = d /\ conn'[n.conn].from = PeerIP(d, a)
    /\ \A e \in Made : Daemon(e)' = Daemon(e) /\ conn'[e.conn] = conn[e.conn]
    /\ Len(conn') = Len(conn) + 1 /\ n.conn = Len(conn')

LEMMA ConnectStep ==
    ASSUME ConnOK, NEW d \in Daemons, NEW a, Connect(d, a)
    PROVE  ConnOK' /\ \E n \in Ends : n = NewEnd /\ Connects(d, a, n)
<1>1. PICK x \in Listening(d, a) :
          conn' = Append(conn, [client |-> d, server |-> x, from |-> PeerIP(d, a)])
  BY DEF Connect
<1>2. PICK c : c = [client |-> d, server |-> x, from |-> PeerIP(d, a)]
  OBVIOUS
<1>3. c \in [client : Daemons, server : Daemons, from : IPs] /\ x \in Daemons
  BY <1>1, <1>2, ListeningDaemons, SeenAddress
<1>4. Len(conn) \in Nat /\ Len(conn) < MaxConn
  BY SetOf DEF ConnOK, Connect
<1>5. /\ conn' \in Seq([client : Daemons, server : Daemons, from : IPs])
      /\ Len(conn') = Len(conn) + 1 /\ conn'[Len(conn) + 1] = c
      /\ \A i \in 1 .. Len(conn) : conn'[i] = conn[i]
  BY <1>1, <1>2, <1>3, AppendProperties DEF ConnOK
<1>6. PICK n : n = NewEnd
  OBVIOUS
<1>7. n \in Ends /\ n.conn = Len(conn) + 1 /\ n.side = "client"
  BY <1>4, <1>6, ConstantsAssumption DEF NewEnd, Ends, Sides
<1>8. /\ Peer(n) \in Ends /\ Peer(n).conn = n.conn /\ Peer(n).side = "server"
  BY <1>7, PeerEnds
<1>9. n \notin Made /\ Peer(n) \notin Made
  BY <1>4, <1>7, <1>8 DEF Made
<1>10. Made' = Made \cup {n, Peer(n)}
  <2>1. \A e \in Ends : e.conn = n.conn <=> e \in {n, Peer(n)}
    BY <1>7, <1>8, SameConn
  <2>2. \A e \in Ends : e.conn \in Nat /\ Len(conn') = Len(conn) + 1
    BY <1>5, PeerEnds
  <2>3. \A e \in Ends : e.conn <= Len(conn') <=> e.conn <= Len(conn) \/ e.conn = n.conn
    BY <2>2, <1>4, <1>7
  <2> QED
    BY <1>7, <1>8, <2>1, <2>3 DEF Made
<1>11. Daemon(n)' = d /\ Daemon(Peer(n))' = x
  BY <1>2, <1>5, <1>7, <1>8 DEF Daemon
<1>12. conn'[n.conn].client = d /\ conn'[n.conn].from = PeerIP(d, a)
  BY <1>2, <1>5, <1>7
<1>13. \A e \in Made : Daemon(e)' = Daemon(e) /\ conn'[e.conn] = conn[e.conn]
  <2> SUFFICES ASSUME NEW e \in Made PROVE conn'[e.conn] = conn[e.conn]
    BY DEF Daemon
  <2> QED
    BY <1>5, MadeEnds
<1>14. ConnOK'
  BY <1>4, <1>5, ConstantsAssumption DEF ConnOK
<1>15. Connects(d, a, n)
  BY <1>1, <1>4, <1>5, <1>7, <1>9, <1>10, <1>11, <1>12, <1>13 DEF Connects
<1> QED
  BY <1>6, <1>7, <1>14, <1>15

LEMMA SameConnections ==
    ASSUME UNCHANGED conn
    PROVE  /\ Made' = Made
           /\ \A e \in Ends : Daemon(e)' = Daemon(e)
           /\ ConnOK => ConnOK'
BY DEF Made, Daemon, ConnOK

LEMMA PutStep ==
    ASSUME NEW box \in [Ends -> Seq(Commands)], NEW e \in Ends, NEW m \in Commands
    PROVE  /\ Put(box, e, m) \in [Ends -> Seq(Commands)]
           /\ Put(box, e, m)[Peer(e)] = Append(box[Peer(e)], m)
           /\ \A f \in Ends : f # Peer(e) => Put(box, e, m)[f] = box[f]
           /\ ToSet(Put(box, e, m)[Peer(e)]) = ToSet(box[Peer(e)]) \cup {m}
<1>1. Peer(e) \in Ends /\ box[Peer(e)] \in Seq(Commands)
  BY PeerEnds
<1>2. Append(box[Peer(e)], m) \in Seq(Commands)
  BY <1>1, SetAppend
<1>3. ToSet(Append(box[Peer(e)], m)) = ToSet(box[Peer(e)]) \cup {m}
  BY <1>1, SetAppend
<1>4. /\ Put(box, e, m)[Peer(e)] = Append(box[Peer(e)], m)
      /\ \A f \in Ends : f # Peer(e) => Put(box, e, m)[f] = box[f]
      /\ Put(box, e, m) \in [Ends -> Seq(Commands)]
  BY <1>1, <1>2 DEF Put
<1> QED
  BY <1>3, <1>4

(* Reading a command from an inbox. *)
LEMMA TakeStep ==
    ASSUME inbox \in [Ends -> Seq(Commands)], NEW e \in Ends, inbox[e] # <<>>
    PROVE  /\ Taken(e) \in [Ends -> Seq(Commands)]
           /\ Taken(e)[e] = Tail(inbox[e])
           /\ \A f \in Ends : f # e => Taken(e)[f] = inbox[f]
           /\ ToSet(inbox[e]) = ToSet(Taken(e)[e]) \cup {Head(inbox[e])}
           /\ Head(inbox[e]) \in Commands
<1>1. e \notin Requests
  BY EndsOrRequests
<1>2. Taken(e) = [inbox EXCEPT ![e] = Tail(@)]
  BY <1>1 DEF Taken
<1>3. inbox[e] \in Seq(Commands)
  OBVIOUS
<1>4. /\ Tail(inbox[e]) \in Seq(Commands) /\ Head(inbox[e]) \in Commands
      /\ ToSet(inbox[e]) = ToSet(Tail(inbox[e])) \cup {Head(inbox[e])}
  BY <1>3, SetTail
<1>5. /\ Taken(e)[e] = Tail(inbox[e]) /\ Taken(e) \in [Ends -> Seq(Commands)]
      /\ \A f \in Ends : f # e => Taken(e)[f] = inbox[f]
  BY <1>2, <1>4
<1> QED
  BY <1>4, <1>5

LEMMA DoesStep ==
    ASSUME task \in [Threads -> Tasks], NEW t \in Threads, NEW x \in Tasks, Does(t, x)
    PROVE  /\ task' \in [Threads -> Tasks]
           /\ task'[t] = x
           /\ \A u \in Threads : u # t => task'[u] = task[u]
BY DEF Does

LEMMA ThreadsStay ==
    ASSUME todo \subseteq Requests, made \subseteq Requests
    PROVE  /\ \A r \in todo : Make(r) => Threads' = Threads /\ (todo \subseteq Requests /\ made \subseteq Requests)'
           /\ UNCHANGED <<todo, made>> => Threads' = Threads
BY DEF Threads, Make

LEMMA CommandKinds ==
    /\ {Cmd("subscribe"), Cmd("root_welcome"), Cmd("add_to_network")} \subseteq Commands
    /\ \A a \in Known : [cmd |-> "notify_subscription", who |-> a] \in Commands
    /\ \A m \in Models : [cmd |-> "model", model |-> m] \in Commands /\ [cmd |-> "set_topology", model |-> m] \in Commands
    /\ \A c \in Commands :
          /\ c.cmd \in {"subscribe", "root_welcome", "add_to_network"} => c = Cmd(c.cmd)
          /\ c.cmd = "notify_subscription" => c.who \in Known /\ c = [cmd |-> "notify_subscription", who |-> c.who]
          /\ c.cmd \in {"model", "set_topology"} => c.model \in Models /\ c = [cmd |-> c.cmd, model |-> c.model]
          /\ c.cmd \in {"subscribe", "root_welcome", "add_to_network", "notify_subscription", "model", "set_topology"}
<1>1. {Cmd("subscribe"), Cmd("root_welcome"), Cmd("add_to_network")} \subseteq Commands
  BY DEF Commands, Cmd
<1>2. \A a \in Known : [cmd |-> "notify_subscription", who |-> a] \in Commands
  BY DEF Commands
<1>3. \A m \in Models : [cmd |-> "model", model |-> m] \in Commands /\ [cmd |-> "set_topology", model |-> m] \in Commands
  BY DEF Commands
<1>4. ASSUME NEW c \in [cmd : {"subscribe", "root_welcome", "add_to_network"}]
      PROVE  c = [cmd |-> c.cmd] /\ c.cmd \in {"subscribe", "root_welcome", "add_to_network"}
  OBVIOUS
<1>5. ASSUME NEW c \in [cmd : {"notify_subscription"}, who : Known]
      PROVE  c.who \in Known /\ c = [cmd |-> "notify_subscription", who |-> c.who] /\ c.cmd = "notify_subscription"
  OBVIOUS
<1>6. ASSUME NEW c \in [cmd : {"model", "set_topology"}, model : Models]
      PROVE  c.model \in Models /\ c = [cmd |-> c.cmd, model |-> c.model] /\ c.cmd \in {"model", "set_topology"}
  OBVIOUS
<1> QED
  BY <1>1, <1>2, <1>3, <1>4, <1>5, <1>6 DEF Commands, Cmd

LEMMA TaskKinds ==
    /\ Idle \in Tasks
    /\ \A e \in Ends : [pc |-> "subscribe", end |-> e] \in Tasks /\ [pc |-> "welcome", end |-> e] \in Tasks
    /\ \A m \in Models, I \in SUBSET Known :
          /\ [pc |-> "invite", model |-> m, invited |-> I] \in Tasks
          /\ \A e \in Ends : [pc |-> "join", end |-> e, model |-> m, invited |-> I] \in Tasks
    /\ \A m \in Models : [pc |-> "read", model |-> m] \in Tasks
    /\ \A to \in {"masters", "slaves"}, i \in 1 .. MaxConn + 1, c \in Commands,
          x \in {Idle} \cup [pc : {"read"}, model : Models] :
          [pc |-> "send", to |-> to, i |-> i, msg |-> c, next |-> x] \in Tasks
BY DEF Tasks, Idle

LEMMA TaskParts ==
    ASSUME NEW x \in Tasks
    PROVE  /\ x.pc \in {"idle", "subscribe", "welcome", "invite", "join", "send", "read"}
           /\ x.pc = "idle" <=> x = Idle
           /\ x.pc \in {"subscribe", "welcome"} => x.end \in Ends
           /\ x.pc = "invite" => x.model \in Models /\ x.invited \subseteq Known
           /\ x.pc = "join" => x.end \in Ends /\ x.model \in Models /\ x.invited \subseteq Known
           /\ x.pc = "read" => x.model \in Models /\ x = [pc |-> "read", model |-> x.model]
           /\ x.pc = "send" =>
                 /\ x.to \in {"masters", "slaves"} /\ x.i \in 1 .. MaxConn + 1
                 /\ x.msg \in Commands /\ x.next \in {Idle} \cup [pc : {"read"}, model : Models]
                 /\ x.next \in Tasks
                 /\ x = [pc |-> "send", to |-> x.to, i |-> x.i, msg |-> x.msg, next |-> x.next]
<1>1. CASE x = Idle
  BY <1>1 DEF Idle
<1>2. CASE x \in [pc : {"subscribe", "welcome"}, end : Ends]
  BY <1>2 DEF Idle
<1>3. CASE x \in [pc : {"invite"}, model : Models, invited : SUBSET Known]
  BY <1>3 DEF Idle
<1>4. CASE x \in [pc : {"join"}, end : Ends, model : Models, invited : SUBSET Known]
  BY <1>4 DEF Idle
<1>5. CASE x \in [pc : {"send"}, to : {"masters", "slaves"}, i : 1 .. MaxConn + 1,
                  msg : Commands, next : {Idle} \cup [pc : {"read"}, model : Models]]
  <2>1. x.next \in {Idle} \cup [pc : {"read"}, model : Models]
    BY <1>5
  <2>2. x.next \in Tasks
    BY <2>1 DEF Tasks
  <2>3. x.pc = "send" /\ x # Idle
    BY <1>5 DEF Idle
  <2> QED
    BY <1>5, <2>1, <2>2, <2>3
<1>6. CASE x \in [pc : {"read"}, model : Models]
  BY <1>6 DEF Idle
<1> QED
  BY <1>1, <1>2, <1>3, <1>4, <1>5, <1>6 DEF Tasks

-----------------------------------------------------------------------------
(* How the two sides of a connection come to agree.  A connection is made  *)
(* to enter, to invite, or by the root to make itself known.  In the first *)
(* two cases its client has it among its masters or its slaves from the    *)
(* beginning; the server follows when it has been told, once.              *)
LinkKinds == {"enter", "invite"}
Pc(k) == IF k = "enter" THEN "subscribe" ELSE "join"
Hello(k) == IF k = "enter" THEN Cmd("subscribe") ELSE Cmd("add_to_network")
ClientArray(k) == IF k = "enter" THEN masters ELSE slaves
ServerArray(k) == IF k = "enter" THEN slaves ELSE masters

Waits(k, e) == \E t \in Threads : task[t].pc = Pc(k) /\ task[t].end = e
Told(k, e) == Hello(k) \in ToSet(inbox[Peer(e)])
Follows(k, e) == Peer(e) \in ToSet(ServerArray(k)[Daemon(Peer(e))])
Begun(k, e) == e \in ToSet(ClientArray(k)[Daemon(e)])

MadeClients == {e \in Made : e.side = "client"}

Handshake(k) ==
    /\ \A t, u \in Threads :
          task[t].pc = Pc(k) /\ task[u].pc = Pc(k) /\ task[t].end = task[u].end => t = u
    /\ \A e \in MadeClients : Begun(k, e) <=> Waits(k, e) \/ Told(k, e) \/ Follows(k, e)
    /\ \A e \in MadeClients :
          ~(Waits(k, e) /\ Told(k, e)) /\ ~(Waits(k, e) /\ Follows(k, e)) /\ ~(Told(k, e) /\ Follows(k, e))
    /\ \A e \in Ends : Single(inbox[e], Hello(k))
    /\ \A e \in Ends : Hello(k) \in ToSet(inbox[e]) => e.side = "server"
    /\ \A t \in Threads : task[t].pc = Pc(k) => task[t].end \in MadeClients

(* The arrays hold ends of their daemon, each once.                        *)
Ours ==
    \A d \in Daemons :
        /\ \A e \in ToSet(masters[d]) : e \in Made /\ Daemon(e) = d
        /\ \A e \in ToSet(slaves[d]) : e \in Made /\ Daemon(e) = d
        /\ \A e \in Ends : Single(masters[d], e) /\ Single(slaves[d], e)

(* No connection is of both kinds.                                         *)
OneKind == \A e \in MadeClients : ~(Begun("enter", e) /\ Begun("invite", e))

(* What is not there has nothing to do.                                    *)
Latent ==
    /\ \A e \in Ends : e \notin Made => inbox[e] = <<>> /\ task[e] = Idle
    /\ \A r \in todo : task[r] = Idle
    /\ \A d \in Daemons : root_host[d] # None => root_host[d] \in Made

(* What the threads do next: a server that has got a new slave greets it,  *)
(* news and models go up, models come down and are read.                   *)
Tasked ==
    \A t \in Threads :
        /\ task[t].pc = "welcome" =>
              t \in Made /\ task[t].end = t /\ t.side = "server" /\ t \in ToSet(slaves[Daemon(t)])
        /\ task[t].pc = "send" =>
              \/ /\ task[t].to = "masters" /\ task[t].next = Idle
                 /\ task[t].msg.cmd \in {"notify_subscription", "model"}
                 /\ masters[At(t)] # <<>>
              \/ /\ task[t].to = "slaves" /\ task[t].msg.cmd = "set_topology"
                 /\ task[t].next = [pc |-> "read", model |-> task[t].msg.model]

(* A root speaks to a new slave of its own, or on a connection that it     *)
(* has made.                                                               *)
Welcomed ==
    \A e \in Made : Cmd("root_welcome") \in ToSet(inbox[e]) =>
        IF e.side = "client" THEN Begun("enter", e) ELSE ~Begun("enter", Peer(e))

Links ==
    /\ Ours /\ OneKind /\ Latent /\ Tasked /\ Welcomed
    /\ \A k \in LinkKinds : Handshake(k)

LEMMA TypeParts ==
    ASSUME TypeOK
    PROVE  /\ ConnOK
           /\ \A e \in Ends : inbox[e] \in Seq(Commands)
           /\ \A d \in Daemons :
                 masters[d] \in Seq(Ends) /\ slaves[d] \in Seq(Ends) /\ log[d] \in Seq(Models)
                 /\ data_hosts[d] \subseteq Known /\ root_host[d] \in Ends \cup {None}
           /\ \A t \in Threads : task[t] \in Tasks
           /\ Threads = Ends \cup todo \cup made /\ todo \subseteq Threads /\ Ends \subseteq Threads
           /\ \A t \in Threads : t \in Ends \/ t \in Requests
BY DEF TypeOK, ConnOK, Threads

(* A thread that is not idle, or has commands to read, has a daemon.       *)
LEMMA Working ==
    ASSUME TypeOK, Links
    PROVE  /\ \A t \in Threads : task[t] # Idle => t \in Made \cup made
           /\ \A t \in Made \cup Requests : At(t) \in Daemons
           /\ \A e \in Ends : inbox[e] # <<>> => e \in Made
           /\ \A e \in Made : At(e) = Daemon(e) /\ e \notin Requests
<1>1. \A t \in Threads : task[t] # Idle => t \in Made \cup made
  BY DEF Links, Latent, Threads
<1>2. \A e \in Made : e \in Ends /\ Daemon(e) \in Daemons /\ e \notin Requests
  BY TypeParts, MadeEnds, EndsOrRequests
<1>3. \A r \in Requests : r.at \in Daemons
  BY EndsOrRequests
<1>4. \A t \in Made \cup Requests : At(t) \in Daemons
  BY <1>2, <1>3 DEF At
<1>5. \A e \in Ends : inbox[e] # <<>> => e \in Made
  BY DEF Links, Latent
<1> QED
  BY <1>1, <1>2, <1>4, <1>5 DEF At

(* A connection has at most one end among the masters of a daemon, and     *)
(* among its slaves, so that the arrays are no longer than conn.           *)
LEMMA ShortArrays ==
    ASSUME TypeOK, Links, NEW d \in Daemons
    PROVE  Len(masters[d]) <= MaxConn /\ Len(slaves[d]) <= MaxConn
<1>1. \A k \in LinkKinds, e \in MadeClients :
          Peer(e) \in ToSet(ServerArray(k)[Daemon(Peer(e))]) => e \in ToSet(ClientArray(k)[Daemon(e)])
  BY DEF Links, Handshake, Follows, Begun
<1>2. \A e \in MadeClients :
          /\ Peer(e) \in ToSet(slaves[Daemon(Peer(e))]) => e \in ToSet(masters[Daemon(e)])
          /\ Peer(e) \in ToSet(masters[Daemon(Peer(e))]) => e \in ToSet(slaves[Daemon(e)])
  BY <1>1 DEF LinkKinds, ClientArray, ServerArray
<1>3. \A e \in MadeClients : ~(e \in ToSet(masters[Daemon(e)]) /\ e \in ToSet(slaves[Daemon(e)]))
  BY DEF Links, OneKind, Begun, ClientArray
<1>4. \A e \in MadeClients :
          /\ ~(e \in ToSet(masters[d]) /\ Peer(e) \in ToSet(masters[d]))
          /\ ~(e \in ToSet(slaves[d]) /\ Peer(e) \in ToSet(slaves[d]))
  BY <1>2, <1>3 DEF Links, Ours
<1>5. ASSUME NEW e \in Made PROVE e \in MadeClients \/ (Peer(e) \in MadeClients /\ Peer(Peer(e)) = e)
  BY TypeParts, MadeEnds, PeerEnds DEF MadeClients
<1>6. ASSUME NEW s \in Seq(Ends), \A e \in ToSet(s) : e \in Made,
             \A e \in Ends : Single(s, e), \A e \in MadeClients : ~(e \in ToSet(s) /\ Peer(e) \in ToSet(s))
      PROVE  Len(s) <= MaxConn
  <2> DEFINE f == [i \in 1 .. Len(s) |-> s[i].conn]
  <2>1. \A i \in 1 .. Len(s) : s[i] \in Ends /\ s[i] \in ToSet(s) /\ s[i] \in Made /\ s[i].conn \in 1 .. MaxConn
    BY <1>6, SetOf, PeerEnds
  <2>2. ASSUME NEW i \in 1 .. Len(s), NEW j \in 1 .. Len(s), s[i].conn = s[j].conn PROVE i = j
    <3>1. s[j] = s[i] \/ s[j] = Peer(s[i])
      BY <2>1, <2>2, SameConn
    <3>2. CASE s[j] = s[i]
      BY <3>2, <2>1, <1>6 DEF Single
    <3>3. CASE s[j] = Peer(s[i])
      <4>1. s[i] \in ToSet(s) /\ Peer(s[i]) \in ToSet(s) /\ s[i] \in Made
        BY <2>1, <3>3
      <4> QED
        BY <4>1, <1>5, <1>6
    <3> QED
      BY <3>1, <3>2, <3>3
  <2>3. f \in Injection(1 .. Len(s), 1 .. MaxConn)
    BY <2>1, <2>2 DEF Injection, IsInjective
  <2>4. Len(s) \in Nat /\ MaxConn \in Nat
    BY SetOf, ConstantsAssumption
  <2>7. IsFiniteSet(1 .. MaxConn)
    BY <2>4, FS_Interval
  <2>5. Cardinality(1 .. Len(s)) <= Cardinality(1 .. MaxConn)
    <3> HIDE DEF f
    <3>1. \A A, B : \A g \in Injection(A, B) : IsFiniteSet(B) => Cardinality(A) <= Cardinality(B)
      BY FS_Injection
    <3> QED
      BY <2>3, <2>7, <3>1
  <2>8. \A n \in Nat : Cardinality(1 .. n) = n
    <3> SUFFICES ASSUME NEW n \in Nat PROVE Cardinality(1 .. n) = n
      OBVIOUS
    <3>1. Cardinality(1 .. n) = IF 1 > n THEN 0 ELSE n - 1 + 1
      BY FS_Interval
    <3> QED
      BY <3>1
  <2>6. Cardinality(1 .. Len(s)) = Len(s) /\ Cardinality(1 .. MaxConn) = MaxConn
    BY <2>4, <2>8
  <2> QED
    BY <2>5, <2>6
<1>7. masters[d] \in Seq(Ends) /\ slaves[d] \in Seq(Ends)
  BY TypeParts
<1> QED
  BY <1>4, <1>6, <1>7 DEF Links, Ours

-----------------------------------------------------------------------------
(* Types.                                                                  *)
LEMMA TypeInit == Init => TypeOK
<1> SUFFICES ASSUME Init PROVE TypeOK
  OBVIOUS
<1>1. conn \in Seq([client : Daemons, server : Daemons, from : IPs]) /\ Len(conn) <= MaxConn
  BY EmptySeq, ConstantsAssumption DEF Init
<1>2. inbox \in [Ends -> Seq(Commands)]
  BY EmptySeq DEF Init
<1>3. masters \in [Daemons -> Seq(Ends)] /\ slaves \in [Daemons -> Seq(Ends)]
  BY EmptySeq DEF Init
<1>4. log \in [Daemons -> Seq(Models)] /\ \A d \in Daemons : Len(log[d]) <= MaxLog
  BY EmptySeq, ConstantsAssumption DEF Init
<1>5. task \in [Threads -> Tasks]
  BY TaskKinds DEF Init
<1>6. todo \subseteq Requests /\ made \subseteq Requests
  BY ConstantsAssumption DEF Init
<1> QED
  BY <1>1, <1>2, <1>3, <1>4, <1>5, <1>6 DEF Init, TypeOK

(* The parts of the type invariant that a step changes.                    *)
LEMMA TypeFrom ==
    ASSUME TypeOK, ConnOK', Threads' = Threads,
           inbox' \in [Ends -> Seq(Commands)],
           masters' \in [Daemons -> Seq(Ends)], slaves' \in [Daemons -> Seq(Ends)],
           task' \in [Threads -> Tasks],
           UNCHANGED <<root_host, data_hosts, log, crashed>>,
           todo' \subseteq Requests, made' \subseteq Requests
    PROVE  TypeOK'
BY DEF TypeOK, ConnOK

(* A thread that passes a model on does a task.                            *)
LEMMA SpreadTask ==
    ASSUME NEW d, NEW m \in Models
    PROVE  SpreadModel(d, m) \in Tasks
<1>1. SetTopology(d, m) \in Tasks /\ PassUp(d, m) \in Tasks
  <2>1. 1 \in 1 .. MaxConn + 1
    BY ConstantsAssumption
  <2>2. [cmd |-> "set_topology", model |-> m] \in Commands /\ [cmd |-> "model", model |-> m] \in Commands
    BY CommandKinds
  <2> QED
    BY <2>1, <2>2, TaskKinds DEF SetTopology, PassUp, Broadcast
<1> QED
  BY <1>1 DEF SpreadModel

LEMMA ModelType ==
    ASSUME TypeOK, Links, NEW t \in Threads, NEW m \in Models, Model(t, m)
    PROVE  task' \in [Threads -> Tasks] /\ data_hosts' \in [Daemons -> SUBSET Known]
<1>1. m.hosts \subseteq Known
  BY DEF Known
<1>2. [pc |-> "invite", model |-> m, invited |-> {}] \in Tasks
  BY TaskKinds
<1>3. SpreadModel(At(t), m) \in Tasks
  BY SpreadTask
<1>4. task' \in [Threads -> Tasks]
  BY <1>2, <1>3, DoesStep DEF Model, TypeOK
<1>5. data_hosts' \in [Daemons -> SUBSET Known]
  <2>1. data_hosts \in [Daemons -> SUBSET Known]
    BY DEF TypeOK
  <2>2. data_hosts' = data_hosts \/ data_hosts' = [data_hosts EXCEPT ![At(t)] = @ \cup m.hosts]
    BY DEF Model
  <2> QED
    BY <1>1, <2>1, <2>2
<1> QED
  BY <1>4, <1>5

LEMMA HasCommand ==
    ASSUME TypeOK, Links, NEW e \in Ends, NEW c, Has(e, c)
    PROVE  /\ e \in Made /\ e \in Threads /\ task[e] = Idle /\ inbox[e] # <<>>
           /\ Head(inbox[e]) \in Commands /\ Head(inbox[e]).cmd = c
           /\ inbox[e] \in Seq(Commands)
           /\ Daemon(e) \in Daemons /\ At(e) = Daemon(e)
BY TypeParts, Working, TakeStep, MadeEnds DEF Has, TypeOK

(* Who is spoken to by a root, or invited, is not spoken to by a slave:    *)
(* nothing is ever removed from the slaves.                                *)
LEMMA NoSlave ==
    ASSUME TypeOK, Links, NEW e \in Made,
           \/ Cmd("root_welcome") \in ToSet(inbox[e])
           \/ Cmd("add_to_network") \in ToSet(inbox[e])
    PROVE  e \notin ToSet(slaves[Daemon(e)])
<1>1. e \in Ends /\ Peer(e) \in Made /\ Peer(Peer(e)) = e
  BY TypeParts, MadeEnds, PeerEnds
<1>2. CASE e.side = "client"
  <2>1. Hello("invite") \notin ToSet(inbox[e])
    BY <1>1, <1>2 DEF Links, Handshake, LinkKinds
  <2>2. Begun("enter", e)
    BY <1>2, <2>1 DEF Links, Welcomed, Hello
  <2>3. ~Begun("invite", e)
    BY <1>2, <2>2 DEF Links, OneKind, MadeClients
  <2> QED
    BY <2>3 DEF Begun, ClientArray
<1>3. CASE e.side = "server"
  <2>1. Peer(e) \in MadeClients
    BY <1>1, <1>3, PeerEnds DEF MadeClients
  <2>2. ~Begun("enter", Peer(e))
    <3>1. CASE Cmd("root_welcome") \in ToSet(inbox[e])
      BY <1>3, <3>1 DEF Links, Welcomed
    <3>2. CASE Cmd("add_to_network") \in ToSet(inbox[e])
      <4>1. Told("invite", Peer(e))
        BY <3>2, <1>1 DEF Told, Hello
      <4>2. Begun("invite", Peer(e))
        BY <4>1, <2>1 DEF Links, Handshake, LinkKinds
      <4> QED
        BY <4>2, <2>1 DEF Links, OneKind
    <3> QED
      BY <3>1, <3>2
  <2>3. ~Follows("enter", Peer(e))
    BY <2>1, <2>2 DEF Links, Handshake, LinkKinds
  <2> QED
    BY <2>3, <1>1 DEF Follows, ServerArray
<1> QED
  BY <1>1, <1>2, <1>3, PeerEnds

LEMMA NoSlaveRemoved ==
    ASSUME TypeOK, Links, NEW e \in Ends, NEW c \in {"root_welcome", "add_to_network"}, Has(e, c),
           slaves' = [slaves EXCEPT ![Daemon(e)] = Without(@, e)]
    PROVE  UNCHANGED slaves
<1>1. /\ e \in Made /\ inbox[e] \in Seq(Commands) /\ inbox[e] # <<>> /\ Daemon(e) \in Daemons
      /\ Head(inbox[e]) \in Commands /\ Head(inbox[e]).cmd = c
  BY HasCommand
<1>2. Cmd(c) \in ToSet(inbox[e])
  BY <1>1, CommandKinds, SetTail
<1>3. e \notin ToSet(slaves[Daemon(e)])
  BY <1>1, <1>2, NoSlave
<1>4. Without(slaves[Daemon(e)], e) = slaves[Daemon(e)]
  BY <1>1, <1>3, TypeParts, RemoveAbsent
<1> QED
  BY <1>1, <1>4 DEF TypeOK

LEMMA TypeStep ==
    ASSUME TypeOK, Links, Next
    PROVE  TypeOK'
<1> USE DEF LinkKinds
<1>0. /\ ConnOK /\ inbox \in [Ends -> Seq(Commands)] /\ task \in [Threads -> Tasks]
      /\ masters \in [Daemons -> Seq(Ends)] /\ slaves \in [Daemons -> Seq(Ends)]
      /\ todo \subseteq Requests /\ made \subseteq Requests
      /\ todo \subseteq Threads /\ Ends \subseteq Threads
  BY TypeParts DEF TypeOK
<1>s. UNCHANGED conn => ConnOK'
  BY <1>0, SameConnections
<1>t. UNCHANGED <<todo, made>> => Threads' = Threads
  BY <1>0, ThreadsStay
<1>1. ASSUME NEW r \in todo, Alone(r) PROVE TypeOK'
  <2>1. Make(r) /\ UNCHANGED <<conn, inbox, masters, slaves, root_host, data_hosts, log, task, crashed>>
    BY <1>1 DEF Alone
  <2>2. Threads' = Threads /\ todo' \subseteq Requests /\ made' \subseteq Requests
    BY <2>1, <1>0, ThreadsStay
  <2> QED
    BY <2>1, <2>2, <1>0, <1>s, TypeFrom
<1>2. ASSUME NEW r \in todo, com_enter_network(r) PROVE TypeOK'
  <2>1. /\ r \in Enters /\ Make(r) /\ Connect(r.at, r.addr)
        /\ masters' = [masters EXCEPT ![r.at] = Append(@, NewEnd)]
        /\ Does(r, [pc |-> "subscribe", end |-> NewEnd])
        /\ UNCHANGED <<inbox, slaves, root_host, data_hosts, log, crashed>>
    BY <1>2 DEF com_enter_network
  <2>2. Threads' = Threads /\ todo' \subseteq Requests /\ made' \subseteq Requests
    BY <2>1, <1>0, ThreadsStay
  <2>3. r.at \in Daemons /\ r \in Threads
    BY <2>1, <1>0, EndsOrRequests DEF Requests
  <2>4. ConnOK' /\ NewEnd \in Ends
    BY <2>1, <2>3, <1>0, ConnectStep
  <2>5. masters' \in [Daemons -> Seq(Ends)]
    BY <2>1, <2>3, <2>4, <1>0, SetAppend
  <2>6. task' \in [Threads -> Tasks]
    <3>1. [pc |-> "subscribe", end |-> NewEnd] \in Tasks
      BY <2>4, TaskKinds
    <3> QED
      BY <3>1, <2>1, <2>3, <1>0, DoesStep
  <2> QED
    BY <2>1, <2>2, <2>4, <2>5, <2>6, <1>0, TypeFrom
<1>3. ASSUME NEW t \in Threads, subscribe(t) PROVE TypeOK'
  <2>1. /\ Doing(t, "subscribe")
        /\ inbox' = Put(inbox, task[t].end, Cmd("subscribe"))
        /\ Does(t, Idle)
        /\ UNCHANGED <<conn, masters, slaves, root_host, data_hosts, log, todo, made, crashed>>
    BY <1>3 DEF subscribe
  <2>2. task[t].end \in Ends
    BY <2>1, <1>0, TaskParts DEF Doing
  <2>3. inbox' \in [Ends -> Seq(Commands)]
    BY <2>1, <2>2, <1>0, PutStep, CommandKinds
  <2>4. task' \in [Threads -> Tasks]
    BY <2>1, <1>0, TaskKinds, DoesStep
  <2> QED
    BY <2>1, <2>3, <2>4, <1>0, <1>s, <1>t, TypeFrom
<1>4. ASSUME NEW e \in Ends, agml_command_subscribe(e) PROVE TypeOK'
  <2>1. /\ Has(e, "subscribe")
        /\ slaves' = [slaves EXCEPT ![Daemon(e)] = Append(@, e)]
        /\ inbox' = Taken(e)
        /\ Does(e, [pc |-> "welcome", end |-> e])
        /\ UNCHANGED <<conn, masters, root_host, data_hosts, log, todo, made, crashed>>
    BY <1>4 DEF agml_command_subscribe
  <2>2. inbox' \in [Ends -> Seq(Commands)]
    BY <2>1, <1>0, HasCommand, TakeStep
  <2>3. slaves' \in [Daemons -> Seq(Ends)]
    BY <2>1, <1>0, HasCommand, SetAppend
  <2>4. task' \in [Threads -> Tasks]
    BY <2>1, <1>0, TaskKinds, DoesStep
  <2> QED
    BY <2>1, <2>2, <2>3, <2>4, <1>0, <1>s, <1>t, TypeFrom
<1>5. ASSUME NEW e \in Ends, Welcome(e) PROVE TypeOK'
  <2>1. /\ Doing(e, "welcome")
        /\ UNCHANGED <<conn, masters, slaves, root_host, data_hosts, log, todo, made, crashed>>
    BY <1>5 DEF Welcome
  <2>2. e \in Made
    BY <2>1, <1>0 DEF Doing, Links, Tasked
  <2>3. CASE inbox' = Put(inbox, e, Cmd("root_welcome")) /\ Does(e, Idle)
    <3>1. inbox' \in [Ends -> Seq(Commands)]
      BY <2>3, <1>0, PutStep, CommandKinds
    <3>2. task' \in [Threads -> Tasks]
      BY <2>3, <1>0, TaskKinds, DoesStep
    <3> QED
      BY <2>1, <3>1, <3>2, <1>0, <1>s, <1>t, TypeFrom
  <2>4. CASE Does(e, TellMasters(e)) /\ UNCHANGED inbox
    <3>1. server_ip(e) \in Known
      <4>1. conn[e.conn].from \in IPs /\ Daemon(Peer(e)) \in Daemons
        BY <2>2, <1>0, MadeEnds
      <4>2. PICK p : p = Port[Daemon(Peer(e))]
        OBVIOUS
      <4>4. p \in {Port[d] : d \in Daemons}
        BY <4>1, <4>2
      <4>3. server_ip(e) \in [name : IPs, port : {Port[d] : d \in Daemons}]
        BY <4>1, <4>2, <4>4 DEF server_ip
      <4>5. [name : IPs, port : {Port[d] : d \in Daemons}] \subseteq Known
        BY DEF Known
      <4> QED
        BY <4>3, <4>5
    <3>2. TellMasters(e) \in Tasks
      <4>1. 1 \in 1 .. MaxConn + 1
        BY ConstantsAssumption
      <4> QED
        BY <3>1, <4>1, CommandKinds, TaskKinds DEF TellMasters, Broadcast
    <3>3. task' \in [Threads -> Tasks]
      BY <2>4, <3>2, <1>0, DoesStep
    <3> QED
      BY <2>1, <2>4, <3>3, <1>0, <1>s, <1>t, TypeFrom
  <2> QED
    BY <1>5, <2>3, <2>4 DEF Welcome
<1>6. ASSUME NEW e \in Ends, agml_command_notify_subscription(e) PROVE TypeOK'
  <2>1. Has(e, "notify_subscription") /\ UNCHANGED <<masters, slaves, root_host, data_hosts, log, task, todo, made>>
    BY <1>6 DEF agml_command_notify_subscription
  <2> DEFINE d == Daemon(e)
  <2> DEFINE m == Head(inbox[e])
  <2>2. d \in Daemons /\ m \in Commands
    BY <2>1, HasCommand
  <2>3. Taken(e) \in [Ends -> Seq(Commands)]
    BY <2>1, <1>0, HasCommand, TakeStep
  <2>4. ConnOK' /\ inbox' \in [Ends -> Seq(Commands)] /\ crashed' \subseteq Daemons
    <3>1. CASE Connect(d, m.who) /\ inbox' = Put(Taken(e), NewEnd, Cmd("root_welcome")) /\ UNCHANGED crashed
      <4>1. ConnOK' /\ NewEnd \in Ends
        BY <3>1, <2>2, <1>0, ConnectStep
      <4>2. inbox' \in [Ends -> Seq(Commands)]
        BY <3>1, <4>1, <2>3, PutStep, CommandKinds
      <4> QED
        BY <3>1, <4>1, <4>2 DEF TypeOK
    <3>2. CASE Refused(d, m.who) /\ inbox' = Taken(e) /\ UNCHANGED crashed
      BY <3>2, <2>3, <1>s DEF Refused, TypeOK
    <3>3. CASE root_host[d] # None /\ inbox' = Put(Taken(e), root_host[d], m) /\ UNCHANGED <<conn, crashed>>
      <4>1. root_host[d] \in Ends
        BY <3>3, <2>2, TypeParts
      <4> QED
        BY <3>3, <4>1, <2>2, <2>3, <1>s, PutStep DEF TypeOK
    <3>4. CASE crashed' = {d} /\ UNCHANGED <<conn, inbox>>
      BY <3>4, <2>2, <1>0, <1>s
    <3> QED
      BY <1>6, <3>1, <3>2, <3>3, <3>4 DEF agml_command_notify_subscription
  <2> HIDE DEF d, m
  <2> QED
    BY <2>1, <2>4, <1>t DEF TypeOK, ConnOK
<1>7. ASSUME NEW e \in Ends, agml_command_root_welcome(e) PROVE TypeOK'
  <2>1. /\ Has(e, "root_welcome")
        /\ root_host' = [root_host EXCEPT ![Daemon(e)] = e]
        /\ slaves' = [slaves EXCEPT ![Daemon(e)] = Without(@, e)]
        /\ inbox' = Taken(e)
        /\ UNCHANGED <<conn, masters, data_hosts, log, task, todo, made, crashed>>
    BY <1>7 DEF agml_command_root_welcome
  <2>2. inbox' \in [Ends -> Seq(Commands)]
    BY <2>1, <1>0, HasCommand, TakeStep
  <2>3. UNCHANGED slaves
    BY <1>0, <2>1, NoSlaveRemoved
  <2>4. root_host' \in [Daemons -> Ends \cup {None}]
    BY <2>1 DEF TypeOK
  <2> QED
    BY <2>1, <2>2, <2>3, <2>4, <1>t DEF TypeOK
<1>8. ASSUME NEW e \in Ends, agml_command_add_to_network(e) PROVE TypeOK'
  <2>1. /\ Has(e, "add_to_network")
        /\ masters' = [masters EXCEPT ![Daemon(e)] = Append(@, e)]
        /\ slaves' = [slaves EXCEPT ![Daemon(e)] = Without(@, e)]
        /\ inbox' = Taken(e)
        /\ UNCHANGED <<conn, root_host, data_hosts, log, task, todo, made, crashed>>
    BY <1>8 DEF agml_command_add_to_network, AddMaster
  <2>2. inbox' \in [Ends -> Seq(Commands)]
    BY <2>1, <1>0, HasCommand, TakeStep
  <2>3. UNCHANGED slaves
    BY <1>0, <2>1, NoSlaveRemoved
  <2>4. masters' \in [Daemons -> Seq(Ends)]
    BY <2>1, <1>0, HasCommand, SetAppend
  <2> QED
    BY <2>1, <2>2, <2>3, <2>4, <1>0, <1>s, <1>t, TypeFrom
<1>9. ASSUME NEW r \in todo, com_model(r) PROVE TypeOK'
  <2>1. r \in Models /\ Make(r) /\ Model(r, r) /\ UNCHANGED <<inbox, conn, masters, slaves, root_host, log, crashed>>
    BY <1>9 DEF com_model, Model
  <2>2. Threads' = Threads /\ todo' \subseteq Requests /\ made' \subseteq Requests
    BY <2>1, <1>0, ThreadsStay
  <2>3. task' \in [Threads -> Tasks] /\ data_hosts' \in [Daemons -> SUBSET Known]
    BY <2>1, <1>0, ModelType
  <2> QED
    BY <2>1, <2>2, <2>3 DEF TypeOK
<1>10. ASSUME NEW e \in Ends, agml_command_model(e) PROVE TypeOK'
  <2>1. /\ Has(e, "model") /\ inbox' = Taken(e) /\ Model(e, Head(inbox[e]).model)
        /\ UNCHANGED <<todo, made, conn, masters, slaves, root_host, log, crashed>>
    BY <1>10 DEF agml_command_model, Model
  <2>2. inbox' \in [Ends -> Seq(Commands)]
    BY <2>1, <1>0, HasCommand, TakeStep
  <2>3. Head(inbox[e]).model \in Models
    BY <2>1, HasCommand, CommandKinds
  <2>4. task' \in [Threads -> Tasks] /\ data_hosts' \in [Daemons -> SUBSET Known]
    BY <2>1, <2>3, <1>0, ModelType
  <2> QED
    BY <2>1, <2>2, <2>4, <1>t DEF TypeOK
<1>11. ASSUME NEW t \in Threads, com_add_to_network(t) PROVE TypeOK'
  <2>1. Doing(t, "invite") /\ UNCHANGED <<inbox, masters, root_host, data_hosts, log, todo, made, crashed>>
    BY <1>11 DEF com_add_to_network
  <2>2. PICK a \in NotInvited(t) :
          LET tried == task[t].invited \cup {a}
          IN \/ /\ Connect(At(t), a)
                /\ slaves' = [slaves EXCEPT ![At(t)] = Append(@, NewEnd)]
                /\ Does(t, [pc |-> "join", end |-> NewEnd, model |-> task[t].model, invited |-> tried])
             \/ /\ Refused(At(t), a)
                /\ Does(t, [task[t] EXCEPT !.invited = tried])
                /\ UNCHANGED slaves
    BY <1>11 DEF com_add_to_network
  <2>3. task[t].model \in Models /\ task[t].invited \subseteq Known /\ task[t] \in Tasks
    BY <2>1, <1>0, TaskParts DEF Doing
  <2>4. At(t) \in Daemons
    BY <2>1, <1>0, Working, TaskParts DEF Doing, Idle
  <2>5. PICK tried \in SUBSET Known : tried = task[t].invited \cup {a}
    BY <2>3, <2>4, TypeParts DEF NotInvited
  <2>6. CASE /\ Connect(At(t), a)
             /\ slaves' = [slaves EXCEPT ![At(t)] = Append(@, NewEnd)]
             /\ Does(t, [pc |-> "join", end |-> NewEnd, model |-> task[t].model, invited |-> tried])
    <3>1. ConnOK' /\ NewEnd \in Ends
      BY <2>6, <2>4, <1>0, ConnectStep
    <3>2. slaves' \in [Daemons -> Seq(Ends)]
      BY <2>6, <2>4, <3>1, <1>0, SetAppend
    <3>3. [pc |-> "join", end |-> NewEnd, model |-> task[t].model, invited |-> tried] \in Tasks
      BY <2>3, <3>1, TaskKinds
    <3>4. task' \in [Threads -> Tasks]
      BY <2>6, <3>3, <1>0, DoesStep
    <3> QED
      BY <2>1, <3>1, <3>2, <3>4, <1>0, <1>t, TypeFrom
  <2>7. CASE /\ Refused(At(t), a)
             /\ Does(t, [task[t] EXCEPT !.invited = tried])
             /\ UNCHANGED slaves
    <3>1. task[t] \in [pc : {"invite"}, model : Models, invited : SUBSET Known]
      BY <2>1, <2>3 DEF Doing, Tasks, Idle
    <3>2. [task[t] EXCEPT !.invited = tried] \in [pc : {"invite"}, model : Models, invited : SUBSET Known]
      BY <3>1
    <3>3. [task[t] EXCEPT !.invited = tried] \in Tasks
      BY <3>2 DEF Tasks
    <3>4. task' \in [Threads -> Tasks]
      BY <2>7, <3>3, <1>0, DoesStep
    <3> QED
      BY <2>1, <2>7, <3>4, <1>0, <1>s, <1>t, TypeFrom DEF Refused
  <2> QED
    BY <2>2, <2>5, <2>6, <2>7
<1>12. ASSUME NEW t \in Threads, Invite(t) PROVE TypeOK'
  <2>1. /\ Doing(t, "join")
        /\ inbox' = Put(Put(inbox, task[t].end, Cmd("add_to_network")), task[t].end, Cmd("root_welcome"))
        /\ Does(t, [pc |-> "invite", model |-> task[t].model, invited |-> task[t].invited])
        /\ UNCHANGED <<conn, masters, slaves, root_host, data_hosts, log, todo, made, crashed>>
    BY <1>12 DEF Invite
  <2>2. task[t].end \in Ends /\ task[t].model \in Models /\ task[t].invited \subseteq Known
    BY <2>1, <1>0, TaskParts DEF Doing
  <2>3. Put(inbox, task[t].end, Cmd("add_to_network")) \in [Ends -> Seq(Commands)]
    BY <2>2, <1>0, PutStep, CommandKinds
  <2>4. inbox' \in [Ends -> Seq(Commands)]
    BY <2>1, <2>2, <2>3, PutStep, CommandKinds
  <2>5. task' \in [Threads -> Tasks]
    BY <2>1, <2>2, <1>0, TaskKinds, DoesStep
  <2> QED
    BY <2>1, <2>4, <2>5, <1>0, <1>s, <1>t, TypeFrom
<1>13. ASSUME NEW t \in Threads, Decide(t) PROVE TypeOK'
  <2>1. /\ Doing(t, "invite") /\ Does(t, SpreadModel(At(t), task[t].model))
        /\ UNCHANGED <<conn, inbox, masters, slaves, root_host, data_hosts, log, todo, made, crashed>>
    BY <1>13 DEF Decide
  <2>2. task[t].model \in Models
    BY <2>1, <1>0, TaskParts DEF Doing
  <2>3. task' \in [Threads -> Tasks]
    BY <2>1, <2>2, <1>0, SpreadTask, DoesStep
  <2> QED
    BY <2>1, <2>3, <1>0, <1>s, <1>t, TypeFrom
<1>14. ASSUME NEW e \in Ends, agml_command_set_topology(e) PROVE TypeOK'
  <2>1. /\ Has(e, "set_topology") /\ inbox' = Taken(e) /\ Does(e, SetTopology(Daemon(e), Head(inbox[e]).model))
        /\ UNCHANGED <<conn, masters, slaves, root_host, data_hosts, log, todo, made, crashed>>
    BY <1>14 DEF agml_command_set_topology
  <2>2. inbox' \in [Ends -> Seq(Commands)]
    BY <2>1, <1>0, HasCommand, TakeStep
  <2>3. Head(inbox[e]).model \in Models
    BY <2>1, HasCommand, CommandKinds
  <2>4. SetTopology(Daemon(e), Head(inbox[e]).model) \in Tasks
    <3>1. 1 \in 1 .. MaxConn + 1
      BY ConstantsAssumption
    <3>2. [cmd |-> "set_topology", model |-> Head(inbox[e]).model] \in Commands
      BY <2>3, CommandKinds
    <3> QED
      BY <2>3, <3>1, <3>2, TaskKinds DEF SetTopology, Broadcast
  <2>5. task' \in [Threads -> Tasks]
    BY <2>1, <2>4, <1>0, DoesStep
  <2> QED
    BY <2>1, <2>2, <2>5, <1>0, <1>s, <1>t, TypeFrom
<1>15. ASSUME NEW t \in Threads, Send(t) PROVE TypeOK'
  <2>1. Doing(t, "send") /\ UNCHANGED <<conn, masters, slaves, root_host, data_hosts, log, todo, made, crashed>>
    BY <1>15 DEF Send
  <2>2. /\ task[t].to \in {"masters", "slaves"} /\ task[t].i \in 1 .. MaxConn + 1
        /\ task[t].msg \in Commands /\ task[t].next \in Tasks
        /\ task[t] \in [pc : {"send"}, to : {"masters", "slaves"}, i : 1 .. MaxConn + 1,
                        msg : Commands, next : {Idle} \cup [pc : {"read"}, model : Models]]
    <3>1. task[t] \in Tasks /\ task[t].pc = "send"
      BY <2>1, <1>0 DEF Doing
    <3> QED
      BY <3>1, TaskParts DEF Tasks, Idle
  <2>3. At(t) \in Daemons
    BY <2>1, <1>0, Working, TaskParts DEF Doing, Idle
  <2>4. CASE /\ task[t].i <= Len(Hosts(At(t), task[t].to))
             /\ inbox' = Put(inbox, Hosts(At(t), task[t].to)[task[t].i], task[t].msg)
             /\ Does(t, [task[t] EXCEPT !.i = @ + 1])
    <3>1. Hosts(At(t), task[t].to) \in Seq(Ends) /\ Len(Hosts(At(t), task[t].to)) <= MaxConn
      BY <2>3, ShortArrays, TypeParts DEF Hosts
    <3>2. Len(Hosts(At(t), task[t].to)) \in Nat /\ MaxConn \in Nat
      BY <3>1, SetOf, ConstantsAssumption
    <3>3. task[t].i \in 1 .. Len(Hosts(At(t), task[t].to)) /\ task[t].i + 1 \in 1 .. MaxConn + 1
      BY <2>2, <2>4, <3>1, <3>2
    <3>4. Hosts(At(t), task[t].to)[task[t].i] \in Ends
      BY <3>1, <3>3, ElementOfSeq
    <3>5. inbox' \in [Ends -> Seq(Commands)]
      BY <2>2, <2>4, <3>4, <1>0, PutStep
    <3>6. [task[t] EXCEPT !.i = @ + 1] \in [pc : {"send"}, to : {"masters", "slaves"}, i : 1 .. MaxConn + 1,
                        msg : Commands, next : {Idle} \cup [pc : {"read"}, model : Models]]
      BY <2>2, <3>3
    <3>7. [task[t] EXCEPT !.i = @ + 1] \in Tasks
      BY <3>6 DEF Tasks
    <3>8. task' \in [Threads -> Tasks]
      BY <2>4, <3>7, <1>0, DoesStep
    <3> QED
      BY <2>1, <3>5, <3>8, <1>0, <1>s, <1>t, TypeFrom
  <2>5. CASE Does(t, task[t].next) /\ UNCHANGED inbox
    <3>1. task' \in [Threads -> Tasks]
      BY <2>2, <2>5, <1>0, DoesStep
    <3> QED
      BY <2>1, <2>5, <3>1, <1>0, <1>s, <1>t, TypeFrom
  <2> QED
    BY <1>15, <2>4, <2>5 DEF Send
<1>16. ASSUME NEW t \in Threads, Read(t) PROVE TypeOK'
  <2>1. /\ Doing(t, "read") /\ Len(log[At(t)]) < MaxLog
        /\ log' = [log EXCEPT ![At(t)] = Append(@, task[t].model)]
        /\ data_hosts' = [data_hosts EXCEPT ![At(t)] = @ \cup task[t].model.hosts]
        /\ Does(t, Idle)
        /\ UNCHANGED <<conn, inbox, masters, slaves, root_host, todo, made, crashed>>
    BY <1>16 DEF Read
  <2>2. task[t].model \in Models /\ task[t].model.hosts \subseteq Known
    <3>1. task[t].model \in Models
      BY <2>1, <1>0, TaskParts DEF Doing
    <3> QED
      BY <3>1 DEF Known
  <2>3. At(t) \in Daemons
    BY <2>1, <1>0, Working, TaskParts DEF Doing, Idle
  <2>4. log \in [Daemons -> Seq(Models)] /\ data_hosts \in [Daemons -> SUBSET Known]
        /\ \A d \in Daemons : Len(log[d]) <= MaxLog
    BY DEF TypeOK
  <2>5. /\ Append(log[At(t)], task[t].model) \in Seq(Models)
        /\ Len(Append(log[At(t)], task[t].model)) = Len(log[At(t)]) + 1 /\ Len(log[At(t)]) \in Nat
    BY <2>2, <2>3, <2>4, SetAppend
  <2>6. log' \in [Daemons -> Seq(Models)] /\ \A d \in Daemons : Len(log'[d]) <= MaxLog
    BY <2>1, <2>3, <2>4, <2>5, ConstantsAssumption
  <2>7. data_hosts' \in [Daemons -> SUBSET Known]
    BY <2>1, <2>2, <2>3, <2>4
  <2>8. task' \in [Threads -> Tasks]
    BY <2>1, <1>0, TaskKinds, DoesStep
  <2> QED
    BY <2>1, <2>6, <2>7, <2>8, <1>t DEF TypeOK
<1> QED
  BY <1>1, <1>2, <1>3, <1>4, <1>5, <1>6, <1>7, <1>8, <1>9, <1>10, <1>11, <1>12, <1>13, <1>14, <1>15, <1>16
  DEF Next, Receive, Request, Continue

-----------------------------------------------------------------------------
(* What the steps do, in terms of sets of commands and of ends.            *)

(* The thread of end e takes its command m, and the commands P are put in  *)
(* the inbox of end g; None where there is no such end.                    *)
Mails(e, m, g, P) ==
    \A f \in Ends :
        /\ ToSet(inbox'[f]) \subseteq ToSet(inbox[f]) \cup {p \in P : f = g}
        /\ ToSet(inbox[f]) \subseteq ToSet(inbox'[f]) \cup {x \in {m} : f = e}
        /\ f = g => P \subseteq ToSet(inbox'[f])
        /\ f # e /\ f # g => inbox'[f] = inbox[f]
        /\ \A x : Single(inbox[f], x) =>
              /\ (f = g /\ x \in P => x \notin ToSet(inbox[f]) \/ (f = e /\ x = m)) => Single(inbox'[f], x)
              /\ f = e /\ x = m /\ (f = g => x \notin P) => x \notin ToSet(inbox'[f])

NoMail == Mails(None, None, None, {})

Turns(t, x) ==
    t \in Threads /\ x \in Tasks /\ \A u \in Threads : task'[u] = IF u = t THEN x ELSE task[u]

(* e is appended to the array of d. *)
MasterOf(d, e) ==
    \A x \in Daemons :
        /\ ToSet(masters'[x]) = IF x = d THEN ToSet(masters[x]) \cup {e} ELSE ToSet(masters[x])
        /\ masters'[x] = IF x = d THEN Append(masters[x], e) ELSE masters[x]
SlaveOf(d, e) ==
    \A x \in Daemons :
        /\ ToSet(slaves'[x]) = IF x = d THEN ToSet(slaves[x]) \cup {e} ELSE ToSet(slaves[x])
        /\ slaves'[x] = IF x = d THEN Append(slaves[x], e) ELSE slaves[x]

EndsStay ==
    /\ \A e \in Made : e \in Made' /\ Daemon(e)' = Daemon(e)
    /\ Threads' = Threads

LEMMA NoMailStep ==
    ASSUME inbox' = inbox
    PROVE  NoMail
BY ConstantsAssumption DEF NoMail, Mails

(* What a command that is put in inbox g of box does to it; nothing is     *)
(* done to the others.                                                     *)
Puts(new, box, g, m) ==
    /\ new \in [Ends -> Seq(Commands)]
    /\ \A f \in Ends : f # g => new[f] = box[f]
    /\ ToSet(new[g]) = ToSet(box[g]) \cup {m}
    /\ \A x : Single(box[g], x) /\ (x = m => x \notin ToSet(box[g])) => Single(new[g], x)

LEMMA Appended ==
    ASSUME NEW box \in [Ends -> Seq(Commands)], NEW e \in Ends, NEW m \in Commands,
           NEW new, new = Put(box, e, m)
    PROVE  Puts(new, box, Peer(e), m)
<1>1. PICK g \in Ends : g = Peer(e)
  BY PeerEnds
<1>2. PICK s \in Seq(Commands) : s = box[g]
  BY <1>1
<1>3. Append(s, m) \in Seq(Commands) /\ ToSet(Append(s, m)) = ToSet(s) \cup {m}
  BY <1>2, SetAppend
<1>4. new = [box EXCEPT ![g] = Append(s, m)]
  BY <1>1, <1>2 DEF Put
<1>5. PICK q \in Seq(Commands) : q = Append(s, m) /\ ToSet(q) = ToSet(s) \cup {m}
  BY <1>3
<1>6. new = [box EXCEPT ![g] = q]
  BY <1>4, <1>5
<1>7. new \in [Ends -> Seq(Commands)] /\ new[g] = q /\ \A f \in Ends : f # g => new[f] = box[f]
  BY <1>1, <1>5, <1>6
<1>8. ASSUME NEW x, Single(s, x), x = m => x \notin ToSet(s)
      PROVE  Single(q, x)
  BY <1>5, <1>8, SingleAppend
<1> QED
  BY <1>1, <1>2, <1>5, <1>7, <1>8 DEF Puts

(* The same for the first command of inbox e, which is taken.              *)
Takes(new, e) ==
    /\ new \in [Ends -> Seq(Commands)]
    /\ \A f \in Ends : f # e => new[f] = inbox[f]
    /\ ToSet(inbox[e]) = ToSet(new[e]) \cup {Head(inbox[e])}
    /\ \A x : Single(inbox[e], x) => Single(new[e], x) /\ (x = Head(inbox[e]) => x \notin ToSet(new[e]))

LEMMA TakenOff ==
    ASSUME TypeOK, NEW e \in Ends, inbox[e] # <<>>, NEW new, new = Taken(e)
    PROVE  Takes(new, e)
<1>1. inbox \in [Ends -> Seq(Commands)] /\ inbox[e] \in Seq(Commands)
  BY DEF TypeOK
<1>2. new \in [Ends -> Seq(Commands)] /\ new[e] = Tail(inbox[e])
  BY <1>1, TakeStep
<1>3. \A f \in Ends : f # e => new[f] = inbox[f]
  BY <1>1, TakeStep
<1>4. ToSet(inbox[e]) = ToSet(new[e]) \cup {Head(inbox[e])}
  BY <1>1, TakeStep
<1>5. \A x : Single(inbox[e], x) => Single(new[e], x) /\ (x = Head(inbox[e]) => x \notin ToSet(new[e]))
  BY <1>1, <1>2, SingleTail
<1> QED
  BY <1>2, <1>3, <1>4, <1>5 DEF Takes

LEMMA TakeMail ==
    ASSUME TypeOK, NEW e \in Ends, inbox[e] # <<>>, inbox' = Taken(e)
    PROVE  Mails(e, Head(inbox[e]), None, {})
<1>1. Takes(inbox', e)
  BY TakenOff
<1> QED
  BY <1>1, ConstantsAssumption DEF Mails, Takes

LEMMA PutMail ==
    ASSUME TypeOK, NEW e \in Ends, NEW m \in Commands, inbox' = Put(inbox, e, m)
    PROVE  Mails(None, None, Peer(e), {m})
<1>1. inbox \in [Ends -> Seq(Commands)]
  BY DEF TypeOK
<1>2. Puts(inbox', inbox, Peer(e), m)
  BY <1>1, Appended
<1> QED
  BY <1>2, ConstantsAssumption DEF Mails, Puts

LEMMA TakePutMail ==
    ASSUME TypeOK, NEW e \in Ends, inbox[e] # <<>>, NEW g \in Ends, NEW m \in Commands,
           inbox' = Put(Taken(e), g, m)
    PROVE  Mails(e, Head(inbox[e]), Peer(g), {m})
<1>1. PICK box : box = Taken(e)
  OBVIOUS
<1>2. Takes(box, e)
  BY <1>1, TakenOff
<1>3. inbox' = Put(box, g, m) /\ box \in [Ends -> Seq(Commands)]
  BY <1>1, <1>2 DEF Takes
<1>4. Puts(inbox', box, Peer(g), m)
  BY <1>3, Appended
<1> SUFFICES ASSUME NEW f \in Ends
             PROVE  /\ ToSet(inbox'[f]) \subseteq ToSet(inbox[f]) \cup {p \in {m} : f = Peer(g)}
                    /\ ToSet(inbox[f]) \subseteq ToSet(inbox'[f]) \cup {x \in {Head(inbox[e])} : f = e}
                    /\ f = Peer(g) => {m} \subseteq ToSet(inbox'[f])
                    /\ f # e /\ f # Peer(g) => inbox'[f] = inbox[f]
                    /\ \A x : Single(inbox[f], x) =>
                          /\ (f = Peer(g) /\ x \in {m} => x \notin ToSet(inbox[f]) \/ (f = e /\ x = Head(inbox[e])))
                                => Single(inbox'[f], x)
                          /\ f = e /\ x = Head(inbox[e]) /\ (f = Peer(g) => x \notin {m}) => x \notin ToSet(inbox'[f])
  BY DEF Mails
<1>6. CASE f # e /\ f # Peer(g)
  BY <1>2, <1>4, <1>6 DEF Takes, Puts
<1>7. CASE f = e /\ f # Peer(g)
  BY <1>2, <1>4, <1>7 DEF Takes, Puts
<1>8. CASE f # e /\ f = Peer(g)
  BY <1>2, <1>4, <1>8 DEF Takes, Puts
<1>9. CASE f = e /\ f = Peer(g)
  BY <1>2, <1>4, <1>9 DEF Takes, Puts
<1> QED
  BY <1>6, <1>7, <1>8, <1>9

LEMMA PutTwoMail ==
    ASSUME TypeOK, NEW e \in Ends, NEW m \in Commands, NEW n \in Commands, m # n,
           inbox' = Put(Put(inbox, e, m), e, n)
    PROVE  Mails(None, None, Peer(e), {m, n})
<1>1. PICK box : box = Put(inbox, e, m)
  OBVIOUS
<1>2. inbox \in [Ends -> Seq(Commands)]
  BY DEF TypeOK
<1>3. Puts(box, inbox, Peer(e), m)
  BY <1>1, <1>2, Appended
<1>4. inbox' = Put(box, e, n) /\ box \in [Ends -> Seq(Commands)]
  BY <1>1, <1>3 DEF Puts
<1>5. Puts(inbox', box, Peer(e), n)
  BY <1>4, Appended
<1> QED
  BY <1>3, <1>5, ConstantsAssumption DEF Mails, Puts

LEMMA TurnStep ==
    ASSUME TypeOK, NEW t \in Threads, NEW x \in Tasks, Does(t, x)
    PROVE  Turns(t, x)
BY DoesStep DEF TypeOK, Turns

LEMMA GainMaster ==
    ASSUME TypeOK, NEW d \in Daemons, NEW e \in Ends, masters' = [masters EXCEPT ![d] = Append(@, e)]
    PROVE  MasterOf(d, e)
<1>1. \A x \in Daemons : masters'[x] = IF x = d THEN Append(masters[x], e) ELSE masters[x]
  BY DEF TypeOK
<1>2. ToSet(Append(masters[d], e)) = ToSet(masters[d]) \cup {e}
  BY TypeParts, SetAppend
<1> SUFFICES ASSUME NEW x \in Daemons
             PROVE  ToSet(masters'[x]) = IF x = d THEN ToSet(masters[x]) \cup {e} ELSE ToSet(masters[x])
  BY <1>1 DEF MasterOf
<1>3. CASE x = d
  <2>1. masters'[x] = Append(masters[d], e)
    BY <1>1, <1>3
  <2> QED
    BY <1>2, <1>3, <2>1
<1>4. CASE x # d
  <2>1. masters'[x] = masters[x]
    BY <1>1, <1>4
  <2> QED
    BY <1>4, <2>1
<1> QED
  BY <1>3, <1>4

LEMMA GainSlave ==
    ASSUME TypeOK, NEW d \in Daemons, NEW e \in Ends, slaves' = [slaves EXCEPT ![d] = Append(@, e)]
    PROVE  SlaveOf(d, e)
<1>1. \A x \in Daemons : slaves'[x] = IF x = d THEN Append(slaves[x], e) ELSE slaves[x]
  BY DEF TypeOK
<1>2. ToSet(Append(slaves[d], e)) = ToSet(slaves[d]) \cup {e}
  BY TypeParts, SetAppend
<1> SUFFICES ASSUME NEW x \in Daemons
             PROVE  ToSet(slaves'[x]) = IF x = d THEN ToSet(slaves[x]) \cup {e} ELSE ToSet(slaves[x])
  BY <1>1 DEF SlaveOf
<1>3. CASE x = d
  <2>1. slaves'[x] = Append(slaves[d], e)
    BY <1>1, <1>3
  <2> QED
    BY <1>2, <1>3, <2>1
<1>4. CASE x # d
  <2>1. slaves'[x] = slaves[x]
    BY <1>1, <1>4
  <2> QED
    BY <1>4, <2>1
<1> QED
  BY <1>3, <1>4

LEMMA EndsStaySame ==
    ASSUME TypeOK, UNCHANGED conn, Threads' = Threads
    PROVE  Made' = Made /\ EndsStay
BY SameConnections DEF EndsStay, Made

LEMMA EndsStayMore ==
    ASSUME TypeOK, NEW d, NEW a, NEW n, Connects(d, a, n), Threads' = Threads
    PROVE  EndsStay
BY DEF Connects, EndsStay

(* All of it: the thread t turns to x; see Mails for the rest.             *)
Effect(t, x, e, m, g, P) ==
    /\ EndsStay /\ todo' \subseteq todo /\ t \notin todo'
    /\ Turns(t, x) /\ Mails(e, m, g, P)
(* Of a step that sends nothing.                                           *)
Turned(t, x) == inbox' = inbox /\ Effect(t, x, None, None, None, {})

LEMMA Turning ==
    ASSUME TypeOK, NEW t \in Threads, NEW x \in Tasks, Does(t, x),
           EndsStay, todo' \subseteq todo, t \notin todo', UNCHANGED inbox
    PROVE  Turned(t, x)
BY TurnStep, NoMailStep DEF Turned, Effect, NoMail

(* Who works is not a request that has not been made yet.                  *)
LEMMA WorkingIsMade ==
    ASSUME TypeOK, Links, NEW t \in Threads, t \in Made \/ task[t] # Idle
    PROVE  t \notin todo /\ t \in Made \cup made /\ At(t) \in Daemons
BY Working, EndsOrRequests DEF Links, Latent, TypeOK

(* Nothing has been done with the ends of a new connection.                *)
LEMMA FreshEnds ==
    ASSUME TypeOK, Links, NEW d, NEW a, NEW n, Connects(d, a, n)
    PROVE  /\ n \in Ends /\ Peer(n) \in Ends /\ n \notin Made /\ Peer(n) \notin Made
           /\ inbox[n] = <<>> /\ inbox[Peer(n)] = <<>> /\ task[n] = Idle /\ task[Peer(n)] = Idle
           /\ \A x \in Daemons, e \in {n, Peer(n)} :
                 e \notin ToSet(masters[x]) /\ e \notin ToSet(slaves[x]) /\ root_host[x] # e
           /\ EndsStay \/ Threads' # Threads
<1>1. n \in Ends /\ Peer(n) \in Ends /\ n \notin Made /\ Peer(n) \notin Made
  BY PeerEnds DEF Connects
<1>2. EndsStay \/ Threads' # Threads
  BY EndsStayMore
<1>3. /\ inbox[n] = <<>> /\ inbox[Peer(n)] = <<>> /\ task[n] = Idle /\ task[Peer(n)] = Idle
      /\ \A x \in Daemons : root_host[x] # None => root_host[x] \in Made
  BY <1>1 DEF Links, Latent
<1>4. \A x \in Daemons, e \in {n, Peer(n)} : e \notin ToSet(masters[x]) /\ e \notin ToSet(slaves[x])
  BY <1>1 DEF Links, Ours
<1>5. None \notin Ends
  BY ConstantsAssumption
<1>6. \A x \in Daemons, e \in {n, Peer(n)} : root_host[x] # e
  BY <1>1, <1>3, <1>5
<1> QED
  BY <1>1, <1>2, <1>3, <1>4, <1>6

-----------------------------------------------------------------------------
(* Step by step.                                                           *)
LEMMA AloneEffect ==
    ASSUME TypeOK, Links, NEW r \in todo, Alone(r)
    PROVE  /\ Turned(r, Idle) /\ r \in made' /\ todo' = todo \ {r} /\ made' = made \cup {r}
           /\ UNCHANGED <<conn, inbox, masters, slaves, root_host, data_hosts, log, task, crashed>>
<1>1. Make(r) /\ UNCHANGED <<conn, inbox, masters, slaves, root_host, data_hosts, log, task, crashed>>
  BY DEF Alone
<1>2. Threads' = Threads /\ todo' = todo \ {r} /\ made' = made \cup {r} /\ r \in Threads
  BY <1>1, ThreadsStay, TypeParts DEF Make, TypeOK
<1>3. Made' = Made /\ EndsStay
  BY <1>1, <1>2, EndsStaySame
<1>4. Turns(r, Idle)
  BY <1>1, <1>2, TaskKinds DEF Turns, Links, Latent
<1>5. NoMail
  BY <1>1, NoMailStep
<1> QED
  BY <1>1, <1>2, <1>3, <1>4, <1>5 DEF Turned, Effect, NoMail

LEMMA EnterEffect ==
    ASSUME TypeOK, Links, NEW r \in todo, com_enter_network(r)
    PROVE  /\ task[r] = Idle /\ r \in Enters /\ r.at \in Daemons /\ At(r) = r.at /\ crashed = {}
           /\ todo' = todo \ {r} /\ made' = made \cup {r}
           /\ UNCHANGED <<inbox, slaves, root_host, data_hosts, log, crashed>>
           /\ \E n \in Ends :
                 /\ Connects(r.at, r.addr, n) /\ MasterOf(r.at, n)
                 /\ Turned(r, [pc |-> "subscribe", end |-> n])
<1>1. /\ r \in Enters /\ Make(r) /\ Connect(r.at, r.addr) /\ crashed = {}
      /\ masters' = [masters EXCEPT ![r.at] = Append(@, NewEnd)]
      /\ Does(r, [pc |-> "subscribe", end |-> NewEnd])
      /\ UNCHANGED <<inbox, slaves, root_host, data_hosts, log, crashed>>
  BY DEF com_enter_network
<1>2. Threads' = Threads /\ todo' = todo \ {r} /\ made' = made \cup {r} /\ r \in Threads
  BY <1>1, ThreadsStay, TypeParts DEF Make, TypeOK
<1>3. r.at \in Daemons /\ At(r) = r.at
  BY <1>1, EndsOrRequests DEF Requests, At
<1>4. PICK n \in Ends : n = NewEnd /\ Connects(r.at, r.addr, n)
  BY <1>1, <1>3, TypeParts, ConnectStep
<1>5. MasterOf(r.at, n)
  BY <1>1, <1>3, <1>4, GainMaster
<1>6. PICK x \in Tasks : x = [pc |-> "subscribe", end |-> n]
  BY TaskKinds
<1>7. Does(r, x)
  BY <1>1, <1>4, <1>6
<1>8. EndsStay
  BY <1>2, <1>4, EndsStayMore
<1>9. Turned(r, x)
  BY <1>1, <1>2, <1>7, <1>8, Turning
<1>10. task[r] = Idle
  BY DEF Links, Latent
<1> QED
  BY <1>1, <1>2, <1>3, <1>4, <1>5, <1>6, <1>9, <1>10

LEMMA SubscribeEffect ==
    ASSUME TypeOK, Links, NEW t \in Threads, subscribe(t)
    PROVE  /\ task[t].pc = "subscribe" /\ t \in Made \cup made
           /\ UNCHANGED <<conn, masters, slaves, root_host, data_hosts, log, todo, made, crashed>>
           /\ \E e \in MadeClients :
                 /\ e = task[t].end
                 /\ Effect(t, Idle, None, None, Peer(e), {Cmd("subscribe")})
                 /\ inbox' = Put(inbox, e, Cmd("subscribe"))
<1>1. /\ task[t].pc = "subscribe" /\ inbox' = Put(inbox, task[t].end, Cmd("subscribe")) /\ Does(t, Idle)
      /\ UNCHANGED <<conn, masters, slaves, root_host, data_hosts, log, todo, made, crashed>>
  BY DEF subscribe, Doing
<1>2. PICK e \in MadeClients : e = task[t].end
  BY <1>1 DEF Links, Handshake, LinkKinds, Pc
<1>3. e \in Ends /\ t \in Made \cup made /\ t \notin todo
  BY <1>1, WorkingIsMade DEF MadeClients, Made, Idle
<1>4. Mails(None, None, Peer(e), {Cmd("subscribe")})
  BY <1>1, <1>2, <1>3, PutMail, CommandKinds
<1>5. Turns(t, Idle)
  BY <1>1, TaskKinds, TurnStep
<1>6. EndsStay
  BY <1>1, ThreadsStay, EndsStaySame DEF TypeOK
<1> QED
  BY <1>1, <1>2, <1>3, <1>4, <1>5, <1>6 DEF Effect

(* The parts of the step of a thread that takes a command.                 *)
LEMMA Taking ==
    ASSUME TypeOK, Links, NEW e \in Ends, NEW c, Has(e, c)
    PROVE  /\ e \in Made /\ e \in Threads /\ e \notin todo /\ task[e] = Idle /\ crashed = {}
           /\ Daemon(e) \in Daemons /\ At(e) = Daemon(e)
           /\ Head(inbox[e]) \in Commands /\ Head(inbox[e]).cmd = c /\ Head(inbox[e]) \in ToSet(inbox[e])
           /\ inbox' = Taken(e) => Mails(e, Head(inbox[e]), None, {})
           /\ UNCHANGED task => Turns(e, Idle)
           /\ UNCHANGED <<conn, todo, made>> => Made' = Made /\ EndsStay
<1>1. /\ e \in Made /\ e \in Threads /\ task[e] = Idle /\ inbox[e] # <<>>
      /\ Head(inbox[e]) \in Commands /\ Head(inbox[e]).cmd = c
      /\ inbox[e] \in Seq(Commands)
      /\ Daemon(e) \in Daemons /\ At(e) = Daemon(e)
  BY HasCommand
<1>2. Head(inbox[e]) \in ToSet(inbox[e])
  BY <1>1, SetTail
<1>3. inbox' = Taken(e) => Mails(e, Head(inbox[e]), None, {})
  BY <1>1, TakeMail
<1>4. UNCHANGED task => Turns(e, Idle)
  BY <1>1, TaskKinds DEF Turns
<1>5. UNCHANGED <<conn, todo, made>> => Made' = Made /\ EndsStay
  BY ThreadsStay, EndsStaySame DEF TypeOK
<1>6. e \notin todo /\ crashed = {}
  BY <1>1, WorkingIsMade DEF Has
<1> QED
  BY <1>1, <1>2, <1>3, <1>4, <1>5, <1>6

LEMMA EnlistEffect ==
    ASSUME TypeOK, Links, NEW e \in Ends, agml_command_subscribe(e)
    PROVE  /\ e \in Made /\ e.side = "server" /\ Daemon(e) \in Daemons /\ At(e) = Daemon(e) /\ task[e] = Idle
           /\ Cmd("subscribe") \in ToSet(inbox[e])
           /\ UNCHANGED <<conn, masters, root_host, data_hosts, log, todo, made, crashed>>
           /\ SlaveOf(Daemon(e), e)
           /\ inbox' = Taken(e)
           /\ Effect(e, [pc |-> "welcome", end |-> e], e, Cmd("subscribe"), None, {})
<1>1. /\ Has(e, "subscribe")
      /\ slaves' = [slaves EXCEPT ![Daemon(e)] = Append(@, e)]
      /\ inbox' = Taken(e)
      /\ Does(e, [pc |-> "welcome", end |-> e])
      /\ UNCHANGED <<conn, masters, root_host, data_hosts, log, todo, made, crashed>>
  BY DEF agml_command_subscribe
<1>2. /\ e \in Made /\ e \in Threads /\ e \notin todo /\ task[e] = Idle
      /\ Daemon(e) \in Daemons /\ At(e) = Daemon(e) /\ EndsStay
      /\ Head(inbox[e]) = Cmd("subscribe") /\ Cmd("subscribe") \in ToSet(inbox[e])
      /\ Mails(e, Cmd("subscribe"), None, {})
  BY <1>1, Taking, CommandKinds
<1>3. e.side = "server"
  BY <1>2 DEF Links, Handshake, LinkKinds, Hello
<1>4. PICK x \in Tasks : x = [pc |-> "welcome", end |-> e]
  BY TaskKinds
<1>5. Turns(e, x)
  BY <1>1, <1>2, <1>4, TurnStep
<1>6. SlaveOf(Daemon(e), e)
  BY <1>1, <1>2, GainSlave
<1> QED
  BY <1>1, <1>2, <1>3, <1>4, <1>5, <1>6 DEF Effect

LEMMA WelcomeEffect ==
    ASSUME TypeOK, Links, NEW e \in Ends, Welcome(e)
    PROVE  /\ e \in Made /\ e.side = "server" /\ Daemon(e) \in Daemons /\ At(e) = Daemon(e)
           /\ task[e].pc = "welcome" /\ e \in ToSet(slaves[Daemon(e)]) /\ task[e].end = e
           /\ UNCHANGED <<conn, masters, slaves, root_host, data_hosts, log, todo, made, crashed>>
           /\ \/ masters[Daemon(e)] = <<>>
                 /\ Effect(e, Idle, None, None, Peer(e), {Cmd("root_welcome")})
                 /\ inbox' = Put(inbox, e, Cmd("root_welcome"))
              \/ masters[Daemon(e)] # <<>> /\ Turned(e, TellMasters(e)) /\ server_ip(e) \in Known
<1>1. /\ task[e].pc = "welcome"
      /\ UNCHANGED <<conn, masters, slaves, root_host, data_hosts, log, todo, made, crashed>>
      /\ IF masters[Daemon(e)] = <<>>
         THEN inbox' = Put(inbox, e, Cmd("root_welcome")) /\ Does(e, Idle)
         ELSE Does(e, TellMasters(e)) /\ UNCHANGED inbox
  BY DEF Welcome, Doing, AGML_IS_ROOT
<1>2. e \in Made /\ e.side = "server" /\ e \in ToSet(slaves[Daemon(e)]) /\ task[e].end = e /\ e \in Threads
  BY <1>1, TypeParts DEF Links, Tasked
<1>3. Daemon(e) \in Daemons /\ At(e) = Daemon(e) /\ e \notin todo
  BY <1>2, Working, WorkingIsMade, TypeParts, MadeEnds
<1>4. EndsStay
  BY <1>1, ThreadsStay, EndsStaySame DEF TypeOK
<1>5. CASE masters[Daemon(e)] = <<>>
  <2>1. Mails(None, None, Peer(e), {Cmd("root_welcome")})
    BY <1>1, <1>5, PutMail, CommandKinds
  <2>2. Turns(e, Idle)
    BY <1>1, <1>2, <1>5, TaskKinds, TurnStep
  <2> QED
    BY <1>1, <1>2, <1>3, <1>4, <1>5, <2>1, <2>2 DEF Effect
<1>6. CASE masters[Daemon(e)] # <<>>
  <2>1. server_ip(e) \in Known
    <3>1. conn[e.conn].from \in IPs /\ Daemon(Peer(e)) \in Daemons
      BY <1>2, TypeParts, MadeEnds
    <3>2. PICK p : p = Port[Daemon(Peer(e))]
      OBVIOUS
    <3>3. p \in {Port[d] : d \in Daemons}
      BY <3>1, <3>2
    <3>4. server_ip(e) \in [name : IPs, port : {Port[d] : d \in Daemons}]
      BY <3>1, <3>2, <3>3 DEF server_ip
    <3>5. [name : IPs, port : {Port[d] : d \in Daemons}] \subseteq Known
      BY DEF Known
    <3> QED
      BY <3>4, <3>5
  <2>2. PICK x \in Tasks : x = TellMasters(e)
    <3>1. 1 \in 1 .. MaxConn + 1
      BY ConstantsAssumption
    <3> QED
      BY <2>1, <3>1, CommandKinds, TaskKinds DEF TellMasters, Broadcast
  <2>3. Turned(e, x)
    BY <1>1, <1>2, <1>3, <1>4, <1>6, <2>2, Turning
  <2> QED
    BY <1>1, <1>2, <1>3, <1>6, <2>1, <2>2, <2>3
<1> QED
  BY <1>5, <1>6

LEMMA NotifyEffect ==
    ASSUME TypeOK, Links, NEW e \in Ends, agml_command_notify_subscription(e)
    PROVE  \E m \in Commands :
           /\ m = Head(inbox[e]) /\ m.cmd = "notify_subscription" /\ m \in ToSet(inbox[e])
           /\ e \in Made /\ Daemon(e) \in Daemons /\ At(e) = Daemon(e) /\ task[e] = Idle
           /\ UNCHANGED <<masters, slaves, root_host, data_hosts, log, task, todo, made>>
           /\ \/ /\ masters[Daemon(e)] = <<>> /\ UNCHANGED crashed
                 /\ \E n \in Ends : Connects(Daemon(e), m.who, n)
                       /\ Effect(e, Idle, e, m, Peer(n), {Cmd("root_welcome")})
                       /\ inbox' = Put(Taken(e), n, Cmd("root_welcome"))
              \/ /\ masters[Daemon(e)] = <<>> /\ UNCHANGED <<conn, crashed>>
                 /\ Listening(Daemon(e), m.who) = {}
                 /\ Effect(e, Idle, e, m, None, {})
                 /\ inbox' = Taken(e)
              \/ /\ masters[Daemon(e)] # <<>> /\ UNCHANGED <<conn, crashed>>
                 /\ root_host[Daemon(e)] \in Made
                 /\ Effect(e, Idle, e, m, Peer(root_host[Daemon(e)]), {m})
                 /\ inbox' = Put(Taken(e), root_host[Daemon(e)], m)
              \/ /\ masters[Daemon(e)] # <<>> /\ root_host[Daemon(e)] = None
                 /\ crashed' # {} /\ UNCHANGED conn
                 /\ Turned(e, Idle)
<1>1. /\ Has(e, "notify_subscription")
      /\ UNCHANGED <<masters, slaves, root_host, data_hosts, log, task, todo, made>>
  BY DEF agml_command_notify_subscription
<1>2. PICK m \in Commands :
          /\ m = Head(inbox[e]) /\ m.cmd = "notify_subscription" /\ m \in ToSet(inbox[e])
          /\ e \in Made /\ Daemon(e) \in Daemons /\ At(e) = Daemon(e) /\ task[e] = Idle
          /\ e \notin todo /\ Turns(e, Idle)
          /\ UNCHANGED conn => EndsStay
  BY <1>1, Taking
<1>3. inbox[e] # <<>>
  BY <1>1 DEF Has
<1>4. Threads' = Threads
  BY <1>1, ThreadsStay DEF TypeOK
<1>5. CASE masters[Daemon(e)] = <<>> /\ Connect(Daemon(e), m.who)
           /\ inbox' = Put(Taken(e), NewEnd, Cmd("root_welcome")) /\ UNCHANGED crashed
  <2>1. PICK n \in Ends : n = NewEnd /\ Connects(Daemon(e), m.who, n)
    BY <1>2, <1>5, TypeParts, ConnectStep
  <2>2. Mails(e, m, Peer(n), {Cmd("root_welcome")})
    BY <1>2, <1>3, <1>5, <2>1, TakePutMail, CommandKinds
  <2>3. EndsStay
    BY <1>4, <2>1, EndsStayMore
  <2>4. Effect(e, Idle, e, m, Peer(n), {Cmd("root_welcome")})
    BY <1>1, <1>2, <2>2, <2>3 DEF Effect
  <2> QED
    BY <1>1, <1>2, <1>5, <2>1, <2>4
<1>6. CASE masters[Daemon(e)] = <<>> /\ Refused(Daemon(e), m.who) /\ inbox' = Taken(e) /\ UNCHANGED crashed
  <2>1. Mails(e, m, None, {}) /\ UNCHANGED conn /\ Listening(Daemon(e), m.who) = {}
    BY <1>1, <1>2, <1>6, Taking DEF Refused
  <2> QED
    BY <1>1, <1>2, <1>6, <2>1 DEF Effect
<1>7. CASE masters[Daemon(e)] # <<>> /\ root_host[Daemon(e)] # None
           /\ inbox' = Put(Taken(e), root_host[Daemon(e)], m) /\ UNCHANGED <<conn, crashed>>
  <2>1. PICK h \in Made : h = root_host[Daemon(e)]
    BY <1>2, <1>7 DEF Links, Latent
  <2>2. Mails(e, m, Peer(h), {m})
    BY <1>2, <1>3, <1>7, <2>1, TakePutMail DEF Made
  <2> QED
    BY <1>1, <1>2, <1>7, <2>1, <2>2 DEF Effect
<1>8. CASE masters[Daemon(e)] # <<>> /\ root_host[Daemon(e)] = None /\ crashed' = {Daemon(e)} /\ UNCHANGED <<conn, inbox>>
  <2>1. NoMail
    BY <1>8, NoMailStep
  <2> QED
    BY <1>1, <1>2, <1>8, <2>1 DEF Turned, Effect, NoMail
<1> QED
  BY <1>2, <1>5, <1>6, <1>7, <1>8 DEF agml_command_notify_subscription, AGML_IS_ROOT

LEMMA RootWelcomeEffect ==
    ASSUME TypeOK, Links, NEW e \in Ends, agml_command_root_welcome(e)
    PROVE  /\ e \in Made /\ Daemon(e) \in Daemons /\ At(e) = Daemon(e) /\ task[e] = Idle
           /\ Cmd("root_welcome") \in ToSet(inbox[e])
           /\ root_host' = [root_host EXCEPT ![Daemon(e)] = e]
           /\ UNCHANGED <<conn, masters, slaves, data_hosts, log, task, todo, made, crashed>>
           /\ inbox' = Taken(e)
           /\ Effect(e, Idle, e, Cmd("root_welcome"), None, {})
<1>1. /\ Has(e, "root_welcome")
      /\ root_host' = [root_host EXCEPT ![Daemon(e)] = e]
      /\ slaves' = [slaves EXCEPT ![Daemon(e)] = Without(@, e)]
      /\ inbox' = Taken(e)
      /\ UNCHANGED <<conn, masters, data_hosts, log, task, todo, made, crashed>>
  BY DEF agml_command_root_welcome
<1>2. /\ e \in Made /\ e \notin todo /\ task[e] = Idle
      /\ Daemon(e) \in Daemons /\ At(e) = Daemon(e) /\ EndsStay /\ Turns(e, Idle)
      /\ Head(inbox[e]) = Cmd("root_welcome") /\ Cmd("root_welcome") \in ToSet(inbox[e])
      /\ Mails(e, Cmd("root_welcome"), None, {})
  BY <1>1, Taking, CommandKinds
<1>3. UNCHANGED slaves
  BY <1>1, NoSlaveRemoved
<1> QED
  BY <1>1, <1>2, <1>3 DEF Effect

LEMMA AddEffect ==
    ASSUME TypeOK, Links, NEW e \in Ends, agml_command_add_to_network(e)
    PROVE  /\ e \in Made /\ e.side = "server" /\ Daemon(e) \in Daemons /\ At(e) = Daemon(e) /\ task[e] = Idle
           /\ Cmd("add_to_network") \in ToSet(inbox[e])
           /\ UNCHANGED <<conn, slaves, root_host, data_hosts, log, task, todo, made, crashed>>
           /\ MasterOf(Daemon(e), e)
           /\ inbox' = Taken(e)
           /\ Effect(e, Idle, e, Cmd("add_to_network"), None, {})
<1>1. /\ Has(e, "add_to_network")
      /\ masters' = [masters EXCEPT ![Daemon(e)] = Append(@, e)]
      /\ slaves' = [slaves EXCEPT ![Daemon(e)] = Without(@, e)]
      /\ inbox' = Taken(e)
      /\ UNCHANGED <<conn, root_host, data_hosts, log, task, todo, made, crashed>>
  BY DEF agml_command_add_to_network, AddMaster
<1>2. /\ e \in Made /\ e \notin todo /\ task[e] = Idle
      /\ Daemon(e) \in Daemons /\ At(e) = Daemon(e) /\ EndsStay /\ Turns(e, Idle)
      /\ Head(inbox[e]) = Cmd("add_to_network") /\ Cmd("add_to_network") \in ToSet(inbox[e])
      /\ Mails(e, Cmd("add_to_network"), None, {})
  BY <1>1, Taking, CommandKinds
<1>3. UNCHANGED slaves
  BY <1>1, NoSlaveRemoved
<1>4. MasterOf(Daemon(e), e)
  BY <1>1, <1>2, GainMaster
<1>5. e.side = "server"
  BY <1>2 DEF Links, Handshake, LinkKinds, Hello
<1> QED
  BY <1>1, <1>2, <1>3, <1>4, <1>5 DEF Effect

(* What a model makes of a thread at d: it invites, passes the model up,   *)
(* or sends it down.                                                       *)
Takes_up(d, m, x) ==
    \/ x = [pc |-> "invite", model |-> m, invited |-> {}]
    \/ masters[d] = <<>> /\ x = SetTopology(d, m)
    \/ masters[d] # <<>> /\ x = PassUp(d, m)

LEMMA SpreadTakesUp ==
    ASSUME NEW d, NEW m \in Models
    PROVE  SpreadModel(d, m) \in Tasks /\ Takes_up(d, m, SpreadModel(d, m))
BY SpreadTask DEF SpreadModel, Takes_up, AGML_IS_ROOT

LEMMA ModelEffect ==
    ASSUME TypeOK, Links, NEW t \in Threads, NEW m \in Models, Model(t, m)
    PROVE  \E x \in Tasks : Does(t, x) /\ Takes_up(At(t), m, x)
<1>1. CASE Does(t, [pc |-> "invite", model |-> m, invited |-> {}])
  <2>1. PICK x \in Tasks : x = [pc |-> "invite", model |-> m, invited |-> {}]
    BY TaskKinds
  <2> QED
    BY <1>1, <2>1 DEF Takes_up
<1>2. CASE Does(t, SpreadModel(At(t), m))
  BY <1>2, SpreadTakesUp
<1> QED
  BY <1>1, <1>2 DEF Model

LEMMA AskEffect ==
    ASSUME TypeOK, Links, NEW r \in todo, com_model(r)
    PROVE  /\ task[r] = Idle /\ r \in Models /\ r.at \in Daemons /\ At(r) = r.at
           /\ todo' = todo \ {r} /\ made' = made \cup {r}
           /\ UNCHANGED <<conn, masters, slaves, root_host, log, crashed>>
           /\ \E x \in Tasks : Takes_up(r.at, r, x) /\ Turned(r, x)
<1>1. /\ r \in Models /\ Make(r) /\ Model(r, r) /\ UNCHANGED inbox
      /\ UNCHANGED <<conn, masters, slaves, root_host, log, crashed>>
  BY DEF com_model, Model
<1>2. Threads' = Threads /\ todo' = todo \ {r} /\ made' = made \cup {r} /\ r \in Threads
  BY <1>1, ThreadsStay, TypeParts DEF Make, TypeOK
<1>3. r.at \in Daemons /\ At(r) = r.at
  BY <1>1, EndsOrRequests DEF Requests, At
<1>4. PICK x \in Tasks : Does(r, x) /\ Takes_up(r.at, r, x)
  BY <1>1, <1>2, <1>3, ModelEffect
<1>5. EndsStay
  BY <1>1, <1>2, EndsStaySame
<1>6. Turned(r, x)
  BY <1>1, <1>2, <1>4, <1>5, Turning
<1>7. task[r] = Idle
  BY DEF Links, Latent
<1> QED
  BY <1>1, <1>2, <1>3, <1>4, <1>6, <1>7

LEMMA PassEffect ==
    ASSUME TypeOK, Links, NEW e \in Ends, agml_command_model(e)
    PROVE  /\ e \in Made /\ Daemon(e) \in Daemons /\ At(e) = Daemon(e) /\ task[e] = Idle
           /\ UNCHANGED <<conn, masters, slaves, root_host, log, todo, made, crashed>>
           /\ inbox' = Taken(e)
           /\ \E x \in Tasks, m \in Models, c \in Commands :
                 /\ c = [cmd |-> "model", model |-> m] /\ c = Head(inbox[e]) /\ c \in ToSet(inbox[e])
                 /\ Takes_up(Daemon(e), m, x)
                 /\ Effect(e, x, e, c, None, {})
<1>1. /\ Has(e, "model") /\ inbox' = Taken(e) /\ Model(e, Head(inbox[e]).model)
      /\ UNCHANGED <<conn, masters, slaves, root_host, log, todo, made, crashed>>
  BY DEF agml_command_model, Model
<1>2. PICK c \in Commands :
          /\ c = Head(inbox[e]) /\ c.cmd = "model" /\ c \in ToSet(inbox[e]) /\ Mails(e, c, None, {})
          /\ e \in Made /\ e \notin todo /\ e \in Threads /\ task[e] = Idle
          /\ Daemon(e) \in Daemons /\ At(e) = Daemon(e) /\ EndsStay
  BY <1>1, Taking
<1>3. PICK m \in Models : m = c.model /\ c = [cmd |-> "model", model |-> m]
  BY <1>2, CommandKinds
<1>4. PICK x \in Tasks : Does(e, x) /\ Takes_up(Daemon(e), m, x)
  BY <1>1, <1>2, <1>3, ModelEffect
<1>5. Turns(e, x)
  BY <1>2, <1>4, TurnStep
<1> QED
  BY <1>1, <1>2, <1>3, <1>4, <1>5 DEF Effect

LEMMA JoinEffect ==
    ASSUME TypeOK, Links, NEW t \in Threads, com_add_to_network(t)
    PROVE  /\ task[t].pc = "invite" /\ task[t].model \in Models /\ t \in Made \cup made /\ At(t) \in Daemons
           /\ UNCHANGED <<inbox, masters, root_host, data_hosts, log, todo, made, crashed>>
           /\ \/ \E a \in Known, tried \in SUBSET Known, n \in Ends :
                    /\ Connects(At(t), a, n) /\ SlaveOf(At(t), n)
                    /\ Turned(t, [pc |-> "join", end |-> n, model |-> task[t].model, invited |-> tried])
              \/ \E tried \in SUBSET Known :
                    /\ Turned(t, [pc |-> "invite", model |-> task[t].model, invited |-> tried])
                    /\ UNCHANGED <<conn, slaves>>
<1>1. task[t].pc = "invite" /\ UNCHANGED <<inbox, masters, root_host, data_hosts, log, todo, made, crashed>>
  BY DEF com_add_to_network, Doing
<1>2. PICK a \in NotInvited(t) :
        LET tried == task[t].invited \cup {a}
        IN \/ /\ Connect(At(t), a)
              /\ slaves' = [slaves EXCEPT ![At(t)] = Append(@, NewEnd)]
              /\ Does(t, [pc |-> "join", end |-> NewEnd, model |-> task[t].model, invited |-> tried])
           \/ /\ Refused(At(t), a)
              /\ Does(t, [task[t] EXCEPT !.invited = tried])
              /\ UNCHANGED slaves
  BY DEF com_add_to_network
<1>3. task[t].model \in Models /\ task[t].invited \subseteq Known /\ task[t] \in Tasks /\ task[t] # Idle
  BY <1>1, TypeParts, TaskParts DEF Idle
<1>4. t \in Made \cup made /\ At(t) \in Daemons /\ t \notin todo
  BY <1>3, WorkingIsMade
<1>5. a \in Known
  BY <1>4, TypeParts DEF NotInvited
<1>6. PICK tried \in SUBSET Known : tried = task[t].invited \cup {a}
  BY <1>3, <1>5
<1>7. Threads' = Threads
  BY <1>1, ThreadsStay DEF TypeOK
<1>8. CASE /\ Connect(At(t), a)
           /\ slaves' = [slaves EXCEPT ![At(t)] = Append(@, NewEnd)]
           /\ Does(t, [pc |-> "join", end |-> NewEnd, model |-> task[t].model, invited |-> tried])
  <2>1. PICK n \in Ends : n = NewEnd /\ Connects(At(t), a, n)
    BY <1>4, <1>8, TypeParts, ConnectStep
  <2>2. SlaveOf(At(t), n)
    BY <1>4, <1>8, <2>1, GainSlave
  <2>3. PICK x \in Tasks : x = [pc |-> "join", end |-> n, model |-> task[t].model, invited |-> tried]
    BY <1>3, TaskKinds
  <2>4. Does(t, x)
    BY <1>8, <2>1, <2>3
  <2>5. EndsStay
    BY <1>7, <2>1, EndsStayMore
  <2>6. Turned(t, x)
    BY <1>1, <1>4, <2>4, <2>5, Turning
  <2> QED
    BY <1>1, <1>3, <1>4, <1>5, <2>1, <2>2, <2>3, <2>6
<1>9. CASE /\ Refused(At(t), a)
           /\ Does(t, [task[t] EXCEPT !.invited = tried])
           /\ UNCHANGED slaves
  <2>1. task[t] \in [pc : {"invite"}, model : Models, invited : SUBSET Known]
    BY <1>1, <1>3 DEF Tasks, Idle
  <2>2. [task[t] EXCEPT !.invited = tried] = [pc |-> "invite", model |-> task[t].model, invited |-> tried]
    BY <2>1
  <2>3. PICK x \in Tasks : x = [pc |-> "invite", model |-> task[t].model, invited |-> tried]
    BY <1>3, TaskKinds
  <2>4. Does(t, x) /\ UNCHANGED conn
    BY <1>9, <2>2, <2>3 DEF Refused
  <2>5. EndsStay
    BY <1>7, <2>4, EndsStaySame
  <2>6. Turned(t, x)
    BY <1>1, <1>4, <2>4, <2>5, Turning
  <2> QED
    BY <1>1, <1>3, <1>4, <1>9, <2>3, <2>4, <2>6
<1> QED
  BY <1>2, <1>6, <1>8, <1>9

LEMMA InviteEffect ==
    ASSUME TypeOK, Links, NEW t \in Threads, Invite(t)
    PROVE  /\ task[t].pc = "join" /\ task[t].model \in Models /\ t \in Made \cup made /\ At(t) \in Daemons
           /\ UNCHANGED <<conn, masters, slaves, root_host, data_hosts, log, todo, made, crashed>>
           /\ \E e \in MadeClients, invited \in SUBSET Known :
                 /\ e = task[t].end
                 /\ inbox' = Put(Put(inbox, e, Cmd("add_to_network")), e, Cmd("root_welcome"))
                 /\ Effect(t, [pc |-> "invite", model |-> task[t].model, invited |-> invited], None, None,
                           Peer(e), {Cmd("add_to_network"), Cmd("root_welcome")})
<1>1. /\ task[t].pc = "join"
      /\ inbox' = Put(Put(inbox, task[t].end, Cmd("add_to_network")), task[t].end, Cmd("root_welcome"))
      /\ Does(t, [pc |-> "invite", model |-> task[t].model, invited |-> task[t].invited])
      /\ UNCHANGED <<conn, masters, slaves, root_host, data_hosts, log, todo, made, crashed>>
  BY DEF Invite, Doing
<1>2. PICK e \in MadeClients : e = task[t].end
  BY <1>1 DEF Links, Handshake, LinkKinds, Pc
<1>3. e \in Ends /\ task[t].model \in Models /\ task[t] # Idle
  BY <1>1, TypeParts, TaskParts DEF MadeClients, Made, Idle
<1>4. t \in Made \cup made /\ t \notin todo /\ At(t) \in Daemons
  BY <1>3, WorkingIsMade
<1>5. PICK invited \in SUBSET Known : invited = task[t].invited
  BY <1>1, TypeParts, TaskParts
<1>6. Mails(None, None, Peer(e), {Cmd("add_to_network"), Cmd("root_welcome")})
  <2>1. Cmd("add_to_network") # Cmd("root_welcome")
    BY DEF Cmd
  <2> QED
    BY <1>1, <1>2, <1>3, <2>1, PutTwoMail, CommandKinds
<1>7. PICK x \in Tasks : x = [pc |-> "invite", model |-> task[t].model, invited |-> invited]
  BY <1>3, TaskKinds
<1>8. Turns(t, x)
  BY <1>1, <1>5, <1>7, TurnStep
<1>9. EndsStay
  BY <1>1, ThreadsStay, EndsStaySame DEF TypeOK
<1>10. Effect(t, x, None, None, Peer(e), {Cmd("add_to_network"), Cmd("root_welcome")})
  BY <1>1, <1>4, <1>6, <1>8, <1>9 DEF Effect
<1> QED
  BY <1>1, <1>2, <1>3, <1>4, <1>7, <1>10

LEMMA DecideEffect ==
    ASSUME TypeOK, Links, NEW t \in Threads, Decide(t)
    PROVE  /\ task[t].pc = "invite" /\ task[t].model \in Models /\ t \in Made \cup made /\ At(t) \in Daemons
           /\ UNCHANGED <<conn, inbox, masters, slaves, root_host, data_hosts, log, todo, made, crashed>>
           /\ \E x \in Tasks : Takes_up(At(t), task[t].model, x) /\ x.pc = "send" /\ Turned(t, x)
<1>1. /\ task[t].pc = "invite" /\ Does(t, SpreadModel(At(t), task[t].model))
      /\ UNCHANGED <<conn, inbox, masters, slaves, root_host, data_hosts, log, todo, made, crashed>>
  BY DEF Decide, Doing
<1>2. task[t].model \in Models /\ task[t] # Idle
  BY <1>1, TypeParts, TaskParts DEF Idle
<1>3. t \in Made \cup made /\ t \notin todo /\ At(t) \in Daemons
  BY <1>2, WorkingIsMade
<1>4. PICK x \in Tasks : x = SpreadModel(At(t), task[t].model) /\ Takes_up(At(t), task[t].model, x)
  BY <1>2, SpreadTakesUp
<1>5. x.pc = "send"
  BY <1>4 DEF SpreadModel, SetTopology, PassUp, Broadcast
<1>6. EndsStay
  BY <1>1, ThreadsStay, EndsStaySame DEF TypeOK
<1>7. Turned(t, x)
  BY <1>1, <1>3, <1>4, <1>6, Turning
<1> QED
  BY <1>1, <1>2, <1>3, <1>4, <1>5, <1>7

LEMMA SetTopologyEffect ==
    ASSUME TypeOK, Links, NEW e \in Ends, agml_command_set_topology(e)
    PROVE  /\ e \in Made /\ Daemon(e) \in Daemons /\ At(e) = Daemon(e) /\ task[e] = Idle
           /\ UNCHANGED <<conn, masters, slaves, root_host, data_hosts, log, todo, made, crashed>>
           /\ inbox' = Taken(e)
           /\ \E m \in Models, c \in Commands :
                 /\ c = [cmd |-> "set_topology", model |-> m] /\ c = Head(inbox[e]) /\ c \in ToSet(inbox[e])
                 /\ SetTopology(Daemon(e), m) \in Tasks
                 /\ Effect(e, SetTopology(Daemon(e), m), e, c, None, {})
<1>1. /\ Has(e, "set_topology") /\ inbox' = Taken(e) /\ Does(e, SetTopology(Daemon(e), Head(inbox[e]).model))
      /\ UNCHANGED <<conn, masters, slaves, root_host, data_hosts, log, todo, made, crashed>>
  BY DEF agml_command_set_topology
<1>2. PICK c \in Commands :
          /\ c = Head(inbox[e]) /\ c.cmd = "set_topology" /\ c \in ToSet(inbox[e]) /\ Mails(e, c, None, {})
          /\ e \in Made /\ e \notin todo /\ e \in Threads /\ task[e] = Idle
          /\ Daemon(e) \in Daemons /\ At(e) = Daemon(e) /\ EndsStay
  BY <1>1, Taking
<1>3. PICK m \in Models : m = c.model /\ c = [cmd |-> "set_topology", model |-> m]
  BY <1>2, CommandKinds
<1>4. PICK x \in Tasks : x = SetTopology(Daemon(e), m)
  <2>1. 1 \in 1 .. MaxConn + 1
    BY ConstantsAssumption
  <2>2. [cmd |-> "set_topology", model |-> m] \in Commands
    BY CommandKinds
  <2> QED
    BY <2>1, <2>2, TaskKinds DEF SetTopology, Broadcast
<1>5. Turns(e, x)
  BY <1>1, <1>2, <1>3, <1>4, TurnStep
<1>6. Effect(e, x, e, c, None, {})
  BY <1>1, <1>2, <1>5 DEF Effect
<1> QED
  BY <1>1, <1>2, <1>3, <1>4, <1>6

LEMMA SendEffect ==
    ASSUME TypeOK, Links, NEW t \in Threads, Send(t)
    PROVE  /\ task[t].pc = "send" /\ t \in Made \cup made /\ At(t) \in Daemons
           /\ task[t].i \in 1 .. MaxConn + 1 /\ task[t].msg \in Commands /\ task[t].to \in {"masters", "slaves"}
           /\ UNCHANGED <<conn, masters, slaves, root_host, data_hosts, log, todo, made, crashed>>
           /\ \/ \E h \in Made, x \in Tasks :
                    /\ task[t].i \in 1 .. Len(Hosts(At(t), task[t].to))
                    /\ h = Hosts(At(t), task[t].to)[task[t].i] /\ h \in ToSet(Hosts(At(t), task[t].to))
                    /\ Daemon(h) = At(t)
                    /\ x = [task[t] EXCEPT !.i = task[t].i + 1]
                    /\ x.pc = "send" /\ x.to = task[t].to /\ x.msg = task[t].msg /\ x.next = task[t].next
                    /\ x.i = task[t].i + 1
                    /\ inbox' = Put(inbox, h, task[t].msg)
                    /\ Effect(t, x, None, None, Peer(h), {task[t].msg})
              \/ /\ task[t].i > Len(Hosts(At(t), task[t].to))
                 /\ task[t].next \in Tasks /\ Turned(t, task[t].next)
<1>1. task[t].pc = "send" /\ UNCHANGED <<conn, masters, slaves, root_host, data_hosts, log, todo, made, crashed>>
  BY DEF Send, Doing
<1>2. /\ task[t].to \in {"masters", "slaves"} /\ task[t].i \in 1 .. MaxConn + 1
      /\ task[t].msg \in Commands /\ task[t].next \in Tasks /\ task[t] # Idle
      /\ task[t] \in [pc : {"send"}, to : {"masters", "slaves"}, i : 1 .. MaxConn + 1,
                      msg : Commands, next : {Idle} \cup [pc : {"read"}, model : Models]]
  <2>1. task[t] \in Tasks /\ task[t].pc = "send"
    BY <1>1, TypeParts
  <2> QED
    BY <2>1, TaskParts DEF Tasks, Idle
<1>3. At(t) \in Daemons /\ t \in Made \cup made /\ t \notin todo
  BY <1>2, WorkingIsMade
<1>4. EndsStay
  BY <1>1, ThreadsStay, EndsStaySame DEF TypeOK
<1>5. CASE /\ task[t].i <= Len(Hosts(At(t), task[t].to))
           /\ inbox' = Put(inbox, Hosts(At(t), task[t].to)[task[t].i], task[t].msg)
           /\ Does(t, [task[t] EXCEPT !.i = @ + 1])
  <2>1. PICK s \in Seq(Ends) : s = Hosts(At(t), task[t].to) /\ Len(s) <= MaxConn
    BY <1>3, ShortArrays, TypeParts DEF Hosts
  <2>2. Len(s) \in Nat /\ MaxConn \in Nat
    BY SetOf, ConstantsAssumption
  <2>3. task[t].i \in 1 .. Len(s) /\ task[t].i + 1 \in 1 .. MaxConn + 1
    BY <1>2, <1>5, <2>1, <2>2
  <2>4. PICK h \in Ends : h = s[task[t].i] /\ h \in ToSet(s)
    BY <2>3, SetOf, ElementOfSeq
  <2>5. h \in Made /\ Daemon(h) = At(t)
    BY <1>3, <2>1, <2>4 DEF Hosts, Links, Ours
  <2>6. PICK x \in [pc : {"send"}, to : {"masters", "slaves"}, i : 1 .. MaxConn + 1,
                    msg : Commands, next : {Idle} \cup [pc : {"read"}, model : Models]] :
            x = [task[t] EXCEPT !.i = task[t].i + 1]
    BY <1>2, <2>3
  <2>7. x \in Tasks
    BY DEF Tasks
  <2>8. /\ x.pc = "send" /\ x.to = task[t].to /\ x.msg = task[t].msg /\ x.next = task[t].next
        /\ x.i = task[t].i + 1
    BY <1>2, <2>6
  <2>9. Turns(t, x)
    BY <1>5, <2>6, <2>7, TurnStep
  <2>10. inbox' = Put(inbox, h, task[t].msg)
    BY <1>5, <2>1, <2>4
  <2>11. Mails(None, None, Peer(h), {task[t].msg})
    BY <1>2, <2>10, PutMail
  <2>12. Effect(t, x, None, None, Peer(h), {task[t].msg})
    BY <1>1, <1>3, <1>4, <2>9, <2>11 DEF Effect
  <2>13. task[t].i \in 1 .. Len(Hosts(At(t), task[t].to))
         /\ h = Hosts(At(t), task[t].to)[task[t].i] /\ h \in ToSet(Hosts(At(t), task[t].to))
    BY <2>1, <2>3, <2>4
  <2> QED
    BY <1>1, <1>2, <1>3, <2>5, <2>6, <2>7, <2>8, <2>10, <2>12, <2>13
<1>6. CASE task[t].i > Len(Hosts(At(t), task[t].to)) /\ Does(t, task[t].next) /\ UNCHANGED inbox
  <2>1. Turned(t, task[t].next)
    BY <1>1, <1>2, <1>3, <1>4, <1>6, Turning
  <2> QED
    BY <1>1, <1>2, <1>3, <1>6, <2>1
<1> QED
  BY <1>5, <1>6 DEF Send

LEMMA ReadEffect ==
    ASSUME TypeOK, Links, NEW t \in Threads, Read(t)
    PROVE  /\ task[t].pc = "read" /\ task[t].model \in Models /\ t \in Made \cup made /\ At(t) \in Daemons
           /\ UNCHANGED <<conn, inbox, masters, slaves, root_host, todo, made, crashed>>
           /\ log' = [log EXCEPT ![At(t)] = Append(@, task[t].model)]
           /\ Turned(t, Idle)
<1>1. /\ task[t].pc = "read"
      /\ log' = [log EXCEPT ![At(t)] = Append(@, task[t].model)]
      /\ Does(t, Idle)
      /\ UNCHANGED <<conn, inbox, masters, slaves, root_host, todo, made, crashed>>
  BY DEF Read, Doing
<1>2. task[t].model \in Models /\ task[t] # Idle
  BY <1>1, TypeParts, TaskParts DEF Idle
<1>3. t \in Made \cup made /\ t \notin todo /\ At(t) \in Daemons
  BY <1>2, WorkingIsMade
<1>4. EndsStay
  BY <1>1, ThreadsStay, EndsStaySame DEF TypeOK
<1>5. Turned(t, Idle)
  BY <1>1, <1>3, <1>4, TaskKinds, Turning
<1> QED
  BY <1>1, <1>2, <1>3, <1>5

-----------------------------------------------------------------------------
(* The same invariant in terms of sets of ends, and what the effects of    *)
(* the steps make of these.                                                *)
InMasters == {e \in Made : e \in ToSet(masters[Daemon(e)])}
InSlaves == {e \in Made : e \in ToSet(slaves[Daemon(e)])}
InClient(k) == IF k = "enter" THEN InMasters ELSE InSlaves
InServer(k) == IF k = "enter" THEN InSlaves ELSE InMasters
WaitsOf(k) == {e \in MadeClients : Waits(k, e)}
ToldOf(k) == {e \in MadeClients : Told(k, e)}

OneWaits(k) ==
    /\ \A t, u \in Threads :
          task[t].pc = Pc(k) /\ task[u].pc = Pc(k) /\ task[t].end = task[u].end => t = u
    /\ \A t \in Threads : task[t].pc = Pc(k) => task[t].end \in MadeClients
OneTold(k) ==
    /\ \A e \in Ends : Single(inbox[e], Hello(k))
    /\ \A e \in Ends : Hello(k) \in ToSet(inbox[e]) => e.side = "server"
Phases(k) ==
    \A e \in MadeClients :
        /\ e \in InClient(k) <=> e \in WaitsOf(k) \/ e \in ToldOf(k) \/ Peer(e) \in InServer(k)
        /\ ~(e \in WaitsOf(k) /\ e \in ToldOf(k))
        /\ ~(e \in WaitsOf(k) /\ Peer(e) \in InServer(k))
        /\ ~(e \in ToldOf(k) /\ Peer(e) \in InServer(k))

LEMMA PhasesOf ==
    ASSUME NEW k \in LinkKinds, Handshake(k)
    PROVE  OneWaits(k) /\ OneTold(k) /\ Phases(k)
<1>1. \A e \in MadeClients : e \in Made /\ Peer(e) \in Made
  BY PeerEnds DEF MadeClients, Made
<1>2. \A e \in MadeClients :
          /\ e \in InClient(k) <=> Begun(k, e)
          /\ Peer(e) \in InServer(k) <=> Follows(k, e)
          /\ e \in WaitsOf(k) <=> Waits(k, e)
          /\ e \in ToldOf(k) <=> Told(k, e)
  BY <1>1 DEF InClient, InServer, InMasters, InSlaves, WaitsOf, ToldOf, Begun, Follows, ClientArray, ServerArray
<1>3. Phases(k)
  BY <1>2 DEF Handshake, Phases
<1> QED
  BY <1>3 DEF Handshake, OneWaits, OneTold

LEMMA PhasesTo ==
    ASSUME NEW k \in LinkKinds, OneWaits(k)', OneTold(k)', Phases(k)'
    PROVE  Handshake(k)'
<1>1. \A e \in MadeClients' : e \in Made' /\ Peer(e) \in Made'
  BY PeerEnds DEF MadeClients, Made
<1>2. \A e \in MadeClients' :
          /\ e \in InClient(k)' <=> Begun(k, e)'
          /\ Peer(e) \in InServer(k)' <=> Follows(k, e)'
          /\ e \in WaitsOf(k)' <=> Waits(k, e)'
          /\ e \in ToldOf(k)' <=> Told(k, e)'
  BY <1>1 DEF InClient, InServer, InMasters, InSlaves, WaitsOf, ToldOf, Begun, Follows, ClientArray, ServerArray
<1>3. /\ \A e \in MadeClients' : Begun(k, e)' <=> Waits(k, e)' \/ Told(k, e)' \/ Follows(k, e)'
      /\ \A e \in MadeClients' :
          ~(Waits(k, e)' /\ Told(k, e)') /\ ~(Waits(k, e)' /\ Follows(k, e)') /\ ~(Told(k, e)' /\ Follows(k, e)')
  BY <1>2 DEF Phases
<1> QED
  BY <1>3 DEF Handshake, OneWaits, OneTold

LEMMA WaitsStep ==
    ASSUME TypeOK, Links, EndsStay, NEW k \in LinkKinds, NEW t, NEW x, Turns(t, x)
    PROVE  /\ task[t].pc # Pc(k) /\ x.pc # Pc(k) => OneWaits(k)' /\ WaitsOf(k)' = WaitsOf(k)
           /\ task[t].pc # Pc(k) /\ x.pc = Pc(k) /\ x.end \in MadeClients' /\ x.end \notin WaitsOf(k) =>
                OneWaits(k)' /\ WaitsOf(k)' = WaitsOf(k) \cup {x.end}
           /\ task[t].pc = Pc(k) /\ x.pc # Pc(k) =>
                /\ OneWaits(k)' /\ WaitsOf(k)' = WaitsOf(k) \ {task[t].end}
                /\ task[t].end \in WaitsOf(k)
<1>1. OneWaits(k)
  BY PhasesOf DEF Links
<1>2. MadeClients \subseteq MadeClients' /\ Threads' = Threads /\ t \in Threads
  BY DEF EndsStay, MadeClients, Turns, Made
<1>3. \A u \in Threads : task'[u] = IF u = t THEN x ELSE task[u]
  BY DEF Turns
<1>4. \A e : e \in WaitsOf(k) <=> \E u \in Threads : task[u].pc = Pc(k) /\ task[u].end = e
  BY <1>1 DEF WaitsOf, Waits, OneWaits
<1>5. ASSUME OneWaits(k)'
      PROVE  \A e : e \in WaitsOf(k)' <=> \E u \in Threads : task'[u].pc = Pc(k) /\ task'[u].end = e
  BY <1>2, <1>5 DEF WaitsOf, Waits, OneWaits
<1>6. CASE task[t].pc # Pc(k) /\ x.pc # Pc(k)
  <2>1. OneWaits(k)'
    BY <1>1, <1>2, <1>3, <1>6 DEF OneWaits
  <2>2. \A e : e \in WaitsOf(k)' <=> e \in WaitsOf(k)
    BY <2>1, <1>3, <1>4, <1>5, <1>6
  <2> QED
    BY <1>6, <2>1, <2>2
<1>7. CASE task[t].pc # Pc(k) /\ x.pc = Pc(k) /\ x.end \in MadeClients' /\ x.end \notin WaitsOf(k)
  <2>1. OneWaits(k)'
    BY <1>1, <1>2, <1>3, <1>4, <1>7 DEF OneWaits
  <2>2. \A e : e \in WaitsOf(k)' <=> e \in WaitsOf(k) \/ e = x.end
    BY <2>1, <1>2, <1>3, <1>4, <1>5, <1>7
  <2> QED
    BY <1>7, <2>1, <2>2
<1>8. CASE task[t].pc = Pc(k) /\ x.pc # Pc(k)
  <2>1. OneWaits(k)'
    BY <1>1, <1>2, <1>3, <1>8 DEF OneWaits
  <2>2. \A e : e \in WaitsOf(k)' <=> e \in WaitsOf(k) /\ e # task[t].end
    BY <2>1, <1>1, <1>2, <1>3, <1>4, <1>5, <1>8 DEF OneWaits
  <2>3. task[t].end \in WaitsOf(k)
    BY <1>2, <1>4, <1>8
  <2> QED
    BY <1>8, <2>1, <2>2, <2>3
<1> QED
  BY <1>6, <1>7, <1>8

LEMMA ToldStep ==
    ASSUME TypeOK, Links, EndsStay, NEW k \in LinkKinds, NEW e, NEW m, NEW g, NEW P, Mails(e, m, g, P)
    PROVE  /\ Hello(k) \notin P /\ (e \in Ends => m # Hello(k)) => OneTold(k)' /\ ToldOf(k)' = ToldOf(k)
           /\ Hello(k) \in P /\ e \notin Ends /\ Peer(g) \in MadeClients \ ToldOf(k) /\ g = Peer(Peer(g)) =>
                OneTold(k)' /\ ToldOf(k)' = ToldOf(k) \cup {Peer(g)}
           /\ m = Hello(k) /\ e \in Ends /\ Hello(k) \in ToSet(inbox[e]) /\ Hello(k) \notin P =>
                /\ OneTold(k)' /\ ToldOf(k)' = ToldOf(k) \ {Peer(e)}
                /\ Peer(e) \in ToldOf(k) /\ Peer(Peer(e)) = e
<1>1. OneTold(k)
  BY PhasesOf DEF Links
<1>2. MadeClients \subseteq MadeClients'
  BY DEF EndsStay, MadeClients, Made
<1>3. \A f \in Ends : f \notin Made => Hello(k) \notin ToSet(inbox[f])
  <2>1. ToSet(<<>>) = {}
    BY EmptySeq, SetOf
  <2> QED
    BY <2>1 DEF Links, Latent
<1>4. \A c \in MadeClients : c \in Ends /\ Peer(c) \in Ends /\ Peer(Peer(c)) = c
  BY PeerEnds DEF MadeClients, Made
<1>5. \A c \in MadeClients' : c \in Ends /\ Peer(c) \in Ends /\ Peer(Peer(c)) = c
      /\ (c \notin MadeClients => Peer(c) \notin Made)
  BY PeerEnds DEF MadeClients, Made
<1>6. \A c \in MadeClients : c \in ToldOf(k) <=> Hello(k) \in ToSet(inbox[Peer(c)])
  BY DEF ToldOf, Told
<1>7. \A c \in MadeClients' : c \in ToldOf(k)' <=> Hello(k) \in ToSet(inbox'[Peer(c)])
  BY DEF ToldOf, Told
<1>8. ToldOf(k) \subseteq MadeClients /\ ToldOf(k)' \subseteq MadeClients'
  BY DEF ToldOf
<1>9. \A f \in Ends :
        /\ ToSet(inbox'[f]) \subseteq ToSet(inbox[f]) \cup {p \in P : f = g}
        /\ ToSet(inbox[f]) \subseteq ToSet(inbox'[f]) \cup {x \in {m} : f = e}
        /\ f = g => P \subseteq ToSet(inbox'[f])
        /\ Single(inbox[f], Hello(k)) =>
              /\ (f = g /\ Hello(k) \in P => Hello(k) \notin ToSet(inbox[f]) \/ (f = e /\ Hello(k) = m)) => Single(inbox'[f], Hello(k))
              /\ f = e /\ Hello(k) = m /\ (f = g => Hello(k) \notin P) => Hello(k) \notin ToSet(inbox'[f])
  BY DEF Mails
<1>10. CASE Hello(k) \notin P /\ (e \in Ends => m # Hello(k))
  <2>1. \A f \in Ends : Hello(k) \in ToSet(inbox'[f]) <=> Hello(k) \in ToSet(inbox[f])
    BY <1>9, <1>10
  <2>2. OneTold(k)'
    BY <1>1, <1>9, <1>10, <2>1 DEF OneTold
  <2>3. \A c : c \in ToldOf(k)' <=> c \in ToldOf(k)
    BY <1>2, <1>3, <1>4, <1>5, <1>6, <1>7, <1>8, <2>1
  <2> QED
    BY <1>10, <2>2, <2>3
<1>11. CASE Hello(k) \in P /\ e \notin Ends /\ Peer(g) \in MadeClients \ ToldOf(k) /\ g = Peer(Peer(g))
  <2>0. g \in Ends /\ Hello(k) \notin ToSet(inbox[g]) /\ g.side = "server"
    BY <1>4, <1>6, <1>11, PeerEnds DEF MadeClients
  <2>1. \A f \in Ends : Hello(k) \in ToSet(inbox'[f]) <=> Hello(k) \in ToSet(inbox[f]) \/ f = g
    BY <1>9, <1>11, <2>0
  <2>2. OneTold(k)'
    BY <1>1, <1>9, <1>11, <2>0, <2>1 DEF OneTold
  <2>3. \A c : c \in ToldOf(k)' <=> c \in ToldOf(k) \/ c = Peer(g)
    <3>1. \A c \in MadeClients' : Peer(c) = g <=> c = Peer(g)
      BY <1>5, <1>11
    <3> QED
      BY <1>2, <1>3, <1>4, <1>5, <1>6, <1>7, <1>8, <1>11, <2>1, <3>1
  <2> QED
    BY <1>10, <1>11, <2>2, <2>3
<1>12. CASE m = Hello(k) /\ e \in Ends /\ Hello(k) \in ToSet(inbox[e]) /\ Hello(k) \notin P
  <2>0. e \in Made /\ e.side = "server" /\ Peer(e) \in MadeClients /\ Peer(Peer(e)) = e
    BY <1>1, <1>3, <1>12, PeerEnds DEF OneTold, MadeClients, Made
  <2>1. \A f \in Ends : Hello(k) \in ToSet(inbox'[f]) <=> Hello(k) \in ToSet(inbox[f]) /\ f # e
    BY <1>1, <1>9, <1>12 DEF OneTold
  <2>2. OneTold(k)'
    BY <1>1, <1>9, <1>12, <2>1 DEF OneTold
  <2>3. \A c : c \in ToldOf(k)' <=> c \in ToldOf(k) /\ c # Peer(e)
    <3>1. \A c \in MadeClients' : Peer(c) = e <=> c = Peer(e)
      BY <1>5, <2>0
    <3> QED
      BY <1>2, <1>3, <1>4, <1>5, <1>6, <1>7, <1>8, <2>1, <3>1
  <2>4. Peer(e) \in ToldOf(k)
    BY <1>6, <1>12, <2>0
  <2> QED
    BY <1>12, <2>0, <2>2, <2>3, <2>4
<1> QED
  BY <1>10, <1>11, <1>12

LEMMA ArraysStep ==
    ASSUME TypeOK, TypeOK', Links, EndsStay
    PROVE  /\ UNCHANGED <<masters, slaves>> => Ours' /\ InMasters' = InMasters /\ InSlaves' = InSlaves
           /\ \A d \in Daemons, e \in Made' :
                /\ MasterOf(d, e) /\ UNCHANGED slaves /\ Daemon(e)' = d /\ e \notin InMasters =>
                      Ours' /\ InMasters' = InMasters \cup {e} /\ InSlaves' = InSlaves
                /\ SlaveOf(d, e) /\ UNCHANGED masters /\ Daemon(e)' = d /\ e \notin InSlaves =>
                      Ours' /\ InMasters' = InMasters /\ InSlaves' = InSlaves \cup {e}
<1>1. \A e \in Made' : e \in Ends /\ Daemon(e)' \in Daemons
  <2>1. ConnOK' => \A e \in Made' : e \in Ends /\ Daemon(e)' \in Daemons
    <3> SUFFICES ASSUME ConnOK', NEW e \in Made' PROVE e \in Ends /\ Daemon(e)' \in Daemons
      OBVIOUS
    <3>1. e \in Ends /\ e.conn <= Len(conn') /\ e.conn \in 1 .. MaxConn /\ Len(conn') \in Nat
      BY PeerEnds, SetOf DEF Made, ConnOK
    <3>2. e.conn \in 1 .. Len(conn')
      BY <3>1, ConstantsAssumption
    <3>3. conn'[e.conn] \in [client : Daemons, server : Daemons, from : IPs]
      BY <3>2, ElementOfSeq DEF ConnOK
    <3> QED
      BY <3>1, <3>3, PeerEnds DEF Daemon
  <2> QED
    BY <2>1 DEF TypeOK, ConnOK
<1>2. \A e \in Made : e \in Made' /\ e \in Ends /\ Daemon(e)' = Daemon(e)
  BY DEF EndsStay, Made
<1>3. \A d \in Daemons :
        /\ \A e \in ToSet(masters[d]) : e \in Made /\ Daemon(e) = d
        /\ \A e \in ToSet(slaves[d]) : e \in Made /\ Daemon(e) = d
        /\ \A e \in Ends : Single(masters[d], e) /\ Single(slaves[d], e)
  BY DEF Links, Ours
<1>4. /\ \A e \in Made' : e \in InMasters <=> e \in ToSet(masters[Daemon(e)'])
      /\ \A e \in Made' : e \in InSlaves <=> e \in ToSet(slaves[Daemon(e)'])
      /\ InMasters \subseteq Made' /\ InSlaves \subseteq Made'
  BY <1>1, <1>2, <1>3 DEF InMasters, InSlaves
<1>5. /\ InMasters' = {e \in Made' : e \in ToSet(masters'[Daemon(e)'])}
      /\ InSlaves' = {e \in Made' : e \in ToSet(slaves'[Daemon(e)'])}
  BY DEF InMasters, InSlaves
<1>6. ASSUME UNCHANGED <<masters, slaves>> PROVE Ours' /\ InMasters' = InMasters /\ InSlaves' = InSlaves
  <2>1. Ours'
    BY <1>2, <1>3, <1>6 DEF Ours
  <2> QED
    BY <1>4, <1>5, <1>6, <2>1
<1>7. ASSUME NEW d \in Daemons, NEW e \in Made', MasterOf(d, e), UNCHANGED slaves, Daemon(e)' = d, e \notin InMasters
      PROVE  Ours' /\ InMasters' = InMasters \cup {e} /\ InSlaves' = InSlaves
  <2>1. \A x \in Daemons :
          /\ x = d => masters'[x] = Append(masters[x], e) /\ ToSet(masters'[x]) = ToSet(masters[x]) \cup {e}
          /\ x # d => masters'[x] = masters[x]
    BY <1>7 DEF MasterOf
  <2>2. e \notin ToSet(masters[d])
    BY <1>4, <1>7
  <2>3. ASSUME NEW x \in Daemons, NEW f \in Ends PROVE Single(masters'[x], f)
    <3>1. CASE x = d
      <4>1. masters[d] \in Seq(Ends) /\ e \in Ends
        BY <1>1, TypeParts
      <4>2. Single(masters[d], f) /\ (e = f => f \notin ToSet(masters[d]))
        BY <1>3, <2>2
      <4>3. Single(Append(masters[d], e), f)
        BY <4>1, <4>2, SingleAppend
      <4> QED
        BY <2>1, <3>1, <4>3
    <3>2. CASE x # d
      BY <1>3, <2>1, <3>2
    <3> QED
      BY <3>1, <3>2
  <2>4. ASSUME NEW x \in Daemons PROVE \A f \in ToSet(masters'[x]) : f \in Made' /\ Daemon(f)' = x
    BY <1>2, <1>3, <1>7, <2>1
  <2>5. ASSUME NEW x \in Daemons PROVE \A f \in ToSet(slaves'[x]) : f \in Made' /\ Daemon(f)' = x
    BY <1>2, <1>3, <1>7
  <2>6. Ours'
    BY <1>3, <1>7, <2>3, <2>4, <2>5 DEF Ours
  <2>7. \A f \in Made' : f \in ToSet(masters'[Daemon(f)']) <=> f \in InMasters \/ f = e
    <3> SUFFICES ASSUME NEW f \in Made' PROVE f \in ToSet(masters'[Daemon(f)']) <=> f \in InMasters \/ f = e
      OBVIOUS
    <3>1. CASE Daemon(f)' = d
      BY <1>4, <1>7, <2>1, <3>1
    <3>2. CASE Daemon(f)' # d
      BY <1>1, <1>4, <1>7, <2>1, <3>2
    <3> QED
      BY <3>1, <3>2
  <2>8. InMasters' = InMasters \cup {e}
    BY <1>4, <1>5, <1>7, <2>7
  <2> QED
    BY <1>4, <1>5, <1>7, <2>6, <2>8
<1>8. ASSUME NEW d \in Daemons, NEW e \in Made', SlaveOf(d, e), UNCHANGED masters, Daemon(e)' = d, e \notin InSlaves
      PROVE  Ours' /\ InMasters' = InMasters /\ InSlaves' = InSlaves \cup {e}
  <2>1. \A x \in Daemons :
          /\ x = d => slaves'[x] = Append(slaves[x], e) /\ ToSet(slaves'[x]) = ToSet(slaves[x]) \cup {e}
          /\ x # d => slaves'[x] = slaves[x]
    BY <1>8 DEF SlaveOf
  <2>2. e \notin ToSet(slaves[d])
    BY <1>4, <1>8
  <2>3. ASSUME NEW x \in Daemons, NEW f \in Ends PROVE Single(slaves'[x], f)
    <3>1. CASE x = d
      <4>1. slaves[d] \in Seq(Ends) /\ e \in Ends
        BY <1>1, TypeParts
      <4>2. Single(slaves[d], f) /\ (e = f => f \notin ToSet(slaves[d]))
        BY <1>3, <2>2
      <4>3. Single(Append(slaves[d], e), f)
        BY <4>1, <4>2, SingleAppend
      <4> QED
        BY <2>1, <3>1, <4>3
    <3>2. CASE x # d
      BY <1>3, <2>1, <3>2
    <3> QED
      BY <3>1, <3>2
  <2>4. ASSUME NEW x \in Daemons PROVE \A f \in ToSet(slaves'[x]) : f \in Made' /\ Daemon(f)' = x
    BY <1>2, <1>3, <1>8, <2>1
  <2>5. ASSUME NEW x \in Daemons PROVE \A f \in ToSet(masters'[x]) : f \in Made' /\ Daemon(f)' = x
    BY <1>2, <1>3, <1>8
  <2>6. Ours'
    BY <1>3, <1>8, <2>3, <2>4, <2>5 DEF Ours
  <2>7. \A f \in Made' : f \in ToSet(slaves'[Daemon(f)']) <=> f \in InSlaves \/ f = e
    <3> SUFFICES ASSUME NEW f \in Made' PROVE f \in ToSet(slaves'[Daemon(f)']) <=> f \in InSlaves \/ f = e
      OBVIOUS
    <3>1. CASE Daemon(f)' = d
      BY <1>4, <1>8, <2>1, <3>1
    <3>2. CASE Daemon(f)' # d
      BY <1>1, <1>4, <1>8, <2>1, <3>2
    <3> QED
      BY <3>1, <3>2
  <2>8. InSlaves' = InSlaves \cup {e}
    BY <1>4, <1>5, <1>8, <2>7
  <2> QED
    BY <1>4, <1>5, <1>8, <2>6, <2>8
<1> QED
  BY <1>6, <1>7, <1>8

(* What Tasked says of a thread t that does x.                             *)
Sound(t, x) ==
    /\ x.pc = "welcome" =>
          t \in Made /\ x.end = t /\ t.side = "server" /\ t \in ToSet(slaves[Daemon(t)])
    /\ x.pc = "send" =>
          \/ /\ x.to = "masters" /\ x.next = Idle
             /\ x.msg.cmd \in {"notify_subscription", "model"}
             /\ masters[At(t)] # <<>>
          \/ /\ x.to = "slaves" /\ x.msg.cmd = "set_topology"
             /\ x.next = [pc |-> "read", model |-> x.msg.model]

(* The arrays grow.                                                        *)
Growing ==
    /\ InMasters \subseteq InMasters' /\ InSlaves \subseteq InSlaves'
    /\ \A c \in MadeClients : c \in InMasters' => c \in InMasters
    /\ \A d \in Daemons : masters[d] # <<>> => masters'[d] # <<>>

(* A root_welcome is put where it belongs.                                 *)
Greets(g, P) ==
    Cmd("root_welcome") \in P =>
        IF g.side = "client" THEN g \in InMasters' ELSE Peer(g) \notin InMasters'

LEMMA LatentStep ==
    ASSUME TypeOK, TypeOK', Links, NEW t, NEW x, NEW e, NEW m, NEW g, NEW P, Effect(t, x, e, m, g, P),
           t \in Ends => t \in Made' \/ x = Idle, P = {} \/ g \in Made',
           \A d \in Daemons : root_host'[d] # None => root_host'[d] \in Made'
    PROVE  Latent'
<1>1. ASSUME NEW f \in Ends, f \notin Made' PROVE inbox'[f] = <<>> /\ task'[f] = Idle
  <2>1. f \notin Made /\ f \in Threads
    BY <1>1, TypeParts DEF Effect, EndsStay
  <2>2. inbox[f] = <<>> /\ task[f] = Idle
    BY <2>1 DEF Links, Latent
  <2>3. task'[f] = Idle
    BY <1>1, <2>1, <2>2 DEF Effect, Turns
  <2>4. ToSet(<<>>) = {}
    BY EmptySeq, SetOf
  <2>5. ToSet(inbox'[f]) = {}
    BY <1>1, <2>2, <2>4 DEF Effect, Mails
  <2>6. inbox'[f] \in Seq(Commands)
    BY DEF TypeOK
  <2>7. inbox'[f] = <<>>
    BY <2>5, <2>6, SetOf
  <2> QED
    BY <2>3, <2>7
<1>2. ASSUME NEW r \in todo' PROVE task'[r] = Idle
  <2>1. r \in todo /\ r # t /\ r \in Threads
    BY <1>2, TypeParts DEF Effect
  <2>2. task[r] = Idle
    BY <2>1 DEF Links, Latent
  <2> QED
    BY <2>1, <2>2 DEF Effect, Turns
<1> QED
  BY <1>1, <1>2 DEF Latent

LEMMA TaskedStep ==
    ASSUME TypeOK, TypeOK', Links, NEW t, NEW x, Turns(t, x), EndsStay, Sound(t, x)', Growing
    PROVE  Tasked'
<1>1. Threads' = Threads
  BY DEF EndsStay
<1>2. ASSUME NEW u \in Threads, u # t PROVE Sound(u, task[u])'
  <2>1. task'[u] = task[u]
    BY <1>2 DEF Turns
  <2>2. CASE task[u] = Idle
    BY <2>1, <2>2 DEF Sound, Idle
  <2>3. CASE task[u] # Idle
    <3>1. u \in Made \cup made /\ At(u) \in Daemons
      BY <2>3, WorkingIsMade
    <3>2. u \in Requests \/ (u \in Made /\ u \notin Requests)
      BY <3>1, EndsOrRequests DEF TypeOK, Made
    <3>3. At(u)' = At(u)
      BY <3>2 DEF At, EndsStay
    <3>4. Sound(u, task[u])
      BY DEF Links, Tasked, Sound
    <3>5. u \in Made /\ u \in ToSet(slaves[Daemon(u)]) => u \in Made' /\ u \in ToSet(slaves'[Daemon(u)'])
      BY DEF Growing, InSlaves
    <3>6. masters[At(u)] # <<>> => masters'[At(u)'] # <<>>
      BY <3>1, <3>3 DEF Growing
    <3> QED
      BY <2>1, <3>4, <3>5, <3>6 DEF Sound
  <2> QED
    BY <2>2, <2>3
<1>3. ASSUME NEW u \in Threads PROVE Sound(u, task[u])'
  <2>1. CASE u = t
    <3>1. task'[u] = x
      BY <2>1 DEF Turns
    <3> QED
      BY <2>1, <3>1 DEF Sound
  <2> QED
    BY <1>2, <2>1
<1> QED
  BY <1>1, <1>3 DEF Tasked, Sound

LEMMA WelcomedStep ==
    ASSUME TypeOK, Links, NEW e, NEW m, NEW g, NEW P, Mails(e, m, g, P), EndsStay, Growing, Greets(g, P)
    PROVE  Welcomed'
<1> SUFFICES ASSUME NEW f \in Made', Cmd("root_welcome") \in ToSet(inbox'[f])
             PROVE  IF f.side = "client" THEN Begun("enter", f)' ELSE ~Begun("enter", Peer(f))'
  BY DEF Welcomed
<1>1. f \in Ends /\ Peer(f) \in Made'
  BY PeerEnds DEF Made
<1>2. \A c \in Made' : Begun("enter", c)' <=> c \in InMasters'
  BY DEF Begun, ClientArray, InMasters
<1>3. Cmd("root_welcome") \in ToSet(inbox[f]) \/ (f = g /\ Cmd("root_welcome") \in P)
  BY <1>1 DEF Mails
<1>4. CASE f = g /\ Cmd("root_welcome") \in P
  BY <1>1, <1>2, <1>4 DEF Greets
<1>5. CASE Cmd("root_welcome") \in ToSet(inbox[f])
  <2>1. f \in Made
    <3>1. ToSet(<<>>) = {}
      BY EmptySeq, SetOf
    <3> QED
      BY <1>1, <1>5, <3>1 DEF Links, Latent
  <2>2. Peer(f) \in Made /\ (f.side # "client" => Peer(f) \in MadeClients)
    BY <2>1, PeerEnds DEF Made, MadeClients
  <2>3. IF f.side = "client" THEN f \in InMasters ELSE Peer(f) \notin InMasters
    BY <1>5, <2>1, <2>2 DEF Links, Welcomed, Begun, ClientArray, InMasters
  <2> QED
    BY <1>1, <1>2, <2>2, <2>3 DEF Growing
<1> QED
  BY <1>3, <1>4, <1>5

(* The ends of a new connection are in none of the sets.                   *)
LEMMA OldOnes ==
    ASSUME TypeOK, Links, NEW k \in LinkKinds
    PROVE  /\ InMasters \subseteq Made /\ InSlaves \subseteq Made
           /\ WaitsOf(k) \subseteq MadeClients /\ ToldOf(k) \subseteq MadeClients
           /\ \A c \in Ends : Peer(c) \in Made <=> c \in Made
           /\ \A c \in Ends : c \notin Made => c \notin InMasters /\ c \notin InSlaves
                  /\ c \notin WaitsOf(k) /\ c \notin ToldOf(k)
                  /\ Peer(c) \notin InMasters /\ Peer(c) \notin InSlaves
BY PeerEnds DEF InMasters, InSlaves, WaitsOf, ToldOf, MadeClients, Made

LEMMA LinksFrom ==
    ASSUME TypeOK, TypeOK', Links, NEW t, NEW x, NEW e, NEW m, NEW g, NEW P, Effect(t, x, e, m, g, P),
           t \in Ends => t \in Made' \/ x = Idle, P = {} \/ g \in Made',
           \A d \in Daemons : root_host'[d] # None => root_host'[d] \in Made',
           Sound(t, x)', Growing, Greets(g, P), Ours',
           \A k \in LinkKinds : OneWaits(k)' /\ OneTold(k)' /\ Phases(k)',
           \A c \in MadeClients' : ~(c \in InMasters' /\ c \in InSlaves')
    PROVE  Links'
<1>1. Latent'
  BY LatentStep
<1>2. EndsStay /\ Turns(t, x) /\ Mails(e, m, g, P)
  BY DEF Effect
<1>3. Tasked'
  BY <1>2, TaskedStep
<1>4. Welcomed'
  BY <1>2, WelcomedStep
<1>5. \A k \in LinkKinds : Handshake(k)'
  BY PhasesTo
<1>6. OneKind'
  BY DEF OneKind, Begun, ClientArray, InMasters, InSlaves, MadeClients
<1> QED
  BY <1>1, <1>3, <1>4, <1>5, <1>6 DEF Links

(* Neither hand is shaken.                                                 *)
LEMMA LinksSame ==
    ASSUME TypeOK, TypeOK', Links, NEW t, NEW x, NEW e, NEW m, NEW g, NEW P, Effect(t, x, e, m, g, P),
           t \in Ends => t \in Made' \/ x = Idle, P = {} \/ g \in Made',
           \A d \in Daemons : root_host'[d] # None => root_host'[d] \in Made',
           Sound(t, x)', UNCHANGED <<masters, slaves>>,
           Cmd("root_welcome") \in P => IF g.side = "client" THEN g \in InMasters ELSE Peer(g) \notin InMasters,
           \A k \in LinkKinds :
               /\ task[t].pc # Pc(k) /\ x.pc # Pc(k) /\ Hello(k) \notin P
               /\ e \in Ends => m # Hello(k)
    PROVE  Links'
<1>1. EndsStay /\ Turns(t, x) /\ Mails(e, m, g, P)
  BY DEF Effect
<1>2. Ours' /\ InMasters' = InMasters /\ InSlaves' = InSlaves
  BY <1>1, ArraysStep
<1>3. Growing /\ Greets(g, P)
  BY <1>2 DEF Growing, Greets
<1>4. ASSUME NEW k \in LinkKinds
      PROVE  OneWaits(k)' /\ OneTold(k)' /\ WaitsOf(k)' = WaitsOf(k) /\ ToldOf(k)' = ToldOf(k)
  BY <1>1, WaitsStep, ToldStep
<1>5. \A c \in MadeClients' : c \in MadeClients \/ (c \in Ends /\ c \notin Made)
  BY DEF MadeClients, Made
<1>6. \A k \in LinkKinds : OneWaits(k)' /\ OneTold(k)' /\ Phases(k)'
  <2> SUFFICES ASSUME NEW k \in LinkKinds PROVE Phases(k)'
    BY <1>4
  <2>1. Phases(k)
    BY PhasesOf DEF Links
  <2>2. \A c \in Ends : c \notin Made => c \notin InMasters /\ c \notin InSlaves
                  /\ c \notin WaitsOf(k) /\ c \notin ToldOf(k)
                  /\ Peer(c) \notin InMasters /\ Peer(c) \notin InSlaves
    BY OldOnes
  <2>3. InClient(k)' = InClient(k) /\ InServer(k)' = InServer(k)
    BY <1>2 DEF InClient, InServer
  <2>4. \A c \in Ends : c \notin Made => c \notin InClient(k) /\ Peer(c) \notin InServer(k)
    BY <2>2 DEF InClient, InServer
  <2> QED
    BY <1>4, <1>5, <2>1, <2>2, <2>3, <2>4 DEF Phases
<1>7. \A c \in MadeClients' : ~(c \in InMasters' /\ c \in InSlaves')
  <2>1. \A c \in MadeClients : ~(c \in InMasters /\ c \in InSlaves)
    BY DEF Links, OneKind, Begun, ClientArray, InMasters, InSlaves
  <2>2. \A c \in Ends : c \notin Made => c \notin InMasters
    BY DEF InMasters
  <2> QED
    BY <1>2, <1>5, <2>1, <2>2
<1> QED
  BY <1>2, <1>3, <1>6, <1>7, LinksFrom

LEMMA Hellos ==
    /\ Pc("enter") = "subscribe" /\ Pc("invite") = "join"
    /\ Hello("enter") = Cmd("subscribe") /\ Hello("invite") = Cmd("add_to_network")
    /\ \A k \in LinkKinds :
          /\ Pc(k) \in {"subscribe", "join"} /\ Hello(k).cmd \in {"subscribe", "add_to_network"}
          /\ Hello(k) # Cmd("root_welcome")
    /\ \A c, d : c # d => Cmd(c) # Cmd(d)
    /\ \A c : Cmd(c).cmd = c
    /\ LinkKinds = {"enter", "invite"}
BY DEF Pc, Hello, Cmd, LinkKinds

(* Who is idle or works on a model is not shaking hands.                   *)
LEMMA TakesUpSound ==
    ASSUME TypeOK, Links, NEW t, NEW d, NEW m, NEW x, Takes_up(d, m, x), d = At(t)
    PROVE  Sound(t, x) /\ x.pc \in {"invite", "send"}
BY DEF Takes_up, Sound, SetTopology, PassUp, Broadcast

LEMMA SoundSame ==
    ASSUME NEW t, NEW x, Sound(t, x), UNCHANGED <<conn, masters, slaves>>
    PROVE  Sound(t, x)'
BY DEF Sound, At, Daemon, Made

(* The steps that shake no hand. *)
LEMMA LinksStepSame ==
    ASSUME TypeOK, TypeOK', Links,
           \/ \E r \in todo : Alone(r) \/ com_model(r)
           \/ \E e \in Ends :
                 \/ Welcome(e) \/ agml_command_notify_subscription(e) \/ agml_command_root_welcome(e)
                 \/ agml_command_model(e) \/ agml_command_set_topology(e)
           \/ \E t \in Threads : Decide(t) \/ Send(t) \/ Read(t)
    PROVE  Links'
<1>1. /\ Idle.pc = "idle" /\ \A t : Sound(t, Idle)'
      /\ \A k \in LinkKinds : Idle.pc # Pc(k)
  BY Hellos DEF Sound, Idle
<1>2. \A d \in Daemons : root_host[d] # None => root_host[d] \in Made
  BY DEF Links, Latent
<1>3. None \notin Ends
  BY ConstantsAssumption
<1>4. UNCHANGED conn => Made' = Made
  BY DEF Made
<1>5. \A k \in LinkKinds : Pc(k) \in {"subscribe", "join"}
                /\ Hello(k).cmd \in {"subscribe", "add_to_network"} /\ Hello(k) # Cmd("root_welcome")
  BY Hellos
<1>6. \A e \in Made : e \in Ends /\ Peer(e) \in Made
  BY PeerEnds DEF Made
<1>7. ASSUME NEW r \in todo, Alone(r) PROVE Links'
  <2>1. Effect(r, Idle, None, None, None, {}) /\ UNCHANGED <<conn, masters, slaves, root_host>>
    BY <1>7, AloneEffect DEF Turned
  <2>2. task[r].pc = "idle"
    BY <1>1 DEF Links, Latent
  <2>3. \A k \in LinkKinds : task[r].pc # Pc(k)
    BY <1>5, <2>2
  <2> QED
    BY <1>1, <1>2, <1>3, <1>4, <2>1, <2>3, LinksSame
<1>8. ASSUME NEW r \in todo, com_model(r) PROVE Links'
  <2>1. PICK x \in Tasks : Takes_up(r.at, r, x) /\ Turned(r, x)
    BY <1>8, AskEffect
  <2>2. Effect(r, x, None, None, None, {}) /\ UNCHANGED <<conn, masters, slaves, root_host>> /\ At(r) = r.at
        /\ task[r] = Idle /\ r \in Requests
    BY <1>8, <2>1, AskEffect DEF Turned, Requests
  <2>3. Sound(r, x) /\ x.pc \in {"invite", "send"}
    BY <2>1, <2>2, TakesUpSound
  <2>4. Sound(r, x)'
    BY <2>2, <2>3, SoundSame
  <2>5. r \notin Ends
    BY <2>2, EndsOrRequests
  <2>6. \A k \in LinkKinds : task[r].pc # Pc(k) /\ x.pc # Pc(k)
    BY <1>1, <1>5, <2>2, <2>3
  <2> QED
    BY <1>1, <1>2, <1>3, <1>4, <2>2, <2>4, <2>5, <2>6, LinksSame
<1>9. ASSUME NEW e \in Ends, Welcome(e) PROVE Links'
  <2>1. /\ e \in Made /\ e.side = "server" /\ task[e].pc = "welcome" /\ e \in ToSet(slaves[Daemon(e)]) /\ At(e) = Daemon(e)
        /\ UNCHANGED <<conn, masters, slaves, root_host>>
    BY <1>9, WelcomeEffect
  <2>2. \A k \in LinkKinds : task[e].pc # Pc(k)
    BY <1>5, <2>1
  <2>3. CASE Effect(e, Idle, None, None, Peer(e), {Cmd("root_welcome")})
    <3>1. Peer(e) \in Made /\ Peer(e) \in MadeClients /\ Peer(Peer(e)) = e /\ Peer(e).side = "client"
      BY <1>6, <2>1, PeerEnds DEF MadeClients
    <3>2. Peer(e) \in InMasters
      <4>1. Phases("enter") /\ e \in InSlaves
        BY <2>1, PhasesOf DEF Links, LinkKinds, InSlaves
      <4> QED
        BY <3>1, <4>1 DEF Phases, InClient, InServer
    <3>3. \A k \in LinkKinds : Hello(k) \notin {Cmd("root_welcome")}
      BY <1>5
    <3> QED
      BY <1>1, <1>2, <1>3, <1>4, <2>1, <2>2, <2>3, <3>1, <3>2, <3>3, LinksSame
  <2>4. CASE masters[Daemon(e)] # <<>> /\ Turned(e, TellMasters(e))
    <3>1. PICK x : x = TellMasters(e)
      OBVIOUS
    <3>2. x.pc = "send" /\ Sound(e, x)
      BY <2>1, <2>4, <3>1 DEF TellMasters, Broadcast, Sound
    <3>3. Sound(e, x)' /\ \A k \in LinkKinds : x.pc # Pc(k)
      BY <1>5, <2>1, <3>2, SoundSame
    <3>4. Effect(e, x, None, None, None, {})
      BY <2>4, <3>1 DEF Turned
    <3> QED
      BY <1>2, <1>3, <1>4, <2>1, <2>2, <3>3, <3>4, LinksSame
  <2> QED
    BY <1>9, <2>3, <2>4, WelcomeEffect
<1>10. ASSUME NEW e \in Ends, agml_command_notify_subscription(e) PROVE Links'
  <2>1. PICK m \in Commands :
           /\ m = Head(inbox[e]) /\ m.cmd = "notify_subscription" /\ m \in ToSet(inbox[e])
           /\ e \in Made /\ task[e] = Idle
           /\ UNCHANGED <<masters, slaves, root_host>>
           /\ \/ \E n \in Ends : Connects(Daemon(e), m.who, n)
                       /\ Effect(e, Idle, e, m, Peer(n), {Cmd("root_welcome")})
              \/ UNCHANGED conn /\ Effect(e, Idle, e, m, None, {})
              \/ UNCHANGED conn /\ root_host[Daemon(e)] \in Made
                    /\ Effect(e, Idle, e, m, Peer(root_host[Daemon(e)]), {m})
              \/ UNCHANGED conn /\ Effect(e, Idle, None, None, None, {})
    BY <1>10, NotifyEffect DEF Turned
  <2>2. \A k \in LinkKinds : task[e].pc # Pc(k) /\ m # Hello(k)
    BY <1>1, <1>5, <2>1
  <2>3. ASSUME NEW n \in Ends, Connects(Daemon(e), m.who, n), Effect(e, Idle, e, m, Peer(n), {Cmd("root_welcome")})
        PROVE  Links'
    <3>1. Made' = Made \cup {n, Peer(n)} /\ n \notin Made /\ n.side = "client"
      BY <2>3 DEF Connects
    <3>2. Peer(n).side = "server" /\ Peer(Peer(n)) = n /\ n \notin InMasters
      BY <3>1, PeerEnds DEF InMasters
    <3>3. \A k \in LinkKinds : Hello(k) \notin {Cmd("root_welcome")}
      BY <1>5
    <3>4. \A d \in Daemons : root_host'[d] # None => root_host'[d] \in Made'
      BY <1>2, <2>1, <3>1
    <3> QED
      BY <1>1, <2>1, <2>2, <2>3, <3>1, <3>2, <3>3, <3>4, LinksSame
  <2>4. CASE UNCHANGED conn /\ Effect(e, Idle, e, m, None, {})
    BY <1>1, <1>2, <1>4, <2>1, <2>2, <2>4, LinksSame
  <2>5. CASE UNCHANGED conn /\ root_host[Daemon(e)] \in Made
              /\ Effect(e, Idle, e, m, Peer(root_host[Daemon(e)]), {m})
    <3>1. PICK g : g = Peer(root_host[Daemon(e)])
      OBVIOUS
    <3>2. g \in Made /\ m # Cmd("root_welcome") /\ Effect(e, Idle, e, m, g, {m})
      BY <1>6, <2>1, <2>5, <3>1, Hellos
    <3> QED
      BY <1>1, <1>2, <1>4, <2>1, <2>2, <2>5, <3>2, LinksSame
  <2>6. CASE UNCHANGED conn /\ Effect(e, Idle, None, None, None, {})
    BY <1>1, <1>2, <1>3, <1>4, <2>1, <2>2, <2>6, LinksSame
  <2> QED
    BY <2>1, <2>3, <2>4, <2>5, <2>6
<1>11. ASSUME NEW e \in Ends, agml_command_root_welcome(e) PROVE Links'
  <2>1. /\ e \in Made /\ Daemon(e) \in Daemons /\ task[e] = Idle
        /\ root_host' = [root_host EXCEPT ![Daemon(e)] = e]
        /\ UNCHANGED <<conn, masters, slaves>>
        /\ Effect(e, Idle, e, Cmd("root_welcome"), None, {})
    BY <1>11, RootWelcomeEffect
  <2>2. \A d \in Daemons : root_host'[d] # None => root_host'[d] \in Made'
    BY <1>2, <1>4, <2>1 DEF TypeOK
  <2>3. \A k \in LinkKinds : task[e].pc # Pc(k) /\ Cmd("root_welcome") # Hello(k)
    BY <1>1, <1>5, <2>1
  <2>4. PICK m : m = Cmd("root_welcome")
    OBVIOUS
  <2>5. Effect(e, Idle, e, m, None, {})
    BY <2>1, <2>4
  <2> QED
    BY <1>1, <1>4, <2>1, <2>2, <2>3, <2>4, <2>5, LinksSame
<1>12. ASSUME NEW e \in Ends, agml_command_model(e) PROVE Links'
  <2>1. /\ e \in Made /\ At(e) = Daemon(e) /\ task[e] = Idle
        /\ UNCHANGED <<conn, masters, slaves, root_host>>
    BY <1>12, PassEffect
  <2>2. PICK x \in Tasks, m \in Models, c \in Commands :
          c = [cmd |-> "model", model |-> m] /\ Takes_up(Daemon(e), m, x) /\ Effect(e, x, e, c, None, {})
    BY <1>12, PassEffect
  <2>3. Sound(e, x) /\ x.pc \in {"invite", "send"}
    BY <2>1, <2>2, TakesUpSound
  <2>4. Sound(e, x)'
    BY <2>1, <2>3, SoundSame
  <2>5. \A k \in LinkKinds : task[e].pc # Pc(k) /\ x.pc # Pc(k) /\ c # Hello(k)
    BY <1>1, <1>5, <2>1, <2>2, <2>3
  <2> QED
    BY <1>2, <1>4, <2>1, <2>2, <2>4, <2>5, LinksSame
<1>13. ASSUME NEW e \in Ends, agml_command_set_topology(e) PROVE Links'
  <2>1. /\ e \in Made /\ At(e) = Daemon(e) /\ task[e] = Idle
        /\ UNCHANGED <<conn, masters, slaves, root_host>>
    BY <1>13, SetTopologyEffect
  <2>2. PICK m \in Models, c \in Commands :
          c = [cmd |-> "set_topology", model |-> m] /\ Effect(e, SetTopology(Daemon(e), m), e, c, None, {})
    BY <1>13, SetTopologyEffect
  <2>3. PICK x : x = SetTopology(Daemon(e), m)
    OBVIOUS
  <2>4. Sound(e, x) /\ x.pc = "send"
    BY <2>3 DEF Sound, SetTopology, Broadcast
  <2>5. Sound(e, x)'
    BY <2>1, <2>4, SoundSame
  <2>6. \A k \in LinkKinds : task[e].pc # Pc(k) /\ x.pc # Pc(k) /\ c # Hello(k)
    BY <1>1, <1>5, <2>1, <2>2, <2>4
  <2>7. Effect(e, x, e, c, None, {})
    BY <2>2, <2>3
  <2> QED
    BY <1>2, <1>4, <2>1, <2>5, <2>6, <2>7, LinksSame
<1>14. ASSUME NEW t \in Threads, Decide(t) PROVE Links'
  <2>1. task[t].pc = "invite" /\ t \in Made \cup made /\ UNCHANGED <<conn, masters, slaves, root_host>>
    BY <1>14, DecideEffect
  <2>2. PICK x \in Tasks : Takes_up(At(t), task[t].model, x) /\ x.pc = "send" /\ Effect(t, x, None, None, None, {})
    BY <1>14, DecideEffect DEF Turned
  <2>3. Sound(t, x)
    BY <2>2, TakesUpSound
  <2>4. Sound(t, x)'
    BY <2>1, <2>3, SoundSame
  <2>5. \A k \in LinkKinds : task[t].pc # Pc(k) /\ x.pc # Pc(k)
    BY <1>5, <2>1, <2>2
  <2>6. t \in Ends => t \in Made
    BY <2>1, EndsOrRequests DEF TypeOK
  <2> QED
    BY <1>2, <1>3, <1>4, <2>1, <2>2, <2>4, <2>5, <2>6, LinksSame
<1>15. ASSUME NEW t \in Threads, Send(t) PROVE Links'
  <2>1. task[t].pc = "send" /\ t \in Made \cup made /\ UNCHANGED <<conn, masters, slaves, root_host>>
    BY <1>15, SendEffect
  <2>2. Sound(t, task[t])
    BY DEF Links, Tasked, Sound
  <2>3. t \in Ends => t \in Made
    BY <2>1, EndsOrRequests DEF TypeOK
  <2>4. \A k \in LinkKinds : task[t].pc # Pc(k)
    BY <1>5, <2>1
  <2>5. ASSUME NEW h \in Made, NEW x \in Tasks,
               x.pc = "send", x.to = task[t].to, x.msg = task[t].msg, x.next = task[t].next,
               Effect(t, x, None, None, Peer(h), {task[t].msg})
        PROVE  Links'
    <3>1. Sound(t, x)
      BY <2>1, <2>2, <2>5 DEF Sound
    <3>2. Sound(t, x)'
      BY <2>1, <3>1, SoundSame
    <3>3. task[t].msg.cmd \in {"notify_subscription", "model", "set_topology"}
      BY <2>1, <2>2 DEF Sound
    <3>4. PICK c : c = task[t].msg
      OBVIOUS
    <3>5. c # Cmd("root_welcome") /\ \A k \in LinkKinds : c # Hello(k) /\ x.pc # Pc(k)
      BY <1>5, <2>5, <3>3, <3>4, Hellos
    <3>6. Effect(t, x, None, None, Peer(h), {c}) /\ Peer(h) \in Made
      BY <1>6, <2>5, <3>4
    <3> QED
      BY <1>2, <1>3, <1>4, <2>1, <2>3, <2>4, <3>2, <3>5, <3>6, LinksSame
  <2>6. CASE Turned(t, task[t].next)
    <3>1. PICK x : x = task[t].next
      OBVIOUS
    <3>2. x = Idle \/ x = [pc |-> "read", model |-> task[t].msg.model]
      BY <2>1, <2>2, <3>1 DEF Sound
    <3>3. x.pc \in {"idle", "read"}
      BY <3>2 DEF Idle
    <3>4. Sound(t, x)' /\ \A k \in LinkKinds : x.pc # Pc(k)
      BY <1>5, <3>3 DEF Sound
    <3>5. Effect(t, x, None, None, None, {})
      BY <2>6, <3>1 DEF Turned
    <3> QED
      BY <1>2, <1>3, <1>4, <2>1, <2>3, <2>4, <3>4, <3>5, LinksSame
  <2> QED
    BY <1>15, <2>5, <2>6, SendEffect
<1>16. ASSUME NEW t \in Threads, Read(t) PROVE Links'
  <2>1. task[t].pc = "read" /\ t \in Made \cup made /\ UNCHANGED <<conn, masters, slaves, root_host>>
        /\ Effect(t, Idle, None, None, None, {})
    BY <1>16, ReadEffect DEF Turned
  <2>2. t \in Ends => t \in Made
    BY <2>1, EndsOrRequests DEF TypeOK
  <2>3. \A k \in LinkKinds : task[t].pc # Pc(k)
    BY <1>5, <2>1
  <2> QED
    BY <1>1, <1>2, <1>3, <1>4, <2>1, <2>2, <2>3, LinksSame
<1> QED
  BY <1>7, <1>8, <1>9, <1>10, <1>11, <1>12, <1>13, <1>14, <1>15, <1>16

(* The steps of the two handshakes.                                        *)
LEMMA LinksEnter ==
    ASSUME TypeOK, TypeOK', Links, NEW r \in todo, com_enter_network(r)
    PROVE  Links'
<1>1. /\ task[r] = Idle /\ r \in Enters /\ r.at \in Daemons
      /\ UNCHANGED <<inbox, slaves, root_host>>
  BY EnterEffect
<1>2. PICK n \in Ends :
          /\ Connects(r.at, r.addr, n) /\ MasterOf(r.at, n)
          /\ Turned(r, [pc |-> "subscribe", end |-> n])
  BY EnterEffect
<1>3. PICK x : x = [pc |-> "subscribe", end |-> n]
  OBVIOUS
<1>4. x.pc = "subscribe" /\ x.end = n /\ Effect(r, x, None, None, None, {})
  BY <1>2, <1>3 DEF Turned
<1>5. EndsStay /\ Turns(r, x) /\ Mails(None, None, None, {})
  BY <1>4 DEF Effect
<1>6. /\ n \notin Made /\ n.side = "client" /\ Made' = Made \cup {n, Peer(n)} /\ Daemon(n)' = r.at
      /\ Peer(n).side = "server" /\ Peer(Peer(n)) = n
  BY <1>2, PeerEnds DEF Connects
<1>7. /\ n \in MadeClients' /\ MadeClients' = MadeClients \cup {n}
  BY <1>6 DEF MadeClients
<1>8. /\ n \notin InMasters /\ n \notin InSlaves
      /\ \A k \in LinkKinds : n \notin WaitsOf(k) /\ n \notin ToldOf(k) /\ Peer(n) \notin InMasters /\ Peer(n) \notin InSlaves
  <2>1. ASSUME NEW k \in LinkKinds
       PROVE  n \notin WaitsOf(k) /\ n \notin ToldOf(k) /\ Peer(n) \notin InMasters /\ Peer(n) \notin InSlaves
    BY <1>6, OldOnes
  <2> QED
    BY <1>6, <2>1 DEF InMasters, InSlaves
<1>9. Ours' /\ InMasters' = InMasters \cup {n} /\ InSlaves' = InSlaves
  BY <1>1, <1>2, <1>5, <1>6, <1>7, <1>8, ArraysStep DEF MadeClients
<1>10. task[r].pc = "idle" /\ None \notin Ends
  BY <1>1, ConstantsAssumption DEF Idle
<1>11. OneWaits("enter")' /\ WaitsOf("enter")' = WaitsOf("enter") \cup {n}
  BY <1>4, <1>5, <1>7, <1>8, <1>10, WaitsStep, Hellos
<1>12. OneWaits("invite")' /\ WaitsOf("invite")' = WaitsOf("invite")
  BY <1>4, <1>5, <1>10, WaitsStep, Hellos
<1>13. \A k \in LinkKinds : OneTold(k)' /\ ToldOf(k)' = ToldOf(k)
  BY <1>5, <1>10, ToldStep
<1>14. Phases("enter") /\ Phases("invite")
  BY PhasesOf, Hellos DEF Links
<1>15. \A k \in LinkKinds : OneWaits(k)' /\ OneTold(k)' /\ Phases(k)'
  <2>0. \A c \in MadeClients : c # n /\ Peer(c) # Peer(n) /\ Peer(c) # n
    BY <1>6, <1>8, PeerEnds DEF MadeClients, Made
  <2>1. Phases("enter")'
    BY <1>6, <1>7, <1>8, <1>9, <1>11, <1>13, <1>14, <2>0, Hellos DEF Phases, InClient, InServer
  <2>2. Phases("invite")'
    BY <1>6, <1>7, <1>8, <1>9, <1>12, <1>13, <1>14, <2>0, Hellos DEF Phases, InClient, InServer
  <2> QED
    BY <1>11, <1>12, <1>13, <2>1, <2>2, Hellos
<1>16. \A c \in MadeClients' : ~(c \in InMasters' /\ c \in InSlaves')
  <2>1. \A c \in MadeClients : ~(c \in InMasters /\ c \in InSlaves)
    BY DEF Links, OneKind, Begun, ClientArray, InMasters, InSlaves
  <2> QED
    BY <1>6, <1>7, <1>8, <1>9, <2>1 DEF MadeClients
<1>17. Growing
  <2>1. ASSUME NEW d \in Daemons, masters[d] # <<>> PROVE masters'[d] # <<>>
    <3>1. masters[d] \in Seq(Ends) /\ masters'[d] \in Seq(Ends)
      BY DEF TypeOK
    <3>2. ToSet(masters[d]) # {}
      BY <2>1, <3>1, SetOf
    <3>3. ToSet(masters[d]) \subseteq ToSet(masters'[d])
      BY <1>2 DEF MasterOf
    <3> QED
      BY <3>1, <3>2, <3>3, SetOf
  <2> QED
    BY <1>6, <1>9, <2>1 DEF Growing, MadeClients
<1>18. Sound(r, x)' /\ Greets(None, {})
  BY <1>4 DEF Sound, Greets
<1>19. \A d \in Daemons : root_host'[d] # None => root_host'[d] \in Made'
  BY <1>1, <1>6 DEF Links, Latent
<1>20. r \notin Ends
  BY <1>1, EndsOrRequests DEF Requests
<1> QED
  BY <1>4, <1>9, <1>15, <1>16, <1>17, <1>18, <1>19, <1>20, LinksFrom

LEMMA LinksJoin ==
    ASSUME TypeOK, TypeOK', Links, NEW t \in Threads, com_add_to_network(t)
    PROVE  Links'
<1>1. /\ task[t].pc = "invite" /\ task[t].model \in Models /\ t \in Made \cup made /\ At(t) \in Daemons
      /\ UNCHANGED <<inbox, masters, root_host>>
  BY JoinEffect
<1>2. None \notin Ends /\ (t \in Ends => t \in Made)
  BY <1>1, ConstantsAssumption, EndsOrRequests DEF TypeOK
<1>3. \A d \in Daemons : root_host[d] # None => root_host[d] \in Made
  BY DEF Links, Latent
<1>4. CASE \E tried \in SUBSET Known :
               /\ Turned(t, [pc |-> "invite", model |-> task[t].model, invited |-> tried])
               /\ UNCHANGED <<conn, slaves>>
  <2>1. PICK tried \in SUBSET Known :
               /\ Turned(t, [pc |-> "invite", model |-> task[t].model, invited |-> tried])
               /\ UNCHANGED <<conn, slaves>>
    BY <1>4
  <2>2. PICK x : x = [pc |-> "invite", model |-> task[t].model, invited |-> tried]
    OBVIOUS
  <2>3. x.pc = "invite" /\ Effect(t, x, None, None, None, {})
    BY <2>1, <2>2 DEF Turned
  <2>4. Made' = Made /\ Sound(t, x)'
    BY <2>1, <2>3 DEF Made, Sound
  <2>5. \A k \in LinkKinds : task[t].pc # Pc(k) /\ x.pc # Pc(k)
    BY <1>1, <2>3, Hellos
  <2> QED
    BY <1>1, <1>2, <1>3, <2>1, <2>3, <2>4, <2>5, LinksSame
<1>5. CASE \E a \in Known, tried \in SUBSET Known, n \in Ends :
               /\ Connects(At(t), a, n) /\ SlaveOf(At(t), n)
               /\ Turned(t, [pc |-> "join", end |-> n, model |-> task[t].model, invited |-> tried])
  <2>1. PICK a \in Known, tried \in SUBSET Known, n \in Ends :
               /\ Connects(At(t), a, n) /\ SlaveOf(At(t), n)
               /\ Turned(t, [pc |-> "join", end |-> n, model |-> task[t].model, invited |-> tried])
    BY <1>5
  <2>2. PICK x : x = [pc |-> "join", end |-> n, model |-> task[t].model, invited |-> tried]
    OBVIOUS
  <2>3. PICK d \in Daemons : d = At(t)
    BY <1>1
  <2>4. x.pc = "join" /\ x.end = n /\ Effect(t, x, None, None, None, {})
    BY <2>1, <2>2 DEF Turned
  <2>5. EndsStay /\ Turns(t, x) /\ Mails(None, None, None, {})
    BY <2>4 DEF Effect
  <2>6. /\ n \notin Made /\ n.side = "client" /\ Made' = Made \cup {n, Peer(n)} /\ Daemon(n)' = d
        /\ Peer(n).side = "server" /\ Peer(Peer(n)) = n
    BY <2>1, <2>3, PeerEnds DEF Connects
  <2>7. /\ n \in MadeClients' /\ MadeClients' = MadeClients \cup {n}
    BY <2>6 DEF MadeClients
  <2>8. /\ n \notin InMasters /\ n \notin InSlaves
        /\ \A k \in LinkKinds : n \notin WaitsOf(k) /\ n \notin ToldOf(k) /\ Peer(n) \notin InMasters /\ Peer(n) \notin InSlaves
    <3>1. ASSUME NEW k \in LinkKinds
         PROVE  n \notin WaitsOf(k) /\ n \notin ToldOf(k) /\ Peer(n) \notin InMasters /\ Peer(n) \notin InSlaves
      BY <2>6, OldOnes
    <3> QED
      BY <2>6, <3>1 DEF InMasters, InSlaves
  <2>9. Ours' /\ InSlaves' = InSlaves \cup {n} /\ InMasters' = InMasters
    BY <1>1, <2>1, <2>3, <2>5, <2>6, <2>7, <2>8, ArraysStep DEF MadeClients
  <2>11. OneWaits("invite")' /\ WaitsOf("invite")' = WaitsOf("invite") \cup {n}
    BY <1>1, <2>4, <2>5, <2>7, <2>8, WaitsStep, Hellos
  <2>12. OneWaits("enter")' /\ WaitsOf("enter")' = WaitsOf("enter")
    BY <1>1, <2>4, <2>5, WaitsStep, Hellos
  <2>13. \A k \in LinkKinds : OneTold(k)' /\ ToldOf(k)' = ToldOf(k)
    BY <2>5, <1>2, ToldStep
  <2>14. Phases("enter") /\ Phases("invite")
    BY PhasesOf, Hellos DEF Links
  <2>15. \A k \in LinkKinds : OneWaits(k)' /\ OneTold(k)' /\ Phases(k)'
    <3>0. \A c \in MadeClients : c # n /\ Peer(c) # Peer(n) /\ Peer(c) # n
      BY <2>6, <2>8, PeerEnds DEF MadeClients, Made
    <3>1. Phases("enter")'
      BY <2>6, <2>7, <2>8, <2>9, <2>12, <2>13, <2>14, <3>0, Hellos DEF Phases, InClient, InServer
    <3>2. Phases("invite")'
      BY <2>6, <2>7, <2>8, <2>9, <2>11, <2>13, <2>14, <3>0, Hellos DEF Phases, InClient, InServer
    <3> QED
      BY <2>11, <2>12, <2>13, <3>1, <3>2, Hellos
  <2>16. \A c \in MadeClients' : ~(c \in InMasters' /\ c \in InSlaves')
    <3>1. \A c \in MadeClients : ~(c \in InMasters /\ c \in InSlaves)
      BY DEF Links, OneKind, Begun, ClientArray, InMasters, InSlaves
    <3> QED
      BY <2>6, <2>7, <2>8, <2>9, <3>1 DEF MadeClients
  <2>17. Growing
    BY <1>1, <2>9 DEF Growing
  <2>18. Sound(t, x)' /\ Greets(None, {})
    BY <2>4 DEF Sound, Greets
  <2>19. \A y \in Daemons : root_host'[y] # None => root_host'[y] \in Made'
    BY <1>1, <1>3, <2>6
  <2> QED
    BY <1>2, <2>4, <2>6, <2>9, <2>15, <2>16, <2>17, <2>18, <2>19, LinksFrom
<1> QED
  BY <1>4, <1>5, JoinEffect

(* Clients that are told, by what their thread says.                       *)
LEMMA LinksTell ==
    ASSUME TypeOK, TypeOK', Links, NEW t \in Threads, t \in Made \cup made,
           NEW k \in LinkKinds, NEW e \in MadeClients, task[t].pc = Pc(k), e = task[t].end,
           NEW x, x.pc \in {"idle", "invite"}, NEW P, Effect(t, x, None, None, Peer(e), P),
           Hello(k) \in P, P \subseteq {Hello(k), Cmd("root_welcome")},
           k = "enter" => Cmd("root_welcome") \notin P,
           UNCHANGED <<conn, masters, slaves, root_host>>
    PROVE  Links'
<1>1. EndsStay /\ Turns(t, x) /\ Mails(None, None, Peer(e), P)
  BY DEF Effect
<1>2. Ours' /\ InMasters' = InMasters /\ InSlaves' = InSlaves
  BY <1>1, ArraysStep
<1>3. MadeClients' = MadeClients /\ Made' = Made
  BY DEF MadeClients, Made
<1>4. e \in Ends /\ Peer(e) \in Made /\ Peer(Peer(e)) = e /\ Peer(e).side = "server" /\ None \notin Ends
  BY ConstantsAssumption, PeerEnds DEF MadeClients, Made
<1>5. \A j \in LinkKinds : x.pc # Pc(j) /\ (task[t].pc = Pc(j) <=> j = k) /\ (Hello(j) \in P <=> j = k)
  BY Hellos
<1>6. /\ \A j \in LinkKinds : OneWaits(j)'
      /\ WaitsOf(k)' = WaitsOf(k) \ {e} /\ e \in WaitsOf(k)
      /\ \A j \in LinkKinds : j # k => WaitsOf(j)' = WaitsOf(j)
  BY <1>1, <1>5, WaitsStep
<1>7. Phases(k) /\ \A j \in LinkKinds : Phases(j)
  BY PhasesOf DEF Links
<1>8. e \notin ToldOf(k)
  BY <1>6, <1>7 DEF Phases
<1>9. OneTold(k)' /\ ToldOf(k)' = ToldOf(k) \cup {e}
  BY <1>1, <1>4, <1>5, <1>8, ToldStep
<1>10. \A j \in LinkKinds : j # k => OneTold(j)' /\ ToldOf(j)' = ToldOf(j)
  BY <1>1, <1>4, <1>5, ToldStep
<1>11. \A j \in LinkKinds : InClient(j)' = InClient(j) /\ InServer(j)' = InServer(j)
  BY <1>2 DEF InClient, InServer
<1>12. ASSUME NEW j \in LinkKinds PROVE OneWaits(j)' /\ OneTold(j)' /\ Phases(j)'
  <2>1. CASE j = k
    BY <1>3, <1>6, <1>7, <1>9, <1>11, <2>1 DEF Phases
  <2>2. CASE j # k
    BY <1>3, <1>6, <1>7, <1>10, <1>11, <2>2 DEF Phases
  <2> QED
    BY <2>1, <2>2
<1>13. \A c \in MadeClients : ~(c \in InMasters /\ c \in InSlaves)
  BY DEF Links, OneKind, Begun, ClientArray, InMasters, InSlaves
<1>14. Growing
  BY <1>2 DEF Growing
<1>15. Greets(Peer(e), P)
  <2> SUFFICES ASSUME Cmd("root_welcome") \in P PROVE e \notin InMasters
    BY <1>2, <1>4 DEF Greets
  <2>1. k = "invite"
    BY Hellos
  <2>2. e \in InSlaves
    BY <1>6, <1>7, <2>1 DEF Phases, InClient
  <2> QED
    BY <1>13, <2>2
<1>16. Sound(t, x)'
  BY DEF Sound
<1>17. t \in Ends => t \in Made
  BY EndsOrRequests DEF TypeOK
<1>18. \A d \in Daemons : root_host'[d] # None => root_host'[d] \in Made'
  BY <1>3 DEF Links, Latent
<1> QED
  BY <1>2, <1>3, <1>4, <1>12, <1>13, <1>14, <1>15, <1>16, <1>17, <1>18, LinksFrom

(* Servers that follow what they have been told.                           *)
LEMMA LinksFollow ==
    ASSUME TypeOK, TypeOK', Links, NEW e \in Made, NEW k \in LinkKinds, task[e] = Idle,
           Hello(k) \in ToSet(inbox[e]), NEW x, x.pc \in {"idle", "welcome"}, NEW m, m = Hello(k),
           Effect(e, x, e, m, None, {}), UNCHANGED <<conn, root_host>>,
           IF k = "enter" THEN SlaveOf(Daemon(e), e) /\ UNCHANGED masters
           ELSE MasterOf(Daemon(e), e) /\ UNCHANGED slaves,
           x.pc = "welcome" => k = "enter" /\ x.end = e
    PROVE  Links'
<1>1. EndsStay /\ Turns(e, x) /\ Mails(e, m, None, {})
  BY DEF Effect
<1>2. MadeClients' = MadeClients /\ Made' = Made /\ Daemon(e)' = Daemon(e)
  BY DEF MadeClients, Made, Daemon
<1>3. e \in Ends /\ Daemon(e) \in Daemons /\ Peer(Peer(e)) = e /\ e.side = "server" /\ Peer(e) \in MadeClients
  <2>1. e \in Ends /\ Daemon(e) \in Daemons /\ Peer(Peer(e)) = e /\ Peer(e) \in Made
    BY TypeParts, MadeEnds, PeerEnds
  <2>2. e.side = "server"
    BY <2>1, PhasesOf DEF OneTold, Links
  <2> QED
    BY <2>1, <2>2, PeerEnds DEF MadeClients
<1>4. \A j \in LinkKinds : task[e].pc # Pc(j) /\ x.pc # Pc(j) /\ (m = Hello(j) <=> j = k)
  BY Hellos DEF Idle
<1>5. \A j \in LinkKinds : OneWaits(j)' /\ WaitsOf(j)' = WaitsOf(j)
  BY <1>1, <1>4, WaitsStep
<1>6. OneTold(k)' /\ ToldOf(k)' = ToldOf(k) \ {Peer(e)} /\ Peer(e) \in ToldOf(k)
  BY <1>1, <1>3, ToldStep
<1>7. \A j \in LinkKinds : j # k => OneTold(j)' /\ ToldOf(j)' = ToldOf(j)
  BY <1>1, <1>4, ToldStep
<1>8. \A j \in LinkKinds : Phases(j)
  BY PhasesOf DEF Links
<1>9. e \notin InServer(k)
  BY <1>3, <1>6, <1>8 DEF Phases
<1>10. /\ Ours' /\ InServer(k)' = InServer(k) \cup {e} /\ InClient(k)' = InClient(k)
       /\ \A j \in LinkKinds : j # k => InServer(j)' = InClient(k) /\ InClient(j)' = InServer(k) \cup {e}
                /\ InServer(j) = InClient(k) /\ InClient(j) = InServer(k)
  <2>1. CASE k = "enter"
    <3>1. Ours' /\ InMasters' = InMasters /\ InSlaves' = InSlaves \cup {e}
      BY <1>1, <1>2, <1>3, <1>9, <2>1, ArraysStep DEF InServer
    <3> QED
      BY <2>1, <3>1, Hellos DEF InServer, InClient
  <2>2. CASE k = "invite"
    <3>1. Ours' /\ InSlaves' = InSlaves /\ InMasters' = InMasters \cup {e}
      BY <1>1, <1>2, <1>3, <1>9, <2>2, ArraysStep DEF InServer
    <3> QED
      BY <2>2, <3>1, Hellos DEF InServer, InClient
  <2> QED
    BY <2>1, <2>2, Hellos
<1>11. \A c \in MadeClients : c # e /\ (Peer(c) = e <=> c = Peer(e))
  BY <1>3, PeerEnds DEF MadeClients, Made
<1>12. ASSUME NEW j \in LinkKinds PROVE OneWaits(j)' /\ OneTold(j)' /\ Phases(j)'
  <2>1. CASE j = k
    <3>1. Phases(k)'
      BY <1>2, <1>5, <1>6, <1>8, <1>10, <1>11 DEF Phases
    <3> QED
      BY <1>5, <1>6, <2>1, <3>1
  <2>2. CASE j # k
    <3>1. Phases(j)'
      BY <1>2, <1>5, <1>7, <1>8, <1>10, <1>11, <2>2 DEF Phases
    <3> QED
      BY <1>5, <1>7, <2>2, <3>1
  <2> QED
    BY <2>1, <2>2
<1>13. /\ InMasters' = IF k = "enter" THEN InMasters ELSE InMasters \cup {e}
       /\ InSlaves' = IF k = "enter" THEN InSlaves \cup {e} ELSE InSlaves
  BY <1>10 DEF InServer, InClient
<1>14. \A c \in MadeClients' : ~(c \in InMasters' /\ c \in InSlaves')
  <2>1. \A c \in MadeClients : ~(c \in InMasters /\ c \in InSlaves)
    BY DEF Links, OneKind, Begun, ClientArray, InMasters, InSlaves
  <2> QED
    BY <1>2, <1>11, <1>13, <2>1
<1>15. Growing
  <2>1. ASSUME NEW d \in Daemons, masters[d] # <<>> PROVE masters'[d] # <<>>
    <3>1. masters[d] \in Seq(Ends) /\ masters'[d] \in Seq(Ends)
      BY DEF TypeOK
    <3>2. ToSet(masters[d]) # {}
      BY <2>1, <3>1, SetOf
    <3>3. ToSet(masters[d]) \subseteq ToSet(masters'[d])
      BY DEF MasterOf
    <3> QED
      BY <3>1, <3>2, <3>3, SetOf
  <2> QED
    BY <1>11, <1>13, <2>1 DEF Growing
<1>16. Sound(e, x)'
  <2>1. x.pc = "welcome" => e \in InSlaves'
    BY <1>13
  <2>2. e \in InSlaves' => e \in Made' /\ e \in ToSet(slaves'[Daemon(e)'])
    BY DEF InSlaves
  <2> QED
    BY <1>3, <2>1, <2>2 DEF Sound
<1>17. \A d \in Daemons : root_host'[d] # None => root_host'[d] \in Made'
  BY <1>2 DEF Links, Latent
<1>18. Greets(None, {})
  BY DEF Greets
<1> QED
  BY <1>2, <1>10, <1>12, <1>14, <1>15, <1>16, <1>17, <1>18, LinksFrom

LEMMA LinksStep ==
    ASSUME TypeOK, TypeOK', Links, Next
    PROVE  Links'
<1>1. ASSUME NEW t \in Threads, subscribe(t) PROVE Links'
  <2>1. /\ task[t].pc = "subscribe" /\ t \in Made \cup made
        /\ UNCHANGED <<conn, masters, slaves, root_host>>
    BY <1>1, SubscribeEffect
  <2>2. PICK e \in MadeClients : e = task[t].end /\ Effect(t, Idle, None, None, Peer(e), {Cmd("subscribe")})
    BY <1>1, SubscribeEffect
  <2>3. Idle.pc = "idle"
    BY DEF Idle
  <2>4. PICK P : P = {Cmd("subscribe")}
    OBVIOUS
  <2>5. /\ "enter" \in LinkKinds /\ task[t].pc = Pc("enter") /\ Hello("enter") \in P
        /\ P \subseteq {Hello("enter"), Cmd("root_welcome")} /\ Cmd("root_welcome") \notin P
        /\ Effect(t, Idle, None, None, Peer(e), P)
    BY <2>1, <2>2, <2>4, Hellos
  <2> QED
    BY <2>1, <2>2, <2>3, <2>5, LinksTell
<1>2. ASSUME NEW t \in Threads, Invite(t) PROVE Links'
  <2>1. /\ task[t].pc = "join" /\ t \in Made \cup made
        /\ UNCHANGED <<conn, masters, slaves, root_host>>
    BY <1>2, InviteEffect
  <2>2. PICK e \in MadeClients, invited \in SUBSET Known :
          /\ e = task[t].end
          /\ Effect(t, [pc |-> "invite", model |-> task[t].model, invited |-> invited], None, None,
                    Peer(e), {Cmd("add_to_network"), Cmd("root_welcome")})
    BY <1>2, InviteEffect
  <2>3. PICK x : x = [pc |-> "invite", model |-> task[t].model, invited |-> invited]
    OBVIOUS
  <2>4. PICK P : P = {Cmd("add_to_network"), Cmd("root_welcome")}
    OBVIOUS
  <2>5. /\ "invite" \in LinkKinds /\ task[t].pc = Pc("invite") /\ Hello("invite") \in P
        /\ P \subseteq {Hello("invite"), Cmd("root_welcome")} /\ x.pc = "invite"
        /\ Effect(t, x, None, None, Peer(e), P)
    BY <2>1, <2>2, <2>3, <2>4, Hellos
  <2> QED
    BY <2>1, <2>2, <2>5, LinksTell
<1>3. ASSUME NEW e \in Ends, agml_command_subscribe(e) PROVE Links'
  <2>1. /\ e \in Made /\ task[e] = Idle /\ Cmd("subscribe") \in ToSet(inbox[e])
        /\ UNCHANGED <<conn, masters, root_host>> /\ SlaveOf(Daemon(e), e)
        /\ Effect(e, [pc |-> "welcome", end |-> e], e, Cmd("subscribe"), None, {})
    BY <1>3, EnlistEffect
  <2>2. PICK x : x = [pc |-> "welcome", end |-> e]
    OBVIOUS
  <2>3. PICK m : m = Cmd("subscribe")
    OBVIOUS
  <2>4. /\ x.pc = "welcome" /\ x.end = e /\ m = Hello("enter") /\ "enter" \in LinkKinds
        /\ Effect(e, x, e, m, None, {}) /\ Hello("enter") \in ToSet(inbox[e])
    BY <2>1, <2>2, <2>3, Hellos
  <2> QED
    BY <2>1, <2>4, LinksFollow
<1>4. ASSUME NEW e \in Ends, agml_command_add_to_network(e) PROVE Links'
  <2>1. /\ e \in Made /\ task[e] = Idle /\ Cmd("add_to_network") \in ToSet(inbox[e])
        /\ UNCHANGED <<conn, slaves, root_host>> /\ MasterOf(Daemon(e), e)
        /\ Effect(e, Idle, e, Cmd("add_to_network"), None, {})
    BY <1>4, AddEffect
  <2>2. PICK m : m = Cmd("add_to_network")
    OBVIOUS
  <2>3. /\ Idle.pc = "idle" /\ m = Hello("invite") /\ "invite" \in LinkKinds /\ "invite" # "enter"
        /\ Effect(e, Idle, e, m, None, {}) /\ Hello("invite") \in ToSet(inbox[e])
    BY <2>1, <2>2, Hellos DEF Idle
  <2> QED
    BY <2>1, <2>3, LinksFollow
<1> QED
  BY <1>1, <1>2, <1>3, <1>4, LinksEnter, LinksJoin, LinksStepSame DEF Next, Receive, Request, Continue

LEMMA LinksInit ==
    ASSUME Init
    PROVE  Links
<1>1. ToSet(<<>>) = {}
  BY EmptySeq, SetOf
<1>2. Made = {}
  <2>1. \A e \in Ends : e.conn \in 1 .. MaxConn
    BY PeerEnds
  <2>2. Len(conn) = 0 /\ MaxConn \in Nat
    BY EmptySeq, ConstantsAssumption DEF Init
  <2> QED
    BY <2>1, <2>2 DEF Made
<1>3. Threads = Ends \cup todo \cup made /\ \A t \in Threads : task[t] = Idle
  BY DEF Init, Threads
<1>4. \A e \in Ends : \A x : Single(inbox[e], x) /\ inbox[e] = <<>>
  <2>1. \A x : Single(<<>>, x)
    BY EmptySeq DEF Single
  <2> QED
    BY <2>1 DEF Init
<1>5. \A d \in Daemons : masters[d] = <<>> /\ slaves[d] = <<>> /\ root_host[d] = None
  BY DEF Init
<1>6. Ours
  <2>1. \A x : Single(<<>>, x)
    BY EmptySeq DEF Single
  <2> QED
    BY <1>1, <1>5, <2>1 DEF Ours
<1>7. Latent /\ Tasked
  BY <1>2, <1>3, <1>4, <1>5 DEF Latent, Tasked, Idle
<1>8. Welcomed /\ OneKind
  BY <1>2 DEF Welcomed, OneKind, MadeClients
<1>9. ASSUME NEW k \in LinkKinds PROVE Handshake(k)
  <2>1. \A t \in Threads : task[t].pc # Pc(k)
    BY <1>3, Hellos DEF Idle
  <2>2. \A e \in Ends : Single(inbox[e], Hello(k)) /\ Hello(k) \notin ToSet(inbox[e])
    BY <1>1, <1>4
  <2> QED
    BY <1>2, <2>1, <2>2 DEF Handshake, MadeClients
<1> QED
  BY <1>6, <1>7, <1>8, <1>9 DEF Links

LEMMA SameAll ==
    ASSUME UNCHANGED vars
    PROVE  (TypeOK => TypeOK') /\ (Links => Links')
<1>1. TypeOK => TypeOK'
  BY DEF vars, TypeOK, Threads
<1>2. Made' = Made /\ Threads' = Threads /\ (\A e : Daemon(e)' = Daemon(e)) /\ (\A t : At(t)' = At(t))
  BY DEF vars, Made, Daemon, Threads, At
<1>3. Ours => Ours'
  BY <1>2 DEF vars, Ours
<1>4. OneKind => OneKind'
  BY <1>2 DEF vars, OneKind, MadeClients, Begun, ClientArray
<1>5. Latent => Latent'
  BY <1>2 DEF vars, Latent
<1>6. Tasked => Tasked'
  BY <1>2 DEF vars, Tasked
<1>7. Welcomed => Welcomed'
  BY <1>2 DEF vars, Welcomed, Begun, ClientArray
<1>8. ASSUME NEW k \in LinkKinds PROVE Handshake(k) => Handshake(k)'
  BY <1>2 DEF vars, Handshake, Waits, Told, Follows, Begun, ClientArray, ServerArray, MadeClients
<1> QED
  BY <1>1, <1>3, <1>4, <1>5, <1>6, <1>7, <1>8 DEF Links

(* At every step: the arrays of a daemon hold ends of its own, each once;  *)
(* on a connection that is made to enter, or to invite, the client has its *)
(* end among its masters, or its slaves, and either is about to tell the   *)
(* server, once, or has told it, or the server has followed; and what is   *)
(* not there has nothing to do (com_enter_network, com_add_to_network and  *)
(* the handlers of subscribe, add_to_network and root_welcome).            *)
THEOREM LinksHold == Spec => [](TypeOK /\ Links)
<1>1. Init => TypeOK /\ Links
  BY TypeInit, LinksInit
<1>2. TypeOK /\ Links /\ [Next]_vars => (TypeOK /\ Links)'
  <2>1. TypeOK /\ Links /\ Next => (TypeOK /\ Links)'
    BY TypeStep, LinksStep
  <2>2. TypeOK /\ Links /\ UNCHANGED vars => (TypeOK /\ Links)'
    BY SameAll
  <2> QED
    BY <2>1, <2>2
<1> QED
  BY <1>1, <1>2, PTL DEF Spec

(* What is sent has the form of a command, what a thread does the form of  *)
(* a task, and the bounds are kept (Network!TypeOK): the addresses that    *)
(* are passed on are those that came from outside or those of connections, *)
(* and no array gets longer than there are connections.                    *)
THEOREM TypeCorrect == Spec => []TypeOK
<1>1. TypeOK /\ Links => TypeOK
  OBVIOUS
<1> QED
  BY <1>1, LinksHold, PTL

-----------------------------------------------------------------------------
(* An invitation is followed by the root's welcome.                        *)
Behind(s) ==
    \A i \in 1 .. Len(s) : s[i] = Cmd("add_to_network") =>
        \E j \in i + 1 .. Len(s) : s[j] = Cmd("root_welcome")

LEMMA BehindAppend ==
    ASSUME NEW s \in Seq(Commands), Behind(s), NEW c \in Commands, c # Cmd("add_to_network")
    PROVE  Behind(Append(s, c))
<1>1. PICK q \in Seq(Commands) : q = Append(s, c)
  BY SetAppend
<1>2. Len(q) = Len(s) + 1 /\ Len(s) \in Nat /\ q[Len(s) + 1] = c /\ \A i \in 1 .. Len(s) : q[i] = s[i]
  BY <1>1, SetAppend
<1>3. ASSUME NEW i \in 1 .. Len(q), q[i] = Cmd("add_to_network")
      PROVE  \E j \in i + 1 .. Len(q) : q[j] = Cmd("root_welcome")
  <2>1. i \in 1 .. Len(s)
    BY <1>2, <1>3
  <2>2. PICK j \in i + 1 .. Len(s) : s[j] = Cmd("root_welcome")
    BY <1>2, <1>3, <2>1 DEF Behind
  <2>3. j \in i + 1 .. Len(q) /\ j \in 1 .. Len(s)
    BY <1>2, <2>1
  <2> QED
    BY <1>2, <2>2, <2>3
<1> QED
  BY <1>1, <1>3 DEF Behind

LEMMA BehindInvite ==
    ASSUME NEW s \in Seq(Commands), Behind(s)
    PROVE  Behind(Append(Append(s, Cmd("add_to_network")), Cmd("root_welcome")))
<1>1. PICK q \in Seq(Commands) : q = Append(s, Cmd("add_to_network"))
  BY SetAppend, CommandKinds
<1>2. PICK r \in Seq(Commands) : r = Append(q, Cmd("root_welcome"))
  BY SetAppend, CommandKinds
<1>3. Len(q) = Len(s) + 1 /\ Len(s) \in Nat
  BY <1>1, SetAppend, CommandKinds
<1>4. Len(r) = Len(q) + 1 /\ r[Len(q) + 1] = Cmd("root_welcome")
  BY <1>2, SetAppend, CommandKinds
<1>5. r[Len(r)] # Cmd("add_to_network")
  BY <1>3, <1>4 DEF Cmd
<1>6. ASSUME NEW i \in 1 .. Len(r), r[i] = Cmd("add_to_network")
      PROVE  \E j \in i + 1 .. Len(r) : r[j] = Cmd("root_welcome")
  <2>1. Len(r) \in i + 1 .. Len(r)
    BY <1>3, <1>4, <1>5, <1>6
  <2> QED
    BY <1>3, <1>4, <2>1
<1> QED
  BY <1>1, <1>2, <1>6 DEF Behind

LEMMA BehindTail ==
    ASSUME NEW s \in Seq(Commands), s # <<>>, Behind(s)
    PROVE  /\ Behind(Tail(s))
           /\ Head(s) = Cmd("add_to_network") => Cmd("root_welcome") \in ToSet(Tail(s))
<1>1. PICK q \in Seq(Commands) : q = Tail(s)
  BY SetTail
<1>2. Len(q) = Len(s) - 1 /\ Len(s) \in Nat \ {0} /\ Head(s) = s[1] /\ \A i \in 1 .. Len(q) : q[i] = s[i + 1]
  BY <1>1, SetTail
<1>3. ASSUME NEW i \in 1 .. Len(s), s[i] = Cmd("add_to_network")
      PROVE  \E j \in i .. Len(q) : q[j] = Cmd("root_welcome")
  <2>1. PICK j \in i + 1 .. Len(s) : s[j] = Cmd("root_welcome")
    BY <1>3 DEF Behind
  <2>2. j - 1 \in i .. Len(q) /\ j - 1 \in 1 .. Len(q) /\ (j - 1) + 1 = j
    BY <1>2, <2>1
  <2> QED
    BY <1>2, <2>1, <2>2
<1>4. ASSUME NEW i \in 1 .. Len(q), q[i] = Cmd("add_to_network")
      PROVE  \E j \in i + 1 .. Len(q) : q[j] = Cmd("root_welcome")
  <2>1. i + 1 \in 1 .. Len(s) /\ s[i + 1] = Cmd("add_to_network")
    BY <1>2, <1>4
  <2> QED
    BY <1>3, <2>1
<1>5. ASSUME Head(s) = Cmd("add_to_network") PROVE Cmd("root_welcome") \in ToSet(q)
  <2>1. 1 \in 1 .. Len(s)
    BY <1>2
  <2>2. PICK j \in 1 .. Len(q) : q[j] = Cmd("root_welcome")
    BY <1>2, <1>3, <1>5, <2>1
  <2>3. ToSet(q) = {q[i] : i \in 1 .. Len(q)}
    BY SetOf
  <2> QED
    BY <2>2, <2>3
<1> QED
  BY <1>1, <1>4, <1>5 DEF Behind

(* What a step may do to the inboxes.                                      *)
LEMMA InboxForms ==
    ASSUME TypeOK, Links, Next
    PROVE  \/ inbox' = inbox
           \/ \E e \in Ends : inbox[e] # <<>> /\ inbox' = Taken(e)
           \/ \E h \in Ends, m \in Commands : m # Cmd("add_to_network") /\ inbox' = Put(inbox, h, m)
           \/ \E e \in Ends, h \in Ends, m \in Commands :
                 /\ inbox[e] # <<>> /\ Head(inbox[e]).cmd = "notify_subscription"
                 /\ m # Cmd("add_to_network") /\ inbox' = Put(Taken(e), h, m)
           \/ \E e \in Ends : inbox' = Put(Put(inbox, e, Cmd("add_to_network")), e, Cmd("root_welcome"))
<1> DEFINE Forms ==
           \/ inbox' = inbox
           \/ \E e \in Ends : inbox[e] # <<>> /\ inbox' = Taken(e)
           \/ \E h \in Ends, m \in Commands : m # Cmd("add_to_network") /\ inbox' = Put(inbox, h, m)
           \/ \E e \in Ends, h \in Ends, m \in Commands :
                 /\ inbox[e] # <<>> /\ Head(inbox[e]).cmd = "notify_subscription"
                 /\ m # Cmd("add_to_network") /\ inbox' = Put(Taken(e), h, m)
           \/ \E e \in Ends : inbox' = Put(Put(inbox, e, Cmd("add_to_network")), e, Cmd("root_welcome"))
<1>1. Cmd("subscribe") # Cmd("add_to_network") /\ Cmd("root_welcome") # Cmd("add_to_network")
      /\ \A c : c.cmd # "add_to_network" => c # Cmd("add_to_network")
  BY DEF Cmd
<1>2. {Cmd("subscribe"), Cmd("root_welcome")} \subseteq Commands
  BY CommandKinds
<1>3. \A e \in Made : e \in Ends
  BY DEF Made
<1>4. ToSet(<<>>) = {}
  BY EmptySeq, SetOf
<1>5. ASSUME NEW r \in todo, Request(r) PROVE Forms
  <2>1. Alone(r) => inbox' = inbox
    BY AloneEffect
  <2>2. com_enter_network(r) => inbox' = inbox
    BY EnterEffect
  <2>3. com_model(r) => inbox' = inbox
    BY DEF com_model
  <2> QED
    BY <1>5, <2>1, <2>2, <2>3 DEF Request
<1>6. ASSUME NEW e \in Ends, Receive(e) PROVE Forms
  <2>1. ASSUME agml_command_subscribe(e) PROVE Forms
    BY <1>4, <2>1, EnlistEffect
  <2>2. ASSUME Welcome(e) PROVE Forms
    BY <1>1, <1>2, <2>2, WelcomeEffect DEF Turned
  <2>3. ASSUME agml_command_notify_subscription(e) PROVE Forms
    <3>1. inbox[e] # <<>> /\ Head(inbox[e]).cmd = "notify_subscription"
      BY <2>3 DEF agml_command_notify_subscription, Has
    <3>2. PICK m \in Commands :
            /\ m.cmd = "notify_subscription"
            /\ \/ \E n \in Ends : inbox' = Put(Taken(e), n, Cmd("root_welcome"))
               \/ inbox' = Taken(e)
               \/ root_host[Daemon(e)] \in Made /\ inbox' = Put(Taken(e), root_host[Daemon(e)], m)
               \/ inbox' = inbox
      BY <2>3, NotifyEffect DEF Turned
    <3>3. m # Cmd("add_to_network")
      BY <1>1, <3>2
    <3> QED
      BY <1>1, <1>2, <1>3, <3>1, <3>2, <3>3
  <2>4. ASSUME agml_command_root_welcome(e) PROVE Forms
    BY <1>4, <2>4, RootWelcomeEffect
  <2>5. ASSUME agml_command_add_to_network(e) PROVE Forms
    BY <1>4, <2>5, AddEffect
  <2>6. ASSUME agml_command_model(e) PROVE Forms
    BY <1>4, <2>6, PassEffect
  <2>7. ASSUME agml_command_set_topology(e) PROVE Forms
    BY <1>4, <2>7, SetTopologyEffect
  <2> HIDE DEF Forms
  <2> QED
    BY <1>6, <2>1, <2>2, <2>3, <2>4, <2>5, <2>6, <2>7 DEF Receive
<1>7. ASSUME NEW t \in Threads, Continue(t) PROVE Forms
  <2>1. ASSUME subscribe(t) PROVE Forms
    BY <1>1, <1>2, <1>3, <2>1, SubscribeEffect DEF MadeClients
  <2>2. ASSUME com_add_to_network(t) PROVE Forms
    BY <2>2, JoinEffect
  <2>3. ASSUME Invite(t) PROVE Forms
    BY <1>3, <2>3, InviteEffect DEF MadeClients
  <2>4. ASSUME Decide(t) PROVE Forms
    BY <2>4, DecideEffect
  <2>5. ASSUME Send(t) PROVE Forms
    <3>1. task[t].msg \in Commands /\ task[t].pc = "send"
          /\ ((\E h \in Made : inbox' = Put(inbox, h, task[t].msg)) \/ inbox' = inbox)
      BY <2>5, SendEffect DEF Turned
    <3>2. Sound(t, task[t])
      BY DEF Links, Tasked, Sound
    <3>3. task[t].msg.cmd # "add_to_network"
      BY <3>1, <3>2 DEF Sound
    <3>4. PICK c \in Commands : c = task[t].msg
      BY <3>1
    <3>5. c # Cmd("add_to_network")
      BY <1>1, <3>3, <3>4
    <3> QED
      BY <1>3, <3>1, <3>4, <3>5
  <2>6. ASSUME Read(t) PROVE Forms
    BY <2>6, ReadEffect
  <2> HIDE DEF Forms
  <2> QED
    BY <1>7, <2>1, <2>2, <2>3, <2>4, <2>5, <2>6 DEF Continue
<1> HIDE DEF Forms
<1>8. Forms
  BY <1>5, <1>6, <1>7 DEF Next
<1> QED
  BY <1>8 DEF Forms

AllBehind == \A e \in Ends : Behind(inbox[e])

LEMMA BehindStep ==
    ASSUME TypeOK, TypeOK', Links, Next, AllBehind
    PROVE  AllBehind'
<1>1. /\ inbox \in [Ends -> Seq(Commands)] /\ \A e \in Ends : Behind(inbox[e])
      /\ \A e \in Ends : Peer(e) \in Ends
  BY PeerEnds DEF TypeOK, AllBehind
<1>2. ASSUME NEW box \in [Ends -> Seq(Commands)], \A e \in Ends : Behind(box[e]),
             NEW h \in Ends, NEW m \in Commands, m # Cmd("add_to_network"),
             NEW new, new = Put(box, h, m)
      PROVE  \A e \in Ends : Behind(new[e])
  <2>1. PICK g \in Ends : g = Peer(h)
    BY <1>1
  <2>2. PICK q \in Seq(Commands) : q = Append(box[g], m)
    BY SetAppend
  <2>3. new = [box EXCEPT ![g] = q]
    BY <1>2, <2>1, <2>2 DEF Put
  <2>4. Behind(q)
    BY <1>2, <2>2, BehindAppend
  <2> QED
    BY <1>2, <2>3, <2>4
<1>3. ASSUME NEW e \in Ends, inbox[e] # <<>>, NEW new, new = Taken(e)
      PROVE  new \in [Ends -> Seq(Commands)] /\ \A f \in Ends : Behind(new[f])
  <2>1. /\ new \in [Ends -> Seq(Commands)] /\ new[e] = Tail(inbox[e])
        /\ \A f \in Ends : f # e => new[f] = inbox[f]
    BY <1>1, <1>3, TakeStep
  <2>2. Behind(Tail(inbox[e]))
    BY <1>1, <1>3, BehindTail
  <2> QED
    BY <1>1, <2>1, <2>2
<1>4. ASSUME NEW e \in Ends, inbox' = Put(Put(inbox, e, Cmd("add_to_network")), e, Cmd("root_welcome"))
      PROVE  \A f \in Ends : Behind(inbox'[f])
  <2>1. PICK g \in Ends : g = Peer(e)
    BY <1>1
  <2>2. PICK s \in Seq(Commands) : s = inbox[g]
    BY <1>1
  <2>3. PICK q : q = Append(Append(s, Cmd("add_to_network")), Cmd("root_welcome"))
    OBVIOUS
  <2>4. inbox' = [inbox EXCEPT ![g] = q]
    BY <1>1, <1>4, <2>1, <2>2, <2>3 DEF Put
  <2>5. Behind(q)
    BY <1>1, <2>2, <2>3, BehindInvite
  <2> QED
    BY <1>1, <2>4, <2>5
<1>5. CASE inbox' = inbox
  BY <1>5 DEF AllBehind
<1>6. CASE \E e \in Ends : inbox[e] # <<>> /\ inbox' = Taken(e)
  BY <1>3, <1>6 DEF AllBehind
<1>7. CASE \E h \in Ends, m \in Commands : m # Cmd("add_to_network") /\ inbox' = Put(inbox, h, m)
  BY <1>1, <1>2, <1>7 DEF AllBehind
<1>8. CASE \E e \in Ends, h \in Ends, m \in Commands :
                 /\ inbox[e] # <<>> /\ Head(inbox[e]).cmd = "notify_subscription"
                 /\ m # Cmd("add_to_network") /\ inbox' = Put(Taken(e), h, m)
  <2>1. PICK e \in Ends, h \in Ends, m \in Commands :
                 /\ inbox[e] # <<>> /\ Head(inbox[e]).cmd = "notify_subscription"
                 /\ m # Cmd("add_to_network") /\ inbox' = Put(Taken(e), h, m)
    BY <1>8
  <2>2. PICK box : box = Taken(e)
    OBVIOUS
  <2>3. box \in [Ends -> Seq(Commands)] /\ \A f \in Ends : Behind(box[f])
    BY <1>3, <2>1, <2>2
  <2>4. inbox' = Put(box, h, m)
    BY <2>1, <2>2
  <2> QED
    BY <1>2, <2>1, <2>3, <2>4 DEF AllBehind
<1>9. CASE \E e \in Ends : inbox' = Put(Put(inbox, e, Cmd("add_to_network")), e, Cmd("root_welcome"))
  BY <1>4, <1>9 DEF AllBehind
<1> QED
  BY <1>5, <1>6, <1>7, <1>8, <1>9, InboxForms

-----------------------------------------------------------------------------
(* When all is quiet, both sides of a connection have followed.            *)
LEMMA AgreedEnds ==
    ASSUME TypeOK, Links, Quiet, NEW e \in Made
    PROVE  e \in ToSet(slaves[Daemon(e)]) <=> Peer(e) \in ToSet(masters[Daemon(Peer(e))])
<1>1. /\ e \in Ends /\ Peer(e) \in Made /\ Peer(Peer(e)) = e
      /\ e \in MadeClients \/ Peer(e) \in MadeClients
  BY PeerEnds DEF Made, MadeClients
<1>2. ToSet(<<>>) = {}
  BY EmptySeq, SetOf
<1>3. \A k \in LinkKinds : WaitsOf(k) = {} /\ ToldOf(k) = {}
  BY <1>2, Hellos, PeerEnds DEF Quiet, WaitsOf, ToldOf, Waits, Told, Idle, MadeClients, Made
<1>4. Phases("enter") /\ Phases("invite")
  BY PhasesOf, Hellos DEF Links
<1>5. \A c \in MadeClients : /\ c \in InMasters <=> Peer(c) \in InSlaves
                             /\ c \in InSlaves <=> Peer(c) \in InMasters
  BY <1>3, <1>4, Hellos DEF Phases, InClient, InServer
<1>6. /\ e \in InSlaves <=> e \in ToSet(slaves[Daemon(e)])
      /\ Peer(e) \in InMasters <=> Peer(e) \in ToSet(masters[Daemon(Peer(e))])
  BY <1>1 DEF InSlaves, InMasters
<1> QED
  BY <1>1, <1>5, <1>6

(* The daemon at the other end is seen under an IP of its machine.         *)
FromHome ==
    \A e \in Made :
        conn[e.conn].from \in ToSet(Interfaces[conn[e.conn].client]) \cup {Loopback}
(* It is not told of by an address that means somebody else elsewhere.     *)
Travels ==
    \A e \in Made : conn[e.conn].from = Loopback =>
        \A x \in Daemons : Interfaces[x] = Interfaces[conn[e.conn].client]

(* The connections stay as they were, but for new ones. *)
ConnStay == \A e \in Made : conn'[e.conn] = conn[e.conn]

(* A daemon that has masters and no root is about to be greeted: it is     *)
(* still entering, the welcome is on its way, or the news of it is.        *)
HisAddress(d) == {[name |-> conn[e.conn].from, port |-> Port[d]] : e \in {c \in MadeClients : Daemon(c) = d}}
NewsOf(c, d) == c.cmd = "notify_subscription" /\ c.who \in HisAddress(d)

Entering(d) ==
    \E e \in MadeClients : Daemon(e) = d /\ (Waits("enter", e) \/ Told("enter", e) \/ task[Peer(e)].pc = "welcome")
Greeted(d) == \E e \in Made : Daemon(e) = d /\ Cmd("root_welcome") \in ToSet(inbox[e])
TellsOf(d) ==
    \E t \in Threads : /\ task[t].pc = "send" /\ task[t].to = "masters" /\ task[t].i = 1
                       /\ NewsOf(task[t].msg, d)
NewsComes(d) == \E e \in Made : \E c \in ToSet(inbox[e]) : NewsOf(c, d)

Promised(d) == Entering(d) \/ Greeted(d) \/ TellsOf(d) \/ NewsComes(d)

Promise ==
    crashed = {} /\ Travels =>
        \A d \in Daemons : masters[d] # <<>> /\ root_host[d] = None => Promised(d)

(* What the effects of a step leave of the promise, and what it may take   *)
(* away.                                                                   *)
Spoils(t, e, m, d) ==
    \/ task[t].pc = "subscribe" /\ task[t].end \in MadeClients /\ Daemon(task[t].end) = d
    \/ task[t].pc = "welcome" /\ Peer(t) \in MadeClients /\ Daemon(Peer(t)) = d
    \/ task[t].pc = "send" /\ task[t].to = "masters" /\ task[t].i = 1 /\ NewsOf(task[t].msg, d)
    \/ /\ e \in Ends
       /\ \/ m = Cmd("subscribe") /\ Peer(e) \in MadeClients /\ Daemon(Peer(e)) = d
          \/ m = Cmd("root_welcome") /\ Daemon(e) = d
          \/ NewsOf(m, d)

LEMMA PromiseKept ==
    ASSUME TypeOK, Links, NEW t, NEW x, NEW e, NEW m, NEW g, NEW P, Effect(t, x, e, m, g, P), ConnStay,
           NEW d \in Daemons, Promised(d), ~Spoils(t, e, m, d)
    PROVE  Promised(d)'
<1>1. /\ \A f \in Made : f \in Made' /\ f \in Ends /\ Daemon(f)' = Daemon(f) /\ conn'[f.conn] = conn[f.conn]
      /\ Threads' = Threads /\ MadeClients \subseteq MadeClients'
  BY DEF Effect, EndsStay, ConnStay, MadeClients, Made
<1>2. \A u \in Threads : u # t => task'[u] = task[u]
  BY DEF Effect, Turns
<1>3. \A f \in Ends : \A y \in ToSet(inbox[f]) : y \in ToSet(inbox'[f]) \/ (f = e /\ y = m)
  BY DEF Effect, Mails
<1>4. \A c : NewsOf(c, d) => NewsOf(c, d)'
  <2>1. HisAddress(d) \subseteq HisAddress(d)'
    BY <1>1 DEF HisAddress, MadeClients
  <2> QED
    BY <2>1 DEF NewsOf
<1>5. CASE Entering(d)
  <2>1. PICK c \in MadeClients : Daemon(c) = d /\ (Waits("enter", c) \/ Told("enter", c) \/ task[Peer(c)].pc = "welcome")
    BY <1>5 DEF Entering
  <2>2. c \in Made /\ c \in MadeClients' /\ Daemon(c)' = d /\ Peer(c) \in Ends /\ Peer(Peer(c)) = c /\ Peer(c) \in Threads
    BY <1>1, <2>1, PeerEnds DEF MadeClients, Threads
  <2>3. CASE Waits("enter", c)
    BY <1>1, <1>2, <2>1, <2>2, <2>3, Hellos DEF Waits, Spoils, Promised, Entering
  <2>4. CASE Told("enter", c)
    BY <1>3, <2>1, <2>2, <2>4, Hellos DEF Told, Spoils, Promised, Entering
  <2>5. CASE task[Peer(c)].pc = "welcome"
    BY <1>2, <2>1, <2>2, <2>5 DEF Spoils, Promised, Entering
  <2> QED
    BY <2>1, <2>3, <2>4, <2>5
<1>6. CASE Greeted(d)
  BY <1>1, <1>3, <1>6 DEF Greeted, Spoils, Promised
<1>7. CASE TellsOf(d)
  BY <1>1, <1>2, <1>4, <1>7 DEF TellsOf, Spoils, Promised
<1>8. CASE NewsComes(d)
  BY <1>1, <1>3, <1>4, <1>8 DEF NewsComes, Spoils, Promised
<1> QED
  BY <1>5, <1>6, <1>7, <1>8 DEF Promised

LEMMA TravelsBack ==
    ASSUME EndsStay, ConnStay, Travels'
    PROVE  Travels
BY DEF EndsStay, ConnStay, Travels

(* News lead to whom they are about.                                       *)
LEMMA NewsLead ==
    ASSUME TypeOK, FromHome, Travels, NEW d \in Daemons, NEW c, NewsOf(c, d), NEW x \in Daemons
    PROVE  Listening(x, c.who) = {d}
<1>1. PICK e \in MadeClients : Daemon(e) = d /\ c.who = [name |-> conn[e.conn].from, port |-> Port[d]]
  BY DEF NewsOf, HisAddress
<1>2. conn[e.conn].client = d /\ e \in Made
  BY <1>1 DEF Daemon, MadeClients
<1>3. PICK ip \in ToSet(Interfaces[d]) \cup {Loopback} : ip = conn[e.conn].from
  BY <1>2 DEF FromHome
<1>4. ip = Loopback => \A y \in Daemons : Interfaces[y] = Interfaces[d]
  BY <1>2, <1>3 DEF Travels
<1>5. Listening(x, [name |-> ip, port |-> Port[d]]) = {d}
  BY <1>4, LeadsBack
<1> QED
  BY <1>1, <1>3, <1>5

LEMMA PromiseSame ==
    ASSUME TypeOK, Links, Promise, NEW t, NEW x, NEW e, NEW m, NEW g, NEW P, Effect(t, x, e, m, g, P),
           ConnStay, UNCHANGED <<masters, root_host, crashed>>,
           \A d \in Daemons : Travels /\ root_host[d] = None /\ Spoils(t, e, m, d) => Promised(d)'
    PROVE  Promise'
<1> SUFFICES ASSUME crashed' = {}, Travels', NEW d \in Daemons, masters'[d] # <<>>, root_host'[d] = None
             PROVE  Promised(d)'
  BY DEF Promise
<1>1. Travels
  BY TravelsBack DEF Effect
<1>2. masters[d] # <<>> /\ root_host[d] = None /\ crashed = {}
  OBVIOUS
<1>3. Promised(d)
  BY <1>1, <1>2 DEF Promise
<1>4. CASE Spoils(t, e, m, d)
  BY <1>1, <1>2, <1>4
<1>5. CASE ~Spoils(t, e, m, d)
  BY <1>3, <1>5, PromiseKept
<1> QED
  BY <1>4, <1>5

(* A thread that is idle, or does none of these, and takes no such command *)
(* spoils nothing.                                                         *)
LEMMA SpoilsNot ==
    ASSUME NEW t, NEW e, NEW m, NEW d,
           task[t].pc \in {"idle", "invite", "join", "read"},
           e \in Ends => m.cmd \notin {"subscribe", "root_welcome", "notify_subscription"}
    PROVE  ~Spoils(t, e, m, d)
BY DEF Spoils, NewsOf, Cmd

LEMMA ConnStaySame ==
    ASSUME UNCHANGED conn
    PROVE  ConnStay
BY DEF ConnStay

LEMMA ConnStayMore ==
    ASSUME NEW d, NEW a, NEW n, Connects(d, a, n)
    PROVE  ConnStay
BY DEF ConnStay, Connects

(* Commands are put where a daemon reads them.                             *)
LEMMA PutPromises ==
    ASSUME TypeOK, TypeOK', NEW e, NEW m, NEW g, NEW P, Mails(e, m, g, P), g \in Made', NEW d
    PROVE  /\ Cmd("root_welcome") \in P /\ Daemon(g)' = d => Promised(d)'
           /\ Cmd("subscribe") \in P /\ Peer(g) \in MadeClients' /\ Peer(Peer(g)) = g /\ Daemon(Peer(g))' = d => Promised(d)'
           /\ \A c \in P : NewsOf(c, d)' => Promised(d)'
<1>1. g \in Ends /\ P \subseteq ToSet(inbox'[g])
  BY DEF Mails, Made
<1>2. Cmd("root_welcome") \in P /\ Daemon(g)' = d => Promised(d)'
  BY <1>1 DEF Promised, Greeted
<1>3. Cmd("subscribe") \in P /\ Peer(g) \in MadeClients' /\ Peer(Peer(g)) = g /\ Daemon(Peer(g))' = d => Promised(d)'
  BY <1>1, Hellos DEF Promised, Entering, Told
<1>4. \A c \in P : NewsOf(c, d)' => Promised(d)'
  BY <1>1 DEF Promised, NewsComes
<1> QED
  BY <1>2, <1>3, <1>4

LEMMA NewsStay ==
    ASSUME EndsStay, ConnStay, NEW d, NEW c, NewsOf(c, d)
    PROVE  NewsOf(c, d)'
<1>1. HisAddress(d) \subseteq HisAddress(d)'
  BY DEF HisAddress, MadeClients, EndsStay, ConnStay
<1> QED
  BY <1>1 DEF NewsOf

LEMMA PromiseEnter ==
    ASSUME TypeOK, TypeOK', Links, Promise, NEW r \in todo, com_enter_network(r)
    PROVE  Promise'
<1>1. task[r] = Idle /\ r.at \in Daemons /\ UNCHANGED <<root_host, crashed>> /\ crashed = {}
  BY EnterEffect
<1>2. PICK n \in Ends :
          /\ Connects(r.at, r.addr, n) /\ MasterOf(r.at, n)
          /\ Turned(r, [pc |-> "subscribe", end |-> n])
  BY EnterEffect
<1>12. PICK x : x = [pc |-> "subscribe", end |-> n]
  OBVIOUS
<1>3. x = [pc |-> "subscribe", end |-> n] /\ x.pc = "subscribe" /\ x.end = n
  BY <1>12
<1>4. Effect(r, x, None, None, None, {}) /\ ConnStay
  BY <1>2, <1>3, ConnStayMore DEF Turned
<1>5. Threads' = Threads /\ r \in Threads /\ task'[r] = x
  BY <1>4 DEF Effect, Turns, EndsStay
<1>6. n \in MadeClients' /\ Daemon(n)' = r.at
  BY <1>2 DEF Connects, MadeClients
<1>7. Promised(r.at)'
  BY <1>3, <1>5, <1>6, Hellos DEF Promised, Entering, Waits
<1> SUFFICES ASSUME Travels', NEW d \in Daemons, d # r.at, masters'[d] # <<>>, root_host'[d] = None
             PROVE  Promised(d)'
  BY <1>7 DEF Promise
<1>8. Travels
  BY <1>4, TravelsBack DEF Effect
<1>9. masters[d] # <<>> /\ root_host[d] = None
  BY <1>1, <1>2 DEF MasterOf
<1>10. Promised(d)
  BY <1>1, <1>8, <1>9 DEF Promise
<1>11. task[r].pc = "idle" /\ None \notin Ends
  BY <1>1, ConstantsAssumption DEF Idle
<1> QED
  BY <1>4, <1>10, <1>11, SpoilsNot, PromiseKept

LEMMA PromiseAdd ==
    ASSUME TypeOK, TypeOK', Links, AllBehind, Promise, NEW e \in Ends, agml_command_add_to_network(e)
    PROVE  Promise'
<1>1. /\ e \in Made /\ Daemon(e) \in Daemons /\ task[e] = Idle
      /\ UNCHANGED <<conn, slaves, root_host, crashed>> /\ MasterOf(Daemon(e), e)
      /\ inbox' = Taken(e) /\ Effect(e, Idle, e, Cmd("add_to_network"), None, {})
  BY AddEffect
<1>2. inbox[e] # <<>> /\ Head(inbox[e]).cmd = "add_to_network" /\ crashed = {}
      /\ Head(inbox[e]) = Cmd("add_to_network")
  <2>1. Has(e, "add_to_network")
    BY DEF agml_command_add_to_network
  <2> QED
    BY <2>1, Taking, CommandKinds DEF Has
<1>3. PICK d0 \in Daemons : d0 = Daemon(e)
  BY <1>1
<1>4. Promised(d0)'
  <2>1. inbox[e] \in Seq(Commands) /\ Behind(inbox[e])
    BY TypeParts DEF AllBehind
  <2>2. Cmd("root_welcome") \in ToSet(Tail(inbox[e]))
    BY <1>2, <2>1, BehindTail
  <2>3. inbox'[e] = Tail(inbox[e])
    BY <1>1, <1>2, TakeStep DEF TypeOK
  <2>4. e \in Made' /\ Daemon(e)' = d0
    BY <1>1, <1>3 DEF Made, Daemon
  <2>5. Cmd("root_welcome") \in ToSet(inbox'[e])
    BY <2>2, <2>3
  <2> QED
    BY <2>4, <2>5 DEF Promised, Greeted
<1> SUFFICES ASSUME Travels', NEW d \in Daemons, d # d0, masters'[d] # <<>>, root_host'[d] = None
             PROVE  Promised(d)'
  BY <1>4 DEF Promise
<1>5. ConnStay
  BY <1>1, ConnStaySame
<1>6. Travels
  BY <1>1, <1>5, TravelsBack DEF Effect
<1>7. masters[d] # <<>> /\ root_host[d] = None
  BY <1>1, <1>3 DEF MasterOf
<1>8. Promised(d)
  BY <1>2, <1>6, <1>7 DEF Promise
<1>9. PICK m : m = Cmd("add_to_network") /\ m.cmd = "add_to_network"
  BY Hellos
<1>10. task[e].pc = "idle" /\ Effect(e, Idle, e, m, None, {})
  BY <1>1, <1>9 DEF Idle
<1> QED
  BY <1>5, <1>8, <1>9, <1>10, SpoilsNot, PromiseKept

LEMMA PromiseNotify ==
    ASSUME TypeOK, TypeOK', Links, FromHome, Promise, NEW e \in Ends, agml_command_notify_subscription(e)
    PROVE  Promise'
<1>1. PICK m \in Commands :
           /\ m.cmd = "notify_subscription"
           /\ e \in Made /\ Daemon(e) \in Daemons /\ task[e] = Idle
           /\ UNCHANGED <<masters, root_host>>
           /\ \/ /\ UNCHANGED crashed
                 /\ \E n \in Ends : Connects(Daemon(e), m.who, n)
                       /\ Effect(e, Idle, e, m, Peer(n), {Cmd("root_welcome")})
              \/ /\ UNCHANGED <<conn, crashed>>
                 /\ Listening(Daemon(e), m.who) = {}
                 /\ Effect(e, Idle, e, m, None, {})
              \/ /\ UNCHANGED <<conn, crashed>>
                 /\ root_host[Daemon(e)] \in Made
                 /\ Effect(e, Idle, e, m, Peer(root_host[Daemon(e)]), {m})
              \/ crashed' # {}
  BY NotifyEffect
<1>2. task[e].pc = "idle" /\ m # Cmd("subscribe") /\ m # Cmd("root_welcome")
  BY <1>1 DEF Idle, Cmd
<1>3. ASSUME NEW d \in Daemons, Spoils(e, e, m, d) PROVE NewsOf(m, d)
  BY <1>2, <1>3 DEF Spoils
<1>4. ASSUME UNCHANGED crashed, NEW n \in Ends, Connects(Daemon(e), m.who, n),
             Effect(e, Idle, e, m, Peer(n), {Cmd("root_welcome")})
      PROVE  Promise'
  <2>1. Peer(n) \in Made' /\ Daemon(Peer(n))' \in Listening(Daemon(e), m.who) /\ ConnStay
    BY <1>4, ConnStayMore DEF Connects
  <2>2. ASSUME NEW d \in Daemons, Travels, Spoils(e, e, m, d) PROVE Promised(d)'
    <3>1. Daemon(Peer(n))' = d
      BY <1>1, <1>3, <2>1, <2>2, NewsLead
    <3>2. Mails(e, m, Peer(n), {Cmd("root_welcome")})
      BY <1>4 DEF Effect
    <3> QED
      BY <2>1, <3>1, <3>2, PutPromises
  <2> QED
    BY <1>1, <1>4, <2>1, <2>2, PromiseSame
<1>5. ASSUME UNCHANGED <<conn, crashed>>, Listening(Daemon(e), m.who) = {}, Effect(e, Idle, e, m, None, {})
      PROVE  Promise'
  <2>1. ASSUME NEW d \in Daemons, Travels, Spoils(e, e, m, d) PROVE FALSE
    BY <1>1, <1>3, <1>5, <2>1, NewsLead
  <2> QED
    BY <1>1, <1>5, <2>1, ConnStaySame, PromiseSame
<1>6. ASSUME UNCHANGED <<conn, crashed>>, root_host[Daemon(e)] \in Made,
             Effect(e, Idle, e, m, Peer(root_host[Daemon(e)]), {m})
      PROVE  Promise'
  <2>1. PICK g \in Made : g = Peer(root_host[Daemon(e)])
    BY <1>6, PeerEnds DEF Made
  <2>2. Effect(e, Idle, e, m, g, {m}) /\ ConnStay /\ g \in Made'
    BY <1>6, <2>1, ConnStaySame DEF Made
  <2>3. ASSUME NEW d \in Daemons, Spoils(e, e, m, d) PROVE Promised(d)'
    <3>1. NewsOf(m, d)'
      BY <1>3, <2>2, <2>3, NewsStay DEF Effect
    <3> QED
      BY <2>2, <3>1, PutPromises DEF Effect
  <2> QED
    BY <1>1, <1>6, <2>2, <2>3, PromiseSame
<1>7. CASE crashed' # {}
  BY <1>7 DEF Promise
<1> QED
  BY <1>1, <1>4, <1>5, <1>6, <1>7

LEMMA PromiseReceive ==
    ASSUME TypeOK, TypeOK', Links, Promise, NEW e \in Ends,
           \/ agml_command_subscribe(e) \/ Welcome(e) \/ agml_command_root_welcome(e)
           \/ agml_command_model(e) \/ agml_command_set_topology(e)
    PROVE  Promise'
<1>1. Idle.pc = "idle" /\ None \notin Ends
  BY ConstantsAssumption DEF Idle
<1>2. ASSUME agml_command_subscribe(e) PROVE Promise'
  <2>1. /\ e \in Made /\ e.side = "server" /\ task[e] = Idle
        /\ UNCHANGED <<conn, masters, root_host, crashed>>
        /\ Effect(e, [pc |-> "welcome", end |-> e], e, Cmd("subscribe"), None, {})
    BY <1>2, EnlistEffect
  <2>6. PICK x : x = [pc |-> "welcome", end |-> e]
    OBVIOUS
  <2>2. x = [pc |-> "welcome", end |-> e] /\ x.pc = "welcome"
    BY <2>6
  <2>3. PICK m : m = Cmd("subscribe") /\ m.cmd = "subscribe"
    BY Hellos
  <2>4. Effect(e, x, e, m, None, {}) /\ ConnStay
    BY <2>1, <2>2, <2>3, ConnStaySame
  <2>5. ASSUME NEW d \in Daemons, Spoils(e, e, m, d) PROVE Promised(d)'
    <3>1. Peer(e) \in MadeClients /\ Daemon(Peer(e)) = d
      BY <1>1, <2>1, <2>3, <2>5, Hellos DEF Spoils, NewsOf
    <3>2. Peer(e) \in MadeClients' /\ Daemon(Peer(e))' = d /\ Peer(Peer(e)) = e
      BY <2>1, <3>1, PeerEnds DEF MadeClients, Made, Daemon
    <3>3. task'[e] = x
      BY <2>4 DEF Effect, Turns
    <3> QED
      BY <2>2, <3>2, <3>3 DEF Promised, Entering
  <2> QED
    BY <2>1, <2>4, <2>5, PromiseSame
<1>3. ASSUME Welcome(e) PROVE Promise'
  <2>1. /\ e \in Made /\ e.side = "server" /\ task[e].pc = "welcome" /\ At(e) = Daemon(e)
        /\ UNCHANGED <<conn, masters, root_host, crashed>>
    BY <1>3, WelcomeEffect
  <2>2. /\ Peer(e) \in MadeClients /\ Peer(e) \in Made /\ Peer(e) \in Made' /\ Peer(Peer(e)) = e
        /\ Daemon(Peer(e))' = Daemon(Peer(e)) /\ e \in Threads /\ Threads' = Threads
        /\ Peer(e) \in MadeClients' /\ conn'[e.conn] = conn[e.conn]
        /\ Daemon(Peer(e)) = conn[e.conn].client /\ Peer(e).conn = e.conn
    <3>1. e \in Ends /\ e \in Threads
      BY <2>1, TypeParts DEF Made
    <3>2. Threads' = Threads
      BY <1>3, WelcomeEffect DEF Threads
    <3> QED
      BY <2>1, <3>1, <3>2, PeerEnds DEF Made, MadeClients, Daemon
  <2>3. ASSUME NEW d, Spoils(e, None, None, d) PROVE d = Daemon(Peer(e))
    BY <1>1, <2>1, <2>3 DEF Spoils
  <2>4. CASE Effect(e, Idle, None, None, Peer(e), {Cmd("root_welcome")})
    <3>1. ASSUME NEW d \in Daemons, Spoils(e, None, None, d) PROVE Promised(d)'
      BY <2>2, <2>3, <2>4, <3>1, PutPromises DEF Effect
    <3> QED
      BY <2>1, <2>4, <3>1, ConnStaySame, PromiseSame
  <2>5. CASE Turned(e, TellMasters(e))
    <3>1. PICK c : c = [cmd |-> "notify_subscription", who |-> server_ip(e)]
      OBVIOUS
    <3>2. PICK x : x = TellMasters(e)
      OBVIOUS
    <3>3. x.pc = "send" /\ x.to = "masters" /\ x.i = 1 /\ x.msg = c
      BY <3>1, <3>2 DEF TellMasters, Broadcast
    <3>4. Effect(e, x, None, None, None, {}) /\ task'[e] = x
      BY <2>5, <3>2 DEF Turned, Effect, Turns
    <3>5. ASSUME NEW d \in Daemons, Spoils(e, None, None, d) PROVE Promised(d)'
      <4>1. d = Daemon(Peer(e))
        BY <2>3, <3>5
      <4>2. c.who = [name |-> conn[e.conn].from, port |-> Port[d]] /\ c.cmd = "notify_subscription"
        BY <3>1, <4>1 DEF server_ip
      <4>3. c.who = [name |-> conn'[Peer(e).conn].from, port |-> Port[d]] /\ Daemon(Peer(e))' = d
        BY <2>2, <4>1, <4>2
      <4>4. c.who \in HisAddress(d)'
        BY <2>2, <4>3 DEF HisAddress
      <4>5. NewsOf(c, d)'
        BY <4>2, <4>4 DEF NewsOf
      <4> QED
        BY <2>2, <3>3, <3>4, <4>5 DEF Promised, TellsOf
    <3> QED
      BY <2>1, <3>4, <3>5, ConnStaySame, PromiseSame
  <2> QED
    BY <1>3, <2>4, <2>5, WelcomeEffect
<1>4. ASSUME agml_command_root_welcome(e) PROVE Promise'
  <2>1. /\ e \in Made /\ Daemon(e) \in Daemons /\ task[e] = Idle
        /\ root_host' = [root_host EXCEPT ![Daemon(e)] = e]
        /\ UNCHANGED <<conn, masters, crashed>>
        /\ Effect(e, Idle, e, Cmd("root_welcome"), None, {})
    BY <1>4, RootWelcomeEffect
  <2> SUFFICES ASSUME crashed' = {}, Travels', NEW d \in Daemons, masters'[d] # <<>>, root_host'[d] = None
               PROVE  Promised(d)'
    BY DEF Promise
  <2>2. e \in Ends /\ d # Daemon(e) /\ root_host[d] = None
    BY <1>1, <2>1 DEF Made, TypeOK
  <2>3. ConnStay /\ Travels
    BY <2>1, ConnStaySame, TravelsBack DEF Effect
  <2>4. Promised(d)
    BY <2>1, <2>2, <2>3 DEF Promise
  <2>5. PICK m : m = Cmd("root_welcome") /\ m.cmd = "root_welcome"
    BY Hellos
  <2>6. ~Spoils(e, e, m, d)
    BY <1>1, <2>1, <2>2, <2>5, Hellos DEF Spoils, NewsOf
  <2>7. Effect(e, Idle, e, m, None, {})
    BY <2>1, <2>5
  <2> QED
    BY <2>3, <2>4, <2>6, <2>7, PromiseKept
<1>5. ASSUME agml_command_model(e) PROVE Promise'
  <2>1. task[e] = Idle /\ UNCHANGED <<conn, masters, root_host, crashed>>
    BY <1>5, PassEffect
  <2>2. PICK x \in Tasks, m \in Models, c \in Commands : c = [cmd |-> "model", model |-> m] /\ Effect(e, x, e, c, None, {})
    BY <1>5, PassEffect
  <2>3. task[e].pc = "idle" /\ c.cmd = "model"
    BY <1>1, <2>1, <2>2
  <2>4. \A d : ~Spoils(e, e, c, d)
    BY <2>3, SpoilsNot
  <2> QED
    BY <2>1, <2>2, <2>4, ConnStaySame, PromiseSame
<1>6. ASSUME agml_command_set_topology(e) PROVE Promise'
  <2>1. task[e] = Idle /\ UNCHANGED <<conn, masters, root_host, crashed>>
    BY <1>6, SetTopologyEffect
  <2>2. PICK m \in Models, c \in Commands :
          c = [cmd |-> "set_topology", model |-> m] /\ Effect(e, SetTopology(Daemon(e), m), e, c, None, {})
    BY <1>6, SetTopologyEffect
  <2>3. task[e].pc = "idle" /\ c.cmd = "set_topology"
    BY <1>1, <2>1, <2>2
  <2>4. \A d : ~Spoils(e, e, c, d)
    BY <2>3, SpoilsNot
  <2>5. PICK x : x = SetTopology(Daemon(e), m)
    OBVIOUS
  <2>6. Effect(e, x, e, c, None, {})
    BY <2>2, <2>5
  <2> QED
    BY <2>1, <2>4, <2>6, ConnStaySame, PromiseSame
<1> QED
  BY <1>2, <1>3, <1>4, <1>5, <1>6

LEMMA PromiseSend ==
    ASSUME TypeOK, TypeOK', Links, Promise, NEW t \in Threads, Send(t)
    PROVE  Promise'
<1>1. /\ task[t].pc = "send" /\ t \in Threads /\ At(t) \in Daemons /\ task[t].to \in {"masters", "slaves"}
      /\ UNCHANGED <<conn, masters, root_host, crashed>>
  BY SendEffect
<1>2. None \notin Ends /\ ConnStay
  BY <1>1, ConstantsAssumption, ConnStaySame
<1>3. ASSUME NEW d, Spoils(t, None, None, d)
      PROVE  task[t].to = "masters" /\ task[t].i = 1 /\ NewsOf(task[t].msg, d)
  BY <1>1, <1>2, <1>3 DEF Spoils
<1>4. ASSUME NEW h \in Made, NEW x, Effect(t, x, None, None, Peer(h), {task[t].msg})
      PROVE  Promise'
  <2>1. PICK c : c = task[t].msg
    OBVIOUS
  <2>2. PICK g \in Made : g = Peer(h)
    BY PeerEnds DEF Made
  <2>3. Effect(t, x, None, None, g, {c}) /\ g \in Made'
    BY <1>1, <1>4, <2>1, <2>2 DEF Made
  <2>4. ASSUME NEW d \in Daemons, Spoils(t, None, None, d) PROVE Promised(d)'
    <3>1. NewsOf(c, d)'
      BY <1>2, <1>3, <2>1, <2>3, <2>4, NewsStay DEF Effect
    <3> QED
      BY <2>3, <3>1, PutPromises DEF Effect
  <2> QED
    BY <1>1, <1>2, <2>3, <2>4, PromiseSame
<1>5. ASSUME task[t].i > Len(Hosts(At(t), task[t].to)), NEW x, Turned(t, x)
      PROVE  Promise'
  <2>1. Effect(t, x, None, None, None, {})
    BY <1>5 DEF Turned
  <2>2. ASSUME NEW d \in Daemons, Spoils(t, None, None, d) PROVE FALSE
    <3>1. task[t].to = "masters" /\ task[t].i = 1 /\ task[t].msg.cmd = "notify_subscription"
      BY <1>3, <2>2 DEF NewsOf
    <3>2. Sound(t, task[t])
      BY DEF Links, Tasked, Sound
    <3>3. masters[At(t)] # <<>>
      BY <1>1, <3>1, <3>2 DEF Sound
    <3>4. Len(masters[At(t)]) \in Nat \ {0}
      BY <1>1, <3>3, TypeParts, EmptySeq
    <3>5. Hosts(At(t), task[t].to) = masters[At(t)]
      BY <3>1 DEF Hosts
    <3> QED
      BY <1>5, <3>1, <3>4, <3>5
  <2> QED
    BY <1>1, <1>2, <2>1, <2>2, PromiseSame
<1> QED
  BY <1>4, <1>5, SendEffect

LEMMA PromiseContinue ==
    ASSUME TypeOK, TypeOK', Links, Promise, NEW t \in Threads, Continue(t)
    PROVE  Promise'
<1>1. None \notin Ends
  BY ConstantsAssumption
<1>2. ASSUME task[t].pc \in {"idle", "invite", "join", "read"}, NEW x, NEW g, NEW P,
             Effect(t, x, None, None, g, P), ConnStay, UNCHANGED <<masters, root_host, crashed>>
      PROVE  Promise'
  <2>1. \A d : ~Spoils(t, None, None, d)
    BY <1>1, <1>2, SpoilsNot
  <2> QED
    BY <1>2, <2>1, PromiseSame
<1>3. ASSUME subscribe(t) PROVE Promise'
  <2>1. /\ task[t].pc = "subscribe"
        /\ UNCHANGED <<conn, masters, slaves, root_host, data_hosts, log, todo, made, crashed>>
    BY <1>3, SubscribeEffect
  <2>2. PICK e \in MadeClients :
          e = task[t].end /\ Effect(t, Idle, None, None, Peer(e), {Cmd("subscribe")})
    BY <1>3, SubscribeEffect
  <2>3. PICK g \in Made : g = Peer(e) /\ Peer(g) = e
    BY PeerEnds DEF Made, MadeClients
  <2>4. Effect(t, Idle, None, None, g, {Cmd("subscribe")}) /\ ConnStay
    BY <2>1, <2>2, <2>3, ConnStaySame
  <2>5. g \in Made' /\ e \in MadeClients' /\ Daemon(e)' = Daemon(e)
    BY <2>1, <2>3 DEF Made, MadeClients, Daemon
  <2>6. ASSUME NEW d \in Daemons, Spoils(t, None, None, d) PROVE Promised(d)'
    <3>1. Daemon(e) = d
      BY <1>1, <2>1, <2>2, <2>6 DEF Spoils
    <3>2. Peer(g) \in MadeClients' /\ Peer(Peer(g)) = g /\ Daemon(Peer(g))' = d
      BY <2>3, <2>5, <3>1
    <3> QED
      BY <2>4, <2>5, <3>2, PutPromises DEF Effect
  <2> QED
    BY <2>1, <2>4, <2>6, PromiseSame
<1>4. ASSUME com_add_to_network(t) PROVE Promise'
  <2>1. task[t].pc = "invite" /\ UNCHANGED <<masters, root_host, crashed>>
    BY <1>4, JoinEffect
  <2>2. PICK x : Turned(t, x) /\ ConnStay
    BY <1>4, JoinEffect, ConnStaySame, ConnStayMore
  <2> QED
    BY <1>2, <2>1, <2>2 DEF Turned
<1>5. ASSUME Invite(t) PROVE Promise'
  <2>1. task[t].pc = "join" /\ UNCHANGED <<conn, masters, root_host, crashed>>
    BY <1>5, InviteEffect
  <2>2. PICK x, g, P : Effect(t, x, None, None, g, P)
    BY <1>5, InviteEffect
  <2> QED
    BY <1>2, <2>1, <2>2, ConnStaySame
<1>6. ASSUME Decide(t) PROVE Promise'
  <2>1. task[t].pc = "invite" /\ UNCHANGED <<conn, masters, root_host, crashed>>
    BY <1>6, DecideEffect
  <2>2. PICK x : Turned(t, x)
    BY <1>6, DecideEffect
  <2> QED
    BY <1>2, <2>1, <2>2, ConnStaySame DEF Turned
<1>7. ASSUME Read(t) PROVE Promise'
  <2>1. task[t].pc = "read" /\ UNCHANGED <<conn, masters, root_host, crashed>> /\ Turned(t, Idle)
    BY <1>7, ReadEffect
  <2> QED
    BY <1>2, <2>1, ConnStaySame DEF Turned
<1> QED
  BY <1>3, <1>4, <1>5, <1>6, <1>7, PromiseSend DEF Continue

LEMMA PromiseRequest ==
    ASSUME TypeOK, TypeOK', Links, Promise, NEW r \in todo, Request(r)
    PROVE  Promise'
<1>1. ASSUME task[r] = Idle, NEW x, Turned(r, x), UNCHANGED <<conn, masters, root_host, crashed>>
      PROVE  Promise'
  <2>1. \A d : ~Spoils(r, None, None, d)
    BY <1>1, SpoilsNot, ConstantsAssumption DEF Idle
  <2> QED
    BY <1>1, <2>1, ConnStaySame, PromiseSame DEF Turned
<1>2. task[r] = Idle
  BY DEF Links, Latent
<1>3. ASSUME com_model(r) PROVE Promise'
  BY <1>1, <1>2, <1>3, AskEffect
<1>4. ASSUME Alone(r) PROVE Promise'
  BY <1>1, <1>2, <1>4, AloneEffect
<1> QED
  BY <1>3, <1>4, PromiseEnter DEF Request

(* Only entering and inviting connect, and the root when it hears of a     *)
(* subscriber.                                                             *)
LEMMA FromHomeStep ==
    ASSUME TypeOK, TypeOK', Links, Next, FromHome
    PROVE  FromHome'
<1>1. ASSUME NEW d \in Daemons, NEW a, NEW n, Connects(d, a, n) PROVE FromHome'
  <2> SUFFICES ASSUME NEW e \in Made'
               PROVE  conn'[e.conn].from \in ToSet(Interfaces[conn'[e.conn].client]) \cup {Loopback}
    BY DEF FromHome
  <2>1. CASE e \in Made
    BY <1>1, <2>1 DEF FromHome, Connects
  <2>2. CASE e \in {n, Peer(n)}
    <3>1. e.conn = n.conn
      BY <1>1, <2>2, PeerEnds DEF Connects
    <3>2. PeerIP(d, a) \in ToSet(Interfaces[d]) \cup {Loopback}
      BY SeenAddress
    <3> QED
      BY <1>1, <3>1, <3>2 DEF Connects
  <2> QED
    BY <1>1, <2>1, <2>2 DEF Connects
<1>2. ASSUME UNCHANGED conn PROVE FromHome'
  BY <1>2 DEF FromHome, Made
<1>3. ASSUME NEW r \in todo, Request(r) PROVE FromHome'
  BY <1>1, <1>2, <1>3, AloneEffect, EnterEffect, AskEffect DEF Request
<1>4. ASSUME NEW e \in Ends, agml_command_notify_subscription(e) PROVE FromHome'
  <2>1. Daemon(e) \in Daemons
    BY <1>4, NotifyEffect
  <2>2. (\E a, n : Connects(Daemon(e), a, n)) \/ UNCHANGED conn
    BY <1>4, NotifyEffect
  <2> QED
    BY <1>1, <1>2, <2>1, <2>2
<1>5. ASSUME NEW e \in Ends, Receive(e) PROVE FromHome'
  <2>1. agml_command_notify_subscription(e) \/ UNCHANGED conn
    BY <1>5 DEF Receive, agml_command_subscribe, Welcome, agml_command_root_welcome, agml_command_add_to_network,
                agml_command_model, Model, agml_command_set_topology
  <2> QED
    BY <1>2, <1>4, <2>1
<1>6. ASSUME NEW t \in Threads, Continue(t) PROVE FromHome'
  <2>1. com_add_to_network(t) \/ UNCHANGED conn
    BY <1>6 DEF Continue, subscribe, Invite, Decide, Send, Read
  <2> QED
    BY <1>1, <1>2, <2>1, JoinEffect
<1> QED
  BY <1>3, <1>5, <1>6 DEF Next

LEMMA PromiseStep ==
    ASSUME TypeOK, TypeOK', Links, FromHome, AllBehind, Next, Promise
    PROVE  Promise'
BY PromiseRequest, PromiseContinue, PromiseReceive, PromiseAdd, PromiseNotify DEF Next, Receive

LEMMA PromiseInit ==
    ASSUME Init
    PROVE  FromHome /\ AllBehind /\ Promise
<1>1. Made = {}
  <2>1. \A e \in Ends : e.conn \in 1 .. MaxConn
    BY PeerEnds
  <2>2. Len(conn) = 0 /\ MaxConn \in Nat
    BY EmptySeq, ConstantsAssumption DEF Init
  <2> QED
    BY <2>1, <2>2 DEF Made
<1>2. AllBehind
  <2>1. Len(<<>>) = 0
    BY EmptySeq
  <2>2. Behind(<<>>)
    BY <2>1 DEF Behind
  <2> QED
    BY <2>2 DEF Init, AllBehind
<1>3. FromHome
  BY <1>1 DEF FromHome
<1>4. Promise
  BY DEF Init, Promise
<1> QED
  BY <1>2, <1>3, <1>4

(* When nothing is under way, nothing is promised any more.                *)
LEMMA QuietPromise ==
    ASSUME TypeOK, Links, Quiet, NEW d
    PROVE  ~Promised(d)
<1>1. ToSet(<<>>) = {}
  BY EmptySeq, SetOf
<1>2. \A e \in Ends : inbox[e] = <<>> /\ Peer(e) \in Ends /\ e \in Threads
  BY PeerEnds DEF Quiet, Threads
<1>3. \A t \in Threads : task[t].pc = "idle"
  BY DEF Quiet, Idle
<1>4. ~Entering(d)
  BY <1>1, <1>2, <1>3, Hellos DEF Entering, Waits, Told, MadeClients, Made
<1>5. ~Greeted(d) /\ ~NewsComes(d)
  BY <1>1, <1>2 DEF Greeted, NewsComes, Made
<1>6. ~TellsOf(d)
  BY <1>3 DEF TellsOf
<1> QED
  BY <1>4, <1>5, <1>6 DEF Promised

LEMMA AgreedNow ==
    ASSUME TypeOK, Links, Promise
    PROVE  Agreed
<1> SUFFICES ASSUME Quiet PROVE Agreed
  BY DEF Agreed
<1>1. ASSUME NamesTravel, NEW d \in Daemons, masters[d] # <<>>, root_host[d] = None PROVE FALSE
  <2>1. Travels
    <3>1. ToSet(conn) = {conn[i] : i \in 1 .. Len(conn)}
      BY TypeParts, SetOf DEF ConnOK
    <3>2. ASSUME NEW e \in Made PROVE conn[e.conn] \in ToSet(conn)
      <4>1. e.conn \in 1 .. Len(conn)
        BY TypeParts, MadeEnds
      <4> QED
        BY <3>1, <4>1
    <3>3. ASSUME NEW e \in Made, conn[e.conn].from = Loopback, NEW x \in Daemons
          PROVE  Interfaces[x] = Interfaces[conn[e.conn].client]
      BY <1>1, <3>2, <3>3 DEF NamesTravel
    <3> QED
      BY <3>3 DEF Travels
  <2>2. Promised(d)
    BY <1>1, <2>1 DEF Promise, Quiet
  <2> QED
    BY <2>2, QuietPromise
<1>2. \A e \in Made : e \in ToSet(slaves[Daemon(e)]) <=> Peer(e) \in ToSet(masters[Daemon(Peer(e))])
  BY AgreedEnds
<1> QED
  BY <1>1, <1>2 DEF Agreed

(* At every step, while no daemon has followed a null pointer and no       *)
(* address was told that means somebody else: a daemon that has masters    *)
(* and has not been spoken to by a root is still entering, or the news of  *)
(* it or the welcome is under way (agml_command_subscribe and what its     *)
(* news make the masters and the root do).                                 *)
THEOREM PromisesHold == Spec => [](TypeOK /\ Links /\ FromHome /\ AllBehind /\ Promise)
<1>1. Init => FromHome /\ AllBehind /\ Promise
  BY PromiseInit
<1>2. TypeOK /\ Links /\ TypeOK' /\ FromHome /\ AllBehind /\ Promise /\ [Next]_vars
        => (FromHome /\ AllBehind /\ Promise)'
  <2>1. TypeOK /\ Links /\ TypeOK' /\ FromHome /\ AllBehind /\ Promise /\ Next => (FromHome /\ AllBehind /\ Promise)'
    BY FromHomeStep, BehindStep, PromiseStep
  <2>2. FromHome /\ AllBehind /\ Promise /\ UNCHANGED vars => (FromHome /\ AllBehind /\ Promise)'
    BY DEF vars, FromHome, AllBehind, Promise, Promised, Entering, Greeted, TellsOf, NewsComes, NewsOf, HisAddress,
           Travels, Waits, Told, MadeClients, Made, Daemon, Threads
  <2> QED
    BY <2>1, <2>2
<1> QED
  BY <1>1, <1>2, LinksHold, PTL DEF Spec

(* When all is quiet both ends of a connection agree on who is the master, *)
(* and who has a master has been spoken to by a root (Network!Agreed).     *)
THEOREM AgreedHolds == Spec => []Agreed
<1>1. TypeOK /\ Links /\ Promise => Agreed
  BY AgreedNow
<1> QED
  BY <1>1, PromisesHold, PTL

-----------------------------------------------------------------------------
(* A model goes up as one thing, which is asked for, worked on or on its   *)
(* way, and comes down to each daemon as one, which is on its way, sent on *)
(* or read.                                                                *)
AskOf(m) == [cmd |-> "model", model |-> m]
TopologyOf(m) == [cmd |-> "set_topology", model |-> m]

(* A thread that does x has the model in hand.                             *)
IsUp(x, m) ==
    \/ x.pc \in {"invite", "join"} /\ x.model = m
    \/ x.pc = "send" /\ x.i = 1 /\ x.msg = AskOf(m)
IsDown(x, m) ==
    \/ x.pc = "send" /\ x.msg = TopologyOf(m)
    \/ x.pc = "read" /\ x.model = m

Plain(x) == \A m \in Models : ~IsUp(x, m) /\ ~IsDown(x, m)
PlainCmd(c) == \A m \in Models : c # AskOf(m) /\ c # TopologyOf(m)

LEMMA ModelCommands ==
    /\ \A m \in Models : AskOf(m) \in Commands /\ TopologyOf(m) \in Commands
    /\ \A m, n : AskOf(m) # TopologyOf(n) /\ (AskOf(m) = AskOf(n) => m = n) /\ (TopologyOf(m) = TopologyOf(n) => m = n)
    /\ \A m : AskOf(m).cmd = "model" /\ TopologyOf(m).cmd = "set_topology" /\ AskOf(m).model = m /\ TopologyOf(m).model = m
    /\ \A c : c.cmd \notin {"model", "set_topology"} => PlainCmd(c)
    /\ \A c : PlainCmd(Cmd("subscribe")) /\ PlainCmd(Cmd("add_to_network")) /\ PlainCmd(Cmd("root_welcome"))
<1>1. \A m \in Models : AskOf(m) \in Commands /\ TopologyOf(m) \in Commands
  BY CommandKinds DEF AskOf, TopologyOf
<1>2. \A m : AskOf(m).cmd = "model" /\ TopologyOf(m).cmd = "set_topology" /\ AskOf(m).model = m /\ TopologyOf(m).model = m
  BY DEF AskOf, TopologyOf
<1>3. \A c : c.cmd \notin {"model", "set_topology"} => PlainCmd(c)
  BY <1>2 DEF PlainCmd
<1>4. \A c : Cmd(c).cmd = c
  BY DEF Cmd
<1>5. \A m, n : AskOf(m) # TopologyOf(n) /\ (AskOf(m) = AskOf(n) => m = n) /\ (TopologyOf(m) = TopologyOf(n) => m = n)
  BY <1>2
<1>6. PlainCmd(Cmd("subscribe")) /\ PlainCmd(Cmd("add_to_network")) /\ PlainCmd(Cmd("root_welcome"))
  BY <1>3, <1>4
<1> QED
  BY <1>1, <1>2, <1>3, <1>5, <1>6

LEMMA OneInHand ==
    /\ \A x, m, n : (IsUp(x, m) => ~IsDown(x, n)) /\ (IsUp(x, m) /\ IsUp(x, n) => m = n) /\ (IsDown(x, m) /\ IsDown(x, n) => m = n)
    /\ \A x : x.pc \in {"idle", "subscribe", "welcome"} => Plain(x)
    /\ Plain(Idle)
<1>1. \A x, m, n : (IsUp(x, m) => ~IsDown(x, n)) /\ (IsUp(x, m) /\ IsUp(x, n) => m = n) /\ (IsDown(x, m) /\ IsDown(x, n) => m = n)
  BY ModelCommands DEF IsUp, IsDown
<1>2. \A x : x.pc \in {"idle", "subscribe", "welcome"} => Plain(x)
  BY DEF IsUp, IsDown, Plain
<1>3. Plain(Idle)
  BY <1>2 DEF Idle
<1> QED
  BY <1>1, <1>2, <1>3

LEMMA SetTopologyParts ==
    ASSUME NEW d, NEW m, NEW x, x = SetTopology(d, m)
    PROVE  /\ x.pc = "send" /\ x.to = "slaves" /\ x.i = 1 /\ x.msg = TopologyOf(m)
           /\ x.next = [pc |-> "read", model |-> m]
           /\ IsDown(x, m) /\ \A n : ~IsUp(x, n) /\ (IsDown(x, n) => n = m)
<1>1. PICK c, y : c = TopologyOf(m) /\ y = [pc |-> "read", model |-> m]
  OBVIOUS
<1>2. x = [pc |-> "send", to |-> "slaves", i |-> 1, msg |-> c, next |-> y]
  BY <1>1 DEF SetTopology, Broadcast, TopologyOf
<1>3. x.pc = "send" /\ x.to = "slaves" /\ x.i = 1 /\ x.msg = c /\ x.next = y
  BY <1>2
<1>4. IsDown(x, m)
  BY <1>1, <1>3 DEF IsDown
<1>5. \A n : ~IsUp(x, n)
  BY <1>4, OneInHand
<1> QED
  BY <1>1, <1>3, <1>4, <1>5, OneInHand

(* What a thread that sends m down has in hand is m and nothing else.     *)
LEMMA SetTopologyOnly ==
    ASSUME NEW d, NEW m, NEW x, x = SetTopology(d, m), NEW n, n # m
    PROVE  ~IsDown(x, n)
  BY SetTopologyParts

LEMMA PassUpParts ==
    ASSUME NEW d, NEW m, NEW x, x = PassUp(d, m)
    PROVE  IsUp(x, m) /\ \A n : ~IsDown(x, n)
<1>1. PICK c : c = AskOf(m)
  OBVIOUS
<1>2. x = [pc |-> "send", to |-> "masters", i |-> 1, msg |-> c, next |-> Idle]
  BY <1>1 DEF PassUp, Broadcast, AskOf
<1>3. x.pc = "send" /\ x.i = 1 /\ x.msg = c
  BY <1>2
<1>4. IsUp(x, m)
  BY <1>1, <1>3 DEF IsUp
<1> QED
  BY <1>4, OneInHand

-----------------------------------------------------------------------------
(* What a step does with models.  t has m in hand, or takes it.            *)
Source(m, t, e, c) ==
    /\ \A n \in Models : ~IsDown(task[t], n)
    /\ t \in todo \/ t \in Made \cup made
    /\ \/ e = None /\ t = m /\ m \in todo /\ task[t] = Idle
       \/ e = None /\ IsUp(task[t], m) /\ t \notin todo
       \/ e = t /\ e \in Made /\ task[t] = Idle /\ c = AskOf(m) /\ c \in ToSet(inbox[e])

NoModel(t, x, e, c, P) ==
    /\ Plain(task[t]) /\ Plain(x) /\ (e \in Ends => PlainCmd(c)) /\ (\A p \in P : PlainCmd(p))
    /\ log' = log
Climbs(m, t, x, e, c, g, P) ==
    /\ Source(m, t, e, c) /\ log' = log /\ (\A n \in Models : ~IsDown(x, n))
    /\ \/ IsUp(x, m) /\ \A p \in P : PlainCmd(p)
       \/ /\ Plain(x) /\ P = {AskOf(m)} /\ e = None
          /\ \E h \in Made : h \in ToSet(masters[At(t)]) /\ Daemon(h) = At(t) /\ g = Peer(h)
Lands(m, t, x, e, c, P) ==
    /\ Source(m, t, e, c) /\ log' = log /\ P = {} /\ x = SetTopology(At(t), m)
    /\ UNCHANGED slaves
Falls(m, t, x, e, c, P) ==
    /\ e = t /\ e \in Made /\ task[t] = Idle
    /\ inbox[e] # <<>> /\ c = Head(inbox[e]) /\ c = TopologyOf(m) /\ c \in ToSet(inbox[e])
    /\ inbox' = Taken(e) /\ log' = log /\ P = {} /\ x = SetTopology(At(t), m)
    /\ UNCHANGED slaves
Floods(t, m) ==
    /\ t \in Made \cup made /\ At(t) \in Daemons
    /\ task[t].pc = "send" /\ task[t].to = "slaves" /\ task[t].msg = TopologyOf(m)
    /\ task[t].next = [pc |-> "read", model |-> m] /\ task[t].i \in 1 .. MaxConn + 1
Forwards(m, t, x, e, g, P) ==
    /\ Floods(t, m) /\ task[t].i \in 1 .. Len(slaves[At(t)])
    /\ \E h \in Made : /\ h = slaves[At(t)][task[t].i] /\ h \in ToSet(slaves[At(t)]) /\ Daemon(h) = At(t)
                       /\ g = Peer(h) /\ inbox' = Put(inbox, h, TopologyOf(m))
    /\ x.pc = "send" /\ x.to = "slaves" /\ x.i = task[t].i + 1 /\ x.msg = TopologyOf(m)
    /\ x.next = [pc |-> "read", model |-> m]
    /\ e = None /\ P = {TopologyOf(m)} /\ log' = log /\ UNCHANGED <<masters, slaves, conn>>
Finishes(m, t, x, e, P) ==
    /\ Floods(t, m) /\ task[t].i > Len(slaves[At(t)])
    /\ x = [pc |-> "read", model |-> m] /\ e = None /\ P = {} /\ log' = log /\ inbox' = inbox
    /\ UNCHANGED slaves
Reads(m, t, x, e, P) ==
    /\ task[t] = [pc |-> "read", model |-> m] /\ t \in Made \cup made /\ At(t) \in Daemons
    /\ x = Idle /\ e = None /\ P = {} /\ inbox' = inbox /\ UNCHANGED slaves
    /\ log' = [log EXCEPT ![At(t)] = Append(@, m)]

Kind(t, x, e, c, g, P) ==
    \/ NoModel(t, x, e, c, P)
    \/ \E m \in Models :
          \/ Climbs(m, t, x, e, c, g, P) \/ Lands(m, t, x, e, c, P)
          \/ Falls(m, t, x, e, c, P) \/ Forwards(m, t, x, e, g, P)
          \/ Finishes(m, t, x, e, P) \/ Reads(m, t, x, e, P)

ModelStep == \E t, x, e, c, g, P : Effect(t, x, e, c, g, P) /\ Kind(t, x, e, c, g, P)

Few == \A d \in Daemons : Len(masters[d]) <= 1

LEMMA PlainStep ==
    ASSUME NEW t, NEW x, NEW e, NEW c, NEW g, NEW P, Effect(t, x, e, c, g, P), NoModel(t, x, e, c, P)
    PROVE  ModelStep
BY DEF ModelStep, Kind

LEMMA TakingUp ==
    ASSUME NEW m \in Models, NEW t, NEW x, NEW e, NEW c, Source(m, t, e, c), Takes_up(At(t), m, x),
           log' = log, UNCHANGED slaves, Effect(t, x, e, c, None, {})
    PROVE  ModelStep
<1>1. CASE x = [pc |-> "invite", model |-> m, invited |-> {}]
  <2>1. x.pc = "invite" /\ x.model = m
    BY <1>1
  <2>2. IsUp(x, m)
    BY <2>1 DEF IsUp
  <2>3. Climbs(m, t, x, e, c, None, {})
    BY <2>2, OneInHand DEF Climbs
  <2> QED
    BY <2>3 DEF ModelStep, Kind
<1>2. CASE x = PassUp(At(t), m)
  <2>1. Climbs(m, t, x, e, c, None, {})
    BY <1>2, PassUpParts DEF Climbs
  <2> QED
    BY <2>1 DEF ModelStep, Kind
<1>3. CASE x = SetTopology(At(t), m)
  <2>1. Lands(m, t, x, e, c, {})
    BY <1>3 DEF Lands
  <2> QED
    BY <2>1 DEF ModelStep, Kind
<1> QED
  BY <1>1, <1>2, <1>3 DEF Takes_up

LEMMA RequestModel ==
    ASSUME TypeOK, Links, NEW r \in todo, Request(r)
    PROVE  ModelStep
<1>1. Plain(task[r]) /\ task[r] = Idle /\ None \notin Ends
  BY OneInHand, ConstantsAssumption DEF Links, Latent
<1>2. ASSUME Alone(r) PROVE ModelStep
  <2>1. Effect(r, Idle, None, None, None, {}) /\ log' = log
    BY <1>2, AloneEffect DEF Turned
  <2>2. NoModel(r, Idle, None, None, {})
    BY <1>1, <2>1 DEF NoModel
  <2> QED
    BY <2>1, <2>2, PlainStep
<1>3. ASSUME com_enter_network(r) PROVE ModelStep
  <2>1. PICK n \in Ends : Turned(r, [pc |-> "subscribe", end |-> n])
    BY <1>3, EnterEffect
  <2>2. PICK x : x = [pc |-> "subscribe", end |-> n]
    OBVIOUS
  <2>3. Plain(x)
    BY <2>2, OneInHand
  <2>4. Effect(r, x, None, None, None, {}) /\ log' = log
    BY <1>3, <2>1, <2>2, EnterEffect DEF Turned
  <2>5. NoModel(r, x, None, None, {})
    BY <1>1, <2>3, <2>4 DEF NoModel
  <2> QED
    BY <2>4, <2>5, PlainStep
<1>4. ASSUME com_model(r) PROVE ModelStep
  <2>1. r \in Models /\ At(r) = r.at /\ log' = log /\ UNCHANGED slaves
    BY <1>4, AskEffect
  <2>2. PICK x \in Tasks : Takes_up(At(r), r, x) /\ Effect(r, x, None, None, None, {})
    BY <1>4, <2>1, AskEffect DEF Turned
  <2>3. Source(r, r, None, None)
    BY <1>1 DEF Source, Plain
  <2> QED
    BY <2>1, <2>2, <2>3, TakingUp
<1> QED
  BY <1>2, <1>3, <1>4 DEF Request

LEMMA ReceiveModel ==
    ASSUME TypeOK, Links, NEW e \in Ends, Receive(e)
    PROVE  ModelStep
<1>1. None \notin Ends /\ Plain(Idle) /\ (\A p \in {} : PlainCmd(p))
  BY OneInHand, ConstantsAssumption
<1>2. ASSUME NEW x, NEW f, NEW c, NEW g, NEW P, Effect(e, x, f, c, g, P), log' = log,
             Plain(task[e]), Plain(x), f \in Ends => PlainCmd(c), \A p \in P : PlainCmd(p)
      PROVE  ModelStep
  BY <1>2, PlainStep DEF NoModel
<1>3. ASSUME agml_command_subscribe(e) PROVE ModelStep
  <2>1. PICK x, c : x = [pc |-> "welcome", end |-> e] /\ c = Cmd("subscribe")
    OBVIOUS
  <2>2. Effect(e, x, e, c, None, {}) /\ log' = log /\ task[e] = Idle
    BY <1>3, <2>1, EnlistEffect
  <2>3. Plain(x) /\ PlainCmd(c)
    BY <2>1, OneInHand, ModelCommands
  <2> QED
    BY <1>1, <1>2, <2>2, <2>3
<1>4. ASSUME Welcome(e) PROVE ModelStep
  <2>1. log' = log /\ Plain(task[e])
    BY <1>4, WelcomeEffect, OneInHand
  <2>2. CASE Effect(e, Idle, None, None, Peer(e), {Cmd("root_welcome")})
    <3>1. PICK P : P = {Cmd("root_welcome")}
      OBVIOUS
    <3>2. Effect(e, Idle, None, None, Peer(e), P) /\ \A p \in P : PlainCmd(p)
      BY <2>2, <3>1, ModelCommands
    <3> QED
      BY <1>1, <1>2, <2>1, <3>2
  <2>3. CASE Turned(e, TellMasters(e))
    <3>1. PICK x, c : x = TellMasters(e) /\ c = [cmd |-> "notify_subscription", who |-> server_ip(e)]
      OBVIOUS
    <3>2. x = [pc |-> "send", to |-> "masters", i |-> 1, msg |-> c, next |-> Idle]
      BY <3>1 DEF TellMasters, Broadcast
    <3>3. x.pc = "send" /\ x.msg = c /\ c.cmd = "notify_subscription"
      BY <3>1, <3>2
    <3>4. PlainCmd(c)
      BY <3>3, ModelCommands
    <3>5. Plain(x)
      BY <3>3, <3>4 DEF Plain, IsUp, IsDown, PlainCmd
    <3>6. Effect(e, x, None, None, None, {})
      BY <2>3, <3>1 DEF Turned
    <3> QED
      BY <1>1, <1>2, <2>1, <3>5, <3>6
  <2> QED
    BY <1>4, <2>2, <2>3, WelcomeEffect
<1>5. ASSUME agml_command_notify_subscription(e) PROVE ModelStep
  <2>1. PICK c \in Commands :
          /\ c.cmd = "notify_subscription" /\ task[e] = Idle /\ log' = log
          /\ \/ \E g : Effect(e, Idle, e, c, g, {Cmd("root_welcome")})
             \/ Effect(e, Idle, e, c, None, {})
             \/ \E g : Effect(e, Idle, e, c, g, {c})
             \/ Effect(e, Idle, None, None, None, {})
    BY <1>5, NotifyEffect DEF Turned
  <2>2. PlainCmd(c) /\ PlainCmd(Cmd("root_welcome"))
    BY <2>1, ModelCommands
  <2>3. \A p \in {c} : PlainCmd(p)
    BY <2>2
  <2>4. \A p \in {Cmd("root_welcome")} : PlainCmd(p)
    BY <2>2
  <2>5. CASE \E g : Effect(e, Idle, e, c, g, {Cmd("root_welcome")})
    BY <1>1, <1>2, <2>1, <2>2, <2>4, <2>5
  <2>6. CASE \E g : Effect(e, Idle, e, c, g, {c})
    BY <1>1, <1>2, <2>1, <2>2, <2>3, <2>6
  <2> QED
    BY <1>1, <1>2, <2>1, <2>2, <2>5, <2>6
<1>6. ASSUME agml_command_root_welcome(e) PROVE ModelStep
  <2>1. PICK c : c = Cmd("root_welcome")
    OBVIOUS
  <2>2. Effect(e, Idle, e, c, None, {}) /\ log' = log /\ task[e] = Idle /\ PlainCmd(c)
    BY <1>6, <2>1, RootWelcomeEffect, ModelCommands
  <2> QED
    BY <1>1, <1>2, <2>2
<1>7. ASSUME agml_command_add_to_network(e) PROVE ModelStep
  <2>1. PICK c : c = Cmd("add_to_network")
    OBVIOUS
  <2>2. Effect(e, Idle, e, c, None, {}) /\ log' = log /\ task[e] = Idle /\ PlainCmd(c)
    BY <1>7, <2>1, AddEffect, ModelCommands
  <2> QED
    BY <1>1, <1>2, <2>2
<1>8. ASSUME agml_command_model(e) PROVE ModelStep
  <2>1. e \in Made /\ At(e) = Daemon(e) /\ task[e] = Idle /\ log' = log /\ UNCHANGED slaves
    BY <1>8, PassEffect
  <2>2. PICK x \in Tasks, m \in Models, c \in Commands :
          /\ c = AskOf(m) /\ c \in ToSet(inbox[e])
          /\ Takes_up(At(e), m, x) /\ Effect(e, x, e, c, None, {})
    BY <1>8, <2>1, PassEffect DEF AskOf
  <2>3. Source(m, e, e, c)
    BY <1>1, <2>1, <2>2 DEF Source, Plain
  <2> QED
    BY <2>1, <2>2, <2>3, TakingUp
<1>9. ASSUME agml_command_set_topology(e) PROVE ModelStep
  <2>1. /\ e \in Made /\ At(e) = Daemon(e) /\ task[e] = Idle /\ log' = log /\ UNCHANGED slaves
        /\ inbox' = Taken(e)
    BY <1>9, SetTopologyEffect
  <2>2. PICK m \in Models, c \in Commands :
          /\ c = TopologyOf(m) /\ c = Head(inbox[e]) /\ c \in ToSet(inbox[e])
          /\ Effect(e, SetTopology(At(e), m), e, c, None, {})
    BY <1>9, <2>1, SetTopologyEffect DEF TopologyOf
  <2>3. inbox[e] # <<>>
    BY <1>9 DEF agml_command_set_topology, Has
  <2>4. PICK x : x = SetTopology(At(e), m)
    OBVIOUS
  <2>5. Falls(m, e, x, e, c, {})
    BY <2>1, <2>2, <2>3, <2>4 DEF Falls
  <2>6. Effect(e, x, e, c, None, {})
    BY <2>2, <2>4
  <2> QED
    BY <2>5, <2>6 DEF ModelStep, Kind
<1> QED
  BY <1>3, <1>4, <1>5, <1>6, <1>7, <1>8, <1>9 DEF Receive

LEMMA SendModel ==
    ASSUME TypeOK, Links, Few, NEW t \in Threads, Send(t)
    PROVE  ModelStep
<1>1. /\ task[t].pc = "send" /\ t \in Made \cup made /\ At(t) \in Daemons
      /\ task[t].i \in 1 .. MaxConn + 1 /\ task[t].msg \in Commands
      /\ UNCHANGED <<conn, masters, slaves, log>>
  BY SendEffect
<1>2. PICK c, y : c = task[t].msg /\ y = task[t].next
  OBVIOUS
<1>3. \/ /\ task[t].to = "masters" /\ y = Idle /\ c.cmd \in {"notify_subscription", "model"}
         /\ masters[At(t)] # <<>>
      \/ task[t].to = "slaves" /\ c.cmd = "set_topology" /\ y = [pc |-> "read", model |-> c.model]
  <2>1. Sound(t, task[t])
    BY DEF Links, Tasked, Sound
  <2> QED
    BY <1>1, <1>2, <2>1 DEF Sound
<1>4. None \notin Ends /\ Plain(Idle)
  BY OneInHand, ConstantsAssumption
<1>5. CASE task[t].to = "slaves"
  <2>1. PICK m \in Models : c = TopologyOf(m) /\ y = [pc |-> "read", model |-> m]
    <3>1. c \in Commands /\ c.cmd = "set_topology"
      BY <1>1, <1>2, <1>3, <1>5
    <3>2. c.model \in Models /\ c = [cmd |-> "set_topology", model |-> c.model]
      BY <3>1, CommandKinds
    <3> QED
      BY <1>3, <1>5, <3>2 DEF TopologyOf
  <2>2. Floods(t, m)
    BY <1>1, <1>2, <1>5, <2>1 DEF Floods
  <2>3. Hosts(At(t), task[t].to) = slaves[At(t)]
    BY <1>5 DEF Hosts
  <2>4. ASSUME task[t].i > Len(slaves[At(t)]), Turned(t, y) PROVE ModelStep
    <3>1. Finishes(m, t, y, None, {})
      BY <1>1, <2>1, <2>2, <2>4 DEF Finishes, Turned
    <3>2. Effect(t, y, None, None, None, {})
      BY <2>4 DEF Turned
    <3> QED
      BY <3>1, <3>2 DEF ModelStep, Kind
  <2>5. ASSUME NEW h \in Made, NEW x \in Tasks,
               task[t].i \in 1 .. Len(slaves[At(t)]), h = slaves[At(t)][task[t].i], h \in ToSet(slaves[At(t)]),
               Daemon(h) = At(t), x.pc = "send", x.to = task[t].to, x.msg = c, x.next = y, x.i = task[t].i + 1,
               inbox' = Put(inbox, h, c), Effect(t, x, None, None, Peer(h), {c})
        PROVE  ModelStep
    <3>1. Forwards(m, t, x, None, Peer(h), {c})
      BY <1>1, <1>5, <2>1, <2>2, <2>5 DEF Forwards
    <3> QED
      BY <2>5, <3>1 DEF ModelStep, Kind
  <2> QED
    BY <1>2, <2>3, <2>4, <2>5, SendEffect
<1>6. CASE task[t].to = "masters"
  <2>1. Hosts(At(t), task[t].to) = masters[At(t)] /\ y = Idle
    BY <1>3, <1>6 DEF Hosts
  <2>2. Len(masters[At(t)]) = 1
    <3>1. masters[At(t)] # <<>> /\ Len(masters[At(t)]) <= 1
      BY <1>1, <1>3, <1>6 DEF Few
    <3>2. Len(masters[At(t)]) \in Nat \ {0}
      BY <1>1, <3>1, TypeParts, EmptySeq
    <3>3. PICK n : n = Len(masters[At(t)])
      OBVIOUS
    <3>4. n \in Nat \ {0} /\ n <= 1
      BY <3>1, <3>2, <3>3
    <3>5. n = 1
      BY <3>4
    <3> QED
      BY <3>3, <3>5
  <2>3. \A n \in Models : ~IsDown(task[t], n)
    BY <1>1, <1>2, <1>3, <1>6, ModelCommands DEF IsDown
  <2>4. ASSUME task[t].i > Len(masters[At(t)]), Turned(t, y) PROVE ModelStep
    <3>1. Effect(t, Idle, None, None, None, {}) /\ log' = log
      BY <1>1, <2>1, <2>4 DEF Turned
    <3>2. task[t].i # 1
      BY <1>1, <2>2, <2>4
    <3>3. Plain(task[t])
      BY <1>1, <2>3, <3>2 DEF Plain, IsUp
    <3>4. NoModel(t, Idle, None, None, {})
      BY <1>4, <3>1, <3>3 DEF NoModel
    <3> QED
      BY <3>1, <3>4, PlainStep
  <2>5. ASSUME NEW h \in Made, NEW x \in Tasks,
               task[t].i \in 1 .. Len(masters[At(t)]), h \in ToSet(masters[At(t)]), Daemon(h) = At(t),
               x.pc = "send", x.msg = c, x.i = task[t].i + 1,
               Effect(t, x, None, None, Peer(h), {c})
        PROVE  ModelStep
    <3>1. task[t].i = 1 /\ x.i # 1
      BY <1>1, <2>2, <2>5
    <3>2. Plain(x)
      BY <1>2, <1>3, <1>6, <2>5, <3>1, ModelCommands DEF Plain, IsUp, IsDown
    <3>3. CASE c.cmd = "notify_subscription"
      <4>1. PlainCmd(c)
        BY <3>3, ModelCommands
      <4>2. Plain(task[t])
        BY <1>1, <1>2, <2>3, <4>1 DEF Plain, IsUp, PlainCmd
      <4>3. NoModel(t, x, None, None, {c})
        BY <1>1, <1>4, <3>2, <4>1, <4>2 DEF NoModel
      <4> QED
        BY <2>5, <4>3, PlainStep
    <3>4. CASE c.cmd = "model"
      <4>1. c.model \in Models /\ c = [cmd |-> "model", model |-> c.model]
        BY <1>1, <1>2, <3>4, CommandKinds
      <4>2. PICK m \in Models : c = AskOf(m)
        BY <4>1 DEF AskOf
      <4>3. t \notin todo
        <5>1. task[t] # Idle
          BY <1>1 DEF Idle
        <5> QED
          BY <5>1, WorkingIsMade
      <4>4. Source(m, t, None, None)
        BY <1>1, <1>2, <2>3, <3>1, <4>2, <4>3 DEF Source, IsUp
      <4>5. Climbs(m, t, x, None, None, Peer(h), {c})
        BY <1>1, <2>5, <3>2, <4>2, <4>4 DEF Climbs, Plain
      <4> QED
        BY <2>5, <4>5 DEF ModelStep, Kind
    <3> QED
      BY <1>3, <1>6, <3>3, <3>4
  <2> QED
    BY <1>2, <2>1, <2>4, <2>5, SendEffect
<1> QED
  BY <1>3, <1>5, <1>6

LEMMA ContinueModel ==
    ASSUME TypeOK, Links, Few, NEW t \in Threads, Continue(t)
    PROVE  ModelStep
<1>1. None \notin Ends /\ Plain(Idle)
  BY OneInHand, ConstantsAssumption
<1>2. ASSUME task[t].pc \in {"invite", "join"} PROVE Source(task[t].model, t, None, None) /\ task[t].model \in Models
  <2>1. task[t] # Idle /\ task[t] \in Tasks
    BY <1>2, TypeParts DEF Idle
  <2>2. t \notin todo /\ t \in Made \cup made
    BY <2>1, WorkingIsMade
  <2>3. IsUp(task[t], task[t].model)
    BY <1>2 DEF IsUp
  <2> QED
    BY <1>2, <2>1, <2>2, <2>3, OneInHand, TaskParts DEF Source
<1>3. ASSUME NEW m \in Models, Source(m, t, None, None), log' = log, NEW x, NEW g, NEW P,
             Effect(t, x, None, None, g, P), x.pc \in {"invite", "join"}, x.model = m,
             P = {} \/ P = {Cmd("add_to_network"), Cmd("root_welcome")}
      PROVE  ModelStep
  <2>1. IsUp(x, m)
    BY <1>3 DEF IsUp
  <2>2. \A p \in P : PlainCmd(p)
    BY <1>3, ModelCommands
  <2>3. Climbs(m, t, x, None, None, g, P)
    BY <1>3, <2>1, <2>2, OneInHand DEF Climbs
  <2> QED
    BY <1>3, <2>3 DEF ModelStep, Kind
<1>4. ASSUME subscribe(t) PROVE ModelStep
  <2>1. PICK g, P : P = {Cmd("subscribe")} /\ Effect(t, Idle, None, None, g, P)
    BY <1>4, SubscribeEffect
  <2>2. log' = log /\ task[t].pc = "subscribe"
    BY <1>4, SubscribeEffect
  <2>3. \A p \in P : PlainCmd(p)
    BY <2>1, ModelCommands
  <2>4. NoModel(t, Idle, None, None, P)
    BY <1>1, <2>2, <2>3, OneInHand DEF NoModel
  <2> QED
    BY <2>1, <2>4, PlainStep
<1>5. ASSUME com_add_to_network(t) PROVE ModelStep
  <2>1. task[t].pc = "invite" /\ log' = log
    BY <1>5, JoinEffect
  <2>2. PICK m \in Models : m = task[t].model
    BY <1>2, <2>1
  <2>3. PICK x : x.pc \in {"invite", "join"} /\ x.model = m /\ Turned(t, x)
    <3>1. CASE \E n \in Ends, tried \in SUBSET Known :
                  Turned(t, [pc |-> "join", end |-> n, model |-> task[t].model, invited |-> tried])
      <4>1. PICK n \in Ends, tried \in SUBSET Known :
                  Turned(t, [pc |-> "join", end |-> n, model |-> task[t].model, invited |-> tried])
        BY <3>1
      <4>2. PICK x : x = [pc |-> "join", end |-> n, model |-> task[t].model, invited |-> tried]
        OBVIOUS
      <4>3. x.pc = "join" /\ x.model = m /\ Turned(t, x)
        BY <2>2, <4>1, <4>2
      <4> QED
        BY <4>3
    <3>2. CASE \E tried \in SUBSET Known :
                  Turned(t, [pc |-> "invite", model |-> task[t].model, invited |-> tried])
      <4>1. PICK tried \in SUBSET Known :
                  Turned(t, [pc |-> "invite", model |-> task[t].model, invited |-> tried])
        BY <3>2
      <4>2. PICK x : x = [pc |-> "invite", model |-> task[t].model, invited |-> tried]
        OBVIOUS
      <4>3. x.pc = "invite" /\ x.model = m /\ Turned(t, x)
        BY <2>2, <4>1, <4>2
      <4> QED
        BY <4>3
    <3> QED
      BY <1>5, <3>1, <3>2, JoinEffect
  <2> QED
    BY <1>2, <1>3, <2>1, <2>2, <2>3 DEF Turned
<1>6. ASSUME Invite(t) PROVE ModelStep
  <2>1. task[t].pc = "join" /\ log' = log
    BY <1>6, InviteEffect
  <2>2. PICK m \in Models : m = task[t].model
    BY <1>2, <2>1
  <2>3. PICK P : P = {Cmd("add_to_network"), Cmd("root_welcome")}
    OBVIOUS
  <2>4. PICK g, invited : Effect(t, [pc |-> "invite", model |-> task[t].model, invited |-> invited], None, None, g, P)
    BY <1>6, <2>3, InviteEffect
  <2>5. PICK x : x = [pc |-> "invite", model |-> task[t].model, invited |-> invited]
    OBVIOUS
  <2>6. x.pc = "invite" /\ x.model = m /\ Effect(t, x, None, None, g, P)
    BY <2>2, <2>4, <2>5
  <2> QED
    BY <1>2, <1>3, <2>1, <2>2, <2>3, <2>6
<1>7. ASSUME Decide(t) PROVE ModelStep
  <2>1. task[t].pc = "invite" /\ log' = log /\ UNCHANGED slaves
    BY <1>7, DecideEffect
  <2>2. PICK x : Takes_up(At(t), task[t].model, x) /\ Effect(t, x, None, None, None, {})
    BY <1>7, DecideEffect DEF Turned
  <2> QED
    BY <1>2, <2>1, <2>2, TakingUp
<1>8. ASSUME Read(t) PROVE ModelStep
  <2>1. /\ task[t].pc = "read" /\ task[t].model \in Models /\ t \in Made \cup made /\ At(t) \in Daemons
        /\ UNCHANGED slaves /\ inbox' = inbox
        /\ log' = [log EXCEPT ![At(t)] = Append(@, task[t].model)]
        /\ Effect(t, Idle, None, None, None, {})
    BY <1>8, ReadEffect DEF Turned
  <2>2. task[t] = [pc |-> "read", model |-> task[t].model]
    BY <2>1, TypeParts, TaskParts
  <2>3. Reads(task[t].model, t, Idle, None, {})
    BY <2>1, <2>2 DEF Reads
  <2> QED
    BY <2>1, <2>3 DEF ModelStep, Kind
<1> QED
  BY <1>4, <1>5, <1>6, <1>7, <1>8, SendModel DEF Continue

LEMMA ModelSteps ==
    ASSUME TypeOK, Links, Few, Next
    PROVE  ModelStep
BY RequestModel, ReceiveModel, ContinueModel DEF Next

-----------------------------------------------------------------------------
(* The arrays only grow, so that what is a forest was one before.          *)
Longer(s, r) == Len(s) <= Len(r) /\ \A i \in 1 .. Len(s) : r[i] = s[i]

LEMMA ArrayGains ==
    ASSUME TypeOK, Links, Next
    PROVE  /\ UNCHANGED masters \/ \E d \in Daemons, n \in Ends : MasterOf(d, n)
           /\ UNCHANGED slaves \/ \E d \in Daemons, n \in Ends : SlaveOf(d, n)
<1> DEFINE Gains ==
           /\ UNCHANGED masters \/ \E d \in Daemons, n \in Ends : MasterOf(d, n)
           /\ UNCHANGED slaves \/ \E d \in Daemons, n \in Ends : SlaveOf(d, n)
<1>1. ASSUME NEW r \in todo, Request(r) PROVE Gains
  BY <1>1, AloneEffect, EnterEffect, AskEffect DEF Request
<1>2. ASSUME NEW e \in Ends, Receive(e) PROVE Gains
  <2>1. agml_command_subscribe(e) => Gains
    BY EnlistEffect
  <2>2. Welcome(e) => Gains
    BY WelcomeEffect
  <2>3. agml_command_notify_subscription(e) => Gains
    BY NotifyEffect
  <2>4. agml_command_root_welcome(e) => Gains
    BY RootWelcomeEffect
  <2>5. agml_command_add_to_network(e) => Gains
    BY AddEffect
  <2>6. agml_command_model(e) => Gains
    BY PassEffect
  <2>7. agml_command_set_topology(e) => Gains
    BY SetTopologyEffect
  <2> HIDE DEF Gains
  <2> QED
    BY <1>2, <2>1, <2>2, <2>3, <2>4, <2>5, <2>6, <2>7 DEF Receive
<1>3. ASSUME NEW t \in Threads, Continue(t) PROVE Gains
  <2>1. subscribe(t) => Gains
    BY SubscribeEffect
  <2>2. com_add_to_network(t) => Gains
    BY JoinEffect
  <2>3. Invite(t) => Gains
    BY InviteEffect
  <2>4. Decide(t) => Gains
    BY DecideEffect
  <2>5. Send(t) => Gains
    BY SendEffect
  <2>6. Read(t) => Gains
    BY ReadEffect
  <2> HIDE DEF Gains
  <2> QED
    BY <1>3, <2>1, <2>2, <2>3, <2>4, <2>5, <2>6 DEF Continue
<1> HIDE DEF Gains
<1>4. Gains
  BY <1>1, <1>2, <1>3 DEF Next
<1> QED
  BY <1>4 DEF Gains

LEMMA LongerSame ==
    ASSUME NEW S, NEW s \in Seq(S)
    PROVE  Longer(s, s)
<1>1. Len(s) \in Nat
  BY SetOf
<1> QED
  BY <1>1 DEF Longer

LEMMA LongerAppend ==
    ASSUME NEW S, NEW s \in Seq(S), NEW x \in S
    PROVE  Longer(s, Append(s, x))
<1>1. PICK q : q = Append(s, x)
  OBVIOUS
<1>2. Len(q) = Len(s) + 1 /\ Len(s) \in Nat /\ \A i \in 1 .. Len(s) : q[i] = s[i]
  BY <1>1, SetAppend
<1>3. Len(s) <= Len(q)
  BY <1>2
<1> QED
  BY <1>1, <1>2, <1>3 DEF Longer

LEMMA ArraysGrow ==
    ASSUME TypeOK, Links, Next, NEW d \in Daemons
    PROVE  Longer(masters[d], masters'[d]) /\ Longer(slaves[d], slaves'[d])
<1>1. masters[d] \in Seq(Ends) /\ slaves[d] \in Seq(Ends)
  BY TypeParts
<1>2. masters'[d] = masters[d] \/ \E n \in Ends : masters'[d] = Append(masters[d], n)
  BY ArrayGains DEF MasterOf
<1>3. slaves'[d] = slaves[d] \/ \E n \in Ends : slaves'[d] = Append(slaves[d], n)
  BY ArrayGains DEF SlaveOf
<1>4. Longer(masters[d], masters'[d])
  BY <1>1, <1>2, LongerSame, LongerAppend
<1>5. Longer(slaves[d], slaves'[d])
  BY <1>1, <1>3, LongerSame, LongerAppend
<1> QED
  BY <1>4, <1>5

LEMMA StepStays ==
    ASSUME TypeOK, Links, Next
    PROVE  /\ EndsStay /\ InSlaves \subseteq InSlaves' /\ InMasters \subseteq InMasters'
           /\ \A e \in Made : Daemon(e)' = Daemon(e) /\ Daemon(Peer(e))' = Daemon(Peer(e)) /\ Daemon(e) \in Daemons
<1>1. EndsStay
  <2>1. ASSUME NEW r \in todo, Request(r) PROVE EndsStay
    BY <2>1, AloneEffect, EnterEffect, AskEffect DEF Request, Turned, Effect
  <2>2. ASSUME NEW e \in Ends, Receive(e) PROVE EndsStay
    BY <2>2, EnlistEffect, WelcomeEffect, NotifyEffect, RootWelcomeEffect, AddEffect, PassEffect,
       SetTopologyEffect DEF Receive, Turned, Effect
  <2>3. ASSUME NEW t \in Threads, Continue(t) PROVE EndsStay
    BY <2>3, SubscribeEffect, JoinEffect, InviteEffect, DecideEffect, SendEffect, ReadEffect
       DEF Continue, Turned, Effect
  <2> QED
    BY <2>1, <2>2, <2>3 DEF Next
<1>2. \A e \in Made : e \in Made' /\ Peer(e) \in Made /\ Daemon(e) \in Daemons
  BY <1>1, TypeParts, MadeEnds DEF EndsStay
<1>3. \A d \in Daemons : ToSet(masters[d]) \subseteq ToSet(masters'[d]) /\ ToSet(slaves[d]) \subseteq ToSet(slaves'[d])
  BY ArrayGains DEF MasterOf, SlaveOf
<1>4. \A e \in Made : Daemon(e)' = Daemon(e) /\ Daemon(Peer(e))' = Daemon(Peer(e))
  BY <1>1, <1>2 DEF EndsStay
<1>5. InSlaves \subseteq InSlaves' /\ InMasters \subseteq InMasters'
  BY <1>2, <1>3, <1>4 DEF InSlaves, InMasters
<1> QED
  BY <1>1, <1>2, <1>4, <1>5

(* A forest, without counting.                                             *)
OneParent == \A e, f \in InSlaves : Daemon(Peer(e)) = Daemon(Peer(f)) => e = f
NoCycle ==
    \A S \in SUBSET Daemons \ {{}} :
        \E x \in S : \A e \in InSlaves : Daemon(Peer(e)) = x => Daemon(e) \notin S
Woods == Few /\ OneParent /\ NoCycle

LEMMA WoodsBefore ==
    ASSUME TypeOK, TypeOK', Links, Next, Woods'
    PROVE  Woods
<1>1. /\ InSlaves \subseteq InSlaves'
      /\ \A e \in InSlaves : Daemon(e)' = Daemon(e) /\ Daemon(Peer(e))' = Daemon(Peer(e))
  BY StepStays DEF InSlaves
<1>2. Few
  <2> SUFFICES ASSUME NEW d \in Daemons PROVE Len(masters[d]) <= 1
    BY DEF Few
  <2>1. Len(masters[d]) \in Nat /\ Len(masters'[d]) \in Nat
    BY SetOf DEF TypeOK
  <2>2. Len(masters[d]) <= Len(masters'[d]) /\ Len(masters'[d]) <= 1
    BY ArraysGrow DEF Longer, Woods, Few
  <2> QED
    BY <2>1, <2>2
<1>3. OneParent
  <2>1. OneParent'
    BY DEF Woods
  <2> QED
    BY <1>1, <2>1 DEF OneParent
<1>4. NoCycle
  <2>1. NoCycle'
    BY DEF Woods
  <2> QED
    BY <1>1, <2>1 DEF NoCycle
<1> QED
  BY <1>2, <1>3, <1>4 DEF Woods

LEMMA FiniteEnds == IsFiniteSet(Ends)
<1>1. IsFiniteSet(1 .. MaxConn)
  BY FS_Interval, ConstantsAssumption
<1>2. IsFiniteSet(Sides)
  <2>1. IsFiniteSet({"client"})
    BY FS_Singleton
  <2>2. IsFiniteSet({"client"} \cup {"server"})
    BY <2>1, FS_AddElement
  <2>3. Sides = {"client"} \cup {"server"}
    BY DEF Sides
  <2> QED
    BY <2>2, <2>3
<1>3. PICK S : S = (1 .. MaxConn) \X Sides
  OBVIOUS
<1>4. IsFiniteSet(S)
  BY <1>1, <1>2, <1>3, FS_Product
<1>5. PICK f : f = [p \in S |-> [conn |-> p[1], side |-> p[2]]]
  OBVIOUS
<1>6. f \in Surjection(S, Ends)
  <2>1. f \in [S -> Ends]
    BY <1>3, <1>5 DEF Ends
  <2>2. ASSUME NEW e \in Ends PROVE \E p \in S : f[p] = e
    <3>1. e = [conn |-> e.conn, side |-> e.side] /\ <<e.conn, e.side>> \in S
      BY <1>3 DEF Ends
    <3>2. f[<<e.conn, e.side>>] = e
      BY <1>5, <3>1
    <3> QED
      BY <3>1, <3>2
  <2> QED
    BY <2>1, <2>2 DEF Surjection
<1> QED
  BY <1>4, <1>6, FS_Surjection

LEMMA AtMostOne ==
    ASSUME NEW S, IsFiniteSet(S), Cardinality(S) <= 1, NEW a \in S, NEW b \in S
    PROVE  a = b
<1> SUFFICES ASSUME a # b PROVE FALSE
  OBVIOUS
<1>1. IsFiniteSet({a}) /\ Cardinality({a}) = 1
  BY FS_Singleton
<1>7. PICK T : T = {a}
  OBVIOUS
<1>8. IsFiniteSet(T) /\ Cardinality(T) = 1 /\ b \notin T
  BY <1>1, <1>7
<1>9. Cardinality(T \cup {b}) = 1 + 1
  BY <1>8, FS_AddElement
<1>2. Cardinality({a} \cup {b}) = 2
  BY <1>7, <1>9
<1>3. PICK n \in Nat : n = Cardinality(S)
  BY FS_CardinalityType
<1>4. {a} \cup {b} \in SUBSET S
  OBVIOUS
<1>5. Cardinality({a} \cup {b}) <= n
  BY <1>3, <1>4, FS_Subset
<1>6. 2 <= n /\ n <= 1
  BY <1>2, <1>3, <1>5
<1> QED
  BY <1>6

LEMMA ForestIsWoods ==
    ASSUME TypeOK, Links, Forest
    PROVE  Woods
<1>1. \A d \in Daemons : \A e \in ToSet(slaves[d]) : e \in Made /\ e \in Ends /\ Daemon(e) = d
  BY DEF Links, Ours, Made
<1>2. \A e \in InSlaves : e \in Made /\ e \in Ends /\ Daemon(e) \in Daemons /\ Daemon(Peer(e)) \in Daemons
                          /\ e \in SlaveEnds(Daemon(e), Daemon(Peer(e)))
  BY TypeParts, MadeEnds DEF InSlaves, SlaveEnds
<1>3. Few
  BY DEF Forest, Few
<1>4. ASSUME NEW e \in InSlaves, NEW f \in InSlaves, Daemon(Peer(e)) = Daemon(Peer(f)) PROVE e = f
  <2>1. PICK x \in Daemons : x = Daemon(Peer(e))
    BY <1>2
  <2>2. PICK S : S = UNION {SlaveEnds(d, x) : d \in Daemons}
    OBVIOUS
  <2>3. e \in S /\ f \in S
    BY <1>2, <1>4, <2>1, <2>2
  <2>4. S \subseteq Ends
    BY <1>1, <2>2 DEF SlaveEnds
  <2>5. IsFiniteSet(S)
    BY <2>4, FiniteEnds, FS_Subset
  <2>6. Cardinality(S) <= 1
    BY <2>1, <2>2 DEF Forest
  <2> QED
    BY <2>3, <2>5, <2>6, AtMostOne
<1>5. ASSUME NEW S \in SUBSET Daemons \ {{}}
      PROVE  \E x \in S : \A e \in InSlaves : Daemon(Peer(e)) = x => Daemon(e) \notin S
  <2>1. PICK x \in S : \A d \in S : SlaveEnds(d, x) = {}
    BY DEF Forest
  <2> QED
    BY <1>2, <2>1
<1> QED
  BY <1>3, <1>4, <1>5 DEF Woods, OneParent, NoCycle

-----------------------------------------------------------------------------
(* Upwards.                                                                *)
Places == {"todo", "task", "mail"}
Up(k, y, m) ==
    \/ k = "todo" /\ y = m /\ m \in todo
    \/ k = "task" /\ IsUp(task[y], m)
    \/ k = "mail" /\ y \in Ends /\ AskOf(m) \in ToSet(inbox[y])
SomeUp(m) == \E k \in Places, y \in Threads : Up(k, y, m)
OneUp(m) ==
    /\ \A k, l \in Places, y, z \in Threads : Up(k, y, m) /\ Up(l, z, m) => k = l /\ y = z
    /\ \A e \in Ends : Single(inbox[e], AskOf(m))

LEMMA UpMoves ==
    ASSUME NEW m, OneUp(m), NEW t, NEW x, NEW e, NEW c, NEW g, NEW P, Effect(t, x, e, c, g, P)
    PROVE  \A k \in Places, y \in Threads' : Up(k, y, m)' =>
             /\ y \in Threads
             /\ k = "todo" => y # t /\ Up(k, y, m)
             /\ k = "task" => IF y = t THEN IsUp(x, m) ELSE Up(k, y, m)
             /\ k = "mail" => \/ y = g /\ AskOf(m) \in P
                              \/ Up(k, y, m) /\ ~(y = e /\ c = AskOf(m))
<1> SUFFICES ASSUME NEW k \in Places, NEW y \in Threads', Up(k, y, m)'
             PROVE  /\ y \in Threads
                    /\ k = "todo" => y # t /\ Up(k, y, m)
                    /\ k = "task" => IF y = t THEN IsUp(x, m) ELSE Up(k, y, m)
                    /\ k = "mail" => \/ y = g /\ AskOf(m) \in P
                                     \/ Up(k, y, m) /\ ~(y = e /\ c = AskOf(m))
  OBVIOUS
<1>0. \A f \in Ends : Single(inbox[f], AskOf(m))
  BY DEF OneUp
<1>1. /\ Threads' = Threads /\ todo' \subseteq todo /\ t \notin todo' /\ t \in Threads
      /\ \A u \in Threads : task'[u] = IF u = t THEN x ELSE task[u]
  BY DEF Effect, EndsStay, Turns
<1>2. CASE k = "todo"
  BY <1>1, <1>2 DEF Up
<1>3. CASE k = "task"
  BY <1>1, <1>3 DEF Up
<1>4. CASE k = "mail"
  <2>1. y \in Ends /\ AskOf(m) \in ToSet(inbox'[y])
    BY <1>4 DEF Up
  <2>2. AskOf(m) \in ToSet(inbox[y]) \/ (y = g /\ AskOf(m) \in P)
    BY <2>1 DEF Effect, Mails
  <2>3. ~(y = e /\ c = AskOf(m)) \/ (y = g /\ AskOf(m) \in P)
    <3> SUFFICES ASSUME y = e, c = AskOf(m), y = g => AskOf(m) \notin P PROVE FALSE
      OBVIOUS
    <3>1. \A f \in Ends : \A a : Single(inbox[f], a) /\ f = e /\ a = c /\ (f = g => a \notin P) => a \notin ToSet(inbox'[f])
      BY DEF Effect, Mails
    <3>2. Single(inbox[y], AskOf(m))
      BY <1>0, <2>1
    <3>3. AskOf(m) \notin ToSet(inbox'[y])
      BY <2>1, <3>1, <3>2
    <3> QED
      BY <2>1, <3>3
  <2> QED
    BY <1>1, <1>4, <2>1, <2>2, <2>3 DEF Up
<1> QED
  BY <1>1, <1>2, <1>3, <1>4 DEF Places

LEMMA UpSingle ==
    ASSUME NEW m, NEW t, NEW x, NEW e, NEW c, NEW g, NEW P, Effect(t, x, e, c, g, P),
           \A f \in Ends : Single(inbox[f], AskOf(m)),
           g \in Ends /\ AskOf(m) \in P => AskOf(m) \notin ToSet(inbox[g])
    PROVE  \A f \in Ends : Single(inbox'[f], AskOf(m))
BY DEF Effect, Mails

LEMMA UpSame ==
    ASSUME NEW m, OneUp(m), NEW t, NEW x, NEW e, NEW c, NEW g, NEW P, Effect(t, x, e, c, g, P),
           ~IsUp(x, m), AskOf(m) \notin P
    PROVE  OneUp(m)' /\ (SomeUp(m)' => SomeUp(m))
<1>1. \A f \in Ends : Single(inbox[f], AskOf(m))
  BY DEF OneUp
<1>2. \A f \in Ends : Single(inbox'[f], AskOf(m))
  BY <1>1, UpSingle
<1>3. ASSUME NEW k \in Places, NEW y \in Threads', Up(k, y, m)' PROVE y \in Threads /\ Up(k, y, m)
  <2>1. k \in {"todo", "task", "mail"}
    BY DEF Places
  <2> QED
    BY <1>3, <2>1, UpMoves
<1> QED
  BY <1>2, <1>3 DEF OneUp, SomeUp

(* What t has had in hand has left its place.                              *)
LEMMA UpLeaves ==
    ASSUME NEW m, OneUp(m), NEW t, NEW x, NEW e, NEW c, NEW g, NEW P, Effect(t, x, e, c, g, P),
           Source(m, t, e, c)
    PROVE  /\ SomeUp(m)
           /\ \A k \in Places, y \in Threads' : Up(k, y, m)' =>
                 (k = "task" /\ y = t /\ IsUp(x, m)) \/ (k = "mail" /\ y = g /\ AskOf(m) \in P)
           /\ e = None /\ g \in Ends => AskOf(m) \notin ToSet(inbox[g])
<1>2. t \in Threads /\ \A f \in Ends : f \in Threads
  BY DEF Effect, Turns, Threads
<1>3. "todo" \in Places /\ "task" \in Places /\ "mail" \in Places
  BY DEF Places
<1>4. \/ e = None /\ t = m /\ Up("todo", t, m)
      \/ e = None /\ Up("task", t, m)
      \/ e = t /\ c = AskOf(m) /\ Up("mail", t, m)
  BY DEF Source, Up, Made
<1>5. SomeUp(m)
  BY <1>2, <1>3, <1>4 DEF SomeUp
<1>6. ASSUME NEW k \in Places, NEW y \in Threads', Up(k, y, m)',
             ~(k = "task" /\ y = t /\ IsUp(x, m)), ~(k = "mail" /\ y = g /\ AskOf(m) \in P)
      PROVE  FALSE
  <2>1. /\ y \in Threads
        /\ k = "todo" => y # t /\ Up(k, y, m)
        /\ k = "task" => y # t /\ Up(k, y, m)
        /\ k = "mail" => Up(k, y, m) /\ ~(y = e /\ c = AskOf(m))
    BY <1>6, UpMoves
  <2>2. k \in {"todo", "task", "mail"}
    BY DEF Places
  <2>3. Up(k, y, m)
    BY <2>1, <2>2
  <2>4. \A l \in Places : Up(l, t, m) => k = l /\ y = t
    BY <1>2, <2>1, <2>3 DEF OneUp
  <2> QED
    BY <1>3, <1>4, <2>1, <2>4
<1>7. ASSUME e = None, g \in Ends, AskOf(m) \in ToSet(inbox[g]) PROVE FALSE
  <2>1. Up("mail", g, m)
    BY <1>7 DEF Up
  <2>2. \A l \in Places : Up(l, t, m) => l = "mail"
    BY <1>2, <1>3, <1>7, <2>1 DEF OneUp
  <2>3. None \notin Ends
    BY ConstantsAssumption
  <2>4. e # t \/ t \notin Ends
    BY <1>7, <2>3
  <2>5. Up("todo", t, m) \/ Up("task", t, m)
    BY <1>4, <2>4 DEF Up
  <2> QED
    BY <1>3, <2>2, <2>5
<1> QED
  BY <1>5, <1>6, <1>7

LEMMA UpStep ==
    ASSUME TypeOK, Links, Few, Next, NEW m \in Models, OneUp(m)
    PROVE  OneUp(m)' /\ (SomeUp(m)' => SomeUp(m))
<1>1. PICK t, x, e, c, g, P : Effect(t, x, e, c, g, P) /\ Kind(t, x, e, c, g, P)
  BY ModelSteps DEF ModelStep
<1>2. ASSUME ~IsUp(x, m), AskOf(m) \notin P PROVE OneUp(m)' /\ (SomeUp(m)' => SomeUp(m))
  BY <1>1, <1>2, UpSame
<1>3. CASE NoModel(t, x, e, c, P)
  BY <1>2, <1>3 DEF NoModel, Plain, PlainCmd
<1>4. ASSUME NEW n \in Models, Climbs(n, t, x, e, c, g, P)
      PROVE  OneUp(m)' /\ (SomeUp(m)' => SomeUp(m))
  <2>1. CASE m # n
    <3>1. ~IsUp(x, m)
      BY <1>4, <2>1, OneInHand DEF Climbs, Plain
    <3>2. AskOf(m) \notin P
      BY <1>4, <2>1, ModelCommands DEF Climbs, PlainCmd
    <3> QED
      BY <1>2, <3>1, <3>2
  <2>2. CASE m = n
    <3>1. Source(m, t, e, c) /\ (IsUp(x, m) => AskOf(m) \notin P) /\ (AskOf(m) \in P => e = None)
      BY <1>4, <2>2 DEF Climbs, PlainCmd, Plain
    <3>2. /\ SomeUp(m)
          /\ \A k \in Places, y \in Threads' : Up(k, y, m)' =>
                 (k = "task" /\ y = t /\ IsUp(x, m)) \/ (k = "mail" /\ y = g /\ AskOf(m) \in P)
          /\ e = None /\ g \in Ends => AskOf(m) \notin ToSet(inbox[g])
      BY <1>1, <3>1, UpLeaves
    <3>3. \A f \in Ends : Single(inbox[f], AskOf(m))
      BY DEF OneUp
    <3>4. \A f \in Ends : Single(inbox'[f], AskOf(m))
      BY <1>1, <3>1, <3>2, <3>3, UpSingle
    <3>5. \A k, l \in Places, y, z \in Threads' : Up(k, y, m)' /\ Up(l, z, m)' => k = l /\ y = z
      BY <3>1, <3>2
    <3> QED
      BY <3>2, <3>4, <3>5 DEF OneUp
  <2> QED
    BY <2>1, <2>2
<1>5. ASSUME NEW n \in Models, Lands(n, t, x, e, c, P) \/ Falls(n, t, x, e, c, P)
      PROVE  OneUp(m)' /\ (SomeUp(m)' => SomeUp(m))
  <2>1. ~IsUp(x, m) /\ AskOf(m) \notin P
    BY <1>5, SetTopologyParts DEF Lands, Falls
  <2> QED
    BY <1>2, <2>1
<1>6. ASSUME NEW n \in Models, Forwards(n, t, x, e, g, P)
      PROVE  OneUp(m)' /\ (SomeUp(m)' => SomeUp(m))
  <2>1. IsDown(x, n) /\ AskOf(m) \notin P
    BY <1>6, ModelCommands DEF Forwards, IsDown
  <2> QED
    BY <1>2, <2>1, OneInHand
<1>7. ASSUME NEW n \in Models, Finishes(n, t, x, e, P) \/ Reads(n, t, x, e, P)
      PROVE  OneUp(m)' /\ (SomeUp(m)' => SomeUp(m))
  <2>1. x.pc \in {"idle", "read"} /\ P = {}
    BY <1>7 DEF Finishes, Reads, Idle
  <2>2. ~IsUp(x, m)
    BY <2>1 DEF IsUp
  <2> QED
    BY <1>2, <2>1, <2>2
<1>8. CASE \E n \in Models :
          \/ Climbs(n, t, x, e, c, g, P) \/ Lands(n, t, x, e, c, P)
          \/ Falls(n, t, x, e, c, P) \/ Forwards(n, t, x, e, g, P)
          \/ Finishes(n, t, x, e, P) \/ Reads(n, t, x, e, P)
  BY <1>4, <1>5, <1>6, <1>7, <1>8
<1>9. NoModel(t, x, e, c, P)
      \/ \E n \in Models :
          \/ Climbs(n, t, x, e, c, g, P) \/ Lands(n, t, x, e, c, P)
          \/ Falls(n, t, x, e, c, P) \/ Forwards(n, t, x, e, g, P)
          \/ Finishes(n, t, x, e, P) \/ Reads(n, t, x, e, P)
  <2>1. Kind(t, x, e, c, g, P)
    BY <1>1
  <2> QED
    BY <2>1 DEF Kind
<1> QED
  BY <1>3, <1>8, <1>9

LEMMA UpInit ==
    ASSUME Init, NEW m
    PROVE  OneUp(m)
<1>0. \A x : Single(<<>>, x)
  BY EmptySeq DEF Single
<1>1. ToSet(<<>>) = {} /\ Single(<<>>, AskOf(m))
  BY <1>0, EmptySeq, SetOf
<1>2. \A e \in Ends : inbox[e] = <<>>
  BY DEF Init
<1>3. \A t \in Threads : task[t].pc = "idle"
  BY DEF Init, Threads, Idle
<1>4. \A k \in Places, y \in Threads : Up(k, y, m) => k = "todo" /\ y = m
  BY <1>1, <1>2, <1>3 DEF Up, IsUp
<1> QED
  BY <1>1, <1>2, <1>4 DEF OneUp

-----------------------------------------------------------------------------
(* Downwards: whoever has the model has it once, and all but one of them   *)
(* have it from their masters.                                             *)
Below == {"task", "mail"}
Down(k, y, m) ==
    \/ k = "task" /\ IsDown(task[y], m)
    \/ k = "mail" /\ y \in Ends /\ TopologyOf(m) \in ToSet(inbox[y])
Touched(d, m) ==
    m \in ToSet(log[d]) \/ \E k \in Below, y \in Threads : Down(k, y, m) /\ At(y) = d
OneDown(m) ==
    /\ \A k, l \in Below, y, z \in Threads :
          Down(k, y, m) /\ Down(l, z, m) /\ At(y) = At(z) => k = l /\ y = z
    /\ \A k \in Below, y \in Threads : Down(k, y, m) => m \notin ToSet(log[At(y)])
    /\ \A d \in Daemons : Single(log[d], m)
    /\ \A e \in Ends : Single(inbox[e], TopologyOf(m))

(* A thread that does x, at the daemon whose slaves are s, has passed m on *)
(* to the slave at end e.                                                  *)
SentBy(x, s, e, m) ==
    \/ x.pc = "read" /\ x.model = m
    \/ /\ x.pc = "send" /\ x.msg = TopologyOf(m)
       /\ \E j \in 1 .. x.i - 1 : j <= Len(s) /\ s[j] = e
Passed(e, m) ==
    \/ m \in ToSet(log[Daemon(e)])
    \/ \E u \in Threads : At(u) = Daemon(e) /\ SentBy(task[u], slaves[Daemon(e)], e, m)
FromParent(d, m) == \E e \in InSlaves : Daemon(Peer(e)) = d /\ Passed(e, m)
Tree(m) ==
    \A d, z \in Daemons :
        Touched(d, m) /\ Touched(z, m) /\ ~FromParent(d, m) /\ ~FromParent(z, m) => d = z

LEMMA AtStays ==
    ASSUME TypeOK, Links, Next, NEW y \in Made \cup Requests
    PROVE  At(y)' = At(y) /\ At(y) \in Daemons
<1>1. CASE y \in Requests
  BY <1>1, Working DEF At
<1>2. CASE y \in Made
  <2>1. y \notin Requests /\ At(y) = Daemon(y) /\ Daemon(y)' = Daemon(y) /\ Daemon(y) \in Daemons
    BY <1>2, Working, StepStays
  <2>2. At(y)' = Daemon(y)'
    BY <2>1 DEF At
  <2> QED
    BY <2>1, <2>2
<1> QED
  BY <1>1, <1>2

LEMMA DownAt ==
    ASSUME TypeOK, Links, NEW m, NEW k \in Below, NEW y \in Threads, Down(k, y, m)
    PROVE  y \in Made \cup made /\ y \in Made \cup Requests /\ At(y) \in Daemons /\ Touched(At(y), m)
<1>1. task[y] # Idle \/ (y \in Ends /\ inbox[y] # <<>>)
  <2>1. CASE IsDown(task[y], m)
    BY <2>1 DEF IsDown, Idle
  <2>2. CASE y \in Ends /\ TopologyOf(m) \in ToSet(inbox[y])
    BY <2>2, TypeParts, SetOf
  <2> QED
    BY <2>1, <2>2 DEF Down
<1>2. y \in Made \cup made
  BY <1>1, Working
<1>3. y \in Made \cup Requests
  BY <1>2 DEF TypeOK
<1>4. At(y) \in Daemons
  BY <1>3, Working
<1>5. Touched(At(y), m)
  BY DEF Touched
<1> QED
  BY <1>2, <1>3, <1>4, <1>5

(* Where the model is after a step, and where it stays.                    *)
LEMMA DownMoves ==
    ASSUME NEW m, OneDown(m), NEW t, NEW x, NEW e, NEW c, NEW g, NEW P, Effect(t, x, e, c, g, P)
    PROVE  \A k \in Below, y \in Threads' : Down(k, y, m)' =>
             /\ y \in Threads
             /\ k = "task" => IF y = t THEN IsDown(x, m) ELSE Down(k, y, m)
             /\ k = "mail" => \/ y = g /\ TopologyOf(m) \in P
                              \/ Down(k, y, m) /\ ~(y = e /\ c = TopologyOf(m))
<1> SUFFICES ASSUME NEW k \in Below, NEW y \in Threads', Down(k, y, m)'
             PROVE  /\ y \in Threads
                    /\ k = "task" => IF y = t THEN IsDown(x, m) ELSE Down(k, y, m)
                    /\ k = "mail" => \/ y = g /\ TopologyOf(m) \in P
                                     \/ Down(k, y, m) /\ ~(y = e /\ c = TopologyOf(m))
  OBVIOUS
<1>1. \A f \in Ends : Single(inbox[f], TopologyOf(m))
  BY DEF OneDown
<1>2. Threads' = Threads /\ t \in Threads /\ \A u \in Threads : task'[u] = IF u = t THEN x ELSE task[u]
  BY DEF Effect, EndsStay, Turns
<1>3. CASE k = "task"
  BY <1>2, <1>3 DEF Down
<1>4. CASE k = "mail"
  <2>1. y \in Ends /\ TopologyOf(m) \in ToSet(inbox'[y])
    BY <1>4 DEF Down
  <2>2. TopologyOf(m) \in ToSet(inbox[y]) \/ (y = g /\ TopologyOf(m) \in P)
    BY <2>1 DEF Effect, Mails
  <2>3. ~(y = e /\ c = TopologyOf(m)) \/ (y = g /\ TopologyOf(m) \in P)
    <3> SUFFICES ASSUME y = e, c = TopologyOf(m), y = g => TopologyOf(m) \notin P PROVE FALSE
      OBVIOUS
    <3>1. \A f \in Ends : \A a : Single(inbox[f], a) /\ f = e /\ a = c /\ (f = g => a \notin P) => a \notin ToSet(inbox'[f])
      BY DEF Effect, Mails
    <3>2. Single(inbox[y], TopologyOf(m))
      BY <1>1, <2>1
    <3>3. TopologyOf(m) \notin ToSet(inbox'[y])
      BY <2>1, <3>1, <3>2
    <3> QED
      BY <2>1, <3>3
  <2> QED
    BY <1>2, <1>4, <2>1, <2>2, <2>3 DEF Down
<1> QED
  BY <1>2, <1>3, <1>4 DEF Below

LEMMA DownStays ==
    ASSUME NEW m, NEW t, NEW x, NEW e, NEW c, NEW g, NEW P, Effect(t, x, e, c, g, P)
    PROVE  \A k \in Below, y \in Threads :
             Down(k, y, m) /\ ~(k = "task" /\ y = t) /\ ~(k = "mail" /\ y = e /\ c = TopologyOf(m))
             => y \in Threads' /\ Down(k, y, m)'
<1> SUFFICES ASSUME NEW k \in Below, NEW y \in Threads, Down(k, y, m),
                    ~(k = "task" /\ y = t), ~(k = "mail" /\ y = e /\ c = TopologyOf(m))
             PROVE  y \in Threads' /\ Down(k, y, m)'
  OBVIOUS
<1>1. Threads' = Threads /\ \A u \in Threads : task'[u] = IF u = t THEN x ELSE task[u]
  BY DEF Effect, EndsStay, Turns
<1>2. CASE k = "task"
  BY <1>1, <1>2 DEF Down
<1>3. CASE k = "mail"
  <2>1. y \in Ends /\ TopologyOf(m) \in ToSet(inbox[y])
    BY <1>3 DEF Down
  <2>2. TopologyOf(m) \in ToSet(inbox'[y])
    BY <1>3, <2>1 DEF Effect, Mails
  <2> QED
    BY <1>1, <1>3, <2>1, <2>2 DEF Down
<1> QED
  BY <1>2, <1>3 DEF Below

LEMMA DownSingle ==
    ASSUME NEW m, NEW t, NEW x, NEW e, NEW c, NEW g, NEW P, Effect(t, x, e, c, g, P),
           \A f \in Ends : Single(inbox[f], TopologyOf(m)),
           g \in Ends /\ TopologyOf(m) \in P => TopologyOf(m) \notin ToSet(inbox[g])
    PROVE  \A f \in Ends : Single(inbox'[f], TopologyOf(m))
BY DEF Effect, Mails

(* What has been passed on stays so.                                       *)
LEMMA SentByLonger ==
    ASSUME NEW x, NEW s, NEW r, NEW e, NEW m, Longer(s, r), SentBy(x, s, e, m),
           Len(s) \in Nat, Len(r) \in Nat, x.pc = "send" => x.i \in Nat
    PROVE  SentBy(x, r, e, m)
<1>1. CASE x.pc = "read"
  BY <1>1 DEF SentBy
<1>2. CASE x.pc = "send"
  <2>1. PICK j \in 1 .. x.i - 1 : j <= Len(s) /\ s[j] = e
    BY <1>2 DEF SentBy
  <2>2. j \in 1 .. Len(s) /\ j <= Len(r)
    BY <1>2, <2>1 DEF Longer
  <2>3. r[j] = e
    BY <2>1, <2>2 DEF Longer
  <2> QED
    BY <1>2, <2>1, <2>2, <2>3 DEF SentBy
<1> QED
  BY <1>1, <1>2 DEF SentBy

LEMMA PassedOn ==
    ASSUME TypeOK, TypeOK', Links, Next, NEW m, NEW t, NEW x, NEW e, NEW c, NEW g, NEW P, Effect(t, x, e, c, g, P),
           \A d \in Daemons : m \in ToSet(log[d]) => m \in ToSet(log'[d]),
           \A s, f : SentBy(task[t], s, f, m) => SentBy(x, s, f, m) \/ m \in ToSet(log'[At(t)])
    PROVE  /\ \A f \in Made : Passed(f, m) => Passed(f, m)'
           /\ \A d \in Daemons : FromParent(d, m) => FromParent(d, m)'
<1>1. Threads' = Threads /\ \A u \in Threads : task'[u] = IF u = t THEN x ELSE task[u]
  BY DEF Effect, EndsStay, Turns
<1>2. ASSUME NEW f \in Made, Passed(f, m) PROVE Passed(f, m)'
  <2>1. Daemon(f)' = Daemon(f) /\ Daemon(f) \in Daemons
    BY StepStays
  <2>2. ASSUME m \in ToSet(log[Daemon(f)]) PROVE Passed(f, m)'
    BY <2>1, <2>2 DEF Passed
  <2>3. ASSUME NEW u \in Threads, At(u) = Daemon(f), SentBy(task[u], slaves[Daemon(f)], f, m)
        PROVE  Passed(f, m)'
    <3>1. task[u] # Idle
      BY <2>3 DEF SentBy, Idle
    <3>2. u \in Made \cup Requests
      BY <3>1, Working DEF TypeOK
    <3>3. At(u)' = At(u)
      BY <3>2, AtStays
    <3>4. SentBy(task'[u], slaves[Daemon(f)], f, m) \/ m \in ToSet(log'[Daemon(f)])
      BY <1>1, <2>3
    <3>5. /\ Longer(slaves[Daemon(f)], slaves'[Daemon(f)])
          /\ Len(slaves[Daemon(f)]) \in Nat /\ Len(slaves'[Daemon(f)]) \in Nat
      <4>1. Longer(slaves[Daemon(f)], slaves'[Daemon(f)])
        BY <2>1, ArraysGrow
      <4>2. slaves[Daemon(f)] \in Seq(Ends) /\ slaves'[Daemon(f)] \in Seq(Ends)
        BY <2>1 DEF TypeOK
      <4> QED
        BY <4>1, <4>2, SetOf
    <3>6. task'[u].pc = "send" => task'[u].i \in Nat
      <4>1. task'[u] \in Tasks
        BY <1>1 DEF TypeOK
      <4>2. task'[u].pc = "send" => task'[u].i \in 1 .. MaxConn + 1
        BY <4>1, TaskParts
      <4> QED
        BY <4>2, ConstantsAssumption
    <3>7. SentBy(task'[u], slaves'[Daemon(f)], f, m) \/ m \in ToSet(log'[Daemon(f)])
      BY <3>4, <3>5, <3>6, SentByLonger
    <3> QED
      BY <1>1, <2>1, <2>3, <3>3, <3>7 DEF Passed
  <2> QED
    BY <1>2, <2>2, <2>3 DEF Passed
<1>3. ASSUME NEW d \in Daemons, FromParent(d, m) PROVE FromParent(d, m)'
  <2>1. PICK f \in InSlaves : Daemon(Peer(f)) = d /\ Passed(f, m)
    BY <1>3 DEF FromParent
  <2>2. f \in Made
    BY DEF InSlaves
  <2>3. f \in InSlaves' /\ Daemon(Peer(f))' = d /\ Passed(f, m)'
    BY <1>2, <2>1, <2>2, StepStays
  <2> QED
    BY <2>3 DEF FromParent
<1> QED
  BY <1>2, <1>3

(* A step after which the model is at the same daemons or fewer, at each   *)
(* of them in one place.                                                   *)
Fewer(m, t) ==
    /\ \A k \in Below, y \in Threads' : Down(k, y, m)' =>
          y \in Threads /\ (\E l \in Below : Down(l, y, m)) /\ (y # t => Down(k, y, m))
    /\ ~(Down("task", t, m)' /\ Down("mail", t, m)')
LogsFit(m) ==
    \A d \in Daemons :
       /\ Single(log'[d], m)
       /\ m \in ToSet(log'[d]) =>
             /\ Touched(d, m)
             /\ m \in ToSet(log[d]) \/ \A k \in Below, y \in Threads' : Down(k, y, m)' => At(y)' # d

LEMMA TreeKept ==
    ASSUME NEW m, Tree(m), \A d \in Daemons : Touched(d, m)' => Touched(d, m),
           \A d \in Daemons : FromParent(d, m) => FromParent(d, m)'
    PROVE  Tree(m)'
BY DEF Tree

LEMMA DownFewer ==
    ASSUME TypeOK, Links, Next, NEW m, OneDown(m), Tree(m), NEW t, Fewer(m, t), LogsFit(m),
           \A e \in Ends : Single(inbox'[e], TopologyOf(m)),
           \A d \in Daemons : FromParent(d, m) => FromParent(d, m)'
    PROVE  /\ OneDown(m)' /\ Tree(m)'
           /\ \A d \in Daemons : Touched(d, m)' => Touched(d, m)
<1>1. ASSUME NEW k \in Below, NEW y \in Threads', Down(k, y, m)'
      PROVE  /\ y \in Threads /\ (\E l \in Below : Down(l, y, m)) /\ (y # t => Down(k, y, m))
             /\ At(y)' = At(y) /\ At(y) \in Daemons /\ Touched(At(y), m) /\ m \notin ToSet(log[At(y)])
  <2>1. y \in Threads /\ (\E l \in Below : Down(l, y, m)) /\ (y # t => Down(k, y, m))
    BY <1>1 DEF Fewer
  <2>2. PICK l \in Below : Down(l, y, m)
    BY <2>1
  <2>3. y \in Made \cup Requests /\ At(y) \in Daemons /\ Touched(At(y), m)
    BY <2>1, <2>2, DownAt
  <2>4. At(y)' = At(y)
    BY <2>3, AtStays
  <2>5. m \notin ToSet(log[At(y)])
    BY <2>1, <2>2 DEF OneDown
  <2> QED
    BY <2>1, <2>3, <2>4, <2>5
<1>2. ASSUME NEW d \in Daemons, Touched(d, m)' PROVE Touched(d, m)
  <2>1. CASE m \in ToSet(log'[d])
    BY <2>1 DEF LogsFit
  <2>2. CASE \E k \in Below, y \in Threads' : Down(k, y, m)' /\ At(y)' = d
    BY <1>1, <2>2
  <2> QED
    BY <1>2, <2>1, <2>2 DEF Touched
<1>3. ASSUME NEW k \in Below, NEW l \in Below, NEW y \in Threads', NEW z \in Threads',
             Down(k, y, m)', Down(l, z, m)', At(y)' = At(z)'
      PROVE  k = l /\ y = z
  <2>1. y \in Threads /\ z \in Threads /\ At(y) = At(z)
    BY <1>1, <1>3
  <2>2. PICK i \in Below, j \in Below : Down(i, y, m) /\ Down(j, z, m)
    BY <1>1, <1>3
  <2>3. y = z
    BY <2>1, <2>2 DEF OneDown
  <2>4. CASE y # t
    <3>1. Down(k, y, m) /\ Down(l, z, m)
      BY <1>1, <1>3, <2>3, <2>4
    <3> QED
      BY <2>1, <3>1 DEF OneDown
  <2>5. CASE y = t
    <3>1. k \in {"task", "mail"} /\ l \in {"task", "mail"}
      BY DEF Below
    <3>2. ~(Down("task", y, m)' /\ Down("mail", y, m)')
      BY <2>5 DEF Fewer
    <3> QED
      BY <1>3, <2>3, <3>1, <3>2
  <2> QED
    BY <2>3, <2>4, <2>5
<1>4. ASSUME NEW k \in Below, NEW y \in Threads', Down(k, y, m)' PROVE m \notin ToSet(log'[At(y)'])
  <2>1. At(y)' = At(y) /\ At(y) \in Daemons /\ m \notin ToSet(log[At(y)])
    BY <1>1, <1>4
  <2> QED
    BY <1>4, <2>1 DEF LogsFit
<1>5. \A d \in Daemons : Single(log'[d], m)
  BY DEF LogsFit
<1>6. OneDown(m)'
  BY <1>3, <1>4, <1>5 DEF OneDown
<1>7. Tree(m)'
  BY <1>2, TreeKept
<1> QED
  BY <1>2, <1>6, <1>7

LEMMA LogsSame ==
    ASSUME NEW m, OneDown(m), log' = log
    PROVE  LogsFit(m) /\ \A d \in Daemons : m \in ToSet(log[d]) => m \in ToSet(log'[d])
BY DEF LogsFit, OneDown, Touched

(* Steps that leave m where it is: they have to do with no model or with   *)
(* another one, or finish passing m on.                                    *)
LEMMA DownSame ==
    ASSUME TypeOK, TypeOK', Links, Next, NEW m, OneDown(m), Tree(m),
           NEW t, NEW x, NEW e, NEW c, NEW g, NEW P, Effect(t, x, e, c, g, P),
           IsDown(x, m) => IsDown(task[t], m), TopologyOf(m) \notin P,
           \A s, f : SentBy(task[t], s, f, m) => SentBy(x, s, f, m),
           LogsFit(m), \A d \in Daemons : m \in ToSet(log[d]) => m \in ToSet(log'[d])
    PROVE  /\ OneDown(m)' /\ Tree(m)'
           /\ \A d \in Daemons : Touched(d, m)' => Touched(d, m)
<1>1. \A f \in Ends : Single(inbox[f], TopologyOf(m))
  BY DEF OneDown
<1>2. \A f \in Ends : Single(inbox'[f], TopologyOf(m))
  BY <1>1, DownSingle
<1>3. \A d \in Daemons : FromParent(d, m) => FromParent(d, m)'
  BY PassedOn
<1>4. t \in Threads /\ Threads' = Threads
  BY DEF Effect, Turns, EndsStay
<1>5. ASSUME NEW k \in Below, NEW y \in Threads', Down(k, y, m)' PROVE y \in Threads /\ Down(k, y, m)
  <2>1. /\ y \in Threads
        /\ k = "task" => IF y = t THEN IsDown(x, m) ELSE Down(k, y, m)
        /\ k = "mail" => Down(k, y, m)
    BY <1>5, DownMoves
  <2>2. k \in {"task", "mail"}
    BY DEF Below
  <2> QED
    BY <2>1, <2>2 DEF Down
<1>6. "task" \in Below /\ "mail" \in Below /\ "task" # "mail"
  BY DEF Below
<1>7. ~(Down("task", t, m)' /\ Down("mail", t, m)')
  <2> SUFFICES ASSUME Down("task", t, m)', Down("mail", t, m)' PROVE FALSE
    OBVIOUS
  <2>1. Down("task", t, m) /\ Down("mail", t, m)
    BY <1>4, <1>5, <1>6
  <2> QED
    BY <1>4, <1>6, <2>1 DEF OneDown
<1>8. Fewer(m, t)
  BY <1>5, <1>7 DEF Fewer
<1> QED
  BY <1>2, <1>3, <1>8, DownFewer

(* The root, which nobody has the model from, begins.                      *)
LEMMA DownLands ==
    ASSUME TypeOK, Links, Next, NEW m \in Models, OneDown(m), \A d \in Daemons : ~Touched(d, m),
           NEW t, NEW x, NEW e, NEW c, NEW g, NEW P, Effect(t, x, e, c, g, P), Lands(m, t, x, e, c, P)
    PROVE  OneDown(m)' /\ Tree(m)'
<1>1. \A f \in Ends : Single(inbox'[f], TopologyOf(m))
  BY DownSingle DEF OneDown, Lands
<1>2. \A k \in Below, y \in Threads : ~Down(k, y, m)
  BY DownAt
<1>3. ASSUME NEW k \in Below, NEW y \in Threads', Down(k, y, m)' PROVE k = "task" /\ y = t
  <2>1. /\ y \in Threads
        /\ k = "task" => IF y = t THEN IsDown(x, m) ELSE Down(k, y, m)
        /\ k = "mail" => Down(k, y, m)
    BY <1>3, DownMoves DEF Lands
  <2>2. k \in {"task", "mail"}
    BY DEF Below
  <2> QED
    BY <1>2, <2>1, <2>2
<1>4. log' = log
  BY DEF Lands
<1>5. t \in Made \cup Requests
  BY DEF Lands, Source, TypeOK
<1>6. At(t)' = At(t) /\ At(t) \in Daemons
  BY <1>5, AtStays
<1>7. \A d \in Daemons : m \notin ToSet(log'[d])
  BY <1>4 DEF Touched
<1>8. \A d \in Daemons : Touched(d, m)' => d = At(t)
  BY <1>3, <1>6, <1>7 DEF Touched
<1>9. Tree(m)'
  BY <1>8 DEF Tree
<1>10. \A d \in Daemons : Single(log'[d], m)
  BY <1>4 DEF OneDown
<1>11. \A k \in Below, y \in Threads' : Down(k, y, m)' => m \notin ToSet(log'[At(y)'])
  BY <1>3, <1>6, <1>7
<1>12. OneDown(m)'
  BY <1>1, <1>3, <1>10, <1>11 DEF OneDown
<1> QED
  BY <1>9, <1>12

(* A daemon takes what its master has sent it.                             *)
LEMMA DownFalls ==
    ASSUME TypeOK, TypeOK', Links, Next, NEW m \in Models, OneDown(m), Tree(m),
           NEW t, NEW x, NEW e, NEW c, NEW g, NEW P, Effect(t, x, e, c, g, P), Falls(m, t, x, e, c, P)
    PROVE  /\ OneDown(m)' /\ Tree(m)'
           /\ \A d \in Daemons : Touched(d, m)' => Touched(d, m)
<1>1. \A f \in Ends : Single(inbox'[f], TopologyOf(m))
  BY DownSingle DEF OneDown, Falls
<1>2. t \in Threads /\ Threads' = Threads /\ e = t /\ c = TopologyOf(m) /\ log' = log /\ P = {} /\ task[t] = Idle
  BY DEF Effect, Turns, EndsStay, Falls
<1>3. "task" \in Below /\ "mail" \in Below /\ "task" # "mail"
  BY DEF Below
<1>4. Down("mail", t, m)
  BY DEF Falls, Down, Made
<1>5. LogsFit(m) /\ \A d \in Daemons : m \in ToSet(log[d]) => m \in ToSet(log'[d])
  BY <1>2, LogsSame
<1>6. \A s, f : ~SentBy(task[t], s, f, m)
  BY <1>2 DEF SentBy, Idle
<1>7. \A d \in Daemons : FromParent(d, m) => FromParent(d, m)'
  BY <1>5, <1>6, PassedOn
<1>8. ASSUME NEW k \in Below, NEW y \in Threads', Down(k, y, m)'
      PROVE  /\ y \in Threads /\ (\E l \in Below : Down(l, y, m)) /\ (y # t => Down(k, y, m))
             /\ ~(k = "mail" /\ y = t)
  <2>1. /\ y \in Threads
        /\ k = "task" => IF y = t THEN IsDown(x, m) ELSE Down(k, y, m)
        /\ k = "mail" => Down(k, y, m) /\ y # t
    BY <1>2, <1>8, DownMoves
  <2>2. k \in {"task", "mail"}
    BY DEF Below
  <2> QED
    BY <1>3, <1>4, <2>1, <2>2
<1>9. ~(Down("task", t, m)' /\ Down("mail", t, m)')
  BY <1>2, <1>3, <1>8
<1>10. Fewer(m, t)
  BY <1>8, <1>9 DEF Fewer
<1> QED
  BY <1>1, <1>5, <1>7, <1>10, DownFewer

(* A daemon that has passed m on to its slaves reads it.                   *)
LEMMA DownReads ==
    ASSUME TypeOK, TypeOK', Links, Next, NEW m \in Models, OneDown(m), Tree(m),
           NEW t, NEW x, NEW e, NEW c, NEW g, NEW P, Effect(t, x, e, c, g, P), Reads(m, t, x, e, P)
    PROVE  /\ OneDown(m)' /\ Tree(m)'
           /\ \A d \in Daemons : Touched(d, m)' => Touched(d, m)
<1>1. \A f \in Ends : Single(inbox'[f], TopologyOf(m))
  BY DEF OneDown, Reads
<1>2. /\ t \in Threads /\ Threads' = Threads /\ P = {} /\ x = Idle /\ At(t) \in Daemons
      /\ task[t].pc = "read" /\ task[t].model = m
  BY DEF Effect, Turns, EndsStay, Reads
<1>3. "task" \in Below /\ "mail" \in Below /\ "task" # "mail"
  BY DEF Below
<1>4. Down("task", t, m)
  BY <1>2 DEF Down, IsDown
<1>5. /\ m \notin ToSet(log[At(t)]) /\ Touched(At(t), m)
      /\ \A l \in Below, z \in Threads : Down(l, z, m) /\ At(z) = At(t) => l = "task" /\ z = t
  BY <1>2, <1>3, <1>4, DownAt DEF OneDown
<1>6. log[At(t)] \in Seq(Models) /\ log \in [Daemons -> Seq(Models)] /\ log' = [log EXCEPT ![At(t)] = Append(@, m)]
  BY <1>2 DEF Reads, TypeOK
<1>7. log'[At(t)] = Append(log[At(t)], m) /\ \A d \in Daemons : d # At(t) => log'[d] = log[d]
  BY <1>2, <1>6
<1>8. ToSet(log'[At(t)]) = ToSet(log[At(t)]) \cup {m}
  BY <1>6, <1>7, SetAppend
<1>9. Single(log'[At(t)], m)
  <2>1. Single(log[At(t)], m)
    BY <1>2 DEF OneDown
  <2>2. Single(Append(log[At(t)], m), m)
    BY <1>5, <1>6, <2>1, SingleAppend
  <2> QED
    BY <1>7, <2>2
<1>10. ~IsDown(x, m)
  BY <1>2, OneInHand DEF Plain
<1>11. ASSUME NEW k \in Below, NEW y \in Threads', Down(k, y, m)'
       PROVE  y \in Threads /\ Down(k, y, m) /\ y # t /\ At(y)' # At(t)
  <2>1. /\ y \in Threads
        /\ k = "task" => y # t /\ Down(k, y, m)
        /\ k = "mail" => Down(k, y, m)
    BY <1>2, <1>10, <1>11, DownMoves
  <2>2. k \in {"task", "mail"}
    BY DEF Below
  <2>3. Down(k, y, m)
    BY <2>1, <2>2
  <2>4. At(y)' = At(y)
    BY <2>1, <2>3, DownAt, AtStays
  <2>5. At(y) # At(t)
    BY <1>5, <2>1, <2>2, <2>3
  <2> QED
    BY <2>1, <2>3, <2>4, <2>5
<1>12. Fewer(m, t)
  <2>1. ~(Down("task", t, m)' /\ Down("mail", t, m)')
    BY <1>2, <1>3, <1>11
  <2> QED
    BY <1>11, <2>1 DEF Fewer
<1>13. LogsFit(m)
  <2> SUFFICES ASSUME NEW d \in Daemons
               PROVE  /\ Single(log'[d], m)
                      /\ m \in ToSet(log'[d]) =>
                            /\ Touched(d, m)
                            /\ m \in ToSet(log[d]) \/ \A k \in Below, y \in Threads' : Down(k, y, m)' => At(y)' # d
    BY DEF LogsFit
  <2>1. CASE d = At(t)
    BY <1>5, <1>9, <1>11, <2>1
  <2>2. CASE d # At(t)
    BY <1>7, <2>2 DEF OneDown, Touched
  <2> QED
    BY <2>1, <2>2
<1>14. /\ \A d \in Daemons : m \in ToSet(log[d]) => m \in ToSet(log'[d])
       /\ m \in ToSet(log'[At(t)])
  BY <1>7, <1>8
<1>15. \A d \in Daemons : FromParent(d, m) => FromParent(d, m)'
  BY <1>14, PassedOn
<1> QED
  BY <1>1, <1>12, <1>13, <1>15, DownFewer

(* Who is sent m does not have it: it would have it from another master.   *)
LEMMA NewToIt ==
    ASSUME TypeOK, Links, Woods, NEW m \in Models, OneDown(m), Tree(m), NEW t \in Threads, Floods(t, m),
           task[t].i \in 1 .. Len(slaves[At(t)]), NEW h \in Made, h = slaves[At(t)][task[t].i],
           h \in ToSet(slaves[At(t)]), Daemon(h) = At(t)
    PROVE  ~Touched(Daemon(Peer(h)), m)
<1> SUFFICES ASSUME Touched(Daemon(Peer(h)), m) PROVE FALSE
  OBVIOUS
<1>1. h \in InSlaves /\ Daemon(Peer(h)) \in Daemons /\ At(t) \in Daemons
  BY TypeParts, MadeEnds DEF InSlaves, Floods
<1>2. "task" \in Below /\ Down("task", t, m)
  BY DEF Below, Down, IsDown, Floods
<1>3. m \notin ToSet(log[At(t)]) /\ Touched(At(t), m)
  BY <1>2, DownAt DEF OneDown
<1>4. ASSUME NEW u \in Threads, NEW s, NEW f, At(u) = At(t), SentBy(task[u], s, f, m) PROVE u = t
  <2>1. Down("task", u, m)
    BY <1>4 DEF SentBy, Down, IsDown
  <2> QED
    BY <1>2, <1>4, <2>1 DEF OneDown
<1>5. ~SentBy(task[t], slaves[At(t)], h, m)
  <2> SUFFICES ASSUME SentBy(task[t], slaves[At(t)], h, m) PROVE FALSE
    OBVIOUS
  <2>1. task[t].pc = "send"
    BY DEF Floods
  <2>2. PICK j \in 1 .. task[t].i - 1 : j <= Len(slaves[At(t)]) /\ slaves[At(t)][j] = h
    BY <2>1 DEF SentBy
  <2>3. slaves[At(t)] \in Seq(Ends) /\ Single(slaves[At(t)], h)
    BY <1>1, TypeParts DEF Links, Ours, Made
  <2>4. Len(slaves[At(t)]) \in Nat
    BY <2>3, SetOf
  <2>5. j \in 1 .. Len(slaves[At(t)]) /\ j # task[t].i
    BY <2>2, <2>4
  <2> QED
    BY <2>2, <2>3, <2>5 DEF Single
<1>6. ~FromParent(Daemon(Peer(h)), m)
  <2> SUFFICES ASSUME NEW f \in InSlaves, Daemon(Peer(f)) = Daemon(Peer(h)), Passed(f, m) PROVE FALSE
    BY DEF FromParent
  <2>1. f = h
    BY <1>1 DEF Woods, OneParent
  <2>2. PICK u \in Threads : At(u) = At(t) /\ SentBy(task[u], slaves[At(t)], h, m)
    BY <1>3, <2>1 DEF Passed
  <2> QED
    BY <1>4, <1>5, <2>2
<1>7. PICK S \in SUBSET Daemons : S = {d \in Daemons : Touched(d, m)}
  OBVIOUS
<1>8. PICK w \in S : \A f \in InSlaves : Daemon(Peer(f)) = w => Daemon(f) \notin S
  BY <1>1, <1>3, <1>7 DEF Woods, NoCycle
<1>9. w # Daemon(Peer(h))
  BY <1>1, <1>3, <1>7, <1>8
<1>10. FromParent(w, m)
  BY <1>1, <1>6, <1>7, <1>9 DEF Tree
<1>11. PICK f \in InSlaves : Daemon(Peer(f)) = w /\ Passed(f, m)
  BY <1>10 DEF FromParent
<1>12. Daemon(f) \in Daemons
  BY TypeParts, MadeEnds DEF InSlaves
<1>13. Touched(Daemon(f), m)
  <2>1. CASE m \in ToSet(log[Daemon(f)])
    BY <2>1 DEF Touched
  <2>2. ASSUME NEW u \in Threads, At(u) = Daemon(f), SentBy(task[u], slaves[Daemon(f)], f, m)
        PROVE  Touched(Daemon(f), m)
    <3>1. Down("task", u, m)
      BY <2>2 DEF SentBy, Down, IsDown
    <3> QED
      BY <1>2, <2>2, <3>1 DEF Touched
  <2> QED
    BY <1>11, <2>1, <2>2 DEF Passed
<1> QED
  BY <1>7, <1>8, <1>11, <1>12, <1>13

(* A slave that is sent m gets it, from its one master.                    *)
LEMMA DownForwards ==
    ASSUME TypeOK, TypeOK', Links, Next, Woods, NEW m \in Models, OneDown(m), Tree(m),
           NEW t, NEW x, NEW e, NEW c, NEW g, NEW P, Effect(t, x, e, c, g, P), Forwards(m, t, x, e, g, P)
    PROVE  OneDown(m)' /\ Tree(m)'
<1>1. /\ t \in Threads /\ Threads' = Threads /\ Floods(t, m) /\ e = None /\ P = {TopologyOf(m)}
      /\ log' = log /\ slaves' = slaves /\ At(t) \in Daemons
      /\ task[t].i \in 1 .. Len(slaves[At(t)]) /\ \A u \in Threads : task'[u] = IF u = t THEN x ELSE task[u]
      /\ x.pc = "send" /\ x.msg = TopologyOf(m) /\ x.i = task[t].i + 1
  BY DEF Effect, Turns, EndsStay, Forwards, Floods
<1>2. PICK h \in Made : /\ h = slaves[At(t)][task[t].i] /\ h \in ToSet(slaves[At(t)]) /\ Daemon(h) = At(t)
                        /\ g = Peer(h)
  BY DEF Forwards
<1>3. g \in Ends /\ g \in Made /\ h \in InSlaves
  BY <1>2, TypeParts, MadeEnds DEF InSlaves, Made
<1>4. g \in Threads /\ At(g) = Daemon(g) /\ Daemon(g) \in Daemons /\ At(g)' = At(g)
  BY <1>3, Working, AtStays DEF Threads
<1>5. ~Touched(Daemon(g), m)
  BY <1>1, <1>2, NewToIt
<1>6. "task" \in Below /\ "mail" \in Below
  BY DEF Below
<1>7. \A l \in Below, z \in Threads : Down(l, z, m) => At(z) # Daemon(g) /\ At(z)' = At(z) /\ At(z) \in Daemons
  BY <1>5, DownAt, AtStays
<1>8. TopologyOf(m) \notin ToSet(inbox[g]) /\ m \notin ToSet(log[Daemon(g)])
  BY <1>3, <1>4, <1>5, <1>6 DEF Touched, Down
<1>9. \A f \in Ends : Single(inbox'[f], TopologyOf(m))
  BY <1>8, DownSingle DEF OneDown
<1>10. Down("task", t, m)
  BY <1>1 DEF Down, IsDown, Floods
<1>11. ASSUME NEW k \in Below, NEW y \in Threads', Down(k, y, m)'
       PROVE  y \in Threads /\ (Down(k, y, m) \/ (k = "mail" /\ y = g))
  <2>1. /\ y \in Threads
        /\ k = "task" => IF y = t THEN IsDown(x, m) ELSE Down(k, y, m)
        /\ k = "mail" => Down(k, y, m) \/ y = g
    BY <1>11, DownMoves
  <2>2. k \in {"task", "mail"}
    BY DEF Below
  <2> QED
    BY <1>10, <2>1, <2>2
<1>12. ASSUME NEW k \in Below, NEW l \in Below, NEW y \in Threads', NEW z \in Threads',
              Down(k, y, m)', Down(l, z, m)', At(y)' = At(z)'
       PROVE  k = l /\ y = z
  <2>1. y \in Threads /\ z \in Threads
    BY <1>11, <1>12
  <2>2. CASE Down(k, y, m) /\ Down(l, z, m)
    <3>1. At(y) = At(z)
      BY <1>7, <1>12, <2>1, <2>2
    <3> QED
      BY <2>1, <2>2, <3>1 DEF OneDown
  <2>3. CASE Down(k, y, m) /\ l = "mail" /\ z = g
    BY <1>4, <1>7, <1>12, <2>1, <2>3
  <2>4. CASE k = "mail" /\ y = g /\ Down(l, z, m)
    BY <1>4, <1>7, <1>12, <2>1, <2>4
  <2>5. CASE k = "mail" /\ y = g /\ l = "mail" /\ z = g
    BY <2>5
  <2> QED
    BY <1>11, <1>12, <2>2, <2>3, <2>4, <2>5
<1>13. ASSUME NEW k \in Below, NEW y \in Threads', Down(k, y, m)' PROVE m \notin ToSet(log'[At(y)'])
  <2>1. CASE Down(k, y, m)
    BY <1>1, <1>7, <1>11, <1>13, <2>1 DEF OneDown
  <2>2. CASE k = "mail" /\ y = g
    BY <1>1, <1>4, <1>8, <2>2
  <2> QED
    BY <1>11, <1>13, <2>1, <2>2
<1>14. \A d \in Daemons : Single(log'[d], m)
  BY <1>1 DEF OneDown
<1>15. OneDown(m)'
  BY <1>9, <1>12, <1>13, <1>14 DEF OneDown
<1>16. ASSUME NEW d \in Daemons, Touched(d, m)' PROVE Touched(d, m) \/ d = Daemon(g)
  <2>1. CASE m \in ToSet(log'[d])
    BY <1>1, <2>1 DEF Touched
  <2>2. ASSUME NEW k \in Below, NEW y \in Threads', Down(k, y, m)', At(y)' = d
        PROVE  Touched(d, m) \/ d = Daemon(g)
    <3>1. CASE Down(k, y, m)
      BY <1>7, <1>11, <2>2, <3>1 DEF Touched
    <3>2. CASE y = g
      BY <1>4, <2>2, <3>2
    <3> QED
      BY <1>11, <2>2, <3>1, <3>2
  <2> QED
    BY <1>16, <2>1, <2>2 DEF Touched
<1>17. \A s, f : SentBy(task[t], s, f, m) => SentBy(x, s, f, m)
  <2> SUFFICES ASSUME NEW s, NEW f, SentBy(task[t], s, f, m) PROVE SentBy(x, s, f, m)
    OBVIOUS
  <2>1. PICK j \in 1 .. task[t].i - 1 : j <= Len(s) /\ s[j] = f
    BY <1>1 DEF SentBy, Floods
  <2>2. task[t].i \in 1 .. MaxConn + 1 /\ MaxConn \in Nat
    BY <1>1, ConstantsAssumption DEF Floods
  <2>3. j \in 1 .. x.i - 1
    BY <1>1, <2>1, <2>2
  <2> QED
    BY <1>1, <2>1, <2>3 DEF SentBy
<1>18. \A d \in Daemons : FromParent(d, m) => FromParent(d, m)'
  BY <1>1, <1>17, PassedOn
<1>19. ASSUME NEW d, d = Daemon(g) PROVE FromParent(d, m)'
  <2>1. h \in InSlaves' /\ Daemon(h)' = At(t) /\ Daemon(Peer(h))' = Daemon(g)
    BY <1>2, <1>3, StepStays
  <2>2. t \in Made \cup Requests
    BY <1>1 DEF Floods, TypeOK
  <2>3. At(t)' = At(t)
    BY <2>2, AtStays
  <2>4. task[t].i \in 1 .. Len(slaves[At(t)]) /\ task[t].i \in 1 .. MaxConn + 1 /\ MaxConn \in Nat
    BY <1>1, ConstantsAssumption DEF Floods
  <2>5. slaves[At(t)] \in Seq(Ends)
    BY <1>1, TypeParts
  <2>6. Len(slaves[At(t)]) \in Nat
    BY <2>5, SetOf
  <2>7. task[t].i \in 1 .. x.i - 1 /\ task[t].i <= Len(slaves[At(t)])
    BY <1>1, <2>4, <2>6
  <2>8. SentBy(x, slaves[At(t)], h, m)
    BY <1>1, <1>2, <2>7 DEF SentBy
  <2>9. SentBy(task'[t], slaves'[Daemon(h)'], h, m) /\ At(t)' = Daemon(h)' /\ t \in Threads'
    BY <1>1, <2>1, <2>3, <2>8
  <2>10. Passed(h, m)'
    BY <2>9 DEF Passed
  <2> QED
    BY <1>19, <2>1, <2>10 DEF FromParent
<1>20. Tree(m)'
  BY <1>16, <1>18, <1>19 DEF Tree
<1> QED
  BY <1>15, <1>20

LEMMA DownFinishes ==
    ASSUME TypeOK, TypeOK', Links, Next, NEW m \in Models, OneDown(m), Tree(m),
           NEW t, NEW x, NEW e, NEW c, NEW g, NEW P, Effect(t, x, e, c, g, P), Finishes(m, t, x, e, P)
    PROVE  /\ OneDown(m)' /\ Tree(m)'
           /\ \A d \in Daemons : Touched(d, m)' => Touched(d, m)
<1>1. IsDown(task[t], m) /\ x.pc = "read" /\ x.model = m /\ P = {} /\ log' = log
  BY DEF Finishes, Floods, IsDown
<1>2. \A s, f : SentBy(x, s, f, m)
  BY <1>1 DEF SentBy
<1>3. LogsFit(m) /\ \A d \in Daemons : m \in ToSet(log[d]) => m \in ToSet(log'[d])
  BY <1>1, LogsSame
<1> QED
  BY <1>1, <1>2, <1>3, DownSame

(* A step that has another model in hand.                                  *)
LEMMA DownOther ==
    ASSUME TypeOK, TypeOK', Links, Next, NEW m \in Models, OneDown(m), Tree(m),
           NEW t, NEW x, NEW e, NEW c, NEW g, NEW P, Effect(t, x, e, c, g, P),
           ~IsDown(x, m), ~IsDown(task[t], m), TopologyOf(m) \notin P,
           \/ log' = log
           \/ \E n \in Models : n # m /\ At(t) \in Daemons /\ log' = [log EXCEPT ![At(t)] = Append(@, n)]
    PROVE  /\ OneDown(m)' /\ Tree(m)'
           /\ \A d \in Daemons : Touched(d, m)' => Touched(d, m)
<1>1. \A s, f : ~SentBy(task[t], s, f, m)
  BY DEF SentBy, IsDown
<1>2. LogsFit(m) /\ \A d \in Daemons : m \in ToSet(log[d]) => m \in ToSet(log'[d])
  <2>1. CASE log' = log
    BY <2>1, LogsSame
  <2>2. ASSUME NEW n \in Models, n # m, At(t) \in Daemons, log' = [log EXCEPT ![At(t)] = Append(@, n)]
        PROVE  LogsFit(m) /\ \A d \in Daemons : m \in ToSet(log[d]) => m \in ToSet(log'[d])
    <3>1. log[At(t)] \in Seq(Models) /\ log \in [Daemons -> Seq(Models)]
      BY <2>2 DEF TypeOK
    <3>2. log'[At(t)] = Append(log[At(t)], n) /\ \A d \in Daemons : d # At(t) => log'[d] = log[d]
      BY <2>2, <3>1
    <3>3. ToSet(log'[At(t)]) = ToSet(log[At(t)]) \cup {n}
      BY <3>1, <3>2, SetAppend
    <3>4. Single(log'[At(t)], m)
      <4>1. Single(log[At(t)], m)
        BY <2>2 DEF OneDown
      <4>2. Single(Append(log[At(t)], n), m)
        BY <2>2, <3>1, <4>1, SingleAppend
      <4> QED
        BY <3>2, <4>2
    <3>5. \A d \in Daemons : Single(log'[d], m) /\ (m \in ToSet(log[d]) <=> m \in ToSet(log'[d]))
      BY <2>2, <3>2, <3>3, <3>4 DEF OneDown
    <3> QED
      BY <3>5 DEF LogsFit, Touched
  <2> QED
    BY <2>1, <2>2
<1> QED
  BY <1>1, <1>2, DownSame

(* While a model is on its way up nobody has it.                           *)
Placed(m) ==
    /\ OneUp(m) /\ OneDown(m) /\ Tree(m)
    /\ SomeUp(m) => \A d \in Daemons : ~Touched(d, m)
Once == Woods => \A m \in Models : Placed(m)

LEMMA PlacedFrom ==
    ASSUME TypeOK, Links, Woods, Next, NEW m \in Models, Placed(m), OneDown(m)', Tree(m)',
           (\A d \in Daemons : Touched(d, m)' => Touched(d, m)) \/ (\E d \in Daemons : Touched(d, m))
    PROVE  Placed(m)'
<1>1. OneUp(m)' /\ (SomeUp(m)' => SomeUp(m))
  BY UpStep DEF Placed, Woods
<1>2. SomeUp(m)' => \A d \in Daemons : ~Touched(d, m)'
  BY <1>1 DEF Placed
<1> QED
  BY <1>1, <1>2 DEF Placed

LEMMA PlacedStep ==
    ASSUME TypeOK, TypeOK', Links, Woods, Next, NEW m \in Models, Placed(m)
    PROVE  Placed(m)'
<1>0. OneUp(m) /\ OneDown(m) /\ Tree(m)
  BY DEF Placed
<1>1. PICK t, x, e, c, g, P : Effect(t, x, e, c, g, P) /\ Kind(t, x, e, c, g, P)
  BY ModelSteps DEF ModelStep, Woods
<1>2. ASSUME ~IsDown(x, m), ~IsDown(task[t], m), TopologyOf(m) \notin P,
             \/ log' = log
             \/ \E n \in Models : n # m /\ At(t) \in Daemons /\ log' = [log EXCEPT ![At(t)] = Append(@, n)]
      PROVE  Placed(m)'
  <2>1. OneDown(m)' /\ Tree(m)' /\ \A d \in Daemons : Touched(d, m)' => Touched(d, m)
    BY <1>0, <1>1, <1>2, DownOther
  <2> QED
    BY <2>1, PlacedFrom
<1>3. CASE NoModel(t, x, e, c, P)
  BY <1>2, <1>3 DEF NoModel, Plain, PlainCmd
<1>4. ASSUME NEW n \in Models, Climbs(n, t, x, e, c, g, P) PROVE Placed(m)'
  <2>1. ~IsDown(x, m) /\ ~IsDown(task[t], m) /\ log' = log
    BY <1>4 DEF Climbs, Source
  <2>2. TopologyOf(m) \notin P
    BY <1>4, ModelCommands DEF Climbs, PlainCmd
  <2> QED
    BY <1>2, <2>1, <2>2
<1>5. ASSUME NEW n \in Models, Lands(n, t, x, e, c, P) PROVE Placed(m)'
  <2>1. CASE m # n
    <3>1. ~IsDown(task[t], m) /\ log' = log /\ P = {} /\ x = SetTopology(At(t), n)
      BY <1>5 DEF Lands, Source
    <3>2. ~IsDown(x, m)
      BY <2>1, <3>1, SetTopologyOnly
    <3> QED
      BY <1>2, <3>1, <3>2
  <2>2. CASE m = n
    <3>1. Source(m, t, e, c) /\ Lands(m, t, x, e, c, P) /\ P = {} /\ ~IsUp(x, m)
      BY <1>5, <2>2, SetTopologyParts DEF Lands
    <3>2. SomeUp(m) /\ ~SomeUp(m)'
      <4>1. /\ SomeUp(m)
            /\ \A k \in Places, y \in Threads' : Up(k, y, m)' =>
                  (k = "task" /\ y = t /\ IsUp(x, m)) \/ (k = "mail" /\ y = g /\ AskOf(m) \in P)
        BY <1>0, <1>1, <3>1, UpLeaves
      <4>2. \A k \in Places, y \in Threads' : ~Up(k, y, m)'
        BY <3>1, <4>1
      <4> QED
        BY <4>1, <4>2 DEF SomeUp
    <3>3. OneDown(m)' /\ Tree(m)'
      <4>1. \A d \in Daemons : ~Touched(d, m)
        BY <3>2 DEF Placed
      <4> QED
        BY <1>0, <1>1, <3>1, <4>1, DownLands
    <3>4. OneUp(m)'
      BY <1>0, UpStep DEF Woods
    <3> QED
      BY <3>2, <3>3, <3>4 DEF Placed
  <2> QED
    BY <2>1, <2>2
<1>6. ASSUME NEW n \in Models, Falls(n, t, x, e, c, P) PROVE Placed(m)'
  <2>1. CASE m # n
    <3>1. task[t] = Idle /\ log' = log /\ P = {} /\ x = SetTopology(At(t), n)
      BY <1>6 DEF Falls
    <3>2. ~IsDown(x, m)
      BY <2>1, <3>1, SetTopologyOnly
    <3>3. ~IsDown(task[t], m)
      BY <3>1, OneInHand DEF Plain
    <3> QED
      BY <1>2, <3>1, <3>2, <3>3
  <2>2. CASE m = n
    <3>1. OneDown(m)' /\ Tree(m)' /\ \A d \in Daemons : Touched(d, m)' => Touched(d, m)
      BY <1>0, <1>1, <1>6, <2>2, DownFalls
    <3> QED
      BY <3>1, PlacedFrom
  <2> QED
    BY <2>1, <2>2
<1>7. ASSUME NEW n \in Models, Forwards(n, t, x, e, g, P) PROVE Placed(m)'
  <2>1. IsDown(task[t], n) /\ IsDown(x, n) /\ log' = log /\ P = {TopologyOf(n)} /\ t \in Threads
    BY <1>1, <1>7 DEF Forwards, Floods, IsDown, Effect, Turns
  <2>2. CASE m # n
    BY <1>2, <2>1, <2>2, OneInHand, ModelCommands
  <2>3. CASE m = n
    <3>1. OneDown(m)' /\ Tree(m)'
      BY <1>0, <1>1, <1>7, <2>3, DownForwards
    <3>2. "task" \in Below /\ Down("task", t, m)
      BY <2>1, <2>3 DEF Below, Down
    <3>3. At(t) \in Daemons /\ Touched(At(t), m)
      BY <2>1, <3>2, DownAt
    <3> QED
      BY <3>1, <3>3, PlacedFrom
  <2> QED
    BY <2>2, <2>3
<1>8. ASSUME NEW n \in Models, Finishes(n, t, x, e, P) PROVE Placed(m)'
  <2>1. IsDown(task[t], n) /\ IsDown(x, n) /\ log' = log /\ P = {}
    BY <1>8 DEF Finishes, Floods, IsDown
  <2>2. CASE m # n
    BY <1>2, <2>1, <2>2, OneInHand
  <2>3. CASE m = n
    <3>1. OneDown(m)' /\ Tree(m)' /\ \A d \in Daemons : Touched(d, m)' => Touched(d, m)
      BY <1>0, <1>1, <1>8, <2>3, DownFinishes
    <3> QED
      BY <3>1, PlacedFrom
  <2> QED
    BY <2>2, <2>3
<1>9. ASSUME NEW n \in Models, Reads(n, t, x, e, P) PROVE Placed(m)'
  <2>1. /\ IsDown(task[t], n) /\ x = Idle /\ P = {} /\ At(t) \in Daemons
        /\ log' = [log EXCEPT ![At(t)] = Append(@, n)]
    BY <1>9 DEF Reads, IsDown
  <2>2. CASE m # n
    <3>1. ~IsDown(task[t], m)
      BY <2>1, <2>2, OneInHand
    <3>2. ~IsDown(x, m)
      BY <2>1, OneInHand DEF Plain
    <3> QED
      BY <1>2, <2>1, <2>2, <3>1, <3>2
  <2>3. CASE m = n
    <3>1. OneDown(m)' /\ Tree(m)' /\ \A d \in Daemons : Touched(d, m)' => Touched(d, m)
      BY <1>0, <1>1, <1>9, <2>3, DownReads
    <3> QED
      BY <3>1, PlacedFrom
  <2> QED
    BY <2>2, <2>3
<1>10. Kind(t, x, e, c, g, P)
  BY <1>1
<1>11. NoModel(t, x, e, c, P)
       \/ \E n \in Models :
           \/ Climbs(n, t, x, e, c, g, P) \/ Lands(n, t, x, e, c, P)
           \/ Falls(n, t, x, e, c, P) \/ Forwards(n, t, x, e, g, P)
           \/ Finishes(n, t, x, e, P) \/ Reads(n, t, x, e, P)
  BY <1>10 DEF Kind
<1> QED
  BY <1>3, <1>4, <1>5, <1>6, <1>7, <1>8, <1>9, <1>11

LEMMA OnceStep ==
    ASSUME TypeOK, TypeOK', Links, Once, Next
    PROVE  Once'
<1> SUFFICES ASSUME Woods' PROVE \A m \in Models : Placed(m)'
  BY DEF Once
<1>1. Woods
  BY WoodsBefore
<1>2. ASSUME NEW m \in Models PROVE Placed(m)'
  <2>1. Placed(m)
    BY <1>1 DEF Once
  <2> QED
    BY <1>1, <2>1, PlacedStep
<1> QED
  BY <1>2

LEMMA OnceInit ==
    ASSUME Init
    PROVE  Once
<1>1. \A x : Single(<<>>, x)
  BY EmptySeq DEF Single
<1>2. ToSet(<<>>) = {}
  BY EmptySeq, SetOf
<1>3. \A e \in Ends : inbox[e] = <<>>
  BY DEF Init
<1>4. \A d \in Daemons : log[d] = <<>>
  BY DEF Init
<1>5. \A y \in Threads : task[y].pc = "idle"
  BY DEF Init, Threads, Idle
<1>6. ASSUME NEW m \in Models PROVE Placed(m)
  <2>1. OneUp(m)
    BY UpInit
  <2>2. \A k \in Below, y \in Threads : ~Down(k, y, m)
    BY <1>2, <1>3, <1>5 DEF Down, IsDown
  <2>3. \A d \in Daemons : ~Touched(d, m)
    BY <1>2, <1>4, <2>2 DEF Touched
  <2>4. OneDown(m)
    BY <1>1, <1>3, <1>4, <2>2 DEF OneDown
  <2> QED
    BY <2>1, <2>3, <2>4 DEF Placed, Tree
<1> QED
  BY <1>6 DEF Once

LEMMA OnceSame ==
    ASSUME UNCHANGED vars
    PROVE  Once => Once'
<1>1. /\ Made' = Made /\ Threads' = Threads /\ (\A e : Daemon(e)' = Daemon(e)) /\ (\A t : At(t)' = At(t))
      /\ InSlaves' = InSlaves
  BY DEF vars, Made, Daemon, Threads, At, InSlaves
<1>2. Woods' <=> Woods
  BY <1>1 DEF vars, Woods, Few, OneParent, NoCycle
<1>3. \A k, y, m : (Up(k, y, m)' <=> Up(k, y, m)) /\ (Down(k, y, m)' <=> Down(k, y, m))
  BY DEF vars, Up, Down
<1>4. ASSUME NEW m, Placed(m) PROVE Placed(m)'
  <2>1. OneUp(m)' /\ (SomeUp(m)' => SomeUp(m))
    BY <1>1, <1>3, <1>4 DEF vars, Placed, OneUp, SomeUp
  <2>2. \A d : Touched(d, m)' <=> Touched(d, m)
    BY <1>1, <1>3 DEF vars, Touched
  <2>3. OneDown(m)'
    BY <1>1, <1>3, <1>4 DEF vars, Placed, OneDown
  <2>4. \A e : Passed(e, m)' <=> Passed(e, m)
    BY <1>1 DEF vars, Passed
  <2>5. \A d : FromParent(d, m)' <=> FromParent(d, m)
    BY <1>1, <2>4 DEF vars, FromParent
  <2>6. Tree(m)'
    BY <1>4, <2>2, <2>5 DEF Placed, Tree
  <2> QED
    BY <1>4, <2>1, <2>2, <2>3, <2>6 DEF Placed
<1> QED
  BY <1>2, <1>4 DEF Once

(* In a network without cycles, where nobody is a slave twice, a model is  *)
(* in one place while it goes up, and in one at each daemon that has it    *)
(* when it comes down; all of these but one have it from their masters.    *)
THEOREM PlacesHold == Spec => [](TypeOK /\ Links /\ Once)
<1>1. Init => Once
  BY OnceInit
<1>2. TypeOK /\ Links /\ TypeOK' /\ Once /\ [Next]_vars => Once'
  BY OnceStep, OnceSame
<1> QED
  BY <1>1, <1>2, LinksHold, PTL DEF Spec

(* In a forest a model is read once at most by each daemon, however the    *)
(* entries, invitations and other models interleave with it                *)
(* (Network!ReadOnce).                                                     *)
THEOREM ReadOnceHolds == Spec => []ReadOnce
<1>1. TypeOK /\ Links /\ Once => ReadOnce
  <2> SUFFICES ASSUME TypeOK, Links, Once, Forest, NEW d \in Daemons,
                      NEW i \in 1 .. Len(log[d]), NEW j \in 1 .. Len(log[d]), log[d][i] = log[d][j]
               PROVE  i = j
    BY DEF ReadOnce
  <2>1. Woods
    BY ForestIsWoods
  <2>2. log[d] \in Seq(Models)
    BY TypeParts
  <2>3. log[d][i] \in Models
    BY <2>2, SetOf
  <2>4. Single(log[d], log[d][i])
    BY <2>1, <2>3 DEF Once, Placed, OneDown
  <2> QED
    BY <2>4 DEF Single
<1> QED
  BY <1>1, PlacesHold, PTL

-----------------------------------------------------------------------------
(* Where the models of a daemon come from: m is on its way to e, where the *)
(* sender has the connection among its slaves.                             *)
Mail(e, m) == TopologyOf(m) \in ToSet(inbox[e])
MailFrom == \A e \in Ends, m \in Models : Mail(e, m) => Peer(e) \in InSlaves

(* S holds all that is below its members, if only in the view of one end.  *)
Closed(S) ==
    /\ \A e \in InSlaves : Daemon(e) \in S => Daemon(Peer(e)) \in S
    /\ \A e \in InMasters : Daemon(Peer(e)) \in S => Daemon(e) \in S
HasParent(d) == \E e \in InSlaves : Daemon(Peer(e)) = d

(* A model that is asked for above S does not go up there, and comes to    *)
(* the members of S from their masters.                                    *)
FromAbove(S, m) ==
    /\ \A k \in Places, y \in Threads : Up(k, y, m) => At(y) \notin S
    /\ \A u \in Threads : IsDown(task[u], m) /\ At(u) \in S => u \in Made /\ Peer(u) \in InSlaves
    /\ \A d \in S : m \in ToSet(log[d]) => HasParent(d)
Above(S, m) == m \in Models /\ m.at \notin S
Origin ==
    Woods => MailFrom /\ \A S \in SUBSET Daemons : Closed(S) => \A m : Above(S, m) => FromAbove(S, m)

LEMMA PutsTopology ==
    ASSUME NEW m \in Models, NEW t, NEW x, NEW e, NEW c, NEW g, NEW P, Kind(t, x, e, c, g, P),
           TopologyOf(m) \in P
    PROVE  Forwards(m, t, x, e, g, P)
<1>1. ~NoModel(t, x, e, c, P)
  BY DEF NoModel, PlainCmd
<1>2. \A n \in Models :
        ~Climbs(n, t, x, e, c, g, P) /\ ~Lands(n, t, x, e, c, P) /\ ~Falls(n, t, x, e, c, P)
        /\ ~Finishes(n, t, x, e, P) /\ ~Reads(n, t, x, e, P)
  BY ModelCommands DEF Climbs, PlainCmd, Lands, Falls, Finishes, Reads
<1>3. PICK n \in Models : Forwards(n, t, x, e, g, P)
  BY <1>1, <1>2 DEF Kind
<1>4. n = m
  BY <1>3, ModelCommands DEF Forwards
<1> QED
  BY <1>3, <1>4

LEMMA PutsAsk ==
    ASSUME NEW m \in Models, NEW t, NEW x, NEW e, NEW c, NEW g, NEW P, Kind(t, x, e, c, g, P),
           AskOf(m) \in P
    PROVE  /\ Source(m, t, e, c)
           /\ \E h \in Made : h \in ToSet(masters[At(t)]) /\ Daemon(h) = At(t) /\ g = Peer(h)
<1>1. ~NoModel(t, x, e, c, P)
  BY DEF NoModel, PlainCmd
<1>2. \A n \in Models :
        /\ ~Lands(n, t, x, e, c, P) /\ ~Falls(n, t, x, e, c, P)
        /\ ~Finishes(n, t, x, e, P) /\ ~Reads(n, t, x, e, P)
  BY DEF Lands, Falls, Finishes, Reads
<1>3. \A n \in Models : ~Forwards(n, t, x, e, g, P)
  BY ModelCommands DEF Forwards
<1>4. PICK n \in Models : Climbs(n, t, x, e, c, g, P)
  BY <1>1, <1>2, <1>3 DEF Kind
<1>5. P = {AskOf(n)} /\ Source(n, t, e, c)
      /\ \E h \in Made : h \in ToSet(masters[At(t)]) /\ Daemon(h) = At(t) /\ g = Peer(h)
  BY <1>4 DEF Climbs, PlainCmd
<1>6. n = m
  BY <1>5, ModelCommands
<1> QED
  BY <1>5, <1>6

LEMMA TurnsUp ==
    ASSUME NEW m \in Models, NEW t, NEW x, NEW e, NEW c, NEW g, NEW P, Kind(t, x, e, c, g, P), IsUp(x, m)
    PROVE  Source(m, t, e, c)
<1>1. ~NoModel(t, x, e, c, P)
  BY DEF NoModel, Plain
<1>2. \A n \in Models : ~Lands(n, t, x, e, c, P) /\ ~Falls(n, t, x, e, c, P)
  BY SetTopologyParts DEF Lands, Falls
<1>3. \A n \in Models : Forwards(n, t, x, e, g, P) \/ Finishes(n, t, x, e, P) => IsDown(x, n)
  BY DEF Forwards, Finishes, IsDown
<1>4. \A n \in Models : ~Reads(n, t, x, e, P)
  BY OneInHand DEF Reads, Plain
<1>5. PICK n \in Models : Climbs(n, t, x, e, c, g, P)
  BY <1>1, <1>2, <1>3, <1>4, OneInHand DEF Kind
<1>6. IsUp(x, n) /\ Source(n, t, e, c)
  BY <1>5 DEF Climbs, Plain
<1>7. n = m
  BY <1>6, OneInHand
<1> QED
  BY <1>6, <1>7

LEMMA TurnsDown ==
    ASSUME NEW m \in Models, NEW t, NEW x, NEW e, NEW c, NEW g, NEW P, Kind(t, x, e, c, g, P), IsDown(x, m)
    PROVE  IsDown(task[t], m) \/ Lands(m, t, x, e, c, P) \/ Falls(m, t, x, e, c, P)
<1>1. ~NoModel(t, x, e, c, P) /\ \A n \in Models : ~Climbs(n, t, x, e, c, g, P)
  BY DEF NoModel, Plain, Climbs
<1>2. ASSUME NEW n \in Models, Lands(n, t, x, e, c, P) \/ Falls(n, t, x, e, c, P) PROVE n = m
  <2>1. x = SetTopology(At(t), n)
    BY <1>2 DEF Lands, Falls
  <2>2. \A k : IsDown(x, k) => k = n
    BY <2>1, SetTopologyOnly
  <2> QED
    BY <2>2
<1>3. ASSUME NEW n \in Models, Forwards(n, t, x, e, g, P) \/ Finishes(n, t, x, e, P) PROVE IsDown(task[t], m)
  <2>1. IsDown(x, n) /\ IsDown(task[t], n)
    BY <1>3 DEF Forwards, Finishes, Floods, IsDown
  <2> QED
    BY <2>1, OneInHand
<1>4. \A n \in Models : ~Reads(n, t, x, e, P)
  BY OneInHand DEF Reads, Plain
<1> QED
  BY <1>1, <1>2, <1>3, <1>4 DEF Kind

LEMMA LogGains ==
    ASSUME NEW t, NEW x, NEW e, NEW c, NEW g, NEW P, Kind(t, x, e, c, g, P)
    PROVE  log' = log \/ \E n \in Models : Reads(n, t, x, e, P)
<1>1. NoModel(t, x, e, c, P) => log' = log
  BY DEF NoModel
<1>2. \A n \in Models :
        Climbs(n, t, x, e, c, g, P) \/ Lands(n, t, x, e, c, P) \/ Falls(n, t, x, e, c, P)
        \/ Forwards(n, t, x, e, g, P) \/ Finishes(n, t, x, e, P) => log' = log
  BY DEF Climbs, Lands, Falls, Forwards, Finishes
<1> QED
  BY <1>1, <1>2 DEF Kind

LEMMA UpAt ==
    ASSUME TypeOK, Links, NEW m \in Models, NEW k \in Places, NEW y \in Threads, Up(k, y, m)
    PROVE  y \in Made \cup Requests
<1>1. CASE k = "todo"
  BY <1>1 DEF Up, Requests
<1>2. CASE k = "task"
  <2>1. task[y] # Idle
    BY <1>2 DEF Up, IsUp, Idle
  <2> QED
    BY <2>1, Working DEF TypeOK
<1>3. CASE k = "mail"
  <2>1. y \in Ends /\ inbox[y] # <<>>
    BY <1>3, TypeParts, SetOf DEF Up
  <2> QED
    BY <2>1, Working
<1> QED
  BY <1>1, <1>2, <1>3 DEF Places

LEMMA SourceUp ==
    ASSUME TypeOK, NEW m \in Models, NEW t \in Threads, NEW e, NEW c, Source(m, t, e, c)
    PROVE  (\E k \in Places : Up(k, t, m)) /\ t \in Made \cup Requests
<1>1. Up("todo", t, m) \/ Up("task", t, m) \/ Up("mail", t, m)
  BY DEF Source, Up, Made
<1>2. t \in Made \cup Requests
  BY DEF Source, TypeOK
<1> QED
  BY <1>1, <1>2 DEF Places

LEMMA ClosedBefore ==
    ASSUME TypeOK, Links, Next, NEW S, Closed(S)'
    PROVE  Closed(S)
<1>1. /\ InSlaves \subseteq InSlaves' /\ InMasters \subseteq InMasters'
      /\ \A e \in InSlaves \cup InMasters : Daemon(e)' = Daemon(e) /\ Daemon(Peer(e))' = Daemon(Peer(e))
  BY StepStays DEF InSlaves, InMasters
<1> QED
  BY <1>1 DEF Closed

LEMMA MailFromStep ==
    ASSUME TypeOK, Links, Few, Next, MailFrom
    PROVE  MailFrom'
<1>1. PICK t, x, e, c, g, P : Effect(t, x, e, c, g, P) /\ Kind(t, x, e, c, g, P)
  BY ModelSteps DEF ModelStep
<1>2. ASSUME NEW f \in Ends, NEW m \in Models, Mail(f, m)' PROVE Peer(f) \in InSlaves'
  <2>1. TopologyOf(m) \in ToSet(inbox'[f])
    BY <1>2 DEF Mail
  <2>2. TopologyOf(m) \in ToSet(inbox[f]) \/ (f = g /\ TopologyOf(m) \in P)
    BY <1>1, <2>1 DEF Effect, Mails
  <2>3. CASE TopologyOf(m) \in ToSet(inbox[f])
    BY <2>3, StepStays DEF MailFrom, Mail
  <2>4. CASE f = g /\ TopologyOf(m) \in P
    <3>1. Forwards(m, t, x, e, g, P)
      BY <1>1, <2>4, PutsTopology
    <3>2. PICK h \in Made : h \in ToSet(slaves[At(t)]) /\ Daemon(h) = At(t) /\ g = Peer(h)
      BY <3>1 DEF Forwards
    <3>3. Peer(f) = h /\ h \in InSlaves
      BY <2>4, <3>2, PeerEnds DEF Made, InSlaves
    <3> QED
      BY <3>3, StepStays
  <2> QED
    BY <2>2, <2>3, <2>4
<1>3. \A f : Peer(f)' = Peer(f)
  BY DEF Peer
<1> QED
  BY <1>2, <1>3 DEF MailFrom

(* The thread and the source of a step, when the model is from above S.    *)
LEMMA SourceAbove ==
    ASSUME TypeOK, NEW S, NEW m, Above(S, m), FromAbove(S, m), NEW t \in Threads, NEW e, NEW c, Source(m, t, e, c)
    PROVE  At(t) \notin S /\ t \in Made \cup Requests
<1>1. (\E k \in Places : Up(k, t, m)) /\ t \in Made \cup Requests
  BY SourceUp DEF Above
<1> QED
  BY <1>1 DEF FromAbove

LEMMA FromAboveStep ==
    ASSUME TypeOK, TypeOK', Links, Few, Next, MailFrom, NEW S \in SUBSET Daemons, Closed(S), NEW m, Above(S, m),
           OneUp(m), FromAbove(S, m)
    PROVE  FromAbove(S, m)'
<1>0. m \in Models
  BY DEF Above
<1>1. PICK t, x, e, c, g, P : Effect(t, x, e, c, g, P) /\ Kind(t, x, e, c, g, P)
  BY ModelSteps DEF ModelStep
<1>2. t \in Threads /\ Threads' = Threads /\ \A u \in Threads : task'[u] = IF u = t THEN x ELSE task[u]
  BY <1>1 DEF Effect, Turns, EndsStay
<1>3. Source(m, t, e, c) => At(t) \notin S /\ At(t)' = At(t)
  BY <1>2, SourceAbove, AtStays
<1>4. ASSUME NEW k \in Places, NEW y \in Threads', Up(k, y, m)' PROVE At(y)' \notin S
  <2>1. /\ y \in Threads
        /\ k = "todo" => y # t /\ Up(k, y, m)
        /\ k = "task" => IF y = t THEN IsUp(x, m) ELSE Up(k, y, m)
        /\ k = "mail" => (y = g /\ AskOf(m) \in P) \/ Up(k, y, m)
    BY <1>1, <1>4, UpMoves
  <2>2. CASE Up(k, y, m)
    <3>1. y \in Made \cup Requests
      BY <1>0, <2>1, <2>2, UpAt
    <3>2. At(y)' = At(y)
      BY <3>1, AtStays
    <3> QED
      BY <2>1, <2>2, <3>2 DEF FromAbove
  <2>3. CASE y = t /\ IsUp(x, m)
    BY <1>0, <1>1, <1>3, <2>3, TurnsUp
  <2>4. CASE y = g /\ AskOf(m) \in P
    <3>1. Source(m, t, e, c)
      BY <1>0, <1>1, <2>4, PutsAsk
    <3>2. PICK h \in Made : h \in ToSet(masters[At(t)]) /\ Daemon(h) = At(t) /\ g = Peer(h)
      BY <1>0, <1>1, <2>4, PutsAsk
    <3>3. h \in InMasters /\ g \in Made
      BY <3>2, TypeParts, MadeEnds DEF InMasters
    <3>4. Daemon(g) \notin S
      BY <1>3, <3>1, <3>2, <3>3 DEF Closed
    <3>5. At(g) = Daemon(g) /\ At(g)' = At(g)
      BY <3>3, Working, AtStays
    <3> QED
      BY <2>4, <3>4, <3>5
  <2>5. k \in {"todo", "task", "mail"}
    BY DEF Places
  <2> QED
    BY <2>1, <2>2, <2>3, <2>4, <2>5
<1>5. ASSUME NEW u \in Threads', IsDown(task'[u], m), At(u)' \in S
      PROVE  u \in Made' /\ Peer(u) \in InSlaves'
  <2>1. CASE IsDown(task[u], m)
    <3>1. u \in Made \cup Requests
      <4>1. task[u] # Idle
        BY <2>1 DEF IsDown, Idle
      <4> QED
        BY <1>2, <4>1, Working DEF TypeOK
    <3>2. At(u)' = At(u)
      BY <3>1, AtStays
    <3>3. u \in Made /\ Peer(u) \in InSlaves
      BY <1>2, <1>5, <2>1, <3>2 DEF FromAbove
    <3> QED
      BY <3>3, StepStays DEF EndsStay
  <2>2. ASSUME u = t, Lands(m, t, x, e, c, P) PROVE FALSE
    <3>1. Source(m, t, e, c)
      BY <2>2 DEF Lands
    <3> QED
      BY <1>3, <1>5, <2>2, <3>1
  <2>3. CASE u = t /\ Falls(m, t, x, e, c, P)
    <3>1. t \in Made /\ t \in Ends /\ Mail(t, m)
      BY <2>3 DEF Falls, Mail, Made
    <3>2. Peer(t) \in InSlaves
      BY <1>0, <3>1 DEF MailFrom
    <3> QED
      BY <2>3, <3>1, <3>2, StepStays DEF EndsStay
  <2>4. u # t => IsDown(task[u], m)
    BY <1>2, <1>5
  <2>5. u = t => IsDown(x, m)
    BY <1>2, <1>5
  <2>6. IsDown(x, m) => IsDown(task[t], m) \/ Lands(m, t, x, e, c, P) \/ Falls(m, t, x, e, c, P)
    BY <1>0, <1>1, TurnsDown
  <2> QED
    BY <2>1, <2>2, <2>3, <2>4, <2>5, <2>6
<1>6. ASSUME NEW d \in S, m \in ToSet(log'[d]) PROVE HasParent(d)'
  <2>1. HasParent(d) => HasParent(d)'
    <3>1. ASSUME NEW f \in InSlaves, Daemon(Peer(f)) = d PROVE f \in InSlaves' /\ Daemon(Peer(f))' = d
      BY <3>1, StepStays DEF InSlaves
    <3> QED
      BY <3>1 DEF HasParent
  <2>2. CASE m \in ToSet(log[d])
    BY <2>1, <2>2 DEF FromAbove
  <2>3. CASE m \notin ToSet(log[d])
    <3>1. PICK n \in Models : Reads(n, t, x, e, P)
      <4>1. log' = log \/ \E n \in Models : Reads(n, t, x, e, P)
        BY <1>1, LogGains
      <4> QED
        BY <1>6, <2>3, <4>1
    <3>2. /\ log' = [log EXCEPT ![At(t)] = Append(@, n)] /\ IsDown(task[t], n) /\ At(t) \in Daemons
      BY <3>1 DEF Reads, IsDown
    <3>3. log \in [Daemons -> Seq(Models)]
      BY DEF TypeOK
    <3>4. d = At(t) /\ n = m
      <4>1. d \in Daemons /\ log[d] \in Seq(Models)
        BY <3>3
      <4>2. ToSet(Append(log[d], n)) = ToSet(log[d]) \cup {n}
        BY <4>1, SetAppend
      <4>3. d # At(t) => log'[d] = log[d]
        BY <3>2, <3>3, <4>1
      <4>4. d = At(t) => log'[d] = Append(log[d], n)
        BY <3>2, <3>3, <4>1
      <4> QED
        BY <1>6, <2>3, <4>2, <4>3, <4>4
    <3>5. t \in Made /\ Peer(t) \in InSlaves
      BY <1>2, <3>2, <3>4 DEF FromAbove
    <3>6. Peer(Peer(t)) = t /\ At(t) = Daemon(t)
      BY <3>5, PeerEnds, Working DEF Made
    <3>7. HasParent(d)
      BY <3>4, <3>5, <3>6 DEF HasParent
    <3> QED
      BY <2>1, <3>7
  <2> QED
    BY <2>2, <2>3
<1>7. Peer(t)' = Peer(t) /\ \A f : Peer(f)' = Peer(f)
  BY DEF Peer
<1> QED
  BY <1>4, <1>5, <1>6, <1>7 DEF FromAbove

LEMMA OriginStep ==
    ASSUME TypeOK, TypeOK', Links, Once, Origin, Next
    PROVE  Origin'
<1> SUFFICES ASSUME Woods'
             PROVE  MailFrom' /\ \A S \in SUBSET Daemons : Closed(S)' => \A m : Above(S, m) => FromAbove(S, m)'
  BY DEF Origin, Above
<1>1. Woods
  BY WoodsBefore
<1>2. MailFrom /\ Few
  BY <1>1 DEF Origin, Woods
<1>3. ASSUME NEW S \in SUBSET Daemons, Closed(S)', NEW m, Above(S, m) PROVE FromAbove(S, m)'
  <2>1. Closed(S)
    BY <1>3, ClosedBefore
  <2>2. FromAbove(S, m)
    BY <1>1, <1>3, <2>1 DEF Origin
  <2>3. OneUp(m)
    BY <1>1, <1>3 DEF Above, Once, Placed
  <2> QED
    BY <1>2, <1>3, <2>1, <2>2, <2>3, FromAboveStep
<1> QED
  BY <1>2, <1>3, MailFromStep

LEMMA OriginInit ==
    ASSUME Init
    PROVE  Origin
<1>2. ToSet(<<>>) = {}
  BY EmptySeq, SetOf
<1>3. \A e \in Ends : inbox[e] = <<>>
  BY DEF Init
<1>4. \A d \in Daemons : log[d] = <<>>
  BY DEF Init
<1>5. \A y \in Threads : task[y].pc = "idle"
  BY DEF Init, Threads, Idle
<1>6. MailFrom
  BY <1>2, <1>3 DEF MailFrom, Mail
<1>7. ASSUME NEW S \in SUBSET Daemons, NEW m, Above(S, m) PROVE FromAbove(S, m)
  <2>1. \A k \in Places, y \in Threads : Up(k, y, m) => At(y) \notin S
    BY <1>2, <1>3, <1>5, <1>7 DEF Up, IsUp, At, Above, Requests
  <2>2. \A u \in Threads : ~IsDown(task[u], m)
    BY <1>5 DEF IsDown
  <2>3. \A d \in S : m \notin ToSet(log[d])
    BY <1>2, <1>4
  <2> QED
    BY <2>1, <2>2, <2>3 DEF FromAbove
<1> QED
  BY <1>6, <1>7 DEF Origin

-----------------------------------------------------------------------------
(* The order of the commands in an inbox, and of the models in a log.      *)
Precedes(s, a, b) == \E i, j \in 1 .. Len(s) : i < j /\ s[i] = a /\ s[j] = b

LEMMA PrecedesIn ==
    ASSUME NEW T, NEW s \in Seq(T), NEW a, NEW b, Precedes(s, a, b)
    PROVE  a \in ToSet(s) /\ b \in ToSet(s) /\ (Single(s, a) => a # b)
<1>1. ToSet(s) = {s[i] : i \in 1 .. Len(s)} /\ Len(s) \in Nat
  BY SetOf
<1>2. PICK i \in 1 .. Len(s), j \in 1 .. Len(s) : i < j /\ s[i] = a /\ s[j] = b
  BY DEF Precedes
<1>3. i # j
  BY <1>1, <1>2
<1> QED
  BY <1>1, <1>2, <1>3 DEF Single

LEMMA PrecedesAppend ==
    ASSUME NEW T, NEW s \in Seq(T), NEW c \in T, NEW a, NEW b
    PROVE  Precedes(Append(s, c), a, b) <=> Precedes(s, a, b) \/ (c = b /\ a \in ToSet(s))
<1>1. PICK n \in Nat : n = Len(s)
  BY SetOf
<1>2. PICK q : q = Append(s, c)
  OBVIOUS
<1>3. Len(q) = n + 1 /\ q[n + 1] = c /\ \A i \in 1 .. n : q[i] = s[i]
  BY <1>1, <1>2, SetAppend
<1>4. ToSet(s) = {s[i] : i \in 1 .. n}
  BY <1>1, SetOf
<1>5. ASSUME Precedes(q, a, b) PROVE Precedes(s, a, b) \/ (c = b /\ a \in ToSet(s))
  <2>1. PICK i \in 1 .. n + 1, j \in 1 .. n + 1 : i < j /\ q[i] = a /\ q[j] = b
    BY <1>3, <1>5 DEF Precedes
  <2>2. i \in 1 .. n /\ s[i] = a
    BY <1>3, <2>1
  <2>3. CASE j = n + 1
    BY <1>3, <1>4, <2>1, <2>2, <2>3
  <2>4. CASE j # n + 1
    <3>1. j \in 1 .. n
      BY <2>4
    <3>2. s[j] = b
      BY <1>3, <2>1, <3>1
    <3> QED
      BY <1>1, <2>1, <2>2, <3>1, <3>2 DEF Precedes
  <2> QED
    BY <2>3, <2>4
<1>6. ASSUME Precedes(s, a, b) PROVE Precedes(q, a, b)
  <2>1. PICK i \in 1 .. n, j \in 1 .. n : i < j /\ s[i] = a /\ s[j] = b
    BY <1>1, <1>6 DEF Precedes
  <2>2. i \in 1 .. n + 1 /\ j \in 1 .. n + 1 /\ q[i] = a /\ q[j] = b
    BY <1>3, <2>1
  <2> QED
    BY <1>3, <2>1, <2>2 DEF Precedes
<1>7. ASSUME c = b, a \in ToSet(s) PROVE Precedes(q, a, b)
  <2>1. PICK i \in 1 .. n : s[i] = a
    BY <1>4, <1>7
  <2>2. i \in 1 .. n + 1 /\ n + 1 \in 1 .. n + 1 /\ i < n + 1
    OBVIOUS
  <2>3. q[i] = a /\ q[n + 1] = b
    BY <1>3, <1>7, <2>1
  <2> QED
    BY <1>3, <2>2, <2>3 DEF Precedes
<1> QED
  BY <1>2, <1>5, <1>6, <1>7

LEMMA PrecedesTail ==
    ASSUME NEW T, NEW s \in Seq(T), s # <<>>, NEW a, NEW b
    PROVE  /\ Head(s) # a => (Precedes(Tail(s), a, b) <=> Precedes(s, a, b))
           /\ Head(s) = a => (b \in ToSet(Tail(s)) => Precedes(s, a, b))
           /\ Head(s) = a /\ Single(s, a) => (Precedes(s, a, b) => b \in ToSet(Tail(s)))
           /\ Head(s) = b /\ Single(s, b) => ~Precedes(s, a, b)
<1>1. PICK n \in Nat : n = Len(s)
  BY SetOf
<1>2. PICK q \in Seq(T) : q = Tail(s)
  BY SetTail
<1>3. Len(q) = n - 1 /\ n >= 1 /\ s[1] = Head(s) /\ \A i \in 1 .. n - 1 : q[i] = s[i + 1]
  <2>1. /\ Head(s) = s[1] /\ Len(q) = Len(s) - 1 /\ Len(s) \in Nat \ {0}
        /\ \A i \in 1 .. Len(q) : q[i] = s[i + 1]
    BY <1>2, SetTail
  <2> QED
    BY <1>1, <2>1
<1>4. ToSet(q) = {q[i] : i \in 1 .. n - 1}
  BY <1>3, SetOf
<1>5. ASSUME Precedes(q, a, b) PROVE Precedes(s, a, b)
  <2>1. PICK i \in 1 .. n - 1, j \in 1 .. n - 1 : i < j /\ q[i] = a /\ q[j] = b
    BY <1>3, <1>5 DEF Precedes
  <2>2. i + 1 \in 1 .. n /\ j + 1 \in 1 .. n /\ i + 1 < j + 1
    BY <2>1
  <2>3. s[i + 1] = a /\ s[j + 1] = b
    BY <1>3, <2>1
  <2> QED
    BY <1>1, <2>2, <2>3 DEF Precedes
<1>6. ASSUME Precedes(s, a, b), Head(s) # a PROVE Precedes(q, a, b)
  <2>1. PICK i \in 1 .. n, j \in 1 .. n : i < j /\ s[i] = a /\ s[j] = b
    BY <1>1, <1>6 DEF Precedes
  <2>2. i # 1
    BY <1>3, <1>6, <2>1
  <2>3. i - 1 \in 1 .. n - 1 /\ j - 1 \in 1 .. n - 1 /\ i - 1 < j - 1 /\ (i - 1) + 1 = i /\ (j - 1) + 1 = j
    BY <2>1, <2>2
  <2>4. q[i - 1] = a /\ q[j - 1] = b
    BY <1>3, <2>1, <2>3
  <2> QED
    BY <1>3, <2>3, <2>4 DEF Precedes
<1>7. ASSUME Head(s) = a, b \in ToSet(q) PROVE Precedes(s, a, b)
  <2>1. PICK j \in 1 .. n - 1 : q[j] = b
    BY <1>4, <1>7
  <2>2. 1 \in 1 .. n /\ j + 1 \in 1 .. n /\ 1 < j + 1
    BY <2>1
  <2>3. s[1] = a /\ s[j + 1] = b
    BY <1>3, <1>7, <2>1
  <2> QED
    BY <1>1, <2>2, <2>3 DEF Precedes
<1>8. ASSUME Head(s) = a, Single(s, a), Precedes(s, a, b) PROVE b \in ToSet(q)
  <2>1. PICK i \in 1 .. n, j \in 1 .. n : i < j /\ s[i] = a /\ s[j] = b
    BY <1>1, <1>8 DEF Precedes
  <2>2. j - 1 \in 1 .. n - 1 /\ (j - 1) + 1 = j
    BY <2>1
  <2>3. q[j - 1] = b
    BY <1>3, <2>1, <2>2
  <2> QED
    BY <1>4, <2>2, <2>3
<1>9. ASSUME Head(s) = b, Single(s, b), Precedes(s, a, b) PROVE FALSE
  <2>1. PICK i \in 1 .. n, j \in 1 .. n : i < j /\ s[i] = a /\ s[j] = b
    BY <1>1, <1>9 DEF Precedes
  <2>2. 1 \in 1 .. n /\ s[1] = b
    BY <1>3, <1>9
  <2>3. j = 1
    BY <1>1, <1>9, <2>1, <2>2 DEF Single
  <2> QED
    BY <2>1, <2>3
<1> QED
  BY <1>2, <1>5, <1>6, <1>7, <1>8, <1>9

LEMMA AppendTwice ==
    ASSUME NEW T, NEW s \in Seq(T), NEW c \in T, Single(Append(s, c), c)
    PROVE  c \notin ToSet(s)
<1> SUFFICES ASSUME c \in ToSet(s) PROVE FALSE
  OBVIOUS
<1>1. PICK n \in Nat : n = Len(s)
  BY SetOf
<1>2. PICK q : q = Append(s, c)
  OBVIOUS
<1>3. Len(q) = n + 1 /\ q[n + 1] = c /\ \A i \in 1 .. n : q[i] = s[i]
  BY <1>1, <1>2, SetAppend
<1>4. PICK i \in 1 .. n : s[i] = c
  BY <1>1, SetOf
<1>5. i \in 1 .. n + 1 /\ n + 1 \in 1 .. n + 1 /\ i # n + 1
  OBVIOUS
<1>6. q[i] = c
  BY <1>3, <1>4
<1> QED
  BY <1>2, <1>3, <1>5, <1>6 DEF Single

LEMMA QueueForms ==
    ASSUME TypeOK, Links, Next, NEW f \in Ends
    PROVE  \/ inbox'[f] = inbox[f]
           \/ inbox[f] # <<>> /\ inbox'[f] = Tail(inbox[f])
           \/ \E c \in Commands : inbox'[f] = Append(inbox[f], c)
           \/ /\ inbox[f] # <<>> /\ Head(inbox[f]).cmd = "notify_subscription"
              /\ \E c \in Commands : inbox'[f] = Append(Tail(inbox[f]), c)
           \/ inbox'[f] = Append(Append(inbox[f], Cmd("add_to_network")), Cmd("root_welcome"))
<1>1. inbox \in [Ends -> Seq(Commands)] /\ \A e \in Ends : Peer(e) \in Ends
  BY PeerEnds DEF TypeOK
<1>2. ASSUME NEW box \in [Ends -> Seq(Commands)], NEW h \in Ends, NEW c
      PROVE  Put(box, h, c)[f] = IF f = Peer(h) THEN Append(box[f], c) ELSE box[f]
  BY <1>1 DEF Put
<1>3. ASSUME NEW e \in Ends, inbox[e] # <<>>
      PROVE  /\ Taken(e) \in [Ends -> Seq(Commands)]
             /\ Taken(e)[f] = IF f = e THEN Tail(inbox[f]) ELSE inbox[f]
  BY <1>1, <1>3, TakeStep
<1>4. CASE inbox' = inbox
  BY <1>4
<1>5. CASE \E e \in Ends : inbox[e] # <<>> /\ inbox' = Taken(e)
  BY <1>3, <1>5
<1>6. ASSUME NEW h \in Ends, NEW m \in Commands, inbox' = Put(inbox, h, m)
      PROVE  inbox'[f] = inbox[f] \/ \E c \in Commands : inbox'[f] = Append(inbox[f], c)
  <2>1. inbox'[f] = IF f = Peer(h) THEN Append(inbox[f], m) ELSE inbox[f]
    BY <1>1, <1>2, <1>6
  <2> QED
    BY <2>1
<1>7. ASSUME NEW e \in Ends, NEW h \in Ends, NEW m \in Commands,
             inbox[e] # <<>> /\ Head(inbox[e]).cmd = "notify_subscription",
             inbox' = Put(Taken(e), h, m)
      PROVE  \/ inbox'[f] = inbox[f]
             \/ inbox[f] # <<>> /\ inbox'[f] = Tail(inbox[f])
             \/ \E c \in Commands : inbox'[f] = Append(inbox[f], c)
             \/ /\ inbox[f] # <<>> /\ Head(inbox[f]).cmd = "notify_subscription"
                /\ \E c \in Commands : inbox'[f] = Append(Tail(inbox[f]), c)
  <2>1. PICK box \in [Ends -> Seq(Commands)] : box = Taken(e)
    BY <1>3, <1>7
  <2>2. inbox'[f] = IF f = Peer(h) THEN Append(box[f], m) ELSE box[f]
    BY <1>2, <1>7, <2>1
  <2>3. box[f] = IF f = e THEN Tail(inbox[f]) ELSE inbox[f]
    BY <1>3, <1>7, <2>1
  <2> QED
    BY <1>7, <2>2, <2>3
<1>8. ASSUME NEW e \in Ends, inbox' = Put(Put(inbox, e, Cmd("add_to_network")), e, Cmd("root_welcome"))
      PROVE  \/ inbox'[f] = inbox[f]
             \/ inbox'[f] = Append(Append(inbox[f], Cmd("add_to_network")), Cmd("root_welcome"))
  <2>1. PICK box : box = Put(inbox, e, Cmd("add_to_network"))
    OBVIOUS
  <2>2. box \in [Ends -> Seq(Commands)]
    BY <1>1, <2>1, CommandKinds, PutStep
  <2>3. inbox'[f] = IF f = Peer(e) THEN Append(box[f], Cmd("root_welcome")) ELSE box[f]
    BY <1>2, <1>8, <2>1, <2>2
  <2>4. box[f] = IF f = Peer(e) THEN Append(inbox[f], Cmd("add_to_network")) ELSE inbox[f]
    BY <1>1, <1>2, <2>1
  <2> QED
    BY <2>3, <2>4
<1> QED
  BY <1>4, <1>5, <1>6, <1>7, <1>8, InboxForms

(* Two models that a step leaves in an inbox keep their order.             *)
LEMMA QueueSame ==
    ASSUME TypeOK, Links, Next, NEW f \in Ends, NEW m \in Models, NEW n \in Models,
           NEW a, NEW b, a = TopologyOf(m), b = TopologyOf(n),
           Single(inbox[f], a), Single(inbox[f], b), Single(inbox'[f], a), Single(inbox'[f], b),
           a \in ToSet(inbox[f]) <=> a \in ToSet(inbox'[f]),
           b \in ToSet(inbox[f]) <=> b \in ToSet(inbox'[f])
    PROVE  Precedes(inbox'[f], a, b) <=> Precedes(inbox[f], a, b)
<1>1. PICK s \in Seq(Commands) : s = inbox[f]
  BY TypeParts
<1>2. PICK r : r = inbox'[f]
  OBVIOUS
<1>3. /\ Single(s, a) /\ Single(s, b) /\ Single(r, a) /\ Single(r, b)
      /\ (a \in ToSet(s) <=> a \in ToSet(r)) /\ (b \in ToSet(s) <=> b \in ToSet(r))
  BY <1>1, <1>2
<1>4. /\ a.cmd = "set_topology" /\ b.cmd = "set_topology"
      /\ b # Cmd("add_to_network") /\ b # Cmd("root_welcome")
      /\ Cmd("add_to_network") \in Commands /\ Cmd("root_welcome") \in Commands
  BY ModelCommands, CommandKinds DEF Cmd
<1>5. ASSUME s # <<>> PROVE Head(s) # a => (Precedes(Tail(s), a, b) <=> Precedes(s, a, b))
  BY <1>5, PrecedesTail
<1>6. ASSUME r = s
      PROVE  Precedes(r, a, b) <=> Precedes(s, a, b)
  BY <1>6
<1>7. ASSUME s # <<>> /\ r = Tail(s)
      PROVE  Precedes(r, a, b) <=> Precedes(s, a, b)
  <2>1. Head(s) = a => a \notin ToSet(r)
    BY <1>3, <1>7, SingleTail
  <2>2. Head(s) \in ToSet(s)
    BY <1>7, SetTail
  <2>3. Head(s) # a
    BY <1>3, <2>1, <2>2
  <2> QED
    BY <1>5, <1>7, <2>3
<1>8. ASSUME NEW c \in Commands, r = Append(s, c) PROVE Precedes(r, a, b) <=> Precedes(s, a, b)
  <2>1. ToSet(r) = ToSet(s) \cup {c}
    BY <1>8, SetAppend
  <2>2. c # b
    BY <1>3, <1>8, <2>1, AppendTwice
  <2> QED
    BY <1>8, <2>2, PrecedesAppend
<1>9. ASSUME s # <<>>, Head(s).cmd = "notify_subscription", NEW c \in Commands, r = Append(Tail(s), c)
      PROVE  Precedes(r, a, b) <=> Precedes(s, a, b)
  <2>1. PICK q \in Seq(Commands) : q = Tail(s)
    BY <1>9, SetTail
  <2>2. Head(s) # a /\ Head(s) # b
    BY <1>4, <1>9
  <2>3. ToSet(s) = ToSet(q) \cup {Head(s)} /\ r = Append(q, c)
    BY <1>9, <2>1, SetTail
  <2>4. ToSet(r) = ToSet(q) \cup {c}
    BY <2>3, SetAppend
  <2>5. c # b
    BY <1>3, <2>2, <2>3, <2>4, AppendTwice
  <2>6. Precedes(r, a, b) <=> Precedes(q, a, b)
    BY <2>3, <2>5, PrecedesAppend
  <2> QED
    BY <1>5, <1>9, <2>1, <2>2, <2>6
<1>10. ASSUME r = Append(Append(s, Cmd("add_to_network")), Cmd("root_welcome"))
      PROVE  Precedes(r, a, b) <=> Precedes(s, a, b)
  <2>1. PICK q : q = Append(s, Cmd("add_to_network"))
    OBVIOUS
  <2>2. q \in Seq(Commands) /\ r = Append(q, Cmd("root_welcome"))
    BY <1>4, <1>10, <2>1, SetAppend
  <2>3. Precedes(q, a, b) <=> Precedes(s, a, b)
    BY <1>4, <2>1, PrecedesAppend
  <2>4. Precedes(r, a, b) <=> Precedes(q, a, b)
    BY <1>4, <2>2, PrecedesAppend
  <2> QED
    BY <2>3, <2>4
<1>11. \/ r = s
       \/ s # <<>> /\ r = Tail(s)
       \/ \E c \in Commands : r = Append(s, c)
       \/ s # <<>> /\ Head(s).cmd = "notify_subscription" /\ \E c \in Commands : r = Append(Tail(s), c)
       \/ r = Append(Append(s, Cmd("add_to_network")), Cmd("root_welcome"))
  BY <1>1, <1>2, QueueForms
<1>12. Precedes(r, a, b) <=> Precedes(s, a, b)
  BY <1>6, <1>7, <1>8, <1>9, <1>10, <1>11
<1> QED
  BY <1>1, <1>2, <1>12

-----------------------------------------------------------------------------
(* What has been sent through the master's end e of a connection, and what *)
(* has been got at the slave's end f.                                      *)
Sent(e, m) == \E u \in Threads : At(u) = Daemon(e) /\ SentBy(task[u], slaves[Daemon(e)], e, m)
Got(f, m) == m \in ToSet(log[Daemon(f)]) \/ IsDown(task[f], m) \/ Mail(f, m)
(* n was sent, or got, after m.                                            *)
SentAfter(e, m, n) ==
    Precedes(log[Daemon(e)], m, n) \/ (m \in ToSet(log[Daemon(e)]) /\ Sent(e, n))
GotAfter(f, m, n) ==
    \/ Precedes(log[Daemon(f)], m, n)
    \/ m \in ToSet(log[Daemon(f)]) /\ (IsDown(task[f], n) \/ Mail(f, n))
    \/ IsDown(task[f], m) /\ Mail(f, n)
    \/ Precedes(inbox[f], TopologyOf(m), TopologyOf(n))
Fits(e, m, n) == Got(Peer(e), m) => (GotAfter(Peer(e), m, n) <=> SentAfter(e, m, n))

Pipe(S, e) == S \in SUBSET Daemons /\ Closed(S) /\ e \in InSlaves /\ Daemon(e) \in S
Ordered ==
    Woods => \A S, e : Pipe(S, e) =>
        \A m : Above(S, m) =>
            /\ Got(Peer(e), m) => Passed(e, m)
            /\ \A n : Above(S, n) /\ n # m => Fits(e, m, n)

LEMMA PipeEnds ==
    ASSUME TypeOK, Links, Woods, NEW S, NEW e, Pipe(S, e)
    PROVE  /\ e \in Made /\ e \in Ends /\ Peer(e) \in Made /\ Peer(e) \in Ends /\ Peer(Peer(e)) = e
           /\ Daemon(e) \in Daemons /\ Daemon(Peer(e)) \in Daemons /\ Daemon(Peer(e)) \in S
           /\ Daemon(Peer(e)) # Daemon(e)
           /\ At(e) = Daemon(e) /\ At(Peer(e)) = Daemon(Peer(e)) /\ Peer(e) \in Threads
<1>1. e \in Made /\ e \in InSlaves /\ Daemon(e) \in S
  BY DEF Pipe, InSlaves
<1>2. e \in Ends /\ Peer(e) \in Made /\ Daemon(e) \in Daemons
  BY <1>1, TypeParts, MadeEnds
<1>3. Peer(e) \in Ends /\ Daemon(Peer(e)) \in Daemons /\ Peer(Peer(e)) = e
  BY <1>2, TypeParts, MadeEnds, PeerEnds
<1>4. Daemon(Peer(e)) \in S
  BY <1>1 DEF Pipe, Closed
<1>5. Daemon(Peer(e)) # Daemon(e)
  <2> SUFFICES ASSUME Daemon(Peer(e)) = Daemon(e) PROVE FALSE
    OBVIOUS
  <2>1. PICK T : T = {Daemon(e)}
    OBVIOUS
  <2>2. T \in SUBSET Daemons /\ T # {}
    BY <1>2, <2>1
  <2>3. PICK w \in T : \A f \in InSlaves : Daemon(Peer(f)) = w => Daemon(f) \notin T
    BY <2>2 DEF Woods, NoCycle
  <2> QED
    BY <1>1, <2>1, <2>3
<1>6. At(e) = Daemon(e) /\ At(Peer(e)) = Daemon(Peer(e))
  BY <1>1, <1>2, Working
<1>7. Peer(e) \in Threads
  BY <1>3 DEF Threads
<1> QED
  BY <1>1, <1>2, <1>3, <1>4, <1>5, <1>6, <1>7

(* What comes from above S is in hand of the thread of the one connection  *)
(* with a master, so that there is one such model at a time.               *)
LEMMA OnePipe ==
    ASSUME TypeOK, Links, Woods, NEW S, NEW m, FromAbove(S, m), NEW u \in Threads, IsDown(task[u], m), At(u) \in S
    PROVE  /\ u \in Made /\ Peer(u) \in InSlaves /\ Daemon(Peer(Peer(u))) = At(u)
           /\ \A e \in InSlaves : Daemon(Peer(e)) = At(u) => u = Peer(e)
<1>1. u \in Made /\ Peer(u) \in InSlaves
  BY DEF FromAbove
<1>2. Peer(Peer(u)) = u /\ At(u) = Daemon(u)
  BY <1>1, PeerEnds, Working DEF Made
<1>3. ASSUME NEW e \in InSlaves, Daemon(Peer(e)) = At(u) PROVE u = Peer(e)
  <2>1. Peer(u) = e
    BY <1>1, <1>2, <1>3 DEF Woods, OneParent
  <2> QED
    BY <1>2, <2>1
<1> QED
  BY <1>1, <1>2, <1>3

LEMMA OneAtATime ==
    ASSUME TypeOK, Links, Woods, NEW S, NEW m, FromAbove(S, m), NEW n, FromAbove(S, n),
           NEW u \in Threads, IsDown(task[u], m), At(u) \in S,
           NEW v \in Threads, IsDown(task[v], n), At(v) = At(u)
    PROVE  u = v /\ m = n
<1>1. Peer(u) \in InSlaves /\ Daemon(Peer(Peer(u))) = At(u) /\ u = Peer(Peer(u))
  BY OnePipe
<1>2. v = Peer(Peer(u))
  BY <1>1, OnePipe
<1>3. u = v
  BY <1>1, <1>2
<1> QED
  BY <1>3, OneInHand

(* A new slave has got nothing from above.                                 *)
LEMMA NothingYet ==
    ASSUME TypeOK, TypeOK', Links, Links', Woods', Few, MailFrom, Next, NEW S, NEW e, Pipe(S, e)', e \notin InSlaves,
           NEW m, Above(S, m), FromAbove(S, m)
    PROVE  ~Got(Peer(e), m)'
<1> SUFFICES ASSUME Got(Peer(e), m)' PROVE FALSE
  OBVIOUS
<1>1. PICK t, x, i, c, g, P : Effect(t, x, i, c, g, P) /\ Kind(t, x, i, c, g, P)
  BY ModelSteps DEF ModelStep
<1>2. t \in Threads /\ Threads' = Threads /\ \A u \in Threads : task'[u] = IF u = t THEN x ELSE task[u]
  BY <1>1 DEF Effect, Turns, EndsStay
<1>3. PICK f : f = Peer(e)
  OBVIOUS
<1>4. PICK d : d = Daemon(f)'
  OBVIOUS
<1>5. f \in Ends /\ Peer(f) = e /\ d \in S /\ e \in InSlaves' /\ Daemon(Peer(e))' = d
  <2>1. e \in Ends /\ e \in InSlaves'
    BY DEF Pipe, InSlaves, Made
  <2>2. Peer(e)' = Peer(e) /\ Peer(e) \in Ends /\ Peer(Peer(e)) = e
    BY <2>1, PeerEnds DEF Peer
  <2>3. Daemon(Peer(e))' \in S
    BY <2>1 DEF Pipe, Closed
  <2>4. Daemon(Peer(e))' = Daemon(f)'
    BY <1>3, <2>2
  <2> QED
    BY <1>3, <1>4, <2>1, <2>2, <2>3, <2>4
<1>6. m \in Models /\ d \in Daemons
  BY <1>5 DEF Above, Pipe
<1>7. \A h \in InSlaves : Daemon(Peer(h)) # d
  <2> SUFFICES ASSUME NEW h \in InSlaves, Daemon(Peer(h)) = d PROVE FALSE
    OBVIOUS
  <2>1. h \in InSlaves' /\ Daemon(Peer(h))' = d
    BY StepStays DEF InSlaves
  <2>2. h = e
    BY <1>5, <2>1 DEF Woods, OneParent
  <2> QED
    BY <2>2
<1>8. \A u \in Threads : IsDown(task[u], m) => At(u) # d
  <2> SUFFICES ASSUME NEW u \in Threads, IsDown(task[u], m), At(u) = d PROVE FALSE
    OBVIOUS
  <2>1. u \in Made /\ Peer(u) \in InSlaves
    BY <1>5 DEF FromAbove
  <2>2. Peer(Peer(u)) = u /\ At(u) = Daemon(u)
    BY <2>1, PeerEnds, Working DEF Made
  <2> QED
    BY <1>7, <2>1, <2>2
<1>9. f \in Made => At(f) = d /\ At(f)' = d
  <2>1. f \in Made => At(f) = Daemon(f) /\ Daemon(f)' = Daemon(f) /\ At(f)' = At(f)
    BY Working, AtStays, StepStays
  <2> QED
    BY <1>4, <2>1
<1>10. ~Mail(f, m)
  BY <1>5, <1>6 DEF MailFrom
<1>11. m \notin ToSet(log'[d])
  <2> SUFFICES ASSUME m \in ToSet(log'[d]) PROVE FALSE
    OBVIOUS
  <2>1. m \notin ToSet(log[d])
    BY <1>5, <1>7 DEF FromAbove, HasParent
  <2>2. PICK n \in Models : Reads(n, t, x, i, P)
    <3>1. log' = log \/ \E n \in Models : Reads(n, t, x, i, P)
      BY <1>1, LogGains
    <3> QED
      BY <2>1, <3>1
  <2>3. /\ log' = [log EXCEPT ![At(t)] = Append(@, n)] /\ IsDown(task[t], n) /\ At(t) \in Daemons
    BY <2>2 DEF Reads, IsDown
  <2>4. log \in [Daemons -> Seq(Models)] /\ log[d] \in Seq(Models)
    BY <1>6 DEF TypeOK
  <2>5. ToSet(Append(log[d], n)) = ToSet(log[d]) \cup {n}
    BY <2>4, SetAppend
  <2>6. (d # At(t) => log'[d] = log[d]) /\ (d = At(t) => log'[d] = Append(log[d], n))
    BY <1>6, <2>3, <2>4
  <2>7. d = At(t) /\ n = m
    BY <2>1, <2>5, <2>6
  <2> QED
    BY <1>2, <1>8, <2>3, <2>7
<1>12. ~IsDown(task'[f], m)
  <2> SUFFICES ASSUME IsDown(task'[f], m) PROVE FALSE
    OBVIOUS
  <2>1. f \in Threads
    BY <1>5 DEF Threads
  <2>2. ~IsDown(task[f], m)
    <3>1. IsDown(task[f], m) => task[f] # Idle
      BY DEF IsDown, Idle
    <3>2. IsDown(task[f], m) => f \in Made
      BY <1>5, <2>1, <3>1 DEF Links, Latent
    <3> QED
      BY <1>8, <1>9, <2>1, <3>2
  <2>3. f = t /\ IsDown(x, m)
    BY <1>2, <2>1, <2>2
  <2>4. Lands(m, t, x, i, c, P) \/ Falls(m, t, x, i, c, P)
    BY <1>1, <1>6, <2>2, <2>3, TurnsDown
  <2>5. CASE Falls(m, t, x, i, c, P)
    BY <1>10, <2>3, <2>5 DEF Falls, Mail
  <2>6. CASE Lands(m, t, x, i, c, P)
    <3>1. Source(m, t, i, c)
      BY <2>6 DEF Lands
    <3>2. At(t) \notin S /\ t \in Made \cup Requests
      BY <1>2, <3>1, SourceAbove
    <3>3. f \in Made
      BY <1>5, <2>3, <3>2, EndsOrRequests
    <3> QED
      BY <1>5, <1>9, <2>3, <3>2, <3>3
  <2> QED
    BY <2>4, <2>5, <2>6
<1>13. ~Mail(f, m)'
  <2> SUFFICES ASSUME TopologyOf(m) \in ToSet(inbox'[f]) PROVE FALSE
    BY DEF Mail
  <2>1. f = g /\ TopologyOf(m) \in P
    BY <1>1, <1>5, <1>10 DEF Effect, Mails, Mail
  <2>2. Forwards(m, t, x, i, g, P)
    BY <1>1, <1>6, <2>1, PutsTopology
  <2>3. PICK h \in Made : h \in ToSet(slaves[At(t)]) /\ Daemon(h) = At(t) /\ g = Peer(h)
    BY <2>2 DEF Forwards
  <2>4. h = e /\ h \in InSlaves
    BY <1>5, <2>1, <2>3, PeerEnds DEF Made, InSlaves
  <2> QED
    BY <2>4
<1>14. Got(f, m)'
  <2>1. Peer(e)' = f
    BY <1>3 DEF Peer
  <2> QED
    BY <2>1
<1> QED
  BY <1>4, <1>11, <1>12, <1>13, <1>14 DEF Got

(* The step of t does not change what was sent through e.                  *)
SendsSame(t, x, e, m) ==
    /\ At(t) = Daemon(e) => (SentBy(x, slaves[Daemon(e)], e, m) <=> SentBy(task[t], slaves[Daemon(e)], e, m))
    /\ t \in Made \cup Requests \/ ~IsDown(x, m)

LEMMA SentStays ==
    ASSUME TypeOK, TypeOK', Links, Links', Next, NEW e \in InSlaves, NEW m,
           NEW t, NEW x, NEW i, NEW c, NEW g, NEW P, Effect(t, x, i, c, g, P), SendsSame(t, x, e, m)
    PROVE  Sent(e, m)' <=> Sent(e, m)
<1>1. /\ t \in Threads /\ Threads' = Threads /\ \A u \in Threads : task'[u] = IF u = t THEN x ELSE task[u]
      /\ x \in Tasks /\ \A u \in Threads : task[u] \in Tasks
  BY TypeParts DEF Effect, Turns, EndsStay
<1>2. PICK d : d = Daemon(e)
  OBVIOUS
<1>3. Daemon(e)' = d /\ d \in Daemons /\ e \in InSlaves' /\ e \in ToSet(slaves[d]) /\ e \in Ends
  BY <1>2, StepStays DEF InSlaves, Made
<1>4. PICK s \in Seq(Ends), r \in Seq(Ends) : s = slaves[d] /\ r = slaves'[d]
  BY <1>3 DEF TypeOK
<1>5. Longer(s, r) /\ Len(s) \in Nat /\ Len(r) \in Nat /\ ToSet(s) = {s[j] : j \in 1 .. Len(s)}
  BY <1>3, <1>4, ArraysGrow, SetOf
<1>6. Single(r, e)
  BY <1>3, <1>4 DEF Links, Ours
<1>7. ASSUME NEW y \in Tasks PROVE SentBy(y, r, e, m) <=> SentBy(y, s, e, m)
  <2>1. y.pc = "send" => y.i \in Nat
    BY <1>7, TaskParts, ConstantsAssumption
  <2>2. SentBy(y, s, e, m) => SentBy(y, r, e, m)
    BY <1>5, <2>1, SentByLonger
  <2>3. ASSUME SentBy(y, r, e, m) PROVE SentBy(y, s, e, m)
    <3>1. CASE y.pc = "read"
      BY <2>3, <3>1 DEF SentBy
    <3>2. CASE y.pc = "send"
      <4>1. y.msg = TopologyOf(m) /\ \E j \in 1 .. y.i - 1 : j <= Len(r) /\ r[j] = e
        BY <2>3, <3>2 DEF SentBy
      <4>2. PICK j \in 1 .. y.i - 1 : j <= Len(r) /\ r[j] = e
        BY <4>1
      <4>3. PICK k \in 1 .. Len(s) : s[k] = e
        BY <1>3, <1>4, <1>5
      <4>4. r[k] = e /\ k \in 1 .. Len(r) /\ j \in 1 .. Len(r)
        BY <1>5, <2>1, <3>2, <4>2, <4>3 DEF Longer
      <4>5. j = k
        BY <1>6, <4>2, <4>4 DEF Single
      <4>6. j <= Len(s) /\ s[j] = e
        BY <1>5, <4>3, <4>5
      <4> QED
        BY <3>2, <4>1, <4>2, <4>6 DEF SentBy
    <3> QED
      BY <2>3, <3>1, <3>2 DEF SentBy
  <2> QED
    BY <2>2, <2>3
<1>8. \A y, q : SentBy(y, q, e, m) => IsDown(y, m)
  BY DEF SentBy, IsDown
<1>9. ASSUME NEW u \in Threads, IsDown(task[u], m) \/ IsDown(task'[u], m) PROVE At(u)' = At(u)
  <2>1. ASSUME IsDown(task[u], m) PROVE u \in Made \cup Requests
    <3>1. task[u] # Idle
      BY <2>1 DEF IsDown, Idle
    <3> QED
      BY <3>1, Working DEF TypeOK
  <2>2. u \in Made \cup Requests
    BY <1>1, <1>9, <2>1 DEF SendsSame
  <2> QED
    BY <2>2, AtStays
<1>10. At(t) = d => (SentBy(x, s, e, m) <=> SentBy(task[t], s, e, m))
  BY <1>2, <1>4 DEF SendsSame
<1>11. ASSUME NEW u \in Threads, At(u) = d, SentBy(task[u], s, e, m) PROVE Sent(e, m)'
  <2>1. At(u)' = d
    BY <1>8, <1>9, <1>11
  <2>2. SentBy(task'[u], s, e, m) /\ task'[u] \in Tasks
    BY <1>1, <1>10, <1>11
  <2>3. SentBy(task'[u], slaves'[Daemon(e)'], e, m) /\ At(u)' = Daemon(e)' /\ u \in Threads'
    BY <1>1, <1>3, <1>4, <1>7, <2>1, <2>2
  <2> QED
    BY <2>3 DEF Sent
<1>12. ASSUME NEW u \in Threads', At(u)' = d, SentBy(task'[u], r, e, m) PROVE Sent(e, m)
  <2>1. u \in Threads /\ At(u) = d
    BY <1>1, <1>8, <1>9, <1>12
  <2>2. SentBy(task'[u], s, e, m)
    BY <1>1, <1>7, <1>12
  <2>3. SentBy(task[u], s, e, m)
    BY <1>1, <1>10, <2>1, <2>2
  <2> QED
    BY <1>2, <1>4, <2>1, <2>3 DEF Sent
<1>13. Sent(e, m) => \E u \in Threads : At(u) = d /\ SentBy(task[u], s, e, m)
  BY <1>2, <1>4 DEF Sent
<1>14. Sent(e, m)' => \E u \in Threads' : At(u)' = d /\ SentBy(task'[u], r, e, m)
  BY <1>3, <1>4 DEF Sent
<1> QED
  BY <1>11, <1>12, <1>13, <1>14

LogSame(d, m, n) ==
    /\ m \in ToSet(log'[d]) <=> m \in ToSet(log[d])
    /\ Precedes(log'[d], m, n) <=> Precedes(log[d], m, n)

LEMMA LogOfOthers ==
    ASSUME TypeOK, NEW d \in Daemons, NEW m, NEW n, NEW t, NEW k \in Models, k # m, k # n,
           log' = log \/ log' = [log EXCEPT ![At(t)] = Append(@, k)]
    PROVE  LogSame(d, m, n)
<1>1. log \in [Daemons -> Seq(Models)] /\ log[d] \in Seq(Models)
  BY DEF TypeOK
<1>2. log'[d] = log[d] \/ log'[d] = Append(log[d], k)
  BY <1>1
<1>3. ToSet(Append(log[d], k)) = ToSet(log[d]) \cup {k}
  BY <1>1, SetAppend
<1>4. Precedes(Append(log[d], k), m, n) <=> Precedes(log[d], m, n)
  BY <1>1, PrecedesAppend
<1> QED
  BY <1>2, <1>3, <1>4 DEF LogSame

(* Nothing is sent through e that has to do with m or n.                   *)
LEMMA SentSame ==
    ASSUME TypeOK, TypeOK', Links, Links', Next, NEW e \in InSlaves, NEW m, NEW n,
           NEW t, NEW x, NEW i, NEW c, NEW g, NEW P, Effect(t, x, i, c, g, P),
           SendsSame(t, x, e, n), LogSame(Daemon(e), m, n)
    PROVE  SentAfter(e, m, n)' <=> SentAfter(e, m, n)
<1>1. Daemon(e)' = Daemon(e)
  BY StepStays DEF InSlaves
<1>2. Sent(e, n)' <=> Sent(e, n)
  BY SentStays
<1> QED
  BY <1>1, <1>2 DEF SentAfter, LogSame

(* Nothing is got at f that has to do with m or n.                         *)
HandSame(f, m) == IsDown(task'[f], m) <=> IsDown(task[f], m)
MailSame(f, m) == Mail(f, m)' <=> Mail(f, m)

LEMMA GotSame ==
    ASSUME TypeOK, Links, Next, NEW f \in Made, NEW m \in Models, NEW n \in Models,
           LogSame(Daemon(f), m, n), HandSame(f, m), HandSame(f, n), MailSame(f, m), MailSame(f, n),
           OneDown(m), OneDown(m)', OneDown(n), OneDown(n)'
    PROVE  (Got(f, m)' <=> Got(f, m)) /\ (GotAfter(f, m, n)' <=> GotAfter(f, m, n))
<1>1. Daemon(f)' = Daemon(f) /\ f \in Ends
  BY StepStays DEF Made
<1>2. PICK a, b : a = TopologyOf(m) /\ b = TopologyOf(n)
  OBVIOUS
<1>3. /\ Single(inbox[f], a) /\ Single(inbox[f], b) /\ Single(inbox'[f], a) /\ Single(inbox'[f], b)
      /\ (a \in ToSet(inbox[f]) <=> a \in ToSet(inbox'[f])) /\ (b \in ToSet(inbox[f]) <=> b \in ToSet(inbox'[f]))
  BY <1>1, <1>2 DEF OneDown, MailSame, Mail
<1>4. Precedes(inbox'[f], a, b) <=> Precedes(inbox[f], a, b)
  BY <1>1, <1>2, <1>3, QueueSame
<1>5. Precedes(inbox'[f], TopologyOf(m), TopologyOf(n)) <=> Precedes(inbox[f], TopologyOf(m), TopologyOf(n))
  BY <1>2, <1>4
<1>6. Got(f, m)' <=> Got(f, m)
  BY <1>1 DEF Got, LogSame, HandSame, MailSame
<1>7. GotAfter(f, m, n)' <=> GotAfter(f, m, n)
  BY <1>1, <1>5 DEF GotAfter, LogSame, HandSame, MailSame
<1> QED
  BY <1>6, <1>7

-----------------------------------------------------------------------------
(* What is got at the end of a connection has been passed on there.        *)
LEMMA PassedStays ==
    ASSUME TypeOK, TypeOK', Links, Next, NEW m \in Models, NEW t, NEW x, NEW i, NEW c, NEW g, NEW P,
           Effect(t, x, i, c, g, P), Kind(t, x, i, c, g, P), NEW e \in Made, Passed(e, m)
    PROVE  Passed(e, m)'
<1>1. ASSUME NEW n \in Models, Reads(n, t, x, i, P)
      PROVE  /\ \A d \in Daemons : m \in ToSet(log[d]) => m \in ToSet(log'[d])
             /\ n \in ToSet(log'[At(t)])
  <2>1. log \in [Daemons -> Seq(Models)] /\ log' = [log EXCEPT ![At(t)] = Append(@, n)] /\ At(t) \in Daemons
    BY <1>1 DEF Reads, TypeOK
  <2>2. \A d \in Daemons : log'[d] = IF d = At(t) THEN Append(log[d], n) ELSE log[d]
    BY <2>1
  <2>3. \A d \in Daemons : ToSet(Append(log[d], n)) = ToSet(log[d]) \cup {n}
    BY <2>1, SetAppend
  <2> QED
    BY <2>1, <2>2, <2>3
<1>2. \A d \in Daemons : m \in ToSet(log[d]) => m \in ToSet(log'[d])
  <2>1. log' = log \/ \E n \in Models : Reads(n, t, x, i, P)
    BY LogGains
  <2> QED
    BY <1>1, <2>1
<1>3. ASSUME NEW s, NEW f, SentBy(task[t], s, f, m) PROVE SentBy(x, s, f, m) \/ m \in ToSet(log'[At(t)])
  <2>1. IsDown(task[t], m)
    BY <1>3 DEF SentBy, IsDown
  <2>2. ~NoModel(t, x, i, c, P)
    BY <2>1 DEF NoModel, Plain
  <2>3. \A n \in Models : ~Climbs(n, t, x, i, c, g, P) /\ ~Lands(n, t, x, i, c, P)
    BY <2>1 DEF Climbs, Lands, Source
  <2>4. \A n \in Models : ~Falls(n, t, x, i, c, P)
    BY <2>1, OneInHand DEF Falls, Plain
  <2>5. ASSUME NEW n \in Models, Forwards(n, t, x, i, g, P) PROVE SentBy(x, s, f, m)
    <3>1. /\ task[t].pc = "send" /\ task[t].i \in 1 .. MaxConn + 1 /\ MaxConn \in Nat
          /\ x.pc = "send" /\ x.i = task[t].i + 1 /\ IsDown(x, n) /\ IsDown(task[t], n)
      BY <2>5, ConstantsAssumption DEF Forwards, Floods, IsDown
    <3>2. n = m
      BY <2>1, <3>1, OneInHand
    <3>3. x.msg = TopologyOf(m)
      BY <2>5, <3>2 DEF Forwards
    <3>4. PICK j \in 1 .. task[t].i - 1 : j <= Len(s) /\ s[j] = f
      BY <1>3, <3>1 DEF SentBy
    <3>5. j \in 1 .. x.i - 1
      BY <3>1, <3>4
    <3> QED
      BY <3>1, <3>3, <3>4, <3>5 DEF SentBy
  <2>6. ASSUME NEW n \in Models, Finishes(n, t, x, i, P) PROVE SentBy(x, s, f, m)
    <3>1. IsDown(task[t], n) /\ x.pc = "read" /\ x.model = n
      BY <2>6 DEF Finishes, Floods, IsDown
    <3> QED
      BY <2>1, <3>1, OneInHand DEF SentBy
  <2>7. ASSUME NEW n \in Models, Reads(n, t, x, i, P) PROVE m \in ToSet(log'[At(t)])
    <3>1. IsDown(task[t], n)
      BY <2>7 DEF Reads, IsDown
    <3> QED
      BY <1>1, <2>1, <2>7, <3>1, OneInHand
  <2> QED
    BY <2>2, <2>3, <2>4, <2>5, <2>6, <2>7 DEF Kind
<1> QED
  BY <1>2, <1>3, PassedOn

LEMMA SentOnward ==
    ASSUME TypeOK, Links, Next, NEW m \in Models, NEW t, NEW x, NEW i, NEW c, NEW g, NEW P,
           Effect(t, x, i, c, g, P), Forwards(m, t, x, i, g, P),
           NEW h \in InSlaves, h = slaves[At(t)][task[t].i], Daemon(h) = At(t)
    PROVE  Sent(h, m)' /\ Passed(h, m)'
<1>1. /\ t \in Threads /\ Threads' = Threads /\ \A u \in Threads : task'[u] = IF u = t THEN x ELSE task[u]
      /\ slaves' = slaves /\ At(t) \in Daemons /\ t \in Made \cup Requests
      /\ x.pc = "send" /\ x.msg = TopologyOf(m) /\ x.i = task[t].i + 1
  BY DEF Effect, Turns, EndsStay, Forwards, Floods, TypeOK
<1>2. Daemon(h)' = At(t) /\ At(t)' = At(t)
  BY <1>1, StepStays, AtStays DEF InSlaves
<1>3. task[t].i \in 1 .. Len(slaves[At(t)]) /\ task[t].i \in 1 .. MaxConn + 1 /\ MaxConn \in Nat
  BY ConstantsAssumption DEF Forwards, Floods
<1>4. slaves[At(t)] \in Seq(Ends)
  BY <1>1, TypeParts
<1>5. Len(slaves[At(t)]) \in Nat
  BY <1>4, SetOf
<1>6. task[t].i \in 1 .. x.i - 1 /\ task[t].i <= Len(slaves[At(t)])
  BY <1>1, <1>3, <1>5
<1>7. SentBy(x, slaves[At(t)], h, m)
  BY <1>1, <1>6 DEF SentBy
<1>8. SentBy(task'[t], slaves'[Daemon(h)'], h, m) /\ At(t)' = Daemon(h)' /\ t \in Threads'
  BY <1>1, <1>2, <1>7
<1> QED
  BY <1>8 DEF Sent, Passed

LEMMA GotPassedStep ==
    ASSUME TypeOK, TypeOK', Links, Woods, Next, NEW S, NEW e, Pipe(S, e),
           NEW m, Above(S, m), FromAbove(S, m), Got(Peer(e), m) => Passed(e, m), Got(Peer(e), m)'
    PROVE  Passed(e, m)'
<1>1. PICK t, x, i, c, g, P : Effect(t, x, i, c, g, P) /\ Kind(t, x, i, c, g, P)
  BY ModelSteps DEF ModelStep, Woods
<1>2. t \in Threads /\ Threads' = Threads /\ \A u \in Threads : task'[u] = IF u = t THEN x ELSE task[u]
  BY <1>1 DEF Effect, Turns, EndsStay
<1>3. PICK f : f = Peer(e)
  OBVIOUS
<1>4. PICK y : y = Daemon(f)
  OBVIOUS
<1>5. /\ e \in Made /\ f \in Made /\ f \in Ends /\ f \in Threads /\ Peer(f) = e
      /\ y \in Daemons /\ y \in S /\ At(f) = y
  BY <1>3, <1>4, PipeEnds
<1>6. m \in Models /\ Daemon(f)' = y /\ Peer(e)' = f /\ e \in InSlaves
  BY <1>3, <1>4, <1>5, StepStays DEF Above, Pipe, Peer
<1>7. Passed(e, m) => Passed(e, m)'
  BY <1>1, <1>5, <1>6, PassedStays
<1>8. ASSUME m \in ToSet(log'[y]) PROVE Got(f, m)
  <2>1. CASE m \in ToSet(log[y])
    BY <1>4, <2>1 DEF Got
  <2>2. CASE m \notin ToSet(log[y])
    <3>1. PICK n \in Models : Reads(n, t, x, i, P)
      <4>1. log' = log \/ \E n \in Models : Reads(n, t, x, i, P)
        BY <1>1, LogGains
      <4> QED
        BY <1>8, <2>2, <4>1
    <3>2. /\ log' = [log EXCEPT ![At(t)] = Append(@, n)] /\ IsDown(task[t], n) /\ At(t) \in Daemons
      BY <3>1 DEF Reads, IsDown
    <3>3. log \in [Daemons -> Seq(Models)] /\ log[y] \in Seq(Models)
      BY <1>5 DEF TypeOK
    <3>4. ToSet(Append(log[y], n)) = ToSet(log[y]) \cup {n}
      BY <3>3, SetAppend
    <3>5. (y # At(t) => log'[y] = log[y]) /\ (y = At(t) => log'[y] = Append(log[y], n))
      BY <1>5, <3>2, <3>3
    <3>6. y = At(t) /\ n = m
      BY <1>8, <2>2, <3>4, <3>5
    <3>7. IsDown(task[t], m) /\ At(t) \in S /\ Daemon(Peer(e)) = At(t)
      BY <1>3, <1>4, <1>5, <3>2, <3>6
    <3>8. t = f
      BY <1>2, <1>3, <1>6, <3>7, OnePipe
    <3> QED
      BY <3>7, <3>8 DEF Got
  <2> QED
    BY <2>1, <2>2
<1>9. ASSUME IsDown(task'[f], m) PROVE Got(f, m)
  <2>1. CASE IsDown(task[f], m)
    BY <2>1 DEF Got
  <2>2. CASE ~IsDown(task[f], m)
    <3>1. f = t /\ IsDown(x, m)
      BY <1>2, <1>5, <1>9, <2>2
    <3>2. Lands(m, t, x, i, c, P) \/ Falls(m, t, x, i, c, P)
      BY <1>1, <1>6, <2>2, <3>1, TurnsDown
    <3>3. ~Lands(m, t, x, i, c, P)
      <4>1. Source(m, t, i, c) => At(t) \notin S
        BY <1>2, SourceAbove
      <4> QED
        BY <1>5, <3>1, <4>1 DEF Lands
    <3> QED
      BY <3>1, <3>2, <3>3 DEF Falls, Got, Mail
  <2> QED
    BY <2>1, <2>2
<1>10. ASSUME Mail(f, m)' PROVE Got(f, m) \/ Passed(e, m)'
  <2>1. Mail(f, m) \/ (f = g /\ TopologyOf(m) \in P)
    BY <1>1, <1>5, <1>10 DEF Effect, Mails, Mail
  <2>2. ASSUME f = g, TopologyOf(m) \in P PROVE Passed(e, m)'
    <3>1. Forwards(m, t, x, i, g, P)
      BY <1>1, <1>6, <2>2, PutsTopology
    <3>2. PICK h \in Made : h = slaves[At(t)][task[t].i] /\ Daemon(h) = At(t) /\ g = Peer(h)
      BY <3>1 DEF Forwards
    <3>3. h = e
      BY <1>5, <2>2, <3>2, PeerEnds DEF Made
    <3> QED
      BY <1>1, <1>6, <3>1, <3>2, <3>3, SentOnward
  <2> QED
    BY <2>1, <2>2 DEF Got
<1>11. Got(f, m)' => m \in ToSet(log'[y]) \/ IsDown(task'[f], m) \/ Mail(f, m)'
  BY <1>6 DEF Got
<1>12. Got(f, m)'
  BY <1>6
<1>13. Got(f, m) \/ Passed(e, m)'
  BY <1>8, <1>9, <1>10, <1>11, <1>12
<1> QED
  BY <1>3, <1>7, <1>13

-----------------------------------------------------------------------------
(* The two ends of a connection agree on what comes after what.            *)
Pair(S, e, m, n) ==
    /\ Pipe(S, e) /\ m # n
    /\ Above(S, m) /\ FromAbove(S, m) /\ OneDown(m) /\ Tree(m)
    /\ Above(S, n) /\ FromAbove(S, n) /\ OneDown(n) /\ Tree(n)

(* What a step with another model than k does about k: nothing.            *)
Aside(t, x, i, c, P, k) ==
    ~IsDown(x, k) /\ ~IsDown(task[t], k) /\ TopologyOf(k) \notin P /\ (i \in Ends => c # TopologyOf(k))

LEMMA MailKept ==
    ASSUME NEW t, NEW x, NEW i, NEW c, NEW g, NEW P, Effect(t, x, i, c, g, P), NEW f \in Ends, NEW k,
           f = i => c # TopologyOf(k), f = g => TopologyOf(k) \notin P
    PROVE  MailSame(f, k)
BY DEF Effect, Mails, MailSame, Mail

LEMMA HandKept ==
    ASSUME NEW t, NEW x, NEW i, NEW c, NEW g, NEW P, Effect(t, x, i, c, g, P), NEW f \in Threads, NEW k,
           f = t => (IsDown(x, k) <=> IsDown(task[t], k))
    PROVE  HandSame(f, k)
BY DEF Effect, Turns, HandSame

LEMMA AsideKept ==
    ASSUME NEW t, NEW x, NEW i, NEW c, NEW g, NEW P, Effect(t, x, i, c, g, P), NEW k, Aside(t, x, i, c, P, k)
    PROVE  /\ \A f \in Ends : HandSame(f, k) /\ MailSame(f, k)
           /\ \A e : SendsSame(t, x, e, k)
<1>1. \A f \in Ends : MailSame(f, k)
  BY MailKept DEF Aside
<1>2. \A f \in Ends : f \in Threads
  BY DEF Threads
<1>3. \A f \in Ends : HandSame(f, k)
  BY <1>2, HandKept DEF Aside
<1>4. \A y, s, e : SentBy(y, s, e, k) => IsDown(y, k)
  BY DEF SentBy, IsDown
<1>5. \A e : SendsSame(t, x, e, k)
  BY <1>4 DEF SendsSame, Aside
<1> QED
  BY <1>1, <1>3, <1>5

LEMMA LogKept ==
    ASSUME log' = log
    PROVE  \A d, m, n : LogSame(d, m, n)
BY DEF LogSame

LEMMA GotKept ==
    ASSUME TypeOK, Links, Woods, Next, NEW S, NEW e, NEW m, NEW n, Pair(S, e, m, n), Pair(S, e, m, n)',
           NEW f, f = Peer(e), LogSame(Daemon(f), m, n),
           HandSame(f, m), HandSame(f, n), MailSame(f, m), MailSame(f, n)
    PROVE  (Got(f, m)' <=> Got(f, m)) /\ (GotAfter(f, m, n)' <=> GotAfter(f, m, n))
<1>1. f \in Made
  BY PipeEnds DEF Pair
<1>2. m \in Models /\ n \in Models /\ OneDown(m) /\ OneDown(m)' /\ OneDown(n) /\ OneDown(n)'
  BY DEF Pair, Above
<1> QED
  BY <1>1, <1>2, GotSame

LEMMA SentKept ==
    ASSUME TypeOK, TypeOK', Links, Links', Next, NEW S, NEW e, NEW m, NEW n, Pair(S, e, m, n),
           NEW t, NEW x, NEW i, NEW c, NEW g, NEW P, Effect(t, x, i, c, g, P),
           SendsSame(t, x, e, n), LogSame(Daemon(e), m, n)
    PROVE  SentAfter(e, m, n)' <=> SentAfter(e, m, n)
<1>1. e \in InSlaves
  BY DEF Pair, Pipe
<1> QED
  BY <1>1, SentSame

LEMMA FitsFrom ==
    ASSUME NEW e, NEW f, f = Peer(e), NEW m, NEW n, Fits(e, m, n),
           Got(f, m)' <=> Got(f, m), GotAfter(f, m, n)' <=> GotAfter(f, m, n),
           SentAfter(e, m, n)' <=> SentAfter(e, m, n)
    PROVE  Fits(e, m, n)'
<1>1. Peer(e)' = f
  BY DEF Peer
<1> QED
  BY <1>1 DEF Fits

(* A step that has no model in hand, or one on its way up.                 *)
LEMMA FitsAside ==
    ASSUME TypeOK, TypeOK', Links, Links', Woods, Next, NEW S, NEW e, NEW m, NEW n,
           Pair(S, e, m, n), Pair(S, e, m, n)', Fits(e, m, n),
           NEW t, NEW x, NEW i, NEW c, NEW g, NEW P, Effect(t, x, i, c, g, P),
           Aside(t, x, i, c, P, m), Aside(t, x, i, c, P, n),
           LogSame(Daemon(e), m, n), LogSame(Daemon(Peer(e)), m, n)
    PROVE  Fits(e, m, n)'
<1>1. PICK f \in Ends : f = Peer(e)
  BY PipeEnds DEF Pair
<1>2. HandSame(f, m) /\ HandSame(f, n) /\ MailSame(f, m) /\ MailSame(f, n) /\ SendsSame(t, x, e, n)
  BY AsideKept
<1>3. (Got(f, m)' <=> Got(f, m)) /\ (GotAfter(f, m, n)' <=> GotAfter(f, m, n))
  BY <1>1, <1>2, GotKept
<1>4. SentAfter(e, m, n)' <=> SentAfter(e, m, n)
  BY <1>2, SentKept
<1> QED
  BY <1>1, <1>3, <1>4, FitsFrom

LEMMA SourceAside ==
    ASSUME NEW k \in Models, NEW t, NEW i, NEW c, Source(k, t, i, c)
    PROVE  \A m \in Models : ~IsDown(task[t], m) /\ (i \in Ends => c # TopologyOf(m))
BY ModelCommands, ConstantsAssumption DEF Source

LEMMA FitsClimbs ==
    ASSUME TypeOK, TypeOK', Links, Links', Woods, Next, NEW S, NEW e, NEW m, NEW n,
           Pair(S, e, m, n), Pair(S, e, m, n)', Fits(e, m, n),
           NEW t, NEW x, NEW i, NEW c, NEW g, NEW P, Effect(t, x, i, c, g, P),
           NoModel(t, x, i, c, P) \/ \E k \in Models : Climbs(k, t, x, i, c, g, P)
    PROVE  Fits(e, m, n)'
<1>1. m \in Models /\ n \in Models
  BY DEF Pair, Above
<1>2. ASSUME NEW j \in Models PROVE Aside(t, x, i, c, P, j) /\ log' = log
  <2>1. CASE NoModel(t, x, i, c, P)
    BY <2>1 DEF NoModel, Plain, PlainCmd, Aside
  <2>2. ASSUME NEW k \in Models, Climbs(k, t, x, i, c, g, P) PROVE Aside(t, x, i, c, P, j) /\ log' = log
    <3>1. ~IsDown(task[t], j) /\ (i \in Ends => c # TopologyOf(j))
      BY <2>2, SourceAside DEF Climbs
    <3>2. TopologyOf(j) \notin P
      BY <2>2, ModelCommands DEF Climbs, PlainCmd
    <3> QED
      BY <2>2, <3>1, <3>2 DEF Climbs, Aside
  <2> QED
    BY <2>1, <2>2
<1>3. \A d : LogSame(d, m, n)
  BY <1>1, <1>2, LogKept
<1> QED
  BY <1>1, <1>2, <1>3, FitsAside

(* A model that comes to the root of S, or of what is above it.            *)
LEMMA FitsLands ==
    ASSUME TypeOK, TypeOK', Links, Links', Woods, Next, NEW S, NEW e, NEW m, NEW n,
           Pair(S, e, m, n), Pair(S, e, m, n)', Fits(e, m, n),
           NEW t, NEW x, NEW i, NEW c, NEW g, NEW P, Effect(t, x, i, c, g, P),
           NEW k \in Models, Lands(k, t, x, i, c, P)
    PROVE  Fits(e, m, n)'
<1>1. PICK f \in Ends : f = Peer(e)
  BY PipeEnds DEF Pair
<1>2. f \in Threads /\ At(f) \in S /\ Daemon(e) \in S
  BY <1>1, PipeEnds DEF Pair, Pipe
<1>3. t \in Threads /\ Source(k, t, i, c) /\ log' = log /\ P = {} /\ x = SetTopology(At(t), k)
  BY DEF Lands, Effect, Turns
<1>4. ASSUME NEW j, Above(S, j), FromAbove(S, j)
      PROVE  HandSame(f, j) /\ MailSame(f, j) /\ SendsSame(t, x, e, j)
  <2>1. j \in Models /\ ~IsDown(task[t], j) /\ (i \in Ends => c # TopologyOf(j))
    BY <1>3, <1>4, SourceAside DEF Above
  <2>2. MailSame(f, j)
    BY <1>3, <2>1, MailKept
  <2>3. CASE j # k
    <3>1. ~IsDown(x, j)
      BY <1>3, <2>3, SetTopologyOnly
    <3>2. Aside(t, x, i, c, P, j)
      BY <1>3, <2>1, <3>1 DEF Aside
    <3> QED
      BY <3>2, AsideKept
  <2>4. CASE j = k
    <3>1. At(t) \notin S /\ t \in Made \cup Requests
      BY <1>3, <1>4, <2>4, SourceAbove
    <3>2. HandSame(f, j)
      BY <1>2, <3>1, HandKept
    <3>3. SendsSame(t, x, e, j)
      BY <1>2, <3>1 DEF SendsSame
    <3> QED
      BY <2>2, <3>2, <3>3
  <2> QED
    BY <2>3, <2>4
<1>5. HandSame(f, m) /\ HandSame(f, n) /\ MailSame(f, m) /\ MailSame(f, n) /\ SendsSame(t, x, e, n)
  BY <1>4 DEF Pair
<1>6. \A d : LogSame(d, m, n)
  BY <1>3, LogKept
<1>7. (Got(f, m)' <=> Got(f, m)) /\ (GotAfter(f, m, n)' <=> GotAfter(f, m, n))
  BY <1>1, <1>5, <1>6, GotKept
<1>8. SentAfter(e, m, n)' <=> SentAfter(e, m, n)
  BY <1>5, <1>6, SentKept
<1> QED
  BY <1>1, <1>7, <1>8, FitsFrom

(* A thread that has sent its model to all slaves.                         *)
LEMMA FitsFinishes ==
    ASSUME TypeOK, TypeOK', Links, Links', Woods, Next, NEW S, NEW e, NEW m, NEW n,
           Pair(S, e, m, n), Pair(S, e, m, n)', Fits(e, m, n),
           NEW t, NEW x, NEW i, NEW c, NEW g, NEW P, Effect(t, x, i, c, g, P),
           NEW k \in Models, Finishes(k, t, x, i, P)
    PROVE  Fits(e, m, n)'
<1>1. PICK f \in Ends : f = Peer(e)
  BY PipeEnds DEF Pair
<1>2. f \in Threads /\ e \in InSlaves
  BY <1>1, PipeEnds DEF Pair, Pipe
<1>3. /\ log' = log /\ P = {} /\ i \notin Ends /\ t \in Made \cup Requests /\ At(t) \in Daemons
      /\ IsDown(x, k) /\ IsDown(task[t], k) /\ x.pc = "read" /\ x.model = k
      /\ task[t].pc = "send" /\ task[t].msg = TopologyOf(k) /\ task[t].i > Len(slaves[At(t)])
      /\ task[t].i \in 1 .. MaxConn + 1 /\ MaxConn \in Nat
  BY ConstantsAssumption DEF Finishes, Floods, IsDown, TypeOK
<1>4. ASSUME NEW j
      PROVE  HandSame(f, j) /\ MailSame(f, j) /\ SendsSame(t, x, e, j)
  <2>1. MailSame(f, j)
    BY <1>3, MailKept
  <2>2. CASE j # k
    <3>1. Aside(t, x, i, c, P, j)
      BY <1>3, <2>2, OneInHand DEF Aside
    <3> QED
      BY <3>1, AsideKept
  <2>3. CASE j = k
    <3>1. HandSame(f, j)
      BY <1>2, <1>3, <2>3, HandKept
    <3>2. ASSUME At(t) = Daemon(e) PROVE SentBy(task[t], slaves[Daemon(e)], e, k)
      <4>1. slaves[At(t)] \in Seq(Ends) /\ e \in ToSet(slaves[At(t)])
        BY <1>2, <1>3, <3>2, TypeParts DEF InSlaves
      <4>2. Len(slaves[At(t)]) \in Nat /\ \E q \in 1 .. Len(slaves[At(t)]) : slaves[At(t)][q] = e
        BY <4>1, SetOf
      <4>3. PICK q \in 1 .. Len(slaves[At(t)]) : slaves[At(t)][q] = e
        BY <4>2
      <4>4. q \in 1 .. task[t].i - 1 /\ q <= Len(slaves[At(t)])
        BY <1>3, <4>2
      <4> QED
        BY <1>3, <3>2, <4>3, <4>4 DEF SentBy
    <3>3. SentBy(x, slaves[Daemon(e)], e, k)
      BY <1>3 DEF SentBy
    <3>4. SendsSame(t, x, e, j)
      BY <1>3, <2>3, <3>2, <3>3 DEF SendsSame
    <3> QED
      BY <2>1, <3>1, <3>4
  <2> QED
    BY <2>2, <2>3
<1>5. HandSame(f, m) /\ HandSame(f, n) /\ MailSame(f, m) /\ MailSame(f, n) /\ SendsSame(t, x, e, n)
  BY <1>4
<1>6. \A d : LogSame(d, m, n)
  BY <1>3, LogKept
<1>7. (Got(f, m)' <=> Got(f, m)) /\ (GotAfter(f, m, n)' <=> GotAfter(f, m, n))
  BY <1>1, <1>5, <1>6, GotKept
<1>8. SentAfter(e, m, n)' <=> SentAfter(e, m, n)
  BY <1>5, <1>6, SentKept
<1> QED
  BY <1>1, <1>7, <1>8, FitsFrom

(* A model that is taken: at another end, or at f.                         *)
LEMMA TakesAt ==
    ASSUME TypeOK, Links, NEW f \in Ends, NEW k \in Models, OneDown(k),
           inbox[f] # <<>>, Head(inbox[f]) = TopologyOf(k), inbox' = Taken(f), log' = log
    PROVE  /\ inbox'[f] = Tail(inbox[f]) /\ Mail(f, k) /\ ~Mail(f, k)' /\ k \notin ToSet(log[Daemon(f)])
           /\ \A j \in Models : j # k => MailSame(f, j)
<1>1. f \in Made /\ At(f) = Daemon(f) /\ f \in Threads
  BY Working DEF Threads
<1>2. inbox[f] \in Seq(Commands) /\ inbox \in [Ends -> Seq(Commands)]
  BY DEF TypeOK
<1>3. inbox'[f] = Tail(inbox[f])
  BY <1>2, TakeStep
<1>4. ToSet(inbox[f]) = ToSet(Tail(inbox[f])) \cup {TopologyOf(k)}
  BY <1>2, SetTail
<1>5. TopologyOf(k) \notin ToSet(Tail(inbox[f]))
  BY <1>2, SingleTail DEF OneDown
<1>6. "mail" \in Below /\ Down("mail", f, k)
  BY <1>4 DEF Below, Down
<1>7. k \notin ToSet(log[Daemon(f)])
  BY <1>1, <1>6 DEF OneDown
<1> QED
  BY <1>3, <1>4, <1>5, <1>7, ModelCommands DEF Mail, MailSame

LEMMA NotYetSent ==
    ASSUME NEW d, NEW k, NEW x, x = SetTopology(d, k)
    PROVE  \A s, h, j : ~SentBy(x, s, h, j)
<1>1. PICK c, y : c = TopologyOf(k) /\ y = [pc |-> "read", model |-> k]
  OBVIOUS
<1>2. x = [pc |-> "send", to |-> "slaves", i |-> 1, msg |-> c, next |-> y]
  BY <1>1 DEF SetTopology, Broadcast, TopologyOf
<1>3. x.pc = "send" /\ x.i = 1
  BY <1>2
<1> QED
  BY <1>3 DEF SentBy

LEMMA FitsFalls ==
    ASSUME TypeOK, TypeOK', Links, Links', Woods, Next, NEW S, NEW e, NEW m, NEW n,
           Pair(S, e, m, n), Pair(S, e, m, n)', Fits(e, m, n),
           NEW t, NEW x, NEW i, NEW c, NEW g, NEW P, Effect(t, x, i, c, g, P),
           NEW k \in Models, Falls(k, t, x, i, c, P)
    PROVE  Fits(e, m, n)'
<1>1. PICK f \in Ends : f = Peer(e)
  BY PipeEnds DEF Pair
<1>2. PICK y \in Daemons : y = Daemon(f)
  BY <1>1, PipeEnds DEF Pair
<1>3. f \in Threads /\ f \in Made /\ Daemon(f)' = y
  BY <1>1, <1>2, PipeEnds, StepStays DEF Pair
<1>4. /\ log' = log /\ P = {} /\ i = t /\ t \in Made /\ x = SetTopology(At(t), k) /\ c = TopologyOf(k)
      /\ task[t] = Idle /\ \A j : ~IsDown(task[t], j)
  BY DEF Falls, IsDown, Idle
<1>5. IsDown(x, k) /\ (\A j : IsDown(x, j) => j = k) /\ \A s, h, j : ~SentBy(x, s, h, j) /\ ~SentBy(task[t], s, h, j)
  <2>1. x = SetTopology(At(t), k)
    BY <1>4
  <2>2. IsDown(x, k)
    BY <2>1, SetTopologyParts
  <2>3. \A j : IsDown(x, j) => j = k
    BY <2>1, SetTopologyOnly
  <2>4. \A s, h, j : ~SentBy(x, s, h, j)
    BY <2>1, NotYetSent
  <2>5. \A s, h, j : ~SentBy(task[t], s, h, j)
    BY <1>4 DEF SentBy, Idle
  <2> QED
    BY <2>2, <2>3, <2>4, <2>5
<1>6. \A d : LogSame(d, m, n)
  BY <1>4, LogKept
<1>7. SentAfter(e, m, n)' <=> SentAfter(e, m, n)
  <2>1. SendsSame(t, x, e, n)
    BY <1>4, <1>5 DEF SendsSame
  <2> QED
    BY <1>6, <2>1, SentKept
<1>8. ASSUME NEW j \in Models, j # k \/ t # f PROVE HandSame(f, j) /\ MailSame(f, j)
  <2>1. MailSame(f, j)
    BY <1>4, <1>8, ModelCommands, MailKept
  <2>2. HandSame(f, j)
    BY <1>3, <1>4, <1>5, <1>8, HandKept
  <2> QED
    BY <2>1, <2>2
<1>9. m \in Models /\ n \in Models /\ OneDown(m) /\ OneDown(n) /\ m # n
  BY DEF Pair, Above
<1>10. CASE t # f \/ k \notin {m, n}
  <2>1. HandSame(f, m) /\ HandSame(f, n) /\ MailSame(f, m) /\ MailSame(f, n)
    BY <1>8, <1>9, <1>10
  <2>2. (Got(f, m)' <=> Got(f, m)) /\ (GotAfter(f, m, n)' <=> GotAfter(f, m, n))
    BY <1>1, <1>6, <2>1, GotKept
  <2> QED
    BY <1>1, <1>7, <2>2, FitsFrom
<1>11. ASSUME t = f
       PROVE  /\ inbox[f] # <<>> /\ Head(inbox[f]) = TopologyOf(k) /\ inbox'[f] = Tail(inbox[f])
              /\ (OneDown(k) => Mail(f, k) /\ ~Mail(f, k)' /\ k \notin ToSet(log[y]))
              /\ task'[f] = x /\ inbox[f] \in Seq(Commands)
  <2>1. inbox[f] # <<>> /\ Head(inbox[f]) = TopologyOf(k) /\ inbox' = Taken(f) /\ inbox[f] \in Seq(Commands)
    BY <1>11, TypeParts DEF Falls
  <2>2. inbox'[f] = Tail(inbox[f])
    BY <2>1, TakeStep DEF TypeOK
  <2>3. OneDown(k) => Mail(f, k) /\ ~Mail(f, k)' /\ k \notin ToSet(log[y])
    BY <1>2, <1>4, <2>1, TakesAt
  <2>4. task'[f] = x
    BY <1>3, <1>11 DEF Effect, Turns
  <2> QED
    BY <2>1, <2>2, <2>3, <2>4
<1>12. PICK s, a, b : s \in Seq(Commands) /\ s = inbox[f] /\ a = TopologyOf(m) /\ b = TopologyOf(n)
  BY TypeParts
<1>13. Single(s, a) /\ Single(s, b) /\ a # b
  BY <1>9, <1>12, ModelCommands DEF OneDown
<1>14. log[y] \in Seq(Models) /\ (\A p, q : Precedes(log[y], p, q) => p \in ToSet(log[y]) /\ q \in ToSet(log[y]))
  <2>1. log[y] \in Seq(Models)
    BY TypeParts
  <2> QED
    BY <2>1, PrecedesIn
<1>15. \A p, q : Precedes(s, p, q) => p \in ToSet(s) /\ q \in ToSet(s)
  BY <1>12, PrecedesIn
<1>16. ASSUME t = f, k = m PROVE Fits(e, m, n)'
  <2>1. PICK r \in Seq(Commands) : r = Tail(s)
    BY <1>11, <1>12, <1>16, SetTail
  <2>2. s # <<>> /\ Head(s) = a /\ inbox'[f] = r
    BY <1>11, <1>12, <1>16, <2>1
  <2>3. Precedes(s, a, b) <=> b \in ToSet(r)
    BY <1>12, <1>13, <2>1, <2>2, PrecedesTail
  <2>4. \A p, q : Precedes(r, p, q) => p \in ToSet(r) /\ q \in ToSet(r)
    BY PrecedesIn
  <2>5. Mail(f, m) /\ ~Mail(f, m)' /\ m \notin ToSet(log[y]) /\ IsDown(task'[f], m)
    BY <1>5, <1>9, <1>11, <1>16
  <2>6. GotAfter(f, m, n) <=> b \in ToSet(r)
    <3>1. ~IsDown(task[f], m)
      BY <1>4, <1>16
    <3> QED
      BY <1>2, <1>12, <1>14, <2>3, <2>5, <3>1 DEF GotAfter
  <2>7. GotAfter(f, m, n)' <=> b \in ToSet(r)
    <3>1. Mail(f, n)' <=> b \in ToSet(r)
      BY <1>12, <2>2 DEF Mail
    <3>2. Precedes(inbox'[f], TopologyOf(m), TopologyOf(n)) => b \in ToSet(r)
      BY <1>12, <2>2, <2>4
    <3>3. log'[Daemon(f)'] = log[y]
      BY <1>3, <1>4
    <3> QED
      BY <1>14, <2>5, <3>1, <3>2, <3>3 DEF GotAfter
  <2>8. Got(f, m) /\ Got(f, m)'
    BY <2>5 DEF Got
  <2> QED
    BY <1>1, <1>7, <2>6, <2>7, <2>8, FitsFrom
<1>17. ASSUME t = f, k = n PROVE Fits(e, m, n)'
  <2>1. PICK r \in Seq(Commands) : r = Tail(s)
    BY <1>11, <1>12, <1>17, SetTail
  <2>2. s # <<>> /\ Head(s) = b /\ inbox'[f] = r
    BY <1>11, <1>12, <1>17, <2>1
  <2>3. ~Precedes(s, a, b)
    BY <1>12, <1>13, <2>2, PrecedesTail
  <2>4. \A p, q : Precedes(r, p, q) => p \in ToSet(r) /\ q \in ToSet(r)
    BY PrecedesIn
  <2>5. Mail(f, n) /\ ~Mail(f, n)' /\ n \notin ToSet(log[y]) /\ IsDown(task'[f], n)
    BY <1>5, <1>9, <1>11, <1>17
  <2>6. GotAfter(f, m, n) <=> m \in ToSet(log[y])
    <3>1. ~IsDown(task[f], m)
      BY <1>4, <1>17
    <3> QED
      BY <1>2, <1>12, <1>14, <2>3, <2>5, <3>1 DEF GotAfter
  <2>7. GotAfter(f, m, n)' <=> m \in ToSet(log[y])
    <3>1. ~IsDown(task'[f], m)
      BY <1>5, <1>9, <1>11, <1>17
    <3>2. ~Precedes(inbox'[f], TopologyOf(m), TopologyOf(n))
      <4>1. b \notin ToSet(r)
        BY <1>12, <2>2, <2>5 DEF Mail
      <4> QED
        BY <1>12, <2>2, <2>4, <4>1
    <3>3. log'[Daemon(f)'] = log[y]
      BY <1>3, <1>4
    <3> QED
      BY <1>14, <2>5, <3>1, <3>2, <3>3 DEF GotAfter
  <2>8. Got(f, m)' <=> Got(f, m)
    <3>1. HandSame(f, m) /\ MailSame(f, m)
      BY <1>8, <1>9, <1>17
    <3>2. log'[Daemon(f)'] = log[Daemon(f)]
      BY <1>2, <1>3, <1>4
    <3> QED
      BY <3>1, <3>2 DEF Got, HandSame, MailSame
  <2> QED
    BY <1>1, <1>7, <2>6, <2>7, <2>8, FitsFrom
<1> QED
  BY <1>10, <1>16, <1>17

(* A model that is sent to a slave: to another one, or through e.          *)
LEMMA FitsForwards ==
    ASSUME TypeOK, TypeOK', Links, Links', Woods, Next, NEW S, NEW e, NEW m, NEW n,
           Pair(S, e, m, n), Pair(S, e, m, n)', Fits(e, m, n), Got(Peer(e), m) => Passed(e, m),
           NEW t, NEW x, NEW i, NEW c, NEW g, NEW P, Effect(t, x, i, c, g, P),
           NEW k \in Models, Forwards(k, t, x, i, g, P)
    PROVE  Fits(e, m, n)'
<1>1. PICK f \in Ends : f = Peer(e)
  BY PipeEnds DEF Pair
<1>2. PICK y \in Daemons, d \in Daemons : y = Daemon(f) /\ d = Daemon(e)
  BY <1>1, PipeEnds DEF Pair
<1>3. /\ f \in Threads /\ f \in Made /\ Daemon(f)' = y /\ Peer(f) = e /\ At(f) = y
      /\ e \in InSlaves /\ Daemon(e)' = d /\ d \in S /\ d # y
  BY <1>1, <1>2, PipeEnds, StepStays DEF Pair, Pipe
<1>4. /\ log' = log /\ P = {TopologyOf(k)} /\ i \notin Ends /\ t \in Made \cup Requests /\ At(t) \in Daemons
      /\ t \in Threads /\ IsDown(x, k) /\ IsDown(task[t], k)
      /\ task[t].pc = "send" /\ task[t].msg = TopologyOf(k) /\ x.pc = "send" /\ x.msg = TopologyOf(k)
      /\ x.i = task[t].i + 1 /\ task[t].i \in 1 .. Len(slaves[At(t)])
      /\ task[t].i \in 1 .. MaxConn + 1 /\ MaxConn \in Nat
  BY ConstantsAssumption DEF Forwards, Floods, IsDown, TypeOK, Effect, Turns
<1>5. PICK h \in Made : /\ h = slaves[At(t)][task[t].i] /\ h \in ToSet(slaves[At(t)]) /\ Daemon(h) = At(t)
                        /\ g = Peer(h) /\ inbox' = Put(inbox, h, TopologyOf(k))
  BY DEF Forwards
<1>6. h \in InSlaves /\ (f = g <=> h = e) /\ h \in Ends
  BY <1>1, <1>3, <1>5, PeerEnds DEF Made, InSlaves
<1>7. \A p : LogSame(p, m, n)
  BY <1>4, LogKept
<1>8. ASSUME NEW j \in Models, j # k \/ h # e PROVE HandSame(f, j) /\ MailSame(f, j) /\ SendsSame(t, x, e, j)
  <2>1. CASE j # k
    <3>1. Aside(t, x, i, c, P, j)
      BY <1>4, <2>1, OneInHand, ModelCommands DEF Aside
    <3> QED
      BY <3>1, AsideKept
  <2>2. CASE j = k /\ h # e
    <3>1. MailSame(f, j)
      BY <1>4, <1>6, <2>2, MailKept
    <3>2. HandSame(f, j)
      BY <1>3, <1>4, <2>2, HandKept
    <3>3. ASSUME At(t) = d PROVE SentBy(x, slaves[d], e, k) <=> SentBy(task[t], slaves[d], e, k)
      <4>1. (\E q \in 1 .. x.i - 1 : q <= Len(slaves[d]) /\ slaves[d][q] = e)
            <=> \E q \in 1 .. task[t].i - 1 : q <= Len(slaves[d]) /\ slaves[d][q] = e
        <5>1. \A q : q \in 1 .. x.i - 1 <=> q \in 1 .. task[t].i - 1 \/ q = task[t].i
          BY <1>4
        <5>2. slaves[d][task[t].i] # e
          BY <1>5, <2>2, <3>3
        <5> QED
          BY <5>1, <5>2
      <4> QED
        BY <1>4, <4>1 DEF SentBy
    <3>4. SendsSame(t, x, e, j)
      BY <1>2, <1>4, <2>2, <3>3 DEF SendsSame
    <3> QED
      BY <3>1, <3>2, <3>4
  <2> QED
    BY <1>8, <2>1, <2>2
<1>9. m \in Models /\ n \in Models /\ OneDown(m) /\ Tree(m) /\ OneDown(n) /\ Tree(n) /\ m # n
  BY DEF Pair, Above
<1>10. CASE h # e \/ k \notin {m, n}
  <2>1. HandSame(f, m) /\ HandSame(f, n) /\ MailSame(f, m) /\ MailSame(f, n) /\ SendsSame(t, x, e, n)
    BY <1>8, <1>9, <1>10
  <2>2. (Got(f, m)' <=> Got(f, m)) /\ (GotAfter(f, m, n)' <=> GotAfter(f, m, n))
    BY <1>1, <1>7, <2>1, GotKept
  <2>3. SentAfter(e, m, n)' <=> SentAfter(e, m, n)
    BY <1>7, <2>1, SentKept
  <2> QED
    BY <1>1, <2>2, <2>3, FitsFrom
<1>11. PICK s \in Seq(Commands), a \in Commands, b \in Commands : s = inbox[f] /\ a = TopologyOf(m) /\ b = TopologyOf(n)
  BY <1>9, TypeParts, ModelCommands
<1>12. a # b
  BY <1>9, <1>11, ModelCommands
<1>13. log[y] \in Seq(Models) /\ log[d] \in Seq(Models)
       /\ \A p, q : /\ Precedes(log[y], p, q) => p \in ToSet(log[y]) /\ q \in ToSet(log[y])
                    /\ Precedes(log[d], p, q) => p \in ToSet(log[d]) /\ q \in ToSet(log[d])
  <2>1. log[y] \in Seq(Models) /\ log[d] \in Seq(Models)
    BY TypeParts
  <2> QED
    BY <2>1, PrecedesIn
<1>14. ASSUME h = e PROVE /\ At(t) = d /\ t # f /\ task'[f] = task[f] /\ inbox'[f] = Append(s, TopologyOf(k))
                          /\ log'[Daemon(f)'] = log[y] /\ log'[Daemon(e)'] = log[d] /\ Sent(e, k)'
                          /\ TopologyOf(k) \in Commands
  <2>1. At(t) = d /\ t # f
    BY <1>2, <1>3, <1>5, <1>14
  <2>2. task'[f] = task[f]
    BY <1>3, <2>1 DEF Effect, Turns
  <2>3. inbox'[f] = Append(s, TopologyOf(k))
    <3>1. inbox \in [Ends -> Seq(Commands)]
      BY DEF TypeOK
    <3>2. Peer(h) = f
      BY <1>1, <1>14
    <3> QED
      BY <1>5, <1>11, <3>1, <3>2 DEF Put
  <2>4. Sent(e, k)'
    BY <1>2, <1>3, <1>5, <1>14, SentOnward
  <2>5. log'[Daemon(f)'] = log[y] /\ log'[Daemon(e)'] = log[d]
    BY <1>3, <1>4
  <2> QED
    BY <2>1, <2>2, <2>3, <2>4, <2>5, ModelCommands
<1>15. ASSUME h = e, k = m PROVE Fits(e, m, n)'
  <2>1. PICK r : r = Append(s, a)
    OBVIOUS
  <2>2. inbox'[f] = r
    BY <1>11, <1>14, <1>15, <2>1
  <2>3. ~Touched(Daemon(Peer(h)), m)
    BY <1>4, <1>5, <1>9, <1>15, NewToIt DEF Forwards
  <2>4. ~Touched(y, m)
    BY <1>1, <1>2, <1>15, <2>3
  <2>5. m \notin ToSet(log[y]) /\ ~IsDown(task[f], m) /\ ~Mail(f, m)
    BY <1>3, <2>4 DEF Touched, Below, Down, Mail
  <2>6. m \notin ToSet(log[d])
    <3>1. "task" \in Below /\ Down("task", t, m)
      BY <1>4, <1>15 DEF Below, Down
    <3> QED
      BY <1>4, <1>9, <1>14, <1>15, <3>1 DEF OneDown
  <2>7. ~SentAfter(e, m, n)'
    BY <1>13, <1>14, <1>15, <2>6 DEF SentAfter
  <2>8. ~GotAfter(f, m, n)'
    <3>1. ~Precedes(s, a, b)
      BY <1>11, <2>5, PrecedesIn DEF Mail
    <3>2. ~Precedes(r, a, b)
      BY <1>12, <2>1, <3>1, PrecedesAppend
    <3>3. ~Precedes(inbox'[f], TopologyOf(m), TopologyOf(n))
      BY <1>11, <2>2, <3>2
    <3> QED
      BY <1>13, <1>14, <1>15, <2>5, <3>3 DEF GotAfter
  <2>9. Peer(e)' = f
    BY <1>1 DEF Peer
  <2> QED
    BY <2>7, <2>8, <2>9 DEF Fits
<1>16. ASSUME h = e, k = n PROVE Fits(e, m, n)'
  <2>1. PICK r : r = Append(s, b)
    OBVIOUS
  <2>2. inbox'[f] = r
    BY <1>11, <1>14, <1>16, <2>1
  <2>3. HandSame(f, m) /\ MailSame(f, m)
    BY <1>8, <1>9, <1>16
  <2>4. Got(f, m)' => Got(f, m)
    BY <1>2, <1>14, <1>16, <2>3 DEF Got, HandSame, MailSame
  <2>5. Peer(e)' = f
    BY <1>1 DEF Peer
  <2>6. ASSUME Got(f, m) PROVE SentAfter(e, m, n)' /\ GotAfter(f, m, n)'
    <3>1. m \in ToSet(log[d])
      <4>1. Passed(e, m)
        BY <1>1, <2>6
      <4>2. ASSUME NEW u \in Threads, At(u) = d, IsDown(task[u], m) PROVE FALSE
        <5>1. FromAbove(S, m) /\ FromAbove(S, n)
          BY DEF Pair
        <5>2. At(u) \in S /\ At(t) = At(u) /\ IsDown(task[t], n)
          BY <1>3, <1>4, <1>14, <1>16, <4>2
        <5> QED
          BY <1>4, <1>9, <4>2, <5>1, <5>2, OneAtATime
      <4> QED
        BY <1>2, <4>1, <4>2 DEF Passed, SentBy, IsDown
    <3>2. SentAfter(e, m, n)'
      BY <1>14, <1>16, <3>1 DEF SentAfter
    <3>3. Mail(f, n)'
      <4>1. ToSet(r) = ToSet(s) \cup {b}
        BY <2>1, SetAppend
      <4> QED
        BY <1>11, <2>2, <4>1 DEF Mail
    <3>4. CASE m \in ToSet(log[y])
      BY <1>14, <1>16, <3>2, <3>3, <3>4 DEF GotAfter
    <3>5. CASE IsDown(task[f], m)
      BY <1>14, <1>16, <3>2, <3>3, <3>5 DEF GotAfter
    <3>6. CASE Mail(f, m)
      <4>1. Precedes(r, a, b)
        BY <1>11, <2>1, <3>6, PrecedesAppend DEF Mail
      <4>2. Precedes(inbox'[f], TopologyOf(m), TopologyOf(n))
        BY <1>11, <2>2, <4>1
      <4> QED
        BY <3>2, <4>2 DEF GotAfter
    <3> QED
      BY <1>2, <2>6, <3>2, <3>4, <3>5, <3>6 DEF Got
  <2> QED
    BY <2>4, <2>5, <2>6 DEF Fits
<1> QED
  BY <1>10, <1>15, <1>16

(* A model that is read: at another daemon, below e, or above it.          *)
LEMMA FitsReads ==
    ASSUME TypeOK, TypeOK', Links, Links', Woods, Next, NEW S, NEW e, NEW m, NEW n,
           Pair(S, e, m, n), Pair(S, e, m, n)', Fits(e, m, n),
           NEW t, NEW x, NEW i, NEW c, NEW g, NEW P, Effect(t, x, i, c, g, P),
           NEW k \in Models, Reads(k, t, x, i, P)
    PROVE  Fits(e, m, n)'
<1>1. PICK f \in Ends : f = Peer(e)
  BY PipeEnds DEF Pair
<1>2. PICK y \in Daemons, d \in Daemons : y = Daemon(f) /\ d = Daemon(e)
  BY <1>1, PipeEnds DEF Pair
<1>3. /\ f \in Threads /\ f \in Made /\ Daemon(f)' = y /\ Peer(f) = e /\ At(f) = y /\ Daemon(Peer(e)) = y
      /\ e \in InSlaves /\ Daemon(e)' = d /\ d \in S /\ y \in S /\ d # y /\ e \in ToSet(slaves[d])
  BY <1>1, <1>2, PipeEnds, StepStays DEF Pair, Pipe, InSlaves
<1>4. /\ inbox' = inbox /\ P = {} /\ i \notin Ends /\ t \in Made \cup Requests /\ At(t) \in Daemons
      /\ t \in Threads /\ task[t].pc = "read" /\ task[t].model = k /\ x = Idle
      /\ log' = [log EXCEPT ![At(t)] = Append(@, k)]
  BY ConstantsAssumption DEF Reads, TypeOK, Effect, Turns
<1>5. IsDown(task[t], k) /\ \A j : ~IsDown(x, j) /\ (j # k => ~IsDown(task[t], j))
  BY <1>4, OneInHand DEF IsDown, Idle
<1>6. m \in Models /\ n \in Models /\ m # n /\ OneDown(m) /\ OneDown(n) /\ FromAbove(S, m) /\ FromAbove(S, n)
  BY DEF Pair, Above
<1>7. log \in [Daemons -> Seq(Models)]
  BY DEF TypeOK
<1>8. \A w \in Daemons : log'[w] = IF w = At(t) THEN Append(log[w], k) ELSE log[w]
  BY <1>4, <1>7
<1>9. \A w \in Daemons : w # At(t) => LogSame(w, m, n)
  BY <1>8 DEF LogSame
<1>10. \A j \in Models : j # k => Aside(t, x, i, c, P, j)
  BY <1>4, <1>5 DEF Aside
<1>11. \A j \in Models : MailSame(f, j)
  BY <1>4 DEF MailSame, Mail
<1>12. ASSUME NEW j \in Models, j # k \/ At(t) # y PROVE HandSame(f, j)
  <2>1. CASE j # k
    BY <1>10, <2>1, AsideKept
  <2>2. CASE At(t) # y
    BY <1>3, <2>2, HandKept
  <2> QED
    BY <1>12, <2>1, <2>2
<1>13. ASSUME NEW j \in Models, j # k \/ At(t) # d PROVE SendsSame(t, x, e, j)
  <2>1. CASE j # k
    BY <1>10, <2>1, AsideKept
  <2>2. CASE At(t) # d
    BY <1>2, <1>4, <2>2 DEF SendsSame
  <2> QED
    BY <1>13, <2>1, <2>2
<1>14. At(t) # y => (Got(f, m)' <=> Got(f, m)) /\ (GotAfter(f, m, n)' <=> GotAfter(f, m, n))
  <2> SUFFICES ASSUME At(t) # y PROVE (Got(f, m)' <=> Got(f, m)) /\ (GotAfter(f, m, n)' <=> GotAfter(f, m, n))
    OBVIOUS
  <2>1. LogSame(Daemon(f), m, n) /\ HandSame(f, m) /\ HandSame(f, n) /\ MailSame(f, m) /\ MailSame(f, n)
    BY <1>2, <1>6, <1>9, <1>11, <1>12
  <2> QED
    BY <1>1, <2>1, GotKept
<1>15. At(t) # d => (SentAfter(e, m, n)' <=> SentAfter(e, m, n))
  <2> SUFFICES ASSUME At(t) # d PROVE SentAfter(e, m, n)' <=> SentAfter(e, m, n)
    OBVIOUS
  <2>1. LogSame(Daemon(e), m, n) /\ SendsSame(t, x, e, n)
    BY <1>2, <1>6, <1>9, <1>13
  <2> QED
    BY <2>1, SentKept
<1>16. ASSUME k \notin {m, n} PROVE Fits(e, m, n)'
  <2>1. Aside(t, x, i, c, P, m) /\ Aside(t, x, i, c, P, n)
    BY <1>6, <1>10, <1>16
  <2>2. LogSame(d, m, n) /\ LogSame(y, m, n)
    BY <1>4, <1>16, LogOfOthers
  <2> QED
    BY <1>1, <1>2, <2>1, <2>2, FitsAside
<1>17. ASSUME At(t) \notin {d, y} PROVE Fits(e, m, n)'
  BY <1>1, <1>14, <1>15, <1>17, FitsFrom
<1>18. PICK s, r : s \in Seq(Models) /\ s = log[At(t)] /\ r = log'[At(t)]
  BY <1>4, <1>7
<1>19. /\ r = Append(s, k)
       /\ ToSet(r) = ToSet(s) \cup {k}
       /\ \A p, q : Precedes(r, p, q) <=> Precedes(s, p, q) \/ (k = q /\ p \in ToSet(s))
       /\ \A p, q : Precedes(s, p, q) => p \in ToSet(s) /\ q \in ToSet(s)
  <2>1. r = Append(s, k)
    BY <1>4, <1>8, <1>18
  <2>2. ToSet(r) = ToSet(s) \cup {k}
    BY <1>18, <2>1, SetAppend
  <2>3. \A p, q : Precedes(r, p, q) <=> Precedes(s, p, q) \/ (k = q /\ p \in ToSet(s))
    BY <1>18, <2>1, PrecedesAppend
  <2>4. \A p, q : Precedes(s, p, q) => p \in ToSet(s) /\ q \in ToSet(s)
    BY <1>18, PrecedesIn
  <2> QED
    BY <2>1, <2>2, <2>3, <2>4
<1>20. k \in {m, n} => k \notin ToSet(s) /\ FromAbove(S, k)
  <2>1. "task" \in Below /\ Down("task", t, k)
    BY <1>5 DEF Below, Down
  <2> QED
    BY <1>4, <1>6, <1>18, <2>1 DEF OneDown
<1>21. ASSUME At(t) = y, k \in {m, n} PROVE Fits(e, m, n)'
  <2>1. SentAfter(e, m, n)' <=> SentAfter(e, m, n)
    BY <1>3, <1>15, <1>21
  <2>2. t = f
    <3>1. At(t) \in S /\ Daemon(Peer(e)) = At(t)
      BY <1>3, <1>21
    <3> QED
      BY <1>1, <1>3, <1>4, <1>5, <1>20, <1>21, <3>1, OnePipe
  <2>3. log[Daemon(f)] = s /\ log'[Daemon(f)'] = r
    BY <1>2, <1>3, <1>18, <1>21
  <2>4. /\ IsDown(task[f], k) /\ (\A j : j # k => ~IsDown(task[f], j)) /\ task'[f] = x
        /\ \A j : ~IsDown(task'[f], j)
    <3>1. task'[f] = x
      BY <2>2 DEF Effect, Turns
    <3> QED
      BY <1>5, <2>2, <3>1
  <2>5. ~Mail(f, k)
    <3>1. "task" \in Below /\ "mail" \in Below /\ Down("task", f, k)
      BY <1>5, <2>2 DEF Below, Down
    <3>2. Mail(f, k) => Down("mail", f, k)
      BY DEF Down, Mail
    <3>3. OneDown(k)
      BY <1>6, <1>21
    <3> QED
      BY <1>3, <3>1, <3>2, <3>3 DEF OneDown
  <2>6. (Mail(f, m)' <=> Mail(f, m)) /\ (Mail(f, n)' <=> Mail(f, n))
    BY <1>6, <1>11 DEF MailSame
  <2>7. PICK b : b = Precedes(inbox[f], TopologyOf(m), TopologyOf(n))
    OBVIOUS
  <2>8. b => Mail(f, m) /\ Mail(f, n)
    <3>1. inbox[f] \in Seq(Commands)
      BY TypeParts
    <3>2. Precedes(inbox[f], TopologyOf(m), TopologyOf(n)) => Mail(f, m) /\ Mail(f, n)
      BY <3>1, PrecedesIn DEF Mail
    <3> QED
      BY <2>7, <3>2
  <2>9. /\ GotAfter(f, m, n) <=> \/ Precedes(s, m, n)
                                 \/ m \in ToSet(s) /\ (IsDown(task[f], n) \/ Mail(f, n))
                                 \/ IsDown(task[f], m) /\ Mail(f, n)
                                 \/ b
        /\ GotAfter(f, m, n)' <=> \/ Precedes(r, m, n)
                                  \/ m \in ToSet(r) /\ Mail(f, n)
                                  \/ b
    BY <1>4, <2>3, <2>4, <2>6, <2>7 DEF GotAfter
  <2>10. (Got(f, m) <=> m \in ToSet(s) \/ IsDown(task[f], m) \/ Mail(f, m))
         /\ (Got(f, m)' <=> m \in ToSet(r) \/ Mail(f, m))
    BY <2>3, <2>4, <2>6 DEF Got
  <2>11. k \notin ToSet(s)
    BY <1>20, <1>21
  <2>12. CASE k = m
    BY <1>1, <1>6, <1>19, <2>1, <2>4, <2>5, <2>8, <2>9, <2>10, <2>11, <2>12, FitsFrom
  <2>13. CASE k = n
    BY <1>1, <1>6, <1>19, <2>1, <2>4, <2>5, <2>8, <2>9, <2>10, <2>11, <2>13, FitsFrom
  <2> QED
    BY <1>21, <2>12, <2>13
<1>22. ASSUME At(t) = d, k \in {m, n} PROVE Fits(e, m, n)'
  <2>1. (Got(f, m)' <=> Got(f, m)) /\ (GotAfter(f, m, n)' <=> GotAfter(f, m, n))
    BY <1>3, <1>14, <1>22
  <2>2. log[Daemon(e)] = s /\ log'[Daemon(e)'] = r
    BY <1>2, <1>3, <1>18, <1>22
  <2>3. k \notin ToSet(s)
    BY <1>20, <1>22
  <2>4. SentAfter(e, m, n) <=> Precedes(s, m, n) \/ (m \in ToSet(s) /\ Sent(e, n))
    BY <2>2 DEF SentAfter
  <2>5. SentAfter(e, m, n)' <=> Precedes(r, m, n) \/ (m \in ToSet(r) /\ Sent(e, n)')
    BY <2>2 DEF SentAfter
  <2>6. ASSUME k = m PROVE SentAfter(e, m, n)' <=> SentAfter(e, m, n)
    <3>1. Sent(e, n)' <=> Sent(e, n)
      <4>1. SendsSame(t, x, e, n)
        BY <1>6, <1>13, <2>6
      <4> QED
        BY <1>3, <4>1, SentStays
    <3>2. ~Sent(e, n)
      <4> SUFFICES ASSUME NEW u \in Threads, At(u) = d, SentBy(task[u], slaves[d], e, n) PROVE FALSE
        BY <1>2 DEF Sent
      <4>1. IsDown(task[u], n)
        BY DEF SentBy, IsDown
      <4>2. At(t) \in S /\ At(u) = At(t) /\ IsDown(task[t], m)
        BY <1>3, <1>5, <1>22, <2>6
      <4> QED
        BY <1>4, <1>6, <4>1, <4>2, OneAtATime
    <3> QED
      BY <1>6, <1>19, <2>3, <2>4, <2>5, <2>6, <3>1, <3>2
  <2>7. ASSUME k = n PROVE SentAfter(e, m, n)' <=> SentAfter(e, m, n)
    <3>1. Sent(e, n)
      <4>1. SentBy(task[t], slaves[d], e, n)
        BY <1>4, <2>7 DEF SentBy
      <4> QED
        BY <1>2, <1>4, <1>22, <4>1 DEF Sent
    <3> QED
      BY <1>6, <1>19, <2>3, <2>4, <2>5, <2>7, <3>1
  <2>8. SentAfter(e, m, n)' <=> SentAfter(e, m, n)
    BY <1>22, <2>6, <2>7
  <2> QED
    BY <1>1, <2>1, <2>8, FitsFrom
<1> QED
  BY <1>16, <1>17, <1>21, <1>22

LEMMA FitsStep ==
    ASSUME TypeOK, TypeOK', Links, Links', Woods, Next, NEW S, NEW e, NEW m, NEW n,
           Pair(S, e, m, n), Pair(S, e, m, n)', Fits(e, m, n), Got(Peer(e), m) => Passed(e, m)
    PROVE  Fits(e, m, n)'
<1>1. PICK t, x, i, c, g, P : Effect(t, x, i, c, g, P) /\ Kind(t, x, i, c, g, P)
  BY ModelSteps DEF ModelStep, Woods
<1>2. NoModel(t, x, i, c, P) \/ (\E k \in Models : Climbs(k, t, x, i, c, g, P)) => Fits(e, m, n)'
  BY <1>1, FitsClimbs
<1>3. \A k \in Models : Lands(k, t, x, i, c, P) => Fits(e, m, n)'
  BY <1>1, FitsLands
<1>4. \A k \in Models : Falls(k, t, x, i, c, P) => Fits(e, m, n)'
  BY <1>1, FitsFalls
<1>5. \A k \in Models : Forwards(k, t, x, i, g, P) => Fits(e, m, n)'
  BY <1>1, FitsForwards
<1>6. \A k \in Models : Finishes(k, t, x, i, P) => Fits(e, m, n)'
  BY <1>1, FitsFinishes
<1>7. \A k \in Models : Reads(k, t, x, i, P) => Fits(e, m, n)'
  BY <1>1, FitsReads
<1>8. Kind(t, x, i, c, g, P)
  BY <1>1
<1> QED
  BY <1>2, <1>3, <1>4, <1>5, <1>6, <1>7, <1>8 DEF Kind

LEMMA OrderedStep ==
    ASSUME TypeOK, TypeOK', Links, Links', Once, Once', Origin, Origin', Ordered, Next
    PROVE  Ordered'
<1> SUFFICES ASSUME Woods', NEW S, NEW e, Pipe(S, e)', NEW m, Above(S, m)
             PROVE  /\ (Got(Peer(e), m) => Passed(e, m))'
                    /\ \A n : Above(S, n) /\ n # m => Fits(e, m, n)'
  BY DEF Ordered, Above
<1>1. Woods
  BY WoodsBefore
<1>2. S \in SUBSET Daemons /\ Closed(S)' /\ Closed(S)
  BY ClosedBefore DEF Pipe
<1>3. MailFrom /\ Few
  BY <1>1 DEF Origin, Woods
<1>4. ASSUME NEW j, Above(S, j)
      PROVE  /\ FromAbove(S, j) /\ FromAbove(S, j)'
             /\ OneDown(j) /\ Tree(j) /\ OneDown(j)' /\ Tree(j)'
  BY <1>1, <1>2, <1>4 DEF Origin, Once, Placed, Above
<1>5. CASE e \in InSlaves
  <2>1. Pipe(S, e)
    <3>1. Daemon(e)' = Daemon(e)
      BY <1>5, StepStays DEF InSlaves
    <3> QED
      BY <1>2, <1>5, <3>1 DEF Pipe
  <2>2. Got(Peer(e), m) => Passed(e, m)
    BY <1>1, <2>1 DEF Ordered
  <2>3. Got(Peer(e), m)' => Passed(e, m)'
    BY <1>1, <1>4, <2>1, <2>2, GotPassedStep
  <2>4. ASSUME NEW n, Above(S, n), n # m PROVE Fits(e, m, n)'
    <3>1. Fits(e, m, n)
      BY <1>1, <2>1, <2>4 DEF Ordered
    <3>2. Pair(S, e, m, n) /\ Pair(S, e, m, n)'
      BY <1>4, <2>1, <2>4 DEF Pair, Above
    <3> QED
      BY <1>1, <2>2, <3>1, <3>2, FitsStep
  <2> QED
    BY <2>3, <2>4
<1>6. CASE e \notin InSlaves
  <2>1. ~Got(Peer(e), m)'
    BY <1>3, <1>4, <1>6, NothingYet
  <2> QED
    BY <2>1 DEF Fits
<1> QED
  BY <1>5, <1>6

LEMMA OrderedInit ==
    ASSUME Init
    PROVE  Ordered
<1>1. Len(conn) = 0
  BY DEF Init
<1>2. Made = {}
  BY <1>1 DEF Made, Ends
<1> QED
  BY <1>2 DEF Ordered, Pipe, InSlaves

LEMMA OrderSame ==
    ASSUME UNCHANGED vars
    PROVE  (Origin => Origin') /\ (Ordered => Ordered')
<1>1. /\ Made' = Made /\ Threads' = Threads /\ (\A e : Daemon(e)' = Daemon(e)) /\ (\A t : At(t)' = At(t))
      /\ InSlaves' = InSlaves /\ InMasters' = InMasters /\ \A e : Peer(e)' = Peer(e)
  BY DEF vars, Made, Daemon, Threads, At, InSlaves, InMasters, Peer
<1>2. inbox' = inbox /\ log' = log /\ task' = task /\ slaves' = slaves /\ todo' = todo /\ masters' = masters
  BY DEF vars
<1>3. Woods' <=> Woods
  BY <1>1, <1>2 DEF Woods, Few, OneParent, NoCycle
<1>4. \A k, y, m : Up(k, y, m)' <=> Up(k, y, m)
  BY <1>2 DEF Up
<1>5. \A e, m : Mail(e, m)' <=> Mail(e, m)
  BY <1>2 DEF Mail
<1>6. MailFrom' <=> MailFrom
  BY <1>1, <1>5 DEF MailFrom
<1>7. \A S : Closed(S)' <=> Closed(S)
  BY <1>1 DEF Closed
<1>8. \A d : HasParent(d)' <=> HasParent(d)
  BY <1>1 DEF HasParent
<1>9. \A S, m : FromAbove(S, m)' <=> FromAbove(S, m)
  BY <1>1, <1>2, <1>4, <1>8 DEF FromAbove
<1>10. Origin => Origin'
  BY <1>3, <1>6, <1>7, <1>9 DEF Origin, Above
<1>11. \A S, e : Pipe(S, e)' <=> Pipe(S, e)
  BY <1>1, <1>7 DEF Pipe
<1>12. \A e, m : (Passed(e, m)' <=> Passed(e, m)) /\ (Sent(e, m)' <=> Sent(e, m))
  BY <1>1, <1>2 DEF Passed, Sent
<1>13. \A f, m : Got(f, m)' <=> Got(f, m)
  BY <1>1, <1>2, <1>5 DEF Got
<1>14. \A f, m, n : GotAfter(f, m, n)' <=> GotAfter(f, m, n)
  BY <1>1, <1>2, <1>5 DEF GotAfter
<1>15. \A e, m, n : SentAfter(e, m, n)' <=> SentAfter(e, m, n)
  BY <1>1, <1>2, <1>12 DEF SentAfter
<1>16. \A e, m, n : Fits(e, m, n)' <=> Fits(e, m, n)
  BY <1>1, <1>13, <1>14, <1>15 DEF Fits
<1>17. Ordered => Ordered'
  BY <1>1, <1>3, <1>11, <1>12, <1>13, <1>16 DEF Ordered, Above
<1> QED
  BY <1>10, <1>17

(* In such a network, at every step: the models that were asked for above  *)
(* a part of it, which holds all that is below its members, come there     *)
(* from the masters only; and what a slave has got of them, it has got in  *)
(* the order in which its master has sent them, none being left out.       *)
THEOREM OrderHolds == Spec => [](TypeOK /\ Links /\ Once /\ Origin /\ Ordered)
<1>1. Init => Origin /\ Ordered
  BY OriginInit, OrderedInit
<1>2. TypeOK /\ Links /\ Once /\ TypeOK' /\ Links' /\ Once' /\ Origin /\ Ordered /\ [Next]_vars
      => Origin' /\ Ordered'
  <2> SUFFICES ASSUME TypeOK, Links, Once, TypeOK', Links', Once', Origin, Ordered, [Next]_vars
               PROVE  Origin' /\ Ordered'
    OBVIOUS
  <2>1. CASE Next
    <3>1. Origin'
      BY <2>1, OriginStep
    <3> QED
      BY <2>1, <3>1, OrderedStep
  <2>2. CASE UNCHANGED vars
    BY <2>2, OrderSame
  <2> QED
    BY <2>1, <2>2
<1> QED
  BY <1>1, <1>2, PlacesHold, PTL DEF Spec

LEMMA SlaveEnd ==
    ASSUME NEW d, NEW x, IsSlave(d, x)
    PROVE  \E e \in ToSet(slaves[d]) : Daemon(Peer(e)) = x
BY DEF IsSlave, SlaveEnds

(* What holds the slaves of its members is closed, when all is quiet.      *)
LEMMA SlavesClose ==
    ASSUME TypeOK, Links, Quiet, NEW S \in SUBSET Daemons, \A y \in S, z \in Daemons : IsSlave(y, z) => z \in S
    PROVE  Closed(S)
<1>1. ASSUME NEW e \in InSlaves, Daemon(e) \in S PROVE Daemon(Peer(e)) \in S
  <2>1. e \in SlaveEnds(Daemon(e), Daemon(Peer(e)))
    BY DEF SlaveEnds, InSlaves
  <2>2. Daemon(Peer(e)) \in Daemons
    BY TypeParts, MadeEnds DEF InSlaves
  <2> QED
    BY <1>1, <2>1, <2>2 DEF IsSlave
<1>2. ASSUME NEW e \in InMasters, Daemon(Peer(e)) \in S PROVE Daemon(e) \in S
  <2>1. e \in Made /\ Peer(e) \in Made /\ Peer(Peer(e)) = e
    BY TypeParts, MadeEnds, PeerEnds DEF InMasters, Made
  <2>2. Peer(e) \in ToSet(slaves[Daemon(Peer(e))]) <=> Peer(Peer(e)) \in ToSet(masters[Daemon(Peer(Peer(e)))])
    BY <2>1, AgreedEnds
  <2>3. Peer(e) \in InSlaves
    BY <2>1, <2>2 DEF InSlaves, InMasters
  <2> QED
    BY <1>1, <1>2, <2>1, <2>3
<1> QED
  BY <1>1, <1>2 DEF Closed

LEMMA ReachedIsClosed ==
    ASSUME TypeOK, Links, Quiet, NEW d \in Daemons
    PROVE  Reached(d, IsSlave) \in SUBSET Daemons /\ d \in Reached(d, IsSlave) /\ Closed(Reached(d, IsSlave))
<1>1. PICK S : S = Reached(d, IsSlave)
  OBVIOUS
<1>2. S \in SUBSET Daemons /\ d \in S /\ \A y \in S, z \in Daemons : IsSlave(y, z) => z \in S
  BY <1>1 DEF Reached
<1>3. Closed(S)
  BY <1>2, SlavesClose
<1> QED
  BY <1>1, <1>2, <1>3

(* A slave reads the models that come from above in the order of its       *)
(* master, all of them from the first one on that it has got               *)
(* (Network!SameOrder).                                                    *)
THEOREM SameOrderHolds == Spec => []SameOrder
<1>1. TypeOK /\ Links /\ Once /\ Origin /\ Ordered => SameOrder
  <2> SUFFICES ASSUME TypeOK, Links, Once, Origin, Ordered, Quiet, Forest,
                      NEW d \in Daemons, NEW x \in Daemons, IsSlave(d, x),
                      NEW m \in Models, m.at \notin Reached(d, IsSlave), m \in ToSet(log[x])
               PROVE  /\ m \in ToSet(log[d])
                      /\ \A n \in Models : n.at \notin Reached(d, IsSlave) => (After(x, m, n) <=> After(d, m, n))
    BY DEF SameOrder
  <2>1. PICK S : S = Reached(d, IsSlave)
    OBVIOUS
  <2>2. S \in SUBSET Daemons /\ d \in S /\ Closed(S)
    BY <2>1, ReachedIsClosed
  <2>3. PICK e \in ToSet(slaves[d]) : Daemon(Peer(e)) = x
    BY SlaveEnd
  <2>4. e \in Made /\ Daemon(e) = d /\ e \in InSlaves
    BY <2>3 DEF Links, Ours, InSlaves
  <2>5. PICK f \in Ends : f = Peer(e) /\ Daemon(f) = x
    BY <2>3, <2>4, PeerEnds DEF Made
  <2>6. Pipe(S, e) /\ Woods
    BY <2>2, <2>4, ForestIsWoods DEF Pipe
  <2>7. Above(S, m) /\ \A n \in Models : n.at \notin Reached(d, IsSlave) => Above(S, n)
    BY <2>1 DEF Above
  <2>8. (\A t \in Threads : task[t] = Idle) /\ f \in Threads /\ inbox[f] = <<>>
    BY DEF Quiet, Threads
  <2>9. \A j : ~Sent(e, j) /\ ~IsDown(task[f], j) /\ ~Mail(f, j)
    <3>1. \A j : ~Sent(e, j) /\ ~IsDown(task[f], j)
      BY <2>8 DEF Sent, SentBy, IsDown, Idle
    <3>2. ToSet(<<>>) = {}
      BY EmptySeq, SetOf
    <3>3. \A j : ~Mail(f, j)
      BY <2>8, <3>2 DEF Mail
    <3> QED
      BY <3>1, <3>3
  <2>10. \A a, b : ~Precedes(inbox[f], a, b)
    <3>1. Len(inbox[f]) = 0
      BY <2>8
    <3> QED
      BY <3>1 DEF Precedes
  <2>11. m \in ToSet(log[d])
    <3>1. Got(Peer(e), m) => Passed(e, m)
      BY <2>6, <2>7 DEF Ordered
    <3>2. Got(f, m)
      BY <2>5 DEF Got
    <3>3. Passed(e, m)
      BY <2>5, <3>1, <3>2
    <3> QED
      BY <2>4, <2>9, <3>3 DEF Passed, Sent
  <2>12. ASSUME NEW n \in Models, n.at \notin Reached(d, IsSlave), n # m
         PROVE  Precedes(log[x], m, n) <=> Precedes(log[d], m, n)
    <3>1. Fits(e, m, n)
      BY <2>6, <2>7, <2>12 DEF Ordered
    <3>2. Got(f, m)
      BY <2>5 DEF Got
    <3>3. GotAfter(f, m, n) <=> SentAfter(e, m, n)
      BY <2>5, <3>1, <3>2 DEF Fits
    <3>4. GotAfter(f, m, n) <=> Precedes(log[x], m, n)
      BY <2>5, <2>9, <2>10 DEF GotAfter
    <3>5. SentAfter(e, m, n) <=> Precedes(log[d], m, n)
      BY <2>4, <2>9 DEF SentAfter
    <3> QED
      BY <3>3, <3>4, <3>5
  <2>13. ASSUME NEW w \in Daemons PROVE ~Precedes(log[w], m, m)
    <3>1. log[w] \in Seq(Models) /\ Single(log[w], m)
      BY <2>6, TypeParts DEF Once, Placed, OneDown
    <3> QED
      BY <3>1, PrecedesIn
  <2>14. \A w, n : After(w, m, n) <=> Precedes(log[w], m, n)
    BY DEF After, Precedes
  <2> QED
    BY <2>11, <2>12, <2>13, <2>14
<1> QED
  BY <1>1, OrderHolds, PTL
=============================================================================

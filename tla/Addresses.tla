----------------------------- MODULE Addresses ------------------------------
(***************************************************************************)
(* The addresses of daemons: which daemon one reaches through an address   *)
(* (tcp/Socket.cpp), and what a daemon takes for its own (com.cpp,         *)
(* agmld.cpp).  An address is the name of a host, with a port or without;  *)
(* an IP is its own name.                                                  *)
(***************************************************************************)
EXTENDS Naturals, Sequences, SequencesExt

CONSTANTS
    Daemons,
    Interfaces,     \* the IPs of the machine each daemon runs on, in order
    Port,           \* the port each daemon listens at (SERVER_PORT)
    Names           \* the IPs of each host name, in order

DEFAULT_PORT == 10001
NoPort == 0
Loopback == "127.0.0.1"

Addresses == [name : STRING, port : Nat]

ASSUME AddressesAssumption ==
    /\ Interfaces \in [Daemons -> Seq(STRING) \ {<<>>}] /\ Port \in [Daemons -> Nat \ {NoPort}]
    /\ \A d, x \in Daemons :
          d # x /\ Port[d] = Port[x] =>
              /\ Interfaces[d] # Interfaces[x]
              /\ ToSet(Interfaces[d]) \cap ToSet(Interfaces[x]) \subseteq {Loopback}
    /\ \A name \in DOMAIN Names : Names[name] \in Seq(STRING) \ {<<>>}
    /\ Loopback \notin DOMAIN Names
    /\ \A d \in Daemons : DOMAIN Names \cap ToSet(Interfaces[d]) = {}

(* getaddrinfo: the last IP of a name counts; a name nobody knows stays.   *)
resolve_ip(name) == IF name \in DOMAIN Names THEN Last(Names[name]) ELSE name

(* The first IP that is not the loopback's, else the last. *)
get_my_first_ip(ips) ==
    LET net == {i \in DOMAIN ips : ips[i] # Loopback}
    IN IF net = {} THEN Last(ips) ELSE ips[Min(net)]

SERVER_IP(d) == get_my_first_ip(Interfaces[d])

(* Without a port it makes no difference at which port d listens, and only *)
(* the loopback's IP, not a name of it, is d's.                            *)
com_is_my_ip(d, a) ==
    \/ a.port # NoPort /\ resolve_ip(a.name) \in {SERVER_IP(d), Loopback} /\ a.port = Port[d]
    \/ a.port = NoPort /\ (a.name = Loopback \/ resolve_ip(a.name) = SERVER_IP(d))

(* agmld: PORT is the port it has just got, so it says nothing. *)
is_me(d, a) ==
    /\ resolve_ip(a.name) = resolve_ip(SERVER_IP(d))
    /\ a.port # NoPort => a.port = Port[d]

(* Socket::Socket, Socket::connect: gethostbyname takes the first IP. *)
Url(a) ==
    [ip |-> IF a.name \in DOMAIN Names THEN Head(Names[a.name]) ELSE a.name,
     port |-> IF a.port = NoPort THEN DEFAULT_PORT ELSE a.port]

(* Who listens there, as the machine of d sees it: one daemon or nobody.   *)
Listening(d, a) ==
    {x \in Daemons :
        /\ Port[x] = Url(a).port
        /\ IF Url(a).ip = Loopback THEN Interfaces[x] = Interfaces[d]
           ELSE Url(a).ip \in ToSet(Interfaces[x])}

(* The IP that the accepting side sees of d.                               *)
PeerIP(d, a) ==
    IF Url(a).ip \in ToSet(Interfaces[d]) \cup {Loopback} THEN Url(a).ip ELSE SERVER_IP(d)
=============================================================================

----------------------------- MODULE MCNetwork -----------------------------
(* Three daemons and what their users ask for, in any order and at once:   *)
(* daemon 1 on machine a, daemons 2 and 3 on machine b.                    *)
EXTENDS Network

MC_Interfaces == [d \in Daemons |-> IF d = 1 THEN <<Loopback, "ip_a">> ELSE <<Loopback, "ip_b">>]
MC_Port == [d \in Daemons |-> IF d = 3 THEN 10002 ELSE 10001]
MC_Names == [name \in {"localhost", "a", "b"} |->
                CASE name = "localhost" -> <<Loopback>>
                  [] name = "a" -> <<"ip_a">>
                  [] name = "b" -> <<"ip_b">>]

Addr(name, port) == [name |-> name, port |-> port]
Full(d) == Addr(IF d = 1 THEN "a" ELSE "b", Port[d])
Short(d) == IF d = 3 THEN Full(3) ELSE Addr(Full(d).name, NoPort)

MC_Enter(d, p) == [at |-> d, addr |-> Short(p), boot |-> FALSE]
MC_Boot(d, a) == [at |-> d, addr |-> a, boot |-> TRUE]
MC_Model(d, hosts) == [at |-> d, hosts |-> {Full(h) : h \in hosts}]

(* A model while a chain or a star forms; three who enter; ...             *)
MC_Chain == {MC_Enter(2, 1), MC_Enter(3, 2)}
MC_Star == {MC_Enter(2, 1), MC_Enter(3, 1)}
MC_Forming == {MC_Chain \cup {MC_Model(1, {1})}, MC_Star \cup {MC_Model(1, {1})}}
MC_ThreeEnter == {MC_Star \cup {MC_Enter(3, 2)},
                  {MC_Enter(1, 2), MC_Enter(2, 3), MC_Enter(3, 1)}}

(* ... two masters; models whose hosts are invited; two models at once; ...*)
MC_TwoMasters == {{MC_Enter(3, 1), MC_Enter(3, 2), MC_Model(1, {1})}}
MC_Invite == {{MC_Model(1, {1, 2, 3})}}
             \cup {{MC_Enter(2, 1), MC_Model(d, {1, 2, 3})} : d \in {1, 3}}
             \cup {{MC_Enter(2, 1), MC_Model(2, {1, 2})}}
MC_TwoModels == {{MC_Model(1, {1, 2}), MC_Model(2, {1, 2})}}

(* ... one or two models when the chain or the star has formed; ...        *)
MC_Patient == {MC_Model(1, {3}), MC_Model(1, {2, 3}), MC_Model(2, {3}), MC_Model(3, {3})}
MC_Formed == {MC_Chain \cup {MC_Model(d, {3})} : d \in {2, 3}}
             \cup {MC_Star \cup {MC_Model(2, {3})}}
             \cup {MC_Chain \cup {MC_Model(1, {3}), MC_Model(1, {2, 3})}}

(* ... agmld with an address of its own, by its name or by localhost; and  *)
(* localhost for a daemon that others are told of, for two on one machine, *)
(* for one that is not there, and without a port.                          *)
MC_Own == {{MC_Boot(1, Full(1))}, {MC_Boot(1, Addr("localhost", 10001))}}
MC_Local == {{MC_Enter(2, 1), MC_Boot(3, Addr("localhost", NoPort))},
             {MC_Enter(3, 1), MC_Boot(2, Addr("localhost", 10002))}}
MC_Lines == {{[at |-> d, hosts |-> {Addr("localhost", 10001), Addr("localhost", 10002)}]} : d \in {1, 2}}
            \cup {{[at |-> d, hosts |-> {Addr("localhost", NoPort)}]} : d \in {1, 3}}
            \cup {{[at |-> 3, hosts |-> {Short(1), Short(2)}]}}

MC_Wishes == MC_Forming \cup MC_ThreeEnter \cup MC_TwoMasters \cup MC_Invite
             \cup MC_TwoModels \cup MC_Formed \cup MC_Own \cup MC_Local \cup MC_Lines

MC_Enters == {r \in UNION MC_Wishes : "addr" \in DOMAIN r}
MC_Models == UNION MC_Wishes \ MC_Enters
=============================================================================

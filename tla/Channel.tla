------------------------------ MODULE Channel ------------------------------
(***************************************************************************)
(* What one direction of a connection between two processes promises to    *)
(* those who send on it (Host::send) and to the handlers of the other end  *)
(* (Host::on_receive): whole messages, in the order they were sent, none   *)
(* lost or doubled.  When the connection breaks, what is still on its way  *)
(* is lost from some message on.                                           *)
(***************************************************************************)
EXTENDS Naturals, Sequences

CONSTANT Messages

VARIABLES
    queue,          \* sent and not yet handled
    got,            \* handled, in order
    open            \* neither end has closed its socket

vars == <<queue, got, open>>

Init == queue = <<>> /\ got = <<>> /\ open = TRUE

Send ==
    /\ open
    /\ \E m \in Messages : queue' = Append(queue, m)
    /\ UNCHANGED <<got, open>>

Deliver ==
    /\ queue # <<>>
    /\ got' = Append(got, Head(queue))
    /\ queue' = Tail(queue)
    /\ UNCHANGED open

Break ==
    /\ open' = FALSE
    /\ \E n \in 0 .. Len(queue) : queue' = SubSeq(queue, 1, n)
    /\ UNCHANGED got

Next == Send \/ Deliver \/ Break

Safety == Init /\ [][Next]_vars

(* While the connection is up, what was sent is handled in the end.        *)
Progress == WF_vars(open /\ Deliver)

Spec == Safety /\ Progress
=============================================================================

------------------------------ MODULE Broadcast ------------------------------
(***************************************************************************)
(* What relay-server promises, whatever its clients do: "retrieve the      *)
(* messages in the order they were received" (relay-server/README.md).     *)
(* A totally ordered broadcast that may skip a message for one client but  *)
(* never reorders, repeats or invents one.                                 *)
(***************************************************************************)
EXTENDS TotalOrder

CONSTANTS
    Node,           \* the clients of the relay, by their ?id=
    Message         \* what they may post

Init ==
    /\ log = << >>
    /\ pos = [n \in Node |-> 0]

Next ==
    \/ \E m \in Message : Publish(m) /\ UNCHANGED pos
    \/ \E n \in Node, p \in 1..Len(log) : Deliver(n, p) /\ UNCHANGED log

Spec == Init /\ [][Next]_<<log, pos>>
=============================================================================

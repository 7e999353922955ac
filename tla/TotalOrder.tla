----------------------------- MODULE TotalOrder -----------------------------
(***************************************************************************)
(* The relay as its clients see it: one log of messages, in the order in   *)
(* which the relay accepted them, and for every client the position of the *)
(* last message that was handed to it.  The protocol modules are written   *)
(* over these two operations; module Relay shows that the HTTP relay and   *)
(* its polling clients implement them.                                     *)
(***************************************************************************)
EXTENDS Naturals, Sequences

VARIABLES
    log,            \* every message the relay ever accepted, in order
    pos             \* pos[n]: position in log of the last message n was given

\* The relay accepts message m: it becomes the last one of the log.
Publish(m) == log' = Append(log, m)

(***************************************************************************)
(* Client n is given the message at position p.  Positions only go up, so  *)
(* a client sees the log in order; a message that is jumped over is one    *)
(* the client will never see (its GET response was lost).                  *)
(***************************************************************************)
Deliver(n, p) ==
    /\ p \in (pos[n] + 1) .. Len(log)
    /\ pos' = [pos EXCEPT ![n] = p]
=============================================================================

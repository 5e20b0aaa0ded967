------------------------------- MODULE MCTimer -------------------------------
(* Instances of Timer: an interval schedule that waits for a busy target   *)
(* and a one-shot that skips it, on one session.                           *)
EXTENDS Timer

MCTarget == [s \in Scheds |-> "session"]
MCMode == [s \in Scheds |-> IF s = 1 THEN "interval" ELSE "once"]
MCInterval == [s \in Scheds |-> 1]
MCPolicy == [s \in Scheds |-> IF s = 1 THEN "defer" ELSE "skip"]
MCDefer == [s \in Scheds |-> "defer"]
=============================================================================

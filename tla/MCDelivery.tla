----------------------------- MODULE MCDelivery -----------------------------
(* Instances of Delivery small enough for TLC.                             *)
EXTENDS Delivery

CONSTANTS i1, i2, s1

(* i1 is an ordinary notification; i2 may disturb a working session and is *)
(* skipped rather than kept when the thread is busy.                       *)
MCIntents == {i1, i2}
MCOrdinary == {i1}
MCSkipped == {i2}
MCTarget == [i \in Intents |-> s1]
MCMode == [i \in Intents |-> IF i = i2 THEN "working_allowed" ELSE "idle_only"]
MCPolicy == [i \in Intents |-> IF i = i2 THEN "skip" ELSE "defer"]
MCQueue == [i \in Intents |-> "queue"]
MCInterrupts == [i \in Intents |-> "interrupt"]
MCExpiring == {i2}
=============================================================================

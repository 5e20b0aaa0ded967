----------------------------- MODULE TimerProofs -----------------------------
(***************************************************************************)
(* Proofs about the timer (module Timer), for every number of schedules,   *)
(* their modes, intervals, policies and targets, and every bound.          *)
(***************************************************************************)
EXTENDS Timer, TLAPS, NaturalsInduction, WellFoundedInduction

(* What a map of schedules says of the occurrences the outbox settled.     *)
Truth(map, outbox) ==
  \A s \in Scheds :
    LET r == map[s] IN
    /\ r.state = "sent" => r.occ \in Times /\ outbox[<<s, r.occ>>] = "sent"
    /\ r.state = "unknown_delivery" =>
         r.occ \in Times /\ outbox[<<s, r.occ>>] \in {"unknown_delivery", "proved"}
    /\ r.state \in {"failed", "session_missing"} /\ Policy[s] = "defer" =>
         r.occ \in Times /\ outbox[<<s, r.occ>>] = "failed"

(* The states a control operation leaves a schedule in.                    *)
Controlled == {"configured", "enabled", "disabled", "stopped", "cancelled"}

(* A tick's map is the stored one, but for what operations did meanwhile;  *)
(* the schedule it serves says nothing of an outcome yet.                  *)
TickHolds ==
  tick # NoTick =>
    /\ Truth(tick.read, intent)
    /\ \A s \in Scheds : schedules[s] = tick.read[s] \/ schedules[s].state \in Controlled
    /\ tick.read[tick.sched].state \in {"claimed", "send_pending", "deferred_while_working"}
    /\ tick.at = "busy" => Policy[tick.sched] = "skip"

(* Nothing is on its way but what a tick awaits, and what a flush will     *)
(* send waits for it.                                                      *)
InFlight ==
  /\ \A i \in Intents : intent[i] = "sending" =>
       \/ tick.at = "send" /\ i = Occurrence
       \/ tick.at = "resend" /\ i \in flush.sending
  /\ tick.at = "send" => intent[Occurrence] = "sending"
  /\ tick.at = "resend" => \A i \in flush.sending : intent[i] = "sending"
  /\ \A i \in flush.todo : intent[i] = "deferred"
  /\ \A i, j \in flush.sending : i = j
  /\ tick.at \notin {"flush", "resend"} => flush = NoFlush

(* What a flush noted of the occurrence its tick serves is what the outbox *)
(* has.                                                                    *)
Noted ==
  tick.at \in {"flush", "resend"} =>
    /\ flush.outcome = "sent" => intent[Occurrence] = "sent"
    /\ flush.outcome = "unknown_delivery" => intent[Occurrence] \in {"unknown_delivery", "proved"}
    /\ flush.outcome = "failed" => intent[Occurrence] = "failed"

(* Only a schedule that may skip has its intents skipped.                  *)
SkipsOnlySkip == \A i \in Intents : intent[i] = "skipped" => Policy[i[1]] = "skip"

(* A schedule stopped in a quiet moment is stopped in every map.           *)
Over == {"stopped", "cancelled"}
QuietIsOver ==
  \A s \in Scheds : fate[s] = "quiet" =>
    /\ schedules[s].state \in Over
    /\ tick # NoTick => tick.sched # s /\ tick.read[s].state \in Over

Inv ==
  /\ TypeOK /\ Truth(schedules, intent) /\ TickHolds
  /\ InFlight /\ Noted /\ SkipsOnlySkip /\ QuietIsOver
-----------------------------------------------------------------------------
Maps == [Scheds -> Schedule]

(* A set of numbers has a least one.                                       *)
LEMMA LeastIs ==
  ASSUME NEW S \in SUBSET Nat, S # {}
  PROVE  Min(S) \in S
  <1>1. IsWellFoundedOn(OpToRel(<, Nat), Nat)
    BY NatLessThanWellFounded
  <1>2. PICK x \in S : \A y \in S : ~(<<y, x>> \in OpToRel(<, Nat))
    BY <1>1, WFMin
  <1>3. \A y \in S : y < x => <<y, x>> \in OpToRel(<, Nat)
    BY Zenon DEF OpToRel
  <1>4. \A y \in S : ~(y < x)
    BY Zenon, <1>2, <1>3
  <1>5. \A y \in S : x <= y
    BY <1>4
  <1>6. QED
    BY <1>5 DEF Min

(* finishOccurrence: the next time of an interval is a time.               *)
LEMMA NextAtType ==
  ASSUME NEW s \in Scheds, NEW t \in Times, now \in Nat
  PROVE  NextAt(s, t) \in Nat
  <1> DEFINE k == (now - t) \div Interval[s] + 1
  <1>1. Interval[s] \in Nat /\ Interval[s] > 0 /\ t \in Nat
    BY TimerAssumption DEF Times
  <1>2. k \in Int
    BY <1>1
  <1> HIDE DEF k
  <1>3. \E x \in {1, k} : \A y \in {1, k} : x >= y
    BY <1>2
  <1>4. Max({1, k}) \in {1, k} /\ Max({1, k}) >= 1
    BY <1>3 DEF Max
  <1>5. Max({1, k}) \in Nat
    BY <1>2, <1>4
  <1>6. NextAt(s, t) = t + Interval[s] * Max({1, k})
    BY DEF NextAt, k
  <1>7. Interval[s] * Max({1, k}) \in Nat
    BY <1>1, <1>5
  <1>8. QED
    BY <1>1, <1>6, <1>7

(* What a finished schedule says.                                          *)
Ending == {"sent", "unknown_delivery", "failed", "session_missing", "skipped", "deferred_while_working"}

(* It keeps its type and ends, or waits for its next time.                 *)
LEMMA FinishedIs ==
  ASSUME NEW r \in Schedule, NEW s \in Scheds, NEW t \in Times, NEW state \in Ending, NEW decision,
         now \in Nat
  PROVE  LET f == Finished(r, s, t, state, decision)
         IN f \in Schedule /\ f.occ = t /\ f.state \in {state, "enabled"}
  <1> DEFINE q == [r EXCEPT !.occ = t, !.doubt = Doubts(r, decision)]
  <1>1. /\ r.doubt \in BOOLEAN /\ r.enabled \in BOOLEAN /\ t \in 0 .. MaxTime /\ t \in Nat
        /\ {state, "enabled"} \subseteq ScheduleStates /\ NextAt(s, t) \in Nat
    BY NextAtType, TimerAssumption
    DEF Schedule, Times, Ending, ScheduleStates, TimerTerminal, Lasting, Stoppable
  <1>2. Doubts(r, decision) \in BOOLEAN
    BY <1>1 DEF Doubts
  <1>3. q \in Schedule /\ q.occ = t
    BY <1>1, <1>2 DEF Schedule
  <1> HIDE DEF q
  <1>4. \A e \in BOOLEAN, x \in {state, "enabled"} :
          LET f == [q EXCEPT !.state = x, !.enabled = e]
          IN f \in Schedule /\ f.occ = t /\ f.state = x
    BY <1>1, <1>3 DEF Schedule
  <1>5. LET f == [q EXCEPT !.state = "enabled", !.enabled = TRUE, !.next = NextAt(s, t)]
        IN f \in Schedule /\ f.occ = t /\ f.state = "enabled"
    BY <1>1, <1>3 DEF Schedule
  <1>6. CASE Mode[s] = "interval" /\ state \in OccurrenceTerminal
    <2>1. Finished(r, s, t, state, decision) =
            IF state = "session_missing"
            THEN [q EXCEPT !.state = state, !.enabled = FALSE]
            ELSE [q EXCEPT !.state = "enabled", !.enabled = TRUE, !.next = NextAt(s, t)]
      BY <1>6 DEF Finished, q
    <2>2. QED
      BY <1>4, <1>5, <2>1
  <1>7. CASE ~(Mode[s] = "interval" /\ state \in OccurrenceTerminal)
    <2>1. Finished(r, s, t, state, decision) =
            [q EXCEPT !.state = state,
                      !.enabled = IF state \in OccurrenceTerminal THEN FALSE ELSE r.enabled]
      BY <1>7 DEF Finished, q
    <2>2. QED
      BY <1>1, <1>4, <2>1
  <1>8. QED
    BY <1>6, <1>7

(* The maps a finished occurrence leaves: in step with each other, and     *)
(* changed for the schedule that was served only.                          *)
LEMMA FinishDbIs ==
  ASSUME NEW db \in Maps, NEW m \in Maps, NEW s \in Scheds, NEW t \in Times,
         NEW state \in Ending, NEW decision, now \in Nat
  PROVE  LET e == FinishDb(db, m, s, t, state, decision)
             f == FinishRead(db, m, s, t, state, decision)
         IN /\ e \in Maps /\ f \in Maps
            /\ IF db[s].state \in Lasting
               THEN /\ f = m /\ e[s].state = db[s].state
                    /\ \A u \in Scheds \ {s} : e[u] = db[u]
               ELSE /\ f = e /\ e[s].occ = t /\ e[s].state \in {state, "enabled"}
                    /\ \A u \in Scheds \ {s} : e[u] = m[u]
  <1> DEFINE e == FinishDb(db, m, s, t, state, decision)
             f == FinishRead(db, m, s, t, state, decision)
  <1>1. CASE db[s].state \in Lasting
    <2>1. e = [db EXCEPT ![s].occ = t, ![s].doubt = Doubts(db[s], decision)] /\ f = m
      BY <1>1 DEF FinishDb, FinishRead
    <2>a. db[s] \in Schedule /\ t \in 0 .. MaxTime
      BY TimerAssumption DEF Maps, Times
    <2>b. Doubts(db[s], decision) \in BOOLEAN
      BY <2>a DEF Schedule, Doubts
    <2>2. db[s] \in Schedule /\ Doubts(db[s], decision) \in BOOLEAN /\ t \in 0 .. MaxTime
      BY <2>a, <2>b
    <2>3. [db[s] EXCEPT !.occ = t, !.doubt = Doubts(db[s], decision)] \in Schedule
      BY <2>2 DEF Schedule
    <2>4. e[s] = [db[s] EXCEPT !.occ = t, !.doubt = Doubts(db[s], decision)]
      BY <2>1, <2>2 DEF Maps, Schedule
    <2>5. e \in Maps /\ \A u \in Scheds \ {s} : e[u] = db[u]
      BY <2>1, <2>3, <2>4 DEF Maps
    <2>6. e[s].state = db[s].state
      BY <2>2, <2>4 DEF Schedule
    <2>7. QED
      BY <1>1, <2>1, <2>5, <2>6
  <1>2. CASE db[s].state \notin Lasting
    <2>1. e = [m EXCEPT ![s] = Finished(m[s], s, t, state, decision)] /\ f = e
      BY <1>2 DEF FinishDb, FinishRead
    <2>2. m[s] \in Schedule
      BY DEF Maps
    <2>3. /\ Finished(m[s], s, t, state, decision) \in Schedule
          /\ Finished(m[s], s, t, state, decision).occ = t
          /\ Finished(m[s], s, t, state, decision).state \in {state, "enabled"}
      BY <2>2, FinishedIs
    <2>4. QED
      BY <1>2, <2>1, <2>3 DEF Maps
  <1>3. QED
    BY <1>1, <1>2

(* A schedule that is claimed is due, and is claimed in the tick's map.    *)
LEMMA ServesIs ==
  ASSUME NEW db \in Maps, NEW m \in Maps, NEW s \in 0 .. N, now \in 0 .. MaxTime, Serves(db, m, s)
  PROVE  \/ schedules' = db /\ tick' = NoTick
         \/ \E n \in Scheds, c \in Maps :
              /\ m[n].state \notin TimerTerminal
              /\ \A u \in Scheds \ {n} : c[u] = m[u]
              /\ c[n].state \in {"claimed", "send_pending", "deferred_while_working"}
              /\ schedules' = c \/ (schedules' = db /\ c = m)
              /\ c[n].at = m[n].at /\ c[n].next = m[n].next
              /\ tick' \in Ticks /\ tick'.sched = n /\ tick'.read = c
              /\ tick'.occ = OccurrenceAt(m[n], n)
              /\ tick'.at \in {"busy", "status", "resume"}
              /\ tick'.at = "busy" => Policy[n] = "skip"
  <1>1. CASE Due(m, s) = {}
    BY <1>1 DEF Serves
  <1>2. CASE Due(m, s) # {}
    <2> DEFINE n == Min(Due(m, s))
               t == OccurrenceAt(m[n], n)
               claimed == [m EXCEPT ![n].state = "claimed", ![n].occ = t]
               pending == [m EXCEPT ![n].state = "send_pending"]
               awaits(what, map) ==
                 [at |-> what, sched |-> n, occ |-> t, was |-> m[n].occ, read |-> map]
    <2>1. Due(m, s) \in SUBSET Nat
      BY TimerAssumption DEF Due, Scheds
    <2>2. n \in Scheds /\ Claimable(m[n], n)
      BY <1>2, <2>1, LeastIs DEF Due
    <2>3. /\ m[n].state = "deferred_while_working" => schedules' = db /\ tick' = awaits("resume", m)
          /\ m[n].state # "deferred_while_working" /\ Policy[n] = "skip" =>
               schedules' = claimed /\ tick' = awaits("busy", claimed)
          /\ m[n].state # "deferred_while_working" /\ Policy[n] # "skip" =>
               schedules' = pending /\ tick' = awaits("status", pending)
      BY <1>2 DEF Serves
    <2> HIDE DEF n
    <2>4. /\ m[n] \in Schedule /\ m[n].state \notin TimerTerminal
          /\ m[n].at \in Times /\ m[n].next \in Nat /\ m[n].occ \in 0 .. MaxTime
      BY <2>2 DEF Maps, Schedule, Claimable
    <2>5. t \in Times /\ t \in 0 .. MaxTime
      BY <2>2, <2>4, TimerAssumption DEF Claimable, OccurrenceAt, Times
    <2>t. t = OccurrenceAt(m[n], n)
      OBVIOUS
    <2> HIDE DEF t
    <2>6. \A o \in 0 .. MaxTime, x \in {"claimed", "send_pending"} :
            [m[n] EXCEPT !.state = x, !.occ = o] \in Schedule
      <3>1. {"claimed", "send_pending"} \subseteq ScheduleStates
        BY DEF ScheduleStates, Stoppable
      <3>2. QED
        BY <2>4, <3>1 DEF Schedule
    <2>7. claimed[n] = [m[n] EXCEPT !.state = "claimed", !.occ = t]
      BY <2>2, <2>4 DEF Maps
    <2>8. /\ claimed \in Maps /\ claimed[n].state = "claimed"
          /\ claimed[n].at = m[n].at /\ claimed[n].next = m[n].next
          /\ \A u \in Scheds \ {n} : claimed[u] = m[u]
      <3>1. /\ claimed[n] \in Schedule /\ claimed[n].state = "claimed"
            /\ claimed[n].at = m[n].at /\ claimed[n].next = m[n].next
        BY <2>4, <2>5, <2>6, <2>7 DEF Schedule
      <3>2. QED
        BY <2>2, <3>1 DEF Maps
    <2>9. /\ pending \in Maps /\ pending[n].state = "send_pending"
          /\ pending[n].at = m[n].at /\ pending[n].next = m[n].next
          /\ \A u \in Scheds \ {n} : pending[u] = m[u]
      <3>1. [m[n] EXCEPT !.state = "send_pending"] \in Schedule
        BY <2>4 DEF Schedule, ScheduleStates, Stoppable
      <3>2. pending[n] = [m[n] EXCEPT !.state = "send_pending"]
        BY <2>2 DEF Maps
      <3>3. /\ pending[n].state = "send_pending"
            /\ pending[n].at = m[n].at /\ pending[n].next = m[n].next
        BY <2>4, <3>2 DEF Schedule
      <3>4. QED
        BY <2>2, <3>1, <3>2, <3>3 DEF Maps
    <2> HIDE DEF claimed, pending
    <2>10. \A what \in {"busy", "status", "resume"}, map \in Maps :
             awaits(what, map) \in Ticks /\ awaits(what, map).occ = OccurrenceAt(m[n], n)
      BY <2>2, <2>4, <2>5, <2>t DEF Ticks, Maps
    <2>11. CASE m[n].state = "deferred_while_working"
      <3>1. schedules' = db /\ tick' = awaits("resume", m)
        BY <2>3, <2>11
      <3>2. QED
        BY <2>2, <2>4, <2>10, <2>11, <3>1
    <2>12. CASE m[n].state # "deferred_while_working" /\ Policy[n] = "skip"
      <3>1. schedules' = claimed /\ tick' = awaits("busy", claimed)
        BY <2>3, <2>12
      <3>2. QED
        BY <2>2, <2>4, <2>8, <2>10, <2>12, <3>1
    <2>13. CASE m[n].state # "deferred_while_working" /\ Policy[n] # "skip"
      <3>1. schedules' = pending /\ tick' = awaits("status", pending)
        BY <2>3, <2>13
      <3>2. QED
        BY <2>2, <2>4, <2>9, <2>10, <3>1
    <2>14. QED
      BY <2>11, <2>12, <2>13
  <1>3. QED
    BY <1>1, <1>2
-----------------------------------------------------------------------------
(* What the outbox may forget: nothing that it settled.                    *)
Settles ==
  \A i \in Intents :
    /\ intent[i] \in {"sent", "failed"} => intent'[i] = intent[i]
    /\ intent[i] \in {"unknown_delivery", "proved"} => intent'[i] \in {"unknown_delivery", "proved"}

(* So what a map says of it stays true.                                    *)
LEMMA TruthStays ==
  ASSUME Settles, NEW map, Truth(map, intent)
  PROVE  Truth(map, intent')
  BY DEF Settles, Truth, Intents

(* What else the rest of a tick leaves in order: the outbox, the flush and *)
(* what is not the tick's.                                                 *)
Rest ==
  /\ intent' \in [Intents -> IntentStates] /\ Settles
  /\ \A i \in Intents : intent'[i] # "sending"
  /\ SkipsOnlySkip' /\ flush' = NoFlush
  /\ UNCHANGED <<now, ops, faults, fate, fired>>

(* The rest of a tick's run on maps that are in order.                     *)
LEMMA ServesKeeps ==
  ASSUME TypeOK, Rest, NEW db \in Maps, NEW m \in Maps, NEW s \in 0 .. N, Serves(db, m, s),
         Truth(db, intent'), Truth(m, intent'),
         \A u \in Scheds : db[u] = m[u] \/ db[u].state \in Controlled,
         \A u \in Scheds : fate[u] = "quiet" => db[u].state \in Over /\ m[u].state \in Over
  PROVE  Inv'
  <1>0. /\ flush' \in [todo : SUBSET Intents, sending : SUBSET Intents, outcome : Outcomes]
        /\ flush'.todo = {} /\ flush'.sending = {}
    BY DEF Rest, NoFlush, Outcomes
  <1>1. CASE schedules' = db /\ tick' = NoTick
    <2>1. TypeOK'
      BY <1>0, <1>1 DEF TypeOK, Rest, Maps
    <2>2. TickHolds' /\ InFlight' /\ Noted' /\ QuietIsOver'
      BY <1>0, <1>1 DEF TickHolds, InFlight, Noted, QuietIsOver, Rest, NoTick
    <2>3. QED
      BY <1>1, <2>1, <2>2 DEF Inv, Rest
  <1>2. ASSUME NEW n \in Scheds, NEW c \in Maps,
               m[n].state \notin TimerTerminal,
               \A u \in Scheds \ {n} : c[u] = m[u],
               c[n].state \in {"claimed", "send_pending", "deferred_while_working"},
               schedules' = c \/ (schedules' = db /\ c = m),
               tick' \in Ticks, tick'.sched = n, tick'.read = c,
               tick'.at \in {"busy", "status", "resume"},
               tick'.at = "busy" => Policy[n] = "skip"
        PROVE  Inv'
    <2>1. TypeOK'
      BY <1>0, <1>2 DEF TypeOK, Rest, Maps
    <2>2. Truth(c, intent')
      BY <1>2 DEF Truth
    <2>3. Truth(schedules', intent')
      BY <1>2, <2>2
    <2>4. \A u \in Scheds : schedules'[u] = c[u] \/ schedules'[u].state \in Controlled
      BY <1>2
    <2>5. TickHolds'
      BY <1>2, <2>2, <2>4 DEF TickHolds
    <2>6. InFlight' /\ Noted'
      BY <1>0, <1>2 DEF InFlight, Noted, Rest
    <2>7. QuietIsOver'
      <3>1. \A u \in Scheds : fate[u] = "quiet" => u # n
        BY <1>2 DEF Over, TimerTerminal, Lasting
      <3>2. QED
        BY <1>2, <3>1 DEF QuietIsOver, Rest
    <2>8. QED
      BY <2>1, <2>3, <2>5, <2>6, <2>7 DEF Inv, Rest
  <1>3. QED
    BY <1>1, <1>2, ServesIs DEF TypeOK

(* What the tick knows of its maps while it is at work.                    *)
LEMMA TickKnows ==
  ASSUME Inv, tick # NoTick
  PROVE  /\ tick \in Ticks /\ tick.sched \in Scheds /\ tick.occ \in Times
         /\ tick.at \in {"busy", "status", "send", "resume", "flush", "resend"}
         /\ tick.read \in Maps /\ schedules \in Maps /\ Occurrence \in Intents
         /\ tick.sched \in 0 .. N
         /\ \A u \in Scheds : schedules[u] = tick.read[u] \/ schedules[u].state \in Controlled
         /\ \A u \in Scheds : fate[u] = "quiet" =>
              schedules[u].state \in Over /\ tick.read[u].state \in Over /\ u # tick.sched
  <1>1. tick \in Ticks /\ schedules \in Maps
    BY DEF Inv, TypeOK, Maps
  <1>2. /\ tick.sched \in Scheds /\ tick.occ \in Times /\ tick.read \in Maps
        /\ tick.at \in {"busy", "status", "send", "resume", "flush", "resend"}
    BY <1>1 DEF Ticks, Maps
  <1>3. Occurrence \in Intents /\ tick.sched \in 0 .. N
    BY <1>2, TimerAssumption DEF Occurrence, Intents, Scheds
  <1>4. QED
    BY <1>1, <1>2, <1>3 DEF Inv, TickHolds, QuietIsOver

(* The tick goes on without a word about its schedule.                     *)
LEMMA PassesKeeps ==
  ASSUME Inv, tick # NoTick, Rest, Serves(schedules, tick.read, tick.sched)
  PROVE  Inv'
  <1>1. Truth(schedules, intent') /\ Truth(tick.read, intent')
    BY TruthStays DEF Rest, Inv, TickHolds
  <1>2. QED
    BY <1>1, TickKnows, ServesKeeps DEF Inv

(* It finishes its schedule as the outbox has it.                          *)
LEMMA FinishKeeps ==
  ASSUME Inv, tick # NoTick, Rest, NEW state \in Ending, NEW decision,
         FinishAndServe(state, decision),
         state = "sent" => intent'[Occurrence] = "sent",
         state = "unknown_delivery" => intent'[Occurrence] \in {"unknown_delivery", "proved"},
         state \in {"failed", "session_missing"} /\ Policy[tick.sched] = "defer" =>
           intent'[Occurrence] = "failed"
  PROVE  Inv'
  <1>1. PICK s \in Scheds, t \in Times, m \in Maps, db \in Maps :
          s = tick.sched /\ t = tick.occ /\ m = tick.read /\ db = schedules
    BY TickKnows
  <1> DEFINE e == FinishDb(db, m, s, t, state, decision)
             f == FinishRead(db, m, s, t, state, decision)
  <1>2. Serves(e, f, s)
    BY <1>1 DEF FinishAndServe
  <1>3. /\ e \in Maps /\ f \in Maps
        /\ IF db[s].state \in Lasting
           THEN /\ f = m /\ e[s].state = db[s].state
                /\ \A u \in Scheds \ {s} : e[u] = db[u]
           ELSE /\ f = e /\ e[s].occ = t /\ e[s].state \in {state, "enabled"}
                /\ \A u \in Scheds \ {s} : e[u] = m[u]
    <2>1. now \in Nat
      BY TimerAssumption DEF Inv, TypeOK
    <2>2. QED
      BY <2>1, FinishDbIs
  <1>4. Truth(db, intent') /\ Truth(m, intent')
    BY <1>1, TruthStays DEF Rest, Inv, TickHolds
  <1>5. /\ \A u \in Scheds : db[u] = m[u] \/ db[u].state \in Controlled
        /\ \A u \in Scheds : fate[u] = "quiet" =>
             db[u].state \in Over /\ m[u].state \in Over /\ u # s
    BY <1>1, TickKnows
  <1>6. Occurrence = <<s, t>>
    BY <1>1 DEF Occurrence
  <1> HIDE DEF e, f
  <1>7. CASE db[s].state \in Lasting
    <2>1. Truth(e, intent')
      BY <1>3, <1>4, <1>7 DEF Truth, Lasting
    <2>2. \A u \in Scheds : e[u] = f[u] \/ e[u].state \in Controlled
      BY <1>3, <1>5, <1>7 DEF Lasting, Controlled
    <2>3. \A u \in Scheds : fate[u] = "quiet" => e[u].state \in Over /\ f[u].state \in Over
      BY <1>3, <1>5, <1>7
    <2>4. s \in 0 .. N
      BY TimerAssumption DEF Scheds
    <2>5. QED
      BY <1>2, <1>3, <1>4, <1>7, <2>1, <2>2, <2>3, <2>4, ServesKeeps DEF Inv
  <1>8. CASE db[s].state \notin Lasting
    <2>1. Truth(e, intent')
      BY <1>1, <1>3, <1>4, <1>6, <1>8 DEF Truth
    <2>2. \A u \in Scheds : fate[u] = "quiet" => e[u].state \in Over
      BY <1>3, <1>5, <1>8
    <2>3. s \in 0 .. N
      BY TimerAssumption DEF Scheds
    <2>4. QED
      BY <1>2, <1>3, <1>8, <2>1, <2>2, <2>3, ServesKeeps DEF Inv
  <1>9. QED
    BY <1>7, <1>8
-----------------------------------------------------------------------------
(* While nothing is sent, an outbox that keeps its settled outcomes leaves *)
(* the rest of a tick to do.                                               *)
LEMMA RestIs ==
  ASSUME Inv, tick # NoTick, NEW k \in IntentStates \ {"sending"}, NEW D \in SUBSET Intents,
         \A i \in D : intent[i] \in {"none", "sending", "deferred"},
         \A i \in Intents \ D : intent[i] # "sending",
         k = "skipped" => \A i \in D : Policy[i[1]] = "skip",
         intent' = [i \in Intents |-> IF i \in D THEN k ELSE intent[i]],
         flush' = NoFlush, UNCHANGED <<now, ops, faults, fate, fired>>
  PROVE  Rest
  <1>1. intent \in [Intents -> IntentStates]
    BY DEF Inv, TypeOK
  <1>2. intent' \in [Intents -> IntentStates]
    BY <1>1
  <1>3. Settles
    BY <1>1 DEF Settles
  <1>4. \A i \in Intents : intent'[i] # "sending"
    BY <1>1
  <1>5. SkipsOnlySkip'
    BY <1>1 DEF Inv, SkipsOnlySkip
  <1>6. QED
    BY <1>2, <1>3, <1>4, <1>5 DEF Rest

(* The same when the outbox is not touched.                                *)
LEMMA RestStays ==
  ASSUME Inv, tick # NoTick, \A i \in Intents : intent[i] # "sending",
         flush' = NoFlush, UNCHANGED <<intent, now, ops, faults, fate, fired>>
  PROVE  Rest
  <1>1. intent \in [Intents -> IntentStates]
    BY DEF Inv, TypeOK
  <1>2. QED
    BY <1>1 DEF Rest, Settles, Inv, SkipsOnlySkip

(* A tick that awaits neither a send nor a flush's send.                   *)
LEMMA NoneSent ==
  ASSUME Inv, tick # NoTick, tick.at \notin {"send", "resend"}
  PROVE  \A i \in Intents : intent[i] # "sending"
  BY DEF Inv, InFlight

(* Nor is there a flush.                                                   *)
LEMMA NoFlushYet ==
  ASSUME Inv, tick # NoTick, tick.at \notin {"flush", "resend"}
  PROVE  flush = NoFlush
  BY DEF Inv, InFlight

(* An action of a tick's await finds a tick.                               *)
LEMMA AwaitsTick ==
  ASSUME tick.at # "idle"
  PROVE  tick # NoTick
  BY DEF NoTick

(* The status of a skip schedule's target was read.                        *)
LEMMA BusyKeeps ==
  ASSUME Inv, NEW b \in {"working", "error", "other"}, BusyAnswers(b)
  PROVE  Inv'
  <1>1. tick # NoTick /\ tick.at = "busy"
    BY AwaitsTick DEF BusyAnswers
  <1>2. Policy[tick.sched] = "skip"
    BY <1>1 DEF Inv, TickHolds
  <1>3. \A i \in Intents : intent[i] # "sending"
    BY <1>1, NoneSent
  <1>4. flush = NoFlush
    BY <1>1, NoFlushYet
  <1>5. Rest
    BY <1>1, <1>3, <1>4, RestStays DEF BusyAnswers
  <1>6. CASE b = "working"
    <2>1. FinishAndServe("skipped", "skipped")
      BY <1>6 DEF BusyAnswers
    <2>2. "skipped" \in Ending
      BY DEF Ending
    <2>3. QED
      BY <1>1, <1>5, <2>1, <2>2, FinishKeeps
  <1>7. CASE b = "error"
    <2>1. PICK e \in {"failed", "session_missing"} : FinishAndServe(e, "")
      BY <1>7 DEF BusyAnswers
    <2>2. e \in Ending /\ e # "sent" /\ e # "unknown_delivery"
      BY DEF Ending
    <2>3. QED
      BY <1>1, <1>2, <1>5, <2>1, <2>2, FinishKeeps
  <1>8. CASE b = "other"
    <2>1. PICK s \in Scheds, m \in Maps : s = tick.sched /\ m = tick.read
      BY <1>1, TickKnows
    <2>2. PICK c : c = [m EXCEPT ![s].state = "send_pending", ![s].occ = tick.was]
      OBVIOUS
    <2>3. schedules' = c /\ tick' = [tick EXCEPT !.at = "status", !.read = c]
      BY <1>8, <2>1, <2>2 DEF BusyAnswers
    <2>4. tick \in Ticks /\ tick.was \in 0 .. MaxTime
      BY <1>1, TickKnows DEF Ticks
    <2>5. m[s] \in Schedule /\ "send_pending" \in ScheduleStates
      BY DEF Maps, ScheduleStates, Stoppable
    <2>6. [m[s] EXCEPT !.state = "send_pending", !.occ = tick.was] \in Schedule
      BY <2>4, <2>5 DEF Schedule
    <2>7. c[s] = [m[s] EXCEPT !.state = "send_pending", !.occ = tick.was]
      BY <2>2 DEF Maps
    <2>8. c[s].state = "send_pending"
      BY <2>5, <2>7 DEF Schedule
    <2>9. c \in Maps /\ \A u \in Scheds \ {s} : c[u] = m[u]
      BY <2>2, <2>6, <2>7 DEF Maps
    <2>10. tick' \in Ticks /\ tick'.sched = s /\ tick'.read = c /\ tick'.at = "status"
      BY <2>1, <2>3, <2>4, <2>9 DEF Ticks, Maps
    <2>11. Truth(c, intent')
      BY <1>1, <1>8, <2>1, <2>8, <2>9 DEF Truth, Inv, TickHolds, BusyAnswers
    <2>12. TypeOK'
      BY <1>8, <2>3, <2>9, <2>10 DEF BusyAnswers, Inv, TypeOK, Maps
    <2>13. TickHolds'
      BY <2>3, <2>8, <2>10, <2>11 DEF TickHolds
    <2>14. InFlight' /\ Noted' /\ SkipsOnlySkip'
      BY <1>3, <1>4, <1>8, <2>10 DEF InFlight, Noted, NoFlush, Inv, SkipsOnlySkip, BusyAnswers
    <2>15. QuietIsOver'
      <3>1. \A u \in Scheds : fate[u] = "quiet" => m[u].state \in Over /\ u # s
        BY <1>1, <2>1, TickKnows
      <3>2. fate' = fate
        BY DEF BusyAnswers
      <3>3. QED
        BY <2>3, <2>9, <2>10, <3>1, <3>2 DEF QuietIsOver
    <2>16. QED
      BY <2>3, <2>11, <2>12, <2>13, <2>14, <2>15 DEF Inv
  <1>9. QED
    BY <1>6, <1>7, <1>8

(* An occurrence that has a record is finished as it says.                 *)
LEMMA RepeatKeeps ==
  ASSUME Inv, DispatchRepeats
  PROVE  Inv'
  <1>1. tick # NoTick /\ tick.at = "status"
    BY AwaitsTick DEF DispatchRepeats
  <1>2. Rest
    BY <1>1, NoneSent, NoFlushYet, RestStays DEF DispatchRepeats
  <1>3. PICK i \in Intents : i = Occurrence /\ i[1] = tick.sched
    BY <1>1, TickKnows DEF Occurrence
  <1>4. /\ intent[i] \in IntentStates \ {"none", "sending"} /\ intent' = intent
        /\ intent[i] = "skipped" => Policy[tick.sched] = "skip"
    BY <1>1, <1>3, NoneSent DEF DispatchRepeats, Inv, TypeOK, SkipsOnlySkip
  <1>5. /\ Policy[tick.sched] = "skip" => Policy[tick.sched] # "defer"
        /\ intent[i] \in {"deferred", "sent", "unknown_delivery", "proved", "failed", "skipped"}
    BY <1>4 DEF IntentStates
  <1> DEFINE k == Recorded(i)
             x == ScheduleStateFor(k)
  <1>6. /\ k = IF intent[i] = "proved" THEN "unknown_delivery" ELSE intent[i]
        /\ FinishAndServe(x, k)
    BY <1>3 DEF Recorded, DispatchRepeats
  <1> HIDE DEF k
  <1>7. /\ k \in {"sent", "unknown_delivery"} => x = k
        /\ k = "deferred" => x = "deferred_while_working"
        /\ k \in {"failed", "skipped"} => x = "failed"
    BY DEF ScheduleStateFor
  <1> HIDE DEF x
  <1>8. x \in Ending
    BY <1>5, <1>6, <1>7 DEF Ending
  <1>9. /\ x = "sent" => intent'[Occurrence] = "sent"
        /\ x = "unknown_delivery" => intent'[Occurrence] \in {"unknown_delivery", "proved"}
        /\ x \in {"failed", "session_missing"} /\ Policy[tick.sched] = "defer" =>
             intent'[Occurrence] = "failed"
    BY <1>3, <1>4, <1>5, <1>6, <1>7
  <1>10. QED
    BY <1>1, <1>2, <1>6, <1>8, <1>9, FinishKeeps

(* The step in which an intent crosses to the transport: a fresh one       *)
(* of a dispatch.                                                          *)
LEMMA CrossKeeps ==
  ASSUME Inv, tick # NoTick, tick.at = "status", flush = NoFlush,
         \A j \in Intents : intent[j] # "sending", Occurrence \in Intents,
         intent[Occurrence] = "none", Cross(Occurrence),
         tick' = [tick EXCEPT !.at = "send"],
         UNCHANGED <<schedules, flush, now, ops, faults, fate>>
  PROVE  Inv'
  <1>1. PICK i \in Intents : i = Occurrence
    OBVIOUS
  <1>2. /\ intent' = [intent EXCEPT ![i] = "sending"]
        /\ fired' = [fired EXCEPT ![i[1]] = IF fate[i[1]] = "own" THEN now ELSE @]
    BY <1>1 DEF Cross
  <1>3. intent \in [Intents -> IntentStates] /\ tick \in Ticks
    BY TickKnows DEF Inv, TypeOK
  <1>4. /\ intent' \in [Intents -> IntentStates] /\ intent'[i] = "sending"
        /\ \A j \in Intents \ {i} : intent'[j] = intent[j]
    BY <1>2, <1>3 DEF IntentStates
  <1>5. /\ tick' \in Ticks /\ tick'.at = "send" /\ tick'.sched = tick.sched
        /\ tick'.read = tick.read /\ tick'.occ = tick.occ
    BY <1>3 DEF Ticks
  <1>6. Occurrence' = i
    BY <1>1, <1>5 DEF Occurrence
  <1>7. fired' \in [Scheds -> 0 .. MaxTime]
    BY <1>2 DEF Inv, TypeOK
  <1>8. TypeOK'
    BY <1>4, <1>5, <1>7 DEF Inv, TypeOK
  <1>9. Settles
    BY <1>1, <1>4 DEF Settles
  <1>10. Truth(schedules', intent') /\ Truth(tick'.read, intent')
    BY <1>5, <1>9, TruthStays DEF Inv, TickHolds
  <1>11. TickHolds' /\ QuietIsOver'
    BY <1>5, <1>10 DEF Inv, TickHolds, QuietIsOver
  <1>12. InFlight' /\ Noted'
    BY <1>4, <1>5, <1>6 DEF InFlight, Noted, NoFlush
  <1>13. SkipsOnlySkip'
    BY <1>4 DEF Inv, SkipsOnlySkip
  <1>14. QED
    BY <1>8, <1>10, <1>11, <1>12, <1>13 DEF Inv

(* A new occurrence is sent, deferred or failed by the gate.               *)
LEMMA ObservesKeeps ==
  ASSUME Inv, NEW o \in Gates, DispatchObserves(o)
  PROVE  Inv'
  <1>1. tick # NoTick /\ tick.at = "status"
    BY AwaitsTick DEF DispatchObserves
  <1>2. flush = NoFlush /\ \A i \in Intents : intent[i] # "sending"
    BY <1>1, NoneSent, NoFlushYet
  <1>3. PICK i \in Intents : i = Occurrence
    BY <1>1, TickKnows
  <1>4. intent[i] = "none" /\ intent \in [Intents -> IntentStates]
    BY <1>3 DEF DispatchObserves, Inv, TypeOK
  <1>5. CASE o = "send"
    <2>1. /\ Cross(i) /\ tick' = [tick EXCEPT !.at = "send"]
          /\ UNCHANGED <<schedules, flush, now, ops, faults, fate>>
      BY <1>3, <1>5 DEF DispatchObserves, Gates
    <2>2. QED
      BY <1>1, <1>2, <1>3, <1>4, <2>1, CrossKeeps
  <1>6. ASSUME NEW k \in {"deferred", "failed"}, NEW state \in Ending, NEW decision,
               intent' = [intent EXCEPT ![Occurrence] = k], FinishAndServe(state, decision),
               UNCHANGED <<fired, flush, now, ops, faults, fate>>,
               state \notin {"sent", "unknown_delivery"},
               state \in {"failed", "session_missing"} => k = "failed"
        PROVE  Inv'
    <2>1. intent' = [j \in Intents |-> IF j \in {i} THEN k ELSE intent[j]]
      BY <1>3, <1>4, <1>6
    <2>2. k \in IntentStates \ {"sending"} /\ k # "skipped"
      BY DEF IntentStates
    <2>3. Rest
      BY ZenonT(60), <1>1, <1>2, <1>4, <1>6, <2>1, <2>2, RestIs
    <2>4. intent'[Occurrence] = k
      BY <1>3, <2>1
    <2>5. QED
      BY <1>1, <1>6, <2>3, <2>4, FinishKeeps
  <1>7. CASE o = "defer"
    <2>1. "deferred_while_working" \in Ending
      BY DEF Ending
    <2>2. QED
      BY <1>6, <1>7, <2>1 DEF DispatchObserves
  <1>8. CASE o \in {"failed", "session_missing"}
    <2>1. o \in Ending
      BY <1>8 DEF Ending
    <2>2. QED
      BY <1>6, <1>8, <2>1 DEF DispatchObserves
  <1>9. QED
    BY <1>5, <1>7, <1>8 DEF Gates

(* The transport answered the tick's own send.                             *)
LEMMA ReplyKeeps ==
  ASSUME Inv, NEW k \in Replies, SendReplies(k)
  PROVE  Inv'
  <1>1. tick # NoTick /\ tick.at = "send"
    BY AwaitsTick DEF SendReplies
  <1>2. PICK i \in Intents : i = Occurrence
    BY <1>1, TickKnows
  <1>3. /\ intent \in [Intents -> IntentStates] /\ intent[i] = "sending"
        /\ \A j \in Intents \ {i} : intent[j] # "sending"
    BY <1>1, <1>2 DEF Inv, TypeOK, InFlight
  <1>4. intent' = [j \in Intents |-> IF j \in {i} THEN k ELSE intent[j]]
    BY <1>2, <1>3 DEF SendReplies
  <1>5. k \in IntentStates \ {"sending"} /\ k # "skipped"
    BY DEF IntentStates, Replies
  <1>6. flush' = NoFlush /\ UNCHANGED <<now, ops, faults, fate, fired>>
    BY <1>1, NoFlushYet DEF SendReplies
  <1>7. Rest
    BY <1>1, <1>3, <1>4, <1>5, <1>6, RestIs
  <1> DEFINE decision == IF k = "failed" THEN "fail_closed" ELSE k
  <1>8. PICK x \in StatesFor(k) : FinishAndServe(x, decision)
    BY DEF SendReplies
  <1>9. /\ k \in {"sent", "unknown_delivery"} => x = k
        /\ k = "deferred" => x = "deferred_while_working"
        /\ k = "failed" => x \in {"failed", "session_missing"}
    BY DEF StatesFor, ScheduleStateFor
  <1> HIDE DEF decision
  <1>10. x \in Ending
    BY <1>9 DEF Ending, Replies
  <1>11. intent'[Occurrence] = k
    BY <1>2, <1>4
  <1>12. /\ x = "sent" => k = "sent"
         /\ x = "unknown_delivery" => k = "unknown_delivery"
         /\ x \in {"failed", "session_missing"} => k = "failed"
    BY <1>9 DEF Replies
  <1>13. QED
    BY <1>1, <1>7, <1>8, <1>10, <1>11, <1>12, FinishKeeps

(* A deferred schedule found its target's status.                          *)
LEMMA ResumesKeeps ==
  ASSUME Inv, NEW o \in {"send", "defer", "fail"}, Resumes(o)
  PROVE  Inv'
  <1> DEFINE D == DeferredFor(tick.sched)
  <1>1. tick # NoTick /\ tick.at = "resume" /\ UNCHANGED <<now, ops, faults, fate, fired>>
    BY AwaitsTick DEF Resumes
  <1>2. flush = NoFlush /\ \A i \in Intents : intent[i] # "sending"
    BY <1>1, NoneSent, NoFlushYet
  <1>3. D \in SUBSET Intents /\ \A i \in D : intent[i] = "deferred"
    BY DEF DeferredFor
  <1>4. CASE o = "fail"
    <2>1. /\ intent' = [i \in Intents |-> IF i \in D THEN "failed" ELSE intent[i]]
          /\ flush' = NoFlush
          /\ IF Occurrence \in D
             THEN FinishAndServe("failed", "")
             ELSE Serves(schedules, tick.read, tick.sched)
      BY <1>2, <1>4 DEF Resumes
    <2>2. "failed" \in IntentStates \ {"sending"} /\ "failed" # "skipped" /\ "failed" \in Ending
      BY DEF IntentStates, Ending
    <2> HIDE DEF D
    <2>3. Rest
      BY <1>1, <1>2, <1>3, <2>1, <2>2, RestIs
    <2>4. CASE Occurrence \in D
      <3>1. intent'[Occurrence] = "failed" /\ FinishAndServe("failed", "")
        BY <1>3, <2>1, <2>4
      <3>2. QED
        BY <1>1, <2>2, <2>3, <3>1, FinishKeeps
    <2>5. CASE Occurrence \notin D
      BY <1>1, <2>1, <2>3, <2>5, PassesKeeps
    <2>6. QED
      BY <2>4, <2>5
  <1>5. CASE o = "defer"
    <2>1. UNCHANGED <<intent, flush>> /\ Serves(schedules, tick.read, tick.sched)
      BY <1>5 DEF Resumes
    <2>2. Rest
      BY <1>1, <1>2, <2>1, RestStays
    <2>3. QED
      BY <1>1, <2>1, <2>2, PassesKeeps
  <1>6. CASE o = "send"
    <2>1. /\ flush' = [NoFlush EXCEPT !.todo = D]
          /\ tick' = [tick EXCEPT !.at = "flush"]
          /\ UNCHANGED <<schedules, intent>>
      BY <1>6 DEF Resumes
    <2> HIDE DEF D
    <2>2. /\ flush'.todo = D /\ flush'.sending = {} /\ flush'.outcome = "none"
          /\ flush' \in [todo : SUBSET Intents, sending : SUBSET Intents, outcome : Outcomes]
      BY <1>3, <2>1 DEF NoFlush, Outcomes
    <2>3. tick \in Ticks
      BY <1>1, TickKnows
    <2>4. /\ tick' \in Ticks /\ tick'.at = "flush" /\ tick'.sched = tick.sched
          /\ tick'.read = tick.read
      BY <2>1, <2>3 DEF Ticks
    <2>5. TypeOK'
      BY <1>1, <2>1, <2>2, <2>4 DEF Inv, TypeOK
    <2>6. TickHolds' /\ QuietIsOver'
      BY <1>1, <2>1, <2>4 DEF Inv, TickHolds, QuietIsOver
    <2>7. InFlight' /\ Noted'
      BY <1>2, <1>3, <2>1, <2>2, <2>4 DEF InFlight, Noted
    <2>8. QED
      BY <2>1, <2>5, <2>6, <2>7 DEF Inv, SkipsOnlySkip
  <1>7. QED
    BY <1>4, <1>5, <1>6

(* Or it could not read it, which ends the tick.                           *)
LEMMA ThrowKeeps ==
  ASSUME Inv, ResumeThrows
  PROVE  Inv'
  <1>1. tick # NoTick /\ tick.at = "resume"
    BY AwaitsTick DEF ResumeThrows
  <1>2. flush = NoFlush /\ \A i \in Intents : intent[i] # "sending"
    BY <1>1, NoneSent, NoFlushYet
  <1>3. /\ tick' = NoTick
        /\ UNCHANGED <<schedules, intent, flush, now, ops, faults, fate, fired>>
    BY DEF ResumeThrows
  <1>4. TypeOK' /\ Truth(schedules', intent') /\ SkipsOnlySkip' /\ TickHolds' /\ QuietIsOver'
    BY <1>1, <1>3 DEF Inv, TypeOK, SkipsOnlySkip, TickHolds, QuietIsOver
  <1>5. InFlight' /\ Noted'
    BY <1>2, <1>3 DEF InFlight, Noted, NoTick, NoFlush
  <1>6. QED
    BY <1>4, <1>5 DEF Inv
-----------------------------------------------------------------------------
(* A flush sends a deferred intent, of any schedule of the target.         *)
LEMMA FlushSendKeeps ==
  ASSUME Inv, NEW i \in Intents, FlushSends(i)
  PROVE  Inv'
  <1>1. /\ tick # NoTick /\ tick.at = "flush" /\ i \in flush.todo
        /\ intent' = [intent EXCEPT ![i] = "sending"]
        /\ fired' = [fired EXCEPT ![i[1]] = IF fate[i[1]] = "own" THEN now ELSE @]
        /\ flush' = [flush EXCEPT !.todo = @ \ {i}, !.sending = {i}]
        /\ tick' = [tick EXCEPT !.at = "resend"]
        /\ UNCHANGED <<schedules, now, ops, faults, fate>>
    BY AwaitsTick DEF FlushSends, Cross
  <1>2. /\ intent[i] = "deferred" /\ \A j \in Intents : intent[j] # "sending"
        /\ \A j \in flush.todo : intent[j] = "deferred"
    BY <1>1, NoneSent DEF Inv, InFlight
  <1>3. /\ intent \in [Intents -> IntentStates] /\ tick \in Ticks
        /\ flush \in [todo : SUBSET Intents, sending : SUBSET Intents, outcome : Outcomes]
        /\ Occurrence \in Intents
    BY <1>1, TickKnows DEF Inv, TypeOK
  <1>4. /\ intent' \in [Intents -> IntentStates] /\ intent'[i] = "sending"
        /\ \A j \in Intents \ {i} : intent'[j] = intent[j]
    BY <1>1, <1>3 DEF IntentStates
  <1>5. /\ tick' \in Ticks /\ tick'.at = "resend" /\ tick'.sched = tick.sched
        /\ tick'.read = tick.read /\ tick'.occ = tick.occ
    BY <1>1, <1>3 DEF Ticks
  <1>6. /\ flush' \in [todo : SUBSET Intents, sending : SUBSET Intents, outcome : Outcomes]
        /\ flush'.todo = flush.todo \ {i} /\ flush'.sending = {i}
        /\ flush'.outcome = flush.outcome
    BY <1>1, <1>3
  <1>7. fired' \in [Scheds -> 0 .. MaxTime]
    BY <1>1 DEF Inv, TypeOK
  <1>8. TypeOK'
    BY <1>1, <1>4, <1>5, <1>6, <1>7 DEF Inv, TypeOK
  <1>9. Settles
    BY <1>2, <1>4 DEF Settles
  <1>10. Truth(schedules', intent') /\ Truth(tick'.read, intent')
    BY <1>1, <1>5, <1>9, TruthStays DEF Inv, TickHolds
  <1>11. TickHolds' /\ QuietIsOver'
    BY <1>1, <1>5, <1>10 DEF Inv, TickHolds, QuietIsOver
  <1>12. InFlight'
    BY <1>2, <1>4, <1>5, <1>6 DEF InFlight
  <1>13. Occurrence' = Occurrence
    BY <1>5 DEF Occurrence
  <1>14. Noted'
    <2>1. /\ flush.outcome = "sent" => intent[Occurrence] = "sent"
          /\ flush.outcome = "unknown_delivery" =>
               intent[Occurrence] \in {"unknown_delivery", "proved"}
          /\ flush.outcome = "failed" => intent[Occurrence] = "failed"
      BY <1>1 DEF Inv, Noted
    <2>2. QED
      BY <1>2, <1>3, <1>4, <1>6, <1>13, <2>1 DEF Noted
  <1>15. SkipsOnlySkip'
    BY <1>4 DEF Inv, SkipsOnlySkip
  <1>16. QED
    BY <1>8, <1>10, <1>11, <1>12, <1>14, <1>15 DEF Inv

(* The transport answered it.                                              *)
LEMMA FlushReplyKeeps ==
  ASSUME Inv, NEW i \in Intents, NEW k \in Replies, FlushReplies(i, k)
  PROVE  Inv'
  <1>1. PICK out : out = IF k = "deferred" /\ Policy[i[1]] = "skip" THEN "skipped" ELSE k
    OBVIOUS
  <1>2. /\ tick # NoTick /\ tick.at = "resend" /\ i \in flush.sending
        /\ intent' = [intent EXCEPT ![i] = out]
        /\ flush' = [flush EXCEPT !.sending = {}, !.outcome = IF i = Occurrence THEN out ELSE @]
        /\ tick' = [tick EXCEPT !.at = "flush"]
        /\ UNCHANGED <<schedules, now, ops, faults, fate, fired>>
    BY <1>1, AwaitsTick DEF FlushReplies
  <1>3. /\ out \in IntentStates \ {"sending"} /\ out \in Outcomes
        /\ out = "skipped" => Policy[i[1]] = "skip"
    BY <1>1 DEF Replies, IntentStates, Outcomes
  <1>4. /\ intent \in [Intents -> IntentStates] /\ tick \in Ticks
        /\ flush \in [todo : SUBSET Intents, sending : SUBSET Intents, outcome : Outcomes]
        /\ Occurrence \in Intents
    BY <1>2, TickKnows DEF Inv, TypeOK
  <1>5. /\ intent' \in [Intents -> IntentStates] /\ intent'[i] = out
        /\ \A j \in Intents \ {i} : intent'[j] = intent[j]
    BY <1>2, <1>3, <1>4
  <1>6. /\ tick' \in Ticks /\ tick'.at = "flush" /\ tick'.sched = tick.sched
        /\ tick'.read = tick.read /\ tick'.occ = tick.occ
    BY <1>2, <1>4 DEF Ticks
  <1>7. /\ flush' \in [todo : SUBSET Intents, sending : SUBSET Intents, outcome : Outcomes]
        /\ flush'.todo = flush.todo /\ flush'.sending = {}
        /\ flush'.outcome = IF i = Occurrence THEN out ELSE flush.outcome
    BY <1>2, <1>3, <1>4
  <1>8. TypeOK'
    BY <1>2, <1>5, <1>6, <1>7 DEF Inv, TypeOK
  <1>9. /\ intent[i] = "sending" /\ \A j \in flush.todo : intent[j] = "deferred"
        /\ \A j \in Intents : intent[j] = "sending" => j \in flush.sending
    BY <1>2 DEF Inv, InFlight
  <1>10. Settles
    BY <1>5, <1>9 DEF Settles
  <1>11. Truth(schedules', intent') /\ Truth(tick'.read, intent')
    BY <1>2, <1>6, <1>10, TruthStays DEF Inv, TickHolds
  <1>12. TickHolds' /\ QuietIsOver'
    BY <1>2, <1>6, <1>11 DEF Inv, TickHolds, QuietIsOver
  <1>13. InFlight'
    <2>1. \A j \in Intents : intent'[j] # "sending"
      <3>1. \A j \in flush.sending : j = i
        BY <1>2 DEF Inv, InFlight
      <3>2. QED
        BY <1>3, <1>5, <1>9, <3>1
    <2>2. \A j \in flush.todo : j \in Intents /\ j # i
      BY <1>4, <1>9
    <2>3. QED
      BY <1>5, <1>6, <1>7, <1>9, <2>1, <2>2 DEF InFlight
  <1>14. Noted'
    <2>1. Occurrence' = Occurrence
      BY <1>6 DEF Occurrence
    <2>2. /\ flush.outcome = "sent" => intent[Occurrence] = "sent"
          /\ flush.outcome = "unknown_delivery" =>
               intent[Occurrence] \in {"unknown_delivery", "proved"}
          /\ flush.outcome = "failed" => intent[Occurrence] = "failed"
      BY <1>2 DEF Inv, Noted
    <2>3. QED
      BY <1>4, <1>5, <1>7, <2>1, <2>2 DEF Noted
  <1>15. SkipsOnlySkip'
    BY <1>3, <1>5 DEF Inv, SkipsOnlySkip
  <1>16. QED
    BY <1>8, <1>11, <1>12, <1>13, <1>14, <1>15 DEF Inv

(* The flush is over; its tick goes by what it noted.                      *)
LEMMA FlushEndKeeps ==
  ASSUME Inv, FlushEnds
  PROVE  Inv'
  <1>1. tick # NoTick /\ tick.at = "flush"
    BY AwaitsTick DEF FlushEnds
  <1>2. Rest
    BY <1>1, NoneSent, RestStays DEF FlushEnds
  <1>3. PICK out : out = flush.outcome
    OBVIOUS
  <1>4. /\ out = "sent" => intent'[Occurrence] = "sent"
        /\ out = "unknown_delivery" => intent'[Occurrence] \in {"unknown_delivery", "proved"}
        /\ out = "failed" => intent'[Occurrence] = "failed"
        /\ out \in Outcomes
    BY <1>1, <1>3 DEF FlushEnds, Inv, Noted, TypeOK
  <1>5. CASE out \in {"none", "deferred"}
    <2>1. Serves(schedules, tick.read, tick.sched)
      BY <1>3, <1>5 DEF FlushEnds
    <2>2. QED
      BY <1>1, <1>2, <2>1, PassesKeeps
  <1>6. CASE out \notin {"none", "deferred"}
    <2>1. out \in Ending /\ out # "session_missing"
      BY <1>4, <1>6 DEF Ending, Outcomes
    <2>2. PICK decision : FinishAndServe(out, decision)
      BY <1>3, <1>6 DEF FlushEnds
    <2>3. QED
      BY <1>1, <1>2, <1>4, <2>1, <2>2, FinishKeeps
  <1>7. QED
    BY <1>5, <1>6
-----------------------------------------------------------------------------
(* An operation of the control plane leaves the schedule in a state of its *)
(* own choice; only what ends a schedule while no tick runs counts as over.*)
LEMMA MutatesKeeps ==
  ASSUME Inv, NEW s \in Scheds, NEW r \in Schedule, Mutates(s, r), r.state \in Controlled,
         fired' = fired, fate' \in [Scheds -> {"own", "quiet", "busy", "rearmed"}],
         \A u \in Scheds \ {s} : fate'[u] = fate[u],
         fate'[s] = "quiet" =>
           /\ r.state \in Over
           /\ tick = NoTick \/ fate[s] = "quiet"
  PROVE  Inv'
  <1>1. /\ ops + 1 \in 0 .. MaxOps /\ ops' = ops + 1
        /\ schedules' = [schedules EXCEPT ![s] = r] /\ schedules \in Maps
        /\ UNCHANGED <<intent, tick, flush, now, faults>>
    BY TimerAssumption DEF Mutates, Inv, TypeOK, Maps
  <1>2. schedules' \in Maps /\ schedules'[s] = r /\ \A u \in Scheds \ {s} : schedules'[u] = schedules[u]
    BY <1>1 DEF Maps
  <1>3. TypeOK'
    BY <1>1, <1>2 DEF Inv, TypeOK, Maps
  <1>4. Truth(schedules', intent')
    BY <1>1, <1>2 DEF Inv, Truth, Controlled
  <1>5. TickHolds'
    BY <1>1, <1>2 DEF Inv, TickHolds
  <1>6. InFlight' /\ Noted' /\ SkipsOnlySkip'
    <2>1. Occurrence' = Occurrence
      BY <1>1 DEF Occurrence
    <2>2. QED
      BY <1>1, <2>1 DEF Inv, InFlight, Noted, SkipsOnlySkip
  <1>7. QuietIsOver'
    BY <1>1, <1>2 DEF Inv, QuietIsOver
  <1>8. QED
    BY <1>3, <1>4, <1>5, <1>6, <1>7 DEF Inv

(* Each operation is one of these.                                         *)
LEMMA EndsKeeps ==
  ASSUME Inv, NEW s \in Scheds, NEW state \in Over, Ends(s, state)
  PROVE  Inv'
  <1> DEFINE r == [schedules[s] EXCEPT !.state = state, !.enabled = FALSE]
  <1>1. /\ schedules[s] \in Schedule /\ state \in ScheduleStates
        /\ fate \in [Scheds -> {"own", "quiet", "busy", "rearmed"}]
        /\ tick = NoTick \/ tick \in Ticks
    BY DEF Inv, TypeOK, Over, ScheduleStates, Stoppable, TimerTerminal, Lasting
  <1>2. r \in Schedule /\ r.state = state
    BY <1>1 DEF Schedule
  <1>3. Mutates(s, r) /\ fired' = fired
    BY DEF Ends
  <1>4. fate' = [fate EXCEPT ![s] =
          IF tick.at = "idle" THEN "quiet" ELSE IF Serving(s) THEN @ ELSE "busy"]
    BY DEF Ends
  <1>5. tick.at = "idle" => tick = NoTick
    BY <1>1 DEF Ticks
  <1> HIDE DEF r
  <1>6. state \in Controlled
    BY DEF Over, Controlled
  <1>7. /\ fate' \in [Scheds -> {"own", "quiet", "busy", "rearmed"}]
        /\ \A u \in Scheds \ {s} : fate'[u] = fate[u]
        /\ fate'[s] = "quiet" => tick = NoTick \/ fate[s] = "quiet"
    BY <1>1, <1>4, <1>5
  <1>8. QED
    BY <1>2, <1>3, <1>6, <1>7, MutatesKeeps

(* A schedule is set up anew.                                              *)
LEMMA RearmsKeeps ==
  ASSUME Inv, NEW s \in Scheds, NEW r \in Schedule, r.state = "configured", Rearms(s, r)
  PROVE  Inv'
  <1>1. Mutates(s, r) /\ fired' = fired /\ fate' = [fate EXCEPT ![s] = "rearmed"]
    BY DEF Rearms
  <1>2. fate \in [Scheds -> {"own", "quiet", "busy", "rearmed"}] /\ "configured" \in Controlled
    BY DEF Inv, TypeOK, Controlled
  <1>3. QED
    BY <1>1, <1>2, MutatesKeeps

(* No operation of the control plane disturbs the invariant.               *)
LEMMA OperationsKeep ==
  ASSUME Inv, NEW s \in Scheds,
         \/ StopSchedule(s) \/ RemoveSchedule(s) \/ PauseSchedule(s) \/ ResumeSchedule(s)
         \/ \E t \in Times : UpdateSchedule(s, t) \/ UpsertSchedule(s, t)
  PROVE  Inv'
  <1>1. /\ schedules[s] \in Schedule /\ schedules[s].doubt \in BOOLEAN
        /\ fate \in [Scheds -> {"own", "quiet", "busy", "rearmed"}]
    BY DEF Inv, TypeOK, Schedule
  <1>2. CASE StopSchedule(s) \/ RemoveSchedule(s)
    BY <1>2, EndsKeeps DEF StopSchedule, RemoveSchedule, Over
  <1>3. ASSUME NEW x \in {"disabled", "enabled"}, NEW b \in BOOLEAN,
               schedules[s].state \notin ControlTerminal,
               Mutates(s, [schedules[s] EXCEPT !.state = x, !.enabled = b]),
               UNCHANGED <<fate, fired>>
        PROVE  Inv'
    <2>1. x \in ScheduleStates /\ x \in Controlled
      BY DEF ScheduleStates, Stoppable, Controlled
    <2>2. LET r == [schedules[s] EXCEPT !.state = x, !.enabled = b]
          IN r \in Schedule /\ r.state = x
      BY <1>1, <2>1 DEF Schedule
    <2>3. fate[s] # "quiet"
      BY <1>3 DEF Inv, QuietIsOver, Over, ControlTerminal
    <2>4. QED
      BY <1>1, <1>3, <2>1, <2>2, <2>3, MutatesKeeps
  <1>4. CASE PauseSchedule(s) \/ ResumeSchedule(s)
    BY <1>3, <1>4 DEF PauseSchedule, ResumeSchedule
  <1>5. ASSUME NEW t \in Times, UpdateSchedule(s, t) \/ UpsertSchedule(s, t)
        PROVE  Inv'
    <2>1. Fresh(t) \in Schedule /\ Fresh(t).state = "configured"
      <3>1. "configured" \in ScheduleStates /\ 0 \in 0 .. MaxTime /\ 0 \in Nat
        BY TimerAssumption DEF ScheduleStates, Stoppable
      <3>2. QED
        BY <3>1 DEF Fresh, Schedule
    <2>2. LET r == [Fresh(t) EXCEPT !.doubt = schedules[s].doubt]
          IN r \in Schedule /\ r.state = "configured"
      BY <1>1, <2>1 DEF Schedule
    <2>3. QED
      BY <1>5, <2>1, <2>2, RearmsKeeps DEF UpdateSchedule, UpsertSchedule
  <1>6. QED
    BY <1>2, <1>4, <1>5
-----------------------------------------------------------------------------
(* A tick starts from the stored map.                                      *)
LEMMA StartKeeps ==
  ASSUME Inv, TickStarts
  PROVE  Inv'
  <1>1. /\ schedules \in Maps /\ intent \in [Intents -> IntentStates] /\ tick.at = "idle"
        /\ Serves(schedules, schedules, 0) /\ 0 \in 0 .. N
        /\ UNCHANGED <<intent, flush, now, ops, faults, fate, fired>>
    BY TimerAssumption DEF TickStarts, Inv, TypeOK, Maps
  <1>2. flush = NoFlush /\ \A i \in Intents : intent[i] # "sending"
    BY <1>1 DEF Inv, InFlight
  <1>3. Rest
    BY <1>1, <1>2 DEF Rest, Settles, Inv, SkipsOnlySkip
  <1>4. QED
    BY <1>1, <1>3, ServesKeeps DEF Inv, QuietIsOver

(* Time passes.                                                            *)
LEMMA TimeKeeps ==
  ASSUME Inv, TimePasses
  PROVE  Inv'
  <1>1. /\ now + 1 \in 0 .. MaxTime /\ now' = now + 1
        /\ UNCHANGED <<schedules, intent, tick, flush, ops, faults, fate, fired>>
    BY TimerAssumption DEF TimePasses, Inv, TypeOK
  <1>2. TypeOK'
    BY <1>1 DEF Inv, TypeOK
  <1>3. Occurrence' = Occurrence
    BY <1>1 DEF Occurrence
  <1>4. QED
    BY <1>1, <1>2, <1>3
    DEF Inv, TickHolds, InFlight, Noted, SkipsOnlySkip, QuietIsOver

(* Evidence proves an unknown delivery.                                    *)
LEMMA EvidenceKeeps ==
  ASSUME Inv, NEW i \in Intents, EvidenceProves(i)
  PROVE  Inv'
  <1>1. /\ intent[i] = "unknown_delivery" /\ intent \in [Intents -> IntentStates]
        /\ intent' = [intent EXCEPT ![i] = "proved"]
        /\ UNCHANGED <<schedules, tick, flush, now, ops, faults, fate, fired>>
    BY DEF EvidenceProves, Inv, TypeOK
  <1>2. /\ intent' \in [Intents -> IntentStates] /\ intent'[i] = "proved"
        /\ \A j \in Intents \ {i} : intent'[j] = intent[j]
    BY <1>1 DEF IntentStates
  <1>3. Settles
    BY <1>1, <1>2 DEF Settles
  <1>4. Truth(schedules', intent') /\ TickHolds' /\ QuietIsOver'
    BY <1>1, <1>3, TruthStays DEF Inv, TickHolds, QuietIsOver
  <1>5. TypeOK'
    BY <1>1, <1>2 DEF Inv, TypeOK
  <1>6. Occurrence' = Occurrence /\ (tick # NoTick => Occurrence \in Intents)
    BY <1>1, TickKnows DEF Occurrence
  <1>7. InFlight'
    <2>1. flush.todo \subseteq Intents /\ flush.sending \subseteq Intents
      BY DEF Inv, TypeOK
    <2>2. QED
      BY <1>1, <1>2, <1>6, <2>1 DEF Inv, InFlight
  <1>8. Noted'
    <2>1. ASSUME tick.at \in {"flush", "resend"}
          PROVE  tick # NoTick
      BY <2>1 DEF NoTick
    <2>2. QED
      BY <1>1, <1>2, <1>6, <2>1 DEF Inv, Noted
  <1>9. SkipsOnlySkip'
    BY <1>2 DEF Inv, SkipsOnlySkip
  <1>10. QED
    BY <1>4, <1>5, <1>7, <1>8, <1>9 DEF Inv

(* What a crash may leave of the write an await had brought: it settles    *)
(* only what was not settled.                                              *)
LEMMA AwaitedOpen ==
  ASSUME Inv
  PROVE  \A i \in Awaited : i \in Intents /\ intent[i] \in {"none", "sending", "deferred"}
  <1>1. CASE tick = NoTick
    BY <1>1 DEF NoTick, Awaited
  <1>2. CASE tick # NoTick
    <2>1. Occurrence \in Intents
      BY <1>2, TickKnows
    <2>2. CASE tick.at = "status"
      <3>1. Awaited = {Occurrence} \ {i \in Intents : intent[i] # "none"}
        BY <2>2 DEF Awaited
      <3>2. QED
        BY <2>1, <3>1
    <2>3. CASE tick.at = "send"
      <3>1. Awaited = {Occurrence}
        BY <2>3 DEF Awaited
      <3>2. QED
        BY <2>1, <2>3, <3>1 DEF Inv, InFlight
    <2>4. CASE tick.at = "resend"
      <3>1. Awaited = flush.sending
        BY <2>4 DEF Awaited
      <3>2. flush.sending \subseteq Intents
        BY DEF Inv, TypeOK
      <3>3. QED
        BY <2>4, <3>1, <3>2 DEF Inv, InFlight
    <2>5. CASE tick.at = "resume"
      <3>1. Awaited = DeferredFor(tick.sched)
        BY <2>5 DEF Awaited
      <3>2. QED
        BY <3>1 DEF DeferredFor
    <2>6. CASE tick.at \notin {"status", "send", "resend", "resume"}
      BY <2>6 DEF Awaited
    <2>7. QED
      BY <2>2, <2>3, <2>4, <2>5, <2>6
  <1>3. QED
    BY <1>1, <1>2

(* The daemon dies, with or without the write its await had brought.       *)
LEMMA CrashKeeps ==
  ASSUME Inv, CrashAndRestart
  PROVE  Inv'
  <1>1. /\ faults + 1 \in 0 .. MaxFaults /\ faults' = faults + 1
        /\ tick' = NoTick /\ flush' = NoFlush
        /\ intent \in [Intents -> IntentStates]
        /\ UNCHANGED <<schedules, now, ops, fate, fired>>
    BY TimerAssumption DEF CrashAndRestart, Inv, TypeOK
  <1>2. PICK S \in SUBSET Awaited, k \in MayHaveWritten :
          intent' = [i \in Intents |->
            IF i \in S THEN k
            ELSE IF intent[i] = "sending" THEN "unknown_delivery" ELSE intent[i]]
    BY DEF CrashAndRestart
  <1>3. k \in {"sent", "deferred", "unknown_delivery", "failed"}
    BY DEF MayHaveWritten, Replies
  <1>4. {"sent", "deferred", "unknown_delivery", "failed"} \subseteq IntentStates
    BY DEF IntentStates
  <1>5. /\ \A i \in S : intent'[i] = k /\ intent[i] \in {"none", "sending", "deferred"}
        /\ \A i \in Intents \ S : intent'[i] =
             IF intent[i] = "sending" THEN "unknown_delivery" ELSE intent[i]
    BY <1>2, AwaitedOpen
  <1>6. intent' \in [Intents -> IntentStates]
    BY <1>1, <1>2, <1>3, <1>4
  <1>7. Settles
    BY <1>5 DEF Settles
  <1>8. \A i \in Intents : intent'[i] # "sending"
    BY <1>3, <1>5
  <1>9. TypeOK'
    BY <1>1, <1>6 DEF Inv, TypeOK, NoFlush, Outcomes
  <1>10. Truth(schedules', intent') /\ TickHolds' /\ QuietIsOver'
    BY <1>1, <1>7, TruthStays DEF Inv, TickHolds, QuietIsOver
  <1>11. InFlight' /\ Noted'
    BY <1>1, <1>8 DEF InFlight, Noted, NoTick, NoFlush
  <1>12. SkipsOnlySkip'
    BY <1>3, <1>5 DEF Inv, SkipsOnlySkip
  <1>13. QED
    BY <1>9, <1>10, <1>11, <1>12 DEF Inv
-----------------------------------------------------------------------------
(* Nothing was sent at first, and no tick runs.                            *)
LEMMA InvInit ==
  ASSUME Init
  PROVE  Inv
  <1>1. /\ schedules = [s \in Scheds |-> Fresh(1)] /\ intent = [i \in Intents |-> "none"]
        /\ tick = NoTick /\ flush = NoFlush /\ now = 0 /\ ops = 0 /\ faults = 0
        /\ fate = [s \in Scheds |-> "own"] /\ fired = [s \in Scheds |-> 0]
    BY DEF Init
  <1>2. 1 \in Times /\ 0 \in 0 .. MaxTime /\ 0 \in 0 .. MaxOps /\ 0 \in 0 .. MaxFaults /\ 0 \in Nat
    BY TimerAssumption DEF Times
  <1>3. Fresh(1) \in Schedule /\ Fresh(1).state = "configured"
    BY <1>2 DEF Fresh, Schedule, ScheduleStates, Stoppable
  <1>4. TypeOK
    BY <1>1, <1>2, <1>3 DEF TypeOK, IntentStates, NoFlush, Outcomes
  <1>5. Truth(schedules, intent)
    BY <1>1, <1>3 DEF Truth
  <1>6. TickHolds /\ InFlight /\ Noted /\ SkipsOnlySkip /\ QuietIsOver
    BY <1>1 DEF TickHolds, InFlight, Noted, SkipsOnlySkip, QuietIsOver, NoTick, NoFlush
  <1>7. QED
    BY <1>4, <1>5, <1>6 DEF Inv

(* Every step keeps the invariant.                                         *)
LEMMA InvNext ==
  ASSUME Inv, [Next]_vars
  PROVE  Inv'
  <1>1. CASE TickStarts
    BY <1>1, StartKeeps
  <1>2. CASE Await
    <2>1. CASE \E b \in {"working", "error", "other"} : BusyAnswers(b)
      BY <2>1, BusyKeeps
    <2>2. CASE DispatchRepeats
      BY <2>2, RepeatKeeps
    <2>3. CASE \E o \in Gates : DispatchObserves(o)
      BY <2>3, ObservesKeeps
    <2>4. CASE \E k \in Replies : SendReplies(k)
      BY <2>4, ReplyKeeps
    <2>5. CASE \E o \in {"send", "defer", "fail"} : Resumes(o)
      BY <2>5, ResumesKeeps
    <2>6. CASE \E i \in Intents : FlushSends(i) \/ \E k \in Replies : FlushReplies(i, k)
      BY <2>6, FlushSendKeeps, FlushReplyKeeps
    <2>7. CASE FlushEnds
      BY <2>7, FlushEndKeeps
    <2>8. QED
      BY <1>2, <2>1, <2>2, <2>3, <2>4, <2>5, <2>6, <2>7 DEF Await
  <1>3. CASE ResumeThrows
    BY <1>3, ThrowKeeps
  <1>4. CASE \E s \in Scheds :
               \/ StopSchedule(s) \/ RemoveSchedule(s) \/ PauseSchedule(s) \/ ResumeSchedule(s)
               \/ \E t \in Times : UpdateSchedule(s, t) \/ UpsertSchedule(s, t)
    BY <1>4, OperationsKeep
  <1>5. CASE TimePasses
    BY <1>5, TimeKeeps
  <1>6. CASE CrashAndRestart
    BY <1>6, CrashKeeps
  <1>7. CASE \E i \in Intents : EvidenceProves(i)
    BY <1>7, EvidenceKeeps
  <1>8. CASE UNCHANGED vars
    <2>1. UNCHANGED <<schedules, intent, tick, flush, now, ops, faults, fate, fired>>
      BY <1>8 DEF vars
    <2>2. Occurrence' = Occurrence
      BY <2>1 DEF Occurrence
    <2>3. TypeOK'
      BY <2>1 DEF Inv, TypeOK
    <2>4. QED
      BY <2>1, <2>2, <2>3
      DEF Inv, TickHolds, InFlight, Noted, SkipsOnlySkip, QuietIsOver
  <1>9. QED
    BY <1>1, <1>2, <1>3, <1>4, <1>5, <1>6, <1>7, <1>8 DEF Next

(* The invariant holds of every behaviour.                                 *)
THEOREM Invariance == Spec => []Inv
  <1>1. Init => Inv
    BY InvInit
  <1>2. Inv /\ [Next]_vars => Inv'
    BY InvNext
  <1>3. QED
    BY <1>1, <1>2, PTL DEF Spec

(* The types of the schedules, the outbox, the tick and the flush, for     *)
(* every number of schedules and every clock.                              *)
THEOREM TypeCorrect == Spec => []TypeOK
  <1>1. Inv => TypeOK
    BY DEF Inv
  <1>2. QED
    BY <1>1, Invariance, PTL

(* What a schedule says of its last occurrence is what the outbox has,     *)
(* though ticks write back maps they read before (finishOccurrence).       *)
THEOREM TellsTruth == Spec => []ScheduleTellsTruth
  <1>1. Inv => ScheduleTellsTruth
    BY DEF Inv, Truth, ScheduleTellsTruth
  <1>2. QED
    BY <1>1, Invariance, PTL

(* No tick brings back a schedule that was stopped or removed while none   *)
(* ran (stopSchedule, removeSchedule, finishOccurrence).                   *)
THEOREM QuietStopsStick == Spec => []QuietStopSticks
  <1>1. Inv => QuietStopSticks
    BY DEF Inv, QuietIsOver, Over, QuietStopSticks
  <1>2. QED
    BY <1>1, Invariance, PTL
-----------------------------------------------------------------------------
(* The occurrence a schedule is due for next, in a map.                    *)
TimeOf(map, s) == OccurrenceAt(map[s], s)

(* It is later than the schedule's last message, or is on record; and no   *)
(* other occurrence waits or is on its way.                                *)
Open == {"deferred", "sending"}
Ahead(map, outbox, crossed, s) ==
  /\ \/ TimeOf(map, s) > crossed[s]
     \/ TimeOf(map, s) \in Times /\ outbox[<<s, TimeOf(map, s)>>] # "none"
  /\ \A t \in Times : outbox[<<s, t>>] \in Open => t = TimeOf(map, s)

(* A tick knows the time of a schedule no operation has rearmed.           *)
InStep ==
  tick # NoTick =>
    /\ \A s \in Scheds : Regular(s) => TimeOf(tick.read, s) = TimeOf(schedules, s)
    /\ Regular(tick.sched) => tick.occ = TimeOf(tick.read, tick.sched)

Coalesced ==
  /\ \A s \in Scheds : fired[s] <= now
  /\ \A s \in Scheds : Regular(s) => Ahead(schedules, intent, fired, s)
  /\ InStep
  /\ flush.outcome = "skipped" => Policy[tick.sched] = "skip"

(* finishOccurrence: the next time of an interval has not come yet.        *)
LEMMA NextAtLater ==
  ASSUME NEW s \in Scheds, NEW t \in Times, now \in Nat
  PROVE  NextAt(s, t) > now
  <1> DEFINE k == (now - t) \div Interval[s] + 1
             b == Interval[s]
  <1>1. b \in Nat \ {0} /\ t \in Nat /\ now - t \in Int
    BY TimerAssumption DEF Times
  <1>2. k \in Int /\ b * k > now - t
    BY <1>1
  <1>3. NextAt(s, t) = t + b * Max({1, k})
    BY DEF NextAt, k
  <1> HIDE DEF k, b
  <1>4. \E x \in {1, k} : \A y \in {1, k} : x >= y
    BY <1>2
  <1>5. Max({1, k}) \in {1, k} /\ Max({1, k}) >= k
    BY <1>4 DEF Max
  <1>6. b * Max({1, k}) >= b * k
    <2>1. CASE Max({1, k}) = k
      BY <1>1, <1>2, <2>1
    <2>2. CASE Max({1, k}) = 1
      <3>1. b * k <= b * 1
        BY <1>1, <1>2, <1>5, <2>2
      <3>2. QED
        BY <2>2, <3>1
    <2>3. QED
      BY <1>5, <2>1, <2>2
  <1>7. PICK x \in Int : x = b * Max({1, k})
    BY <1>1, <1>2, <1>5
  <1>8. PICK y \in Int : y = b * k
    BY <1>1, <1>2
  <1>9. x >= y /\ y > now - t /\ NextAt(s, t) = t + x
    BY <1>2, <1>3, <1>6, <1>7, <1>8
  <1>10. QED
    BY <1>1, <1>9

(* What a finished occurrence does to the times of the two maps.           *)
LEMMA FinishTimes ==
  ASSUME NEW db \in Maps, NEW m \in Maps, NEW s \in Scheds, NEW t \in Times,
         NEW state \in Ending, NEW decision, now \in Nat
  PROVE  LET e == FinishDb(db, m, s, t, state, decision)
         IN IF db[s].state \in Lasting THEN TimeOf(e, s) = TimeOf(db, s)
            ELSE \/ TimeOf(e, s) = TimeOf(m, s)
                 \/ state \in OccurrenceTerminal /\ TimeOf(e, s) \in Nat /\ TimeOf(e, s) > now
  <1> DEFINE e == FinishDb(db, m, s, t, state, decision)
  <1>0. db[s] \in Schedule /\ m[s] \in Schedule
    BY DEF Maps
  <1>1. CASE db[s].state \in Lasting
    <2>1. e = [db EXCEPT ![s].occ = t, ![s].doubt = Doubts(db[s], decision)]
      BY <1>1 DEF FinishDb
    <2>2. e[s].at = db[s].at /\ e[s].next = db[s].next
      BY <1>0, <2>1 DEF Maps, Schedule
    <2>3. QED
      BY <1>1, <2>2 DEF TimeOf, OccurrenceAt
  <1>2. CASE db[s].state \notin Lasting
    <2> DEFINE r == m[s]
               q == [r EXCEPT !.occ = t, !.doubt = Doubts(r, decision)]
    <2>1. e[s] = Finished(r, s, t, state, decision)
      BY <1>2 DEF FinishDb, Maps
    <2>2. q.at = r.at /\ q.next = r.next
      BY <1>0 DEF Schedule
    <2>3. CASE Mode[s] = "interval" /\ state \in OccurrenceTerminal /\ state # "session_missing"
      <3>1. e[s] = [q EXCEPT !.state = "enabled", !.enabled = TRUE, !.next = NextAt(s, t)]
        BY <2>1, <2>3 DEF Finished
      <3>2. e[s].next = NextAt(s, t)
        BY <1>0, <3>1 DEF Schedule
      <3>3. NextAt(s, t) \in Nat /\ NextAt(s, t) > now /\ NextAt(s, t) # 0
        BY NextAtType, NextAtLater
      <3>4. TimeOf(e, s) = NextAt(s, t)
        BY <2>3, <3>2, <3>3 DEF TimeOf, OccurrenceAt
      <3>5. QED
        BY <1>2, <2>3, <3>3, <3>4
    <2>4. CASE ~(Mode[s] = "interval" /\ state \in OccurrenceTerminal /\ state # "session_missing")
      <3>1. \E x, y : e[s] = [q EXCEPT !.state = x, !.enabled = y]
        BY <2>1, <2>4 DEF Finished
      <3>2. e[s].at = r.at /\ e[s].next = r.next
        BY <1>0, <3>1 DEF Schedule
      <3>3. QED
        BY <1>2, <3>2 DEF TimeOf, OccurrenceAt
    <2>5. QED
      BY <2>3, <2>4
  <1>3. QED
    BY <1>1, <1>2

(* A claim changes no times.                                               *)
LEMMA ServesTimes ==
  ASSUME NEW db \in Maps, NEW m \in Maps, NEW s \in 0 .. N, now \in 0 .. MaxTime,
         Serves(db, m, s), \A u \in Scheds : Regular(u) => TimeOf(m, u) = TimeOf(db, u)
  PROVE  /\ \A u \in Scheds : Regular(u) => TimeOf(schedules', u) = TimeOf(db, u)
         /\ tick' # NoTick =>
              /\ tick'.sched \in Scheds
              /\ \A u \in Scheds : Regular(u) => TimeOf(tick'.read, u) = TimeOf(db, u)
              /\ Regular(tick'.sched) => tick'.occ = TimeOf(tick'.read, tick'.sched)
  <1>1. CASE schedules' = db /\ tick' = NoTick
    BY <1>1
  <1>2. CASE ~(schedules' = db /\ tick' = NoTick)
    <2>1. PICK n \in Scheds, c \in Maps :
            /\ \A u \in Scheds \ {n} : c[u] = m[u]
            /\ schedules' = c \/ schedules' = db
            /\ c[n].at = m[n].at /\ c[n].next = m[n].next
            /\ tick'.sched = n /\ tick'.read = c /\ tick'.occ = OccurrenceAt(m[n], n)
      BY <1>2, ServesIs
    <2>2. \A u \in Scheds : TimeOf(c, u) = TimeOf(m, u)
      <3>1. TimeOf(c, n) = TimeOf(m, n)
        BY <2>1 DEF TimeOf, OccurrenceAt
      <3>2. \A u \in Scheds \ {n} : TimeOf(c, u) = TimeOf(m, u)
        BY <2>1 DEF TimeOf
      <3>3. QED
        BY <3>1, <3>2
    <2>3. tick'.occ = TimeOf(m, n)
      BY <2>1 DEF TimeOf
    <2>4. QED
      BY <2>1, <2>2, <2>3
  <1>3. QED
    BY <1>1, <1>2

(* So the rest of a tick keeps the schedules ahead of their messages.      *)
LEMMA ServesCoalesce ==
  ASSUME Inv, Coalesced, NEW db \in Maps, NEW m \in Maps, NEW s \in 0 .. N, Serves(db, m, s),
         \A u \in Scheds : Regular(u) => TimeOf(m, u) = TimeOf(db, u),
         \A u \in Scheds : Regular(u) => Ahead(db, intent', fired, u),
         flush' = NoFlush, UNCHANGED <<now, fate, fired>>
  PROVE  Coalesced'
  <1>1. now \in 0 .. MaxTime
    BY DEF Inv, TypeOK
  <1>2. /\ \A u \in Scheds : Regular(u) => TimeOf(schedules', u) = TimeOf(db, u)
        /\ tick' # NoTick =>
             /\ tick'.sched \in Scheds
             /\ \A u \in Scheds : Regular(u) => TimeOf(tick'.read, u) = TimeOf(db, u)
             /\ Regular(tick'.sched) => tick'.occ = TimeOf(tick'.read, tick'.sched)
    BY <1>1, ServesTimes
  <1>3. \A u : Regular(u)' <=> Regular(u)
    BY DEF Regular
  <1>4. \A u \in Scheds : Regular(u) => Ahead(schedules', intent', fired', u)
    BY <1>2 DEF Ahead
  <1>5. InStep'
    BY <1>2, <1>3 DEF InStep, TimeOf
  <1>6. flush'.outcome # "skipped"
    BY DEF NoFlush
  <1>7. \A u \in Scheds : fired'[u] <= now'
    BY DEF Coalesced
  <1>8. QED
    BY <1>3, <1>4, <1>5, <1>6, <1>7 DEF Coalesced, Ahead, TimeOf
-----------------------------------------------------------------------------
(* An outbox that keeps its records, and in which only the occurrence that *)
(* is served may newly wait.                                               *)
Steady ==
  \A i \in Intents :
    /\ intent[i] # "none" => intent'[i] # "none"
    /\ intent'[i] \in Open => intent[i] \in Open \/ (tick # NoTick /\ i = Occurrence)

(* It leaves the schedules where they are.                                 *)
LEMMA SteadyAhead ==
  ASSUME Inv, Coalesced, Steady
  PROVE  \A s \in Scheds : Regular(s) => Ahead(schedules, intent', fired, s)
  <1> SUFFICES ASSUME NEW s \in Scheds, Regular(s)
               PROVE  Ahead(schedules, intent', fired, s)
    OBVIOUS
  <1>1. Ahead(schedules, intent, fired, s)
    BY DEF Coalesced
  <1>2. \A t \in Times : <<s, t>> \in Intents
    BY DEF Intents
  <1>3. ASSUME NEW t \in Times, intent'[<<s, t>>] \in Open
        PROVE  t = TimeOf(schedules, s)
    <2>1. CASE intent[<<s, t>>] \in Open
      BY <1>1, <2>1 DEF Ahead
    <2>2. CASE tick # NoTick /\ <<s, t>> = Occurrence
      <3>1. tick.sched = s /\ tick.occ = t
        BY <2>2 DEF Occurrence
      <3>2. QED
        BY <2>2, <3>1 DEF Coalesced, InStep
    <2>3. QED
      BY <1>2, <1>3, <2>1, <2>2 DEF Steady
  <1>4. TimeOf(schedules, s) > fired[s]
        \/ (TimeOf(schedules, s) \in Times /\ intent'[<<s, TimeOf(schedules, s)>>] # "none")
    BY <1>1, <1>2 DEF Ahead, Steady
  <1>5. QED
    BY <1>3, <1>4 DEF Ahead

(* A tick passes on from a schedule it leaves alone.                       *)
LEMMA PassesCoalesce ==
  ASSUME Inv, Coalesced, tick # NoTick, Steady, Serves(schedules, tick.read, tick.sched),
         flush' = NoFlush, UNCHANGED <<now, fate, fired>>
  PROVE  Coalesced'
  <1>1. /\ schedules \in Maps /\ tick.read \in Maps /\ tick.sched \in 0 .. N
        /\ \A u \in Scheds : Regular(u) => TimeOf(tick.read, u) = TimeOf(schedules, u)
    BY TickKnows DEF Coalesced, InStep
  <1>2. QED
    BY <1>1, SteadyAhead, ServesCoalesce

(* It passes on from one it finishes: an occurrence that is over waits no  *)
(* more.                                                                   *)
LEMMA FinishCoalesces ==
  ASSUME Inv, Coalesced, tick # NoTick, Steady, NEW state \in Ending, NEW decision,
         FinishAndServe(state, decision), flush' = NoFlush, UNCHANGED <<now, fate, fired>>,
         state \in OccurrenceTerminal /\ Policy[tick.sched] = "defer" => intent'[Occurrence] \notin Open
  PROVE  Coalesced'
  <1>1. PICK s \in Scheds, t \in Times, m \in Maps, db \in Maps :
          s = tick.sched /\ t = tick.occ /\ m = tick.read /\ db = schedules
    BY TickKnows
  <1> DEFINE e == FinishDb(db, m, s, t, state, decision)
             f == FinishRead(db, m, s, t, state, decision)
  <1>2. Serves(e, f, s)
    BY <1>1 DEF FinishAndServe
  <1>3. now \in 0 .. MaxTime /\ now \in Nat /\ s \in 0 .. N
    BY TimerAssumption DEF Inv, TypeOK, Scheds
  <1>4. /\ e \in Maps /\ f \in Maps
        /\ IF db[s].state \in Lasting
           THEN f = m /\ \A u \in Scheds \ {s} : e[u] = db[u]
           ELSE f = e /\ \A u \in Scheds \ {s} : e[u] = m[u]
    BY <1>3, FinishDbIs
  <1>5. IF db[s].state \in Lasting THEN TimeOf(e, s) = TimeOf(db, s)
        ELSE \/ TimeOf(e, s) = TimeOf(m, s)
             \/ state \in OccurrenceTerminal /\ TimeOf(e, s) \in Nat /\ TimeOf(e, s) > now
    BY <1>3, FinishTimes
  <1>6. /\ \A u \in Scheds : Regular(u) => TimeOf(m, u) = TimeOf(db, u)
        /\ Regular(s) => t = TimeOf(m, s)
    BY <1>1 DEF Coalesced, InStep
  <1>7. \A u \in Scheds : Regular(u) => Ahead(db, intent', fired, u)
    BY <1>1, SteadyAhead
  <1>8. Occurrence = <<s, t>>
    BY <1>1 DEF Occurrence
  <1>9. \A u \in Scheds : fired[u] <= now /\ fired[u] \in Nat
    BY TimerAssumption DEF Inv, TypeOK, Coalesced
  <1> HIDE DEF e, f
  <1>10. \A u \in Scheds : Regular(u) => TimeOf(f, u) = TimeOf(e, u)
    <2>1. CASE db[s].state \in Lasting
      BY <1>4, <1>5, <1>6, <2>1 DEF TimeOf
    <2>2. CASE db[s].state \notin Lasting
      BY <1>4, <2>2
    <2>3. QED
      BY <2>1, <2>2
  <1>11. \A u \in Scheds \ {s} : Regular(u) => TimeOf(e, u) = TimeOf(db, u)
    BY <1>4, <1>6 DEF TimeOf
  <1>12. ASSUME NEW u \in Scheds, Regular(u)
         PROVE  Ahead(e, intent', fired, u)
    <2>1. CASE TimeOf(e, u) = TimeOf(db, u)
      BY <1>7, <1>12, <2>1 DEF Ahead
    <2>2. CASE TimeOf(e, u) # TimeOf(db, u)
      <3>1. /\ u = s /\ state \in OccurrenceTerminal
            /\ TimeOf(e, s) \in Nat /\ TimeOf(e, s) > now
        BY <1>5, <1>6, <1>11, <1>12, <2>2
      <3>2. intent'[<<s, t>>] \notin Open
        BY <1>1, <1>8, <1>12, <3>1 DEF Regular
      <3>3. \A x \in Times : intent'[<<s, x>>] \notin Open
        BY <1>6, <1>7, <1>12, <3>1, <3>2 DEF Ahead
      <3>4. TimeOf(e, s) > fired[s]
        BY <1>3, <1>9, <3>1
      <3>5. QED
        BY <3>1, <3>3, <3>4 DEF Ahead
    <2>3. QED
      BY <2>1, <2>2
  <1>13. QED
    BY <1>2, <1>3, <1>4, <1>10, <1>12, ServesCoalesce
-----------------------------------------------------------------------------
(* Action by action: the awaits of a tick.                                 *)
LEMMA BusyCoalesces ==
  ASSUME Inv, Coalesced, NEW b \in {"working", "error", "other"}, BusyAnswers(b)
  PROVE  Coalesced'
  <1>1. tick # NoTick /\ tick.at = "busy"
    BY AwaitsTick DEF BusyAnswers
  <1>2. Policy[tick.sched] = "skip" /\ flush = NoFlush
    BY <1>1, NoFlushYet DEF Inv, TickHolds
  <1>3. UNCHANGED <<intent, flush, now, ops, faults, fate, fired>>
    BY DEF BusyAnswers
  <1>4. Steady /\ flush' = NoFlush
    BY <1>2, <1>3 DEF Steady
  <1>5. CASE b = "working"
    <2>1. FinishAndServe("skipped", "skipped")
      BY <1>5 DEF BusyAnswers
    <2>2. QED
      BY <1>1, <1>2, <1>3, <1>4, <2>1, FinishCoalesces DEF Ending
  <1>6. CASE b = "error"
    <2>1. PICK e \in {"failed", "session_missing"} : FinishAndServe(e, "")
      BY <1>6 DEF BusyAnswers
    <2>2. QED
      BY <1>1, <1>2, <1>3, <1>4, <2>1, FinishCoalesces DEF Ending
  <1>7. CASE b = "other"
    <2> DEFINE m == [tick.read EXCEPT ![tick.sched].state = "send_pending",
                                      ![tick.sched].occ = tick.was]
    <2>1. schedules' = m /\ tick' = [tick EXCEPT !.at = "status", !.read = m]
      BY <1>7 DEF BusyAnswers
    <2>2. tick \in Ticks /\ tick.read \in Maps /\ tick.sched \in Scheds
      BY <1>1, TickKnows
    <2>3. \A u \in Scheds : m[u].at = tick.read[u].at /\ m[u].next = tick.read[u].next
      BY <2>2 DEF Maps, Schedule
    <2>4. \A u \in Scheds : TimeOf(m, u) = TimeOf(tick.read, u)
      BY <2>3 DEF TimeOf, OccurrenceAt
    <2> HIDE DEF m
    <2>5. tick'.sched = tick.sched /\ tick'.occ = tick.occ /\ tick'.read = m
      BY <2>1, <2>2 DEF Ticks
    <2>6. \A u : Regular(u)' <=> Regular(u)
      BY <1>3 DEF Regular
    <2>7. \A u \in Scheds : Regular(u) => TimeOf(m, u) = TimeOf(schedules, u)
      BY <1>1, <2>4 DEF Coalesced, InStep
    <2>8. InStep'
      BY <1>1, <2>1, <2>2, <2>4, <2>5, <2>6, <2>7 DEF InStep, Coalesced, TimeOf
    <2>9. \A u \in Scheds : Regular(u) => Ahead(m, intent, fired, u)
      BY <2>7 DEF Coalesced, Ahead
    <2>10. QED
      BY <1>2, <1>3, <2>1, <2>6, <2>8, <2>9 DEF Coalesced, NoFlush, Ahead, TimeOf
  <1>8. QED
    BY <1>5, <1>6, <1>7

LEMMA RepeatCoalesces ==
  ASSUME Inv, Coalesced, DispatchRepeats
  PROVE  Coalesced'
  <1>1. tick # NoTick /\ tick.at = "status"
    BY AwaitsTick DEF DispatchRepeats
  <1>2. /\ UNCHANGED <<intent, flush, now, ops, faults, fate, fired>>
        /\ flush = NoFlush /\ intent[Occurrence] \in IntentStates \ {"none", "sending"}
    BY <1>1, NoFlushYet, NoneSent, TickKnows DEF DispatchRepeats, Inv, TypeOK
  <1>3. PICK state, decision : /\ FinishAndServe(state, decision)
                               /\ state = ScheduleStateFor(Recorded(Occurrence))
    BY DEF DispatchRepeats
  <1>4. /\ state \in Ending
        /\ state \in OccurrenceTerminal => intent[Occurrence] \notin Open
    BY <1>2, <1>3
    DEF ScheduleStateFor, Recorded, Ending, OccurrenceTerminal, Open, IntentStates
  <1>5. Steady /\ flush' = NoFlush /\ intent'[Occurrence] = intent[Occurrence]
    BY <1>2 DEF Steady
  <1>6. QED
    BY <1>1, <1>2, <1>3, <1>4, <1>5, FinishCoalesces

(* A send crosses for the time its schedule is due, or for an occurrence   *)
(* that waits: it is on record from then on.                               *)
LEMMA CrossCoalesces ==
  ASSUME Inv, Coalesced, NEW i \in Intents, Cross(i), tick # NoTick,
         i = Occurrence \/ intent[i] \in Open,
         NEW at \in {"send", "resend"}, tick' = [tick EXCEPT !.at = at],
         flush'.outcome = flush.outcome, UNCHANGED <<schedules, now, fate>>
  PROVE  Coalesced'
  <1>1. PICK s \in Scheds, t \in Times : i = <<s, t>>
    BY DEF Intents
  <1>2. /\ intent' = [intent EXCEPT ![i] = "sending"] /\ intent \in [Intents -> IntentStates]
        /\ fired' = [fired EXCEPT ![s] = IF fate[s] = "own" THEN now ELSE @]
        /\ fired \in [Scheds -> 0 .. MaxTime]
        /\ now \in Nat
    BY <1>1, TimerAssumption DEF Cross, Inv, TypeOK
  <1>3. tick'.sched = tick.sched /\ tick'.occ = tick.occ /\ tick'.read = tick.read
    BY TickKnows DEF Ticks
  <1>4. /\ \A j \in Intents \ {i} : intent'[j] = intent[j]
        /\ intent'[i] = "sending"
        /\ \A u \in Scheds \ {s} : fired'[u] = fired[u]
        /\ fired'[s] \in {now, fired[s]}
    BY <1>2
  <1>5. \A u : Regular(u)' <=> Regular(u)
    BY DEF Regular
  <1>6. InStep'
    BY <1>3, <1>5 DEF InStep, Coalesced, TimeOf
  <1>7. Regular(s) => t = TimeOf(schedules, s)
    <2>1. CASE i = Occurrence
      BY <1>1, <2>1 DEF Occurrence, Coalesced, InStep
    <2>2. CASE intent[i] \in Open
      BY <1>1, <2>2 DEF Coalesced, Ahead
    <2>3. QED
      BY <2>1, <2>2
  <1>8. ASSUME NEW u \in Scheds, Regular(u)
        PROVE  Ahead(schedules, intent', fired', u)
    <2>1. CASE u = s
      <3>1. intent'[<<s, TimeOf(schedules, s)>>] # "none" /\ TimeOf(schedules, s) \in Times
        BY <1>1, <1>4, <1>7, <1>8, <2>1
      <3>2. ASSUME NEW x \in Times, intent'[<<s, x>>] \in Open
            PROVE  x = TimeOf(schedules, s)
        <4>1. <<s, x>> \in Intents /\ (x = t \/ <<s, x>> # i)
          BY <1>1 DEF Intents
        <4>2. x = t \/ intent[<<s, x>>] \in Open
          BY <1>4, <3>2, <4>1
        <4>3. QED
          BY <1>7, <1>8, <2>1, <4>2 DEF Coalesced, Ahead
      <3>3. QED
        BY <2>1, <3>1, <3>2 DEF Ahead
    <2>2. CASE u # s
      <3>1. \A x \in Times : intent'[<<u, x>>] = intent[<<u, x>>]
        BY <1>1, <1>4, <2>2 DEF Intents
      <3>2. QED
        BY <1>4, <1>8, <2>2, <3>1 DEF Coalesced, Ahead
    <2>3. QED
      BY <2>1, <2>2
  <1>9. \A u \in Scheds : fired'[u] <= now'
    BY <1>2, <1>4 DEF Coalesced
  <1>10. flush'.outcome = "skipped" => Policy[tick'.sched] = "skip"
    BY <1>3 DEF Coalesced
  <1>11. QED
    BY <1>5, <1>6, <1>8, <1>9, <1>10 DEF Coalesced, Ahead, TimeOf

LEMMA ObservesCoalesces ==
  ASSUME Inv, Coalesced, NEW o \in Gates, DispatchObserves(o)
  PROVE  Coalesced'
  <1>1. tick # NoTick /\ tick.at = "status"
    BY AwaitsTick DEF DispatchObserves
  <1>2. /\ flush = NoFlush /\ Occurrence \in Intents /\ intent[Occurrence] = "none"
        /\ intent \in [Intents -> IntentStates] /\ UNCHANGED <<flush, now, ops, faults, fate>>
    BY <1>1, NoFlushYet, TickKnows DEF DispatchObserves, Inv, TypeOK
  <1>3. CASE o = "send"
    <2>1. Cross(Occurrence) /\ tick' = [tick EXCEPT !.at = "send"] /\ UNCHANGED schedules
      BY <1>3 DEF DispatchObserves
    <2>2. QED
      BY <1>1, <1>2, <2>1, CrossCoalesces
  <1>4. CASE o = "defer"
    <2>1. /\ intent' = [intent EXCEPT ![Occurrence] = "deferred"]
          /\ FinishAndServe("deferred_while_working", "deferred") /\ UNCHANGED fired
      BY <1>4 DEF DispatchObserves
    <2>2. Steady
      BY <1>1, <1>2, <2>1 DEF Steady
    <2>3. QED
      BY <1>1, <1>2, <2>1, <2>2, FinishCoalesces DEF Ending, OccurrenceTerminal
  <1>5. CASE o \in {"failed", "session_missing"}
    <2>1. /\ intent' = [intent EXCEPT ![Occurrence] = "failed"]
          /\ FinishAndServe(o, "fail_closed") /\ UNCHANGED fired
      BY <1>5 DEF DispatchObserves
    <2>2. Steady /\ intent'[Occurrence] \notin Open
      BY <1>1, <1>2, <2>1 DEF Steady, Open
    <2>3. o \in Ending
      BY <1>5 DEF Ending
    <2>4. QED
      BY <1>1, <1>2, <2>1, <2>2, <2>3, FinishCoalesces
  <1>6. QED
    BY <1>3, <1>4, <1>5 DEF Gates

LEMMA ReplyCoalesces ==
  ASSUME Inv, Coalesced, NEW k \in Replies, SendReplies(k)
  PROVE  Coalesced'
  <1>1. tick # NoTick /\ tick.at = "send"
    BY AwaitsTick DEF SendReplies
  <1>2. /\ flush = NoFlush /\ Occurrence \in Intents /\ intent \in [Intents -> IntentStates]
        /\ intent' = [intent EXCEPT ![Occurrence] = k]
        /\ UNCHANGED <<flush, now, ops, faults, fate, fired>>
    BY <1>1, NoFlushYet, TickKnows DEF SendReplies, Inv, TypeOK
  <1> DEFINE decision == IF k = "failed" THEN "fail_closed" ELSE k
  <1>3. PICK state \in StatesFor(k) : FinishAndServe(state, decision)
    BY DEF SendReplies
  <1> HIDE DEF decision
  <1>4. /\ state \in Ending
        /\ state \in OccurrenceTerminal => k \notin Open
        /\ k # "none"
    BY <1>3 DEF StatesFor, ScheduleStateFor, Replies, Ending, OccurrenceTerminal, Open
  <1>5. Steady /\ intent'[Occurrence] = k
    BY <1>1, <1>2, <1>4 DEF Steady
  <1>6. QED
    BY <1>1, <1>2, <1>3, <1>4, <1>5, FinishCoalesces

LEMMA ResumesCoalesce ==
  ASSUME Inv, Coalesced, NEW o \in {"send", "defer", "fail"}, Resumes(o)
  PROVE  Coalesced'
  <1> DEFINE D == DeferredFor(tick.sched)
  <1>1. tick # NoTick /\ tick.at = "resume" /\ UNCHANGED <<now, ops, faults, fate, fired>>
    BY AwaitsTick DEF Resumes
  <1>2. flush = NoFlush /\ \A i \in D : intent[i] = "deferred"
    BY <1>1, NoFlushYet DEF DeferredFor
  <1>3. CASE o = "fail"
    <2>1. /\ intent' = [i \in Intents |-> IF i \in D THEN "failed" ELSE intent[i]]
          /\ flush' = NoFlush
          /\ IF Occurrence \in D THEN FinishAndServe("failed", "")
             ELSE Serves(schedules, tick.read, tick.sched)
      BY <1>2, <1>3 DEF Resumes
    <2>2. Steady
      BY <2>1 DEF Steady, Open
    <2>3. CASE Occurrence \in D
      <3>1. intent'[Occurrence] \notin Open
        BY <1>1, <2>1, <2>3, TickKnows DEF Open
      <3>2. FinishAndServe("failed", "") /\ "failed" \in Ending
        BY <2>1, <2>3 DEF Ending
      <3>3. QED
        BY <1>1, <2>1, <2>2, <3>1, <3>2, FinishCoalesces
    <2>4. CASE Occurrence \notin D
      BY <1>1, <2>1, <2>2, <2>4, PassesCoalesce
    <2>5. QED
      BY <2>3, <2>4
  <1>4. CASE o = "defer"
    <2>1. Serves(schedules, tick.read, tick.sched) /\ UNCHANGED <<intent, flush>>
      BY <1>4 DEF Resumes
    <2>2. Steady
      BY <2>1 DEF Steady
    <2>3. QED
      BY <1>1, <1>2, <2>1, <2>2, PassesCoalesce
  <1>5. CASE o = "send"
    <2>1. /\ flush' = [NoFlush EXCEPT !.todo = D] /\ tick' = [tick EXCEPT !.at = "flush"]
          /\ UNCHANGED <<schedules, intent>>
      BY <1>5 DEF Resumes
    <2>2. flush'.outcome # "skipped"
      BY <2>1 DEF NoFlush
    <2>3. tick'.sched = tick.sched /\ tick'.occ = tick.occ /\ tick'.read = tick.read
      BY <1>1, <2>1, TickKnows DEF Ticks
    <2>4. \A u : Regular(u)' <=> Regular(u)
      BY <1>1 DEF Regular
    <2>5. InStep'
      BY <1>1, <2>1, <2>3, <2>4 DEF InStep, Coalesced, TimeOf
    <2>6. QED
      BY <1>1, <2>1, <2>2, <2>4, <2>5 DEF Coalesced, Ahead, TimeOf
  <1>6. QED
    BY <1>3, <1>4, <1>5

LEMMA FlushSendCoalesces ==
  ASSUME Inv, Coalesced, NEW i \in Intents, FlushSends(i)
  PROVE  Coalesced'
  <1>1. /\ tick # NoTick /\ i \in flush.todo /\ Cross(i)
        /\ flush' = [flush EXCEPT !.todo = @ \ {i}, !.sending = {i}]
        /\ tick' = [tick EXCEPT !.at = "resend"]
        /\ UNCHANGED <<schedules, now, ops, faults, fate>>
    BY AwaitsTick DEF FlushSends
  <1>2. intent[i] \in Open
    BY <1>1 DEF Inv, InFlight, Open
  <1>3. flush'.outcome = flush.outcome
    BY <1>1 DEF Inv, TypeOK
  <1>4. QED
    BY <1>1, <1>2, <1>3, CrossCoalesces

(* Steps that leave the schedules, the times of a tick and the clock be.   *)
LEMMA StillCoalesced ==
  ASSUME Inv, Coalesced, Steady, UNCHANGED <<schedules, fate, fired>>,
         now' \in Nat, now' >= now,
         tick' = NoTick \/ (tick # NoTick /\ \E at \in {"flush", tick.at} : tick' = [tick EXCEPT !.at = at]),
         flush'.outcome = "skipped" => Policy[tick'.sched] = "skip"
  PROVE  Coalesced'
  <1>1. \A u \in Scheds : Regular(u) => Ahead(schedules', intent', fired', u)
    BY SteadyAhead DEF Ahead, TimeOf
  <1>2. \A u : Regular(u)' <=> Regular(u)
    BY DEF Regular
  <1>3. tick' # NoTick => /\ tick # NoTick /\ tick'.sched = tick.sched
                          /\ tick'.occ = tick.occ /\ tick'.read = tick.read
    BY TickKnows DEF Ticks
  <1>4. InStep'
    BY <1>2, <1>3 DEF InStep, Coalesced, TimeOf
  <1>5. \A u \in Scheds : fired'[u] <= now'
    <2>1. \A u \in Scheds : fired[u] \in Nat /\ now \in Nat
      BY TimerAssumption DEF Inv, TypeOK
    <2>2. QED
      BY <2>1 DEF Coalesced
  <1>6. QED
    BY <1>1, <1>2, <1>4, <1>5 DEF Coalesced, Ahead, TimeOf

LEMMA FlushReplyCoalesces ==
  ASSUME Inv, Coalesced, NEW i \in Intents, NEW k \in Replies, FlushReplies(i, k)
  PROVE  Coalesced'
  <1>1. PICK out : out = IF k = "deferred" /\ Policy[i[1]] = "skip" THEN "skipped" ELSE k
    OBVIOUS
  <1>2. /\ tick # NoTick /\ tick.at = "resend" /\ i \in flush.sending
        /\ intent' = [intent EXCEPT ![i] = out]
        /\ flush' = [flush EXCEPT !.sending = {}, !.outcome = IF i = Occurrence THEN out ELSE @]
        /\ tick' = [tick EXCEPT !.at = "flush"]
        /\ UNCHANGED <<schedules, now, ops, faults, fate, fired>>
    BY <1>1, AwaitsTick DEF FlushReplies
  <1>3. intent[i] = "sending" /\ intent \in [Intents -> IntentStates] /\ now \in Nat
    BY <1>2, TimerAssumption DEF Inv, TypeOK, InFlight
  <1>4. out # "none" /\ (out = "skipped" => Policy[i[1]] = "skip")
    BY <1>1 DEF Replies
  <1>5. Steady
    BY <1>2, <1>3, <1>4 DEF Steady, Open
  <1>6. tick'.sched = tick.sched
    BY <1>2, TickKnows DEF Ticks
  <1>7. flush'.outcome = IF i = Occurrence THEN out ELSE flush.outcome
    BY <1>2 DEF Inv, TypeOK
  <1>8. flush'.outcome = "skipped" => Policy[tick'.sched] = "skip"
    BY <1>4, <1>6, <1>7 DEF Occurrence, Coalesced
  <1>9. QED
    BY <1>2, <1>3, <1>5, <1>8, StillCoalesced

LEMMA FlushEndCoalesces ==
  ASSUME Inv, Coalesced, FlushEnds
  PROVE  Coalesced'
  <1>1. /\ tick # NoTick /\ tick.at = "flush" /\ flush' = NoFlush
        /\ UNCHANGED <<intent, now, ops, faults, fate, fired>>
    BY AwaitsTick DEF FlushEnds
  <1>2. Steady
    BY <1>1 DEF Steady
  <1>3. PICK out : out = flush.outcome
    OBVIOUS
  <1>4. CASE out \in {"none", "deferred"}
    <2>1. Serves(schedules, tick.read, tick.sched)
      BY <1>3, <1>4 DEF FlushEnds
    <2>2. QED
      BY <1>1, <1>2, <2>1, PassesCoalesce
  <1>5. CASE out \notin {"none", "deferred"}
    <2>1. PICK decision : FinishAndServe(out, decision)
      BY <1>3, <1>5 DEF FlushEnds
    <2>2. out \in Ending
      BY <1>3, <1>5 DEF Inv, TypeOK, Outcomes, Ending
    <2>3. /\ out \in {"sent", "unknown_delivery", "failed"} => intent'[Occurrence] \notin Open
          /\ out = "skipped" => Policy[tick.sched] # "defer"
      BY <1>1, <1>3 DEF Inv, Noted, Open, Coalesced
    <2>4. out \in Outcomes
      BY <1>3 DEF Inv, TypeOK
    <2>5. out \in OccurrenceTerminal /\ Policy[tick.sched] = "defer" => intent'[Occurrence] \notin Open
      BY <2>3, <2>4 DEF Outcomes, OccurrenceTerminal
    <2>6. QED
      BY <1>1, <1>2, <2>1, <2>2, <2>5, FinishCoalesces
  <1>6. QED
    BY <1>4, <1>5

(* What ends or starts a tick, and what the world does.                    *)
LEMMA StartCoalesces ==
  ASSUME Inv, Coalesced, TickStarts
  PROVE  Coalesced'
  <1>1. /\ schedules \in Maps /\ 0 \in 0 .. N /\ tick.at = "idle"
        /\ Serves(schedules, schedules, 0)
        /\ UNCHANGED <<intent, flush, now, ops, faults, fate, fired>>
    BY TimerAssumption DEF TickStarts, Inv, TypeOK, Maps
  <1>2. flush = NoFlush
    BY <1>1 DEF Inv, InFlight
  <1>3. \A u \in Scheds : Regular(u) => Ahead(schedules, intent', fired, u)
    BY <1>1 DEF Coalesced
  <1>4. QED
    BY <1>1, <1>2, <1>3, ServesCoalesce

LEMMA WorldCoalesces ==
  ASSUME Inv, Coalesced,
         ResumeThrows \/ TimePasses \/ \E i \in Intents : EvidenceProves(i)
  PROVE  Coalesced'
  <1>1. now \in Nat /\ intent \in [Intents -> IntentStates]
    BY TimerAssumption DEF Inv, TypeOK
  <1>2. CASE ResumeThrows
    <2>1. /\ tick # NoTick /\ tick.at = "resume" /\ tick' = NoTick
          /\ UNCHANGED <<schedules, intent, flush, now, ops, fate, fired>>
      BY <1>2, AwaitsTick DEF ResumeThrows
    <2>2. flush'.outcome # "skipped"
      BY <2>1, NoFlushYet DEF NoFlush
    <2>3. Steady
      BY <2>1 DEF Steady
    <2>4. QED
      BY <1>1, <2>1, <2>2, <2>3, StillCoalesced
  <1>3. CASE TimePasses
    <2>1. /\ now' = now + 1
          /\ UNCHANGED <<schedules, intent, tick, flush, ops, faults, fate, fired>>
      BY <1>3 DEF TimePasses
    <2>2. tick' = NoTick \/ (tick # NoTick /\ tick' = [tick EXCEPT !.at = tick.at])
      BY <2>1 DEF Inv, TypeOK, Ticks
    <2>3. Steady
      BY <2>1 DEF Steady
    <2>4. flush'.outcome = "skipped" => Policy[tick'.sched] = "skip"
      BY <2>1 DEF Coalesced
    <2>5. QED
      BY <1>1, <2>1, <2>2, <2>3, <2>4, StillCoalesced
  <1>4. CASE \E i \in Intents : EvidenceProves(i)
    <2>1. PICK i \in Intents : EvidenceProves(i)
      BY <1>4
    <2>2. /\ intent' = [intent EXCEPT ![i] = "proved"]
          /\ UNCHANGED <<schedules, tick, flush, now, ops, faults, fate, fired>>
      BY <2>1 DEF EvidenceProves
    <2>3. tick' = NoTick \/ (tick # NoTick /\ tick' = [tick EXCEPT !.at = tick.at])
      BY <2>2 DEF Inv, TypeOK, Ticks
    <2>4. Steady
      BY <1>1, <2>2 DEF Steady, Open
    <2>5. flush'.outcome = "skipped" => Policy[tick'.sched] = "skip"
      BY <2>2 DEF Coalesced
    <2>6. QED
      BY <1>1, <2>2, <2>3, <2>4, <2>5, StillCoalesced
  <1>5. QED
    BY <1>2, <1>3, <1>4

LEMMA CrashCoalesces ==
  ASSUME Inv, Coalesced, CrashAndRestart
  PROVE  Coalesced'
  <1>1. /\ tick' = NoTick /\ flush' = NoFlush /\ UNCHANGED <<schedules, now, ops, fate, fired>>
        /\ now \in Nat
    BY TimerAssumption DEF CrashAndRestart, Inv, TypeOK
  <1>2. PICK S \in SUBSET Awaited, k \in MayHaveWritten :
          intent' = [i \in Intents |->
            IF i \in S THEN k
            ELSE IF intent[i] = "sending" THEN "unknown_delivery" ELSE intent[i]]
    BY DEF CrashAndRestart
  <1>3. k # "none"
    BY DEF MayHaveWritten, Replies
  <1>4. ASSUME NEW i \in S, intent'[i] \in Open
        PROVE  intent[i] \in Open \/ (tick # NoTick /\ i = Occurrence)
    <2>1. i \in Intents /\ i \in Awaited /\ intent[i] \in {"none", "sending", "deferred"}
      BY AwaitedOpen
    <2>2. CASE intent[i] = "none"
      <3>1. tick # NoTick
        BY <2>1 DEF Awaited, NoTick
      <3>2. CASE tick.at = "status"
        BY <2>1, <3>1, <3>2 DEF Awaited
      <3>3. CASE tick.at = "send"
        BY <2>1, <3>1, <3>3 DEF Awaited
      <3>4. CASE tick.at = "resend"
        <4>1. i \in flush.sending
          BY <2>1, <3>4 DEF Awaited
        <4>2. QED
          BY <2>2, <3>4, <4>1 DEF Inv, InFlight
      <3>5. CASE tick.at = "resume"
        BY <2>1, <2>2, <3>5 DEF Awaited, DeferredFor
      <3>6. QED
        BY <2>1, <3>2, <3>3, <3>4, <3>5 DEF Awaited
    <2>3. QED
      BY <2>1, <2>2 DEF Open
  <1>5. Steady
    <2>1. S \subseteq Intents
      BY AwaitedOpen
    <2>2. QED
      BY <1>2, <1>3, <1>4, <2>1 DEF Steady, Open
  <1>6. flush'.outcome # "skipped"
    BY <1>1 DEF NoFlush
  <1>7. QED
    BY <1>1, <1>5, <1>6, StillCoalesced
-----------------------------------------------------------------------------
(* The control operations change no time of a schedule they leave on its   *)
(* own.                                                                    *)
LEMMA OperationsCoalesce ==
  ASSUME Inv, Coalesced, NEW s \in Scheds,
         \/ StopSchedule(s) \/ RemoveSchedule(s) \/ PauseSchedule(s) \/ ResumeSchedule(s)
         \/ \E t \in Times : UpdateSchedule(s, t) \/ UpsertSchedule(s, t)
  PROVE  Coalesced'
  <1>1. schedules \in Maps /\ fate \in [Scheds -> {"own", "quiet", "busy", "rearmed"}]
    BY DEF Inv, TypeOK, Maps
  <1>2. PICK r : /\ Mutates(s, r) /\ fired' = fired
                 /\ \/ r.at = schedules[s].at /\ r.next = schedules[s].next
                    \/ fate'[s] # "own"
                 /\ \A u \in Scheds \ {s} : fate'[u] = fate[u]
                 /\ fate'[s] = "own" => fate[s] = "own"
    <2>1. schedules[s] \in Schedule
      BY <1>1 DEF Maps
    <2>2. ASSUME NEW state, Ends(s, state)
          PROVE  /\ Mutates(s, [schedules[s] EXCEPT !.state = state, !.enabled = FALSE])
                 /\ fired' = fired /\ \A u \in Scheds \ {s} : fate'[u] = fate[u]
                 /\ fate'[s] = "own" => fate[s] = "own"
      BY <1>1, <2>2 DEF Ends
    <2>3. CASE StopSchedule(s) \/ RemoveSchedule(s)
      <3>1. PICK state : Ends(s, state)
        BY <2>3 DEF StopSchedule, RemoveSchedule
      <3>2. PICK r : r = [schedules[s] EXCEPT !.state = state, !.enabled = FALSE]
        OBVIOUS
      <3>3. r.at = schedules[s].at /\ r.next = schedules[s].next
        BY <2>1, <3>2 DEF Schedule
      <3>4. QED
        BY <2>2, <3>1, <3>2, <3>3
    <2>4. CASE PauseSchedule(s) \/ ResumeSchedule(s)
      <3>1. PICK x, y, r : /\ r = [schedules[s] EXCEPT !.state = x, !.enabled = y]
                           /\ Mutates(s, r) /\ UNCHANGED <<fate, fired>>
        BY <2>4 DEF PauseSchedule, ResumeSchedule
      <3>2. r.at = schedules[s].at /\ r.next = schedules[s].next
        BY <2>1, <3>1 DEF Schedule
      <3>3. QED
        BY <3>1, <3>2
    <2>5. CASE \E t \in Times : UpdateSchedule(s, t) \/ UpsertSchedule(s, t)
      <3>1. PICK r : Rearms(s, r)
        BY <2>5 DEF UpdateSchedule, UpsertSchedule
      <3>2. fate'[s] = "rearmed" /\ \A u \in Scheds \ {s} : fate'[u] = fate[u]
        BY <1>1, <3>1 DEF Rearms
      <3>3. QED
        BY <3>1, <3>2 DEF Rearms
    <2>6. QED
      BY <2>3, <2>4, <2>5
  <1>3. schedules' = [schedules EXCEPT ![s] = r] /\ UNCHANGED <<intent, tick, flush, now, faults>>
    BY <1>2 DEF Mutates
  <1>4. /\ schedules'[s] = r
        /\ \A u \in Scheds \ {s} : schedules'[u] = schedules[u]
    BY <1>1, <1>3 DEF Maps
  <1>5. \A u \in Scheds : Regular(u)' => Regular(u)
    BY <1>2 DEF Regular
  <1>6. \A u \in Scheds : Regular(u)' => TimeOf(schedules', u) = TimeOf(schedules, u)
    BY <1>2, <1>4 DEF Regular, TimeOf, OccurrenceAt
  <1>7. \A u \in Scheds : Regular(u)' => Ahead(schedules', intent', fired', u)
    BY <1>2, <1>3, <1>5, <1>6 DEF Coalesced, Ahead
  <1>8. tick # NoTick => tick.sched \in Scheds
    BY TickKnows
  <1>9. InStep'
    BY <1>3, <1>5, <1>6, <1>8 DEF InStep, Coalesced, TimeOf
  <1>10. QED
    BY <1>2, <1>3, <1>7, <1>9 DEF Coalesced, Ahead, TimeOf

LEMMA CoalescedInit ==
  ASSUME Init
  PROVE  Coalesced
  <1>1. /\ schedules = [s \in Scheds |-> Fresh(1)] /\ intent = [i \in Intents |-> "none"]
        /\ tick = NoTick /\ flush = NoFlush /\ now = 0
        /\ fired = [s \in Scheds |-> 0]
    BY DEF Init
  <1>2. \A s \in Scheds : TimeOf(schedules, s) = 1
    BY <1>1 DEF TimeOf, OccurrenceAt, Fresh
  <1>3. \A s \in Scheds, t \in Times : intent[<<s, t>>] = "none"
    BY <1>1 DEF Intents
  <1>4. \A s \in Scheds : Ahead(schedules, intent, fired, s)
    BY <1>1, <1>2, <1>3 DEF Ahead, Open
  <1>5. QED
    BY <1>1, <1>4 DEF Coalesced, InStep, NoFlush

LEMMA CoalescedNext ==
  ASSUME Inv, Coalesced, [Next]_vars
  PROVE  Coalesced'
  <1>1. CASE TickStarts
    BY <1>1, StartCoalesces
  <1>2. CASE Await
    <2>1. CASE \E b \in {"working", "error", "other"} : BusyAnswers(b)
      BY <2>1, BusyCoalesces
    <2>2. CASE DispatchRepeats
      BY <2>2, RepeatCoalesces
    <2>3. CASE \E o \in Gates : DispatchObserves(o)
      BY <2>3, ObservesCoalesces
    <2>4. CASE \E k \in Replies : SendReplies(k)
      BY <2>4, ReplyCoalesces
    <2>5. CASE \E o \in {"send", "defer", "fail"} : Resumes(o)
      BY <2>5, ResumesCoalesce
    <2>6. CASE \E i \in Intents : FlushSends(i)
      BY <2>6, FlushSendCoalesces
    <2>7. CASE \E i \in Intents, k \in Replies : FlushReplies(i, k)
      BY <2>7, FlushReplyCoalesces
    <2>8. CASE FlushEnds
      BY <2>8, FlushEndCoalesces
    <2>9. QED
      BY <1>2, <2>1, <2>2, <2>3, <2>4, <2>5, <2>6, <2>7, <2>8 DEF Await
  <1>3. CASE ResumeThrows \/ TimePasses \/ \E i \in Intents : EvidenceProves(i)
    BY <1>3, WorldCoalesces
  <1>4. ASSUME NEW s \in Scheds,
               \/ StopSchedule(s) \/ RemoveSchedule(s) \/ PauseSchedule(s) \/ ResumeSchedule(s)
               \/ \E t \in Times : UpdateSchedule(s, t) \/ UpsertSchedule(s, t)
        PROVE  Coalesced'
    BY <1>4, OperationsCoalesce
  <1>5. CASE CrashAndRestart
    BY <1>5, CrashCoalesces
  <1>6. CASE UNCHANGED vars
    BY <1>6 DEF vars, Coalesced, InStep, Regular, Ahead, TimeOf
  <1>7. QED
    BY <1>1, <1>2, <1>3, <1>4, <1>5, <1>6 DEF Next

(* A message newly begun is that of the occurrence a tick serves.          *)
LEMMA BegunIs ==
  ASSUME Inv, [Next]_vars, NEW i \in Intents, intent[i] = "none", intent'[i] = "sending"
  PROVE  tick # NoTick /\ i = Occurrence
  <1>1. intent \in [Intents -> IntentStates]
    BY DEF Inv, TypeOK
  <1>2. CASE Await
    <2>1. ASSUME NEW o \in Gates, DispatchObserves(o)
          PROVE  tick # NoTick /\ i = Occurrence
      <3>1. tick # NoTick
        BY <2>1, AwaitsTick DEF DispatchObserves
      <3>2. \E k : intent' = [intent EXCEPT ![Occurrence] = k]
        BY <2>1 DEF DispatchObserves, Cross
      <3>3. QED
        BY <1>1, <3>1, <3>2
    <2>2. ASSUME NEW k \in Replies, SendReplies(k)
          PROVE  FALSE
      BY <1>1, <2>2 DEF SendReplies, Replies
    <2>3. ASSUME NEW o \in {"send", "defer", "fail"}, Resumes(o)
          PROVE  FALSE
      BY <1>1, <2>3 DEF Resumes
    <2>4. ASSUME NEW j \in Intents, FlushSends(j)
          PROVE  FALSE
      <3>1. intent[j] = "deferred" /\ intent' = [intent EXCEPT ![j] = "sending"]
        BY <2>4 DEF FlushSends, Cross, Inv, InFlight
      <3>2. QED
        BY <1>1, <3>1
    <2>5. ASSUME NEW j \in Intents, NEW k \in Replies, FlushReplies(j, k)
          PROVE  FALSE
      BY <1>1, <2>5 DEF FlushReplies, Replies
    <2>6. CASE (\E b \in {"working", "error", "other"} : BusyAnswers(b)) \/ DispatchRepeats \/ FlushEnds
      BY <2>6 DEF BusyAnswers, DispatchRepeats, FlushEnds
    <2>7. QED
      BY <1>2, <2>1, <2>2, <2>3, <2>4, <2>5, <2>6 DEF Await
  <1>3. CASE TickStarts \/ ResumeThrows \/ TimePasses \/ UNCHANGED vars
    BY <1>3 DEF TickStarts, ResumeThrows, TimePasses, vars
  <1>4. ASSUME NEW s \in Scheds,
               \/ StopSchedule(s) \/ RemoveSchedule(s) \/ PauseSchedule(s) \/ ResumeSchedule(s)
               \/ \E t \in Times : UpdateSchedule(s, t) \/ UpsertSchedule(s, t)
        PROVE  FALSE
    BY <1>4 DEF StopSchedule, RemoveSchedule, PauseSchedule, ResumeSchedule, UpdateSchedule,
                UpsertSchedule, Ends, Rearms, Mutates
  <1>5. CASE CrashAndRestart
    BY <1>1, <1>5 DEF CrashAndRestart, MayHaveWritten, Replies
  <1>6. ASSUME NEW j \in Intents, EvidenceProves(j)
        PROVE  FALSE
    BY <1>1, <1>6 DEF EvidenceProves
  <1>7. QED
    BY <1>2, <1>3, <1>4, <1>5, <1>6 DEF Next

LEMMA NoBacklogStep ==
  ASSUME Inv, Coalesced, [Next]_vars, NEW i \in Intents, Regular(i[1]),
         intent[i] = "none", intent'[i] = "sending"
  PROVE  i[2] > fired[i[1]]
  <1>1. tick # NoTick /\ i = Occurrence
    BY BegunIs
  <1>2. PICK s \in Scheds, t \in Times : i = <<s, t>> /\ s = tick.sched /\ t = tick.occ
    BY <1>1 DEF Intents, Occurrence
  <1>3. t = TimeOf(schedules, s) /\ Ahead(schedules, intent, fired, s)
    BY <1>1, <1>2 DEF Coalesced, InStep
  <1>4. QED
    BY <1>2, <1>3 DEF Ahead

(* A message of an interval schedule is never one of a backlog: it is for  *)
(* a time after the schedule's previous message (finishOccurrence), for    *)
(* every interval, clock and number of schedules.                          *)
THEOREM MissedCoalesced == Spec => NoBacklog
  <1>1. Init => Inv /\ Coalesced
    BY InvInit, CoalescedInit
  <1>2. Inv /\ Coalesced /\ [Next]_vars => (Inv /\ Coalesced)'
    BY InvNext, CoalescedNext
  <1>3. Inv /\ Coalesced /\ [Next]_vars =>
          [\A i \in Intents :
             /\ Regular(i[1]) /\ intent[i] = "none" /\ intent'[i] = "sending"
             => i[2] > fired[i[1]]]_vars
    BY NoBacklogStep
  <1>4. QED
    BY <1>1, <1>2, <1>3, PTL DEF Spec, NoBacklog
=============================================================================

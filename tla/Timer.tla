-------------------------------- MODULE Timer --------------------------------
(***************************************************************************)
(* The timer operator (src/src/timer.js) against the schedule operations   *)
(* of the control plane (src/src/control.js).  Both keep the schedules     *)
(* under one key of the durable store, as one map that is read and written *)
(* whole.                                                                  *)
(*                                                                         *)
(* A tick reads the map once, at its start, and serves the schedules it    *)
(* found there one after another, in the order of their ids; whenever it   *)
(* changes one it writes back the map it read.  It awaits the daemon       *)
(* between these writes, and a control operation that runs during such an  *)
(* await reads and writes the stored map.  A tick's synchronous run from   *)
(* one await to the next is one action.                                    *)
(*                                                                         *)
(* The daemon's send path is module Delivery; here an occurrence's intent  *)
(* has the outcome of its send, and a flush settles the deferred intents   *)
(* of the target one at a time.                                            *)
(***************************************************************************)
EXTENDS Naturals, FiniteSets, FiniteSetsExt

CONSTANTS
  N,           \* schedules are numbered in the order of their ids
  TargetOf,    \* target session of each schedule
  Mode,        \* "once" or "interval"
  Interval,    \* interval of each schedule, in units of time
  Policy,      \* busy_policy: "defer" or "skip"
  MaxTime,     \* bound: the clock stops here
  MaxOps,      \* bound: control operations
  MaxFaults    \* bound: crashes of the daemon

Scheds == 1 .. N
Times == 1 .. MaxTime
Intents == Scheds \X Times

ASSUME TimerAssumption ==
  /\ N \in Nat \ {0}
  /\ Mode \in [Scheds -> {"once", "interval"}]
  /\ Interval \in [Scheds -> Nat \ {0}]
  /\ Policy \in [Scheds -> {"defer", "skip"}]
  /\ MaxTime \in Nat \ {0} /\ {MaxOps, MaxFaults} \subseteq Nat

VARIABLES
  schedules,  \* durable: the stored map
  intent,     \* durable: the outbox record of each occurrence
  tick,       \* the running tick: what it awaits, the schedule and the
              \* occurrence it serves, and the map it read
  flush,      \* the flush a tick awaits: the intents still listed, and the
              \* outcome for the occurrence the tick serves
  now, ops, faults,
  fate,       \* history: "own" until an operation rearms, stops or removes the
              \* schedule, and if it ended, whether a tick was running
  fired       \* history: when the last message of a schedule crossed

vars == <<schedules, intent, tick, flush, now, ops, faults, fate, fired>>

Lasting == {"cancelled", "stopped", "disabled"}
TimerTerminal ==
  Lasting \cup {"failed", "sent", "unknown_delivery", "skipped", "session_missing"}
OccurrenceTerminal ==
  {"sent", "unknown_delivery", "failed", "skipped", "session_missing"}
ControlTerminal == {"cancelled", "stopped", "session_missing"}
Stoppable ==
  {"configured", "enabled", "disabled", "deferred_while_working", "send_pending"}
ScheduleStates ==
  TimerTerminal \cup Stoppable \cup {"claimed"}

(* at: the configured time; next: next_at, 0 if unset; occ: the current    *)
(* occurrence, 0 if unset; doubt: the last decision was unknown_delivery.  *)
Schedule ==
  [state : ScheduleStates, enabled : BOOLEAN, at : Times, next : Nat,
   occ : 0 .. MaxTime, doubt : BOOLEAN]
Fresh(t) ==
  [state |-> "configured", enabled |-> TRUE, at |-> t, next |-> 0, occ |-> 0,
   doubt |-> FALSE]

NoFlush == [todo |-> {}, sending |-> {}, outcome |-> "none"]
NoTick == [at |-> "idle", sched |-> 0, occ |-> 0, was |-> 0, read |-> <<>>]
IntentStates ==
  {"none", "sending", "deferred", "sent", "unknown_delivery", "proved",
   "failed", "skipped"}

Outcomes == {"none", "deferred", "sent", "unknown_delivery", "failed", "skipped"}
Ticks ==
  [at : {"busy", "status", "send", "resume", "flush", "resend"}, sched : Scheds,
   occ : Times, was : 0 .. MaxTime, read : [Scheds -> Schedule]]

TypeOK ==
  /\ schedules \in [Scheds -> Schedule]
  /\ intent \in [Intents -> IntentStates]
  /\ tick = NoTick \/ tick \in Ticks
  /\ flush \in [todo : SUBSET Intents, sending : SUBSET Intents, outcome : Outcomes]
  /\ now \in 0 .. MaxTime /\ ops \in 0 .. MaxOps /\ faults \in 0 .. MaxFaults
  /\ fate \in [Scheds -> {"own", "quiet", "busy", "rearmed"}]
  /\ fired \in [Scheds -> 0 .. MaxTime]

Init ==
  /\ schedules = [s \in Scheds |-> Fresh(1)]
  /\ intent = [i \in Intents |-> "none"]
  /\ tick = NoTick
  /\ flush = NoFlush
  /\ now = 0 /\ ops = 0 /\ faults = 0
  /\ fate = [s \in Scheds |-> "own"]
  /\ fired = [s \in Scheds |-> 0]
-----------------------------------------------------------------------------
(* claimOccurrence: the occurrence a schedule is due for, if any.          *)
OccurrenceAt(r, s) == IF Mode[s] = "interval" /\ r.next # 0 THEN r.next ELSE r.at

(* Claims that forget a guard, or that leave a claim of a dead daemon.     *)
ClaimableAnyState(r, s) == OccurrenceAt(r, s) <= now
ClaimableUnclaimed(r, s) ==
  /\ r.enabled /\ r.state \notin TimerTerminal \cup {"claimed", "send_pending"}
  /\ OccurrenceAt(r, s) <= now

Claimable(r, s) ==
  LET t == OccurrenceAt(r, s) IN
  /\ r.enabled /\ r.state \notin TimerTerminal
  /\ t <= now
  /\ ~(r.occ = t /\ r.state \in OccurrenceTerminal)
  /\ ~(/\ Mode[s] = "interval" /\ r.occ = t /\ r.doubt
       /\ intent[<<s, t>>] = "unknown_delivery")

Doubts(r, decision) == IF decision = "" THEN r.doubt ELSE decision = "unknown_delivery"

(* finishOccurrence on the stored map db and the map m the tick read: a    *)
(* schedule that was stopped, removed or paused meanwhile is kept in the   *)
(* stored map, otherwise the tick's own map is written back.               *)
NextAtBacklog(s, t) == t + Interval[s]
NextAt(s, t) ==
  t + Interval[s] * Max({1, (now - t) \div Interval[s] + 1})

Finished(r, s, t, state, decision) ==
  LET q == [r EXCEPT !.occ = t, !.doubt = Doubts(r, decision)] IN
  IF Mode[s] = "interval" /\ state \in OccurrenceTerminal
  THEN IF state = "session_missing"
       THEN [q EXCEPT !.state = state, !.enabled = FALSE]
       ELSE [q EXCEPT !.state = "enabled", !.enabled = TRUE, !.next = NextAt(s, t)]
  ELSE [q EXCEPT !.state = state,
                 !.enabled = IF state \in OccurrenceTerminal THEN FALSE ELSE r.enabled]

FinishDb(db, m, s, t, state, decision) ==
  IF db[s].state \in Lasting
  THEN [db EXCEPT ![s].occ = t, ![s].doubt = Doubts(db[s], decision)]
  ELSE [m EXCEPT ![s] = Finished(m[s], s, t, state, decision)]

FinishRead(db, m, s, t, state, decision) ==
  IF db[s].state \in Lasting THEN m ELSE FinishDb(db, m, s, t, state, decision)

(* A tick that returned where it should continue would serve one only.     *)
DueFirst(m, s) == {r \in Scheds : s = 0 /\ Claimable(m[r], r)}
Due(m, s) == {r \in Scheds : r > s /\ Claimable(m[r], r)}

(* The rest of the synchronous run: the next claimable schedule after s is *)
(* claimed, which writes the whole map m, and the tick awaits the daemon;  *)
(* or the tick is over.                                                    *)
Serves(db, m, s) ==
  IF Due(m, s) = {}
  THEN schedules' = db /\ tick' = NoTick
  ELSE LET n == Min(Due(m, s))
           t == OccurrenceAt(m[n], n)
           claimed == [m EXCEPT ![n].state = "claimed", ![n].occ = t]
           pending == [m EXCEPT ![n].state = "send_pending"]
           awaits(what, map) ==
             [at |-> what, sched |-> n, occ |-> t, was |-> m[n].occ, read |-> map]
       IN CASE m[n].state = "deferred_while_working" ->
                 schedules' = db /\ tick' = awaits("resume", m)
            [] m[n].state # "deferred_while_working" /\ Policy[n] = "skip" ->
                 schedules' = claimed /\ tick' = awaits("busy", claimed)
            [] OTHER ->
                 schedules' = pending /\ tick' = awaits("status", pending)

FinishAndServe(state, decision) ==
  LET s == tick.sched
      t == tick.occ
  IN Serves(FinishDb(schedules, tick.read, s, t, state, decision),
            FinishRead(schedules, tick.read, s, t, state, decision), s)
-----------------------------------------------------------------------------
TickStarts ==
  /\ tick.at = "idle"
  /\ \E s \in Scheds : Claimable(schedules[s], s)
  /\ Serves(schedules, schedules, 0)
  /\ UNCHANGED <<intent, flush, now, ops, faults, fate, fired>>

(* busy_policy=skip reads the status first: working skips the occurrence,  *)
(* a failed read fails it, anything else goes on to the dispatch.          *)
BusyAnswers(state) ==
  /\ tick.at = "busy"
  /\ CASE state = "working" -> FinishAndServe("skipped", "skipped")
       [] state = "error" -> \E e \in {"failed", "session_missing"} : FinishAndServe(e, "")
       [] OTHER ->
            LET m == [tick.read EXCEPT ![tick.sched].state = "send_pending",
                                       ![tick.sched].occ = tick.was] IN
            schedules' = m /\ tick' = [tick EXCEPT !.at = "status", !.read = m]
  /\ UNCHANGED <<intent, flush, now, ops, faults, fate, fired>>

Occurrence == <<tick.sched, tick.occ>>
Cross(i) ==
  /\ intent' = [intent EXCEPT ![i] = "sending"]
  /\ fired' = [fired EXCEPT ![i[1]] = IF fate[i[1]] = "own" THEN now ELSE @]

(* dispatchIntent of an occurrence that already has a record answers from  *)
(* it; the others wait for the status.                                     *)
ScheduleStateBelieved(decision) ==
  IF decision \in {"sent", "unknown_delivery"} THEN "sent" ELSE "failed"
ScheduleStateRaw(decision) == decision

ScheduleStateFor(decision) ==
  CASE decision \in {"sent", "unknown_delivery"} -> decision
    [] decision = "deferred" -> "deferred_while_working"
    [] OTHER -> "failed"

Recorded(i) == IF intent[i] = "proved" THEN "unknown_delivery" ELSE intent[i]

DispatchRepeats ==
  /\ tick.at = "status" /\ intent[Occurrence] # "none"
  /\ FinishAndServe(ScheduleStateFor(Recorded(Occurrence)), Recorded(Occurrence))
  /\ UNCHANGED <<intent, flush, now, ops, faults, fate, fired>>

DispatchObserves(o) ==
  /\ tick.at = "status" /\ intent[Occurrence] = "none"
  /\ \/ /\ o = "send"
        /\ Cross(Occurrence)
        /\ tick' = [tick EXCEPT !.at = "send"]
        /\ UNCHANGED schedules
     \/ /\ o = "defer"
        /\ intent' = [intent EXCEPT ![Occurrence] = "deferred"]
        /\ FinishAndServe("deferred_while_working", "deferred")
        /\ UNCHANGED fired
     \/ /\ o \in {"failed", "session_missing"}
        /\ intent' = [intent EXCEPT ![Occurrence] = "failed"]
        /\ FinishAndServe(o, "fail_closed")
        /\ UNCHANGED fired
  /\ UNCHANGED <<flush, now, ops, faults, fate>>

(* The transport's answer to a send; the code of a refusal may say that    *)
(* there is no such session.                                               *)
Replies == {"sent", "deferred", "unknown_delivery", "failed"}

StatesFor(k) ==
  {ScheduleStateFor(k)} \cup (IF k = "failed" THEN {"session_missing"} ELSE {})

SendReplies(k) ==
  /\ tick.at = "send"
  /\ intent' = [intent EXCEPT ![Occurrence] = k]
  /\ \E e \in StatesFor(k) : FinishAndServe(e, IF k = "failed" THEN "fail_closed" ELSE k)
  /\ UNCHANGED <<flush, now, ops, faults, fate, fired>>
-----------------------------------------------------------------------------
(* A deferred schedule resumes every deferred intent of its target.        *)
DeferredFor(s) ==
  {i \in Intents : TargetOf[i[1]] = TargetOf[s] /\ intent[i] = "deferred"}

Resumes(o) ==
  /\ tick.at = "resume"
  /\ LET D == DeferredFor(tick.sched) IN
     \/ /\ o = "fail"
        /\ intent' = [i \in Intents |-> IF i \in D THEN "failed" ELSE intent[i]]
        /\ IF Occurrence \in D
           THEN FinishAndServe("failed", "")
           ELSE Serves(schedules, tick.read, tick.sched)
        /\ UNCHANGED flush
     \/ /\ o = "defer"
        /\ Serves(schedules, tick.read, tick.sched)
        /\ UNCHANGED <<intent, flush>>
     \/ /\ o = "send"
        /\ flush' = [NoFlush EXCEPT !.todo = D]
        /\ tick' = [tick EXCEPT !.at = "flush"]
        /\ UNCHANGED <<schedules, intent>>
  /\ UNCHANGED <<now, ops, faults, fate, fired>>

(* The status read of a flush is not caught: the tick ends with it.  It    *)
(* may fail at every tick.                                                 *)
ResumeThrows ==
  /\ tick.at = "resume"
  /\ tick' = NoTick
  /\ UNCHANGED <<schedules, intent, flush, now, ops, faults, fate, fired>>

FlushSends(i) ==
  /\ tick.at = "flush" /\ i \in flush.todo
  /\ Cross(i)
  /\ flush' = [flush EXCEPT !.todo = @ \ {i}, !.sending = {i}]
  /\ tick' = [tick EXCEPT !.at = "resend"]
  /\ UNCHANGED <<schedules, now, ops, faults, fate>>

(* A busy answer (k = "deferred") skips the intent of a skip schedule.     *)
FlushReplies(i, k) ==
  LET outcome == IF k = "deferred" /\ Policy[i[1]] = "skip" THEN "skipped" ELSE k IN
  /\ tick.at = "resend" /\ i \in flush.sending
  /\ intent' = [intent EXCEPT ![i] = outcome]
  /\ flush' = [flush EXCEPT !.sending = {},
                            !.outcome = IF i = Occurrence THEN outcome ELSE @]
  /\ tick' = [tick EXCEPT !.at = "flush"]
  /\ UNCHANGED <<schedules, now, ops, faults, fate, fired>>

(* The flush is over: the tick finishes its occurrence if the flush sent,  *)
(* failed or skipped it.                                                   *)
FlushEnds ==
  /\ tick.at = "flush" /\ flush.todo = {}
  /\ flush' = NoFlush
  /\ IF flush.outcome \in {"none", "deferred"}
     THEN Serves(schedules, tick.read, tick.sched)
     ELSE FinishAndServe(flush.outcome, IF flush.outcome = "skipped" THEN "skipped" ELSE "")
  /\ UNCHANGED <<intent, now, ops, faults, fate, fired>>
-----------------------------------------------------------------------------
(* The control operations, each one synchronous read and write.            *)
Serving(s) == tick.at # "idle" /\ tick.sched = s

Mutates(s, r) ==
  /\ ops < MaxOps /\ ops' = ops + 1
  /\ schedules' = [schedules EXCEPT ![s] = r]
  /\ UNCHANGED <<intent, tick, flush, now, faults>>

Ends(s, state) ==
  /\ Mutates(s, [schedules[s] EXCEPT !.state = state, !.enabled = FALSE])
  /\ fate' = [fate EXCEPT ![s] =
       IF tick.at = "idle" THEN "quiet" ELSE IF Serving(s) THEN @ ELSE "busy"]
  /\ UNCHANGED fired

StopSchedule(s) == schedules[s].state \in Stoppable /\ Ends(s, "stopped")
RemoveSchedule(s) == Ends(s, "cancelled")

PauseSchedule(s) ==
  /\ schedules[s].state \notin ControlTerminal
  /\ Mutates(s, [schedules[s] EXCEPT !.state = "disabled", !.enabled = FALSE])
  /\ UNCHANGED <<fate, fired>>

ResumeSchedule(s) ==
  /\ schedules[s].state \notin ControlTerminal
  /\ Mutates(s, [schedules[s] EXCEPT !.state = "enabled", !.enabled = TRUE])
  /\ UNCHANGED <<fate, fired>>

(* A new time rearms the schedule: an update unless it is terminal, an     *)
(* upsert in any state.                                                    *)
Rearms(s, r) ==
  /\ Mutates(s, r)
  /\ fate' = [fate EXCEPT ![s] = "rearmed"]
  /\ UNCHANGED fired

UpdateSchedule(s, t) ==
  /\ schedules[s].state \notin ControlTerminal
  /\ Rearms(s, [Fresh(t) EXCEPT !.doubt = schedules[s].doubt])

UpsertSchedule(s, t) == Rearms(s, Fresh(t))
-----------------------------------------------------------------------------
(* External: time passes, evidence proves an unknown delivery (module      *)
(* Reconcile), the daemon dies and starts again.                           *)
TimePasses ==
  /\ now < MaxTime /\ now' = now + 1
  /\ UNCHANGED <<schedules, intent, tick, flush, ops, faults, fate, fired>>

EvidenceProves(i) ==
  /\ intent[i] = "unknown_delivery"
  /\ intent' = [intent EXCEPT ![i] = "proved"]
  /\ UNCHANGED <<schedules, tick, flush, now, ops, faults, fate, fired>>

(* A send in flight becomes an unknown delivery (recoverOutbox), unless    *)
(* what the await brought was still written to the outbox: the daemon may  *)
(* die between that write and the one to the schedules.                    *)
Awaited ==
  CASE tick.at = "status" -> {Occurrence} \ {i \in Intents : intent[i] # "none"}
    [] tick.at = "send" -> {Occurrence}
    [] tick.at = "resend" -> flush.sending
    [] tick.at = "resume" -> DeferredFor(tick.sched)
    [] OTHER -> {}
MayHaveWritten ==
  CASE tick.at = "status" -> {"deferred", "failed"}
    [] tick.at = "resume" -> {"failed"}
    [] OTHER -> Replies

CrashAndRestart ==
  /\ faults < MaxFaults /\ faults' = faults + 1
  /\ tick' = NoTick /\ flush' = NoFlush
  /\ \E S \in SUBSET Awaited, k \in MayHaveWritten :
       intent' = [i \in Intents |->
         IF i \in S THEN k
         ELSE IF intent[i] = "sending" THEN "unknown_delivery" ELSE intent[i]]
  /\ UNCHANGED <<schedules, now, ops, fate, fired>>

Gates == {"send", "defer", "failed", "session_missing"}

Await ==
  \/ \E b \in {"working", "error", "other"} : BusyAnswers(b)
  \/ DispatchRepeats
  \/ \E o \in Gates : DispatchObserves(o)
  \/ \E k \in Replies : SendReplies(k)
  \/ \E o \in {"send", "defer", "fail"} : Resumes(o)
  \/ \E i \in Intents : FlushSends(i) \/ \E k \in Replies : FlushReplies(i, k)
  \/ FlushEnds

Next ==
  \/ TickStarts \/ Await \/ ResumeThrows
  \/ \E s \in Scheds :
       \/ StopSchedule(s) \/ RemoveSchedule(s) \/ PauseSchedule(s) \/ ResumeSchedule(s)
       \/ \E t \in Times : UpdateSchedule(s, t) \/ UpsertSchedule(s, t)
  \/ TimePasses \/ CrashAndRestart
  \/ \E i \in Intents : EvidenceProves(i)

Spec == Init /\ [][Next]_vars

(* The interval keeps ticking and every await on the daemon ends, with an  *)
(* answer or an error.                                                     *)
FairSpec == Spec /\ WF_vars(TickStarts) /\ WF_vars(Await \/ ResumeThrows)
-----------------------------------------------------------------------------
(* A schedule that says how its occurrence ended is right about it, though *)
(* ticks write back a map they read before other tasks changed it: sent    *)
(* and unknown are what the outbox recorded, and a failed one of a         *)
(* schedule that waits for its target is not on its way.                   *)
ScheduleTellsTruth ==
  \A s \in Scheds :
    LET r == schedules[s] IN
    /\ r.state = "sent" => intent[<<s, r.occ>>] = "sent"
    /\ r.state = "unknown_delivery" =>
         intent[<<s, r.occ>>] \in {"unknown_delivery", "proved"}
    /\ r.state \in {"failed", "session_missing"} /\ Policy[s] = "defer" =>
         r.occ = 0 \/ intent[<<s, r.occ>>] \notin {"sending", "sent"}

(* Missed occurrences are coalesced: a message of an interval schedule is  *)
(* for an occurrence later than the moment its previous message went, so   *)
(* no backlog is sent after the daemon was down or the target busy.  A     *)
(* schedule the user rearmed starts afresh; one with busy_policy skip is   *)
(* left out: the deferred intent of an occurrence it reports as skipped    *)
(* (SkippedHasNoIntent) may be sent beside its next one.                   *)
Regular(s) == Mode[s] = "interval" /\ Policy[s] = "defer" /\ fate[s] = "own"
NoBacklog ==
  [][\A i \in Intents :
       /\ Regular(i[1]) /\ intent[i] = "none" /\ intent'[i] = "sending"
       => i[2] > fired[i[1]]]_vars

(* A schedule stopped or removed while no tick runs stays so through every *)
(* later tick, until it is set up again.                                   *)
QuietStopSticks ==
  \A s \in Scheds : fate[s] = "quiet" => schedules[s].state \in {"stopped", "cancelled"}

(* A deferred neighbour that is served before s (its id is smaller) and    *)
(* whose target cannot be asked for its status, again and again, ends      *)
(* every tick before s is reached.                                         *)
NeighbourThrows(s) == \E r \in 1 .. s - 1 : []<><<ResumeThrows /\ tick.sched = r>>_vars

(* A claimed occurrence is always carried to an end, also when the daemon  *)
(* died while it was being sent: the next tick that comes so far finds the *)
(* claim, and only such a neighbour can keep all of them from it.          *)
ClaimEnds ==
  \A s \in Scheds :
    \/ schedules[s].state \in {"claimed", "send_pending"}
         ~> schedules[s].state \notin {"claimed", "send_pending"}
    \/ NeighbourThrows(s)

(* A due schedule is eventually served, whatever is done to its neighbours *)
(* and whatever becomes of their occurrences, but for such a neighbour.    *)
DueIsServed ==
  \A s \in Scheds :
    \/ schedules[s].state \in {"configured", "enabled"} /\ Claimable(schedules[s], s)
         ~> ~(schedules[s].state \in {"configured", "enabled"} /\ Claimable(schedules[s], s))
    \/ NeighbourThrows(s)
-----------------------------------------------------------------------------
(* README.md: a stopped or cancelled schedule never fires again.  A stop   *)
(* that arrives while the tick serves that very schedule is not counted.   *)
StoppedNeverFires ==
  [][\A i \in Intents :
       fate[i[1]] \in {"quiet", "busy"} => ~(intent[i] # "sending" /\ intent'[i] = "sending")]_vars

(* docs/design/rccs-framework-closeout.md: a skipped occurrence is         *)
(* recorded without an intent.                                             *)
SkippedHasNoIntent ==
  \A s \in Scheds :
    schedules[s].state = "skipped"
      => intent[<<s, schedules[s].occ>>] \in {"none", "skipped"}

(* docs/design/rccs-framework-closeout.md: once a deferred occurrence has  *)
(* reached a terminal state, the schedule moves on.                        *)
SentDeferredMovesOn ==
  \A s \in Scheds :
    schedules[s].state = "deferred_while_working" /\ schedules[s].occ # 0
      /\ intent[<<s, schedules[s].occ>>] = "sent"
      ~> schedules[s].state # "deferred_while_working"
=============================================================================

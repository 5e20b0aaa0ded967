----------------------------- MODULE LongHorizon -----------------------------
(***************************************************************************)
(* The LongHorizon operations of the control plane (src/src/control.js):   *)
(* the goals it keeps under one key of the store, the recurring schedule   *)
(* that checks each of them under another, and the operator switches under *)
(* a third.  An operation is one synchronous run, but it writes the store  *)
(* several times: the daemon may die between any two of its writes, and an *)
(* exception leaves the writes made before it.                             *)
(*                                                                         *)
(* An operation is therefore given as the sequence of stores it writes.    *)
(*                                                                         *)
(* The tick of the timer (module Timer) takes part because it writes back  *)
(* the map of schedules it read.  All schedules here are recurring ones    *)
(* with busy_policy skip, as LongHorizon makes them.  Time is left out: a  *)
(* live schedule is due whenever a tick looks.  The states configured,     *)
(* enabled and due are one, nothing here tells them apart; so are the      *)
(* reports a goal keeps about its schedule.  Session aliases stay bound.   *)
(***************************************************************************)
EXTENDS Naturals, FiniteSets, Sequences, SequencesExt

CONSTANTS
  Goals,        \* ids of LongHorizon records
  Plain,        \* schedules of users
  Mode,         \* "goal" or "periodic", for each record
  MaxRestarts,  \* bound: restarts of the daemon
  MaxOps        \* bound: control operations

(* A schedule of a goal has a generation; a restart may make a new one,    *)
(* named after the time of the restart, here its number.                   *)
Generations == 0 .. MaxRestarts
GoalScheds == Goals \X Generations
Scheds == GoalScheds \cup (Plain \X {0})

ASSUME LongHorizonAssumption ==
  /\ Goals \cap Plain = {}
  /\ IsFiniteSet(Goals) /\ IsFiniteSet(Plain)
  /\ Mode \in [Goals -> {"goal", "periodic"}]
  /\ MaxRestarts \in Nat /\ MaxOps \in Nat

VARIABLES
  store,     \* durable: the goals, the schedules and the operator switches
  tick,      \* the running tick: what it awaits, the schedule it serves, the
             \* ones it serves after it, and the map of schedules it read
  up,        \* hooksd runs
  restarts, ops,
  tampered,  \* history: goals whose schedules a schedule operation, a crash
             \* within an operation, or a tick has interfered with
  switched,  \* history: the same of the switches
  armed      \* history: schedules set going by a schedule operation that
             \* leaves the switches alone

vars == <<store, tick, up, restarts, ops, tampered, switched, armed>>

Lasting == {"cancelled", "stopped", "disabled"}
Terminal == {"cancelled", "stopped", "session_missing"}
Stoppable == {"enabled", "disabled", "send_pending"}
Alive == {"enabled", "claimed", "send_pending"}
GoalStates == {"none", "active", "paused", "stopped", "removed"}

NoTick == [at |-> "idle", sched |-> <<>>, todo |-> {}, read |-> <<>>]

States == {"none"} \cup Alive \cup Lasting \cup Terminal
Operators == {"longhorizon", "stopless", "timer"}
Stores ==
  [goals : [Goals -> [state : GoalStates, gen : Generations]],
   scheds : [Scheds -> States],
   switch : [longhorizon : BOOLEAN, stopless : BOOLEAN, timer : BOOLEAN]]
Ticks == [at : {"busy", "send"}, sched : Scheds, todo : SUBSET Scheds, read : [Scheds -> States]]

TypeOK ==
  /\ store \in Stores
  /\ tick = NoTick \/ tick \in Ticks
  /\ up \in BOOLEAN /\ restarts \in Generations /\ ops \in 0 .. MaxOps
  /\ tampered \subseteq Goals /\ switched \in BOOLEAN /\ armed \subseteq Scheds

Init ==
  /\ store = [goals |-> [g \in Goals |-> [state |-> "none", gen |-> 0]],
              scheds |-> [s \in Scheds |-> "none"],
              switch |-> [longhorizon |-> FALSE, stopless |-> FALSE, timer |-> FALSE]]
  /\ tick = NoTick
  /\ up = TRUE /\ restarts = 0 /\ ops = 0
  /\ tampered = {} /\ switched = FALSE /\ armed = {}
-----------------------------------------------------------------------------
Active(d) == {g \in Goals : d.goals[g].state = "active"}
ActiveGoals(d) == {g \in Active(d) : Mode[g] = "goal"}
Live(d) == {s \in Scheds : d.scheds[s] \in Alive}
CheckOf(d, g) == <<g, d.goals[g].gen>>
CheckState(d, g) == d.scheds[CheckOf(d, g)]

(* syncOperatorState, and one that never turns an operator off.            *)
SyncOnlyOn(d) ==
  [d EXCEPT !.switch = [longhorizon |-> @.longhorizon \/ Active(d) # {},
                        stopless |-> @.stopless \/ ActiveGoals(d) # {},
                        timer |-> @.timer \/ Live(d) # {}]]
Sync(d) ==
  [d EXCEPT !.switch = [longhorizon |-> Active(d) # {},
                        stopless |-> ActiveGoals(d) # {},
                        timer |-> Active(d) \ ActiveGoals(d) # {} \/ Live(d) # {}]]

WithGoal(d, g, state) == [d EXCEPT !.goals[g].state = state]
WithSched(d, s, state) == [d EXCEPT !.scheds[s] = state]

(* registerLongHorizon: an id that is known is returned as it is.          *)
Register(d, g) ==
  IF d.goals[g].state # "none" THEN <<>>
  ELSE LET a == WithSched(d, <<g, 0>>, "enabled")
           b == [a EXCEPT !.goals[g] = [state |-> "active", gen |-> 0]]
       IN <<a, b, Sync(b)>>

(* setLongHorizonEnabled.  A periodic record whose schedule is gone is not *)
(* activated, and pausing it throws after its first write; a goal keeps    *)
(* its new state without a schedule.                                       *)
Gone(d, g) == CheckState(d, g) \in Terminal \cup {"none"}

Switches(d, g, state, sched) ==
  LET a == WithGoal(d, g, state)
      b == WithSched(a, CheckOf(d, g), sched)
  IN CASE ~Gone(d, g) -> <<a, b, Sync(b)>>
       [] Gone(d, g) /\ Mode[g] = "goal" -> <<a, Sync(a)>>
       [] OTHER -> IF state = "active" THEN <<>> ELSE <<a>>

Ended(d, g) == d.goals[g].state \in {"none", "stopped", "removed"}
Activate(d, g) == IF Ended(d, g) THEN <<>> ELSE Switches(d, g, "active", "enabled")
Pause(d, g) == IF Ended(d, g) THEN <<>> ELSE Switches(d, g, "paused", "disabled")

(* stopLongHorizon.  A claimed schedule cannot be stopped: a periodic      *)
(* record throws after its first write, a goal passes over it.             *)
StopLeavesCheck(d, g) ==
  IF d.goals[g].state = "none" THEN <<>>
  ELSE LET a == WithGoal(d, g, "stopped") IN <<a, Sync(a)>>

Stop(d, g) ==
  LET a == WithGoal(d, g, "stopped")
      b == WithSched(a, CheckOf(d, g), "stopped")
  IN CASE d.goals[g].state = "none" -> <<>>
       [] d.goals[g].state # "none" /\ CheckState(d, g) \in Stoppable -> <<a, b, Sync(b)>>
       [] OTHER -> IF Mode[g] = "periodic" /\ ~Gone(d, g) THEN <<a>> ELSE <<a, Sync(a)>>

StopThrows(d, g) == Mode[g] = "periodic" /\ CheckState(d, g) = "claimed"
Removes(d, g) ==
  LET w == Stop(d, g) IN
  IF w = <<>> \/ StopThrows(d, g) THEN w ELSE Append(w, WithGoal(Last(w), g, "removed"))
-----------------------------------------------------------------------------
(* An operation that completes (or throws) leaves its last write; one the  *)
(* daemon dies in leaves any earlier one.                                  *)
Completes(w) == store' = Last(w) /\ UNCHANGED <<tick, up>>
Dies(w) ==
  /\ restarts < MaxRestarts
  /\ \E k \in 1 .. Len(w) - 1 : store' = w[k]
  /\ up' = FALSE /\ tick' = NoTick

Mutation == up /\ ops < MaxOps /\ ops' = ops + 1

(* What makes the outcome of an operation on g depend on more than g: a    *)
(* tick that runs, or a claim left by a tick (also of a dead daemon).      *)
Disturbed(g) == tick.at # "idle" \/ CheckState(store, g) = "claimed"

GoalOperation(g, w) ==
  /\ Mutation /\ w # <<>>
  /\ \/ /\ Completes(w)
        /\ tampered' = IF Disturbed(g) THEN tampered \cup {g} ELSE tampered
        /\ switched' = (switched \/ Disturbed(g) \/ Last(w) # Sync(Last(w)))
     \/ Dies(w) /\ tampered' = tampered \cup {g} /\ switched' = TRUE
  /\ UNCHANGED <<restarts, armed>>

RegisterLongHorizon(g) == GoalOperation(g, Register(store, g))
ActivateLongHorizon(g) == GoalOperation(g, Activate(store, g))
PauseLongHorizon(g) == GoalOperation(g, Pause(store, g))
StopLongHorizon(g) == GoalOperation(g, Stop(store, g))
RemoveLongHorizon(g) == GoalOperation(g, Removes(store, g))

(* The operations on one schedule (module Timer), here as they meet those  *)
(* on goals: only schedule.add turns the timer on.                         *)
ScheduleWrite(s, w) ==
  /\ Mutation
  /\ \/ Completes(w)
     \/ Dies(w)
  /\ tampered' = tampered \cup (Goals \cap {s[1]})
  /\ UNCHANGED <<restarts, switched>>

AddSchedule(s) ==
  /\ LET a == WithSched(store, s, "enabled") IN
     ScheduleWrite(s, <<a, [a EXCEPT !.switch.timer = TRUE]>>)
  /\ armed' = IF up' THEN armed ELSE armed \cup {s}
PauseSchedule(s) ==
  /\ store.scheds[s] \notin Terminal \cup {"none"}
  /\ ScheduleWrite(s, <<WithSched(store, s, "disabled")>>)
  /\ UNCHANGED armed
ResumeSchedule(s) ==
  /\ store.scheds[s] \notin Terminal \cup {"none"}
  /\ ScheduleWrite(s, <<WithSched(store, s, "enabled")>>)
  /\ armed' = armed \cup {s}
StopSchedule(s) ==
  /\ store.scheds[s] \in Stoppable
  /\ ScheduleWrite(s, <<WithSched(store, s, "stopped")>>)
  /\ UNCHANGED armed
RemoveSchedule(s) ==
  /\ store.scheds[s] # "none"
  /\ ScheduleWrite(s, <<WithSched(store, s, "cancelled")>>)
  /\ UNCHANGED armed

SetOperator(o, on) ==
  /\ Mutation
  /\ store' = [store EXCEPT !.switch[o] = on]
  /\ switched' = TRUE
  /\ UNCHANGED <<tick, up, restarts, tampered, armed>>
-----------------------------------------------------------------------------
(* The tick, from await to await: it claims a schedule and awaits the      *)
(* status, then the send; each write puts back the map it read.            *)
Claims(db, m, todo) ==
  IF todo = {}
  THEN store' = [store EXCEPT !.scheds = db] /\ tick' = NoTick
  ELSE \E s \in todo :
         LET c == [m EXCEPT ![s] = "claimed"] IN
         /\ store' = [store EXCEPT !.scheds = c]
         /\ tick' = [at |-> "busy", sched |-> s, todo |-> todo \ {s}, read |-> c]

TickStarts ==
  /\ up /\ tick.at = "idle" /\ store.switch.timer
  /\ \E due \in SUBSET Live(store) \ {{}} : Claims(store.scheds, store.scheds, due)
  /\ UNCHANGED <<up, restarts, ops, tampered, switched, armed>>

TickSends ==
  /\ tick.at = "busy"
  /\ LET m == [tick.read EXCEPT ![tick.sched] = "send_pending"] IN
     /\ store' = [store EXCEPT !.scheds = m]
     /\ tick' = [tick EXCEPT !.at = "send", !.read = m]
  /\ UNCHANGED <<up, restarts, ops, tampered, switched, armed>>

(* finishOccurrence: the schedule goes on, unless its session is missing;  *)
(* a stopped, cancelled or disabled one is left as the store has it.       *)
TickFinishes(state) ==
  /\ tick.at \in {"busy", "send"}
  /\ LET m == [tick.read EXCEPT ![tick.sched] = state] IN
     IF store.scheds[tick.sched] \in Lasting
     THEN Claims(store.scheds, tick.read, tick.todo)
     ELSE Claims(m, m, tick.todo)
  /\ UNCHANGED <<up, restarts, ops, tampered, switched, armed>>
-----------------------------------------------------------------------------
Crash ==
  /\ up /\ restarts < MaxRestarts
  /\ up' = FALSE /\ tick' = NoTick
  /\ UNCHANGED <<store, restarts, ops, tampered, switched, armed>>

(* reconcileLongHorizon at the start of the daemon: an active goal whose   *)
(* schedule is not live gets a new one, of a new generation unless there   *)
(* was none; the goals and the switches are written once, at the end.      *)
UncheckedMissing(d) == {g \in ActiveGoals(d) : CheckState(d, g) = "none"}
Unchecked(d) == {g \in ActiveGoals(d) : CheckState(d, g) \notin Alive}

NextGeneration(d, g, n) == n + 1
NewGeneration(d, g, n) == IF CheckState(d, g) = "none" THEN d.goals[g].gen ELSE n

Scheduled(d, G, n) ==
  [d EXCEPT !.scheds =
     [s \in Scheds |-> IF s \in {<<g, NewGeneration(d, g, n)>> : g \in G}
                       THEN "enabled" ELSE d.scheds[s]]]

Reconciled(d, n) ==
  LET U == Unchecked(d)
      a == Scheduled(d, U, n)
      b == [a EXCEPT !.goals =
              [g \in Goals |-> IF g \in U
                               THEN [@[g] EXCEPT !.gen = NewGeneration(d, g, n)]
                               ELSE @[g]]]
  IN IF ActiveGoals(d) = {} THEN <<d>> ELSE <<b, Sync(b)>>

Restart ==
  /\ ~up
  /\ up' = TRUE /\ restarts' = restarts + 1
  /\ store' = Last(Reconciled(store, restarts + 1))
  /\ UNCHANGED <<tick, ops, tampered, switched, armed>>

(* The daemon dies again while it reconciles.                              *)
RestartDies ==
  /\ ~up /\ restarts + 1 < MaxRestarts
  /\ restarts' = restarts + 1
  /\ \/ \E G \in SUBSET Unchecked(store) : store' = Scheduled(store, G, restarts + 1)
     \/ store' = Reconciled(store, restarts + 1)[1]
  /\ tampered' = tampered \cup Unchecked(store) /\ switched' = TRUE
  /\ UNCHANGED <<tick, up, ops, armed>>

Next ==
  \/ \E g \in Goals :
       \/ RegisterLongHorizon(g) \/ ActivateLongHorizon(g) \/ PauseLongHorizon(g)
       \/ StopLongHorizon(g) \/ RemoveLongHorizon(g)
  \/ \E s \in Scheds :
       \/ s \notin GoalScheds /\ AddSchedule(s)
       \/ PauseSchedule(s) \/ ResumeSchedule(s)
       \/ StopSchedule(s) \/ RemoveSchedule(s)
  \/ \E o \in Operators, on \in BOOLEAN : SetOperator(o, on)
  \/ TickStarts \/ TickSends
  \/ \E state \in {"enabled", "session_missing"} : TickFinishes(state)
  \/ Crash \/ Restart \/ RestartDies

Spec == Init /\ [][Next]_vars
-----------------------------------------------------------------------------
(* docs/design/rccs-notification-dag.md, invariant 2a: whatever operation  *)
(* the daemon died in, after a start every active goal has a live schedule *)
(* on its record and the operators it needs are on.                        *)
RestartWatches ==
  [][~up /\ up' => \A g \in ActiveGoals(store') :
       /\ CheckState(store', g) \in Alive
       /\ store'.switch.stopless /\ store'.switch.timer]_vars

(* The schedules of a goal follow its state: an active goal has exactly    *)
(* one live schedule, the one on its record, unless its session was found  *)
(* missing; any other goal has none.  It takes a schedule operation, a     *)
(* crash within an operation or a tick under it to separate them.          *)
CheckFollowsGoal ==
  \A g \in Goals \ tampered :
    LET alive == {s \in Live(store) : s[1] = g}
    IN IF g \in Active(store)
       THEN \/ alive = {CheckOf(store, g)}
            \/ alive = {} /\ CheckState(store, g) = "session_missing"
       ELSE alive = {}

(* The operator switches follow the records, across several operations on  *)
(* several goals: stopless is on exactly while a goal is active, and where *)
(* the timer is off, no schedule waits for it in vain but those a schedule *)
(* operation set going afterwards.                                         *)
SwitchesFollow ==
  ~switched =>
    /\ store.switch.longhorizon <=> Active(store) # {}
    /\ store.switch.stopless <=> ActiveGoals(store) # {}
    /\ ~store.switch.timer => Live(store) \subseteq armed
-----------------------------------------------------------------------------
(* docs/design/rccs-framework-lifecycle.md: the stop command never fires   *)
(* another periodic message after it is issued.  A tick under way is not   *)
(* counted, only one that starts later.                                    *)
StopIsFinal ==
  [][\A g \in Goals :
       store.goals[g].state = "stopped" /\ tick.at = "idle" /\ tick'.at # "idle"
       => tick'.sched[1] # g]_vars
=============================================================================

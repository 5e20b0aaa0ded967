-------------------------- MODULE LongHorizonProofs --------------------------
(***************************************************************************)
(* Proofs about the LongHorizon operations (module LongHorizon), for every *)
(* set of goals and schedules and any number of restarts and operations.   *)
(***************************************************************************)
EXTENDS LongHorizon, TLAPS

(* The schedules of one goal in a store: at most the one on its record is  *)
(* live, and that one as the state of the goal says.                       *)
Checked(d, g) ==
  /\ \A s \in Scheds : s[1] = g /\ s # CheckOf(d, g) => d.scheds[s] \notin Alive
  /\ CASE d.goals[g].state = "active" -> CheckState(d, g) \in Alive \cup {"session_missing"}
       [] d.goals[g].state = "paused" -> CheckState(d, g) \in {"disabled", "session_missing"}
       [] OTHER -> CheckState(d, g) \notin Alive

Watched == \A g \in Goals \ tampered : Checked(store, g)

(* A daemon that is down has a start left, and no tick.                    *)
DownIsLeft == ~up => restarts < MaxRestarts /\ tick = NoTick

(* A tick serves schedules that were live in the map it read, and that map *)
(* is right about the goals no operation has touched meanwhile.            *)
TickHolds ==
  tick # NoTick =>
    /\ tick.read[tick.sched] \in {"claimed", "send_pending"}
    /\ tick.sched \notin tick.todo
    /\ \A s \in tick.todo : tick.read[s] \in Alive
    /\ \A s \in Scheds : s[1] \in Goals \ tampered => tick.read[s] = store.scheds[s]
    /\ ~switched => store.switch.timer

Inv == TypeOK /\ DownIsLeft /\ TickHolds /\ Watched /\ SwitchesFollow
-----------------------------------------------------------------------------
(* The schedule on a goal's record is a schedule of that goal.             *)
LEMMA CheckIs ==
  ASSUME NEW d \in Stores, NEW g \in Goals
  PROVE  CheckOf(d, g) \in Scheds /\ CheckOf(d, g)[1] = g
  BY DEF Stores, CheckOf, Scheds, GoalScheds

(* A write of a goal changes that goal's state.                            *)
LEMMA WithGoalIs ==
  ASSUME NEW d \in Stores, NEW g \in Goals, NEW state \in GoalStates
  PROVE  LET e == WithGoal(d, g, state)
         IN /\ e \in Stores /\ e.scheds = d.scheds /\ e.switch = d.switch
            /\ e.goals[g].state = state /\ e.goals[g].gen = d.goals[g].gen
            /\ \A h \in Goals \ {g} : e.goals[h] = d.goals[h]
  BY DEF WithGoal, Stores

(* A write of a schedule changes that schedule.                            *)
LEMMA WithSchedIs ==
  ASSUME NEW d \in Stores, NEW s \in Scheds, NEW state \in States
  PROVE  LET e == WithSched(d, s, state)
         IN /\ e \in Stores /\ e.goals = d.goals /\ e.switch = d.switch
            /\ e.scheds[s] = state
            /\ \A t \in Scheds \ {s} : e.scheds[t] = d.scheds[t]
  BY DEF WithSched, Stores

(* The synchronisation of the switches touches nothing else.               *)
LEMMA SyncIs ==
  ASSUME NEW d \in Stores
  PROVE  /\ Sync(d) \in Stores /\ Sync(d).goals = d.goals /\ Sync(d).scheds = d.scheds
         /\ Sync(d).switch.longhorizon = (Active(d) # {})
         /\ Sync(d).switch.stopless = (ActiveGoals(d) # {})
         /\ Sync(d).switch.timer = (Active(d) \ ActiveGoals(d) # {} \/ Live(d) # {})
  BY DEF Sync, Stores
-----------------------------------------------------------------------------
(* What a write of an operation on g may change: g and its schedules.      *)
Near(d, e, g) ==
  /\ e \in Stores
  /\ \A h \in Goals \ {g} : e.goals[h] = d.goals[h]
  /\ \A s \in Scheds : s[1] # g => e.scheds[s] = d.scheds[s]

(* The writes of an operation on g: all near, and the last one leaves the  *)
(* schedules of g as its state says, unless a claim was in the way.        *)
Writes(w, d, g) ==
  /\ w \in Seq(Stores)
  /\ \A i \in 1 .. Len(w) : Near(d, w[i], g)
  /\ w # <<>> /\ Checked(d, g) /\ CheckState(d, g) # "claimed" => Checked(Last(w), g)

(* One, two or three writes are a sequence of writes.                      *)
LEMMA WritesAre ==
  ASSUME NEW d \in Stores, NEW g \in Goals
  PROVE  /\ Writes(<<>>, d, g)
         /\ \A a : /\ Near(d, a, g)
                   /\ Checked(d, g) /\ CheckState(d, g) # "claimed" => Checked(a, g)
                   => Writes(<<a>>, d, g)
         /\ \A a, b : /\ Near(d, a, g) /\ Near(d, b, g)
                      /\ Checked(d, g) /\ CheckState(d, g) # "claimed" => Checked(b, g)
                      => Writes(<<a, b>>, d, g)
         /\ \A a, b, c : /\ Near(d, a, g) /\ Near(d, b, g) /\ Near(d, c, g)
                         /\ Checked(d, g) /\ CheckState(d, g) # "claimed" => Checked(c, g)
                         => Writes(<<a, b, c>>, d, g)
  <1> USE DEF Writes, Last
  <1>1. Writes(<<>>, d, g)
    OBVIOUS
  <1>2. ASSUME NEW a, Near(d, a, g),
               Checked(d, g) /\ CheckState(d, g) # "claimed" => Checked(a, g)
        PROVE  Writes(<<a>>, d, g)
    <2>1. a \in Stores
      BY <1>2 DEF Near
    <2>2. QED
      BY <1>2, <2>1
  <1>3. ASSUME NEW a, NEW b, Near(d, a, g), Near(d, b, g),
               Checked(d, g) /\ CheckState(d, g) # "claimed" => Checked(b, g)
        PROVE  Writes(<<a, b>>, d, g)
    <2>1. a \in Stores /\ b \in Stores
      BY <1>3 DEF Near
    <2>2. QED
      BY <1>3, <2>1
  <1>4. ASSUME NEW a, NEW b, NEW c, Near(d, a, g), Near(d, b, g), Near(d, c, g),
               Checked(d, g) /\ CheckState(d, g) # "claimed" => Checked(c, g)
        PROVE  Writes(<<a, b, c>>, d, g)
    <2>1. a \in Stores /\ b \in Stores /\ c \in Stores
      BY <1>4 DEF Near
    <2>2. QED
      BY <1>4, <2>1
  <1>5. QED
    BY <1>1, <1>2, <1>3, <1>4

(* A synchronised store is as near, and its schedules are as they were.    *)
LEMMA SyncNear ==
  ASSUME NEW d \in Stores, NEW g \in Goals, NEW e \in Stores
  PROVE  /\ Near(d, e, g) => Near(d, Sync(e), g)
         /\ Checked(Sync(e), g) <=> Checked(e, g)
  BY SyncIs DEF Near, Checked, CheckOf, CheckState

(* The first two writes of an operation: the goal, then its schedule.      *)
LEMMA GoalThenSchedule ==
  ASSUME NEW d \in Stores, NEW g \in Goals, NEW state \in GoalStates, NEW sched \in States
  PROVE  LET a == WithGoal(d, g, state)
             b == WithSched(a, CheckOf(d, g), sched)
         IN /\ a \in Stores /\ b \in Stores /\ Near(d, a, g) /\ Near(d, b, g)
            /\ a.goals[g].state = state /\ b.goals[g].state = state
            /\ CheckOf(a, g) = CheckOf(d, g) /\ CheckOf(b, g) = CheckOf(d, g)
            /\ CheckState(a, g) = CheckState(d, g) /\ CheckState(b, g) = sched
            /\ \A s \in Scheds : a.scheds[s] = d.scheds[s]
            /\ \A s \in Scheds : s # CheckOf(d, g) => b.scheds[s] = d.scheds[s]
  <1> DEFINE a == WithGoal(d, g, state)
             b == WithSched(a, CheckOf(d, g), sched)
  <1>1. /\ a \in Stores /\ a.scheds = d.scheds
        /\ a.goals[g].state = state /\ a.goals[g].gen = d.goals[g].gen
        /\ \A h \in Goals \ {g} : a.goals[h] = d.goals[h]
    BY WithGoalIs
  <1>2. CheckOf(d, g) \in Scheds /\ CheckOf(d, g)[1] = g
    BY CheckIs
  <1> HIDE DEF a
  <1>3. /\ b \in Stores /\ b.goals = a.goals
        /\ b.scheds[CheckOf(d, g)] = sched
        /\ \A t \in Scheds \ {CheckOf(d, g)} : b.scheds[t] = a.scheds[t]
    BY <1>1, <1>2, WithSchedIs
  <1> HIDE DEF b
  <1>4. /\ CheckOf(a, g) = CheckOf(d, g) /\ CheckOf(b, g) = CheckOf(d, g)
        /\ Near(d, a, g) /\ Near(d, b, g)
    BY <1>1, <1>2, <1>3 DEF CheckOf, Near
  <1>5. QED
    BY <1>1, <1>2, <1>3, <1>4 DEF CheckState, a, b

(* registerLongHorizon: a new record, its schedule and the switches.       *)
LEMMA RegisterWrites ==
  ASSUME NEW d \in Stores, NEW g \in Goals
  PROVE  Writes(Register(d, g), d, g)
  <1> DEFINE a == WithSched(d, <<g, 0>>, "enabled")
             b == [a EXCEPT !.goals[g] = [state |-> "active", gen |-> 0]]
  <1>0. <<g, 0>> \in Scheds /\ "enabled" \in States /\ 0 \in Generations
    BY LongHorizonAssumption DEF Scheds, GoalScheds, Generations, States, Alive
  <1>1. /\ a \in Stores /\ a.goals = d.goals /\ a.scheds[<<g, 0>>] = "enabled"
        /\ \A t \in Scheds \ {<<g, 0>>} : a.scheds[t] = d.scheds[t]
    BY <1>0, WithSchedIs
  <1> HIDE DEF a
  <1>2. /\ b \in Stores /\ b.scheds = a.scheds
        /\ b.goals[g].state = "active" /\ b.goals[g].gen = 0
        /\ \A h \in Goals \ {g} : b.goals[h] = d.goals[h]
    BY <1>0, <1>1 DEF Stores, GoalStates
  <1> HIDE DEF b
  <1>3. Near(d, a, g) /\ Near(d, b, g)
    BY <1>1, <1>2 DEF Near
  <1>4. CASE d.goals[g].state = "none"
    <2>1. ASSUME Checked(d, g) PROVE Checked(b, g)
      <3>1. CheckOf(b, g) = <<g, 0>> /\ CheckState(b, g) \in Alive
        BY <1>1, <1>2 DEF CheckOf, CheckState, Alive
      <3>2. \A s \in Scheds : s[1] = g => d.scheds[s] \notin Alive
        BY <1>4, <2>1 DEF Checked, CheckState
      <3>3. \A s \in Scheds : s[1] = g /\ s # <<g, 0>> => b.scheds[s] \notin Alive
        BY <1>1, <1>2, <3>2
      <3>4. QED
        BY <1>2, <3>1, <3>3 DEF Checked
    <2>2. Near(d, Sync(b), g) /\ (Checked(Sync(b), g) <=> Checked(b, g))
      BY <1>2, <1>3, SyncNear
    <2>3. Register(d, g) = <<a, b, Sync(b)>>
      BY <1>4 DEF Register, a, b
    <2>4. QED
      BY <1>3, <2>1, <2>2, <2>3, WritesAre
  <1>5. CASE d.goals[g].state # "none"
    <2>1. Register(d, g) = <<>>
      BY <1>5 DEF Register
    <2>2. QED
      BY <2>1, WritesAre
  <1>6. QED
    BY <1>4, <1>5

(* setLongHorizonEnabled, for a state and the schedule's state that suits. *)
LEMMA SwitchesWrites ==
  ASSUME NEW d \in Stores, NEW g \in Goals, NEW state \in {"active", "paused"},
         NEW sched \in States, sched = (IF state = "active" THEN "enabled" ELSE "disabled"),
         ~Ended(d, g)
  PROVE  Writes(Switches(d, g, state, sched), d, g)
  <1> DEFINE a == WithGoal(d, g, state)
             b == WithSched(a, CheckOf(d, g), sched)
  <1>0. state \in GoalStates
    BY DEF GoalStates
  <1>1. /\ a \in Stores /\ b \in Stores /\ Near(d, a, g) /\ Near(d, b, g)
        /\ a.goals[g].state = state /\ b.goals[g].state = state
        /\ CheckOf(a, g) = CheckOf(d, g) /\ CheckOf(b, g) = CheckOf(d, g)
        /\ CheckState(a, g) = CheckState(d, g) /\ CheckState(b, g) = sched
        /\ \A s \in Scheds : a.scheds[s] = d.scheds[s]
        /\ \A s \in Scheds : s # CheckOf(d, g) => b.scheds[s] = d.scheds[s]
    BY <1>0, GoalThenSchedule
  <1>2. Switches(d, g, state, sched) =
          CASE ~Gone(d, g) -> <<a, b, Sync(b)>>
            [] Gone(d, g) /\ Mode[g] = "goal" -> <<a, Sync(a)>>
            [] OTHER -> IF state = "active" THEN <<>> ELSE <<a>>
    BY DEF Switches
  <1> HIDE DEF a, b
  <1>3. Checked(d, g) => Checked(b, g)
    BY <1>1 DEF Checked, Alive
  <1>4. Checked(d, g) /\ Gone(d, g) => Checked(a, g)
    <2> SUFFICES ASSUME Checked(d, g), Gone(d, g) PROVE Checked(a, g)
      OBVIOUS
    <2>1. d.goals[g].state \in {"active", "paused"}
      BY DEF Ended, Stores, GoalStates
    <2>2. CheckState(d, g) = "session_missing"
      BY <2>1 DEF Checked, Gone, Terminal, Alive
    <2>3. QED
      BY <1>1, <2>2 DEF Checked
  <1>5. /\ Near(d, Sync(a), g) /\ (Checked(Sync(a), g) <=> Checked(a, g))
        /\ Near(d, Sync(b), g) /\ (Checked(Sync(b), g) <=> Checked(b, g))
    BY <1>1, SyncNear
  <1>6. CASE ~Gone(d, g)
    <2>1. Switches(d, g, state, sched) = <<a, b, Sync(b)>>
      BY <1>2, <1>6
    <2>2. QED
      BY <1>1, <1>3, <1>5, <2>1, WritesAre
  <1>7. CASE Gone(d, g)
    <2>1. Switches(d, g, state, sched) \in {<<a, Sync(a)>>, <<>>, <<a>>}
      BY <1>2, <1>7
    <2>2. QED
      BY <1>1, <1>4, <1>5, <1>7, <2>1, WritesAre
  <1>8. QED
    BY <1>6, <1>7

(* stopLongHorizon: only a claimed schedule keeps it from ending the check.*)
LEMMA StopWrites ==
  ASSUME NEW d \in Stores, NEW g \in Goals
  PROVE  /\ Writes(Stop(d, g), d, g)
         /\ \A i \in 1 .. Len(Stop(d, g)) : Stop(d, g)[i].goals[g].state = "stopped"
  <1> DEFINE a == WithGoal(d, g, "stopped")
             b == WithSched(a, CheckOf(d, g), "stopped")
  <1>1. /\ a \in Stores /\ b \in Stores /\ Near(d, a, g) /\ Near(d, b, g)
        /\ a.goals[g].state = "stopped" /\ b.goals[g].state = "stopped"
        /\ CheckOf(a, g) = CheckOf(d, g) /\ CheckOf(b, g) = CheckOf(d, g)
        /\ CheckState(a, g) = CheckState(d, g) /\ CheckState(b, g) = "stopped"
        /\ \A s \in Scheds : a.scheds[s] = d.scheds[s]
        /\ \A s \in Scheds : s # CheckOf(d, g) => b.scheds[s] = d.scheds[s]
    BY GoalThenSchedule DEF GoalStates, States, Lasting
  <1>2. Stop(d, g) =
          CASE d.goals[g].state = "none" -> <<>>
            [] d.goals[g].state # "none" /\ CheckState(d, g) \in Stoppable -> <<a, b, Sync(b)>>
            [] OTHER -> IF Mode[g] = "periodic" /\ ~Gone(d, g) THEN <<a>> ELSE <<a, Sync(a)>>
    BY DEF Stop
  <1> HIDE DEF a, b
  <1>3. Checked(d, g) => Checked(b, g)
    BY <1>1 DEF Checked, Alive
  <1>4. /\ Checked(d, g) /\ CheckState(d, g) # "claimed" /\ CheckState(d, g) \notin Stoppable
        => Checked(a, g)
    BY <1>1 DEF Checked, Alive, Stoppable
  <1>5. /\ Near(d, Sync(a), g) /\ (Checked(Sync(a), g) <=> Checked(a, g))
        /\ Near(d, Sync(b), g) /\ (Checked(Sync(b), g) <=> Checked(b, g))
        /\ Sync(a).goals = a.goals /\ Sync(b).goals = b.goals
    BY <1>1, SyncNear, SyncIs
  <1>6. CASE d.goals[g].state = "none"
    BY <1>2, <1>6, WritesAre
  <1>7. CASE d.goals[g].state # "none" /\ CheckState(d, g) \in Stoppable
    <2>1. Stop(d, g) = <<a, b, Sync(b)>>
      BY <1>2, <1>7
    <2>2. QED
      BY <1>1, <1>3, <1>5, <2>1, WritesAre
  <1>8. CASE d.goals[g].state # "none" /\ CheckState(d, g) \notin Stoppable
    <2>1. Stop(d, g) = <<a>> \/ Stop(d, g) = <<a, Sync(a)>>
      BY <1>2, <1>8
    <2>2. Writes(Stop(d, g), d, g)
      BY <1>1, <1>4, <1>5, <1>8, <2>1, WritesAre
    <2>3. QED
      BY <1>1, <1>5, <2>1, <2>2
  <1>9. QED
    BY <1>6, <1>7, <1>8

(* removeLongHorizon: a stop, and one write more.                          *)
LEMMA RemovesWrites ==
  ASSUME NEW d \in Stores, NEW g \in Goals
  PROVE  Writes(Removes(d, g), d, g)
  <1> DEFINE w == Stop(d, g)
             last == Last(w)
             r == WithGoal(last, g, "removed")
  <1>1. Writes(w, d, g) /\ \A i \in 1 .. Len(w) : w[i].goals[g].state = "stopped"
    BY StopWrites
  <1>2. Removes(d, g) = IF w = <<>> \/ StopThrows(d, g) THEN w ELSE Append(w, r)
    BY DEF Removes
  <1> HIDE DEF w
  <1>3. CASE w = <<>> \/ StopThrows(d, g)
    BY <1>1, <1>2, <1>3
  <1>4. CASE w # <<>> /\ ~StopThrows(d, g)
    <2>1. /\ w \in Seq(Stores) /\ Len(w) \in 1 .. Len(w) /\ last = w[Len(w)] /\ last \in Stores
          /\ Near(d, last, g) /\ last.goals[g].state = "stopped"
      <3>1. w \in Seq(Stores) /\ w # <<>>
        BY <1>1, <1>4 DEF Writes
      <3>2. Len(w) \in 1 .. Len(w) /\ last = w[Len(w)]
        BY <3>1 DEF Last
      <3>3. QED
        BY <1>1, <3>1, <3>2 DEF Writes, Near
    <2> HIDE DEF last
    <2>a. "removed" \in GoalStates
      BY DEF GoalStates
    <2>2. /\ r \in Stores /\ r.scheds = last.scheds
          /\ r.goals[g].state = "removed" /\ r.goals[g].gen = last.goals[g].gen
          /\ \A h \in Goals \ {g} : r.goals[h] = last.goals[h]
      BY <2>1, <2>a, WithGoalIs
    <2> HIDE DEF r
    <2>3. Near(d, r, g)
      BY <2>1, <2>2 DEF Near
    <2>4. Checked(last, g) => Checked(r, g)
      BY <2>1, <2>2 DEF Checked, CheckOf, CheckState
    <2>5. /\ Append(w, r) \in Seq(Stores) /\ Len(Append(w, r)) = Len(w) + 1
          /\ Append(w, r)[Len(w) + 1] = r
          /\ \A i \in 1 .. Len(w) : Append(w, r)[i] = w[i]
      BY <2>1, <2>2
    <2>6. Last(Append(w, r)) = r
      BY <2>5 DEF Last
    <2>7. \A i \in 1 .. Len(w) + 1 : Near(d, Append(w, r)[i], g)
      <3>1. \A i \in 1 .. Len(w) + 1 : i \in 1 .. Len(w) \/ i = Len(w) + 1
        BY <2>1
      <3>2. QED
        BY <1>1, <2>3, <2>5, <3>1 DEF Writes
    <2>8. Checked(d, g) /\ CheckState(d, g) # "claimed" => Checked(r, g)
      BY <1>1, <1>4, <2>4 DEF Writes, last
    <2>9. QED
      BY <1>2, <1>4, <2>5, <2>6, <2>7, <2>8 DEF Writes
  <1>5. QED
    BY <1>3, <1>4
-----------------------------------------------------------------------------
(* What keeps the schedules of a goal as its state says: steps near        *)
(* another goal, and a live schedule that stays live or whose session is   *)
(* found missing.                                                          *)
LEMMA NearKeeps ==
  ASSUME NEW d \in Stores, NEW e \in Stores, NEW g \in Goals, NEW h \in Goals \ {g},
         Near(d, e, g), Checked(d, h)
  PROVE  Checked(e, h)
  <1>1. CheckOf(e, h) = CheckOf(d, h) /\ e.goals[h] = d.goals[h]
    BY DEF Near, CheckOf
  <1>2. CheckOf(d, h) \in Scheds /\ CheckOf(d, h)[1] = h
    BY CheckIs
  <1>3. \A s \in Scheds : s[1] = h => e.scheds[s] = d.scheds[s]
    BY DEF Near
  <1>4. QED
    BY <1>1, <1>2, <1>3 DEF Checked, CheckState

(* A schedule that was live is the one of an active goal.                  *)
LEMMA LiveKeeps ==
  ASSUME NEW d \in Stores, NEW e \in Stores, NEW g \in Goals, Checked(d, g),
         e.goals = d.goals, NEW s \in Scheds,
         s[1] = g => /\ d.scheds[s] \in Alive
                     /\ e.scheds[s] \in Alive \cup {"session_missing"},
         \A t \in Scheds \ {s} : t[1] = g => e.scheds[t] = d.scheds[t]
  PROVE  Checked(e, g)
  <1>1. CheckOf(e, g) = CheckOf(d, g)
    BY DEF CheckOf
  <1>2. CheckOf(d, g) \in Scheds /\ CheckOf(d, g)[1] = g
    BY CheckIs
  <1>3. CASE s = CheckOf(d, g)
    <2>1. CheckState(d, g) \in Alive
      BY <1>2, <1>3 DEF CheckState
    <2>2. d.goals[g].state = "active"
      BY <2>1 DEF Checked, Alive
    <2>3. QED
      BY <1>1, <1>2, <1>3, <2>2 DEF Checked, CheckState
  <1>4. CASE s # CheckOf(d, g)
    <2>1. s[1] # g
      BY <1>4 DEF Checked
    <2>2. QED
      BY <1>1, <1>2, <2>1 DEF Checked, CheckState
  <1>5. QED
    BY <1>3, <1>4
-----------------------------------------------------------------------------
(* An operation on a goal, completed or cut short by the daemon's death.   *)
LEMMA OperationKeeps ==
  ASSUME Inv, NEW g \in Goals, NEW w, Writes(w, store, g), GoalOperation(g, w)
  PROVE  Inv'
  <1>0. /\ TypeOK /\ DownIsLeft /\ TickHolds /\ Watched /\ SwitchesFollow
        /\ w \in Seq(Stores) /\ w # <<>> /\ up /\ ops < MaxOps /\ ops' = ops + 1
        /\ UNCHANGED <<restarts, armed>> /\ store \in Stores
    BY DEF Inv, Writes, GoalOperation, Mutation, TypeOK
  <1>1. CASE /\ Completes(w)
             /\ tampered' = IF Disturbed(g) THEN tampered \cup {g} ELSE tampered
             /\ switched' = (switched \/ Disturbed(g) \/ Last(w) # Sync(Last(w)))
    <2>1. Len(w) \in 1 .. Len(w) /\ store' = w[Len(w)] /\ UNCHANGED <<tick, up>>
      BY <1>0, <1>1 DEF Completes, Last
    <2>2. Near(store, store', g) /\ store' \in Stores
      BY <2>1 DEF Writes, Near
    <2>3. TypeOK'
      <3>1. switched' \in BOOLEAN
        BY <1>0, <1>1 DEF TypeOK
      <3>2. ops' \in 0 .. MaxOps
        BY <1>0, LongHorizonAssumption DEF TypeOK
      <3>3. tampered' \subseteq Goals
        BY <1>0, <1>1 DEF TypeOK
      <3>4. QED
        BY <1>0, <2>1, <2>2, <3>1, <3>2, <3>3 DEF TypeOK
    <2>4. DownIsLeft'
      BY <1>0, <2>1 DEF DownIsLeft
    <2>5. TickHolds'
      <3> SUFFICES ASSUME tick # NoTick PROVE TickHolds'
        BY <2>1 DEF TickHolds
      <3>1. Disturbed(g)
        BY <1>0 DEF Disturbed, TypeOK, Ticks
      <3>2. switched' /\ tampered' = tampered \cup {g}
        BY <1>1, <3>1
      <3>3. \A s \in Scheds : s[1] \in Goals \ tampered' => tick.read[s] = store'.scheds[s]
        BY <1>0, <2>2, <3>2 DEF TickHolds, Near
      <3>4. QED
        BY <1>0, <2>1, <3>2, <3>3 DEF TickHolds
    <2>6. Watched'
      <3> SUFFICES ASSUME NEW h \in Goals \ tampered' PROVE Checked(store', h)
        BY DEF Watched
      <3>1. h \notin tampered /\ Checked(store, h)
        BY <1>0, <1>1 DEF Watched
      <3>2. CASE h # g
        BY <1>0, <2>2, <3>1, <3>2, NearKeeps
      <3>3. CASE h = g
        <4>1. CheckState(store, g) # "claimed"
          BY <1>1, <3>3 DEF Disturbed
        <4>2. QED
          BY <1>0, <1>1, <3>1, <3>3, <4>1 DEF Writes, Completes
      <3>4. QED
        BY <3>2, <3>3
    <2>7. SwitchesFollow'
      <3> SUFFICES ASSUME ~switched' PROVE SwitchesFollow'
        BY DEF SwitchesFollow
      <3>1. store' = Sync(store')
        BY <1>1 DEF Completes
      <3>2. /\ store'.switch.longhorizon = (Active(store') # {})
            /\ store'.switch.stopless = (ActiveGoals(store') # {})
            /\ store'.switch.timer = (Active(store') \ ActiveGoals(store') # {} \/ Live(store') # {})
        BY <2>2, <3>1, SyncIs
      <3>3. QED
        BY <3>2 DEF SwitchesFollow
    <2>8. QED
      BY <2>3, <2>4, <2>5, <2>6, <2>7 DEF Inv
  <1>2. CASE Dies(w) /\ tampered' = tampered \cup {g} /\ switched' = TRUE
    <2>1. PICK k \in 1 .. Len(w) - 1 : store' = w[k]
      BY <1>2 DEF Dies
    <2>2. k \in 1 .. Len(w)
      BY <1>0
    <2>3. /\ Near(store, store', g) /\ store' \in Stores
          /\ up' = FALSE /\ tick' = NoTick /\ restarts < MaxRestarts
      BY <1>2, <2>1, <2>2 DEF Writes, Near, Dies
    <2>4. TypeOK'
      <3>1. ops' \in 0 .. MaxOps
        BY <1>0, LongHorizonAssumption DEF TypeOK
      <3>2. QED
        BY <1>0, <1>2, <2>3, <3>1 DEF TypeOK
    <2>5. Watched'
      <3> SUFFICES ASSUME NEW h \in Goals \ tampered' PROVE Checked(store', h)
        BY DEF Watched
      <3>1. QED
        BY <1>0, <1>2, <2>3, NearKeeps DEF Watched
    <2>6. DownIsLeft' /\ TickHolds' /\ SwitchesFollow'
      BY <1>0, <1>2, <2>3 DEF DownIsLeft, TickHolds, SwitchesFollow
    <2>7. QED
      BY <2>4, <2>5, <2>6 DEF Inv
  <1>3. QED
    BY <1>1, <1>2 DEF GoalOperation

(* The operations of LongHorizon are such operations.                      *)
LEMMA GoalOperations ==
  ASSUME Inv, NEW g \in Goals,
         \/ RegisterLongHorizon(g) \/ ActivateLongHorizon(g) \/ PauseLongHorizon(g)
         \/ StopLongHorizon(g) \/ RemoveLongHorizon(g)
  PROVE  Inv'
  <1>0. store \in Stores /\ {"enabled", "disabled"} \subseteq States
    BY DEF Inv, TypeOK, States, Alive, Lasting
  <1>1. Writes(Activate(store, g), store, g)
    BY <1>0, SwitchesWrites, WritesAre DEF Activate
  <1>2. Writes(Pause(store, g), store, g)
    BY <1>0, SwitchesWrites, WritesAre DEF Pause
  <1>3. /\ Writes(Register(store, g), store, g) /\ Writes(Stop(store, g), store, g)
        /\ Writes(Removes(store, g), store, g)
    BY <1>0, RegisterWrites, StopWrites, RemovesWrites
  <1>4. QED
    BY <1>1, <1>2, <1>3, OperationKeeps
    DEF RegisterLongHorizon, ActivateLongHorizon, PauseLongHorizon, StopLongHorizon,
        RemoveLongHorizon
-----------------------------------------------------------------------------
(* What a write of one schedule changes: not the goals, and of the switches*)
(* it only ever turns the timer on.                                        *)
Beside(d, e, s) ==
  /\ e \in Stores /\ e.goals = d.goals
  /\ \A t \in Scheds \ {s} : e.scheds[t] = d.scheds[t]
  /\ e.switch.longhorizon = d.switch.longhorizon /\ e.switch.stopless = d.switch.stopless
  /\ d.switch.timer => e.switch.timer

(* A schedule operation, but for its effect on the timer.                  *)
LEMMA ScheduleKeeps ==
  ASSUME Inv, NEW s \in Scheds, NEW w, Len(w) \in Nat, Len(w) # 0,
         \A i \in 1 .. Len(w) : Beside(store, w[i], s), ScheduleWrite(s, w),
         armed' \subseteq Scheds
  PROVE  /\ TypeOK' /\ DownIsLeft' /\ TickHolds' /\ Watched'
         /\ \E i \in 1 .. Len(w) : store' = w[i] /\ (up' => i = Len(w))
         /\ UNCHANGED switched
  <1>0. /\ TypeOK /\ DownIsLeft /\ TickHolds /\ Watched /\ up /\ ops < MaxOps /\ ops' = ops + 1
        /\ UNCHANGED <<restarts, switched>> /\ store \in Stores
        /\ tampered' = tampered \cup (Goals \cap {s[1]})
    BY DEF Inv, ScheduleWrite, Mutation, TypeOK
  <1>1. /\ \E i \in 1 .. Len(w) : store' = w[i] /\ (up' => i = Len(w))
        /\ \/ UNCHANGED <<tick, up>>
           \/ up' = FALSE /\ tick' = NoTick /\ restarts < MaxRestarts
    <2>1. CASE Completes(w)
      BY <1>0, <2>1 DEF Completes, Last
    <2>2. CASE Dies(w)
      BY <2>2 DEF Dies
    <2>3. QED
      BY <2>1, <2>2 DEF ScheduleWrite
  <1>2. Beside(store, store', s)
    BY <1>1
  <1>3. TypeOK'
    <2>a. ops' \in 0 .. MaxOps
      BY <1>0, LongHorizonAssumption DEF TypeOK
    <2>b. up' \in BOOLEAN
      BY <1>0, <1>1
    <2>1. tampered' \subseteq Goals
      BY <1>0 DEF TypeOK
    <2>2. tick' = NoTick \/ tick' \in Ticks
      BY <1>0, <1>1 DEF TypeOK
    <2>3. QED
      BY <1>0, <1>2, <2>a, <2>b, <2>1, <2>2 DEF TypeOK, Beside
  <1>4. DownIsLeft'
    BY <1>0, <1>1 DEF DownIsLeft
  <1>5. \A t \in Scheds : t[1] \in Goals \ tampered' => store'.scheds[t] = store.scheds[t]
    BY <1>0, <1>2 DEF Beside
  <1>6. TickHolds'
    BY <1>0, <1>1, <1>2, <1>5 DEF TickHolds, Beside
  <1>7. Watched'
    <2> SUFFICES ASSUME NEW h \in Goals \ tampered' PROVE Checked(store', h)
      BY DEF Watched
    <2>1. Checked(store, h) /\ s[1] # h
      BY <1>0 DEF Watched
    <2>2. QED
      BY <1>0, <1>2, <1>5, <2>1, LiveKeeps DEF Beside
  <1>8. QED
    BY <1>0, <1>1, <1>3, <1>4, <1>6, <1>7

(* The schedule operations: one that sets a schedule going turns the timer *)
(* on, or the schedule is remembered as armed.                             *)
LEMMA ScheduleOperations ==
  ASSUME Inv, NEW s \in Scheds,
         AddSchedule(s) \/ PauseSchedule(s) \/ ResumeSchedule(s) \/ StopSchedule(s) \/ RemoveSchedule(s)
  PROVE  Inv'
  <1>0. /\ store \in Stores /\ armed \subseteq Scheds /\ SwitchesFollow
        /\ {"enabled", "disabled", "stopped", "cancelled"} \subseteq States
    BY DEF Inv, TypeOK, States, Alive, Lasting
  <1>1. ASSUME NEW state \in {"enabled", "disabled", "stopped", "cancelled"}
        PROVE  /\ Beside(store, WithSched(store, s, state), s)
               /\ WithSched(store, s, state).switch = store.switch
               /\ WithSched(store, s, state).scheds[s] = state
    <2>1. state \in States
      BY <1>0
    <2>2. QED
      BY SMTT(30), <1>0, <2>1, WithSchedIs DEF Beside
  <1>3. ASSUME NEW e, Beside(store, e, s)
        PROVE  Active(e) = Active(store) /\ ActiveGoals(e) = ActiveGoals(store)
    BY <1>3 DEF Beside, Active, ActiveGoals
  <1>4. CASE AddSchedule(s)
    <2> DEFINE a == WithSched(store, s, "enabled")
               b == [a EXCEPT !.switch.timer = TRUE]
    <2>1. Beside(store, a, s) /\ a \in Stores
      BY <1>1 DEF Beside
    <2> HIDE DEF a
    <2>2. Beside(store, b, s) /\ b.switch.timer
      BY <2>1 DEF Beside, Stores
    <2> HIDE DEF b
    <2>3. ScheduleWrite(s, <<a, b>>) /\ armed' = IF up' THEN armed ELSE armed \cup {s}
      BY <1>4 DEF AddSchedule, a, b
    <2>4. PICK w : w = <<a, b>>
      OBVIOUS
    <2>c. Len(w) = 2 /\ w[1] = a /\ w[2] = b /\ 1 .. Len(w) = {1, 2}
      BY <2>4
    <2>d. \A i \in 1 .. Len(w) : Beside(store, w[i], s)
      BY <2>1, <2>2, <2>c
    <2>e. ScheduleWrite(s, w) /\ armed' \subseteq Scheds
      BY <1>0, <2>3, <2>4
    <2>f. Len(w) \in Nat /\ Len(w) # 0
      BY <2>c
    <2>5. /\ TypeOK' /\ DownIsLeft' /\ TickHolds' /\ Watched' /\ UNCHANGED switched
          /\ \E i \in 1 .. Len(w) : store' = w[i] /\ (up' => i = Len(w))
      BY <2>d, <2>e, <2>f, ScheduleKeeps
    <2>6. store' = b \/ (store' = a /\ ~up')
      BY <2>5, <2>c
    <2>7. SwitchesFollow'
      <3>1. Beside(store, store', s)
        BY <2>1, <2>2, <2>6
      <3>2. Live(store') \subseteq Live(store) \cup {s}
        BY <3>1 DEF Live, Beside
      <3>3. CASE store' = b
        BY <1>0, <1>3, <2>2, <2>5, <3>1, <3>3 DEF SwitchesFollow, Beside
      <3>4. CASE store' = a /\ ~up'
        <4>1. armed' = armed \cup {s}
          BY <2>3, <3>4
        <4>2. QED
          BY <1>0, <1>3, <2>5, <3>1, <3>2, <4>1 DEF SwitchesFollow, Beside
      <3>5. QED
        BY <2>6, <3>3, <3>4
    <2>8. QED
      BY <2>5, <2>7 DEF Inv
  <1>5. ASSUME NEW state \in {"enabled", "disabled", "stopped", "cancelled"},
               ScheduleWrite(s, <<WithSched(store, s, state)>>),
               armed' = IF state = "enabled" THEN armed \cup {s} ELSE armed
        PROVE  Inv'
    <2> DEFINE a == WithSched(store, s, state)
    <2>1. Beside(store, a, s) /\ a.switch = store.switch /\ a.scheds[s] = state
      BY <1>1
    <2>2. ScheduleWrite(s, <<a>>)
      BY <1>5
    <2> HIDE DEF a
    <2>b. armed' \subseteq Scheds
      BY <1>0, <1>5
    <2>c. /\ Len(<<a>>) \in Nat /\ Len(<<a>>) # 0
          /\ \A i \in 1 .. Len(<<a>>) : Beside(store, <<a>>[i], s)
      BY <2>1
    <2>3. /\ TypeOK' /\ DownIsLeft' /\ TickHolds' /\ Watched' /\ UNCHANGED switched
          /\ \E i \in 1 .. Len(<<a>>) : store' = <<a>>[i] /\ (up' => i = Len(<<a>>))
      BY <2>b, <2>c, <2>2, ScheduleKeeps
    <2>4. store' = a
      BY <2>3
    <2>5. Live(store') \subseteq Live(store) \cup {s} /\ armed \subseteq armed'
      BY <1>5, <2>1, <2>4 DEF Live, Beside
    <2>6. state # "enabled" => Live(store') \subseteq Live(store)
      BY <2>1, <2>4 DEF Live, Beside, Alive
    <2>7. SwitchesFollow'
      BY <1>0, <1>3, <1>5, <2>1, <2>3, <2>4, <2>5, <2>6 DEF SwitchesFollow
    <2>8. QED
      BY <2>3, <2>7 DEF Inv
  <1>6. QED
    BY <1>4, <1>5 DEF PauseSchedule, ResumeSchedule, StopSchedule, RemoveSchedule
-----------------------------------------------------------------------------
(* A tick writes back a map that is right about the untouched goals.       *)
WithMap(m) == [store EXCEPT !.scheds = m]

(* It changes nothing but the schedules.                                   *)
LEMMA WithMapIs ==
  ASSUME store \in Stores, NEW m \in [Scheds -> States]
  PROVE  /\ WithMap(m) \in Stores /\ WithMap(m).goals = store.goals
         /\ WithMap(m).scheds = m /\ WithMap(m).switch = store.switch
  BY DEF WithMap, Stores

(* The tick goes on to the next schedule that was live, or is over.        *)
LEMMA ClaimsKeeps ==
  ASSUME Inv, up, NEW db \in [Scheds -> States], NEW m \in [Scheds -> States],
         NEW todo \in SUBSET Scheds, Claims(db, m, todo),
         \A s \in todo : m[s] \in Alive,
         \A s \in Scheds : s[1] \in Goals \ tampered => db[s] = m[s],
         \A g \in Goals \ tampered : Checked(WithMap(db), g),
         ~switched => store.switch.timer,
         UNCHANGED <<up, restarts, ops, tampered, switched, armed>>
  PROVE  Inv'
  <1>0. TypeOK /\ DownIsLeft /\ TickHolds /\ Watched /\ SwitchesFollow /\ store \in Stores
    BY DEF Inv, TypeOK
  <1>1. CASE todo = {}
    <2>1. store' = WithMap(db) /\ tick' = NoTick
      BY <1>1 DEF Claims, WithMap
    <2>2. store' \in Stores /\ store'.goals = store.goals /\ store'.switch = store.switch
      BY <1>0, <2>1, WithMapIs
    <2>3. TypeOK' /\ DownIsLeft' /\ TickHolds'
      BY <1>0, <2>1, <2>2 DEF TypeOK, DownIsLeft, TickHolds
    <2>4. Watched'
      BY <2>1 DEF Watched
    <2>5. SwitchesFollow'
      BY <1>0, <2>2 DEF SwitchesFollow, Active, ActiveGoals
    <2>6. QED
      BY <2>3, <2>4, <2>5 DEF Inv
  <1>2. CASE todo # {}
    <2>1. PICK s \in todo :
            LET c == [m EXCEPT ![s] = "claimed"] IN
            /\ store' = [store EXCEPT !.scheds = c]
            /\ tick' = [at |-> "busy", sched |-> s, todo |-> todo \ {s}, read |-> c]
      BY <1>2 DEF Claims
    <2> DEFINE c == [m EXCEPT ![s] = "claimed"]
    <2>2. /\ c \in [Scheds -> States] /\ c[s] = "claimed"
          /\ \A t \in Scheds \ {s} : c[t] = m[t]
      BY DEF States, Alive
    <2>3. store' = WithMap(c) /\ tick' = [at |-> "busy", sched |-> s, todo |-> todo \ {s}, read |-> c]
      BY <2>1 DEF WithMap
    <2> HIDE DEF c
    <2>4. /\ store' \in Stores /\ store'.goals = store.goals /\ store'.switch = store.switch
          /\ store'.scheds = c
      BY <1>0, <2>2, <2>3, WithMapIs
    <2>5. tick' \in Ticks
      BY <2>2, <2>3 DEF Ticks
    <2>6. TypeOK' /\ DownIsLeft'
      BY <1>0, <2>4, <2>5 DEF TypeOK, DownIsLeft
    <2>7. TickHolds'
      BY <2>2, <2>3, <2>4 DEF TickHolds
    <2>8. Watched'
      <3> SUFFICES ASSUME NEW g \in Goals \ tampered' PROVE Checked(store', g)
        BY DEF Watched
      <3>1. /\ Checked(WithMap(db), g) /\ WithMap(db) \in Stores
            /\ WithMap(db).goals = store'.goals /\ WithMap(db).scheds = db
        BY <1>0, <2>4, WithMapIs
      <3>2. s[1] = g => db[s] \in Alive /\ store'.scheds[s] \in Alive
        BY <2>2, <2>4 DEF Alive
      <3>3. \A t \in Scheds \ {s} : t[1] = g => store'.scheds[t] = db[t]
        BY <2>2, <2>4
      <3>4. QED
        BY <2>4, <3>1, <3>2, <3>3, LiveKeeps
    <2>9. SwitchesFollow'
      BY <1>0, <2>4 DEF SwitchesFollow, Active, ActiveGoals
    <2>10. QED
      BY <2>6, <2>7, <2>8, <2>9 DEF Inv
  <1>3. QED
    BY <1>1, <1>2

(* A tick starts on the stored map.                                        *)
LEMMA TickStartsKeeps == Inv /\ TickStarts => Inv'
  <1> SUFFICES ASSUME Inv, TickStarts PROVE Inv'
    OBVIOUS
  <1>1. PICK due \in SUBSET Live(store) \ {{}} : Claims(store.scheds, store.scheds, due)
    BY DEF TickStarts
  <1>2. store \in Stores /\ store.scheds \in [Scheds -> States] /\ WithMap(store.scheds) = store
    BY DEF Inv, TypeOK, Stores, WithMap
  <1>3. due \in SUBSET Scheds /\ \A s \in due : store.scheds[s] \in Alive
    BY DEF Live
  <1>4. QED
    BY <1>1, <1>2, <1>3, ClaimsKeeps DEF TickStarts, Inv, Watched

(* It marks the schedule it serves in the map it read.                     *)
LEMMA TickSendsKeeps == Inv /\ TickSends => Inv'
  <1> SUFFICES ASSUME Inv, TickSends PROVE Inv'
    OBVIOUS
  <1> DEFINE s == tick.sched
             m == [tick.read EXCEPT ![s] = "send_pending"]
  <1>0. /\ TypeOK /\ DownIsLeft /\ TickHolds /\ Watched /\ SwitchesFollow /\ store \in Stores
        /\ tick # NoTick /\ tick \in Ticks /\ up
    BY DEF Inv, TypeOK, TickSends, NoTick, DownIsLeft
  <1>1. PICK r \in Scheds : r = tick.sched
    BY <1>0 DEF Ticks
  <1>2. /\ m \in [Scheds -> States] /\ m[r] = "send_pending"
        /\ \A t \in Scheds \ {r} : m[t] = tick.read[t]
    BY <1>0, <1>1 DEF Ticks, States, Alive
  <1>3. /\ store' = WithMap(m) /\ tick' = [tick EXCEPT !.at = "send", !.read = m]
        /\ UNCHANGED <<up, restarts, ops, tampered, switched, armed>>
    BY DEF TickSends, WithMap
  <1> HIDE DEF m
  <1>4. /\ store' \in Stores /\ store'.goals = store.goals /\ store'.switch = store.switch
        /\ store'.scheds = m
    BY <1>0, <1>2, <1>3, WithMapIs
  <1>5. tick' \in Ticks /\ tick'.sched = r /\ tick'.todo = tick.todo /\ tick'.read = m
    BY <1>0, <1>1, <1>2, <1>3 DEF Ticks
  <1>6. TypeOK' /\ DownIsLeft'
    BY <1>0, <1>3, <1>4, <1>5 DEF TypeOK, DownIsLeft
  <1>7. TickHolds'
    <2>1. \A t \in tick'.todo : m[t] \in Alive /\ t # r
      BY <1>0, <1>1, <1>2, <1>5 DEF TickHolds, Ticks
    <2>2. QED
      BY <1>0, <1>2, <1>3, <1>4, <1>5, <2>1 DEF TickHolds
  <1>8. Watched'
    <2> SUFFICES ASSUME NEW g \in Goals \ tampered' PROVE Checked(store', g)
      BY DEF Watched
    <2>1. Checked(store, g) /\ g \notin tampered
      BY <1>0, <1>3 DEF Watched
    <2>2. \A t \in Scheds : t[1] = g => tick.read[t] = store.scheds[t]
      BY <1>0, <2>1 DEF TickHolds
    <2>3. r[1] = g => store.scheds[r] \in Alive /\ store'.scheds[r] \in Alive
      BY <1>0, <1>1, <1>2, <1>4, <2>2 DEF TickHolds, Alive
    <2>4. \A t \in Scheds \ {r} : t[1] = g => store'.scheds[t] = store.scheds[t]
      BY <1>2, <1>4, <2>2
    <2>5. QED
      BY <1>0, <1>4, <2>1, <2>3, <2>4, LiveKeeps
  <1>9. SwitchesFollow'
    BY <1>0, <1>3, <1>4 DEF SwitchesFollow, Active, ActiveGoals, TickHolds
  <1>10. QED
    BY <1>6, <1>7, <1>8, <1>9 DEF Inv

(* It finishes the schedule, unless that was stopped under it.             *)
LEMMA TickFinishesKeeps ==
  ASSUME Inv, NEW state \in {"enabled", "session_missing"}, TickFinishes(state)
  PROVE  Inv'
  <1>0. /\ TypeOK /\ DownIsLeft /\ TickHolds /\ Watched /\ store \in Stores
        /\ tick # NoTick /\ tick \in Ticks /\ up
        /\ UNCHANGED <<up, restarts, ops, tampered, switched, armed>>
    BY DEF Inv, TypeOK, TickFinishes, NoTick, DownIsLeft
  <1>1. PICK r \in Scheds : r = tick.sched
    BY <1>0 DEF Ticks
  <1> DEFINE m == [tick.read EXCEPT ![r] = state]
  <1>2. /\ m \in [Scheds -> States] /\ m[r] = state
        /\ \A t \in Scheds \ {r} : m[t] = tick.read[t]
        /\ tick.todo \in SUBSET Scheds /\ tick.read \in [Scheds -> States]
        /\ store.scheds \in [Scheds -> States]
    BY <1>0 DEF Ticks, States, Alive, Terminal, Stores
  <1>3. IF store.scheds[r] \in Lasting
        THEN Claims(store.scheds, tick.read, tick.todo)
        ELSE Claims(m, m, tick.todo)
    BY <1>1 DEF TickFinishes
  <1> HIDE DEF m
  <1>4. CASE store.scheds[r] \in Lasting
    <2>1. WithMap(store.scheds) = store
      BY <1>0 DEF WithMap, Stores
    <2>2. \A s \in tick.todo : tick.read[s] \in Alive
      BY <1>0 DEF TickHolds
    <2>3. \A s \in Scheds : s[1] \in Goals \ tampered => store.scheds[s] = tick.read[s]
      BY <1>0 DEF TickHolds
    <2>4. \A g \in Goals \ tampered : Checked(WithMap(store.scheds), g)
      BY <1>0, <2>1 DEF Watched
    <2>5. ~switched => store.switch.timer
      BY <1>0 DEF TickHolds
    <2>6. Claims(store.scheds, tick.read, tick.todo)
      BY <1>3, <1>4
    <2>7. QED
      BY <1>0, <1>2, <2>2, <2>3, <2>4, <2>5, <2>6, ClaimsKeeps
  <1>5. CASE store.scheds[r] \notin Lasting
    <2>1. \A t \in tick.todo : m[t] \in Alive
      BY <1>0, <1>1, <1>2 DEF TickHolds
    <2>2. \A g \in Goals \ tampered : Checked(WithMap(m), g)
      <3> SUFFICES ASSUME NEW g \in Goals \ tampered PROVE Checked(WithMap(m), g)
        OBVIOUS
      <3>1. /\ WithMap(m) \in Stores /\ WithMap(m).goals = store.goals /\ WithMap(m).scheds = m
            /\ Checked(store, g)
        BY <1>0, <1>2, WithMapIs DEF Watched
      <3>2. \A t \in Scheds : t[1] = g => tick.read[t] = store.scheds[t]
        BY <1>0 DEF TickHolds
      <3>3. r[1] = g => store.scheds[r] \in Alive /\ m[r] \in Alive \cup {"session_missing"}
        BY <1>0, <1>1, <1>2, <3>2 DEF TickHolds, Alive
      <3>4. \A t \in Scheds \ {r} : t[1] = g => m[t] = store.scheds[t]
        BY <1>2, <3>2
      <3>5. QED
        BY <1>0, <3>1, <3>3, <3>4, LiveKeeps
    <2>3. ~switched => store.switch.timer
      BY <1>0 DEF TickHolds
    <2>4. Claims(m, m, tick.todo)
      BY <1>3, <1>5
    <2>5. QED
      BY <1>0, <1>2, <2>1, <2>2, <2>3, <2>4, ClaimsKeeps
  <1>6. QED
    BY <1>4, <1>5
-----------------------------------------------------------------------------
(* The schedules a start makes: the one of each goal in G, and no other.   *)
LEMMA ScheduledIs ==
  ASSUME NEW d \in Stores, NEW G \in SUBSET Goals, NEW n \in Generations
  PROVE  LET e == Scheduled(d, G, n)
         IN /\ e \in Stores /\ e.goals = d.goals /\ e.switch = d.switch
            /\ \A g \in G : <<g, NewGeneration(d, g, n)>> \in Scheds
                            /\ e.scheds[<<g, NewGeneration(d, g, n)>>] = "enabled"
            /\ \A s \in Scheds : s[1] \notin G => e.scheds[s] = d.scheds[s]
            /\ \A s \in Scheds, g \in G :
                 s[1] = g /\ s # <<g, NewGeneration(d, g, n)>> => e.scheds[s] = d.scheds[s]
  <1> DEFINE made == {<<g, NewGeneration(d, g, n)>> : g \in G}
             f == [s \in Scheds |-> IF s \in made THEN "enabled" ELSE d.scheds[s]]
             e == Scheduled(d, G, n)
  <1>1. \A g \in G : NewGeneration(d, g, n) \in Generations /\ <<g, NewGeneration(d, g, n)>> \in Scheds
    BY DEF NewGeneration, Stores, Scheds, GoalScheds
  <1>2. \A s \in Scheds : d.scheds[s] \in States
    BY DEF Stores
  <1>3. "enabled" \in States
    BY DEF States, Alive
  <1>4. f \in [Scheds -> States]
    BY <1>2, <1>3
  <1>5. e = [d EXCEPT !.scheds = f]
    BY DEF Scheduled
  <1> HIDE DEF f, e, made
  <1>6. e \in Stores /\ e.goals = d.goals /\ e.switch = d.switch /\ e.scheds = f
    BY <1>4, <1>5 DEF Stores
  <1>7. \A g \in G : <<g, NewGeneration(d, g, n)>> \in made
    BY DEF made
  <1>8. \A s \in made : s[1] \in G /\ s = <<s[1], NewGeneration(d, s[1], n)>>
    BY DEF made
  <1>9. \A s \in Scheds : f[s] = IF s \in made THEN "enabled" ELSE d.scheds[s]
    BY DEF f
  <1>10. QED
    BY <1>1, <1>6, <1>7, <1>8, <1>9 DEF e

(* A start that completes: the goals without a check get a new one.        *)
LEMMA ReconciledIs ==
  ASSUME NEW d \in Stores, NEW n \in Generations
  PROVE  LET U == Unchecked(d)
             a == Scheduled(d, U, n)
             b == Reconciled(d, n)[1]
             last == Last(Reconciled(d, n))
         IN IF ActiveGoals(d) = {} THEN b = d /\ last = d
            ELSE /\ b \in Stores /\ last = Sync(b) /\ b.scheds = a.scheds /\ b.switch = d.switch
                 /\ \A g \in Goals : /\ b.goals[g].state = d.goals[g].state
                                     /\ b.goals[g].gen = IF g \in U THEN NewGeneration(d, g, n)
                                                         ELSE d.goals[g].gen
                 /\ \A g \in Goals \ U : b.goals[g] = d.goals[g]
  <1> DEFINE U == Unchecked(d)
             a == Scheduled(d, U, n)
             f == [g \in Goals |-> IF g \in U
                                   THEN [a.goals[g] EXCEPT !.gen = NewGeneration(d, g, n)]
                                   ELSE a.goals[g]]
             b == [a EXCEPT !.goals = f]
  <1>1. CASE ActiveGoals(d) = {}
    BY <1>1 DEF Reconciled, Last
  <1>2. CASE ActiveGoals(d) # {}
    <2>1. Reconciled(d, n) = <<b, Sync(b)>>
      BY <1>2 DEF Reconciled
    <2>2. U \in SUBSET Goals
      BY DEF Unchecked, ActiveGoals, Active
    <2>3. a \in Stores /\ a.goals = d.goals /\ a.switch = d.switch
      BY <2>2, ScheduledIs
    <2>4. \A g \in Goals : NewGeneration(d, g, n) \in Generations
      BY DEF NewGeneration, Stores
    <2> HIDE DEF U, a
    <2>5. f \in [Goals -> [state : GoalStates, gen : Generations]]
      BY <2>3, <2>4 DEF Stores
    <2>6. /\ \A g \in Goals : /\ f[g].state = d.goals[g].state
                              /\ f[g].gen = IF g \in U THEN NewGeneration(d, g, n)
                                            ELSE d.goals[g].gen
          /\ \A g \in Goals \ U : f[g] = d.goals[g]
      BY <2>3, <2>4 DEF Stores
    <2> HIDE DEF f
    <2>7. b \in Stores /\ b.goals = f /\ b.scheds = a.scheds /\ b.switch = d.switch
      BY <2>3, <2>5 DEF Stores
    <2>8. Reconciled(d, n)[1] = b /\ Last(Reconciled(d, n)) = Sync(b)
      BY <2>1 DEF Last
    <2> HIDE DEF b
    <2>9. QED
      BY <1>2, <2>6, <2>7, <2>8 DEF U, a
  <1>3. QED
    BY <1>1, <1>2

(* What a completed start leaves: every active goal watched, the switches  *)
(* in step if there is one, and the schedules of each goal in order.       *)
LEMMA StartLeaves ==
  ASSUME NEW d \in Stores, NEW n \in Generations
  PROVE  LET last == Last(Reconciled(d, n))
         IN /\ last \in Stores
            /\ last = d \/ \E b \in Stores : last = Sync(b) /\ Active(last) = Active(b)
            /\ \A g \in ActiveGoals(last) : /\ CheckState(last, g) \in Alive
                                            /\ last.switch.stopless /\ last.switch.timer
            /\ \A g \in Goals : Checked(d, g) => Checked(last, g)
  <1> DEFINE U == Unchecked(d)
             a == Scheduled(d, U, n)
             b == Reconciled(d, n)[1]
             last == Last(Reconciled(d, n))
  <1>1. CASE ActiveGoals(d) = {}
    BY <1>1, ReconciledIs
  <1>2. CASE ActiveGoals(d) # {}
    <2>1. /\ b \in Stores /\ last = Sync(b) /\ b.scheds = a.scheds /\ b.switch = d.switch
          /\ \A g \in Goals : /\ b.goals[g].state = d.goals[g].state
                              /\ b.goals[g].gen = IF g \in U THEN NewGeneration(d, g, n)
                                                  ELSE d.goals[g].gen
      BY <1>2, ReconciledIs
    <2>2. U \in SUBSET Goals /\ \A g \in ActiveGoals(d) \ U : CheckState(d, g) \in Alive
      BY DEF Unchecked, ActiveGoals, Active
    <2>3. /\ \A g \in U : <<g, NewGeneration(d, g, n)>> \in Scheds
                          /\ a.scheds[<<g, NewGeneration(d, g, n)>>] = "enabled"
          /\ \A s \in Scheds : s[1] \notin U => a.scheds[s] = d.scheds[s]
          /\ \A s \in Scheds, g \in U :
               s[1] = g /\ s # <<g, NewGeneration(d, g, n)>> => a.scheds[s] = d.scheds[s]
      BY <2>2, ScheduledIs
    <2>4. /\ last \in Stores /\ last.goals = b.goals /\ last.scheds = a.scheds
          /\ last.switch.stopless = (ActiveGoals(b) # {})
          /\ last.switch.timer = (Active(b) \ ActiveGoals(b) # {} \/ Live(b) # {})
      BY <2>1, SyncIs
    <2> HIDE DEF U, a, b, last
    <2>5. /\ Active(last) = Active(b) /\ Active(b) = Active(d)
          /\ ActiveGoals(last) = ActiveGoals(b) /\ ActiveGoals(b) = ActiveGoals(d)
      BY <2>1, <2>4 DEF Active, ActiveGoals
    <2>6. \A g \in Goals : /\ CheckOf(last, g) = <<g, IF g \in U THEN NewGeneration(d, g, n)
                                                      ELSE d.goals[g].gen>>
                           /\ CheckOf(last, g) \in Scheds
      <3>1. \A g \in Goals : CheckOf(last, g) \in Scheds
        BY <2>4, CheckIs
      <3>2. QED
        BY <2>1, <2>4, <3>1 DEF CheckOf
    <2>7. ASSUME NEW g \in ActiveGoals(last)
          PROVE  CheckState(last, g) \in Alive
      <3>1. g \in ActiveGoals(d) /\ g \in Goals
        BY <2>5, <2>7 DEF ActiveGoals, Active
      <3>2. CASE g \in U
        BY <2>3, <2>4, <2>6, <3>1, <3>2 DEF CheckState, Alive
      <3>3. CASE g \notin U
        <4>1. CheckOf(last, g) = CheckOf(d, g) /\ CheckOf(d, g)[1] = g
          BY <2>6, <3>1, <3>3 DEF CheckOf
        <4>2. CheckState(last, g) = CheckState(d, g)
          BY <2>3, <2>4, <2>6, <3>1, <3>3, <4>1 DEF CheckState
        <4>3. QED
          BY <2>2, <3>1, <3>3, <4>2
      <3>4. QED
        BY <3>2, <3>3
    <2>8. last.switch.stopless /\ last.switch.timer
      <3>1. PICK g \in ActiveGoals(last) : TRUE
        BY <1>2, <2>5
      <3>2. g \in Goals /\ CheckOf(last, g) \in Live(last)
        BY <2>6, <2>7, <3>1 DEF ActiveGoals, Active, Live, CheckState
      <3>3. Live(b) = Live(last)
        BY <2>1, <2>4 DEF Live
      <3>4. QED
        BY <1>2, <2>4, <2>5, <3>2, <3>3
    <2>9. ASSUME NEW g \in Goals, Checked(d, g) PROVE Checked(last, g)
      <3>0. last.goals[g].state = d.goals[g].state
        BY <2>1, <2>4
      <3>1. CASE g \in U
        <4>1. d.goals[g].state = "active" /\ CheckState(d, g) \notin Alive
          BY <3>1 DEF U, Unchecked, ActiveGoals, Active
        <4>2. \A s \in Scheds : s[1] = g => d.scheds[s] \notin Alive
          BY <2>9, <4>1 DEF Checked, CheckState
        <4>3. CheckState(last, g) \in Alive
          BY <2>3, <2>4, <2>6, <3>1 DEF CheckState, Alive
        <4>4. \A s \in Scheds : s[1] = g /\ s # CheckOf(last, g) => last.scheds[s] \notin Alive
          BY <2>3, <2>4, <2>6, <3>1, <4>2
        <4>5. QED
          BY <3>0, <4>1, <4>3, <4>4 DEF Checked
      <3>2. CASE g \notin U
        <4>1. CheckOf(last, g) = CheckOf(d, g) /\ CheckOf(d, g)[1] = g
          BY <2>6, <3>2 DEF CheckOf
        <4>2. \A s \in Scheds : s[1] = g => last.scheds[s] = d.scheds[s]
          BY <2>3, <2>4, <3>2
        <4>3. CheckState(last, g) = CheckState(d, g)
          BY <2>6, <4>1, <4>2 DEF CheckState
        <4>4. QED
          BY <2>9, <3>0, <4>1, <4>2, <4>3 DEF Checked
      <3>3. QED
        BY <3>1, <3>2
    <2>10. last = Sync(b) /\ Active(last) = Active(b)
      BY <2>1, <2>5 DEF last
    <2>11. QED
      BY <2>1, <2>4, <2>7, <2>8, <2>9, <2>10 DEF last
  <1>3. QED
    BY <1>1, <1>2

(* A start, completed.                                                     *)
LEMMA RestartKeeps == Inv /\ Restart => Inv'
  <1> SUFFICES ASSUME Inv, Restart PROVE Inv'
    OBVIOUS
  <1>0. /\ TypeOK /\ DownIsLeft /\ Watched /\ SwitchesFollow /\ store \in Stores
        /\ tick = NoTick /\ restarts < MaxRestarts
        /\ up' = TRUE /\ restarts' = restarts + 1
        /\ store' = Last(Reconciled(store, restarts + 1))
        /\ UNCHANGED <<tick, ops, tampered, switched, armed>>
    BY DEF Inv, TypeOK, Restart, DownIsLeft
  <1>1. restarts + 1 \in Generations
    BY <1>0, LongHorizonAssumption DEF TypeOK, Generations
  <1>2. /\ store' \in Stores
        /\ store' = store \/ \E b \in Stores : store' = Sync(b) /\ Active(store') = Active(b)
        /\ \A g \in Goals : Checked(store, g) => Checked(store', g)
    BY <1>0, <1>1, StartLeaves
  <1>3. TypeOK' /\ DownIsLeft' /\ TickHolds'
    BY <1>0, <1>1, <1>2 DEF TypeOK, DownIsLeft, TickHolds
  <1>4. Watched'
    BY <1>0, <1>2 DEF Watched
  <1>5. SwitchesFollow'
    <2>1. CASE store' = store
      BY <1>0, <2>1 DEF SwitchesFollow
    <2>2. ASSUME NEW b \in Stores, store' = Sync(b), Active(store') = Active(b)
          PROVE  SwitchesFollow'
      <3>1. /\ store'.switch.longhorizon = (Active(b) # {})
            /\ store'.switch.stopless = (ActiveGoals(b) # {})
            /\ store'.switch.timer = (Active(b) \ ActiveGoals(b) # {} \/ Live(b) # {})
            /\ store'.scheds = b.scheds
        BY <2>2, SyncIs
      <3>2. ActiveGoals(store') = ActiveGoals(b) /\ Live(store') = Live(b)
        BY <2>2, <3>1 DEF ActiveGoals, Live
      <3>3. QED
        BY <2>2, <3>1, <3>2 DEF SwitchesFollow
    <2>3. QED
      BY <1>2, <2>1, <2>2
  <1>6. QED
    BY <1>3, <1>4, <1>5 DEF Inv

(* A start the daemon dies in leaves the other goals as they were.         *)
LEMMA RestartDiesKeeps == Inv /\ RestartDies => Inv'
  <1> SUFFICES ASSUME Inv, RestartDies PROVE Inv'
    OBVIOUS
  <1>0. /\ TypeOK /\ DownIsLeft /\ Watched /\ store \in Stores
        /\ ~up /\ tick = NoTick /\ restarts + 1 < MaxRestarts /\ restarts' = restarts + 1
        /\ tampered' = tampered \cup Unchecked(store) /\ switched' = TRUE
        /\ UNCHANGED <<tick, up, ops, armed>>
    BY DEF Inv, TypeOK, RestartDies, DownIsLeft
  <1>1. restarts + 1 \in Generations /\ Unchecked(store) \in SUBSET Goals
    BY <1>0, LongHorizonAssumption DEF TypeOK, Generations, Unchecked, ActiveGoals, Active
  <1> DEFINE Others ==
               /\ store' \in Stores
               /\ \A g \in Goals \ Unchecked(store) : store'.goals[g] = store.goals[g]
               /\ \A s \in Scheds : s[1] \notin Unchecked(store) => store'.scheds[s] = store.scheds[s]
  <1>2. Others
    <2>1. ASSUME NEW G \in SUBSET Unchecked(store), store' = Scheduled(store, G, restarts + 1)
          PROVE  Others
      <3>1. G \in SUBSET Goals
        BY <1>1
      <3>2. /\ store' \in Stores /\ store'.goals = store.goals
            /\ \A s \in Scheds : s[1] \notin G => store'.scheds[s] = store.scheds[s]
        BY <1>0, <1>1, <2>1, <3>1, ScheduledIs
      <3>3. QED
        BY <3>2
    <2>2. CASE store' = Reconciled(store, restarts + 1)[1]
      <3>1. CASE ActiveGoals(store) = {}
        BY <1>0, <1>1, <2>2, <3>1, ReconciledIs
      <3>2. CASE ActiveGoals(store) # {}
        <4>1. /\ store' \in Stores
              /\ store'.scheds = Scheduled(store, Unchecked(store), restarts + 1).scheds
              /\ \A g \in Goals \ Unchecked(store) : store'.goals[g] = store.goals[g]
          BY <1>0, <1>1, <2>2, <3>2, ReconciledIs
        <4>2. \A s \in Scheds : s[1] \notin Unchecked(store) =>
                Scheduled(store, Unchecked(store), restarts + 1).scheds[s] = store.scheds[s]
          BY <1>0, <1>1, ScheduledIs
        <4>3. QED
          BY <4>1, <4>2
      <3>3. QED
        BY <3>1, <3>2
    <2>3. QED
      BY <2>1, <2>2 DEF RestartDies
  <1>3. TypeOK' /\ DownIsLeft' /\ TickHolds' /\ SwitchesFollow'
    BY <1>0, <1>1, <1>2 DEF TypeOK, DownIsLeft, TickHolds, SwitchesFollow
  <1>4. Watched'
    <2> SUFFICES ASSUME NEW g \in Goals \ tampered' PROVE Checked(store', g)
      BY DEF Watched
    <2>1. Checked(store, g) /\ g \notin Unchecked(store)
      BY <1>0 DEF Watched
    <2>2. CheckOf(store, g) \in Scheds /\ CheckOf(store, g)[1] = g
      BY <1>0, CheckIs
    <2>3. CheckOf(store', g) = CheckOf(store, g) /\ CheckState(store', g) = CheckState(store, g)
      BY <1>2, <2>1, <2>2 DEF CheckOf, CheckState
    <2>4. QED
      BY <1>2, <2>1, <2>3 DEF Checked
  <1>5. QED
    BY <1>3, <1>4 DEF Inv
-----------------------------------------------------------------------------
(* Nothing is registered at first.                                         *)
LEMMA InvInit == Init => Inv
  <1> SUFFICES ASSUME Init PROVE Inv
    OBVIOUS
  <1>1. store \in Stores
    <2>1. [g \in Goals |-> [state |-> "none", gen |-> 0]] \in [Goals -> [state : GoalStates, gen : Generations]]
      BY LongHorizonAssumption DEF GoalStates, Generations
    <2>2. [s \in Scheds |-> "none"] \in [Scheds -> States]
      BY DEF States
    <2>3. QED
      BY <2>1, <2>2 DEF Init, Stores
  <1>2. TypeOK
    <2>1. restarts \in Generations /\ ops \in 0 .. MaxOps
      BY LongHorizonAssumption DEF Init, Generations
    <2>2. up \in BOOLEAN /\ switched \in BOOLEAN /\ tick = NoTick
      BY DEF Init
    <2>3. tampered \subseteq Goals /\ armed \subseteq Scheds
      BY DEF Init
    <2>4. QED
      BY <1>1, <2>1, <2>2, <2>3 DEF TypeOK
  <1>3. /\ \A g \in Goals : store.goals[g].state = "none"
        /\ \A s \in Scheds : store.scheds[s] = "none"
        /\ store.switch.longhorizon = FALSE /\ store.switch.stopless = FALSE
        /\ store.switch.timer = FALSE
    BY DEF Init
  <1>4. Watched
    BY <1>1, <1>3, CheckIs DEF Watched, Checked, CheckState, Alive
  <1>5. Active(store) = {} /\ ActiveGoals(store) = {} /\ Live(store) = {}
    BY <1>3 DEF Active, ActiveGoals, Live, Alive
  <1>6. DownIsLeft /\ TickHolds /\ SwitchesFollow
    BY <1>3, <1>5 DEF Init, DownIsLeft, TickHolds, SwitchesFollow
  <1>7. QED
    BY <1>2, <1>4, <1>6 DEF Inv

(* Every step keeps the schedules and the switches in step with the goals, *)
(* where nothing has interfered.                                           *)
LEMMA InvStep == Inv /\ [Next]_vars => Inv'
  <1> SUFFICES ASSUME Inv, [Next]_vars PROVE Inv'
    OBVIOUS
  <1>0. TypeOK /\ DownIsLeft /\ TickHolds /\ Watched /\ SwitchesFollow /\ store \in Stores
    BY DEF Inv, TypeOK
  <1>1. ASSUME NEW g \in Goals,
               \/ RegisterLongHorizon(g) \/ ActivateLongHorizon(g) \/ PauseLongHorizon(g)
               \/ StopLongHorizon(g) \/ RemoveLongHorizon(g)
        PROVE  Inv'
    BY <1>1, GoalOperations
  <1>2. ASSUME NEW s \in Scheds,
               \/ s \notin GoalScheds /\ AddSchedule(s)
               \/ PauseSchedule(s) \/ ResumeSchedule(s)
               \/ StopSchedule(s) \/ RemoveSchedule(s)
        PROVE  Inv'
    BY <1>2, ScheduleOperations
  <1>3. ASSUME NEW o \in Operators, NEW on \in BOOLEAN, SetOperator(o, on) PROVE Inv'
    <2>1. store' \in Stores /\ store'.goals = store.goals /\ store'.scheds = store.scheds
      <3>1. [store.switch EXCEPT ![o] = on] \in [longhorizon : BOOLEAN, stopless : BOOLEAN, timer : BOOLEAN]
        BY <1>0 DEF Stores, Operators
      <3>2. QED
        BY <1>0, <1>3, <3>1 DEF SetOperator, Stores
    <2>2. /\ up /\ ops < MaxOps /\ ops' = ops + 1 /\ switched' = TRUE
          /\ UNCHANGED <<tick, up, restarts, tampered, armed>>
      BY <1>3 DEF SetOperator, Mutation
    <2>3. ops' \in 0 .. MaxOps
      BY <1>0, <2>2, LongHorizonAssumption DEF TypeOK
    <2>4. TypeOK' /\ DownIsLeft' /\ TickHolds' /\ SwitchesFollow'
      BY <1>0, <2>1, <2>2, <2>3 DEF TypeOK, DownIsLeft, TickHolds, SwitchesFollow
    <2>5. Watched'
      BY <1>0, <2>1, <2>2 DEF Watched, Checked, CheckOf, CheckState
    <2>6. QED
      BY <2>4, <2>5 DEF Inv
  <1>4. CASE TickStarts \/ TickSends
    BY <1>4, TickStartsKeeps, TickSendsKeeps
  <1>5. ASSUME NEW state \in {"enabled", "session_missing"}, TickFinishes(state) PROVE Inv'
    BY <1>5, TickFinishesKeeps
  <1>6. CASE Crash
    BY <1>0, <1>6
    DEF Crash, Inv, TypeOK, DownIsLeft, TickHolds, Watched, SwitchesFollow, Active, ActiveGoals, Live,
        Checked, CheckOf, CheckState
  <1>7. CASE Restart \/ RestartDies
    BY <1>7, RestartKeeps, RestartDiesKeeps
  <1>8. CASE UNCHANGED vars
    BY <1>0, <1>8
    DEF vars, Inv, TypeOK, DownIsLeft, TickHolds, Watched, SwitchesFollow, Active, ActiveGoals, Live,
        Checked, CheckOf, CheckState
  <1>9. QED
    BY <1>1, <1>2, <1>3, <1>4, <1>5, <1>6, <1>7, <1>8 DEF Next

(* The invariant holds of every behaviour of the control plane.            *)
THEOREM Invariance == Spec => []Inv
  BY InvInit, InvStep, PTL DEF Spec

(* Goals, schedules and switches keep their types.                         *)
THEOREM TypeCorrect == Spec => []TypeOK
  BY Invariance, PTL DEF Inv

(* The schedules of a goal follow its state through the operations on it   *)
(* (control.js), the starts of the daemon and the ticks of the timer:      *)
(* exactly one live schedule, the one on its record, for an active goal    *)
(* whose session is there, and none for any other.                         *)
THEOREM ScheduleFollows == Spec => []CheckFollowsGoal
  <1>1. Inv => CheckFollowsGoal
    <2> SUFFICES ASSUME Inv, NEW g \in Goals \ tampered
                 PROVE  LET alive == {s \in Live(store) : s[1] = g}
                        IN IF g \in Active(store)
                           THEN \/ alive = {CheckOf(store, g)}
                                \/ alive = {} /\ CheckState(store, g) = "session_missing"
                           ELSE alive = {}
      BY DEF CheckFollowsGoal
    <2>1. Checked(store, g) /\ CheckOf(store, g) \in Scheds /\ CheckOf(store, g)[1] = g
      BY CheckIs DEF Inv, Watched, TypeOK
    <2>2. CASE CheckState(store, g) \in Alive
      BY <2>1, <2>2 DEF Checked, CheckState, Live, Active, Alive
    <2>3. CASE CheckState(store, g) \notin Alive
      BY <2>1, <2>3 DEF Checked, CheckState, Live, Active
    <2>4. QED
      BY <2>2, <2>3
  <1>2. QED
    BY <1>1, Invariance, PTL

(* The operator switches (syncOperatorState) follow the records.           *)
THEOREM OperatorsFollow == Spec => []SwitchesFollow
  BY Invariance, PTL DEF Inv

(* reconcileLongHorizon: whatever the daemon died in, after a start every  *)
(* active goal has a live schedule on its record, and the operators that   *)
(* serve it are on.                                                        *)
THEOREM StartsWatch == Spec => RestartWatches
  <1>1. Inv /\ [Next]_vars =>
          (~up /\ up' => \A g \in ActiveGoals(store') :
             /\ CheckState(store', g) \in Alive
             /\ store'.switch.stopless /\ store'.switch.timer)
    <2> SUFFICES ASSUME Inv, Restart
                 PROVE  \A g \in ActiveGoals(store') :
                          /\ CheckState(store', g) \in Alive
                          /\ store'.switch.stopless /\ store'.switch.timer
      <3>1. ASSUME Inv, [Next]_vars, ~up, up' PROVE Restart
        BY <3>1
        DEF Inv, DownIsLeft, NoTick, Next, RegisterLongHorizon, ActivateLongHorizon,
            PauseLongHorizon, StopLongHorizon, RemoveLongHorizon, GoalOperation, AddSchedule,
            PauseSchedule, ResumeSchedule, StopSchedule, RemoveSchedule, ScheduleWrite,
            SetOperator, Mutation, TickStarts, TickSends, TickFinishes, Crash, RestartDies, vars
      <3>2. QED
        BY <3>1
    <2>1. store \in Stores /\ restarts + 1 \in Generations
      BY LongHorizonAssumption DEF Inv, TypeOK, DownIsLeft, Restart, Generations
    <2>2. store' = Last(Reconciled(store, restarts + 1))
      BY DEF Restart
    <2>3. QED
      BY <2>1, <2>2, StartLeaves
  <1>2. QED
    BY <1>1, Invariance, PTL DEF Spec, RestartWatches
=============================================================================

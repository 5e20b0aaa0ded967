--------------------------- MODULE GoalReviewProofs ---------------------------
(***************************************************************************)
(* Proofs about the registry of subagents (module Subagents) and about the *)
(* reviews of goals over it (module GoalReview), for every set of          *)
(* requests, occurrences, goals, turns and stops and every bound.          *)
(***************************************************************************)
EXTENDS GoalReview, TLAPS, FiniteSetTheorems

(* Registries never know of a child that was not born: the next one is     *)
(* new to all of them.                                                     *)
Born(c) == c[2] <= born[c[1]]
BornNext(c) == c[2] <= born'[c[1]]   \* after the step
OnlyBorn(r) == r \in [Children -> RegistryStates] /\
               \A c \in Children : r[c] # "none" => Born(c)

Stops ==
  [at : {"idle", "status", "interrupt"}, child : Children \cup {<<>>},
   read : [Children -> RegistryStates] \cup {<<>>}]

RegistryTypes ==
  /\ stop \in [Stoppers -> Stops]
  /\ up \in BOOLEAN /\ faults \in Nat
  /\ work \in [Works -> WorkStates]
  /\ making \subseteq Works
  /\ born \in [Works -> 0 .. MaxBorn]
  /\ tick \in Ticks /\ touched \in [Occurrences -> 0 .. MaxTouched]

RegistriesBorn ==
  /\ OnlyBorn(registry)
  /\ \A k \in Stoppers : stop[k].at # "idle" =>
       stop[k].child \in Children /\ OnlyBorn(stop[k].read) /\ Born(stop[k].child)

(* Where a purpose stands says how many children it can have: one that is  *)
(* no schedule is asked for before it bears its only one.                  *)
SinglesCounted ==
  \A w \in Works \ Occurrences :
    /\ born[w] <= 1
    /\ w \in making => work[w] = "asked" /\ born[w] = 0
    /\ work[w] = "new" => born[w] = 0

(* The chances of a schedule to bear a child without anything more that    *)
(* happens to it: the creation that is awaited, a claim to come, and, when *)
(* it was turned off during the creation, both.                            *)
Chances(w) ==
  IF w \in making THEN IF work[w] = "off" THEN 2 ELSE 1
  ELSE IF work[w] \in Claimable \/ (tick.on /\ tick.read[w] \in Claimable) THEN 1 ELSE 0

ChancesCounted ==
  \A w \in Occurrences : born[w] + Chances(w) <= 1 + faults + touched[w]

(* A tick serves one schedule at a time.                                   *)
ServesOne ==
  \A w \in making \cap Occurrences :
    tick.on /\ \A v \in making \cap Occurrences : v = w

ChildrenCounted == SinglesCounted /\ ChancesCounted /\ ServesOne

RegistryInv == RegistryTypes /\ RegistriesBorn /\ ChildrenCounted

RegistryNext == RegistryStep \/ RegistryCrash \/ RegistryRestart
(* The next child of a purpose is new to the registry, which keeps what it *)
(* knew of the others when it takes it in.                                 *)
LEMMA NextIsNew ==
  ASSUME RegistryInv, NEW w \in Works, born[w] < MaxBorn
  PROVE  /\ NextChild(w) \in Children
         /\ registry[NextChild(w)] = "none"
         /\ Registered(NextChild(w)) \in [Children -> RegistryStates]
         /\ Registered(NextChild(w))[NextChild(w)] = "active"
         /\ \A c \in Children \ {NextChild(w)} :
              Registered(NextChild(w))[c] = registry[c]
  <1>1. born[w] \in Nat /\ MaxBorn \in Nat
    BY SubagentsAssumption DEF RegistryInv, RegistryTypes
  <1>2. NextChild(w) \in Children
    BY <1>1 DEF NextChild, Children
  <1>3. registry \in [Children -> RegistryStates]
    BY DEF RegistryInv, RegistriesBorn, OnlyBorn
  <1>4. registry[NextChild(w)] = "none"
    BY <1>1, <1>2 DEF RegistryInv, RegistriesBorn, OnlyBorn, Born, NextChild
  <1>5. "active" \in RegistryStates
    BY DEF RegistryStates
  <1>6. QED
    BY <1>2, <1>3, <1>4, <1>5 DEF Registered

(* Children only come to the world: what was born stays born.              *)
LEMMA BornGrows ==
  ASSUME RegistryInv, born' \in [Works -> 0 .. MaxBorn],
         \A w \in Works : born[w] <= born'[w],
         NEW c \in Children, Born(c)
  PROVE  BornNext(c)
  <1>1. c[1] \in Works /\ c[2] \in Nat
    BY DEF Children
  <1>2. born[c[1]] \in Nat /\ born'[c[1]] \in Nat
    BY <1>1, SubagentsAssumption DEF RegistryInv, RegistryTypes
  <1>3. QED
    BY <1>1, <1>2 DEF Born, BornNext

(* A birth: it counts one more child of w, in nobody's registry yet.       *)
LEMMA BearsOne ==
  ASSUME RegistryInv, NEW w \in Works, Bears(w)
  PROVE  /\ born[w] < MaxBorn
         /\ born' \in [Works -> 0 .. MaxBorn]
         /\ born'[w] = born[w] + 1
         /\ \A v \in Works \ {w} : born'[v] = born[v]
         /\ \A v \in Works : born[v] <= born'[v]
         /\ BornNext(NextChild(w))
  <1>1. born \in [Works -> 0 .. MaxBorn] /\ MaxBorn \in Nat
    BY SubagentsAssumption DEF RegistryInv, RegistryTypes
  <1>2. born[w] \in Nat /\ born[w] < MaxBorn /\ born[w] + 1 \in 0 .. MaxBorn
    BY <1>1 DEF Bears
  <1>3. born' = [born EXCEPT ![w] = born[w] + 1]
    BY DEF Bears
  <1>4. /\ born' \in [Works -> 0 .. MaxBorn]
        /\ born'[w] = born[w] + 1
        /\ \A v \in Works \ {w} : born'[v] = born[v]
    BY <1>1, <1>2, <1>3
  <1>5. \A v \in Works : born[v] <= born'[v]
    BY <1>1, <1>2, <1>4
  <1>6. BornNext(NextChild(w))
    BY <1>2, <1>4 DEF BornNext, NextChild
  <1>7. QED
    BY <1>2, <1>4, <1>5, <1>6
(* A stop that is over has its type.                                       *)
LEMMA NoStopType == NoStop \in Stops /\ NoStop.at = "idle"
  BY DEF Stops, NoStop

(* Nothing was asked for, registered or born at first.                     *)
LEMMA RegistryInitInv == RegistryInit => RegistryInv
  <1> SUFFICES ASSUME RegistryInit PROVE RegistryInv
    OBVIOUS
  <1> USE SubagentsAssumption DEF RegistryInit
  <1>1. RegistryTypes
    <2>1. NoTick \in Ticks
      BY DEF NoTick, Ticks, WorkStates, Claimable
    <2>2. QED
      BY <2>1, NoStopType DEF RegistryTypes, WorkStates, Claimable
  <1>2. OnlyBorn(registry)
    BY DEF OnlyBorn, RegistryStates
  <1>3. RegistriesBorn
    BY <1>2 DEF RegistriesBorn, NoStop
  <1>4. ChildrenCounted
    <2>1. ASSUME NEW w \in Occurrences
          PROVE  born[w] + Chances(w) <= 1 + faults + touched[w]
      <3>1. w \in Works
        BY DEF Works
      <3>2. Chances(w) = 1 /\ born[w] = 0 /\ touched[w] = 0
        BY <3>1 DEF Chances, NoTick, Claimable
      <3>3. QED
        BY <3>2
    <2>2. QED
      BY <2>1 DEF ChildrenCounted, SinglesCounted, ChancesCounted, ServesOne
  <1>5. QED
    BY <1>1, <1>3, <1>4 DEF RegistryInv

(* What a step that leaves the registries and the births alone keeps.      *)
LEMMA QuietRegistries ==
  ASSUME RegistryInv, UNCHANGED <<registry, born, stop>>
  PROVE  RegistriesBorn'
  BY DEF RegistryInv, RegistriesBorn, OnlyBorn, Born

(* What a step keeps that no purpose notices.                              *)
LEMMA QuietCounts ==
  ASSUME RegistryInv, UNCHANGED <<faults, work, making, born, tick, touched>>
  PROVE  ChildrenCounted'
  BY DEF RegistryInv, ChildrenCounted, SinglesCounted, ChancesCounted, ServesOne, Chances

(* A registry that takes in a child that is born.                          *)
LEMMA RegistriesTake ==
  ASSUME RegistryInv, born' \in [Works -> 0 .. MaxBorn],
         \A w \in Works : born[w] <= born'[w],
         \/ registry' = registry
         \/ \E w \in Works : /\ born[w] < MaxBorn /\ BornNext(NextChild(w))
                            /\ registry' = Registered(NextChild(w)),
         stop' = stop \/ stop' = [k \in Stoppers |-> NoStop]
  PROVE  RegistriesBorn'
  <1>1. \A c \in Children : Born(c) => BornNext(c)
    BY BornGrows
  <1>2. OnlyBorn(registry)'
    <2>1. CASE registry' = registry
      BY <1>1, <2>1 DEF RegistryInv, RegistriesBorn, OnlyBorn, Born, BornNext
    <2>2. ASSUME NEW w \in Works, born[w] < MaxBorn, BornNext(NextChild(w)),
                 registry' = Registered(NextChild(w))
          PROVE  OnlyBorn(registry)'
      <3>1. registry' \in [Children -> RegistryStates]
        BY <2>2, NextIsNew
      <3>2. \A c \in Children \ {NextChild(w)} : registry'[c] = registry[c]
        BY <2>2, NextIsNew
      <3>3. QED
        BY <1>1, <2>2, <3>1, <3>2 DEF RegistryInv, RegistriesBorn, OnlyBorn, Born, BornNext
    <2>3. QED
      BY <2>1, <2>2
  <1>3. CASE stop' = stop
    BY <1>1, <1>2, <1>3 DEF RegistryInv, RegistriesBorn, OnlyBorn, Born, BornNext
  <1>4. CASE stop' = [k \in Stoppers |-> NoStop]
    BY <1>2, <1>4 DEF RegistriesBorn, NoStop
  <1>5. QED
    BY <1>3, <1>4
(* Chances are few, and of a schedule that is a purpose.                   *)
LEMMA ChancesAre ==
  ASSUME NEW w \in Occurrences
  PROVE  w \in Works /\ Chances(w) \in 0 .. 2 /\ Chances(w)' \in 0 .. 2
  BY DEF Works, Chances

(* A step between the births: a schedule gains no more chances than        *)
(* operations.                                                             *)
LEMMA Unborn ==
  ASSUME RegistryInv, RegistryTypes', UNCHANGED <<faults, registry, born, stop>>,
         \A w \in Works \ Occurrences :
           work'[w] = work[w] /\ (w \in making' <=> w \in making),
         \A w \in Occurrences :
           Chances(w)' + touched[w] <= Chances(w) + touched'[w],
         ServesOne'
  PROVE  RegistryInv'
  <1>1. RegistriesBorn'
    BY QuietRegistries
  <1>2. SinglesCounted'
    BY DEF RegistryInv, ChildrenCounted, SinglesCounted
  <1>3. ASSUME NEW w \in Occurrences
        PROVE  born'[w] + Chances(w)' <= 1 + faults' + touched'[w]
    <2>1. /\ born[w] \in Nat /\ faults \in Nat /\ touched[w] \in Nat /\ touched'[w] \in Nat
          /\ Chances(w) \in Nat /\ Chances(w)' \in Nat
      BY <1>3, ChancesAre, SubagentsAssumption DEF RegistryInv, RegistryTypes
    <2>2. born[w] + Chances(w) <= 1 + faults + touched[w]
      BY <1>3 DEF RegistryInv, ChildrenCounted, ChancesCounted
    <2>3. born'[w] = born[w] /\ faults' = faults
      OBVIOUS
    <2>4. Chances(w)' + touched[w] <= Chances(w) + touched'[w]
      BY <1>3
    <2>5. QED
      BY <2>1, <2>2, <2>3, <2>4
  <1>4. QED
    BY <1>1, <1>2, <1>3 DEF RegistryInv, ChildrenCounted, ChancesCounted

(* A user's request is asked for before it has a child.                    *)
LEMMA AsksInv ==
  ASSUME RegistryInv, NEW w \in Requests, Asks(w)
  PROVE  RegistryInv'
  <1> USE DEF Asks
  <1>1. w \in Works \ Occurrences
    BY SubagentsAssumption DEF Works
  <1>2. /\ work' \in [Works -> WorkStates] /\ work'[w] = "asked"
        /\ \A v \in Works \ {w} : work'[v] = work[v]
    BY <1>1 DEF RegistryInv, RegistryTypes, WorkStates, Claimable
  <1>3. RegistryTypes'
    BY <1>1, <1>2 DEF RegistryInv, RegistryTypes
  <1>4. RegistriesBorn'
    BY QuietRegistries
  <1>5. born[w] = 0
    BY <1>1 DEF RegistryInv, ChildrenCounted, SinglesCounted
  <1>6. SinglesCounted'
    BY <1>1, <1>2, <1>5 DEF RegistryInv, ChildrenCounted, SinglesCounted
  <1>7. \A v \in Occurrences : Chances(v)' = Chances(v)
    BY <1>1, <1>2 DEF Chances, Works
  <1>8. ChancesCounted' /\ ServesOne'
    BY <1>1, <1>7 DEF RegistryInv, ChildrenCounted, ChancesCounted, ServesOne
  <1>9. QED
    BY <1>3, <1>4, <1>6, <1>8 DEF RegistryInv, ChildrenCounted

(* What the write-back of a map of schedules leaves.                       *)
LEMMA StoredIs ==
  ASSUME RegistryInv, NEW m \in [Occurrences -> WorkStates]
  PROVE  /\ Stored(m) \in [Works -> WorkStates]
         /\ \A w \in Occurrences : Stored(m)[w] = m[w]
         /\ \A w \in Works \ Occurrences : Stored(m)[w] = work[w]
  BY DEF Stored, Works, RegistryInv, RegistryTypes

(* A tick reads, claims, writes back and ends without a schedule that      *)
(* gains a chance.                                                         *)
LEMMA TickInv ==
  ASSUME RegistryInv,
         TickStarts \/ OtherServed \/ TickEnds \/ \E w \in Occurrences : Claimed(w)
  PROVE  RegistryInv'
  <1>1. /\ tick \in Ticks /\ work \in [Works -> WorkStates] /\ making \subseteq Works
        /\ tick.read \in [Occurrences -> WorkStates] /\ tick.served \subseteq Occurrences
        /\ touched \in [Occurrences -> 0 .. MaxTouched] /\ MaxTouched \in Nat
    BY SubagentsAssumption DEF RegistryInv, RegistryTypes, Ticks
  <1>2. \A w \in Occurrences : w \in Works
    BY DEF Works
  <1>3. ASSUME TickStarts PROVE RegistryInv'
    <2> USE <1>3 DEF TickStarts
    <2>1. tick' \in Ticks /\ tick'.read = [w \in Occurrences |-> work[w]]
      BY <1>1, <1>2 DEF Ticks
    <2>2. RegistryTypes'
      BY <2>1 DEF RegistryInv, RegistryTypes
    <2>3. \A w \in Occurrences : Chances(w)' = Chances(w)
      BY <2>1 DEF Chances
    <2>4. ServesOne'
      BY DEF RegistryInv, ChildrenCounted, ServesOne
    <2>5. \A w \in Occurrences : Chances(w)' + touched[w] <= Chances(w) + touched'[w]
      BY <1>1, <2>3, ChancesAre
    <2>6. QED
      BY <2>2, <2>4, <2>5, Unborn
  <1>4. ASSUME OtherServed PROVE RegistryInv'
    <2> USE <1>4 DEF OtherServed, Serving
    <2>1. /\ work' \in [Works -> WorkStates]
          /\ \A w \in Occurrences : work'[w] = tick.read[w]
          /\ \A w \in Works \ Occurrences : work'[w] = work[w]
      BY <1>1, StoredIs
    <2>2. RegistryTypes'
      BY <2>1 DEF RegistryInv, RegistryTypes
    <2>3. \A w \in Occurrences : Chances(w)' <= Chances(w)
      BY <2>1 DEF Chances
    <2>4. ServesOne'
      BY DEF ServesOne
    <2>5. \A w \in Occurrences : Chances(w)' + touched[w] <= Chances(w) + touched'[w]
      BY <1>1, <2>3, ChancesAre
    <2>6. QED
      BY <2>1, <2>2, <2>4, <2>5, Unborn
  <1>5. ASSUME TickEnds PROVE RegistryInv'
    <2> USE <1>5 DEF TickEnds, Serving
    <2>1. tick' \in Ticks /\ tick'.on = FALSE
      BY DEF NoTick, Ticks, WorkStates, Claimable
    <2>2. RegistryTypes'
      BY <2>1 DEF RegistryInv, RegistryTypes
    <2>3. \A w \in Occurrences : Chances(w)' <= Chances(w)
      BY <2>1 DEF Chances
    <2>4. ServesOne'
      BY DEF ServesOne
    <2>5. \A w \in Occurrences : Chances(w)' + touched[w] <= Chances(w) + touched'[w]
      BY <1>1, <2>3, ChancesAre
    <2>6. QED
      BY <2>2, <2>4, <2>5, Unborn
  <1>6. ASSUME NEW w \in Occurrences, Claimed(w) PROVE RegistryInv'
    <2>1. /\ tick.on /\ making \cap Occurrences = {} /\ tick.read[w] \in Claimable
          /\ tick' = [tick EXCEPT !.read[w] = "asked", !.served = @ \cup {w}]
          /\ work' = Stored(tick'.read) /\ making' = making \cup {w}
          /\ UNCHANGED <<up, faults, registry, stop, born, touched>>
      BY <1>6 DEF Claimed, Serving
    <2>2. /\ tick' \in Ticks /\ tick'.on /\ tick'.read \in [Occurrences -> WorkStates]
          /\ tick'.read[w] = "asked"
          /\ \A v \in Occurrences \ {w} : tick'.read[v] = tick.read[v]
      BY <1>1, <2>1 DEF Ticks, WorkStates, Claimable
    <2>3. /\ work' \in [Works -> WorkStates]
          /\ \A v \in Occurrences : work'[v] = tick'.read[v]
          /\ \A v \in Works \ Occurrences : work'[v] = work[v]
      BY <2>1, <2>2, StoredIs
    <2>4. RegistryTypes'
      BY <1>1, <1>2, <2>1, <2>2, <2>3 DEF RegistryInv, RegistryTypes
    <2>5. Chances(w) = 1 /\ Chances(w)' = 1
      <3>1. w \notin making /\ w \in making' /\ work'[w] = "asked"
        BY <2>1, <2>2, <2>3
      <3>2. QED
        BY <2>1, <3>1 DEF Chances
    <2>6. ASSUME NEW v \in Occurrences, v # w PROVE Chances(v)' <= Chances(v)
      <3>1. v \notin making /\ v \notin making' /\ work'[v] = tick.read[v]
            /\ tick'.read[v] = tick.read[v]
        BY <2>1, <2>2, <2>3, <2>6
      <3>2. QED
        BY <2>1, <2>2, <3>1 DEF Chances
    <2>7. ServesOne'
      BY <2>1, <2>2 DEF ServesOne
    <2>8. ASSUME NEW v \in Occurrences
          PROVE  Chances(v)' + touched[v] <= Chances(v) + touched'[v]
      <3>1. Chances(v)' <= Chances(v) /\ Chances(v) \in Nat /\ Chances(v)' \in Nat
        BY <2>5, <2>6, ChancesAre
      <3>2. touched'[v] = touched[v] /\ touched[v] \in Nat
        BY <1>1, <2>1
      <3>3. QED
        BY <3>1, <3>2
    <2>9. \A v \in Works \ Occurrences : v \in making' <=> v \in making
      BY <2>1
    <2>10. UNCHANGED <<faults, registry, born, stop>>
      BY <2>1
    <2>11. QED
      BY <2>3, <2>4, <2>7, <2>8, <2>9, <2>10, Unborn
  <1>7. QED
    BY <1>3, <1>4, <1>5, <1>6

(* An operation on a schedule gives it one chance at most.                 *)
LEMMA TouchesInv ==
  ASSUME RegistryInv, NEW w \in Occurrences, NEW state \in {"off", "new"},
         Touches(w, state)
  PROVE  RegistryInv'
  <1> USE DEF Touches
  <1>1. /\ touched \in [Occurrences -> 0 .. MaxTouched] /\ MaxTouched \in Nat /\ w \in Works
        /\ work \in [Works -> WorkStates] /\ state \in WorkStates
    BY SubagentsAssumption DEF RegistryInv, RegistryTypes, Works, WorkStates, Claimable
  <1>2. /\ touched' \in [Occurrences -> 0 .. MaxTouched] /\ touched'[w] = touched[w] + 1
        /\ \A v \in Occurrences \ {w} : touched'[v] = touched[v]
        /\ work' \in [Works -> WorkStates] /\ work'[w] = state
        /\ \A v \in Works \ {w} : work'[v] = work[v]
    BY <1>1
  <1>3. RegistryTypes'
    BY <1>2 DEF RegistryInv, RegistryTypes
  <1>4. ASSUME NEW v \in Occurrences
        PROVE  Chances(v)' + touched[v] <= Chances(v) + touched'[v]
    <2>1. touched[v] \in Nat /\ Chances(v) \in Nat /\ Chances(v)' \in Nat /\ v \in Works
      BY <1>1, ChancesAre
    <2>2. CASE v = w
      <3>1. Chances(v)' <= Chances(v) + 1
        BY <1>2, <2>2 DEF Chances
      <3>2. QED
        BY <1>2, <2>1, <2>2, <3>1
    <2>3. CASE v # w
      <3>1. Chances(v)' = Chances(v)
        BY <1>2, <2>1, <2>3 DEF Chances
      <3>2. QED
        BY <1>2, <2>1, <2>3, <3>1
    <2>4. QED
      BY <2>2, <2>3
  <1>5. ServesOne'
    BY DEF RegistryInv, ChildrenCounted, ServesOne
  <1>6. QED
    BY <1>2, <1>3, <1>4, <1>5, Unborn

(* How a creation that is over is recorded: a schedule that was turned off *)
(* meanwhile loses one of two chances, any other its only one.             *)
LEMMA FinishedIs ==
  ASSUME RegistryInv, NEW w \in making, Finished(w), making' = making \ {w}
  PROVE  /\ work' \in [Works -> WorkStates] /\ tick' \in Ticks
         /\ \A v \in Works \ (Occurrences \cup {w}) : work'[v] = work[v]
         /\ w \notin Occurrences => work'[w] = "done"
         /\ tick'.on = tick.on
         /\ \A v \in Occurrences \ {w} : Chances(v)' <= Chances(v)
         /\ w \in Occurrences => Chances(w)' + 1 <= Chances(w)
  <1> USE DEF Finished
  <1>1. /\ tick \in Ticks /\ work \in [Works -> WorkStates] /\ w \in Works
        /\ tick.read \in [Occurrences -> WorkStates] /\ "done" \in WorkStates
        /\ \A v \in Occurrences : v \in Works
    BY DEF RegistryInv, RegistryTypes, Ticks, Works, WorkStates
  <1>2. CASE w \in Occurrences /\ work[w] = "off"
    <2>1. \A v \in Occurrences \ {w} : Chances(v)' = Chances(v)
      BY <1>2 DEF Chances
    <2>2. Chances(w) = 2 /\ Chances(w)' \in 0 .. 1
      BY <1>2 DEF Chances
    <2>3. \A v \in Occurrences \ {w} : Chances(v)' <= Chances(v)
      BY <2>1, ChancesAre
    <2>4. QED
      BY <1>1, <1>2, <2>2, <2>3
  <1>3. CASE w \in Occurrences /\ work[w] # "off"
    <2>1. /\ tick' \in Ticks /\ tick'.on = tick.on /\ tick'.read \in [Occurrences -> WorkStates]
          /\ tick'.read[w] = "done"
          /\ \A v \in Occurrences \ {w} : tick'.read[v] = tick.read[v]
      BY <1>1, <1>3 DEF Ticks
    <2>2. work' = Stored(tick'.read)
      BY <1>3
    <2>3. /\ work' \in [Works -> WorkStates]
          /\ \A v \in Occurrences : work'[v] = tick'.read[v]
          /\ \A v \in Works \ Occurrences : work'[v] = work[v]
      BY <2>1, <2>2, StoredIs
    <2>4. /\ tick.on /\ \A v \in Occurrences : v \in making => v = w
      BY <1>3 DEF RegistryInv, ChildrenCounted, ServesOne
    <2>5. ASSUME NEW v \in Occurrences \ {w} PROVE Chances(v)' <= Chances(v)
      <3>1. v \notin making /\ v \notin making'
        BY <2>4
      <3>2. QED
        BY <2>1, <2>3, <2>4, <3>1 DEF Chances
    <2>6. Chances(w)' = 0 /\ Chances(w) = 1
      BY <1>3, <2>1, <2>3 DEF Chances, Claimable
    <2>7. QED
      BY <1>3, <2>1, <2>3, <2>5, <2>6
  <1>4. CASE w \notin Occurrences
    <2>1. /\ work' \in [Works -> WorkStates] /\ work'[w] = "done" /\ tick' = tick
          /\ \A v \in Works \ {w} : work'[v] = work[v]
      BY <1>1, <1>4
    <2>2. \A v \in Occurrences : Chances(v)' = Chances(v)
      BY <1>1, <1>4, <2>1 DEF Chances
    <2>3. \A v \in Occurrences \ {w} : Chances(v)' <= Chances(v)
      BY <2>2, ChancesAre
    <2>4. QED
      BY <1>1, <1>4, <2>1, <2>3
  <1>5. QED
    BY <1>2, <1>3, <1>4

(* An answer ends the creation, and brings one child at most.              *)
LEMMA CreateAnswersInv ==
  ASSUME RegistryInv, NEW w \in Works, NEW out \in {"made", "lost", "refused"},
         CreateAnswers(w, out)
  PROVE  RegistryInv'
  <1> USE DEF CreateAnswers
  <1>1. born' = born \/ Bears(w)
    OBVIOUS
  <1>2. /\ born' \in [Works -> 0 .. MaxBorn]
        /\ \A v \in Works : born[v] <= born'[v]
        /\ \A v \in Works \ {w} : born'[v] = born[v]
        /\ born'[w] <= born[w] + 1
    <2>1. CASE born' = born
      BY <2>1, SubagentsAssumption DEF RegistryInv, RegistryTypes
    <2>2. CASE Bears(w)
      <3>1. born[w] + 1 \in Nat
        BY SubagentsAssumption DEF RegistryInv, RegistryTypes
      <3>2. QED
        BY <2>2, <3>1, BearsOne
    <2>3. QED
      BY <1>1, <2>1, <2>2
  <1>3. RegistryTypes'
    BY <1>2, FinishedIs DEF RegistryInv, RegistryTypes
  <1>4. RegistriesBorn'
    <2>1. CASE registry' = registry
      BY <1>2, <2>1, RegistriesTake
    <2>2. CASE Bears(w) /\ registry' = Registered(NextChild(w))
      BY <1>2, <2>2, BearsOne, RegistriesTake
    <2>3. QED
      BY <2>1, <2>2
  <1>5. ChildrenCounted'
    <2>1. \A v \in Works : born[v] \in Nat /\ born'[v] \in Nat /\ faults \in Nat
      <3>1. born \in [Works -> 0 .. MaxBorn] /\ MaxBorn \in Nat /\ faults \in Nat
        BY SubagentsAssumption DEF RegistryInv, RegistryTypes
      <3>2. QED
        BY <1>2, <3>1
    <2>2. SinglesCounted'
      <3>1. ASSUME NEW v \in Works \ Occurrences, v # w
            PROVE  /\ born'[v] = born[v] /\ work'[v] = work[v]
                   /\ v \in making' => v \in making
        BY <1>2, <3>1, FinishedIs
      <3>2. ASSUME w \notin Occurrences
            PROVE  born'[w] <= 1 /\ w \notin making' /\ work'[w] = "done"
        BY <1>2, <2>1, <3>2, FinishedIs DEF RegistryInv, ChildrenCounted, SinglesCounted
      <3>3. QED
        BY <3>1, <3>2 DEF RegistryInv, ChildrenCounted, SinglesCounted
    <2>3. ASSUME NEW v \in Occurrences
          PROVE  born'[v] + Chances(v)' <= 1 + faults' + touched'[v]
      <3>1. /\ born[v] + Chances(v) <= 1 + faults + touched[v] /\ v \in Works
            /\ touched[v] \in Nat /\ Chances(v) \in Nat /\ Chances(v)' \in Nat
        BY ChancesAre, SubagentsAssumption
        DEF RegistryInv, RegistryTypes, ChildrenCounted, ChancesCounted
      <3>2. CASE v = w
        BY <1>2, <2>1, <3>1, <3>2, FinishedIs
      <3>3. CASE v # w
        BY <1>2, <2>1, <3>1, <3>3, FinishedIs
      <3>4. QED
        BY <3>2, <3>3
    <2>4. ServesOne'
      BY FinishedIs DEF RegistryInv, ChildrenCounted, ServesOne
    <2>5. QED
      BY <2>2, <2>3, <2>4 DEF ChildrenCounted, ChancesCounted
  <1>6. QED
    BY <1>3, <1>4, <1>5 DEF RegistryInv

(* A stop writes back a registry it read, and with it a child it read of.  *)
LEMMA ReleasesInv ==
  ASSUME RegistryInv, NEW k \in Stoppers, stop[k].at # "idle", Releases(k),
         UNCHANGED <<up, faults, work, making, born, tick, touched>>
  PROVE  RegistryInv'
  <1> USE DEF Releases
  <1>1. /\ stop' \in [Stoppers -> Stops] /\ stop'[k].at = "idle"
        /\ \A j \in Stoppers \ {k} : stop'[j] = stop[j]
    BY NoStopType DEF RegistryInv, RegistryTypes
  <1>2. RegistryTypes' /\ ChildrenCounted'
    BY <1>1, QuietCounts DEF RegistryInv, RegistryTypes
  <1>3. OnlyBorn(stop[k].read) /\ stop[k].child \in Children /\ Born(stop[k].child)
    BY DEF RegistryInv, RegistriesBorn
  <1>4. "released" \in RegistryStates
    BY DEF RegistryStates
  <1>5. OnlyBorn(registry)'
    BY <1>3, <1>4 DEF OnlyBorn, Born
  <1>6. \A j \in Stoppers \ {k} : stop[j].at # "idle" =>
          stop[j].child \in Children /\ OnlyBorn(stop[j].read)' /\ Born(stop[j].child)'
    BY <1>1 DEF RegistryInv, RegistriesBorn, OnlyBorn, Born
  <1>7. RegistriesBorn'
    BY <1>1, <1>5, <1>6 DEF RegistriesBorn, OnlyBorn, Born
  <1>8. QED
    BY <1>2, <1>7 DEF RegistryInv

(* No step of a stop disturbs the invariant.                               *)
LEMMA StopInv ==
  ASSUME RegistryInv, NEW k \in Stoppers,
         \/ \E c \in Children : StopAsks(k, c)
         \/ \E state \in {"quiet", "working", "error"} : StopObserves(k, state)
         \/ \E ok \in BOOLEAN : StopInterrupts(k, ok)
  PROVE  RegistryInv'
  <1>1. ASSUME NEW c \in Children, StopAsks(k, c) PROVE RegistryInv'
    <2> USE <1>1 DEF StopAsks
    <2>1. OnlyBorn(registry) /\ Born(c)
      BY DEF RegistryInv, RegistriesBorn, OnlyBorn
    <2>2. [at |-> "status", child |-> c, read |-> registry] \in Stops
      BY <2>1 DEF Stops, OnlyBorn
    <2>3. /\ stop' \in [Stoppers -> Stops]
          /\ stop'[k] = [at |-> "status", child |-> c, read |-> registry]
          /\ \A j \in Stoppers \ {k} : stop'[j] = stop[j]
      BY <2>2 DEF RegistryInv, RegistryTypes
    <2>4. RegistryTypes' /\ ChildrenCounted'
      BY <2>3, QuietCounts DEF RegistryInv, RegistryTypes
    <2>5. RegistriesBorn'
      BY <2>1, <2>3 DEF RegistryInv, RegistriesBorn, OnlyBorn, Born
    <2>6. QED
      BY <2>4, <2>5 DEF RegistryInv
  <1>2. ASSUME UNCHANGED <<up, faults, work, making, born, tick, touched, registry>>,
               \/ stop' = [stop EXCEPT ![k] = NoStop]
               \/ stop[k].at = "status" /\ stop' = [stop EXCEPT ![k].at = "interrupt"]
        PROVE  RegistryInv'
    <2>1. ChildrenCounted'
      BY <1>2, QuietCounts
    <2>2. ASSUME stop' = [stop EXCEPT ![k] = NoStop]
          PROVE  stop' \in [Stoppers -> Stops] /\ RegistriesBorn'
      BY <1>2, <2>2, NoStopType DEF RegistryInv, RegistryTypes, RegistriesBorn, OnlyBorn, Born
    <2>3. ASSUME stop[k].at = "status", stop' = [stop EXCEPT ![k].at = "interrupt"]
          PROVE  stop' \in [Stoppers -> Stops] /\ RegistriesBorn'
      <3>1. /\ stop'[k] \in Stops
            /\ stop'[k].child = stop[k].child /\ stop'[k].read = stop[k].read
            /\ stop[k].at # "idle"
        BY <2>3 DEF RegistryInv, RegistryTypes, Stops
      <3>2. /\ stop' \in [Stoppers -> Stops]
            /\ \A j \in Stoppers \ {k} : stop'[j] = stop[j]
        BY <2>3, <3>1 DEF RegistryInv, RegistryTypes
      <3>3. QED
        BY <1>2, <3>1, <3>2 DEF RegistryInv, RegistriesBorn, OnlyBorn, Born
    <2>4. QED
      BY <1>2, <2>1, <2>2, <2>3 DEF RegistryInv, RegistryTypes
  <1>3. ASSUME NEW state, StopObserves(k, state) PROVE RegistryInv'
    BY <1>2, <1>3, ReleasesInv DEF StopObserves
  <1>4. ASSUME NEW ok, StopInterrupts(k, ok) PROVE RegistryInv'
    BY <1>2, <1>4, ReleasesInv DEF StopInterrupts
  <1>5. QED
    BY <1>1, <1>3, <1>4

(* A crash forgets all tasks; creations on their way bear one child each.  *)
LEMMA RegistryCrashInv == RegistryInv /\ RegistryCrash => RegistryInv'
  <1> SUFFICES ASSUME RegistryInv, RegistryCrash PROVE RegistryInv'
    OBVIOUS
  <1> USE DEF RegistryCrash, Forgets
  <1>1. PICK B \in SUBSET {w \in making : born[w] < MaxBorn} :
          /\ born' = [w \in Works |-> IF w \in B THEN born[w] + 1 ELSE born[w]]
          /\ \/ UNCHANGED registry
             \/ \E w \in B : registry' = Registered(NextChild(w))
    OBVIOUS
  <1>2. /\ born \in [Works -> 0 .. MaxBorn] /\ MaxBorn \in Nat /\ faults \in Nat
        /\ B \subseteq making /\ making \subseteq Works
    BY SubagentsAssumption DEF RegistryInv, RegistryTypes
  <1>3. /\ born' \in [Works -> 0 .. MaxBorn]
        /\ \A w \in Works : born[w] <= born'[w] /\ born'[w] <= born[w] + 1
        /\ \A w \in Works \ making : born'[w] = born[w]
        /\ \A w \in B : born'[w] = born[w] + 1
    BY <1>1, <1>2
  <1>4. RegistryTypes'
    <2>1. stop' \in [Stoppers -> Stops]
      BY NoStopType
    <2>2. faults' \in Nat /\ making' \subseteq Works
      BY <1>2
    <2>3. /\ up' \in BOOLEAN /\ work' \in [Works -> WorkStates]
          /\ tick' \in Ticks /\ touched' \in [Occurrences -> 0 .. MaxTouched]
      BY DEF RegistryInv, RegistryTypes, NoTick, Ticks, WorkStates, Claimable
    <2>4. QED
      BY <1>3, <2>1, <2>2, <2>3 DEF RegistryTypes
  <1>5. RegistriesBorn'
    <2>1. CASE UNCHANGED registry
      BY <1>3, <2>1, RegistriesTake
    <2>2. ASSUME NEW w \in B, registry' = Registered(NextChild(w))
          PROVE  RegistriesBorn'
      <3>1. w \in Works /\ born[w] < MaxBorn /\ BornNext(NextChild(w))
        BY <1>2, <1>3 DEF BornNext, NextChild
      <3>2. QED
        BY <1>3, <2>2, <3>1, RegistriesTake
    <2>3. QED
      BY <1>1, <2>1, <2>2
  <1>6. ChildrenCounted'
    <2>1. faults' = faults + 1 /\ making' = {} /\ work' = work /\ touched' = touched
      OBVIOUS
    <2>2. \A w \in Works : born[w] \in Nat /\ born'[w] \in Nat
      BY <1>2, <1>3
    <2>3. SinglesCounted'
      BY <1>3, <2>1, <2>2 DEF RegistryInv, ChildrenCounted, SinglesCounted
    <2>4. ASSUME NEW w \in Occurrences
          PROVE  born'[w] + Chances(w)' <= 1 + faults' + touched'[w]
      <3>1. /\ born[w] + Chances(w) <= 1 + faults + touched[w] /\ w \in Works
            /\ touched[w] \in Nat /\ Chances(w) \in Nat /\ Chances(w)' \in Nat
        BY ChancesAre, SubagentsAssumption
        DEF RegistryInv, RegistryTypes, ChildrenCounted, ChancesCounted
      <3>2. CASE w \in making
        <4>1. Chances(w) \in 1 .. 2 /\ Chances(w)' \in 0 .. 1
          BY <2>1, <3>2 DEF Chances
        <4>2. QED
          BY <1>2, <1>3, <2>1, <2>2, <3>1, <4>1
      <3>3. CASE w \notin making
        <4>1. Chances(w)' <= Chances(w)
          BY <2>1, <3>3 DEF Chances, NoTick
        <4>2. QED
          BY <1>2, <1>3, <2>1, <2>2, <3>1, <3>3, <4>1
      <3>4. QED
        BY <3>2, <3>3
    <2>5. ServesOne'
      BY <2>1 DEF ServesOne
    <2>6. QED
      BY <2>3, <2>4, <2>5 DEF ChildrenCounted, ChancesCounted
  <1>7. QED
    BY <1>4, <1>5, <1>6 DEF RegistryInv

(* Every step of the registry, crashes included, keeps the invariant.      *)
LEMMA RegistryStepInv == RegistryInv /\ [RegistryNext]_registryVars => RegistryInv'
  <1> SUFFICES ASSUME RegistryInv, [RegistryNext]_registryVars PROVE RegistryInv'
    OBVIOUS
  <1>1. CASE RegistryStep
    <2>1. \A w \in Requests \cup Occurrences : w \in Works
      BY DEF Works
    <2>2. ASSUME \/ \E w \in Requests : Asks(w)
                 \/ TickStarts \/ OtherServed \/ TickEnds
                 \/ \E w \in Occurrences :
                      Claimed(w) \/ Touches(w, "off") \/ Touches(w, "new")
          PROVE  RegistryInv'
      BY <2>2, AsksInv, TickInv, TouchesInv
    <2>3. ASSUME NEW w \in Requests \cup Occurrences,
                 NEW out \in {"made", "lost", "refused"}, CreateAnswers(w, out)
          PROVE  RegistryInv'
      BY <2>1, <2>3, CreateAnswersInv
    <2>4. QED
      BY <1>1, <2>2, <2>3, StopInv DEF RegistryStep
  <1>2. CASE RegistryCrash
    BY <1>2, RegistryCrashInv
  <1>3. CASE RegistryRestart \/ UNCHANGED registryVars
    <2>1. RegistryTypes' /\ ChildrenCounted'
      BY <1>3, QuietCounts DEF RegistryInv, RegistryTypes, RegistryRestart, registryVars
    <2>2. RegistriesBorn'
      BY <1>3, QuietRegistries DEF RegistryRestart, registryVars
    <2>3. QED
      BY <2>1, <2>2 DEF RegistryInv
  <1>4. QED
    BY <1>1, <1>2, <1>3 DEF RegistryNext

(* Registries and counts of children stay consistent for good.             *)
THEOREM RegistryInvariance == RegistrySpec => []RegistryInv
  BY RegistryInitInv, RegistryStepInv, PTL DEF RegistrySpec, RegistryNext

(* No purpose has a child beyond its chances.                              *)
LEMMA CountedOnce == RegistryInv => OneChild
  <1>1. ASSUME RegistryInv, NEW w \in Works
        PROVE  born[w] <= 1 + (IF w \in Occurrences THEN faults + touched[w] ELSE 0)
    <2>1. CASE w \in Occurrences
      <3>1. /\ born[w] \in Nat /\ Chances(w) \in Nat /\ faults \in Nat /\ touched[w] \in Nat
        BY <1>1, <2>1, ChancesAre, SubagentsAssumption DEF RegistryInv, RegistryTypes
      <3>2. born[w] + Chances(w) <= 1 + faults + touched[w]
        BY <1>1, <2>1 DEF RegistryInv, ChildrenCounted, ChancesCounted
      <3>3. QED
        BY <2>1, <3>1, <3>2
    <2>2. CASE w \notin Occurrences
      BY <1>1, <2>2 DEF RegistryInv, ChildrenCounted, SinglesCounted
    <2>3. QED
      BY <2>1, <2>2
  <1>2. QED
    BY <1>1 DEF OneChild

(* A purpose gets one child, a schedule one more for each death of the     *)
(* daemon and for each operation on this schedule, whatever happens to its *)
(* neighbours and whatever the answers to its creations were.              *)
THEOREM ChildOnce == RegistrySpec => []OneChild
  BY CountedOnce, RegistryInvariance, PTL
(* The step behind RegistryForgets.                                        *)
Forgetting ==
  \A c \in Children :
    Knows(registry'[c]) < Knows(registry[c]) =>
      \E k \in Stoppers : /\ stop[k].at # "idle" /\ stop'[k].at = "idle"
                          /\ stop[k].child # c
                          /\ stop[k].read[c] = registry'[c]

(* Taking in a child forgets nothing.                                      *)
LEMMA TakingForgets ==
  ASSUME RegistryInv, NEW w \in Works, born[w] < MaxBorn, registry' = Registered(NextChild(w))
  PROVE  Forgetting
  <1>1. ASSUME NEW c \in Children PROVE ~(Knows(registry'[c]) < Knows(registry[c]))
    <2>1. CASE c = NextChild(w)
      <3>1. registry[c] = "none" /\ registry'[c] = "active"
        BY <2>1, NextIsNew
      <3>2. QED
        BY <3>1 DEF Knows
    <2>2. CASE c # NextChild(w)
      <3>1. registry'[c] = registry[c]
        BY <2>2, NextIsNew
      <3>2. QED
        BY <3>1 DEF Knows
    <2>3. QED
      BY <2>1, <2>2
  <1>2. QED
    BY <1>1 DEF Forgetting

(* A step that leaves the registry alone forgets nothing.                  *)
LEMMA QuietForgets ==
  ASSUME UNCHANGED registry
  PROVE  Forgetting
  <1>1. \A c \in Children : ~(Knows(registry'[c]) < Knows(registry[c]))
    BY DEF Knows
  <1>2. QED
    BY <1>1 DEF Forgetting

(* A stop forgets what it had not read, but of its own child nothing.      *)
LEMMA ReleasingForgets ==
  ASSUME RegistryInv, NEW k \in Stoppers, stop[k].at # "idle", Releases(k)
  PROVE  Forgetting
  <1>1. stop[k].read \in [Children -> RegistryStates] /\ stop[k].child \in Children
    BY DEF RegistryInv, RegistriesBorn, OnlyBorn
  <1>2. stop'[k].at = "idle"
    BY NoStopType DEF RegistryInv, RegistryTypes, Releases
  <1>3. registry \in [Children -> RegistryStates]
    BY DEF RegistryInv, RegistriesBorn, OnlyBorn
  <1>4. ASSUME NEW c \in Children, Knows(registry'[c]) < Knows(registry[c])
        PROVE  stop[k].child # c /\ stop[k].read[c] = registry'[c]
    <2>1. stop[k].child # c
      <3>1. SUFFICES ASSUME stop[k].child = c PROVE FALSE
        OBVIOUS
      <3>2. registry'[c] = "released" /\ registry[c] \in {"none", "active", "released"}
        BY <1>1, <1>3, <3>1 DEF Releases, RegistryStates
      <3>3. QED
        BY <1>4, <3>2 DEF Knows
    <2>2. QED
      BY <1>1, <2>1 DEF Releases
  <1>5. QED
    BY <1>2, <1>4 DEF Forgetting

(* Every step that forgets is the write-back of a stop.                    *)
LEMMA StepForgets == RegistryInv /\ [RegistryNext]_registryVars => Forgetting \/ UNCHANGED registryVars
  <1> SUFFICES ASSUME RegistryInv, RegistryNext PROVE Forgetting
    OBVIOUS
  <1>1. CASE RegistryStep
    <2>1. ASSUME \/ \E w \in Requests : Asks(w)
                 \/ TickStarts \/ OtherServed \/ TickEnds
                 \/ \E w \in Occurrences :
                      Claimed(w) \/ Touches(w, "off") \/ Touches(w, "new")
          PROVE  Forgetting
      BY <2>1, QuietForgets
         DEF Asks, TickStarts, OtherServed, TickEnds, Claimed, Touches
    <2>2. ASSUME NEW w \in Requests \cup Occurrences,
                 NEW out \in {"made", "lost", "refused"}, CreateAnswers(w, out)
          PROVE  Forgetting
      <3>1. w \in Works
        BY DEF Works
      <3>2. CASE UNCHANGED registry
        BY <3>2, QuietForgets
      <3>3. CASE Bears(w) /\ registry' = Registered(NextChild(w))
        BY <3>1, <3>3, TakingForgets DEF Bears
      <3>4. QED
        BY <2>2, <3>2, <3>3 DEF CreateAnswers
    <2>3. ASSUME NEW k \in Stoppers, NEW c \in Children, StopAsks(k, c)
          PROVE  Forgetting
      BY <2>3, QuietForgets DEF StopAsks
    <2>4. ASSUME NEW k \in Stoppers, NEW state, StopObserves(k, state)
          PROVE  Forgetting
      BY <2>4, QuietForgets, ReleasingForgets DEF StopObserves
    <2>5. ASSUME NEW k \in Stoppers, NEW ok, StopInterrupts(k, ok)
          PROVE  Forgetting
      BY <2>5, QuietForgets, ReleasingForgets DEF StopInterrupts
    <2>6. QED
      BY <1>1, <2>1, <2>2, <2>3, <2>4, <2>5 DEF RegistryStep
  <1>2. CASE RegistryCrash
    <2>1. PICK B \in SUBSET {w \in making : born[w] < MaxBorn} :
            \/ UNCHANGED registry
            \/ \E w \in B : registry' = Registered(NextChild(w))
      BY <1>2 DEF RegistryCrash
    <2>2. ASSUME NEW w \in B, registry' = Registered(NextChild(w)) PROVE Forgetting
      BY <2>2, TakingForgets DEF RegistryInv, RegistryTypes
    <2>3. QED
      BY <2>1, <2>2, QuietForgets
  <1>3. CASE RegistryRestart
    BY <1>3, QuietForgets DEF RegistryRestart
  <1>4. QED
    BY <1>1, <1>2, <1>3 DEF RegistryNext

(* The registry forgets a child only in the write-back of a stop of        *)
(* another one.                                                            *)
THEOREM OnlyStopsForget == RegistrySpec => RegistryForgets
  <1>1. RegistryInv /\ [RegistryNext]_registryVars => [Forgetting]_registryVars
    BY StepForgets
  <1>2. QED
    BY <1>1, RegistryInvariance, PTL DEF RegistrySpec, RegistryForgets, Forgetting, RegistryNext
-----------------------------------------------------------------------------
(* The reviews that count against a goal's budget: as many, at most, as    *)
(* its counter says, which the claims keep below the budget.               *)
Charged(g) ==
  {r \in Reviews : r[2] \notin torn /\
     r[1] = g /\ store.review[r].state \notin {"none", "suppressed"}}

CountHolds ==
  \A g \in Goals :
    /\ IsFiniteSet(Charged(g)) /\ Cardinality(Charged(g)) <= store.count[g]
    /\ store.count[g] <= Budget[g]

(* The record of an interruption waits for the Stop of its turn.           *)
InterruptWaits ==
  \A t \in Turns : <<"interrupt", t>> \in store.seen =>
    t \in store.suppressed \/ <<"stop", t>> \in store.seen \/ t \in torn

(* Feedback was told of a completed review, and no reviewer was asked for  *)
(* before a review was claimed.                                            *)
ToldCompleted == \A r \in told : store.review[r].state \in {"completed", "failed"}
Unasked == \A r \in Reviews : store.review[r].state = "none" => work[r] = "new"

Inv ==
  /\ TypeOK /\ RegistryInv /\ PendingHasTask /\ CountHolds
  /\ InterruptWaits /\ ToldCompleted /\ Unasked
-----------------------------------------------------------------------------
ReviewRecords == [state : ReviewStates, verdict : Verdicts]

(* The store with another state of one review.                             *)
LEMMA WithReviewIs ==
  ASSUME NEW d \in Stores, NEW r \in Reviews, NEW state \in ReviewStates
  PROVE  LET x == WithReview(d, r, state)
         IN /\ x \in Stores /\ x.enabled = d.enabled /\ x.count = d.count
            /\ x.suppressed = d.suppressed /\ x.seen = d.seen
            /\ x.review[r] \in ReviewRecords
            /\ x.review[r].state = state /\ x.review[r].verdict = d.review[r].verdict
            /\ \A q \in Reviews \ {r} : x.review[q] = d.review[q]
  <1> DEFINE v == [d.review[r] EXCEPT !.state = state]
             f == [d.review EXCEPT ![r] = v]
  <1>1. d.review \in [Reviews -> ReviewRecords] /\ d.review[r] \in ReviewRecords
    BY DEF Stores, ReviewRecords
  <1>2. v \in ReviewRecords /\ v.state = state /\ v.verdict = d.review[r].verdict
    BY <1>1 DEF ReviewRecords
  <1>3. WithReview(d, r, state) = [d EXCEPT !.review = f]
    BY <1>1 DEF WithReview, Stores
  <1> HIDE DEF v
  <1>4. f \in [Reviews -> ReviewRecords] /\ f[r] = v /\ \A q \in Reviews \ {r} : f[q] = d.review[q]
    BY <1>1, <1>2
  <1> HIDE DEF f
  <1>5. QED
    BY <1>2, <1>3, <1>4 DEF Stores, ReviewRecords

(* The next review of a goal on its counter.                               *)
LEMMA CountedIs ==
  ASSUME NEW d \in Stores, NEW r \in Reviews
  PROVE  LET x == Counted(d, r)
         IN /\ x \in Stores /\ x.enabled = d.enabled /\ x.review = d.review
            /\ x.suppressed = d.suppressed /\ x.seen = d.seen
            /\ x.count[r[1]] = d.count[r[1]] + 1
            /\ \A g \in Goals \ {r[1]} : x.count[g] = d.count[g]
  <1> DEFINE f == [d.count EXCEPT ![r[1]] = @ + 1]
  <1>1. d.count \in [Goals -> Nat] /\ r[1] \in Goals
    BY GoalReviewAssumption DEF Stores
  <1>2. Counted(d, r) = [d EXCEPT !.count = f]
    BY <1>1 DEF Counted, Stores
  <1>3. /\ f \in [Goals -> Nat] /\ f[r[1]] = d.count[r[1]] + 1
        /\ \A g \in Goals \ {r[1]} : f[g] = d.count[g]
    BY <1>1
  <1> HIDE DEF f
  <1>4. QED
    BY <1>2, <1>3 DEF Stores

(* What a write of a Stop leaves of the store, the claim of the reviews C  *)
(* (one at most) among it.                                                 *)
Written(x, C, t) ==
  /\ x \in Stores /\ x.enabled = store.enabled /\ x.seen = store.seen
  /\ x.suppressed \in {store.suppressed, store.suppressed \ {t, "*"}}
  /\ \A r \in Reviews \ C :
       x.review[r] = store.review[r]
       \/ (store.review[r].state = "none" /\ x.review[r].state = "suppressed")
  /\ C \in SUBSET Reviews /\ \A r, q \in C : r = q
  /\ \A r \in C :
       /\ r[2] = t /\ store.review[r].state = "none"
       /\ x.review[r].state \in {"claimed", "failed"}
       /\ t \notin store.suppressed
       /\ store.count[r[1]] < Budget[r[1]]
       /\ x.count[r[1]] \in {store.count[r[1]], store.count[r[1]] + 1}
  /\ \A g \in Goals : <<g, t>> \notin C => x.count[g] = store.count[g]

(* A claim does nothing, suppresses a review, or claims it and counts it.  *)
LEMMA ClaimsIs ==
  ASSUME store \in Stores, NEW r \in Reviews, NEW t \in Turns, r[2] = t, t \notin store.suppressed
  PROVE  \/ Claims(store, r) = <<>>
         \/ \E a : Claims(store, r) = <<a>> /\ Written(a, {}, t)
         \/ \E a, b :
              /\ Claims(store, r) = <<a, b>> /\ Written(a, {r}, t) /\ Written(b, {r}, t)
              /\ a.review[r].state = "claimed" /\ b.review = a.review
              /\ b.count[r[1]] = store.count[r[1]] + 1
  <1>0. /\ r[1] \in Goals /\ r = <<r[1], t>> /\ Budget[r[1]] \in Nat
        /\ store.count[r[1]] \in Nat /\ store.suppressed \in {store.suppressed, store.suppressed \ {t, "*"}}
    BY GoalReviewAssumption DEF Stores
  <1>1. CASE store.review[r].state # "none"
    BY <1>1 DEF Claims
  <1>2. CASE store.review[r].state = "none" /\ store.count[r[1]] >= Budget[r[1]]
    <2>1. PICK a : a = WithReview(store, r, "suppressed")
      OBVIOUS
    <2>2. Claims(store, r) = <<a>>
      BY <1>2, <2>1 DEF Claims
    <2>3. "suppressed" \in ReviewStates
      BY DEF ReviewStates
    <2>4. Written(a, {}, t)
      BY <1>0, <1>2, <2>1, <2>3, WithReviewIs DEF Written
    <2>5. QED
      BY <2>2, <2>4
  <1>3. CASE store.review[r].state = "none" /\ ~(store.count[r[1]] >= Budget[r[1]])
    <2>1. PICK a, b : a = WithReview(store, r, "claimed") /\ b = Counted(a, r)
      OBVIOUS
    <2>2. Claims(store, r) = <<a, b>>
      BY <1>3, <2>1 DEF Claims
    <2>3. "claimed" \in ReviewStates
      BY DEF ReviewStates
    <2>4. /\ a \in Stores /\ a.enabled = store.enabled /\ a.count = store.count
          /\ a.suppressed = store.suppressed /\ a.seen = store.seen
          /\ a.review[r].state = "claimed"
          /\ \A q \in Reviews \ {r} : a.review[q] = store.review[q]
      BY <2>1, <2>3, WithReviewIs
    <2>5. /\ b \in Stores /\ b.enabled = a.enabled /\ b.review = a.review
          /\ b.suppressed = a.suppressed /\ b.seen = a.seen
          /\ b.count[r[1]] = a.count[r[1]] + 1
          /\ \A g \in Goals \ {r[1]} : b.count[g] = a.count[g]
      BY <2>1, <2>4, CountedIs
    <2>6. store.count[r[1]] < Budget[r[1]]
      BY <1>0, <1>3
    <2>7. Written(a, {r}, t)
      BY <1>0, <1>3, <2>4, <2>6 DEF Written
    <2>8. Written(b, {r}, t)
      BY <1>0, <1>3, <2>4, <2>5, <2>6 DEF Written
    <2>9. QED
      BY <2>2, <2>4, <2>5, <2>7, <2>8
  <1>4. QED
    BY <1>1, <1>2, <1>3

(* So does a Stop, which may also use up what suppresses its review.       *)
LEMMA OnStopIs ==
  ASSUME store \in Stores, NEW t \in Turns
  PROVE  \/ OnStop(store, t) = <<>>
         \/ \E a : OnStop(store, t) = <<a>> /\ Written(a, {}, t)
         \/ \E r \in Reviews : \E a, b :
              /\ OnStop(store, t) = <<a, b>> /\ Written(a, {r}, t) /\ Written(b, {r}, t)
              /\ a.review[r].state = "claimed" /\ b.review = a.review
              /\ b.count[r[1]] = store.count[r[1]] + 1
  <1>1. CASE closed \/ store.enabled = {}
    BY <1>1 DEF OnStop
  <1>2. CASE ~(closed \/ store.enabled = {}) /\ Suppresses(store, t)
    <2>1. PICK a : a = [store EXCEPT !.suppressed = @ \ {t, "*"}]
      OBVIOUS
    <2>2. OnStop(store, t) = <<a>>
      BY <1>2, <2>1 DEF OnStop
    <2>3. /\ a \in Stores /\ a.enabled = store.enabled /\ a.count = store.count
          /\ a.review = store.review /\ a.seen = store.seen
          /\ a.suppressed = store.suppressed \ {t, "*"}
      BY <2>1 DEF Stores
    <2>4. Written(a, {}, t)
      BY <2>3 DEF Written
    <2>5. QED
      BY <2>2, <2>4
  <1>3. CASE ~(closed \/ store.enabled = {}) /\ ~Suppresses(store, t)
    <2>1. t \notin store.suppressed
      BY <1>3 DEF Suppresses
    <2>2. CASE Found(store) = {}
      BY <1>3, <2>2 DEF OnStop
    <2>3. CASE Found(store) # {}
      <3>1. PICK g : g = CHOOSE x \in Found(store) : TRUE
        OBVIOUS
      <3>2. g \in Goals
        BY <2>3, <3>1 DEF Found, Stores
      <3>3. PICK r : r = <<g, t>>
        OBVIOUS
      <3>4. r \in Reviews /\ r[2] = t
        BY <3>2, <3>3, GoalReviewAssumption
      <3>5. OnStop(store, t) = Claims(store, r)
        BY <1>3, <2>3, <3>1, <3>3 DEF OnStop
      <3>6. \/ Claims(store, r) = <<>>
            \/ \E a : Claims(store, r) = <<a>> /\ Written(a, {}, t)
            \/ \E a, b :
                 /\ Claims(store, r) = <<a, b>> /\ Written(a, {r}, t) /\ Written(b, {r}, t)
                 /\ a.review[r].state = "claimed" /\ b.review = a.review
                 /\ b.count[r[1]] = store.count[r[1]] + 1
        BY <2>1, <3>4, ClaimsIs
      <3>7. QED
        BY <3>4, <3>5, <3>6
    <2>4. QED
      BY <2>2, <2>3
  <1>4. QED
    BY <1>1, <1>2, <1>3

(* A claim whose goal file cannot be read fails.                           *)
LEMMA FailedIs ==
  ASSUME NEW d \in Stores, NEW r \in Reviews
  PROVE  LET x == Failed(d, {r})
         IN /\ x \in Stores /\ x.enabled = d.enabled /\ x.count = d.count
            /\ x.suppressed = d.suppressed /\ x.seen = d.seen
            /\ x.review[r].state = "failed"
            /\ \A q \in Reviews \ {r} : x.review[q] = d.review[q]
  <1> DEFINE f == [q \in Reviews |-> IF q \in {r} THEN [d.review[q] EXCEPT !.state = "failed"]
                                    ELSE d.review[q]]
  <1>1. d.review \in [Reviews -> ReviewRecords]
    BY DEF Stores, ReviewRecords
  <1>2. "failed" \in ReviewStates
    BY DEF ReviewStates
  <1>3. \A v \in ReviewRecords :
          [v EXCEPT !.state = "failed"] \in ReviewRecords /\ [v EXCEPT !.state = "failed"].state = "failed"
    BY <1>2 DEF ReviewRecords
  <1>4. /\ f \in [Reviews -> ReviewRecords] /\ f[r].state = "failed"
        /\ \A q \in Reviews \ {r} : f[q] = d.review[q]
    BY <1>1, <1>3
  <1>5. Failed(d, {r}) = [d EXCEPT !.review = f]
    BY DEF Failed, Stores
  <1> HIDE DEF f
  <1>6. QED
    BY <1>4, <1>5 DEF Stores, ReviewRecords

(* What a Stop does: its writes are done and the hook recorded, or the     *)
(* daemon died after one of them.                                          *)
StopDone(x, C, S, t) ==
  /\ store' = Recorded(x, <<"stop", t>>)
  /\ S \subseteq C
  /\ \A r \in C : /\ x.count[r[1]] = store.count[r[1]] + 1
                  /\ x.review[r].state = IF r \in S THEN "claimed" ELSE "failed"
  /\ run' = [r \in Reviews |-> IF r \in S THEN "create" ELSE run[r]]
  /\ making' = making \cup S
  /\ work' = [p \in Works |-> IF p \in S THEN "asked" ELSE work[p]]
  /\ UNCHANGED <<up, faults, closed, stop, registry, born, tick, touched, torn, left, ops, told>>

StopTorn(x, t) ==
  /\ RegistryCrash
  /\ store' = x /\ Ends
  /\ torn' = torn \cup {t} /\ UNCHANGED <<ops, told>>

(* Every Stop does one of these.                                           *)
LEMMA StopHookIs ==
  ASSUME store \in Stores, NEW t \in Turns, NEW why, StopHook(t, why)
  PROVE  /\ <<"stop", t>> \notin store.seen
         /\ \E x, C : Written(x, C, t) /\ (StopTorn(x, t) \/ \E S : StopDone(x, C, S, t))
  <1>1. PICK claims : claims = IF why = "active" THEN <<>> ELSE OnStop(store, t)
    OBVIOUS
  <1>2. PICK C : C = Fresh(store, claims)
    OBVIOUS
  <1>3. PICK w : w = IF why = "unreadable" /\ C # {} THEN Append(claims, Failed(Last(claims), C))
                     ELSE claims
    OBVIOUS
  <1>4. PICK S : S = IF why = "unreadable" THEN {} ELSE C
    OBVIOUS
  <1> DEFINE done == store' = Recorded(IF w = <<>> THEN store ELSE Last(w), <<"stop", t>>)
             started == /\ run' = [r \in Reviews |-> IF r \in S THEN "create" ELSE run[r]]
                        /\ making' = making \cup S
                        /\ work' = [p \in Works |-> IF p \in S THEN "asked" ELSE work[p]]
                        /\ UNCHANGED <<up, faults, closed, stop, registry, born, tick, touched, torn, left, ops, told>>
  <1>5. /\ <<"stop", t>> \notin store.seen
        /\ \/ done /\ started
           \/ \E k \in DOMAIN w : StopTorn(w[k], t)
    BY <1>1, <1>2, <1>3, <1>4 DEF StopHook, StopTorn
  <1>6. C = {r \in Reviews : store.review[r].state = "none"
                             /\ \E k \in DOMAIN claims : claims[k].review[r].state = "claimed"}
    BY <1>2 DEF Fresh
  <1> HIDE DEF started
  <1>7. CASE claims = <<>>
    <2>1. C = {} /\ w = <<>> /\ S = {}
      BY <1>3, <1>4, <1>6, <1>7
    <2>2. Written(store, {}, t)
      BY DEF Written
    <2>3. done /\ started
      BY <1>5, <2>1
    <2>4. store' = Recorded(store, <<"stop", t>>)
      BY <2>1, <2>3
    <2>5. StopDone(store, {}, {}, t)
      BY <2>1, <2>3, <2>4 DEF StopDone, started
    <2>6. QED
      BY <1>5, <2>2, <2>5
  <1>8. ASSUME NEW a, claims = <<a>>, Written(a, {}, t)
        PROVE  \E x, D : Written(x, D, t) /\ (StopTorn(x, t) \/ \E T : StopDone(x, D, T, t))
    <2>1. DOMAIN claims = {1} /\ claims[1] = a
      BY <1>8
    <2>2. C = {}
      BY <1>6, <1>8, <2>1 DEF Written
    <2>3. S = {} /\ w = <<a>>
      BY <1>3, <1>4, <1>8, <2>2
    <2>4. DOMAIN w = {1} /\ w[1] = a /\ w # <<>> /\ Last(w) = a
      BY <2>3 DEF Last
    <2>5. StopTorn(a, t) \/ (started /\ store' = Recorded(a, <<"stop", t>>))
      BY <1>5, <2>4
    <2>6. StopTorn(a, t) \/ StopDone(a, {}, {}, t)
      BY <2>3, <2>5 DEF StopDone, started
    <2>7. QED
      BY <1>8, <2>6
  <1>9. ASSUME NEW r \in Reviews, NEW a, NEW b, claims = <<a, b>>,
               Written(a, {r}, t), Written(b, {r}, t),
               a.review[r].state = "claimed", b.review = a.review,
               b.count[r[1]] = store.count[r[1]] + 1
        PROVE  \E x, D : Written(x, D, t) /\ (StopTorn(x, t) \/ \E T : StopDone(x, D, T, t))
    <2>1. DOMAIN claims = {1, 2} /\ claims[1] = a /\ claims[2] = b /\ Last(claims) = b
      BY <1>9 DEF Last
    <2>2. C = {r}
      BY <1>6, <1>9, <2>1 DEF Written
    <2>3. CASE why # "unreadable"
      <3>1. S = {r} /\ w = <<a, b>>
        BY <1>3, <1>4, <1>9, <2>2, <2>3
      <3>2. DOMAIN w = {1, 2} /\ w[1] = a /\ w[2] = b /\ w # <<>> /\ Last(w) = b
        BY <3>1 DEF Last
      <3>3. \/ StopTorn(a, t) \/ StopTorn(b, t)
            \/ started /\ store' = Recorded(b, <<"stop", t>>)
        BY <1>5, <3>2
      <3>4. \/ StopTorn(a, t) \/ StopTorn(b, t)
            \/ StopDone(b, {r}, {r}, t)
        BY <1>9, <3>1, <3>3 DEF StopDone, started
      <3>5. QED
        BY <1>9, <3>4
    <2>4. CASE why = "unreadable"
      <3>1. PICK f : f = Failed(b, {r})
        OBVIOUS
      <3>2. S = {} /\ w = Append(<<a, b>>, f)
        <4>1. w = Append(<<a, b>>, f)
          BY <1>3, <1>9, <2>1, <2>2, <2>4, <3>1
        <4>2. S = {}
          BY <1>4, <2>4
        <4>3. QED
          BY <4>1, <4>2
      <3>3. DOMAIN w = {1, 2, 3} /\ w[1] = a /\ w[2] = b /\ w[3] = f /\ w # <<>> /\ Last(w) = f
        <4>1. <<a, b>> \in Seq({a, b, f}) /\ Len(<<a, b>>) = 2
          OBVIOUS
        <4>2. /\ w \in Seq({a, b, f}) /\ w # <<>> /\ Len(w) = 3
              /\ w[1] = a /\ w[2] = b /\ w[3] = f
          BY <3>2, <4>1
        <4>3. DOMAIN w = 1 .. 3
          BY <4>2
        <4>4. QED
          BY <4>2, <4>3 DEF Last
      <3>4. /\ f \in Stores /\ f.enabled = b.enabled /\ f.count = b.count
            /\ f.suppressed = b.suppressed /\ f.seen = b.seen
            /\ f.review[r].state = "failed"
            /\ \A q \in Reviews \ {r} : f.review[q] = b.review[q]
        <4>1. b \in Stores
          BY <1>9 DEF Written
        <4>2. QED
          BY <3>1, <4>1, FailedIs
      <3>5. Written(f, {r}, t)
        BY <1>9, <3>4 DEF Written
      <3>6. \/ StopTorn(a, t) \/ StopTorn(b, t) \/ StopTorn(f, t)
            \/ started /\ store' = Recorded(f, <<"stop", t>>)
        BY <1>5, <3>3
      <3>7. \/ StopTorn(a, t) \/ StopTorn(b, t) \/ StopTorn(f, t)
            \/ StopDone(f, {r}, {}, t)
        BY <1>9, <3>2, <3>4, <3>6 DEF StopDone, started
      <3>8. QED
        BY <1>9, <3>5, <3>7
    <2>5. QED
      BY <2>3, <2>4
  <1>10. \/ claims = <<>>
         \/ \E a : claims = <<a>> /\ Written(a, {}, t)
         \/ \E r \in Reviews : \E a, b :
              /\ claims = <<a, b>> /\ Written(a, {r}, t) /\ Written(b, {r}, t)
              /\ a.review[r].state = "claimed" /\ b.review = a.review
              /\ b.count[r[1]] = store.count[r[1]] + 1
    BY <1>1, OnStopIs
  <1>11. QED
    BY <1>5, <1>7, <1>8, <1>9, <1>10
-----------------------------------------------------------------------------
(* A goal's counter bounds what counts against its budget as long as no    *)
(* review is claimed but in a turn that is torn.                           *)
LEMMA CountStays ==
  ASSUME CountHolds, store \in Stores, NEW g \in Goals, torn \subseteq torn',
         \/ store'.count[g] = store.count[g]
         \/ store'.count[g] = store.count[g] + 1 /\ store.count[g] < Budget[g],
         \A r \in Reviews : r[1] = g /\ store.review[r].state \in {"none", "suppressed"} =>
           store'.review[r].state \in {"none", "suppressed"} \/ r[2] \in torn'
  PROVE  /\ IsFiniteSet(Charged(g)') /\ Cardinality(Charged(g)') <= store'.count[g]
         /\ store'.count[g] <= Budget[g]
  <1> DEFINE A == Charged(g)
             B == Charged(g)'
  <1>1. B \in SUBSET A
    BY DEF Charged
  <1>2. IsFiniteSet(A) /\ Cardinality(A) <= store.count[g] /\ store.count[g] <= Budget[g]
    BY DEF CountHolds
  <1> HIDE DEF A, B
  <1>3. IsFiniteSet(B) /\ Cardinality(B) <= Cardinality(A)
    BY <1>1, <1>2, FS_Subset
  <1>4. Cardinality(A) \in Nat /\ Cardinality(B) \in Nat /\ store.count[g] \in Nat
        /\ Budget[g] \in Nat
    BY <1>2, <1>3, FS_CardinalityType, GoalReviewAssumption DEF Stores
  <1>5. Cardinality(B) <= store'.count[g] /\ store'.count[g] <= Budget[g]
    BY <1>2, <1>3, <1>4
  <1>6. QED
    BY <1>3, <1>5 DEF B

(* A claim that is counted adds one review to those of its goal.           *)
LEMMA CountGrows ==
  ASSUME CountHolds, store \in Stores, NEW r \in Reviews, torn' = torn,
         store.count[r[1]] < Budget[r[1]],
         store'.count[r[1]] = store.count[r[1]] + 1,
         \A q \in Reviews \ {r} : store.review[q].state \in {"none", "suppressed"} =>
           store'.review[q].state \in {"none", "suppressed"}
  PROVE  /\ IsFiniteSet(Charged(r[1])') /\ Cardinality(Charged(r[1])') <= store'.count[r[1]]
         /\ store'.count[r[1]] <= Budget[r[1]]
  <1>1. PICK g \in Goals : g = r[1]
    BY GoalReviewAssumption
  <1> DEFINE A == Charged(g)
             B == Charged(g)'
  <1>2. B \in SUBSET (A \cup {r})
    BY DEF Charged
  <1>3. IsFiniteSet(A) /\ Cardinality(A) <= store.count[g]
    BY DEF CountHolds
  <1> HIDE DEF A, B
  <1>4. /\ IsFiniteSet(A \cup {r})
        /\ Cardinality(A \cup {r}) = IF r \in A THEN Cardinality(A) ELSE Cardinality(A) + 1
    BY <1>3, FS_AddElement
  <1>5. IsFiniteSet(B) /\ Cardinality(B) <= Cardinality(A \cup {r})
    BY <1>2, <1>4, FS_Subset
  <1>6. Cardinality(A) \in Nat /\ Cardinality(B) \in Nat /\ store.count[g] \in Nat
        /\ Budget[g] \in Nat
    BY <1>3, <1>5, FS_CardinalityType, GoalReviewAssumption DEF Stores
  <1>7. Cardinality(B) <= store.count[g] + 1 /\ store.count[g] + 1 <= Budget[g]
    BY <1>1, <1>3, <1>4, <1>5, <1>6
  <1>8. QED
    BY <1>1, <1>5, <1>7 DEF B
-----------------------------------------------------------------------------
(* A review that is worked on was claimed.                                 *)
LEMMA WorkedOn ==
  ASSUME Inv, NEW r \in Reviews, run[r] # "none"
  PROVE  /\ store.review[r].state \in {"claimed", "reviewing", "completed"}
         /\ run[r] # "feedback" => r \notin told
         /\ store \in Stores /\ r \in Works
  <1>1. run[r] \in {"none", "create", "read", "sleep", "stuck", "feedback"} /\ store \in Stores
    BY DEF Inv, TypeOK
  <1>2. store.review[r].state \in {"claimed", "reviewing", "completed"}
    BY <1>1 DEF Inv, PendingHasTask
  <1>3. run[r] # "feedback" => store.review[r].state \notin {"completed", "failed"}
    BY <1>1 DEF Inv, PendingHasTask
  <1>4. QED
    BY <1>1, <1>2, <1>3 DEF Inv, ToldCompleted, Works

(* The registry keeps its types as long as it keeps its invariant.         *)
LEMMA RegistryTyped ==
  ASSUME RegistryInv', faults' \in 0 .. MaxFaults
  PROVE  RegistryTypeOK'
  BY DEF RegistryInv, RegistryTypes, RegistriesBorn, OnlyBorn, Stops, RegistryTypeOK

(* A step of the task of one review, which is not claimed anew.            *)
LEMMA RunnerKeeps ==
  ASSUME Inv, NEW r \in Reviews, run[r] # "none", RegistryInv', faults' = faults,
         \A q \in Reviews \ {r} : work'[q] = work[q] /\ (q \in making => q \in making'),
         store' \in Stores, store'.enabled = store.enabled, store'.count = store.count,
         store'.suppressed = store.suppressed, store'.seen = store.seen,
         \A q \in Reviews \ {r} : store'.review[q] = store.review[q],
         store'.review[r].state \notin {"none", "suppressed"},
         NEW p \in {"none", "read", "sleep", "feedback"}, run' = [run EXCEPT ![r] = p],
         store'.review[r].state \in Pending => p # "none",
         p \in {"read", "sleep"} => store'.review[r].state = "reviewing",
         p = "feedback" => store'.review[r] = [state |-> "completed", verdict |-> "feedback"],
         told' \in SUBSET Reviews, told' \subseteq told \cup {r},
         r \in told' => store'.review[r].state \in {"completed", "failed"},
         UNCHANGED <<closed, ops, torn, left>>
  PROVE  Inv'
  <1>1. store.review[r].state \notin {"none", "suppressed"} /\ store \in Stores
    BY WorkedOn
  <1>2. /\ run \in [Reviews -> {"none", "create", "read", "sleep", "stuck", "feedback"}]
        /\ faults \in 0 .. MaxFaults
    BY DEF Inv, TypeOK, RegistryTypeOK
  <1>3. /\ run' \in [Reviews -> {"none", "create", "read", "sleep", "stuck", "feedback"}]
        /\ run'[r] = p /\ \A q \in Reviews \ {r} : run'[q] = run[q]
    BY <1>2
  <1>4. RegistryTypeOK'
    BY <1>2, RegistryTyped
  <1>5. TypeOK'
    BY <1>3, <1>4 DEF Inv, TypeOK
  <1>6. PendingHasTask'
    <2>1. ASSUME NEW q \in Reviews \ {r}
          PROVE  /\ store'.review[q].state \in Pending => run'[q] # "none" \/ q \in left'
                 /\ run'[q] = "create" => store'.review[q].state = "claimed" /\ q \in making'
                 /\ run'[q] \in {"read", "sleep", "stuck"} => store'.review[q].state = "reviewing"
                 /\ run'[q] = "feedback" =>
                      store'.review[q] = [state |-> "completed", verdict |-> "feedback"]
      BY <1>3 DEF Inv, PendingHasTask
    <2>2. /\ store'.review[r].state \in Pending => run'[r] # "none"
          /\ run'[r] # "create" /\ run'[r] # "stuck"
      BY <1>3
    <2>3. QED
      BY <1>3, <2>1, <2>2 DEF PendingHasTask
  <1>7. CountHolds'
    <2>1. ASSUME NEW g \in Goals
          PROVE  /\ IsFiniteSet(Charged(g)') /\ Cardinality(Charged(g)') <= store'.count[g]
                 /\ store'.count[g] <= Budget[g]
      <3>1. \A q \in Reviews : store.review[q].state \in {"none", "suppressed"} =>
              store'.review[q].state \in {"none", "suppressed"}
        BY <1>1
      <3>2. QED
        BY <1>1, <3>1, CountStays DEF Inv
    <2>2. QED
      BY <2>1 DEF CountHolds
  <1>8. InterruptWaits'
    BY DEF Inv, InterruptWaits
  <1>9. ToldCompleted' /\ Unasked'
    BY DEF Inv, ToldCompleted, Unasked
  <1>10. QED
    BY <1>5, <1>6, <1>7, <1>8, <1>9 DEF Inv

(* A step beside the registry keeps what holds of it.                      *)
LEMMA RegistryRests ==
  ASSUME RegistryInv, UNCHANGED registryVars
  PROVE  RegistryInv' /\ UNCHANGED <<up, faults, work, registry, making, stop, born>>
  BY RegistryStepInv DEF registryVars

(* A review that is given up, or whose feedback could not be dispatched.   *)
LEMMA QuitsKeeps ==
  ASSUME Inv, NEW r \in Reviews, run[r] # "none", RegistryInv', faults' = faults,
         \A q \in Reviews \ {r} : work'[q] = work[q] /\ (q \in making => q \in making'),
         NEW state \in {"failed", "unresolved"}, Quits(r, state),
         run[r] = "feedback" => state = "failed",
         UNCHANGED <<closed, ops, torn, left, told>>
  PROVE  Inv'
  <1>1. /\ state \in ReviewStates /\ store \in Stores /\ told \in SUBSET Reviews
        /\ r \in told => state = "failed"
    BY WorkedOn DEF ReviewStates, Inv, TypeOK
  <1>2. store' = WithReview(store, r, state) /\ run' = [run EXCEPT ![r] = "none"]
    BY DEF Quits, Moves
  <1>3. /\ store' \in Stores /\ store'.enabled = store.enabled /\ store'.count = store.count
        /\ store'.suppressed = store.suppressed /\ store'.seen = store.seen
        /\ store'.review[r].state = state
        /\ \A q \in Reviews \ {r} : store'.review[q] = store.review[q]
    BY <1>1, <1>2, WithReviewIs
  <1>4. state \notin Pending /\ state \notin {"none", "suppressed"}
    BY DEF Pending
  <1>5. QED
    BY <1>1, <1>2, <1>3, <1>4, RunnerKeeps

(* The reviewer was created, or could not be.                              *)
LEMMA CreatedKeeps ==
  ASSUME Inv, NEW r \in Reviews, NEW out \in {"made", "lost", "refused"}, ReviewerCreated(r, out)
  PROVE  Inv'
  <1>1. /\ run[r] = "create" /\ CreateAnswers(r, out)
        /\ UNCHANGED <<closed, ops, torn, left, told>>
    BY DEF ReviewerCreated
  <1>2. store \in Stores /\ r \in Works /\ r \notin told /\ told \in SUBSET Reviews
    BY <1>1, WorkedOn DEF Inv, TypeOK
  <1>3. RegistryInv'
    BY <1>1, <1>2, CreateAnswersInv DEF Inv
  <1>4. /\ faults' = faults
        /\ \A q \in Reviews \ {r} : work'[q] = work[q] /\ (q \in making => q \in making')
    <2>1. /\ faults' = faults /\ making' = making \ {r}
          /\ work' = [work EXCEPT ![r] = "done"] /\ work \in [Works -> WorkStates]
      BY <1>1, SubagentsAssumption
      DEF CreateAnswers, Finished, Inv, RegistryInv, RegistryTypes
    <2>2. Reviews \subseteq Works
      BY DEF Works
    <2>3. QED
      BY <2>1, <2>2
  <1>5. CASE out = "made" /\ ~closed
    <2>1. store' = WithReview(store, r, "reviewing") /\ run' = [run EXCEPT ![r] = "read"]
      BY <1>5 DEF ReviewerCreated, Moves
    <2>2. "reviewing" \in ReviewStates
      BY DEF ReviewStates
    <2>3. /\ store' \in Stores /\ store'.enabled = store.enabled /\ store'.count = store.count
          /\ store'.suppressed = store.suppressed /\ store'.seen = store.seen
          /\ store'.review[r].state = "reviewing"
          /\ \A q \in Reviews \ {r} : store'.review[q] = store.review[q]
      BY <1>2, <2>1, <2>2, WithReviewIs
    <2>4. QED
      BY <1>1, <1>2, <1>3, <1>4, <2>1, <2>3, RunnerKeeps
  <1>6. CASE ~(out = "made" /\ ~closed)
    <2>1. PICK state \in {"failed", "unresolved"} : Quits(r, state)
      BY <1>6 DEF ReviewerCreated
    <2>2. QED
      BY <1>1, <1>3, <1>4, <2>1, QuitsKeeps
  <1>7. QED
    BY <1>5, <1>6

(* A step that only moves the task of a review.                            *)
LEMMA MovesKeeps ==
  ASSUME Inv, NEW r \in Reviews, run[r] # "none", NEW p \in {"none", "read", "sleep"}, Moves(r, p),
         store.review[r].state \in Pending => p # "none",
         p \in {"read", "sleep"} => store.review[r].state = "reviewing",
         UNCHANGED <<registryVars, store, closed, ops, torn, left, told>>
  PROVE  Inv'
  <1>1. /\ RegistryInv' /\ UNCHANGED <<up, faults, work, registry, making, stop, born>>
        /\ store \in Stores /\ told \in SUBSET Reviews
        /\ store.review[r].state \notin {"none", "suppressed"}
    BY RegistryRests, WorkedOn DEF Inv, TypeOK
  <1>2. r \in told => store.review[r].state \in {"completed", "failed"}
    BY DEF Inv, ToldCompleted
  <1>3. run' = [run EXCEPT ![r] = p]
    BY DEF Moves
  <1>4. QED
    BY <1>1, <1>2, <1>3, RunnerKeeps

(* The reviewer has no report yet, or none to come.                        *)
LEMMA ResultKeeps ==
  ASSUME Inv, NEW r \in Reviews, NEW result, ResultIs(r, result)
  PROVE  Inv'
  <1>1. run[r] = "read" /\ UNCHANGED <<registryVars, closed, ops, torn, left, told>>
    BY DEF ResultIs
  <1>2. store.review[r].state = "reviewing"
    BY <1>1 DEF Inv, PendingHasTask
  <1>3. CASE Moves(r, "sleep") /\ UNCHANGED store
    BY <1>1, <1>2, <1>3, MovesKeeps
  <1>4. ASSUME NEW state \in {"failed", "unresolved"}, Quits(r, state)
        PROVE  Inv'
    <2>1. RegistryInv' /\ UNCHANGED <<up, faults, work, registry, making, stop, born>>
      BY <1>1, RegistryRests DEF Inv
    <2>2. QED
      BY <1>1, <1>4, <2>1, QuitsKeeps
  <1>5. QED
    BY <1>3, <1>4 DEF ResultIs

(* The reviewer reported; a verdict is told only to an enabled goal, and   *)
(* only once.                                                              *)
LEMMA CompletedKeeps ==
  ASSUME Inv, NEW r \in Reviews, NEW verdict \in ReportVerdicts, ResultCompleted(r, verdict)
  PROVE  Inv' /\ (run'[r] = "feedback" =>
           r \notin told /\ r[1] \in store.enabled /\ store'.review[r].verdict = "feedback")
  <1>1. run[r] = "read" /\ UNCHANGED <<registryVars, closed, ops, torn, left>>
    BY DEF ResultCompleted
  <1>2. /\ RegistryInv' /\ UNCHANGED <<up, faults, work, registry, making, stop, born>>
        /\ store \in Stores /\ told \in SUBSET Reviews /\ r \notin told
        /\ run \in [Reviews -> {"none", "create", "read", "sleep", "stuck", "feedback"}]
    BY <1>1, RegistryRests, WorkedOn DEF Inv, TypeOK
  <1>3. verdict \in {"pass", "feedback"}
    BY DEF ReportVerdicts
  <1> DEFINE v == [state |-> "completed", verdict |-> verdict]
             f == [store.review EXCEPT ![r] = v]
  <1>4. PICK d : d = WithVerdict(store, r, verdict)
    OBVIOUS
  <1>5. /\ d \in Stores /\ d.enabled = store.enabled /\ d.count = store.count
        /\ d.suppressed = store.suppressed /\ d.seen = store.seen /\ d.review[r] = v
        /\ \A q \in Reviews \ {r} : d.review[q] = store.review[q]
    <2>1. v \in ReviewRecords
      BY <1>3 DEF ReviewRecords, ReviewStates, Verdicts
    <2>2. store.review \in [Reviews -> ReviewRecords]
      BY <1>2 DEF Stores, ReviewRecords
    <2> HIDE DEF v
    <2>3. f \in [Reviews -> ReviewRecords] /\ f[r] = v /\ \A q \in Reviews \ {r} : f[q] = store.review[q]
      BY <2>1, <2>2
    <2>4. d = [store EXCEPT !.review = f]
      BY <1>2, <1>4 DEF WithVerdict, Stores, v
    <2> HIDE DEF f
    <2>5. QED
      BY <1>2, <2>3, <2>4 DEF Stores, ReviewRecords
  <1>6. "completed" \notin Pending
    BY DEF Pending
  <1>7. CASE verdict = "pass"
    <2>1. store' = d /\ run' = [run EXCEPT ![r] = "none"] /\ UNCHANGED told
      BY <1>4, <1>7 DEF ResultCompleted, Moves
    <2>2. run'[r] # "feedback"
      BY <1>2, <2>1
    <2>3. store' \in Stores /\ store'.review[r].state = "completed"
      BY <1>5, <2>1
    <2> HIDE DEF v
    <2>4. Inv'
      BY <1>1, <1>2, <1>5, <1>6, <2>1, <2>3, RunnerKeeps
    <2>5. QED
      BY <2>2, <2>4
  <1>8. CASE verdict = "feedback" /\ r[1] \notin store.enabled
    <2>1. store' = WithReview(d, r, "cancelled") /\ run' = [run EXCEPT ![r] = "none"] /\ UNCHANGED told
      BY <1>4, <1>8 DEF ResultCompleted, Moves
    <2>2. "cancelled" \in ReviewStates /\ "cancelled" \notin Pending \cup {"none", "suppressed"}
      BY DEF ReviewStates, Pending
    <2>3. /\ store' \in Stores /\ store'.enabled = store.enabled /\ store'.count = store.count
          /\ store'.suppressed = store.suppressed /\ store'.seen = store.seen
          /\ store'.review[r].state = "cancelled"
          /\ \A q \in Reviews \ {r} : store'.review[q] = store.review[q]
      BY <1>5, <2>1, <2>2, WithReviewIs
    <2>4. run'[r] # "feedback"
      BY <1>2, <2>1
    <2>5. QED
      BY <1>1, <1>2, <2>1, <2>2, <2>3, <2>4, RunnerKeeps
  <1>9. CASE verdict = "feedback" /\ r[1] \in store.enabled
    <2>1. /\ store' = d /\ run' = [run EXCEPT ![r] = "feedback"]
          /\ told' = told \cup {r}
      BY <1>4, <1>9 DEF ResultCompleted, Moves
    <2>2. /\ store' \in Stores /\ store'.review[r].state = "completed"
          /\ store'.review[r] = [state |-> "completed", verdict |-> "feedback"]
          /\ store'.review[r].verdict = "feedback"
          /\ told' \in SUBSET Reviews /\ told' \subseteq told \cup {r}
      BY <1>2, <1>5, <1>9, <2>1
    <2> HIDE DEF v
    <2>3. Inv'
      BY <1>1, <1>2, <1>5, <1>6, <2>1, <2>2, RunnerKeeps
    <2>4. QED
      BY <1>2, <1>9, <2>2, <2>3
  <1>10. QED
    BY <1>3, <1>7, <1>8, <1>9

(* Whatever the task of a review awaited, its answer keeps the invariant.  *)
LEMMA AwaitedKeeps ==
  ASSUME Inv, NEW r \in Reviews, Awaited(r) \/ GivesUp(r)
  PROVE  Inv'
  <1>1. ASSUME NEW out \in {"made", "lost", "refused"}, ReviewerCreated(r, out) PROVE Inv'
    BY <1>1, CreatedKeeps
  <1>2. ASSUME NEW result, ResultIs(r, result) PROVE Inv'
    BY <1>2, ResultKeeps
  <1>3. ASSUME NEW verdict \in ReportVerdicts, ResultCompleted(r, verdict) PROVE Inv'
    BY <1>3, CompletedKeeps
  <1>4. CASE Wakes(r)
    <2>1. store.review[r].state = "reviewing"
      BY <1>4 DEF Wakes, Inv, PendingHasTask
    <2>2. QED
      BY <1>4, <2>1, MovesKeeps DEF Wakes
  <1>5. CASE FeedbackDispatched(r)
    <2>1. store.review[r].state \notin Pending
      BY <1>5 DEF FeedbackDispatched, Inv, PendingHasTask, Pending
    <2>2. CASE Moves(r, "none") /\ UNCHANGED store
      BY <1>5, <2>1, <2>2, MovesKeeps DEF FeedbackDispatched
    <2>3. CASE Quits(r, "failed")
      <3>1. RegistryInv' /\ UNCHANGED <<up, faults, work, registry, making, stop, born>>
        BY <1>5, RegistryRests DEF FeedbackDispatched, Inv
      <3>2. QED
        BY <1>5, <2>3, <3>1, QuitsKeeps DEF FeedbackDispatched
    <2>4. QED
      BY <1>5, <2>2, <2>3 DEF FeedbackDispatched
  <1>6. CASE GivesUp(r)
    <2>1. RegistryInv' /\ UNCHANGED <<up, faults, work, registry, making, stop, born>>
      BY <1>6, RegistryRests DEF GivesUp, Inv
    <2>2. QED
      BY <1>6, <2>1, QuitsKeeps DEF GivesUp
  <1>7. QED
    BY <1>1, <1>2, <1>3, <1>4, <1>5, <1>6 DEF Awaited
-----------------------------------------------------------------------------
(* Reviewers asked for reviews that had none.                              *)
LEMMA AsksForReviews ==
  ASSUME RegistryInv, NEW S \in SUBSET Reviews, \A r \in S : work[r] = "new",
         making' = making \cup S,
         work' = [p \in Works |-> IF p \in S THEN "asked" ELSE work[p]],
         UNCHANGED <<up, faults, stop, registry, born, tick, touched>>
  PROVE  RegistryInv'
  <1>1. /\ born \in [Works -> 0 .. MaxBorn] /\ faults \in Nat /\ S \subseteq Works
        /\ work \in [Works -> WorkStates] /\ "asked" \in WorkStates
        /\ S \cap Occurrences = {} /\ Occurrences \subseteq Works
    BY SubagentsAssumption DEF RegistryInv, RegistryTypes, Works, WorkStates, Claimable
  <1>2. RegistryTypes'
    BY <1>1 DEF RegistryInv, RegistryTypes
  <1>3. RegistriesBorn'
    BY QuietRegistries
  <1>4. \A w \in S : born[w] = 0
    BY <1>1 DEF RegistryInv, ChildrenCounted, SinglesCounted
  <1>5. SinglesCounted'
    BY <1>1, <1>4 DEF RegistryInv, ChildrenCounted, SinglesCounted
  <1>6. \A w \in Occurrences : Chances(w)' = Chances(w)
    BY <1>1 DEF Chances
  <1>7. ChancesCounted' /\ ServesOne'
    BY <1>1, <1>6 DEF RegistryInv, ChildrenCounted, ChancesCounted, ServesOne
  <1>8. QED
    BY <1>2, <1>3, <1>5, <1>7 DEF RegistryInv, ChildrenCounted

(* A Stop that is processed to its end.                                    *)
LEMMA DoneKeeps ==
  ASSUME Inv, NEW t \in Turns, NEW x, NEW C, NEW S, Written(x, C, t), StopDone(x, C, S, t)
  PROVE  Inv'
  <1>1. /\ store \in Stores /\ x \in Stores
        /\ run \in [Reviews -> {"none", "create", "read", "sleep", "stuck", "feedback"}]
        /\ faults \in 0 .. MaxFaults
    BY DEF Inv, TypeOK, Written, RegistryTypeOK
  <1>2. store' = [x EXCEPT !.seen = @ \cup {<<"stop", t>>}]
    BY DEF StopDone, Recorded
  <1>a. <<"stop", t>> \in Hooks
    BY DEF Hooks
  <1>b. x.seen \cup {<<"stop", t>>} \in SUBSET Hooks
    BY <1>1, <1>a DEF Stores
  <1>3. /\ store' \in Stores /\ store'.enabled = x.enabled /\ store'.count = x.count
        /\ store'.review = x.review /\ store'.suppressed = x.suppressed
        /\ store'.seen = x.seen \cup {<<"stop", t>>}
    BY <1>1, <1>2, <1>b DEF Stores
  <1>4. /\ C \in SUBSET Reviews /\ S \in SUBSET Reviews /\ S \subseteq C
        /\ \A r \in C : /\ store.review[r].state = "none" /\ r[2] = t
                        /\ x.review[r].state = IF r \in S THEN "claimed" ELSE "failed"
                        /\ x.count[r[1]] = store.count[r[1]] + 1
                        /\ store.count[r[1]] < Budget[r[1]]
        /\ \A r, q \in C : r = q
        /\ \A r \in Reviews \ C :
             x.review[r] = store.review[r]
             \/ (store.review[r].state = "none" /\ x.review[r].state = "suppressed")
        /\ \A g \in Goals : <<g, t>> \notin C => x.count[g] = store.count[g]
        /\ x.seen = store.seen
        /\ x.suppressed \in {store.suppressed, store.suppressed \ {t, "*"}}
    BY DEF Written, StopDone
  <1>5. /\ run' = [r \in Reviews |-> IF r \in S THEN "create" ELSE run[r]]
        /\ making' = making \cup S
        /\ work' = [p \in Works |-> IF p \in S THEN "asked" ELSE work[p]]
        /\ UNCHANGED <<up, faults, closed, stop, registry, born, tick, touched, torn, left, ops, told>>
    BY DEF StopDone
  <1>6. \A r \in Reviews : store.review[r].state = "none" => run[r] = "none"
    BY WorkedOn
  <1>7. RegistryInv'
    <2>1. \A r \in S : work[r] = "new"
      BY <1>4 DEF Inv, Unasked
    <2>2. QED
      BY <1>4, <1>5, <2>1, AsksForReviews DEF Inv
  <1>8. TypeOK'
    <2>1. RegistryTypeOK'
      BY <1>1, <1>5, <1>7, RegistryTyped
    <2>2. run' \in [Reviews -> {"none", "create", "read", "sleep", "stuck", "feedback"}]
      BY <1>1, <1>5
    <2>3. QED
      BY <1>3, <1>5, <2>1, <2>2 DEF Inv, TypeOK
  <1>9. PendingHasTask'
    <2>1. ASSUME NEW q \in Reviews
          PROVE  /\ store'.review[q].state \in Pending => run'[q] # "none" \/ q \in left'
                 /\ run'[q] = "create" => store'.review[q].state = "claimed" /\ q \in making'
                 /\ run'[q] \in {"read", "sleep", "stuck"} => store'.review[q].state = "reviewing"
                 /\ run'[q] = "feedback" =>
                      store'.review[q] = [state |-> "completed", verdict |-> "feedback"]
      <3>1. CASE q \in S
        BY <1>3, <1>4, <1>5, <3>1
      <3>2. CASE q \in C \ S
        BY <1>3, <1>4, <1>5, <1>6, <3>2 DEF Pending
      <3>3. CASE q \notin C
        <4>1. run'[q] = run[q] /\ (q \in making => q \in making') /\ left' = left
          BY <1>4, <1>5, <3>3
        <4>2. CASE x.review[q] = store.review[q]
          BY <1>3, <4>1, <4>2 DEF Inv, PendingHasTask
        <4>3. CASE store.review[q].state = "none" /\ x.review[q].state = "suppressed"
          BY <1>3, <1>6, <4>1, <4>3 DEF Pending
        <4>4. QED
          BY <1>4, <3>3, <4>2, <4>3
      <3>4. QED
        BY <3>1, <3>2, <3>3
    <2>2. QED
      BY <2>1 DEF PendingHasTask
  <1>10. CountHolds'
    <2>1. ASSUME NEW g \in Goals
          PROVE  /\ IsFiniteSet(Charged(g)') /\ Cardinality(Charged(g)') <= store'.count[g]
                 /\ store'.count[g] <= Budget[g]
      <3>1. CASE <<g, t>> \in C
        <4>1. PICK r \in Reviews : r = <<g, t>> /\ r \in C
          BY <1>4, <3>1
        <4>2. \A q \in Reviews \ {r} : store.review[q].state \in {"none", "suppressed"} =>
                store'.review[q].state \in {"none", "suppressed"}
          BY <1>3, <1>4, <4>1
        <4>3. /\ store.count[r[1]] < Budget[r[1]] /\ store'.count[r[1]] = store.count[r[1]] + 1
              /\ torn' = torn /\ r[1] = g
          BY <1>3, <1>4, <1>5, <4>1
        <4>4. QED
          BY <1>1, <4>2, <4>3, CountGrows DEF Inv
      <3>2. CASE <<g, t>> \notin C
        <4>1. \A q \in Reviews : q[1] = g => q \notin C
          BY <1>4, <3>2, GoalReviewAssumption
        <4>2. \A q \in Reviews : q[1] = g /\ store.review[q].state \in {"none", "suppressed"} =>
                store'.review[q].state \in {"none", "suppressed"}
          BY <1>3, <1>4, <4>1
        <4>3. QED
          BY <1>1, <1>3, <1>4, <1>5, <3>2, <4>2, CountStays DEF Inv
      <3>3. QED
        BY <3>1, <3>2
    <2>2. QED
      BY <2>1 DEF CountHolds
  <1>11. InterruptWaits'
    BY <1>3, <1>4, <1>5, GoalReviewAssumption DEF Inv, InterruptWaits
  <1>12. ToldCompleted'
    <2>1. told \subseteq Reviews
      BY DEF Inv, TypeOK
    <2>2. QED
      BY <1>3, <1>4, <1>5, <2>1 DEF Inv, ToldCompleted
  <1>13. Unasked'
    <2>1. Reviews \subseteq Works
      BY DEF Works
    <2>2. QED
      BY <1>3, <1>4, <1>5, <2>1 DEF Inv, Unasked
  <1>14. QED
    BY <1>7, <1>8, <1>9, <1>10, <1>11, <1>12, <1>13 DEF Inv

(* The process ends.                                                       *)
LEMMA DiesKeeps ==
  ASSUME Inv, RegistryCrash, Ends, store' \in Stores, torn' \in SUBSET Turns,
         CountHolds', InterruptWaits', ToldCompleted', Unasked', UNCHANGED <<ops, told>>
  PROVE  Inv'
  <1>1. faults' \in 0 .. MaxFaults
    BY SubagentsAssumption DEF RegistryCrash, Inv, TypeOK, RegistryTypeOK
  <1>2. RegistryInv'
    BY RegistryCrashInv DEF Inv
  <1>3. RegistryTypeOK'
    BY <1>1, <1>2, RegistryTyped
  <1>4. /\ run' = [r \in Reviews |-> "none"] /\ closed' = FALSE
        /\ left' = left \cup {r \in Reviews : store'.review[r].state \in Pending}
    BY DEF Ends
  <1>5. TypeOK'
    BY <1>3, <1>4 DEF Inv, TypeOK
  <1>6. PendingHasTask'
    BY <1>4 DEF PendingHasTask
  <1>7. QED
    BY <1>2, <1>5, <1>6 DEF Inv

(* A Stop the daemon dies in.                                              *)
LEMMA TornKeeps ==
  ASSUME Inv, NEW t \in Turns, NEW x, NEW C, Written(x, C, t), StopTorn(x, t)
  PROVE  Inv'
  <1>1. /\ store \in Stores /\ store' = x /\ store' \in Stores /\ torn' = torn \cup {t}
        /\ torn' \in SUBSET Turns /\ told' = told /\ told \subseteq Reviews /\ work' = work
    BY DEF Inv, TypeOK, Written, StopTorn, RegistryCrash
  <1>2. CountHolds'
    <2>1. ASSUME NEW g \in Goals
          PROVE  /\ IsFiniteSet(Charged(g)') /\ Cardinality(Charged(g)') <= store'.count[g]
                 /\ store'.count[g] <= Budget[g]
      <3>1. \/ store'.count[g] = store.count[g]
            \/ store'.count[g] = store.count[g] + 1 /\ store.count[g] < Budget[g]
        <4>1. CASE <<g, t>> \in C
          <5>1. PICK r \in C : r = <<g, t>> /\ r[1] = g
            BY <4>1
          <5>2. QED
            BY <1>1, <5>1 DEF Written
        <4>2. CASE <<g, t>> \notin C
          BY <1>1, <4>2 DEF Written
        <4>3. QED
          BY <4>1, <4>2
      <3>2. \A q \in Reviews : q[1] = g /\ store.review[q].state \in {"none", "suppressed"} =>
              store'.review[q].state \in {"none", "suppressed"} \/ q[2] \in torn'
        BY <1>1 DEF Written
      <3>3. torn \subseteq torn'
        BY <1>1
      <3>4. QED
        BY <1>1, <3>1, <3>2, <3>3, CountStays DEF Inv
    <2>2. QED
      BY <2>1 DEF CountHolds
  <1>3. InterruptWaits'
    BY <1>1, GoalReviewAssumption DEF Inv, InterruptWaits, Written
  <1>4. ToldCompleted'
    BY <1>1 DEF Inv, ToldCompleted, Written
  <1>5. Unasked'
    BY <1>1 DEF Inv, Unasked, Written
  <1>6. QED
    BY <1>1, <1>2, <1>3, <1>4, <1>5, DiesKeeps DEF StopTorn

(* The process ends between two hooks.                                     *)
LEMMA ExitKeeps ==
  ASSUME Inv, Exit
  PROVE  Inv'
  <1>1. /\ UNCHANGED <<store, ops, torn, told>> /\ work' = work /\ RegistryCrash /\ Ends
        /\ store' \in Stores /\ torn' \in SUBSET Turns
    BY DEF Exit, RegistryCrash, Inv, TypeOK
  <1>2. CountHolds' /\ InterruptWaits' /\ ToldCompleted' /\ Unasked'
    BY <1>1 DEF Inv, CountHolds, Charged, InterruptWaits, ToldCompleted, Unasked
  <1>3. QED
    BY <1>1, <1>2, DiesKeeps

(* A Stop keeps the invariant, torn or not.                                *)
LEMMA StopKeeps ==
  ASSUME Inv, NEW t \in Turns, NEW why, StopHook(t, why)
  PROVE  Inv'
  <1>1. PICK x, C : Written(x, C, t) /\ (StopTorn(x, t) \/ \E S : StopDone(x, C, S, t))
    BY StopHookIs DEF Inv, TypeOK
  <1>2. QED
    BY <1>1, TornKeeps, DoneKeeps

(* A step that leaves the reviews and their counts alone.                  *)
LEMMA ReviewsStay ==
  ASSUME Inv, store' \in Stores, store'.count = store.count, store'.review = store.review,
         UNCHANGED <<registryVars, torn, left, told>>, InterruptWaits',
         run' \in [Reviews -> {"none", "create", "read", "sleep", "stuck", "feedback"}],
         \A r \in Reviews : run'[r] = run[r] \/ (run[r] = "sleep" /\ run'[r] = "stuck"),
         closed' \in BOOLEAN, ops' \in 0 .. MaxOps
  PROVE  Inv'
  <1>1. RegistryInv' /\ UNCHANGED <<up, faults, work, registry, making, stop, born>>
    BY RegistryRests DEF Inv
  <1>2. RegistryTypeOK'
    BY <1>1, RegistryTyped DEF Inv, TypeOK, RegistryTypeOK
  <1>3. TypeOK'
    BY <1>2 DEF Inv, TypeOK
  <1>4. PendingHasTask'
    <2>1. ASSUME NEW q \in Reviews
          PROVE  /\ store'.review[q].state \in Pending => run'[q] # "none" \/ q \in left'
                 /\ run'[q] = "create" => store'.review[q].state = "claimed" /\ q \in making'
                 /\ run'[q] \in {"read", "sleep", "stuck"} => store'.review[q].state = "reviewing"
                 /\ run'[q] = "feedback" =>
                      store'.review[q] = [state |-> "completed", verdict |-> "feedback"]
      BY <1>1 DEF Inv, PendingHasTask
    <2>2. QED
      BY <2>1 DEF PendingHasTask
  <1>5. CountHolds'
    BY DEF Inv, CountHolds, Charged
  <1>6. ToldCompleted' /\ Unasked'
    BY <1>1 DEF Inv, ToldCompleted, Unasked
  <1>7. QED
    BY <1>1, <1>3, <1>4, <1>5, <1>6 DEF Inv

(* An interruption leaves its record for the Stop to come.                 *)
LEMMA InterruptKeeps ==
  ASSUME Inv, NEW t \in Interrupts, InterruptHook(t)
  PROVE  Inv'
  <1>1. PICK d : d = [store EXCEPT !.suppressed = @ \cup {t}]
    OBVIOUS
  <1>2. /\ store \in Stores /\ <<"interrupt", t>> \in Hooks /\ UNCHANGED <<ops, torn, told>>
    BY DEF InterruptHook, Inv, TypeOK, Hooks
  <1>3. /\ d \in Stores /\ d.count = store.count /\ d.review = store.review
        /\ d.suppressed = store.suppressed \cup {t} /\ d.seen = store.seen
    BY ZenonT(60), <1>1, <1>2 DEF Stores
  <1>4. CASE /\ store' = Recorded(d, <<"interrupt", t>>)
             /\ UNCHANGED <<registryVars, run, closed, left>>
    <2>1. store' = [d EXCEPT !.seen = @ \cup {<<"interrupt", t>>}]
      BY <1>4 DEF Recorded
    <2>2. /\ store' \in Stores /\ store'.count = store.count /\ store'.review = store.review
          /\ store'.suppressed = store.suppressed \cup {t}
          /\ store'.seen = store.seen \cup {<<"interrupt", t>>}
      BY ZenonT(60), <1>2, <1>3, <2>1 DEF Stores
    <2>3. InterruptWaits'
      BY <1>2, <2>2 DEF Inv, InterruptWaits
    <2>4. QED
      BY <1>2, <1>4, <2>2, <2>3, ReviewsStay DEF Inv, TypeOK
  <1>5. CASE RegistryCrash /\ store' = d /\ Ends
    <2>1. work' = work /\ torn' \in SUBSET Turns
      BY <1>2, <1>5 DEF RegistryCrash, Inv, TypeOK
    <2>2. CountHolds' /\ InterruptWaits' /\ ToldCompleted' /\ Unasked'
      BY <1>2, <1>3, <1>5, <2>1
      DEF Inv, CountHolds, Charged, InterruptWaits, ToldCompleted, Unasked
    <2>3. QED
      BY <1>2, <1>3, <1>5, <2>1, <2>2, DiesKeeps
  <1>6. QED
    BY <1>1, <1>4, <1>5 DEF InterruptHook

(* Goals are switched on and off under the reviews.                        *)
LEMMA SwitchKeeps ==
  ASSUME Inv, NEW g \in Goals, SwitchGoal(g)
  PROVE  Inv'
  <1>1. UNCHANGED <<registryVars, run, closed, torn, left, told>> /\ store \in Stores
    BY DEF SwitchGoal, Inv, TypeOK
  <1>2. ops' \in 0 .. MaxOps
    BY GoalReviewAssumption DEF SwitchGoal, Inv, TypeOK
  <1>3. PICK E : /\ E = IF g \in store.enabled THEN store.enabled \ {g} ELSE store.enabled \cup {g}
                 /\ store' = [store EXCEPT !.enabled = E]
    BY DEF SwitchGoal
  <1>4. E \in SUBSET Goals
    BY <1>1, <1>3 DEF Stores
  <1>5. /\ store' \in Stores /\ store'.count = store.count /\ store'.review = store.review
        /\ store'.suppressed = store.suppressed /\ store'.seen = store.seen
    BY <1>1, <1>3, <1>4 DEF Stores
  <1>6. InterruptWaits'
    BY <1>1, <1>5 DEF Inv, InterruptWaits
  <1>7. QED
    BY <1>1, <1>2, <1>5, <1>6, ReviewsStay DEF Inv, TypeOK

(* A shutdown leaves sleeping reviews without their timer.                 *)
LEMMA CloseKeeps ==
  ASSUME Inv, Close
  PROVE  Inv'
  <1>1. /\ UNCHANGED <<registryVars, store, ops, torn, left, told>> /\ closed' = TRUE
        /\ run' = [r \in Reviews |-> IF run[r] = "sleep" THEN "stuck" ELSE run[r]]
    BY DEF Close
  <1>2. run' \in [Reviews -> {"none", "create", "read", "sleep", "stuck", "feedback"}]
    BY <1>1 DEF Inv, TypeOK
  <1>3. InterruptWaits'
    BY <1>1 DEF Inv, InterruptWaits
  <1>4. QED
    BY <1>1, <1>2, <1>3, ReviewsStay DEF Inv, TypeOK

(* A start takes nothing up again.                                         *)
LEMMA RestartKeeps ==
  ASSUME Inv, Restart
  PROVE  Inv'
  <1>1. RegistryRestart /\ UNCHANGED <<store, run, closed, ops, torn, left, told>>
    BY DEF Restart, reviewVars
  <1>2. RegistryInv'
    BY <1>1, RegistryStepInv DEF Inv, RegistryNext
  <1>3. UNCHANGED <<faults, work, making>>
    BY <1>1 DEF RegistryRestart
  <1>4. RegistryTypeOK'
    BY <1>2, <1>3, RegistryTyped DEF Inv, TypeOK, RegistryTypeOK
  <1>5. TypeOK'
    BY <1>1, <1>4 DEF Inv, TypeOK
  <1>6. PendingHasTask' /\ CountHolds' /\ InterruptWaits' /\ ToldCompleted' /\ Unasked'
    BY <1>1, <1>3
    DEF Inv, PendingHasTask, CountHolds, Charged, InterruptWaits, ToldCompleted, Unasked
  <1>7. QED
    BY <1>2, <1>5, <1>6 DEF Inv

(* No goal has counted a review at first.                                  *)
LEMMA InvInit ==
  ASSUME Init
  PROVE  Inv
  <1>1. PICK E \in SUBSET Goals :
          store = [enabled |-> E, count |-> [g \in Goals |-> 0],
                   review |-> [r \in Reviews |-> NoReview], suppressed |-> {}, seen |-> {}]
    BY DEF Init
  <1>2. /\ RegistryInit /\ run = [r \in Reviews |-> "none"] /\ closed = FALSE /\ ops = 0
        /\ torn = {} /\ left = {} /\ told = {}
    BY DEF Init
  <1>3. RegistryInv
    BY <1>2, RegistryInitInv
  <1>4. RegistryTypeOK
    BY <1>2, <1>3, SubagentsAssumption
    DEF RegistryInit, RegistryInv, RegistryTypes, RegistriesBorn, OnlyBorn, Stops, RegistryTypeOK
  <1>5. NoReview \in ReviewRecords /\ NoReview.state = "none"
    BY DEF NoReview, ReviewRecords, ReviewStates, Verdicts
  <1>6. store \in Stores
    BY <1>1, <1>5 DEF Stores, ReviewRecords
  <1>7. TypeOK
    <2>1. 0 \in 0 .. MaxOps
      BY GoalReviewAssumption
    <2>2. run \in [Reviews -> {"none", "create", "read", "sleep", "stuck", "feedback"}]
      BY <1>2
    <2>3. QED
      BY <1>2, <1>4, <1>6, <2>1, <2>2 DEF TypeOK
  <1>8. PendingHasTask
    BY <1>1, <1>2, <1>5 DEF PendingHasTask, Pending
  <1>9. CountHolds
    <2>1. ASSUME NEW g \in Goals
          PROVE  /\ IsFiniteSet(Charged(g)) /\ Cardinality(Charged(g)) <= store.count[g]
                 /\ store.count[g] <= Budget[g]
      <3>1. Charged(g) = {}
        BY <1>1, <1>5 DEF Charged
      <3>2. store.count[g] = 0 /\ Budget[g] \in Nat
        BY <1>1, GoalReviewAssumption
      <3>3. QED
        BY <3>1, <3>2, FS_EmptySet
    <2>2. QED
      BY <2>1 DEF CountHolds
  <1>10. InterruptWaits /\ ToldCompleted
    BY <1>1, <1>2 DEF InterruptWaits, ToldCompleted
  <1>11. Unasked
    BY <1>2 DEF Unasked, RegistryInit, Works
  <1>12. QED
    BY <1>3, <1>7, <1>8, <1>9, <1>10, <1>11 DEF Inv

(* Every step keeps the invariant.                                         *)
LEMMA InvNext ==
  ASSUME Inv, [Next]_vars
  PROVE  Inv'
  <1>1. ASSUME NEW t \in Turns, NEW why, StopHook(t, why) PROVE Inv'
    BY <1>1, StopKeeps
  <1>2. ASSUME NEW t \in Interrupts, InterruptHook(t) PROVE Inv'
    BY <1>2, InterruptKeeps
  <1>3. ASSUME NEW r \in Reviews, Awaited(r) \/ GivesUp(r) PROVE Inv'
    BY <1>3, AwaitedKeeps
  <1>4. ASSUME NEW g \in Goals, SwitchGoal(g) PROVE Inv'
    BY <1>4, SwitchKeeps
  <1>5. CASE Close
    BY <1>5, CloseKeeps
  <1>6. CASE Exit
    BY <1>6, ExitKeeps
  <1>7. CASE Restart
    BY <1>7, RestartKeeps
  <1>8. CASE UNCHANGED vars
    <2>1. UNCHANGED <<registryVars, store, run, closed, ops, torn, left, told>>
      BY <1>8 DEF vars, reviewVars
    <2>2. InterruptWaits'
      BY <2>1 DEF Inv, InterruptWaits
    <2>3. QED
      BY <2>1, <2>2, ReviewsStay DEF Inv, TypeOK
  <1>9. QED
    BY <1>1, <1>2, <1>3, <1>4, <1>5, <1>6, <1>7, <1>8 DEF Next

(* The invariant holds of every behaviour of hooks, reviews and restarts.  *)
THEOREM Invariance == Spec => []Inv
  <1>1. Init => Inv
    BY InvInit
  <1>2. Inv /\ [Next]_vars => Inv'
    BY InvNext
  <1>3. QED
    BY <1>1, <1>2, PTL DEF Spec

(* The types of the store, the tasks and the registry.                     *)
THEOREM TypeCorrect == Spec => []TypeOK
  <1>1. Inv => TypeOK
    BY DEF Inv
  <1>2. QED
    BY <1>1, Invariance, PTL

(* However many hooks, goals, crashes and shutdowns there are, the turns   *)
(* of a goal that are reviewed do not exceed its budget, but for turns     *)
(* whose Stop the daemon died in (claimReview counts after it claims).     *)
THEOREM WithinBudget == Spec => []BudgetKept
  <1>1. Inv => BudgetKept
    <2>1. SUFFICES ASSUME Inv, NEW g \in Goals
                   PROVE  Cardinality(Charged(g)) <= Budget[g]
      BY DEF BudgetKept, Charged
    <2>2. /\ IsFiniteSet(Charged(g)) /\ Cardinality(Charged(g)) <= store.count[g]
          /\ store.count[g] <= Budget[g] /\ store.count[g] \in Nat /\ Budget[g] \in Nat
      <3>1. store \in Stores /\ Budget[g] \in Nat
        BY <2>1, GoalReviewAssumption DEF Inv, TypeOK
      <3>2. QED
        BY <2>1, <3>1 DEF Inv, CountHolds, Stores
    <2>3. Cardinality(Charged(g)) \in Nat
      BY <2>2, FS_CardinalityType
    <2>4. QED
      BY <2>2, <2>3
  <1>2. QED
    BY <1>1, Invariance, PTL

(* A review on record as pending is worked on unless the process ended,    *)
(* and what works on a review finds it as it left it.                      *)
THEOREM TasksMatch == Spec => []PendingHasTask
  <1>1. Inv => PendingHasTask
    BY DEF Inv
  <1>2. QED
    BY <1>1, Invariance, PTL

(* A goal review gets one reviewer, however often its daemon dies: the     *)
(* registry's promise holds for the reviews that use it.                   *)
THEOREM ReviewerOnce == Spec => []OneChild
  <1>1. Inv => OneChild
    BY CountedOnce DEF Inv
  <1>2. QED
    BY <1>1, Invariance, PTL
-----------------------------------------------------------------------------
(* The task of one review leaves the others alone.                         *)
LEMMA AwaitedLeaves ==
  ASSUME Inv, NEW r \in Reviews, Awaited(r) \/ GivesUp(r)
  PROVE  /\ run[r] # "none"
         /\ \A q \in Reviews \ {r} : store'.review[q] = store.review[q] /\ run'[q] = run[q]
         /\ run[r] # "feedback" /\ run'[r] = "feedback" =>
              r \notin told /\ r[1] \in store.enabled /\ store'.review[r].verdict = "feedback"
  <1>1. store \in Stores /\ run \in [Reviews -> {"none", "create", "read", "sleep", "stuck", "feedback"}]
    BY DEF Inv, TypeOK
  <1>2. ASSUME NEW p, Moves(r, p)
        PROVE  run'[r] = p /\ \A q \in Reviews \ {r} : run'[q] = run[q]
    BY <1>1, <1>2 DEF Moves
  <1>3. ASSUME NEW d \in Stores, NEW state, store' = WithReview(d, r, state)
        PROVE  \A q \in Reviews \ {r} : store'.review[q] = d.review[q]
    BY <1>3 DEF WithReview, Stores
  <1>4. ASSUME NEW state, Quits(r, state)
        PROVE  /\ run'[r] # "feedback"
               /\ \A q \in Reviews \ {r} : store'.review[q] = store.review[q] /\ run'[q] = run[q]
    BY <1>1, <1>2, <1>3, <1>4 DEF Quits
  <1>5. ASSUME NEW out, ReviewerCreated(r, out)
        PROVE  /\ run[r] # "none" /\ run'[r] # "feedback"
               /\ \A q \in Reviews \ {r} : store'.review[q] = store.review[q] /\ run'[q] = run[q]
    BY <1>1, <1>2, <1>3, <1>4, <1>5 DEF ReviewerCreated
  <1>6. ASSUME NEW result, ResultIs(r, result)
        PROVE  /\ run[r] # "none" /\ run'[r] # "feedback"
               /\ \A q \in Reviews \ {r} : store'.review[q] = store.review[q] /\ run'[q] = run[q]
    BY <1>2, <1>4, <1>6 DEF ResultIs
  <1>7. ASSUME NEW verdict \in ReportVerdicts, ResultCompleted(r, verdict)
        PROVE  /\ run[r] # "none"
               /\ run'[r] = "feedback" =>
                    r \notin told /\ r[1] \in store.enabled /\ store'.review[r].verdict = "feedback"
               /\ \A q \in Reviews \ {r} : store'.review[q] = store.review[q] /\ run'[q] = run[q]
    <2>1. run[r] # "none"
      BY <1>7 DEF ResultCompleted
    <2>2. run'[r] = "feedback" =>
            r \notin told /\ r[1] \in store.enabled /\ store'.review[r].verdict = "feedback"
      BY <1>7, CompletedKeeps
    <2>3. \A q \in Reviews \ {r} : store'.review[q] = store.review[q] /\ run'[q] = run[q]
      <3>1. PICK d : d = WithVerdict(store, r, verdict)
        OBVIOUS
      <3>2. d \in Stores /\ \A q \in Reviews \ {r} : d.review[q] = store.review[q]
        <4>1. [state |-> "completed", verdict |-> verdict] \in ReviewRecords
          BY DEF ReportVerdicts, ReviewRecords, ReviewStates, Verdicts
        <4>2. QED
          BY <1>1, <3>1, <4>1 DEF WithVerdict, Stores, ReviewRecords
      <3>3. \/ store' = d \/ store' = WithReview(d, r, "cancelled")
        BY <1>7, <3>1 DEF ResultCompleted
      <3>4. \A q \in Reviews \ {r} : store'.review[q] = d.review[q]
        BY <1>3, <3>2, <3>3
      <3>5. \E p : Moves(r, p)
        BY <1>7 DEF ResultCompleted
      <3>6. QED
        BY <1>2, <3>2, <3>4, <3>5
    <2>4. QED
      BY <2>1, <2>2, <2>3
  <1>8. CASE Wakes(r) \/ FeedbackDispatched(r)
    BY <1>2, <1>4, <1>8 DEF Wakes, FeedbackDispatched
  <1>9. CASE GivesUp(r)
    BY <1>4, <1>9 DEF GivesUp
  <1>10. QED
    BY <1>5, <1>6, <1>7, <1>8, <1>9 DEF Awaited

(* What a step may do to the reviews: claim one whose turn was not         *)
(* interrupted, and tell one its feedback.                                 *)
Honours ==
  \A r \in Reviews :
    /\ store.review[r].state = "none" /\ store'.review[r].state = "claimed"
    /\ <<"interrupt", r[2]>> \in store.seen
    => r[2] \in torn
TellsOnce ==
  \A r \in Reviews :
    run[r] # "feedback" /\ run'[r] = "feedback"
    => /\ r \notin told /\ r[1] \in store.enabled
       /\ store'.review[r].verdict = "feedback"

(* A Stop claims no review of a turn whose interruption waits.             *)
LEMMA StopHonours ==
  ASSUME Inv, NEW t \in Turns, NEW why, StopHook(t, why)
  PROVE  Honours /\ TellsOnce
  <1>1. /\ <<"stop", t>> \notin store.seen /\ store \in Stores
        /\ \E x, C : Written(x, C, t) /\ (StopTorn(x, t) \/ \E S : StopDone(x, C, S, t))
    BY StopHookIs DEF Inv, TypeOK
  <1>2. PICK x, C : Written(x, C, t) /\ (StopTorn(x, t) \/ \E S : StopDone(x, C, S, t))
    BY <1>1
  <1>3. x \in Stores
    BY <1>2 DEF Written
  <1>4. store'.review = x.review
    BY <1>2, <1>3 DEF StopTorn, StopDone, Recorded, Stores
  <1>5. Honours
    <2>1. SUFFICES ASSUME NEW r \in Reviews, store.review[r].state = "none",
                          store'.review[r].state = "claimed", <<"interrupt", r[2]>> \in store.seen
                   PROVE  r[2] \in torn
      BY DEF Honours
    <2>2. r[2] = t /\ t \notin store.suppressed
      BY <1>2, <1>4, <2>1 DEF Written
    <2>3. QED
      BY <1>1, <2>1, <2>2 DEF Inv, InterruptWaits
  <1>6. TellsOnce
    BY <1>2 DEF StopTorn, Ends, StopDone, TellsOnce
  <1>7. QED
    BY <1>5, <1>6

(* No other step claims a review, and only a completed one tells.          *)
LEMMA StepHonours ==
  ASSUME Inv, Next
  PROVE  Honours /\ TellsOnce
  <1>1. ASSUME NEW t \in Turns, NEW why, StopHook(t, why) PROVE Honours /\ TellsOnce
    BY <1>1, StopHonours
  <1>2. ASSUME NEW r \in Reviews, Awaited(r) \/ GivesUp(r) PROVE Honours /\ TellsOnce
    <2>1. store.review[r].state # "none"
      BY <1>2, AwaitedLeaves, WorkedOn
    <2>2. QED
      BY <1>2, <2>1, AwaitedLeaves DEF Honours, TellsOnce
  <1>3. ASSUME store'.review = store.review,
               \A r \in Reviews : run'[r] = run[r] \/ run'[r] # "feedback"
        PROVE  Honours /\ TellsOnce
    BY <1>3 DEF Honours, TellsOnce
  <1>4. store \in Stores
    BY DEF Inv, TypeOK
  <1>5. ASSUME NEW t \in Interrupts, InterruptHook(t) PROVE Honours /\ TellsOnce
    <2>1. store'.review = store.review
      BY <1>4, <1>5 DEF InterruptHook, Recorded, Stores
    <2>2. \A r \in Reviews : run'[r] = run[r] \/ run'[r] # "feedback"
      BY <1>5 DEF InterruptHook, Ends
    <2>3. QED
      BY <1>3, <2>1, <2>2
  <1>6. ASSUME NEW g \in Goals, SwitchGoal(g) PROVE Honours /\ TellsOnce
    BY <1>3, <1>4, <1>6 DEF SwitchGoal, Stores
  <1>7. CASE Close
    BY <1>3, <1>7 DEF Close
  <1>8. CASE Exit
    BY <1>3, <1>8 DEF Exit, Ends
  <1>9. CASE Restart
    BY <1>3, <1>9 DEF Restart, reviewVars
  <1>10. QED
    BY <1>1, <1>2, <1>5, <1>6, <1>7, <1>8, <1>9 DEF Next

(* A turn whose interruption is on record when its Stop comes is not       *)
(* reviewed (recordInterrupt, isSuppressed, the record of hooks).          *)
THEOREM InterruptedNotReviewed == Spec => InterruptHonoured
  <1>1. Inv /\ [Next]_vars => [Honours]_vars
    BY StepHonours
  <1>2. QED
    BY <1>1, Invariance, PTL DEF Spec, InterruptHonoured, Honours

(* Feedback is dispatched once, to an enabled goal whose reviewer asked    *)
(* for it.                                                                 *)
THEOREM ToldOnce == Spec => FeedbackOnce
  <1>1. Inv /\ [Next]_vars => [TellsOnce]_vars
    BY StepHonours
  <1>2. QED
    BY <1>1, Invariance, PTL DEF Spec, FeedbackOnce, TellsOnce
=============================================================================

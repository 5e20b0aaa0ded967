------------------------------ MODULE Subagents ------------------------------
(***************************************************************************)
(* The registry of subagents (src/src/control.js): children that hooksd    *)
(* has the native server create, for a user's request, an occurrence of a  *)
(* schedule (src/src/timer.js) or a goal review (module GoalReview).       *)
(*                                                                         *)
(* A creation awaits the native server and then registers the child in the *)
(* stored registry.  A stop reads the registry, awaits the child's status  *)
(* and perhaps its interruption, and then writes back the whole registry   *)
(* it read before.  An action is what runs between two awaits.             *)
(*                                                                         *)
(* A tick of the timer reads the map of schedules once, and whenever it    *)
(* changes the state of one it writes that whole map back (finishing a     *)
(* schedule that was turned off meanwhile excepted), over whatever the     *)
(* operations on schedules stored since.                                   *)
(***************************************************************************)
EXTENDS Naturals, FiniteSets

CONSTANTS
  Requests,     \* subagent.create requests of users
  Occurrences,  \* one-shot schedules with action subagent
  Reviews,      \* ids of goal reviews
  Stoppers,     \* subagent.stop requests
  MaxBorn,      \* bound: children created for one purpose
  MaxFaults,    \* bound: crashes of the daemon
  MaxTouched    \* bound: operations on each schedule

Works == Requests \cup Occurrences \cup Reviews
Children == Works \X (1 .. MaxBorn)

ASSUME SubagentsAssumption ==
  /\ MaxBorn \in Nat \ {0} /\ MaxFaults \in Nat /\ MaxTouched \in Nat
  /\ Requests \cap Occurrences = {} /\ Reviews \cap (Requests \cup Occurrences) = {}

VARIABLES
  up, faults,
  work,      \* durable: what a purpose has come to; a schedule may be off
  registry,  \* durable: the registered children
  making,    \* purposes whose create request awaits its answer
  stop,      \* per stop request: what it awaits, its child, the registry it read
  born,      \* native: how many children were created for a purpose
  tick,      \* the tick that runs: the schedules it read, those it served
  touched    \* history: operations on each schedule

registryVars == <<up, faults, work, registry, making, stop, born, tick, touched>>

NoStop == [at |-> "idle", child |-> <<>>, read |-> <<>>]
NoTick == [on |-> FALSE, read |-> [w \in Occurrences |-> "new"], served |-> {}]
RegistryStates == {"none", "active", "released"}
Claimable == {"new", "asked"}
WorkStates == Claimable \cup {"done", "off"}
Ticks == [on : BOOLEAN, read : [Occurrences -> WorkStates], served : SUBSET Occurrences]

RegistryTypeOK ==
  /\ up \in BOOLEAN /\ faults \in 0 .. MaxFaults
  /\ work \in [Works -> WorkStates]
  /\ registry \in [Children -> RegistryStates]
  /\ making \subseteq Works
  /\ \A k \in Stoppers : /\ stop[k].at \in {"idle", "status", "interrupt"}
                         /\ stop[k].at # "idle" => stop[k].child \in Children
  /\ born \in [Works -> 0 .. MaxBorn]
  /\ tick \in Ticks /\ touched \in [Occurrences -> 0 .. MaxTouched]

RegistryInit ==
  /\ up = TRUE /\ faults = 0
  /\ work = [w \in Works |-> "new"]
  /\ registry = [c \in Children |-> "none"]
  /\ making = {}
  /\ stop = [k \in Stoppers |-> NoStop]
  /\ born = [w \in Works |-> 0]
  /\ tick = NoTick /\ touched = [w \in Occurrences |-> 0]
-----------------------------------------------------------------------------
(* A user asks once.                                                       *)
Asks(w) ==
  /\ up /\ w \in Requests /\ work[w] = "new"
  /\ making' = making \cup {w} /\ work' = [work EXCEPT ![w] = "asked"]
  /\ UNCHANGED <<up, faults, registry, stop, born, tick, touched>>

(* One tick at a time; what it reads is what its writes put back.          *)
Serving == tick.on /\ making \cap Occurrences = {}
Stored(read) == [w \in Works |-> IF w \in Occurrences THEN read[w] ELSE work[w]]

TickStarts ==
  /\ up /\ ~tick.on
  /\ tick' = [on |-> TRUE, read |-> [w \in Occurrences |-> work[w]], served |-> {}]
  /\ UNCHANGED <<up, faults, work, registry, making, stop, born, touched>>

(* A due schedule of the tick's map is claimed, be it that a dead daemon   *)
(* claimed it before.                                                      *)
Claimed(w) ==
  /\ Serving /\ w \in Occurrences \ tick.served /\ tick.read[w] \in Claimable
  /\ tick' = [tick EXCEPT !.read[w] = "asked", !.served = @ \cup {w}]
  /\ work' = Stored(tick'.read) /\ making' = making \cup {w}
  /\ UNCHANGED <<up, faults, registry, stop, born, touched>>

(* A schedule of another kind is served; a tick ends, perhaps in an error. *)
OtherServed ==
  /\ Serving /\ work' = Stored(tick.read)
  /\ UNCHANGED <<up, faults, registry, making, stop, born, tick, touched>>

TickEnds ==
  /\ Serving /\ tick' = NoTick
  /\ UNCHANGED <<up, faults, work, registry, making, stop, born, touched>>

(* finishOccurrence: a schedule that was turned off meanwhile stays so,    *)
(* but the tick's map goes on saying that it is claimed.                   *)
FinishedAlone(w) ==
  /\ UNCHANGED tick
  /\ work' = IF w \in Occurrences /\ work[w] = "off" THEN work
             ELSE [work EXCEPT ![w] = "done"]

Finished(w) ==
  IF w \in Occurrences /\ work[w] = "off" THEN UNCHANGED <<work, tick>>
  ELSE IF w \in Occurrences
  THEN tick' = [tick EXCEPT !.read[w] = "done"] /\ work' = Stored(tick'.read)
  ELSE work' = [work EXCEPT ![w] = "done"] /\ UNCHANGED tick

(* Operations on a schedule: it is stopped, paused or removed; it is       *)
(* resumed, updated with its time or put anew, whatever has come of it.    *)
Touches(w, state) ==
  /\ up /\ touched[w] < MaxTouched
  /\ touched' = [touched EXCEPT ![w] = @ + 1]
  /\ work' = [work EXCEPT ![w] = state]
  /\ UNCHANGED <<up, faults, registry, making, stop, born, tick>>

NextChild(w) == <<w, born[w] + 1>>
Bears(w) == born[w] < MaxBorn /\ born' = [born EXCEPT ![w] = @ + 1]

(* registerSubagent reads the registry anew; a copy from before the await  *)
(* would lose the others.                                                  *)
RegisteredAlone(c) == [d \in Children |-> IF d = c THEN "active" ELSE "none"]
Registered(c) == [registry EXCEPT ![c] = "active"]

(* The answer to a creation: the child and its registration, an error, or  *)
(* an error although the child was born (a late answer).                   *)
CreateAnswers(w, out) ==
  /\ w \in making
  /\ making' = making \ {w} /\ Finished(w)
  /\ \/ out = "made" /\ Bears(w) /\ registry' = Registered(NextChild(w))
     \/ out = "lost" /\ Bears(w) /\ UNCHANGED registry
     \/ out = "refused" /\ UNCHANGED <<born, registry>>
  /\ UNCHANGED <<up, faults, stop, touched>>

(* stopSubagent up to its first await: a released child is left alone.     *)
StopAsks(k, c) ==
  /\ up /\ stop[k].at = "idle" /\ registry[c] = "active"
  /\ stop' = [stop EXCEPT ![k] = [at |-> "status", child |-> c, read |-> registry]]
  /\ UNCHANGED <<up, faults, work, registry, making, born, tick, touched>>

Releases(k) ==
  /\ registry' = [stop[k].read EXCEPT ![stop[k].child] = "released"]
  /\ stop' = [stop EXCEPT ![k] = NoStop]

(* A child without an active turn is released; a working one whose turn is *)
(* the registered one is interrupted first; anything else is an error.     *)
StopObserves(k, state) ==
  /\ stop[k].at = "status"
  /\ CASE state = "quiet" -> Releases(k)
       [] state = "working" ->
            stop' = [stop EXCEPT ![k].at = "interrupt"] /\ UNCHANGED registry
       [] OTHER -> stop' = [stop EXCEPT ![k] = NoStop] /\ UNCHANGED registry
  /\ UNCHANGED <<up, faults, work, making, born, tick, touched>>

StopInterrupts(k, ok) ==
  /\ stop[k].at = "interrupt"
  /\ IF ok THEN Releases(k)
     ELSE stop' = [stop EXCEPT ![k] = NoStop] /\ UNCHANGED registry
  /\ UNCHANGED <<up, faults, work, making, born, tick, touched>>
-----------------------------------------------------------------------------
(* The daemon dies: a creation on its way may still have made its child.   *)
(* The answer of one may have been registered, but not yet reported.       *)
Forgets ==
  /\ up' = FALSE
  /\ making' = {} /\ stop' = [k \in Stoppers |-> NoStop] /\ tick' = NoTick

RegistryCrash ==
  /\ up /\ faults < MaxFaults /\ faults' = faults + 1
  /\ Forgets
  /\ \E B \in SUBSET {w \in making : born[w] < MaxBorn} :
       /\ born' = [w \in Works |-> IF w \in B THEN born[w] + 1 ELSE born[w]]
       /\ \/ UNCHANGED registry
          \/ \E w \in B : registry' = Registered(NextChild(w))
  /\ UNCHANGED <<work, touched>>

RegistryRestart ==
  /\ ~up /\ up' = TRUE
  /\ UNCHANGED <<faults, work, registry, making, stop, born, tick, touched>>

RegistryStep ==
  \/ \E w \in Requests : Asks(w)
  \/ TickStarts \/ OtherServed \/ TickEnds
  \/ \E w \in Occurrences :
       Claimed(w) \/ Touches(w, "off") \/ Touches(w, "new")
  \/ \E w \in Requests \cup Occurrences, out \in {"made", "lost", "refused"} :
       CreateAnswers(w, out)
  \/ \E k \in Stoppers :
       \/ \E c \in Children : StopAsks(k, c)
       \/ \E state \in {"quiet", "working", "error"} : StopObserves(k, state)
       \/ \E ok \in BOOLEAN : StopInterrupts(k, ok)

RegistrySpec ==
  RegistryInit /\ [][RegistryStep \/ RegistryCrash \/ RegistryRestart]_registryVars
-----------------------------------------------------------------------------
(* A purpose gets one child.  Only a schedule may get another: one for     *)
(* each death of the daemon, and one for each operation on this schedule   *)
(* (resumed or put anew it is due again, and a stop while its child is     *)
(* made can be undone by the tick), never for what happens to its          *)
(* neighbours or for a creation that failed or whose answer was lost.      *)
OneChild ==
  \A w \in Works :
    born[w] <= 1 + (IF w \in Occurrences THEN faults + touched[w] ELSE 0)

(* The registry loses what it knew of a child (that it exists, or that it  *)
(* was released) only when a stop of another child writes back what it had *)
(* read before it awaited that other child.                                *)
Knows(state) == CASE state = "none" -> 0 [] state = "active" -> 1 [] OTHER -> 2

RegistryForgets ==
  [][\A c \in Children :
       Knows(registry'[c]) < Knows(registry[c]) =>
         \E k \in Stoppers : /\ stop[k].at # "idle" /\ stop'[k].at = "idle"
                             /\ stop[k].child # c
                             /\ stop[k].read[c] = registry'[c]]_registryVars
=============================================================================

----------------------------- MODULE GoalReview ------------------------------
(***************************************************************************)
(* Hook intake (src/src/daemon.js) and the reviews of goals that a Stop    *)
(* hook starts (src/src/goal-review.js), over the registry of subagents    *)
(* (module Subagents).  All turns are turns of one session; a goal is the  *)
(* session's when its record names it.                                     *)
(*                                                                         *)
(* A Stop that claims a review writes the store several times in one       *)
(* synchronous run and starts the review, which then lives in the memory   *)
(* of hooksd alone: it awaits the creation of the reviewer, polls its      *)
(* result with a sleep in between, and awaits the dispatch of a feedback   *)
(* intent (module Delivery).  A hook may be delivered again.               *)
(*                                                                         *)
(* What LongHorizon operations do to a goal (module LongHorizon) is here   *)
(* that it is enabled or not.  Reports are abstracted to what decides.     *)
(***************************************************************************)
EXTENDS Subagents, Sequences, SequencesExt

CONSTANTS
  Goals,   \* LongHorizon goals of the session
  Turns,   \* turns of the session
  Interrupts, \* turns that may be interrupted; "*": one without its turn
  Budget,  \* review_budget of each goal
  MaxOps   \* bound: operations on goals

ASSUME GoalReviewAssumption ==
  /\ Reviews = Goals \X Turns
  /\ "*" \notin Turns /\ Interrupts \subseteq Turns \cup {"*"}
  /\ Budget \in [Goals -> Nat \ {0}] /\ MaxOps \in Nat

VARIABLES
  store,   \* durable: enabled goals, their review counts, reviews,
           \* suppressed turns ("*": the next Stop), recorded hooks
  run,     \* what the review awaits, in memory
  closed,  \* the review runner is closed by a shutdown
  ops,
  torn,    \* history: turns whose Stop hook the daemon died in
  left,    \* history: reviews a shutdown or a crash left unfinished
  told     \* history: reviews whose feedback intent was dispatched

reviewVars == <<store, run, closed, ops, torn, left, told>>
vars == <<registryVars, reviewVars>>

Hooks == ({"stop"} \X Turns) \cup ({"interrupt"} \X Interrupts)
ReviewStates ==
  {"none", "suppressed", "claimed", "reviewing", "completed", "cancelled",
   "failed", "unresolved"}
Pending == {"claimed", "reviewing"}
Verdicts == {"none", "pass", "feedback"}
NoReview == [state |-> "none", verdict |-> "none"]

Stores ==
  [enabled : SUBSET Goals, count : [Goals -> Nat],
   review : [Reviews -> [state : ReviewStates, verdict : Verdicts]],
   suppressed : SUBSET Interrupts, seen : SUBSET Hooks]

TypeOK ==
  /\ RegistryTypeOK
  /\ store \in Stores
  /\ run \in [Reviews -> {"none", "create", "read", "sleep", "stuck", "feedback"}]
  /\ closed \in BOOLEAN /\ ops \in 0 .. MaxOps
  /\ torn \subseteq Turns /\ left \subseteq Reviews /\ told \subseteq Reviews

(* Goals may have been registered before the first hook.                   *)
Init ==
  /\ RegistryInit
  /\ \E E \in SUBSET Goals :
       store = [enabled |-> E, count |-> [g \in Goals |-> 0],
                review |-> [r \in Reviews |-> NoReview],
                suppressed |-> {}, seen |-> {}]
  /\ run = [r \in Reviews |-> "none"]
  /\ closed = FALSE /\ ops = 0
  /\ torn = {} /\ left = {} /\ told = {}
-----------------------------------------------------------------------------
(* evaluateReviewerReport.  worst: the worst finding; sound: a blocked     *)
(* review that is reasonable, not solvable now, tried enough and evidenced *)
Reports ==
  [functional : {"complete", "incomplete", "blocked"}, sound : BOOLEAN,
   architecture : {"compliant", "non_compliant", "uncertain"},
   worst : {"none", "P2", "P1", "P0"}]

FeedbackRequired(report) ==
  \/ report.functional = "incomplete"
  \/ report.functional = "blocked" /\ ~report.sound
  \/ report.architecture # "compliant"
  \/ report.worst \in {"P0", "P1"}

ReportVerdicts ==
  {IF FeedbackRequired(report) THEN "feedback" ELSE "pass" : report \in Reports}
-----------------------------------------------------------------------------
(* onStop: the stores its synchronous run writes.  The operator stopless   *)
(* is on exactly while a goal is enabled (SwitchesFollow of LongHorizon).  *)
SuppressesLast(d, t) == "*" \in d.suppressed
Suppresses(d, t) == d.suppressed \cap {t, "*"} # {}

(* findGoal: exactly one enabled goal of the session.                      *)
Found(d) == {g \in d.enabled : d.enabled = {g}}

CountedNot(d, r) == d
WithReview(d, r, state) == [d EXCEPT !.review[r].state = state]
Counted(d, r) == [d EXCEPT !.count[r[1]] = @ + 1]

(* claimReview, followed by the start of runReview: without a readable     *)
(* goal file the review fails at once.                                     *)
Claims(d, r) ==
  CASE d.review[r].state # "none" -> <<>>
    [] d.review[r].state = "none" /\ d.count[r[1]] >= Budget[r[1]] ->
         <<WithReview(d, r, "suppressed")>>
    [] OTHER -> LET a == WithReview(d, r, "claimed") IN <<a, Counted(a, r)>>

OnStop(d, t) ==
  IF closed \/ d.enabled = {} THEN <<>>
  ELSE IF Suppresses(d, t)
  THEN <<[d EXCEPT !.suppressed = @ \ {t, "*"}]>>
  ELSE IF Found(d) = {} THEN <<>>
  ELSE LET g == CHOOSE g \in Found(d) : TRUE IN Claims(d, <<g, t>>)

(* The reviews in memory end with the process.                             *)
Ends ==
  /\ run' = [r \in Reviews |-> "none"] /\ closed' = FALSE
  /\ left' = left \cup {r \in Reviews : store'.review[r].state \in Pending}

(* handleHook: a hook on record is not processed again; otherwise it is    *)
(* recorded when its processing is done.                                   *)
Recorded(d, h) == [d EXCEPT !.seen = @ \cup {h}]

Fresh(d, w) == {r \in Reviews : d.review[r].state = "none"
                                /\ \E k \in DOMAIN w : w[k].review[r].state = "claimed"}

Failed(d, C) ==
  [d EXCEPT !.review = [r \in Reviews |-> IF r \in C THEN [@[r] EXCEPT !.state = "failed"]
                                          ELSE @[r]]]

(* why: the hook says stop_hook_active, the goal file cannot be read, or   *)
(* neither.                                                                *)
StopHook(t, why) ==
  LET claims == IF why = "active" THEN <<>> ELSE OnStop(store, t)
      C == Fresh(store, claims)
      w == IF why = "unreadable" /\ C # {} THEN Append(claims, Failed(Last(claims), C))
           ELSE claims
      started == IF why = "unreadable" THEN {} ELSE C
  IN
  /\ up /\ <<"stop", t>> \notin store.seen
  /\ \/ /\ store' = Recorded(IF w = <<>> THEN store ELSE Last(w), <<"stop", t>>)
        /\ run' = [r \in Reviews |-> IF r \in started THEN "create" ELSE run[r]]
        /\ making' = making \cup started
        /\ work' = [p \in Works |-> IF p \in started THEN "asked" ELSE work[p]]
        /\ UNCHANGED <<up, faults, closed, stop, registry, born, tick, touched, torn, left>>
     \/ /\ RegistryCrash
        /\ \E k \in DOMAIN w : store' = w[k]
        /\ Ends
        /\ torn' = torn \cup {t}
  /\ UNCHANGED <<ops, told>>

(* recordInterrupt, with the turn that was interrupted or without one,     *)
(* and then the record of the hook; the daemon may die between the two.    *)
InterruptHook(t) ==
  LET d == [store EXCEPT !.suppressed = @ \cup {t}] IN
  /\ up /\ <<"interrupt", t>> \notin store.seen
  /\ \/ /\ store' = Recorded(d, <<"interrupt", t>>)
        /\ UNCHANGED <<registryVars, run, closed, left>>
     \/ RegistryCrash /\ store' = d /\ Ends
  /\ UNCHANGED <<ops, torn, told>>
-----------------------------------------------------------------------------
(* runReview, from await to await.                                         *)
Moves(r, phase) == run' = [run EXCEPT ![r] = phase]
QuitsSilently(r, state) == Moves(r, "none") /\ UNCHANGED store
QuitsTimedOut(r, state) == store' = WithReview(store, r, "timed_out") /\ Moves(r, "none")
Quits(r, state) == store' = WithReview(store, r, state) /\ Moves(r, "none")

(* The reviewer is registered and its result asked for; an error fails the *)
(* review, and so does a shutdown, as unresolved.                          *)
ReviewerCreated(r, out) ==
  /\ run[r] = "create" /\ CreateAnswers(r, out)
  /\ CASE out = "made" /\ closed -> Quits(r, "unresolved")
       [] out = "made" /\ ~closed ->
            store' = WithReview(store, r, "reviewing") /\ Moves(r, "read")
       [] OTHER -> Quits(r, "failed")
  /\ UNCHANGED <<closed, ops, torn, left, told>>

ResultIs(r, result) ==
  /\ run[r] = "read"
  /\ CASE result = "running" -> Moves(r, "sleep") /\ UNCHANGED store
       [] result = "unavailable" -> Quits(r, "unresolved")
       [] OTHER -> Quits(r, "failed")
  /\ UNCHANGED <<registryVars, closed, ops, torn, left, told>>

(* A report is recorded; feedback goes only to a goal that is still        *)
(* enabled.                                                                *)
WithVerdict(d, r, verdict) ==
  [d EXCEPT !.review[r] = [state |-> "completed", verdict |-> verdict]]

ResultCompletedAlways(r, verdict) ==
  /\ run[r] = "read"
  /\ store' = WithVerdict(store, r, verdict)
  /\ IF verdict = "pass" THEN Moves(r, "none") /\ UNCHANGED told
     ELSE Moves(r, "feedback") /\ told' = told \cup {r}
  /\ UNCHANGED <<registryVars, closed, ops, torn, left>>

ResultCompleted(r, verdict) ==
  LET d == WithVerdict(store, r, verdict) IN
  /\ run[r] = "read"
  /\ IF verdict = "pass"
     THEN store' = d /\ Moves(r, "none") /\ UNCHANGED told
     ELSE IF r[1] \notin store.enabled
     THEN store' = WithReview(d, r, "cancelled") /\ Moves(r, "none") /\ UNCHANGED told
     ELSE store' = d /\ Moves(r, "feedback") /\ told' = told \cup {r}
  /\ UNCHANGED <<registryVars, closed, ops, torn, left>>

(* waitForResult after its sleep: it gives up when the runner is closed    *)
(* and after its deadline, otherwise it reads again.                       *)
Wakes(r) ==
  /\ run[r] = "sleep" /\ ~closed
  /\ Moves(r, "read")
  /\ UNCHANGED <<registryVars, store, closed, ops, torn, left, told>>

GivesUpWhenClosed(r) ==
  /\ run[r] = "sleep" /\ closed
  /\ Quits(r, "unresolved")
  /\ UNCHANGED <<registryVars, closed, ops, torn, left, told>>

GivesUp(r) ==
  /\ run[r] = "sleep"
  /\ Quits(r, "unresolved")
  /\ UNCHANGED <<registryVars, closed, ops, torn, left, told>>

(* A dispatch that throws makes the completed review a failed one.         *)
FeedbackDispatched(r) ==
  /\ run[r] = "feedback"
  /\ (Moves(r, "none") /\ UNCHANGED store) \/ Quits(r, "failed")
  /\ UNCHANGED <<registryVars, closed, ops, torn, left, told>>
-----------------------------------------------------------------------------
(* Operations of the control plane, as far as they matter here.            *)
SwitchGoal(g) ==
  /\ up /\ ops < MaxOps /\ ops' = ops + 1
  /\ LET E == IF g \in store.enabled THEN store.enabled \ {g} ELSE store.enabled \cup {g}
     IN store' = [store EXCEPT !.enabled = E]
  /\ UNCHANGED <<registryVars, run, closed, torn, left, told>>

(* shutdown: close() clears the timers of sleeping reviews, which then     *)
(* never wake; the others go on until the process exits.                   *)
Close ==
  /\ up /\ ~closed /\ faults < MaxFaults
  /\ closed' = TRUE
  /\ run' = [r \in Reviews |-> IF run[r] = "sleep" THEN "stuck" ELSE run[r]]
  /\ UNCHANGED <<registryVars, store, ops, torn, left, told>>

(* The process ends, after a shutdown or in a crash.                       *)
Exit ==
  /\ RegistryCrash
  /\ UNCHANGED <<store, ops, torn, told>>
  /\ Ends

(* A start does not take the reviews on record up again.                   *)
Restart == RegistryRestart /\ UNCHANGED reviewVars

Awaited(r) ==
  \/ \E out \in {"made", "lost", "refused"} : ReviewerCreated(r, out)
  \/ \E result \in {"running", "unavailable", "failed", "malformed"} : ResultIs(r, result)
  \/ \E verdict \in ReportVerdicts : ResultCompleted(r, verdict)
  \/ Wakes(r)
  \/ FeedbackDispatched(r)

Next ==
  \/ \E t \in Turns, why \in {"active", "unreadable", "plain"} : StopHook(t, why)
  \/ \E t \in Interrupts : InterruptHook(t)
  \/ \E r \in Reviews : Awaited(r) \/ GivesUp(r)
  \/ \E g \in Goals : SwitchGoal(g)
  \/ Close \/ Exit \/ Restart

Spec == Init /\ [][Next]_vars

(* Every await ends, sleeps too; a review that keeps sleeping wakes at     *)
(* last after its deadline.                                                *)
FairSpec ==
  Spec /\ \A r \in Reviews : WF_run(Awaited(r)) /\ SF_run(GivesUp(r))
-----------------------------------------------------------------------------
(* The budget bounds the reviews of a goal, whatever goals and hooks come  *)
(* and go; a turn whose Stop the daemon died in, between the claim and its *)
(* count, is not counted.                                                  *)
BudgetKept ==
  \A g \in Goals :
    Cardinality({r \in Reviews : r[2] \notin torn /\
      r[1] = g /\ store.review[r].state \notin {"none", "suppressed"}}) <= Budget[g]

(* A review on record as pending has its task, unless a shutdown or a      *)
(* crash left it; and a task works on a review that is not over.           *)
PendingHasTask ==
  \A r \in Reviews :
    /\ store.review[r].state \in Pending => run[r] # "none" \/ r \in left
    /\ run[r] = "create" => store.review[r].state = "claimed" /\ r \in making
    /\ run[r] \in {"read", "sleep", "stuck"} => store.review[r].state = "reviewing"
    /\ run[r] = "feedback" => store.review[r] = [state |-> "completed", verdict |-> "feedback"]

(* A turn whose interruption was recorded before its Stop came is not      *)
(* reviewed: the record is consumed by that Stop alone.  Only a daemon     *)
(* that dies between consuming it and recording the hook reviews the turn  *)
(* when its Stop is repeated.                                              *)
InterruptHonoured ==
  [][\A r \in Reviews :
       /\ store.review[r].state = "none" /\ store'.review[r].state = "claimed"
       /\ <<"interrupt", r[2]>> \in store.seen
       => r[2] \in torn]_vars

(* Feedback goes to an enabled goal whose review asked for it, once.       *)
FeedbackOnce ==
  [][\A r \in Reviews :
       run[r] # "feedback" /\ run'[r] = "feedback"
       => /\ r \notin told /\ r[1] \in store.enabled
          /\ store'.review[r].verdict = "feedback"]_vars

(* Every review under way comes to an end, unless the daemon goes down.    *)
ReviewEnds ==
  \A r \in Reviews :
    run[r] \notin {"none", "stuck"} ~> run[r] = "none" \/ closed
=============================================================================

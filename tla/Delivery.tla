------------------------------ MODULE Delivery ------------------------------
(***************************************************************************)
(* The send path of HooksDaemon (src/src/daemon.js): a dispatch of an      *)
(* intent reads the target's status and sends, defers or fails it; a flush *)
(* resumes the deferred intents of one target; a crash forgets every task  *)
(* in flight and a restart reads the durable outbox back.                  *)
(*                                                                         *)
(* The daemon is one Node.js process: what it does between two awaits is   *)
(* one action here, and the only places where tasks interleave are the     *)
(* awaits themselves.  An action that ends in an await leaves the task in  *)
(* a phase that names what it waits for.                                   *)
(*                                                                         *)
(* The native server is external and is modelled by what the daemon can    *)
(* see of it: a request that crossed may be queued by the server before or *)
(* after the daemon stopped waiting, may be refused with a definitive      *)
(* error before it is queued, or may vanish.                               *)
(***************************************************************************)
EXTENDS Protocol, FiniteSets

CONSTANTS
  Intents,      \* the intents (by intent_id)
  Sessions,     \* the target sessions
  Flushers,     \* the flushPending calls that may be in flight together
  TargetOf,     \* target of each intent
  SendMode,     \* send_mode of each intent
  BusyPolicy,   \* busy_policy of each intent
  Operation,    \* operation of each intent
  Expiring,     \* the intents that carry expires_at
  MaxAttempt,   \* bound: attempts per intent the native server answers
  MaxCrashes    \* bound: crashes of the daemon

ASSUME DeliveryAssumption ==
  /\ TargetOf \in [Intents -> Sessions]
  /\ SendMode \in [Intents -> SendModes]
  /\ BusyPolicy \in [Intents -> BusyPolicies]
  /\ Operation \in [Intents -> Operations]
  /\ Expiring \subseteq Intents
  /\ MaxAttempt \in Nat /\ MaxAttempt >= 2
  /\ MaxCrashes \in Nat

VARIABLES
  store,        \* durable: the outbox record of each intent
  dispatching,  \* inflightIntents: what the dispatch of an intent awaits
  flushPc,      \* what each flush awaits
  flushTarget,  \* the session a flush serves
  flushQueue,   \* the deferred intents a flush listed and has not tried yet
  flushIntent,  \* the intent a flush is sending, or whose send it joined, if any
  native,       \* external: what became of each attempt of each intent
  past,         \* the intents whose expires_at is in the past
  answer,       \* history: what the first dispatch of an intent answered
  up,           \* the daemon process runs
  crashes

flushVars == <<flushPc, flushTarget, flushQueue, flushIntent>>
vars == <<store, dispatching, flushVars, native, past, answer, up, crashes>>

(* Attempt 0 stands for evidence without an attempt id, 1 for the intent id *)
(* itself and n + 1 for "<intent>:resume:n".                                *)
Attempts == 1 .. MaxAttempt
NoAttempt == 0
Decisions ==
  {"none", "deferred", "sending", "sent", "unknown_delivery", "failed",
   "fail_closed", "expired", "skipped", "emitted"}
Record == [state : DeliveryStates, decision : Decisions, attempt : 0 .. MaxAttempt]
Rec(s, d, a) == [state |-> s, decision |-> d, attempt |-> a]
NoRecord == Rec("absent", "none", NoAttempt)

TypeOK ==
  /\ store \in [Intents -> Record]
  /\ dispatching \in [Intents -> {"no", "status", "send"}]
  /\ flushPc \in [Flushers -> {"idle", "status", "loop", "send", "join"}]
  /\ flushTarget \in [Flushers -> Sessions]
  /\ flushQueue \in [Flushers -> SUBSET Intents]
  /\ flushIntent \in [Flushers -> SUBSET Intents]
  /\ native \in [Intents -> [Attempts -> {"unused", "wire", "queued", "gone"}]]
  /\ past \in SUBSET Expiring
  /\ answer \in [Intents -> Decisions]
  /\ up \in BOOLEAN
  /\ crashes \in 0 .. MaxCrashes

Init ==
  /\ store = [i \in Intents |-> NoRecord]
  /\ dispatching = [i \in Intents |-> "no"]
  /\ flushPc = [f \in Flushers |-> "idle"]
  /\ flushTarget \in [Flushers -> Sessions]
  /\ flushQueue = [f \in Flushers |-> {}]
  /\ flushIntent = [f \in Flushers |-> {}]
  /\ native = [i \in Intents |-> [a \in Attempts |-> "unused"]]
  /\ past = {}
  /\ answer = [i \in Intents |-> "none"]
  /\ up = TRUE
  /\ crashes = 0
-----------------------------------------------------------------------------
(* What dispatchOnce decides from one status answer.                       *)
Defers(i, o) ==
  \/ o.input
  \/ o.state = "working" /\ SendMode[i] = "idle_only"
  \/ o.state \in DeferredSession \ {"working"}

Gate(i, o) ==
  CASE o.state \in FailClosedSession -> "fail"
    [] o.state \notin FailClosedSession /\ Defers(i, o) -> "defer"
    [] OTHER ->
         IF \/ Operation[i] = "interrupt"
            \/ Operation[i] = "steer" /\ ~(o.state = "working" /\ o.turn)
         THEN "fail" ELSE "send"

(* The first time a busy answer is retried is told from the second only by *)
(* the attempt on record: a daemon that forgot it would reuse attempt 2.   *)
NextAttemptForgets(i) == 2

(* nextResumeAttemptId: a fresh identity after a busy answer.              *)
NextAttempt(i) == IF store[i].attempt <= 1 THEN 2 ELSE store[i].attempt + 1

Put(i, r) == store' = [store EXCEPT ![i] = r]
Answer(i, d) == answer' = [answer EXCEPT ![i] = d]
Await(i, what) == dispatching' = [dispatching EXCEPT ![i] = what]

(* send up to its await: the record is reserved, then the call crosses.    *)
Cross(i, a) ==
  /\ Put(i, Rec("sending", "sending", a))
  /\ native' = [native EXCEPT ![i][a] = "wire"]
-----------------------------------------------------------------------------
(* dispatch: an intent without a record starts; one that has a record, or  *)
(* is in flight, changes nothing and is answered from it.                  *)
DispatchExpired(i) ==
  /\ up /\ store[i] = NoRecord /\ dispatching[i] = "no"
  /\ i \in past
  /\ Put(i, Rec("expired", "expired", NoAttempt))
  /\ Answer(i, "expired")
  /\ UNCHANGED <<dispatching, flushVars, native, past, up, crashes>>

Dispatch(i) ==
  /\ up /\ store[i] = NoRecord /\ dispatching[i] = "no"
  /\ i \notin past
  /\ Await(i, "status")
  /\ UNCHANGED <<store, flushVars, native, past, answer, up, crashes>>

(* session_status threw, or the gate refuses the intent.                   *)
DispatchFails(i) ==
  /\ dispatching[i] = "status"
  /\ Put(i, Rec("failed", "failed", NoAttempt))
  /\ Answer(i, "fail_closed")
  /\ Await(i, "no")
  /\ UNCHANGED <<flushVars, native, past, up, crashes>>

DispatchObserves(i, o) ==
  /\ dispatching[i] = "status"
  /\ \/ /\ Gate(i, o) = "fail"
        /\ DispatchFails(i)
     \/ /\ Gate(i, o) = "defer"
        /\ Put(i, Rec("deferred", "deferred", NoAttempt))
        /\ Answer(i, "deferred")
        /\ Await(i, "no")
        /\ UNCHANGED <<flushVars, native, past, up, crashes>>
     \/ /\ Gate(i, o) = "send"
        /\ Cross(i, 1)
        /\ Await(i, "send")
        /\ UNCHANGED <<flushVars, past, answer, up, crashes>>
-----------------------------------------------------------------------------
(* How a send ends: what the transport may answer for attempt a, and the   *)
(* record the daemon writes for it.                                        *)
Outcomes == {"accepted", "delivered", "busy", "refused", "uncertain"}

Possible(i, a, k) ==
  CASE k \in {"accepted", "delivered"} -> native[i][a] = "queued"
    [] k = "busy" -> native[i][a] = "wire" /\ a < MaxAttempt
    [] k = "refused" -> native[i][a] = "wire"
    [] OTHER -> TRUE

(* The record of a send nobody can vouch for, preceded by three daemons    *)
(* that get it wrong: one that tries again later, one that gives up, one   *)
(* that believes the message went.                                         *)
UnknownRetried(a) == Rec("deferred", "deferred", a)
UnknownDropped(a) == Rec("failed", "failed", a)
UnknownBelieved(a) == Rec("accepted", "sent", a)
Unknown(a) == Rec("unknown_delivery", "unknown_delivery", a)

Settled(k, a) ==
  CASE k = "accepted"  -> Rec("accepted", "sent", a)
    [] k = "delivered" -> Rec("delivered", "sent", a)
    [] k = "busy"      -> Rec("deferred", "deferred", a)
    [] k = "refused"   -> Rec("failed", "failed", NoAttempt)
    [] k = "uncertain" -> Unknown(a)

Told(k) ==
  CASE k \in {"accepted", "delivered"} -> "sent"
    [] k = "busy" -> "deferred"
    [] k = "refused" -> "fail_closed"
    [] k = "uncertain" -> "unknown_delivery"

NativeAnswers(i, a, k) ==
  native' = IF k \in {"busy", "refused"}
            THEN [native EXCEPT ![i][a] = "gone"] ELSE native

DispatchReply(i, k) ==
  /\ dispatching[i] = "send"
  /\ LET a == store[i].attempt IN
       /\ Possible(i, a, k)
       /\ NativeAnswers(i, a, k)
       /\ Put(i, Settled(k, a))
  /\ Answer(i, Told(k))
  /\ Await(i, "no")
  /\ UNCHANGED <<flushVars, past, up, crashes>>
-----------------------------------------------------------------------------
(* flushPending(target), which the timer calls for a deferred schedule.    *)
FlushStart(f, s) ==
  /\ up /\ flushPc[f] = "idle"
  /\ flushPc' = [flushPc EXCEPT ![f] = "status"]
  /\ flushTarget' = [flushTarget EXCEPT ![f] = s]
  /\ UNCHANGED <<store, dispatching, flushQueue, flushIntent, native, past,
                 answer, up, crashes>>

(* A flush that listed every record of its target would fail sent ones.    *)
DeferredForTarget(s) == {i \in Intents : TargetOf[i] = s /\ store[i] # NoRecord}
DeferredFor(s) == {i \in Intents : TargetOf[i] = s /\ store[i].decision = "deferred"}

(* The list of deferred intents is read after the status await.            *)
FlushObserves(f, o) ==
  /\ flushPc[f] = "status"
  /\ LET D == DeferredFor(flushTarget[f]) IN
     \/ /\ o.state \in FailClosedSession
        /\ store' = [i \in Intents |->
             IF i \in D THEN Rec("failed", "fail_closed", NoAttempt) ELSE store[i]]
        /\ flushPc' = [flushPc EXCEPT ![f] = "idle"]
        /\ UNCHANGED flushQueue
     \/ /\ o.state \in DeferredSession \/ (o.input /\ o.state \in SendEligible)
        /\ flushPc' = [flushPc EXCEPT ![f] = "idle"]
        /\ UNCHANGED <<store, flushQueue>>
     \/ /\ o.state \in SendEligible /\ ~o.input
        /\ flushQueue' = [flushQueue EXCEPT ![f] = D]
        /\ flushPc' = [flushPc EXCEPT ![f] = "loop"]
        /\ UNCHANGED store
  /\ UNCHANGED <<dispatching, flushTarget, flushIntent, native, past, answer,
                 up, crashes>>

FlushStatusFails(f) ==
  /\ flushPc[f] = "status"
  /\ flushPc' = [flushPc EXCEPT ![f] = "idle"]
  /\ UNCHANGED <<store, dispatching, flushTarget, flushQueue, flushIntent,
                 native, past, answer, up, crashes>>

(* resumePendingIntent: join a send in flight, pass over an intent that is *)
(* no longer deferred, or send under a fresh attempt identity.             *)
InflightSend(i) == \E g \in Flushers : flushPc[g] = "send" /\ i \in flushIntent[g]

FlushTakes(f, i) ==
  /\ flushPc[f] = "loop" /\ i \in flushQueue[f]
  /\ flushQueue' = [flushQueue EXCEPT ![f] = @ \ {i}]
  /\ UNCHANGED <<dispatching, flushTarget, past, answer, up, crashes>>

FlushJoins(f, i) ==
  /\ FlushTakes(f, i)
  /\ InflightSend(i)
  /\ flushPc' = [flushPc EXCEPT ![f] = "join"]
  /\ flushIntent' = [flushIntent EXCEPT ![f] = {i}]
  /\ UNCHANGED <<store, native>>

FlushPasses(f, i) ==
  /\ FlushTakes(f, i)
  /\ ~InflightSend(i) /\ store[i].decision # "deferred"
  /\ UNCHANGED <<store, flushPc, flushIntent, native>>

FlushSends(f, i) ==
  /\ FlushTakes(f, i)
  /\ ~InflightSend(i) /\ store[i].decision = "deferred"
  /\ Cross(i, NextAttempt(i))
  /\ flushPc' = [flushPc EXCEPT ![f] = "send"]
  /\ flushIntent' = [flushIntent EXCEPT ![f] = {i}]

(* A reply that woke only the flush that sent would strand the others.     *)
FlushReplyAlone(f, i, k) ==
  /\ flushPc[f] = "send" /\ i \in flushIntent[f]
  /\ Possible(i, store[i].attempt, k)
  /\ NativeAnswers(i, store[i].attempt, k)
  /\ Put(i, Settled(k, store[i].attempt))
  /\ flushPc' = [flushPc EXCEPT ![f] = "loop"]
  /\ flushIntent' = [flushIntent EXCEPT ![f] = {}]
  /\ UNCHANGED <<dispatching, flushTarget, flushQueue, past, answer, up, crashes>>

(* A busy answer to an intent whose policy is skip cancels it in the same  *)
(* turn of the event loop.  Flushes that joined the send go on with it.    *)
FlushReply(f, i, k) ==
  /\ flushPc[f] = "send" /\ i \in flushIntent[f]
  /\ LET a == store[i].attempt
         served == {g \in Flushers : flushPc[g] \in {"send", "join"} /\ i \in flushIntent[g]}
     IN
       /\ Possible(i, a, k)
       /\ NativeAnswers(i, a, k)
       /\ Put(i, IF k = "busy" /\ BusyPolicy[i] = "skip"
                 THEN Rec("cancelled", "skipped", a) ELSE Settled(k, a))
       /\ flushPc' = [g \in Flushers |-> IF g \in served THEN "loop" ELSE flushPc[g]]
       /\ flushIntent' = [g \in Flushers |-> IF g \in served THEN {} ELSE flushIntent[g]]
  /\ UNCHANGED <<dispatching, flushTarget, flushQueue, past, answer, up, crashes>>

FlushDone(f) ==
  /\ flushPc[f] = "loop" /\ flushQueue[f] = {}
  /\ flushPc' = [flushPc EXCEPT ![f] = "idle"]
  /\ UNCHANGED <<store, dispatching, flushTarget, flushQueue, flushIntent,
                 native, past, answer, up, crashes>>
-----------------------------------------------------------------------------
(* External: the native server queues a request that crossed, or the       *)
(* request is lost with its connection.  Time passes an expires_at.        *)
NativeQueues(i, a) ==
  /\ native[i][a] = "wire"
  /\ native' = [native EXCEPT ![i][a] = "queued"]
  /\ UNCHANGED <<store, dispatching, flushVars, past, answer, up, crashes>>

NativeLoses(i, a) ==
  /\ native[i][a] = "wire"
  /\ native' = [native EXCEPT ![i][a] = "gone"]
  /\ UNCHANGED <<store, dispatching, flushVars, past, answer, up, crashes>>

Expires(i) ==
  /\ i \in Expiring \ past
  /\ past' = past \cup {i}
  /\ UNCHANGED <<store, dispatching, flushVars, native, answer, up, crashes>>
-----------------------------------------------------------------------------
(* The process dies: only the store and the native server remain.          *)
Forget ==
  /\ crashes < MaxCrashes
  /\ up' = FALSE
  /\ crashes' = crashes + 1
  /\ dispatching' = [i \in Intents |-> "no"]
  /\ flushPc' = [f \in Flushers |-> "idle"]
  /\ flushQueue' = [f \in Flushers |-> {}]
  /\ flushIntent' = [f \in Flushers |-> {}]
  /\ UNCHANGED <<flushTarget, past, answer>>

Crash == up /\ Forget /\ UNCHANGED <<store, native>>

(* Handlers that write twice before their next await may die in between,   *)
(* leaving the first write: emitted before sending, ...                    *)
CrashReserving(i) ==
  /\ up
  /\ \/ /\ dispatching[i] = "status"
        /\ \E o \in Observation : Gate(i, o) = "send"
        /\ Put(i, Rec("emitted", "emitted", 1))
     \/ /\ \E f \in Flushers : flushPc[f] = "loop" /\ i \in flushQueue[f]
        /\ store[i].decision = "deferred"
        /\ Put(i, Rec("emitted", "emitted", NextAttempt(i)))
  /\ Forget
  /\ UNCHANGED native

(* ... and deferred before cancelled, accepted before delivered.           *)
CrashSettling(i) ==
  /\ up
  /\ \/ dispatching[i] = "send"
     \/ \E f \in Flushers : flushPc[f] = "send" /\ i \in flushIntent[f]
  /\ \E k \in {"accepted", "busy"} :
       /\ Possible(i, store[i].attempt, k)
       /\ NativeAnswers(i, store[i].attempt, k)
       /\ Put(i, Settled(k, store[i].attempt))
  /\ Forget

(* recoverOutbox: an unresolved record becomes an unknown delivery.  It    *)
(* writes record by record, so a crash may leave some of them for the next *)
(* start.                                                                  *)
Doubted(S) ==
  store' = [i \in Intents |->
    IF i \in S THEN Unknown(store[i].attempt) ELSE store[i]]

(* recoverOutbox must name both unresolved states and no other.            *)
UnresolvedEmitted == {i \in Intents : store[i].state = "emitted"}
UnresolvedSending == {i \in Intents : store[i].state = "sending"}
UnresolvedIntents == {i \in Intents : store[i].state \in Unresolved}

Restart ==
  /\ ~up
  /\ Doubted(UnresolvedIntents)
  /\ up' = TRUE
  /\ UNCHANGED <<dispatching, flushVars, native, past, answer, crashes>>

CrashRecovering ==
  /\ ~up
  /\ \E S \in SUBSET UnresolvedIntents : Doubted(S)
  /\ Forget
  /\ UNCHANGED native
-----------------------------------------------------------------------------
Next ==
  \/ \E i \in Intents :
       \/ DispatchExpired(i) \/ Dispatch(i) \/ DispatchFails(i)
       \/ \E o \in Observation : DispatchObserves(i, o)
       \/ \E k \in Outcomes : DispatchReply(i, k)
       \/ \E a \in Attempts : NativeQueues(i, a) \/ NativeLoses(i, a)
       \/ Expires(i) \/ CrashReserving(i) \/ CrashSettling(i)
  \/ \E f \in Flushers :
       \/ \E s \in Sessions : FlushStart(f, s)
       \/ \E o \in Observation : FlushObserves(f, o)
       \/ \E i \in Intents :
            \/ FlushJoins(f, i) \/ FlushPasses(f, i) \/ FlushSends(f, i)
            \/ \E k \in Outcomes : FlushReply(f, i, k)
       \/ FlushStatusFails(f) \/ FlushDone(f)
  \/ Crash \/ Restart \/ CrashRecovering

Spec == Init /\ [][Next]_vars

(***************************************************************************)
(* The daemon's own share of progress: an await on the bridge always ends, *)
(* since UnixControlClient.call settles within timeout_ms, and a daemon    *)
(* that died is started again by its supervisor or its user.               *)
(***************************************************************************)
Fairness ==
  /\ \A i \in Intents :
       /\ WF_vars(DispatchFails(i) \/ \E o \in Observation : DispatchObserves(i, o))
       /\ WF_vars(\E k \in Outcomes : DispatchReply(i, k))
  /\ \A f \in Flushers :
       /\ WF_vars(FlushStatusFails(f) \/ \E o \in Observation : FlushObserves(f, o))
       /\ WF_vars(FlushDone(f))
       /\ \A i \in Intents :
            /\ WF_vars(FlushJoins(f, i) \/ FlushPasses(f, i) \/ FlushSends(f, i))
            /\ WF_vars(\E k \in Outcomes : FlushReply(f, i, k))
  /\ WF_vars(Restart)

FairSpec == Spec /\ Fairness
-----------------------------------------------------------------------------
(* The properties.                                                         *)

Live(i) == {a \in Attempts : native[i][a] \in {"wire", "queued"}}
FlushesSending(i) == {f \in Flushers : flushPc[f] = "send" /\ i \in flushIntent[f]}

InQueue(i) == \E a \in Attempts : native[i][a] = "queued"

(* However dispatches, flushes, timeouts, late native answers and crashes  *)
(* interleave, the native server queues the message of an intent at most   *)
(* once (send, resumePendingIntent, recoverOutbox).                        *)
AtMostOnce ==
  \A i \in Intents : \A a, b \in Attempts :
    native[i][a] = "queued" /\ native[i][b] = "queued" => a = b

(* A record that says the message was not sent (deferred, failed, expired, *)
(* cancelled) is right for good: no attempt is in the native queue or on   *)
(* its way there, so resuming or reporting it is safe.                     *)
NotSentIsTrue ==
  \A i \in Intents :
    store[i].state \in {"absent", "deferred"} \cup Dropped => Live(i) = {}

(* While the daemon runs, every unresolved record has exactly one task     *)
(* sending it, and no task sends under a record that says otherwise: no    *)
(* record is stranded in sending and no intent is sent by two tasks        *)
(* (inflightIntents, inflightSends, recoverOutbox).                        *)
OneSender ==
  \A i \in Intents :
    /\ \A f, g \in FlushesSending(i) : f = g
    /\ dispatching[i] = "send" => FlushesSending(i) = {}
    /\ dispatching[i] = "send" \/ FlushesSending(i) # {}
         => store[i].state = "sending"
    /\ up /\ store[i].state \in Unresolved
         => dispatching[i] = "send" \/ FlushesSending(i) # {}

(* What the first dispatch answered stays true across resumes, crashes and *)
(* restarts: a sent message is queued, a refused or expired one never is,  *)
(* a deferred one is still on record, an uncertain one is never sent again.*)
AnswerHonoured ==
  \A i \in Intents :
    /\ answer[i] = "sent" =>
         store[i].decision = "sent" /\ InQueue(i)
    /\ answer[i] \in {"fail_closed", "expired"} =>
         store[i].state \in Dropped /\ Live(i) = {}
    /\ answer[i] = "deferred" => store[i] # NoRecord
    /\ answer[i] = "unknown_delivery" => store[i].state = "unknown_delivery"

(* A send is always made under an identity no earlier attempt of the       *)
(* intent used, and above all of them (nextResumeAttemptId): the bridge    *)
(* would take a reused id for a conflict.                                  *)
FreshAttempt ==
  [][\A i \in Intents, a \in Attempts :
       native[i][a] # "wire" /\ native'[i][a] = "wire" =>
         \A b \in Attempts : b >= a => native[i][b] = "unused"]_vars

(* The outbox never keeps an unresolved record for ever: a call in flight  *)
(* ends, and a restart resolves what a crash left behind.                  *)
UnresolvedEnds ==
  \A i \in Intents :
    store[i].state \in Unresolved ~> store[i].state \notin Unresolved

(* A flush of one target always comes to an end (the timer awaits it).     *)
FlushEnds == \A f \in Flushers : flushPc[f] # "idle" ~> flushPc[f] = "idle"
-----------------------------------------------------------------------------
(* The outbox implements its abstract specification.                       *)
PhaseOf(s) ==
  CASE s = "absent" -> "new"
    [] s = "deferred" -> "pending"
    [] s \in Unresolved -> "crossing"
    [] s \in {"accepted"} \cup Proved -> "accepted"
    [] s = "unknown_delivery" -> "uncertain"
    [] s \in Dropped -> "dropped"

Abstract == INSTANCE Outbox WITH
  phase <- [i \in Intents |-> PhaseOf(store[i].state)],
  taken <- {i \in Intents : InQueue(i)}

(* Every step of the daemon is a step of the outbox it promises.           *)
ImplementsOutbox == Abstract!Spec

(* What the record says was told of the attempt it names; an attempt that  *)
(* is no longer on record was refused.                                     *)
ToldOf(i, a) ==
  CASE a # store[i].attempt ->
         IF native[i][a] = "unused" THEN "nothing" ELSE "refused"
    [] a = store[i].attempt /\ store[i].state \in {"accepted"} \cup Proved -> "accepted"
    [] a = store[i].attempt /\ store[i].state \in {"deferred"} \cup Dropped -> "refused"
    [] a = store[i].attempt /\ store[i].state = "unknown_delivery" -> "uncertain"
    [] OTHER -> "nothing"

MessageOf == [unused |-> "unsent", wire |-> "crossing", queued |-> "taken", gone |-> "lost"]

Carried == INSTANCE Transport WITH
  Sends <- Intents \X Attempts,
  message <- [s \in Intents \X Attempts |-> MessageOf[native[s[1]][s[2]]]],
  told <- [s \in Intents \X Attempts |-> ToldOf(s[1], s[2])]

(* What the daemon takes the bridge and the native server to do, and what  *)
(* its records say they did through resumes, crashes and restarts, is what *)
(* the transport promises of each attempt.                                 *)
ImplementsTransport == Carried!Spec
-----------------------------------------------------------------------------
(* What the documents and tests say of the program.                        *)

(* docs/design/hooks-framework.md: the intent is reserved before the       *)
(* status of its target is read.                                           *)
ReservedBeforeStatus ==
  \A i \in Intents : dispatching[i] = "status" => store[i] # NoRecord

(* test/framework.test.js: an interrupt operation is rejected as an        *)
(* ordinary message; no attempt of one ever crosses.                       *)
InterruptNeverSent ==
  \A i \in Intents : Operation[i] = "interrupt" => Live(i) = {}
=============================================================================

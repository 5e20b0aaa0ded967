------------------------------ MODULE Reconcile ------------------------------
(***************************************************************************)
(* The delivery reconciler of HooksDaemon (src/src/daemon.js): a one-      *)
(* second interval and the HTTP route /v1/delivery/evidence both ask the   *)
(* bridge for native evidence of a record, across an await, and advance    *)
(* the record by one rung of EvidenceNext when it answers.                 *)
(*                                                                         *)
(* The records arrive from the send path (module Delivery): here a send    *)
(* that ended in an accepted, delivered or unknown record is one external  *)
(* action.  The bridge (src/src/codexapp-entry.js, codexapp-port.js) is    *)
(* modelled by what delivery_evidence answers.                             *)
(***************************************************************************)
EXTENDS Protocol, Sequences, SequencesExt

CONSTANTS
  Intents,      \* the intents (by intent_id)
  Callers,      \* the HTTP requests that may reconcile concurrently
  MaxRestarts   \* bound: restarts of the bridge, and of the daemon

ASSUME ReconcileAssumption == MaxRestarts \in Nat

VARIABLES
  store,     \* durable: the delivery state of each intent's record
  older,     \* durable: the pairs of records the first of which has the older
             \* evidence.at
  todo,      \* the candidates the running interval has not asked about yet
  asking,    \* per task, the intent it awaits evidence for and the state it
             \* read first; the interval is the task "interval"
  known,     \* external: the messages the bridge process remembers
  shown,     \* external: what the native thread shows of each message
  unreadable, \* external: the records whose evidence cannot be read now
  restarts

tasks == {"interval"} \cup Callers
vars == <<store, older, todo, asking, known, shown, unreadable, restarts>>

States == {"absent", "accepted", "unknown_delivery"} \cup Proved
Idle == [state |-> "none"]
Asking(i, s) == [state |-> s, intent |-> i]
Recorded == {i \in Intents : store[i] # "absent"}

TypeOK ==
  /\ store \in [Intents -> States]
  /\ older \subseteq Recorded \X Recorded
  /\ \A i, j \in Recorded : i # j => (<<i, j>> \in older <=> <<j, i>> \notin older)
  /\ todo \in Seq(Intents) /\ IsInjective(todo)
  /\ asking \in [tasks -> {Idle} \cup [state : States, intent : Intents]]
  /\ known \in SUBSET Intents
  /\ shown \in [Intents -> {"nothing", "receipt", "reply"}]
  /\ unreadable \in SUBSET Intents
  /\ restarts \in 0 .. MaxRestarts

Init ==
  /\ store = [i \in Intents |-> "absent"]
  /\ older = {}
  /\ todo = <<>>
  /\ asking = [t \in tasks |-> Idle]
  /\ known = {}
  /\ shown = [i \in Intents |-> "nothing"]
  /\ unreadable = {}
  /\ restarts = 0
-----------------------------------------------------------------------------
Reconcilable(s) == s \in DOMAIN EvidenceNext

(* A write sets evidence.at, so the record becomes the youngest; one that  *)
(* left the order as it was would have it both older and younger.          *)
WriteKeepsAge(i, s) ==
  /\ store' = [store EXCEPT ![i] = s]
  /\ older' = older \cup ((Recorded \ {i}) \X {i})

Write(i, s) ==
  /\ store' = [store EXCEPT ![i] = s]
  /\ older' = (older \ ({i} \X Intents)) \cup ((Recorded \ {i}) \X {i})

(* External: the send path leaves a record; an accepted message is known   *)
(* to the bridge, an uncertain one may be or not.                          *)
SendEnds(i) ==
  /\ store[i] = "absent"
  /\ \/ Write(i, "accepted") /\ known' = known \cup {i} /\ UNCHANGED shown
     \/ /\ Write(i, "delivered") /\ known' = known \cup {i}
        /\ shown' = [shown EXCEPT ![i] = "receipt"]
     \/ /\ Write(i, "unknown_delivery") /\ UNCHANGED shown
        /\ known' \in {known, known \cup {i}}
  /\ UNCHANGED <<todo, asking, unreadable, restarts>>
-----------------------------------------------------------------------------
(* reconcileDeliveryEvidence up to its await.                              *)
Ask(t, i) == asking' = [asking EXCEPT ![t] = Asking(i, store[i])]

(* reconcileNextDelivery, unless the previous run is still going: the      *)
(* candidates are listed once and asked about oldest first.                *)
OldestFirst(S) ==
  CHOOSE q \in SetToSeqs(S) :
    \A j, k \in DOMAIN q : j < k => <<q[j], q[k]>> \in older

IntervalStarts ==
  LET candidates == OldestFirst({i \in Intents : Reconcilable(store[i])}) IN
  /\ asking["interval"] = Idle
  /\ candidates # <<>>
  /\ Ask("interval", Head(candidates))
  /\ todo' = Tail(candidates)
  /\ UNCHANGED <<store, older, known, shown, unreadable, restarts>>

CallerStarts(c, i) ==
  /\ asking[c] = Idle
  /\ Reconcilable(store[i])
  /\ Ask(c, i)
  /\ UNCHANGED <<store, older, todo, known, shown, unreadable, restarts>>
-----------------------------------------------------------------------------
(* A bridge that took its own acceptance for evidence.                     *)
EvidenceAssumed(i, s) ==
  IF i \notin known THEN "message_not_found"
  ELSE IF s = "read" THEN "delivery_evidence_unavailable" ELSE "evidence"

(* What the port answers for a message whose record stood at state s:      *)
(* evidence of the next rung, or an error code.  "unreadable" stands for   *)
(* every error of the transport, the address, the attempt or the thread.   *)
Evidence(i, s) ==
  CASE i \in unreadable -> "unreadable"
    [] i \notin known \cup unreadable -> "message_not_found"
    [] i \in known \ unreadable /\ s = "read" -> "delivery_evidence_unavailable"
    [] OTHER ->
         IF \/ EvidenceNext[s] = "delivered" /\ shown[i] # "nothing"
            \/ EvidenceNext[s] \in {"executed", "replied", "read"} /\ shown[i] = "reply"
         THEN "evidence" ELSE "delivery_unresolved"

SkipCodesNone == {}
SkipCodes == {"message_not_found", "delivery_unresolved"}

(* Writing the rung worked out before the await would lose a race.         *)
RecordsBlindly(i, s) == Write(i, s)

(* #recordDeliveryEvidence reads the record again after the await: the     *)
(* same rung is a repeat, any other than the next one is refused.          *)
Records(i, s) ==
  IF store[i] # s /\ EvidenceNext[store[i]] = s
  THEN Write(i, s) ELSE UNCHANGED <<store, older>>

(* The interval stops at the first record it advances and at any error     *)
(* but the skip codes, which pass on to the next candidate.                *)
Goes(t, code) ==
  IF t = "interval" /\ code \in SkipCodes /\ todo # <<>>
  THEN /\ Ask(t, Head(todo))
       /\ todo' = Tail(todo)
  ELSE /\ asking' = [asking EXCEPT ![t] = Idle]
       /\ todo' = IF t = "interval" THEN <<>> ELSE todo

Answered(t) ==
  /\ asking[t] # Idle
  /\ LET i == asking[t].intent
         s == asking[t].state
         code == Evidence(i, s)
     IN
       /\ IF code = "evidence" THEN Records(i, EvidenceNext[s])
                               ELSE UNCHANGED <<store, older>>
       /\ Goes(t, code)
  /\ UNCHANGED <<known, shown, unreadable, restarts>>
-----------------------------------------------------------------------------
(* External: the native thread shows the message, then a reply to it.      *)
ThreadShows(i) ==
  /\ store[i] # "absent"
  /\ shown[i] # "reply"
  /\ shown' = [shown EXCEPT ![i] = IF @ = "nothing" THEN "receipt" ELSE "reply"]
  /\ UNCHANGED <<store, older, todo, asking, known, unreadable, restarts>>

(* A timeout passes, an unregistered scope may be registered again, an     *)
(* attempt that does not match never does: what cannot be read becomes     *)
(* readable at any time or never.                                          *)
ReadingChanges(i) ==
  /\ unreadable' \in {unreadable \cup {i}, unreadable \ {i}}
  /\ UNCHANGED <<store, older, todo, asking, known, shown, restarts>>

(* The bridge keeps its messages in memory and forgets them on a restart.  *)
BridgeRestarts ==
  /\ restarts < MaxRestarts
  /\ restarts' = restarts + 1
  /\ known' = {}
  /\ UNCHANGED <<store, older, todo, asking, shown, unreadable>>

DaemonRestarts ==
  /\ restarts < MaxRestarts
  /\ restarts' = restarts + 1
  /\ asking' = [t \in tasks |-> Idle]
  /\ todo' = <<>>
  /\ UNCHANGED <<store, older, known, shown, unreadable>>
-----------------------------------------------------------------------------
Next ==
  \/ \E i \in Intents : SendEnds(i) \/ ThreadShows(i) \/ ReadingChanges(i)
  \/ IntervalStarts
  \/ \E c \in Callers, i \in Intents : CallerStarts(c, i)
  \/ \E t \in tasks : Answered(t)
  \/ BridgeRestarts \/ DaemonRestarts

Spec == Init /\ [][Next]_vars

(* setInterval keeps firing, and every call to the bridge settles within   *)
(* its timeout, with an answer or an error.                                *)
FairSpec ==
  /\ Spec
  /\ WF_vars(IntervalStarts)
  /\ \A t \in tasks : WF_vars(Answered(t))
-----------------------------------------------------------------------------
(* Two reconcilers that read the same record, and answers that come back   *)
(* in any order, move a record one rung at a time and never back.          *)
OneRungUp ==
  [][\A i \in Intents : store[i] # "absent" /\ store'[i] # store[i] =>
       Reconcilable(store[i]) /\ store'[i] = EvidenceNext[store[i]]]_vars

(* A record never claims more than the native thread shows.                *)
NothingInvented ==
  \A i \in Intents :
    /\ store[i] = "delivered" => shown[i] \in {"receipt", "reply"}
    /\ store[i] \in {"executed", "replied", "read"} => shown[i] = "reply"
    /\ store[i] # "consumed"

(* An older record that the bridge has forgotten, or has no evidence for,  *)
(* does not keep a newer one from being advanced, and neither does an      *)
(* error that has passed.  Two kinds of records do, since the interval     *)
(* gives up at the first error but the skip codes: one that reached "read" *)
(* and one whose evidence cannot be read, for as long as that lasts.       *)
UnresolvedDoesNotBlock ==
  \A i \in Intents :
    [](i \in known) /\ shown[i] = "reply" /\ store[i] # "absent"
      ~> \E j \in Intents : store[j] = "read" \/ j \in unreadable

(* test/framework.test.js: an old intent whose evidence is unavailable     *)
(* does not block a newer one.  It does once it has reached "read", though *)
(* every record can be read.                                               *)
OldDoesNotBlock ==
  \A i \in Intents :
    [](i \in known /\ unreadable = {}) /\ shown[i] = "reply" /\ store[i] # "absent"
      ~> store[i] = "read"
=============================================================================

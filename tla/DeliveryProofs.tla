--------------------------- MODULE DeliveryProofs ---------------------------
(***************************************************************************)
(* Proofs about the send path (module Delivery), for every set of intents, *)
(* sessions and flushes and every bound.                                   *)
(***************************************************************************)
EXTENDS Delivery, TLAPS

(* A deferred record says so in both fields and leaves room for another    *)
(* attempt: the bound MaxAttempt refuses a busy answer to the last one.    *)
DeferredRecords ==
  \A i \in Intents :
    /\ store[i].decision = "deferred" <=> store[i].state = "deferred"
    /\ store[i].state = "deferred" => store[i].attempt < MaxAttempt

TypeInv == TypeOK /\ DeferredRecords

(* Only the attempt on record can be in the native queue or on its way     *)
(* there, and none can if the record says the message was not sent.        *)
NotSent == {"absent", "deferred"} \cup Dropped

LiveOnRecord ==
  \A i \in Intents, a \in Attempts :
    native[i][a] \in {"wire", "queued"} =>
      a = store[i].attempt /\ store[i].state \notin NotSent

(* A dispatch that awaits the status has no record yet.                    *)
StatusUnrecorded ==
  \A i \in Intents : dispatching[i] = "status" => store[i] = NoRecord

(* A flush serves one intent at a time.                                    *)
OneIntent == \A f \in Flushers : \A i, j \in flushIntent[f] : i = j

(* A daemon that is down has no task.                                      *)
DownIdle ==
  ~up => /\ \A i \in Intents : dispatching[i] = "no"
         /\ \A f \in Flushers : flushPc[f] = "idle"

Inv ==
  /\ TypeInv
  /\ LiveOnRecord
  /\ StatusUnrecorded
  /\ OneIntent
  /\ DownIdle
  /\ OneSender
-----------------------------------------------------------------------------
(* Records the daemon writes are records.                                  *)
LEMMA RecType ==
  ASSUME NEW s \in DeliveryStates, NEW d \in Decisions, NEW a \in 0 .. MaxAttempt
  PROVE  /\ Rec(s, d, a) \in Record
         /\ Rec(s, d, a).state = s
         /\ Rec(s, d, a).decision = d
         /\ Rec(s, d, a).attempt = a
  BY DEF Rec, Record

LEMMA SkippedType ==
  ASSUME NEW a \in 0 .. MaxAttempt
  PROVE  /\ Rec("cancelled", "skipped", a) \in Record
         /\ Rec("cancelled", "skipped", a).state = "cancelled"
  <1>1. "cancelled" \in DeliveryStates /\ "skipped" \in Decisions
    BY DEF DeliveryStates, Dropped, Decisions
  <1>2. QED
    BY <1>1, RecType

LEMMA SettledType ==
  ASSUME NEW k \in Outcomes, NEW a \in 0 .. MaxAttempt
  PROVE  /\ Settled(k, a) \in Record
         /\ Settled(k, a).decision = "deferred" <=> k = "busy"
         /\ Settled(k, a).state = "deferred" <=> k = "busy"
         /\ k # "refused" => Settled(k, a).attempt = a
         /\ k = "refused" => Settled(k, a).state = "failed"
         /\ k \notin {"busy", "refused"} => Settled(k, a).state \notin NotSent
         /\ Settled(k, a).state \notin Unresolved
  <1>1. NoAttempt \in 0 .. MaxAttempt
    BY DeliveryAssumption DEF NoAttempt
  <1>2. QED
    BY <1>1, RecType
    DEF Settled, Outcomes, Unknown, Rec, Record, Decisions, DeliveryStates, Unresolved,
        Proved, Dropped, NotSent

(* Writing one sound record keeps the store typed and its deferred records *)
(* in order.                                                               *)
SoundRecord(r) ==
  /\ r \in Record
  /\ r.decision = "deferred" <=> r.state = "deferred"
  /\ r.state = "deferred" => r.attempt < MaxAttempt

LEMMA PutSound ==
  ASSUME TypeInv, NEW i \in Intents, NEW r, SoundRecord(r), Put(i, r)
  PROVE  store' \in [Intents -> Record] /\ DeferredRecords'
  BY DEF TypeInv, TypeOK, DeferredRecords, SoundRecord, Put

LEMMA RecSound ==
  ASSUME NEW s \in DeliveryStates, NEW d \in Decisions, NEW a \in 0 .. MaxAttempt,
         d = "deferred" <=> s = "deferred", s = "deferred" => a < MaxAttempt
  PROVE  SoundRecord(Rec(s, d, a))
  BY RecType DEF SoundRecord

LEMMA SettledSound ==
  ASSUME NEW k \in Outcomes, NEW a \in 0 .. MaxAttempt, k = "busy" => a < MaxAttempt
  PROVE  SoundRecord(Settled(k, a))
  BY SettledType DEF SoundRecord

(* The identity of a resumed attempt is within the bound.                  *)
LEMMA NextAttemptType ==
  ASSUME TypeInv, NEW i \in Intents, store[i].decision = "deferred"
  PROVE  /\ NextAttempt(i) \in Attempts
         /\ NextAttempt(i) > store[i].attempt
         /\ NextAttempt(i) # NoAttempt
  BY DeliveryAssumption
  DEF TypeInv, TypeOK, DeferredRecords, Record, NextAttempt, Attempts, NoAttempt

LEMMA NativeType ==
  ASSUME TypeInv, NEW i \in Intents, NEW a, NEW s \in {"unused", "wire", "queued", "gone"}
  PROVE  [native EXCEPT ![i][a] = s]
           \in [Intents -> [Attempts -> {"unused", "wire", "queued", "gone"}]]
  BY DEF TypeInv, TypeOK
-----------------------------------------------------------------------------
(* Every answer a task may write is a record in order: what the send path  *)
(* does to the store and to the native server, action by action.           *)
LEMMA CrossType ==
  ASSUME TypeInv, NEW i \in Intents, NEW a \in Attempts, Cross(i, a)
  PROVE  /\ store' \in [Intents -> Record] /\ DeferredRecords'
         /\ native' \in [Intents -> [Attempts -> {"unused", "wire", "queued", "gone"}]]
  <1>1. a \in 0 .. MaxAttempt
    BY DeliveryAssumption DEF Attempts
  <1>2. SoundRecord(Rec("sending", "sending", a))
    BY <1>1, RecSound DEF DeliveryStates, Unresolved, Decisions
  <1>3. QED
    BY <1>2, PutSound, NativeType DEF Cross

LEMMA AnsweredType ==
  ASSUME TypeInv, NEW i \in Intents, NEW k \in Outcomes,
         Possible(i, store[i].attempt, k), NativeAnswers(i, store[i].attempt, k)
  PROVE  /\ SoundRecord(Settled(k, store[i].attempt))
         /\ native' \in [Intents -> [Attempts -> {"unused", "wire", "queued", "gone"}]]
  <1>1. store[i].attempt \in 0 .. MaxAttempt
    BY DEF TypeInv, TypeOK, Record
  <1>2. k = "busy" => store[i].attempt < MaxAttempt
    BY DEF Possible
  <1>3. native' \in [Intents -> [Attempts -> {"unused", "wire", "queued", "gone"}]]
    BY NativeType DEF NativeAnswers, TypeInv, TypeOK
  <1>4. QED
    BY <1>1, <1>2, <1>3, SettledSound

LEMMA FailedSound ==
  /\ SoundRecord(Rec("failed", "failed", NoAttempt))
  /\ SoundRecord(Rec("failed", "fail_closed", NoAttempt))
  /\ SoundRecord(Rec("expired", "expired", NoAttempt))
  /\ SoundRecord(Rec("deferred", "deferred", NoAttempt))
  <1>1. NoAttempt \in 0 .. MaxAttempt /\ NoAttempt < MaxAttempt
    BY DeliveryAssumption DEF NoAttempt
  <1>2. QED
    BY <1>1, RecSound DEF DeliveryStates, Decisions, Dropped

LEMMA DoubtedType ==
  ASSUME TypeInv, NEW S \in SUBSET Intents, Doubted(S)
  PROVE  store' \in [Intents -> Record] /\ DeferredRecords'
  <1>1. ASSUME NEW i \in Intents
        PROVE  SoundRecord(Unknown(store[i].attempt))
    <2>1. store[i].attempt \in 0 .. MaxAttempt
      BY DEF TypeInv, TypeOK, Record
    <2>2. QED
      BY <2>1, RecSound DEF Unknown, DeliveryStates, Decisions
  <1>2. \A i \in Intents : SoundRecord(store[i])
    BY DEF TypeInv, TypeOK, DeferredRecords, SoundRecord
  <1>3. store' = [i \in Intents |-> IF i \in S THEN Unknown(store[i].attempt) ELSE store[i]]
    BY DEF Doubted
  <1>4. \A i \in Intents : SoundRecord(store'[i])
    BY <1>1, <1>2, <1>3
  <1>5. QED
    BY <1>3, <1>4 DEF SoundRecord, DeferredRecords
-----------------------------------------------------------------------------
LEMMA TypeInit == Init => TypeInv
  <1>1. NoRecord \in Record /\ NoRecord.state = "absent" /\ NoRecord.decision = "none"
    BY DeliveryAssumption, RecType
    DEF NoRecord, NoAttempt, DeliveryStates, Decisions, Attempts
  <1>2. QED
    BY <1>1, DeliveryAssumption
    DEF Init, TypeInv, TypeOK, DeferredRecords, Attempts, Decisions

LEMMA TypeStep == TypeInv /\ [Next]_vars => TypeInv'
  <1> SUFFICES ASSUME TypeInv, [Next]_vars
               PROVE  TypeInv'
    OBVIOUS
  <1> USE DEF flushVars
  <1>1. ASSUME NEW i \in Intents, DispatchExpired(i)
        PROVE  TypeInv'
    <2>1. store' \in [Intents -> Record] /\ DeferredRecords'
      BY <1>1, FailedSound, PutSound DEF DispatchExpired
    <2>2. QED
      BY <1>1, <2>1 DEF DispatchExpired, Answer, TypeInv, TypeOK, Decisions
  <1>2. ASSUME NEW i \in Intents, Dispatch(i)
        PROVE  TypeInv'
    BY <1>2 DEF Dispatch, Await, TypeInv, TypeOK, DeferredRecords
  <1>3. ASSUME NEW i \in Intents, DispatchFails(i)
        PROVE  TypeInv'
    <2>1. store' \in [Intents -> Record] /\ DeferredRecords'
      BY <1>3, FailedSound, PutSound DEF DispatchFails
    <2>2. QED
      BY <1>3, <2>1 DEF DispatchFails, Answer, Await, TypeInv, TypeOK, Decisions
  <1>4. ASSUME NEW i \in Intents, NEW o \in Observation, DispatchObserves(i, o)
        PROVE  TypeInv'
    <2>1. CASE DispatchFails(i)
      BY <1>3, <2>1
    <2>2. CASE /\ Put(i, Rec("deferred", "deferred", NoAttempt))
               /\ Answer(i, "deferred") /\ Await(i, "no")
               /\ UNCHANGED <<flushVars, native, past, up, crashes>>
      <3>1. store' \in [Intents -> Record] /\ DeferredRecords'
        BY <2>2, FailedSound, PutSound
      <3>2. QED
        BY <2>2, <3>1 DEF Answer, Await, TypeInv, TypeOK, Decisions
    <2>3. CASE /\ Cross(i, 1) /\ Await(i, "send")
               /\ UNCHANGED <<flushVars, past, answer, up, crashes>>
      <3>1. 1 \in Attempts
        BY DeliveryAssumption DEF Attempts
      <3>2. QED
        BY <2>3, <3>1, CrossType DEF Await, TypeInv, TypeOK
    <2>4. QED
      BY <1>4, <2>1, <2>2, <2>3 DEF DispatchObserves
  <1>5. ASSUME NEW i \in Intents, NEW k \in Outcomes, DispatchReply(i, k)
        PROVE  TypeInv'
    <2>1. /\ store' \in [Intents -> Record] /\ DeferredRecords'
          /\ native' \in [Intents -> [Attempts -> {"unused", "wire", "queued", "gone"}]]
      BY <1>5, AnsweredType, PutSound DEF DispatchReply
    <2>2. Told(k) \in Decisions
      BY DEF Told, Outcomes, Decisions
    <2>3. QED
      BY <1>5, <2>1, <2>2 DEF DispatchReply, Answer, Await, TypeInv, TypeOK
  <1>6. ASSUME NEW f \in Flushers, NEW s \in Sessions, FlushStart(f, s)
        PROVE  TypeInv'
    BY <1>6 DEF FlushStart, TypeInv, TypeOK, DeferredRecords
  <1>7. ASSUME NEW f \in Flushers, NEW o \in Observation, FlushObserves(f, o)
        PROVE  TypeInv'
    <2> DEFINE D == DeferredFor(flushTarget[f])
    <2>1. D \in SUBSET Intents
      BY DEF DeferredFor
    <2>2. store' \in [Intents -> Record] /\ DeferredRecords'
      <3>1. CASE UNCHANGED store
        BY <3>1 DEF TypeInv, TypeOK, DeferredRecords
      <3>2. CASE store' = [i \in Intents |->
                   IF i \in D THEN Rec("failed", "fail_closed", NoAttempt) ELSE store[i]]
        BY <3>2, FailedSound DEF SoundRecord, TypeInv, TypeOK, DeferredRecords
      <3>3. QED
        BY <1>7, <3>1, <3>2 DEF FlushObserves
    <2>3. flushPc' \in [Flushers -> {"idle", "status", "loop", "send", "join"}]
      BY <1>7 DEF FlushObserves, TypeInv, TypeOK
    <2>4. flushQueue' \in [Flushers -> SUBSET Intents]
      BY <1>7, <2>1 DEF FlushObserves, TypeInv, TypeOK
    <2>5. UNCHANGED <<dispatching, flushTarget, flushIntent, native, past, answer, up, crashes>>
      BY <1>7 DEF FlushObserves
    <2>6. QED
      BY <2>2, <2>3, <2>4, <2>5 DEF TypeInv, TypeOK
  <1>8. ASSUME NEW f \in Flushers, FlushStatusFails(f) \/ FlushDone(f)
        PROVE  TypeInv'
    BY <1>8 DEF FlushStatusFails, FlushDone, TypeInv, TypeOK, DeferredRecords
  <1>9. ASSUME NEW f \in Flushers, NEW i \in Intents,
               FlushJoins(f, i) \/ FlushPasses(f, i)
        PROVE  TypeInv'
    <2>1. DeferredRecords'
      BY <1>9 DEF FlushJoins, FlushPasses, FlushTakes, TypeInv, DeferredRecords
    <2>2. CASE FlushJoins(f, i)
      BY <2>1, <2>2 DEF FlushJoins, FlushTakes, TypeInv, TypeOK
    <2>3. CASE FlushPasses(f, i)
      BY <2>1, <2>3 DEF FlushPasses, FlushTakes, TypeInv, TypeOK
    <2>4. QED
      BY <1>9, <2>2, <2>3
  <1>10. ASSUME NEW f \in Flushers, NEW i \in Intents, FlushSends(f, i)
         PROVE  TypeInv'
    <2>1. /\ store' \in [Intents -> Record] /\ DeferredRecords'
          /\ native' \in [Intents -> [Attempts -> {"unused", "wire", "queued", "gone"}]]
      BY <1>10, NextAttemptType, CrossType DEF FlushSends
    <2>2. QED
      BY <1>10, <2>1 DEF FlushSends, FlushTakes, TypeInv, TypeOK
  <1>11. ASSUME NEW f \in Flushers, NEW i \in Intents, NEW k \in Outcomes,
                FlushReply(f, i, k)
         PROVE  TypeInv'
    <2> DEFINE a == store[i].attempt
    <2>1. a \in 0 .. MaxAttempt
      BY DEF TypeInv, TypeOK, Record
    <2>2. SoundRecord(Rec("cancelled", "skipped", a))
      BY <2>1, RecSound DEF DeliveryStates, Decisions, Dropped
    <2>3. /\ store' \in [Intents -> Record] /\ DeferredRecords'
          /\ native' \in [Intents -> [Attempts -> {"unused", "wire", "queued", "gone"}]]
      <3>1. SoundRecord(IF k = "busy" /\ BusyPolicy[i] = "skip"
                        THEN Rec("cancelled", "skipped", a) ELSE Settled(k, a))
        BY <1>11, <2>2, AnsweredType DEF FlushReply
      <3>2. QED
        BY <1>11, <3>1, AnsweredType, PutSound DEF FlushReply
    <2>4. /\ flushPc' \in [Flushers -> {"idle", "status", "loop", "send", "join"}]
          /\ flushIntent' \in [Flushers -> SUBSET Intents]
      BY <1>11 DEF FlushReply, TypeInv, TypeOK
    <2>5. QED
      BY <1>11, <2>3, <2>4 DEF FlushReply, TypeInv, TypeOK
  <1>12. ASSUME NEW i \in Intents, NEW a \in Attempts, NativeQueues(i, a) \/ NativeLoses(i, a)
         PROVE  TypeInv'
    <2>1. native' \in [Intents -> [Attempts -> {"unused", "wire", "queued", "gone"}]]
      BY <1>12, NativeType DEF NativeQueues, NativeLoses
    <2>2. UNCHANGED <<store, dispatching, flushVars, past, answer, up, crashes>>
      BY <1>12 DEF NativeQueues, NativeLoses
    <2>3. QED
      BY <2>1, <2>2 DEF TypeInv, TypeOK, DeferredRecords
  <1>13. ASSUME NEW i \in Intents, Expires(i)
         PROVE  TypeInv'
    BY <1>13 DEF Expires, TypeInv, TypeOK, DeferredRecords
  <1>14. ASSUME Forget, store' \in [Intents -> Record], DeferredRecords',
                native' \in [Intents -> [Attempts -> {"unused", "wire", "queued", "gone"}]]
         PROVE  TypeInv'
    <2>1. crashes' \in 0 .. MaxCrashes
      BY <1>14, DeliveryAssumption DEF Forget, TypeInv, TypeOK
    <2>2. up' \in BOOLEAN
      BY <1>14 DEF Forget
    <2>3. /\ dispatching' \in [Intents -> {"no", "status", "send"}]
          /\ flushPc' \in [Flushers -> {"idle", "status", "loop", "send", "join"}]
          /\ flushQueue' \in [Flushers -> SUBSET Intents]
          /\ flushIntent' \in [Flushers -> SUBSET Intents]
      BY <1>14 DEF Forget
    <2>4. UNCHANGED <<flushTarget, past, answer>>
      BY <1>14 DEF Forget
    <2>5. QED
      BY <1>14, <2>1, <2>2, <2>3, <2>4 DEF TypeInv, TypeOK
  <1>15. ASSUME NEW i \in Intents, CrashReserving(i)
         PROVE  TypeInv'
    <2>1. store' \in [Intents -> Record] /\ DeferredRecords'
      <3>1. 1 \in 0 .. MaxAttempt
        BY DeliveryAssumption
      <3>2. store[i].decision = "deferred" => NextAttempt(i) \in 0 .. MaxAttempt
        BY NextAttemptType, DeliveryAssumption DEF Attempts
      <3>3. \A a \in 0 .. MaxAttempt : SoundRecord(Rec("emitted", "emitted", a))
        BY RecSound DEF DeliveryStates, Unresolved, Decisions
      <3>4. CASE Put(i, Rec("emitted", "emitted", 1))
        BY <3>1, <3>3, <3>4, PutSound
      <3>5. CASE /\ store[i].decision = "deferred"
                 /\ Put(i, Rec("emitted", "emitted", NextAttempt(i)))
        BY <3>2, <3>3, <3>5, PutSound
      <3>6. QED
        BY <1>15, <3>4, <3>5 DEF CrashReserving
    <2>2. native' \in [Intents -> [Attempts -> {"unused", "wire", "queued", "gone"}]]
      BY <1>15 DEF CrashReserving, TypeInv, TypeOK
    <2>3. QED
      BY <1>14, <1>15, <2>1, <2>2 DEF CrashReserving
  <1>16. ASSUME NEW i \in Intents, CrashSettling(i)
         PROVE  TypeInv'
    <2>1. PICK k \in {"accepted", "busy"} :
            /\ Possible(i, store[i].attempt, k)
            /\ NativeAnswers(i, store[i].attempt, k)
            /\ Put(i, Settled(k, store[i].attempt))
      BY <1>16 DEF CrashSettling
    <2>2. k \in Outcomes
      BY DEF Outcomes
    <2>3. /\ store' \in [Intents -> Record] /\ DeferredRecords'
          /\ native' \in [Intents -> [Attempts -> {"unused", "wire", "queued", "gone"}]]
      BY <2>1, <2>2, AnsweredType, PutSound
    <2>4. QED
      BY <1>14, <1>16, <2>3 DEF CrashSettling
  <1>17. CASE Crash
    BY <1>14, <1>17 DEF Crash, TypeInv, TypeOK, DeferredRecords
  <1>18. CASE Restart
    <2>1. UnresolvedIntents \in SUBSET Intents
      BY DEF UnresolvedIntents
    <2>2. QED
      BY <1>18, <2>1, DoubtedType DEF Restart, TypeInv, TypeOK
  <1>19. CASE CrashRecovering
    <2>1. store' \in [Intents -> Record] /\ DeferredRecords'
      BY <1>19, DoubtedType DEF CrashRecovering, UnresolvedIntents
    <2>2. QED
      BY <1>14, <1>19, <2>1 DEF CrashRecovering, TypeInv, TypeOK
  <1>20. CASE UNCHANGED vars
    BY <1>20 DEF vars, TypeInv, TypeOK, DeferredRecords
  <1>21. QED
    BY <1>1, <1>2, <1>3, <1>4, <1>5, <1>6, <1>7, <1>8, <1>9, <1>10, <1>11, <1>12, <1>13,
       <1>15, <1>16, <1>17, <1>18, <1>19, <1>20
    DEF Next

(* Every variable of the send path keeps its type (the records of the      *)
(* outbox, the tasks in flight and the attempts the native server saw).    *)
THEOREM TypeCorrect == Spec => []TypeOK
  <1>1. TypeInv => TypeOK
    BY DEF TypeInv
  <1>2. QED
    BY <1>1, TypeInit, TypeStep, PTL DEF Spec
-----------------------------------------------------------------------------
(* Facts the steps of the invariant share.                                 *)
LEMMA NoRecordFacts ==
  /\ NoRecord.state = "absent" /\ NoRecord.decision = "none"
  /\ NoRecord.state \in NotSent /\ NoRecord.state \notin Unresolved
  BY DEF NoRecord, Rec, NotSent, Unresolved

LEMMA StateFacts ==
  /\ "sending" \in Unresolved /\ "sending" \notin NotSent
  /\ "emitted" \in Unresolved
  /\ "deferred" \in NotSent /\ "deferred" \notin Unresolved
  /\ "failed" \in NotSent /\ "failed" \notin Unresolved
  /\ "expired" \in NotSent /\ "expired" \notin Unresolved
  /\ "cancelled" \in NotSent /\ "cancelled" \notin Unresolved
  /\ "unknown_delivery" \notin NotSent /\ "unknown_delivery" \notin Unresolved
  BY DEF NotSent, Unresolved, Dropped

(* The flushes that send an intent only change with flushPc, flushIntent.  *)
LEMMA SameSenders ==
  ASSUME UNCHANGED <<flushPc, flushIntent>>
  PROVE  \A i \in Intents : FlushesSending(i)' = FlushesSending(i)
  BY DEF FlushesSending

(* A record that is not unresolved has no sender; one that says not sent   *)
(* has no live attempt.                                                    *)
LEMMA NoSender ==
  ASSUME Inv, NEW i \in Intents, store[i].state # "sending"
  PROVE  dispatching[i] # "send" /\ FlushesSending(i) = {}
  BY DEF Inv, OneSender

LEMMA NoLive ==
  ASSUME Inv, NEW i \in Intents, store[i].state \in NotSent
  PROVE  \A a \in Attempts : native[i][a] \notin {"wire", "queued"}
  BY DEF Inv, LiveOnRecord

(* A send starts: the record names the one attempt that crosses.           *)
LEMMA CrossLive ==
  ASSUME Inv, NEW i \in Intents, NEW a \in Attempts, Cross(i, a),
         store[i].state \in NotSent
  PROVE  LiveOnRecord' /\ store'[i].state = "sending"
                       /\ \A j \in Intents \ {i} : store'[j] = store[j]
  <1>1. /\ store'[i] = Rec("sending", "sending", a)
        /\ \A j \in Intents \ {i} : store'[j] = store[j]
    BY DEF Inv, TypeInv, TypeOK, Cross, Put
  <1>2. /\ native'[i] = [native[i] EXCEPT ![a] = "wire"]
        /\ \A j \in Intents \ {i} : native'[j] = native[j]
    BY DEF Inv, TypeInv, TypeOK, Cross
  <1>3. \A b \in Attempts \ {a} : native'[i][b] = native[i][b]
    BY <1>2 DEF Inv, TypeInv, TypeOK
  <1>4. store'[i].state = "sending" /\ store'[i].attempt = a
    BY <1>1 DEF Rec
  <1>5. \A b \in Attempts : native'[i][b] \in {"wire", "queued"} => b = a
    BY <1>3, NoLive
  <1>6. ASSUME NEW j \in Intents, NEW b \in Attempts, native'[j][b] \in {"wire", "queued"}
        PROVE  b = store'[j].attempt /\ store'[j].state \notin NotSent
    <2>1. CASE j = i
      BY <1>4, <1>5, <1>6, <2>1, StateFacts
    <2>2. CASE j # i
      BY <1>1, <1>2, <1>6, <2>2 DEF LiveOnRecord, Inv
    <2>3. QED
      BY <2>1, <2>2
  <1>7. QED
    BY <1>1, <1>4, <1>6 DEF LiveOnRecord

(* A send ends: a busy or refused attempt is gone with its record, the     *)
(* others stay on record.                                                  *)
LEMMA AnswerLive ==
  ASSUME Inv, NEW i \in Intents, NEW k \in Outcomes, NEW r \in Record,
         store[i].state = "sending",
         Possible(i, store[i].attempt, k), NativeAnswers(i, store[i].attempt, k),
         k \in {"busy", "refused"} \/ r = Settled(k, store[i].attempt),
         Put(i, r)
  PROVE  LiveOnRecord'
  <1> DEFINE a == store[i].attempt
  <1>1. /\ store'[i] = r
        /\ \A j \in Intents \ {i} : store'[j] = store[j]
    BY DEF Inv, TypeInv, TypeOK, Put
  <1>2. \A b \in Attempts : native[i][b] \in {"wire", "queued"} => b = a
    BY DEF Inv, LiveOnRecord
  <1>3. CASE k \in {"busy", "refused"}
    <2>1. native' = [native EXCEPT ![i][a] = "gone"]
      BY <1>3 DEF NativeAnswers
    <2>2. \A j \in Intents \ {i} : native'[j] = native[j]
      BY <2>1 DEF Inv, TypeInv, TypeOK
    <2>3. \A b \in Attempts : native'[i][b] \notin {"wire", "queued"}
      <3>1. native'[i] = [native[i] EXCEPT ![a] = "gone"]
        BY <2>1 DEF Inv, TypeInv, TypeOK
      <3>2. QED
        BY <3>1, <1>2 DEF Inv, TypeInv, TypeOK
    <2>4. QED
      BY <1>1, <2>2, <2>3 DEF Inv, LiveOnRecord
  <1>4. CASE k \notin {"busy", "refused"}
    <2>1. native' = native
      BY <1>4 DEF NativeAnswers
    <2>2. a \in 0 .. MaxAttempt
      BY DEF Inv, TypeInv, TypeOK, Record
    <2>3. store'[i].attempt = a /\ store'[i].state \notin NotSent
      BY <1>1, <1>4, <2>2, SettledType
    <2>4. QED
      BY <1>1, <1>2, <2>1, <2>3 DEF Inv, LiveOnRecord
  <1>5. QED
    BY <1>3, <1>4
-----------------------------------------------------------------------------
LEMMA InvInit == Init => Inv
  <1> SUFFICES ASSUME Init PROVE Inv
    OBVIOUS
  <1>1. LiveOnRecord
    BY DEF Init, LiveOnRecord
  <1>2. StatusUnrecorded
    BY DEF Init, StatusUnrecorded
  <1>3. OneSender
    BY NoRecordFacts DEF Init, OneSender, FlushesSending
  <1>4. OneIntent
    BY DEF Init, OneIntent
  <1>5. DownIdle
    BY DEF Init, DownIdle
  <1>6. QED
    BY <1>1, <1>2, <1>3, <1>4, <1>5, TypeInit DEF Inv

(* The death of the process leaves no task, so only the records and the    *)
(* native server matter.                                                   *)
LEMMA ForgetStep ==
  ASSUME Inv, Forget, LiveOnRecord'
  PROVE  LiveOnRecord' /\ StatusUnrecorded' /\ OneSender'
  <1>1. /\ dispatching' = [i \in Intents |-> "no"]
        /\ flushPc' = [f \in Flushers |-> "idle"]
        /\ up' = FALSE
    BY DEF Forget
  <1>2. \A i \in Intents : FlushesSending(i)' = {}
    BY <1>1 DEF FlushesSending
  <1>3. QED
    BY <1>1, <1>2 DEF StatusUnrecorded, OneSender

LEMMA DispatchStep ==
  ASSUME Inv, NEW i \in Intents, UNCHANGED flushVars, UNCHANGED up,
         \A j \in Intents \ {i} : store'[j] = store[j],
         dispatching' \in [Intents -> {"no", "status", "send"}],
         \A j \in Intents \ {i} : dispatching'[j] = dispatching[j],
         FlushesSending(i) = {},
         dispatching'[i] = "status" => store'[i] = NoRecord,
         dispatching'[i] = "send" => store'[i].state = "sending",
         store'[i].state \in Unresolved => dispatching'[i] = "send"
  PROVE  StatusUnrecorded' /\ OneSender'
  <1>1. \A j \in Intents : FlushesSending(j)' = FlushesSending(j)
    BY SameSenders DEF flushVars
  <1>2. StatusUnrecorded'
    BY DEF Inv, StatusUnrecorded
  <1>3. OneSender'
    BY <1>1 DEF Inv, OneSender
  <1>4. QED
    BY <1>2, <1>3

(* Records that were not sent may be rewritten at will, others only under  *)
(* the same attempt.                                                       *)
LEMMA QuietLive ==
  ASSUME Inv, UNCHANGED native,
         \A j \in Intents : \/ store'[j] = store[j]
                            \/ store[j].state \in NotSent
                            \/ /\ store'[j].attempt = store[j].attempt
                               /\ store'[j].state \notin NotSent
  PROVE  LiveOnRecord'
  BY NoLive DEF Inv, LiveOnRecord

LEMMA PutFacts ==
  ASSUME Inv, NEW i \in Intents, NEW r, Put(i, r)
  PROVE  store'[i] = r /\ \A j \in Intents \ {i} : store'[j] = store[j]
  BY DEF Put, Inv, TypeInv, TypeOK

LEMMA AwaitFacts ==
  ASSUME Inv, NEW i \in Intents, NEW w \in {"no", "status", "send"}, Await(i, w)
  PROVE  /\ dispatching'[i] = w
         /\ \A j \in Intents \ {i} : dispatching'[j] = dispatching[j]
         /\ dispatching' \in [Intents -> {"no", "status", "send"}]
  BY DEF Await, Inv, TypeInv, TypeOK

(* A step of a flush that starts and ends no send.                         *)
LEMMA FlushStep ==
  ASSUME Inv, UNCHANGED dispatching, UNCHANGED up,
         \A i \in Intents : FlushesSending(i)' = FlushesSending(i),
         \A i \in Intents : \/ store'[i] = store[i]
                            \/ /\ store[i].state = "deferred"
                               /\ store'[i].state \notin Unresolved
  PROVE  StatusUnrecorded' /\ OneSender'
  <1>1. StatusUnrecorded'
    BY NoRecordFacts DEF Inv, StatusUnrecorded
  <1>2. OneSender'
    BY StateFacts DEF Inv, OneSender
  <1>3. QED
    BY <1>1, <1>2

(* A flush takes an intent only when it has none: it starts with {i} and   *)
(* ends with {}.                                                           *)
LEMMA OneIntentStep == TypeInv /\ OneIntent /\ [Next]_vars => OneIntent'
  <1> SUFFICES ASSUME TypeInv, OneIntent, [Next]_vars
               PROVE  OneIntent'
    OBVIOUS
  <1> USE DEF flushVars
  <1>1. CASE UNCHANGED flushIntent
    BY <1>1 DEF OneIntent
  <1>2. CASE flushIntent' = [f \in Flushers |-> {}]
    BY <1>2 DEF OneIntent
  <1>3. CASE \E f \in Flushers, i \in Intents : flushIntent' = [flushIntent EXCEPT ![f] = {i}]
    BY <1>3 DEF OneIntent, TypeInv, TypeOK
  <1>4. CASE \E S \in SUBSET Flushers :
               flushIntent' = [g \in Flushers |-> IF g \in S THEN {} ELSE flushIntent[g]]
    BY <1>4 DEF OneIntent
  <1>5. ASSUME NEW f \in Flushers, NEW i \in Intents, NEW k \in Outcomes, FlushReply(f, i, k)
        PROVE  \E S \in SUBSET Flushers :
                 flushIntent' = [g \in Flushers |-> IF g \in S THEN {} ELSE flushIntent[g]]
    <2> DEFINE served == {g \in Flushers : flushPc[g] \in {"send", "join"} /\ i \in flushIntent[g]}
    <2>1. flushIntent' = [g \in Flushers |-> IF g \in served THEN {} ELSE flushIntent[g]]
      BY <1>5 DEF FlushReply
    <2>2. QED
      BY <2>1
  <1>6. ASSUME NEW f \in Flushers, NEW i \in Intents,
               FlushJoins(f, i) \/ FlushPasses(f, i) \/ FlushSends(f, i)
        PROVE  OneIntent'
    BY <1>1, <1>3, <1>6 DEF FlushJoins, FlushPasses, FlushSends
  <1>7. ASSUME NEW f \in Flushers,
               \/ FlushStatusFails(f) \/ FlushDone(f)
               \/ \E s \in Sessions : FlushStart(f, s)
               \/ \E o \in Observation : FlushObserves(f, o)
        PROVE  OneIntent'
    BY <1>1, <1>7 DEF FlushStatusFails, FlushDone, FlushStart, FlushObserves
  <1>8. ASSUME NEW i \in Intents,
               \/ DispatchExpired(i) \/ Dispatch(i) \/ DispatchFails(i) \/ Expires(i)
               \/ \E o \in Observation : DispatchObserves(i, o)
               \/ \E k \in Outcomes : DispatchReply(i, k)
               \/ \E a \in Attempts : NativeQueues(i, a) \/ NativeLoses(i, a)
        PROVE  OneIntent'
    BY <1>1, <1>8 DEF DispatchExpired, Dispatch, DispatchFails, Expires, DispatchObserves,
                      DispatchReply, NativeQueues, NativeLoses
  <1>9. ASSUME \/ Crash \/ CrashRecovering
               \/ \E i \in Intents : CrashReserving(i) \/ CrashSettling(i)
        PROVE  OneIntent'
    BY <1>2, <1>9 DEF Crash, CrashRecovering, CrashReserving, CrashSettling, Forget
  <1>10. ASSUME Restart \/ UNCHANGED vars
         PROVE  OneIntent'
    BY <1>1, <1>10 DEF Restart, vars
  <1>11. QED
    BY <1>4, <1>5, <1>6, <1>7, <1>8, <1>9, <1>10 DEF Next

(* Only a running daemon starts tasks, and its death ends them.            *)
LEMMA DownIdleStep == TypeInv /\ DownIdle /\ [Next]_vars => DownIdle'
  <1> SUFFICES ASSUME TypeInv, DownIdle, [Next]_vars
               PROVE  DownIdle'
    OBVIOUS
  <1> USE DEF flushVars
  <1>1. CASE UNCHANGED <<up, dispatching, flushPc>>
    BY <1>1 DEF DownIdle
  <1>2. CASE up'
    BY <1>2 DEF DownIdle
  <1>3. CASE Forget
    BY <1>3 DEF DownIdle, Forget
  <1>4. ASSUME NEW i \in Intents,
               \/ DispatchExpired(i) \/ Dispatch(i) \/ Expires(i)
               \/ \E a \in Attempts : NativeQueues(i, a) \/ NativeLoses(i, a)
        PROVE  DownIdle'
    BY <1>1, <1>2, <1>4 DEF DispatchExpired, Dispatch, Expires, NativeQueues, NativeLoses
  <1>5. ASSUME NEW i \in Intents,
               \/ DispatchFails(i)
               \/ \E o \in Observation : DispatchObserves(i, o)
               \/ \E k \in Outcomes : DispatchReply(i, k)
        PROVE  DownIdle'
    <2>1. up
      BY <1>5 DEF DispatchFails, DispatchObserves, DispatchReply, DownIdle
    <2>2. up' = up
      BY <1>5 DEF DispatchFails, DispatchObserves, DispatchReply
    <2>3. QED
      BY <1>2, <2>1, <2>2
  <1>6. ASSUME NEW f \in Flushers,
               \/ FlushStatusFails(f) \/ FlushDone(f)
               \/ \E s \in Sessions : FlushStart(f, s)
               \/ \E o \in Observation : FlushObserves(f, o)
        PROVE  DownIdle'
    <2>1. up
      BY <1>6 DEF FlushStatusFails, FlushDone, FlushStart, FlushObserves, DownIdle
    <2>2. up' = up
      BY <1>6 DEF FlushStatusFails, FlushDone, FlushStart, FlushObserves
    <2>3. QED
      BY <1>2, <2>1, <2>2
  <1>7. ASSUME NEW f \in Flushers, NEW i \in Intents,
               \/ FlushJoins(f, i) \/ FlushPasses(f, i) \/ FlushSends(f, i)
               \/ \E k \in Outcomes : FlushReply(f, i, k)
        PROVE  DownIdle'
    <2>1. up
      BY <1>7 DEF FlushJoins, FlushPasses, FlushSends, FlushTakes, FlushReply, DownIdle
    <2>2. up' = up
      BY <1>7 DEF FlushJoins, FlushPasses, FlushSends, FlushTakes, FlushReply
    <2>3. QED
      BY <1>2, <2>1, <2>2
  <1>8. ASSUME \/ Crash \/ CrashRecovering
               \/ \E i \in Intents : CrashReserving(i) \/ CrashSettling(i)
        PROVE  DownIdle'
    BY <1>3, <1>8 DEF Crash, CrashRecovering, CrashReserving, CrashSettling
  <1>9. ASSUME Restart \/ UNCHANGED vars
        PROVE  DownIdle'
    BY <1>1, <1>2, <1>9 DEF Restart, vars
  <1>10. QED
    BY <1>4, <1>5, <1>6, <1>7, <1>8, <1>9 DEF Next

LEMMA InvStep == Inv /\ [Next]_vars => Inv'
  <1> SUFFICES ASSUME Inv, [Next]_vars
               PROVE  LiveOnRecord' /\ StatusUnrecorded' /\ OneSender'
    BY TypeStep, OneIntentStep, DownIdleStep DEF Inv
  <1> USE DEF flushVars
  <1>1. ASSUME NEW i \in Intents, DispatchExpired(i)
        PROVE  LiveOnRecord' /\ StatusUnrecorded' /\ OneSender'
    <2>1. /\ store'[i] = Rec("expired", "expired", NoAttempt)
          /\ \A j \in Intents \ {i} : store'[j] = store[j]
      BY <1>1, PutFacts DEF DispatchExpired
    <2>2. store[i].state \in NotSent /\ store[i].state # "sending"
      BY <1>1, NoRecordFacts, StateFacts DEF DispatchExpired
    <2>3. LiveOnRecord'
      BY <1>1, <2>1, <2>2, QuietLive DEF DispatchExpired
    <2>4. store'[i].state = "expired"
      BY <2>1 DEF Rec
    <2>5. StatusUnrecorded' /\ OneSender'
      BY <1>1, <2>1, <2>2, <2>4, NoSender, DispatchStep, StateFacts
      DEF DispatchExpired, Inv, TypeInv, TypeOK
    <2>6. QED
      BY <2>3, <2>5
  <1>2. ASSUME NEW i \in Intents, Dispatch(i)
        PROVE  LiveOnRecord' /\ StatusUnrecorded' /\ OneSender'
    <2>1. /\ dispatching'[i] = "status" /\ store'[i] = NoRecord
          /\ \A j \in Intents \ {i} : dispatching'[j] = dispatching[j]
          /\ dispatching' \in [Intents -> {"no", "status", "send"}]
      BY <1>2, AwaitFacts DEF Dispatch
    <2>2. FlushesSending(i) = {}
      BY <1>2, NoSender, NoRecordFacts, StateFacts DEF Dispatch
    <2>3. LiveOnRecord'
      BY <1>2, QuietLive DEF Dispatch
    <2>4. QED
      BY <1>2, <2>1, <2>2, <2>3, DispatchStep, NoRecordFacts DEF Dispatch
  <1>3. ASSUME NEW i \in Intents, NEW d, dispatching[i] = "status",
               NEW s \in {"failed", "deferred"}, NEW a,
               Put(i, Rec(s, d, a)), Await(i, "no"),
               UNCHANGED <<flushVars, native, up>>
        PROVE  LiveOnRecord' /\ StatusUnrecorded' /\ OneSender'
    <2>1. store[i] = NoRecord
      BY <1>3 DEF Inv, StatusUnrecorded
    <2>2. store[i].state \in NotSent /\ FlushesSending(i) = {}
      BY <2>1, NoSender, NoRecordFacts
    <2>3. /\ store'[i].state \notin Unresolved
          /\ \A j \in Intents \ {i} : store'[j] = store[j]
      BY <1>3, PutFacts, StateFacts DEF Rec
    <2>4. LiveOnRecord'
      BY <1>3, <2>2, <2>3, QuietLive
    <2>5. QED
      BY <1>3, <2>2, <2>3, <2>4, AwaitFacts, DispatchStep
  <1>4. ASSUME NEW i \in Intents, DispatchFails(i)
        PROVE  LiveOnRecord' /\ StatusUnrecorded' /\ OneSender'
    BY <1>3, <1>4 DEF DispatchFails
  <1>5. ASSUME NEW i \in Intents, NEW o \in Observation, DispatchObserves(i, o)
        PROVE  LiveOnRecord' /\ StatusUnrecorded' /\ OneSender'
    <2>1. CASE DispatchFails(i)
      BY <1>4, <2>1
    <2>2. CASE /\ Put(i, Rec("deferred", "deferred", NoAttempt))
               /\ Await(i, "no")
               /\ UNCHANGED <<flushVars, native, past, up, crashes>>
      BY <1>3, <1>5, <2>2 DEF DispatchObserves
    <2>3. CASE /\ Cross(i, 1) /\ Await(i, "send")
               /\ UNCHANGED <<flushVars, past, answer, up, crashes>>
      <3>1. 1 \in Attempts
        BY DeliveryAssumption DEF Attempts
      <3>2. store[i] = NoRecord
        BY <1>5 DEF DispatchObserves, Inv, StatusUnrecorded
      <3>3. store[i].state \in NotSent /\ FlushesSending(i) = {}
        BY <3>2, NoSender, NoRecordFacts
      <3>4. /\ LiveOnRecord' /\ store'[i].state = "sending"
            /\ \A j \in Intents \ {i} : store'[j] = store[j]
        BY <2>3, <3>1, <3>3, CrossLive
      <3>5. QED
        BY <2>3, <3>3, <3>4, AwaitFacts, DispatchStep
    <2>4. QED
      BY <1>5, <2>1, <2>2, <2>3 DEF DispatchObserves
  <1>6. ASSUME NEW i \in Intents, NEW k \in Outcomes, DispatchReply(i, k)
        PROVE  LiveOnRecord' /\ StatusUnrecorded' /\ OneSender'
    <2>1. store[i].state = "sending" /\ FlushesSending(i) = {}
      BY <1>6 DEF DispatchReply, Inv, OneSender
    <2>2. /\ Settled(k, store[i].attempt) \in Record
          /\ Settled(k, store[i].attempt).state \notin Unresolved
      BY SettledType DEF Inv, TypeInv, TypeOK, Record
    <2>3. LiveOnRecord'
      BY <1>6, <2>1, <2>2, AnswerLive DEF DispatchReply
    <2>4. /\ store'[i].state \notin Unresolved
          /\ \A j \in Intents \ {i} : store'[j] = store[j]
      BY <1>6, <2>2, PutFacts DEF DispatchReply
    <2>5. QED
      BY <1>6, <2>1, <2>3, <2>4, AwaitFacts, DispatchStep DEF DispatchReply
  <1>7. ASSUME NEW f \in Flushers, NEW s \in Sessions, FlushStart(f, s)
        PROVE  LiveOnRecord' /\ StatusUnrecorded' /\ OneSender'
    <2>1. \A i \in Intents : FlushesSending(i)' = FlushesSending(i)
      BY <1>7 DEF FlushStart, FlushesSending, Inv, TypeInv, TypeOK
    <2>2. QED
      BY <1>7, <2>1, QuietLive, FlushStep DEF FlushStart
  <1>8. ASSUME NEW f \in Flushers, FlushStatusFails(f) \/ FlushDone(f)
        PROVE  LiveOnRecord' /\ StatusUnrecorded' /\ OneSender'
    <2>1. \A i \in Intents : FlushesSending(i)' = FlushesSending(i)
      BY <1>8 DEF FlushStatusFails, FlushDone, FlushesSending, Inv, TypeInv, TypeOK
    <2>2. QED
      BY <1>8, <2>1, QuietLive, FlushStep DEF FlushStatusFails, FlushDone
  <1>9. ASSUME NEW f \in Flushers, NEW o \in Observation, FlushObserves(f, o)
        PROVE  LiveOnRecord' /\ StatusUnrecorded' /\ OneSender'
    <2>1. \A i \in Intents : FlushesSending(i)' = FlushesSending(i)
      BY <1>9 DEF FlushObserves, FlushesSending, Inv, TypeInv, TypeOK
    <2>2. ASSUME NEW i \in Intents
          PROVE  \/ store'[i] = store[i]
                 \/ /\ store[i].state = "deferred"
                    /\ store'[i].state \notin Unresolved
      <3>1. CASE UNCHANGED store
        BY <3>1
      <3>2. CASE store' = [j \in Intents |->
                   IF j \in DeferredFor(flushTarget[f])
                   THEN Rec("failed", "fail_closed", NoAttempt) ELSE store[j]]
        <4>1. i \in DeferredFor(flushTarget[f]) => store[i].state = "deferred"
          BY DEF DeferredFor, Inv, TypeInv, DeferredRecords
        <4>2. Rec("failed", "fail_closed", NoAttempt).state \notin Unresolved
          BY StateFacts DEF Rec
        <4>3. QED
          BY <3>2, <4>1, <4>2
      <3>3. QED
        BY <1>9, <3>1, <3>2 DEF FlushObserves
    <2>3. LiveOnRecord'
      BY <1>9, <2>2, QuietLive, StateFacts DEF FlushObserves
    <2>4. QED
      BY <1>9, <2>1, <2>2, <2>3, FlushStep DEF FlushObserves
  <1>10. ASSUME NEW f \in Flushers, NEW i \in Intents,
                FlushJoins(f, i) \/ FlushPasses(f, i)
         PROVE  LiveOnRecord' /\ StatusUnrecorded' /\ OneSender'
    <2>1. CASE FlushJoins(f, i)
      <3>1. \A j \in Intents : FlushesSending(j)' = FlushesSending(j)
        BY <2>1 DEF FlushJoins, FlushTakes, FlushesSending, Inv, TypeInv, TypeOK
      <3>2. QED
        BY <2>1, <3>1, QuietLive, FlushStep DEF FlushJoins, FlushTakes
    <2>2. CASE FlushPasses(f, i)
      BY <2>2, QuietLive, FlushStep, SameSenders DEF FlushPasses, FlushTakes
    <2>3. QED
      BY <1>10, <2>1, <2>2
  <1>11. ASSUME NEW f \in Flushers, NEW i \in Intents, FlushSends(f, i)
         PROVE  LiveOnRecord' /\ StatusUnrecorded' /\ OneSender'
    <2>1. store[i].state = "deferred" /\ store[i].state \in NotSent
      BY <1>11, StateFacts DEF FlushSends, Inv, TypeInv, DeferredRecords
    <2>2. NextAttempt(i) \in Attempts
      BY <1>11, NextAttemptType DEF FlushSends, Inv
    <2>3. /\ LiveOnRecord' /\ store'[i].state = "sending"
          /\ \A j \in Intents \ {i} : store'[j] = store[j]
      BY <1>11, <2>1, <2>2, CrossLive DEF FlushSends
    <2>4. /\ FlushesSending(i)' = {f}
          /\ \A j \in Intents \ {i} : FlushesSending(j)' = FlushesSending(j)
      <3>1. FlushesSending(i) = {} /\ flushPc[f] = "loop"
        BY <1>11, <2>1, NoSender DEF FlushSends, FlushTakes
      <3>2. /\ flushPc' = [flushPc EXCEPT ![f] = "send"]
            /\ flushIntent' = [flushIntent EXCEPT ![f] = {i}]
        BY <1>11 DEF FlushSends
      <3>3. QED
        BY <3>1, <3>2 DEF FlushesSending, Inv, TypeInv, TypeOK
    <2>5. dispatching[i] = "no"
      BY <2>1, NoSender, NoRecordFacts DEF Inv, StatusUnrecorded, TypeInv, TypeOK
    <2>6. UNCHANGED <<dispatching, up>>
      BY <1>11 DEF FlushSends, FlushTakes
    <2>7. StatusUnrecorded'
      BY <2>3, <2>5, <2>6 DEF Inv, StatusUnrecorded
    <2>8. OneSender'
      BY <2>3, <2>4, <2>5, <2>6 DEF Inv, OneSender
    <2>9. QED
      BY <2>3, <2>7, <2>8
  <1>12. ASSUME NEW f \in Flushers, NEW i \in Intents, NEW k \in Outcomes,
                FlushReply(f, i, k)
         PROVE  LiveOnRecord' /\ StatusUnrecorded' /\ OneSender'
    <2> DEFINE a == store[i].attempt
               r == IF k = "busy" /\ BusyPolicy[i] = "skip"
                    THEN Rec("cancelled", "skipped", a) ELSE Settled(k, a)
    <2>1. f \in FlushesSending(i)
      BY <1>12 DEF FlushReply, FlushesSending
    <2>2. store[i].state = "sending" /\ dispatching[i] # "send"
      BY <2>1 DEF Inv, OneSender
    <2>3. a \in 0 .. MaxAttempt
      BY DEF Inv, TypeInv, TypeOK, Record
    <2>4. r \in Record /\ r.state \notin Unresolved
      <3>1. /\ Rec("cancelled", "skipped", a) \in Record
            /\ Rec("cancelled", "skipped", a).state = "cancelled"
        BY <2>3, SkippedType
      <3>2. QED
        BY <2>3, <3>1, SettledType, StateFacts
    <2>5. Put(i, r)
      BY <1>12 DEF FlushReply
    <2>6. LiveOnRecord'
      BY <1>12, <2>2, <2>4, <2>5, AnswerLive DEF FlushReply
    <2>7. /\ store'[i].state \notin Unresolved
          /\ \A j \in Intents \ {i} : store'[j] = store[j]
      BY <2>4, <2>5, PutFacts
    <2>8. /\ FlushesSending(i)' = {}
          /\ \A j \in Intents \ {i} : FlushesSending(j)' = FlushesSending(j)
      <3> DEFINE served == {g \in Flushers : flushPc[g] \in {"send", "join"} /\ i \in flushIntent[g]}
      <3>1. \A g \in Flushers :
              /\ flushPc'[g] = IF g \in served THEN "loop" ELSE flushPc[g]
              /\ flushIntent'[g] = IF g \in served THEN {} ELSE flushIntent[g]
        BY <1>12 DEF FlushReply
      <3>2. FlushesSending(i)' = {}
        BY <3>1 DEF FlushesSending
      <3>3. ASSUME NEW j \in Intents \ {i}
            PROVE  FlushesSending(j)' = FlushesSending(j)
        <4>1. \A g \in served : j \notin flushIntent[g]
          BY <3>3 DEF Inv, OneIntent
        <4>2. QED
          BY <3>1, <4>1 DEF FlushesSending
      <3>4. QED
        BY <3>2, <3>3
    <2>9. UNCHANGED <<dispatching, up>>
      BY <1>12 DEF FlushReply
    <2>10. StatusUnrecorded'
      BY <2>2, <2>7, <2>9, NoRecordFacts, StateFacts DEF Inv, StatusUnrecorded
    <2>11. OneSender'
      BY <2>2, <2>7, <2>8, <2>9 DEF Inv, OneSender
    <2>12. QED
      BY <2>6, <2>10, <2>11
  <1>13. ASSUME NEW i \in Intents, NEW a \in Attempts, NativeQueues(i, a) \/ NativeLoses(i, a)
         PROVE  LiveOnRecord' /\ StatusUnrecorded' /\ OneSender'
    <2>1. UNCHANGED <<store, dispatching, flushVars, up>> /\ native[i][a] = "wire"
      BY <1>13 DEF NativeQueues, NativeLoses
    <2>2. \A j \in Intents, b \in Attempts :
            native'[j][b] \in {"wire", "queued"} => native[j][b] \in {"wire", "queued"}
      BY <1>13 DEF NativeQueues, NativeLoses, Inv, TypeInv, TypeOK
    <2>3. LiveOnRecord'
      BY SMTT(30), <2>1, <2>2 DEF Inv, LiveOnRecord
    <2>4. QED
      BY <2>1, <2>3, SameSenders, FlushStep
  <1>14. ASSUME NEW i \in Intents, Expires(i)
         PROVE  LiveOnRecord' /\ StatusUnrecorded' /\ OneSender'
    BY <1>14, QuietLive, SameSenders, FlushStep DEF Expires
  <1>15. CASE Crash
    BY <1>15, QuietLive, ForgetStep DEF Crash
  <1>16. ASSUME NEW i \in Intents, CrashReserving(i)
         PROVE  LiveOnRecord' /\ StatusUnrecorded' /\ OneSender'
    <2>1. store[i].state \in NotSent
      BY <1>16, NoRecordFacts, StateFacts
      DEF CrashReserving, Inv, StatusUnrecorded, TypeInv, DeferredRecords
    <2>2. \A j \in Intents \ {i} : store'[j] = store[j]
      BY <1>16, PutFacts DEF CrashReserving
    <2>3. LiveOnRecord'
      BY <1>16, <2>1, <2>2, QuietLive DEF CrashReserving
    <2>4. QED
      BY <1>16, <2>3, ForgetStep DEF CrashReserving
  <1>17. ASSUME NEW i \in Intents, CrashSettling(i)
         PROVE  LiveOnRecord' /\ StatusUnrecorded' /\ OneSender'
    <2>1. store[i].state = "sending"
      BY <1>17 DEF CrashSettling, Inv, OneSender, FlushesSending
    <2>2. PICK k \in {"accepted", "busy"} :
            /\ Possible(i, store[i].attempt, k)
            /\ NativeAnswers(i, store[i].attempt, k)
            /\ Put(i, Settled(k, store[i].attempt))
      BY <1>17 DEF CrashSettling
    <2>3. k \in Outcomes /\ Settled(k, store[i].attempt) \in Record
      <3>1. k \in Outcomes
        BY DEF Outcomes
      <3>2. QED
        BY <3>1, SettledType DEF Inv, TypeInv, TypeOK, Record
    <2>4. LiveOnRecord'
      BY <2>1, <2>2, <2>3, AnswerLive
    <2>5. QED
      BY <1>17, <2>4, ForgetStep DEF CrashSettling
  <1>18. ASSUME NEW S \in SUBSET UnresolvedIntents, Doubted(S), UNCHANGED native
         PROVE  /\ LiveOnRecord'
                /\ \A i \in Intents :
                     IF i \in S THEN store'[i].state = "unknown_delivery"
                               ELSE store'[i] = store[i]
    <2>1. ASSUME NEW i \in Intents, i \in S
          PROVE  store'[i].state = "unknown_delivery" /\ store'[i].attempt = store[i].attempt
      BY <1>18, <2>1 DEF Doubted, Unknown, Rec
    <2>2. ASSUME NEW i \in Intents, i \notin S
          PROVE  store'[i] = store[i]
      BY <1>18, <2>2 DEF Doubted
    <2>3. LiveOnRecord'
      BY <1>18, <2>1, <2>2, QuietLive, StateFacts
    <2>4. QED
      BY <2>1, <2>2, <2>3
  <1>19. CASE Restart
    <2>1. /\ LiveOnRecord'
          /\ \A i \in Intents :
               IF store[i].state \in Unresolved THEN store'[i].state = "unknown_delivery"
                                                ELSE store'[i] = store[i]
      BY <1>18, <1>19 DEF Restart, UnresolvedIntents
    <2>2. UNCHANGED <<dispatching, flushVars>> /\ ~up
      BY <1>19 DEF Restart
    <2>3. \A i \in Intents : dispatching'[i] = "no" /\ FlushesSending(i)' = {}
      BY <2>2 DEF Inv, DownIdle, FlushesSending
    <2>4. \A i \in Intents : store'[i].state \notin Unresolved
      BY <2>1, StateFacts
    <2>5. StatusUnrecorded' /\ OneSender'
      BY <2>3, <2>4 DEF StatusUnrecorded, OneSender
    <2>6. QED
      BY <2>1, <2>5
  <1>20. CASE CrashRecovering
    BY <1>18, <1>20, ForgetStep DEF CrashRecovering
  <1>21. CASE UNCHANGED vars
    BY <1>21, QuietLive, SameSenders, FlushStep DEF vars
  <1>22. QED
    BY <1>1, <1>2, <1>4, <1>5, <1>6, <1>7, <1>8, <1>9, <1>10, <1>11, <1>12, <1>13, <1>14,
       <1>15, <1>16, <1>17, <1>19, <1>20, <1>21
    DEF Next
-----------------------------------------------------------------------------
(* The inductive invariant holds throughout.                               *)
THEOREM Invariance == Spec => []Inv
  BY InvInit, InvStep, PTL DEF Spec

(* However tasks, late native answers and crashes interleave, the native   *)
(* server queues the message of an intent at most once: only the attempt   *)
(* on record can be queued (send, resumePendingIntent, recoverOutbox).     *)
THEOREM QueuedAtMostOnce == Spec => []AtMostOnce
  <1>1. Inv => AtMostOnce
    BY DEF Inv, LiveOnRecord, AtMostOnce
  <1>2. QED
    BY <1>1, Invariance, PTL

(* A record that says the message was not sent is right for good (send,    *)
(* fail, recoverOutbox).                                                   *)
THEOREM NotSentTrue == Spec => []NotSentIsTrue
  <1>1. Inv => NotSentIsTrue
    BY DEF Inv, LiveOnRecord, NotSentIsTrue, NotSent, Live
  <1>2. QED
    BY <1>1, Invariance, PTL

(* Every unresolved record of a running daemon has exactly one task that   *)
(* sends it (inflightIntents, inflightSends, recoverOutbox).               *)
THEOREM SendersAlone == Spec => []OneSender
  <1>1. Inv => OneSender
    BY DEF Inv
  <1>2. QED
    BY <1>1, Invariance, PTL
-----------------------------------------------------------------------------
(* What the properties about earlier steps need on top of Inv: the attempt *)
(* of a send in flight or believed is one of the attempts, a message the   *)
(* daemon believes sent is in the native queue under the attempt on        *)
(* record, and an intent that may still be sent has used no attempt above  *)
(* the one on record.                                                      *)
Believed == {"accepted"} \cup Proved

BelievedQueued ==
  \A i \in Intents :
    /\ store[i].state \in {"sending"} \cup Believed => store[i].attempt \in Attempts
    /\ store[i].state \in Believed =>
         store[i].decision = "sent" /\ native[i][store[i].attempt] = "queued"

AboveUnused ==
  \A i \in Intents, b \in Attempts :
    store[i].state \notin Dropped /\ b > store[i].attempt => native[i][b] = "unused"

PastInv == Inv /\ BelievedQueued /\ AboveUnused
(* What a step does to the records and to the native server, in one of     *)
(* seven ways; all properties about earlier steps follow from these.       *)
FailedRecords ==
  {Rec("expired", "expired", NoAttempt), Rec("failed", "failed", NoAttempt),
   Rec("failed", "fail_closed", NoAttempt)}
Dropping(S) ==
  /\ \A i \in S : store[i].state \in {"absent", "deferred"}
  /\ \E r \in FailedRecords :
       store' = [i \in Intents |-> IF i \in S THEN r ELSE store[i]]
  /\ UNCHANGED native

Postponing(i) ==
  /\ store[i] = NoRecord
  /\ Put(i, Rec("deferred", "deferred", NoAttempt))
  /\ UNCHANGED native

FreshFor(i, a) ==
  /\ a \in Attempts
  /\ \/ store[i] = NoRecord /\ a = 1
     \/ store[i].decision = "deferred" /\ a = NextAttempt(i)
Reserving(i, a) ==
  FreshFor(i, a) /\ Put(i, Rec("emitted", "emitted", a)) /\ UNCHANGED native
Starting(i, a) == FreshFor(i, a) /\ Cross(i, a)

Replying(i, k) ==
  /\ store[i].state = "sending"
  /\ Possible(i, store[i].attempt, k) /\ NativeAnswers(i, store[i].attempt, k)
  /\ \/ Put(i, Settled(k, store[i].attempt))
     \/ k = "busy" /\ Put(i, Rec("cancelled", "skipped", store[i].attempt))

Settling(i, a) ==
  /\ native[i][a] = "wire"
  /\ \E s \in {"queued", "gone"} : native' = [native EXCEPT ![i][a] = s]
  /\ UNCHANGED store

Doubting(S) ==
  (\A i \in S : store[i].state \in Unresolved) /\ Doubted(S) /\ UNCHANGED native

Moves ==
  \/ UNCHANGED <<store, native>>
  \/ \E S \in SUBSET Intents : Dropping(S) \/ Doubting(S)
  \/ \E i \in Intents :
       \/ Postponing(i)
       \/ \E a \in Attempts : Reserving(i, a) \/ Starting(i, a) \/ Settling(i, a)
       \/ \E k \in Outcomes : Replying(i, k)
-----------------------------------------------------------------------------
(* One record that is given up is a set of one.                            *)
LEMMA DropOne ==
  ASSUME Inv, NEW i \in Intents, store[i].state \in {"absent", "deferred"},
         NEW r \in FailedRecords, Put(i, r), UNCHANGED native
  PROVE  Moves
  <1>1. store' = [j \in Intents |-> IF j \in {i} THEN r ELSE store[j]]
    BY DEF Put, Inv, TypeInv, TypeOK
  <1>2. Dropping({i})
    BY <1>1 DEF Dropping
  <1>3. QED
    BY <1>2 DEF Moves

(* Every step moves the records and the native server in one of these ways.*)
LEMMA StepMoves == Inv /\ [Next]_vars => Moves
  <1> SUFFICES ASSUME Inv, [Next]_vars PROVE Moves
    OBVIOUS
  <1> USE DEF flushVars
  <1>0. \A i \in Intents : store[i].decision = "deferred" <=> store[i].state = "deferred"
    BY DEF Inv, TypeInv, DeferredRecords
  <1>1. ASSUME NEW i \in Intents, DispatchExpired(i) PROVE Moves
    BY <1>1, NoRecordFacts, DropOne DEF DispatchExpired, FailedRecords
  <1>2. ASSUME NEW i \in Intents, DispatchFails(i) PROVE Moves
    <2>1. store[i] = NoRecord
      BY <1>2 DEF DispatchFails, Inv, StatusUnrecorded
    <2>2. QED
      BY <1>2, <2>1, NoRecordFacts, DropOne DEF DispatchFails, FailedRecords
  <1>3. ASSUME NEW i \in Intents, NEW o \in Observation, DispatchObserves(i, o) PROVE Moves
    <2>1. store[i] = NoRecord
      BY <1>3 DEF DispatchObserves, Inv, StatusUnrecorded
    <2>2. CASE DispatchFails(i)
      BY <1>2, <2>2
    <2>3. CASE Put(i, Rec("deferred", "deferred", NoAttempt)) /\ UNCHANGED native
      BY <2>1, <2>3 DEF Moves, Postponing
    <2>4. CASE Cross(i, 1)
      <3>1. 1 \in Attempts
        BY DeliveryAssumption DEF Attempts
      <3>2. QED
        BY <2>1, <2>4, <3>1 DEF Moves, Starting, FreshFor
    <2>5. QED
      BY <1>3, <2>2, <2>3, <2>4 DEF DispatchObserves
  <1>4. ASSUME NEW i \in Intents, NEW k \in Outcomes, DispatchReply(i, k) PROVE Moves
    <2>1. store[i].state = "sending"
      BY <1>4 DEF DispatchReply, Inv, OneSender
    <2>2. Replying(i, k)
      BY <1>4, <2>1 DEF DispatchReply, Replying
    <2>3. QED
      BY <2>2 DEF Moves
  <1>5. ASSUME NEW f \in Flushers, NEW o \in Observation, FlushObserves(f, o) PROVE Moves
    <2>1. CASE UNCHANGED store
      BY <1>5, <2>1 DEF FlushObserves, Moves
    <2>2. CASE store' = [i \in Intents |->
                 IF i \in DeferredFor(flushTarget[f])
                 THEN Rec("failed", "fail_closed", NoAttempt) ELSE store[i]]
      <3>1. Dropping(DeferredFor(flushTarget[f]))
        BY <1>0, <1>5, <2>2 DEF FlushObserves, Dropping, DeferredFor, FailedRecords
      <3>2. QED
        BY <3>1 DEF Moves, DeferredFor
    <2>3. QED
      BY <1>5, <2>1, <2>2 DEF FlushObserves
  <1>6. ASSUME NEW f \in Flushers, NEW i \in Intents, FlushSends(f, i) PROVE Moves
    <2>1. NextAttempt(i) \in Attempts
      BY <1>6, NextAttemptType DEF FlushSends, Inv
    <2>2. Starting(i, NextAttempt(i))
      BY <1>6, <2>1 DEF FlushSends, Starting, FreshFor
    <2>3. QED
      BY <2>1, <2>2 DEF Moves
  <1>7. ASSUME NEW f \in Flushers, NEW i \in Intents, NEW k \in Outcomes, FlushReply(f, i, k)
        PROVE Moves
    <2>1. store[i].state = "sending"
      BY <1>7 DEF FlushReply, Inv, OneSender, FlushesSending
    <2>2. Replying(i, k)
      BY <1>7, <2>1 DEF FlushReply, Replying
    <2>3. QED
      BY <2>2 DEF Moves
  <1>8. ASSUME NEW i \in Intents, NEW a \in Attempts, NativeQueues(i, a) \/ NativeLoses(i, a)
        PROVE Moves
    <2>1. Settling(i, a)
      BY <1>8 DEF NativeQueues, NativeLoses, Settling
    <2>2. QED
      BY <2>1 DEF Moves
  <1>9. ASSUME NEW i \in Intents, CrashReserving(i) PROVE Moves
    <2>1. CASE dispatching[i] = "status" /\ Put(i, Rec("emitted", "emitted", 1))
      <3>1. store[i] = NoRecord /\ 1 \in Attempts
        BY <2>1, DeliveryAssumption DEF Inv, StatusUnrecorded, Attempts
      <3>2. Reserving(i, 1)
        BY <1>9, <2>1, <3>1 DEF CrashReserving, Reserving, FreshFor
      <3>3. QED
        BY <3>1, <3>2 DEF Moves
    <2>2. CASE /\ store[i].decision = "deferred"
               /\ Put(i, Rec("emitted", "emitted", NextAttempt(i)))
      <3>1. NextAttempt(i) \in Attempts
        BY <2>2, NextAttemptType DEF Inv
      <3>2. Reserving(i, NextAttempt(i))
        BY <1>9, <2>2, <3>1 DEF CrashReserving, Reserving, FreshFor
      <3>3. QED
        BY <3>1, <3>2 DEF Moves
    <2>3. QED
      BY <1>9, <2>1, <2>2 DEF CrashReserving
  <1>10. ASSUME NEW i \in Intents, CrashSettling(i) PROVE Moves
    <2>1. store[i].state = "sending"
      BY <1>10 DEF CrashSettling, Inv, OneSender, FlushesSending
    <2>2. \E k \in {"accepted", "busy"} : Replying(i, k)
      BY <1>10, <2>1 DEF CrashSettling, Replying
    <2>3. QED
      BY <2>2 DEF Moves, Outcomes
  <1>11. ASSUME NEW S \in SUBSET UnresolvedIntents, Doubted(S), UNCHANGED native PROVE Moves
    <2>1. Doubting(S) /\ S \in SUBSET Intents
      BY <1>11 DEF Doubting, UnresolvedIntents
    <2>2. QED
      BY <2>1 DEF Moves
  <1>12. CASE Restart \/ CrashRecovering
    BY <1>11, <1>12 DEF Restart, CrashRecovering
  <1>13. CASE UNCHANGED vars \/ Crash
    BY <1>13 DEF vars, Crash, Moves
  <1>14. ASSUME NEW f \in Flushers, NEW i \in Intents, FlushJoins(f, i) \/ FlushPasses(f, i)
         PROVE  Moves
    BY <1>14 DEF FlushJoins, FlushPasses, Moves
  <1>15. ASSUME NEW f \in Flushers,
                FlushStatusFails(f) \/ FlushDone(f) \/ \E s \in Sessions : FlushStart(f, s)
         PROVE  Moves
    BY <1>15 DEF FlushStatusFails, FlushDone, FlushStart, Moves
  <1>16. ASSUME NEW i \in Intents, Dispatch(i) \/ Expires(i) PROVE Moves
    BY <1>16 DEF Dispatch, Expires, Moves
  <1>17. QED
    BY <1>1, <1>2, <1>3, <1>4, <1>5, <1>6, <1>7, <1>8, <1>9, <1>10, <1>12, <1>13, <1>14,
       <1>15, <1>16 DEF Next
-----------------------------------------------------------------------------
(* Facts of single records under the moves.                                *)
LEMMA FailedRecordFacts ==
  ASSUME NEW r \in FailedRecords
  PROVE  r.state \in Dropped /\ r.decision # "sent" /\ r.decision # "deferred"
  BY DEF FailedRecords, Rec, Dropped

(* The classes of states keep apart.                                       *)
LEMMA ApartFacts ==
  /\ \A s \in Dropped : s \notin Believed /\ s \notin Unresolved /\ s \notin {"absent", "deferred"}
  /\ \A s \in Believed : s \notin Unresolved /\ s \notin NotSent /\ s # "unknown_delivery"
  /\ "sending" \notin Dropped /\ "emitted" \notin Dropped
  /\ "absent" \notin Dropped /\ "deferred" \notin Dropped
  /\ "absent" \notin Believed /\ "deferred" \notin Believed
  /\ "unknown_delivery" \notin Dropped \cup Believed
  BY DEF Dropped, Believed, Proved, Unresolved, NotSent

(* An attempt that starts was never used, nor any above it.                *)
LEMMA FreshIsUnused ==
  ASSUME PastInv, NEW i \in Intents, NEW a, FreshFor(i, a)
  PROVE  /\ \A b \in Attempts : b >= a => native[i][b] = "unused"
         /\ store[i].state \in {"absent", "deferred"}
  <1>1. store[i].state \in {"absent", "deferred"} /\ store[i].state \notin Dropped
    BY NoRecordFacts, ApartFacts DEF FreshFor, PastInv, Inv, TypeInv, DeferredRecords
  <1>2. store[i].attempt < a
    <2>1. CASE store[i] = NoRecord /\ a = 1
      BY <2>1 DEF NoRecord, Rec, NoAttempt
    <2>2. CASE store[i].decision = "deferred" /\ a = NextAttempt(i)
      BY <2>2, NextAttemptType DEF PastInv, Inv
    <2>3. QED
      BY <2>1, <2>2 DEF FreshFor
  <1>3. store[i].attempt \in Nat /\ a \in Nat /\ Attempts \subseteq Nat
    BY DeliveryAssumption DEF FreshFor, Attempts, PastInv, Inv, TypeInv, TypeOK, Record
  <1>4. QED
    BY <1>1, <1>2, <1>3 DEF PastInv, AboveUnused

(* The attempt on record alone is touched by an answer.                    *)
LEMMA ReplyFacts ==
  ASSUME PastInv, NEW i \in Intents, NEW k \in Outcomes, Replying(i, k)
  PROVE  /\ store[i].attempt \in Attempts
         /\ \A j \in Intents \ {i} : store'[j] = store[j] /\ native'[j] = native[j]
         /\ \A b \in Attempts \ {store[i].attempt} : native'[i][b] = native[i][b]
         /\ store'[i].state \notin Unresolved \cup {"absent"}
         /\ k \in {"accepted", "delivered"} =>
                   /\ store'[i].state = k /\ store'[i].decision = "sent"
                   /\ store'[i].attempt = store[i].attempt
                   /\ native' = native /\ native[i][store[i].attempt] = "queued"
         /\ k = "uncertain" =>
                   /\ store'[i].state = "unknown_delivery"
                   /\ store'[i].attempt = store[i].attempt /\ native' = native
         /\ k = "busy" =>
                   /\ store'[i].state \in {"deferred", "cancelled"}
                   /\ store'[i].attempt = store[i].attempt
                   /\ native[i][store[i].attempt] = "wire"
                   /\ native'[i][store[i].attempt] = "gone"
         /\ k = "refused" =>
                   /\ store'[i].state = "failed"
                   /\ native[i][store[i].attempt] = "wire"
                   /\ native'[i][store[i].attempt] = "gone"
  <1> DEFINE a == store[i].attempt
  <1>1. a \in Attempts
    BY DEF Replying, PastInv, BelievedQueued
  <1>2. PICK r \in {Settled(k, a), Rec("cancelled", "skipped", a)} :
          /\ store' = [store EXCEPT ![i] = r]
          /\ r = Rec("cancelled", "skipped", a) => k = "busy"
    BY DEF Replying, Put, Settled, Rec, Outcomes, Unknown
  <1>3. store'[i] = r /\ \A j \in Intents \ {i} : store'[j] = store[j]
    BY <1>2 DEF PastInv, Inv, TypeInv, TypeOK
  <1>4. \/ k \notin {"busy", "refused"} /\ native' = native
        \/ k \in {"busy", "refused"} /\ native' = [native EXCEPT ![i][a] = "gone"]
    BY DEF Replying, NativeAnswers
  <1>5. /\ \A j \in Intents \ {i} : native'[j] = native[j]
        /\ \A b \in Attempts \ {a} : native'[i][b] = native[i][b]
        /\ k \in {"busy", "refused"} => native'[i][a] = "gone"
    BY <1>1, <1>4 DEF PastInv, Inv, TypeInv, TypeOK
  <1>6. /\ k \in {"accepted", "delivered"} => native[i][a] = "queued"
        /\ k \in {"busy", "refused"} => native[i][a] = "wire"
    BY DEF Replying, Possible
  <1>7. /\ k \in {"accepted", "delivered"} => r = Rec(k, "sent", a)
        /\ k = "uncertain" => r = Rec("unknown_delivery", "unknown_delivery", a)
        /\ k = "busy" => r \in {Rec("deferred", "deferred", a), Rec("cancelled", "skipped", a)}
        /\ k = "refused" => r = Rec("failed", "failed", NoAttempt)
    BY <1>2 DEF Settled, Unknown
  <1>8. CASE k \in {"accepted", "delivered"}
    BY <1>1, <1>3, <1>4, <1>5, <1>6, <1>7, <1>8 DEF Rec, Unresolved
  <1>9. CASE k = "uncertain"
    BY <1>1, <1>3, <1>4, <1>5, <1>7, <1>9 DEF Rec, Unresolved
  <1>10. CASE k = "busy"
    BY <1>1, <1>3, <1>4, <1>5, <1>6, <1>7, <1>10 DEF Rec, Unresolved
  <1>11. CASE k = "refused"
    BY <1>1, <1>3, <1>4, <1>5, <1>6, <1>7, <1>11 DEF Rec, Unresolved
  <1>12. QED
    BY <1>8, <1>9, <1>10, <1>11 DEF Outcomes
-----------------------------------------------------------------------------
(* Nothing is believed and nothing used at first.                          *)
LEMMA PastInit == Init => PastInv
  <1> SUFFICES ASSUME Init PROVE PastInv
    OBVIOUS
  <1>1. \A i \in Intents : store[i].state = "absent"
    BY NoRecordFacts DEF Init
  <1>2. BelievedQueued
    BY <1>1, ApartFacts DEF BelievedQueued
  <1>3. AboveUnused
    BY DEF Init, AboveUnused
  <1>4. QED
    BY <1>2, <1>3, InvInit DEF PastInv

(* Every move keeps what is believed in the queue and what is unused above *)
(* the record.                                                             *)
LEMMA PastStep == PastInv /\ [Next]_vars => PastInv'
  <1> SUFFICES ASSUME PastInv, Moves PROVE BelievedQueued' /\ AboveUnused'
    BY StepMoves, InvStep DEF PastInv
  <1> USE DEF PastInv
  <1>0. \A i \in Intents : store[i].attempt \in Nat
    BY DEF Inv, TypeInv, TypeOK, Record
  <1>1. CASE UNCHANGED <<store, native>>
    BY <1>1 DEF BelievedQueued, AboveUnused
  <1>2. ASSUME NEW S \in SUBSET Intents, Dropping(S) PROVE BelievedQueued' /\ AboveUnused'
    <2>1. /\ \A i \in S : store'[i] \in FailedRecords
          /\ \A i \in Intents \ S : store'[i] = store[i]
          /\ native' = native
      BY <1>2 DEF Dropping
    <2>2. QED
      BY <2>1, FailedRecordFacts, ApartFacts DEF BelievedQueued, AboveUnused
  <1>3. ASSUME NEW S \in SUBSET Intents, Doubting(S) PROVE BelievedQueued' /\ AboveUnused'
    <2>1. /\ \A i \in S : store'[i].state = "unknown_delivery" /\ store'[i].attempt = store[i].attempt
          /\ \A i \in Intents \ S : store'[i] = store[i]
          /\ native' = native
      BY <1>3 DEF Doubting, Doubted, Unknown, Rec
    <2>2. \A i \in S : store[i].state \notin Dropped
      BY <1>3, ApartFacts DEF Doubting
    <2>3. QED
      BY <2>1, <2>2, ApartFacts DEF BelievedQueued, AboveUnused
  <1>4. ASSUME NEW i \in Intents, Postponing(i) PROVE BelievedQueued' /\ AboveUnused'
    <2>1. /\ store'[i].state = "deferred" /\ store'[i].attempt = store[i].attempt
          /\ \A j \in Intents \ {i} : store'[j] = store[j]
          /\ native' = native
      BY <1>4, PutFacts DEF Postponing, Rec, NoRecord
    <2>2. store[i].state \notin Dropped
      BY <1>4, NoRecordFacts, ApartFacts DEF Postponing
    <2>3. QED
      BY <2>1, <2>2, ApartFacts DEF BelievedQueued, AboveUnused
  <1>5. ASSUME NEW i \in Intents, NEW a \in Attempts, FreshFor(i, a),
               \/ Put(i, Rec("emitted", "emitted", a)) /\ UNCHANGED native
               \/ Cross(i, a)
        PROVE  BelievedQueued' /\ AboveUnused'
    <2>1. /\ store'[i].state \in {"emitted", "sending"} /\ store'[i].attempt = a
          /\ \A j \in Intents \ {i} : store'[j] = store[j]
      BY <1>5, PutFacts DEF Cross, Rec
    <2>2. /\ \A j \in Intents \ {i} : native'[j] = native[j]
          /\ \A b \in Attempts \ {a} : native'[i][b] = native[i][b]
      BY <1>5 DEF Cross, Inv, TypeInv, TypeOK
    <2>3. \A b \in Attempts : b > a => native'[i][b] = "unused"
      BY <1>5, <2>2, FreshIsUnused DEF Attempts
    <2>4. BelievedQueued'
      BY <2>1, <2>2, ApartFacts DEF BelievedQueued, Believed, Proved
    <2>5. AboveUnused'
      BY <2>1, <2>2, <2>3 DEF AboveUnused
    <2>6. QED
      BY <2>4, <2>5
  <1>6. ASSUME NEW i \in Intents, NEW k \in Outcomes, Replying(i, k)
        PROVE  BelievedQueued' /\ AboveUnused'
    <2> DEFINE a == store[i].attempt
    <2>1. store[i].state \notin Dropped /\ a \in Attempts
      BY <1>6, ApartFacts, ReplyFacts DEF Replying
    <2>2. /\ \A j \in Intents \ {i} : store'[j] = store[j] /\ native'[j] = native[j]
          /\ \A b \in Attempts \ {a} : native'[i][b] = native[i][b]
      BY <1>6, ReplyFacts
    <2>3. store'[i].state \in Believed =>
            /\ store'[i].decision = "sent" /\ store'[i].attempt = a
            /\ native'[i][a] = "queued"
      <3>1. CASE k \in {"accepted", "delivered"}
        BY <1>6, <3>1, ReplyFacts
      <3>2. CASE k \in {"uncertain", "busy", "refused"}
        BY <1>6, <3>2, ReplyFacts, ApartFacts DEF Dropped
      <3>3. QED
        BY <3>1, <3>2 DEF Outcomes
    <2>4. store'[i].state # "sending"
      BY <1>6, ReplyFacts, StateFacts
    <2>5. store'[i].state \in Dropped \/ store'[i].attempt = a
      BY <1>6, ReplyFacts, ApartFacts DEF Outcomes, Dropped
    <2>6. BelievedQueued'
      BY <2>1, <2>2, <2>3, <2>4 DEF BelievedQueued
    <2>7. AboveUnused'
      BY <1>0, <2>1, <2>2, <2>5 DEF AboveUnused, Attempts
    <2>8. QED
      BY <2>6, <2>7
  <1>7. ASSUME NEW i \in Intents, NEW a \in Attempts, Settling(i, a)
        PROVE  BelievedQueued' /\ AboveUnused'
    <2>1. a = store[i].attempt /\ store' = store /\ native[i][a] = "wire"
      BY <1>7 DEF Settling, Inv, LiveOnRecord
    <2>2. /\ \A j \in Intents \ {i} : native'[j] = native[j]
          /\ \A b \in Attempts \ {a} : native'[i][b] = native[i][b]
      BY <1>7 DEF Settling, Inv, TypeInv, TypeOK
    <2>3. BelievedQueued'
      BY <2>1, <2>2 DEF BelievedQueued
    <2>4. AboveUnused'
      BY <1>0, <2>1, <2>2 DEF AboveUnused, Attempts
    <2>5. QED
      BY <2>3, <2>4
  <1>8. QED
    BY <1>1, <1>2, <1>3, <1>4, <1>5, <1>6, <1>7 DEF Moves, Reserving, Starting
-----------------------------------------------------------------------------
(* A send never reuses an identity, nor one below an identity that was     *)
(* used (nextResumeAttemptId, send): the attempts above the one on record  *)
(* are unused as long as the intent may be sent at all.                    *)
THEOREM FreshIdentities == Spec => FreshAttempt
  <1>1. ASSUME PastInv, Moves, NEW i \in Intents, NEW a \in Attempts,
               native[i][a] # "wire", native'[i][a] = "wire"
        PROVE  \A b \in Attempts : b >= a => native[i][b] = "unused"
    <2>1. CASE UNCHANGED native
      BY <1>1, <2>1
    <2>2. ASSUME NEW j \in Intents, NEW c \in Attempts, Starting(j, c)
          PROVE  \A b \in Attempts : b >= a => native[i][b] = "unused"
      <3>1. native' = [native EXCEPT ![j][c] = "wire"]
        BY <2>2 DEF Starting, Cross
      <3>2. i = j /\ a = c
        BY <1>1, <3>1 DEF PastInv, Inv, TypeInv, TypeOK
      <3>3. QED
        BY <1>1, <2>2, <3>2, FreshIsUnused DEF Starting
    <2>3. ASSUME NEW j \in Intents, NEW c \in Attempts, Settling(j, c)
          PROVE  FALSE
      BY <1>1, <2>3 DEF Settling, PastInv, Inv, TypeInv, TypeOK
    <2>4. ASSUME NEW j \in Intents, NEW k \in Outcomes, Replying(j, k)
          PROVE  FALSE
      BY <1>1, <2>4 DEF Replying, NativeAnswers, PastInv, Inv, TypeInv, TypeOK
    <2>5. QED
      BY <1>1, <2>1, <2>2, <2>3, <2>4 DEF Moves, Dropping, Doubting, Postponing, Reserving
  <1>2. PastInv /\ [Next]_vars =>
          [\A i \in Intents, a \in Attempts :
             native[i][a] # "wire" /\ native'[i][a] = "wire" =>
               \A b \in Attempts : b >= a => native[i][b] = "unused"]_vars
    BY <1>1, StepMoves DEF PastInv
  <1>3. QED
    BY <1>2, PastInit, PastStep, PTL DEF Spec, FreshAttempt
-----------------------------------------------------------------------------
(* What an answer says of the record.                                      *)
Says(d, r) ==
  /\ d = "sent" => r.state \in Believed
  /\ d \in {"fail_closed", "expired"} => r.state \in Dropped
  /\ d = "deferred" => r.state # "absent"
  /\ d = "unknown_delivery" => r.state = "unknown_delivery"

AnswerInv == \A i \in Intents : Says(answer[i], store[i])

(* A record that is settled stays as it is, and none disappears.           *)
Open == {"absent", "deferred"} \cup Unresolved
Keeps(i) ==
  \/ store'[i] = store[i]
  \/ store[i].state \in Open /\ store'[i].state # "absent"

LEMMA SettledStays ==
  ASSUME PastInv, Moves, NEW i \in Intents
  PROVE  /\ store[i].state \in Believed \cup Dropped \cup {"unknown_delivery"}
              => store'[i] = store[i]
         /\ store[i].state # "absent" => store'[i].state # "absent"
  <1>1. CASE UNCHANGED store
    BY <1>1 DEF Keeps
  <1>2. ASSUME NEW S \in SUBSET Intents, Dropping(S) PROVE Keeps(i)
    <2>1. CASE i \in S
      <3>1. store'[i] \in FailedRecords /\ store[i].state \in Open
        BY <1>2, <2>1 DEF Dropping, Open
      <3>2. QED
        BY <3>1, FailedRecordFacts, ApartFacts DEF Keeps
    <2>2. CASE i \notin S
      BY <1>2, <2>2 DEF Dropping, Keeps
    <2>3. QED
      BY <2>1, <2>2
  <1>3. ASSUME NEW S \in SUBSET Intents, Doubting(S) PROVE Keeps(i)
    <2>1. CASE i \in S
      BY <1>3, <2>1 DEF Doubting, Doubted, Unknown, Rec, Keeps, Open
    <2>2. CASE i \notin S
      BY <1>3, <2>2 DEF Doubting, Doubted, Keeps
    <2>3. QED
      BY <2>1, <2>2
  <1>4. ASSUME NEW j \in Intents, NEW r, r.state # "absent", Put(j, r),
               store[j].state \in Open
        PROVE  Keeps(i)
    BY <1>4, PutFacts DEF PastInv, Keeps
  <1>5. ASSUME NEW j \in Intents, Postponing(j) PROVE Keeps(i)
    BY <1>4, <1>5, NoRecordFacts DEF Postponing, Rec, Open
  <1>6. ASSUME NEW j \in Intents, NEW a \in Attempts, Reserving(j, a) \/ Starting(j, a)
        PROVE  Keeps(i)
    BY <1>4, <1>6, FreshIsUnused DEF Reserving, Starting, Cross, Rec, Open
  <1>7. ASSUME NEW j \in Intents, NEW k \in Outcomes, Replying(j, k) PROVE Keeps(i)
    <2>1. /\ store[j].state \in Open /\ store'[j].state # "absent"
          /\ \A h \in Intents \ {j} : store'[h] = store[h]
      BY <1>7, ReplyFacts DEF Replying, Open, Unresolved
    <2>2. QED
      BY <2>1 DEF Keeps
  <1>8. \A s \in Believed \cup Dropped \cup {"unknown_delivery"} : s \notin Open
    BY DEF Believed, Proved, Dropped, Unresolved, Open
  <1>9. Keeps(i)
    BY <1>1, <1>2, <1>3, <1>5, <1>6, <1>7 DEF Moves, Settling, Keeps
  <1>10. QED
    BY <1>8, <1>9 DEF Keeps

(* An answer agrees with the record that is written with it.               *)
LEMMA AnswerAgrees ==
  ASSUME PastInv, [Next]_vars
  PROVE  \/ UNCHANGED answer
         \/ \E i \in Intents : \E d : Answer(i, d) /\ Says(d, store'[i])
  <1> USE DEF flushVars
  <1>1. ASSUME NEW i \in Intents, DispatchExpired(i)
        PROVE  Answer(i, "expired") /\ Says("expired", store'[i])
    BY <1>1, PutFacts DEF DispatchExpired, PastInv, Rec, Says, Dropped
  <1>2. ASSUME NEW i \in Intents, DispatchFails(i)
        PROVE  Answer(i, "fail_closed") /\ Says("fail_closed", store'[i])
    BY <1>2, PutFacts DEF DispatchFails, PastInv, Rec, Says, Dropped
  <1>3. ASSUME NEW i \in Intents, NEW o \in Observation, DispatchObserves(i, o)
        PROVE  \/ UNCHANGED answer
               \/ \E d : Answer(i, d) /\ Says(d, store'[i])
    <2>1. CASE Put(i, Rec("deferred", "deferred", NoAttempt)) /\ Answer(i, "deferred")
      BY <2>1, PutFacts DEF PastInv, Rec, Says
    <2>2. QED
      BY <1>2, <1>3, <2>1 DEF DispatchObserves
  <1>4. ASSUME NEW i \in Intents, NEW k \in Outcomes, DispatchReply(i, k)
        PROVE  Answer(i, Told(k)) /\ Says(Told(k), store'[i])
    <2>1. store[i].state = "sending"
      BY <1>4 DEF DispatchReply, PastInv, Inv, OneSender
    <2>2. Replying(i, k)
      BY <1>4, <2>1 DEF DispatchReply, Replying
    <2>3. CASE k \in {"accepted", "delivered"}
      <3>1. Told(k) = "sent" /\ store'[i].state \in Believed
        BY <2>2, <2>3, ReplyFacts DEF Told, Believed, Proved
      <3>2. QED
        BY <1>4, <3>1 DEF DispatchReply, Says
    <2>4. CASE k = "uncertain"
      <3>1. Told(k) = "unknown_delivery" /\ store'[i].state = "unknown_delivery"
        BY <2>2, <2>4, ReplyFacts DEF Told
      <3>2. QED
        BY <1>4, <3>1 DEF DispatchReply, Says
    <2>5. CASE k = "busy"
      <3>1. Told(k) = "deferred" /\ store'[i].state # "absent"
        BY <2>2, <2>5, ReplyFacts DEF Told
      <3>2. QED
        BY <1>4, <3>1 DEF DispatchReply, Says
    <2>6. CASE k = "refused"
      <3>1. Told(k) = "fail_closed" /\ store'[i].state \in Dropped
        BY <2>2, <2>6, ReplyFacts DEF Told, Dropped
      <3>2. QED
        BY <1>4, <3>1 DEF DispatchReply, Says
    <2>7. QED
      BY <2>3, <2>4, <2>5, <2>6 DEF Outcomes
  <1>5. ASSUME NEW i \in Intents,
               \/ Dispatch(i) \/ Expires(i) \/ CrashReserving(i) \/ CrashSettling(i)
               \/ \E a \in Attempts : NativeQueues(i, a) \/ NativeLoses(i, a)
        PROVE  UNCHANGED answer
    BY <1>5 DEF Dispatch, Expires, CrashReserving, CrashSettling, NativeQueues, NativeLoses, Forget
  <1>6. ASSUME NEW f \in Flushers,
               \/ FlushStatusFails(f) \/ FlushDone(f)
               \/ \E s \in Sessions : FlushStart(f, s)
               \/ \E o \in Observation : FlushObserves(f, o)
        PROVE  UNCHANGED answer
    BY <1>6 DEF FlushStatusFails, FlushDone, FlushStart, FlushObserves
  <1>7. ASSUME NEW f \in Flushers, NEW i \in Intents,
               \/ FlushJoins(f, i) \/ FlushPasses(f, i) \/ FlushSends(f, i)
               \/ \E k \in Outcomes : FlushReply(f, i, k)
        PROVE  UNCHANGED answer
    BY <1>7 DEF FlushJoins, FlushPasses, FlushSends, FlushTakes, FlushReply
  <1>8. ASSUME Crash \/ Restart \/ CrashRecovering \/ UNCHANGED vars
        PROVE  UNCHANGED answer
    BY <1>8 DEF Crash, Restart, CrashRecovering, Forget, vars
  <1>9. QED
    BY <1>1, <1>2, <1>3, <1>4, <1>5, <1>6, <1>7, <1>8 DEF Next

(* No step makes an answer untrue.                                         *)
LEMMA AnswerStep == PastInv /\ AnswerInv /\ [Next]_vars => AnswerInv'
  <1> SUFFICES ASSUME PastInv, AnswerInv, [Next]_vars, NEW i \in Intents
               PROVE  Says(answer'[i], store'[i])
    BY DEF AnswerInv, Says
  <1>1. CASE answer'[i] = answer[i]
    <2>1. Says(answer[i], store[i])
      BY DEF AnswerInv
    <2>2. QED
      BY <1>1, <2>1, SettledStays, StepMoves DEF PastInv, Says
  <1>2. CASE answer'[i] # answer[i]
    <2>1. PICK j \in Intents : \E d : Answer(j, d) /\ Says(d, store'[j])
      BY <1>2, AnswerAgrees
    <2>2. j = i /\ Says(answer'[i], store'[i])
      BY <1>2, <2>1 DEF Answer, PastInv, Inv, TypeInv, TypeOK
    <2>3. QED
      BY <2>2
  <1>3. QED
    BY <1>1, <1>2

(* What the first dispatch of an intent answered stays true across         *)
(* resumes, late answers, crashes and restarts (dispatchOnce, send, fail,  *)
(* recoverOutbox).                                                         *)
THEOREM AnswersStand == Spec => []AnswerHonoured
  <1>1. Init => AnswerInv
    BY DEF Init, AnswerInv, Says
  <1>2. PastInv /\ AnswerInv => AnswerHonoured
    <2> SUFFICES ASSUME PastInv, AnswerInv, NEW i \in Intents
                 PROVE  /\ answer[i] = "sent" => store[i].decision = "sent" /\ InQueue(i)
                        /\ answer[i] \in {"fail_closed", "expired"} =>
                             store[i].state \in Dropped /\ Live(i) = {}
                        /\ answer[i] = "deferred" => store[i] # NoRecord
                        /\ answer[i] = "unknown_delivery" => store[i].state = "unknown_delivery"
      BY DEF AnswerHonoured
    <2>1. Says(answer[i], store[i])
      BY DEF AnswerInv
    <2>2. store[i].state \in Believed => store[i].decision = "sent" /\ InQueue(i)
      BY DEF PastInv, BelievedQueued, InQueue
    <2>3. store[i].state \in Dropped => Live(i) = {}
      BY NoLive DEF PastInv, Live, NotSent
    <2>4. QED
      BY <2>1, <2>2, <2>3, NoRecordFacts DEF Says
  <1>3. QED
    BY <1>1, <1>2, PastInit, PastStep, AnswerStep, PTL DEF Spec
-----------------------------------------------------------------------------
(* The refinement of Outbox: where the abstract state is, in terms of      *)
(* records.                                                                *)
Phase == [i \in Intents |-> PhaseOf(store[i].state)]
Taken == {i \in Intents : InQueue(i)}

(* The phase of each state of a record.                                    *)
LEMMA PhaseFacts ==
  /\ PhaseOf("absent") = "new"
  /\ PhaseOf("deferred") = "pending"
  /\ PhaseOf("unknown_delivery") = "uncertain"
  /\ \A s \in Unresolved : PhaseOf(s) = "crossing"
  /\ \A s \in Believed : PhaseOf(s) = "accepted"
  /\ \A s \in Dropped : PhaseOf(s) = "dropped"
  BY DEF PhaseOf, Unresolved, Believed, Proved, Dropped

(* The phases of some intents change, those of the others stay.            *)
LEMMA PhasesChange ==
  ASSUME NEW S \in SUBSET Intents, NEW p,
         \A i \in S : PhaseOf(store'[i].state) = p,
         \A i \in Intents \ S : store'[i] = store[i]
  PROVE  Phase' = [i \in Intents |-> IF i \in S THEN p ELSE Phase[i]]
  BY DEF Phase

LEMMA PhaseChanges ==
  ASSUME NEW i \in Intents, NEW p, PhaseOf(store'[i].state) = p,
         \A j \in Intents \ {i} : store'[j] = store[j]
  PROVE  Phase' = [Phase EXCEPT ![i] = p]
  BY DEF Phase

(* What is in the native queue is taken; only there can it come from the   *)
(* wire.                                                                   *)
LEMMA NotTaken ==
  ASSUME PastInv, NEW i \in Intents,
         store[i].state \in NotSent \/ \E a \in Attempts : native[i][a] = "wire"
  PROVE  i \notin Taken
  BY NoLive DEF Taken, InQueue, PastInv, Inv, LiveOnRecord

(* Only what enters or leaves the native queue changes what is taken.      *)
LEMMA SameTaken ==
  ASSUME \A i \in Intents, a \in Attempts :
           native'[i][a] = "queued" <=> native[i][a] = "queued"
  PROVE  Taken' = Taken
  BY DEF Taken, InQueue

(* Every move of the records is a step of the abstract outbox.             *)
LEMMA MoveIsAbstract ==
  ASSUME PastInv, Moves
  PROVE  [Abstract!Next]_(Abstract!vars)
  <1> USE DEF PastInv
  <1>0. /\ Abstract!vars = <<Phase, Taken>>
        /\ Phase = [i \in Intents |-> PhaseOf(store[i].state)]
    BY DEF Abstract!vars, Phase, Taken
  <1>1. CASE UNCHANGED <<store, native>>
    <2>1. Phase' = Phase /\ Taken' = Taken
      BY <1>1 DEF Phase, Taken, InQueue
    <2>2. QED
      BY <2>1 DEF Phase, Taken, Abstract!vars
  <1>2. ASSUME NEW S \in SUBSET Intents, Dropping(S) PROVE Abstract!Drop(S)
    <2>1. /\ \A i \in S : PhaseOf(store'[i].state) = "dropped"
          /\ \A i \in Intents \ S : store'[i] = store[i]
      BY <1>2, FailedRecordFacts, PhaseFacts DEF Dropping
    <2>2. Phase' = [i \in Intents |-> IF i \in S THEN "dropped" ELSE Phase[i]]
      BY <2>1, PhasesChange
    <2>3. \A i \in S : Phase[i] \in {"new", "pending"}
      BY <1>2, PhaseFacts DEF Dropping, Phase
    <2>4. S \cap Taken = {}
      BY <1>2, NotTaken DEF Dropping, NotSent
    <2>5. Taken' = Taken
      BY <1>2, SameTaken DEF Dropping
    <2>6. QED
      BY <2>2, <2>3, <2>4, <2>5 DEF Abstract!Drop, Abstract!BecomeAll, Phase, Taken
  <1>3. ASSUME NEW S \in SUBSET Intents, Doubting(S) PROVE Abstract!Doubt(S)
    <2>1. /\ \A i \in S : PhaseOf(store'[i].state) = "uncertain"
          /\ \A i \in Intents \ S : store'[i] = store[i]
      BY <1>3, PhaseFacts DEF Doubting, Doubted, Unknown, Rec
    <2>2. Phase' = [i \in Intents |-> IF i \in S THEN "uncertain" ELSE Phase[i]]
      BY <2>1, PhasesChange
    <2>3. \A i \in S : Phase[i] = "crossing"
      BY <1>3, PhaseFacts DEF Doubting, Phase
    <2>4. Taken' = Taken
      BY <1>3, SameTaken DEF Doubting
    <2>5. QED
      BY <2>2, <2>3, <2>4 DEF Abstract!Doubt, Abstract!BecomeAll, Phase, Taken
  <1>4. ASSUME NEW i \in Intents, Postponing(i) PROVE Abstract!Postpone(i)
    <2>1. /\ PhaseOf(store'[i].state) = "pending"
          /\ \A j \in Intents \ {i} : store'[j] = store[j]
      BY <1>4, PutFacts, PhaseFacts DEF Postponing, Rec
    <2>2. Phase' = [Phase EXCEPT ![i] = "pending"] /\ Phase[i] = "new"
      BY <1>4, <2>1, PhaseChanges, PhaseFacts, NoRecordFacts DEF Postponing, Phase
    <2>3. Taken' = Taken
      BY <1>4, SameTaken DEF Postponing
    <2>4. QED
      BY <2>2, <2>3 DEF Abstract!Postpone, Abstract!Become, Phase, Taken
  <1>5. ASSUME NEW i \in Intents, NEW a \in Attempts, Reserving(i, a) \/ Starting(i, a)
        PROVE  Abstract!Cross(i)
    <2>1. /\ PhaseOf(store'[i].state) = "crossing"
          /\ \A j \in Intents \ {i} : store'[j] = store[j]
      BY <1>5, PutFacts, PhaseFacts, StateFacts DEF Reserving, Starting, Cross, Rec
    <2>2. /\ \A b \in Attempts : b >= a => native[i][b] = "unused"
          /\ store[i].state \in {"absent", "deferred"}
      BY <1>5, FreshIsUnused DEF Reserving, Starting
    <2>3. Phase' = [Phase EXCEPT ![i] = "crossing"] /\ Phase[i] \in {"new", "pending"}
      BY <2>1, <2>2, PhaseChanges, PhaseFacts DEF Phase
    <2>4. \A j \in Intents, b \in Attempts :
            native'[j][b] = "queued" <=> native[j][b] = "queued"
      <3>1. native[i][a] = "unused"
        BY <2>2 DEF Attempts
      <3>2. native' = native \/ native' = [native EXCEPT ![i][a] = "wire"]
        BY <1>5 DEF Reserving, Starting, Cross
      <3>3. QED
        BY <3>1, <3>2 DEF Inv, TypeInv, TypeOK
    <2>5. Taken' = Taken
      BY <2>4, SameTaken
    <2>6. QED
      BY <2>3, <2>5 DEF Abstract!Cross, Abstract!Become, Phase, Taken
  <1>6. ASSUME NEW i \in Intents, NEW k \in Outcomes, Replying(i, k)
        PROVE  Abstract!Accept(i) \/ Abstract!Return(i) \/ Abstract!Drop({i}) \/ Abstract!Doubt({i})
    <2> DEFINE a == store[i].attempt
    <2>1. Phase[i] = "crossing"
      BY <1>6, PhaseFacts, StateFacts DEF Replying, Phase
    <2>2. /\ a \in Attempts
          /\ \A j \in Intents \ {i} : store'[j] = store[j] /\ native'[j] = native[j]
          /\ \A b \in Attempts \ {a} : native'[i][b] = native[i][b]
      BY <1>6, ReplyFacts
    <2>3. Taken' = Taken
      <3>1. native'[i][a] = "queued" <=> native[i][a] = "queued"
        BY <1>6, ReplyFacts DEF Outcomes
      <3>2. QED
        BY <2>2, <3>1, SameTaken
    <2>4. ASSUME NEW p, PhaseOf(store'[i].state) = p
          PROVE  /\ Phase' = [Phase EXCEPT ![i] = p]
                 /\ Phase' = [j \in Intents |-> IF j \in {i} THEN p ELSE Phase[j]]
      <3>1. Phase' = [Phase EXCEPT ![i] = p]
        BY <2>2, <2>4, PhaseChanges
      <3>2. Phase' = [j \in Intents |-> IF j \in {i} THEN p ELSE Phase[j]]
        BY <3>1 DEF Phase
      <3>3. QED
        BY <3>1, <3>2
    <2>5. CASE k \in {"accepted", "delivered"}
      <3>1. i \in Taken /\ PhaseOf(store'[i].state) = "accepted"
        BY <1>6, <2>2, <2>5, ReplyFacts, PhaseFacts DEF Taken, InQueue, Believed, Proved
      <3>2. Abstract!Accept(i)
        BY <2>1, <2>3, <2>4, <3>1 DEF Abstract!Accept, Abstract!Become, Phase, Taken
      <3>3. QED
        BY <3>2
    <2>6. CASE k = "uncertain"
      <3>1. PhaseOf(store'[i].state) = "uncertain"
        BY <1>6, <2>6, ReplyFacts, PhaseFacts
      <3>2. Abstract!Doubt({i})
        BY <2>1, <2>3, <2>4, <3>1 DEF Abstract!Doubt, Abstract!BecomeAll, Phase, Taken
      <3>3. QED
        BY <3>2
    <2>7. CASE k \in {"busy", "refused"}
      <3>1. i \notin Taken
        BY <1>6, <2>2, <2>7, ReplyFacts, NotTaken
      <3>2. CASE store'[i].state = "deferred"
        <4>1. Abstract!Return(i)
          BY <2>1, <2>3, <2>4, <3>1, <3>2, PhaseFacts
          DEF Abstract!Return, Abstract!Become, Phase, Taken
        <4>2. QED
          BY <4>1
      <3>3. CASE store'[i].state \in Dropped
        <4>1. Abstract!Drop({i})
          BY <2>1, <2>3, <2>4, <3>1, <3>3, PhaseFacts
          DEF Abstract!Drop, Abstract!BecomeAll, Phase, Taken
        <4>2. QED
          BY <4>1
      <3>4. QED
        BY <1>6, <2>7, <3>2, <3>3, ReplyFacts DEF Dropped
    <2>8. QED
      BY <2>5, <2>6, <2>7 DEF Outcomes
  <1>7. ASSUME NEW i \in Intents, NEW a \in Attempts, Settling(i, a)
        PROVE  Abstract!Take(i) \/ (Phase' = Phase /\ Taken' = Taken)
    <2>1. Phase' = Phase /\ i \notin Taken
      BY <1>7, NotTaken DEF Settling, Phase
    <2>2. store[i].state \notin NotSent \cup Believed
      BY <1>7 DEF Settling, Inv, LiveOnRecord, BelievedQueued
    <2>3. Phase[i] \in {"crossing", "uncertain"}
      <3>1. store[i].state \in DeliveryStates
        BY DEF Inv, TypeInv, TypeOK, Record
      <3>2. QED
        BY <2>2, <3>1, PhaseFacts DEF Phase, DeliveryStates, NotSent, Believed
    <2>4. CASE native' = [native EXCEPT ![i][a] = "queued"]
      <3>1. Taken' = Taken \cup {i}
        BY <2>4 DEF Taken, InQueue, Inv, TypeInv, TypeOK
      <3>2. QED
        BY <2>1, <2>3, <3>1 DEF Abstract!Take, Phase, Taken
    <2>5. CASE native' = [native EXCEPT ![i][a] = "gone"]
      <3>1. \A j \in Intents, b \in Attempts :
              native'[j][b] = "queued" <=> native[j][b] = "queued"
        BY <1>7, <2>5 DEF Settling, Inv, TypeInv, TypeOK
      <3>2. QED
        BY <2>1, <3>1, SameTaken
    <2>6. QED
      BY <1>7, <2>4, <2>5 DEF Settling
  <1>8. \A i \in Intents : {i} \in SUBSET Intents
    OBVIOUS
  <1>9. CASE Phase' = Phase /\ Taken' = Taken
    BY <1>9 DEF Phase, Taken, Abstract!vars
  <1>10. QED
    BY <1>1, <1>2, <1>3, <1>4, <1>5, <1>6, <1>7, <1>8, <1>9 DEF Moves, Abstract!Next

(* The outbox of the daemon does what Outbox promises, one message at a    *)
(* time, for every interleaving of its tasks, its crashes and the native   *)
(* server.                                                                 *)
THEOREM OutboxImplemented == Spec => ImplementsOutbox
  <1>1. Init => Abstract!Init
    <2> SUFFICES ASSUME Init PROVE Abstract!Init
      OBVIOUS
    <2>1. Phase = [i \in Intents |-> "new"]
      BY PhaseFacts, NoRecordFacts DEF Init, Phase
    <2>2. Taken = {}
      BY DEF Init, Taken, InQueue
    <2>3. QED
      BY <2>1, <2>2 DEF Abstract!Init, Phase, Taken
  <1>2. PastInv /\ [Next]_vars => [Abstract!Next]_(Abstract!vars)
    BY StepMoves, MoveIsAbstract DEF PastInv
  <1>3. QED
    BY <1>1, <1>2, PastInit, PastStep, PTL DEF Spec, ImplementsOutbox, Abstract!Spec
-----------------------------------------------------------------------------
(* The refinement of Transport.  What it needs on top of PastInv: an       *)
(* attempt that a record names and says was refused is out of the native   *)
(* server's reach, and an intent without a record names no attempt.        *)
RefusedGone ==
  \A i \in Intents :
    /\ store[i].state = "absent" => store[i].attempt = NoAttempt
    /\ store[i].state \in {"deferred"} \cup Dropped /\ store[i].attempt \in Attempts =>
         native[i][store[i].attempt] = "gone"

(* What a move leaves of a record that says not sent, and names an attempt.*)
LEMMA RefusedGoneStep == PastInv /\ RefusedGone /\ Moves => RefusedGone'
  <1> SUFFICES ASSUME PastInv, RefusedGone, Moves PROVE RefusedGone'
    OBVIOUS
  <1>0. /\ NoAttempt \notin Attempts
        /\ \A i \in Intents : native[i] \in [Attempts -> {"unused", "wire", "queued", "gone"}]
    BY DEF NoAttempt, Attempts, PastInv, Inv, TypeInv, TypeOK
  <1>1. CASE UNCHANGED <<store, native>>
    BY <1>1 DEF RefusedGone
  <1>2. ASSUME NEW S \in SUBSET Intents, Dropping(S) PROVE RefusedGone'
    <2>1. /\ \A i \in S : store'[i].state \in Dropped /\ store'[i].attempt = NoAttempt
          /\ \A i \in Intents \ S : store'[i] = store[i]
          /\ native' = native
      BY <1>2 DEF Dropping, FailedRecords, Rec, Dropped
    <2>2. QED
      BY <1>0, <2>1, ApartFacts DEF RefusedGone
  <1>3. ASSUME NEW S \in SUBSET Intents, Doubting(S) PROVE RefusedGone'
    <2>1. /\ \A i \in S : store'[i].state = "unknown_delivery"
          /\ \A i \in Intents \ S : store'[i] = store[i]
          /\ native' = native
      BY <1>3 DEF Doubting, Doubted, Unknown, Rec
    <2>2. QED
      BY <2>1, ApartFacts DEF RefusedGone
  <1>4. ASSUME NEW i \in Intents, Postponing(i) PROVE RefusedGone'
    <2>1. /\ store'[i].state = "deferred" /\ store'[i].attempt = NoAttempt
          /\ \A j \in Intents \ {i} : store'[j] = store[j]
          /\ native' = native
      BY <1>4, PutFacts DEF PastInv, Postponing, Rec
    <2>2. QED
      BY <1>0, <2>1 DEF RefusedGone
  <1>5. ASSUME NEW i \in Intents, NEW a \in Attempts, Reserving(i, a) \/ Starting(i, a)
        PROVE  RefusedGone'
    <2>1. /\ store'[i].state \in {"emitted", "sending"}
          /\ \A j \in Intents \ {i} : store'[j] = store[j] /\ native'[j] = native[j]
      BY <1>5, PutFacts DEF PastInv, Inv, TypeInv, TypeOK, Reserving, Starting, Cross, Rec
    <2>2. QED
      BY <2>1, ApartFacts DEF RefusedGone
  <1>6. ASSUME NEW i \in Intents, NEW k \in Outcomes, Replying(i, k) PROVE RefusedGone'
    <2>1. \A j \in Intents \ {i} : store'[j] = store[j] /\ native'[j] = native[j]
      BY <1>6, ReplyFacts
    <2>2. CASE k \in {"accepted", "delivered", "uncertain"}
      <3>1. store'[i].state \notin {"absent", "deferred"} \cup Dropped
        BY <1>6, <2>2, ReplyFacts, ApartFacts DEF Believed, Proved
      <3>2. QED
        BY <2>1, <3>1 DEF RefusedGone
    <2>3. CASE k = "busy"
      <3>1. /\ store'[i].state # "absent"
            /\ native'[i][store'[i].attempt] = "gone"
        BY <1>6, <2>3, ReplyFacts
      <3>2. QED
        BY <2>1, <3>1 DEF RefusedGone
    <2>4. CASE k = "refused"
      <3>1. store'[i] = Rec("failed", "failed", NoAttempt)
        BY <1>6, <2>4, PutFacts DEF PastInv, Replying, Settled
      <3>2. store'[i].state = "failed" /\ store'[i].attempt = NoAttempt
        BY <3>1 DEF Rec
      <3>3. QED
        BY <1>0, <2>1, <3>2 DEF RefusedGone
    <2>5. QED
      BY <2>2, <2>3, <2>4 DEF Outcomes
  <1>7. ASSUME NEW i \in Intents, NEW a \in Attempts, Settling(i, a) PROVE RefusedGone'
    <2>1. /\ store' = store
          /\ \A j \in Intents, b \in Attempts : native[j][b] = "gone" => native'[j][b] = "gone"
      BY <1>0, <1>7 DEF Settling, PastInv, Inv, TypeInv, TypeOK
    <2>2. QED
      BY <2>1 DEF RefusedGone
  <1>8. QED
    BY <1>1, <1>2, <1>3, <1>4, <1>5, <1>6, <1>7 DEF Moves
-----------------------------------------------------------------------------
(* What the records say was told of an attempt, case by case.              *)
ToldCases ==
  \A i \in Intents, a \in Attempts :
    /\ a # store[i].attempt =>
         ToldOf(i, a) = IF native[i][a] = "unused" THEN "nothing" ELSE "refused"
    /\ a = store[i].attempt /\ store[i].state \in Believed => ToldOf(i, a) = "accepted"
    /\ a = store[i].attempt /\ store[i].state \in {"deferred"} \cup Dropped =>
         ToldOf(i, a) = "refused"
    /\ a = store[i].attempt /\ store[i].state = "unknown_delivery" => ToldOf(i, a) = "uncertain"
    /\ a = store[i].attempt /\ store[i].state \in Unresolved => ToldOf(i, a) = "nothing"

(* The cases are those of ToldOf, as the classes of states keep apart.     *)
LEMMA ToldOfCases == ToldCases
  BY DEF ToldCases, ToldOf, Believed, Proved, Dropped, Unresolved

(* They are so in the next state as well.                                  *)
LEMMA ToldOfCasesLater == ToldCases'
  BY ToldOfCases, PTL

(* The abstract state, and what stays of it.                               *)
Sends == Intents \X Attempts
Message == [s \in Sends |-> MessageOf[native[s[1]][s[2]]]]
Answers == [s \in Sends |-> ToldOf(s[1], s[2])]
Alike(i, a) == MessageOf[native'[i][a]] = MessageOf[native[i][a]] /\ ToldOf(i, a)' = ToldOf(i, a)

(* Messages in the words of the transport.                                 *)
LEMMA MessageFacts ==
  /\ MessageOf["unused"] = "unsent" /\ MessageOf["wire"] = "crossing"
  /\ MessageOf["queued"] = "taken" /\ MessageOf["gone"] = "lost"
  BY DEF MessageOf

(* Nothing changes for any attempt.                                        *)
LEMMA AllAlike ==
  ASSUME \A i \in Intents, a \in Attempts : Alike(i, a)
  PROVE  UNCHANGED Carried!vars
  <1>1. Message' = Message /\ Answers' = Answers
    BY DEF Alike, Message, Answers, Sends
  <1>2. QED
    BY <1>1 DEF Carried!vars, Message, Answers, Sends

(* One attempt changes, the others stay as they are.                       *)
LEMMA OneChanges ==
  ASSUME NEW i \in Intents, NEW a \in Attempts, NEW p, NEW q,
         MessageOf[native'[i][a]] = p, ToldOf(i, a)' = q,
         \A j \in Intents, b \in Attempts : j # i \/ b # a => Alike(j, b)
  PROVE  /\ Message' = [Message EXCEPT ![<<i, a>>] = p]
         /\ Answers' = [Answers EXCEPT ![<<i, a>>] = q]
         /\ <<i, a>> \in Sends
         /\ Message[<<i, a>>] = MessageOf[native[i][a]] /\ Answers[<<i, a>>] = ToldOf(i, a)
  <1> DEFINE s == <<i, a>>
  <1>1. s \in Sends /\ s[1] = i /\ s[2] = a
    BY DEF Sends
  <1>2. ASSUME NEW t \in Sends, t # s
        PROVE  Alike(t[1], t[2])
    BY <1>2 DEF Sends
  <1>3. /\ \A t \in Sends \ {s} : Message'[t] = Message[t] /\ Answers'[t] = Answers[t]
        /\ Message'[s] = p /\ Answers'[s] = q
        /\ Message[s] = MessageOf[native[i][a]] /\ Answers[s] = ToldOf(i, a)
    BY <1>1, <1>2 DEF Alike, Message, Answers
  <1>4. /\ Message = [t \in Sends |-> Message[t]] /\ Message' = [t \in Sends |-> Message'[t]]
        /\ Answers = [t \in Sends |-> Answers[t]] /\ Answers' = [t \in Sends |-> Answers'[t]]
    BY DEF Message, Answers
  <1> HIDE DEF s
  <1>5. QED
    BY <1>1, <1>3, <1>4 DEF s

(* Every move of the records is a step of the transport, or none.          *)
LEMMA MoveIsCarried ==
  ASSUME PastInv, RefusedGone, Moves
  PROVE  [Carried!Next]_(Carried!vars)
  <1> USE DEF PastInv
  <1>0. /\ ToldCases /\ ToldCases' /\ NoAttempt \notin Attempts
        /\ \A i \in Intents : native[i] \in [Attempts -> {"unused", "wire", "queued", "gone"}]
    BY ToldOfCases, ToldOfCasesLater DEF NoAttempt, Attempts, Inv, TypeInv, TypeOK
  <1>1. ASSUME NEW i \in Intents, NEW a \in Attempts, store'[i] = store[i],
               native'[i][a] = native[i][a]
        PROVE  Alike(i, a)
    BY <1>1 DEF Alike, ToldOf
  <1>2. ASSUME NEW i \in Intents, NEW a \in Attempts, native'[i][a] = native[i][a],
               a # store'[i].attempt,
               a = store[i].attempt => store[i].state \in {"absent", "deferred"} \cup Dropped
        PROVE  Alike(i, a)
    <2>1. MessageOf[native'[i][a]] = MessageOf[native[i][a]]
      BY <1>2
    <2>2. CASE a # store[i].attempt
      BY <1>0, <1>2, <2>1, <2>2 DEF Alike, ToldCases
    <2>3. CASE a = store[i].attempt
      <3>1. store[i].state # "absent" /\ native[i][a] = "gone"
        BY <1>0, <1>2, <2>3 DEF RefusedGone
      <3>2. ToldOf(i, a) = "refused" /\ ToldOf(i, a)' = "refused"
        BY <1>0, <1>2, <2>3, <3>1 DEF ToldCases
      <3>3. QED
        BY <2>1, <3>2 DEF Alike
    <2>4. QED
      BY <2>2, <2>3
  <1>3. CASE UNCHANGED <<store, native>>
    BY <1>1, <1>3, AllAlike
  <1>4. ASSUME NEW S \in SUBSET Intents, Dropping(S) PROVE UNCHANGED Carried!vars
    <2>1. /\ \A i \in S : /\ store[i].state \in {"absent", "deferred"}
                         /\ store'[i].attempt = NoAttempt
          /\ \A i \in Intents \ S : store'[i] = store[i]
          /\ native' = native
      BY <1>4 DEF Dropping, FailedRecords, Rec
    <2>2. \A i \in Intents, a \in Attempts : Alike(i, a)
      BY <1>0, <1>1, <1>2, <2>1
    <2>3. QED
      BY <2>2, AllAlike
  <1>5. ASSUME NEW i \in Intents, Postponing(i) PROVE UNCHANGED Carried!vars
    <2>1. /\ store[i].state = "absent" /\ store'[i].attempt = NoAttempt
          /\ \A j \in Intents \ {i} : store'[j] = store[j]
          /\ native' = native
      BY <1>5, PutFacts, NoRecordFacts DEF Postponing, Rec
    <2>2. \A j \in Intents, a \in Attempts : Alike(j, a)
      BY <1>0, <1>1, <1>2, <2>1
    <2>3. QED
      BY <2>2, AllAlike
  <1>6. ASSUME NEW i \in Intents, NEW a \in Attempts, Reserving(i, a) \/ Starting(i, a)
        PROVE  Carried!Cross(<<i, a>>) \/ UNCHANGED Carried!vars
    <2>1. /\ store'[i].state \in Unresolved /\ store'[i].attempt = a
          /\ \A j \in Intents \ {i} : store'[j] = store[j] /\ native'[j] = native[j]
          /\ \A b \in Attempts \ {a} : native'[i][b] = native[i][b]
          /\ native'[i][a] \in {native[i][a], "wire"}
      BY <1>6, PutFacts
      DEF Inv, TypeInv, TypeOK, Reserving, Starting, Cross, Rec, Unresolved
    <2>2. /\ native[i][a] = "unused" /\ store[i].state \in {"absent", "deferred"}
          /\ a # store[i].attempt
      <3>1. native[i][a] = "unused" /\ store[i].state \in {"absent", "deferred"}
        BY <1>6, FreshIsUnused DEF Reserving, Starting, Attempts
      <3>2. a # store[i].attempt
        BY <1>0, <3>1 DEF RefusedGone
      <3>3. QED
        BY <3>1, <3>2
    <2>3. \A j \in Intents, b \in Attempts : j # i \/ b # a => Alike(j, b)
      BY <1>1, <1>2, <2>1, <2>2
    <2>4. ToldOf(i, a) = "nothing" /\ ToldOf(i, a)' = "nothing"
      BY <1>0, <2>1, <2>2 DEF ToldCases
    <2>5. CASE native'[i][a] = native[i][a]
      <3>1. Alike(i, a)
        BY <2>4, <2>5 DEF Alike
      <3>2. QED
        BY <2>3, <3>1, AllAlike
    <2>6. CASE native'[i][a] = "wire"
      <3>1. MessageOf[native'[i][a]] = "crossing" /\ MessageOf[native[i][a]] = "unsent"
        BY <2>2, <2>6, MessageFacts
      <3>2. /\ Message' = [Message EXCEPT ![<<i, a>>] = "crossing"]
            /\ Message[<<i, a>>] = "unsent"
            /\ Answers' = [Answers EXCEPT ![<<i, a>>] = "nothing"]
            /\ Answers[<<i, a>>] = "nothing"
        BY <2>3, <2>4, <3>1, OneChanges
      <3>3. Answers' = Answers
        BY <3>2 DEF Answers
      <3>4. QED
        BY <3>2, <3>3 DEF Carried!Cross, Message, Answers, Sends
    <2>7. QED
      BY <2>1, <2>5, <2>6
  <1>7. ASSUME NEW S \in SUBSET Intents, Doubting(S)
        PROVE  \E T, L \in SUBSET Sends : Carried!GiveUp(T, L)
    <2>1. PICK T \in SUBSET Sends : T = {s \in Sends : s[1] \in S /\ s[2] = store[s[1]].attempt}
      OBVIOUS
    <2>2. /\ \A i \in S : /\ store[i].state \in Unresolved
                         /\ store'[i].state = "unknown_delivery"
                         /\ store'[i].attempt = store[i].attempt
          /\ \A i \in Intents \ S : store'[i] = store[i]
          /\ native' = native
      BY <1>7 DEF Doubting, Doubted, Unknown, Rec
    <2>3. ASSUME NEW s \in Sends
          PROVE  /\ s \in T => ToldOf(s[1], s[2]) = "nothing" /\ ToldOf(s[1], s[2])' = "uncertain"
                 /\ s \notin T => ToldOf(s[1], s[2])' = ToldOf(s[1], s[2])
      <3>1. s[1] \in Intents /\ s[2] \in Attempts
        BY DEF Sends
      <3>2. CASE s \in T
        BY <1>0, <2>1, <2>2, <3>1, <3>2 DEF ToldCases
      <3>3. CASE s[1] \notin S
        BY <1>1, <2>1, <2>2, <3>1, <3>3 DEF Alike
      <3>4. CASE s[1] \in S /\ s[2] # store[s[1]].attempt
        BY <1>0, <2>1, <2>2, <3>1, <3>4 DEF ToldCases
      <3>5. QED
        BY <2>1, <3>2, <3>3, <3>4
    <2>4. Answers' = [s \in Sends |-> IF s \in T THEN "uncertain" ELSE Answers[s]]
      BY <2>3 DEF Answers
    <2>5. \A s \in T : Answers[s] = "nothing"
      BY <2>3 DEF Answers
    <2>6. Message' = [s \in Sends |-> IF s \in {} THEN "lost" ELSE Message[s]]
      BY <2>2 DEF Message
    <2>7. Carried!GiveUp(T, {})
      BY <2>4, <2>5, <2>6 DEF Carried!GiveUp, Message, Answers, Sends
    <2>8. QED
      BY <2>7
  <1>8. ASSUME NEW i \in Intents, NEW k \in Outcomes, Replying(i, k)
        PROVE  \E s \in Sends : \/ Carried!Accept(s) \/ Carried!Refuse(s)
                               \/ Carried!GiveUp({s}, {})
    <2>a. PICK a \in Attempts : a = store[i].attempt
      BY <1>8, ReplyFacts
    <2> DEFINE s == <<i, a>>
    <2>1. /\ s \in Sends
          /\ \A j \in Intents \ {i} : store'[j] = store[j] /\ native'[j] = native[j]
          /\ \A b \in Attempts \ {a} : native'[i][b] = native[i][b]
          /\ store'[i].attempt \in {a, NoAttempt}
      <3>1. store'[i].attempt \in {a, NoAttempt}
        <4>1. PICK r \in {Settled(k, a), Rec("cancelled", "skipped", a)} : Put(i, r)
          BY <1>8, <2>a DEF Replying
        <4>2. r.attempt \in {a, NoAttempt}
          BY <4>1 DEF Settled, Unknown, Rec, Outcomes
        <4>3. QED
          BY <4>1, <4>2, PutFacts
      <3>2. QED
        BY <1>8, <2>a, <3>1, ReplyFacts DEF Sends
    <2>2. \A j \in Intents, b \in Attempts : j # i \/ b # a => Alike(j, b)
      <3>1. \A b \in Attempts \ {a} : Alike(i, b)
        BY <1>0, <1>2, <2>a, <2>1
      <3>2. QED
        BY <1>1, <2>1, <3>1
    <2>3. ToldOf(i, a) = "nothing"
      BY <1>0, <1>8, <2>a, StateFacts DEF Replying, ToldCases
    <2>4. ASSUME NEW p, NEW q, MessageOf[native'[i][a]] = p, ToldOf(i, a)' = q
          PROVE  /\ Message' = [Message EXCEPT ![s] = p] /\ Answers' = [Answers EXCEPT ![s] = q]
                 /\ Message[s] = MessageOf[native[i][a]] /\ Answers[s] = "nothing"
      BY <2>1, <2>2, <2>3, <2>4, OneChanges
    <2>5. CASE k \in {"accepted", "delivered"}
      <3>1. native'[i][a] = "queued" /\ native[i][a] = "queued" /\ ToldOf(i, a)' = "accepted"
        BY <1>0, <1>8, <2>a, <2>5, ReplyFacts DEF ToldCases, Believed, Proved
      <3>2. /\ Message' = [Message EXCEPT ![s] = "taken"] /\ Message[s] = "taken"
            /\ Answers' = [Answers EXCEPT ![s] = "accepted"] /\ Answers[s] = "nothing"
        BY <2>4, <3>1, MessageFacts
      <3>3. Message' = Message
        BY <3>2 DEF Message
      <3>4. Carried!Accept(s)
        BY <3>2, <3>3 DEF Carried!Accept, Carried!MayAccept, Message, Answers, Sends
      <3>5. QED
        BY <2>1, <3>4
    <2>6. CASE k \in {"busy", "refused"}
      <3>1. native'[i][a] = "gone" /\ native[i][a] = "wire" /\ ToldOf(i, a)' = "refused"
        <4>1. native'[i][a] = "gone" /\ native[i][a] = "wire"
          BY <1>8, <2>a, <2>6, ReplyFacts
        <4>2. store'[i].state \in {"deferred"} \cup Dropped
          BY <1>8, <2>6, ReplyFacts DEF Dropped
        <4>3. QED
          BY <1>0, <2>1, <4>1, <4>2 DEF ToldCases
      <3>2. /\ Message' = [Message EXCEPT ![s] = "lost"] /\ Message[s] = "crossing"
            /\ Answers' = [Answers EXCEPT ![s] = "refused"] /\ Answers[s] = "nothing"
        BY <2>4, <3>1, MessageFacts
      <3>3. Carried!Refuse(s)
        BY <3>2 DEF Carried!Refuse, Carried!MayRefuse, Message, Answers, Sends
      <3>4. QED
        BY <2>1, <3>3
    <2>7. CASE k = "uncertain"
      <3>1. native' = native /\ ToldOf(i, a)' = "uncertain"
        BY <1>0, <1>8, <2>a, <2>7, ReplyFacts DEF ToldCases
      <3>2. /\ Message' = [t \in Sends |-> IF t \in {} THEN "lost" ELSE Message[t]]
            /\ Answers[s] = "nothing"
            /\ Answers' = [Answers EXCEPT ![s] = "uncertain"]
        BY <2>4, <3>1 DEF Message
      <3>3. Answers' = [t \in Sends |-> IF t \in {s} THEN "uncertain" ELSE Answers[t]]
        BY <3>2 DEF Answers
      <3>4. Carried!GiveUp({s}, {})
        BY <3>2, <3>3 DEF Carried!GiveUp, Message, Answers, Sends
      <3>5. QED
        BY <2>1, <3>4
    <2>8. QED
      BY <2>5, <2>6, <2>7 DEF Outcomes
  <1>9. ASSUME NEW i \in Intents, NEW a \in Attempts, Settling(i, a)
        PROVE  \E s \in Sends : Carried!Take(s) \/ Carried!GiveUp({}, {s})
    <2> DEFINE s == <<i, a>>
    <2>1. /\ store' = store /\ a = store[i].attempt /\ native[i][a] = "wire" /\ s \in Sends
          /\ \A j \in Intents \ {i} : native'[j] = native[j]
          /\ \A b \in Attempts \ {a} : native'[i][b] = native[i][b]
          /\ native'[i][a] \in {"queued", "gone"}
      BY <1>9 DEF Settling, Inv, TypeInv, TypeOK, LiveOnRecord, Sends
    <2>2. \A j \in Intents, b \in Attempts : j # i \/ b # a => Alike(j, b)
      BY <1>1, <2>1
    <2>3. ToldOf(i, a)' = ToldOf(i, a)
      BY <2>1 DEF ToldOf
    <2>4. ASSUME NEW p, MessageOf[native'[i][a]] = p
          PROVE  Message' = [Message EXCEPT ![s] = p] /\ Answers' = Answers
                 /\ Message[s] = "crossing"
      <3>1. Answers' = [Answers EXCEPT ![s] = ToldOf(i, a)] /\ Answers[s] = ToldOf(i, a)
        BY <2>2, <2>3, <2>4, OneChanges
      <3>2. Answers' = Answers
        BY <3>1 DEF Answers
      <3>3. QED
        BY <2>1, <2>2, <2>3, <2>4, <3>2, OneChanges, MessageFacts
    <2>5. CASE native'[i][a] = "queued"
      <3>1. Message' = [Message EXCEPT ![s] = "taken"] /\ Answers' = Answers /\ Message[s] = "crossing"
        BY <2>4, <2>5, MessageFacts
      <3>2. Carried!Take(s)
        BY <3>1 DEF Carried!Take, Message, Answers, Sends
      <3>3. QED
        BY <2>1, <3>2
    <2>6. CASE native'[i][a] = "gone"
      <3>1. Message' = [t \in Sends |-> IF t \in {s} THEN "lost" ELSE Message[t]]
        BY <2>4, <2>6, MessageFacts DEF Message
      <3>2. Answers' = [t \in Sends |-> IF t \in {} THEN "uncertain" ELSE Answers[t]]
        BY <2>4, <2>6 DEF Answers
      <3>3. Carried!GiveUp({}, {s})
        BY <2>4, <2>6, <3>1, <3>2 DEF Carried!GiveUp, Message, Answers, Sends
      <3>4. QED
        BY <2>1, <3>3
    <2>7. QED
      BY <2>1, <2>5, <2>6
  <1>10. (\E s \in Sends : \/ Carried!Cross(s) \/ Carried!Take(s)
                            \/ Carried!Accept(s) \/ Carried!Refuse(s)) => Carried!Next
    BY DEF Carried!Next, Sends
  <1>11. (\E T, L \in SUBSET Sends : Carried!GiveUp(T, L)) => Carried!Next
    BY DEF Carried!Next, Sends
  <1>12. \A i \in Intents, a \in Attempts : <<i, a>> \in Sends
    BY DEF Sends
  <1>13. \A s \in Sends : {s} \in SUBSET Sends /\ {} \in SUBSET Sends
    OBVIOUS
  <1>14. ASSUME NEW i \in Intents, NEW k \in Outcomes, Replying(i, k) PROVE Carried!Next
    BY <1>8, <1>10, <1>11, <1>13, <1>14
  <1>15. ASSUME NEW i \in Intents, NEW a \in Attempts, Settling(i, a) PROVE Carried!Next
    BY <1>9, <1>10, <1>11, <1>13, <1>15
  <1>16. ASSUME NEW i \in Intents, NEW a \in Attempts, Reserving(i, a) \/ Starting(i, a)
         PROVE  Carried!Next \/ UNCHANGED Carried!vars
    BY <1>6, <1>10, <1>12, <1>16
  <1>17. QED
    BY <1>3, <1>4, <1>5, <1>7, <1>11, <1>14, <1>15, <1>16 DEF Moves

(* Of an attempt that crossed the daemon is ready for every answer the     *)
(* transport may give and for no other: Possible asks neither more nor     *)
(* less of the bridge than the transport promises.                         *)
LEMMA AnswersForeseen ==
  ASSUME TypeOK, NEW i \in Intents, NEW a \in Attempts, native[i][a] # "unused"
  PROVE  /\ \A k \in {"accepted", "delivered"} : Possible(i, a, k) <=> Carried!MayAccept(<<i, a>>)
         /\ Possible(i, a, "refused") <=> Carried!MayRefuse(<<i, a>>)
         /\ Possible(i, a, "uncertain")
  <1>1. native[i][a] \in {"wire", "queued", "gone"}
    BY DEF TypeOK
  <1>2. Message[<<i, a>>] = MessageOf[native[i][a]]
    BY DEF Message, Sends
  <1>3. /\ Carried!MayAccept(<<i, a>>) <=> native[i][a] = "queued"
        /\ Carried!MayRefuse(<<i, a>>) <=> native[i][a] = "wire"
    BY <1>1, <1>2, MessageFacts
    DEF Carried!MayAccept, Carried!MayRefuse, Message, Sends
  <1>4. QED
    BY <1>3 DEF Possible

(* What the daemon takes the bridge and the native server to do, and what  *)
(* its records say of each attempt through resumes, crashes and restarts,  *)
(* is what the transport promises, and what module BridgeProofs proves of  *)
(* the bridge.                                                             *)
THEOREM TransportAssumed == Spec => ImplementsTransport
  <1>1. Init => RefusedGone /\ Carried!Init
    <2> SUFFICES ASSUME Init PROVE RefusedGone /\ Carried!Init
      OBVIOUS
    <2>1. \A i \in Intents : store[i].state = "absent" /\ store[i].attempt = NoAttempt
      BY DEF Init, NoRecord, Rec
    <2>2. RefusedGone
      BY <2>1, ApartFacts DEF RefusedGone
    <2>3. \A i \in Intents, a \in Attempts :
            MessageOf[native[i][a]] = "unsent" /\ ToldOf(i, a) = "nothing"
      BY <2>1, ToldOfCases, MessageFacts DEF Init, ToldCases, NoAttempt, Attempts
    <2>4. QED
      BY <2>2, <2>3 DEF Carried!Init
  <1>2. PastInv /\ RefusedGone /\ [Next]_vars => RefusedGone' /\ [Carried!Next]_(Carried!vars)
    BY StepMoves, RefusedGoneStep, MoveIsCarried DEF PastInv
  <1>3. QED
    BY <1>1, <1>2, PastInit, PastStep, PTL DEF Spec, ImplementsTransport, Carried!Spec
=============================================================================

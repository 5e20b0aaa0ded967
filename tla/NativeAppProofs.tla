---------------------------- MODULE NativeAppProofs ----------------------------
(***************************************************************************)
(* Proofs about the native connection (module NativeApp), for every set of *)
(* requests and every bound.                                               *)
(***************************************************************************)
EXTENDS NativeApp, TLAPS

(* A server that was initialized stays so as long as the connection lives. *)
Greeted == initialized => greeted \/ socket = "closed"

Inv == TypeOK /\ InitializedFirst /\ Greeted /\ ResultReaches

Phases == {"new", "done", "failed"} \cup Awaits
Asked == [at : Phases, call : Calls]

Stages == {"none", "thread", "turn", "over"}
-----------------------------------------------------------------------------
(* Before the first request nothing is awaited and nobody is a child.      *)
LEMMA InitInv == Init => Inv
  <1> SUFFICES ASSUME Init PROVE Inv
    OBVIOUS
  <1>1. New \in Asked /\ New.at = "new"
    BY DEF New, Asked, Phases, Calls
  <1>2. request \in [Requests -> Asked] /\ \A r \in Requests : request[r].at = "new"
    BY <1>1 DEF Init
  <1>3. TypeOK
    <2>1. 0 \in 0 .. MaxFaults
      BY NativeAppAssumption
    <2>2. socket \in Sockets /\ early \in BOOLEAN /\ initialized \in BOOLEAN /\ greeted \in BOOLEAN
      BY DEF Init, Sockets
    <2>3. child \in [Creates -> Stages]
      BY DEF Init, Stages
    <2>4. threads = {} /\ results = {} /\ notices = {} /\ missed = {} /\ faults = 0
      BY DEF Init
    <2>5. QED
      BY <1>2, <2>1, <2>2, <2>3, <2>4 DEF TypeOK, Asked, Phases, Stages
  <1>4. InitializedFirst /\ Greeted
    BY <1>2 DEF Init, InitializedFirst, Greeted, Awaits
  <1>5. ResultReaches
    BY DEF Init, ResultReaches
  <1>6. QED
    BY <1>3, <1>4, <1>5 DEF Inv

(* One request moves, the others stay.                                     *)
LEMMA GoesStep ==
  ASSUME Inv, NEW r \in Requests, NEW at \in Phases, NEW call \in Calls,
         Goes(r, at, call)
  PROVE  /\ request' \in [Requests -> Asked]
         /\ request'[r].at = at /\ request'[r].call = call
         /\ \A q \in Requests \ {r} : request'[q] = request[q]
  <1>1. [at |-> at, call |-> call] \in Asked
    BY DEF Asked
  <1>2. request \in [Requests -> Asked]
    BY DEF Inv, TypeOK, Asked, Phases
  <1>3. QED
    BY <1>1, <1>2 DEF Goes

(* A call moves its request to an await, and may open the socket.          *)
LEMMA CallsStep ==
  ASSUME Inv, NEW r \in Requests, NEW call \in Calls, CallsNative(r, call)
  PROVE  /\ request' \in [Requests -> Asked]
         /\ request'[r].call = call /\ request'[r].at \in Awaits
         /\ \A q \in Requests \ {r} : request'[q] = request[q]
         /\ socket' \in Sockets /\ early' \in BOOLEAN
         /\ socket' = socket \/ (socket = "none" /\ socket' = "opening")
  <1>1. "connect" \in Phases /\ "answer" \in Phases
    BY DEF Phases, Awaits
  <1>2. \E at \in {"connect", "answer"} : Goes(r, at, call)
    BY DEF CallsNative
  <1>3. socket \in Sockets /\ early \in BOOLEAN
    BY DEF Inv, TypeOK
  <1>4. socket' \in Sockets /\ (socket' = socket \/ (socket = "none" /\ socket' = "opening"))
    BY <1>3 DEF CallsNative, Sockets
  <1>5. early' \in BOOLEAN
    BY <1>3 DEF CallsNative
  <1>6. QED
    BY <1>1, <1>2, <1>4, <1>5, GoesStep DEF Awaits

(* What a step keeps that moves one request, and ends no child's turn.     *)
LEMMA MoveInv ==
  ASSUME Inv, NEW r \in Requests,
         request' \in [Requests -> Asked],
         \A q \in Requests \ {r} : request'[q] = request[q],
         socket' \in Sockets, early' \in BOOLEAN,
         socket' = socket \/ (socket = "none" /\ socket' = "opening"),
         initialized' \in BOOLEAN, greeted' \in BOOLEAN,
         initialized' => initialized \/ greeted',
         greeted => greeted',
         threads' \subseteq Ephemeral, child' \in [Creates -> Stages],
         \A c \in Creates : child'[c] = "over" => child[c] = "over",
         results' = results, notices' = notices, missed' = missed, faults' = faults,
         request'[r].at \in Awaits /\ request'[r].call # "initialize"
           => greeted' \/ socket = "closed"
  PROVE  Inv'
  <1>1. TypeOK'
    BY DEF Inv, TypeOK, Asked, Phases, Stages
  <1>2. InitializedFirst'
    BY DEF Inv, InitializedFirst, Sockets
  <1>3. Greeted' /\ ResultReaches'
    BY DEF Inv, Greeted, ResultReaches
  <1>4. QED
    BY <1>1, <1>2, <1>3 DEF Inv

(* A step that moves any of the requests, but lets none begin to wait; and *)
(* a connection that ends.                                                 *)
LEMMA MapInv ==
  ASSUME Inv,
         request' \in [Requests -> Asked],
         \A q \in Requests : /\ request'[q].call = request[q].call
                             /\ request'[q].at \in Awaits => request[q].at \in Awaits,
         socket' \in Sockets, greeted' \in BOOLEAN,
         socket' = "closed" \/ (socket # "closed" /\ greeted' = greeted),
         notices' \subseteq Creates, missed' \subseteq Creates,
         notices \cup missed \subseteq notices' \cup missed', faults' \in 0 .. MaxFaults,
         UNCHANGED <<early, initialized, threads, results, child>>
  PROVE  Inv'
  <1>1. TypeOK'
    BY DEF Inv, TypeOK, Asked, Phases
  <1>2. InitializedFirst'
    BY DEF Inv, InitializedFirst
  <1>3. Greeted' /\ ResultReaches'
    BY DEF Inv, Greeted, ResultReaches
  <1>4. QED
    BY <1>1, <1>2, <1>3 DEF Inv
-----------------------------------------------------------------------------
(* What a request does that is initialized.                                *)
LEMMA ProceedsStep ==
  ASSUME Inv, NEW r \in Requests, Proceeds(r)
  PROVE  /\ request' \in [Requests -> Asked]
         /\ \A q \in Requests \ {r} : request'[q] = request[q]
         /\ socket' \in Sockets /\ early' \in BOOLEAN
         /\ socket' = socket \/ (socket = "none" /\ socket' = "opening")
  <1>1. "thread" \in Calls /\ "result" \in Calls /\ "done" \in Phases
    BY DEF Calls, Phases
  <1>2. CASE \E call \in Calls : CallsNative(r, call)
    BY <1>2, CallsStep
  <1>3. CASE Goes(r, "done", "result") /\ UNCHANGED <<socket, early>>
    BY <1>1, <1>3, GoesStep DEF Inv, TypeOK
  <1>4. QED
    BY <1>1, <1>2, <1>3 DEF Proceeds

(* A request begins with initialize, or on a greeted connection.           *)
LEMMA BeginsInv ==
  ASSUME Inv, NEW r \in Requests, Begins(r)
  PROVE  Inv'
  <1> USE DEF Begins
  <1>1. /\ initialized' = initialized /\ threads' = threads /\ results' = results
        /\ greeted' = greeted /\ child' = child /\ notices' = notices
        /\ faults' = faults /\ missed' = missed
    OBVIOUS
  <1>2. /\ initialized \in BOOLEAN /\ greeted \in BOOLEAN /\ threads \subseteq Ephemeral
        /\ child \in [Creates -> Stages]
    BY DEF Inv, TypeOK, Stages
  <1>3. CASE initialized
    <2>1. Proceeds(r)
      BY <1>3
    <2>2. greeted \/ socket = "closed"
      BY <1>3 DEF Inv, Greeted
    <2>3. QED
      BY <1>1, <1>2, <2>1, <2>2, ProceedsStep, MoveInv
  <1>4. CASE ~initialized
    <2>1. CallsNative(r, "initialize") /\ "initialize" \in Calls
      BY <1>4 DEF Calls
    <2>2. QED
      BY <1>1, <1>2, <2>1, CallsStep, MoveInv
  <1>5. QED
    BY <1>3, <1>4

(* An answer that ends a request, good or bad.                             *)
LEMMA EndsInv ==
  ASSUME Inv, NEW r \in Requests, NEW at \in {"done", "failed"}, NEW call \in Calls,
         Goes(r, at, call),
         UNCHANGED <<socket, early, initialized, threads, results, child, notices,
                     faults, missed>>,
         greeted' \in BOOLEAN, greeted => greeted'
  PROVE  Inv'
  <1>1. at \in Phases /\ at \notin Awaits
    BY DEF Phases, Awaits
  <1>2. /\ request' \in [Requests -> Asked] /\ request'[r].at = at
        /\ \A q \in Requests \ {r} : request'[q] = request[q]
    BY <1>1, GoesStep
  <1>3. /\ socket \in Sockets /\ early \in BOOLEAN /\ initialized \in BOOLEAN
        /\ threads \subseteq Ephemeral /\ child \in [Creates -> Stages]
    BY DEF Inv, TypeOK, Stages
  <1>4. QED
    BY <1>1, <1>2, <1>3, MoveInv

(* An answer, an error or a timeout keeps the invariant.                   *)
LEMMA SettlesInv ==
  ASSUME Inv, NEW r \in Requests, Settles(r)
  PROVE  Inv'
  <1>1. /\ request[r].call \in Calls /\ initialized \in BOOLEAN /\ greeted \in BOOLEAN
        /\ threads \subseteq Ephemeral /\ child \in [Creates -> Stages]
        /\ socket \in Sockets /\ early \in BOOLEAN /\ request \in [Requests -> Asked]
    BY DEF Inv, TypeOK, Stages, Asked, Phases
  <1>2. {"initialize", "thread", "turn", "result"} \subseteq Calls
    BY DEF Calls
  <1>3. CASE TimesOut(r) \/ AnyCallFails(r)
    BY <1>1, <1>3, EndsInv DEF TimesOut, AnyCallFails
  <1>4. ASSUME NEW ok \in BOOLEAN, Initializes(r, ok) PROVE Inv'
    <2> USE <1>4 DEF Initializes
    <2>1. CASE ok
      <3>1. Proceeds(r) /\ initialized' = TRUE /\ greeted' = TRUE
        BY <2>1
      <3>2. UNCHANGED <<threads, results, child, notices, faults, missed>>
        OBVIOUS
      <3>3. QED
        BY <1>1, <3>1, <3>2, ProceedsStep, MoveInv
    <2>2. CASE ~ok
      <3>1. Goes(r, "failed", "initialize") /\ greeted' = TRUE
        BY <2>2
      <3>2. UNCHANGED <<socket, early, initialized, threads, results, child, notices,
                        faults, missed>>
        BY <2>2
      <3>3. QED
        BY <1>2, <3>1, <3>2, EndsInv
    <2>3. QED
      BY <2>1, <2>2
  <1>5. ASSUME r \in Creates, ThreadStarted(r) PROVE Inv'
    <2> USE <1>5 DEF ThreadStarted
    <2>1. CallsNative(r, "turn") /\ socket = "open"
      BY DEF Answered
    <2>2. greeted
      BY <2>1 DEF Answered, Inv, InitializedFirst, Awaits
    <2>3. /\ threads' \subseteq Ephemeral
          /\ child' \in [Creates -> Stages]
          /\ \A c \in Creates : child'[c] = "over" => child[c] = "over"
      BY <1>1 DEF Stages
    <2>4. UNCHANGED <<initialized, results, greeted, notices, faults, missed>>
      OBVIOUS
    <2>5. QED
      BY <1>1, <1>2, <2>1, <2>2, <2>3, <2>4, CallsStep, MoveInv
  <1>6. ASSUME r \in Creates, TurnRuns(r) PROVE Inv'
    <2> USE <1>6 DEF TurnRuns, memory
    <2>1. /\ child' \in [Creates -> Stages]
          /\ \A c \in Creates : child'[c] = "over" => child[c] = "over"
      BY <1>1 DEF Stages
    <2>2. /\ UNCHANGED <<socket, early, initialized, threads, results, greeted>>
          /\ UNCHANGED <<notices, faults, missed, request>>
      OBVIOUS
    <2>3. request[r].at \in Awaits /\ request[r].call # "initialize"
            => greeted \/ socket = "closed"
      BY DEF Inv, InitializedFirst
    <2>4. QED
      BY <1>1, <2>1, <2>2, <2>3, MoveInv
  <1>7. CASE r \in Creates /\ TurnStarted(r)
    BY <1>1, <1>2, <1>7, EndsInv DEF TurnStarted
  <1>8. CASE r \in Reads /\ ResultRead(r)
    BY <1>1, <1>2, <1>8, EndsInv DEF ResultRead
  <1>9. QED
    BY <1>3, <1>4, <1>5, <1>6, <1>7, <1>8 DEF Settles
-----------------------------------------------------------------------------
(* So does what becomes of the connection.                                 *)
LEMMA ConnectionInv ==
  ASSUME Inv, Connects \/ Upgraded \/ UpgradeRefused \/ Closes
  PROVE  Inv'
  <1>1. /\ request \in [Requests -> Asked] /\ greeted \in BOOLEAN
        /\ notices \subseteq Creates /\ missed \subseteq Creates
        /\ faults \in 0 .. MaxFaults
    BY DEF Inv, TypeOK, Asked, Phases
  <1>2. Faulty => faults' \in 0 .. MaxFaults
    BY <1>1, NativeAppAssumption DEF Faulty
  <1>3. {"upgrading", "open", "refused", "closed"} \subseteq Sockets
    BY DEF Sockets
  <1>4. CASE Connects
    BY <1>1, <1>3, <1>4, MapInv DEF Connects, Asked, Phases, Awaits
  <1>5. CASE Upgraded
    BY <1>1, <1>3, <1>5, MapInv DEF Upgraded, Asked, Phases, Awaits
  <1>6. CASE UpgradeRefused
    BY <1>1, <1>2, <1>3, <1>6, MapInv DEF UpgradeRefused, Asked, Phases, Awaits
  <1>7. CASE Closes
    BY <1>1, <1>2, <1>3, <1>7, MapInv DEF Closes, Rejected, Asked, Phases, Awaits
  <1>8. QED
    BY <1>4, <1>5, <1>6, <1>7

(* A turn that ends is notified of, or was missed; a notification brings   *)
(* its result.                                                             *)
LEMMA ChildInv ==
  ASSUME Inv, NEW c \in Creates, TurnEnds(c) \/ Notified(c)
  PROVE  Inv'
  <1>1. TypeOK'
    <2>1. CASE TurnEnds(c)
      BY <2>1 DEF TurnEnds, memory, Inv, TypeOK
    <2>2. CASE Notified(c)
      BY <2>2 DEF Notified, Inv, TypeOK
    <2>3. QED
      BY <2>1, <2>2
  <1>2. InitializedFirst' /\ Greeted'
    BY DEF TurnEnds, Notified, memory, Inv, InitializedFirst, Greeted
  <1>3. ResultReaches'
    BY DEF TurnEnds, Notified, memory, Inv, TypeOK, ResultReaches
  <1>4. QED
    BY <1>1, <1>2, <1>3 DEF Inv

(* And so does a restart of the bridge.                                    *)
LEMMA RestartInv == Inv /\ Restart => Inv'
  <1> SUFFICES ASSUME Inv, Restart PROVE Inv'
    OBVIOUS
  <1> USE DEF Restart
  <1>1. request \in [Requests -> Asked] /\ faults \in 0 .. MaxFaults
    BY DEF Inv, TypeOK, Asked, Phases
  <1>2. request' \in [Requests -> Asked] /\ \A r \in Requests : request'[r].at \notin Awaits
    BY <1>1 DEF Asked, Phases, Awaits
  <1>3. faults' \in 0 .. MaxFaults
    BY <1>1, NativeAppAssumption DEF Faulty
  <1>4. TypeOK'
    BY <1>2, <1>3 DEF Inv, TypeOK, Asked, Phases, Sockets
  <1>5. InitializedFirst' /\ Greeted'
    BY <1>2 DEF InitializedFirst, Greeted
  <1>6. ResultReaches'
    BY DEF ResultReaches
  <1>7. QED
    BY <1>4, <1>5, <1>6 DEF Inv

(* Every step keeps the invariant.                                         *)
LEMMA StepInv == Inv /\ [Next]_vars => Inv'
  <1> SUFFICES ASSUME Inv, [Next]_vars PROVE Inv'
    OBVIOUS
  <1>1. CASE UNCHANGED vars
    BY <1>1 DEF vars, memory, Inv, TypeOK, InitializedFirst, Greeted, ResultReaches
  <1>2. CASE Next
    BY <1>2, BeginsInv, SettlesInv, ConnectionInv, ChildInv, RestartInv DEF Next
  <1>3. QED
    BY <1>1, <1>2

(* Every state of the connection satisfies the invariant.                  *)
THEOREM Invariance == Spec => []Inv
  BY InitInv, StepInv, PTL DEF Spec

(* No call but initialize is on a live connection whose server was not     *)
(* initialized.                                                            *)
THEOREM NothingBeforeInitialize == Spec => []InitializedFirst
  <1>1. Inv => InitializedFirst
    BY DEF Inv
  <1>2. QED
    BY <1>1, Invariance, PTL

(* The result of a child that is over is there, on its way, or was missed  *)
(* with a connection.                                                      *)
THEOREM ResultsKept == Spec => []ResultReaches
  <1>1. Inv => ResultReaches
    BY DEF Inv
  <1>2. QED
    BY <1>1, Invariance, PTL
=============================================================================

---------------------------- MODULE ReconcileProofs ----------------------------
(***************************************************************************)
(* Proofs about the reconciler (module Reconcile), for every set of        *)
(* intents and callers and every bound.                                    *)
(***************************************************************************)
EXTENDS Reconcile, FiniteSetTheorems, TLAPS

(* NothingInvented is inductive with the types of the two variables it is  *)
(* about: whatever a task read before its await, it writes a rung only on  *)
(* evidence of that rung that is there when the answer comes.              *)
Shown == {"nothing", "receipt", "reply"}
Inv ==
  /\ store \in [Intents -> States]
  /\ shown \in [Intents -> Shown]
  /\ NothingInvented

(* What a step may do to one record.                                       *)
Climbs(i) ==
  store[i] # "absent" /\ store'[i] # store[i] =>
    Reconcilable(store[i]) /\ store'[i] = EvidenceNext[store[i]]
-----------------------------------------------------------------------------
(* Nothing is on record at first, and nothing shown.                       *)
LEMMA InitInv == Init => Inv
  BY DEF Init, Inv, NothingInvented, States, Shown

(* A record that is there can be reconciled: none is consumed.             *)
LEMMA OnLadder ==
  ASSUME Inv, NEW i \in Intents, store[i] # "absent"
  PROVE  Reconcilable(store[i])
  BY DEF Inv, NothingInvented, States, Proved, Reconcilable, EvidenceNext

(* Evidence is of a rung the thread shows.                                 *)
LEMMA EvidenceShown ==
  ASSUME Inv, NEW i \in Intents, NEW s, Evidence(i, s) = "evidence"
  PROVE  \/ EvidenceNext[s] = "delivered" /\ shown[i] # "nothing"
         \/ EvidenceNext[s] \in {"executed", "replied", "read"} /\ shown[i] = "reply"
  BY DEF Evidence

(* An answer moves the record it is about one rung, or none at all; a      *)
(* record outside Intents does not exist.                                  *)
LEMMA AnsweredStep ==
  ASSUME Inv, NEW t \in tasks, Answered(t)
  PROVE  Inv' /\ \A i \in Intents : Climbs(i)
  <1> DEFINE j == asking[t].intent
             s == asking[t].state
             n == EvidenceNext[s]
  <1>1. shown' = shown
    BY DEF Answered
  <1>2. CASE store' = store
    BY <1>1, <1>2 DEF Inv, NothingInvented, Climbs
  <1>3. CASE Evidence(j, s) = "evidence" /\ Records(j, n) /\ store' # store
    <2>1. /\ store[j] # n /\ EvidenceNext[store[j]] = n
          /\ store' = [store EXCEPT ![j] = n]
      BY <1>3 DEF Records, Write
    <2>2. j \in Intents
      BY <1>3, <2>1 DEF Inv
    <2>3. \/ n = "delivered" /\ shown[j] # "nothing"
          \/ n \in {"executed", "replied", "read"} /\ shown[j] = "reply"
      BY <1>3, <2>2, EvidenceShown
    <2>4. n \in States /\ n # "consumed"
      BY <2>3 DEF States, Proved
    <2>5. store' \in [Intents -> States] /\ store'[j] = n
          /\ \A i \in Intents \ {j} : store'[i] = store[i]
      BY <2>1, <2>2, <2>4 DEF Inv
    <2>6. Inv'
      BY <1>1, <2>2, <2>3, <2>4, <2>5 DEF Inv, NothingInvented, Shown
    <2>7. Climbs(j)
      BY <2>1, <2>2, <2>5, OnLadder DEF Climbs
    <2>8. QED
      BY <2>5, <2>6, <2>7 DEF Climbs
  <1>4. QED
    BY <1>2, <1>3 DEF Answered

(* The send path writes only where nothing was on record.                  *)
LEMMA SendEndsStep ==
  ASSUME Inv, NEW i \in Intents, SendEnds(i)
  PROVE  Inv' /\ \A k \in Intents : Climbs(k)
  <1>1. PICK s \in {"accepted", "delivered", "unknown_delivery"} :
          /\ store' = [store EXCEPT ![i] = s]
          /\ IF s = "delivered" THEN shown' = [shown EXCEPT ![i] = "receipt"]
                                ELSE shown' = shown
    BY DEF SendEnds, Write
  <1>2. store' \in [Intents -> States] /\ shown' \in [Intents -> Shown]
    BY <1>1 DEF Inv, States, Proved, Shown
  <1>3. NothingInvented'
    BY <1>1 DEF Inv, NothingInvented
  <1>4. store[i] = "absent"
    BY DEF SendEnds
  <1>5. QED
    BY <1>1, <1>2, <1>3, <1>4 DEF Inv, Climbs

(* The thread only ever shows more.                                        *)
LEMMA ThreadShowsStep ==
  ASSUME Inv, NEW i \in Intents, ThreadShows(i)
  PROVE  Inv' /\ \A k \in Intents : Climbs(k)
  BY DEF ThreadShows, Inv, NothingInvented, Climbs, Shown

(* Every step keeps the invariant and moves records by one rung.           *)
LEMMA StepInv == Inv /\ [Next]_vars => Inv' /\ \A i \in Intents : Climbs(i)
  <1> SUFFICES ASSUME Inv, [Next]_vars PROVE Inv' /\ \A i \in Intents : Climbs(i)
    OBVIOUS
  <1>1. CASE UNCHANGED <<store, shown>>
    BY <1>1 DEF Inv, NothingInvented, Climbs
  <1>2. ASSUME NEW i \in Intents, ReadingChanges(i) PROVE UNCHANGED <<store, shown>>
    BY <1>2 DEF ReadingChanges
  <1>3. ASSUME NEW c \in Callers, NEW i \in Intents, CallerStarts(c, i)
        PROVE  UNCHANGED <<store, shown>>
    BY <1>3 DEF CallerStarts
  <1>4. CASE IntervalStarts \/ BridgeRestarts \/ DaemonRestarts \/ UNCHANGED vars
    BY <1>1, <1>4 DEF IntervalStarts, BridgeRestarts, DaemonRestarts, vars
  <1>5. QED
    BY <1>1, <1>2, <1>3, <1>4, SendEndsStep, ThreadShowsStep, AnsweredStep DEF Next

(* Types and evidence hold together for good.                              *)
THEOREM Invariance == Spec => []Inv
  <1>1. Inv /\ [Next]_vars => Inv'
    BY StepInv
  <1>2. QED
    BY <1>1, InitInv, PTL DEF Spec

(* No record claims more than the native thread shows.                     *)
THEOREM EvidenceTrue == Spec => []NothingInvented
  <1>1. Inv => NothingInvented
    BY DEF Inv
  <1>2. QED
    BY <1>1, Invariance, PTL

(* Whatever reconcilers run at once, a record moves one rung at a time.    *)
THEOREM LadderClimbed == Spec => OneRungUp
  <1>1. Inv /\ [Next]_vars => [\A i \in Intents : Climbs(i)]_vars
    BY StepInv
  <1>2. QED
    BY <1>1, Invariance, PTL DEF Spec, OneRungUp, Climbs
-----------------------------------------------------------------------------
(* The types.  That the order of the candidates is a sequence of them      *)
(* needs that there is one: the ages order the records strictly, and there *)
(* are finitely many of them, whatever the set of intents.                 *)
StrictOrder(R, S) ==
  /\ \A i \in S : <<i, i>> \notin R
  /\ \A i, j, k \in S : <<i, j>> \in R /\ <<j, k>> \in R => <<i, k>> \in R
  /\ \A i, j \in S : i # j => <<i, j>> \in R \/ <<j, i>> \in R


Ages ==
  /\ store \in [Intents -> States]
  /\ older \subseteq Recorded \X Recorded
  /\ StrictOrder(older, Recorded)
  /\ IsFiniteSet(Recorded)

Queue(q) == q \in Seq(Intents) /\ IsInjective(q)

Tasks ==
  /\ Queue(todo)
  /\ asking \in [tasks -> {Idle} \cup [state : States, intent : Intents]]
  /\ known \in SUBSET Intents
  /\ shown \in [Intents -> Shown]
  /\ unreadable \in SUBSET Intents
  /\ restarts \in 0 .. MaxRestarts

(* A finite set can be put into a sequence in any strict order: the rank   *)
(* of an element, how many are before it, numbers the set.                 *)
LEMMA Sortable ==
  ASSUME NEW S, NEW R, IsFiniteSet(S), StrictOrder(R, S)
  PROVE  \E q \in SetToSeqs(S) :
           \A j, k \in DOMAIN q : j < k => <<q[j], q[k]>> \in R
  <1> DEFINE n == Cardinality(S)
             D == 1 .. n
             Below(i) == {j \in S : <<j, i>> \in R}
             rank == [i \in S |-> Cardinality(Below(i)) + 1]
  <1>1. n \in Nat /\ IsFiniteSet(D) /\ Cardinality(D) = n
    BY FS_CardinalityType, FS_Interval
  <1>2. \A i \in S : IsFiniteSet(Below(i)) /\ Cardinality(Below(i)) \in Nat
    BY FS_Subset, FS_CardinalityType
  <1>3. rank \in [S -> D]
    <2>1. ASSUME NEW i \in S PROVE Cardinality(Below(i)) + 1 \in D
      <3>1. Below(i) \in SUBSET (S \ {i})
        BY DEF StrictOrder
      <3>2. IsFiniteSet(S \ {i}) /\ Cardinality(S \ {i}) = n - 1
        BY FS_RemoveElement
      <3> HIDE DEF Below
      <3>3. Cardinality(Below(i)) <= n - 1
        BY <3>1, <3>2, FS_Subset
      <3>4. QED
        BY <1>1, <1>2, <3>3
    <2>2. QED
      BY <2>1
  <1>4. ASSUME NEW i \in S, NEW j \in S, <<i, j>> \in R
        PROVE  rank[i] < rank[j]
    <2>1. Below(i) \cup {i} \in SUBSET Below(j)
      BY <1>4 DEF StrictOrder
    <2>2. i \notin Below(i)
      BY DEF StrictOrder
    <2>3. /\ IsFiniteSet(Below(i) \cup {i})
          /\ Cardinality(Below(i) \cup {i}) = Cardinality(Below(i)) + 1
      BY <1>2, <2>2, FS_AddElement
    <2> HIDE DEF Below
    <2>4. Cardinality(Below(i)) + 1 <= Cardinality(Below(j))
      BY <1>2, <2>1, <2>3, FS_Subset
    <2>5. QED
      BY <1>2, <2>4
  <1> HIDE DEF rank
  <1>5. \A i, j \in S : rank[i] = rank[j] => i = j
    <2>1. \A i \in S : rank[i] \in Nat
      BY <1>1, <1>3
    <2>2. SUFFICES ASSUME NEW i \in S, NEW j \in S, i # j PROVE rank[i] # rank[j]
      OBVIOUS
    <2>3. <<i, j>> \in R \/ <<j, i>> \in R
      BY <2>2 DEF StrictOrder
    <2>4. QED
      BY <1>4, <2>1, <2>3
  <1>6. \A k \in D : \E i \in S : rank[i] = k
    <2>1. rank \in Injection(S, D)
      BY <1>3, <1>5 DEF Injection, IsInjective
    <2>2. rank \in Surjection(S, D)
      BY <1>1, <2>1, FS_Injection
    <2>3. QED
      BY <2>2 DEF Surjection
  <1> DEFINE q == [k \in D |-> CHOOSE i \in S : rank[i] = k]
  <1>7. \A k \in D : q[k] \in S /\ rank[q[k]] = k
    BY <1>6
  <1>8. q \in [D -> S] /\ DOMAIN q = D
    BY <1>6
  <1> HIDE DEF q
  <1>9. q \in SetToSeqs(S)
    BY <1>7, <1>8 DEF SetToSeqs
  <1>10. ASSUME NEW j \in D, NEW k \in D, j < k PROVE <<q[j], q[k]>> \in R
    <2>1. q[j] # q[k]
      BY <1>7, <1>10
    <2>2. <<q[k], q[j]>> \notin R
      BY <1>1, <1>4, <1>7, <1>10
    <2>3. QED
      BY <1>7, <2>1, <2>2 DEF StrictOrder
  <1>11. QED
    BY <1>8, <1>9, <1>10

(* The candidates, oldest first, are a sequence of records.                *)
LEMMA OldestFirstQueue ==
  ASSUME Ages, NEW S \in SUBSET Recorded
  PROVE  Queue(OldestFirst(S))
  <1>1. IsFiniteSet(S)
    BY FS_Subset DEF Ages
  <1>2. StrictOrder(older, S)
    BY DEF Ages, StrictOrder
  <1>3. OldestFirst(S) \in SetToSeqs(S)
    BY <1>1, <1>2, Sortable DEF OldestFirst
  <1>4. Cardinality(S) \in Nat
    BY <1>1, FS_CardinalityType
  <1>5. OldestFirst(S) \in Seq(S) /\ IsInjective(OldestFirst(S))
    BY <1>3, <1>4 DEF SetToSeqs, IsInjective
  <1>6. QED
    BY <1>5 DEF Queue, Recorded

(* What is left of a queue is one, and its head an intent.                 *)
LEMMA QueueRest ==
  ASSUME NEW q, Queue(q), q # <<>>
  PROVE  Head(q) \in Intents /\ Queue(Tail(q))
  <1>1. Head(q) \in Intents /\ Tail(q) \in Seq(Intents)
    BY DEF Queue
  <1>2. IsInjective(Tail(q))
    BY DEF Queue, IsInjective
  <1>3. QED
    BY <1>1, <1>2 DEF Queue

(* A write keeps the ages in order.                                        *)
LEMMA WriteAges ==
  ASSUME Ages, NEW i \in Intents, NEW s \in States \ {"absent"}, Write(i, s)
  PROVE  Ages'
  <1>1. store' \in [Intents -> States] /\ Recorded' = Recorded \cup {i}
    BY DEF Write, Ages, Recorded
  <1>2. IsFiniteSet(Recorded')
    BY <1>1, FS_AddElement DEF Ages
  <1>3. older' \subseteq Recorded' \X Recorded'
    BY <1>1 DEF Write, Ages
  <1>4. \A j, k \in Recorded' :
          <<j, k>> \in older' <=> j # i /\ (k = i \/ <<j, k>> \in older)
    BY <1>1 DEF Write, Ages, StrictOrder, Recorded
  <1>5. StrictOrder(older', Recorded')
    BY <1>1, <1>4 DEF Ages, StrictOrder
  <1>6. QED
    BY <1>1, <1>2, <1>3, <1>5 DEF Ages

(* At first nothing is on record and no task runs.                         *)
LEMMA InitTypes == Init => Ages /\ Tasks
  <1> SUFFICES ASSUME Init PROVE Ages /\ Tasks
    OBVIOUS
  <1>1. Recorded = {}
    BY DEF Init, Recorded
  <1>2. Ages
    BY <1>1, FS_EmptySet DEF Init, Ages, StrictOrder, States
  <1>3. Queue(<<>>)
    BY DEF Queue, IsInjective
  <1>4. QED
    BY <1>2, <1>3, ReconcileAssumption DEF Init, Tasks, Shown

(* A task that asks about an intent is typed.                              *)
LEMMA AskTypes ==
  ASSUME Ages, Tasks, NEW t \in tasks, NEW i \in Intents, Ask(t, i)
  PROVE  asking' \in [tasks -> {Idle} \cup [state : States, intent : Intents]]
  BY DEF Ages, Tasks, Ask, Asking

(* So is one that goes on to the next candidate, or ends.                  *)
LEMMA GoesTypes ==
  ASSUME Ages, Tasks, NEW t \in tasks, NEW code, Goes(t, code)
  PROVE  /\ Queue(todo')
         /\ asking' \in [tasks -> {Idle} \cup [state : States, intent : Intents]]
  <1>1. CASE todo # <<>> /\ Ask(t, Head(todo)) /\ todo' = Tail(todo)
    BY <1>1, QueueRest, AskTypes DEF Tasks
  <1>2. CASE /\ asking' = [asking EXCEPT ![t] = Idle]
             /\ todo' = IF t = "interval" THEN <<>> ELSE todo
    <2>1. Queue(<<>>)
      BY DEF Queue, IsInjective
    <2>2. QED
      BY <1>2, <2>1 DEF Tasks
  <1>3. QED
    BY <1>1, <1>2 DEF Goes

(* Every step keeps ages and types.                                        *)
LEMMA TypeStep == Ages /\ Tasks /\ [Next]_vars => Ages' /\ Tasks'
  <1> SUFFICES ASSUME Ages, Tasks, [Next]_vars PROVE Ages' /\ Tasks'
    OBVIOUS
  <1>1. UNCHANGED <<store, older>> => Ages'
    BY DEF Ages, Recorded
  <1>2. ASSUME NEW i \in Intents, SendEnds(i) PROVE Ages' /\ Tasks'
    <2>1. PICK s \in {"accepted", "delivered", "unknown_delivery"} : Write(i, s)
      BY <1>2 DEF SendEnds
    <2>2. s \in States \ {"absent"}
      BY DEF States, Proved
    <2>3. Ages'
      BY <2>1, <2>2, WriteAges
    <2>4. known' \in SUBSET Intents /\ shown' \in [Intents -> Shown]
      BY <1>2 DEF SendEnds, Tasks, Shown
    <2>5. UNCHANGED <<todo, asking, unreadable, restarts>>
      BY <1>2 DEF SendEnds
    <2>6. QED
      BY <2>3, <2>4, <2>5 DEF Tasks
  <1>3. ASSUME NEW i \in Intents, ThreadShows(i) PROVE Ages' /\ Tasks'
    BY <1>1, <1>3 DEF ThreadShows, Tasks, Shown
  <1>4. CASE IntervalStarts
    <2> DEFINE C == {i \in Intents : Reconcilable(store[i])}
               candidates == OldestFirst(C)
    <2>1. candidates # <<>> /\ Ask("interval", Head(candidates)) /\ todo' = Tail(candidates)
      BY <1>4 DEF IntervalStarts
    <2>2. C \in SUBSET Recorded
      BY DEF Reconcilable, EvidenceNext, Recorded
    <2>3. Queue(candidates)
      BY <2>2, OldestFirstQueue
    <2> HIDE DEF candidates
    <2>4. Head(candidates) \in Intents /\ Queue(todo')
      BY <2>1, <2>3, QueueRest
    <2>5. asking' \in [tasks -> {Idle} \cup [state : States, intent : Intents]]
      BY <2>1, <2>4, AskTypes DEF tasks
    <2>6. UNCHANGED <<store, older, known, shown, unreadable, restarts>>
      BY <1>4 DEF IntervalStarts
    <2>7. QED
      BY <1>1, <2>4, <2>5, <2>6 DEF Tasks
  <1>5. ASSUME NEW c \in Callers, NEW i \in Intents, CallerStarts(c, i)
        PROVE  Ages' /\ Tasks'
    <2>1. asking' \in [tasks -> {Idle} \cup [state : States, intent : Intents]]
      BY <1>5, AskTypes DEF CallerStarts, tasks
    <2>2. UNCHANGED <<store, older, todo, known, shown, unreadable, restarts>>
      BY <1>5 DEF CallerStarts
    <2>3. QED
      BY <1>1, <2>1, <2>2 DEF Tasks
  <1>6. ASSUME NEW t \in tasks, Answered(t) PROVE Ages' /\ Tasks'
    <2> DEFINE j == asking[t].intent
               n == EvidenceNext[asking[t].state]
               code == Evidence(j, asking[t].state)
    <2>1. j \in Intents
      BY <1>6 DEF Answered, Tasks
    <2>2. Goes(t, code) /\ UNCHANGED <<known, shown, unreadable, restarts>>
      BY <1>6 DEF Answered
    <2>3. CASE code = "evidence" /\ Write(j, n)
      <3>1. n \in States \ {"absent"}
        BY <2>1, <2>3 DEF Evidence, States, Proved
      <3>2. QED
        BY <2>1, <2>2, <2>3, <3>1, WriteAges, GoesTypes DEF Tasks
    <2>4. CASE UNCHANGED <<store, older>>
      BY <1>1, <2>2, <2>4, GoesTypes DEF Tasks
    <2>5. QED
      BY <1>6, <2>3, <2>4 DEF Answered, Records
  <1>7. ASSUME NEW i \in Intents, ReadingChanges(i) PROVE Ages' /\ Tasks'
    BY <1>1, <1>7 DEF ReadingChanges, Tasks
  <1>8. CASE BridgeRestarts
    BY <1>1, <1>8, ReconcileAssumption DEF BridgeRestarts, Tasks
  <1>9. CASE DaemonRestarts
    <2>1. Queue(<<>>)
      BY DEF Queue, IsInjective
    <2>2. QED
      BY <1>1, <1>9, <2>1, ReconcileAssumption DEF DaemonRestarts, Tasks
  <1>10. CASE UNCHANGED vars
    BY <1>1, <1>10 DEF vars, Tasks
  <1>11. QED
    BY <1>2, <1>3, <1>4, <1>5, <1>6, <1>7, <1>8, <1>9, <1>10 DEF Next

(* The records keep a strict order by age, and what a task works through   *)
(* is a sequence of distinct intents, whatever reconcilers run at once.    *)
THEOREM TypeCorrect == Spec => []TypeOK
  <1>1. Ages /\ Tasks => TypeOK
    BY DEF Ages, Tasks, TypeOK, StrictOrder, Queue, Shown
  <1>2. QED
    BY <1>1, InitTypes, TypeStep, PTL DEF Spec
=============================================================================

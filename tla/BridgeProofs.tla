----------------------------- MODULE BridgeProofs -----------------------------
(***************************************************************************)
(* Proofs about the messages of the bridge (module Bridge), for every set  *)
(* of requests, queries and messages and every number of restarts.         *)
(***************************************************************************)
EXTENDS Bridge, TLAPS

(* Where a request stands tells what its message can have become.          *)
Wires ==
  \A c \in Calls :
    /\ call[c].at = "new" => call[c].msg = "none"
    /\ call[c].at \in {"new", "send", "resume", "steer"} => native[c] = "none"
    /\ call[c].at = "add" => native[c] \in {"adding", "refused", "queued", "shown", "replied"}
    /\ call[c].at = "steering" => native[c] \in {"steering", "refused", "shown", "replied"}
    /\ call[c].at \in {"turns", "list", "start", "accepted"} => Took(c)
    /\ native[c] # "none" => call[c].msg \in Msgs

(* The messages of a turn were taken.                                      *)
TurnTook == \A c \in turn.of : Took(c)

(* What the port was told, request by request.                             *)
ToldTrue ==
  \A c \in Calls :
    /\ said[c] = "definitive" => native[c] = "none" /\ call[c].at = "failed"
    /\ said[c] = "accepted" => Took(c)

(* A message id is taken for good: until the first restart by one request  *)
(* at all, after one by one request that is still going on.                *)
Known(m) == messages[m].state # "none"
OneRequest ==
  restarts = 0 =>
    /\ \A c \in Calls : call[c].msg \in Msgs => Known(call[c].msg)
    /\ \A c, d \in Calls : call[c].msg \in Msgs /\ call[c].msg = call[d].msg => c = d
OneAwaits ==
  /\ \A c \in Calls : call[c].at \in Awaits =>
       Known(call[c].msg) /\ "accepted" \notin Range(messages[call[c].msg].evidence)
  /\ \A c, d \in Calls :
       call[c].at \in Awaits /\ call[d].at \in Awaits /\ call[c].msg = call[d].msg => c = d

(* What a message_status saw is still shown when it answers.               *)
StillShown ==
  \A q \in Queries, m \in Msgs : query[q] # NoQuery /\ query[q].msg = m =>
    Known(m) /\ AllSeen(query[q].saw) \subseteq AllSeen(Shows(m))

(* A message nobody sent has no evidence.                                  *)
UnknownEmpty == \A m \in Msgs : ~Known(m) => messages[m].evidence = <<>>

Inv ==
  /\ TypeOK /\ Wires /\ TurnTook /\ ToldTrue
  /\ OneRequest /\ OneAwaits /\ NotStranded
  /\ UnknownEmpty /\ StillShown /\ EvidenceHonest
-----------------------------------------------------------------------------
States == {"none", "emitted", "accepted", "delivered", "read"}
Ats == {"new", "accepted", "failed"} \cup Awaits

(* Evidence pushed once is evidence, and stays.                            *)
LEMMA NotedType ==
  ASSUME NEW e \in Seq(Kinds), NEW k \in Kinds
  PROVE  Noted(e, k) \in Seq(Kinds)
  BY DEF Noted

(* So does a completed record.                                             *)
LEMMA CompletedType ==
  ASSUME NEW r \in [state : States, evidence : Seq(Kinds)], NEW saw
  PROVE  Completed(r, saw) \in [state : States, evidence : Seq(Kinds)]
  <1> DEFINE received == Noted(r.evidence, "delivered")
             executed == Noted(received, "executed")
             replied == Noted(executed, "replied")
  <1>1. r.evidence \in Seq(Kinds) /\ {"delivered", "executed", "replied", "read"} \subseteq Kinds
    BY DEF Kinds
  <1>2. received \in Seq(Kinds)
    BY <1>1, NotedType
  <1>3. executed \in Seq(Kinds)
    BY <1>1, <1>2, NotedType
  <1>4. replied \in Seq(Kinds)
    BY <1>1, <1>3, NotedType
  <1>5. Noted(replied, "read") \in Seq(Kinds)
    BY <1>1, <1>4, NotedType
  <1>6. QED
    BY <1>2, <1>5 DEF Completed, States

(* What a request does to its message keeps the types.                     *)
LEMMA AcceptsType ==
  ASSUME TypeOK, NEW c \in Calls, call[c].at \in Awaits, Accepts(c)
  PROVE  /\ messages' \in [Msgs -> [state : States, evidence : Seq(Kinds)]]
         /\ call' \in [Calls -> [at : Ats, msg : Msgs \cup {"none"}]]
         /\ said' \in [Calls -> {"nothing", "accepted", "definitive", "uncertain"}]
         /\ call'[c].at = "accepted"
         /\ \A d \in Calls \ {c} : call'[d] = call[d]
  <1>1. Append(messages[call[c].msg].evidence, "accepted") \in Seq(Kinds)
    BY DEF TypeOK, Kinds
  <1>2. messages' \in [Msgs -> [state : States, evidence : Seq(Kinds)]]
    BY <1>1 DEF Accepts, TypeOK, States
  <1>3. QED
    BY SMTT(30), <1>2 DEF Accepts, Goes, Says, TypeOK, Ats

(* A request that goes somewhere is somewhere, with the message it had.    *)
LEMMA GoesType ==
  ASSUME TypeOK, NEW c \in Calls, NEW at \in Ats, call[c].at \in Awaits \/ at \notin Awaits,
         Goes(c, at)
  PROVE  /\ call' \in [Calls -> [at : Ats, msg : Msgs \cup {"none"}]]
         /\ \A d \in Calls : call'[d].at \in Awaits => call'[d].msg \in Msgs
         /\ call'[c].at = at /\ call'[c].msg = call[c].msg
         /\ \A d \in Calls \ {c} : call'[d] = call[d]
  BY DEF Goes, TypeOK, Ats

(* The port is told one answer of a request, the first.                    *)
LEMMA SaysType ==
  ASSUME TypeOK, NEW c \in Calls, NEW a \in {"accepted", "definitive", "uncertain"}, Says(c, a)
  PROVE  /\ said' \in [Calls -> {"nothing", "accepted", "definitive", "uncertain"}]
         /\ said'[c] = IF said[c] = "nothing" THEN a ELSE said[c]
         /\ \A d \in Calls \ {c} : said'[d] = said[d]
  BY DEF Says, TypeOK

(* One message crosses.                                                    *)
LEMMA CrossesType ==
  ASSUME TypeOK, NEW c \in Calls, NEW w \in {"adding", "steering"}, Crosses(c, w)
  PROVE  /\ native' \in [Calls -> {"none", "adding", "steering", "refused", "queued", "shown", "replied"}]
         /\ native'[c] = w
         /\ \A d \in Calls \ {c} : native'[d] = native[d]
  BY DEF Crosses, TypeOK
-----------------------------------------------------------------------------
(* The requests, their wires and what the port was told.                   *)
Core == Wires /\ TurnTook /\ ToldTrue /\ NotStranded

(* Every step keeps the types.                                             *)
LEMMA TypeStep == Inv /\ [Next]_vars => TypeOK'
  <1> SUFFICES ASSUME Inv, [Next]_vars PROVE TypeOK'
    OBVIOUS
  <1> USE DEF bridgeVars, historyVars, States, Ats
  <1>0. TypeOK
    BY DEF Inv
  <1>1. ASSUME NEW c \in Calls, NEW m \in Msgs, NEW method \in {"send", "steer"},
               Enqueue(c, m, method)
        PROVE  TypeOK'
    <2>1. [NoMessage EXCEPT !.state = "emitted"] \in [state : States, evidence : Seq(Kinds)]
      <3>1. <<>> \in Seq(Kinds)
        OBVIOUS
      <3>2. [NoMessage EXCEPT !.state = "emitted"] = [state |-> "emitted", evidence |-> <<>>]
        BY DEF NoMessage
      <3>3. QED
        BY <3>1, <3>2
    <2>2. messages' \in [Msgs -> [state : States, evidence : Seq(Kinds)]]
      BY <1>0, <1>1, <2>1 DEF Enqueue, TypeOK
    <2>3. QED
      BY <1>0, <1>1, <2>2 DEF Enqueue, TypeOK, Awaits
  <1>2. ASSUME NEW c \in Calls, NEW stranger \in BOOLEAN, EnqueueRefused(c, stranger)
        PROVE  TypeOK'
    BY <1>0, <1>2 DEF EnqueueRefused, Goes, Says, TypeOK, Awaits
  <1>3. ASSUME NEW c \in Calls, BaselineRead(c) PROVE TypeOK'
    BY <1>0, <1>3 DEF BaselineRead, Goes, Crosses, TypeOK, Awaits
  <1>4. ASSUME NEW c \in Calls, NEW loaded \in BOOLEAN, StatusRead(c, loaded) PROVE TypeOK'
    <2>1. CASE Goes(c, "add") /\ Crosses(c, "adding")
      BY <1>0, <1>4, <2>1, GoesType, CrossesType DEF StatusRead, TypeOK, Awaits
    <2>2. CASE Goes(c, "resume") /\ UNCHANGED native
      BY <1>0, <1>4, <2>2, GoesType DEF StatusRead, TypeOK, Awaits
    <2>3. QED
      BY <1>4, <2>1, <2>2 DEF StatusRead
  <1>5. ASSUME NEW c \in Calls, NEW busy \in BOOLEAN, Resumed(c, busy) PROVE TypeOK'
    <2>1. CASE Goes(c, "failed") /\ Says(c, "definitive") /\ UNCHANGED native
      BY <1>0, <1>5, <2>1, GoesType, SaysType DEF Resumed, TypeOK, Awaits
    <2>2. CASE Goes(c, "add") /\ Crosses(c, "adding") /\ UNCHANGED said
      BY <1>0, <1>5, <2>2, GoesType, CrossesType DEF Resumed, TypeOK, Awaits
    <2>3. QED
      BY <1>5, <2>1, <2>2 DEF Resumed
  <1>6. ASSUME NEW c \in Calls, call[c].at \in Awaits, Accepts(c), blind' \subseteq Calls,
               UNCHANGED <<query, native, turn, restarts, overheard>>
        PROVE  TypeOK'
    <2>1. \A d \in Calls : call'[d].at \in Awaits => call'[d].msg \in Msgs
      BY <1>0, <1>6, AcceptsType DEF TypeOK, Awaits
    <2>2. QED
      BY <1>0, <1>6, <2>1, AcceptsType DEF TypeOK
  <1>7. ASSUME NEW c \in Calls, call[c].at \in Awaits, NEW at \in Awaits, Goes(c, at),
               UNCHANGED <<messages, query, said, native, turn, historyVars>>
        PROVE  TypeOK'
    BY <1>0, <1>7, GoesType DEF TypeOK
  <1>8. ASSUME NEW c \in Calls, NEW active \in BOOLEAN, AddedStatus(c, active) PROVE TypeOK'
    BY <1>7, <1>8 DEF AddedStatus, Awaits
  <1>9. ASSUME NEW c \in Calls,
               Steered(c) \/ TurnsListed(c) \/ TurnsUnsupported(c) \/ QueueListed(c) \/ Started(c)
        PROVE  TypeOK'
    <2>1. blind \subseteq Calls
      BY <1>0 DEF TypeOK
    <2>2. QED
      BY <1>6, <1>7, <1>9, <2>1
      DEF Steered, TurnsListed, TurnsUnsupported, QueueListed, Started, Awaits
  <1>10. ASSUME NEW c \in Calls, Fails(c) \/ PortTimesOut(c) PROVE TypeOK'
    <2>1. CASE Fails(c)
      BY <1>0, <2>1, GoesType, SaysType DEF Fails, TypeOK
    <2>2. CASE PortTimesOut(c)
      BY <1>0, <2>2, SaysType DEF PortTimesOut, TypeOK
    <2>3. QED
      BY <1>10, <2>1, <2>2
  <1>11. ASSUME NEW c \in Calls, NativeTakes(c) PROVE TypeOK'
    <2>1. /\ native' \in [Calls -> {"none", "adding", "steering", "refused", "queued", "shown", "replied"}]
          /\ UNCHANGED <<bridgeVars, said, restarts, blind>>
      BY <1>0, <1>11 DEF NativeTakes, TypeOK
    <2>2. turn' \in Turns
      <3>1. [turn EXCEPT !.of = turn.of \cup {c}] \in Turns
        BY <1>0 DEF TypeOK, Turns
      <3>2. QED
        BY <1>0, <1>11, <3>1 DEF NativeTakes, TypeOK
    <2>3. overheard' \subseteq Calls
      BY <1>0, <1>11 DEF NativeTakes, TypeOK
    <2>4. QED
      BY <1>0, <2>1, <2>2, <2>3 DEF TypeOK
  <1>12. ASSUME NEW c \in Calls, NativeStarts(c) PROVE TypeOK'
    BY <1>0, <1>12 DEF NativeStarts, TypeOK, Turns, NewTurn
  <1>13. ASSUME NEW q \in Queries, NEW m \in Msgs, QueryReads(q, m) PROVE TypeOK'
    <2>1. Shows(m) \in {"receipt", "reply"}
      BY <1>13 DEF QueryReads, Shows
    <2>2. QED
      BY <1>0, <1>13, <2>1 DEF QueryReads, TypeOK
  <1>14. ASSUME NEW q \in Queries, QueryAnswers(q) PROVE TypeOK'
    <2>1. query[q].msg \in Msgs
      BY <1>0, <1>14 DEF QueryAnswers, TypeOK
    <2>2. messages' \in [Msgs -> [state : States, evidence : Seq(Kinds)]]
      BY <1>0, <1>14, <2>1, CompletedType DEF QueryAnswers, TypeOK
    <2>3. QED
      BY <1>0, <1>14, <2>2 DEF QueryAnswers, TypeOK
  <1>15. CASE AgentSpeaks \/ TurnEnds \/ UserTurn
    <2>1. turn' \in Turns
      <3>1. NoTurn \in Turns /\ \A S \in SUBSET Calls : NewTurn(S) \in Turns
        BY DEF NoTurn, NewTurn, Turns
      <3>2. [turn EXCEPT !.spoke = TRUE] \in Turns
        BY <1>0 DEF TypeOK, Turns
      <3>3. QED
        BY <1>15, <3>1, <3>2 DEF AgentSpeaks, TurnEnds, UserTurn
    <2>2. native' \in [Calls -> {"none", "adding", "steering", "refused", "queued", "shown", "replied"}]
      <3>1. CASE AgentSpeaks
        BY <1>0, <3>1 DEF AgentSpeaks, TypeOK
      <3>2. CASE TurnEnds
        <4>1. \/ native' = native
              \/ \E c \in Calls : native' = [native EXCEPT ![c] = "shown"]
          BY <3>2 DEF TurnEnds
        <4>2. QED
          BY <1>0, <4>1 DEF TypeOK
      <3>3. CASE UserTurn
        BY <1>0, <3>3 DEF UserTurn, TypeOK
      <3>4. QED
        BY <1>15, <3>1, <3>2, <3>3
    <2>3. UNCHANGED <<bridgeVars, said, historyVars>>
      BY <1>15 DEF AgentSpeaks, TurnEnds, UserTurn
    <2>4. QED
      BY <1>0, <2>1, <2>2, <2>3 DEF TypeOK
  <1>16. CASE Restart
    <2>1. messages' \in [Msgs -> [state : States, evidence : Seq(Kinds)]]
      BY <1>16 DEF Restart, NoMessage
    <2>2. /\ call' \in [Calls -> [at : Ats, msg : Msgs \cup {"none"}]]
          /\ \A c \in Calls : call'[c].at \notin Awaits
      <3>1. \A c \in Calls :
              call'[c] = IF call[c].at \in Awaits THEN [call[c] EXCEPT !.at = "failed"] ELSE call[c]
        BY <1>16 DEF Restart
      <3>2. ASSUME NEW c \in Calls
            PROVE  call'[c] \in [at : Ats, msg : Msgs \cup {"none"}] /\ call'[c].at \notin Awaits
        <4>1. call[c] \in [at : Ats, msg : Msgs \cup {"none"}]
          BY <1>0 DEF TypeOK
        <4>2. [call[c] EXCEPT !.at = "failed"] \in [at : Ats, msg : Msgs \cup {"none"}]
          BY <4>1
        <4>3. [call[c] EXCEPT !.at = "failed"].at \notin Awaits
          BY <4>1 DEF Awaits
        <4>4. QED
          BY <3>1, <4>1, <4>2, <4>3
      <3>3. QED
        BY <1>16, <3>2 DEF Restart
    <2>3. /\ said' \in [Calls -> {"nothing", "accepted", "definitive", "uncertain"}]
          /\ query' \in [Queries -> {NoQuery}]
      BY <1>0, <1>16 DEF Restart, TypeOK
    <2>4. restarts' \in 0 .. MaxRestarts /\ UNCHANGED <<native, turn, blind, overheard>>
      BY <1>0, <1>16, BridgeAssumption DEF Restart, TypeOK
    <2>5. QED
      BY <1>0, <2>1, <2>2, <2>3, <2>4 DEF TypeOK
  <1>17. CASE UNCHANGED vars
    BY <1>0, <1>17 DEF vars, TypeOK
  <1>18. QED
    BY <1>1, <1>2, <1>3, <1>4, <1>5, <1>8, <1>9, <1>10, <1>11, <1>12, <1>13, <1>14, <1>15,
       <1>16, <1>17 DEF Next

(* A request that goes on, or ends, and the native thread keep the core.   *)
LEMMA CoreStep == Inv /\ [Next]_vars => Core'
  <1> SUFFICES ASSUME Inv, [Next]_vars PROVE Core'
    OBVIOUS
  <1> USE DEF bridgeVars, historyVars, Core
  <1>0. TypeOK /\ Core
    BY DEF Inv
  <1>a. USE <1>0 DEF Wires, TurnTook, ToldTrue, NotStranded, TypeOK, Took
  <1>1. ASSUME NEW c \in Calls, NEW m \in Msgs, NEW method \in {"send", "steer"},
               Enqueue(c, m, method)
        PROVE  Core'
    BY <1>1, BridgeAssumption DEF Enqueue
  <1>2. ASSUME NEW c \in Calls, NEW stranger \in BOOLEAN, EnqueueRefused(c, stranger)
        PROVE  Core'
    BY <1>2 DEF EnqueueRefused, Goes, Says
  <1>3. ASSUME NEW c \in Calls, BaselineRead(c) PROVE Core'
    BY <1>3 DEF BaselineRead, Goes, Crosses, Awaits
  <1>4. ASSUME NEW c \in Calls, NEW loaded \in BOOLEAN, StatusRead(c, loaded) PROVE Core'
    <2>1. CASE Goes(c, "add") /\ Crosses(c, "adding")
      BY <1>4, <2>1 DEF StatusRead, Goes, Crosses, Awaits
    <2>2. CASE Goes(c, "resume") /\ UNCHANGED native
      BY <1>4, <2>2 DEF StatusRead, Goes
    <2>3. QED
      BY <1>4, <2>1, <2>2 DEF StatusRead
  <1>5. ASSUME NEW c \in Calls, NEW busy \in BOOLEAN, Resumed(c, busy) PROVE Core'
    <2>1. CASE Goes(c, "failed") /\ Says(c, "definitive") /\ UNCHANGED native
      BY <1>5, <2>1 DEF Resumed, Goes, Says
    <2>2. CASE Goes(c, "add") /\ Crosses(c, "adding") /\ UNCHANGED said
      BY <1>5, <2>2 DEF Resumed, Goes, Crosses, Awaits
    <2>3. QED
      BY <1>5, <2>1, <2>2 DEF Resumed
  <1>6. ASSUME NEW c \in Calls, Steered(c) PROVE Core'
    BY <1>6 DEF Steered, Accepts, Goes, Says
  <1>7. ASSUME NEW c \in Calls, NEW active \in BOOLEAN, AddedStatus(c, active) PROVE Core'
    BY <1>7 DEF AddedStatus, Goes
  <1>8. ASSUME NEW c \in Calls, TurnsListed(c) PROVE Core'
    <2>1. CASE turn.runs /\ Accepts(c)
      BY <1>8, <2>1 DEF TurnsListed, Accepts, Goes, Says
    <2>2. CASE Goes(c, "list") /\ UNCHANGED <<messages, said>>
      BY <1>8, <2>2 DEF TurnsListed, Goes
    <2>3. QED
      BY <1>8, <2>1, <2>2 DEF TurnsListed
  <1>9. ASSUME NEW c \in Calls, TurnsUnsupported(c) PROVE Core'
    BY <1>9 DEF TurnsUnsupported, Accepts, Goes, Says
  <1>10. ASSUME NEW c \in Calls, QueueListed(c) PROVE Core'
    <2>1. CASE native[c] # "queued" /\ Accepts(c)
      BY <1>10, <2>1 DEF QueueListed, Accepts, Goes, Says
    <2>2. CASE Goes(c, "start") /\ UNCHANGED <<messages, said>>
      BY <1>10, <2>2 DEF QueueListed, Goes
    <2>3. QED
      BY <1>10, <2>1, <2>2 DEF QueueListed
  <1>11. ASSUME NEW c \in Calls, Started(c) PROVE Core'
    BY <1>11 DEF Started, Accepts, Goes, Says
  <1>12. ASSUME NEW c \in Calls, Fails(c) PROVE Core'
    BY <1>12 DEF Fails, Goes, Says, Awaits
  <1>13. ASSUME NEW c \in Calls, PortTimesOut(c) PROVE Core'
    BY <1>13 DEF PortTimesOut, Says
  <1>14. ASSUME NEW c \in Calls, NativeTakes(c) PROVE Core'
    <2>1. CASE native' = [native EXCEPT ![c] = "refused"] /\ UNCHANGED <<turn, overheard>>
      BY <1>14, <2>1 DEF NativeTakes, Awaits
    <2>2. CASE /\ native[c] = "adding"
               /\ native' = [native EXCEPT ![c] = "queued"] /\ UNCHANGED <<turn, overheard>>
      BY <1>14, <2>2 DEF NativeTakes, Awaits
    <2>3. CASE /\ native[c] = "steering" /\ turn.runs
               /\ native' = [native EXCEPT ![c] = "shown"]
               /\ turn' = [turn EXCEPT !.of = @ \cup {c}]
      <3>1. turn'.runs = turn.runs /\ turn'.of = turn.of \cup {c}
        BY <2>3 DEF Turns
      <3>2. QED
        BY <1>14, <2>3, <3>1 DEF NativeTakes, Awaits
    <2>4. QED
      BY <1>14, <2>1, <2>2, <2>3 DEF NativeTakes
  <1>15. ASSUME NEW c \in Calls, NativeStarts(c) PROVE Core'
    BY <1>15 DEF NativeStarts, Turns, NewTurn, Awaits
  <1>16. CASE AgentSpeaks
    BY <1>16 DEF AgentSpeaks, Turns, Awaits
  <1>17. CASE TurnEnds
    BY <1>17 DEF TurnEnds, Turns, NewTurn, NoTurn, Awaits
  <1>18. CASE UserTurn
    BY <1>18 DEF UserTurn, NewTurn
  <1>19. CASE Restart
    BY <1>19 DEF Restart, Awaits
  <1>20. ASSUME NEW q \in Queries, QueryAnswers(q) \/ \E m \in Msgs : QueryReads(q, m)
         PROVE  Core'
    BY <1>20 DEF QueryAnswers, QueryReads
  <1>21. CASE UNCHANGED vars
    BY <1>21 DEF vars
  <1>b. HIDE <1>0 DEF Wires, TurnTook, ToldTrue, NotStranded, TypeOK, Took, Core
  <1>22. QED
    BY SMTT(30), <1>1, <1>2, <1>3, <1>4, <1>5, <1>6, <1>7, <1>8, <1>9, <1>10, <1>11, <1>12, <1>13,
       <1>14, <1>15, <1>16, <1>17, <1>18, <1>19, <1>20, <1>21 DEF Next
-----------------------------------------------------------------------------
(* What only grows: a request keeps its message and its acceptance, what   *)
(* the thread shows of a message stays shown.                              *)
Grows ==
  /\ \A c \in Calls :
       /\ call[c].msg \in Msgs => call'[c].msg = call[c].msg
       /\ call[c].at = "accepted" => call'[c].at = "accepted"
       /\ native[c] = "shown" => native'[c] \in {"shown", "replied"}
       /\ native[c] = "replied" => native'[c] = "replied"
  /\ overheard \subseteq overheard'

(* The actions of one request after its first await: it goes somewhere,    *)
(* and its message crosses at most once.                                   *)
Travels(c) ==
  \/ BaselineRead(c) \/ Fails(c)
  \/ \E stranger \in BOOLEAN : EnqueueRefused(c, stranger)
  \/ \E loaded \in BOOLEAN : StatusRead(c, loaded)
  \/ \E busy \in BOOLEAN : Resumed(c, busy)
  \/ \E active \in BOOLEAN : AddedStatus(c, active)
Finishes(c) ==
  Steered(c) \/ TurnsListed(c) \/ TurnsUnsupported(c) \/ QueueListed(c) \/ Started(c)

(* A request on its way leaves the messages alone, and its message crosses *)
(* only from where nothing had crossed.                                    *)
LEMMA TravelsOn ==
  ASSUME NEW c \in Calls, Travels(c)
  PROVE  /\ call[c].at \in Awaits \cup {"new"}
         /\ UNCHANGED <<messages, query, turn, historyVars>>
         /\ \E at \in Awaits \cup {"failed"} :
              Goes(c, at) /\ (at \in Awaits => call[c].at \in Awaits)
         /\ \/ native' = native
            \/ /\ call[c].at \in {"send", "resume", "steer"}
               /\ \E wire \in {"adding", "steering"} : Crosses(c, wire)
  <1> USE DEF Awaits
  <1>1. CASE BaselineRead(c)
    BY <1>1 DEF BaselineRead
  <1>2. CASE Fails(c)
    BY <1>2 DEF Fails
  <1>3. ASSUME NEW stranger \in BOOLEAN, EnqueueRefused(c, stranger)
        PROVE  /\ call[c].at = "new" /\ UNCHANGED <<messages, query, native, turn, historyVars>>
               /\ Goes(c, "failed")
    BY <1>3 DEF EnqueueRefused
  <1>4. ASSUME NEW loaded \in BOOLEAN, StatusRead(c, loaded)
        PROVE  /\ call[c].at = "send" /\ UNCHANGED <<messages, query, turn, historyVars>>
               /\ \/ Goes(c, "add") /\ Crosses(c, "adding")
                  \/ Goes(c, "resume") /\ UNCHANGED native
    BY <1>4 DEF StatusRead
  <1>5. ASSUME NEW busy \in BOOLEAN, Resumed(c, busy)
        PROVE  /\ call[c].at = "resume" /\ UNCHANGED <<messages, query, turn, historyVars>>
               /\ \/ Goes(c, "add") /\ Crosses(c, "adding")
                  \/ Goes(c, "failed") /\ UNCHANGED native
    BY <1>5 DEF Resumed
  <1>6. ASSUME NEW active \in BOOLEAN, AddedStatus(c, active)
        PROVE  /\ call[c].at = "add" /\ UNCHANGED <<messages, query, native, turn, historyVars>>
               /\ Goes(c, "turns") \/ Goes(c, "list")
    BY <1>6 DEF AddedStatus
  <1>7. QED
    BY <1>1, <1>2, <1>3, <1>4, <1>5, <1>6 DEF Travels

(* The steps after its message was taken accept it, or go on.              *)
LEMMA FinishesOrGoesOn ==
  ASSUME NEW c \in Calls, Finishes(c)
  PROVE  /\ call[c].at \in Awaits
         /\ UNCHANGED <<query, native, turn, restarts, overheard>>
         /\ \/ Accepts(c)
            \/ UNCHANGED messages /\ \E at \in Awaits : Goes(c, at)
  <1> USE DEF Awaits, historyVars
  <1>1. CASE Steered(c)
    BY <1>1 DEF Steered
  <1>2. CASE TurnsListed(c)
    BY <1>2 DEF TurnsListed
  <1>3. CASE TurnsUnsupported(c)
    BY <1>3 DEF TurnsUnsupported
  <1>4. CASE QueueListed(c)
    BY <1>4 DEF QueueListed
  <1>5. CASE Started(c)
    BY <1>5 DEF Started
  <1>6. QED
    BY <1>1, <1>2, <1>3, <1>4, <1>5 DEF Finishes

(* Every step lets these only grow.                                        *)
LEMMA GrowsStep == Inv /\ [Next]_vars => Grows
  <1> SUFFICES ASSUME Inv, [Next]_vars PROVE Grows
    OBVIOUS
  <1> USE DEF bridgeVars, historyVars, Grows
  <1>0. TypeOK /\ Wires
    BY DEF Inv
  <1>1. ASSUME NEW c \in Calls, NEW at, call[c].at # "accepted", Goes(c, at),
               native' = native, overheard' = overheard
        PROVE  Grows
    BY <1>0, <1>1 DEF Goes, TypeOK
  <1>2. ASSUME NEW c \in Calls, NEW at, call[c].at # "accepted", Goes(c, at),
               native[c] = "none", NEW wire, Crosses(c, wire), overheard' = overheard
        PROVE  Grows
    BY <1>0, <1>2 DEF Goes, Crosses, TypeOK
  <1>3. ASSUME NEW c \in Calls, NEW m \in Msgs, NEW method \in {"send", "steer"},
               Enqueue(c, m, method)
        PROVE  Grows
    BY <1>0, <1>3, BridgeAssumption DEF Enqueue, Wires, TypeOK
  <1>4. ASSUME NEW c \in Calls, Travels(c) PROVE Grows
    <2>1. call[c].at # "accepted" /\ overheard' = overheard
      BY <1>4, TravelsOn DEF Awaits
    <2>2. PICK at \in Awaits \cup {"failed"} : Goes(c, at)
      BY <1>4, TravelsOn
    <2>3. CASE native' = native
      BY <1>1, <2>1, <2>2, <2>3
    <2>4. CASE /\ call[c].at \in {"send", "resume", "steer"}
               /\ \E wire \in {"adding", "steering"} : Crosses(c, wire)
      <3>1. native[c] = "none"
        BY <1>0, <2>4 DEF Wires
      <3>2. QED
        BY <1>2, <2>1, <2>2, <2>4, <3>1
    <2>5. QED
      BY <1>4, <2>3, <2>4, TravelsOn
  <1>5. ASSUME NEW c \in Calls, Finishes(c) PROVE Grows
    <2>1. call[c].at # "accepted" /\ native' = native /\ overheard' = overheard
      BY <1>5, FinishesOrGoesOn DEF Awaits
    <2>2. \E at : Goes(c, at)
      BY <1>5, FinishesOrGoesOn DEF Accepts
    <2>3. QED
      BY <1>1, <2>1, <2>2
  <1>6. ASSUME NEW c \in Calls, PortTimesOut(c) PROVE Grows
    BY <1>6 DEF PortTimesOut
  <1>7. ASSUME NEW c \in Calls, NativeTakes(c) PROVE Grows
    BY <1>0, <1>7 DEF NativeTakes, TypeOK
  <1>8. ASSUME NEW c \in Calls, NativeStarts(c) PROVE Grows
    BY <1>0, <1>8 DEF NativeStarts, TypeOK
  <1>9. CASE AgentSpeaks
    BY <1>9 DEF AgentSpeaks
  <1>10. CASE TurnEnds \/ UserTurn
    <2>1. /\ \/ native' = native
             \/ \E c \in Calls : native[c] = "queued" /\ native' = [native EXCEPT ![c] = "shown"]
          /\ UNCHANGED <<call, overheard>>
      BY <1>10 DEF TurnEnds, UserTurn
    <2>2. QED
      BY <1>0, <2>1 DEF TypeOK
  <1>11. CASE Restart
    BY <1>11 DEF Restart, Awaits
  <1>12. ASSUME NEW q \in Queries, QueryAnswers(q) \/ \E m \in Msgs : QueryReads(q, m)
         PROVE  Grows
    BY <1>12 DEF QueryAnswers, QueryReads
  <1>13. CASE UNCHANGED vars
    BY <1>13 DEF vars
  <1>14. QED
    BY <1>3, <1>4, <1>5, <1>6, <1>7, <1>8, <1>9, <1>10, <1>11, <1>12, <1>13
    DEF Next, Travels, Finishes

(* What became of the requests for a message.                              *)
Replied(m) == \E c \in Calls : call[c].msg = m /\ native[c] = "replied"
Received(m) == \E c \in Calls : call[c].msg = m /\ native[c] = "shown"
Overheard(m) == \E c \in Calls : call[c].msg = m /\ c \in overheard

(* Shows without its set of wires, to reason by cases.                     *)
ShownBy(m) ==
  IF Replied(m) THEN "reply"
  ELSE IF Received(m)
       THEN IF Overheard(m) THEN "reply" ELSE "receipt"
       ELSE "nothing"

SameCases == \A m \in Msgs : Shows(m) = ShownBy(m)

(* The cases are those of Shows.                                           *)
LEMMA ShowsBy == SameCases
  <1> SUFFICES ASSUME NEW m \in Msgs PROVE Shows(m) = ShownBy(m)
    BY DEF SameCases
  <1> DEFINE sent == {c \in Calls : call[c].msg = m}
             seen == {native[c] : c \in sent}
  <1>1. ("replied" \in seen) <=> Replied(m)
    BY DEF Replied
  <1>2. ("shown" \in seen) <=> Received(m)
    BY DEF Received
  <1>3. (sent \cap overheard = {}) <=> ~Overheard(m)
    BY DEF Overheard
  <1>4. Shows(m) = CASE "replied" \in seen -> "reply"
                     [] "replied" \notin seen /\ "shown" \in seen ->
                          IF sent \cap overheard = {} THEN "receipt" ELSE "reply"
                     [] OTHER -> "nothing"
    BY DEF Shows
  <1> HIDE DEF sent, seen
  <1>5. QED
    BY <1>1, <1>2, <1>3, <1>4 DEF ShownBy

(* They are so in the next state as well.                                  *)
LEMMA ShowsByLater == SameCases'
  BY ShowsBy, PTL

(* So what the thread shows of a message only grows.                       *)
LEMMA ShowsMore ==
  ASSUME Grows, NEW m \in Msgs
  PROVE  AllSeen(Shows(m)) \subseteq AllSeen(Shows(m)')
  <1>1. Shows(m) = ShownBy(m) /\ Shows(m)' = ShownBy(m)'
    BY ShowsBy, ShowsByLater DEF SameCases
  <1>2. Replied(m) => Replied(m)'
    BY DEF Replied, Grows
  <1>3. Overheard(m) => Overheard(m)'
    BY DEF Overheard, Grows
  <1>4. Received(m) => Received(m)' \/ Replied(m)'
    BY DEF Received, Replied, Grows
  <1>5. QED
    BY <1>1, <1>2, <1>3, <1>4 DEF AllSeen, ShownBy
-----------------------------------------------------------------------------
(* What a step does to the messages and to the requests that use them.     *)
Unsent ==
  /\ UNCHANGED <<messages, restarts>>
  /\ \A c \in Calls : /\ call'[c].msg = call[c].msg
                      /\ call'[c].at \in Awaits => call[c].at \in Awaits
  /\ query' = query \/ \E q \in Queries, m \in Msgs : QueryReads(q, m)

AcceptsOne(c) ==
  call[c].at \in Awaits /\ Accepts(c) /\ UNCHANGED <<query, restarts>>

(* Every step sends nothing, or does one of four things to the messages.   *)
LEMMA MessageMoves ==
  ASSUME Inv, [Next]_vars
  PROVE  \/ Unsent
         \/ \E c \in Calls, m \in Msgs, method \in {"send", "steer"} : Enqueue(c, m, method)
         \/ \E c \in Calls : AcceptsOne(c)
         \/ \E q \in Queries : QueryAnswers(q)
         \/ Restart
  <1> USE DEF bridgeVars, historyVars
  <1>0. TypeOK /\ Wires
    BY DEF Inv
  <1>1. ASSUME NEW c \in Calls, NEW at, Goes(c, at), at \in Awaits => call[c].at \in Awaits,
               UNCHANGED <<messages, restarts, query>>
        PROVE  Unsent
    BY <1>0, <1>1 DEF Goes, TypeOK, Unsent
  <1>2. ASSUME NEW c \in Calls, Travels(c) PROVE Unsent
    BY <1>1, <1>2, TravelsOn
  <1>3. ASSUME NEW c \in Calls, Finishes(c) PROVE Unsent \/ AcceptsOne(c)
    BY <1>1, <1>3, FinishesOrGoesOn DEF AcceptsOne
  <1>4. ASSUME \/ \E c \in Calls : PortTimesOut(c) \/ NativeTakes(c) \/ NativeStarts(c)
               \/ AgentSpeaks \/ TurnEnds \/ UserTurn \/ UNCHANGED vars
        PROVE  Unsent
    BY <1>4 DEF PortTimesOut, NativeTakes, NativeStarts, AgentSpeaks, TurnEnds, UserTurn, vars,
                Unsent
  <1>5. ASSUME NEW q \in Queries, NEW m \in Msgs, QueryReads(q, m) PROVE Unsent
    BY <1>5 DEF QueryReads, Unsent
  <1>6. QED
    BY <1>2, <1>3, <1>4, <1>5 DEF Next, Travels, Finishes
-----------------------------------------------------------------------------
(* The evidence of one message: its order, and what of it the thread shows.*)
Ordered(e) ==
  \A i, j \in DOMAIN e : i < j =>
    e[i] # e[j] /\ (e[j] = "accepted" \/ Rung[e[i]] < Rung[e[j]])
Seen(e) == Range(e) \ {"accepted"}
Whole(e) == Seen(e) \in {{}, AllSeen("receipt"), AllSeen("reply")}

(* Evidence pushed at its place keeps the order.                           *)
LEMMA AppendOrdered ==
  ASSUME NEW e \in Seq(Kinds), Ordered(e), NEW k \in Kinds, k \notin Range(e),
         k = "accepted" \/ \A x \in Range(e) : Rung[x] < Rung[k]
  PROVE  Ordered(Append(e, k)) /\ Range(Append(e, k)) = Range(e) \cup {k}
  <1> DEFINE f == Append(e, k)
  <1>1. /\ DOMAIN e = 1 .. Len(e) /\ DOMAIN f = 1 .. (Len(e) + 1) /\ Len(e) \in Nat
        /\ f[Len(e) + 1] = k /\ \A i \in 1 .. Len(e) : f[i] = e[i] /\ e[i] \in Range(e)
    BY DEF Range
  <1> HIDE DEF f
  <1>2. Ordered(f)
    <2> SUFFICES ASSUME NEW i \in DOMAIN f, NEW j \in DOMAIN f, i < j
                 PROVE  f[i] # f[j] /\ (f[j] = "accepted" \/ Rung[f[i]] < Rung[f[j]])
      BY DEF Ordered
    <2>1. i \in 1 .. Len(e)
      BY <1>1
    <2>2. CASE j \in 1 .. Len(e)
      BY <1>1, <2>1, <2>2 DEF Ordered
    <2>3. CASE j = Len(e) + 1
      BY <1>1, <2>1, <2>3
    <2>4. QED
      BY <1>1, <2>2, <2>3
  <1>3. Range(f) = Range(e) \cup {k}
    <2>1. \A x : x \in Range(e) => x \in Range(f)
      BY <1>1 DEF Range
    <2>2. k \in Range(f)
      BY <1>1 DEF Range
    <2>3. \A x \in Range(f) : x \in Range(e) \cup {k}
      <3> SUFFICES ASSUME NEW i \in DOMAIN f PROVE f[i] \in Range(e) \cup {k}
        BY DEF Range
      <3>1. i \in 1 .. Len(e) \/ i = Len(e) + 1
        BY <1>1
      <3>2. QED
        BY <1>1, <3>1
    <2>4. QED
      BY <2>1, <2>2, <2>3
  <1>4. QED
    BY <1>2, <1>3 DEF f

(* So does evidence that is there already.                                 *)
LEMMA NotedOrdered ==
  ASSUME NEW e \in Seq(Kinds), Ordered(e), NEW k \in Kinds,
         k \in Range(e) \/ \A x \in Range(e) : Rung[x] < Rung[k]
  PROVE  /\ Noted(e, k) \in Seq(Kinds) /\ Ordered(Noted(e, k))
         /\ Range(Noted(e, k)) = Range(e) \cup {k}
  BY NotedType, AppendOrdered DEF Noted

(* A completed record has all that was seen, and nothing else is new.      *)
LEMMA CompletedHonest ==
  ASSUME NEW r \in [state : States, evidence : Seq(Kinds)], NEW saw \in {"receipt", "reply"},
         Ordered(r.evidence), Whole(r.evidence)
  PROVE  LET done == Completed(r, saw)
         IN /\ done.state \in Range(done.evidence) /\ done.state # "none"
            /\ Range(done.evidence) = Range(r.evidence) \cup AllSeen(saw)
            /\ Ordered(done.evidence) /\ Whole(done.evidence)
  <1> DEFINE e == r.evidence
             received == Noted(e, "delivered")
             executed == Noted(received, "executed")
             replied == Noted(executed, "replied")
             read == Noted(replied, "read")
  <1>0. /\ e \in Seq(Kinds) /\ {"accepted", "delivered", "executed", "replied", "read"} = Kinds
        /\ Rung["accepted"] = 0 /\ Rung["delivered"] = 1 /\ Rung["executed"] = 2
        /\ Rung["replied"] = 3 /\ Rung["read"] = 4
    BY DEF Kinds, Rung
  <1>1. /\ Range(e) \subseteq Kinds
        /\ \/ Range(e) \subseteq {"accepted"}
           \/ Range(e) \ {"accepted"} = {"delivered"}
           \/ Range(e) \ {"accepted"} = {"delivered", "executed", "replied", "read"}
    BY <1>0 DEF Whole, Seen, AllSeen, Range
  <1> HIDE DEF e
  <1>2. received \in Seq(Kinds) /\ Ordered(received) /\ Range(received) = Range(e) \cup {"delivered"}
    <2>1. "delivered" \in Range(e) \/ \A x \in Range(e) : Rung[x] < Rung["delivered"]
      BY <1>0, <1>1
    <2>2. QED
      BY <1>0, <2>1, NotedOrdered DEF e
  <1> HIDE DEF received
  <1>3. executed \in Seq(Kinds) /\ Ordered(executed) /\ Range(executed) = Range(received) \cup {"executed"}
    <2>1. "executed" \in Range(received) \/ \A x \in Range(received) : Rung[x] < Rung["executed"]
      BY <1>0, <1>1, <1>2
    <2>2. QED
      BY <1>0, <1>2, <2>1, NotedOrdered
  <1> HIDE DEF executed
  <1>4. replied \in Seq(Kinds) /\ Ordered(replied) /\ Range(replied) = Range(executed) \cup {"replied"}
    <2>1. "replied" \in Range(executed) \/ \A x \in Range(executed) : Rung[x] < Rung["replied"]
      BY <1>0, <1>1, <1>2, <1>3
    <2>2. QED
      BY <1>0, <1>3, <2>1, NotedOrdered
  <1> HIDE DEF replied
  <1>5. read \in Seq(Kinds) /\ Ordered(read) /\ Range(read) = Range(replied) \cup {"read"}
    <2>1. "read" \in Range(replied) \/ \A x \in Range(replied) : Rung[x] < Rung["read"]
      BY <1>0, <1>1, <1>2, <1>3, <1>4
    <2>2. QED
      BY <1>0, <1>4, <2>1, NotedOrdered
  <1> HIDE DEF read
  <1>6. CASE saw = "receipt"
    <2>1. Completed(r, saw) = [evidence |-> received, state |-> "delivered"]
      BY <1>6 DEF Completed, received, e
    <2>2. Whole(received)
      BY <1>1, <1>2 DEF Whole, Seen, AllSeen
    <2>3. QED
      BY <1>2, <1>6, <2>1, <2>2 DEF AllSeen, e
  <1>7. CASE saw = "reply"
    <2>1. Completed(r, saw) = [evidence |-> read, state |-> "read"]
      BY <1>7 DEF Completed, read, replied, executed, received, e
    <2>2. Range(read) = Range(e) \cup {"delivered", "executed", "replied", "read"}
      BY <1>2, <1>3, <1>4, <1>5
    <2>3. Whole(read)
      BY <1>1, <2>2 DEF Whole, Seen, AllSeen
    <2>4. QED
      BY <1>5, <1>7, <2>1, <2>2, <2>3 DEF AllSeen, e
  <1>8. QED
    BY <1>6, <1>7
-----------------------------------------------------------------------------
(* A message id stays with its request, and is used by one at a time.      *)
Ids == OneRequest /\ OneAwaits /\ UnknownEmpty

(* The evidence of one message, in this state.                             *)
HonestAbout(m) ==
  LET e == messages[m].evidence
  IN /\ Ordered(e) /\ Whole(e)
     /\ Seen(e) \subseteq AllSeen(Shows(m))
     /\ "accepted" \in Range(e) => \E c \in Calls : call[c].msg = m /\ call[c].at = "accepted"
     /\ messages[m].state \in {"none", "emitted"} \cup Range(e)

Honest == \A m \in Msgs : HonestAbout(m)

(* Execution is evidence that an agent spoke where the message was.        *)
LEMMA HonestIs == SameCases => (EvidenceHonest <=> Honest)
  <1> SUFFICES ASSUME SameCases, NEW m \in Msgs, HonestAbout(m),
                      "executed" \in Range(messages[m].evidence)
               PROVE  \E c \in Calls :
                        call[c].msg = m /\ (native[c] = "replied" \/ c \in overheard)
    BY DEF EvidenceHonest, Honest, HonestAbout, Ordered, Whole, Seen
  <1>1. "executed" \in AllSeen(Shows(m))
    BY DEF HonestAbout, Seen
  <1>2. Shows(m) = ShownBy(m)
    BY DEF SameCases
  <1>3. Replied(m) \/ Overheard(m)
    BY <1>1, <1>2 DEF AllSeen, ShownBy
  <1>4. QED
    BY <1>3 DEF Replied, Overheard
-----------------------------------------------------------------------------
(* A message whose record does not change stays honest.                    *)
LEMMA StaysHonest ==
  ASSUME Inv, Grows, NEW m \in Msgs, HonestAbout(m), messages'[m] = messages[m]
  PROVE  HonestAbout(m)'
  <1>1. AllSeen(Shows(m)) \subseteq AllSeen(Shows(m)')
    BY ShowsMore
  <1>2. \A c \in Calls : call[c].msg = m /\ call[c].at = "accepted" =>
          call'[c].msg = m /\ call'[c].at = "accepted"
    BY DEF Grows
  <1>3. QED
    BY <1>1, <1>2 DEF HonestAbout

(* So does one that is emitted, or forgotten.                              *)
LEMMA EmptyHonest ==
  ASSUME NEW m \in Msgs, messages'[m].evidence = <<>>, messages'[m].state \in {"none", "emitted"}
  PROVE  HonestAbout(m)'
  <1>1. Ordered(<<>>) /\ Range(<<>>) = {}
    BY DEF Ordered, Range
  <1>2. QED
    BY <1>1 DEF HonestAbout, Whole, Seen

(* What a message_status saw is shown as long as its message is known.     *)
LEMMA ShownOn ==
  ASSUME StillShown, Grows, TypeOK, query' = query,
         \A m \in Msgs : Known(m) => messages'[m].state # "none"
  PROVE  StillShown'
  <1> SUFFICES ASSUME NEW q \in Queries, NEW m \in Msgs, query'[q] # NoQuery, query'[q].msg = m
               PROVE  messages'[m].state # "none" /\ AllSeen(query'[q].saw) \subseteq AllSeen(Shows(m)')
    BY DEF StillShown, Known
  <1>1. QED
    BY ShowsMore DEF StillShown

(* A step that leaves the messages alone.                                  *)
LEMMA UnsentKeeps ==
  ASSUME Inv, Grows, Unsent
  PROVE  Ids' /\ StillShown' /\ Honest'
  <1>0. TypeOK /\ OneRequest /\ OneAwaits /\ UnknownEmpty /\ StillShown /\ Honest
    BY ShowsBy, HonestIs DEF Inv
  <1>1. Ids'
    BY <1>0 DEF Ids, OneRequest, OneAwaits, UnknownEmpty, Known, Unsent
  <1>2. StillShown'
    <2>1. CASE query' = query
      BY <1>0, <2>1, ShownOn DEF Unsent, Known
    <2>2. ASSUME NEW q \in Queries, NEW m \in Msgs, QueryReads(q, m)
          PROVE  StillShown'
      <3> SUFFICES ASSUME NEW p \in Queries, NEW n \in Msgs, query'[p] # NoQuery, query'[p].msg = n
                   PROVE  /\ messages'[n].state # "none"
                          /\ AllSeen(query'[p].saw) \subseteq AllSeen(Shows(n)')
        BY DEF StillShown, Known
      <3>1. CASE p = q
        <4>1. n = m /\ query'[p].saw = Shows(m) /\ messages' = messages
          BY <1>0, <2>2, <3>1 DEF QueryReads, TypeOK
        <4>2. QED
          BY <2>2, <4>1, ShowsMore DEF QueryReads
      <3>2. CASE p # q
        <4>1. query'[p] = query[p] /\ messages' = messages
          BY <1>0, <2>2, <3>2 DEF QueryReads, TypeOK
        <4>2. QED
          BY <1>0, <4>1, ShowsMore DEF StillShown, Known
      <3>3. QED
        BY <3>1, <3>2
    <2>3. QED
      BY <2>1, <2>2 DEF Unsent
  <1>3. Honest'
    BY <1>0, StaysHonest DEF Honest, Unsent
  <1>4. QED
    BY <1>1, <1>2, <1>3

(* A new message has an id nobody used.                                    *)
LEMMA EnqueueKeeps ==
  ASSUME Inv, Grows, NEW c \in Calls, NEW m \in Msgs, NEW method \in {"send", "steer"},
         Enqueue(c, m, method)
  PROVE  Ids' /\ StillShown' /\ Honest'
  <1>0. /\ TypeOK /\ OneRequest /\ OneAwaits /\ UnknownEmpty /\ StillShown /\ Honest
        /\ ~Known(m)
    BY ShowsBy, HonestIs DEF Inv, Enqueue, Known
  <1>1. /\ messages'[m].state = "emitted" /\ messages'[m].evidence = <<>>
        /\ \A n \in Msgs \ {m} : messages'[n] = messages[n]
        /\ call'[c].msg = m
        /\ \A d \in Calls \ {c} : call'[d] = call[d]
        /\ restarts' = restarts /\ query' = query
    BY <1>0 DEF Enqueue, NoMessage, TypeOK, historyVars
  <1>2. \A n \in Msgs : Known(n) => messages'[n].state # "none"
    BY <1>1 DEF Known
  <1>3. OneRequest'
    BY <1>0, <1>1, <1>2 DEF OneRequest, Known
  <1>4. OneAwaits'
    <2>1. Range(<<>>) = {}
      BY DEF Range
    <2>2. \A d \in Calls \ {c} : call[d].at \in Awaits => call[d].msg # m /\ call[d].msg \in Msgs
      BY <1>0 DEF OneAwaits, TypeOK
    <2>3. QED
      BY <1>0, <1>1, <1>2, <2>1, <2>2 DEF OneAwaits, Known
  <1>5. UnknownEmpty'
    BY <1>0, <1>1 DEF UnknownEmpty, Known
  <1>6. StillShown'
    BY <1>0, <1>1, <1>2, ShownOn
  <1>7. Honest'
    <2> SUFFICES ASSUME NEW n \in Msgs PROVE HonestAbout(n)'
      BY DEF Honest
    <2>1. CASE n = m
      BY <1>1, <2>1, EmptyHonest
    <2>2. CASE n # m
      BY <1>0, <1>1, <2>2, StaysHonest DEF Honest
    <2>3. QED
      BY <2>1, <2>2
  <1>8. QED
    BY <1>3, <1>4, <1>5, <1>6, <1>7 DEF Ids

(* The end of a request notes acceptance once.                             *)
LEMMA AcceptKeeps ==
  ASSUME Inv, Grows, NEW c \in Calls, AcceptsOne(c)
  PROVE  Ids' /\ StillShown' /\ Honest'
  <1>m. PICK m \in Msgs : m = call[c].msg
    BY DEF Inv, AcceptsOne, TypeOK
  <1> DEFINE e == messages[m].evidence
  <1>0. /\ TypeOK /\ OneRequest /\ OneAwaits /\ UnknownEmpty /\ StillShown /\ Honest
        /\ Known(m) /\ "accepted" \notin Range(e) /\ e \in Seq(Kinds)
    BY <1>m, ShowsBy, HonestIs DEF Inv, AcceptsOne, OneAwaits, TypeOK
  <1>1. /\ messages'[m].state = "accepted" /\ messages'[m].evidence = Append(e, "accepted")
        /\ \A n \in Msgs \ {m} : messages'[n] = messages[n]
        /\ call'[c].at = "accepted" /\ call'[c].msg = m
        /\ \A d \in Calls \ {c} : call'[d] = call[d]
        /\ restarts' = restarts /\ query' = query
    BY <1>0, <1>m DEF AcceptsOne, Accepts, Goes, TypeOK
  <1> HIDE DEF e
  <1>2. \A n \in Msgs : Known(n) => messages'[n].state # "none"
    BY <1>1 DEF Known
  <1>3. OneRequest'
    BY <1>0, <1>1, <1>2, <1>m DEF OneRequest, Known
  <1>4. OneAwaits'
    <2>1. \A d \in Calls : call'[d].at \in Awaits =>
            call[d].at \in Awaits /\ call'[d] = call[d] /\ call[d].msg # m /\ call[d].msg \in Msgs
      BY <1>0, <1>1, <1>m DEF OneAwaits, AcceptsOne, TypeOK, Awaits
    <2>2. QED
      BY <1>0, <1>1, <1>2, <2>1 DEF OneAwaits, Known
  <1>5. UnknownEmpty'
    BY <1>0, <1>1 DEF UnknownEmpty, Known
  <1>6. StillShown'
    BY <1>0, <1>1, <1>2, ShownOn
  <1>7. Honest'
    <2> SUFFICES ASSUME NEW n \in Msgs PROVE HonestAbout(n)'
      BY DEF Honest
    <2>1. CASE n = m
      <3>1. Ordered(e) /\ Whole(e) /\ Seen(e) \subseteq AllSeen(Shows(m))
        BY <1>0 DEF Honest, HonestAbout, e
      <3>2. /\ Ordered(Append(e, "accepted"))
            /\ Range(Append(e, "accepted")) = Range(e) \cup {"accepted"}
        BY <1>0, <3>1, AppendOrdered DEF Kinds
      <3>3. Seen(Append(e, "accepted")) = Seen(e)
        BY <3>2 DEF Seen
      <3>4. AllSeen(Shows(m)) \subseteq AllSeen(Shows(m)')
        BY <1>0, ShowsMore
      <3>5. QED
        BY <1>1, <2>1, <3>1, <3>2, <3>3, <3>4 DEF HonestAbout, Whole
    <2>2. CASE n # m
      BY <1>0, <1>1, <2>2, StaysHonest DEF Honest
    <2>3. QED
      BY <2>1, <2>2
  <1>8. QED
    BY <1>3, <1>4, <1>5, <1>6, <1>7 DEF Ids

(* An answer completes what the thread still shows.                        *)
LEMMA AnswerKeeps ==
  ASSUME Inv, Grows, NEW q \in Queries, QueryAnswers(q)
  PROVE  Ids' /\ StillShown' /\ Honest'
  <1>m. PICK m \in Msgs, saw \in {"receipt", "reply"} : query[q] = [msg |-> m, saw |-> saw]
    BY DEF Inv, QueryAnswers, TypeOK
  <1> DEFINE r == messages[m]
             done == Completed(r, saw)
  <1>0. /\ TypeOK /\ OneRequest /\ OneAwaits /\ UnknownEmpty /\ StillShown /\ Honest
        /\ r \in [state : States, evidence : Seq(Kinds)]
        /\ Known(m) /\ AllSeen(saw) \subseteq AllSeen(Shows(m))
    <2>1. TypeOK /\ OneRequest /\ OneAwaits /\ UnknownEmpty /\ StillShown /\ Honest
      BY ShowsBy, HonestIs DEF Inv
    <2>2. r \in [state : States, evidence : Seq(Kinds)]
      BY <2>1 DEF TypeOK, States
    <2>3. query[q] # NoQuery /\ query[q].msg = m /\ query[q].saw = saw
      BY <1>m DEF QueryAnswers
    <2>4. Known(m) /\ AllSeen(saw) \subseteq AllSeen(Shows(m))
      BY <2>1, <2>3 DEF StillShown
    <2>5. QED
      BY <2>1, <2>2, <2>4
  <1>1. /\ messages'[m] = done
        /\ \A n \in Msgs \ {m} : messages'[n] = messages[n]
        /\ call' = call /\ restarts' = restarts
        /\ query'[q] = NoQuery /\ \A p \in Queries \ {q} : query'[p] = query[p]
    BY <1>0, <1>m DEF QueryAnswers, historyVars, TypeOK
  <1>2. Ordered(r.evidence) /\ Whole(r.evidence)
    BY <1>0 DEF Honest, HonestAbout
  <1>3. /\ done.state \in Range(done.evidence) /\ done.state # "none"
        /\ Range(done.evidence) = Range(r.evidence) \cup AllSeen(saw)
        /\ Ordered(done.evidence) /\ Whole(done.evidence)
    BY <1>0, <1>2, CompletedHonest
  <1> HIDE DEF done, r
  <1>4. \A n \in Msgs : Known(n) => messages'[n].state # "none"
    BY <1>1, <1>3 DEF Known
  <1>5. "accepted" \notin AllSeen(saw)
    BY <1>0 DEF AllSeen
  <1>6. OneRequest'
    BY <1>0, <1>1, <1>4 DEF OneRequest, Known
  <1>7. OneAwaits'
    <2>1. \A n \in Msgs : "accepted" \notin Range(messages[n].evidence) =>
            "accepted" \notin Range(messages'[n].evidence)
      BY <1>1, <1>3, <1>5 DEF r
    <2>2. \A d \in Calls : call[d].at \in Awaits => call[d].msg \in Msgs
      BY <1>0 DEF TypeOK
    <2>3. QED
      BY <1>0, <1>1, <1>4, <2>1, <2>2 DEF OneAwaits, Known
  <1>8. UnknownEmpty'
    BY <1>0, <1>1, <1>3 DEF UnknownEmpty, Known
  <1>9. StillShown'
    <2> SUFFICES ASSUME NEW p \in Queries, NEW n \in Msgs, query'[p] # NoQuery, query'[p].msg = n
                 PROVE  /\ messages'[n].state # "none"
                        /\ AllSeen(query'[p].saw) \subseteq AllSeen(Shows(n)')
      BY DEF StillShown, Known
    <2>1. query'[p] = query[p]
      BY <1>0, <1>1 DEF TypeOK
    <2>2. QED
      BY <1>0, <1>4, <2>1, ShowsMore DEF StillShown
  <1>10. Honest'
    <2> SUFFICES ASSUME NEW n \in Msgs PROVE HonestAbout(n)'
      BY DEF Honest
    <2>1. CASE n = m
      <3>1. Seen(r.evidence) \subseteq AllSeen(Shows(m))
        BY <1>0 DEF Honest, HonestAbout, r
      <3>2. AllSeen(Shows(m)) \subseteq AllSeen(Shows(m)')
        BY <1>0, ShowsMore
      <3>3. Seen(done.evidence) \subseteq AllSeen(Shows(m)')
        BY <1>0, <1>3, <3>1, <3>2 DEF Seen
      <3>4. "accepted" \in Range(done.evidence) =>
              \E c \in Calls : call'[c].msg = m /\ call'[c].at = "accepted"
        BY <1>0, <1>1, <1>3, <1>5 DEF Honest, HonestAbout, r
      <3>5. QED
        BY <1>1, <1>3, <2>1, <3>3, <3>4 DEF HonestAbout
    <2>2. CASE n # m
      BY <1>0, <1>1, <2>2, StaysHonest DEF Honest
    <2>3. QED
      BY <2>1, <2>2
  <1>11. QED
    BY <1>6, <1>7, <1>8, <1>9, <1>10 DEF Ids

(* A bridge that starts again knows no message and awaits nothing.         *)
LEMMA RestartKeeps ==
  ASSUME Inv, Restart
  PROVE  Ids' /\ StillShown' /\ Honest'
  <1>0. TypeOK
    BY DEF Inv
  <1>1. /\ restarts' # 0
        /\ \A m \in Msgs : messages'[m].state = "none" /\ messages'[m].evidence = <<>>
        /\ \A q \in Queries : query'[q] = NoQuery
    BY <1>0, BridgeAssumption DEF Restart, TypeOK, NoMessage
  <1>2. \A c \in Calls : call'[c].at \notin Awaits
    BY <1>0 DEF Restart, TypeOK, Awaits
  <1>3. QED
    BY <1>1, <1>2, EmptyHonest
    DEF Ids, OneRequest, OneAwaits, UnknownEmpty, StillShown, Honest
-----------------------------------------------------------------------------
(* The parts together are inductive.                                       *)
LEMMA InvInit == Init => Inv
  <1> SUFFICES ASSUME Init PROVE Inv
    OBVIOUS
  <1>1. TypeOK
    <2>1. <<>> \in Seq(Kinds)
      OBVIOUS
    <2>2. messages \in [Msgs -> [state : States, evidence : Seq(Kinds)]]
      BY <2>1 DEF Init, NoMessage, States
    <2>3. turn \in Turns
      <3>1. NoTurn \in Turns /\ NewTurn({}) \in Turns
        BY DEF NoTurn, NewTurn, Turns
      <3>2. QED
        BY <3>1 DEF Init
    <2>4. QED
      BY <2>2, <2>3, BridgeAssumption DEF Init, TypeOK, States, Awaits, Turns
  <1>2. Wires /\ TurnTook /\ ToldTrue /\ NotStranded
    BY DEF Init, Wires, TurnTook, ToldTrue, NotStranded, NoTurn, NewTurn
  <1>3. OneRequest /\ OneAwaits /\ UnknownEmpty /\ StillShown
    BY BridgeAssumption DEF Init, OneRequest, OneAwaits, UnknownEmpty, StillShown, Awaits, NoMessage
  <1>4. EvidenceHonest
    <2>1. Range(<<>>) = {} /\ Ordered(<<>>)
      BY DEF Range, Ordered
    <2>2. Honest
      BY <2>1 DEF Init, NoMessage, Honest, HonestAbout, Whole, Seen
    <2>3. QED
      BY <2>2, ShowsBy, HonestIs
  <1>5. QED
    BY <1>1, <1>2, <1>3, <1>4 DEF Inv

(* Every step keeps them together.                                         *)
LEMMA InvStep == Inv /\ [Next]_vars => Inv'
  <1> SUFFICES ASSUME Inv, [Next]_vars PROVE Inv'
    OBVIOUS
  <1>1. TypeOK' /\ Core' /\ Grows
    BY TypeStep, CoreStep, GrowsStep
  <1>2. Ids' /\ StillShown' /\ Honest'
    BY <1>1, MessageMoves, UnsentKeeps, EnqueueKeeps, AcceptKeeps, AnswerKeeps, RestartKeeps
  <1>3. (SameCases => (EvidenceHonest <=> Honest))'
    BY HonestIs, PTL
  <1>4. EvidenceHonest'
    BY <1>2, <1>3, ShowsByLater
  <1>5. QED
    BY <1>1, <1>2, <1>4 DEF Inv, Core, Ids

(* The invariant holds of every behaviour of the bridge.                   *)
THEOREM Invariance == Spec => []Inv
  BY InvInit, InvStep, PTL DEF Spec

(* Every variable keeps its type.                                          *)
THEOREM TypeCorrect == Spec => []TypeOK
  BY Invariance, PTL DEF Inv

(* What the daemon's port was told of a request (sendMessage and steer in  *)
(* codexapp-port.js) is true for good: nothing that it was refused for     *)
(* certain crosses, what it was told is accepted was taken, and without a  *)
(* restart no message crosses twice.                                       *)
THEOREM AnswersAreTrue == Spec => []AnswerIsTrue
  <1>1. Inv => AnswerIsTrue
    BY DEF Inv, ToldTrue, OneRequest, Wires, AnswerIsTrue
  <1>2. QED
    BY <1>1, Invariance, PTL

(* A message the bridge accepted is not left in the queue of an idle       *)
(* thread, whenever turns start and end between the awaits of send.        *)
THEOREM NoneStranded == Spec => []NotStranded
  BY Invariance, PTL DEF Inv

(* Evidence comes in order, each kind once, and only of what the thread    *)
(* shows, although message_status runs beside itself and beside send.      *)
THEOREM EvidenceIsHonest == Spec => []EvidenceHonest
  BY Invariance, PTL DEF Inv
-----------------------------------------------------------------------------
(* The refinement of Transport: what the port was told, in its words.      *)
Told(c) == IF said[c] = "definitive" THEN "refused" ELSE said[c]
Message == [c \in Calls |-> MessageOf(c)]
Answers == [c \in Calls |-> Told(c)]
Alike(c) == MessageOf(c)' = MessageOf(c) /\ Told(c)' = Told(c)
OthersAlike(c) == \A d \in Calls \ {c} : Alike(d)

(* What one step may do to the message of a request and to its answer.     *)
Refused(c) ==
  /\ MessageOf(c) \in {"unsent", "crossing"} /\ MessageOf(c)' = "lost"
  /\ Told(c) = "nothing" /\ Told(c)' = "refused"
GivenUp(c) ==
  /\ \/ MessageOf(c)' = MessageOf(c)
     \/ MessageOf(c) \in {"unsent", "crossing"} /\ MessageOf(c)' = "lost"
  /\ \/ Told(c)' = Told(c)
     \/ Told(c) = "nothing" /\ Told(c)' = "uncertain"
Accepted(c) ==
  /\ MessageOf(c) = "taken" /\ MessageOf(c)' = "taken"
  /\ \/ Told(c)' = Told(c)
     \/ Told(c) = "nothing" /\ Told(c)' = "accepted"
Crossed(c) ==
  MessageOf(c) = "unsent" /\ MessageOf(c)' = "crossing" /\ Told(c)' = Told(c)
Taken(c) ==
  MessageOf(c) = "crossing" /\ MessageOf(c)' = "taken" /\ Told(c)' = Told(c)

(* Requests given up together, and their messages lost, are one step of    *)
(* the transport, or none.                                                 *)
LEMMA GivenUpTogether ==
  ASSUME \A c \in Calls : GivenUp(c)
  PROVE  Carried!Next
  <1>1. PICK S \in SUBSET Calls : S = {c \in Calls : Told(c)' # Told(c)}
    OBVIOUS
  <1>2. PICK L \in SUBSET Calls : L = {c \in Calls : MessageOf(c)' # MessageOf(c)}
    OBVIOUS
  <1>3. \A c \in S : Answers[c] = "nothing"
    BY <1>1 DEF GivenUp, Answers
  <1>4. \A c \in L : Message[c] \in {"unsent", "crossing"}
    BY <1>2 DEF GivenUp, Message
  <1>5. Answers' = [c \in Calls |-> IF c \in S THEN "uncertain" ELSE Answers[c]]
    BY <1>1 DEF GivenUp, Answers
  <1>6. Message' = [c \in Calls |-> IF c \in L THEN "lost" ELSE Message[c]]
    BY <1>2 DEF GivenUp, Message
  <1>7. Carried!GiveUp(S, L)
    BY <1>3, <1>4, <1>5, <1>6 DEF Carried!GiveUp, Answers, Message, Told
  <1>8. QED
    BY <1>7 DEF Carried!Next

(* So is what happens to one request while the others stay as they are.    *)
LEMMA OneCarried ==
  ASSUME NEW c \in Calls, OthersAlike(c),
         Crossed(c) \/ Taken(c) \/ Accepted(c) \/ Refused(c) \/ GivenUp(c)
  PROVE  Carried!Next
  <1>0. /\ Message = [d \in Calls |-> MessageOf(d)]
        /\ Answers = [d \in Calls |-> Told(d)]
        /\ \A d \in Calls \ {c} : Message'[d] = Message[d] /\ Answers'[d] = Answers[d]
        /\ DOMAIN Message' = Calls /\ DOMAIN Answers' = Calls
        /\ Message'[c] = MessageOf(c)' /\ Answers'[c] = Told(c)'
    BY DEF Message, Answers, OthersAlike, Alike
  <1>1. ASSUME Told(c)' = Told(c) PROVE Answers' = Answers
    BY <1>1 DEF Answers, OthersAlike, Alike
  <1>2. ASSUME MessageOf(c)' = MessageOf(c) PROVE Message' = Message
    BY <1>2 DEF Message, OthersAlike, Alike
  <1>3. ASSUME NEW x, Told(c)' = x PROVE Answers' = [Answers EXCEPT ![c] = x]
    BY <1>3 DEF Answers, OthersAlike, Alike
  <1>4. ASSUME NEW x, MessageOf(c)' = x PROVE Message' = [Message EXCEPT ![c] = x]
    BY <1>4 DEF Message, OthersAlike, Alike
  <1>5. CASE Crossed(c)
    <2>1. Carried!Cross(c)
      BY <1>1, <1>4, <1>5 DEF Crossed, Carried!Cross, Message, Answers, Told
    <2>2. QED
      BY <2>1 DEF Carried!Next
  <1>6. CASE Taken(c)
    <2>1. Carried!Take(c)
      BY <1>1, <1>4, <1>6 DEF Taken, Carried!Take, Message, Answers, Told
    <2>2. QED
      BY <2>1 DEF Carried!Next
  <1>7. CASE GivenUp(c)
    <2>1. \A d \in Calls \ {c} : GivenUp(d)
      BY DEF OthersAlike, Alike, GivenUp
    <2>2. QED
      BY <1>7, <2>1, GivenUpTogether
  <1>8. CASE Accepted(c)
    <2>1. CASE Told(c) = "nothing" /\ Told(c)' = "accepted"
      <3>1. Carried!Accept(c)
        BY <1>2, <1>3, <1>8, <2>1
        DEF Accepted, Carried!Accept, Carried!MayAccept, Message, Answers, Told
      <3>2. QED
        BY <3>1 DEF Carried!Next
    <2>2. CASE Told(c)' = Told(c)
      <3>1. GivenUp(c)
        BY <1>8, <2>2 DEF Accepted, GivenUp
      <3>2. QED
        BY <1>7, <3>1
    <2>3. QED
      BY <1>8, <2>1, <2>2 DEF Accepted
  <1>9. CASE Refused(c)
    <2>1. Carried!Refuse(c)
      BY <1>3, <1>4, <1>9 DEF Refused, Carried!Refuse, Carried!MayRefuse, Message, Answers, Told
    <2>2. QED
      BY <2>1 DEF Carried!Next
  <1>10. QED
    BY <1>5, <1>6, <1>7, <1>8, <1>9

(* A request is where it was, its message too, and its answer stands.      *)
Still(d) == call'[d].at = call[d].at /\ native'[d] = native[d] /\ said'[d] = said[d]

(* Nothing changes for it in the words of the transport.                   *)
LEMMA StillAlike ==
  ASSUME NEW d \in Calls, Still(d)
  PROVE  Alike(d)
  BY DEF Still, Alike, MessageOf, Took, Told

(* Every step of the bridge and of its surroundings is one of the          *)
(* transport.                                                              *)
LEMMA CarriedStep == Inv /\ [Next]_vars => [Carried!Next]_(Carried!vars)
  <1> SUFFICES ASSUME Inv, [Next]_vars PROVE Carried!Next
    OBVIOUS
  <1> USE DEF bridgeVars, historyVars
  <1>0. TypeOK /\ Wires /\ TurnTook
    BY DEF Inv
  <1>1. ASSUME NEW c \in Calls, \A d \in Calls \ {c} : Still(d),
               Crossed(c) \/ Taken(c) \/ Accepted(c) \/ Refused(c) \/ GivenUp(c)
        PROVE  Carried!Next
    BY <1>1, StillAlike, OneCarried DEF OthersAlike
  <1>2. ASSUME \A d \in Calls : MessageOf(d)' = MessageOf(d) /\ said'[d] = said[d]
        PROVE  Carried!Next
    <2>1. \A d \in Calls : GivenUp(d)
      BY <1>2 DEF GivenUp, Told
    <2>2. QED
      BY <2>1, GivenUpTogether
  <1>3. ASSUME NEW c \in Calls, NEW m \in Msgs, NEW method \in {"send", "steer"},
               Enqueue(c, m, method)
        PROVE  Carried!Next
    <2>1. \A d \in Calls \ {c} : Still(d)
      BY <1>0, <1>3 DEF Enqueue, Still, TypeOK
    <2>2. call'[c].at = method /\ native[c] = "none" /\ native' = native /\ said' = said
      BY <1>0, <1>3 DEF Enqueue, Wires, TypeOK
    <2>3. Crossed(c)
      BY <1>3, <2>2 DEF Enqueue, Crossed, MessageOf, Took, Told
    <2>4. QED
      BY <1>1, <2>1, <2>3
  <1>4. ASSUME NEW c \in Calls, NEW stranger \in BOOLEAN, EnqueueRefused(c, stranger)
        PROVE  Carried!Next
    <2>1. \A d \in Calls \ {c} : Still(d)
      BY <1>0, <1>4 DEF EnqueueRefused, Goes, Says, Still, TypeOK
    <2>2. /\ call'[c].at = "failed" /\ native[c] = "none" /\ native' = native
          /\ \/ said'[c] = said[c]
             \/ said[c] = "nothing" /\ said'[c] \in {"definitive", "uncertain"}
      BY <1>0, <1>4 DEF EnqueueRefused, Goes, Says, Wires, TypeOK
    <2>3. MessageOf(c) = "unsent" /\ MessageOf(c)' = "lost"
      BY <1>4, <2>2 DEF EnqueueRefused, MessageOf, Took
    <2>4. Refused(c) \/ GivenUp(c)
      BY <2>2, <2>3 DEF Refused, GivenUp, Told
    <2>5. QED
      BY <1>1, <2>1, <2>4
  <1>5. ASSUME NEW c \in Calls, NEW wire \in {"adding", "steering"}, NEW at \in Awaits,
               call[c].at \in {"send", "resume", "steer"}, Goes(c, at), Crosses(c, wire),
               said' = said
        PROVE  Carried!Next
    <2>1. /\ \A d \in Calls \ {c} : call'[d].at = call[d].at /\ native'[d] = native[d]
          /\ native[c] = "none" /\ native'[c] = wire
      BY <1>0, <1>5 DEF Goes, Crosses, Wires, TypeOK
    <2>2. MessageOf(c) = "crossing" /\ MessageOf(c)' = "crossing"
      BY <1>5, <2>1 DEF MessageOf, Took
    <2>3. \A d \in Calls \ {c} : Alike(d)
      BY <1>5, <2>1, StillAlike DEF Still
    <2>4. QED
      BY <1>2, <1>5, <2>2, <2>3 DEF Alike
  <1>6. ASSUME NEW c \in Calls, NEW at \in Awaits, call[c].at \in Awaits, Goes(c, at),
               UNCHANGED <<native, said>>
        PROVE  Carried!Next
    <2>1. /\ \A d \in Calls \ {c} : call'[d].at = call[d].at
          /\ call'[c].at \in Awaits
      BY <1>0, <1>6 DEF Goes, TypeOK
    <2>2. MessageOf(c)' = MessageOf(c)
      BY <1>6, <2>1 DEF MessageOf, Took, Awaits
    <2>3. \A d \in Calls \ {c} : Alike(d)
      BY <1>6, <2>1, StillAlike DEF Still
    <2>4. QED
      BY <1>2, <1>6, <2>2, <2>3 DEF Alike
  <1>7. ASSUME NEW c \in Calls, Took(c), native' = native, Accepts(c)
        PROVE  Carried!Next
    <2>1. \A d \in Calls \ {c} : Still(d)
      BY <1>0, <1>7 DEF Accepts, Goes, Says, Still, TypeOK
    <2>2. \/ said'[c] = said[c]
          \/ said[c] = "nothing" /\ said'[c] = "accepted"
      BY <1>0, <1>7, SaysType DEF Accepts
    <2>3. Accepted(c)
      BY <1>7, <2>2 DEF Accepted, MessageOf, Took, Told
    <2>4. QED
      BY <1>1, <2>1, <2>3
  <1>8. ASSUME NEW c \in Calls, Goes(c, "failed"), call[c].at \in Awaits, native' = native,
               NEW answer \in {"definitive", "uncertain"}, Says(c, answer),
               answer = "definitive" => native[c] = "none"
        PROVE  Carried!Next
    <2>1. \A d \in Calls \ {c} : Still(d)
      BY <1>0, <1>8 DEF Goes, Says, Still, TypeOK
    <2>2. /\ call'[c].at = "failed" /\ native'[c] = native[c]
          /\ \/ said'[c] = said[c]
             \/ said[c] = "nothing" /\ said'[c] = answer
      BY <1>0, <1>8 DEF Goes, Says, TypeOK
    <2>3. CASE native[c] = "none"
      <3>1. MessageOf(c) = "crossing" /\ MessageOf(c)' = "lost"
        BY <1>8, <2>2, <2>3 DEF MessageOf, Took, Awaits
      <3>2. Refused(c) \/ GivenUp(c)
        BY <2>2, <3>1 DEF Refused, GivenUp, Told
      <3>3. QED
        BY <1>1, <2>1, <3>2
    <2>4. CASE native[c] # "none"
      <3>1. MessageOf(c)' = MessageOf(c)
        BY <2>2, <2>4 DEF MessageOf, Took
      <3>2. GivenUp(c)
        BY <1>8, <2>2, <2>4, <3>1 DEF GivenUp, Told
      <3>3. QED
        BY <1>1, <2>1, <3>2
    <2>5. QED
      BY <2>3, <2>4
  <1>9. ASSUME NEW c \in Calls, Travels(c) PROVE Carried!Next
    <2>1. CASE BaselineRead(c)
      BY <1>5, <2>1 DEF BaselineRead, Awaits
    <2>2. CASE Fails(c)
      BY <1>8, <2>2 DEF Fails
    <2>3. ASSUME NEW loaded \in BOOLEAN, StatusRead(c, loaded) PROVE Carried!Next
      BY <1>5, <1>6, <2>3 DEF StatusRead, Awaits
    <2>4. ASSUME NEW busy \in BOOLEAN, Resumed(c, busy) PROVE Carried!Next
      <3>1. native[c] = "none"
        BY <1>0, <2>4 DEF Resumed, Wires
      <3>2. QED
        BY <1>5, <1>8, <2>4, <3>1 DEF Resumed, Awaits
    <2>5. ASSUME NEW active \in BOOLEAN, AddedStatus(c, active) PROVE Carried!Next
      BY <1>6, <2>5 DEF AddedStatus, Awaits
    <2>6. QED
      BY <1>4, <1>9, <2>1, <2>2, <2>3, <2>4, <2>5 DEF Travels
  <1>10. ASSUME NEW c \in Calls, Finishes(c) PROVE Carried!Next
    <2>1. /\ Took(c) /\ call[c].at \in Awaits /\ native' = native
          /\ Accepts(c) \/ (said' = said /\ \E at \in Awaits : Goes(c, at))
      BY <1>0, <1>10
      DEF Finishes, Wires, Steered, TurnsListed, TurnsUnsupported, QueueListed, Started, Awaits
    <2>2. QED
      BY <1>6, <1>7, <2>1
  <1>11. ASSUME NEW c \in Calls, PortTimesOut(c) PROVE Carried!Next
    <2>1. \A d \in Calls \ {c} : Still(d)
      BY <1>0, <1>11 DEF PortTimesOut, Says, Still, TypeOK
    <2>2. /\ call' = call /\ native' = native
          /\ said[c] = "nothing" /\ said'[c] = "uncertain"
      BY <1>0, <1>11 DEF PortTimesOut, Says, TypeOK
    <2>3. GivenUp(c)
      BY <2>2 DEF GivenUp, MessageOf, Took, Told
    <2>4. QED
      BY <1>1, <2>1, <2>3
  <1>12. ASSUME NEW c \in Calls, NativeTakes(c) PROVE Carried!Next
    <2>1. /\ \A d \in Calls \ {c} : Still(d)
          /\ native[c] \in {"adding", "steering"} /\ native'[c] \in {"refused", "queued", "shown"}
          /\ call' = call /\ said' = said
      BY <1>0, <1>12 DEF NativeTakes, Still, TypeOK
    <2>2. Taken(c) \/ GivenUp(c)
      BY <2>1 DEF Taken, GivenUp, MessageOf, Took, Told
    <2>3. QED
      BY <1>1, <2>1, <2>2
  <1>13. ASSUME UNCHANGED <<call, said>>,
                \A c \in Calls : native'[c] = native[c] \/ (Took(c) /\ Took(c)')
         PROVE  Carried!Next
    <2>1. \A c \in Calls : MessageOf(c)' = MessageOf(c)
      BY <1>13 DEF MessageOf, Took
    <2>2. QED
      BY <1>2, <1>13, <2>1
  <1>14. CASE AgentSpeaks \/ TurnEnds \/ UserTurn \/ (\E c \in Calls : NativeStarts(c))
    <2>1. \A c \in Calls : native'[c] = native[c] \/ (Took(c) /\ Took(c)')
      <3>1. CASE AgentSpeaks
        BY <1>0, <3>1 DEF AgentSpeaks, TurnTook, Took
      <3>2. CASE TurnEnds \/ UserTurn
        BY <1>0, <3>2 DEF TurnEnds, UserTurn, Took, TypeOK
      <3>3. CASE \E c \in Calls : NativeStarts(c)
        BY <1>0, <3>3 DEF NativeStarts, Took, TypeOK
      <3>4. QED
        BY <1>14, <3>1, <3>2, <3>3
    <2>2. UNCHANGED <<call, said>>
      BY <1>14 DEF AgentSpeaks, TurnEnds, UserTurn, NativeStarts
    <2>3. QED
      BY <1>13, <2>1, <2>2
  <1>15. CASE \/ UNCHANGED vars
              \/ \E q \in Queries : QueryAnswers(q) \/ \E m \in Msgs : QueryReads(q, m)
    <2>1. UNCHANGED <<call, said, native>>
      BY <1>15 DEF vars, QueryAnswers, QueryReads
    <2>2. QED
      BY <1>13, <2>1
  <1>16. CASE Restart
    <2>1. ASSUME NEW c \in Calls PROVE GivenUp(c)
      <3>1. /\ call'[c].at = IF call[c].at \in Awaits THEN "failed" ELSE call[c].at
            /\ native' = native
            /\ \/ said'[c] = said[c]
               \/ said[c] = "nothing" /\ said'[c] = "uncertain"
        BY <1>0, <1>16 DEF Restart, TypeOK
      <3>2. \/ MessageOf(c)' = MessageOf(c)
            \/ MessageOf(c) \in {"unsent", "crossing"} /\ MessageOf(c)' = "lost"
        BY <3>1 DEF MessageOf, Took, Awaits
      <3>3. QED
        BY <3>1, <3>2 DEF GivenUp, Told
    <2>2. QED
      BY <2>1, GivenUpTogether
  <1>17. QED
    BY <1>3, <1>9, <1>10, <1>11, <1>12, <1>14, <1>15, <1>16 DEF Next, Travels, Finishes

(* The bridge keeps what the daemon counts on: a message it refuses for    *)
(* certain is never taken, one it accepts was, and no answer is taken      *)
(* back, through timeouts of the port and restarts of the bridge.          *)
THEOREM TransportProvided == Spec => ImplementsTransport
  <1>1. Init => Carried!Init
    <2> SUFFICES ASSUME Init PROVE Carried!Init
      OBVIOUS
    <2>1. \A c \in Calls : MessageOf(c) = "unsent" /\ said[c] = "nothing"
      BY DEF Init, MessageOf, Took
    <2>2. QED
      BY <2>1 DEF Carried!Init
  <1>2. QED
    BY <1>1, CarriedStep, Invariance, PTL DEF Spec, ImplementsTransport, Carried!Spec
=============================================================================

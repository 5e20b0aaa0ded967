-------------------------------- MODULE Bridge --------------------------------
(***************************************************************************)
(* The messages of the codexapp bridge (src/src/codexapp-entry.js): send,  *)
(* steer and message_status for the threads of one target.  The bridge     *)
(* process keeps its messages in memory; each of its awaits is a call of   *)
(* the native App Server (module NativeApp), which may fail or time out    *)
(* although the server does what was asked.                                *)
(*                                                                         *)
(* The daemon's port (src/src/codexapp-port.js) is here what it is told of *)
(* a call: it may give up while the bridge goes on with the call.          *)
(*                                                                         *)
(* The native thread is external.  What it is taken to do is what the code *)
(* counts on: it takes the next message of its queue when a turn ends, and *)
(* leaves one that was added to an idle thread there until it is started.  *)
(***************************************************************************)
EXTENDS Naturals, Sequences, Functions

CONSTANTS
  Calls,       \* send and steer requests to the bridge
  Queries,     \* message_status requests
  Msgs,        \* message ids
  MaxRestarts  \* bound: restarts of the bridge

ASSUME BridgeAssumption == MaxRestarts \in Nat /\ "none" \notin Msgs

VARIABLES
  messages,    \* memory: state and evidence of each message
  call,        \* memory: what each request awaits, and its message; send and
               \* steer await the baseline of the thread
  query,       \* memory: what each message_status awaits, and what it saw
  said,        \* what the daemon's port was told of each request
  native,      \* external: what became of the message of each request
  turn,        \* external: the thread runs a turn, the agent spoke in it, and the
               \* requests whose messages are in it
  restarts,
  blind,       \* history: calls that could not ask for the running turn
  overheard    \* history: calls that steered a turn the agent had spoken in

bridgeVars == <<messages, call, query>>
historyVars == <<restarts, blind, overheard>>
vars == <<bridgeVars, said, native, turn, historyVars>>

Awaits == {"send", "resume", "add", "turns", "list", "start", "steer", "steering"}
Kinds == {"accepted", "delivered", "executed", "replied", "read"}
NoMessage == [state |-> "none", evidence |-> <<>>]
Turns == [runs : BOOLEAN, spoke : BOOLEAN, of : SUBSET Calls]
NoTurn == [runs |-> FALSE, spoke |-> FALSE, of |-> {}]
NewTurn(S) == [runs |-> TRUE, spoke |-> FALSE, of |-> S]
NoQuery == [msg |-> "none", saw |-> "none"]

TypeOK ==
  /\ messages \in [Msgs -> [state : {"none", "emitted", "accepted", "delivered", "read"},
                            evidence : Seq(Kinds)]]
  /\ call \in [Calls -> [at : {"new", "accepted", "failed"} \cup Awaits,
                         msg : Msgs \cup {"none"}]]
  /\ \A c \in Calls : call[c].at \in Awaits => call[c].msg \in Msgs
  /\ query \in [Queries -> {NoQuery} \cup
                            [msg : Msgs, saw : {"receipt", "reply"}]]
  /\ said \in [Calls -> {"nothing", "accepted", "definitive", "uncertain"}]
  /\ native \in [Calls -> {"none", "adding", "steering", "refused", "queued", "shown", "replied"}]
  /\ turn \in Turns /\ restarts \in 0 .. MaxRestarts
  /\ blind \subseteq Calls /\ overheard \subseteq Calls

Init ==
  /\ messages = [m \in Msgs |-> NoMessage]
  /\ call = [c \in Calls |-> [at |-> "new", msg |-> "none"]]
  /\ query = [q \in Queries |-> NoQuery]
  /\ said = [c \in Calls |-> "nothing"]
  /\ native = [c \in Calls |-> "none"]
  /\ turn \in {NoTurn, NewTurn({})}
  /\ restarts = 0 /\ blind = {} /\ overheard = {}
-----------------------------------------------------------------------------
Goes(c, at) == call' = [call EXCEPT ![c].at = at]

(* The port hears one answer (settled of UnixControlClient.call): one that *)
(* came after it gave up would let it take back what it told the daemon.   *)
SaysAgain(c, answer) == said' = [said EXCEPT ![c] = answer]
Says(c, answer) ==
  said' = [said EXCEPT ![c] = IF @ = "nothing" THEN answer ELSE @]

(* enqueueMessage up to its first await.  A message id is taken for good,  *)
(* also by a request that fails.                                           *)
EnqueueTwice(c, m, method) ==
  /\ call[c].at = "new"
  /\ messages' = [messages EXCEPT ![m] = [NoMessage EXCEPT !.state = "emitted"]]
  /\ call' = [call EXCEPT ![c] = [at |-> method, msg |-> m]]
  /\ UNCHANGED <<query, said, native, turn, historyVars>>

Enqueue(c, m, method) ==
  /\ call[c].at = "new" /\ messages[m].state = "none"
  /\ messages' = [messages EXCEPT ![m] = [NoMessage EXCEPT !.state = "emitted"]]
  /\ call' = [call EXCEPT ![c] = [at |-> method, msg |-> m]]
  /\ UNCHANGED <<query, said, native, turn, historyVars>>

(* A known id and an unknown scope are refused, but not definitively for   *)
(* the port; a sender other than the service is.                           *)
EnqueueRefused(c, stranger) ==
  /\ call[c].at = "new"
  /\ Goes(c, "failed") /\ Says(c, IF stranger THEN "definitive" ELSE "uncertain")
  /\ UNCHANGED <<messages, query, native, turn, historyVars>>

Crosses(c, wire) == native' = [native EXCEPT ![c] = wire]

(* The baseline of the thread, which may be an empty one, is there: a      *)
(* steer crosses at once.                                                  *)
BaselineRead(c) ==
  /\ call[c].at = "steer"
  /\ Goes(c, "steering") /\ Crosses(c, "steering")
  /\ UNCHANGED <<messages, query, said, turn, historyVars>>

(* A send reads the status as well, and resumes a thread not loaded.       *)
StatusRead(c, loaded) ==
  /\ call[c].at = "send"
  /\ IF loaded THEN Goes(c, "add") /\ Crosses(c, "adding")
     ELSE Goes(c, "resume") /\ UNCHANGED native
  /\ UNCHANGED <<messages, query, said, turn, historyVars>>

(* A thread that another process writes is busy, and nothing has crossed.  *)
Resumed(c, busy) ==
  /\ call[c].at = "resume"
  /\ IF busy THEN Goes(c, "failed") /\ Says(c, "definitive") /\ UNCHANGED native
     ELSE Goes(c, "add") /\ Crosses(c, "adding") /\ UNCHANGED said
  /\ UNCHANGED <<messages, query, turn, historyVars>>

Took(c) == native[c] \in {"queued", "shown", "replied"}

(* The end of enqueueMessage, whatever message_status noted meanwhile.     *)
Accepts(c) ==
  LET m == call[c].msg IN
  /\ Goes(c, "accepted") /\ Says(c, "accepted")
  /\ messages' = [messages EXCEPT
       ![m] = [state |-> "accepted", evidence |-> Append(@.evidence, "accepted")]]

Steered(c) ==
  /\ call[c].at = "steering" /\ Took(c)
  /\ Accepts(c)
  /\ UNCHANGED <<query, native, turn, historyVars>>

(* Added, the status is read again.  It may say active where no turn runs: *)
(* the turns tell.  A server without them leaves the status alone to tell. *)
AddedStatusTrusts(c, active) ==
  /\ call[c].at = "add" /\ Took(c)
  /\ IF active THEN Accepts(c) ELSE Goes(c, "list") /\ UNCHANGED <<messages, said>>
  /\ UNCHANGED <<query, native, turn, historyVars>>

AddedStatus(c, active) ==
  /\ call[c].at = "add" /\ Took(c)
  /\ Goes(c, IF active THEN "turns" ELSE "list")
  /\ UNCHANGED <<messages, query, said, native, turn, historyVars>>

TurnsListed(c) ==
  /\ call[c].at = "turns"
  /\ IF turn.runs THEN Accepts(c) ELSE Goes(c, "list") /\ UNCHANGED <<messages, said>>
  /\ UNCHANGED <<query, native, turn, historyVars>>

TurnsUnsupported(c) ==
  /\ call[c].at = "turns"
  /\ Accepts(c)
  /\ blind' = blind \cup {c}
  /\ UNCHANGED <<query, native, turn, restarts, overheard>>

QueueListed(c) ==
  /\ call[c].at = "list"
  /\ IF native[c] = "queued" THEN Goes(c, "start") /\ UNCHANGED <<messages, said>>
     ELSE Accepts(c)
  /\ UNCHANGED <<query, native, turn, historyVars>>

(* The submission was started, or a turn that came first will claim it.    *)
Started(c) ==
  /\ call[c].at = "start" /\ (native[c] # "queued" \/ turn.runs)
  /\ Accepts(c)
  /\ UNCHANGED <<query, native, turn, historyVars>>

(* Any native call may end in an error, or in the timeout of the call.     *)
FailsBusy(c) ==
  /\ call[c].at \in Awaits
  /\ Goes(c, "failed")
  /\ Says(c, IF call[c].at = "start" THEN "definitive" ELSE "uncertain")
  /\ UNCHANGED <<messages, query, native, turn, historyVars>>

Fails(c) ==
  /\ call[c].at \in Awaits
  /\ Goes(c, "failed") /\ Says(c, "uncertain")
  /\ UNCHANGED <<messages, query, native, turn, historyVars>>

(* UnixControlClient.call: the port gives up waiting.                      *)
PortTimesOut(c) ==
  /\ call[c].at \in Awaits /\ said[c] = "nothing"
  /\ Says(c, "uncertain")
  /\ UNCHANGED <<bridgeVars, native, turn, historyVars>>
-----------------------------------------------------------------------------
(* What the thread shows of a message: nothing, its receipt, or a reply.   *)
(* Any agent message of the receipt's turn counts as one.                  *)
Shows(m) ==
  LET sent == {c \in Calls : call[c].msg = m}
      seen == {native[c] : c \in sent}
  IN CASE "replied" \in seen -> "reply"
       [] "replied" \notin seen /\ "shown" \in seen ->
            IF sent \cap overheard = {} THEN "receipt" ELSE "reply"
       [] OTHER -> "nothing"

(* messageStatus: it reads the thread, and completes the evidence when the *)
(* answer is there; one that fails, or sees no receipt, changes nothing.   *)
QueryReads(q, m) ==
  /\ query[q] = NoQuery /\ messages[m].state # "none" /\ Shows(m) # "nothing"
  /\ query' = [query EXCEPT ![q] = [msg |-> m, saw |-> Shows(m)]]
  /\ UNCHANGED <<messages, call, said, native, turn, historyVars>>

(* Each kind of evidence is pushed unless it is there.                     *)
Noted(e, k) == IF k \in Range(e) THEN e ELSE Append(e, k)

CompletedAgain(r, saw) ==
  [evidence |-> r.evidence \o
     IF saw = "reply" THEN <<"delivered", "executed", "replied", "read">>
                      ELSE <<"delivered">>,
   state |-> IF saw = "reply" THEN "read" ELSE "delivered"]

Completed(r, saw) ==
  LET received == Noted(r.evidence, "delivered")
      executed == Noted(received, "executed")
      replied == Noted(executed, "replied")
  IN IF saw = "reply" THEN [evidence |-> Noted(replied, "read"), state |-> "read"]
                      ELSE [evidence |-> received, state |-> "delivered"]

QueryAnswers(q) ==
  /\ query[q] # NoQuery
  /\ messages' = [messages EXCEPT ![query[q].msg] = Completed(@, query[q].saw)]
  /\ query' = [query EXCEPT ![q] = NoQuery]
  /\ UNCHANGED <<call, said, native, turn, historyVars>>
-----------------------------------------------------------------------------
(* External: the native thread.                                            *)
NativeTakes(c) ==
  /\ native[c] \in {"adding", "steering"}
  /\ \/ native' = [native EXCEPT ![c] = "refused"] /\ UNCHANGED <<turn, overheard>>
     \/ /\ native[c] = "adding"
        /\ native' = [native EXCEPT ![c] = "queued"] /\ UNCHANGED <<turn, overheard>>
     \/ /\ native[c] = "steering" /\ turn.runs
        /\ native' = [native EXCEPT ![c] = "shown"]
        /\ turn' = [turn EXCEPT !.of = @ \cup {c}]
        /\ overheard' = IF turn.spoke THEN overheard \cup {c} ELSE overheard
  /\ UNCHANGED <<bridgeVars, said, restarts, blind>>

NativeStarts(c) ==
  /\ call[c].at = "start" /\ native[c] = "queued" /\ ~turn.runs
  /\ native' = [native EXCEPT ![c] = "shown"] /\ turn' = NewTurn({c})
  /\ UNCHANGED <<bridgeVars, said, historyVars>>

AgentSpeaks ==
  /\ turn.runs
  /\ turn' = [turn EXCEPT !.spoke = TRUE]
  /\ native' = [c \in Calls |-> IF c \in turn.of THEN "replied" ELSE native[c]]
  /\ UNCHANGED <<bridgeVars, said, historyVars>>

TurnEnds ==
  LET queue == {c \in Calls : native[c] = "queued"} IN
  /\ turn.runs
  /\ IF queue = {} THEN turn' = NoTurn /\ UNCHANGED native
     ELSE \E c \in queue :
            turn' = NewTurn({c}) /\ native' = [native EXCEPT ![c] = "shown"]
  /\ UNCHANGED <<bridgeVars, said, historyVars>>

UserTurn ==
  /\ ~turn.runs /\ turn' = NewTurn({})
  /\ UNCHANGED <<bridgeVars, said, native, historyVars>>
-----------------------------------------------------------------------------
(* The bridge dies and is started again: its memory is lost, what it wrote *)
(* to the native server is not.                                            *)
Restart ==
  /\ restarts < MaxRestarts /\ restarts' = restarts + 1
  /\ messages' = [m \in Msgs |-> NoMessage]
  /\ call' = [c \in Calls |-> IF call[c].at \in Awaits THEN [call[c] EXCEPT !.at = "failed"]
                              ELSE call[c]]
  /\ said' = [c \in Calls |-> IF call[c].at \in Awaits /\ said[c] = "nothing"
                              THEN "uncertain" ELSE said[c]]
  /\ query' = [q \in Queries |-> NoQuery]
  /\ UNCHANGED <<native, turn, blind, overheard>>

Next ==
  \/ \E c \in Calls :
       \/ \E m \in Msgs, method \in {"send", "steer"} : Enqueue(c, m, method)
       \/ \E stranger \in BOOLEAN : EnqueueRefused(c, stranger)
       \/ BaselineRead(c) \/ Steered(c)
       \/ \E loaded \in BOOLEAN : StatusRead(c, loaded)
       \/ \E busy \in BOOLEAN : Resumed(c, busy)
       \/ \E active \in BOOLEAN : AddedStatus(c, active)
       \/ TurnsListed(c) \/ TurnsUnsupported(c) \/ QueueListed(c) \/ Started(c)
       \/ Fails(c) \/ PortTimesOut(c)
       \/ NativeTakes(c) \/ NativeStarts(c)
  \/ \E q \in Queries :
       \/ \E m \in Msgs : QueryReads(q, m)
       \/ QueryAnswers(q)
  \/ AgentSpeaks \/ TurnEnds \/ UserTurn
  \/ Restart

Spec == Init /\ [][Next]_vars
-----------------------------------------------------------------------------
(* What the port is told is true for good, also of calls it gave up on:    *)
(* after a definitive refusal nothing has crossed or will (so the daemon   *)
(* may send again), an accepted message was taken by the server, and only  *)
(* a restart of the bridge lets a message cross twice.                     *)
AnswerIsTrue ==
  /\ \A c \in Calls :
       /\ said[c] = "definitive" => native[c] = "none" /\ call[c].at = "failed"
       /\ said[c] = "accepted" => Took(c)
  /\ restarts = 0 =>
       \A c, d \in {e \in Calls : native[e] # "none"} : call[c].msg = call[d].msg => c = d

(* A message the bridge accepted does not lie in the queue of an idle      *)
(* thread, where nobody would start it: whenever turns end or other        *)
(* messages are started between the calls of send.  A server that cannot   *)
(* list its turns is taken at its word.                                    *)
NotStranded ==
  \A c \in Calls :
    call[c].at = "accepted" /\ native[c] = "queued" => turn.runs \/ c \in blind

(* The evidence of a message the thread shows nothing, a receipt, a reply  *)
(* of, and where its kinds come; acceptance may come anywhere.             *)
AllSeen(saw) ==
  CASE saw = "reply" -> {"delivered", "executed", "replied", "read"}
    [] saw = "receipt" -> {"delivered"}
    [] saw = "nothing" -> {}

Rung == [accepted |-> 0, delivered |-> 1, executed |-> 2, replied |-> 3, read |-> 4]

(* The evidence the daemon reconciles by: each kind once, in the order in  *)
(* which a message advances, and never of what the thread does not show,   *)
(* although message_status runs concurrently with itself and with send.    *)
(* A reply is an answer to the message, unless that steered a turn in      *)
(* which the agent had already spoken.                                     *)
EvidenceHonest ==
  \A m \in Msgs :
    LET e == messages[m].evidence
        seen == Range(e) \ {"accepted"}
    IN /\ \A i, j \in DOMAIN e : i < j =>
            e[i] # e[j] /\ (e[j] = "accepted" \/ Rung[e[i]] < Rung[e[j]])
       /\ seen \in {{}, AllSeen("receipt"), AllSeen("reply")}
       /\ seen \subseteq AllSeen(Shows(m))
       /\ "executed" \in seen =>
            \E c \in Calls : call[c].msg = m /\ (native[c] = "replied" \/ c \in overheard)
       /\ "accepted" \in Range(e) =>
            \E c \in Calls : call[c].msg = m /\ call[c].at = "accepted"
       /\ messages[m].state \in {"none", "emitted"} \cup Range(e)
-----------------------------------------------------------------------------
(* The bridge implements the transport the daemon counts on.               *)
MessageOf(c) ==
  CASE Took(c) -> "taken"
    [] native[c] = "refused" \/ (native[c] = "none" /\ call[c].at = "failed") -> "lost"
    [] native[c] = "none" /\ call[c].at = "new" -> "unsent"
    [] OTHER -> "crossing"

Carried == INSTANCE Transport WITH
  Sends <- Calls,
  message <- [c \in Calls |-> MessageOf(c)],
  told <- [c \in Calls |-> IF said[c] = "definitive" THEN "refused" ELSE said[c]]

(* Every step of the bridge, its restarts and what the native server does  *)
(* meanwhile is one the transport allows.                                  *)
ImplementsTransport == Carried!Spec
=============================================================================

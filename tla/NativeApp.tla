------------------------------ MODULE NativeApp -------------------------------
(***************************************************************************)
(* The bridge's connection to one native App Server: the classes           *)
(* NativeAppServer and UnixWebSocketJsonRpc of src/src/codexapp-entry.js,  *)
(* with the subagents, whose results come over it.                         *)
(*                                                                         *)
(* Every request first initializes the server unless that was done, then   *)
(* makes its own calls one after another.  The first call of all opens the *)
(* socket and awaits the connection and the websocket upgrade; any other   *)
(* call finds a socket, whatever its state, and writes its frame at once.  *)
(* The timer of a call runs from its frame on.                             *)
(*                                                                         *)
(* The server is external: it may answer or not, end the connection, and   *)
(* refuse an upgrade, as it does when a frame came before it.              *)
(***************************************************************************)
EXTENDS Naturals, FiniteSets

CONSTANTS
  Creates,     \* create_subagent requests; the child has the same name
  Ephemeral,   \* those whose thread keeps no history
  Reads,       \* read_subagent_result requests
  Of,          \* the child each of them asks about
  MaxFaults    \* bound: restarts of the bridge and failures of the connection

ASSUME NativeAppAssumption ==
  /\ Ephemeral \subseteq Creates /\ Creates \cap Reads = {}
  /\ Of \in [Reads -> Creates] /\ MaxFaults \in Nat

Requests == Creates \cup Reads

VARIABLES
  socket,      \* memory: the state of the socket, once there is one
  early,       \* a frame was written before the upgrade request
  initialized, \* memory: an initialize call was answered
  request,     \* memory: what each request awaits, and of which call
  threads,     \* memory: ephemeralThreads
  results,     \* memory: completedTurns
  greeted,     \* external: the server was initialized on this connection
  child,       \* external: how far a child has come
  notices,     \* external: turn/completed notifications on the connection
  faults,
  missed       \* history: children whose notification had no connection

memory == <<socket, early, initialized, request, threads, results>>
vars == <<memory, greeted, child, notices, faults, missed>>

Sockets == {"none", "opening", "upgrading", "open", "refused", "closed"}
Calls == {"initialize", "thread", "turn", "result"}
Awaits == {"connect", "upgrade", "answer"}
New == [at |-> "new", call |-> "initialize"]

TypeOK ==
  /\ socket \in Sockets /\ early \in BOOLEAN /\ initialized \in BOOLEAN
  /\ request \in [Requests -> [at : {"new", "done", "failed"} \cup Awaits, call : Calls]]
  /\ threads \subseteq Ephemeral /\ results \subseteq Creates
  /\ greeted \in BOOLEAN
  /\ child \in [Creates -> {"none", "thread", "turn", "over"}]
  /\ notices \subseteq Creates /\ missed \subseteq Creates
  /\ faults \in 0 .. MaxFaults

Init ==
  /\ socket = "none" /\ early = FALSE /\ initialized = FALSE
  /\ request = [r \in Requests |-> New]
  /\ threads = {} /\ results = {}
  /\ greeted = FALSE
  /\ child = [c \in Creates |-> "none"]
  /\ notices = {} /\ missed = {} /\ faults = 0
-----------------------------------------------------------------------------
Goes(r, at, call) == request' = [request EXCEPT ![r] = [at |-> at, call |-> call]]

(* UnixWebSocketJsonRpc.call, and one that connects again.                 *)
CallsAfresh(r, call) ==
  IF socket \in {"none", "closed"}
  THEN Goes(r, "connect", call) /\ socket' = "opening" /\ UNCHANGED early
  ELSE /\ Goes(r, "answer", call) /\ UNCHANGED socket
       /\ early' = (early \/ socket = "opening")

CallsNative(r, call) ==
  IF socket = "none"
  THEN Goes(r, "connect", call) /\ socket' = "opening" /\ UNCHANGED early
  ELSE /\ Goes(r, "answer", call) /\ UNCHANGED socket
       /\ early' = (early \/ socket = "opening")

(* What a request does once it is initialized: createSubagent starts a     *)
(* thread; readSubagentResult knows a result it was notified of, knows     *)
(* that an ephemeral thread has no other, and reads the history otherwise. *)
Proceeds(r) ==
  IF r \in Creates THEN CallsNative(r, "thread")
  ELSE IF Of[r] \in results \cup threads
  THEN Goes(r, "done", "result") /\ UNCHANGED <<socket, early>>
  ELSE CallsNative(r, "result")

Begins(r) ==
  /\ request[r].at = "new"
  /\ r \in Reads => child[Of[r]] \in {"turn", "over"} /\ request[Of[r]].at = "done"
  /\ IF initialized THEN Proceeds(r) ELSE CallsNative(r, "initialize")
  /\ UNCHANGED <<initialized, threads, results, greeted, child, notices, faults, missed>>
-----------------------------------------------------------------------------
(* connect: the socket connects, and the upgrade is sent; frames written   *)
(* before go out first.                                                    *)
Connects ==
  /\ socket = "opening"
  /\ socket' = "upgrading"
  /\ request' = [r \in Requests |-> IF request[r].at = "connect"
                                    THEN [request[r] EXCEPT !.at = "upgrade"] ELSE request[r]]
  /\ UNCHANGED <<early, initialized, threads, results, greeted, child, notices, faults, missed>>

Upgraded ==
  /\ socket = "upgrading"
  /\ socket' = "open"
  /\ request' = [r \in Requests |-> IF request[r].at = "upgrade"
                                    THEN [request[r] EXCEPT !.at = "answer"] ELSE request[r]]
  /\ UNCHANGED <<early, initialized, threads, results, greeted, child, notices, faults, missed>>

Faulty == faults < MaxFaults /\ faults' = faults + 1

(* handshakeError fails the caller that waits for the upgrade, no other.   *)
UpgradeRefused ==
  /\ socket = "upgrading"
  /\ IF early THEN UNCHANGED faults ELSE Faulty
  /\ socket' = "refused"
  /\ request' = [r \in Requests |-> IF request[r].at = "upgrade"
                                    THEN [request[r] EXCEPT !.at = "failed"] ELSE request[r]]
  /\ UNCHANGED <<early, initialized, threads, results, greeted, child, notices, missed>>

(* fail: every pending call is rejected.  A caller that waits for the      *)
(* connection is told by the socket; one that waits for the upgrade is not *)
(* told at all.                                                            *)
RejectedNot == request
Rejected ==
  [r \in Requests |-> IF request[r].at \in {"answer", "connect"}
                      THEN [request[r] EXCEPT !.at = "failed"] ELSE request[r]]

Closes ==
  /\ socket \in {"opening", "upgrading", "open", "refused"}
  /\ IF socket = "refused" THEN UNCHANGED faults ELSE Faulty
  /\ socket' = "closed"
  /\ request' = Rejected
  /\ notices' = {} /\ missed' = missed \cup notices
  /\ greeted' = FALSE
  /\ UNCHANGED <<early, initialized, threads, results, child>>

(* The timer of a call; its late answer is dropped.                        *)
TimesOut(r) ==
  /\ request[r].at = "answer"
  /\ Goes(r, "failed", request[r].call)
  /\ UNCHANGED <<socket, early, initialized, threads, results, greeted, child,
                 notices, faults, missed>>
-----------------------------------------------------------------------------
Answered(r, call) == socket = "open" /\ request[r] = [at |-> "answer", call |-> call]

(* A second initialize of two that overlap may be refused.                 *)
Initializes(r, ok) ==
  /\ Answered(r, "initialize")
  /\ greeted' = TRUE
  /\ IF ok THEN initialized' = TRUE /\ Proceeds(r)
     ELSE Goes(r, "failed", "initialize") /\ UNCHANGED <<initialized, socket, early>>
  /\ UNCHANGED <<threads, results, child, notices, faults, missed>>

ThreadStarted(r) ==
  /\ Answered(r, "thread")
  /\ child' = [child EXCEPT ![r] = "thread"]
  /\ threads' = threads \cup ({r} \cap Ephemeral)
  /\ CallsNative(r, "turn")
  /\ UNCHANGED <<initialized, results, greeted, notices, faults, missed>>

(* The server starts the turn it was asked for, also when the caller gave  *)
(* up; its answer and the notification of its end come in either order.    *)
TurnRuns(r) ==
  /\ request[r].call = "turn" /\ child[r] = "thread"
  /\ child' = [child EXCEPT ![r] = "turn"]
  /\ UNCHANGED <<memory, greeted, notices, faults, missed>>

TurnStarted(r) ==
  /\ Answered(r, "turn") /\ child[r] \in {"turn", "over"}
  /\ Goes(r, "done", "turn")
  /\ UNCHANGED <<socket, early, initialized, threads, results, greeted, child,
                 notices, faults, missed>>

ResultRead(r) ==
  /\ Answered(r, "result")
  /\ Goes(r, IF Of[r] \in Ephemeral THEN "failed" ELSE "done", "result")
  /\ UNCHANGED <<socket, early, initialized, threads, results, greeted, child,
                 notices, faults, missed>>

AnyCallFails(r) ==
  /\ socket = "open" /\ request[r].at = "answer"
  /\ Goes(r, "failed", request[r].call)
  /\ UNCHANGED <<socket, early, initialized, threads, results, greeted, child,
                 notices, faults, missed>>
-----------------------------------------------------------------------------
TurnEnds(c) ==
  /\ child[c] = "turn"
  /\ child' = [child EXCEPT ![c] = "over"]
  /\ IF socket = "open" THEN notices' = notices \cup {c} /\ UNCHANGED missed
     ELSE missed' = missed \cup {c} /\ UNCHANGED notices
  /\ UNCHANGED <<memory, greeted, faults>>

(* onNotification; and one that waits until the creation was answered.     *)
NotifiedOfKnown(c) ==
  /\ c \in notices
  /\ notices' = notices \ {c}
  /\ results' = results \cup ({c} \cap {r \in Creates : request[r].at = "done"})
  /\ UNCHANGED <<socket, early, initialized, request, threads, greeted, child, faults, missed>>

Notified(c) ==
  /\ c \in notices
  /\ notices' = notices \ {c}
  /\ results' = results \cup {c}
  /\ UNCHANGED <<socket, early, initialized, request, threads, greeted, child, faults, missed>>

(* The bridge is started again, with a new connection.                     *)
Restart ==
  /\ Faulty
  /\ socket' = "none" /\ early' = FALSE /\ initialized' = FALSE /\ greeted' = FALSE
  /\ request' = [r \in Requests |-> IF request[r].at \in Awaits
                                    THEN [request[r] EXCEPT !.at = "failed"] ELSE request[r]]
  /\ threads' = {} /\ results' = {} /\ notices' = {}
  /\ missed' = missed \cup {c \in Creates : child[c] # "none"}
  /\ UNCHANGED child

Settles(r) ==
  \/ TimesOut(r) \/ AnyCallFails(r)
  \/ \E ok \in BOOLEAN : Initializes(r, ok)
  \/ r \in Creates /\ (ThreadStarted(r) \/ TurnRuns(r) \/ TurnStarted(r))
  \/ r \in Reads /\ ResultRead(r)

Next ==
  \/ \E r \in Requests : Begins(r) \/ Settles(r)
  \/ Connects \/ Upgraded \/ UpgradeRefused \/ Closes
  \/ \E c \in Creates : TurnEnds(c) \/ Notified(c)
  \/ Restart

(* The timer of a call and the connecting of a local socket end; nothing   *)
(* bounds the wait for the upgrade.                                        *)
Spec ==
  /\ Init /\ [][Next]_vars
  /\ \A r \in Requests : WF_vars(Settles(r))
  /\ WF_vars(Connects \/ (socket = "opening" /\ Closes))
-----------------------------------------------------------------------------
(* A live connection carries a call other than initialize only once its    *)
(* server was initialized, although two requests may initialize at once    *)
(* and a connection may be lost at any time.                               *)
InitializedFirst ==
  \A r \in Requests :
    socket # "closed" /\ request[r].at \in Awaits /\ request[r].call # "initialize"
      => greeted

(* The result of an ephemeral child, which no history has, reaches the     *)
(* bridge also when its turn ends before the creation is answered; it is   *)
(* missed only with the connection or the process.                         *)
ResultReaches ==
  \A c \in Creates : child[c] = "over" => c \in results \cup notices \cup missed

(* A request ends, whatever becomes of the connection, unless it is the    *)
(* one that waits for the upgrade.                                         *)
RequestEnds ==
  \A r \in Requests :
    request[r].at \in {"connect", "answer"}
      ~> request[r].at \in {"done", "failed", "upgrade"}
=============================================================================

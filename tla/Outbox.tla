------------------------------- MODULE Outbox -------------------------------
(***************************************************************************)
(* What the daemon's outbox promises, one intent at a time and without a   *)
(* word about tasks, attempts, crashes or the transport: a message is      *)
(* taken by the native server at most once, a message reported dropped is  *)
(* never taken, and one whose outcome is uncertain is never tried again.   *)
(***************************************************************************)
EXTENDS FiniteSets

CONSTANT Intents

VARIABLES
  phase,  \* where the daemon's record of the intent stands
  taken   \* the intents whose message the native server has queued

vars == <<phase, taken>>

Phases == {"new", "pending", "crossing", "accepted", "uncertain", "dropped"}

TypeOK ==
  /\ phase \in [Intents -> Phases]
  /\ taken \in SUBSET Intents

Init ==
  /\ phase = [i \in Intents |-> "new"]
  /\ taken = {}

Become(i, p) == phase' = [phase EXCEPT ![i] = p]

(* The target cannot take the message now: it is kept for later.           *)
Postpone(i) ==
  /\ phase[i] = "new"
  /\ Become(i, "pending")
  /\ UNCHANGED taken

(* The message starts to cross to the native server.                       *)
Cross(i) ==
  /\ phase[i] \in {"new", "pending"}
  /\ Become(i, "crossing")
  /\ UNCHANGED taken

(* The native server queues it, perhaps after the daemon gave up waiting.  *)
Take(i) ==
  /\ phase[i] \in {"crossing", "uncertain"}
  /\ i \notin taken
  /\ taken' = taken \cup {i}
  /\ UNCHANGED phase

Accept(i) ==
  /\ phase[i] = "crossing"
  /\ i \in taken
  /\ Become(i, "accepted")
  /\ UNCHANGED taken

(* The native server said it will not take it: only then may it be kept    *)
(* for another attempt.                                                    *)
Return(i) ==
  /\ phase[i] = "crossing"
  /\ i \notin taken
  /\ Become(i, "pending")
  /\ UNCHANGED taken

(* A restart, or a target that failed, settles several intents in one go. *)
BecomeAll(S, p) ==
  phase' = [i \in Intents |-> IF i \in S THEN p ELSE phase[i]]

Doubt(S) ==
  /\ \A i \in S : phase[i] = "crossing"
  /\ BecomeAll(S, "uncertain")
  /\ UNCHANGED taken

Drop(S) ==
  /\ \A i \in S : phase[i] \in {"new", "pending", "crossing"}
  /\ S \cap taken = {}
  /\ BecomeAll(S, "dropped")
  /\ UNCHANGED taken

Next ==
  \/ \E i \in Intents :
       Postpone(i) \/ Cross(i) \/ Take(i) \/ Accept(i) \/ Return(i)
  \/ \E S \in SUBSET Intents : Doubt(S) \/ Drop(S)

Spec == Init /\ [][Next]_vars
=============================================================================

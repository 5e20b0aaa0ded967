------------------------------ MODULE Protocol ------------------------------
(***************************************************************************)
(* The vocabulary the components share: the session states a target can    *)
(* report, what an intent may ask for, and the tables the daemon consults. *)
(* Source: src/src/protocol.js and the tables at the top of                *)
(* src/src/daemon.js.                                                      *)
(***************************************************************************)
EXTENDS Naturals

(* What a target session can report; anything else is read as "unknown".   *)
SendEligible == {"idle", "interrupted", "waiting_for_input", "stopped"}
DeferredSession == {"working", "stopping", "starting"}
FailClosedSession == {"disconnected", "failed", "unknown"}
SessionStates == SendEligible \cup DeferredSession \cup FailClosedSession

SendModes == {"idle_only", "working_allowed"}
BusyPolicies == {"defer", "skip"}
Operations == {"queue", "steer", "interrupt"}

(* One answer of session_status: the state, whether the user is typing,    *)
(* and whether the active turn is the turn a steer intent names.           *)
Observation == [state : SessionStates, input : BOOLEAN, turn : BOOLEAN]

(* The evidence a record may advance by, one rung at a time.               *)
EvidenceNext ==
  [unknown_delivery |-> "delivered", accepted |-> "delivered",
   delivered |-> "executed", executed |-> "replied",
   replied |-> "read", read |-> "consumed"]

(* The delivery states daemon.js gives a record; "absent" is no record.    *)
Unresolved == {"emitted", "sending"}
Proved == {"delivered", "executed", "replied", "read", "consumed"}
Dropped == {"failed", "expired", "cancelled"}
DeliveryStates ==
  {"absent", "deferred", "accepted", "unknown_delivery"}
    \cup Unresolved \cup Proved \cup Dropped
=============================================================================

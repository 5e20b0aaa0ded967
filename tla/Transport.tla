------------------------------ MODULE Transport ------------------------------
(***************************************************************************)
(* What the daemon and the bridge agree on about a send, without a word    *)
(* about sockets, threads, turns or processes: the message of a send that  *)
(* is refused is never taken by the native server, one that is accepted    *)
(* was, and one the daemon gave up waiting for may still be.  Every send   *)
(* is told one answer and the answer stands.                               *)
(*                                                                         *)
(* The daemon (module Delivery) and the bridge (module Bridge) are each    *)
(* shown to implement it, one by what it takes the other side to do and    *)
(* the other by what it does.                                              *)
(***************************************************************************)
CONSTANT Sends

VARIABLES
  message,  \* what became of the message of each send
  told      \* what the daemon was told of it

vars == <<message, told>>

TypeOK ==
  /\ message \in [Sends -> {"unsent", "crossing", "taken", "lost"}]
  /\ told \in [Sends -> {"nothing", "accepted", "refused", "uncertain"}]

Init ==
  /\ message = [s \in Sends |-> "unsent"]
  /\ told = [s \in Sends |-> "nothing"]

Cross(s) ==
  /\ message[s] = "unsent"
  /\ message' = [message EXCEPT ![s] = "crossing"]
  /\ UNCHANGED told

(* The native server takes the message, whatever the daemon was told.      *)
Take(s) ==
  /\ message[s] = "crossing"
  /\ message' = [message EXCEPT ![s] = "taken"]
  /\ UNCHANGED told

MayAccept(s) == message[s] = "taken"
Accept(s) ==
  /\ told[s] = "nothing" /\ MayAccept(s)
  /\ told' = [told EXCEPT ![s] = "accepted"]
  /\ UNCHANGED message

(* A definitive refusal takes the message out of the server's reach.       *)
MayRefuse(s) == message[s] \in {"unsent", "crossing"}
Refuse(s) ==
  /\ told[s] = "nothing" /\ MayRefuse(s)
  /\ told' = [told EXCEPT ![s] = "refused"]
  /\ message' = [message EXCEPT ![s] = "lost"]

(* Any sends may be given up at any time, several at once by a restart,    *)
(* and messages the server did not take may vanish.                        *)
GiveUp(S, L) ==
  /\ \A s \in S : told[s] = "nothing"
  /\ \A s \in L : message[s] \in {"unsent", "crossing"}
  /\ told' = [s \in Sends |-> IF s \in S THEN "uncertain" ELSE told[s]]
  /\ message' = [s \in Sends |-> IF s \in L THEN "lost" ELSE message[s]]

Next ==
  \/ \E s \in Sends : Cross(s) \/ Take(s) \/ Accept(s) \/ Refuse(s)
  \/ \E S, L \in SUBSET Sends : GiveUp(S, L)

Spec == Init /\ [][Next]_vars
=============================================================================

------------------------------ MODULE Supervisor ------------------------------
(***************************************************************************)
(* The process supervisor: HooksSupervisor of src/src/supervisor.js and    *)
(* the program around it, src/src/supervisor-entry.js, with its two        *)
(* children, codexapp and then hooksd.                                     *)
(*                                                                         *)
(* The program awaits start() before it listens for signals, and listens   *)
(* for each of them once: a signal during the start, and the second of a   *)
(* kind, end the process at once.  Nothing watches a child after its       *)
(* start, so a child that exits later leaves the state at ready.           *)
(***************************************************************************)
EXTENDS Naturals, FiniteSets

CONSTANT Signals    \* the signals listened for

Children == {"codexapp", "hooksd"}

VARIABLES
  state,     \* HooksSupervisor.state
  pc,        \* what the supervisor awaits, and of which child
  handle,    \* the children whose handle HooksSupervisor holds
  error,     \* stopChildren has an error to throw
  stopping,  \* shutdown was called
  heard,     \* the signals whose one listener has run
  exit,      \* how the process ended
  child,     \* external: the processes
  asked,     \* the children sent SIGTERM
  killed     \* the children sent SIGKILL

process == <<state, pc, handle, error, stopping, heard, exit>>
vars == <<process, child, asked, killed>>

States == {"starting_codexapp", "starting_hooksd", "ready", "stopping", "stopped", "failed"}
Steps == {"spawn", "readyLine", "portVerify", "verify", "cleanup", "stop", "exited", "idle", "over"}

TypeOK ==
  /\ state \in States
  /\ pc \in [do : Steps, of : Children]
  /\ handle \subseteq Children /\ error \in BOOLEAN /\ stopping \in BOOLEAN
  /\ heard \subseteq Signals
  /\ exit \in {"running", "0", "1", "signal"}
  /\ child \in [Children -> {"none", "alive", "gone"}]
  /\ asked \subseteq Children /\ killed \subseteq Children

At(do, c) == exit = "running" /\ pc = [do |-> do, of |-> c]
Awaits(do, c) == pc' = [do |-> do, of |-> c]

Init ==
  /\ state = "starting_codexapp" /\ pc = [do |-> "spawn", of |-> "codexapp"]
  /\ handle = {} /\ error = FALSE /\ stopping = FALSE /\ heard = {}
  /\ exit = "running"
  /\ child = [c \in Children |-> "none"]
  /\ asked = {} /\ killed = {}
-----------------------------------------------------------------------------
(* A start that fails stops what was started, hooksd first.                *)
StartFails ==
  /\ state' = "failed" /\ Awaits("stop", "hooksd")
  /\ UNCHANGED <<handle, error, stopping, heard, exit>>

(* startProcess: spawn, which may fail.                                    *)
Spawns(c) ==
  /\ At("spawn", c)
  /\ UNCHANGED <<asked, killed>>
  /\ \/ /\ child' = [child EXCEPT ![c] = "alive"]
        /\ Awaits("readyLine", c)
        /\ UNCHANGED <<state, handle, error, stopping, heard, exit>>
     \/ StartFails /\ UNCHANGED child

(* The handle of codexapp is kept once its port was verified; it is        *)
(* verified again before hooksd is started.                                *)
Ready(c) ==
  /\ At("readyLine", c)
  /\ IF c = "codexapp" THEN Awaits("portVerify", c) /\ UNCHANGED <<state, handle>>
     ELSE /\ Awaits("idle", c)
          /\ state' = "ready" /\ handle' = handle \cup {c}
  /\ UNCHANGED <<error, stopping, heard, exit, child, asked, killed>>

PortVerified ==
  /\ At("portVerify", "codexapp")
  /\ Awaits("verify", "codexapp")
  /\ handle' = handle \cup {"codexapp"}
  /\ UNCHANGED <<state, error, stopping, heard, exit, child, asked, killed>>

Verified ==
  /\ At("verify", "codexapp")
  /\ Awaits("spawn", "hooksd")
  /\ state' = "starting_hooksd"
  /\ UNCHANGED <<handle, error, stopping, heard, exit, child, asked, killed>>

VerifyFails ==
  /\ At("verify", "codexapp")
  /\ StartFails
  /\ UNCHANGED <<child, asked, killed>>

(* No readiness line in time, a bad one, an exit, or a port that cannot be *)
(* verified: a child that lives is stopped before the start fails; and one *)
(* that is left alone.                                                     *)
NotReadyLeft(c) ==
  /\ At("readyLine", c) \/ At("portVerify", c)
  /\ StartFails
  /\ UNCHANGED <<child, asked, killed>>

NotReady(c) ==
  /\ At("readyLine", c) \/ At("portVerify", c)
  /\ IF child[c] = "alive"
     THEN /\ asked' = asked \cup {c}
          /\ Awaits("cleanup", c)
          /\ UNCHANGED <<state, handle, error, stopping, heard, exit>>
     ELSE StartFails /\ UNCHANGED asked
  /\ UNCHANGED <<child, killed>>

(* stopProcess: the child exits, or is killed when the time is up.         *)
CleanupEnds(c) ==
  /\ At("cleanup", c)
  /\ killed' = IF child[c] = "alive" THEN killed \cup {c} ELSE killed
  /\ StartFails
  /\ UNCHANGED <<child, asked>>
-----------------------------------------------------------------------------
(* shutdown, on the first signal; on another one it returns.               *)
Stop ==
  /\ pc.do = "idle" /\ ~stopping
  /\ stopping' = TRUE
  /\ state' = "stopping" /\ Awaits("stop", "hooksd")
  /\ error' = FALSE

Signal(s) ==
  /\ exit = "running"
  /\ IF (~stopping /\ pc.do # "idle") \/ s \in heard
     THEN exit' = "signal" /\ UNCHANGED <<state, pc, error, stopping, heard>>
     ELSE /\ heard' = heard \cup {s}
          /\ Stop \/ (stopping /\ UNCHANGED <<state, pc, error, stopping>>)
          /\ UNCHANGED exit
  /\ UNCHANGED <<handle, child, asked, killed>>

(* After hooksd comes codexapp; after it the start has failed, or the      *)
(* program exits.                                                          *)
Follows(c) ==
  IF c = "hooksd" THEN Awaits("stop", "codexapp") /\ UNCHANGED <<state, exit>>
  ELSE IF ~stopping THEN Awaits("idle", c) /\ UNCHANGED <<state, exit>>
  ELSE /\ Awaits("over", c)
       /\ state' = IF error' THEN "failed" ELSE "stopped"
       /\ exit' = IF error' THEN "1" ELSE "0"

(* stopChildren asks a child whose handle it has, and lets the handle go   *)
(* when the child has exited; a child that does not exit in time is        *)
(* killed, its handle stays, and the error is kept for the end; and one    *)
(* that asks all of them at once.                                          *)
AsksAll(c) ==
  /\ At("stop", c) /\ c \in handle /\ child[c] = "alive"
  /\ asked' = asked \cup handle
  /\ Awaits("exited", c)
  /\ UNCHANGED <<state, handle, error, stopping, heard, exit, child, killed>>

Asks(c) ==
  /\ At("stop", c) /\ c \in handle /\ child[c] = "alive"
  /\ asked' = asked \cup {c}
  /\ Awaits("exited", c)
  /\ UNCHANGED <<state, handle, error, stopping, heard, exit, child, killed>>

Skips(c) ==
  /\ At("stop", c) /\ ~(c \in handle /\ child[c] = "alive")
  /\ handle' = handle \ {c}
  /\ UNCHANGED error
  /\ Follows(c)
  /\ UNCHANGED <<stopping, heard, child, asked, killed>>

Exited(c) ==
  /\ At("exited", c) /\ child[c] = "gone"
  /\ handle' = handle \ {c}
  /\ UNCHANGED error
  /\ Follows(c)
  /\ UNCHANGED <<stopping, heard, child, asked, killed>>

Kills(c) ==
  /\ At("exited", c)
  /\ killed' = IF child[c] = "alive" THEN killed \cup {c} ELSE killed
  /\ error' = TRUE
  /\ Follows(c)
  /\ UNCHANGED <<handle, stopping, heard, child, asked>>

(* After a start that failed nothing keeps the program but its children.   *)
Drains ==
  /\ exit = "running" /\ pc.do = "idle" /\ state = "failed"
  /\ \A c \in Children : child[c] # "alive"
  /\ exit' = "1"
  /\ UNCHANGED <<state, pc, handle, error, stopping, heard, child, asked, killed>>
-----------------------------------------------------------------------------
(* A child exits, of itself or because it was told to.                     *)
Exits(c) ==
  /\ child[c] = "alive"
  /\ child' = [child EXCEPT ![c] = "gone"]
  /\ UNCHANGED <<process, asked, killed>>

Step(c) ==
  \/ Spawns(c) \/ Ready(c) \/ NotReady(c) \/ CleanupEnds(c)
  \/ Asks(c) \/ Skips(c) \/ Exited(c) \/ Kills(c)

Next ==
  \/ \E c \in Children : Step(c) \/ Exits(c)
  \/ PortVerified \/ Verified \/ VerifyFails \/ Drains
  \/ \E s \in Signals : Signal(s)

Spec == Init /\ [][Next]_vars
-----------------------------------------------------------------------------
(* No child is lost: one that lives and was not killed is in the hands of  *)
(* the start or of a handle, through failed starts, late exits and failed  *)
(* stops, and a program that exits of its own accord leaves none behind.   *)
(* Only a signal that ends the program does.                               *)
NoOrphans ==
  \A c \in Children :
    child[c] = "alive" /\ c \notin killed =>
      \/ exit = "signal"
      \/ /\ exit = "running"
         /\ c \in handle \/ pc \in [do : {"readyLine", "portVerify", "cleanup"}, of : {c}]

(* Children stop in the reverse order of their start: codexapp is told to  *)
(* end only when hooksd has ended, was killed or never began.              *)
HooksdFirst ==
  "codexapp" \in asked => child["hooksd"] # "alive" \/ "hooksd" \in killed
=============================================================================

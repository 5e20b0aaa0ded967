--------------------------- MODULE SupervisorProofs ---------------------------
(***************************************************************************)
(* Proofs about the supervisor (module Supervisor), for every set of       *)
(* signals.                                                                *)
(***************************************************************************)
EXTENDS Supervisor, TLAPS

Starts == {"spawn", "readyLine", "portVerify", "verify"}

(* Until the start has failed or is over, codexapp was not told to end.    *)
StartUnasked == pc.do \in Starts => "codexapp" \notin asked

(* hooksd begins only after codexapp is verified.                          *)
CodexappFirst ==
  pc.do \in Starts /\ pc.of = "codexapp" => child["hooksd"] # "alive"

(* When it is the turn of codexapp to stop, that of hooksd is over.        *)
HooksdOver ==
  pc.do \in {"stop", "exited"} /\ pc.of = "codexapp" =>
    child["hooksd"] # "alive" \/ "hooksd" \in killed

Inv ==
  /\ TypeOK
  /\ NoOrphans
  /\ HooksdFirst
  /\ StartUnasked
  /\ CodexappFirst
  /\ HooksdOver
-----------------------------------------------------------------------------
(* A supervisor that starts has no child and has asked none to end.        *)
LEMMA InitInv == Init => Inv
  <1> SUFFICES ASSUME Init PROVE Inv
    OBVIOUS
  <1> USE DEF Init, Children
  <1>1. TypeOK
    BY DEF TypeOK, States, Steps
  <1>2. NoOrphans
    BY DEF NoOrphans
  <1>3. HooksdFirst /\ StartUnasked /\ CodexappFirst /\ HooksdOver
    BY DEF HooksdFirst, StartUnasked, CodexappFirst, HooksdOver
  <1>4. QED
    BY <1>1, <1>2, <1>3 DEF Inv

(* Every step keeps the invariant: one case for each action.               *)
LEMMA StepInv == Inv /\ [Next]_vars => Inv'
  <1> SUFFICES ASSUME Inv, [Next]_vars PROVE Inv'
    OBVIOUS
  <1> USE DEF Inv, TypeOK, NoOrphans, HooksdFirst, StartUnasked, CodexappFirst,
              HooksdOver, Starts, States, Steps, Children, At, Awaits
  <1>1. ASSUME NEW c \in Children, Spawns(c) PROVE Inv'
    <2>1. TypeOK'
      <3>1. pc' \in [do : Steps, of : Children]
        BY <1>1 DEF Spawns, StartFails
      <3>2. child' \in [Children -> {"none", "alive", "gone"}] /\ asked' \subseteq Children
        BY <1>1 DEF Spawns, StartFails
      <3>3. /\ state' \in States /\ handle' \subseteq Children /\ error' \in BOOLEAN
            /\ stopping' \in BOOLEAN /\ heard' \subseteq Signals /\ killed' \subseteq Children
            /\ exit' \in {"running", "0", "1", "signal"}
        BY <1>1 DEF Spawns, StartFails
      <3>4. QED
        BY <3>1, <3>2, <3>3
    <2>2. NoOrphans'
      BY <1>1 DEF Spawns, StartFails
    <2>3. HooksdFirst'
      BY <1>1 DEF Spawns, StartFails
    <2>4. StartUnasked'
      BY <1>1 DEF Spawns, StartFails
    <2>5. CodexappFirst'
      BY <1>1 DEF Spawns, StartFails
    <2>6. HooksdOver'
      BY <1>1 DEF Spawns, StartFails
    <2>7. QED
      BY <2>1, <2>2, <2>3, <2>4, <2>5, <2>6 DEF Inv
  <1>2. ASSUME NEW c \in Children, Ready(c) PROVE Inv'
    <2>1. TypeOK'
      <3>1. pc' \in [do : Steps, of : Children]
        BY <1>2 DEF Ready
      <3>2. child' \in [Children -> {"none", "alive", "gone"}] /\ asked' \subseteq Children
        BY <1>2 DEF Ready
      <3>3. /\ state' \in States /\ handle' \subseteq Children /\ error' \in BOOLEAN
            /\ stopping' \in BOOLEAN /\ heard' \subseteq Signals /\ killed' \subseteq Children
            /\ exit' \in {"running", "0", "1", "signal"}
        BY <1>2 DEF Ready
      <3>4. QED
        BY <3>1, <3>2, <3>3
    <2>2. NoOrphans'
      BY <1>2 DEF Ready
    <2>3. HooksdFirst'
      BY <1>2 DEF Ready
    <2>4. StartUnasked'
      BY <1>2 DEF Ready
    <2>5. CodexappFirst'
      BY <1>2 DEF Ready
    <2>6. HooksdOver'
      BY <1>2 DEF Ready
    <2>7. QED
      BY <2>1, <2>2, <2>3, <2>4, <2>5, <2>6 DEF Inv
  <1>3. ASSUME NEW c \in Children, NotReady(c) PROVE Inv'
    <2>1. TypeOK'
      <3>1. pc' \in [do : Steps, of : Children]
        BY <1>3 DEF NotReady, StartFails
      <3>2. child' \in [Children -> {"none", "alive", "gone"}] /\ asked' \subseteq Children
        BY <1>3 DEF NotReady, StartFails
      <3>3. /\ state' \in States /\ handle' \subseteq Children /\ error' \in BOOLEAN
            /\ stopping' \in BOOLEAN /\ heard' \subseteq Signals /\ killed' \subseteq Children
            /\ exit' \in {"running", "0", "1", "signal"}
        BY <1>3 DEF NotReady, StartFails
      <3>4. QED
        BY <3>1, <3>2, <3>3
    <2>2. NoOrphans'
      BY <1>3 DEF NotReady, StartFails
    <2>3. HooksdFirst'
      BY <1>3 DEF NotReady, StartFails
    <2>4. StartUnasked'
      BY <1>3 DEF NotReady, StartFails
    <2>5. CodexappFirst'
      BY <1>3 DEF NotReady, StartFails
    <2>6. HooksdOver'
      BY <1>3 DEF NotReady, StartFails
    <2>7. QED
      BY <2>1, <2>2, <2>3, <2>4, <2>5, <2>6 DEF Inv
  <1>4. ASSUME NEW c \in Children, CleanupEnds(c) PROVE Inv'
    BY <1>4 DEF CleanupEnds, StartFails
  <1>5. ASSUME NEW c \in Children, Asks(c) PROVE Inv'
    BY <1>5 DEF Asks
  <1>6. ASSUME NEW c \in Children, Skips(c) PROVE Inv'
    BY <1>6 DEF Skips, Follows
  <1>7. ASSUME NEW c \in Children, Exited(c) PROVE Inv'
    BY <1>7 DEF Exited, Follows
  <1>8. ASSUME NEW c \in Children, Kills(c) PROVE Inv'
    BY <1>8 DEF Kills, Follows
  <1>9. ASSUME NEW c \in Children, Exits(c) PROVE Inv'
    BY <1>9 DEF Exits, process
  <1>10. CASE PortVerified
    BY <1>10 DEF PortVerified
  <1>11. CASE Verified
    BY <1>11 DEF Verified
  <1>12. CASE VerifyFails
    BY <1>12 DEF VerifyFails, StartFails
  <1>13. CASE Drains
    BY <1>13 DEF Drains
  <1>14. ASSUME NEW s \in Signals, Signal(s) PROVE Inv'
    <2>1. TypeOK'
      <3>1. pc' \in [do : Steps, of : Children]
        BY <1>14 DEF Signal, Stop
      <3>2. QED
        BY <3>1, <1>14 DEF Signal, Stop
    <2>2. NoOrphans'
      BY <1>14 DEF Signal, Stop
    <2>3. HooksdFirst'
      BY <1>14 DEF Signal, Stop
    <2>4. StartUnasked'
      BY <1>14 DEF Signal, Stop
    <2>5. CodexappFirst'
      BY <1>14 DEF Signal, Stop
    <2>6. HooksdOver'
      BY <1>14 DEF Signal, Stop
    <2>7. QED
      BY <2>1, <2>2, <2>3, <2>4, <2>5, <2>6 DEF Inv
  <1>15. CASE UNCHANGED vars
    BY <1>15 DEF vars, process
  <1>16. QED
    BY <1>1, <1>2, <1>3, <1>4, <1>5, <1>6, <1>7, <1>8, <1>9,
       <1>10, <1>11, <1>12, <1>13, <1>14, <1>15 DEF Next, Step

(* The parts of Inv hold together in every state of the supervisor.        *)
THEOREM Invariance == Spec => []Inv
  BY InitInv, StepInv, PTL DEF Spec

(* Every variable of the supervisor keeps its type.                        *)
THEOREM TypeCorrect == Spec => []TypeOK
  <1>1. Inv => TypeOK
    BY DEF Inv
  <1>2. QED
    BY <1>1, Invariance, PTL

(* No child is lost by the program, whatever starts and stops fail.        *)
THEOREM ChildrenKept == Spec => []NoOrphans
  <1>1. Inv => NoOrphans
    BY DEF Inv
  <1>2. QED
    BY <1>1, Invariance, PTL

(* codexapp is told to end only when hooksd is over.                       *)
THEOREM StopOrder == Spec => []HooksdFirst
  <1>1. Inv => HooksdFirst
    BY DEF Inv
  <1>2. QED
    BY <1>1, Invariance, PTL
=============================================================================

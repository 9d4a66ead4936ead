--------------------------- MODULE FieldLifecycle ---------------------------
(***************************************************************************)
(* What the rover control server of 892/Lab4-5 promises about the things a *)
(* client can name.  A mine and a rover get the next unused id, live until *)
(* they are deleted and never come back; a defused mine stays defused; an  *)
(* eliminated rover is never dispatched or programmed again, and a rover   *)
(* is eliminated only while some mine is active.  A reset of the demo      *)
(* forgets everything.  Requests are whole here: there are no threads.     *)
(***************************************************************************)
EXTENDS Naturals

CONSTANTS MineIds, RoverIds

VARIABLES mineLife, roverLife

vars == <<mineLife, roverLife>>

MineStates == {"unborn", "active", "defused", "gone"}
RoverStates == {"unborn", "Not Started", "Finished", "Eliminated", "gone"}

\* The statuses in which a rover takes commands and may be dispatched.
Resting == {"Not Started", "Finished"}

TypeOK == mineLife \in [MineIds -> MineStates] /\ roverLife \in [RoverIds -> RoverStates]

Init ==
    /\ mineLife = [m \in MineIds |-> "unborn"]
    /\ roverLife = [r \in RoverIds |-> "unborn"]

\* id is the least one that was never used.
IsNext(life, id) ==
    \A i \in DOMAIN life : life[i] = "unborn" <=> i >= id

CreateMine(m) ==
    /\ IsNext(mineLife, m)
    /\ mineLife' = [mineLife EXCEPT ![m] = "active"]
    /\ UNCHANGED roverLife

DefuseMine(m) ==
    /\ mineLife[m] = "active"
    /\ mineLife' = [mineLife EXCEPT ![m] = "defused"]
    /\ UNCHANGED roverLife

DeleteMine(m) ==
    /\ mineLife[m] \in {"active", "defused"}
    /\ mineLife' = [mineLife EXCEPT ![m] = "gone"]
    /\ UNCHANGED roverLife

CreateRover(r) ==
    /\ IsNext(roverLife, r)
    /\ roverLife' = [roverLife EXCEPT ![r] = "Not Started"]
    /\ UNCHANGED mineLife

UpdateRoverCommands(r) ==
    /\ roverLife[r] \in Resting
    /\ roverLife' = [roverLife EXCEPT ![r] = "Not Started"]
    /\ UNCHANGED mineLife

DispatchRover(r) ==
    /\ roverLife[r] \in Resting
    /\ \/ roverLife' = [roverLife EXCEPT ![r] = "Finished"]
       \/ /\ \E m \in MineIds : mineLife[m] = "active"
          /\ roverLife' = [roverLife EXCEPT ![r] = "Eliminated"]
    /\ UNCHANGED mineLife

DeleteRover(r) ==
    /\ roverLife[r] \in Resting \cup {"Eliminated"}
    /\ roverLife' = [roverLife EXCEPT ![r] = "gone"]
    /\ UNCHANGED mineLife

ResetDemo ==
    /\ mineLife' = [m \in MineIds |-> "unborn"]
    /\ roverLife' = [r \in RoverIds |-> "unborn"]

Next ==
    \/ \E m \in MineIds : CreateMine(m) \/ DefuseMine(m) \/ DeleteMine(m)
    \/ \E r \in RoverIds : \/ CreateRover(r) \/ UpdateRoverCommands(r)
                           \/ DispatchRover(r) \/ DeleteRover(r)
    \/ ResetDemo

Spec == Init /\ [][Next]_vars
=============================================================================

---------------------------- MODULE DeployScript ----------------------------
(***************************************************************************)
(* scripts/phase3a/02-deploy-control-plane.sh.  Helmfile reads its values   *)
(* from a directory of the repository, in which the endpoints are           *)
(* placeholders.  The script moves this directory into its temporary one,   *)
(* puts a copy with the endpoints filled in into its place, runs helmfile   *)
(* and moves the original back.  What it has not done when it ends early is *)
(* up to its EXIT trap.                                                    *)
(***************************************************************************)
EXTENDS Naturals

CONSTANTS
    MaxDeploys,  \* bound: runs of the script
    MaxKills     \* bound: runs that end without their EXIT trap

ASSUME DeployAssumption == MaxDeploys \in Nat /\ MaxKills \in Nat

VARIABLES
    step,      \* the next command of the script
    dir,       \* what is in the directory of values
    backup,    \* what is in the backup below the temporary directory
    trap,      \* what the EXIT trap does
    deployed,  \* helmfile has been run
    deploys,   \* runs started
    kills,     \* history: runs that were killed
    unguarded  \* history: a run failed after the move, before the new trap

deployment == <<step, dir, backup, trap, deployed, deploys, kills, unguarded>>

Steps    == {"fill", "move", "copy", "arm", "sync", "remove", "return",
             "disarm", "manifests"}
Contents == {"original", "filled", "absent"}

DeployTypeOK ==
    /\ step \in Steps \union {"idle"}
    /\ dir \in Contents
    /\ backup \in Contents
    /\ trap \in {"none", "cleanup", "restore"}
    /\ deployed \in BOOLEAN
    /\ deploys \in 0..MaxDeploys
    /\ kills \in 0..MaxKills
    /\ unguarded \in BOOLEAN

DeployInit ==
    /\ step = "idle"
    /\ dir = "original"
    /\ backup = "absent"
    /\ trap = "none"
    /\ deployed = FALSE
    /\ deploys = 0
    /\ kills = 0
    /\ unguarded = FALSE

-----------------------------------------------------------------------------
\* The script starts with a temporary directory and a trap that removes it.
StartDeploy ==
    /\ step = "idle"
    /\ deploys < MaxDeploys
    /\ deploys' = deploys + 1
    /\ step' = "fill"
    /\ trap' = "cleanup"
    /\ UNCHANGED <<dir, backup, deployed, kills, unguarded>>

Command(name, following) ==
    /\ step = name
    /\ step' = following
    /\ UNCHANGED <<deploys, kills, unguarded>>

\* The values are copied and filled in; without any there is an error (Fail).
Fill ==
    /\ dir # "absent"
    /\ Command("fill", "move")
    /\ UNCHANGED <<dir, backup, trap, deployed>>

MoveAway ==
    /\ Command("move", "copy")
    /\ backup' = dir
    /\ dir' = "absent"
    /\ UNCHANGED <<trap, deployed>>

\* A copy that fails half way is taken for one that fails right after it.
CopyIn ==
    /\ Command("copy", "arm")
    /\ dir' = "filled"
    /\ UNCHANGED <<backup, trap, deployed>>

\* From here on, the trap restores the original.
Arm ==
    /\ Command("arm", "sync")
    /\ trap' = "restore"
    /\ UNCHANGED <<dir, backup, deployed>>

Sync ==
    /\ Command("sync", "remove")
    /\ deployed' = TRUE
    /\ UNCHANGED <<dir, backup, trap>>

\* restore_values does nothing when there is no backup any more.
RestoreRemove ==
    /\ Command("remove", "return")
    /\ dir' = IF backup # "absent" THEN "absent" ELSE dir
    /\ UNCHANGED <<backup, trap, deployed>>

RestoreReturn ==
    /\ Command("return", "disarm")
    /\ dir' = IF backup # "absent" THEN backup ELSE dir
    /\ backup' = "absent"
    /\ UNCHANGED <<trap, deployed>>

Disarm ==
    /\ Command("disarm", "manifests")
    /\ trap' = "cleanup"
    /\ UNCHANGED <<dir, backup, deployed>>

\* Mutant: the trap removes the directory without restoring the values first.
TrapForgets == dir' = dir /\ backup' = "absent"

\* What is left when the EXIT trap has run: a restore, when it is armed, and
\* the temporary directory is gone with whatever is still in it.
Trap ==
    /\ dir' = IF trap = "restore" /\ backup # "absent" THEN backup ELSE dir
    /\ backup' = "absent"

Exit ==
    /\ step' = "idle"
    /\ trap' = "none"
    /\ UNCHANGED <<deployed, deploys>>

\* The manifests are applied and the deployments waited for.
Manifests ==
    /\ step = "manifests"
    /\ Trap
    /\ Exit
    /\ UNCHANGED <<kills, unguarded>>

\* A command fails, or the operator interrupts the script.
Fail ==
    /\ step # "idle"
    /\ Trap
    /\ Exit
    /\ unguarded' = (unguarded \/ (backup # "absent" /\ trap = "cleanup"))
    /\ UNCHANGED kills

\* The process is killed, or its machine is lost: no trap, and nobody finds
\* the temporary directory again.
Kill ==
    /\ step # "idle"
    /\ kills < MaxKills
    /\ kills' = kills + 1
    /\ Exit
    /\ backup' = "absent"
    /\ UNCHANGED <<dir, unguarded>>

DeployNext ==
    \/ StartDeploy \/ Fill \/ MoveAway \/ CopyIn \/ Arm \/ Sync
    \/ RestoreRemove \/ RestoreReturn \/ Disarm \/ Manifests \/ Fail \/ Kill

-----------------------------------------------------------------------------
\* When no run of the script is under way, the directory holds the original
\* values, unless a run was killed, or ended between the move and the trap that
\* undoes it (02-deploy-control-plane.sh 86-96): a run that ends within the
\* restore itself, or after it, costs nothing.
ValuesRestored ==
    step = "idle" /\ kills = 0 /\ ~unguarded => dir = "original"

\* "use the temp-copy-and-swap approach -- the originals are never modified"
\* (02-deploy-control-plane.sh 76): when no run is under way they are in place,
\* whichever commands have failed.
OriginalsNeverModified == step = "idle" /\ kills = 0 => dir = "original"
=============================================================================

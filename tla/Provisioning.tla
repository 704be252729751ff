---------------------------- MODULE Provisioning ----------------------------
(***************************************************************************)
(* An operator who runs the scripts that make up credentials               *)
(* (CredentialScripts) and those that deploy the platform with them: for    *)
(* the control plane scripts/phase3a/02-deploy-control-plane.sh             *)
(* (DeployScript), for the single cluster scripts/03-deploy-platform.sh.    *)
(* One script runs at a time, in any order and as often as the operator     *)
(* likes.                                                                  *)
(***************************************************************************)
EXTENDS CredentialScripts, DeployScript

vars == <<credentials, deployment>>

TypeOK == CredentialsTypeOK /\ DeployTypeOK

Init == CredentialsInit /\ DeployInit

\* A credential script runs while no deployment does.
Credentials ==
    /\ step = "idle"
    /\ CredentialsNext
    /\ UNCHANGED deployment

\* The control plane is deployed once the endpoints are in the file.
DeployControlPlane ==
    /\ edition = "controlplane"
    /\ script = "none"
    /\ step = "idle" => env["db"] # 0
    /\ DeployNext
    /\ UNCHANGED credentials

\* The single cluster is deployed by helmfile as it is.
DeployPlatform ==
    /\ edition = "single"
    /\ script = "none"
    /\ ~deployed
    /\ deployed' = TRUE
    /\ UNCHANGED <<credentials, step, dir, backup, trap, deploys, kills, unguarded>>

\* What is deployed boots as soon as its Secret is there, whatever else runs.
Boot(c) ==
    /\ deployed
    /\ FirstBoot(c)
    /\ UNCHANGED deployment

Next ==
    \/ Credentials
    \/ DeployControlPlane
    \/ DeployPlatform
    \/ \E c \in Generated : Boot(c)

Spec == Init /\ [][Next]_vars

-----------------------------------------------------------------------------
(* Properties.                                                             *)

Idle == script = "none"

\* No password of a resource is lost, except when the run that made it up was
\* stopped before it wrote the file, or any run between emptying the file and
\* writing it (00-create-aws-resources.sh 351).  For the control plane this survives any
\* number of later runs (00-create-aws-resources.sh 44-49); for the single
\* cluster it ends with the next run, which makes up new ones
\* (01-create-aws-resources.sh 23-25).
PasswordsAreKnown ==
    erased = {} => \A c \in Cloud :
        /\ resource[c] \notin {0} \union stopped
        /\ script = "aws" => resource[c] # Run
        /\ edition = "controlplane" \/ runs.aws = 1
        => env[c] = resource[c]

\* A completed run of 00-create-aws-resources.sh whose psql pods all worked
\* leaves the control plane with everything it needs and the passwords to it,
\* whatever earlier runs have left out, if none has left the file empty: psql logs in with the password the
\* instance was created with (192-201, 206-272).
RerunRepairs ==
    /\ edition = "controlplane"
    /\ Idle
    /\ outcome["aws"] = "completed"
    /\ ~podFailed
    /\ erased = {}
    /\ \A c \in Cloud : resource[c] \notin stopped
    => \A c \in Cloud : resource[c] # 0 /\ resource[c] = env[c]

\* As long as no run of 00-create-aws-resources.sh removes them from the file,
\* kept credentials are never made up twice: every Secret and every server has
\* the one in the file, through any number of stopped and repeated runs
\* ("idempotent: only generate if not already in .env.cp",
\* phase3a/01-create-secrets.sh 28-64).
KeptNeverRotate ==
    edition = "controlplane" /\ ~wiped =>
        /\ \A s \in Copies : s[1] \in Kept => secret[s] \in {0, env[s[1]]}
        /\ \A c \in Kept : registered[c] \in {0, env[c]}

\* After a completed run of 02-create-secrets.sh everybody has the generated
\* credentials that are in the file, however many runs before it were stopped
\* between two Secrets (57-204).
CompletedRunAgrees ==
    edition = "single" /\ Idle /\ outcome["secrets"] = "completed" =>
        \A s \in Copies : s[1] \in Generated => secret[s] = env[s[1]]
=============================================================================

-------------------------- MODULE CredentialScripts --------------------------
(***************************************************************************)
(* The scripts that make up passwords and bring them to where they are     *)
(* used, in the two editions of the repository: for a single cluster        *)
(* (scripts/01-create-aws-resources.sh, scripts/02-create-secrets.sh) and   *)
(* for the control plane (scripts/phase3a/00-create-aws-resources.sh,       *)
(* scripts/phase3a/01-create-secrets.sh).                                  *)
(*                                                                         *)
(* Under "set -e" a script ends at the first command that fails, and an    *)
(* operator may end it anywhere; then it is run again.  Only the cloud, the *)
(* cluster and the file of generated values (.env, .env.cp) survive.       *)
(*                                                                         *)
(* A password is represented by the run of a script that made it up, so    *)
(* that two are equal if and only if they are the same; 0 is none.         *)
(***************************************************************************)
EXTENDS Naturals

CONSTANTS
    Editions,    \* of "single" and "controlplane"
    Roles,       \* credentials of the roles created on the database instance
    Kept,        \* generated credentials phase3a/01 writes to its file
    Unkept,      \* generated credentials it does not: admin passwords
    Copies,      \* the Secrets: pairs of a credential and who is given it
    Users,       \* who is given credentials; "server" registers them
    MaxRuns      \* bound: runs of either script

Masters   == {"db", "redis"}
Cloud     == Masters \union Roles
Generated == Kept \union Unkept
Creds     == Cloud \union Generated

ASSUME CredentialsAssumption ==
    /\ Editions \subseteq {"single", "controlplane"}
    /\ Roles \intersect Masters = {}
    /\ Generated \intersect Cloud = {}
    /\ Kept \intersect Unkept = {}
    /\ Copies \subseteq Creds \X Users
    /\ MaxRuns \in Nat

VARIABLES
    edition,     \* which scripts are used
    script,      \* the script that runs
    left,        \* credentials it has not created or generated yet
    unapplied,   \* Secrets it has not applied yet
    value,       \* its shell variables
    env,         \* the file of generated values, as a shell sources it
    resource,    \* the password the instance, cache or role has
    secret,      \* the password in each Secret
    registered,  \* the password a server has taken on its first boot
    runs,        \* how often each script was started
    outcome,     \* history: how the last run of each script went
    stopped,     \* history: the runs that were stopped
    podFailed,   \* history: a psql pod failed in the last run of aws
    wiped,       \* history: a run of aws has removed generated values
    erased       \* history: the runs that emptied the file and did not write it

store   == <<env, resource, secret, registered>>
process == <<script, left, unapplied, value>>
history == <<outcome, stopped, podFailed, wiped, erased>>
credentials == <<edition, process, store, runs, history>>

Scripts == {"aws", "secrets"}
Run     == runs.aws + runs.secrets
Value   == 0..MaxRuns

CredentialsTypeOK ==
    /\ edition \in Editions
    /\ script \in Scripts \union {"none"}
    /\ left \subseteq Creds
    /\ unapplied \subseteq Copies
    /\ value \in [Creds -> Value]
    /\ env \in [Creds -> Value]
    /\ resource \in [Cloud -> Value]
    /\ secret \in [Copies -> Value]
    /\ registered \in [Generated -> Value]
    /\ runs \in [Scripts -> Value]
    /\ Run <= MaxRuns
    /\ outcome \in [Scripts -> {"none", "running", "completed", "stopped"}]
    /\ stopped \subseteq Value
    /\ podFailed \in BOOLEAN
    /\ wiped \in BOOLEAN
    /\ erased \subseteq 0..Run

CredentialsInit ==
    /\ edition \in Editions
    /\ script = "none"
    /\ left = {}
    /\ unapplied = {}
    /\ value = [c \in Creds |-> 0]
    /\ env = [c \in Creds |-> 0]
    /\ resource = [c \in Cloud |-> 0]
    /\ secret = [s \in Copies |-> 0]
    /\ registered = [c \in Generated |-> 0]
    /\ runs = [s \in Scripts |-> 0]
    /\ outcome = [s \in Scripts |-> "none"]
    /\ stopped = {}
    /\ podFailed = FALSE
    /\ wiped = FALSE
    /\ erased = {}

-----------------------------------------------------------------------------
\* A script starts, sources the file and keeps it in its variables.
Begin(s) ==
    /\ script = "none"
    /\ Run < MaxRuns
    /\ script' = s
    /\ runs' = [runs EXCEPT ![s] = @ + 1]
    /\ outcome' = [outcome EXCEPT ![s] = "running"]
    /\ UNCHANGED <<edition, store, stopped, wiped, erased>>

\* A script ends with this outcome, and what it held in memory is gone.
Finish(result) ==
    /\ script' = "none"
    /\ left' = {}
    /\ unapplied' = {}
    /\ value' = [c \in Creds |-> 0]
    /\ outcome' = [outcome EXCEPT ![script] = result]
    /\ UNCHANGED <<edition, resource, secret, registered, runs, podFailed>>

\* A command fails under "set -e", or the operator stops the script.
Stop ==
    /\ script # "none"
    /\ Finish("stopped")
    /\ stopped' = stopped \union {Run}
    /\ UNCHANGED <<env, wiped, erased>>

-----------------------------------------------------------------------------
(* Cloud resources: 01-create-aws-resources.sh, 00-create-aws-resources.sh. *)

\* Mutant: the control plane makes up new passwords as well.
MakesUpAlways(c) == TRUE

\* The single cluster makes up a password in every run, the control plane only
\* one that its file does not have.
MakesUp(c) == edition = "single" \/ env[c] = 0

StartAws ==
    /\ Begin("aws")
    /\ value' = [c \in Creds |-> IF c \in Cloud /\ MakesUp(c) THEN Run' ELSE env[c]]
    /\ left' = Cloud
    /\ podFailed' = FALSE
    /\ UNCHANGED unapplied

\* The resource of a credential is created with the script's password, unless
\* it exists; then the command fails, the script says so and goes on.
Created(c) ==
    [resource EXCEPT ![c] = IF @ = 0 THEN value[c] ELSE @]

\* The instance and the cache.  The script waits for them to be available, and
\* stops (Stop) when there is none.
CreateMaster(m) ==
    /\ script = "aws"
    /\ m \in left \intersect Masters
    /\ left' = left \ {m}
    /\ resource' = Created(m)
    /\ UNCHANGED <<edition, script, unapplied, value, env, secret, registered,
                   runs, history>>

\* psql logs in as master with the script's own password.
LogsIn == value["db"] = resource["db"]

\* A pod creates the role.  Whether psql logs in, is refused or fails otherwise,
\* the script goes on.
CreateRole(r) ==
    /\ script = "aws"
    /\ left \intersect Masters = {}
    /\ r \in left
    /\ left' = left \ {r}
    /\ \/ resource' = (IF LogsIn THEN Created(r) ELSE resource) /\ UNCHANGED podFailed
       \/ podFailed' = TRUE /\ UNCHANGED resource
    /\ UNCHANGED <<edition, script, unapplied, value, env, secret, registered,
                   runs, outcome, stopped, wiped, erased>>

\* The single cluster appends to the file, the control plane overwrites it.
Appends == edition = "single"

\* Before its last command writes to the file, the shell empties it.  A run
\* that is stopped in between leaves nothing of what the file had.
EmptyFile ==
    /\ script = "aws"
    /\ left = {}
    /\ ~Appends
    /\ \E c \in Creds : env[c] # 0
    /\ env' = [c \in Creds |-> 0]
    /\ wiped' = (wiped \/ \E c \in Kept : env[c] # 0)
    /\ erased' = erased \union {Run}
    /\ UNCHANGED <<edition, process, resource, secret, registered, runs,
                   outcome, stopped, podFailed>>

\* The last command writes the passwords to the file.
SaveAws ==
    /\ script = "aws"
    /\ left = {}
    /\ Appends \/ \A c \in Creds : env[c] = 0
    /\ env' = [c \in Creds |-> IF c \in Cloud THEN value[c] ELSE env[c]]
    /\ erased' = erased \ {Run}
    /\ Finish("completed")
    /\ UNCHANGED <<stopped, wiped>>

-----------------------------------------------------------------------------
(* Secrets: 02-create-secrets.sh, 01-create-secrets.sh.                    *)

\* Without the outputs of the other script, this one ends at once.
StartSecrets ==
    /\ env["db"] # 0
    /\ Begin("secrets")
    /\ value' = env
    /\ left' = Generated
    /\ unapplied' = Copies
    /\ UNCHANGED podFailed

\* The control plane writes a kept value to its file at once, and does not make
\* it up again.
KeepsAtOnce(c) == c \in Kept /\ edition = "controlplane"

\* Mutant: the control plane keeps a value in memory only.
GenerateUnsaved(c) ==
    /\ script = "secrets"
    /\ c \in left
    /\ left' = left \ {c}
    /\ value' = [value EXCEPT ![c] = IF KeepsAtOnce(c) /\ @ # 0 THEN @ ELSE Run]
    /\ UNCHANGED <<edition, script, unapplied, store, runs, history>>

\* A value is made up, unless it is a kept one the file had already.
Generate(c) ==
    /\ script = "secrets"
    /\ c \in left
    /\ left' = left \ {c}
    /\ value' = [value EXCEPT ![c] = IF KeepsAtOnce(c) /\ @ # 0 THEN @ ELSE Run]
    /\ env' = IF KeepsAtOnce(c) THEN [env EXCEPT ![c] = value'[c]] ELSE env
    /\ UNCHANGED <<edition, script, unapplied, resource, secret, registered,
                   runs, history>>

\* A Secret is put together and applied over the one that is there.
Applied(s) == [secret EXCEPT ![s] = value[s[1]]]

\* All kept values are generated before the first Secret, the others right
\* before their own; otherwise the order of the commands makes no difference
\* and is left open.
ApplySecret(s) ==
    /\ script = "secrets"
    /\ left \intersect Kept = {}
    /\ s \in unapplied
    /\ s[1] \notin left
    /\ unapplied' = unapplied \ {s}
    /\ secret' = Applied(s)
    /\ UNCHANGED <<edition, script, left, value, env, resource, registered,
                   runs, history>>

\* Mutant: the single cluster keeps the values the file has.
SaveSecretsOnce ==
    /\ script = "secrets"
    /\ left = {}
    /\ unapplied = {}
    /\ env' = [c \in Creds |-> IF c \in Generated /\ env[c] = 0 THEN value[c] ELSE env[c]]
    /\ Finish("completed")
    /\ UNCHANGED <<stopped, wiped, erased>>

\* The last command of the single cluster appends the generated values.
SaveSecrets ==
    /\ script = "secrets"
    /\ left = {}
    /\ unapplied = {}
    /\ env' = [c \in Creds |-> IF c \in Generated /\ Appends
                               THEN value[c] ELSE env[c]]
    /\ Finish("completed")
    /\ UNCHANGED <<stopped, wiped, erased>>

-----------------------------------------------------------------------------
\* A server boots for the first time, once its Secret is there, and takes the
\* password for good: Langfuse its API keys, Keycloak its administrator.
FirstBoot(c) ==
    /\ <<c, "server">> \in Copies
    /\ registered[c] = 0
    /\ secret[<<c, "server">>] # 0
    /\ registered' = [registered EXCEPT ![c] = secret[<<c, "server">>]]
    /\ UNCHANGED <<edition, process, env, resource, secret, runs, history>>

CredentialsNext ==
    \/ StartAws
    \/ \E m \in Masters : CreateMaster(m)
    \/ \E r \in Roles : CreateRole(r)
    \/ EmptyFile
    \/ SaveAws
    \/ StartSecrets
    \/ \E c \in Generated : Generate(c)
    \/ \E s \in Copies : ApplySecret(s)
    \/ SaveSecrets
    \/ Stop
=============================================================================

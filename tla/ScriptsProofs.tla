----------------------------- MODULE ScriptsProofs -----------------------------
(***************************************************************************)
(* Proofs about the scripts: Provisioning, for every set of credentials and *)
(* Secrets and any number of runs, deployments and kills, and              *)
(* ObservabilityScripts, for any clusters and any number of runs that stop.*)
(***************************************************************************)
EXTENDS Provisioning, ObservabilityScripts, TLAPS

(* The inductive invariant.                                                *)

\* The script that runs is the one that has no outcome yet.
Outcomes == \A s \in Scripts : script = s => outcome[s] = "running"

\* Nothing exists before the first run that creates it.
NothingYet ==
    runs["aws"] = 0 => script # "aws" /\ \A c \in Cloud : resource[c] = 0

\* A run that empties the file has created everything, and no run but the one
\* that runs has left the file empty.
Emptied == script = "aws" /\ Run \in erased => left = {}
Intact  == erased \subseteq IF script = "aws" THEN {Run} ELSE {}

\* What a run has in its variables.
Drawn ==
    script = "aws" /\ Run \notin erased =>
        \A c \in Cloud : value[c] = IF MakesUp(c) THEN Run ELSE env[c]

\* Whoever runs next, or runs now, has the password of what exists.
Known ==
    Intact => \A c \in Cloud :
        /\ resource[c] \notin {0} \union stopped
        /\ edition = "controlplane" \/ runs["aws"] <= 1
        => resource[c] = IF script = "aws" THEN value[c] ELSE env[c]

\* A run leaves no instance or cache out, whatever else it leaves out.
MastersMade ==
    script = "aws" => \A m \in Masters \ left : resource[m] # 0

\* A run that logs in, and whose pods work, leaves out nothing.
Made ==
    /\ Intact
    /\ edition = "controlplane"
    /\ ~podFailed
    /\ resource["db"] \notin stopped \ {0}
    /\ script = "aws" \/ outcome["aws"] = "completed"
    => \A c \in Cloud : resource[c] # 0 \/ (script = "aws" /\ c \in left)

PasswordInv == Outcomes /\ NothingYet /\ Emptied /\ Drawn /\ Known /\ MastersMade /\ Made

\* What a run of the control plane has kept is in the file already.
InFile ==
    edition = "controlplane" /\ script = "secrets" =>
        \A c \in Kept : value[c] = env[c]

\* A Secret that was applied has a value that is not made up again in this run.
Given ==
    script = "secrets" =>
        \A s \in Copies \ unapplied :
            s[1] \in Generated => s[1] \notin left /\ secret[s] = value[s[1]]

\* CompletedRunAgrees, whatever runs in between.
Agreed ==
    edition = "single" /\ outcome["secrets"] = "completed" =>
        \A s \in Copies : s[1] \in Generated => secret[s] = env[s[1]]

SecretInv == Outcomes /\ InFile /\ KeptNeverRotate /\ Given /\ Agreed

\* Where the original values are, while nothing has gone wrong outside of the
\* guard of a trap.
DeployInv ==
    kills = 0 /\ ~unguarded =>
        /\ step \in {"idle", "fill", "move", "disarm", "manifests"}
               => dir = "original" /\ backup = "absent"
        /\ step \in {"copy", "arm", "sync", "remove", "return"} => backup = "original"
        /\ step \in {"sync", "remove", "return"} => trap = "restore"
        /\ step \in {"fill", "move", "copy", "arm"} => trap = "cleanup"

-----------------------------------------------------------------------------
\* The initial state has the types.
LEMMA InitTypes == Init => TypeOK
<1> SUFFICES ASSUME Init PROVE TypeOK
    OBVIOUS
<1>1. 0 \in Value /\ MaxRuns \in Nat
      BY CredentialsAssumption DEF Value
<1>2. runs = [s \in Scripts |-> 0] /\ Run = 0
      BY DEF Init, CredentialsInit, Run, Scripts
<1>3. Run <= MaxRuns /\ runs \in [Scripts -> Value]
      BY <1>1, <1>2
<1>4. CredentialsTypeOK
      BY <1>1, <1>3 DEF Init, CredentialsInit, CredentialsTypeOK
<1>5. deploys \in 0..MaxDeploys /\ kills \in 0..MaxKills
      BY DeployAssumption DEF Init, DeployInit
<1>6. DeployTypeOK
      BY <1>5, Zenon DEF Init, DeployInit, DeployTypeOK, Steps, Contents
<1> QED BY <1>4, <1>6 DEF TypeOK

\* What a run counts as, and its number when it starts.
LEMMA RunNumber ==
    ASSUME CredentialsTypeOK
    PROVE  /\ Run \in 0..MaxRuns
           /\ \A s \in Scripts : Begin(s) => Run' \in 1..MaxRuns /\ Run' = Run + 1
<1>1. runs["aws"] \in Nat /\ runs["secrets"] \in Nat /\ Run <= MaxRuns
      BY CredentialsAssumption DEF CredentialsTypeOK, Scripts, Value
<1>2. ASSUME NEW s \in Scripts, Begin(s) PROVE Run' = Run + 1
      BY <1>1, <1>2, CredentialsAssumption DEF Begin, Run, Scripts, CredentialsTypeOK
<1>3. \A s \in Scripts : Begin(s) => Run < MaxRuns
      BY DEF Begin
<1> QED BY <1>1, <1>2, <1>3, CredentialsAssumption DEF Run

\* A script that starts keeps the types of all but its own variables.
LEMMA BeginTypes ==
    ASSUME CredentialsTypeOK, NEW s \in Scripts, Begin(s)
    PROVE  /\ edition' \in Editions /\ script' \in Scripts
           /\ env' \in [Creds -> Value] /\ resource' \in [Cloud -> Value]
           /\ secret' \in [Copies -> Value] /\ registered' \in [Generated -> Value]
           /\ runs' \in [Scripts -> Value] /\ Run' \in Value /\ Run' <= MaxRuns
           /\ outcome' \in [Scripts -> {"none", "running", "completed", "stopped"}]
           /\ stopped' \subseteq Value /\ wiped' \in BOOLEAN
           /\ erased' \subseteq 0..Run'
<1>1. Run' \in 1..MaxRuns /\ Run' = Run + 1
      BY RunNumber
<1>2. runs[s] + 1 \in Value
  <2>1. runs["aws"] \in Nat /\ runs["secrets"] \in Nat /\ MaxRuns \in Nat
        BY CredentialsAssumption DEF CredentialsTypeOK, Scripts, Value
  <2> QED BY <2>1, <1>1 DEF Run, Value, Scripts
<1>3. runs' \in [Scripts -> Value]
      BY <1>2 DEF Begin, CredentialsTypeOK
<1>4. Run \in Nat /\ erased \subseteq 0..Run /\ erased' = erased
      BY RunNumber DEF Begin, CredentialsTypeOK
<1>5. erased' \subseteq 0..Run'
      BY <1>1, <1>4
<1> QED BY <1>1, <1>3, <1>5, CredentialsAssumption
        DEF Begin, CredentialsTypeOK, store, Value

\* A script that ends keeps all types, if what it writes has them.
LEMMA FinishTypes ==
    ASSUME CredentialsTypeOK, script # "none",
           NEW result \in {"completed", "stopped"}, Finish(result),
           env' \in [Creds -> Value], stopped' \subseteq Value, wiped' \in BOOLEAN,
           erased' \subseteq erased
    PROVE  CredentialsTypeOK'
<1>1. script \in Scripts
      BY DEF CredentialsTypeOK
<1>2. 0 \in Value
      BY CredentialsAssumption DEF Value
<1>3. Run' = Run
      BY DEF Finish, Run
<1> QED BY <1>1, <1>2, <1>3 DEF Finish, CredentialsTypeOK

\* Every step of a credential script keeps the types.
LEMMA CredentialsTypes == CredentialsTypeOK /\ CredentialsNext => CredentialsTypeOK'
<1> SUFFICES ASSUME CredentialsTypeOK, CredentialsNext PROVE CredentialsTypeOK'
    OBVIOUS
<1>0. Run \in Value /\ (script # "none" => script \in Scripts)
      BY RunNumber DEF Value, CredentialsTypeOK
<1>1. CASE StartAws
  <2>1. Begin("aws") /\ "aws" \in Scripts
        BY <1>1 DEF StartAws, Scripts
  <2>2. value' \in [Creds -> Value]
        BY <1>1, <2>1, BeginTypes DEF StartAws, CredentialsTypeOK
  <2>3. left' \subseteq Creds /\ unapplied' \subseteq Copies /\ podFailed' \in BOOLEAN
        BY <1>1 DEF StartAws, CredentialsTypeOK, Creds
  <2> QED BY <2>1, <2>2, <2>3, BeginTypes DEF CredentialsTypeOK
<1>2. ASSUME NEW m \in Masters, CreateMaster(m) PROVE CredentialsTypeOK'
  <2>1. m \in Cloud /\ m \in Creds
        BY DEF Cloud, Creds
  <2>2. resource' \in [Cloud -> Value] /\ left' \subseteq Creds /\ Run' = Run
        BY <1>2, <2>1 DEF CreateMaster, Created, CredentialsTypeOK, Run
  <2> QED BY <1>2, <2>2 DEF CreateMaster, history, CredentialsTypeOK
<1>3. ASSUME NEW r \in Roles, CreateRole(r) PROVE CredentialsTypeOK'
  <2>1. r \in Cloud /\ r \in Creds
        BY DEF Cloud, Creds
  <2>2. Created(r) \in [Cloud -> Value]
        BY <2>1 DEF Created, CredentialsTypeOK
  <2>3. resource' \in [Cloud -> Value] /\ podFailed' \in BOOLEAN
        BY <1>3, <2>2 DEF CreateRole, CredentialsTypeOK
  <2>4. left' \subseteq Creds /\ Run' = Run
        BY <1>3 DEF CreateRole, CredentialsTypeOK, Run
  <2> QED BY <1>3, <2>3, <2>4 DEF CreateRole, CredentialsTypeOK
<1>4. CASE SaveAws
  <2>1. env' \in [Creds -> Value] /\ script # "none" /\ Finish("completed")
        BY <1>4, CredentialsAssumption DEF SaveAws, CredentialsTypeOK, Value
  <2>2. wiped' \in BOOLEAN /\ stopped' \subseteq Value /\ erased' \subseteq erased
        BY <1>4 DEF SaveAws, CredentialsTypeOK
  <2> QED BY <2>1, <2>2, FinishTypes
<1>5. CASE StartSecrets
  <2>1. Begin("secrets") /\ "secrets" \in Scripts
        BY <1>5 DEF StartSecrets, Scripts
  <2>2. value' \in [Creds -> Value] /\ left' \subseteq Creds /\ unapplied' \subseteq Copies
        /\ podFailed' \in BOOLEAN
        BY <1>5 DEF StartSecrets, CredentialsTypeOK, Creds
  <2> QED BY <2>1, <2>2, BeginTypes DEF CredentialsTypeOK
<1>6. ASSUME NEW c \in Generated, Generate(c) PROVE CredentialsTypeOK'
  <2>1. c \in Creds
        BY DEF Creds
  <2>2. value' \in [Creds -> Value] /\ left' \subseteq Creds /\ Run' = Run
        BY <1>0, <1>6, <2>1 DEF Generate, CredentialsTypeOK, Run
  <2>3. env' \in [Creds -> Value]
        BY <1>6, <2>1, <2>2 DEF Generate, CredentialsTypeOK
  <2> QED BY <1>6, <2>2, <2>3 DEF Generate, history, CredentialsTypeOK
<1>7. ASSUME NEW s \in Copies, ApplySecret(s) PROVE CredentialsTypeOK'
  <2>1. s[1] \in Creds
        BY CredentialsAssumption
  <2>2. secret' \in [Copies -> Value] /\ unapplied' \subseteq Copies /\ Run' = Run
        BY <1>7, <2>1 DEF ApplySecret, Applied, CredentialsTypeOK, Run
  <2> QED BY <1>7, <2>2 DEF ApplySecret, history, CredentialsTypeOK
<1>8. CASE SaveSecrets
  <2>1. env' \in [Creds -> Value] /\ script # "none" /\ Finish("completed")
        BY <1>8 DEF SaveSecrets, CredentialsTypeOK
  <2>2. wiped' \in BOOLEAN /\ stopped' \subseteq Value /\ erased' \subseteq erased
        BY <1>8 DEF SaveSecrets, CredentialsTypeOK
  <2> QED BY <2>1, <2>2, FinishTypes
<1>9. CASE Stop
  <2>1. /\ stopped' \subseteq Value /\ env' \in [Creds -> Value] /\ wiped' \in BOOLEAN
        /\ erased' \subseteq erased
        BY <1>0, <1>9 DEF Stop, CredentialsTypeOK
  <2> QED BY <1>9, <2>1, FinishTypes DEF Stop
<1>10. CASE EmptyFile
  <2>1. env' \in [Creds -> Value] /\ wiped' \in BOOLEAN /\ Run' = Run
        BY <1>10, CredentialsAssumption DEF EmptyFile, CredentialsTypeOK, Value, Run
  <2>2. Run \in 0..Run
        BY RunNumber
  <2> QED BY <1>10, <2>1, <2>2 DEF EmptyFile, process, CredentialsTypeOK
<1> QED BY <1>1, <1>2, <1>3, <1>4, <1>5, <1>6, <1>7, <1>8, <1>9, <1>10 DEF CredentialsNext

\* Every step of the deployment keeps the types.
LEMMA DeployTypes == DeployTypeOK /\ DeployNext => DeployTypeOK'
<1> SUFFICES ASSUME DeployTypeOK, DeployNext PROVE DeployTypeOK'
    OBVIOUS
<1> USE DEF DeployTypeOK, Steps, Contents
<1>1. deploys' \in 0..MaxDeploys /\ kills' \in 0..MaxKills
  <2> USE DeployAssumption
  <2>1. CASE StartDeploy
        BY <2>1 DEF StartDeploy
  <2>2. CASE Kill
        BY <2>2 DEF Kill, Exit
  <2>3. CASE UNCHANGED <<deploys, kills>>
        BY <2>3
  <2> QED BY <2>1, <2>2, <2>3 DEF DeployNext, Fill, MoveAway, CopyIn, Arm, Sync, RestoreRemove,
             RestoreReturn, Disarm, Manifests, Fail, Command, Exit
<1>2. deployed' \in BOOLEAN /\ unguarded' \in BOOLEAN
      BY DEF DeployNext, StartDeploy, Kill, Fill, MoveAway, CopyIn, Arm, Sync, RestoreRemove,
         RestoreReturn, Disarm, Manifests, Fail, Command, Exit
<1>3. step' \in Steps \union {"idle"} /\ trap' \in {"none", "cleanup", "restore"}
      BY DEF DeployNext, StartDeploy, Kill, Fill, MoveAway, CopyIn, Arm, Sync, RestoreRemove,
         RestoreReturn, Disarm, Manifests, Fail, Command, Exit
<1>4. dir' \in Contents /\ backup' \in Contents
      BY DEF DeployNext, StartDeploy, Kill, Fill, MoveAway, CopyIn, Arm, Sync, RestoreRemove,
         RestoreReturn, Disarm, Manifests, Fail, Command, Exit, Trap
<1> QED BY <1>1, <1>2, <1>3, <1>4

\* Every step keeps the types.
LEMMA NextTypes == TypeOK /\ [Next]_vars => TypeOK'
<1> SUFFICES ASSUME TypeOK, [Next]_vars PROVE TypeOK'
    OBVIOUS
<1>0. CredentialsTypeOK /\ DeployTypeOK
      BY DEF TypeOK
<1>a. UNCHANGED credentials => CredentialsTypeOK'
      BY <1>0 DEF credentials, process, store, history, CredentialsTypeOK, Run
<1>b. UNCHANGED deployment => DeployTypeOK'
      BY <1>0 DEF deployment, DeployTypeOK
<1>1. CASE Credentials
      BY <1>0, <1>1, <1>b, CredentialsTypes DEF Credentials, TypeOK
<1>2. CASE DeployControlPlane
      BY <1>0, <1>2, <1>a, DeployTypes DEF DeployControlPlane, TypeOK
<1>3. CASE DeployPlatform
  <2>1. DeployTypeOK'
        BY <1>0, <1>3 DEF DeployPlatform, DeployTypeOK
  <2> QED BY <1>3, <1>a, <2>1 DEF DeployPlatform, TypeOK
<1>4. ASSUME NEW c \in Generated, Boot(c) PROVE TypeOK'
  <2>1. registered' \in [Generated -> Value] /\ Run' = Run
        BY <1>0, <1>4 DEF Boot, FirstBoot, CredentialsTypeOK, Run
  <2>2. CredentialsTypeOK'
        BY <1>0, <1>4, <2>1 DEF Boot, FirstBoot, process, history, CredentialsTypeOK
  <2> QED BY <1>4, <1>b, <2>2 DEF Boot, TypeOK
<1>5. CASE UNCHANGED vars
      BY <1>5, <1>a, <1>b DEF vars, TypeOK
<1> QED BY <1>1, <1>2, <1>3, <1>4, <1>5 DEF Next

\* Types hold of every behaviour, for any Secrets and any number of runs.
THEOREM ProvisioningTypes == Spec => []TypeOK
<1> QED BY InitTypes, NextTypes, PTL DEF Spec

-----------------------------------------------------------------------------
\* Each step of the deployment keeps DeployInv.
LEMMA NextDeploy == TypeOK /\ DeployInv /\ [Next]_vars => DeployInv'
<1> SUFFICES ASSUME TypeOK, DeployInv, [Next]_vars PROVE DeployInv'
    OBVIOUS
<1>1. CASE DeployNext
  <2>1. CASE StartDeploy
        BY <2>1 DEF StartDeploy, DeployInv
  <2>2. CASE Fill
        BY <2>2 DEF Fill, Command, DeployInv
  <2>3. CASE MoveAway
        BY <2>3 DEF MoveAway, Command, DeployInv
  <2>4. CASE CopyIn
        BY <2>4 DEF CopyIn, Command, DeployInv
  <2>5. CASE Arm
        BY <2>5 DEF Arm, Command, DeployInv
  <2>6. CASE Sync
        BY <2>6 DEF Sync, Command, DeployInv
  <2>7. CASE RestoreRemove
        BY <2>7 DEF RestoreRemove, Command, DeployInv
  <2>8. CASE RestoreReturn
        BY <2>8 DEF RestoreReturn, Command, DeployInv
  <2>9. CASE Disarm
        BY <2>9 DEF Disarm, Command, DeployInv
  <2>10. CASE Manifests
        BY <2>10 DEF Manifests, Trap, Exit, DeployInv
  <2>11. CASE Fail
    <3>1. step \in Steps
          BY <2>11 DEF Fail, TypeOK, DeployTypeOK
    <3> QED BY <2>11, <3>1 DEF Fail, Trap, Exit, DeployInv, Steps
  <2>12. CASE Kill
    <3>1. kills \in 0..MaxKills
          BY DEF TypeOK, DeployTypeOK
    <3>2. kills' # 0
          BY <2>12, <3>1, DeployAssumption DEF Kill
    <3> QED BY <3>2 DEF DeployInv
  <2> QED BY <1>1, <2>1, <2>2, <2>3, <2>4, <2>5, <2>6, <2>7, <2>8, <2>9, <2>10, <2>11, <2>12
          DEF DeployNext
<1>2. CASE UNCHANGED <<step, dir, backup, trap, kills, unguarded>>
      BY <1>2 DEF DeployInv
<1> QED BY <1>1, <1>2 DEF Next, Credentials, DeployControlPlane, DeployPlatform, Boot, vars,
           deployment

\* The Helm values are put back by any run of the deployment that is not killed
\* and does not fail in the two commands the trap does not cover, whatever was
\* run before it.
THEOREM Restored == Spec => []ValuesRestored
<1>1. Init => DeployInv
      BY DEF Init, DeployInit, DeployInv
<1>2. DeployInv => ValuesRestored
      BY DEF DeployInv, ValuesRestored
<1> QED BY <1>1, <1>2, NextDeploy, ProvisioningTypes, PTL DEF Spec

-----------------------------------------------------------------------------
(* Passwords of the cloud's resources.                                      *)

\* Credentials of the cloud are none of the generated ones.
LEMMA CloudFacts ==
    /\ "db" \in Cloud /\ Masters \subseteq Cloud /\ Roles \subseteq Cloud
    /\ Cloud \subseteq Creds /\ Generated \subseteq Creds /\ Kept \subseteq Generated
    /\ Cloud \intersect Generated = {} /\ "db" \in Masters /\ "db" \notin Roles
BY CredentialsAssumption DEF Cloud, Masters, Creds, Generated

\* Of what is said about passwords, nothing depends on the rest of the state.
LEMMA PasswordsElsewhere ==
    ASSUME PasswordInv,
           UNCHANGED <<edition, script, left, value, env, resource, runs, outcome, stopped,
                       podFailed, erased>>
    PROVE  PasswordInv'
<1>1. Run' = Run
      BY DEF Run
<1>2. \A c : MakesUp(c)' <=> MakesUp(c)
      BY DEF MakesUp
<1>3. Outcomes' /\ NothingYet' /\ Emptied' /\ MastersMade'
      BY <1>1 DEF PasswordInv, Outcomes, NothingYet, Emptied, MastersMade
<1>4. Drawn'
      BY <1>1 DEF PasswordInv, Drawn, MakesUp
<1>5. Known' /\ Made'
      BY <1>1 DEF PasswordInv, Known, Made, Intact
<1> QED BY <1>3, <1>4, <1>5 DEF PasswordInv

\* A run of aws starts with the passwords of what exists, for the control plane,
\* and for the single cluster when nothing does.
LEMMA StartAwsPasswords ==
    ASSUME TypeOK, PasswordInv, StartAws
    PROVE  PasswordInv'
<1> USE CloudFacts
<1>0. CredentialsTypeOK /\ "aws" \in Scripts /\ Begin("aws") /\ script = "none"
      BY DEF TypeOK, StartAws, Scripts, Begin
<1>1. runs["aws"] \in Nat /\ runs'["aws"] = runs["aws"] + 1
      BY <1>0, CredentialsAssumption DEF Begin, CredentialsTypeOK, Value
<1>2. UNCHANGED <<edition, env, resource, secret, registered, stopped, erased>>
      /\ script' = "aws"
      BY <1>0 DEF Begin, store
<1>a. Run' \notin erased
  <2>1. Run \in Nat /\ Run' = Run + 1
        BY <1>0, RunNumber
  <2> QED BY <1>0, <2>1 DEF CredentialsTypeOK
<1>b. Emptied' /\ (Intact' => Intact)
      BY <1>0, <1>2, <1>a DEF Emptied, Intact
<1>3. Outcomes'
      BY <1>0, <1>2 DEF Outcomes, Begin, CredentialsTypeOK
<1>4. NothingYet'
      BY <1>1 DEF NothingYet
<1>5. \A c \in Cloud : value'[c] = IF MakesUp(c) THEN Run' ELSE env[c]
      BY DEF StartAws
<1>6. Drawn'
      BY <1>2, <1>5 DEF Drawn, MakesUp
<1>7. Known'
  <2> SUFFICES ASSUME Intact, NEW c \in Cloud, resource[c] \notin {0} \union stopped,
                      edition = "controlplane" \/ runs'["aws"] <= 1
               PROVE  resource[c] = value'[c]
      BY <1>2, <1>b DEF Known
  <2>1. edition = "controlplane"
    <3>1. runs["aws"] # 0
          BY DEF PasswordInv, NothingYet
    <3> QED BY <1>1, <3>1
  <2>2. resource[c] = env[c]
        BY <1>0, <2>1 DEF PasswordInv, Known
  <2> QED BY <1>5, <2>1, <2>2 DEF MakesUp
<1>8. MastersMade' /\ Made'
      BY <1>2 DEF StartAws, MastersMade, Made
<1> QED BY <1>3, <1>4, <1>b, <1>6, <1>7, <1>8 DEF PasswordInv

\* A password that is about to be used is one.
LEMMA DrawnIsSome ==
    ASSUME TypeOK, PasswordInv, script = "aws", left # {}, NEW c \in Cloud
    PROVE  value[c] # 0
<1>1. runs["aws"] \in Nat /\ runs["secrets"] \in Nat /\ runs["aws"] # 0
      BY CredentialsAssumption DEF TypeOK, CredentialsTypeOK, Scripts, Value, PasswordInv,
         NothingYet
<1>2. Run # 0
      BY <1>1 DEF Run
<1>3. edition \in {"single", "controlplane"}
      BY CredentialsAssumption DEF TypeOK, CredentialsTypeOK
<1>4. Run \notin erased
      BY DEF PasswordInv, Emptied
<1> QED BY <1>2, <1>3, <1>4 DEF PasswordInv, Drawn, MakesUp

\* What is created gets the password of the run that creates it.
LEMMA CreatePasswords ==
    ASSUME TypeOK, PasswordInv, script = "aws", NEW c \in Cloud, c \in left,
           resource' = Created(c), left' = left \ {c},
           c \in Masters \/ left \intersect Masters = {},
           UNCHANGED <<edition, script, value, env, runs, outcome, stopped, podFailed, erased>>
    PROVE  PasswordInv'
<1> USE CloudFacts
<1>1. value[c] # 0
      BY DrawnIsSome
<1>2. resource' = [resource EXCEPT ![c] = IF @ = 0 THEN value[c] ELSE @]
      /\ resource \in [Cloud -> Value]
      BY DEF Created, TypeOK, CredentialsTypeOK
<1>3. \A d \in Cloud : resource'[d] = IF d = c /\ resource[d] = 0 THEN value[d]
                                      ELSE resource[d]
      BY <1>2
<1>4. Run' = Run
      BY DEF Run
<1>5. Outcomes' /\ NothingYet' /\ Emptied' /\ (Intact' <=> Intact)
      BY <1>4 DEF PasswordInv, Outcomes, NothingYet, Emptied, Intact
<1>6. Drawn'
      BY <1>4 DEF PasswordInv, Drawn, MakesUp
<1>7. Known'
      BY <1>3, <1>5 DEF PasswordInv, Known
<1>8. MastersMade'
      BY <1>1, <1>3 DEF PasswordInv, MastersMade
<1>9. Made'
  <2> SUFFICES ASSUME Intact, edition = "controlplane", ~podFailed,
                      resource'["db"] \notin stopped \ {0},
                      NEW d \in Cloud, resource'[d] = 0
               PROVE  d \in left'
      BY <1>5 DEF Made
  <2>1. d # c /\ resource[d] = 0
        BY <1>1, <1>3
  <2>2. resource["db"] \notin stopped \ {0}
        BY <1>3
  <2> QED BY <2>1, <2>2 DEF PasswordInv, Made
<1> QED BY <1>5, <1>6, <1>7, <1>8, <1>9 DEF PasswordInv

\* A role that is not created, by a pod that says it worked, was refused to a run
\* whose password of the instance is not the one it has.
LEMMA RefusedRole ==
    ASSUME TypeOK, PasswordInv, script = "aws", left \intersect Masters = {}, ~LogsIn,
           NEW r \in Roles, left' = left \ {r},
           UNCHANGED <<edition, script, value, env, resource, runs, outcome, stopped,
                       podFailed, erased>>
    PROVE  PasswordInv'
<1> USE CloudFacts
<1>1. Run' = Run
      BY DEF Run
<1>2. Outcomes' /\ NothingYet' /\ Emptied' /\ MastersMade' /\ (Intact' <=> Intact)
      BY <1>1 DEF PasswordInv, Outcomes, NothingYet, Emptied, MastersMade, Intact
<1>3. Drawn'
      BY <1>1 DEF PasswordInv, Drawn, MakesUp
<1>4. Known'
      BY <1>2 DEF PasswordInv, Known
<1>5. resource["db"] # 0
      BY DEF PasswordInv, MastersMade
<1>6. edition = "controlplane" /\ Intact => resource["db"] \in stopped
      BY <1>5 DEF PasswordInv, Known, LogsIn
<1>7. Made'
      BY <1>2, <1>5, <1>6 DEF Made
<1> QED BY <1>2, <1>3, <1>4, <1>7 DEF PasswordInv

\* The same for a pod that fails.
LEMMA FailedPod ==
    ASSUME PasswordInv, script = "aws", left \intersect Masters = {}, podFailed',
           NEW r \in Roles, left' = left \ {r},
           UNCHANGED <<edition, script, value, env, resource, runs, outcome, stopped, erased>>
    PROVE  PasswordInv'
<1> USE CloudFacts
<1>1. Run' = Run
      BY DEF Run
<1>2. Outcomes' /\ NothingYet' /\ Emptied' /\ MastersMade' /\ (Intact' <=> Intact)
      BY <1>1 DEF PasswordInv, Outcomes, NothingYet, Emptied, MastersMade, Intact
<1>3. Drawn'
      BY <1>1 DEF PasswordInv, Drawn, MakesUp
<1>4. Known'
      BY <1>2 DEF PasswordInv, Known
<1>5. Made'
      BY DEF Made
<1> QED BY <1>2, <1>3, <1>4, <1>5 DEF PasswordInv

\* A run that ends leaves behind what it knew: a completed one has written it, a
\* stopped one had it from the file, except for what it made up itself.
LEMMA EndPasswords ==
    ASSUME TypeOK, PasswordInv, NEW result \in {"completed", "stopped"},
           Finish(result), script \in Scripts,
           \/ /\ \A c \in Cloud : env'[c] = IF script = "aws" THEN value[c] ELSE env[c]
              /\ stopped' = stopped
              /\ script = "aws" => left \intersect Cloud = {}
              /\ result = "completed"
              /\ erased' = IF script = "aws" THEN erased \ {Run} ELSE erased
           \/ /\ env' = env /\ stopped' = stopped \union {Run} /\ erased' = erased
              /\ result = "stopped"
    PROVE  PasswordInv'
<1> USE CloudFacts
<1>1. outcome' = [outcome EXCEPT ![script] = result] /\ script' = "none"
      /\ UNCHANGED <<edition, resource, runs, podFailed>>
      BY DEF Finish
<1>2. Outcomes' /\ NothingYet' /\ Emptied' /\ Drawn' /\ MastersMade'
      BY <1>1 DEF PasswordInv, Outcomes, NothingYet, Emptied, Drawn, MastersMade, Scripts
<1>a. Intact' => Intact /\ (result = "stopped" => Run \notin erased)
      BY <1>1 DEF Intact
<1>3. Known'
  <2> SUFFICES ASSUME Intact', NEW c \in Cloud, resource[c] \notin {0} \union stopped',
                      edition = "controlplane" \/ runs["aws"] <= 1
               PROVE  resource[c] = env'[c]
      BY <1>1 DEF Known
  <2>1. resource[c] = IF script = "aws" THEN value[c] ELSE env[c]
        BY <1>a DEF PasswordInv, Known
  <2>2. CASE result = "completed"
        BY <2>1, <2>2
  <2>3. CASE result = "stopped"
    <3>1. env' = env /\ resource[c] # Run
          BY <2>3
    <3>2. script = "aws" => value[c] = IF MakesUp(c) THEN Run ELSE env[c]
          BY <1>a, <2>3 DEF PasswordInv, Drawn
    <3> QED BY <2>1, <3>1, <3>2
  <2> QED BY <2>2, <2>3
<1>4. Made'
  <2> SUFFICES ASSUME Intact', edition = "controlplane", ~podFailed,
                      resource["db"] \notin stopped' \ {0}, outcome'["aws"] = "completed",
                      NEW c \in Cloud
               PROVE  resource[c] # 0
      BY <1>1 DEF Made
  <2>1. script = "aws" \/ outcome["aws"] = "completed"
        BY <1>1 DEF TypeOK, CredentialsTypeOK
  <2>2. resource["db"] \notin stopped \ {0}
        OBVIOUS
  <2>3. script = "aws" => result = "completed"
        BY <1>1 DEF TypeOK, CredentialsTypeOK
  <2> QED BY <1>a, <2>1, <2>2, <2>3 DEF PasswordInv, Made
<1> QED BY <1>1, <1>2, <1>3, <1>4 DEF PasswordInv

\* Every step of a credential script keeps what is said about passwords.
LEMMA CredentialsPasswords ==
    ASSUME TypeOK, PasswordInv, CredentialsNext
    PROVE  PasswordInv'
<1> USE CloudFacts
<1>1. CASE StartAws
      BY <1>1, StartAwsPasswords
<1>2. ASSUME NEW m \in Masters, CreateMaster(m) PROVE PasswordInv'
      BY <1>2, CreatePasswords DEF CreateMaster, history
<1>3. ASSUME NEW r \in Roles, CreateRole(r) PROVE PasswordInv'
  <2>1. CASE LogsIn /\ resource' = Created(r) /\ UNCHANGED podFailed
        BY <1>3, <2>1, CreatePasswords DEF CreateRole
  <2>2. CASE ~LogsIn /\ resource' = resource /\ UNCHANGED podFailed
        BY <1>3, <2>2, RefusedRole DEF CreateRole
  <2>3. CASE podFailed' = TRUE /\ UNCHANGED resource
        BY <1>3, <2>3, FailedPod DEF CreateRole
  <2> QED BY <1>3, <2>1, <2>2, <2>3 DEF CreateRole
<1>4. CASE SaveAws
  <2>1. \A c \in Cloud : env'[c] = value[c]
        BY <1>4 DEF SaveAws
  <2> QED BY <1>4, <2>1, EndPasswords DEF SaveAws, Scripts
<1>5. CASE StartSecrets
  <2>1. script = "none" /\ script' = "secrets" /\ runs'["aws"] = runs["aws"]
        /\ outcome' = [outcome EXCEPT !["secrets"] = "running"]
        /\ UNCHANGED <<edition, env, resource, stopped, podFailed, erased>>
        BY <1>5 DEF StartSecrets, Begin, store, TypeOK, CredentialsTypeOK, Scripts
  <2>2. Outcomes' /\ NothingYet' /\ Emptied' /\ Drawn' /\ MastersMade' /\ (Intact' <=> Intact)
        BY <2>1 DEF PasswordInv, Outcomes, NothingYet, Emptied, Drawn, MastersMade, Intact,
           Scripts, TypeOK, CredentialsTypeOK
  <2>3. Known' /\ Made'
        BY <2>1, <2>2 DEF PasswordInv, Known, Made, TypeOK, CredentialsTypeOK, Scripts
  <2> QED BY <2>2, <2>3 DEF PasswordInv
<1>6. ASSUME NEW c \in Generated, Generate(c) PROVE PasswordInv'
  <2>1. script = "secrets" /\ c \notin Cloud
        /\ UNCHANGED <<edition, script, resource, runs, outcome, stopped, podFailed, erased>>
        BY <1>6 DEF Generate, history
  <2>2. \A d \in Cloud : env'[d] = env[d]
        BY <1>6, <2>1 DEF Generate, TypeOK, CredentialsTypeOK
  <2>3. Outcomes' /\ NothingYet' /\ Emptied' /\ Drawn' /\ MastersMade' /\ (Intact' <=> Intact)
        BY <2>1 DEF PasswordInv, Outcomes, NothingYet, Emptied, Drawn, MastersMade, Intact
  <2>4. Known' /\ Made'
        BY <2>1, <2>2, <2>3 DEF PasswordInv, Known, Made
  <2> QED BY <2>3, <2>4 DEF PasswordInv
<1>7. ASSUME NEW s \in Copies, ApplySecret(s) PROVE PasswordInv'
      BY <1>7, PasswordsElsewhere DEF ApplySecret, history
<1>8. CASE SaveSecrets
  <2>1. \A c \in Cloud : env'[c] = env[c]
        BY <1>8 DEF SaveSecrets
  <2> QED BY <1>8, <2>1, EndPasswords DEF SaveSecrets, Scripts
<1>9. CASE Stop
  <2>1. script \in Scripts
        BY <1>9 DEF Stop, TypeOK, CredentialsTypeOK
  <2> QED BY <1>9, <2>1, EndPasswords DEF Stop
<1>10. CASE EmptyFile
  <2>1. /\ script = "aws" /\ left = {} /\ Run' = Run /\ erased' = erased \union {Run}
        /\ UNCHANGED <<edition, script, left, value, resource, runs, outcome, stopped, podFailed>>
        BY <1>10 DEF EmptyFile, process, Run
  <2>2. Outcomes' /\ NothingYet' /\ Emptied' /\ Drawn' /\ MastersMade' /\ (Intact' => Intact)
        BY <2>1 DEF PasswordInv, Outcomes, NothingYet, Emptied, Drawn, MastersMade, Intact
  <2>3. Known' /\ Made'
        BY <2>1, <2>2 DEF PasswordInv, Known, Made
  <2> QED BY <2>2, <2>3 DEF PasswordInv
<1> QED BY <1>1, <1>2, <1>3, <1>4, <1>5, <1>6, <1>7, <1>8, <1>9, <1>10 DEF CredentialsNext

\* So does every step of the system.
LEMMA NextPasswords == TypeOK /\ PasswordInv /\ [Next]_vars => PasswordInv'
<1> SUFFICES ASSUME TypeOK, PasswordInv, [Next]_vars PROVE PasswordInv'
    OBVIOUS
<1>1. CASE CredentialsNext
      BY <1>1, CredentialsPasswords
<1>2. CASE UNCHANGED <<edition, script, left, value, env, resource, runs, outcome, stopped,
                       podFailed, erased>>
      BY <1>2, PasswordsElsewhere
<1> QED BY <1>1, <1>2 DEF Next, Credentials, DeployControlPlane, DeployPlatform, Boot,
           FirstBoot, vars, credentials, process, store, history

\* Nothing is there to be known in the initial state.
LEMMA InitPasswords == Init => PasswordInv
<1> SUFFICES ASSUME Init PROVE PasswordInv
    OBVIOUS
<1>1. Outcomes /\ NothingYet /\ Emptied /\ Drawn /\ MastersMade
      BY DEF Init, CredentialsInit, Outcomes, NothingYet, Emptied, Drawn, MastersMade, Scripts
<1>2. Known
      BY DEF Init, CredentialsInit, Known
<1>3. outcome["aws"] # "completed"
      BY DEF Init, CredentialsInit, Scripts
<1>4. Made
      BY <1>3 DEF Init, CredentialsInit, Made
<1> QED BY <1>1, <1>2, <1>4 DEF PasswordInv

\* No password of a resource is lost but by a run that was stopped before it had
\* written its file (01-create-aws-resources.sh, phase3a/00-create-aws-resources.sh).
THEOREM Passwords == Spec => []PasswordsAreKnown
<1>1. TypeOK /\ PasswordInv => PasswordsAreKnown
  <2> SUFFICES ASSUME TypeOK, PasswordInv, erased = {}, NEW c \in Cloud,
                      resource[c] \notin {0} \union stopped,
                      script = "aws" => resource[c] # Run,
                      edition = "controlplane" \/ runs["aws"] = 1
               PROVE  env[c] = resource[c]
      BY DEF PasswordsAreKnown
  <2>1. resource[c] = IF script = "aws" THEN value[c] ELSE env[c]
        BY DEF PasswordInv, Known, Intact
  <2>2. script = "aws" => value[c] = IF MakesUp(c) THEN Run ELSE env[c]
        BY DEF PasswordInv, Drawn
  <2> QED BY <2>1, <2>2
<1> QED BY <1>1, InitPasswords, NextPasswords, ProvisioningTypes, PTL DEF Spec

\* A completed run of phase3a/00-create-aws-resources.sh in which no pod failed
\* leaves nothing out.
THEOREM Repairs == Spec => []RerunRepairs
<1>1. PasswordInv => RerunRepairs
  <2> SUFFICES ASSUME PasswordInv, edition = "controlplane", script = "none",
                      outcome["aws"] = "completed", ~podFailed, erased = {},
                      \A c \in Cloud : resource[c] \notin stopped,
                      NEW c \in Cloud
               PROVE  resource[c] # 0 /\ resource[c] = env[c]
      BY DEF RerunRepairs, Idle
  <2>1. resource[c] # 0
        BY CloudFacts DEF PasswordInv, Made, Intact
  <2> QED BY <2>1 DEF PasswordInv, Known, Intact
<1> QED BY <1>1, InitPasswords, NextPasswords, ProvisioningTypes, PTL DEF Spec

-----------------------------------------------------------------------------
(* Generated credentials.                                                  *)

\* A Secret is for a credential.
LEMMA SecretFacts == \A s \in Copies : s[1] \in Creds
BY CredentialsAssumption

\* Of what is said about generated credentials, nothing depends on the rest.
LEMMA SecretsElsewhere ==
    ASSUME SecretInv, script # "secrets" \/ UNCHANGED <<left, unapplied, value>>,
           UNCHANGED <<edition, script, env, secret, outcome, wiped, registered>>
    PROVE  SecretInv'
<1>1. Outcomes' /\ InFile' /\ Agreed'
      BY DEF SecretInv, Outcomes, InFile, Agreed
<1>2. KeptNeverRotate' /\ Given'
      BY DEF SecretInv, KeptNeverRotate, Given
<1> QED BY <1>1, <1>2 DEF SecretInv

\* A script that starts has the file in its variables, and every Secret to apply.
LEMMA BeginSecrets ==
    ASSUME TypeOK, SecretInv, NEW s \in Scripts, Begin(s),
           s = "secrets" => value' = env /\ unapplied' = Copies
    PROVE  SecretInv'
<1>1. UNCHANGED <<edition, env, secret, registered, wiped>> /\ script' = s
      BY DEF Begin, store
<1>2. Outcomes' /\ outcome' = [outcome EXCEPT ![s] = "running"]
      BY <1>1 DEF Begin, Outcomes, TypeOK, CredentialsTypeOK
<1>3. InFile' /\ Given'
      BY <1>1 DEF InFile, Given
<1>4. KeptNeverRotate' /\ Agreed'
      BY <1>1, <1>2 DEF SecretInv, KeptNeverRotate, Agreed, TypeOK, CredentialsTypeOK, Scripts
<1> QED BY <1>2, <1>3, <1>4 DEF SecretInv

\* A script that ends leaves the file, or has made the Secrets and the file agree.
LEMMA EndSecrets ==
    ASSUME TypeOK, SecretInv, NEW result \in {"completed", "stopped"}, Finish(result),
           script \in Scripts,
           edition = "controlplane" /\ ~wiped' =>
               ~wiped /\ \A c \in Kept : env'[c] = env[c],
           edition = "single" /\ (script = "aws" \/ result = "stopped") =>
               \A c \in Generated : env'[c] = env[c],
           edition = "single" /\ script = "secrets" /\ result = "completed" =>
               unapplied = {} /\ \A c \in Generated : env'[c] = value[c]
    PROVE  SecretInv'
<1> USE CloudFacts
<1>1. outcome' = [outcome EXCEPT ![script] = result] /\ script' = "none"
      /\ UNCHANGED <<edition, secret, registered>>
      BY DEF Finish
<1>2. Outcomes' /\ InFile' /\ Given'
      BY <1>1 DEF Outcomes, InFile, Given, Scripts
<1>3. KeptNeverRotate'
      BY <1>1 DEF SecretInv, KeptNeverRotate
<1>4. Agreed'
  <2> SUFFICES ASSUME edition = "single", outcome'["secrets"] = "completed",
                      NEW s \in Copies, s[1] \in Generated
               PROVE  secret[s] = env'[s[1]]
      BY <1>1 DEF Agreed
  <2>1. CASE script = "secrets"
    <3>1. result = "completed"
          BY <1>1, <2>1 DEF TypeOK, CredentialsTypeOK, Scripts
    <3> QED BY <2>1, <3>1 DEF SecretInv, Given
  <2>2. CASE script = "aws"
    <3>1. outcome["secrets"] = "completed"
          BY <1>1, <2>2 DEF TypeOK, CredentialsTypeOK, Scripts
    <3> QED BY <2>2, <3>1 DEF SecretInv, Agreed
  <2> QED BY <2>1, <2>2 DEF Scripts
<1> QED BY <1>1, <1>2, <1>3, <1>4 DEF SecretInv

\* A value that is made up is in no Secret of its run yet, and when it is kept it
\* is in no Secret at all.
LEMMA GenerateSecrets ==
    ASSUME TypeOK, SecretInv, NEW c \in Generated, Generate(c)
    PROVE  SecretInv'
<1> USE CloudFacts
<1>1. c \in Creds /\ c \in left /\ script = "secrets" /\ left' = left \ {c}
      /\ UNCHANGED <<edition, script, unapplied, secret, registered, outcome, wiped>>
      BY DEF Generate, history
<1>2. \A d \in Creds : d # c => value'[d] = value[d] /\ env'[d] = env[d]
      BY DEF Generate, TypeOK, CredentialsTypeOK
<1>3. KeptNeverRotate'
  <2> SUFFICES ASSUME edition = "controlplane", ~wiped
               PROVE  /\ \A s \in Copies : s[1] \in Kept => secret[s] \in {0, env'[s[1]]}
                      /\ \A d \in Kept : registered[d] \in {0, env'[d]}
      BY <1>1 DEF KeptNeverRotate
  <2>1. c \in Kept /\ env[c] # 0 => env'[c] = env[c]
    <3>1. c \in Kept => value[c] = env[c]
          BY <1>1 DEF SecretInv, InFile
    <3> QED BY <1>1, <3>1 DEF Generate, KeepsAtOnce, TypeOK, CredentialsTypeOK
  <2>2. \A d \in Kept : env[d] # 0 => env'[d] = env[d]
        BY <1>2, <2>1
  <2>3. KeptNeverRotate
        BY DEF SecretInv
  <2> QED BY <2>2, <2>3 DEF KeptNeverRotate
<1>4. InFile'
  <2>1. c \in Kept /\ edition = "controlplane" => env'[c] = value'[c]
        BY <1>1 DEF Generate, KeepsAtOnce, TypeOK, CredentialsTypeOK
  <2> QED BY <1>1, <1>2, <2>1 DEF SecretInv, InFile
<1>5. Given'
      BY <1>1, <1>2, SecretFacts DEF SecretInv, Given
<1>6. Outcomes' /\ Agreed'
      BY <1>1 DEF SecretInv, Outcomes, Agreed, Scripts
<1> QED BY <1>3, <1>4, <1>5, <1>6 DEF SecretInv

\* A Secret gets what the script has, which for a kept value is in the file.
LEMMA ApplySecrets ==
    ASSUME TypeOK, SecretInv, NEW s \in Copies, ApplySecret(s)
    PROVE  SecretInv'
<1>1. script = "secrets" /\ s[1] \notin left /\ unapplied' = unapplied \ {s}
      /\ UNCHANGED <<edition, script, left, value, env, registered, outcome, wiped>>
      BY DEF ApplySecret, history
<1>2. \A t \in Copies : secret'[t] = IF t = s THEN value[s[1]] ELSE secret[t]
      BY DEF ApplySecret, Applied, TypeOK, CredentialsTypeOK
<1>3. KeptNeverRotate'
      BY <1>1, <1>2 DEF SecretInv, KeptNeverRotate, InFile
<1>4. Given' /\ InFile'
      BY <1>1, <1>2 DEF SecretInv, Given, InFile
<1>5. Outcomes' /\ Agreed'
      BY <1>1 DEF SecretInv, Outcomes, Agreed, Scripts
<1> QED BY <1>3, <1>4, <1>5 DEF SecretInv

\* Every step of a credential script keeps what is said about them.
LEMMA CredentialsSecrets ==
    ASSUME TypeOK, SecretInv, CredentialsNext
    PROVE  SecretInv'
<1> USE CloudFacts
<1>1. CASE StartAws
      BY <1>1, BeginSecrets DEF StartAws, Scripts
<1>2. ASSUME NEW m \in Masters, CreateMaster(m) PROVE SecretInv'
      BY <1>2, SecretsElsewhere DEF CreateMaster, history
<1>3. ASSUME NEW r \in Roles, CreateRole(r) PROVE SecretInv'
      BY <1>3, SecretsElsewhere DEF CreateRole
<1>4. CASE SaveAws
  <2>1. script = "aws" /\ Finish("completed") /\ wiped' = wiped
        /\ env' = [c \in Creds |-> IF c \in Cloud THEN value[c] ELSE env[c]]
        BY <1>4 DEF SaveAws
  <2>2. \A c \in Generated : env'[c] = env[c]
        BY <2>1
  <2> QED BY <2>1, <2>2, EndSecrets DEF Scripts
<1>5. CASE StartSecrets
      BY <1>5, BeginSecrets DEF StartSecrets, Scripts
<1>6. ASSUME NEW c \in Generated, Generate(c) PROVE SecretInv'
      BY <1>6, GenerateSecrets
<1>7. ASSUME NEW s \in Copies, ApplySecret(s) PROVE SecretInv'
      BY <1>7, ApplySecrets
<1>8. CASE SaveSecrets
  <2>1. script = "secrets" /\ unapplied = {} /\ Finish("completed") /\ wiped' = wiped
        /\ env' = [c \in Creds |-> IF c \in Generated /\ Appends THEN value[c] ELSE env[c]]
        BY <1>8 DEF SaveSecrets
  <2>2. edition = "single" => \A c \in Generated : env'[c] = value[c]
        BY <2>1 DEF Appends
  <2>3. edition = "controlplane" => \A c \in Kept : env'[c] = env[c]
        BY <2>1 DEF Appends
  <2> QED BY <2>1, <2>2, <2>3, EndSecrets DEF Scripts
<1>9. CASE Stop
  <2>1. script \in Scripts
        BY <1>9 DEF Stop, TypeOK, CredentialsTypeOK
  <2> QED BY <1>9, <2>1, EndSecrets DEF Stop
<1>10. CASE EmptyFile
  <2>1. /\ script = "aws" /\ edition # "single"
        /\ wiped' = (wiped \/ \E c \in Kept : env[c] # 0)
        /\ \A c \in Creds : env'[c] = 0
        /\ UNCHANGED <<edition, script, secret, registered, outcome>>
        BY <1>10 DEF EmptyFile, process, Appends
  <2>2. KeptNeverRotate'
        BY <2>1 DEF SecretInv, KeptNeverRotate
  <2>3. Outcomes' /\ InFile' /\ Given' /\ Agreed'
        BY <2>1 DEF SecretInv, Outcomes, InFile, Given, Agreed
  <2> QED BY <2>2, <2>3 DEF SecretInv
<1> QED BY <1>1, <1>2, <1>3, <1>4, <1>5, <1>6, <1>7, <1>8, <1>9, <1>10 DEF CredentialsNext

\* So does every step of the system; a server takes what is in its Secret.
LEMMA NextSecrets == TypeOK /\ SecretInv /\ [Next]_vars => SecretInv'
<1> SUFFICES ASSUME TypeOK, SecretInv, [Next]_vars PROVE SecretInv'
    OBVIOUS
<1>1. CASE CredentialsNext
      BY <1>1, CredentialsSecrets
<1>2. CASE UNCHANGED credentials
      BY <1>2, SecretsElsewhere DEF credentials, process, store, history
<1>3. ASSUME NEW c \in Generated, Boot(c) PROVE SecretInv'
  <2>1. UNCHANGED <<edition, script, left, unapplied, value, env, secret, outcome, wiped>>
        /\ <<c, "server">> \in Copies /\ <<c, "server">>[1] = c
        /\ registered' = [registered EXCEPT ![c] = secret[<<c, "server">>]]
        BY <1>3 DEF Boot, FirstBoot, process, history
  <2>2. Outcomes' /\ InFile' /\ Agreed' /\ Given'
        BY <2>1 DEF SecretInv, Outcomes, InFile, Agreed, Given
  <2>3. KeptNeverRotate'
    <3> SUFFICES ASSUME edition = "controlplane", ~wiped
                 PROVE  \A d \in Kept : registered'[d] \in {0, env[d]}
        BY <2>1 DEF SecretInv, KeptNeverRotate
    <3>1. c \in Kept => secret[<<c, "server">>] \in {0, env[c]}
          BY <2>1 DEF SecretInv, KeptNeverRotate
    <3>2. \A d \in Kept : registered[d] \in {0, env[d]}
          BY DEF SecretInv, KeptNeverRotate
    <3> QED BY <2>1, <3>1, <3>2, CloudFacts DEF TypeOK, CredentialsTypeOK
  <2> QED BY <2>2, <2>3 DEF SecretInv
<1> QED BY <1>1, <1>2, <1>3 DEF Next, Credentials, DeployControlPlane, DeployPlatform, vars

\* Nobody has a credential in the initial state.
LEMMA InitSecrets == Init => SecretInv
<1> SUFFICES ASSUME Init PROVE SecretInv
    OBVIOUS
<1>1. Outcomes /\ InFile /\ Given
      BY DEF Init, CredentialsInit, Outcomes, InFile, Given, Scripts
<1>2. KeptNeverRotate /\ Agreed
      BY CloudFacts DEF Init, CredentialsInit, KeptNeverRotate, Agreed, Scripts
<1> QED BY <1>1, <1>2 DEF SecretInv

\* Kept credentials are the same in the file, in every Secret and in every server
\* (phase3a/01-create-secrets.sh 28-64), until the other script empties the file.
THEOREM KeptStay == Spec => []KeptNeverRotate
<1>1. SecretInv => KeptNeverRotate
      BY DEF SecretInv
<1> QED BY <1>1, InitSecrets, NextSecrets, ProvisioningTypes, PTL DEF Spec

\* A completed run of 02-create-secrets.sh gives everybody the same credentials.
THEOREM Agreement == Spec => []CompletedRunAgrees
<1>1. SecretInv => CompletedRunAgrees
      BY DEF SecretInv, Agreed, CompletedRunAgrees
<1> QED BY <1>1, InitSecrets, NextSecrets, ProvisioningTypes, PTL DEF Spec

-----------------------------------------------------------------------------
(* The scripts that connect the clusters to the observability cluster      *)

\* The commands for a cell: CELL_KF names its file, and each command finds what
\* the one before it has made.
CellCommands ==
    /\ pc \in {"write", "trap", "account", "wait", "remote", "label", "clean"} => cell \in Cells
    /\ pc \in {"write", "trap", "account"} => cell \in kubeconfigs
    /\ pc = "wait" => cell \in accounts
    /\ pc = "remote" => cell \in populated
    /\ pc = "label" => cell \in remotes

\* A file is there while the commands for its cell run, which after the first two
\* are under the trap, or until the next cell, of a cell that was skipped.
FilesLeft ==
    /\ pc = "cells" /\ cell # None => cell \in skipped /\ armed
    /\ pc \notin {"cells", "write", "trap", "account", "wait", "remote", "label", "clean"} => cell = None
    /\ pc \in {"account", "wait", "remote", "label", "clean"} => armed
    /\ orphans \subseteq skipped \union exposed

\* What is half done is about to be done, or a run was stopped when it was.
Halves ==
    /\ "label" \in cut \/ \A c \in remotes \ labelled : pc = "label" /\ c = cell
    /\ "reapply" \in cut \/ (file = "hostname" /\ proxy # file => pc = "reapply")

ObservabilityInv == ObservabilityTypeOK /\ CellCommands /\ FilesLeft /\ Halves

\* A controller makes what is not there yet; the scripts go on as they were.
LEMMA ControllersKeep ==
    ASSUME ObservabilityInv, Controllers
    PROVE  ObservabilityInv'
<1>1. CASE InstallOperator
  BY <1>1 DEF InstallOperator, Platform, ObservabilityInv, ObservabilityTypeOK, CellCommands, FilesLeft,
              Halves, targets, metrics, kiali, files
<1>2. CASE AssignHostname
  BY <1>2 DEF AssignHostname, Platform, ObservabilityInv, ObservabilityTypeOK, CellCommands, FilesLeft,
              Halves, targets, metrics, kiali, files
<1>3. ASSUME NEW c \in Clusters, GenerateToken(c) PROVE ObservabilityInv'
  BY <1>3 DEF GenerateToken, Platform, ObservabilityInv, ObservabilityTypeOK, CellCommands, FilesLeft,
              Halves, targets, metrics, kiali, files
<1>4. ASSUME NEW c \in Cells, ProvisionCell(c) PROVE ObservabilityInv'
  BY <1>4 DEF ProvisionCell, Platform, ObservabilityInv, ObservabilityTypeOK, CellCommands, FilesLeft,
              Halves, targets, metrics, kiali, files
<1>5. ASSUME NEW c \in Cells, PopulateToken(c) PROVE ObservabilityInv'
  BY <1>5 DEF PopulateToken, Platform, ObservabilityInv, ObservabilityTypeOK, CellCommands, FilesLeft,
              Halves, targets, metrics, kiali, files
<1> QED
  BY <1>1, <1>2, <1>3, <1>4, <1>5 DEF Controllers

\* The end of a process, however it comes about, when what is half done and the
\* file that is left are accounted for.
LEMMA ProcessEndsKeeps ==
    ASSUME ObservabilityInv, ProcessEnds, cut \subseteq cut', faults' \in 0..MaxFaults,
           UNCHANGED <<given, remotes, labelled, platform, file, manifests, accounts, skipped>>,
           orphans' \subseteq orphans \union Held, exposed' \subseteq exposed \union Held,
           orphans' \subseteq skipped \union exposed',
           proxy' = proxy \/ proxy' = file,
           pc = "label" => "label" \in cut',
           pc = "reapply" => "reapply" \in cut' \/ proxy' = file
    PROVE  ObservabilityInv'
<1>1. ObservabilityTypeOK'
  <2>1. orphans' \subseteq Cells /\ exposed' \subseteq Cells
    BY DEF Held, ObservabilityInv, ObservabilityTypeOK
  <2> QED
    BY <2>1 DEF ProcessEnds, ObservabilityInv, ObservabilityTypeOK, platform
<1>2. CellCommands' /\ FilesLeft'
  BY DEF ProcessEnds, ObservabilityInv, CellCommands, FilesLeft
<1>3. Halves'
  BY DEF ProcessEnds, ObservabilityInv, Halves
<1> QED
  BY <1>1, <1>2, <1>3 DEF ObservabilityInv

\* When a script ends the file is gone, but for the window before its trap.
LEMMA TrapRemoves ==
    ASSUME ObservabilityInv, EndRun, pc \notin {"write", "trap"} \/ armed
    PROVE  orphans' = orphans
BY DEF EndRun, Held, ObservabilityInv, FilesLeft, CellCommands, ObservabilityTypeOK

\* The commands of 03-apply-obs-manifests.sh.
LEMMA ManifestsKeep ==
    ASSUME ObservabilityInv, StartManifests \/ RunManifests
    PROVE  ObservabilityInv'
<1> USE DEF ObservabilityInv, ObservabilityTypeOK, CellCommands, FilesLeft, Halves, targets, platform, kiali, files
<1>1. CASE StartManifests
  BY <1>1 DEF StartManifests, StartRun, Goto, metrics
<1>2. CASE WaitForCRDs
  BY <1>2 DEF WaitForCRDs, metrics
<1>3. CASE ApplyManifests
  BY <1>3 DEF ApplyManifests, Goto
<1>4. CASE ReadHostname
  <2>1. PICK got \in BOOLEAN : Reads(hostname, got) /\ seen' = got
    BY <1>4 DEF ReadHostname
  <2>2. faults' \in 0..MaxFaults
    BY <2>1, ObservabilityAssumption DEF Reads
  <2> QED
    BY <1>4, <2>1, <2>2 DEF ReadHostname, Goto
<1>5. ASSUME NEW c \in Clusters, ReadToken(c) PROVE ObservabilityInv'
  <2>1. PICK got \in BOOLEAN : /\ Reads(c \in tokens, got)
                               /\ read' = IF got THEN read \union {c} ELSE read
    BY <1>5 DEF ReadToken
  <2>2. faults' \in 0..MaxFaults /\ (got => c \in tokens)
    BY <2>1, ObservabilityAssumption DEF Reads
  <2>3. read' \subseteq tokens
    BY <2>1, <2>2
  <2> QED
    BY <1>5, <2>2, <2>3 DEF ReadToken
<1>6. ASSUME NEW c \in Clusters, DistributeToken(c) PROVE ObservabilityInv'
  BY <1>6 DEF DistributeToken, metrics
<1>7. CASE ReplacePlaceholder
  BY <1>7 DEF ReplacePlaceholder, Goto, Endpoints
<1>8. CASE LeaveEndpoint
  <2>1. orphans' = orphans
    BY <1>8, TrapRemoves DEF LeaveEndpoint
  <2> QED
    BY <1>8, <2>1, ProcessEndsKeeps DEF LeaveEndpoint, EndRun
<1>9. CASE Reapply
  <2>1. orphans' = orphans
    BY <1>9, TrapRemoves DEF Reapply
  <2> QED
    BY <1>9, <2>1, ProcessEndsKeeps DEF Reapply, EndRun
<1> QED
  BY <1>1, <1>2, <1>3, <1>4, <1>5, <1>6, <1>7, <1>8, <1>9 DEF RunManifests

\* The commands of 04-configure-kiali-remotes.sh.
LEMMA KialiKeeps ==
    ASSUME ObservabilityInv, StartKiali \/ RunKiali
    PROVE  ObservabilityInv'
<1> USE DEF ObservabilityInv, ObservabilityTypeOK, CellCommands, FilesLeft, Halves, targets, platform, metrics
<1>1. CASE StartKiali
  BY <1>1, ObservabilityAssumption DEF StartKiali, StartRun, Goto
<1>2. ASSUME NEW c \in Cells, NextCell(c) PROVE ObservabilityInv'
  <2>1. PICK got \in BOOLEAN :
            /\ Reads(c \in kubeconfigs, got)
            /\ IF got
               THEN /\ orphans' = orphans \union Held
                    /\ cell' = c /\ pc' = "write"
               ELSE UNCHANGED <<orphans, cell, pc>>
    BY <1>2 DEF NextCell
  <2>2. faults' \in 0..MaxFaults /\ (got => c \in kubeconfigs)
    BY <2>1, ObservabilityAssumption DEF Reads
  <2>3. /\ pc = "cells" /\ todo' = todo \ {c}
        /\ UNCHANGED <<targets, platform, metrics, accounts, armed, skipped, exposed, cut>>
    BY <1>2 DEF NextCell
  <2>4. CASE got
    <3>1. orphans' \subseteq skipped \union exposed
      BY <2>1, <2>3, <2>4 DEF Held
    <3> QED
      BY <2>1, <2>2, <2>3, <2>4, <3>1
  <2>5. CASE ~got
    BY <2>1, <2>2, <2>3, <2>5
  <2> QED
    BY <2>4, <2>5
<1>3. CASE CreateAccount
  BY <1>3 DEF CreateAccount, Goto, files
<1>4. CASE WaitForToken
  <2>1. PICK got \in BOOLEAN :
            /\ Reads(cell \in populated, got)
            /\ pc' = IF got THEN "remote" ELSE "cells"
            /\ skipped' = IF got THEN skipped ELSE skipped \union {cell}
    BY <1>4 DEF WaitForToken
  <2>2. faults' \in 0..MaxFaults /\ (got => cell \in populated)
    BY <2>1, ObservabilityAssumption DEF Reads
  <2>3. /\ pc = "wait"
        /\ UNCHANGED <<targets, platform, metrics, accounts, orphans, cell, armed, exposed, todo, cut>>
    BY <1>4 DEF WaitForToken
  <2> QED
    BY <2>1, <2>2, <2>3
<1>5. CASE CreateRemote
  BY <1>5 DEF CreateRemote, Goto, kiali, files
<1>6. CASE LabelRemote
  BY <1>6 DEF LabelRemote, Goto, kiali, files
<1>7. CASE RemoveKubeconfig
  BY <1>7 DEF RemoveKubeconfig, Goto
<1>8. CASE WriteKubeconfig
  BY <1>8 DEF WriteKubeconfig, Goto, kiali, files
<1>9. CASE SetTrap
  BY <1>9 DEF SetTrap, Goto
<1>10. CASE FinishKiali
  <2>1. orphans' = orphans
    BY <1>10, TrapRemoves DEF FinishKiali
  <2> QED
    BY <1>10, <2>1, ProcessEndsKeeps DEF FinishKiali, EndRun
<1> QED
  BY <1>1, <1>2, <1>3, <1>4, <1>5, <1>6, <1>7, <1>8, <1>9, <1>10 DEF RunKiali

\* Every step keeps the invariant.
LEMMA ScriptStepKeeps == ObservabilityInv /\ [ObservabilityNext]_observability => ObservabilityInv'
<1> SUFFICES ASSUME ObservabilityInv, [ObservabilityNext]_observability PROVE ObservabilityInv'
  OBVIOUS
<1>1. CASE ApplyHelmChartProxies
  BY <1>1 DEF ApplyHelmChartProxies, ObservabilityInv, ObservabilityTypeOK, CellCommands, FilesLeft, Halves,
              platform, metrics, kiali, files
<1>2. CASE StopRun
  <2>1. faults' \in 0..MaxFaults
    BY <1>2, ObservabilityAssumption DEF StopRun, Interrupted, ObservabilityInv, ObservabilityTypeOK
  <2>2. orphans' \subseteq orphans \union Held /\ exposed' \subseteq exposed \union Held
    BY <1>2 DEF StopRun, EndRun
  <2>3. CASE pc \in {"write", "trap"} /\ ~armed
    <3>1. orphans' \subseteq skipped \union exposed'
      BY <1>2, <2>2, <2>3 DEF StopRun, ObservabilityInv, FilesLeft
    <3> QED
      BY <1>2, <2>1, <2>2, <3>1, ProcessEndsKeeps DEF StopRun, Interrupted, EndRun, targets
  <2>4. CASE pc \notin {"write", "trap"} \/ armed
    <3>1. orphans' = orphans /\ exposed' = exposed
      BY <1>2, <2>4, TrapRemoves DEF StopRun
    <3>2. orphans' \subseteq skipped \union exposed'
      BY <3>1 DEF ObservabilityInv, FilesLeft
    <3> QED
      BY <1>2, <2>1, <2>2, <3>2, ProcessEndsKeeps DEF StopRun, Interrupted, EndRun, targets
  <2> QED
    BY <2>3, <2>4
<1>3. CASE KillRun
  <2>1. faults' \in 0..MaxFaults
    BY <1>3, ObservabilityAssumption DEF KillRun, Interrupted, ObservabilityInv, ObservabilityTypeOK
  <2>2. orphans' \subseteq skipped \union exposed'
    BY <1>3 DEF KillRun, ObservabilityInv, FilesLeft
  <2> QED
    BY <1>3, <2>1, <2>2, ProcessEndsKeeps DEF KillRun, Interrupted, targets
<1>4. CASE UNCHANGED observability
  BY <1>4 DEF observability, ObservabilityInv, ObservabilityTypeOK, CellCommands, FilesLeft, Halves
<1> QED
  BY <1>1, <1>2, <1>3, <1>4, ControllersKeep, ManifestsKeep, KialiKeeps DEF ObservabilityNext

\* Every reachable state satisfies it.
LEMMA ObservabilityInvariant == ObservabilitySpec => []ObservabilityInv
<1>1. ASSUME ObservabilityInit PROVE ObservabilityInv
  <2>1. \A b \in {operator, manifests, hostname, seen, armed} : b \in BOOLEAN
    BY <1>1 DEF ObservabilityInit
  <2>2. faults \in 0..MaxFaults
    BY <1>1, ObservabilityAssumption DEF ObservabilityInit
  <2>3. ObservabilityTypeOK
    BY <1>1, <2>1, <2>2 DEF ObservabilityInit, ObservabilityTypeOK, Endpoints
  <2>4. CellCommands /\ FilesLeft /\ Halves
    BY <1>1 DEF ObservabilityInit, CellCommands, FilesLeft, Halves
  <2> QED
    BY <2>3, <2>4 DEF ObservabilityInv
<1> QED
  BY <1>1, ScriptStepKeeps, PTL DEF ObservabilitySpec

\* Every reachable state has its types: a token that was given was generated, a
\* remote Secret has a token that is there, a label is on a Secret.
THEOREM ObservabilityTypes == ObservabilitySpec => []ObservabilityTypeOK
<1>1. ObservabilityInv => ObservabilityTypeOK
  BY DEF ObservabilityInv
<1> QED
  BY <1>1, ObservabilityInvariant, PTL

\* What is half done when no script runs was left by a run that was stopped
\* between the two commands.
THEOREM Halfway == ObservabilitySpec => []OnlyStopsLeaveHalves
<1>1. ObservabilityInv => OnlyStopsLeaveHalves
  BY DEF ObservabilityInv, ObservabilityTypeOK, Halves, OnlyStopsLeaveHalves
<1> QED
  BY <1>1, ObservabilityInvariant, PTL

\* The only files that a run leaves for good are of cells that it skipped after
\* theirs was written, and the one it had when it was killed, or was stopped before
\* its first trap.
THEOREM Kubeconfigs == ObservabilitySpec => []KubeconfigsAreRemoved
<1>1. ObservabilityInv => KubeconfigsAreRemoved
  BY DEF ObservabilityInv, FilesLeft, KubeconfigsAreRemoved
<1> QED
  BY <1>1, ObservabilityInvariant, PTL
=============================================================================

------------------------ MODULE ObservabilityScripts ------------------------
(***************************************************************************)
(* The scripts of scripts/phase3b that connect the clusters to the         *)
(* observability cluster: 02-apply-helmchartproxies.sh,                    *)
(* 03-apply-obs-manifests.sh and 04-configure-kiali-remotes.sh.  An        *)
(* operator runs them, one at a time, in any order and again and again; a  *)
(* run may be stopped or killed at any command, and what its commands read *)
(* is written by controllers that take their time.                         *)
(*                                                                         *)
(* A read that fails is taken for one that found nothing ("|| echo").      *)
(* The loops take clusters in an order that is left open.                  *)
(***************************************************************************)
EXTENDS Naturals

CONSTANTS
    Clusters,   \* all that send metrics
    Cells,      \* those Kiali looks into
    None,
    MaxFaults   \* bound: runs that are stopped or killed, reads that fail

ASSUME ObservabilityAssumption ==
    /\ Cells \subseteq Clusters /\ None \notin Clusters
    /\ MaxFaults \in Nat

VARIABLES
    file,        \* the endpoint in helmchartproxy-vmagent.yaml
    proxy,       \* the endpoint in the HelmChartProxy that was applied, or "none"
    operator,    \* the VM operator and its CRDs are there
    manifests,   \* the observability manifests were applied
    hostname,    \* the load balancer of VMAuth has its hostname
    tokens,      \* clusters with a password in the Secret the script reads
    given,       \* clusters that have been given their token
    kubeconfigs, \* cells whose kubeconfig Secret CAPI has made
    accounts,    \* cells with a service account and a Secret for its token
    populated,   \* those in whose Secret the token is
    remotes,     \* cells with a remote Secret on the observability cluster
    labelled,    \* those Kiali can discover
    orphans,     \* cells whose kubeconfig the last run of a script left in /tmp for good
    pc,          \* the next command, "idle" when no script runs
    todo,        \* clusters the loop of the script has still to come to
    seen,        \* NLB_HOSTNAME is not PENDING
    read,        \* clusters with a CLUSTER_TOKEN
    cell,        \* the cell of the file that CELL_KF names, or None
    armed,       \* the EXIT trap is set: it removes the file that CELL_KF names by then
    faults,
    cut,         \* history: between which two commands that belong together runs were stopped
    skipped,     \* history: cells the last run skipped after their file was written
    exposed      \* history: cells it ended in the middle of, with no trap to remove the file

targets  == <<proxy, given, remotes, labelled>>
platform == <<operator, hostname, tokens, kubeconfigs, populated>>
metrics  == <<file, manifests, seen, read>>
files    == <<orphans, cell, armed, skipped, exposed>>
kiali    == <<accounts, files>>
observability ==
    <<file, proxy, operator, manifests, hostname, tokens, given, kubeconfigs, accounts,
      populated, remotes, labelled, orphans, pc, todo, seen, read, cell, armed, faults,
      cut, skipped, exposed>>

\* The file as it is committed has the endpoint of an installation of before; the
\* scripts are written for one that has a placeholder.
ObservabilityInit ==
    /\ file \in {"placeholder", "earlier"}
    /\ proxy = "none"
    /\ operator = FALSE /\ manifests = FALSE /\ hostname = FALSE
    /\ tokens = {} /\ given = {}
    /\ kubeconfigs = {} /\ accounts = {} /\ populated = {}
    /\ remotes = {} /\ labelled = {} /\ orphans = {}
    /\ pc = "idle" /\ todo = {}
    /\ seen = FALSE /\ read = {}
    /\ cell = None /\ armed = FALSE
    /\ faults = 0 /\ cut = {} /\ skipped = {} /\ exposed = {}

Goto(from, to) == pc = from /\ pc' = to

\* A run makes files of its own: those of the runs before it are left alone.
StartRun ==
    /\ orphans' = {} /\ skipped' = {} /\ exposed' = {}
    /\ UNCHANGED <<cell, armed>>

\* What a command reads: what is there, or nothing when it fails.
Reads(there, found) ==
    \/ found = there /\ UNCHANGED faults
    \/ there /\ ~found /\ faults < MaxFaults /\ faults' = faults + 1

\* The cells whose file CELL_KF names: none, or one.
Held == {cell} \ {None}

\* The process is gone, and with it its variables and its trap.
ProcessEnds ==
    /\ pc' = "idle"
    /\ cell' = None /\ armed' = FALSE
    /\ seen' = FALSE /\ read' = {} /\ todo' = {}

\* A script ends, and bash runs its EXIT trap if there is one.
EndRun ==
    /\ ProcessEnds
    /\ orphans' = IF armed THEN orphans ELSE orphans \union Held

-----------------------------------------------------------------------------
(* Controllers of the clusters                                             *)

Platform(changed) ==
    UNCHANGED <<targets, metrics, kiali, pc, todo, faults, cut, changed>>

InstallOperator ==
    /\ proxy # "none"
    /\ operator' = TRUE
    /\ Platform(<<hostname, tokens, kubeconfigs, populated>>)

AssignHostname ==
    /\ manifests
    /\ hostname' = TRUE
    /\ Platform(<<operator, tokens, kubeconfigs, populated>>)

\* Somebody may put a password into the Secret vmuser-cluster-<c>, or nobody: the
\* VMUsers that are applied have a tokenRef, and nothing in the repository makes
\* that Secret.
GenerateToken(c) ==
    /\ manifests /\ operator
    /\ tokens' = tokens \union {c}
    /\ Platform(<<operator, hostname, kubeconfigs, populated>>)

ProvisionCell(c) ==
    /\ kubeconfigs' = kubeconfigs \union {c}
    /\ Platform(<<operator, hostname, tokens, populated>>)

PopulateToken(c) ==
    /\ c \in accounts
    /\ populated' = populated \union {c}
    /\ Platform(<<operator, hostname, tokens, kubeconfigs>>)

Controllers ==
    \/ InstallOperator
    \/ AssignHostname
    \/ \E c \in Clusters : GenerateToken(c)
    \/ \E c \in Cells : ProvisionCell(c) \/ PopulateToken(c)

-----------------------------------------------------------------------------
(* 02-apply-helmchartproxies.sh, which waits for nothing it needs          *)

ApplyHelmChartProxies ==
    /\ pc = "idle"
    /\ proxy' = file
    /\ UNCHANGED <<given, remotes, labelled, platform, metrics, kiali, pc, todo, faults, cut>>

-----------------------------------------------------------------------------
(* 03-apply-obs-manifests.sh                                               *)

StartManifests ==
    /\ Goto("idle", "crds")
    /\ StartRun
    /\ UNCHANGED <<targets, platform, metrics, accounts, todo, faults, cut>>

\* Without the CRDs it gives up after ten minutes.
WaitForCRDs ==
    /\ pc = "crds"
    /\ pc' = IF operator THEN "apply" ELSE "idle"
    /\ UNCHANGED <<targets, platform, metrics, kiali, todo, faults, cut>>

\* The waits for VMSingle and VMAuth that follow end either way.
ApplyManifests ==
    /\ Goto("apply", "hostname")
    /\ manifests' = TRUE
    /\ UNCHANGED <<targets, platform, file, seen, read, kiali, todo, faults, cut>>

ReadHostname ==
    /\ Goto("hostname", "tokens")
    /\ \E found \in BOOLEAN : Reads(hostname, found) /\ seen' = found
    /\ todo' = Clusters
    /\ UNCHANGED <<targets, platform, file, manifests, read, kiali, cut>>

ReadToken(c) ==
    /\ pc = "tokens" /\ c \in todo
    /\ \E found \in BOOLEAN :
           /\ Reads(c \in tokens, found)
           /\ read' = IF found THEN read \union {c} ELSE read
    /\ IF todo = {c} THEN pc' = "distribute" /\ todo' = Clusters
                     ELSE pc' = pc /\ todo' = todo \ {c}
    /\ UNCHANGED <<targets, platform, file, manifests, seen, kiali, cut>>

\* A cluster without a token is skipped.
DistributeToken(c) ==
    /\ pc = "distribute" /\ c \in todo
    /\ given' = given \union ({c} \intersect read)
    /\ todo' = todo \ {c}
    /\ pc' = IF todo = {c} THEN "endpoint" ELSE pc
    /\ UNCHANGED <<proxy, remotes, labelled, platform, metrics, kiali, faults, cut>>

ReplacePlaceholder ==
    /\ Goto("endpoint", "reapply")
    /\ seen /\ file = "placeholder"
    /\ file' = "hostname"
    /\ UNCHANGED <<targets, platform, manifests, seen, read, kiali, todo, faults, cut>>

\* "Placeholder already replaced - vmagent already configured", or the operator
\* is told what to do by hand.
LeaveEndpoint ==
    /\ pc = "endpoint"
    /\ ~(seen /\ file = "placeholder")
    /\ EndRun
    /\ UNCHANGED <<targets, platform, file, manifests, accounts, skipped, exposed, faults, cut>>

\* The mutant leaves it to CAAPH to find out.
ReapplyNothing ==
    /\ pc = "reapply"
    /\ EndRun
    /\ UNCHANGED <<targets, platform, file, manifests, accounts, skipped, exposed, faults, cut>>

Reapply ==
    /\ pc = "reapply"
    /\ proxy' = file
    /\ EndRun
    /\ UNCHANGED <<given, remotes, labelled, platform, file, manifests, accounts, skipped, exposed,
                   faults, cut>>

RunManifests ==
    \/ WaitForCRDs \/ ApplyManifests \/ ReadHostname
    \/ \E c \in Clusters : ReadToken(c) \/ DistributeToken(c)
    \/ ReplacePlaceholder \/ LeaveEndpoint \/ Reapply

-----------------------------------------------------------------------------
(* 04-configure-kiali-remotes.sh                                           *)

\* The mutant leaves out the cells that have a Secret.
StartKialiForNew ==
    /\ Goto("idle", "cells")
    /\ todo' = Cells \ remotes
    /\ StartRun
    /\ UNCHANGED <<targets, platform, metrics, accounts, faults, cut>>

StartKiali ==
    /\ Goto("idle", "cells")
    /\ todo' = Cells
    /\ StartRun
    /\ UNCHANGED <<targets, platform, metrics, accounts, faults, cut>>

\* CELL_KF names a new file from now on, and no longer that of a cell that was
\* skipped before.  A cell without a kubeconfig is skipped at once.
NextCell(c) ==
    /\ pc = "cells" /\ c \in todo
    /\ todo' = todo \ {c}
    /\ \E found \in BOOLEAN :
           /\ Reads(c \in kubeconfigs, found)
           /\ IF found
              THEN /\ orphans' = orphans \union Held
                   /\ cell' = c /\ pc' = "write"
              ELSE UNCHANGED <<orphans, cell, pc>>
    /\ UNCHANGED <<targets, platform, metrics, accounts, armed, skipped, exposed, cut>>

\* Without valid base64 the run ends here (StopRun): pipefail.
WriteKubeconfig ==
    /\ Goto("write", "trap")
    /\ UNCHANGED <<targets, platform, metrics, kiali, todo, faults, cut>>

SetTrap ==
    /\ Goto("trap", "account")
    /\ armed' = TRUE
    /\ UNCHANGED <<targets, platform, metrics, accounts, orphans, cell, skipped, exposed, todo,
                   faults, cut>>

CreateAccount ==
    /\ Goto("account", "wait")
    /\ accounts' = accounts \union {cell}
    /\ UNCHANGED <<targets, platform, metrics, files, todo, faults, cut>>

\* A minute for the token; without it, or without the CA or the address of the
\* API server, the cell is skipped and its file stays for now.
WaitForToken ==
    /\ pc = "wait"
    /\ \E found \in BOOLEAN :
           /\ Reads(cell \in populated, found)
           /\ pc' = IF found THEN "remote" ELSE "cells"
           /\ skipped' = IF found THEN skipped ELSE skipped \union {cell}
    /\ UNCHANGED <<targets, platform, metrics, accounts, orphans, cell, armed, exposed, todo, cut>>

\* The Secret is applied without its label; the label it may have stays.
CreateRemote ==
    /\ Goto("remote", "label")
    /\ remotes' = remotes \union {cell}
    /\ UNCHANGED <<proxy, given, labelled, platform, metrics, kiali, todo, faults, cut>>

LabelRemote ==
    /\ Goto("label", "clean")
    /\ labelled' = labelled \union {cell}
    /\ UNCHANGED <<proxy, given, remotes, platform, metrics, kiali, todo, faults, cut>>

\* Mutant: the trap goes and the file does not.
RemoveTrap ==
    /\ Goto("clean", "cells")
    /\ armed' = FALSE
    /\ UNCHANGED <<targets, platform, metrics, accounts, orphans, cell, skipped, exposed, todo,
                   faults, cut>>

RemoveKubeconfig ==
    /\ Goto("clean", "cells")
    /\ cell' = None /\ armed' = FALSE
    /\ UNCHANGED <<targets, platform, metrics, accounts, orphans, skipped, exposed, todo, faults,
                   cut>>

FinishKiali ==
    /\ pc = "cells" /\ todo = {}
    /\ EndRun
    /\ UNCHANGED <<targets, platform, file, manifests, accounts, skipped, exposed, faults, cut>>

RunKiali ==
    \/ \E c \in Cells : NextCell(c)
    \/ WriteKubeconfig \/ SetTrap
    \/ CreateAccount \/ WaitForToken \/ CreateRemote \/ LabelRemote \/ RemoveKubeconfig
    \/ FinishKiali

-----------------------------------------------------------------------------
(* What may happen to a run, and the system                                *)

Interrupted ==
    /\ pc # "idle" /\ faults < MaxFaults
    /\ faults' = faults + 1
    /\ cut' = cut \union ({pc} \intersect {"label", "reapply"})
    /\ UNCHANGED <<targets, platform, file, manifests, accounts, skipped>>

\* A command fails, or the operator stops the run before it.  Between mktemp and
\* the first trap of the run nothing removes the file.
StopRun ==
    /\ Interrupted
    /\ EndRun
    /\ exposed' = IF pc \in {"write", "trap"} /\ ~armed THEN exposed \union Held ELSE exposed

\* The process is killed, or its machine is lost: no trap is run.
KillRun ==
    /\ Interrupted
    /\ ProcessEnds
    /\ orphans' = orphans \union Held
    /\ exposed' = exposed \union Held

ObservabilityNext ==
    \/ Controllers
    \/ ApplyHelmChartProxies
    \/ StartManifests \/ RunManifests
    \/ StartKiali \/ RunKiali
    \/ StopRun \/ KillRun

ObservabilitySpec == ObservabilityInit /\ [][ObservabilityNext]_observability

\* The controllers get done, a script goes on, and the operator runs 03 and 04
\* again and again, as 03 (line 157) asks for.  That he runs 02, and that there
\* are tokens, is not assumed.
ObservabilityFairSpec ==
    /\ ObservabilitySpec
    /\ WF_observability(InstallOperator) /\ WF_observability(AssignHostname)
    /\ \A c \in Cells : WF_observability(ProvisionCell(c)) /\ WF_observability(PopulateToken(c))
    /\ WF_observability(RunManifests) /\ WF_observability(RunKiali)
    /\ SF_observability(StartManifests) /\ SF_observability(StartKiali)

-----------------------------------------------------------------------------
(* Properties                                                              *)

Endpoints == {"placeholder", "earlier", "hostname"}

ObservabilityTypeOK ==
    /\ file \in Endpoints /\ proxy \in Endpoints \union {"none"}
    /\ \A b \in {operator, manifests, hostname, seen, armed} : b \in BOOLEAN
    /\ tokens \subseteq Clusters /\ given \subseteq tokens /\ read \subseteq tokens
    /\ populated \subseteq accounts /\ accounts \subseteq kubeconfigs /\ kubeconfigs \subseteq Cells
    /\ labelled \subseteq remotes /\ remotes \subseteq populated
    /\ \A s \in {orphans, skipped, exposed} : s \subseteq Cells
    /\ todo \subseteq Clusters
    /\ cell \in Cells \union {None}
    /\ pc \in {"idle", "crds", "apply", "hostname", "tokens", "distribute", "endpoint", "reapply",
              "cells", "write", "trap", "account", "wait", "remote", "label", "clean"}
    /\ faults \in 0..MaxFaults

\* When no script runs, a remote Secret that Kiali does not find (04, lines 197 and
\* 200) or an endpoint that is in the file and not applied (03, lines 182 and 187)
\* was left by a run that was stopped between the two commands, and by nothing
\* else: not by a read that failed, a cell that was skipped, a hostname that came
\* late, or runs of the scripts in another order.
OnlyStopsLeaveHalves ==
    pc = "idle" =>
        /\ remotes # labelled => "label" \in cut
        /\ file = "hostname" /\ proxy # file => "reapply" \in cut

\* "Clean up temp kubeconfig" (04, line 208): the only files that a run leaves for
\* good are of cells that it skipped after their file was written (the trap then
\* serves the next cell), the one it had when it was killed, and the one it had when
\* it was stopped between mktemp and its first trap (04, lines 39 to 41): a stop
\* anywhere else, the trap of another cell, and the end of the loop leave none.
KubeconfigsAreRemoved ==
    orphans \subseteq skipped \union exposed

\* Whatever was stopped, killed, skipped or late, running 03 and 04 again makes up
\* for it ("re-run script after VM Operator generates secrets", 03, line 157): in
\* the end Kiali finds every cell, a cluster for which there is a token has it, and,
\* once the operator is there, the placeholder of the file is replaced.  The
\* endpoint is applied as well, unless a run was stopped in between: 03 then takes
\* it for configured (line 190), as it does an endpoint that is committed.
RerunsRepair ==
    /\ <>[](labelled = Cells)
    /\ \A c \in Clusters : c \in tokens ~> c \in given
    /\ operator ~> file # "placeholder"
    /\ file = "hostname" ~> proxy = file \/ "reapply" \in cut
=============================================================================

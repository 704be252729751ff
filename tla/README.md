# A verification development for the Agentix platform

This directory holds TLA+ modules that model the platform's own logic, TLC
configurations that check them on small instances, and TLAPS proofs about them
for every instance. Paths below are relative to the repository's root.

## 1. The system and its parts

The repository is a Kubernetes platform for agents. Most of it configures other
people's software. The code of its own, with state and steps, is this:

| Part | Code | State | Operations |
|---|---|---|---|
| Mycelium controller | `mycelium/internal/controller/krt`, `mycelium/cmd/controller` | derived collections, event queues, the apply each sink waits for; the lease | derive, queue, apply, start, stop |
| Plan-execute graph | `synapse/src/synapse/graphs/plan_execute.py` | `input`, `plan`, `past_steps`, `response` of a thread | plan, execute, replan, two conditional edges |
| Deep research graph | `synapse/src/synapse/graphs/deep_research.py` | `question`, `sub_questions`, `briefs`, `report`, `messages` of a thread | plan, one branch per sub-question, synthesize |
| Supervisor graph | `synapse/src/synapse/graphs/supervisor.py` | `messages`, `next` of a thread | route, delegate, run a worker, finish |
| A2A agent server | `synapse/src/synapse/runtime/server.py` | one handler per request; threads in the checkpointer | `tasks/send`, `tasks/sendSubscribe` |
| Memory | `synapse/src/synapse/memory` | messages in EverMemOS; a collection and its indexes in Atlas | ensure_indexes, remember, recall |
| API types and deep copies | `mycelium/api/v1alpha1` | an object in a shared cache, copies of it | DeepCopy, SetConditions |
| Apply configurations | `mycelium/internal/applyconfiguration` | configurations a program builds, and the pointers between them | constructors and 102 kinds' With methods |
| Credential and deployment scripts | `scripts/01`, `02`, `03`, `scripts/phase3a/00`, `01`, `02` | cloud resources and roles, the file of generated passwords (`.env`, `.env.cp`), Secrets, the directory of Helm values | make up, create, save, apply, swap the values; run again after a stop |
| Observability scripts | `scripts/phase3b/02`, `03`, `04` | the endpoint in a manifest, token Secrets in every cluster, remote Secrets, kubeconfigs in `/tmp` | apply, read what controllers have made, hand out, label, clean up |
| Tenant onboarding | `scripts/05-onboard-tenant.sh`, `scripts/apply.sh`, `tenants/_template` | tenant directories, namespaces | copy, substitute, apply |
| Auto-expose policy | `platform/manifests/kyverno-auto-expose.yaml` | generated routes and servers | generate, synchronize |
| MCP deployer example | `examples/02-dynamic-mcp` | deployed servers, agent's tool list | deploy, poll, attach |

How they interact. The controller and the agents meet only in the cluster: the
controller writes a Namespace per `MyceliumEcosystem` and a ServiceAccount per
`MyceliumAgent`, and leaves deletion to the garbage collector. A graph is a
library object; `AgentServer` runs one per request with messages as input and
the task id as thread id, and a supervisor runs other graphs as its workers.
The checkpointer that keeps a thread between runs is LangGraph's. Memory tools
are called from inside of graphs. The controller's informers share objects of
the API types, which is why they are copied before they are changed; apply
configurations are what a program sends to the cluster instead of objects. The
scripts put all of it into clusters.

What is hard in it:

- *Mycelium*: events that are dropped when their apply fails, objects changed
  without an event, an owner deleted and created again under the same name,
  applies that arrive after the deletion they precede, a former leader's
  request that is executed late.
- *Graphs*: state that a thread keeps from earlier runs; two bounds that may
  stop a run; plans, questions and messages that may be empty; branches that
  return or fail in any order.
- *Server*: handlers that interleave at every await, two runs of one thread,
  a client that leaves, a process that restarts.
- *Scripts*: stopped between two commands and run again, with only the cloud,
  the cluster and a file to remember what was done; failures taken for "done
  before".
- *Observability scripts*: what a command reads is made by a controller that
  may not have come to it, and a read that fails is taken for nothing found; two
  commands where only both together have an effect; files left behind.
- *Memory*: check-then-act on indexes, answers nobody looks at, calls that
  arrive after their sender has given up and has been repeated.
- *API types, apply configurations*: pointers, lists and maps that two values
  share without anyone having meant it; generated code that is older than what
  it was generated from.
- *Policy*: names that collide.

What makes each correct is the list of properties in section 4.

## 2. Plan

Order of work, most important behaviour first; the first ten are done.

1. `KubeCluster`, `MyceliumController`: the controller, with an abstract
   specification of what it may do to a cluster.
2. `PlanExecute`, `DeepResearch`, `Supervisor`: the graphs, each on its own.
3. `AgentServer`: concurrent requests on threads.
4. `Provisioning`, composed of `CredentialScripts` and `DeployScript`: scripts
   stopped at any command and run again.
5. Proofs: types, `ImplementsCluster`, the bounds of `PlanExecute`, the safety of
   `DeepResearch`, `Supervisor`, `AgentServer` and `Provisioning`.
6. `MemoryStores`: both stores, with refused, lost and late calls, and the rank
   fusion of `_hybrid`; types and `SavedIsStored`, `StoredOnce` proved.
7. `MyceliumApiTypes` (every type as a table), `DeepCopy` over it, and
   `Snapshots`, which it implements; `CopiesAreApart` proved for any types.
8. `AgentgatewayConfigurations` (every kind as a table), `ApplyConfigurations`
   over it.
9. `ObservabilityScripts`: scripts that depend on controllers that take their
   time, with liveness.
10. Proofs of what the later modules say: `OwnershipMovesForward` and
    `QuiescentConverged`, the safety of `ObservabilityScripts`, what searches of
    `MemoryStores` return, that `DeepCopy` implements `Snapshots`, and that
    configurations say what was called.
11. Next, modules: the Keycloak and OpenFGA scripts (`phase3a/03`, `04`) as
    sequences that are repeated after a failure, tenant onboarding with
    `apply.sh`, the auto-expose policy, the MCP deployer of `examples/02`.

## 3. Modules and how they correspond to the code

`MC*` modules hold the values TLC instances need; `*Proofs` modules hold the
theorems of a module and nothing else. A definition has the name of the code
it stands for where there is one (`route_after_replan`, `TaskId`, ...);
`PROJECT.json` gives the lines.

### `KubeCluster` and `MyceliumController`

`KubeCluster` is the part of Kubernetes the controller relies on: owners
(custom resources), their objects (Namespace, ServiceAccount) with an owner
reference, background and foreground deletion, garbage collection, the
namespace controller, admission of applies. None of it is the repository's
code. `ClusterSpec` is also the abstract specification of the controller: all
it may do to the cluster is `Claim` an object for an incarnation of the owner of
that name, where the API server admits it.

`MyceliumController` is the code. A key is created several times, and each
incarnation has its number as UID. `Desired` is the transformation of a
collection (nothing for a deleted owner), `Observe` the recomputation of one
entry with the event krt emits, `SkipDelete`, `SendApply`, `ApplySucceeds` and
`ApplyFails` the sink's loop over events, one apply at a time and errors printed
only. The two pipelines run side by side. `BecomeLeader` is `Start` on empty
collections, so every entry of the first list is an addition
(`runExistingState`); `LoseLeadership` ends the process, and a request that is on
its way becomes a stray that may still be executed.

`lost` is a history variable: keys whose object changed without an event for
their pipeline (a failed apply, an apply to a terminating Namespace, a deletion
by someone else, a stray). It says where convergence cannot be expected.

Left out: labels, status conditions, the informers nothing is derived from,
objects that exist before their owner (`ForceOwnership` would adopt them), and
deletion with orphan propagation.

### `PlanExecute`, `DeepResearch`, `Supervisor`

What LangGraph does, as far as the code relies on it: one node (or all branches
of one fan-out) per superstep; what the nodes return is merged when all have
returned; then the edges are asked for what follows. A node that raises ends
the run and leaves the state of the last superstep; so does a superstep beyond
the recursion limit. With a checkpointer the next run of a thread starts at
`START` with the state the last one left. So each model is a sequence of runs, each
of which starts *from nothing* (a new thread, or no checkpointer) or goes on
with the thread of the last one.

`PlanExecute` keeps the length of the plan and of `past_steps` and whether there
is a response. `max_cycles` is any of `CycleBounds` and stays; it is compared after
a step, so `Cycles`, the steps it allows a run, is at least one. Plans have any length, zero included; a response may be empty.
The recursion limit is chosen by the caller of each run, and is given as the
supersteps it leaves (the default of 25 leaves 24 for 12 cycles plus one).
`NoInput` and `NoStep` are the `KeyError` and `IndexError` the nodes raise.

`DeepResearch` keeps who asked (as the turn), and sub-questions and briefs as pairs
of the turn and the position in the plan. `Barrier` is the merge of all briefs when
the last branch has returned.

`Supervisor` keeps messages by kind, worker and turn. A worker is one step that
returns a result, returns what it was given (a worker whose graph adds nothing,
such as a deep research run without sub-questions) or raises.

Left out: texts, prompts, the ReAct sub-agents (one call that returns or
raises), the `store` argument.

### `AgentServer`

One handler per request, with the awaits of the code as the places where others
may run: `Submitted` and `Working` are the two states sent before the message is
read, `Load` is the start of a run (latest state of the thread, input stored),
`Chunk` one streamed artifact, `Store` the end of the run, `Complete` the last
answer. `ThreadId` differs from `TaskId` for `tasks/send` without an id, where
`_invoke` makes up an id of its own. A client may name an id of its own choice, none,
or one that was returned to any client (`Returned`). `BreakStream` is the read of a malformed
message outside of the `try`; `Disconnect` a client leaving a stream, which
cancels the handler and its run (a client that leaves `tasks/send` cancels
nothing); `Restart` the end of the process with a checkpointer that survives it.
What a run stores is what it loaded and its own turn.

Left out: the agent card, `healthz`, the JSON parse error (no state), and the
graph behind the server, which here answers or raises.

### `CredentialScripts`, `DeployScript`, `Provisioning`

`CredentialScripts` has the two scripts that make up passwords, in the two
editions of the repository. A password is the number of the run that made it up.
Of what a script does, only the cloud (`resource`), the cluster (`secret`,
`registered`) and its file (`env`) outlast it; `value` are its shell variables.
`StartAws`, `CreateMaster`, `CreateRole`, `EmptyFile`, `SaveAws` are the first script,
`StartSecrets`, `Generate`, `ApplySecret`, `SaveSecrets` the second; `Stop` is a
command that fails under `set -e`, or the operator, anywhere. The editions
differ in three places: which passwords are made up (`MakesUp`), whether the file
is appended to or overwritten (`Appends`), and whether a generated value is saved
at once (`KeepsAtOnce`). The order of the commands is kept where it matters
(instance and cache before roles, kept values before any Secret) and left open
elsewhere. `EmptyFile` is the shell of the control plane, which empties the file
before `cat` writes it. `stopped`, `podFailed`, `wiped` and `erased` are history:
which runs were stopped, whether a psql pod failed in the last one, whether
generated values went from the file, and which runs emptied it and have not
written it.

`DeployScript` is the swap of the values directory in
`phase3a/02-deploy-control-plane.sh`, one action per command from `cleanup` to the
last manifest; `Fail` ends it with its EXIT trap, `Kill` without. `Provisioning`
composes them: an operator runs one script at a time in any order, and a
deployed server boots when its Secret is there (`FirstBoot`), whatever runs.

Left out: networks, roles, buckets and endpoints (each is created or found
again, and nothing is made up), and which database belongs to which service.

### `MemoryStores`

Either store object, behind the two tools of `base.py`. A process is down,
starting, idle, saving or searching. A start of an agent with Atlas lists the
search indexes once (`ListIndexes`) and creates those that were not in the
answer, one after the other (`CreateIndex`); the creation of an index that has
come into existence since raises, and the process ends and is started again. For
EverMemOS it does nothing.

A save is embed and insert for Atlas, one POST for EverMemOS. `Execute`, the
service's step, happens at any time after the request was sent, also when its
sender has given up: `AnswerAtOnce` and `Answer` are the usual ways, `Timeout` one
that raises while the request is on its way. EverMemOS may refuse an item with an
answer that nobody looks at, after which the model is told "saved". A model that
was told of an error may save the content again (`raised`), one that was told
"saved" does not: that is an assumption about the model. A search of Atlas asks
for two rankings one after the other, with saves of others between them
(`Vector`, `Text`), and fuses them; `Score` is the sum of 1/(k + rank), compared with the
denominators multiplied out. A ranking is any order of some of the items, as long
as it has only the user's (Atlas filters by `user_id`).

Left out: `profile`, `health`, the search methods no tool uses, texts and
vectors.

### `MyceliumApiTypes`, `Snapshots`, `DeepCopy`

`MyceliumApiTypes` is the struct types of the API as a table: for each its fields
that hold a reference (pointer, slice, map) or a struct that does, from
`*_types.go`, and next to it, from `zz_generated.deepcopy.go`, the fields for
which the generated `DeepCopyInto` does more than `*out = *in`, in its order.
Types of other modules (`Condition`, `ObjectMeta`, ...) are leaves whose own copy
is right. `Unions` and `Required` are the rules of validation that say which
references go together.

`DeepCopy` runs that code. Memory maps addresses to structs; `Take` is `*out =
*in`, which copies the references as they are, `CopyField` one statement of
`DeepCopyInto`, in steps, so that the object may be replaced and the other reader
may copy and edit at any point between them. A reader then walks its copy
(`Follow`) and edits it where it is (`Write`, `SetNil`), or calls `SetConditions`,
the one method that changes an object of the API (`ecosystem_types.go` and its
siblings). The object in the cache is only ever replaced (`Publish`), which is
what informers do.

`Snapshots` says what this is for, in four actions without memory: what a reader
takes is the object as it is now, and its edits are seen by nobody else.
`DeepCopy!Taken` is the mapping: a reader has taken what its copy, followed from
the root, looks like once `DeepCopyInto` has returned, and before that what the
object it copies looks like. Copying is then a stutter.

### `AgentgatewayConfigurations`, `ApplyConfigurations`

`AgentgatewayConfigurations` is the With methods of the 102 generated kinds as a
table: what the method does with its argument (sets a pointer to a copy of it,
appends copies, puts entries into a map, keeps the pointer to a part, appends
copies of parts). `ApplyConfigurations` is a program that makes configurations
and calls their methods in any order (`WithValue`, `WithValues`, `WithEntries`,
`WithPart`, `WithElements`). Structs are cells of a sequence. A list of parts
holds copies of what the pointers pointed to, which share what the originals
point to; a part is shared. A nil pointer among the elements panics, after the
elements before it were appended. A value is the number of the call that passed
it, so that a declaration says which call made it what it is.

Left out: `Get` methods, extraction from managed fields (there is none in the
generated code), `NewTypeConverter`, the schema.

### `ObservabilityScripts`

One action per command that changes or reads something that outlasts it; the
loops take clusters in any order, of which the one in the scripts' arrays is
one. `Controllers` are others' steps: CRDs, the load balancer's hostname, CAPI's
kubeconfigs and the tokens of service accounts come at any time, and the
passwords `03` reads at any time or never. A read that fails counts as one that
found nothing (`|| echo ""`), as in `Reads`. The file of a kubeconfig, its contents
and the trap that removes it are three commands (`NextCell`, `WriteKubeconfig`,
`SetTrap`). `EndRun` is the end of a run with its EXIT trap, if it has one by then,
`StopRun` that end at any command, `KillRun` the end without a trap. The Secret
that Kiali reads and the label by which it finds it are two commands
(`CreateRemote`, `LabelRemote`), and so are writing the endpoint to the file and
applying the file (`ReplacePlaceholder`, `Reapply`). `orphans`, `skipped` and
`exposed` speak of the last run, since each run has temporary files of its own.

Left out: waits that end either way, output, `05-verify.sh`, which only reads.

## 4. Runs

All runs set `CHECK_DEADLOCK FALSE`, because every system here may really stop:
users and callers owe nobody a step, and every count of incarnations, turns and
requests is bounded.

| Run | Question | Result |
|---|---|---|
| `mycelium_safety` | Do the sinks converge when nothing is left to do (`QuiescentConverged`), do owner references go forward within one leader (`OwnershipMovesForward`), is every step one the cluster allows a controller (`ImplementsCluster`)? | holds |
| `mycelium_liveness` | Does every owner that stays get its object (`EventuallyConverged`), does a new leader repair what its predecessors left (`RestartRepairs`), do objects of deleted owners go (`OrphansAreCollected`), do foreground deletions end (`DeletionCompletes`)? | holds |
| `planexecute` | Which bound stops a run (`CyclesBounded`, `OwnBoundFirst`, `EveryRunStops`); do runs from nothing use all their cycles (`CyclesAreOwn`)? | holds |
| `research` | Is a report made of the briefs of its own plan (`ReportCoversOwnPlan`), and on what the caller asked (`ReportAnswersCaller`); does a thread hold the briefs of a plan all or not at all (`BriefsAreWhole`); does every run end (`EveryRunEnds`)? | holds |
| `supervisor` | Does each result follow the handoff to its worker (`ResultsAnswerHandoffs`), does a finished run end with the supervisor's message and no handoff open (`EndsWithFinish`), and is every run over some day (`EveryRunEnds`)? | holds |
| `server` | What a client is sent (`StreamsAreWellFormed`), what a thread remembers (`CompletedTurnsKept`), what a run is shown (`ConversationsAreSeparate`), that a request is over some day (`EveryRequestEnds`) | holds |
| `provisioning` | Is every password of a resource in the file (`PasswordsAreKnown`), does a repeated run repair what earlier ones left out (`RerunRepairs`), do kept credentials stay (`KeptNeverRotate`), does everybody have the same ones after a completed run (`CompletedRunAgrees`), are the Helm values put back (`ValuesRestored`)? | holds |
| `configurations` | Does a configuration say what the calls on it said, and each element of a list what the original said when it was added (`DeclarationsFollowCalls`); is a call seen by all that hold the receiver and by nothing that copied it (`CallsReachTheirHolders`)? | holds |
| `apiobjects` | Does a finished copy refer to no memory but its own (`CopiesAreApart`), and are copies snapshots (`ImplementsSnapshots`)? Objects of all ten kinds, without an agent's `status.serviceAccount` | holds |
| `apiobjects_agentstatus` | The same of agents with `status.serviceAccount` | violated: `zz_generated.deepcopy.go:243-255` was not generated again after `agent_types.go:93` was added, so an edit of the copy changes the original |
| `memory` | Is what a model was told is saved stored (`SavedIsStored`), and once (`StoredOnce`); does a search return the user's own items, each once (`RecallIsOwn`), those that both rankings have first (`AgreementComesFirst`); do both indexes come about (`IndexesComeAbout`)? | holds |
| `observability` | Is a pair of commands left half done by a stop only (`OnlyStopsLeaveHalves`), does a run remove the kubeconfigs it wrote to `/tmp` but for the cases named (`KubeconfigsAreRemoved`), does running `03` and `04` again make up for what was stopped, skipped or late (`RerunsRepair`)? | holds |

Types are proved (section 5) and so only run where an invariant of types says more
than that: in `configurations`, `ConfigurationsTypeOK` also says that a list has
copies only.

Bounds, and why they are enough. *Mycelium*: one ecosystem and one agent in it,
so that every ordering between the two pipelines and between Namespace and
ServiceAccount occurs; each created twice in `mycelium_safety`, since deletion
and re-creation is the hard case and a third incarnation meets the same states;
one failed apply, one drift and one handover, anywhere. Refused applies are not
bounded. In `mycelium_liveness` the ecosystem is created once (the two pipelines
are the same code) and admissible applies do not fail, the refused ones do.
*PlanExecute*: three cycles or none, plans of up to three steps, three runs: enough for a
plan to be replaced, for the bound to be reached at each place, and for a run to
meet what two others left. *DeepResearch*: up to three planned sub-questions cut
to two, so that two branches race and the cut is seen, and three runs.
*Supervisor*: two workers, five supersteps, two runs. *AgentServer*: two requests
are what it takes to overlap, to share an id or not, and for one to fail after
the other has completed; the proofs say the same of any number.

*Provisioning*: one role, one kept and one unkept credential, with two users of the
kept one, so that a run can be stopped between them; four runs of the credential
scripts, which is one of each and a repetition of each, stopped anywhere; two
deployments, so that the second meets what the first left; one kill.

*ApplyConfigurations*: three configurations and three calls, which is what it
takes to nest twice, to call a method of a part after it was kept or copied, and
to copy what already shares. Kinds whose methods do the same to the depth of
three configurations are one kind, and methods of a kind that do the same are one
method: the generator has written the same code with other names.

*DeepCopy*: two readers and two versions, so that the object is replaced during a
copy and both copies exist at once; one edit each, since a shared struct shows at
the first. The objects are of every kind, each with all of its optional
references and with none, and one alternative of each union.

*MemoryStores*: two agents of two users, each with an item from before, one
content, so that every save may be a repetition; two saves and one search each,
one call without an answer or one process that ends, at most two results of
rankings of two, `RrfK` 3, which is above their length as the default 60 is.

*ObservabilityScripts*: two clusters, both cells, which is what a loop needs to
skip one and do the other, and to leave one when it is stopped; one stop, kill or
failed read, anywhere. Runs are not bounded: their number is no part of the
state.

Fairness, and why the code justifies it. *Mycelium*: informers and sinks are
running loops (a goroutine each), the garbage collector and the namespace
controller are the cluster's own loops, a request is executed or lost in the
end, and a replica waits for the lease. Users owe nothing, nor does anything
make a leader lose its lease; a sink's call may fail or succeed, and fairness
does not say which. *Graphs*: `Run`, `Node` and `BranchReturns` are steps of an
event loop, and every model or tool call returns or raises. Calls that raise,
new runs and callers are not fair. *Server*: the event loop goes on with every
handler, and a run ends or raises; clients, restarts and chunks are not fair.
*Provisioning* has none: an operator owes no run. *Supervisor*: a run goes on
until it is over, which the recursion limit sees to; new runs are not fair.
*MemoryStores*: an agent that is down is started again (a Deployment's pod), and
its start goes on; saves, searches and faults are not fair. *ObservabilityScripts*:
controllers get done and a script that was started goes on (weak fairness), and
the operator starts `03` and `04` again and again (strong fairness, since a script
can be started only while no other runs), as `03-apply-obs-manifests.sh:157`
asks. That anybody runs `02`, which applies whatever endpoint is in the file, or
makes the Secrets `03` reads, is not assumed; stops and failing reads are not fair.

### Where the code and its docs disagree

`apiobjects_agentstatus` shows one. The modules state more, as properties that
are in no run because they do not hold; TLC finds each violated when it is added
to the instance named here.

- `DriftIsCorrected` (`mycelium_liveness`): `controller.go:56-57` says a drifted
  object is corrected; no handler is registered on the observed collections, so
  nothing happens until the owner changes or the leader does.
- `MaxCyclesIsABound` (`planexecute`): `plan_execute.py:95` calls `max_cycles` a
  bound on iterations; with zero a run executes a step (line 156 comes after it).
- `ServedFromMessages` (`planexecute`): `server.py:91-92` says every template is
  served with messages; the plan-execute graph raises `KeyError` for `input`.
- `ReportAnswersMessage` (`research`): `deep_research.py:85` reads the last
  message for a thread without a question; on an old thread the persisted
  question wins.
- `CompletedTurnsRemembered` (`server`): of two overlapping runs of one thread
  the one that stores last forgets the other's turn.
- `OriginalsNeverModified` (`provisioning`): says
  `phase3a/02-deploy-control-plane.sh:76`; a run that fails between `mv` (line 86)
  and the new trap (line 96) leaves the filled values, or none.

### What else the models show

A property that is stated for runs *from nothing* fails without that condition.
TLC finds, with the condition removed:

- `UpdatedPlanContinues` (in no run; proved as `PlansContinue`): a response left in the thread makes
  `route_after_replan` (`plan_execute.py:149`) end a later run after one step.
- `CyclesAreOwn`: `past_steps` is added up over the runs of a thread, so
  `route_after_execute` (line 156) ends a later run after one step, before the
  replanner has seen it.
- `ReportCoversOwnPlan`: `briefs` are added up as well, so a report on a new
  question is made of the briefs of the old ones (`deep_research.py:149-151`).

And: a plan-execute run may end without a response (cycles used up, an empty plan
from the replanner); an empty plan from the planner raises `IndexError` (line
116); a research plan without sub-questions ends the run with the caller's
message last (line 146); `tasks/send` without an id returns a task id (`server.py:143`)
that is not that of its thread (line 136), so a client that follows up with it
finds nothing of its first message; a supervisor may finish with an empty answer
(`supervisor.py:82`); a malformed message breaks a stream after `working`
(`server.py:159`); an ecosystem created again while its Namespace terminates stays
without one until it changes or the controller restarts (`ecosystem.go:84-88`).

Of the scripts:

- The single cluster's `01-create-aws-resources.sh` makes up new passwords in
  every run (lines 23-25). A second run finds its resources there, creates
  nothing, and appends passwords that fit none of them; the shell takes the last.
  `PasswordsAreKnown` therefore says *first run* for this edition.
- `02-create-secrets.sh`, which line 155 asks to run again, makes up new
  credentials for servers that have registered the old ones on their first boot.
- `phase3a/00-create-aws-resources.sh` overwrites `.env.cp` (line 351), and with
  it the values `phase3a/01-create-secrets.sh` has appended; its next run makes up
  new ones. `KeptNeverRotate` fails without `~wiped`. A run that is stopped after
  the shell has emptied the file and before `cat` has written it loses every
  password, also those of earlier runs: `PasswordsAreKnown` and `RerunRepairs` fail
  without `erased = {}`.
- `phase3a/01-create-secrets.sh` does not save the passwords of lines 104 and
  113, although line 175 says "All generated values appended to $ENV_FILE", so
  `phase3a/03-configure-keycloak.sh` stops at lines 17-20 unless the operator
  sets the password. Its lines 70-71 give Langfuse `DB_PASSWORD` for the user
  `langfuse`, whose role was created with `LANGFUSE_DB_PASSWORD`
  (`phase3a/00-create-aws-resources.sh:270`). Neither needs a search.
- `apply.sh:82` applies a manifest the repository does not have, and ends there.
- `05-onboard-tenant.sh` makes up new Langfuse keys in every run, so a repeated
  one gives a tenant other keys than its project has.
- `phase3a/03-configure-keycloak.sh` uses paths with `/auth` (lines 65, 75, 126,
  134) and, through `kc_api` (89-112), without.

Of the observability scripts and the policy:

- `helmchartproxy-vmagent.yaml:35` is committed with an endpoint of an earlier
  load balancer, so `03-apply-obs-manifests.sh` takes the branch without a
  placeholder and says "already configured". The model starts in either state.
- A cell that is skipped after its kubeconfig was written leaves it in `/tmp`:
  the next cell's trap replaces the one that would have removed it. A run that is
  killed leaves the file it has, and so does one that is stopped between
  `mktemp` (line 39) and its first trap (line 41), or whose base64 is not valid.
  These are the exemptions in `KubeconfigsAreRemoved`.
- A run of `03` that is stopped between `sed` and `apply` (lines 180-187) leaves the
  agents without the endpoint, and runs of `03` after it say "already configured":
  the exemption in `RerunsRepair`. Running `02` applies the file.
- `03` hands out the key `password` of the Secret `vmuser-cluster-<c>`, and says
  (lines 122-124, 143 and 157) that the VM operator generates it. The VMUsers it
  applies (`vmuser-per-cluster.yaml:7-9`) have a `tokenRef` to `vmuser-token-<c>`
  instead, and nothing in the repository makes either Secret. So the model lets
  passwords come or not, and `RerunsRepair` promises a token only to clusters for
  which there is one. `05-verify.sh` asks for CRDs by
  singular names (lines 50, 52, 54), which do not exist, while `03` waits for the
  plural ones (15-18).
- `kyverno-auto-expose.yaml:53` gives the route of an agent and that of a backend
  one name, so two resources of one name in a namespace fight over it.

Of the API: `CallsReachTheirHolders` says that a part keeps being shared after
`With...` has taken it, so a configuration that was used as a part twice changes
in both places. The constructors stamp `agentgateway.dev/agentgateway` as API
version, the manifests use `agentgateway.dev/v1alpha1`. The CRDs in
`config/crd/bases` are of older types, although `Makefile:7-8` says to generate
after any change of `api/`.

## 5. Proofs

TLAPS proves the following for every value of the constants, from the named
assumptions of the modules only (`KeysAssumption`, `BoundsAssumption`,
`PlanExecuteAssumption`, `DeepResearchAssumption`, `SupervisorAssumption`,
`AgentServerAssumption`, `CredentialsAssumption`, `DeployAssumption`,
`MemoryAssumption`, `ObjectsAssumption`, `ObservabilityAssumption`,
`TableAssumption`), which say no more than that bounds are numbers, names differ,
no client chooses of its own an id that uuid4 is going to make up (it may name one
it was told), items from before have ids of their own, the children of a struct are where its
references say, and every generated method does one of the five things there are.

- `MyceliumControllerProofs`. `TypeCorrect`: types, by induction, one step per
  action. `References`: no owner reference, event or request names an
  incarnation that never existed; inductive together with the types, since a UID
  only moves from owner to collection, queue, apply, stray and object.
  `Implementation`: `Spec => ClusterSpec`. Each step of the controller maps to a
  `ClusterNext` step or a stutter; an apply maps to `Claim`, which needs
  `References` for the incarnation it claims. `Converges`: where nothing is under
  way, the cluster holds what the collection asks for. It follows from
  `QuietInv`, which holds in every state: a replica without the lease has
  nothing collected, queued or under way (`NothingWithoutLease`), the newest
  event of a key says what the collection holds of it (`NewestEventsTell`), and
  so does, if none is queued, the newest apply (`NewestAppliesTell`). `MovesForward`,
  of `OwnershipMovesForward`, is from `OrderInv`: an owner that exists is the
  newest incarnation of its key (`OwnersAreNewest`), what the leader collects,
  queues and applies names no older incarnation than the object in the
  cluster or a stray request does
  (`AppliesLead`), and events and applies of a key name incarnations in the order they
  were made (`AppliesAreInOrder`).
- `PlanExecuteProofs`. `PlanExecuteTypes`, `Bounded`, `OwnBound`, `OwnCycles`,
  `PlansContinue`. `CyclesBounded` is not inductive. `Progress` is: the node
  that is next says how many supersteps a run has taken for the steps it has
  executed, and that it has cycles left, for every value of `max_cycles`. The
  bound uses that `past_steps` is never shorter than what the run executed. `Fresh`
  adds that a run from nothing has no other steps, and no response while it runs.
- `DeepResearchProofs`. `ResearchTypes`, `ReportsCover`, `ReportsAnswer`,
  `ReportsAreSent`, `WholeBriefs`, from `ResearchInv`. The properties speak of the
  end of a run; the invariant says at each node whose question is in the state
  (`OwnQuestion`), and that no brief of this turn is there before the barrier and
  all are after it (`OwnBriefs`). `Sorted` needs both, because the barrier adds a
  plan behind older ones. Types need that no branch has returned where none
  runs (`Numbered`). That a list of messages has a last human one is proved from
  the well-foundedness of the numbers.
- `SupervisorProofs`. `SupervisorTypes`, `Handoffs`, `Finishes`, from `ThreadInv`:
  no message is of a later turn (`Dated`), a worker runs on a conversation that
  ends with the handoff to it (`HandedOver`), and every other handoff of the turn
  has its result (`Answered`).
- `AgentServerProofs`. `ServerTypes`, `Streams`, `TurnsKept`, `Separation`. The
  strengthening says what a handler has sent at each stage (`Sent`), that the
  thread of a run that nothing overlaps holds exactly its base and its question
  and completed turns are still there (`Kept`), and that a thread and a base hold
  only messages of requests with that thread (`Separate`). That these are of one
  task (`OneThread`) uses that nobody names the id `_invoke` makes up, which is
  told to nobody.
- `ScriptsProofs`, of both modules of scripts. `ProvisioningTypes`; `Passwords` and `Repairs` from
  `PasswordInv`; `KeptStay` and `Agreement` from `SecretInv`; `Restored` from
  `DeployInv`. `PasswordInv` says where a password is while a script runs, when
  `PasswordsAreKnown` does not speak of it: what exists has the value the run has
  in its variables (`Known`), and a run has made that up itself or has it from the
  file (`Drawn`), so a stop loses only what the stopped run made up, unless it has
  emptied the file (`Intact`), which it does last (`Emptied`). `Made` is
  what a run has created so far, given that it logs in; for that it needs `Known`
  of the instance. `SecretInv` says that kept values are in the file before they
  are in a Secret (`InFile`) and that a value that was given to someone is not
  made up again in the same run (`Given`). `DeployInv` says where the original
  values are at each command and which trap is set.
  `ObservabilityTypes`, `Halfway` (`OnlyStopsLeaveHalves`) and `Kubeconfigs`
  (`KubeconfigsAreRemoved`) are from `ObservabilityInv`: a command for a cell finds
  what the commands before it made for that cell (`CellCommands`), a file on disk
  is of the cell at hand or of one that was skipped, and is under the trap from the
  third command on (`FilesLeft`), and a half is
  either about to be completed or was left by a stop at that command (`Halves`).
- `MyceliumApiProofs`, of deep copies and of configurations. `TypeCorrect`, `CopiesApart` and `SharedStays`, for any table
  of types, each about objects none of which has a reference that its type's
  `DeepCopyInto` does not come to (`UsesNothingForgotten(Objects)`). The code's own
  table and objects of all its kinds are like that, which TLC checks of
  `MCDeepCopy`'s (`CodeUsesNothingForgotten`), except for one reference: the
  `ServiceAccount` of a `MyceliumAgentStatus`. Agents that have it are excluded, and
  `apiobjects_agentstatus` shows the conclusion false of them. Memory stays free of
  such references (`Uses`). `Inv` says that a reference in a reader's memory to memory of
  someone else is one that `DeepCopyInto` has yet to come to (`OwnOrPending`); a
  finished copy has none left, and an edit starts from a finished copy
  (`LooksAtOwn`), so it never reaches the object. `CopiesAreSnapshots` is that
  `DeepCopy` implements `Snapshots`. `CopyInv` adds what a copy under way looks
  like: each of its structs is as the one at the same place of the source, and
  its references lead to the same place in the copy or still in the source
  (`Faithful`). Where two parts of memory have the same structs at places that
  correspond, their trees are equal (`TreesMirror`); so the trees of versions
  and of copies left alone stay, and a finished copy has the tree of its source.
  `Take` maps to `Take`, copying and walking to stutters, each edit to `Edit`, and
  `Publish` to `Publish`, since a version's structs carry its number. A tree is
  followed `MaxDepth` references deep, deeper than any object of the API; it is
  written out level by level, because what a recursive definition
  computes is out of the prover's reach.
  `ConfigurationsTypes` and `CallsAreDeclared` (`DeclarationsFollowCalls`) are for
  any table of With methods. `Typed` adds what each call has passed (`Passes`), which
  is how a list is known to grow by at most two elements a call. A call changes one
  field of one configuration and makes copies at the end of memory (`Updated`). Its
  items come after those of all calls before it, so these keep their places
  (`PlacesStay`); an element is nobody's to change, and of the lists of its original
  it has the part there was, which stays the first part of a list that only grows
  (`ListsGrow`, `CopiedStays`). `AllSaid` is the property with every argument a
  variable, and is inductive together with `Typed`.
- `MemoryStoresProofs`. `MemoryTypes`, `Saved`, `Once`, from `SavingInv`: every
  item that was requested, stored or refused belongs to a save that was told of,
  raised or is under way (`Accounted`), and an agent saves nothing that it was
  told is saved (`SavesNoneTold`). `StoredOnce` needs both, since an item may
  arrive long after its save has raised. `OwnRecalls` (`RecallIsOwn`) and
  `Agreement` (`AgreementComesFirst`) are from `RecallInv`: what a search has in
  hand are rankings of items of its user that are stored, each at one place, and
  what it has found is their fusion. That the fusion is a sequence of the items of both
  is proved from its order: comparing scores with the denominators multiplied out is
  transitive (`FractionsTransitive`), with the place in the rankings it is a strict total
  order (`BeforeIsOrder`), so that the number of earlier items gives every item a
  place of its own. `BothFirst` is the arithmetic of the two scores.

Only model-checked: all liveness (`EventuallyConverged`, `RestartRepairs`,
`OrphansAreCollected`, `DeletionCompletes`, `EveryRunStops`, `EveryRunEnds`,
`EveryRequestEnds`, `IndexesComeAbout`, `RerunsRepair`), which the prover cannot
do under fairness, and `CallsReachTheirHolders`, which computes whole declarations
and who shares what by recursion over data.

## 6. Not modelled

Tenant onboarding and `apply.sh`, the configuration scripts of Keycloak and
OpenFGA, the Kyverno policy and the MCP deployer are planned (section 2). Not
planned: the ReAct graph (one call of a library), the runtime's CRD export and
settings (formatting), clients of the gateway, of MCP servers, of the tracing
backend and of the identity provider (calls passed on), the CLI (templates),
registration of the API and generated CRDs, creation of clusters and the other
phased scripts (idempotent calls in a row), Helm values and manifests of
third-party systems, documentation.
`PROJECT.json` lists each with its reason.

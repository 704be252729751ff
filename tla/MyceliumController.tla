------------------------- MODULE MyceliumController -------------------------
(***************************************************************************)
(* The Mycelium controller: mycelium/internal/controller/krt, started by   *)
(* mycelium/cmd/controller.                                                *)
(*                                                                         *)
(* Two pipelines of the same shape run in it.  Each derives a collection   *)
(* of desired objects from a collection of owners (ecosystem -> Namespace, *)
(* agent -> ServiceAccount) and registers a sink on the derived collection *)
(* that applies one object per event and drops the event whatever the      *)
(* apply returned.  Deletions are left to the garbage collector, which     *)
(* follows the owner reference the sink wrote.                             *)
(***************************************************************************)
EXTENDS KubeCluster, Sequences

CONSTANTS
    MaxFailures,  \* bound: applies that fail though they are admissible
    MaxDrifts,    \* bound: managed objects deleted by someone else
    MaxHandovers  \* bound: losses of the leader lease

ASSUME BoundsAssumption ==
    MaxFailures \in Nat /\ MaxDrifts \in Nat /\ MaxHandovers \in Nat

VARIABLES
    leader,     \* a replica of the controller holds the lease and runs
    collection, \* its derived collections: the incarnation in each entry
    queue,      \* the events its sinks have not handled yet
    inflight,   \* the apply each sink is waiting for: none or one
    strays,     \* applies of former leaders the API server may still execute
    spent,      \* how much of each bounded kind of trouble has happened
    lost        \* history: keys whose object changed without an event

pipelines == <<collection, queue, inflight>>
vars      == <<cluster, leader, pipelines, strays, spent, lost>>

-----------------------------------------------------------------------------
Pipelines     == {"EcosystemNamespaces", "AgentServiceAccounts"}
PipelineOf(k) == IF k \in Ecosystems THEN "EcosystemNamespaces"
                                     ELSE "AgentServiceAccounts"

Apply     == [key : Owners, inc : Nat]
Event     == [type : {"Add", "Update", "Delete"}, key : Owners, inc : Nat]
NoTrouble == [failures |-> 0, drifts |-> 0, handovers |-> 0]

\* Every variable has its type, a sink waits for one apply at most, events
\* reach the sink of their own pipeline, and every event and apply carries a UID.
TypeOK ==
    /\ ClusterTypeOK
    /\ leader \in BOOLEAN
    /\ collection \in [Owners -> Nat]
    /\ queue \in [Pipelines -> Seq(Event)]
    /\ inflight \in [Pipelines -> SUBSET Apply]
    /\ \A p \in Pipelines :
          /\ \A i \in 1..Len(queue[p]) :
                PipelineOf(queue[p][i].key) = p /\ queue[p][i].inc > 0
          /\ \A a \in inflight[p] : PipelineOf(a.key) = p /\ a.inc > 0
          /\ \A a, b \in inflight[p] : a = b
    /\ strays \subseteq Apply
    /\ spent \in [failures : Nat, drifts : Nat, handovers : Nat]
    /\ lost \subseteq Owners

Init ==
    /\ ClusterInit
    /\ leader = FALSE
    /\ collection = [k \in Owners |-> 0]
    /\ queue = [p \in Pipelines |-> <<>>]
    /\ inflight = [p \in Pipelines |-> {}]
    /\ strays = {}
    /\ spent = NoTrouble
    /\ lost = {}

-----------------------------------------------------------------------------
(* The derived collections.                                                *)

\* The UID in the entry the transformation returns for a key; no entry when
\* the owner is gone or carries a deletion timestamp.
Desired(k) == IF owner[k].deleting THEN 0 ELSE owner[k].inc

\* Mutant: a replaced entry is reported like a removed one.
EventTypeNoUpdate(old, new) == IF new = 0 \/ old # 0 THEN "Delete" ELSE "Add"

EventType(old, new) ==
    CASE new = 0            -> "Delete"
      [] new # 0 /\ old = 0 -> "Add"
      [] new # 0 /\ old # 0 -> "Update"

\* What Event.Latest returns: the new value, or the old one after a deletion.
Latest(old, new) == IF new = 0 THEN old ELSE new

\* The informer reports an owner and its derived entry is recomputed; an event
\* is emitted only when the entry changes.  A deletion and a new creation that
\* the informer sees at once (after a relist) are a single update.
Observe(k) ==
    LET old == collection[k]
        new == Desired(k)
    IN  /\ leader
        /\ old # new
        /\ collection' = [collection EXCEPT ![k] = new]
        /\ queue' = [queue EXCEPT ![PipelineOf(k)] =
                        Append(@, [type |-> EventType(old, new), key |-> k,
                                   inc |-> Latest(old, new)])]
        /\ UNCHANGED <<cluster, leader, inflight, strays, spent, lost>>

-----------------------------------------------------------------------------
(* The sinks.                                                              *)

\* A sink takes the next event once the previous apply has returned.
NextEvent(p) ==
    /\ leader
    /\ inflight[p] = {}
    /\ queue[p] # <<>>
    /\ queue' = [queue EXCEPT ![p] = Tail(@)]

\* A delete event is skipped: the garbage collector removes the object.
SkipDelete(p) ==
    /\ NextEvent(p)
    /\ Head(queue[p]).type = "Delete"
    /\ UNCHANGED <<cluster, leader, collection, inflight, strays, spent, lost>>

\* For an add or update event the sink applies the latest value.
SendApply(p) ==
    /\ NextEvent(p)
    /\ Head(queue[p]).type \in {"Add", "Update"}
    /\ inflight' = [inflight EXCEPT ![p] = {[key |-> Head(queue[p]).key,
                                             inc |-> Head(queue[p]).inc]}]
    /\ UNCHANGED <<cluster, leader, collection, strays, spent, lost>>

\* Mutant: the applied object carries no owner reference.
WriteUnowned(a) == object' = Applied(a.key, 0)

\* The object with a controller reference to the owner's UID.
Write(a) == object' = Applied(a.key, a.inc)

\* Mutant: the sink applies the same object over and over.
ApplyRepeats(p) ==
    \E a \in inflight[p] :
        /\ Admissible(a.key)
        /\ Write(a)
        /\ UNCHANGED <<owner, born, leader, pipelines, strays, spent, lost>>

\* The API server executes the apply.  It repairs the object, unless this is
\* a namespace that goes on terminating.
ApplySucceeds(p) ==
    \E a \in inflight[p] :
        /\ Admissible(a.key)
        /\ Write(a)
        /\ inflight' = [inflight EXCEPT ![p] = {}]
        /\ lost' = IF object[a.key].phase = "terminating"
                   THEN lost \union {a.key} ELSE lost \ {a.key}
        /\ UNCHANGED <<owner, born, leader, collection, queue, strays, spent>>

\* The apply is refused, or it fails though it is admissible.
ApplyError(a) ==
    \/ ~Admissible(a.key) /\ UNCHANGED spent
    \/ /\ Admissible(a.key)
       /\ spent.failures < MaxFailures
       /\ spent' = [spent EXCEPT !.failures = @ + 1]

\* Mutant: a failed apply is put back at the end of the queue.
ApplyRetries(p) ==
    \E a \in inflight[p] :
        /\ ApplyError(a)
        /\ inflight' = [inflight EXCEPT ![p] = {}]
        /\ queue' = [queue EXCEPT ![p] =
                        Append(@, [type |-> "Update", key |-> a.key, inc |-> a.inc])]
        /\ UNCHANGED <<cluster, leader, collection, strays, lost>>

\* The sink prints the error and goes on: nothing is put back into the queue.
ApplyFails(p) ==
    \E a \in inflight[p] :
        /\ ApplyError(a)
        /\ inflight' = [inflight EXCEPT ![p] = {}]
        /\ lost' = lost \union {a.key}
        /\ UNCHANGED <<cluster, leader, collection, queue, strays>>

-----------------------------------------------------------------------------
(* The process and its lease.                                              *)

\* Mutant: the sinks are registered without the existing entries.
BecomeLeaderNoReplay ==
    /\ ~leader
    /\ leader' = TRUE
    /\ collection' = [k \in Owners |-> Desired(k)]
    /\ UNCHANGED <<cluster, queue, inflight, strays, spent, lost>>

\* A replica wins the lease and Start runs on empty collections: everything
\* the first list puts into them reaches the sinks as an addition.
BecomeLeader ==
    /\ ~leader
    /\ leader' = TRUE
    /\ UNCHANGED <<cluster, pipelines, strays, spent, lost>>

\* The leader stops or loses the lease, and its process ends.  Collections and
\* queued events are gone; a request on its way may still be executed.
LoseLeadership ==
    /\ leader
    /\ spent.handovers < MaxHandovers
    /\ spent' = [spent EXCEPT !.handovers = @ + 1]
    /\ leader' = FALSE
    /\ collection' = [k \in Owners |-> 0]
    /\ queue' = [p \in Pipelines |-> <<>>]
    /\ inflight' = [p \in Pipelines |-> {}]
    /\ strays' = strays \union UNION {inflight[p] : p \in Pipelines}
    /\ UNCHANGED <<cluster, lost>>

\* A request of a former leader is executed after all ...
StrayLands(a) ==
    /\ Admissible(a.key)
    /\ Write(a)
    /\ strays' = strays \ {a}
    /\ lost' = lost \union {a.key}
    /\ UNCHANGED <<owner, born, leader, pipelines, spent>>

\* ... or it never is.
StrayVanishes(a) ==
    /\ strays' = strays \ {a}
    /\ UNCHANGED <<cluster, leader, pipelines, spent, lost>>

-----------------------------------------------------------------------------
(* The cluster around the controller.                                      *)

\* A managed object goes without an event for its owner's pipeline.
Unnoticed(k) ==
    /\ lost' = lost \union {k}
    /\ UNCHANGED <<leader, pipelines, strays>>

\* Somebody else deletes a managed object.
Drift(k) ==
    /\ spent.drifts < MaxDrifts
    /\ spent' = [spent EXCEPT !.drifts = @ + 1]
    /\ DeleteObject(k)
    /\ Unnoticed(k)

Drained(k) == DrainServiceAccount(k) /\ Unnoticed(k) /\ UNCHANGED spent

Elsewhere == UNCHANGED <<leader, pipelines, strays, spent, lost>>

Users ==
    \E k \in Owners :
        \/ CreateOwner(k) /\ Elsewhere
        \/ DeleteOwner(k) /\ Elsewhere
        \/ DeleteOwnerForeground(k) /\ Elsewhere
        \/ Drift(k)

Remove(k)   == RemoveOwner(k) /\ Elsewhere
Collect(k)  == CollectGarbage(k) /\ Elsewhere
Drain(k)    == DrainAgent(k) /\ Elsewhere
Finalize(n) == FinalizeNamespace(n) /\ Elsewhere

Controllers ==
    \/ \E k \in Owners : Remove(k) \/ Collect(k)
    \/ \E k \in Agents : Drain(k) \/ Drained(k)
    \/ \E n \in Ecosystems : Finalize(n)

Strays == \E a \in strays : StrayLands(a) \/ StrayVanishes(a)

Sink(p) == SkipDelete(p) \/ SendApply(p) \/ ApplySucceeds(p) \/ ApplyFails(p)

Next ==
    \/ Users
    \/ Controllers
    \/ Strays
    \/ BecomeLeader
    \/ LoseLeadership
    \/ \E k \in Owners : Observe(k)
    \/ \E p \in Pipelines : Sink(p)

Spec == Init /\ [][Next]_vars

\* The cluster's own controllers and a running replica keep working, a replica
\* waits for the lease, and no request stays on its way for ever.  Users owe
\* nobody a step, and nothing makes a leader lose its lease.
Fairness ==
    /\ \A k \in Owners : WF_vars(Remove(k)) /\ WF_vars(Collect(k))
    /\ \A k \in Agents : WF_vars(Drain(k)) /\ WF_vars(Drained(k))
    /\ \A n \in Ecosystems : WF_vars(Finalize(n))
    /\ WF_vars(Strays)
    /\ WF_vars(BecomeLeader)
    /\ \A k \in Owners : WF_vars(Observe(k))
    /\ \A p \in Pipelines : WF_vars(Sink(p))

FairSpec == Spec /\ Fairness

-----------------------------------------------------------------------------
(* Properties.                                                             *)

Pending(k) ==
    \E p \in Pipelines :
        \/ \E i \in 1..Len(queue[p]) : queue[p][i].key = k
        \/ \E a \in inflight[p] : a.key = k

\* The controller knows the owner as it is and has nothing left to do for it.
Settled(k) == leader /\ collection[k] = Desired(k) /\ ~Pending(k)

\* The owner's object is there and refers to this very incarnation.
Converged(k) == object[k] = [phase |-> "active", ref |-> owner[k].inc]

\* When the controller has nothing left to do for an owner that is not being
\* deleted, the owner's object has converged, unless something happened that
\* no event tells the sinks: an apply that failed or met a terminating
\* namespace, a deletion by someone else, an apply of a former leader
\* (registerNamespaceSink, registerAgentServiceAccountSink).
QuiescentConverged ==
    \A k \in Owners :
        Settled(k) /\ Desired(k) # 0 /\ k \notin lost => Converged(k)

\* An owner reference names an incarnation that has existed, and so does every
\* event and every apply on its way, whichever leader sent it.
ReferencesAreGenuine ==
    /\ \A k \in Owners : object[k].ref \in 0..born[k]
    /\ \A p \in Pipelines : \A i \in 1..Len(queue[p]) :
          queue[p][i].inc \in 1..born[queue[p][i].key]
    /\ \A p \in Pipelines : \A a \in inflight[p] : a.inc \in 1..born[a.key]
    /\ \A a \in strays : a.inc \in 1..born[a.key]

\* Within one leader the applies of a key take effect in the order of its
\* incarnations: an object goes back from a later incarnation to an earlier
\* one only through a request of a former leader.
OwnershipMovesForward ==
    [][\A k \in Owners :
          Exists(k) /\ Exists(k)' /\ object'[k].ref < object[k].ref
          => [key |-> k, inc |-> object'[k].ref] \in strays \ strays']_vars

\* All the controller does to the cluster is claim objects for incarnations of
\* their own owners, where the API server admits it.
ImplementsCluster == ClusterSpec

\* The object of a deleted owner disappears, however late an apply brought it
\* back: the sinks skip delete events (ecosystem.go 79-81, agent.go 72-74) and
\* count on the owner reference.
OrphansAreCollected ==
    \A k \in Owners :
        Exists(k) /\ owner[k].inc = 0 ~> ~Exists(k) \/ owner[k].inc # 0

\* A foreground deletion ends although events queued before it are still
\* applied and their objects block it (WithBlockOwnerDeletion).
DeletionCompletes ==
    \A k \in Owners : owner[k].deleting ~> ~owner[k].deleting

\* An owner that stays gets its object, unless its object changed without an
\* event: through any number of coalesced events and changes of the leader.
EventuallyConverged ==
    \A k \in Owners :
        Desired(k) # 0 ~> Converged(k) \/ Desired(k) = 0 \/ k \in lost

NothingMoreGoesWrong ==
    /\ spent = [failures |-> MaxFailures, drifts |-> MaxDrifts,
                handovers |-> MaxHandovers]
    /\ strays = {}

\* A leader that takes over when nothing more goes wrong repairs every
\* divergence left by its predecessors, since its sinks are given the existing
\* entries (runExistingState, ecosystem.go 67-69).
RestartRepairs ==
    \A k \in Owners :
        /\ ~leader
        /\ NothingMoreGoesWrong
        /\ Desired(k) # 0
        /\ object[k].phase # "terminating"
        ~> Converged(k) \/ Desired(k) = 0

\* "Observed collections -- watch what was actually written so drift
\* correction can detect when the cluster state diverges from desired"
\* (controller.go 56-57): no divergence lasts.
DriftIsCorrected ==
    \A k \in Owners :
        Settled(k) /\ Desired(k) # 0 /\ ~Converged(k)
            ~> Converged(k) \/ Desired(k) = 0
=============================================================================

----------------------------- MODULE KubeCluster -----------------------------
(***************************************************************************)
(* The part of a Kubernetes cluster the Mycelium controller relies on:     *)
(* custom resources, the objects that carry an owner reference to them,    *)
(* the garbage collector, the namespace controller, and what a server-side *)
(* apply with ForceOwnership does.  None of it is code of this repository; *)
(* it is modelled from the calls and comments of                           *)
(* mycelium/internal/controller/krt.                                       *)
(*                                                                         *)
(* An owner (ecosystem or agent) is named by a key; its UID is the pair of *)
(* its key and an incarnation number, so a key deleted and created again   *)
(* has a new UID.  The object of an owner (Namespace or ServiceAccount)    *)
(* has the owner's name, so a key names the object as well.  Incarnation 0 *)
(* stands for "no such owner" and for "no owner reference".                *)
(*                                                                         *)
(* ClusterSpec is also the abstract specification of the controller: all   *)
(* it may do to the cluster is claim an object for an incarnation of the   *)
(* owner with the object's name, where the API server lets it.             *)
(***************************************************************************)
EXTENDS Naturals

CONSTANTS
    Ecosystems,       \* keys of MyceliumEcosystem resources and Namespaces
    Agents,           \* keys of MyceliumAgent resources and ServiceAccounts
    NamespaceOf,      \* the ecosystem namespace each agent lives in
    MaxIncarnations   \* bound: how often each key is created

Owners == Ecosystems \union Agents

ASSUME KeysAssumption ==
    /\ Ecosystems \intersect Agents = {}
    /\ NamespaceOf \in [Agents -> Ecosystems]
    /\ MaxIncarnations \in [Owners -> Nat]

VARIABLES
    owner,   \* the custom resources stored by the API server
    object,  \* the Namespaces and ServiceAccounts it stores
    born     \* incarnations given to each key so far

cluster == <<owner, object, born>>

NoOwner == [inc |-> 0, deleting |-> FALSE]
Absent  == [phase |-> "absent", ref |-> 0]

ClusterTypeOK ==
    /\ owner \in [Owners -> [inc : Nat, deleting : BOOLEAN]]
    /\ object \in [Owners -> [phase : {"absent", "active", "terminating"},
                              ref : Nat]]
    /\ born \in [Owners -> Nat]

ClusterInit ==
    /\ owner = [k \in Owners |-> NoOwner]
    /\ object = [k \in Owners |-> Absent]
    /\ born = [k \in Owners |-> 0]

Exists(k) == object[k].phase # "absent"

\* The namespace of k, when k lives in one, is in one of these phases.
NamespaceIn(k, phases) ==
    k \in Agents => object[NamespaceOf[k]].phase \in phases

-----------------------------------------------------------------------------
\* Someone creates an ecosystem, or an agent in an active namespace.
CreateOwner(k) ==
    /\ owner[k].inc = 0
    /\ born[k] < MaxIncarnations[k]
    /\ NamespaceIn(k, {"active"})
    /\ born' = [born EXCEPT ![k] = @ + 1]
    /\ owner' = [owner EXCEPT ![k] = [inc |-> born[k] + 1, deleting |-> FALSE]]
    /\ UNCHANGED object

\* Deletion with background propagation: the owner is gone at once.
DeleteOwner(k) ==
    /\ owner[k].inc # 0
    /\ ~owner[k].deleting
    /\ owner' = [owner EXCEPT ![k] = NoOwner]
    /\ UNCHANGED <<object, born>>

\* Deletion with foreground propagation sets the deletion timestamp ...
DeleteOwnerForeground(k) ==
    /\ owner[k].inc # 0
    /\ ~owner[k].deleting
    /\ owner' = [owner EXCEPT ![k].deleting = TRUE]
    /\ UNCHANGED <<object, born>>

\* ... and the owner goes once no object blocks its deletion any more.
RemoveOwner(k) ==
    /\ owner[k].deleting
    /\ object[k].ref # owner[k].inc
    /\ owner' = [owner EXCEPT ![k] = NoOwner]
    /\ UNCHANGED <<object, born>>

\* Deleting an object: a ServiceAccount is gone, a Namespace terminates.
DeleteObject(k) ==
    /\ object[k].phase = "active"
    /\ object' = [object EXCEPT ![k] =
                    IF k \in Ecosystems THEN [@ EXCEPT !.phase = "terminating"]
                                        ELSE Absent]
    /\ UNCHANGED <<owner, born>>

\* The garbage collector deletes an object whose owner reference names no
\* living incarnation, or an incarnation that is deleted in the foreground.
CollectGarbage(k) ==
    /\ object[k].ref # 0
    /\ object[k].ref # owner[k].inc \/ owner[k].deleting
    /\ DeleteObject(k)

\* The namespace controller empties a terminating namespace ...
DrainAgent(k) ==
    /\ object[NamespaceOf[k]].phase = "terminating"
    /\ DeleteOwner(k)

DrainServiceAccount(k) ==
    /\ object[NamespaceOf[k]].phase = "terminating"
    /\ DeleteObject(k)

\* ... and removes it when nothing is left in it.
FinalizeNamespace(n) ==
    /\ object[n].phase = "terminating"
    /\ \A a \in Agents : NamespaceOf[a] = n => owner[a].inc = 0 /\ ~Exists(a)
    /\ object' = [object EXCEPT ![n] = Absent]
    /\ UNCHANGED <<owner, born>>

-----------------------------------------------------------------------------
\* A ServiceAccount is created in an active namespace only, but an existing
\* one is still updated while its namespace terminates.
Admissible(k) ==
    \/ NamespaceIn(k, {"active"})
    \/ Exists(k) /\ NamespaceIn(k, {"terminating"})

\* The objects after the apply of k with a reference to incarnation inc: it
\* creates the object, or replaces the reference the same field manager wrote
\* before.  It does not stop a termination under way.
Applied(k, inc) ==
    [object EXCEPT ![k] = [phase |-> IF Exists(k) THEN @.phase ELSE "active",
                           ref   |-> inc]]

\* All a controller does to the cluster.
Claim(k) ==
    /\ Admissible(k)
    /\ \E inc \in 1..born[k] : object' = Applied(k, inc)
    /\ UNCHANGED <<owner, born>>

ClusterNext ==
    \/ \E k \in Owners :
          \/ CreateOwner(k) \/ DeleteOwner(k) \/ DeleteOwnerForeground(k)
          \/ RemoveOwner(k) \/ DeleteObject(k) \/ CollectGarbage(k) \/ Claim(k)
    \/ \E k \in Agents : DrainAgent(k) \/ DrainServiceAccount(k)
    \/ \E n \in Ecosystems : FinalizeNamespace(n)

ClusterSpec == ClusterInit /\ [][ClusterNext]_cluster
=============================================================================

---------------------- MODULE MyceliumControllerProofs ----------------------
(***************************************************************************)
(* What TLAPS proves about MyceliumController, for all sets of ecosystems  *)
(* and agents and every value of the bounds.                               *)
(***************************************************************************)
EXTENDS MyceliumController, SequenceTheorems, TLAPS

\* A key is handled by one pipeline, and it is one of the two.
LEMMA PipelineOfType == \A k : PipelineOf(k) \in Pipelines
  BY DEF PipelineOf, Pipelines

\* What the derived collection holds for a key is the incarnation of the owner
\* or nothing.
LEMMA DesiredType ==
    ASSUME ClusterTypeOK, NEW k \in Owners
    PROVE  Desired(k) \in Nat
  BY DEF ClusterTypeOK, Desired

\* An apply leaves the objects well typed.
LEMMA AppliedType ==
    ASSUME ClusterTypeOK, NEW k \in Owners, NEW inc \in Nat
    PROVE  Applied(k, inc) \in [Owners -> [phase : {"absent", "active", "terminating"},
                                           ref : Nat]]
  BY DEF ClusterTypeOK, Applied, Exists

\* A step of the cluster's own actors preserves the types of the cluster.
LEMMA ClusterStepType ==
    ASSUME ClusterTypeOK,
           \/ \E k \in Owners : \/ CreateOwner(k) \/ DeleteOwner(k)
                                \/ DeleteOwnerForeground(k) \/ RemoveOwner(k)
                                \/ DeleteObject(k) \/ CollectGarbage(k)
           \/ \E k \in Agents : DrainAgent(k) \/ DrainServiceAccount(k)
           \/ \E n \in Ecosystems : FinalizeNamespace(n)
    PROVE  ClusterTypeOK'
  <1>1. ASSUME NEW k \in Owners, CreateOwner(k) PROVE ClusterTypeOK'
    BY <1>1, ClusterTypeOK DEF CreateOwner, ClusterTypeOK
  <1>2. ASSUME NEW k \in Owners, DeleteOwner(k) PROVE ClusterTypeOK'
    BY <1>2, ClusterTypeOK DEF DeleteOwner, ClusterTypeOK, NoOwner
  <1>3. ASSUME NEW k \in Owners, DeleteOwnerForeground(k) PROVE ClusterTypeOK'
    BY <1>3, ClusterTypeOK DEF DeleteOwnerForeground, ClusterTypeOK
  <1>4. ASSUME NEW k \in Owners, RemoveOwner(k) PROVE ClusterTypeOK'
    BY <1>4, ClusterTypeOK DEF RemoveOwner, ClusterTypeOK, NoOwner
  <1>5. ASSUME NEW k \in Owners, DeleteObject(k) PROVE ClusterTypeOK'
    BY <1>5, ClusterTypeOK DEF DeleteObject, ClusterTypeOK, Absent
  <1>6. ASSUME NEW k \in Owners, CollectGarbage(k) PROVE ClusterTypeOK'
    BY <1>5, <1>6 DEF CollectGarbage
  <1>7. ASSUME NEW k \in Agents, DrainAgent(k) \/ DrainServiceAccount(k)
        PROVE  ClusterTypeOK'
    BY <1>2, <1>5, <1>7 DEF DrainAgent, DrainServiceAccount, Owners
  <1>8. ASSUME NEW n \in Ecosystems, FinalizeNamespace(n) PROVE ClusterTypeOK'
    BY <1>8, ClusterTypeOK DEF FinalizeNamespace, ClusterTypeOK, Absent, Owners
  <1> QED
    BY <1>1, <1>2, <1>3, <1>4, <1>5, <1>6, <1>7, <1>8

\* Emitting an event keeps the queues well typed.
LEMMA ObserveType ==
    ASSUME TypeOK, NEW k \in Owners, Observe(k)
    PROVE  TypeOK'
  <1> DEFINE e == [type |-> EventType(collection[k], Desired(k)), key |-> k,
                   inc |-> Latest(collection[k], Desired(k))]
             p == PipelineOf(k)
  <1>1. Desired(k) \in Nat /\ collection[k] \in Nat /\ p \in Pipelines
    BY DesiredType, PipelineOfType DEF TypeOK
  <1>2. e \in Event /\ e.inc > 0 /\ e.key = k
    BY <1>1 DEF Observe, Event, EventType, Latest
  <1>3. /\ queue' = [queue EXCEPT ![p] = Append(queue[p], e)]
        /\ collection' = [collection EXCEPT ![k] = Desired(k)]
    BY DEF Observe
  <1>4. queue[p] \in Seq(Event) /\ queue \in [Pipelines -> Seq(Event)]
    BY <1>1 DEF TypeOK
  <1>5. queue' \in [Pipelines -> Seq(Event)] /\ collection' \in [Owners -> Nat]
    BY <1>1, <1>2, <1>3, <1>4, AppendProperties DEF TypeOK
  <1>6. ASSUME NEW q \in Pipelines, NEW i \in 1..Len(queue'[q])
        PROVE  PipelineOf(queue'[q][i].key) = q /\ queue'[q][i].inc > 0
    <2>1. CASE q # p
      BY <2>1, <1>1, <1>3, <1>4, <1>6 DEF TypeOK
    <2>2. CASE q = p /\ i = Len(queue[p]) + 1
      BY <2>2, <1>1, <1>2, <1>3, <1>4, AppendProperties
    <2>3. CASE q = p /\ i \in 1..Len(queue[p])
      <3>1. queue'[q][i] = queue[p][i]
        BY <2>3, <1>1, <1>2, <1>3, <1>4, AppendProperties
      <3> QED
        BY <3>1, <2>3, <1>1 DEF TypeOK
    <2> QED
      BY <2>1, <2>2, <2>3, <1>1, <1>2, <1>3, <1>4, <1>6, AppendProperties
  <1> QED
    BY <1>5, <1>6 DEF Observe, TypeOK, ClusterTypeOK, cluster

\* Taking the next event keeps the queues well typed.
LEMMA NextEventType ==
    ASSUME TypeOK, NEW p \in Pipelines, NextEvent(p)
    PROVE  /\ Head(queue[p]) \in Event
           /\ Head(queue[p]).inc > 0
           /\ PipelineOf(Head(queue[p]).key) = p
           /\ queue' \in [Pipelines -> Seq(Event)]
           /\ \A q \in Pipelines : \A i \in 1..Len(queue'[q]) :
                 PipelineOf(queue'[q][i].key) = q /\ queue'[q][i].inc > 0
  <1>1. /\ queue \in [Pipelines -> Seq(Event)]
        /\ queue[p] \in Seq(Event) /\ queue[p] # <<>>
        /\ queue' = [queue EXCEPT ![p] = Tail(queue[p])]
    BY DEF TypeOK, NextEvent
  <1>2. /\ Head(queue[p]) = queue[p][1] /\ 1 \in 1..Len(queue[p])
        /\ Tail(queue[p]) \in Seq(Event)
        /\ Len(Tail(queue[p])) = Len(queue[p]) - 1
        /\ \A i \in 1..Len(Tail(queue[p])) : Tail(queue[p])[i] = queue[p][i+1]
    BY <1>1, HeadTailProperties, EmptySeq, LenProperties
  <1>3. ASSUME NEW q \in Pipelines, NEW i \in 1..Len(queue'[q])
        PROVE  PipelineOf(queue'[q][i].key) = q /\ queue'[q][i].inc > 0
    <2>1. CASE q # p
      BY <2>1, <1>1, <1>3 DEF TypeOK
    <2>2. CASE q = p
      <3>1. queue'[q] = Tail(queue[p])
        BY <2>2, <1>1
      <3>2. queue'[q][i] = queue[p][i+1] /\ i+1 \in 1..Len(queue[p])
        BY <3>1, <1>1, <1>2, <1>3, LenProperties
      <3> QED
        BY <3>2, <2>2 DEF TypeOK
    <2> QED
      BY <2>1, <2>2
  <1> QED
    BY <1>1, <1>2, <1>3 DEF TypeOK

\* Every step keeps the types.
LEMMA NextType == TypeOK /\ [Next]_vars => TypeOK'
  <1> SUFFICES ASSUME TypeOK, [Next]_vars PROVE TypeOK'
    OBVIOUS
  <1> USE DEF pipelines
  <1>1. CASE Users
    <2>1. PICK k \in Owners : \/ CreateOwner(k) /\ Elsewhere
                              \/ DeleteOwner(k) /\ Elsewhere
                              \/ DeleteOwnerForeground(k) /\ Elsewhere
                              \/ Drift(k)
      BY <1>1 DEF Users
    <2>2. CASE Drift(k)
      <3>1. ClusterTypeOK'
        BY <2>2, ClusterStepType DEF Drift, TypeOK
      <3> QED
        BY <2>2, <3>1 DEF Drift, Unnoticed, TypeOK
    <2>3. CASE ~Drift(k)
      <3>1. ClusterTypeOK' /\ Elsewhere
        BY <2>1, <2>3, ClusterStepType DEF TypeOK
      <3> QED
        BY <3>1 DEF Elsewhere, TypeOK
    <2> QED
      BY <2>2, <2>3
  <1>2. CASE Controllers
    <2>1. ClusterTypeOK'
      BY <1>2, ClusterStepType
      DEF Controllers, Remove, Collect, Drain, Drained, Finalize, TypeOK
    <2>2. CASE Elsewhere
      BY <2>1, <2>2 DEF Elsewhere, TypeOK
    <2>3. CASE \E k \in Agents : Drained(k)
      BY <2>1, <2>3 DEF Drained, Unnoticed, TypeOK, Owners
    <2> QED
      BY <1>2, <2>2, <2>3 DEF Controllers, Remove, Collect, Drain, Finalize
  <1>3. CASE Strays
    <2>1. PICK a \in strays : StrayLands(a) \/ StrayVanishes(a)
      BY <1>3 DEF Strays
    <2>2. a.key \in Owners /\ a.inc \in Nat
      BY <2>1 DEF TypeOK, Apply
    <2>3. CASE StrayLands(a)
      BY <2>2, <2>3, AppliedType DEF StrayLands, Write, TypeOK, ClusterTypeOK
    <2>4. CASE StrayVanishes(a)
      BY <2>4 DEF StrayVanishes, TypeOK, ClusterTypeOK, cluster
    <2> QED
      BY <2>1, <2>3, <2>4
  <1>4. CASE BecomeLeader
    BY <1>4 DEF BecomeLeader, TypeOK, ClusterTypeOK, cluster
  <1>5. CASE LoseLeadership
    <2>1. /\ queue' = [q \in Pipelines |-> <<>>]
          /\ inflight' = [q \in Pipelines |-> {}]
          /\ \A q \in Pipelines : 1..Len(queue'[q]) = {}
      BY <1>5 DEF LoseLeadership
    <2>2. queue' \in [Pipelines -> Seq(Event)]
      BY <2>1, EmptySeq
    <2>3. strays' \subseteq Apply
      <3>1. ASSUME NEW a \in UNION {inflight[p] : p \in Pipelines}
            PROVE  a \in Apply
        <4>1. PICK p \in Pipelines : a \in inflight[p]
          BY <3>1
        <4> QED
          BY <4>1 DEF TypeOK
      <3> QED
        BY <1>5, <3>1 DEF LoseLeadership, TypeOK
    <2>4. /\ collection' \in [Owners -> Nat]
          /\ inflight' \in [Pipelines -> SUBSET Apply]
          /\ leader' \in BOOLEAN /\ lost' \subseteq Owners
      BY <1>5, <2>1 DEF LoseLeadership, TypeOK
    <2>6. spent' \in [failures : Nat, drifts : Nat, handovers : Nat]
      <3>1. spent' = [spent EXCEPT !.handovers = spent.handovers + 1]
        BY <1>5 DEF LoseLeadership
      <3>2. spent \in [failures : Nat, drifts : Nat, handovers : Nat]
        BY DEF TypeOK
      <3> QED
        BY <3>1, <3>2
    <2>5. ClusterTypeOK'
      BY <1>5 DEF LoseLeadership, TypeOK, ClusterTypeOK, cluster
    <2> QED
      BY <2>1, <2>2, <2>3, <2>4, <2>5, <2>6 DEF TypeOK
  <1>6. CASE \E k \in Owners : Observe(k)
    BY <1>6, ObserveType
  <1>7. ASSUME NEW p \in Pipelines, Sink(p) PROVE TypeOK'
    <2>1. CASE SkipDelete(p)
      BY <2>1, NextEventType DEF SkipDelete, TypeOK, ClusterTypeOK, cluster
    <2>2. CASE SendApply(p)
      <3>1. /\ Head(queue[p]) \in Event
            /\ Head(queue[p]).inc > 0
            /\ PipelineOf(Head(queue[p]).key) = p
            /\ queue' \in [Pipelines -> Seq(Event)]
            /\ \A q \in Pipelines : \A i \in 1..Len(queue'[q]) :
                 PipelineOf(queue'[q][i].key) = q /\ queue'[q][i].inc > 0
        BY <2>2, NextEventType DEF SendApply
      <3>2. [key |-> Head(queue[p]).key, inc |-> Head(queue[p]).inc] \in Apply
        BY <3>1 DEF Apply, Event
      <3>3. ClusterTypeOK' /\ UNCHANGED <<leader, collection, strays, spent, lost>>
        BY <2>2 DEF SendApply, TypeOK, ClusterTypeOK, cluster
      <3>4. inflight' = [inflight EXCEPT ![p] = {[key |-> Head(queue[p]).key,
                                                  inc |-> Head(queue[p]).inc]}]
        BY <2>2 DEF SendApply
      <3>5. inflight' \in [Pipelines -> SUBSET Apply]
        BY <3>2, <3>4 DEF TypeOK
      <3>6. ASSUME NEW q \in Pipelines
            PROVE  /\ \A a \in inflight'[q] : PipelineOf(a.key) = q /\ a.inc > 0
                   /\ \A a, b \in inflight'[q] : a = b
        BY <3>1, <3>4 DEF TypeOK
      <3> QED
        BY <3>1, <3>3, <3>5, <3>6 DEF TypeOK
    <2>3. CASE ApplySucceeds(p)
      <3>1. PICK a \in inflight[p] :
              /\ Write(a)
              /\ inflight' = [inflight EXCEPT ![p] = {}]
              /\ lost' \subseteq lost \union {a.key}
              /\ UNCHANGED <<owner, born, leader, collection, queue, strays, spent>>
        BY <2>3 DEF ApplySucceeds
      <3>2. a.key \in Owners /\ a.inc \in Nat
        BY <3>1 DEF TypeOK, Apply
      <3>3. ClusterTypeOK'
        BY <3>1, <3>2, AppliedType DEF Write, TypeOK, ClusterTypeOK
      <3> QED
        BY <3>1, <3>2, <3>3 DEF TypeOK
    <2>4. CASE ApplyFails(p)
      <3>1. PICK a \in inflight[p] :
              /\ ApplyError(a)
              /\ inflight' = [inflight EXCEPT ![p] = {}]
              /\ lost' = lost \union {a.key}
              /\ UNCHANGED <<cluster, leader, collection, queue, strays>>
        BY <2>4 DEF ApplyFails
      <3>2. a.key \in Owners /\ spent' \in [failures : Nat, drifts : Nat, handovers : Nat]
        BY <3>1 DEF TypeOK, Apply, ApplyError
      <3> QED
        BY <3>1, <3>2 DEF TypeOK, ClusterTypeOK, cluster
    <2> QED
      BY <1>7, <2>1, <2>2, <2>3, <2>4 DEF Sink
  <1>8. CASE UNCHANGED vars
    BY <1>8 DEF vars, cluster, TypeOK, ClusterTypeOK
  <1> QED
    BY <1>1, <1>2, <1>3, <1>4, <1>5, <1>6, <1>7, <1>8 DEF Next

\* Type correctness: every variable keeps its type, a sink waits for at most
\* one apply, and every event is in the queue of its own sink with a UID.
THEOREM TypeCorrect == Spec => []TypeOK
  <1>1. Init => TypeOK
    <2> SUFFICES ASSUME Init PROVE TypeOK
      OBVIOUS
    <2>1. queue \in [Pipelines -> Seq(Event)]
      BY EmptySeq DEF Init
    <2>2. \A p \in Pipelines : 1..Len(queue[p]) = {} /\ inflight[p] = {}
      BY DEF Init
    <2> QED
      BY <2>1, <2>2
      DEF Init, ClusterInit, TypeOK, ClusterTypeOK, NoOwner, Absent, NoTrouble
  <1> QED
    BY <1>1, NextType, PTL DEF Spec

-----------------------------------------------------------------------------
\* ReferencesAreGenuine is inductive together with the same fact about the
\* owners themselves and about the entries of the derived collections.
GenuineInv ==
    /\ ReferencesAreGenuine
    /\ \A k \in Owners : owner[k].inc <= born[k] /\ collection[k] <= born[k]

\* Nothing takes an incarnation back.
LEMMA BornGrows ==
    ASSUME TypeOK, [Next]_vars
    PROVE  \A k \in Owners : born[k] <= born'[k]
  <1>1. ASSUME NEW k \in Owners, CreateOwner(k)
        PROVE  \A j \in Owners : born[j] <= born'[j]
    BY <1>1 DEF CreateOwner, TypeOK, ClusterTypeOK
  <1>2. CASE born' = born
    BY <1>2 DEF TypeOK, ClusterTypeOK
  <1>3. born' = born \/ \E k \in Owners : CreateOwner(k)
    BY DEF Next, vars, cluster, Users, Controllers, Strays, Sink, DeleteOwner,
           DeleteOwnerForeground, Drift, DeleteObject, Remove, RemoveOwner,
           Collect, CollectGarbage, Drain, DrainAgent, Drained,
           DrainServiceAccount, Finalize, FinalizeNamespace, StrayLands,
           StrayVanishes, BecomeLeader, LoseLeadership, Observe, SkipDelete,
           SendApply, ApplySucceeds, ApplyFails
  <1> QED
    BY <1>1, <1>2, <1>3

\* References and UIDs on their way stay genuine while only incarnations are
\* added.
LEMMA GenuineMonotone ==
    ASSUME TypeOK, TypeOK', GenuineInv,
           \A k \in Owners : born[k] <= born'[k],
           UNCHANGED <<collection, queue, inflight, strays>>,
           \A k \in Owners : object'[k].ref \in 0..born'[k],
           \A k \in Owners : owner'[k].inc <= born'[k]
    PROVE  GenuineInv'
  <1>1. ASSUME NEW k \in Owners PROVE born[k] \in Nat /\ born'[k] \in Nat
    BY DEF TypeOK, ClusterTypeOK
  <1>2. ASSUME NEW k \in Owners PROVE collection'[k] <= born'[k]
    BY <1>1 DEF TypeOK, GenuineInv
  <1>3. ASSUME NEW p \in Pipelines, NEW i \in 1..Len(queue[p])
        PROVE  queue[p][i].inc \in 1..born'[queue[p][i].key]
    <2>1. queue[p] \in Seq(Event) /\ queue[p][i] \in Event
      BY DEF TypeOK
    <2>2. queue[p][i].inc \in 1..born[queue[p][i].key] /\ queue[p][i].key \in Owners
      BY <2>1 DEF GenuineInv, ReferencesAreGenuine, Event
    <2> QED
      BY <2>2, <1>1
  <1>4. ASSUME NEW a \in Apply, a.inc \in 1..born[a.key]
        PROVE  a.inc \in 1..born'[a.key]
    BY <1>1, <1>4 DEF Apply
  <1>5. \A p \in Pipelines : inflight[p] \subseteq Apply
    BY DEF TypeOK
  <1>6. strays \subseteq Apply
    BY DEF TypeOK
  <1> QED
    BY <1>2, <1>3, <1>4, <1>5, <1>6 DEF GenuineInv, ReferencesAreGenuine

\* After an apply that names an existing incarnation all references are genuine.
LEMMA AppliedGenuine ==
    ASSUME TypeOK, GenuineInv, NEW a \in Apply, a.inc \in 1..born[a.key], Write(a)
    PROVE  \A k \in Owners : object'[k].ref \in 0..born[k]
  <1>1. a.key \in Owners /\ object \in [Owners -> [phase : {"absent", "active", "terminating"}, ref : Nat]]
    BY DEF Apply, TypeOK, ClusterTypeOK
  <1>2. ASSUME NEW k \in Owners PROVE object'[k].ref \in 0..born[k]
    <2>1. CASE k = a.key
      <3>1. object'[k].ref = a.inc
        BY <1>1, <2>1 DEF Write, Applied
      <3> QED
        BY <3>1, <2>1
    <2>2. CASE k # a.key
      BY <1>1, <2>2 DEF Write, Applied, GenuineInv, ReferencesAreGenuine
    <2> QED
      BY <2>1, <2>2
  <1> QED
    BY <1>2

\* The actors of the cluster change no reference but to none at all.
LEMMA ClusterStepGenuine ==
    ASSUME TypeOK, GenuineInv, NEW k \in Owners,
           \/ CreateOwner(k) \/ DeleteOwner(k) \/ DeleteOwnerForeground(k)
           \/ RemoveOwner(k) \/ DeleteObject(k)
           \/ k \in Ecosystems /\ FinalizeNamespace(k)
    PROVE  /\ \A j \in Owners : object'[j].ref \in 0..born'[j]
           /\ \A j \in Owners : owner'[j].inc <= born'[j]
  <1>1. \A j \in Owners : /\ object[j].ref \in 0..born[j]
                          /\ owner[j].inc <= born[j]
                          /\ born[j] \in Nat
    BY DEF TypeOK, ClusterTypeOK, GenuineInv, ReferencesAreGenuine
  <1>2. CASE CreateOwner(k)
    BY <1>1, <1>2 DEF CreateOwner, TypeOK, ClusterTypeOK
  <1>3. CASE DeleteOwner(k) \/ RemoveOwner(k)
    <2>1. owner' = [owner EXCEPT ![k] = NoOwner] /\ UNCHANGED <<object, born>>
      BY <1>3 DEF DeleteOwner, RemoveOwner
    <2>2. owner \in [Owners -> [inc : Nat, deleting : BOOLEAN]]
      BY DEF TypeOK, ClusterTypeOK
    <2>3. \A j \in Owners : owner'[j].inc = IF j = k THEN 0 ELSE owner[j].inc
      BY <2>1, <2>2 DEF NoOwner
    <2> QED
      BY <1>1, <2>1, <2>3
  <1>4. CASE DeleteOwnerForeground(k)
    BY <1>1, <1>4 DEF DeleteOwnerForeground, TypeOK, ClusterTypeOK
  <1>5. CASE DeleteObject(k)
    BY <1>1, <1>5 DEF DeleteObject, Absent, TypeOK, ClusterTypeOK
  <1>6. CASE FinalizeNamespace(k)
    BY <1>1, <1>6 DEF FinalizeNamespace, Absent, TypeOK, ClusterTypeOK
  <1> QED
    BY <1>2, <1>3, <1>4, <1>5, <1>6

\* Every step keeps references genuine.
LEMMA NextGenuine == TypeOK /\ TypeOK' /\ GenuineInv /\ [Next]_vars => GenuineInv'
  <1> SUFFICES ASSUME TypeOK, TypeOK', GenuineInv, [Next]_vars PROVE GenuineInv'
    OBVIOUS
  <1> USE DEF pipelines
  <1>0. \A k \in Owners : born[k] <= born'[k]
    BY BornGrows
  <1>a. ASSUME UNCHANGED <<owner, object, born>>
        PROVE  /\ \A k \in Owners : object'[k].ref \in 0..born'[k]
               /\ \A k \in Owners : owner'[k].inc <= born'[k]
    BY <1>a DEF GenuineInv, ReferencesAreGenuine
  <1>1. CASE Users \/ Controllers
    <2>1. UNCHANGED <<collection, queue, inflight, strays>>
      BY <1>1 DEF Users, Controllers, Elsewhere, Drift, Unnoticed, Remove,
                  Collect, Drain, Drained, Finalize
    <2>2. \E k \in Owners :
              \/ CreateOwner(k) \/ DeleteOwner(k) \/ DeleteOwnerForeground(k)
              \/ RemoveOwner(k) \/ DeleteObject(k)
              \/ k \in Ecosystems /\ FinalizeNamespace(k)
      BY <1>1 DEF Users, Controllers, Drift, Remove, Collect, CollectGarbage, Drain,
                  DrainAgent, Drained, DrainServiceAccount, Finalize, Owners
    <2> QED
      BY <1>0, <2>1, <2>2, ClusterStepGenuine, GenuineMonotone
  <1>2. CASE Strays
    <2>1. PICK a \in strays : StrayLands(a) \/ StrayVanishes(a)
      BY <1>2 DEF Strays
    <2>2. a \in Apply /\ a.inc \in 1..born[a.key]
      BY <2>1 DEF TypeOK, GenuineInv, ReferencesAreGenuine
    <2>3. /\ UNCHANGED <<owner, born, collection, queue, inflight>>
          /\ strays' \subseteq strays
      BY <2>1 DEF StrayLands, StrayVanishes, cluster
    <2>4. \A k \in Owners : object'[k].ref \in 0..born'[k]
      BY <2>1, <2>2, <2>3, <1>a, AppliedGenuine
      DEF StrayLands, StrayVanishes, cluster
    <2> QED
      BY <2>3, <2>4 DEF GenuineInv, ReferencesAreGenuine
  <1>3. CASE BecomeLeader \/ UNCHANGED vars
    BY <1>3 DEF BecomeLeader, vars, cluster, GenuineInv, ReferencesAreGenuine
  <1>4. CASE LoseLeadership
    <2>1. /\ UNCHANGED <<owner, object, born>>
          /\ collection' = [k \in Owners |-> 0]
          /\ queue' = [p \in Pipelines |-> <<>>]
          /\ inflight' = [p \in Pipelines |-> {}]
          /\ strays' = strays \union UNION {inflight[p] : p \in Pipelines}
      BY <1>4 DEF LoseLeadership, cluster
    <2>2. ASSUME NEW a \in strays' PROVE a.inc \in 1..born'[a.key]
      <3>1. a \in strays \/ \E p \in Pipelines : a \in inflight[p]
        BY <2>1, <2>2
      <3> QED
        BY <2>1, <3>1 DEF GenuineInv, ReferencesAreGenuine
    <2>3. \A p \in Pipelines : 1..Len(queue'[p]) = {} /\ inflight'[p] = {}
      BY <2>1
    <2>4. \A k \in Owners : collection'[k] <= born'[k]
      BY <2>1 DEF TypeOK, ClusterTypeOK
    <2> QED
      BY <1>a, <2>1, <2>2, <2>3, <2>4 DEF GenuineInv, ReferencesAreGenuine
  <1>5. ASSUME NEW k \in Owners, Observe(k) PROVE GenuineInv'
    <2> DEFINE e == [type |-> EventType(collection[k], Desired(k)), key |-> k,
                     inc |-> Latest(collection[k], Desired(k))]
               p == PipelineOf(k)
    <2>1. /\ UNCHANGED <<owner, object, born, inflight, strays>>
          /\ collection[k] # Desired(k)
          /\ collection' = [collection EXCEPT ![k] = Desired(k)]
          /\ queue' = [queue EXCEPT ![p] = Append(queue[p], e)]
      BY <1>5 DEF Observe, cluster
    <2>2. Desired(k) \in 0..born[k] /\ collection[k] \in 0..born[k] /\ born[k] \in Nat
      BY DEF Desired, TypeOK, ClusterTypeOK, GenuineInv
    <2>3. e.key = k /\ e.inc \in 1..born[k]
      BY <2>1, <2>2 DEF Latest
    <2>4. p \in Pipelines /\ queue[p] \in Seq(Event) /\ queue \in [Pipelines -> Seq(Event)]
      BY PipelineOfType DEF TypeOK
    <2>5. e \in Event
      BY <2>2, <2>3 DEF Event, EventType
    <2>6. ASSUME NEW q \in Pipelines, NEW i \in 1..Len(queue'[q])
          PROVE  queue'[q][i].inc \in 1..born'[queue'[q][i].key]
      <3>1. CASE q # p
        BY <2>1, <2>4, <2>6, <3>1 DEF GenuineInv, ReferencesAreGenuine
      <3>2. CASE q = p /\ i = Len(queue[p]) + 1
        BY <2>1, <2>3, <2>4, <2>5, <3>2, AppendProperties
      <3>3. CASE q = p /\ i \in 1..Len(queue[p])
        <4>1. queue'[q][i] = queue[p][i]
          BY <2>1, <2>4, <2>5, <3>3, AppendProperties
        <4> QED
          BY <4>1, <2>1, <2>4, <3>3 DEF GenuineInv, ReferencesAreGenuine
      <3> QED
        BY <2>1, <2>4, <2>5, <2>6, <3>1, <3>2, <3>3, AppendProperties
    <2>7. \A j \in Owners : collection'[j] <= born'[j]
      BY <2>1, <2>2 DEF GenuineInv, TypeOK
    <2> QED
      BY <1>a, <2>1, <2>6, <2>7 DEF GenuineInv, ReferencesAreGenuine
  <1>6. ASSUME NEW p \in Pipelines, SkipDelete(p) \/ SendApply(p)
        PROVE  GenuineInv'
    <2>1. /\ UNCHANGED <<owner, object, born, collection, strays>>
          /\ queue[p] # <<>>
          /\ queue' = [queue EXCEPT ![p] = Tail(queue[p])]
          /\ \/ inflight' = inflight
             \/ inflight' = [inflight EXCEPT ![p] =
                   {[key |-> Head(queue[p]).key, inc |-> Head(queue[p]).inc]}]
      BY <1>6 DEF SkipDelete, SendApply, NextEvent, cluster
    <2>2. queue \in [Pipelines -> Seq(Event)] /\ queue[p] \in Seq(Event)
      BY DEF TypeOK
    <2>3. /\ Head(queue[p]) = queue[p][1] /\ 1 \in 1..Len(queue[p])
          /\ Len(Tail(queue[p])) = Len(queue[p]) - 1
          /\ \A i \in 1..Len(Tail(queue[p])) : Tail(queue[p])[i] = queue[p][i+1]
      BY <2>1, <2>2, HeadTailProperties, EmptySeq, LenProperties
    <2>4. ASSUME NEW q \in Pipelines, NEW i \in 1..Len(queue'[q])
          PROVE  queue'[q][i].inc \in 1..born'[queue'[q][i].key]
      <3>1. CASE q # p
        BY <2>1, <2>2, <2>4, <3>1 DEF GenuineInv, ReferencesAreGenuine
      <3>2. CASE q = p
        <4>1. queue'[q] = Tail(queue[p])
          BY <2>1, <2>2, <3>2
        <4>2. queue'[q][i] = queue[p][i+1] /\ i+1 \in 1..Len(queue[p])
          BY <2>2, <2>3, <2>4, <4>1, LenProperties
        <4> QED
          BY <2>1, <4>2 DEF GenuineInv, ReferencesAreGenuine
      <3> QED
        BY <3>1, <3>2
    <2>5. ASSUME NEW q \in Pipelines, NEW a \in inflight'[q]
          PROVE  a.inc \in 1..born'[a.key]
      <3>1. a \in inflight[q] \/ (a.key = queue[p][1].key /\ a.inc = queue[p][1].inc)
        BY <2>1, <2>3, <2>5 DEF TypeOK
      <3> QED
        BY <2>1, <2>3, <3>1 DEF GenuineInv, ReferencesAreGenuine
    <2> QED
      BY <1>a, <2>1, <2>4, <2>5 DEF GenuineInv, ReferencesAreGenuine
  <1>7. ASSUME NEW p \in Pipelines, ApplySucceeds(p) \/ ApplyFails(p)
        PROVE  GenuineInv'
    <2>1. PICK a \in inflight[p] :
            /\ Write(a) \/ UNCHANGED object
            /\ inflight' = [inflight EXCEPT ![p] = {}]
            /\ UNCHANGED <<owner, born, collection, queue, strays>>
      BY <1>7 DEF ApplySucceeds, ApplyFails, cluster
    <2>2. a \in Apply /\ a.inc \in 1..born[a.key]
      BY <2>1 DEF TypeOK, GenuineInv, ReferencesAreGenuine
    <2>3. \A k \in Owners : object'[k].ref \in 0..born'[k]
      BY <2>1, <2>2, <1>a, AppliedGenuine
    <2>4. \A q \in Pipelines : inflight'[q] \subseteq inflight[q]
      BY <2>1 DEF TypeOK
    <2> QED
      BY <2>1, <2>3, <2>4 DEF GenuineInv, ReferencesAreGenuine
  <1> QED
    BY <1>1, <1>2, <1>3, <1>4, <1>5, <1>6, <1>7 DEF Next, Sink

\* GenuineInv holds in every state.
LEMMA GenuineIsKept == Spec => []GenuineInv
  <1>1. Init => GenuineInv
    <2> SUFFICES ASSUME Init PROVE GenuineInv
      OBVIOUS
    <2>1. \A p \in Pipelines : 1..Len(queue[p]) = {} /\ inflight[p] = {}
      BY DEF Init
    <2> QED
      BY <2>1 DEF Init, ClusterInit, NoOwner, Absent, GenuineInv, ReferencesAreGenuine
  <1> QED
    BY <1>1, NextGenuine, TypeCorrect, PTL DEF Spec

\* Every owner reference in the cluster, and every event and apply on its way,
\* names an incarnation of its owner that has existed.
THEOREM References == Spec => []ReferencesAreGenuine
  <1>1. GenuineInv => ReferencesAreGenuine
    BY DEF GenuineInv
  <1> QED
    BY <1>1, GenuineIsKept, PTL

\* The controller implements the abstract cluster: whatever events, failures
\* and changes of leader do, an apply only claims an object for an incarnation
\* of the owner with its name.
THEOREM Implementation == Spec => ImplementsCluster
  <1>1. Init => ClusterInit
    BY DEF Init
  <1>2. TypeOK /\ ReferencesAreGenuine /\ [Next]_vars => [ClusterNext]_cluster
    <2> SUFFICES ASSUME TypeOK, ReferencesAreGenuine, Next, ~(UNCHANGED cluster)
                 PROVE  ClusterNext
      BY DEF vars
    <2> USE DEF cluster
    <2>1. ASSUME NEW a \in Apply, a.inc \in 1..born[a.key], Admissible(a.key),
                 Write(a), UNCHANGED <<owner, born>>
          PROVE  ClusterNext
      <3>1. a.key \in Owners
        BY DEF Apply
      <3>2. Claim(a.key)
        BY <2>1 DEF Claim, Write
      <3> QED
        BY <3>1, <3>2 DEF ClusterNext
    <2>2. CASE Users \/ Controllers
      BY <2>2 DEF Users, Controllers, Drift, Remove, Collect, Drain, Drained,
                  Finalize, ClusterNext
    <2>3. CASE Strays
      <3>1. PICK a \in strays : StrayLands(a)
        BY <2>3 DEF Strays, StrayVanishes
      <3> QED
        BY <2>1, <3>1 DEF StrayLands, TypeOK, ReferencesAreGenuine
    <2>4. ASSUME NEW p \in Pipelines, Sink(p) PROVE ClusterNext
      <3>1. PICK a \in inflight[p] : /\ Admissible(a.key) /\ Write(a)
                                     /\ UNCHANGED <<owner, born>>
        BY <2>4 DEF Sink, ApplySucceeds, ApplyFails, SkipDelete, SendApply
      <3> QED
        BY <2>1, <3>1 DEF TypeOK, ReferencesAreGenuine
    <2> QED
      BY <2>2, <2>3, <2>4 DEF Next, BecomeLeader, LoseLeadership, Observe
  <1> QED
    BY <1>1, <1>2, TypeCorrect, References, PTL
    DEF Spec, ImplementsCluster, ClusterSpec

-----------------------------------------------------------------------------
(* What is queued, on its way and done for a key agree.                    *)

\* A replica without the lease has derived nothing and waits for nothing.
NothingWithoutLease ==
    ~leader => /\ collection = [k \in Owners |-> 0]
               /\ queue = [p \in Pipelines |-> <<>>]
               /\ inflight = [p \in Pipelines |-> {}]

\* The newest event of a key says what the derived collection holds for it ...
Newest(p, i) == \A j \in i + 1..Len(queue[p]) : queue[p][j].key # queue[p][i].key
NewestEventsTell ==
    \A p \in Pipelines : \A i \in 1..Len(queue[p]) : Newest(p, i) =>
        collection[queue[p][i].key] = IF queue[p][i].type = "Delete" THEN 0 ELSE queue[p][i].inc

\* ... and so does the apply on its way when no event of its key is queued.
NewestAppliesTell ==
    \A p \in Pipelines : \A a \in inflight[p] :
        (\A i \in 1..Len(queue[p]) : queue[p][i].key # a.key) => collection[a.key] = a.inc

\* QuiescentConverged is inductive together with these.
QuietInv ==
    /\ NothingWithoutLease
    /\ NewestEventsTell
    /\ NewestAppliesTell
    /\ QuiescentConverged

\* Observing a key appends one event to the queue of its pipeline.
LEMMA ObserveQueue ==
    ASSUME TypeOK, NEW k \in Owners, Observe(k)
    PROVE  LET p == PipelineOf(k)
               e == [type |-> EventType(collection[k], Desired(k)), key |-> k,
                     inc |-> Latest(collection[k], Desired(k))]
           IN  /\ p \in Pipelines
               /\ Len(queue[p]) \in Nat
               /\ Len(queue'[p]) = Len(queue[p]) + 1
               /\ queue'[p][Len(queue[p]) + 1] = e
               /\ \A i \in 1..Len(queue[p]) : queue'[p][i] = queue[p][i]
               /\ \A q \in Pipelines \ {p} : queue'[q] = queue[q]
  <1> DEFINE e == [type |-> EventType(collection[k], Desired(k)), key |-> k,
                   inc |-> Latest(collection[k], Desired(k))]
             p == PipelineOf(k)
  <1>1. p \in Pipelines /\ queue \in [Pipelines -> Seq(Event)] /\ queue[p] \in Seq(Event)
    BY PipelineOfType DEF TypeOK
  <1>2. Desired(k) \in Nat /\ collection[k] \in Nat
    BY DesiredType DEF TypeOK
  <1>3. e \in Event
    BY <1>2 DEF Observe, Event, EventType, Latest
  <1>4. queue' = [queue EXCEPT ![p] = Append(queue[p], e)]
    BY DEF Observe
  <1>5. /\ Len(Append(queue[p], e)) = Len(queue[p]) + 1
        /\ Append(queue[p], e)[Len(queue[p]) + 1] = e
        /\ \A i \in 1..Len(queue[p]) : Append(queue[p], e)[i] = queue[p][i]
        /\ Len(queue[p]) \in Nat
    BY <1>1, <1>3, AppendProperties, LenProperties
  <1> QED
    BY <1>1, <1>4, <1>5

\* Taking an event moves the others of its queue up.
LEMMA NextEventQueue ==
    ASSUME TypeOK, NEW p \in Pipelines, NextEvent(p)
    PROVE  /\ Len(queue[p]) \in Nat \ {0}
           /\ Head(queue[p]) = queue[p][1]
           /\ Len(queue'[p]) = Len(queue[p]) - 1
           /\ \A i \in 1..Len(queue'[p]) : queue'[p][i] = queue[p][i + 1]
           /\ \A q \in Pipelines \ {p} : queue'[q] = queue[q]
  <1>1. /\ queue \in [Pipelines -> Seq(Event)]
        /\ queue[p] \in Seq(Event) /\ queue[p] # <<>>
        /\ queue' = [queue EXCEPT ![p] = Tail(queue[p])]
    BY DEF TypeOK, NextEvent
  <1>2. /\ Head(queue[p]) = queue[p][1] /\ Len(queue[p]) \in Nat \ {0}
        /\ Len(Tail(queue[p])) = Len(queue[p]) - 1
        /\ \A i \in 1..Len(Tail(queue[p])) : Tail(queue[p])[i] = queue[p][i+1]
    BY <1>1, HeadTailProperties, EmptySeq, LenProperties
  <1> QED
    BY <1>1, <1>2

\* Only a step of the cluster's own changes an owner, and it makes a later
\* incarnation of it or none; what had converged then stays as it was or is lost.
LEMMA SurroundingsStayQuiet ==
    ASSUME TypeOK, GenuineInv, Users \/ Controllers, NEW k \in Owners,
           collection[k] = Desired(k)', Desired(k)' # 0, k \notin lost'
    PROVE  /\ Desired(k) = Desired(k)' /\ k \notin lost
           /\ Converged(k) => Converged(k)'
  <1>0. /\ owner \in [Owners -> [inc : Nat, deleting : BOOLEAN]]
        /\ object \in [Owners -> [phase : {"absent", "active", "terminating"}, ref : Nat]]
        /\ born \in [Owners -> Nat] /\ collection[k] \in 0..born[k]
    BY DEF TypeOK, ClusterTypeOK, GenuineInv
  <1>1. ASSUME NEW j \in Owners, CreateOwner(j) \/ DeleteOwner(j) \/ RemoveOwner(j) \/ DeleteOwnerForeground(j)
        PROVE  owner'[k] = owner[k] /\ UNCHANGED object
    <2>1. CASE CreateOwner(j)
      <3>1. born[k] + 1 # collection[k]
        BY <1>0
      <3>2. /\ owner' = [owner EXCEPT ![j] = [inc |-> born[j] + 1, deleting |-> FALSE]]
            /\ UNCHANGED object
        BY <2>1 DEF CreateOwner
      <3>3. CASE j = k
        BY <1>0, <3>1, <3>2, <3>3 DEF Desired
      <3> QED
        BY <1>0, <3>2, <3>3
    <2>2. CASE DeleteOwner(j) \/ RemoveOwner(j)
      BY <1>0, <2>2 DEF DeleteOwner, RemoveOwner, NoOwner, Desired
    <2>3. CASE DeleteOwnerForeground(j)
      BY <1>0, <2>3 DEF DeleteOwnerForeground, Desired
    <2> QED
      BY <1>1, <2>1, <2>2, <2>3
  <1>2. ASSUME NEW j \in Owners, Drift(j) \/ (j \in Agents /\ Drained(j))
        PROVE  /\ owner'[k] = owner[k] /\ k \notin lost
               /\ object'[k] = object[k]
    <2>1. DeleteObject(j) /\ Unnoticed(j)
      BY <1>2 DEF Drift, Drained, DrainServiceAccount
    <2> QED
      BY <1>0, <2>1 DEF DeleteObject, Unnoticed
  <1>3. ASSUME NEW j \in Owners, CollectGarbage(j) \/ (j \in Ecosystems /\ FinalizeNamespace(j))
        PROVE  /\ owner'[k] = owner[k]
               /\ Converged(k) => object'[k] = object[k]
    <2>1. CASE CollectGarbage(j)
      <3>1. /\ owner' = owner
            /\ object[j].ref # owner[j].inc \/ owner[j].deleting
            /\ \A i \in Owners \ {j} : object'[i] = object[i]
        BY <1>0, <2>1 DEF CollectGarbage, DeleteObject
      <3>2. ~owner[k].deleting
        BY <1>0, <3>1 DEF Desired
      <3>3. Converged(k) => j # k
        BY <3>1, <3>2 DEF Converged
      <3> QED
        BY <3>1, <3>3
    <2>2. CASE FinalizeNamespace(j)
      BY <1>0, <2>2 DEF FinalizeNamespace, Converged
    <2> QED
      BY <1>3, <2>1, <2>2
  <1>4. ASSUME owner'[k] = owner[k], k \notin lost, Converged(k) => object'[k] = object[k]
        PROVE  /\ Desired(k) = Desired(k)' /\ k \notin lost
               /\ Converged(k) => Converged(k)'
    BY <1>4 DEF Desired, Converged
  <1>5. CASE Elsewhere
    <2>1. \/ \E j \in Owners : CreateOwner(j) \/ DeleteOwner(j) \/ RemoveOwner(j) \/ DeleteOwnerForeground(j)
          \/ \E j \in Owners : CollectGarbage(j) \/ (j \in Ecosystems /\ FinalizeNamespace(j))
          \/ \E j \in Owners : Drift(j) \/ (j \in Agents /\ Drained(j))
      BY DEF Users, Controllers, Remove, Collect, Drain, DrainAgent, Finalize, Owners
    <2> QED
      BY <1>1, <1>2, <1>3, <1>4, <1>5, <2>1 DEF Elsewhere
  <1>6. CASE ~Elsewhere
    <2>1. \E j \in Owners : Drift(j) \/ (j \in Agents /\ Drained(j))
      BY <1>6 DEF Users, Controllers, Remove, Collect, Drain, Finalize, Owners
    <2> QED
      BY <1>2, <1>4, <2>1
  <1> QED
    BY <1>5, <1>6

\* Every step keeps QuietInv.
LEMMA NextQuiet == TypeOK /\ GenuineInv /\ QuietInv /\ [Next]_vars => QuietInv'
  <1> SUFFICES ASSUME TypeOK, GenuineInv, QuietInv, [Next]_vars PROVE QuietInv'
    OBVIOUS
  <1> USE DEF pipelines
  <1>a. ASSUME UNCHANGED <<leader, collection, queue, inflight>>
        PROVE  /\ NothingWithoutLease' /\ NewestEventsTell' /\ NewestAppliesTell'
               /\ \A k \in Owners : Pending(k)' <=> Pending(k)
    BY <1>a DEF QuietInv, NothingWithoutLease, NewestEventsTell, Newest, NewestAppliesTell, Pending
  <1>1. CASE Users \/ Controllers
    <2>1. UNCHANGED <<leader, collection, queue, inflight>>
      BY <1>1 DEF Users, Controllers, Elsewhere, Drift, Unnoticed, Remove, Collect, Drain,
                  Drained, Finalize
    <2>2. ASSUME NEW k \in Owners, Settled(k)', Desired(k)' # 0, k \notin lost'
          PROVE  Converged(k)'
      <3>1. collection[k] = Desired(k)' /\ leader /\ ~Pending(k)
        BY <1>a, <2>1, <2>2 DEF Settled
      <3>2. Settled(k) /\ Desired(k) # 0 /\ k \notin lost
        BY <1>1, <2>2, <3>1, SurroundingsStayQuiet DEF Settled
      <3> QED
        BY <1>1, <2>2, <3>1, <3>2, SurroundingsStayQuiet DEF QuietInv, QuiescentConverged
    <2> QED
      BY <1>a, <2>1, <2>2 DEF QuietInv, QuiescentConverged
  <1>2. CASE Strays
    <2>1. PICK a \in strays : StrayLands(a) \/ StrayVanishes(a)
      BY <1>2 DEF Strays
    <2>2. UNCHANGED <<leader, collection, queue, inflight, owner>>
      BY <2>1 DEF StrayLands, StrayVanishes, cluster
    <2>3. ASSUME NEW k \in Owners, k \notin lost'
          PROVE  k \notin lost /\ object'[k] = object[k]
      BY <2>1, <2>3 DEF StrayLands, StrayVanishes, cluster, Write, Applied, TypeOK, ClusterTypeOK
    <2> QED
      BY <1>a, <2>2, <2>3 DEF QuietInv, QuiescentConverged, Settled, Desired, Converged
  <1>3. CASE BecomeLeader
    <2>1. \A k \in Owners : collection'[k] = 0
      BY <1>3 DEF BecomeLeader, QuietInv, NothingWithoutLease
    <2> QED
      BY <1>3, <2>1 DEF BecomeLeader, QuietInv, NothingWithoutLease, NewestEventsTell, Newest,
                        NewestAppliesTell, QuiescentConverged, Settled
  <1>4. CASE LoseLeadership
    <2>1. \A p \in Pipelines : 1..Len(queue'[p]) = {} /\ inflight'[p] = {}
      BY <1>4 DEF LoseLeadership
    <2> QED
      BY <1>4, <2>1 DEF LoseLeadership, QuietInv, NothingWithoutLease, NewestEventsTell,
                        NewestAppliesTell, QuiescentConverged, Settled
  <1>5. ASSUME NEW k \in Owners, Observe(k) PROVE QuietInv'
    <2> DEFINE e == [type |-> EventType(collection[k], Desired(k)), key |-> k,
                     inc |-> Latest(collection[k], Desired(k))]
               p == PipelineOf(k)
    <2>1. /\ leader /\ leader' /\ inflight' = inflight /\ lost' = lost
          /\ UNCHANGED <<owner, object>>
          /\ collection[k] # Desired(k)
          /\ collection'[k] = Desired(k)
          /\ \A j \in Owners \ {k} : collection'[j] = collection[j]
      BY <1>5 DEF Observe, cluster, TypeOK
    <2>2. /\ p \in Pipelines
          /\ Len(queue[p]) \in Nat
          /\ Len(queue'[p]) = Len(queue[p]) + 1
          /\ queue'[p][Len(queue[p]) + 1] = e
          /\ \A i \in 1..Len(queue[p]) : queue'[p][i] = queue[p][i]
          /\ \A q \in Pipelines \ {p} : queue'[q] = queue[q]
      BY <1>5, ObserveQueue
    <2>3. \A q \in Pipelines : \A i \in 1..Len(queue[q]) :
              queue[q][i].key \in Owners /\ PipelineOf(queue[q][i].key) = q
      <3> SUFFICES ASSUME NEW q \in Pipelines, NEW i \in 1..Len(queue[q])
                   PROVE  queue[q][i].key \in Owners /\ PipelineOf(queue[q][i].key) = q
        OBVIOUS
      <3>1. queue[q] \in Seq(Event) /\ PipelineOf(queue[q][i].key) = q
        BY DEF TypeOK
      <3>2. queue[q][i] \in Event
        BY <3>1
      <3> QED
        BY <3>1, <3>2 DEF Event
    <2>4. \A q \in Pipelines : \A a \in inflight[q] : a.key \in Owners /\ PipelineOf(a.key) = q
      BY DEF TypeOK, Apply
    <2>5. collection'[k] = IF e.type = "Delete" THEN 0 ELSE e.inc
      BY <2>1 DEF EventType, Latest
    <2>6. NewestEventsTell'
      <3> SUFFICES ASSUME NEW q \in Pipelines, NEW i \in 1..Len(queue'[q]), Newest(q, i)'
                   PROVE  collection'[queue'[q][i].key] =
                              IF queue'[q][i].type = "Delete" THEN 0 ELSE queue'[q][i].inc
        BY DEF NewestEventsTell
      <3>1. CASE q # p
        <4>1. queue'[q] = queue[q] /\ queue[q][i].key # k /\ queue[q][i].key \in Owners
          BY <2>2, <2>3, <3>1
        <4> QED
          BY <2>1, <4>1 DEF QuietInv, NewestEventsTell, Newest
      <3>2. CASE q = p /\ i = Len(queue[p]) + 1
        BY <2>2, <2>5, <3>2
      <3>3. CASE q = p /\ i \in 1..Len(queue[p])
        <4>1. queue'[q][i].key # k
          BY <2>2, <3>3 DEF Newest
        <4>2. Newest(q, i)
          BY <2>2, <3>3 DEF Newest
        <4>3. queue'[q][i] = queue[q][i] /\ queue[q][i].key \in Owners
          BY <2>2, <2>3, <3>3
        <4> QED
          BY <2>1, <4>1, <4>2, <4>3, <3>3 DEF QuietInv, NewestEventsTell
      <3> QED
        BY <2>2, <3>1, <3>2, <3>3
    <2>7. NewestAppliesTell'
      <3> SUFFICES ASSUME NEW q \in Pipelines, NEW a \in inflight[q],
                          \A i \in 1..Len(queue'[q]) : queue'[q][i].key # a.key
                   PROVE  collection'[a.key] = a.inc
        BY <2>1 DEF NewestAppliesTell
      <3>1. a.key # k
        BY <2>2, <2>4
      <3>2. \A i \in 1..Len(queue[q]) : queue[q][i].key # a.key
        BY <2>2
      <3> QED
        BY <2>1, <2>4, <3>1, <3>2 DEF QuietInv, NewestAppliesTell
    <2>8. QuiescentConverged'
      <3> SUFFICES ASSUME NEW j \in Owners, Settled(j)', Desired(j)' # 0, j \notin lost'
                   PROVE  Converged(j)'
        BY DEF QuiescentConverged
      <3>1. j # k
        BY <2>2 DEF Settled, Pending
      <3>2. ~Pending(j)
        <4>1. \A q \in Pipelines : \A i \in 1..Len(queue[q]) :
                  i \in 1..Len(queue'[q]) /\ queue'[q][i] = queue[q][i]
          BY <2>2
        <4> QED
          BY <2>1, <4>1 DEF Settled, Pending
      <3> QED
        BY <2>1, <3>1, <3>2 DEF QuietInv, QuiescentConverged, Settled, Desired, Converged
    <2> QED
      BY <2>1, <2>6, <2>7, <2>8 DEF QuietInv, NothingWithoutLease
  <1>6. ASSUME NEW p \in Pipelines, SkipDelete(p) \/ SendApply(p) PROVE QuietInv'
    <2> DEFINE h == queue[p][1]
    <2>1. /\ Len(queue[p]) \in Nat \ {0}
          /\ Head(queue[p]) = h
          /\ Len(queue'[p]) = Len(queue[p]) - 1
          /\ \A i \in 1..Len(queue'[p]) : queue'[p][i] = queue[p][i + 1]
          /\ \A q \in Pipelines \ {p} : queue'[q] = queue[q]
      BY <1>6, NextEventQueue DEF SkipDelete, SendApply
    <2>2. /\ leader /\ leader' /\ lost' = lost /\ UNCHANGED <<owner, object, collection>>
          /\ inflight[p] = {}
          /\ \/ h.type = "Delete" /\ inflight' = inflight
             \/ /\ h.type # "Delete"
                /\ inflight' = [inflight EXCEPT ![p] = {[key |-> h.key, inc |-> h.inc]}]
      BY <1>6, <2>1 DEF SkipDelete, SendApply, NextEvent, cluster
    <2>3. /\ \A q \in Pipelines \ {p} : inflight'[q] = inflight[q]
          /\ h.type = "Delete" => inflight'[p] = {}
          /\ h.type # "Delete" => inflight'[p] = {[key |-> h.key, inc |-> h.inc]}
      BY <2>2 DEF TypeOK
    <2>4. NewestEventsTell'
      <3> SUFFICES ASSUME NEW q \in Pipelines, NEW i \in 1..Len(queue'[q]), Newest(q, i)'
                   PROVE  collection[queue'[q][i].key] =
                              IF queue'[q][i].type = "Delete" THEN 0 ELSE queue'[q][i].inc
        BY <2>2 DEF NewestEventsTell
      <3>1. CASE q # p
        <4>1. queue'[q] = queue[q]
          BY <2>1, <3>1
        <4>2. Newest(q, i)
          BY <4>1 DEF Newest
        <4> QED
          BY <4>1, <4>2 DEF QuietInv, NewestEventsTell
      <3>2. CASE q = p
        <4>1. i + 1 \in 1..Len(queue[p]) /\ queue'[p][i] = queue[p][i + 1]
          BY <2>1, <3>2
        <4>2. Newest(p, i + 1)
          <5> SUFFICES ASSUME NEW j \in (i + 1) + 1..Len(queue[p])
                       PROVE  queue[p][j].key # queue[p][i + 1].key
            BY DEF Newest
          <5>1. j - 1 \in i + 1..Len(queue'[p]) /\ queue'[p][j - 1] = queue[p][(j - 1) + 1]
            BY <2>1, <4>1
          <5>2. (j - 1) + 1 = j
            BY <2>1, <4>1
          <5> QED
            BY <3>2, <4>1, <5>1, <5>2 DEF Newest
        <4> QED
          BY <3>2, <4>1, <4>2 DEF QuietInv, NewestEventsTell
      <3> QED
        BY <3>1, <3>2
    <2>5. ASSUME NEW j, \A i \in 1..Len(queue'[p]) : queue'[p][i].key # j
          PROVE  \A i \in 2..Len(queue[p]) : queue[p][i].key # j
      <3> SUFFICES ASSUME NEW i \in 2..Len(queue[p]) PROVE queue[p][i].key # j
        OBVIOUS
      <3>1. i - 1 \in 1..Len(queue'[p]) /\ (i - 1) + 1 = i
        BY <2>1
      <3> QED
        BY <2>1, <2>5, <3>1
    <2>6. ASSUME \A i \in 2..Len(queue[p]) : queue[p][i].key # h.key
          PROVE  collection[h.key] = IF h.type = "Delete" THEN 0 ELSE h.inc
      <3>1. Newest(p, 1) /\ 1 \in 1..Len(queue[p])
        BY <2>1, <2>6 DEF Newest
      <3> QED
        BY <3>1 DEF QuietInv, NewestEventsTell
    <2>7. NewestAppliesTell'
      <3> SUFFICES ASSUME NEW q \in Pipelines, NEW a \in inflight'[q],
                          \A i \in 1..Len(queue'[q]) : queue'[q][i].key # a.key
                   PROVE  collection[a.key] = a.inc
        BY <2>2 DEF NewestAppliesTell
      <3>1. CASE q # p
        BY <2>1, <2>3, <3>1 DEF QuietInv, NewestAppliesTell
      <3>2. CASE q = p
        <4>1. h.type # "Delete" /\ a = [key |-> h.key, inc |-> h.inc]
          BY <2>3, <3>2
        <4>2. \A i \in 2..Len(queue[p]) : queue[p][i].key # h.key
          BY <2>5, <3>2, <4>1
        <4> QED
          BY <2>6, <4>1, <4>2
      <3> QED
        BY <3>1, <3>2
    <2>8. QuiescentConverged'
      <3> SUFFICES ASSUME NEW j \in Owners, Settled(j)', Desired(j)' # 0, j \notin lost'
                   PROVE  Converged(j)'
        BY DEF QuiescentConverged
      <3>1. \A i \in 2..Len(queue[p]) : queue[p][i].key # j
        BY <2>5 DEF Settled, Pending
      <3>2. h.key # j
        <4>1. CASE h.type = "Delete"
          BY <2>2, <2>6, <3>1, <4>1 DEF Settled, Desired
        <4>2. CASE h.type # "Delete"
          <5>1. [key |-> h.key, inc |-> h.inc] \in inflight'[p]
            BY <2>3, <4>2
          <5>2. \A b \in inflight'[p] : b.key # j
            BY DEF Settled, Pending
          <5> QED
            BY <5>1, <5>2
        <4> QED
          BY <4>1, <4>2
      <3>3. \A i \in 1..Len(queue[p]) : queue[p][i].key # j
        BY <2>1, <3>1, <3>2
      <3>4. ~Pending(j)
        BY <2>1, <2>2, <2>3, <3>3 DEF Settled, Pending
      <3> QED
        BY <2>2, <3>4 DEF QuietInv, QuiescentConverged, Settled, Desired, Converged
    <2> QED
      BY <2>2, <2>4, <2>7, <2>8 DEF QuietInv, NothingWithoutLease
  <1>7. ASSUME NEW p \in Pipelines, ApplySucceeds(p) \/ ApplyFails(p) PROVE QuietInv'
    <2>1. PICK a \in inflight[p] :
            /\ \/ /\ Write(a)
                  /\ lost' = IF object[a.key].phase = "terminating"
                             THEN lost \union {a.key} ELSE lost \ {a.key}
               \/ UNCHANGED object /\ lost' = lost \union {a.key}
            /\ inflight' = [inflight EXCEPT ![p] = {}]
            /\ UNCHANGED <<owner, leader, collection, queue>>
      BY <1>7 DEF ApplySucceeds, ApplyFails, cluster
    <2>2. /\ a.key \in Owners /\ PipelineOf(a.key) = p
          /\ inflight[p] = {a}
          /\ inflight'[p] = {}
          /\ \A q \in Pipelines \ {p} : inflight'[q] = inflight[q]
          /\ object \in [Owners -> [phase : {"absent", "active", "terminating"}, ref : Nat]]
      BY <2>1 DEF TypeOK, ClusterTypeOK, Apply
    <2>3. leader
      BY <2>2 DEF QuietInv, NothingWithoutLease
    <2>4. NothingWithoutLease' /\ NewestEventsTell' /\ NewestAppliesTell'
      <3>1. NothingWithoutLease' /\ NewestEventsTell'
        BY <2>1, <2>3 DEF QuietInv, NothingWithoutLease, NewestEventsTell, Newest
      <3>2. ASSUME NEW q \in Pipelines, NEW b \in inflight'[q] PROVE b \in inflight[q]
        BY <2>2, <3>2
      <3> QED
        BY <2>1, <3>1, <3>2 DEF QuietInv, NewestAppliesTell
    <2>5. QuiescentConverged'
      <3> SUFFICES ASSUME NEW k \in Owners, Settled(k)', Desired(k)' # 0, k \notin lost'
                   PROVE  Converged(k)'
        BY DEF QuiescentConverged
      <3>1. CASE k = a.key
        <4>1. object'[k] = [phase |-> "active", ref |-> a.inc]
          BY <2>1, <2>2, <3>1 DEF Write, Applied, Exists
        <4>2. \A i \in 1..Len(queue[p]) : queue[p][i].key # a.key
          BY <2>1, <3>1 DEF Settled, Pending
        <4>3. collection[k] = a.inc /\ collection[k] = Desired(k)'
          BY <2>1, <3>1, <4>2 DEF QuietInv, NewestAppliesTell, Settled
        <4> QED
          BY <4>1, <4>3 DEF Converged, Desired
      <3>2. CASE k # a.key
        <4>1. object'[k] = object[k] /\ k \notin lost
          BY <2>1, <2>2, <3>2 DEF Write, Applied
        <4>2. ~Pending(k)
          BY <2>1, <2>2, <3>2 DEF Settled, Pending
        <4> QED
          BY <2>1, <4>1, <4>2 DEF QuietInv, QuiescentConverged, Settled, Desired, Converged
      <3> QED
        BY <3>1, <3>2
    <2> QED
      BY <2>4, <2>5 DEF QuietInv
  <1>8. CASE UNCHANGED vars
    BY <1>a, <1>8 DEF vars, cluster, QuietInv, QuiescentConverged, Settled, Desired, Converged
  <1> QED
    BY <1>1, <1>2, <1>3, <1>4, <1>5, <1>6, <1>7, <1>8 DEF Next, Sink

\* The sinks converge: once an owner that is not being deleted is known as it
\* is and no event or apply of it is left, its object is there and refers to
\* it, through any coalesced events and changes of the leader, unless the
\* object changed without an event.
THEOREM Converges == Spec => []QuiescentConverged
  <1>1. Init => QuietInv
    <2> SUFFICES ASSUME Init PROVE QuietInv
      OBVIOUS
    <2>1. \A p \in Pipelines : 1..Len(queue[p]) = {} /\ inflight[p] = {}
      BY DEF Init
    <2> QED
      BY <2>1 DEF Init, QuietInv, NothingWithoutLease, NewestEventsTell, NewestAppliesTell,
                  QuiescentConverged, Settled
  <1>2. QuietInv => QuiescentConverged
    BY DEF QuietInv
  <1> QED
    BY <1>1, <1>2, NextQuiet, GenuineIsKept, TypeCorrect, PTL DEF Spec

-----------------------------------------------------------------------------
(* The order of incarnations.                                              *)

\* Neither the object of a key nor a stray request for it is ahead of inc.
Leads(k, inc) == object[k].ref <= inc /\ \A s \in strays : s.key = k => s.inc <= inc

ToApply(p, i) == queue[p][i].type # "Delete"

\* An owner that exists is the newest incarnation of its key, ...
OwnersAreNewest == \A k \in Owners : owner[k].inc \in {0, born[k]}

\* ... what the leader is going to apply is not older than what others may have
\* applied, ...
AppliesLead ==
    /\ \A p \in Pipelines : \A a \in inflight[p] : Leads(a.key, a.inc)
    /\ \A p \in Pipelines : \A i \in 1..Len(queue[p]) :
          ToApply(p, i) => Leads(queue[p][i].key, queue[p][i].inc)

\* ... and it comes to a key's incarnations in their order.
AppliesAreInOrder ==
    /\ \A p \in Pipelines : \A a \in inflight[p] : \A i \in 1..Len(queue[p]) :
          ToApply(p, i) /\ queue[p][i].key = a.key => a.inc <= queue[p][i].inc
    /\ \A p \in Pipelines : \A i, j \in 1..Len(queue[p]) :
          i < j /\ ToApply(p, i) /\ ToApply(p, j) /\ queue[p][i].key = queue[p][j].key
          => queue[p][i].inc <= queue[p][j].inc

OrderInv == OwnersAreNewest /\ AppliesLead /\ AppliesAreInOrder

\* The types of what is queued, in the form the proofs below use.
LEMMA QueueType ==
    ASSUME TypeOK
    PROVE  /\ \A p \in Pipelines : \A i \in 1..Len(queue[p]) :
                 /\ queue[p][i].key \in Owners /\ queue[p][i].inc \in Nat \ {0}
                 /\ PipelineOf(queue[p][i].key) = p
                 /\ queue[p][i].type \in {"Add", "Update", "Delete"}
           /\ \A p \in Pipelines : \A a \in inflight[p] :
                 a.key \in Owners /\ a.inc \in Nat \ {0} /\ PipelineOf(a.key) = p
           /\ \A a \in strays : a.key \in Owners /\ a.inc \in Nat
           /\ \A k \in Owners : object[k].ref \in Nat
  <1>1. ASSUME NEW p \in Pipelines, NEW i \in 1..Len(queue[p])
        PROVE  /\ queue[p][i].key \in Owners /\ queue[p][i].inc \in Nat \ {0}
               /\ PipelineOf(queue[p][i].key) = p
               /\ queue[p][i].type \in {"Add", "Update", "Delete"}
    <2>1. queue[p] \in Seq(Event) /\ PipelineOf(queue[p][i].key) = p /\ queue[p][i].inc > 0
      BY DEF TypeOK
    <2>2. queue[p][i] \in Event
      BY <2>1
    <2> QED
      BY <2>1, <2>2 DEF Event
  <1>2. ASSUME NEW p \in Pipelines, NEW a \in inflight[p]
        PROVE  a.key \in Owners /\ a.inc \in Nat \ {0} /\ PipelineOf(a.key) = p
    BY DEF TypeOK, Apply
  <1> QED
    BY <1>1, <1>2 DEF TypeOK, ClusterTypeOK, Apply

\* A change of the objects or of the strays that brings nothing ahead of what
\* the leader is going to apply keeps the order.
LEMMA OrderKept ==
    ASSUME OrderInv, OwnersAreNewest', UNCHANGED <<queue, inflight>>,
           \A k \in Owners : \A inc \in Nat : Leads(k, inc) => Leads(k, inc)',
           TypeOK
    PROVE  OrderInv'
  BY QueueType DEF OrderInv, AppliesLead, AppliesAreInOrder, ToApply

\* Users and the cluster's controllers make new incarnations the newest ones, and
\* remove references only.
LEMMA SurroundingsKeepOrder ==
    ASSUME TypeOK, OrderInv, Users \/ Controllers
    PROVE  OrderInv'
  <1>1. UNCHANGED <<queue, inflight, strays>>
    BY DEF Users, Controllers, Elsewhere, Drift, Unnoticed, Remove, Collect, Drain,
           Drained, Finalize, pipelines
  <1>2. PICK k \in Owners :
            \/ CreateOwner(k) \/ DeleteOwner(k) \/ DeleteOwnerForeground(k)
            \/ RemoveOwner(k) \/ DeleteObject(k)
            \/ k \in Ecosystems /\ FinalizeNamespace(k)
    BY DEF Users, Controllers, Drift, Remove, Collect, CollectGarbage, Drain,
           DrainAgent, Drained, DrainServiceAccount, Finalize, Owners
  <1>3. /\ owner \in [Owners -> [inc : Nat, deleting : BOOLEAN]]
        /\ object \in [Owners -> [phase : {"absent", "active", "terminating"}, ref : Nat]]
        /\ born \in [Owners -> Nat]
    BY DEF TypeOK, ClusterTypeOK
  <1>4. OwnersAreNewest'
    <2>1. CASE CreateOwner(k)
      BY <1>3, <2>1 DEF CreateOwner, OrderInv, OwnersAreNewest
    <2>2. CASE DeleteOwner(k) \/ RemoveOwner(k)
      <3>1. owner' = [owner EXCEPT ![k] = NoOwner] /\ born' = born
        BY <2>2 DEF DeleteOwner, RemoveOwner
      <3> QED
        BY <1>3, <3>1 DEF NoOwner, OrderInv, OwnersAreNewest
    <2>3. CASE DeleteOwnerForeground(k)
      BY <1>3, <2>3 DEF DeleteOwnerForeground, OrderInv, OwnersAreNewest
    <2>4. CASE DeleteObject(k) \/ FinalizeNamespace(k)
      BY <2>4 DEF DeleteObject, FinalizeNamespace, OrderInv, OwnersAreNewest
    <2> QED
      BY <1>2, <2>1, <2>2, <2>3, <2>4
  <1>5. \A j \in Owners : object'[j].ref = object[j].ref \/ object'[j].ref = 0
    <2>1. CASE DeleteObject(k)
      BY <1>3, <2>1 DEF DeleteObject, Absent
    <2>2. CASE FinalizeNamespace(k)
      BY <1>3, <2>2 DEF FinalizeNamespace, Absent
    <2>3. CASE UNCHANGED object
      BY <2>3
    <2> QED
      BY <1>2, <2>1, <2>2, <2>3 DEF CreateOwner, DeleteOwner, DeleteOwnerForeground, RemoveOwner
  <1>6. ASSUME NEW j \in Owners, NEW inc \in Nat, Leads(j, inc) PROVE Leads(j, inc)'
    BY <1>1, <1>3, <1>5, <1>6 DEF Leads
  <1> QED
    BY <1>1, <1>4, <1>6, OrderKept

\* What is written and was on its way before leads what is written afterwards.
LEMMA WriteKeepsLead ==
    ASSUME TypeOK, NEW a \in Apply, Write(a), NEW k \in Owners, NEW inc \in Nat,
           strays' \subseteq strays, Leads(k, inc), k = a.key => a.inc <= inc
    PROVE  Leads(k, inc)'
  <1>1. object'[k].ref = IF k = a.key THEN a.inc ELSE object[k].ref
    BY DEF Write, Applied, TypeOK, ClusterTypeOK, Apply
  <1> QED
    BY <1>1 DEF Leads

\* Every step keeps the order.
LEMMA NextOrder == TypeOK /\ GenuineInv /\ OrderInv /\ [Next]_vars => OrderInv'
  <1> SUFFICES ASSUME TypeOK, GenuineInv, OrderInv, [Next]_vars PROVE OrderInv'
    OBVIOUS
  <1> USE DEF pipelines
  <1>1. CASE Users \/ Controllers
    BY <1>1, SurroundingsKeepOrder
  <1>2. CASE Strays
    <2>1. PICK a \in strays : StrayLands(a) \/ StrayVanishes(a)
      BY <1>2 DEF Strays
    <2>2. /\ UNCHANGED <<owner, born, queue, inflight>>
          /\ strays' \subseteq strays /\ a \in Apply
          /\ Write(a) \/ UNCHANGED object
      BY <2>1 DEF StrayLands, StrayVanishes, cluster, TypeOK
    <2>3. ASSUME NEW k \in Owners, NEW inc \in Nat, Leads(k, inc) PROVE Leads(k, inc)'
      <3>1. k = a.key => a.inc <= inc
        BY <2>1, <2>3 DEF Leads
      <3>2. CASE Write(a)
        BY <2>2, <2>3, <3>1, <3>2, WriteKeepsLead
      <3>3. CASE UNCHANGED object
        BY <2>2, <2>3, <3>3 DEF Leads
      <3> QED
        BY <2>2, <3>2, <3>3
    <2> QED
      BY <2>2, <2>3, OrderKept DEF OrderInv, OwnersAreNewest
  <1>3. CASE BecomeLeader \/ UNCHANGED vars
    <2>1. UNCHANGED <<owner, object, born, queue, inflight, strays>>
      BY <1>3 DEF BecomeLeader, vars, cluster
    <2> QED
      BY <2>1, OrderKept DEF OrderInv, OwnersAreNewest, Leads
  <1>4. CASE LoseLeadership
    <2>1. /\ \A p \in Pipelines : 1..Len(queue'[p]) = {} /\ inflight'[p] = {}
          /\ UNCHANGED <<owner, born>>
      BY <1>4 DEF LoseLeadership, cluster
    <2> QED
      BY <2>1 DEF OrderInv, OwnersAreNewest, AppliesLead, AppliesAreInOrder
  <1>5. ASSUME NEW k \in Owners, Observe(k) PROVE OrderInv'
    <2> DEFINE e == [type |-> EventType(collection[k], Desired(k)), key |-> k,
                     inc |-> Latest(collection[k], Desired(k))]
               p == PipelineOf(k)
               n == Len(queue[p]) + 1
    <2>1. /\ p \in Pipelines
          /\ Len(queue[p]) \in Nat
          /\ Len(queue'[p]) = n
          /\ queue'[p][n] = e
          /\ \A i \in 1..Len(queue[p]) : queue'[p][i] = queue[p][i]
          /\ \A q \in Pipelines \ {p} : queue'[q] = queue[q]
      BY <1>5, ObserveQueue
    <2>2. UNCHANGED <<owner, object, born, inflight, strays>>
      BY <1>5 DEF Observe, cluster
    <2>3. e.type # "Delete" => e.inc = born[k]
      BY DEF EventType, Latest, Desired, OrderInv, OwnersAreNewest
    <2>4. /\ born[k] \in Nat /\ object[k].ref \in 0..born[k]
          /\ \A q \in Pipelines : \A i \in 1..Len(queue[q]) :
                queue[q][i].inc \in 1..born[queue[q][i].key]
          /\ \A q \in Pipelines : \A a \in inflight[q] : a.inc \in 1..born[a.key]
          /\ \A a \in strays : a.inc \in 1..born[a.key]
      BY DEF GenuineInv, ReferencesAreGenuine, TypeOK, ClusterTypeOK
    <2>5. ASSUME NEW q \in Pipelines, NEW i \in 1..Len(queue'[q])
          PROVE  \/ i \in 1..Len(queue[q]) /\ queue'[q][i] = queue[q][i]
                 \/ q = p /\ i = n /\ queue'[q][i] = e
      BY <2>1, <2>5
    <2>6. AppliesLead'
      <3>1. Leads(k, born[k])'
        BY <2>2, <2>4 DEF Leads
      <3>2. ASSUME NEW q \in Pipelines, NEW i \in 1..Len(queue'[q]), ToApply(q, i)'
            PROVE  Leads(queue[q][i].key, queue[q][i].inc)'
        <4>1. CASE i \in 1..Len(queue[q]) /\ queue'[q][i] = queue[q][i]
          BY <2>2, <3>2, <4>1 DEF OrderInv, AppliesLead, ToApply, Leads
        <4>2. CASE queue'[q][i] = e
          BY <2>2, <2>3, <3>1, <3>2, <4>2 DEF ToApply, Leads
        <4> QED
          BY <2>5, <4>1, <4>2
      <3> QED
        BY <2>2, <3>2 DEF OrderInv, AppliesLead, Leads
    <2>7. AppliesAreInOrder'
      <3>1. ASSUME NEW q \in Pipelines, NEW a \in inflight[q], NEW i \in 1..Len(queue'[q]),
                   ToApply(q, i)', queue'[q][i].key = a.key
            PROVE  a.inc <= queue'[q][i].inc
        <4>1. CASE i \in 1..Len(queue[q]) /\ queue'[q][i] = queue[q][i]
          BY <3>1, <4>1 DEF OrderInv, AppliesAreInOrder, ToApply
        <4>2. CASE queue'[q][i] = e
          BY <2>3, <2>4, <3>1, <4>2 DEF ToApply
        <4> QED
          BY <2>5, <4>1, <4>2
      <3>2. ASSUME NEW q \in Pipelines, NEW i \in 1..Len(queue'[q]), NEW j \in 1..Len(queue'[q]),
                   i < j, ToApply(q, i)', ToApply(q, j)', queue'[q][i].key = queue'[q][j].key
            PROVE  queue'[q][i].inc <= queue'[q][j].inc
        <4>1. i \in 1..Len(queue[q]) /\ queue'[q][i] = queue[q][i]
          BY <2>1, <2>5, <3>2
        <4>2. CASE j \in 1..Len(queue[q]) /\ queue'[q][j] = queue[q][j]
          BY <3>2, <4>1, <4>2 DEF OrderInv, AppliesAreInOrder, ToApply
        <4>3. CASE queue'[q][j] = e
          BY <2>3, <2>4, <3>2, <4>1, <4>3 DEF ToApply
        <4> QED
          BY <2>5, <4>2, <4>3
      <3> QED
        BY <2>2, <3>1, <3>2 DEF AppliesAreInOrder
    <2> QED
      BY <2>2, <2>6, <2>7 DEF OrderInv, OwnersAreNewest
  <1>6. ASSUME NEW p \in Pipelines, SkipDelete(p) \/ SendApply(p) PROVE OrderInv'
    <2> DEFINE h == queue[p][1]
    <2>1. /\ Len(queue[p]) \in Nat \ {0}
          /\ Head(queue[p]) = h
          /\ Len(queue'[p]) = Len(queue[p]) - 1
          /\ \A i \in 1..Len(queue'[p]) : queue'[p][i] = queue[p][i + 1]
          /\ \A q \in Pipelines \ {p} : queue'[q] = queue[q]
      BY <1>6, NextEventQueue DEF SkipDelete, SendApply
    <2>2. /\ UNCHANGED <<owner, object, born, strays>>
          /\ inflight[p] = {}
          /\ \/ inflight' = inflight
             \/ /\ h.type # "Delete"
                /\ inflight' = [inflight EXCEPT ![p] = {[key |-> h.key, inc |-> h.inc]}]
      BY <1>6, <2>1 DEF SkipDelete, SendApply, NextEvent, cluster
    <2>3. ASSUME NEW q \in Pipelines, NEW a \in inflight'[q]
          PROVE  \/ q # p /\ a \in inflight[q]
                 \/ q = p /\ h.type # "Delete" /\ a.key = h.key /\ a.inc = h.inc
      BY <2>2, <2>3 DEF TypeOK
    <2>4. ASSUME NEW q \in Pipelines, NEW i \in 1..Len(queue'[q])
          PROVE  \/ q # p /\ i \in 1..Len(queue[q]) /\ queue'[q][i] = queue[q][i]
                 \/ q = p /\ i + 1 \in 1..Len(queue[p]) /\ queue'[q][i] = queue[p][i + 1]
      BY <2>1, <2>4
    <2>5. 1 \in 1..Len(queue[p])
      BY <2>1
    <2>6. AppliesLead'
      <3>1. ASSUME NEW q \in Pipelines, NEW a \in inflight'[q] PROVE Leads(a.key, a.inc)'
        <4>1. CASE a \in inflight[q]
          BY <2>2, <4>1 DEF OrderInv, AppliesLead, Leads
        <4>2. CASE h.type # "Delete" /\ a.key = h.key /\ a.inc = h.inc
          BY <2>2, <2>5, <4>2 DEF OrderInv, AppliesLead, Leads, ToApply
        <4> QED
          BY <2>3, <4>1, <4>2
      <3>2. ASSUME NEW q \in Pipelines, NEW i \in 1..Len(queue'[q]), ToApply(q, i)'
            PROVE  Leads(queue[q][i].key, queue[q][i].inc)'
        <4>1. PICK j \in 1..Len(queue[q]) : queue'[q][i] = queue[q][j]
          BY <2>4, <3>2
        <4>2. Leads(queue[q][j].key, queue[q][j].inc)
          BY <3>2, <4>1 DEF OrderInv, AppliesLead, ToApply
        <4> QED
          BY <2>2, <4>1, <4>2 DEF Leads
      <3> QED
        BY <3>1, <3>2 DEF AppliesLead
    <2>7. AppliesAreInOrder'
      <3>1. ASSUME NEW q \in Pipelines, NEW a \in inflight'[q], NEW i \in 1..Len(queue'[q]),
                   ToApply(q, i)', queue'[q][i].key = a.key
            PROVE  a.inc <= queue'[q][i].inc
        <4>1. CASE q # p
          BY <2>3, <2>4, <3>1, <4>1 DEF OrderInv, AppliesAreInOrder, ToApply
        <4>2. CASE q = p
          <5>1. h.type # "Delete" /\ a.key = h.key /\ a.inc = h.inc
            BY <2>3, <3>1, <4>2
          <5>2. i + 1 \in 1..Len(queue[p]) /\ queue'[q][i] = queue[p][i + 1] /\ 1 < i + 1
            BY <2>4, <3>1, <4>2
          <5> QED
            BY <2>5, <3>1, <4>2, <5>1, <5>2 DEF OrderInv, AppliesAreInOrder, ToApply
        <4> QED
          BY <4>1, <4>2
      <3>2. ASSUME NEW q \in Pipelines, NEW i \in 1..Len(queue'[q]), NEW j \in 1..Len(queue'[q]),
                   i < j, ToApply(q, i)', ToApply(q, j)', queue'[q][i].key = queue'[q][j].key
            PROVE  queue'[q][i].inc <= queue'[q][j].inc
        <4>1. CASE q # p
          BY <2>1, <3>2, <4>1 DEF OrderInv, AppliesAreInOrder, ToApply
        <4>2. CASE q = p
          <5>1. /\ i + 1 \in 1..Len(queue[p]) /\ queue'[q][i] = queue[p][i + 1]
                /\ j + 1 \in 1..Len(queue[p]) /\ queue'[q][j] = queue[p][j + 1]
                /\ i + 1 < j + 1
            BY <2>4, <3>2, <4>2
          <5> QED
            BY <3>2, <4>2, <5>1 DEF OrderInv, AppliesAreInOrder, ToApply
        <4> QED
          BY <4>1, <4>2
      <3> QED
        BY <3>1, <3>2 DEF AppliesAreInOrder
    <2> QED
      BY <2>2, <2>6, <2>7 DEF OrderInv, OwnersAreNewest
  <1>7. ASSUME NEW p \in Pipelines, ApplySucceeds(p) \/ ApplyFails(p) PROVE OrderInv'
    <2>1. PICK a \in inflight[p] :
            /\ Write(a) \/ UNCHANGED object
            /\ inflight' = [inflight EXCEPT ![p] = {}]
            /\ UNCHANGED <<owner, born, queue, strays>>
      BY <1>7 DEF ApplySucceeds, ApplyFails, cluster
    <2>2. /\ a \in Apply /\ PipelineOf(a.key) = p
          /\ \A q \in Pipelines : \A b \in inflight'[q] : q # p /\ b \in inflight[q]
      BY <2>1 DEF TypeOK
    <2>3. ASSUME NEW k \in Owners, NEW inc \in Nat, Leads(k, inc), k = a.key => a.inc <= inc
          PROVE  Leads(k, inc)'
      <3>1. CASE Write(a)
        BY <2>1, <2>2, <2>3, <3>1, WriteKeepsLead
      <3>2. CASE UNCHANGED object
        BY <2>1, <2>3, <3>2 DEF Leads
      <3> QED
        BY <2>1, <3>1, <3>2
    <2>4. AppliesLead'
      <3>1. ASSUME NEW q \in Pipelines, NEW b \in inflight'[q] PROVE Leads(b.key, b.inc)'
        <4>1. b \in inflight[q] /\ b.key # a.key /\ b.key \in Owners /\ b.inc \in Nat
          BY <2>2, <3>1, QueueType
        <4> QED
          BY <2>3, <4>1 DEF OrderInv, AppliesLead
      <3>2. ASSUME NEW q \in Pipelines, NEW i \in 1..Len(queue[q]), ToApply(q, i)
            PROVE  Leads(queue[q][i].key, queue[q][i].inc)'
        <4>1. /\ queue[q][i].key \in Owners /\ queue[q][i].inc \in Nat
              /\ queue[q][i].key = a.key => q = p
          BY <2>2, <3>2, QueueType
        <4>2. queue[q][i].key = a.key => a.inc <= queue[q][i].inc
          BY <2>1, <3>2, <4>1 DEF OrderInv, AppliesAreInOrder
        <4> QED
          BY <2>1, <2>3, <3>2, <4>1, <4>2 DEF OrderInv, AppliesLead, Leads
      <3> QED
        BY <2>1, <3>1, <3>2 DEF AppliesLead, ToApply
    <2>5. AppliesAreInOrder'
      BY <2>1, <2>2 DEF OrderInv, AppliesAreInOrder, ToApply
    <2> QED
      BY <2>1, <2>4, <2>5 DEF OrderInv, OwnersAreNewest
  <1> QED
    BY <1>1, <1>2, <1>3, <1>4, <1>5, <1>6, <1>7 DEF Next, Sink

\* Only a request of a former leader takes an object back to an earlier
\* incarnation of its owner.
LEMMA StepMovesForward ==
    ASSUME TypeOK, OrderInv, [Next]_vars, NEW k \in Owners,
           Exists(k), Exists(k)', object'[k].ref < object[k].ref
    PROVE  [key |-> k, inc |-> object'[k].ref] \in strays \ strays'
  <1>1. object \in [Owners -> [phase : {"absent", "active", "terminating"}, ref : Nat]]
    BY DEF TypeOK, ClusterTypeOK
  <1>2. ASSUME NEW a \in Apply, Write(a)
        PROVE  k = a.key /\ object'[k].ref = a.inc
    BY <1>1, <1>2 DEF Write, Applied, Apply
  <1>3. ASSUME NEW j \in Owners, DeleteObject(j) \/ FinalizeNamespace(j) PROVE FALSE
    <2>1. object'[k] # object[k] /\ \A i \in Owners \ {j} : object'[i] = object[i]
      BY <1>1, <1>3 DEF DeleteObject, FinalizeNamespace
    <2>2. object'[j].phase = "absent" \/ object'[j].ref = object[j].ref
      BY <1>1, <1>3 DEF DeleteObject, FinalizeNamespace, Absent
    <2> QED
      BY <1>1, <2>1, <2>2 DEF Exists
  <1>4. CASE Users \/ Controllers
    <2>1. \/ UNCHANGED object
          \/ \E j \in Owners : DeleteObject(j) \/ FinalizeNamespace(j)
      BY <1>4 DEF Users, Controllers, CreateOwner, DeleteOwner, DeleteOwnerForeground, Drift,
                  Remove, RemoveOwner, Collect, CollectGarbage, Drain, DrainAgent, Drained,
                  DrainServiceAccount, Finalize, Owners
    <2> QED
      BY <1>1, <1>3, <2>1
  <1>5. CASE Strays
    <2>1. PICK a \in strays : Write(a) \/ UNCHANGED object
      BY <1>5 DEF Strays, StrayLands, StrayVanishes, cluster
    <2>2. PICK b \in strays : Write(b) /\ strays' = strays \ {b}
      BY <1>1, <1>5 DEF Strays, StrayLands, StrayVanishes, cluster
    <2>3. b \in Apply
      BY <2>2 DEF TypeOK
    <2>4. b = [key |-> k, inc |-> object'[k].ref]
      BY <1>2, <2>2, <2>3 DEF Apply
    <2> QED
      BY <2>2, <2>4
  <1>6. ASSUME NEW p \in Pipelines, Sink(p) PROVE FALSE
    <2>1. PICK a \in inflight[p] : Write(a)
      BY <1>1, <1>6 DEF Sink, SkipDelete, SendApply, ApplySucceeds, ApplyFails, cluster
    <2>2. a \in Apply /\ a.inc \in Nat
      BY <2>1 DEF TypeOK, Apply
    <2>3. object[k].ref <= a.inc
      BY <1>2, <2>1, <2>2 DEF OrderInv, AppliesLead, Leads
    <2> QED
      BY <1>1, <1>2, <2>1, <2>2, <2>3
  <1>7. CASE UNCHANGED object
    BY <1>1, <1>7
  <1> QED
    BY <1>4, <1>5, <1>6, <1>7
    DEF Next, BecomeLeader, LoseLeadership, Observe, vars, cluster

\* Within one leader the applies of a key take effect in the order of its
\* incarnations, whatever its predecessors have left on the way.
THEOREM MovesForward == Spec => OwnershipMovesForward
  <1>1. Init => OrderInv
    <2> SUFFICES ASSUME Init PROVE OrderInv
      OBVIOUS
    <2>1. \A p \in Pipelines : 1..Len(queue[p]) = {} /\ inflight[p] = {}
      BY DEF Init
    <2> QED
      BY <2>1 DEF Init, ClusterInit, NoOwner, OrderInv, OwnersAreNewest, AppliesLead,
                  AppliesAreInOrder
  <1>2. Spec => []OrderInv
    BY <1>1, NextOrder, GenuineIsKept, TypeCorrect, PTL DEF Spec
  <1> DEFINE Forward ==
        \A k \in Owners :
            Exists(k) /\ Exists(k)' /\ object'[k].ref < object[k].ref
            => [key |-> k, inc |-> object'[k].ref] \in strays \ strays'
  <1>3. TypeOK /\ OrderInv /\ [Next]_vars => [Forward]_vars
    <2> SUFFICES ASSUME TypeOK, OrderInv, [Next]_vars PROVE Forward
      OBVIOUS
    <2> QED
      BY StepMovesForward
  <1>4. Spec => [][Forward]_vars
    <2> HIDE DEF Forward
    <2> QED
      BY <1>2, <1>3, TypeCorrect, PTL DEF Spec
  <1> QED
    BY <1>4 DEF OwnershipMovesForward
=============================================================================

------------------------- MODULE MyceliumApiProofs --------------------------
(***************************************************************************)
(* The structs of mycelium/api and the configurations that declare them.   *)
(*                                                                         *)
(* Deep copies are separate from what they were copied from, and so never  *)
(* a way to change it, for any types and all objects without a reference   *)
(* that DeepCopyInto forgets, and any number of readers, versions and      *)
(* edits.  The invariant says of a copy under way what CopiesAreApart says *)
(* of a finished one: a reference that still leads to somebody else's      *)
(* memory is one that DeepCopyInto has yet to come to.                     *)
(*                                                                         *)
(* Configurations say what the calls of their With methods said, for all   *)
(* tables of methods and any number of configurations and calls.  The      *)
(* invariant adds what the calls have passed to what memory contains: that *)
(* a list has only copies and that a copy is nobody's to change is why an  *)
(* element goes on saying what its original said when it was added.        *)
(***************************************************************************)
EXTENDS DeepCopy, ApplyConfigurations, FiniteSetTheorems, SequenceTheorems, TLAPS

\* The fields a reader has still to come to are of structs of its own.
TodoIsOwn ==
    \A r \in Readers : \A i \in 1..Len(todo[r]) :
        todo[r][i].out \in DOMAIN mem /\ todo[r][i].out.by = r

\* A reader looks at its own structs, from its first step on.
LooksAtOwn ==
    \A r \in Readers : source[r] # Nil =>
        /\ at[r] \in DOMAIN mem /\ at[r].by = r
        /\ At(r, Root) \in DOMAIN mem

Pending(r, a, s) == \E i \in 1..Len(todo[r]) : todo[r][i] = [out |-> a, slot |-> s]

\* Every reference of a reader's structs is its own or still to be copied.
OwnOrPending ==
    \A a \in DOMAIN mem : a.by \in Readers =>
        \A s \in DOMAIN mem[a].refs : mem[a].refs[s].by = a.by \/ Pending(a.by, a, s)

\* A reader that has not begun has nothing to do.
StartsIdle == \A r \in Readers : source[r] = Nil => todo[r] = <<>>

\* Memory of later versions does not exist yet.
VersionsSoFar == \A a \in DOMAIN mem : a.by \in Nat => a.by <= shared.by

\* No struct has a reference that the DeepCopyInto of its type forgets.
Clean(c) == DOMAIN c.refs \intersect Forgets(c.type) = {}
Uses == \A a \in DOMAIN mem : Clean(mem[a])

Inv == TypeOK /\ TodoIsOwn /\ LooksAtOwn /\ OwnOrPending /\ StartsIdle /\ VersionsSoFar

\* Addresses are told apart by maker and path.
LEMMA AtFields ==
    \A m, p : At(m, p).by = m /\ At(m, p).path = p
BY DEF At

LEMMA StructFields ==
    \A t, d, f : /\ Struct(t, d, f).type = t
                 /\ Struct(t, d, f).data = d
                 /\ Struct(t, d, f).refs = f
BY DEF Struct

\* Changes of a struct.
LEMMA StructChanged ==
    ASSUME NEW c, c = Struct(c.type, c.data, c.refs), NEW s, NEW x, NEW f
    PROVE  /\ [c EXCEPT !.refs[s] = x] = Struct(c.type, c.data, [c.refs EXCEPT ![s] = x])
           /\ [c EXCEPT !.refs = f] = Struct(c.type, c.data, f)
           /\ [c EXCEPT !.data = x] = Struct(c.type, x, c.refs)
BY DEF Struct

\* A version is not a reader, and no reader is a number.
LEMMA MakersApart ==
    /\ \A r \in Readers : r \notin Nat
    /\ Versions \subseteq Nat
    /\ 0 \notin Versions
BY ObjectsAssumption DEF Versions

\* What the decoder makes is well formed and refers to itself only.
LEMMA DecodedIsMemory ==
    ASSUME NEW o \in Objects, NEW v \in Versions
    PROVE  /\ DOMAIN Decoded(o, v) \subseteq Addresses
           /\ At(v, Root) \in DOMAIN Decoded(o, v)
           /\ \A a \in DOMAIN Decoded(o, v) :
                  a.by = v /\ IsStruct(Decoded(o, v)[a], DOMAIN Decoded(o, v))
<1>1. v \in Makers
  BY DEF Makers
<1>2. /\ Root \in DOMAIN o /\ DOMAIN o \subseteq Seq(STRING)
      /\ \A p \in DOMAIN o : /\ o[p].type \in DOMAIN Slots
                             /\ o[p].slots \subseteq Slots[o[p].type]
                             /\ \A s \in o[p].slots : p \o s \in DOMAIN o
  BY ObjectsAssumption
<1>3. DOMAIN Decoded(o, v) = {At(v, p) : p \in DOMAIN o}
  BY DEF Decoded
<1>4. \A p \in DOMAIN o : At(v, p) \in Addresses
  BY <1>1, <1>2 DEF Addresses, At
<1>5. ASSUME NEW a \in DOMAIN Decoded(o, v)
      PROVE  a.by = v /\ IsStruct(Decoded(o, v)[a], DOMAIN Decoded(o, v))
  <2>1. PICK p \in DOMAIN o : a = At(v, p)
    BY <1>3
  <2>2. a.by = v /\ a.path = p
    BY <2>1, AtFields
  <2>. DEFINE refs == [s \in o[p].slots |-> At(v, p \o s)]
  <2>3. Decoded(o, v)[a] = Struct(o[p].type, v, refs)
    BY <2>1, <2>2 DEF Decoded
  <2>4. \A s \in o[p].slots : refs[s] \in DOMAIN Decoded(o, v)
    BY <1>2, <1>3
  <2>5. DOMAIN refs = o[p].slots
    OBVIOUS
  <2>. HIDE DEF refs
  <2>. QED
    BY <1>1, <1>2, <2>2, <2>3, <2>4, <2>5, StructFields DEF IsStruct
<1>. QED
  BY <1>2, <1>3, <1>4, <1>5

\* Nor has it a forgotten reference, if the objects have none.
LEMMA DecodedClean ==
    ASSUME UsesNothingForgotten(Objects), NEW o \in Objects, NEW v
    PROVE  \A a \in DOMAIN Decoded(o, v) : Clean(Decoded(o, v)[a])
<1>. SUFFICES ASSUME NEW a \in DOMAIN Decoded(o, v) PROVE Clean(Decoded(o, v)[a])
  OBVIOUS
<1>1. PICK p \in DOMAIN o : a = At(v, p)
  BY DEF Decoded
<1>2. a.path = p
  BY <1>1, AtFields
<1>. DEFINE refs == [s \in o[p].slots |-> At(v, p \o s)]
<1>3. Decoded(o, v)[a] = Struct(o[p].type, v, refs)
  BY <1>1, <1>2 DEF Decoded
<1>4. DOMAIN refs = o[p].slots
  OBVIOUS
<1>. HIDE DEF refs
<1>. QED
  BY <1>3, <1>4, StructFields DEF Clean, UsesNothingForgotten

LEMMA InitInv == Init => Inv
<1>. SUFFICES ASSUME Init PROVE Inv
  OBVIOUS
<1>1. 1 \in Versions
  BY ObjectsAssumption DEF Versions
<1>2. PICK o \in Objects : mem = Decoded(o, 1)
  BY DEF Init
<1>3. /\ DOMAIN mem \subseteq Addresses
      /\ At(1, Root) \in DOMAIN mem
      /\ \A a \in DOMAIN mem : a.by = 1 /\ IsStruct(mem[a], DOMAIN mem)
  BY <1>1, <1>2, DecodedIsMemory
<1>4. /\ shared = At(1, Root) /\ shared.by = 1
      /\ source = [r \in Readers |-> Nil] /\ todo = [r \in Readers |-> <<>>]
      /\ at = [r \in Readers |-> Nil] /\ edits = [r \in Readers |-> 0]
  BY AtFields DEF Init
<1>5. TypeOK
  BY <1>1, <1>3, <1>4 DEF TypeOK
<1>6. TodoIsOwn
  BY <1>4 DEF TodoIsOwn
<1>7. LooksAtOwn
  BY <1>4 DEF LooksAtOwn
<1>8. OwnOrPending
  BY <1>3, MakersApart DEF OwnOrPending
<1>9. VersionsSoFar
  BY <1>3, <1>4 DEF VersionsSoFar
<1>10. StartsIdle
  BY <1>4 DEF StartsIdle
<1>. QED
  BY <1>5, <1>6, <1>7, <1>8, <1>9, <1>10 DEF Inv

\* A reader's step leaves alone what the other readers have to do and look at.
LEMMA GrowingMemory ==
    ASSUME TypeOK, DOMAIN mem \subseteq DOMAIN mem'
    PROVE  /\ shared \in DOMAIN mem'
           /\ source \in [Readers -> DOMAIN mem' \union {Nil}]
           /\ at \in [Readers -> DOMAIN mem' \union {Nil}]
           /\ \A a \in DOMAIN mem : IsStruct(mem[a], DOMAIN mem')
<1>1. \A a \in DOMAIN mem : IsStruct(mem[a], DOMAIN mem')
  BY DEF TypeOK, IsStruct
<1>. QED
  BY <1>1 DEF TypeOK

LEMMA PublishInv ==
    ASSUME Inv, NEW o \in Objects, Publish(o)
    PROVE  Inv' /\ \A a \in DOMAIN mem : a \in DOMAIN mem' /\ mem'[a] = mem[a]
<1>. DEFINE v == shared.by + 1
            new == Decoded(o, v)
<1>1. v \in Versions /\ v \in Nat /\ shared.by \in Nat
  BY ObjectsAssumption DEF Inv, TypeOK, Publish, Versions
<1>2. /\ DOMAIN new \subseteq Addresses
      /\ At(v, Root) \in DOMAIN new
      /\ \A a \in DOMAIN new : a.by = v /\ IsStruct(new[a], DOMAIN new)
  BY <1>1, DecodedIsMemory
<1>3. /\ shared' = At(v, Root)
      /\ mem' = [a \in DOMAIN mem \union DOMAIN new |-> IF a \in DOMAIN new THEN new[a] ELSE mem[a]]
      /\ UNCHANGED <<source, todo, at, edits>>
  BY DEF Publish
<1>. HIDE DEF new
<1>4. \A a \in DOMAIN mem : a \notin DOMAIN new
  BY <1>1, <1>2 DEF Inv, VersionsSoFar
<1>5. /\ DOMAIN mem' = DOMAIN mem \union DOMAIN new
      /\ \A a \in DOMAIN new : mem'[a] = new[a]
      /\ \A a \in DOMAIN mem : mem'[a] = mem[a]
  BY <1>3, <1>4
<1>6. TypeOK /\ DOMAIN mem \subseteq DOMAIN mem'
  BY <1>5 DEF Inv
<1>7. TypeOK'
  <2>1. \A a \in DOMAIN mem' : IsStruct(mem'[a], DOMAIN mem')
    <3>1. \A a \in DOMAIN new : IsStruct(mem'[a], DOMAIN mem')
      BY <1>2, <1>5 DEF IsStruct
    <3>. QED
      BY <1>5, <1>6, <3>1, GrowingMemory
  <2>2. DOMAIN mem' \subseteq Addresses
    BY <1>2, <1>5, <1>6 DEF TypeOK
  <2>3. shared' \in DOMAIN mem' /\ shared'.by \in Versions
    BY <1>1, <1>2, <1>3, <1>5, AtFields
  <2>. QED
    BY <1>3, <1>6, <2>1, <2>2, <2>3, GrowingMemory DEF TypeOK
<1>8. TodoIsOwn'
  BY <1>3, <1>5 DEF Inv, TodoIsOwn
<1>9. LooksAtOwn'
  BY <1>3, <1>5 DEF Inv, LooksAtOwn
<1>10. OwnOrPending'
  BY <1>1, <1>2, <1>3, <1>5, MakersApart DEF Inv, OwnOrPending, Pending
<1>11. VersionsSoFar'
  BY <1>1, <1>2, <1>3, <1>5, AtFields DEF Inv, VersionsSoFar
<1>12. StartsIdle'
  BY <1>3 DEF Inv, StartsIdle
<1>. QED
  BY <1>5, <1>7, <1>8, <1>9, <1>10, <1>11, <1>12 DEF Inv

\* A step of a reader that changes memory of its own only, and leaves that in
\* order, keeps the invariant and the memory of all versions.
LEMMA OwnStepInv ==
    ASSUME Inv, NEW r \in Readers,
           shared' = shared,
           DOMAIN mem \subseteq DOMAIN mem',
           \A a \in DOMAIN mem : a.by # r => mem'[a] = mem[a],
           \A a \in DOMAIN mem' :
               \/ a \in DOMAIN mem /\ a.by # r
               \/ a \in Addresses /\ a.by = r /\ IsStruct(mem'[a], DOMAIN mem'),
           source' \in [Readers -> DOMAIN mem' \union {Nil}],
           todo' \in [Readers -> Seq([out : Addresses, slot : References])],
           at' \in [Readers -> DOMAIN mem' \union {Nil}],
           edits' \in [Readers -> Nat],
           \A q \in Readers \ {r} : source'[q] = source[q] /\ todo'[q] = todo[q] /\ at'[q] = at[q],
           \A i \in 1..Len(todo'[r]) : todo'[r][i].out \in DOMAIN mem' /\ todo'[r][i].out.by = r,
           source'[r] # Nil,
           at'[r] \in DOMAIN mem' /\ at'[r].by = r /\ At(r, Root) \in DOMAIN mem',
           \A a \in DOMAIN mem' : a.by = r =>
               \A s \in DOMAIN mem'[a].refs :
                   mem'[a].refs[s].by = r \/ \E i \in 1..Len(todo'[r]) : todo'[r][i] = [out |-> a, slot |-> s]
    PROVE  Inv' /\ \A a \in DOMAIN mem : a.by \in Versions => a \in DOMAIN mem' /\ mem'[a] = mem[a]
<1>1. r \notin Nat /\ r \notin Versions
  BY MakersApart
<1>2. TypeOK
  BY DEF Inv
<1>3. TypeOK'
  <2>1. \A a \in DOMAIN mem' : IsStruct(mem'[a], DOMAIN mem')
    BY <1>2, GrowingMemory
  <2>2. DOMAIN mem' \subseteq Addresses
    BY <1>2 DEF TypeOK
  <2>3. shared' \in DOMAIN mem' /\ shared'.by \in Versions
    BY <1>2 DEF TypeOK
  <2>. QED
    BY <2>1, <2>2, <2>3 DEF TypeOK
<1>4. TodoIsOwn'
  <2>. SUFFICES ASSUME NEW q \in Readers, NEW i \in 1..Len(todo'[q])
                PROVE  todo'[q][i].out \in DOMAIN mem' /\ todo'[q][i].out.by = q
    BY DEF TodoIsOwn
  <2>1. CASE q = r
    BY <2>1
  <2>2. CASE q # r
    <3>1. todo'[q] = todo[q]
      BY <2>2
    <3>2. todo[q][i].out \in DOMAIN mem /\ todo[q][i].out.by = q
      BY <3>1 DEF Inv, TodoIsOwn
    <3>. QED
      BY <3>1, <3>2
  <2>. QED
    BY <2>1, <2>2
<1>5. LooksAtOwn'
  <2>. SUFFICES ASSUME NEW q \in Readers, source'[q] # Nil
                PROVE  at'[q] \in DOMAIN mem' /\ at'[q].by = q /\ At(q, Root) \in DOMAIN mem'
    BY DEF LooksAtOwn, Nil, At
  <2>. QED
    BY DEF Inv, LooksAtOwn
<1>6. OwnOrPending'
  <2>. SUFFICES ASSUME NEW a \in DOMAIN mem', a.by \in Readers, NEW s \in DOMAIN mem'[a].refs
                PROVE  mem'[a].refs[s].by = a.by \/ Pending(a.by, a, s)'
    BY DEF OwnOrPending
  <2>1. CASE a.by = r
    BY <2>1 DEF Pending
  <2>2. CASE a.by # r
    <3>1. a \in DOMAIN mem /\ mem'[a] = mem[a] /\ todo'[a.by] = todo[a.by]
      BY <2>2
    <3>2. mem[a].refs[s].by = a.by \/ Pending(a.by, a, s)
      BY <3>1 DEF Inv, OwnOrPending
    <3>. QED
      BY <3>1, <3>2 DEF Pending
  <2>. QED
    BY <2>1, <2>2
<1>7. StartsIdle'
  BY DEF Inv, StartsIdle, Nil, At
<1>8. VersionsSoFar'
  BY <1>1 DEF Inv, VersionsSoFar
<1>. QED
  BY <1>1, <1>3, <1>4, <1>5, <1>6, <1>7, <1>8 DEF Inv

\* What a reader's DeepCopyInto has to do for a struct.
LEMMA FieldsSeq ==
    ASSUME NEW t \in DOMAIN Slots, NEW out \in Addresses
    PROVE  /\ Fields(out, t) \in Seq([out : Addresses, slot : References])
           /\ Len(Fields(out, t)) = Len(Handled[t])
           /\ \A i \in 1..Len(Handled[t]) : Fields(out, t)[i] = [out |-> out, slot |-> Handled[t][i]]
           /\ \A i \in 1..Len(Fields(out, t)) : Fields(out, t)[i].out = out
<1>1. Handled[t] \in Seq(Slots[t]) /\ Slots[t] \subseteq References
  BY ObjectsAssumption DEF References
<1>2. DOMAIN Handled[t] = 1..Len(Handled[t]) /\ Len(Handled[t]) \in Nat
  BY <1>1
<1>3. \A i \in 1..Len(Handled[t]) : Handled[t][i] \in References
  BY <1>1, <1>2
<1>4. Fields(out, t) = [i \in 1..Len(Handled[t]) |-> [out |-> out, slot |-> Handled[t][i]]]
  BY <1>2 DEF Fields
<1>. QED
  BY <1>2, <1>3, <1>4

\* It comes to every reference of a struct that has none it forgets.
LEMMA FieldsCover ==
    ASSUME NEW c, Clean(c), c.type \in DOMAIN Slots, DOMAIN c.refs \subseteq Slots[c.type],
           NEW out \in Addresses, NEW s \in DOMAIN c.refs
    PROVE  \E i \in 1..Len(Fields(out, c.type)) : Fields(out, c.type)[i] = [out |-> out, slot |-> s]
<1>1. Handled[c.type] \in Seq(Slots[c.type])
  BY ObjectsAssumption
<1>2. PICK i \in DOMAIN Handled[c.type] : Handled[c.type][i] = s
  BY DEF Clean, Forgets
<1>. QED
  BY <1>1, <1>2, FieldsSeq

\* What a sequence is made of.
LEMMA Elements ==
    ASSUME NEW S, NEW q \in Seq(S)
    PROVE  \A i \in 1..Len(q) : q[i] \in S
OBVIOUS

\* The first element of a sequence makes place for others.
LEMMA Replaced ==
    ASSUME NEW S, NEW p \in Seq(S), NEW q \in Seq(S), q # <<>>
    PROVE  /\ p \o Tail(q) \in Seq(S)
           /\ Len(p \o Tail(q)) = Len(p) + Len(q) - 1
           /\ \A i \in 1..Len(p) : (p \o Tail(q))[i] = p[i]
           /\ \A i \in Len(p) + 1..Len(p) + Len(q) - 1 : (p \o Tail(q))[i] = q[i - Len(p) + 1]
<1>1. /\ Tail(q) \in Seq(S) /\ Len(Tail(q)) = Len(q) - 1
      /\ Len(q) \in Nat \ {0} /\ Len(p) \in Nat
      /\ \A i \in 1..Len(q) - 1 : Tail(q)[i] = q[i + 1]
  OBVIOUS
<1>. QED
  BY <1>1

LEMMA TakeInv ==
    ASSUME Inv, Uses, NEW r \in Readers, Take(r)
    PROVE  Inv' /\ \A a \in DOMAIN mem : a.by \in Versions => a \in DOMAIN mem' /\ mem'[a] = mem[a]
<1>. DEFINE root == At(r, Root)
            t    == mem[shared].type
<1>1. /\ TypeOK /\ shared \in DOMAIN mem /\ shared.by \in Versions
      /\ IsStruct(mem[shared], DOMAIN mem) /\ t \in DOMAIN Slots
  BY DEF Inv, TypeOK, IsStruct
<1>2. root \in Addresses /\ root.by = r
  BY AtFields DEF Addresses, At, Makers, Root
<1>3. shared # Nil /\ 0 \notin Versions
  BY <1>1, MakersApart, AtFields DEF Nil
<1>4. /\ source' = [source EXCEPT ![r] = shared] /\ todo[r] = <<>>
      /\ todo' = [todo EXCEPT ![r] = Fields(root, t)]
      /\ at' = [at EXCEPT ![r] = root] /\ UNCHANGED <<shared, edits>>
  BY DEF Take, Inv, StartsIdle
<1>5. mem' = [b \in DOMAIN mem \union {root} |-> IF b = root THEN mem[shared] ELSE mem[b]]
  BY DEF Take, With
<1>6. /\ Fields(root, t) \in Seq([out : Addresses, slot : References])
      /\ Len(Fields(root, t)) = Len(Handled[t])
      /\ \A i \in 1..Len(Fields(root, t)) : Fields(root, t)[i].out = root
  BY <1>1, <1>2, FieldsSeq
<1>7. /\ source \in [Readers -> DOMAIN mem \union {Nil}]
      /\ todo \in [Readers -> Seq([out : Addresses, slot : References])]
      /\ at \in [Readers -> DOMAIN mem \union {Nil}] /\ edits \in [Readers -> Nat]
  BY <1>1 DEF TypeOK
<1>. HIDE DEF root, t
<1>8. /\ source'[r] = shared /\ todo'[r] = Fields(root, t) /\ at'[r] = root
      /\ \A q \in Readers \ {r} : source'[q] = source[q] /\ todo'[q] = todo[q] /\ at'[q] = at[q]
  BY <1>4, <1>7
<1>9. DOMAIN mem' = DOMAIN mem \union {root}
  BY <1>5
<1>10. \A a \in DOMAIN mem' : \/ a \in DOMAIN mem /\ a.by # r
                              \/ a \in Addresses /\ a.by = r /\ IsStruct(mem'[a], DOMAIN mem')
  <2>1. IsStruct(mem'[root], DOMAIN mem')
    BY <1>1, <1>5, <1>9 DEF IsStruct
  <2>2. \A a \in DOMAIN mem : IsStruct(mem[a], DOMAIN mem')
    BY <1>1, <1>9, GrowingMemory
  <2>. QED
    BY <1>1, <1>2, <1>5, <1>9, <2>1, <2>2 DEF TypeOK
<1>11. \A a \in DOMAIN mem' : a.by = r =>
           \A s \in DOMAIN mem'[a].refs :
               mem'[a].refs[s].by = r \/ \E i \in 1..Len(todo'[r]) : todo'[r][i] = [out |-> a, slot |-> s]
  <2>. SUFFICES ASSUME NEW a \in DOMAIN mem', a.by = r, NEW s \in DOMAIN mem'[a].refs
                PROVE  mem'[a].refs[s].by = r \/ \E i \in 1..Len(todo'[r]) : todo'[r][i] = [out |-> a, slot |-> s]
    OBVIOUS
  <2>1. CASE a = root
    <3>1. s \in DOMAIN mem[shared].refs /\ Clean(mem[shared])
      BY <1>1, <1>5, <2>1 DEF Uses
    <3>2. PICK i \in 1..Len(Fields(root, t)) : Fields(root, t)[i] = [out |-> root, slot |-> s]
      BY <1>1, <1>2, <3>1, FieldsCover DEF IsStruct, t
    <3>. QED
      BY <1>8, <2>1, <3>2
  <2>2. CASE a # root
    <3>1. a \in DOMAIN mem /\ mem'[a] = mem[a]
      BY <1>5, <1>9, <2>2
    <3>2. ~ Pending(r, a, s)
      BY <1>4 DEF Pending
    <3>. QED
      BY <3>1, <3>2 DEF Inv, OwnOrPending
  <2>. QED
    BY <2>1, <2>2
<1>12. /\ source' \in [Readers -> DOMAIN mem' \union {Nil}]
       /\ todo' \in [Readers -> Seq([out : Addresses, slot : References])]
       /\ at' \in [Readers -> DOMAIN mem' \union {Nil}]
       /\ edits' \in [Readers -> Nat]
  <2>1. shared \in DOMAIN mem' /\ root \in DOMAIN mem'
    BY <1>1, <1>9
  <2>2. source' \in [Readers -> DOMAIN mem' \union {Nil}]
    BY <1>4, <1>7, <1>9, <2>1
  <2>3. todo' \in [Readers -> Seq([out : Addresses, slot : References])]
    BY <1>4, <1>6, <1>7
  <2>4. at' \in [Readers -> DOMAIN mem' \union {Nil}]
    BY <1>4, <1>7, <1>9, <2>1
  <2>. QED
    BY <1>4, <1>7, <2>2, <2>3, <2>4
<1>13. \A i \in 1..Len(todo'[r]) : todo'[r][i].out \in DOMAIN mem' /\ todo'[r][i].out.by = r
  BY <1>2, <1>6, <1>8, <1>9
<1>14. \A a \in DOMAIN mem : a.by # r => mem'[a] = mem[a]
  BY <1>2, <1>5
<1>. QED
  BY <1>2, <1>3, <1>4, <1>8, <1>9, <1>10, <1>11, <1>12, <1>13, <1>14, OwnStepInv DEF root

\* What a reader with a field still to come to has of its own.
LEMMA NextField ==
    ASSUME Inv, NEW r \in Readers, todo[r] # <<>>
    PROVE  /\ source[r] # Nil
           /\ todo[r] \in Seq([out : Addresses, slot : References])
           /\ Head(todo[r]) = todo[r][1]
           /\ todo[r][1] = [out |-> todo[r][1].out, slot |-> todo[r][1].slot]
           /\ todo[r][1].slot \in References
           /\ todo[r][1].out \in DOMAIN mem /\ todo[r][1].out.by = r
           /\ at[r] \in DOMAIN mem /\ at[r].by = r /\ At(r, Root) \in DOMAIN mem
<1>1. todo[r] \in Seq([out : Addresses, slot : References])
  BY DEF Inv, TypeOK
<1>2. 1 \in 1..Len(todo[r]) /\ Head(todo[r]) = todo[r][1]
  BY <1>1
<1>3. todo[r][1] \in [out : Addresses, slot : References]
  BY <1>1, <1>2, Elements
<1>4. todo[r][1].out \in DOMAIN mem /\ todo[r][1].out.by = r
  BY <1>2 DEF Inv, TodoIsOwn
<1>5. source[r] # Nil
  BY DEF Inv, StartsIdle
<1>. QED
  BY <1>1, <1>2, <1>3, <1>4, <1>5 DEF Inv, LooksAtOwn

LEMMA CopyFieldInv ==
    ASSUME Inv, Uses, NEW r \in Readers, todo[r] # <<>>,
           NEW out, NEW slot, out = Head(todo[r]).out, slot = Head(todo[r]).slot,
           CopyField(r, out, slot), UNCHANGED <<shared, source, at, edits>>
    PROVE  Inv' /\ \A a \in DOMAIN mem : a.by \in Versions => a \in DOMAIN mem' /\ mem'[a] = mem[a]
<1>. DEFINE old    == mem[out].refs[slot]
            to     == At(r, out.path \o slot)
            t      == mem[old].type
            linked == [mem[out] EXCEPT !.refs[slot] = to]
            fields == Fields(to, t)
            rest   == todo[r]
<1>1. /\ source[r] # Nil
      /\ rest \in Seq([out : Addresses, slot : References])
      /\ rest[1] = [out |-> out, slot |-> slot]
      /\ slot \in References
      /\ out \in DOMAIN mem /\ out.by = r
      /\ at[r] \in DOMAIN mem /\ at[r].by = r /\ At(r, Root) \in DOMAIN mem
  BY NextField
<1>2. /\ TypeOK /\ out \in Addresses
      /\ IsStruct(mem[out], DOMAIN mem) /\ slot \in DOMAIN mem[out].refs
      /\ old \in DOMAIN mem /\ IsStruct(mem[old], DOMAIN mem) /\ t \in DOMAIN Slots
  BY <1>1 DEF Inv, TypeOK, IsStruct, CopyField
<1>3. to \in Addresses /\ to.by = r
  <2>1. out.path \in Seq(STRING) /\ slot \in Seq(STRING)
    BY <1>1, <1>2, ObjectsAssumption DEF Addresses
  <2>2. out.path \o slot \in Seq(STRING)
    BY <2>1
  <2>. QED
    BY <2>2, AtFields DEF Addresses, At, Makers
<1>4. /\ linked.refs = [mem[out].refs EXCEPT ![slot] = to]
      /\ linked.type = mem[out].type /\ linked.data = mem[out].data
      /\ linked = Struct(linked.type, linked.data, linked.refs)
  <2>1. mem[out] = Struct(mem[out].type, mem[out].data, mem[out].refs)
    BY <1>2 DEF IsStruct
  <2>. DEFINE c == mem[out]
              refs == [c.refs EXCEPT ![slot] = to]
  <2>2. linked = [c EXCEPT !.refs[slot] = to] /\ c = Struct(c.type, c.data, c.refs)
    BY <2>1
  <2>. HIDE DEF linked, to, c
  <2>3. linked = Struct(c.type, c.data, refs)
    BY <2>2, StructChanged
  <2>. HIDE DEF refs
  <2>4. linked.refs = refs /\ linked.type = c.type /\ linked.data = c.data
    BY <2>3, StructFields
  <2>. QED
    BY <2>3, <2>4 DEF refs, c
<1>5. mem' = [b \in DOMAIN mem \union {to} |->
                 IF b = to THEN mem[old] ELSE IF b = out THEN linked ELSE mem[b]]
  BY DEF CopyField
<1>6. todo' = [todo EXCEPT ![r] = fields \o Tail(rest)]
  BY DEF CopyField
<1>7. /\ fields \in Seq([out : Addresses, slot : References])
      /\ \A i \in 1..Len(fields) : fields[i].out = to
  BY <1>2, <1>3, FieldsSeq
<1>8. \A s \in DOMAIN mem[old].refs : \E i \in 1..Len(fields) : fields[i] = [out |-> to, slot |-> s]
  <2>1. Clean(mem[old]) /\ mem[old].type \in DOMAIN Slots
        /\ DOMAIN mem[old].refs \subseteq Slots[mem[old].type]
    BY <1>2 DEF Uses, IsStruct
  <2>2. PICK c : c = mem[old]
    OBVIOUS
  <2>3. Clean(c) /\ c.type \in DOMAIN Slots /\ DOMAIN c.refs \subseteq Slots[c.type]
    BY <2>1, <2>2
  <2>. HIDE DEF to, old
  <2>4. \A s \in DOMAIN c.refs :
            \E i \in 1..Len(Fields(to, c.type)) : Fields(to, c.type)[i] = [out |-> to, slot |-> s]
    BY <2>3, <1>3, FieldsCover
  <2>. QED
    BY <2>2, <2>4
<1>9. /\ source \in [Readers -> DOMAIN mem \union {Nil}]
      /\ todo \in [Readers -> Seq([out : Addresses, slot : References])]
      /\ at \in [Readers -> DOMAIN mem \union {Nil}] /\ edits \in [Readers -> Nat]
  BY <1>2 DEF TypeOK
<1>10. /\ \A i \in 1..Len(rest) : rest[i].out \in DOMAIN mem /\ rest[i].out.by = r
       /\ \A a \in DOMAIN mem : a.by = r => \A s \in DOMAIN mem[a].refs :
              mem[a].refs[s].by = r \/ \E i \in 1..Len(rest) : rest[i] = [out |-> a, slot |-> s]
  BY DEF Inv, TodoIsOwn, OwnOrPending, Pending
<1>. HIDE DEF old, to, t, linked, fields, rest
<1>11. rest # <<>>
  BY DEF rest
<1>12. /\ fields \o Tail(rest) \in Seq([out : Addresses, slot : References])
       /\ Len(fields \o Tail(rest)) = Len(fields) + Len(rest) - 1
       /\ \A i \in 1..Len(fields) : (fields \o Tail(rest))[i] = fields[i]
       /\ \A i \in Len(fields) + 1..Len(fields) + Len(rest) - 1 :
              (fields \o Tail(rest))[i] = rest[i - Len(fields) + 1]
       /\ Len(fields) \in Nat /\ Len(rest) \in Nat
  BY <1>1, <1>7, <1>11, Replaced
<1>13. todo'[r] = fields \o Tail(rest) /\ \A q \in Readers \ {r} : todo'[q] = todo[q]
  BY <1>6, <1>9
<1>14. DOMAIN mem' = DOMAIN mem \union {to}
  BY <1>5
<1>15. \A a \in DOMAIN mem' : \/ a \in DOMAIN mem /\ a.by # r
                              \/ a \in Addresses /\ a.by = r /\ IsStruct(mem'[a], DOMAIN mem')
  <2>1. IsStruct(mem'[to], DOMAIN mem')
    BY <1>2, <1>5, <1>14 DEF IsStruct
  <2>2. IsStruct(linked, DOMAIN mem')
    BY <1>2, <1>4, <1>14 DEF IsStruct
  <2>3. \A a \in DOMAIN mem : IsStruct(mem[a], DOMAIN mem')
    BY <1>2, <1>14, GrowingMemory
  <2>. QED
    BY <1>2, <1>3, <1>5, <1>14, <2>1, <2>2, <2>3 DEF TypeOK
<1>16. \A i \in 1..Len(todo'[r]) : todo'[r][i].out \in DOMAIN mem' /\ todo'[r][i].out.by = r
  <2>. SUFFICES ASSUME NEW i \in 1..Len(todo'[r])
                PROVE  todo'[r][i].out \in DOMAIN mem' /\ todo'[r][i].out.by = r
    OBVIOUS
  <2>1. CASE i \in 1..Len(fields)
    BY <1>3, <1>7, <1>12, <1>13, <1>14, <2>1
  <2>2. CASE i \in Len(fields) + 1..Len(fields) + Len(rest) - 1
    <3>1. i - Len(fields) + 1 \in 1..Len(rest) /\ todo'[r][i] = rest[i - Len(fields) + 1]
      BY <1>12, <1>13, <2>2
    <3>. QED
      BY <1>10, <1>14, <3>1
  <2>. QED
    BY <1>12, <1>13, <2>1, <2>2
<1>17. \A a \in DOMAIN mem' : a.by = r =>
           \A s \in DOMAIN mem'[a].refs :
               mem'[a].refs[s].by = r \/ \E i \in 1..Len(todo'[r]) : todo'[r][i] = [out |-> a, slot |-> s]
  <2>. SUFFICES ASSUME NEW a \in DOMAIN mem', a.by = r, NEW s \in DOMAIN mem'[a].refs, mem'[a].refs[s].by # r
                PROVE  \E i \in 1..Len(todo'[r]) : todo'[r][i] = [out |-> a, slot |-> s]
    OBVIOUS
  <2>1. CASE a = to
    <3>1. s \in DOMAIN mem[old].refs
      BY <1>5, <2>1
    <3>2. PICK i \in 1..Len(fields) : fields[i] = [out |-> to, slot |-> s]
      BY <1>8, <3>1
    <3>3. i \in 1..Len(todo'[r]) /\ todo'[r][i] = fields[i]
      BY <1>1, <1>11, <1>12, <1>13
    <3>. QED
      BY <2>1, <3>2, <3>3
  <2>2. CASE a # to
    <3>1. /\ a \in DOMAIN mem /\ s \in DOMAIN mem[a].refs
          /\ mem'[a].refs[s] = mem[a].refs[s]
          /\ a = out => s # slot
      <4>1. a \in DOMAIN mem /\ mem'[a] = IF a = out THEN linked ELSE mem[a]
        BY <1>5, <1>14, <2>2
      <4>. QED
        BY <1>2, <1>3, <1>4, <4>1
    <3>2. PICK i \in 1..Len(rest) : rest[i] = [out |-> a, slot |-> s]
      BY <1>10, <3>1
    <3>3. i # 1
      BY <1>1, <3>1, <3>2
    <3>. DEFINE j == Len(fields) + i - 1
    <3>4. /\ j \in Len(fields) + 1..Len(fields) + Len(rest) - 1
          /\ j \in 1..Len(todo'[r]) /\ j - Len(fields) + 1 = i
      BY <1>12, <1>13, <3>3
    <3>. QED
      BY <1>12, <1>13, <3>2, <3>4
  <2>. QED
    BY <2>1, <2>2
<1>18. /\ source' \in [Readers -> DOMAIN mem' \union {Nil}]
       /\ todo' \in [Readers -> Seq([out : Addresses, slot : References])]
       /\ at' \in [Readers -> DOMAIN mem' \union {Nil}]
       /\ edits' \in [Readers -> Nat]
  BY <1>6, <1>9, <1>12, <1>14
<1>19. \A a \in DOMAIN mem : a.by # r => mem'[a] = mem[a]
  BY <1>1, <1>3, <1>5
<1>. QED
  BY <1>1, <1>13, <1>14, <1>15, <1>16, <1>17, <1>18, <1>19, OwnStepInv

LEMMA SkipNilInv ==
    ASSUME Inv, NEW r \in Readers, todo[r] # <<>>,
           NEW out, NEW slot, out = Head(todo[r]).out, slot = Head(todo[r]).slot,
           SkipNil(r, out, slot), UNCHANGED <<shared, source, at, edits>>
    PROVE  Inv' /\ mem' = mem
<1>. DEFINE rest == todo[r]
<1>1. /\ source[r] # Nil
      /\ rest \in Seq([out : Addresses, slot : References])
      /\ rest[1] = [out |-> out, slot |-> slot]
      /\ at[r] \in DOMAIN mem /\ at[r].by = r /\ At(r, Root) \in DOMAIN mem
  BY NextField
<1>2. /\ TypeOK /\ source \in [Readers -> DOMAIN mem \union {Nil}]
      /\ todo \in [Readers -> Seq([out : Addresses, slot : References])]
      /\ at \in [Readers -> DOMAIN mem \union {Nil}] /\ edits \in [Readers -> Nat]
      /\ DOMAIN mem \subseteq Addresses /\ \A a \in DOMAIN mem : IsStruct(mem[a], DOMAIN mem)
  BY DEF Inv, TypeOK
<1>3. /\ \A i \in 1..Len(rest) : rest[i].out \in DOMAIN mem /\ rest[i].out.by = r
      /\ \A a \in DOMAIN mem : a.by = r => \A s \in DOMAIN mem[a].refs :
             mem[a].refs[s].by = r \/ \E i \in 1..Len(rest) : rest[i] = [out |-> a, slot |-> s]
  BY DEF Inv, TodoIsOwn, OwnOrPending, Pending
<1>4. /\ slot \notin DOMAIN mem[out].refs /\ mem' = mem
      /\ todo' = [todo EXCEPT ![r] = Tail(rest)]
  BY DEF SkipNil
<1>5. rest # <<>>
  OBVIOUS
<1>. HIDE DEF rest
<1>6. /\ Tail(rest) \in Seq([out : Addresses, slot : References])
      /\ Len(rest) \in Nat /\ Len(Tail(rest)) = Len(rest) - 1
      /\ \A i \in 1..Len(rest) - 1 : Tail(rest)[i] = rest[i + 1]
  BY <1>1, <1>5
<1>7. todo'[r] = Tail(rest) /\ \A q \in Readers \ {r} : todo'[q] = todo[q]
  BY <1>2, <1>4
<1>8. \A i \in 1..Len(todo'[r]) : todo'[r][i].out \in DOMAIN mem' /\ todo'[r][i].out.by = r
  BY <1>3, <1>4, <1>6, <1>7
<1>9. \A a \in DOMAIN mem' : a.by = r =>
          \A s \in DOMAIN mem'[a].refs :
              mem'[a].refs[s].by = r \/ \E i \in 1..Len(todo'[r]) : todo'[r][i] = [out |-> a, slot |-> s]
  <2>. SUFFICES ASSUME NEW a \in DOMAIN mem, a.by = r, NEW s \in DOMAIN mem[a].refs, mem[a].refs[s].by # r
                PROVE  \E i \in 1..Len(todo'[r]) : todo'[r][i] = [out |-> a, slot |-> s]
    BY <1>4
  <2>1. PICK i \in 1..Len(rest) : rest[i] = [out |-> a, slot |-> s]
    BY <1>3
  <2>2. i # 1
    BY <1>1, <1>4, <2>1
  <2>3. i - 1 \in 1..Len(todo'[r]) /\ todo'[r][i - 1] = rest[i]
    BY <1>6, <1>7, <2>2
  <2>. QED
    BY <2>1, <2>3
<1>10. todo' \in [Readers -> Seq([out : Addresses, slot : References])]
  BY <1>2, <1>4, <1>6
<1>. QED
  BY <1>1, <1>2, <1>4, <1>7, <1>8, <1>9, <1>10, OwnStepInv

\* A reader that edits has nothing but its own.
LEMMA EditsOwn ==
    ASSUME Inv, NEW r \in Readers, Editing(r)
    PROVE  /\ source[r] # Nil /\ todo[r] = <<>>
           /\ at[r] \in DOMAIN mem /\ at[r].by = r /\ At(r, Root) \in DOMAIN mem
           /\ \A a \in DOMAIN mem : a.by = r => \A s \in DOMAIN mem[a].refs : mem[a].refs[s].by = r
<1>1. source[r] # Nil /\ todo[r] = <<>>
  BY DEF Editing
<1>2. \A a, s : ~ Pending(r, a, s)
  BY <1>1 DEF Pending
<1>. QED
  BY <1>1, <1>2 DEF Inv, LooksAtOwn, OwnOrPending

LEMMA FollowInv ==
    ASSUME Inv, NEW r \in Readers, NEW slot, Follow(r, slot)
    PROVE  Inv' /\ mem' = mem
<1>1. /\ source[r] # Nil /\ todo[r] = <<>>
      /\ at[r] \in DOMAIN mem /\ at[r].by = r /\ At(r, Root) \in DOMAIN mem
      /\ \A a \in DOMAIN mem : a.by = r => \A s \in DOMAIN mem[a].refs : mem[a].refs[s].by = r
  BY EditsOwn DEF Follow
<1>2. /\ TypeOK /\ source \in [Readers -> DOMAIN mem \union {Nil}]
      /\ todo \in [Readers -> Seq([out : Addresses, slot : References])]
      /\ at \in [Readers -> DOMAIN mem \union {Nil}] /\ edits \in [Readers -> Nat]
      /\ DOMAIN mem \subseteq Addresses /\ \A a \in DOMAIN mem : IsStruct(mem[a], DOMAIN mem)
  BY DEF Inv, TypeOK
<1>. DEFINE to == mem[at[r]].refs[slot]
<1>3. /\ slot \in DOMAIN mem[at[r]].refs
      /\ at' = [at EXCEPT ![r] = to]
      /\ UNCHANGED <<mem, shared, source, todo, edits>>
  BY DEF Follow
<1>4. to \in DOMAIN mem /\ to.by = r
  BY <1>1, <1>2, <1>3 DEF IsStruct
<1>. HIDE DEF to
<1>5. /\ at' \in [Readers -> DOMAIN mem' \union {Nil}] /\ at'[r] = to
      /\ \A q \in Readers \ {r} : at'[q] = at[q]
  BY <1>2, <1>3, <1>4
<1>6. \A i \in 1..Len(todo'[r]) : todo'[r][i].out \in DOMAIN mem' /\ todo'[r][i].out.by = r
  BY <1>1, <1>3
<1>7. \A a \in DOMAIN mem' : \/ a \in DOMAIN mem /\ a.by # r
                             \/ a \in Addresses /\ a.by = r /\ IsStruct(mem'[a], DOMAIN mem')
  BY <1>2, <1>3
<1>8. \A a \in DOMAIN mem' : a.by = r =>
          \A s \in DOMAIN mem'[a].refs :
              mem'[a].refs[s].by = r \/ \E i \in 1..Len(todo'[r]) : todo'[r][i] = [out |-> a, slot |-> s]
  BY <1>1, <1>3
<1>9. /\ shared' = shared /\ DOMAIN mem \subseteq DOMAIN mem'
      /\ \A a \in DOMAIN mem : a.by # r => mem'[a] = mem[a]
      /\ source' \in [Readers -> DOMAIN mem' \union {Nil}]
      /\ todo' \in [Readers -> Seq([out : Addresses, slot : References])]
      /\ edits' \in [Readers -> Nat]
      /\ source'[r] # Nil /\ at'[r] \in DOMAIN mem' /\ at'[r].by = r /\ At(r, Root) \in DOMAIN mem'
  BY <1>1, <1>2, <1>3, <1>4, <1>5
<1>10. \A q \in Readers \ {r} : source'[q] = source[q] /\ todo'[q] = todo[q] /\ at'[q] = at[q]
  BY <1>3, <1>5
<1>11. Inv' /\ \A a \in DOMAIN mem : a.by \in Versions => a \in DOMAIN mem' /\ mem'[a] = mem[a]
  BY <1>5, <1>6, <1>7, <1>8, <1>9, <1>10, OwnStepInv
<1>. QED
  BY <1>3, <1>11

\* An edit that leaves the reader's memory in order and its own.
LEMMA EditedInv ==
    ASSUME Inv, NEW r \in Readers, Edited(r),
           DOMAIN mem \subseteq DOMAIN mem',
           \A a \in DOMAIN mem : a.by # r => mem'[a] = mem[a],
           \A a \in DOMAIN mem' :
               \/ a \in DOMAIN mem /\ a.by # r
               \/ a \in Addresses /\ a.by = r /\ IsStruct(mem'[a], DOMAIN mem'),
           \A a \in DOMAIN mem' : a.by = r => \A s \in DOMAIN mem'[a].refs : mem'[a].refs[s].by = r
    PROVE  Inv' /\ \A a \in DOMAIN mem : a.by \in Versions => a \in DOMAIN mem' /\ mem'[a] = mem[a]
<1>1. /\ source[r] # Nil /\ todo[r] = <<>>
      /\ at[r] \in DOMAIN mem /\ at[r].by = r /\ At(r, Root) \in DOMAIN mem
  BY EditsOwn DEF Edited
<1>2. /\ TypeOK /\ source \in [Readers -> DOMAIN mem \union {Nil}]
      /\ todo \in [Readers -> Seq([out : Addresses, slot : References])]
      /\ at \in [Readers -> DOMAIN mem \union {Nil}] /\ edits \in [Readers -> Nat]
  BY DEF Inv, TypeOK
<1>3. edits' = [edits EXCEPT ![r] = @ + 1] /\ UNCHANGED <<shared, source, todo, at>>
  BY DEF Edited
<1>4. edits' \in [Readers -> Nat]
  BY <1>2, <1>3
<1>5. \A i \in 1..Len(todo'[r]) : todo'[r][i].out \in DOMAIN mem' /\ todo'[r][i].out.by = r
  BY <1>1, <1>3
<1>6. /\ source' \in [Readers -> DOMAIN mem' \union {Nil}]
      /\ todo' \in [Readers -> Seq([out : Addresses, slot : References])]
      /\ at' \in [Readers -> DOMAIN mem' \union {Nil}]
      /\ source'[r] # Nil /\ at'[r] \in DOMAIN mem' /\ at'[r].by = r /\ At(r, Root) \in DOMAIN mem'
  BY <1>1, <1>2, <1>3
<1>7. \A a \in DOMAIN mem' : a.by = r =>
          \A s \in DOMAIN mem'[a].refs :
              mem'[a].refs[s].by = r \/ \E i \in 1..Len(todo'[r]) : todo'[r][i] = [out |-> a, slot |-> s]
  OBVIOUS
<1>8. shared' = shared /\ \A q \in Readers \ {r} : source'[q] = source[q] /\ todo'[q] = todo[q] /\ at'[q] = at[q]
  BY <1>3
<1>. QED
  BY <1>4, <1>5, <1>6, <1>7, <1>8, OwnStepInv

\* An edit of the struct a reader looks at.
LEMMA WithInv ==
    ASSUME Inv, NEW r \in Readers, Edited(r), NEW data, NEW refs, data \in Makers,
           mem' = With(at[r], Struct(mem[at[r]].type, data, refs)),
           DOMAIN refs \subseteq DOMAIN mem[at[r]].refs,
           \A s \in DOMAIN refs : refs[s] = mem[at[r]].refs[s]
    PROVE  Inv' /\ \A a \in DOMAIN mem : a.by \in Versions => a \in DOMAIN mem' /\ mem'[a] = mem[a]
<1>. DEFINE here == at[r]
            old  == mem[here]
            new  == Struct(old.type, data, refs)
<1>1. /\ here \in DOMAIN mem /\ here.by = r
      /\ \A a \in DOMAIN mem : a.by = r => \A s \in DOMAIN mem[a].refs : mem[a].refs[s].by = r
  BY EditsOwn DEF Edited
<1>2. /\ DOMAIN mem \subseteq Addresses /\ \A a \in DOMAIN mem : IsStruct(mem[a], DOMAIN mem)
  BY DEF Inv, TypeOK
<1>3. mem' = [b \in DOMAIN mem |-> IF b = here THEN new ELSE mem[b]]
  BY <1>1 DEF With
<1>4. new.type = old.type /\ new.data = data /\ new.refs = refs
  BY StructFields
<1>5. new = Struct(new.type, new.data, new.refs)
  BY <1>4
<1>6. DOMAIN refs \subseteq DOMAIN old.refs /\ \A s \in DOMAIN refs : refs[s] = old.refs[s]
  OBVIOUS
<1>. HIDE DEF new, here, old
<1>7. IsStruct(new, DOMAIN mem)
  <2>1. IsStruct(old, DOMAIN mem)
    BY <1>1, <1>2 DEF old
  <2>. QED
    BY <1>4, <1>5, <1>6, <2>1 DEF IsStruct
<1>8. \A s \in DOMAIN new.refs : new.refs[s].by = r
  BY <1>1, <1>4, <1>6 DEF old
<1>. QED
  BY <1>1, <1>2, <1>3, <1>7, <1>8, EditedInv

LEMMA WriteInv ==
    ASSUME Inv, NEW r \in Readers, Write(r)
    PROVE  Inv' /\ \A a \in DOMAIN mem : a.by \in Versions => a \in DOMAIN mem' /\ mem'[a] = mem[a]
<1>. DEFINE c == mem[at[r]]
<1>1. at[r] \in DOMAIN mem /\ c = Struct(c.type, c.data, c.refs)
  BY EditsOwn DEF Write, Edited, Inv, TypeOK, IsStruct
<1>2. Edited(r) /\ mem' = With(at[r], [c EXCEPT !.data = r])
  BY DEF Write
<1>3. r \in Makers
  BY DEF Makers
<1>4. mem' = With(at[r], Struct(c.type, r, c.refs))
  <2>. HIDE DEF c
  <2>. QED
    BY <1>1, <1>2, StructChanged
<1>. QED
  BY <1>2, <1>3, <1>4, WithInv

LEMMA SetNilInv ==
    ASSUME Inv, NEW r \in Readers, NEW slot, SetNil(r, slot)
    PROVE  Inv' /\ \A a \in DOMAIN mem : a.by \in Versions => a \in DOMAIN mem' /\ mem'[a] = mem[a]
<1>. DEFINE c    == mem[at[r]]
            refs == [s \in DOMAIN c.refs \ {slot} |-> c.refs[s]]
<1>1. at[r] \in DOMAIN mem /\ c = Struct(c.type, c.data, c.refs) /\ c.data \in Makers
  BY EditsOwn DEF SetNil, Edited, Inv, TypeOK, IsStruct
<1>2. Edited(r) /\ mem' = With(at[r], [c EXCEPT !.refs = refs])
  BY DEF SetNil
<1>3. DOMAIN refs \subseteq DOMAIN c.refs /\ \A s \in DOMAIN refs : refs[s] = c.refs[s]
  OBVIOUS
<1>4. mem' = With(at[r], Struct(c.type, c.data, refs))
  <2>. HIDE DEF c, refs
  <2>. QED
    BY <1>1, <1>2, StructChanged
<1>. HIDE DEF refs
<1>. QED
  BY <1>1, <1>2, <1>3, <1>4, WithInv

LEMMA SetConditionsInv ==
    ASSUME Inv, NEW r \in Readers, SetConditions(r)
    PROVE  Inv' /\ \A a \in DOMAIN mem : a.by \in Versions => a \in DOMAIN mem' /\ mem'[a] = mem[a]
<1>. DEFINE root == At(r, Root)
            list == At(r, Conditions \o Conditions)
            c    == mem[root]
            made == Struct("Condition", r, [s \in {} |-> Nil])
            refs == [s \in DOMAIN c.refs \union {Conditions} |->
                        IF s = Conditions THEN list ELSE c.refs[s]]
            kept == [c EXCEPT !.refs = refs]
<1>1. /\ root \in DOMAIN mem
      /\ \A a \in DOMAIN mem : a.by = r => \A s \in DOMAIN mem[a].refs : mem[a].refs[s].by = r
  BY EditsOwn DEF SetConditions, Edited
<1>2. DOMAIN mem \subseteq Addresses /\ \A a \in DOMAIN mem : IsStruct(mem[a], DOMAIN mem)
  BY DEF Inv, TypeOK
<1>3. IsStruct(c, DOMAIN mem) /\ Conditions \in Slots[c.type]
  BY <1>1, <1>2 DEF SetConditions
<1>4. list \in Addresses /\ list.by = r /\ root.by = r
  <2>1. Conditions \in Seq(STRING)
    <3>1. Conditions \in References
      <4>1. c.type \in DOMAIN Slots /\ Conditions \in Slots[c.type]
        BY <1>3 DEF IsStruct
      <4>. HIDE DEF c
      <4>. QED
        BY <4>1 DEF References
    <3>. QED
      BY <3>1, ObjectsAssumption
  <2>2. Conditions \o Conditions \in Seq(STRING)
    BY <2>1
  <2>. QED
    BY <2>2, AtFields DEF Addresses, At, Makers
<1>5. kept = Struct(c.type, c.data, refs) /\ kept.type = c.type /\ kept.data = c.data /\ kept.refs = refs
  <2>1. c = Struct(c.type, c.data, c.refs)
    BY <1>3 DEF IsStruct
  <2>. HIDE DEF c, refs
  <2>2. kept = Struct(c.type, c.data, refs)
    BY <2>1, StructChanged
  <2>. HIDE DEF kept
  <2>. QED
    BY <2>2, StructFields
<1>6. made.type = "Condition" /\ made.data = r /\ DOMAIN made.refs = {}
  BY DEF Struct
<1>7. /\ Edited(r)
      /\ mem' = [b \in DOMAIN mem \union {list} |->
                    IF b = list THEN made ELSE IF b = root THEN kept ELSE mem[b]]
  BY DEF SetConditions
<1>8. /\ DOMAIN refs = DOMAIN c.refs \union {Conditions}
      /\ \A s \in DOMAIN refs : refs[s] = list \/ (s \in DOMAIN c.refs /\ refs[s] = c.refs[s])
  OBVIOUS
<1>9. made = Struct(made.type, made.data, made.refs)
  BY DEF Struct
<1>. HIDE DEF root, list, c, made, refs, kept
<1>10. DOMAIN mem' = DOMAIN mem \union {list}
  BY <1>7
<1>11. IsStruct(kept, DOMAIN mem')
  BY <1>3, <1>5, <1>8, <1>10 DEF IsStruct
<1>12. IsStruct(made, DOMAIN mem')
  BY <1>6, <1>9, ObjectsAssumption DEF IsStruct, Makers
<1>13. \A a \in DOMAIN mem : IsStruct(mem[a], DOMAIN mem')
  BY <1>2, <1>10 DEF IsStruct
<1>14. \A s \in DOMAIN kept.refs : kept.refs[s].by = r
  BY <1>1, <1>4, <1>5, <1>8 DEF c
<1>15. \A a \in DOMAIN mem' : a.by = r => \A s \in DOMAIN mem'[a].refs : mem'[a].refs[s].by = r
  BY <1>1, <1>6, <1>7, <1>10, <1>14
<1>16. \A a \in DOMAIN mem : a.by # r => mem'[a] = mem[a]
  BY <1>4, <1>7
<1>17. \A a \in DOMAIN mem' : \/ a \in DOMAIN mem /\ a.by # r
                              \/ a \in Addresses /\ a.by = r /\ IsStruct(mem'[a], DOMAIN mem')
  BY <1>2, <1>4, <1>7, <1>10, <1>11, <1>12, <1>13
<1>. QED
  BY <1>7, <1>10, <1>15, <1>16, <1>17, EditedInv

LEMMA NextInv ==
    ASSUME Inv, Uses, [Next]_vars
    PROVE  Inv' /\ \A a \in DOMAIN mem : a.by \in Versions => a \in DOMAIN mem' /\ mem'[a] = mem[a]
<1>1. ASSUME NEW o \in Objects, Publish(o)
      PROVE  Inv' /\ \A a \in DOMAIN mem : a \in DOMAIN mem' /\ mem'[a] = mem[a]
  BY <1>1, PublishInv
<1>2. ASSUME NEW r \in Readers, DeepCopyInto(r)
      PROVE  Inv' /\ \A a \in DOMAIN mem : a.by \in Versions => a \in DOMAIN mem' /\ mem'[a] = mem[a]
  <2>1. PICK out, slot : /\ out = Head(todo[r]).out /\ slot = Head(todo[r]).slot
                         /\ CopyField(r, out, slot) \/ SkipNil(r, out, slot)
    BY <1>2 DEF DeepCopyInto
  <2>2. todo[r] # <<>> /\ UNCHANGED <<shared, source, at, edits>>
    BY <1>2 DEF DeepCopyInto
  <2>. QED
    BY <2>1, <2>2, CopyFieldInv, SkipNilInv
<1>3. CASE UNCHANGED vars
  <2>1. UNCHANGED <<mem, shared, source, todo, at, edits>>
    BY <1>3 DEF vars
  <2>2. TypeOK' /\ TodoIsOwn' /\ LooksAtOwn'
    BY <2>1 DEF Inv, TypeOK, TodoIsOwn, LooksAtOwn
  <2>3. OwnOrPending' /\ StartsIdle' /\ VersionsSoFar'
    BY <2>1 DEF Inv, OwnOrPending, Pending, StartsIdle, VersionsSoFar
  <2>. QED
    BY <2>1, <2>2, <2>3 DEF Inv
<1>. QED
  BY <1>1, <1>2, <1>3, TakeInv, FollowInv, SetNilInv, WriteInv, SetConditionsInv DEF Next

\* Objects without forgotten references give copies without any, and no edit
\* makes one.
LEMMA InitUses == UsesNothingForgotten(Objects) /\ Init => Uses
<1>. SUFFICES ASSUME UsesNothingForgotten(Objects), Init PROVE Uses
  OBVIOUS
<1>1. PICK o \in Objects : mem = Decoded(o, 1)
  BY DEF Init
<1>. QED
  BY <1>1, DecodedClean DEF Uses

LEMMA NextUses ==
    ASSUME UsesNothingForgotten(Objects), Inv, Uses, [Next]_vars
    PROVE  Uses'
<1>0. \A a \in DOMAIN mem : Clean(mem[a]) /\ IsStruct(mem[a], DOMAIN mem)
  BY DEF Uses, Inv, TypeOK
<1>1. ASSUME NEW o \in Objects, Publish(o) PROVE Uses'
  <2>. DEFINE new == Decoded(o, shared.by + 1)
  <2>1. \A a \in DOMAIN new : Clean(new[a])
    BY DecodedClean
  <2>2. mem' = [a \in DOMAIN mem \union DOMAIN new |-> IF a \in DOMAIN new THEN new[a] ELSE mem[a]]
    BY <1>1 DEF Publish
  <2>. HIDE DEF new
  <2>. QED
    BY <1>0, <2>1, <2>2 DEF Uses
<1>2. ASSUME NEW r \in Readers, Take(r) PROVE Uses'
  BY <1>0, <1>2 DEF Take, With, Uses, Inv, TypeOK
<1>3. ASSUME NEW r \in Readers, NEW out \in DOMAIN mem, NEW slot, CopyField(r, out, slot) PROVE Uses'
  <2>. DEFINE c      == mem[out]
              old    == mem[c.refs[slot]]
              to     == At(r, out.path \o slot)
              linked == [c EXCEPT !.refs[slot] = to]
  <2>1. /\ slot \in DOMAIN c.refs
        /\ mem' = [b \in DOMAIN mem \union {to} |-> IF b = to THEN old ELSE IF b = out THEN linked ELSE mem[b]]
    BY <1>3 DEF CopyField
  <2>2. c = Struct(c.type, c.data, c.refs) /\ Clean(c) /\ Clean(old)
    BY <1>0, <2>1 DEF IsStruct
  <2>. HIDE DEF c, old, to
  <2>3. Clean(linked)
    BY <2>2, StructChanged, StructFields DEF Clean
  <2>. HIDE DEF linked
  <2>. QED
    BY <1>0, <2>1, <2>2, <2>3 DEF Uses
<1>4. ASSUME NEW r \in Readers, DeepCopyInto(r) PROVE Uses'
  <2>1. PICK out, slot : /\ out = Head(todo[r]).out /\ slot = Head(todo[r]).slot
                         /\ CopyField(r, out, slot) \/ SkipNil(r, out, slot)
    BY <1>4 DEF DeepCopyInto
  <2>2. out \in DOMAIN mem
    BY <1>4, <2>1, NextField DEF DeepCopyInto
  <2>. QED
    BY <1>3, <2>1, <2>2 DEF SkipNil, Uses
<1>5. ASSUME NEW r \in Readers, Write(r) \/ \E slot \in References : SetNil(r, slot) PROVE Uses'
  <2>. DEFINE c == mem[at[r]]
  <2>1. Edited(r) /\ at[r] \in DOMAIN mem
    BY <1>5, EditsOwn DEF Write, SetNil, Edited
  <2>2. c = Struct(c.type, c.data, c.refs) /\ Clean(c)
    BY <1>0, <2>1 DEF IsStruct
  <2>3. PICK new : mem' = With(at[r], new) /\ Clean(new)
    <3>1. CASE Write(r)
      <4>1. mem' = With(at[r], [c EXCEPT !.data = r])
        BY <3>1 DEF Write
      <4>. HIDE DEF c
      <4>2. Clean([c EXCEPT !.data = r])
        BY <2>2, StructChanged, StructFields DEF Clean
      <4>. QED
        BY <4>1, <4>2
    <3>2. ASSUME NEW slot \in References, SetNil(r, slot)
          PROVE  \E new : mem' = With(at[r], new) /\ Clean(new)
      <4>. DEFINE refs == [s \in DOMAIN c.refs \ {slot} |-> c.refs[s]]
      <4>1. mem' = With(at[r], [c EXCEPT !.refs = refs])
        BY <3>2 DEF SetNil
      <4>2. DOMAIN refs \subseteq DOMAIN c.refs
        OBVIOUS
      <4>. HIDE DEF c, refs
      <4>3. Clean([c EXCEPT !.refs = refs])
        BY <2>2, <4>2, StructChanged, StructFields DEF Clean
      <4>. QED
        BY <4>1, <4>3
    <3>. QED
      BY <1>5, <3>1, <3>2
  <2>. QED
    BY <1>0, <2>3 DEF With, Uses
<1>6. ASSUME NEW r \in Readers, SetConditions(r) PROVE Uses'
  <2>. DEFINE root == At(r, Root)
              list == At(r, Conditions \o Conditions)
              c    == mem[root]
              made == Struct("Condition", r, [s \in {} |-> Nil])
              refs == [s \in DOMAIN c.refs \union {Conditions} |->
                          IF s = Conditions THEN list ELSE c.refs[s]]
              kept == [c EXCEPT !.refs = refs]
  <2>1. mem' = [b \in DOMAIN mem \union {list} |->
                   IF b = list THEN made ELSE IF b = root THEN kept ELSE mem[b]]
    BY <1>6 DEF SetConditions
  <2>2. root \in DOMAIN mem
    BY <1>6, EditsOwn DEF SetConditions, Edited
  <2>3. c = Struct(c.type, c.data, c.refs) /\ Clean(c) /\ c.type \in DOMAIN Slots
    BY <1>0, <2>2 DEF IsStruct
  <2>4. DOMAIN refs = DOMAIN c.refs \union {Conditions}
    OBVIOUS
  <2>5. Clean(made)
    BY DEF Clean, Struct
  <2>. HIDE DEF root, list, c, made, refs
  <2>6. Clean(kept)
    BY <2>3, <2>4, StructChanged, StructFields DEF Clean, UsesNothingForgotten
  <2>. HIDE DEF kept
  <2>. QED
    BY <1>0, <2>1, <2>5, <2>6 DEF Uses
<1>7. ASSUME NEW r \in Readers, NEW slot \in References, Follow(r, slot) PROVE Uses'
  BY <1>7 DEF Follow, Uses
<1>8. CASE UNCHANGED vars
  BY <1>8 DEF vars, Uses
<1>. QED
  BY <1>1, <1>2, <1>4, <1>5, <1>6, <1>7, <1>8 DEF Next

LEMMA SpecInv == UsesNothingForgotten(Objects) => (Spec => [](Inv /\ Uses))
<1>. SUFFICES ASSUME UsesNothingForgotten(Objects) PROVE Spec => [](Inv /\ Uses)
  OBVIOUS
<1>1. Inv /\ Uses /\ [Next]_vars => Inv' /\ Uses'
  BY NextInv, NextUses
<1>2. Init => Inv /\ Uses
  BY InitInv, InitUses
<1>. QED
  BY <1>1, <1>2, PTL DEF Spec

\* Copies and the object have their types: every reference of a struct is one
\* that its type has, and leads to memory, at any point of any copy or edit.
THEOREM TypeCorrect == UsesNothingForgotten(Objects) => (Spec => []TypeOK)
<1>1. Inv => TypeOK
  BY DEF Inv
<1>. QED
  BY SpecInv, <1>1, PTL

\* If the objects have no reference that the DeepCopyInto of its type forgets, a
\* finished copy shares no memory with anything, whatever has been edited and
\* replaced meanwhile.
THEOREM CopiesApart == UsesNothingForgotten(Objects) => (Spec => []CopiesAreApart)
<1>1. Inv => CopiesAreApart
  <2>. SUFFICES ASSUME Inv, NEW a \in DOMAIN mem, a.by \in Readers, todo[a.by] = <<>>,
                       NEW s \in DOMAIN mem[a].refs
                PROVE  mem[a].refs[s].by = a.by
    BY DEF CopiesAreApart
  <2>1. ~ Pending(a.by, a, s)
    BY DEF Pending
  <2>. QED
    BY <2>1 DEF Inv, OwnOrPending
<1>. QED
  BY SpecInv, <1>1, PTL

\* And then nobody's edits reach the shared object or one that was shared before.
THEOREM SharedStays == UsesNothingForgotten(Objects) => (Spec => SharedUnchanged)
<1>. SUFFICES ASSUME UsesNothingForgotten(Objects) PROVE Spec => SharedUnchanged
  OBVIOUS
<1>1. Inv /\ Uses /\ [Next]_vars =>
          [\A a \in DOMAIN mem : a.by \in Versions => a \in DOMAIN mem' /\ mem'[a] = mem[a]]_vars
  BY NextInv
<1>. QED
  BY SpecInv, <1>1, PTL DEF Spec, SharedUnchanged

-----------------------------------------------------------------------------
(* Copies are snapshots                                                    *)

\* Every struct of S in one memory has in the other, where f says, one with the
\* same data, and so has all that it refers to.
Mirrors(S, m, n, f) ==
    /\ S \subseteq DOMAIN m
    /\ \A a \in S :
           /\ f[a] \in DOMAIN n
           /\ m[a].type = n[f[a]].type /\ m[a].data = n[f[a]].data
           /\ DOMAIN m[a].refs = DOMAIN n[f[a]].refs
           /\ \A s \in DOMAIN m[a].refs : m[a].refs[s] \in S /\ n[f[a]].refs[s] = f[m[a].refs[s]]

\* Then they have the same below them, one level deeper each time.
LEMMA UnfoldMirrors ==
    ASSUME NEW S, NEW m, NEW n, NEW f, Mirrors(S, m, n, f),
           NEW b, NEW c, \A a \in S : b[a] = c[f[a]]
    PROVE  \A a \in S : Unfold(m, b)[a] = Unfold(n, c)[f[a]]
<1>. SUFFICES ASSUME NEW a \in S PROVE Unfold(m, b)[a] = Unfold(n, c)[f[a]]
  OBVIOUS
<1>1. /\ a \in DOMAIN m /\ f[a] \in DOMAIN n
      /\ m[a].type = n[f[a]].type /\ m[a].data = n[f[a]].data
      /\ DOMAIN m[a].refs = DOMAIN n[f[a]].refs
      /\ \A s \in DOMAIN m[a].refs : m[a].refs[s] \in S /\ n[f[a]].refs[s] = f[m[a].refs[s]]
  BY DEF Mirrors
<1>2. [s \in DOMAIN m[a].refs |-> b[m[a].refs[s]]] = [s \in DOMAIN n[f[a]].refs |-> c[n[f[a]].refs[s]]]
  BY <1>1
<1>3. /\ Unfold(m, b)[a] = Struct(m[a].type, m[a].data, [s \in DOMAIN m[a].refs |-> b[m[a].refs[s]]])
      /\ Unfold(n, c)[f[a]] =
             Struct(n[f[a]].type, n[f[a]].data, [s \in DOMAIN n[f[a]].refs |-> c[n[f[a]].refs[s]]])
  BY <1>1 DEF Unfold
<1>. QED
  BY <1>1, <1>2, <1>3

LEMMA TreesMirror ==
    ASSUME NEW S, NEW m, NEW n, NEW f, Mirrors(S, m, n, f)
    PROVE  \A a \in S : TreeIn(m, a) = TreeIn(n, f[a])
<1>. DEFINE Same(b, c) == \A a \in S : b[a] = c[f[a]]
            b0 == [a \in DOMAIN m |-> Nil]  c0 == [a \in DOMAIN n |-> Nil]
            b1 == Unfold(m, b0)  c1 == Unfold(n, c0)
            b2 == Unfold(m, b1)  c2 == Unfold(n, c1)
            b3 == Unfold(m, b2)  c3 == Unfold(n, c2)
            b4 == Unfold(m, b3)  c4 == Unfold(n, c3)
            b5 == Unfold(m, b4)  c5 == Unfold(n, c4)
            b6 == Unfold(m, b5)  c6 == Unfold(n, c5)
            b7 == Unfold(m, b6)  c7 == Unfold(n, c6)
<1>0. Same(b0, c0)
  BY DEF Mirrors
<1>8. \A a : TreeIn(m, a) = b7[a] /\ TreeIn(n, a) = c7[a]
  BY DEF TreeIn
<1>. HIDE DEF b0, c0
<1>1. Same(b1, c1)
  BY <1>0, UnfoldMirrors
<1>. HIDE DEF b1, c1
<1>2. Same(b2, c2)
  BY <1>1, UnfoldMirrors
<1>. HIDE DEF b2, c2
<1>3. Same(b3, c3)
  BY <1>2, UnfoldMirrors
<1>. HIDE DEF b3, c3
<1>4. Same(b4, c4)
  BY <1>3, UnfoldMirrors
<1>. HIDE DEF b4, c4
<1>5. Same(b5, c5)
  BY <1>4, UnfoldMirrors
<1>. HIDE DEF b5, c5
<1>6. Same(b6, c6)
  BY <1>5, UnfoldMirrors
<1>. HIDE DEF b6, c6
<1>7. Same(b7, c7)
  BY <1>6, UnfoldMirrors
<1>. HIDE DEF b7, c7
<1>. QED
  BY <1>7, <1>8

\* A closed part of a memory that is still there has the same trees.
LEMMA TreesStay ==
    ASSUME NEW S, NEW m, NEW n, S \subseteq DOMAIN m,
           \A a \in S : /\ a \in DOMAIN n /\ n[a] = m[a]
                        /\ \A s \in DOMAIN m[a].refs : m[a].refs[s] \in S
    PROVE  \A a \in S : TreeIn(m, a) = TreeIn(n, a)
<1>. DEFINE f == [a \in S |-> a]
<1>1. Mirrors(S, m, n, f)
  BY DEF Mirrors
<1>2. \A a \in S : f[a] = a
  OBVIOUS
<1>. HIDE DEF f
<1>. QED
  BY <1>1, <1>2, TreesMirror

\* What a tree has at its root.
LEMMA TreeRoot ==
    ASSUME NEW m, NEW a \in DOMAIN m
    PROVE  TreeIn(m, a).data = m[a].data
<1>1. \A b : Unfold(m, b)[a].data = m[a].data
  BY StructFields DEF Unfold
<1>2. \E b : TreeIn(m, a) = Unfold(m, b)[a]
  BY DEF TreeIn
<1>. QED
  BY <1>1, <1>2

\* Structs of a version are as they were decoded.
VersionMemory ==
    \A a \in DOMAIN mem : a.by \in Versions =>
        /\ mem[a].data = a.by
        /\ \A s \in DOMAIN mem[a].refs : mem[a].refs[s] = At(a.by, a.path \o s)

\* What is shared or copied from is the root of a version.
SourcesAreRoots ==
    /\ shared = At(shared.by, Root)
    /\ \A r \in Readers : source[r] # Nil =>
           source[r].by \in Versions /\ source[r] = At(source[r].by, Root)

\* A reader has no memory before it takes a copy.
NoCopyYet == \A a \in DOMAIN mem : a.by \in Readers => source[a.by] # Nil

\* A struct of a copy under way is as the one at its place in the source; its
\* references lead to the same places, in the copy or still in the source.
CopyOf(r, a) ==
    LET o == At(source[r].by, a.path)
    IN  /\ o \in DOMAIN mem
        /\ mem[a].type = mem[o].type /\ mem[a].data = mem[o].data
        /\ DOMAIN mem[a].refs = DOMAIN mem[o].refs
        /\ \A s \in DOMAIN mem[a].refs :
               mem[a].refs[s] \in {At(r, a.path \o s), At(source[r].by, a.path \o s)}

Faithful ==
    \A r \in Readers : todo[r] # <<>> => \A a \in DOMAIN mem : a.by = r => CopyOf(r, a)

CopyInv == VersionMemory /\ SourcesAreRoots /\ NoCopyYet /\ Faithful

ReaderStep(r) ==
    \/ Take(r)
    \/ DeepCopyInto(r)
    \/ \E slot \in References : Follow(r, slot) \/ SetNil(r, slot)
    \/ Write(r)
    \/ SetConditions(r)

\* A reader changes memory of its own only, and none before it has taken a copy.
LEMMA OthersStay ==
    ASSUME Inv, NEW r \in Readers, ReaderStep(r)
    PROVE  /\ shared' = shared /\ DOMAIN mem \subseteq DOMAIN mem'
           /\ \A a \in DOMAIN mem' : a.by # r => a \in DOMAIN mem /\ mem'[a] = mem[a]
           /\ \A q \in Readers \ {r} : source'[q] = source[q] /\ todo'[q] = todo[q]
           /\ source'[r] # Nil
<1>1. DOMAIN source = Readers /\ DOMAIN todo = Readers
  BY DEF Inv, TypeOK
<1>2. shared # Nil
  BY MakersApart, AtFields DEF Inv, TypeOK, Nil
<1>3. CASE Take(r)
  BY <1>1, <1>2, <1>3, AtFields DEF Take, With
<1>4. CASE DeepCopyInto(r)
  <2>1. PICK out, slot : /\ out = Head(todo[r]).out /\ slot = Head(todo[r]).slot
                         /\ CopyField(r, out, slot) \/ SkipNil(r, out, slot)
    BY <1>4 DEF DeepCopyInto
  <2>2. todo[r] # <<>> /\ UNCHANGED <<shared, source, at, edits>>
    BY <1>4 DEF DeepCopyInto
  <2>3. out.by = r /\ out \in DOMAIN mem /\ source[r] # Nil
    BY <2>1, <2>2, NextField
  <2>4. CASE CopyField(r, out, slot)
    BY <1>1, <2>2, <2>3, <2>4, AtFields DEF CopyField
  <2>5. CASE SkipNil(r, out, slot)
    BY <1>1, <2>2, <2>3, <2>5 DEF SkipNil
  <2>. QED
    BY <2>1, <2>4, <2>5
<1>5. ASSUME NEW slot, Follow(r, slot) PROVE UNCHANGED <<mem, shared, source, todo>> /\ source[r] # Nil
  BY <1>5 DEF Follow, Editing
<1>6. ASSUME Edited(r), NEW struct, mem' = With(at[r], struct)
      PROVE  /\ UNCHANGED <<shared, source, todo>> /\ source[r] # Nil
             /\ DOMAIN mem \subseteq DOMAIN mem'
             /\ \A a \in DOMAIN mem' : a.by # r => a \in DOMAIN mem /\ mem'[a] = mem[a]
  BY <1>6, EditsOwn DEF Edited, With
<1>7. CASE Write(r)
  BY <1>6, <1>7 DEF Write
<1>8. ASSUME NEW slot, SetNil(r, slot)
      PROVE  /\ UNCHANGED <<shared, source, todo>> /\ source[r] # Nil
             /\ DOMAIN mem \subseteq DOMAIN mem'
             /\ \A a \in DOMAIN mem' : a.by # r => a \in DOMAIN mem /\ mem'[a] = mem[a]
  BY <1>6, <1>8 DEF SetNil
<1>9. CASE SetConditions(r)
  BY <1>9, EditsOwn, AtFields DEF SetConditions, Edited
<1>. QED
  BY <1>3, <1>4, <1>5, <1>7, <1>8, <1>9 DEF ReaderStep

\* What the decoder makes is a version's, with references to places below.
LEMMA DecodedPlaces ==
    ASSUME NEW o \in Objects, NEW v \in Versions, NEW a \in DOMAIN Decoded(o, v)
    PROVE  /\ a.by = v /\ Decoded(o, v)[a].data = v
           /\ \A s \in DOMAIN Decoded(o, v)[a].refs : Decoded(o, v)[a].refs[s] = At(v, a.path \o s)
<1>1. a.by = v
  BY DecodedIsMemory
<1>2. Decoded(o, v)[a] = Struct(o[a.path].type, v, [s \in o[a.path].slots |-> At(v, a.path \o s)])
  BY DEF Decoded
<1>. QED
  BY <1>1, <1>2, StructFields

LEMMA InitCopyInv == Init => CopyInv
<1>. SUFFICES ASSUME Init PROVE CopyInv
  OBVIOUS
<1>1. 1 \in Versions
  BY ObjectsAssumption DEF Versions
<1>2. PICK o \in Objects : mem = Decoded(o, 1)
  BY DEF Init
<1>3. \A a \in DOMAIN mem : /\ a.by = 1 /\ mem[a].data = 1
                            /\ \A s \in DOMAIN mem[a].refs : mem[a].refs[s] = At(1, a.path \o s)
  BY <1>1, <1>2, DecodedPlaces
<1>4. VersionMemory
  BY <1>3 DEF VersionMemory
<1>5. SourcesAreRoots
  BY AtFields DEF Init, SourcesAreRoots
<1>6. NoCopyYet
  BY <1>1, <1>3, MakersApart DEF NoCopyYet
<1>7. Faithful
  BY DEF Init, Faithful
<1>. QED
  BY <1>4, <1>5, <1>6, <1>7 DEF CopyInv

\* A copy is as its source as long as both are left alone.
LEMMA CopyKept ==
    ASSUME NEW r \in Readers, NEW a \in DOMAIN mem, CopyOf(r, a),
           source'[r] = source[r], source[r].by \in Versions,
           \A b \in DOMAIN mem : b.by \in Versions => b \in DOMAIN mem' /\ mem'[b] = mem[b],
           mem'[a] = mem[a]
    PROVE  CopyOf(r, a)'
<1>1. At(source[r].by, a.path).by \in Versions
  BY AtFields
<1>. QED
  BY <1>1 DEF CopyOf

\* A newer object leaves the memory of all others alone.
LEMMA PublishCopyInv ==
    ASSUME Inv, CopyInv, NEW o \in Objects, Publish(o)
    PROVE  CopyInv'
<1>. DEFINE v == shared.by + 1
            new == Decoded(o, v)
<1>1. v \in Versions
  BY ObjectsAssumption DEF Inv, TypeOK, Publish, Versions
<1>2. \A a \in DOMAIN mem : a \in DOMAIN mem' /\ mem'[a] = mem[a]
  BY PublishInv
<1>3. /\ shared' = At(v, Root) /\ UNCHANGED <<source, todo>>
      /\ mem' = [a \in DOMAIN mem \union DOMAIN new |-> IF a \in DOMAIN new THEN new[a] ELSE mem[a]]
  BY DEF Publish
<1>4. \A a \in DOMAIN new : /\ a.by = v /\ new[a].data = v
                            /\ \A s \in DOMAIN new[a].refs : new[a].refs[s] = At(v, a.path \o s)
  BY <1>1, DecodedPlaces
<1>. HIDE DEF new, v
<1>5. \A a \in DOMAIN mem' : a \in DOMAIN new \/ a \in DOMAIN mem
  BY <1>3
<1>6. \A a \in DOMAIN new : a \in DOMAIN mem' /\ mem'[a] = new[a]
  BY <1>3
<1>7. VersionMemory'
  BY <1>2, <1>4, <1>5, <1>6 DEF CopyInv, VersionMemory
<1>8. SourcesAreRoots'
  BY <1>3, AtFields DEF CopyInv, SourcesAreRoots
<1>9. NoCopyYet'
  BY <1>1, <1>3, <1>4, <1>5, MakersApart DEF CopyInv, NoCopyYet
<1>10. Faithful'
  <2>. SUFFICES ASSUME NEW r \in Readers, todo'[r] # <<>>, NEW a \in DOMAIN mem', a.by = r
                PROVE  CopyOf(r, a)'
    BY DEF Faithful
  <2>1. a \in DOMAIN mem
    BY <1>1, <1>4, <1>5, MakersApart
  <2>2. CopyOf(r, a) /\ source[r] # Nil
    BY <1>3, <2>1 DEF CopyInv, Faithful, NoCopyYet
  <2>3. source[r].by \in Versions
    BY <2>2 DEF CopyInv, SourcesAreRoots
  <2>. QED
    BY <1>2, <1>3, <2>1, <2>2, <2>3, CopyKept
<1>. QED
  BY <1>7, <1>8, <1>9, <1>10 DEF CopyInv

\* A reader's step keeps the copies, if it keeps its own.
LEMMA ReaderCopyInv ==
    ASSUME Inv, CopyInv, NEW r \in Readers, ReaderStep(r),
           source'[r] = source[r] \/ source'[r] = shared,
           todo'[r] # <<>> => \A a \in DOMAIN mem' : a.by = r => CopyOf(r, a)'
    PROVE  CopyInv'
<1>1. /\ shared' = shared /\ DOMAIN mem \subseteq DOMAIN mem'
      /\ \A a \in DOMAIN mem' : a.by # r => a \in DOMAIN mem /\ mem'[a] = mem[a]
      /\ \A q \in Readers \ {r} : source'[q] = source[q] /\ todo'[q] = todo[q]
      /\ source'[r] # Nil
  BY OthersStay
<1>2. r \notin Versions /\ shared.by \in Versions
  BY MakersApart DEF Inv, TypeOK
<1>3. VersionMemory'
  BY <1>1, <1>2 DEF CopyInv, VersionMemory
<1>4. SourcesAreRoots'
  BY <1>1, <1>2 DEF CopyInv, SourcesAreRoots
<1>5. NoCopyYet'
  BY <1>1 DEF CopyInv, NoCopyYet
<1>6. ASSUME NEW q \in Readers, q # r, todo'[q] # <<>>, NEW a \in DOMAIN mem', a.by = q
      PROVE  CopyOf(q, a)'
  <2>1. a \in DOMAIN mem /\ mem'[a] = mem[a] /\ source'[q] = source[q] /\ todo[q] # <<>>
    BY <1>1, <1>6
  <2>2. CopyOf(q, a) /\ source[q] # Nil
    BY <1>6, <2>1 DEF CopyInv, Faithful, NoCopyYet
  <2>3. source[q].by \in Versions
    BY <2>2 DEF CopyInv, SourcesAreRoots
  <2>4. \A b \in DOMAIN mem : b.by \in Versions => b \in DOMAIN mem' /\ mem'[b] = mem[b]
    BY <1>1, <1>2
  <2>. QED
    BY <2>1, <2>2, <2>3, <2>4, CopyKept
<1>7. Faithful'
  BY <1>6 DEF Faithful
<1>. QED
  BY <1>3, <1>4, <1>5, <1>7 DEF CopyInv

\* *out = *in makes the root a copy of the shared object.
LEMMA TakeCopies ==
    ASSUME Inv, CopyInv, NEW r \in Readers, Take(r)
    PROVE  \A a \in DOMAIN mem' : a.by = r => CopyOf(r, a)'
<1>. DEFINE root == At(r, Root)
<1>1. source' = [source EXCEPT ![r] = shared] /\ source[r] = Nil
  BY DEF Take
<1>2. source'[r] = shared
  BY <1>1 DEF Inv, TypeOK
<1>3. mem' = [b \in DOMAIN mem \union {root} |-> IF b = root THEN mem[shared] ELSE mem[b]]
  BY DEF Take, With
<1>4. \A a \in DOMAIN mem' : a.by = r => a = root
  BY <1>1, <1>3 DEF CopyInv, NoCopyYet
<1>5. /\ shared \in DOMAIN mem /\ shared.by \in Versions /\ shared = At(shared.by, Root)
      /\ \A s \in DOMAIN mem[shared].refs : mem[shared].refs[s] = At(shared.by, shared.path \o s)
  BY DEF Inv, TypeOK, CopyInv, VersionMemory, SourcesAreRoots
<1>6. root.path = Root /\ shared.path = Root /\ shared # root
  BY <1>5, MakersApart, AtFields
<1>7. mem'[root] = mem[shared] /\ mem'[shared] = mem[shared] /\ shared \in DOMAIN mem' /\ root \in DOMAIN mem'
  BY <1>3, <1>5, <1>6
<1>. HIDE DEF root
<1>8. CopyOf(r, root)'
  BY <1>2, <1>5, <1>6, <1>7 DEF CopyOf
<1>. QED
  BY <1>4, <1>8

\* A field that is copied makes its struct a copy, and stays where it is in the copy.
LEMMA CopyFieldCopies ==
    ASSUME Inv, CopyInv, NEW r \in Readers, todo[r] # <<>>,
           NEW out, NEW slot, out = Head(todo[r]).out, slot = Head(todo[r]).slot,
           CopyField(r, out, slot), UNCHANGED <<shared, source, at, edits>>
    PROVE  \A a \in DOMAIN mem' : a.by = r => CopyOf(r, a)'
<1>. DEFINE old    == mem[out].refs[slot]
            to     == At(r, out.path \o slot)
            v      == source[r].by
            o      == At(v, out.path \o slot)
            linked == [mem[out] EXCEPT !.refs[slot] = to]
<1>1. out \in DOMAIN mem /\ out.by = r /\ source[r] # Nil /\ slot \in DOMAIN mem[out].refs
  BY NextField DEF CopyField
<1>2. /\ v \in Versions /\ v # r
      /\ \A a \in DOMAIN mem : a.by = r => CopyOf(r, a)
  BY <1>1, MakersApart DEF CopyInv, SourcesAreRoots, Faithful
<1>3. old \in DOMAIN mem /\ old \in {to, o}
  BY <1>1, <1>2 DEF Inv, TypeOK, IsStruct, CopyOf
<1>4. to.by = r /\ to.path = out.path \o slot /\ o.by = v /\ o.path = out.path \o slot
  BY AtFields
<1>5. mem' = [b \in DOMAIN mem \union {to} |->
                 IF b = to THEN mem[old] ELSE IF b = out THEN linked ELSE mem[b]]
  BY DEF CopyField
<1>6. /\ linked.refs = [mem[out].refs EXCEPT ![slot] = to]
      /\ linked.type = mem[out].type /\ linked.data = mem[out].data
  <2>. DEFINE c == mem[out]
              refs == [c.refs EXCEPT ![slot] = to]
  <2>1. c = Struct(c.type, c.data, c.refs)
    BY <1>1 DEF Inv, TypeOK, IsStruct
  <2>2. linked = [c EXCEPT !.refs[slot] = to]
    OBVIOUS
  <2>. HIDE DEF linked, to, c
  <2>3. linked = Struct(c.type, c.data, refs)
    BY <2>1, <2>2, StructChanged
  <2>. HIDE DEF refs
  <2>4. linked.refs = refs /\ linked.type = c.type /\ linked.data = c.data
    BY <2>3, StructFields
  <2>. QED
    BY <2>4 DEF refs, c
<1>7. \A b \in DOMAIN mem : b.by \in Versions => b \in DOMAIN mem' /\ mem'[b] = mem[b]
  BY <1>1, <1>4, <1>5, MakersApart
<1>8. DOMAIN mem' = DOMAIN mem \union {to} /\ mem'[to] = mem[old] /\ (out # to => mem'[out] = linked)
  BY <1>1, <1>5
<1>. HIDE DEF old, to, linked, o, v
<1>9. /\ o \in DOMAIN mem
      /\ mem[old].type = mem[o].type /\ mem[old].data = mem[o].data
      /\ DOMAIN mem[old].refs = DOMAIN mem[o].refs
      /\ \A s \in DOMAIN mem[old].refs :
             mem[old].refs[s] \in {At(r, to.path \o s), At(v, to.path \o s)}
  <2>1. CASE old = to
    <3>1. CopyOf(r, to)
      BY <1>2, <1>3, <1>4, <2>1
    <3>2. At(source[r].by, to.path) = o
      BY <1>4 DEF o, v
    <3>. QED
      BY <2>1, <3>1, <3>2 DEF CopyOf, v
  <2>2. CASE old = o
    <3>1. o \in DOMAIN mem /\ o.by \in Versions /\ o.path = to.path
      BY <1>2, <1>3, <1>4, <2>2
    <3>2. \A s \in DOMAIN mem[o].refs : mem[o].refs[s] = At(o.by, o.path \o s)
      BY <3>1 DEF CopyInv, VersionMemory
    <3>3. \A s \in DOMAIN mem[old].refs : mem[old].refs[s] = At(v, to.path \o s)
      BY <1>4, <2>2, <3>1, <3>2
    <3>. QED
      BY <2>2, <3>1, <3>3
  <2>. QED
    BY <1>3, <2>1, <2>2
<1>10. CopyOf(r, to)'
  <2>1. o \in DOMAIN mem' /\ mem'[o] = mem[o] /\ o = At(source'[r].by, to.path)
    BY <1>2, <1>4, <1>7, <1>9 DEF o, v
  <2>. QED
    BY <1>8, <1>9, <2>1 DEF CopyOf, v
<1>11. ASSUME out # to PROVE CopyOf(r, out)'
  <2>. DEFINE p == At(v, out.path)
  <2>1. /\ p \in DOMAIN mem
        /\ mem[out].type = mem[p].type /\ mem[out].data = mem[p].data
        /\ DOMAIN mem[out].refs = DOMAIN mem[p].refs
        /\ \A s \in DOMAIN mem[out].refs :
               mem[out].refs[s] \in {At(r, out.path \o s), At(v, out.path \o s)}
    BY <1>1, <1>2 DEF CopyOf, v
  <2>2. p.by \in Versions
    BY <1>2, AtFields
  <2>3. p \in DOMAIN mem' /\ mem'[p] = mem[p]
    BY <1>7, <2>1, <2>2
  <2>4. DOMAIN linked.refs = DOMAIN mem[out].refs
    BY <1>6
  <2>5. \A s \in DOMAIN linked.refs :
            linked.refs[s] \in {At(r, out.path \o s), At(v, out.path \o s)}
    BY <1>6, <2>1 DEF to
  <2>6. p = At(source'[r].by, out.path) /\ source'[r].by = v
    BY DEF v
  <2>. QED
    BY <1>6, <1>8, <1>11, <2>1, <2>3, <2>4, <2>5, <2>6 DEF CopyOf
<1>12. ASSUME NEW a \in DOMAIN mem, a.by = r, a # to, a # out PROVE CopyOf(r, a)'
  <2>1. mem'[a] = mem[a] /\ CopyOf(r, a)
    BY <1>2, <1>5, <1>12
  <2>. QED
    BY <1>2, <1>7, <2>1, CopyKept DEF v
<1>. QED
  BY <1>8, <1>10, <1>11, <1>12

\* So each step of a copy keeps it one, the last as well.
LEMMA DeepCopyCopies ==
    ASSUME Inv, CopyInv, NEW r \in Readers, DeepCopyInto(r)
    PROVE  \A a \in DOMAIN mem' : a.by = r => CopyOf(r, a)'
<1>1. PICK out, slot : /\ out = Head(todo[r]).out /\ slot = Head(todo[r]).slot
                       /\ CopyField(r, out, slot) \/ SkipNil(r, out, slot)
  BY DEF DeepCopyInto
<1>2. todo[r] # <<>> /\ UNCHANGED <<shared, source, at, edits>>
  BY DEF DeepCopyInto
<1>3. CASE SkipNil(r, out, slot)
  <2>1. mem' = mem
    BY <1>3 DEF SkipNil
  <2>2. \A a \in DOMAIN mem : a.by = r => CopyOf(r, a)
    BY <1>2 DEF CopyInv, Faithful
  <2>. QED
    BY <1>2, <2>1, <2>2 DEF CopyOf
<1>. QED
  BY <1>1, <1>2, <1>3, CopyFieldCopies

LEMMA NextCopyInv == Inv /\ CopyInv /\ [Next]_vars => CopyInv'
<1>. SUFFICES ASSUME Inv, CopyInv, [Next]_vars PROVE CopyInv'
  OBVIOUS
<1>1. ASSUME NEW r \in Readers, Take(r) PROVE CopyInv'
  <2>1. source'[r] = shared
    BY <1>1 DEF Take, Inv, TypeOK
  <2>. QED
    BY <1>1, <2>1, TakeCopies, ReaderCopyInv DEF ReaderStep
<1>2. ASSUME NEW r \in Readers, DeepCopyInto(r) PROVE CopyInv'
  <2>1. source' = source
    BY <1>2 DEF DeepCopyInto
  <2>. QED
    BY <1>2, <2>1, DeepCopyCopies, ReaderCopyInv DEF ReaderStep
<1>3. ASSUME NEW r \in Readers, ReaderStep(r), Editing(r), UNCHANGED <<source, todo>> PROVE CopyInv'
  <2>1. todo'[r] = <<>>
    BY <1>3 DEF Editing
  <2>. QED
    BY <1>3, <2>1, ReaderCopyInv
<1>4. ASSUME NEW r \in Readers,
             \/ \E slot \in References : Follow(r, slot) \/ SetNil(r, slot)
             \/ Write(r) \/ SetConditions(r)
      PROVE  CopyInv'
  <2>1. ReaderStep(r)
    BY <1>4 DEF ReaderStep
  <2>2. Editing(r) /\ UNCHANGED <<source, todo>>
    BY <1>4 DEF Follow, SetNil, Write, SetConditions, Edited
  <2>. QED
    BY <1>3, <2>1, <2>2
<1>5. CASE UNCHANGED vars
  BY <1>5 DEF vars, CopyInv, VersionMemory, SourcesAreRoots, NoCopyYet, Faithful, CopyOf
<1>. QED
  BY <1>1, <1>2, <1>4, <1>5, PublishCopyInv DEF Next

\* The object shared now, and each one shared before, is one and the same.
LEMMA VersionTrees ==
    ASSUME Inv, CopyInv, Uses, [Next]_vars
    PROVE  \A a \in DOMAIN mem : a.by \in Versions => TreeIn(mem', a) = TreeIn(mem, a)
<1>. DEFINE S == {a \in DOMAIN mem : a.by \in Versions}
<1>1. \A a \in S : a \in DOMAIN mem' /\ mem'[a] = mem[a]
  BY NextInv
<1>2. ASSUME NEW a \in S, NEW s \in DOMAIN mem[a].refs PROVE mem[a].refs[s] \in S
  <2>1. mem[a].refs[s] \in DOMAIN mem
    BY DEF Inv, TypeOK, IsStruct
  <2>2. mem[a].refs[s] = At(a.by, a.path \o s)
    BY DEF CopyInv, VersionMemory
  <2>. QED
    BY <2>1, <2>2, AtFields
<1>3. S \subseteq DOMAIN mem
  OBVIOUS
<1>. HIDE DEF S
<1>4. \A a \in S : \A s \in DOMAIN mem[a].refs : mem[a].refs[s] \in S
  BY <1>2
<1>5. \A a \in S : TreeIn(mem, a) = TreeIn(mem', a)
  BY <1>1, <1>3, <1>4, TreesStay
<1>. QED
  BY <1>5 DEF S

\* So is a finished copy, as long as its reader leaves it alone.
LEMMA CopyTrees ==
    ASSUME Inv, NEW q \in Readers, todo[q] = <<>>,
           \A a \in DOMAIN mem : a.by = q => a \in DOMAIN mem' /\ mem'[a] = mem[a]
    PROVE  \A a \in DOMAIN mem : a.by = q => TreeIn(mem', a) = TreeIn(mem, a)
<1>. DEFINE S == {a \in DOMAIN mem : a.by = q}
<1>1. ASSUME NEW a \in S, NEW s \in DOMAIN mem[a].refs PROVE mem[a].refs[s] \in S
  <2>1. mem[a].refs[s] \in DOMAIN mem
    BY DEF Inv, TypeOK, IsStruct
  <2>2. ~ Pending(a.by, a, s)
    BY DEF Pending
  <2>. QED
    BY <2>1, <2>2 DEF Inv, OwnOrPending
<1>2. \A a \in S : a \in DOMAIN mem' /\ mem'[a] = mem[a]
  OBVIOUS
<1>3. S \subseteq DOMAIN mem
  OBVIOUS
<1>. HIDE DEF S
<1>4. \A a \in S : \A s \in DOMAIN mem[a].refs : mem[a].refs[s] \in S
  BY <1>1
<1>5. \A a \in S : TreeIn(mem, a) = TreeIn(mem', a)
  BY <1>2, <1>3, <1>4, TreesStay
<1>. QED
  BY <1>5 DEF S

\* A reader whose own memory and place in its copy stay has still taken the same.
LEMMA TakenStays ==
    ASSUME Inv, CopyInv, Uses, [Next]_vars, NEW q \in Readers,
           source'[q] = source[q], todo'[q] = todo[q],
           \A a \in DOMAIN mem : a.by = q => a \in DOMAIN mem' /\ mem'[a] = mem[a]
    PROVE  Taken(q)' = Taken(q)
<1>1. CASE source[q] = Nil
  BY <1>1 DEF Taken
<1>2. CASE source[q] # Nil /\ todo[q] # <<>>
  <2>1. source[q] \in DOMAIN mem /\ source[q].by \in Versions
    BY <1>2 DEF Inv, TypeOK, CopyInv, SourcesAreRoots
  <2>2. TreeIn(mem', source[q]) = TreeIn(mem, source[q])
    BY <2>1, VersionTrees
  <2>. QED
    BY <1>2, <2>2 DEF Taken, Tree
<1>3. CASE source[q] # Nil /\ todo[q] = <<>>
  <2>1. At(q, Root) \in DOMAIN mem /\ At(q, Root).by = q
    BY <1>3, AtFields DEF Inv, LooksAtOwn
  <2>2. TreeIn(mem', At(q, Root)) = TreeIn(mem, At(q, Root))
    BY <1>3, <2>1, CopyTrees
  <2>. QED
    BY <1>3, <2>2 DEF Taken, Tree
<1>. QED
  BY <1>1, <1>2, <1>3

\* A copy that refers to nothing but itself is the tree that it is a copy of.
LEMMA CopiedTree ==
    ASSUME NEW m, NEW r, NEW v, r # v, At(r, Root) \in DOMAIN m,
           \A a \in DOMAIN m : a.by = r =>
               /\ At(v, a.path) \in DOMAIN m
               /\ m[a].type = m[At(v, a.path)].type /\ m[a].data = m[At(v, a.path)].data
               /\ DOMAIN m[a].refs = DOMAIN m[At(v, a.path)].refs
               /\ \A s \in DOMAIN m[a].refs :
                      /\ m[a].refs[s] \in {At(r, a.path \o s), At(v, a.path \o s)}
                      /\ m[a].refs[s] \in DOMAIN m /\ m[a].refs[s].by = r,
           \A a \in DOMAIN m : a.by = v =>
               \A s \in DOMAIN m[a].refs : m[a].refs[s] = At(v, a.path \o s)
    PROVE  TreeIn(m, At(r, Root)) = TreeIn(m, At(v, Root))
<1>. DEFINE S == {a \in DOMAIN m : a.by = r}
            f == [a \in S |-> At(v, a.path)]
<1>1. \A a \in S : f[a] = At(v, a.path)
  OBVIOUS
<1>2. ASSUME NEW a \in S, NEW s \in DOMAIN m[a].refs
      PROVE  m[a].refs[s] \in S /\ m[f[a]].refs[s] = f[m[a].refs[s]]
  <2>1. m[a].refs[s] \in S /\ m[a].refs[s] = At(r, a.path \o s)
    BY AtFields
  <2>2. f[m[a].refs[s]] = At(v, a.path \o s)
    BY <1>1, <2>1, AtFields
  <2>3. f[a] \in DOMAIN m /\ f[a].by = v /\ f[a].path = a.path /\ s \in DOMAIN m[f[a]].refs
    BY <1>1, AtFields
  <2>. QED
    BY <2>1, <2>2, <2>3
<1>3. \A a \in S : /\ f[a] \in DOMAIN m
                   /\ m[a].type = m[f[a]].type /\ m[a].data = m[f[a]].data
                   /\ DOMAIN m[a].refs = DOMAIN m[f[a]].refs
  BY <1>1
<1>4. At(r, Root) \in S /\ S \subseteq DOMAIN m
  BY AtFields
<1>5. f[At(r, Root)] = At(v, Root)
  BY <1>1, <1>4, AtFields
<1>. HIDE DEF S, f
<1>6. Mirrors(S, m, m, f)
  BY <1>2, <1>3, <1>4 DEF Mirrors
<1>. QED
  BY <1>4, <1>5, <1>6, TreesMirror

\* While it copies, and when it has copied, a reader has taken what it copies from.
LEMMA TakenIsSource ==
    ASSUME Inv, CopyInv, Uses, [Next]_vars, NEW r \in Readers,
           source'[r] # Nil, source'[r] \in DOMAIN mem,
           \A a \in DOMAIN mem' : a.by = r => CopyOf(r, a)'
    PROVE  Taken(r)' = TreeIn(mem, source'[r])
<1>. DEFINE v == source'[r].by
<1>1. Inv' /\ CopyInv'
  BY NextInv, NextCopyInv
<1>2. v \in Versions /\ source'[r] = At(v, Root) /\ v # r
  BY <1>1, MakersApart DEF CopyInv, SourcesAreRoots
<1>3. TreeIn(mem', source'[r]) = TreeIn(mem, source'[r])
  BY <1>2, VersionTrees
<1>4. CASE todo'[r] # <<>>
  BY <1>3, <1>4 DEF Taken, Tree
<1>5. CASE todo'[r] = <<>>
  <2>1. At(r, Root) \in DOMAIN mem'
    BY <1>1 DEF Inv, LooksAtOwn
  <2>2. \A a \in DOMAIN mem' : a.by = v =>
            \A s \in DOMAIN mem'[a].refs : mem'[a].refs[s] = At(v, a.path \o s)
    BY <1>1, <1>2 DEF CopyInv, VersionMemory
  <2>3. ASSUME NEW a \in DOMAIN mem', a.by = r, NEW s \in DOMAIN mem'[a].refs
        PROVE  mem'[a].refs[s] \in DOMAIN mem' /\ mem'[a].refs[s].by = r
    <3>1. ~ Pending(r, a, s)'
      BY <1>5 DEF Pending
    <3>2. mem'[a].refs[s].by = r
      BY <1>1, <2>3, <3>1 DEF Inv, OwnOrPending
    <3>. QED
      BY <1>1, <3>2 DEF Inv, TypeOK, IsStruct
  <2>4. \A a \in DOMAIN mem' : a.by = r =>
            /\ At(v, a.path) \in DOMAIN mem'
            /\ mem'[a].type = mem'[At(v, a.path)].type /\ mem'[a].data = mem'[At(v, a.path)].data
            /\ DOMAIN mem'[a].refs = DOMAIN mem'[At(v, a.path)].refs
            /\ \A s \in DOMAIN mem'[a].refs :
                   mem'[a].refs[s] \in {At(r, a.path \o s), At(v, a.path \o s)}
    BY DEF CopyOf
  <2>. HIDE DEF v
  <2>5. TreeIn(mem', At(r, Root)) = TreeIn(mem', At(v, Root))
    BY <1>2, <2>1, <2>2, <2>3, <2>4, CopiedTree
  <2>. QED
    BY <1>2, <1>3, <1>5, <2>5 DEF Taken, Tree
<1>. QED
  BY <1>4, <1>5

\* A tree is never nothing: somebody has written its root.
LEMMA TreeIsSomething ==
    ASSUME NEW m, NEW a \in DOMAIN m, m[a].data \in Makers
    PROVE  TreeIn(m, a) # NotTaken
<1>1. 0 \notin Makers
  BY MakersApart DEF Makers
<1>2. NotTaken.data = 0
  BY StructFields DEF NotTaken
<1>. QED
  BY <1>1, <1>2, TreeRoot

LEMMA InitRefines == Init => Abstract!Init
BY DEF Init, Abstract!Init, Taken

\* Each step is one of the abstract specification, or changes nothing that is
\* seen there: copying a field and looking elsewhere in one's copy.
LEMMA PublishRefines ==
    ASSUME Inv, CopyInv, Uses, NEW o \in Objects, Publish(o)
    PROVE  Abstract!Publish
<1>1. [Next]_vars
  BY DEF Next
<1>2. Inv' /\ CopyInv'
  BY <1>1, NextInv, NextCopyInv
<1>3. /\ shared \in DOMAIN mem /\ mem[shared].data = shared.by /\ shared.by \in Nat
      /\ shared' \in DOMAIN mem' /\ mem'[shared'].data = shared'.by
      /\ shared'.by = shared.by + 1
  BY <1>2, MakersApart, AtFields DEF Inv, TypeOK, CopyInv, VersionMemory, Publish
<1>4. TreeIn(mem, shared).data = shared.by /\ TreeIn(mem', shared').data = shared.by + 1
  BY <1>3, TreeRoot
<1>5. TreeIn(mem', shared') # TreeIn(mem, shared)
  BY <1>3, <1>4
<1>6. \A q \in Readers : Taken(q)' = Taken(q)
  <2>1. \A a \in DOMAIN mem : a \in DOMAIN mem' /\ mem'[a] = mem[a]
    BY PublishInv
  <2>2. UNCHANGED <<source, todo>>
    BY DEF Publish
  <2>. QED
    BY <1>1, <2>1, <2>2, TakenStays
<1>. QED
  BY <1>5, <1>6 DEF Abstract!Publish, Tree

\* Whatever a reader does, the object and what others have taken are the same.
LEMMA OthersTaken ==
    ASSUME Inv, CopyInv, Uses, NEW r \in Readers, ReaderStep(r)
    PROVE  /\ Tree(shared)' = Tree(shared)
           /\ \A q \in Readers \ {r} : Taken(q)' = Taken(q)
<1>1. [Next]_vars
  BY DEF Next, ReaderStep
<1>2. shared \in DOMAIN mem /\ shared.by \in Versions /\ shared' = shared
  BY OthersStay DEF Inv, TypeOK
<1>3. TreeIn(mem', shared') = TreeIn(mem, shared)
  BY <1>1, <1>2, VersionTrees
<1>4. ASSUME NEW q \in Readers \ {r} PROVE Taken(q)' = Taken(q)
  BY <1>1, <1>4, OthersStay, TakenStays
<1>. QED
  BY <1>3, <1>4 DEF Tree

LEMMA TakeRefines ==
    ASSUME Inv, CopyInv, Uses, NEW r \in Readers, Take(r)
    PROVE  Abstract!Take(r)
<1>1. [Next]_vars /\ ReaderStep(r)
  BY DEF Next, ReaderStep
<1>2. source[r] = Nil /\ source'[r] = shared /\ shared \in DOMAIN mem /\ shared # Nil
  BY MakersApart, AtFields DEF Take, Inv, TypeOK, Nil
<1>3. Taken(r) = NotTaken
  BY <1>2 DEF Taken
<1>4. Taken(r)' = Tree(shared)
  BY <1>1, <1>2, TakeCopies, TakenIsSource DEF Tree
<1>. QED
  BY <1>1, <1>3, <1>4, OthersTaken DEF Abstract!Take

LEMMA CopyStutters ==
    ASSUME Inv, CopyInv, Uses, NEW r \in Readers, DeepCopyInto(r)
    PROVE  UNCHANGED Abstract!vars
<1>1. [Next]_vars /\ ReaderStep(r)
  BY DEF Next, ReaderStep
<1>2. todo[r] # <<>> /\ source' = source /\ source[r] # Nil /\ source[r] \in DOMAIN mem
  BY DEF DeepCopyInto, Inv, StartsIdle, TypeOK
<1>3. Taken(r) = TreeIn(mem, source[r])
  BY <1>2 DEF Taken, Tree
<1>4. Taken(r)' = TreeIn(mem, source[r])
  BY <1>1, <1>2, DeepCopyCopies, TakenIsSource
<1>. QED
  BY <1>1, <1>3, <1>4, OthersTaken DEF Abstract!vars

LEMMA FollowStutters ==
    ASSUME Inv, CopyInv, Uses, NEW r \in Readers, NEW slot \in References, Follow(r, slot)
    PROVE  UNCHANGED Abstract!vars
<1>1. [Next]_vars /\ ReaderStep(r)
  BY DEF Next, ReaderStep
<1>2. UNCHANGED <<mem, source, todo>>
  BY DEF Follow
<1>3. Taken(r)' = Taken(r)
  BY <1>1, <1>2, TakenStays
<1>. QED
  BY <1>1, <1>3, OthersTaken DEF Abstract!vars

LEMMA EditRefines ==
    ASSUME Inv, CopyInv, Uses, NEW r \in Readers, Edited(r), ReaderStep(r)
    PROVE  Abstract!Edit(r)
<1>1. [Next]_vars
  BY DEF Next, ReaderStep
<1>2. Inv'
  BY <1>1, NextInv
<1>3. source[r] # Nil /\ todo[r] = <<>> /\ UNCHANGED <<source, todo>>
  BY DEF Edited, Editing
<1>4. At(r, Root) \in DOMAIN mem /\ mem[At(r, Root)].data \in Makers
  BY <1>3 DEF Inv, LooksAtOwn, TypeOK, IsStruct
<1>5. At(r, Root) \in DOMAIN mem' /\ mem'[At(r, Root)].data \in Makers
  BY <1>2, <1>3 DEF Inv, LooksAtOwn, TypeOK, IsStruct
<1>6. Taken(r) = TreeIn(mem, At(r, Root)) /\ Taken(r)' = TreeIn(mem', At(r, Root))
  BY <1>3 DEF Taken, Tree
<1>7. Taken(r) # NotTaken /\ Taken(r)' # NotTaken
  BY <1>4, <1>5, <1>6, TreeIsSomething
<1>. QED
  BY <1>7, OthersTaken DEF Abstract!Edit

LEMMA StepRefines ==
    ASSUME Inv, CopyInv, Uses, [Next]_vars
    PROVE  [Abstract!Next]_(Abstract!vars)
<1>1. ASSUME NEW o \in Objects, Publish(o) PROVE Abstract!Next
  BY <1>1, PublishRefines DEF Abstract!Next
<1>2. ASSUME NEW r \in Readers, Take(r) PROVE Abstract!Next
  BY <1>2, TakeRefines DEF Abstract!Next
<1>3. ASSUME NEW r \in Readers, DeepCopyInto(r) PROVE UNCHANGED Abstract!vars
  BY <1>3, CopyStutters
<1>4. ASSUME NEW r \in Readers, NEW slot \in References, Follow(r, slot)
      PROVE  UNCHANGED Abstract!vars
  BY <1>4, FollowStutters
<1>5. ASSUME NEW r \in Readers, Write(r) \/ SetConditions(r) \/ \E slot \in References : SetNil(r, slot)
      PROVE  Abstract!Next
  <2>1. Edited(r) /\ ReaderStep(r)
    BY <1>5 DEF ReaderStep, Write, SetConditions, SetNil
  <2>. QED
    BY <2>1, EditRefines DEF Abstract!Next
<1>6. CASE UNCHANGED vars
  BY <1>6 DEF vars, Abstract!vars, Taken, Tree
<1>. QED
  BY <1>1, <1>2, <1>3, <1>4, <1>5, <1>6 DEF Next

\* If the objects have no forgotten reference, deep copies are snapshots: each
\* copy is of the object as it was when the copy was begun, and neither newer
\* objects nor the edits of other readers change it.
THEOREM CopiesAreSnapshots == UsesNothingForgotten(Objects) => (Spec => ImplementsSnapshots)
<1>. SUFFICES ASSUME UsesNothingForgotten(Objects) PROVE Spec => ImplementsSnapshots
  OBVIOUS
<1>1. Spec => []CopyInv
  <2>1. Inv /\ CopyInv /\ [Next]_vars => CopyInv'
    BY NextCopyInv
  <2>. QED
    BY InitCopyInv, SpecInv, <2>1, PTL DEF Spec
<1>2. Inv /\ Uses /\ CopyInv /\ [Next]_vars => [Abstract!Next]_(Abstract!vars)
  BY StepRefines
<1>. QED
  BY InitRefines, SpecInv, <1>1, <1>2, PTL DEF Spec, ImplementsSnapshots, Abstract!Spec

-----------------------------------------------------------------------------
(* Configurations: the items of a list and their places                    *)

\* The items of calls before n + 1, with those of call n + 1 at the end.
Further(n, m) == {<<n + 1, j>> : j \in 1..m}

\* There are as many of them as the call passes.
LEMMA FurtherCount ==
    ASSUME NEW n \in Nat, NEW m \in Nat
    PROVE  IsFiniteSet(Further(n, m)) /\ Cardinality(Further(n, m)) = m
<1>. DEFINE f == [j \in 1..m |-> <<n + 1, j>>]
<1>1. f \in Bijection(1..m, Further(n, m))
  <2>1. f \in [1..m -> Further(n, m)] /\ \A j \in 1..m : f[j] = <<n + 1, j>>
    BY DEF Further
  <2>. HIDE DEF f
  <2>2. ASSUME NEW i \in 1..m, NEW j \in 1..m, f[i] = f[j] PROVE i = j
    <3>1. <<n + 1, i>> = <<n + 1, j>>
      BY <2>1, <2>2
    <3>. QED
      BY <3>1
  <2>3. \A p \in Further(n, m) : \E j \in 1..m : f[j] = p
    BY <2>1 DEF Further
  <2>4. \A i, j \in 1..m : f[i] = f[j] => i = j
    BY <2>2
  <2>. QED
    BY <2>1, <2>3, <2>4 DEF Bijection, Injection, Surjection, IsInjective
<1>2. IsFiniteSet(1..m) /\ Cardinality(1..m) = m
  BY FS_Interval
<1>. QED
  BY <1>1, <1>2, FS_Bijection DEF ExistsBijection

\* Items keep their places when further ones come after them.
LEMMA PlacesStay ==
    ASSUME NEW S, IsFiniteSet(S), NEW n \in Nat, NEW m \in Nat,
           \A p \in S : p[1] \in 1..n
    PROVE  /\ IsFiniteSet(S \union Further(n, m))
           /\ Cardinality(S \union Further(n, m)) = Cardinality(S) + m
           /\ \A p \in S : Place(S \union Further(n, m), p) = Place(S, p)
           /\ \A j \in 1..m : Place(S \union Further(n, m), <<n + 1, j>>) = Cardinality(S) + j
<1>1. ASSUME NEW k \in Nat
      PROVE  /\ IsFiniteSet(S \union Further(n, k))
             /\ Cardinality(S \union Further(n, k)) = Cardinality(S) + k
  <2>1. \A q \in Further(n, k) : q[1] = n + 1
    BY DEF Further
  <2>2. S \intersect Further(n, k) = {}
    BY <2>1
  <2>3. Cardinality(S) \in Nat /\ Cardinality(S \intersect Further(n, k)) = 0
    BY <2>2, FS_CardinalityType, FS_EmptySet
  <2>4. IsFiniteSet(Further(n, k)) /\ Cardinality(Further(n, k)) = k
    BY FurtherCount
  <2>5. /\ IsFiniteSet(S \union Further(n, k))
        /\ Cardinality(S \union Further(n, k)) =
               Cardinality(S) + Cardinality(Further(n, k)) - Cardinality(S \intersect Further(n, k))
    BY <2>4, FS_Union
  <2>. QED
    BY <2>3, <2>4, <2>5
<1>2. ASSUME NEW p \in S PROVE Place(S \union Further(n, m), p) = Place(S, p)
  <2>1. \A q \in Further(n, m) : ~Earlier(q, p)
    BY <1>2 DEF Further, Earlier
  <2>2. {q \in S \union Further(n, m) : Earlier(q, p)} = {q \in S : Earlier(q, p)}
    BY <2>1
  <2>. QED
    BY <2>2 DEF Place
<1>3. ASSUME NEW j \in 1..m PROVE Place(S \union Further(n, m), <<n + 1, j>>) = Cardinality(S) + j
  <2>. DEFINE p == <<n + 1, j>>
  <2>1. \A q \in S : Earlier(q, p)
    BY DEF Earlier
  <2>2. ASSUME NEW q \in Further(n, m) PROVE Earlier(q, p) <=> q \in Further(n, j - 1)
    <3>1. PICK i \in 1..m : q = <<n + 1, i>>
      BY DEF Further
    <3>2. Earlier(q, p) <=> i < j
      BY <3>1 DEF Earlier
    <3>3. q \in Further(n, j - 1) <=> i \in 1..j - 1
      BY <3>1 DEF Further
    <3>. QED
      BY <3>2, <3>3
  <2>3. Further(n, j - 1) \subseteq Further(n, m)
    BY DEF Further
  <2>4. {q \in S \union Further(n, m) : Earlier(q, p)} = S \union Further(n, j - 1)
    BY <2>1, <2>2, <2>3
  <2>5. Cardinality(S \union Further(n, j - 1)) = Cardinality(S) + (j - 1)
    BY <1>1
  <2>6. Place(S \union Further(n, m), p) = Cardinality(S \union Further(n, j - 1)) + 1
    BY <2>4 DEF Place
  <2>7. Cardinality(S) \in Nat /\ j \in Int
    BY FS_CardinalityType
  <2>. QED
    BY <2>5, <2>6, <2>7
<1>. QED
  BY <1>1, <1>2, <1>3

\* A place is one of as many as there are items.
LEMMA PlaceType ==
    ASSUME NEW S, IsFiniteSet(S), NEW p \in S, p[1] \in Nat, p[2] \in Nat
    PROVE  Place(S, p) \in 1..Cardinality(S)
<1>. DEFINE before == {q \in S : Earlier(q, p)}
<1>1. ~Earlier(p, p)
  BY DEF Earlier
<1>2. before \subseteq S \ {p}
  BY <1>1
<1>. HIDE DEF before
<1>3. Cardinality(before) <= Cardinality(S \ {p}) /\ Cardinality(S \ {p}) = Cardinality(S) - 1
      /\ IsFiniteSet(before)
  BY <1>2, FS_Subset, FS_RemoveElement
<1>4. Cardinality(S) \in Nat /\ Cardinality(before) \in Nat
  BY <1>3, FS_CardinalityType
<1>. QED
  BY <1>3, <1>4 DEF Place, before

-----------------------------------------------------------------------------
(* Types                                                                   *)

Data      == Seq(Nat) \union SUBSET Entries
AllFields == UNION {FieldsOf(k) : k \in Kinds}
Cells     == [kind : Kinds, fields : UNION {[FieldsOf(k) -> Data] : k \in Kinds}]
CallsMade == [on : Nat, field : AllFields, given : Data]

\* A call passes what its method takes, known by the number of the call.
Passes(c, i) ==
    LET k == structs[c.on].kind
    IN  /\ c.on \in builders /\ c.field \in FieldsOf(k)
        /\ Does(k, c.field) = "sets" => c.given = <<i>>
        /\ Does(k, c.field) = "appends" => c.given = <<i, i>>
        /\ Does(k, c.field) = "merges" => \E key \in Keys : c.given = {[key |-> key, value |-> i]}
        /\ Does(k, c.field) = "holds" =>
               c.given = <<>> \/ \E p \in PartsFor(c.on, c.field) : c.given = <<p>>
        /\ Does(k, c.field) = "collects" =>
               \E p \in PartsFor(c.on, c.field), q \in PartsFor(c.on, c.field) \union {NilPart} :
                   c.given = <<p, q>>

Typed ==
    /\ structs \in Seq(Cells) /\ calls \in Seq(CallsMade)
    /\ ConfigurationsTypeOK
    /\ \A i \in 1..Len(calls) : Passes(calls[i], i)

\* The types a struct of the memory has.
LEMMA CellTypes ==
    ASSUME Typed, NEW s \in DOMAIN structs
    PROVE  /\ DOMAIN structs = 1..Len(structs) /\ Len(structs) \in Nat /\ builders \subseteq DOMAIN structs
           /\ structs[s] \in Cells /\ structs[s].kind \in Kinds
           /\ DOMAIN structs[s].fields = FieldsOf(structs[s].kind)
           /\ \A f \in FieldsOf(structs[s].kind) :
                  structs[s].fields[f] \in Contents(structs[s].kind, f)
           /\ \A f \in Links(structs[s].kind) : \A i \in DOMAIN structs[s].fields[f] :
                  structs[structs[s].fields[f][i]].kind = Methods[structs[s].kind][f].kind
BY DEF Typed, ConfigurationsTypeOK

\* Every field does one of five things.
LEMMA FiveWays ==
    ASSUME NEW k \in Kinds, NEW f \in FieldsOf(k)
    PROVE  Does(k, f) \in {"sets", "appends", "merges", "holds", "collects"}
BY TableAssumption DEF FieldsOf

\* What a field contains is data of a struct.
LEMMA ContentsAreData ==
    ASSUME Typed, NEW k \in Kinds, NEW f \in FieldsOf(k)
    PROVE  Contents(k, f) \subseteq Data
<1>1. 0..MaxCalls \subseteq Nat /\ DOMAIN structs \subseteq Nat /\ builders \subseteq Nat
  BY TableAssumption DEF Typed, ConfigurationsTypeOK
<1>2. Seq(0..MaxCalls) \subseteq Seq(Nat) /\ Seq(builders) \subseteq Seq(Nat)
      /\ Seq(DOMAIN structs \ builders) \subseteq Seq(Nat)
  BY <1>1, SeqMonotonic
<1>. QED
  BY <1>2, FiveWays DEF Contents, Data

\* A struct with one field changed.
LEMMA CellChanged ==
    ASSUME NEW c \in Cells, NEW f \in DOMAIN c.fields, NEW x \in Data
    PROVE  LET d == [c EXCEPT !.fields[f] = x]
           IN  /\ d \in Cells /\ d.kind = c.kind /\ DOMAIN d.fields = DOMAIN c.fields
               /\ \A g \in DOMAIN c.fields : d.fields[g] = IF g = f THEN x ELSE c.fields[g]
<1>. DEFINE d == [c EXCEPT !.fields[f] = x]
            fields == [c.fields EXCEPT ![f] = x]
<1>1. PICK k \in Kinds : c.fields \in [FieldsOf(k) -> Data]
  BY DEF Cells
<1>2. fields \in [FieldsOf(k) -> Data]
      /\ \A g \in DOMAIN c.fields : fields[g] = IF g = f THEN x ELSE c.fields[g]
  BY <1>1
<1>3. d = [kind |-> c.kind, fields |-> fields] /\ c.kind \in Kinds
  BY DEF Cells
<1>. HIDE DEF fields, d
<1>4. d \in Cells /\ d.kind = c.kind /\ d.fields = fields
  BY <1>2, <1>3 DEF Cells
<1>. QED
  BY <1>1, <1>2, <1>4 DEF d

\* What a With method makes of memory: one field is changed, and copies added.
Updated(new, b, f, contents, added) ==
    /\ new \in Seq(Cells)
    /\ Len(new) = Len(structs) + Len(added)
    /\ \A s \in DOMAIN structs :
           /\ new[s].kind = structs[s].kind
           /\ DOMAIN new[s].fields = DOMAIN structs[s].fields
           /\ \A g \in DOMAIN structs[s].fields :
                  new[s].fields[g] = IF s = b /\ g = f THEN contents ELSE structs[s].fields[g]
           /\ s # b => new[s] = structs[s]
    /\ \A i \in DOMAIN added : new[Len(structs) + i] = structs[added[i]]

\* What is appended comes after what was there.
Joins(S, s, t, u) ==
    /\ u \in Seq(S) /\ Len(u) = Len(s) + Len(t)
    /\ \A i \in DOMAIN s : u[i] = s[i]
    /\ \A i \in DOMAIN t : u[Len(s) + i] = t[i]

\* Concatenation is that.
LEMMA Joined ==
    ASSUME NEW S, NEW s \in Seq(S), NEW t \in Seq(S)
    PROVE  Joins(S, s, t, s \o t)
BY DEF Joins

\* Memory with one field changed, and what a copy of the added structs is.
Changed(b, f, contents) == [structs EXCEPT ![b].fields[f] = contents]
Copies(added) == [i \in DOMAIN added |-> structs[added[i]]]

\* Nothing changes but the field.
LEMMA FieldUpdated ==
    ASSUME Typed, NEW b \in builders, NEW f \in FieldsOf(structs[b].kind), NEW contents \in Data
    PROVE  LET changed == Changed(b, f, contents)
           IN  /\ changed \in Seq(Cells) /\ Len(changed) = Len(structs)
               /\ \A s \in DOMAIN structs :
                      /\ changed[s].kind = structs[s].kind
                      /\ DOMAIN changed[s].fields = DOMAIN structs[s].fields
                      /\ \A g \in DOMAIN structs[s].fields :
                             changed[s].fields[g] =
                                 IF s = b /\ g = f THEN contents ELSE structs[s].fields[g]
                      /\ s # b => changed[s] = structs[s]
<1>. DEFINE cell    == [structs[b] EXCEPT !.fields[f] = contents]
            changed == [structs EXCEPT ![b] = cell]
<1>1. b \in DOMAIN structs
  BY DEF Typed, ConfigurationsTypeOK
<1>2. structs[b] \in Cells /\ f \in DOMAIN structs[b].fields
  BY <1>1, CellTypes
<1>3. /\ cell \in Cells /\ cell.kind = structs[b].kind
      /\ DOMAIN cell.fields = DOMAIN structs[b].fields
      /\ \A g \in DOMAIN structs[b].fields :
             cell.fields[g] = IF g = f THEN contents ELSE structs[b].fields[g]
  BY <1>2, CellChanged
<1>4. changed = Changed(b, f, contents)
  BY DEF Changed
<1>. HIDE DEF cell
<1>5. /\ changed \in Seq(Cells) /\ Len(changed) = Len(structs)
      /\ \A s \in DOMAIN structs : changed[s] = IF s = b THEN cell ELSE structs[s]
  BY <1>1, <1>3 DEF Typed
<1>. HIDE DEF changed
<1>6. \A s \in DOMAIN structs :
                      /\ changed[s].kind = structs[s].kind
                      /\ DOMAIN changed[s].fields = DOMAIN structs[s].fields
                      /\ \A g \in DOMAIN structs[s].fields :
                             changed[s].fields[g] =
                                 IF s = b /\ g = f THEN contents ELSE structs[s].fields[g]
                      /\ s # b => changed[s] = structs[s]
  BY <1>3, <1>5
<1>. QED
  BY <1>4, <1>5, <1>6

\* That is all a method does which adds no elements.
LEMMA WithUpdates ==
    ASSUME Typed, NEW b \in builders, NEW f \in FieldsOf(structs[b].kind), NEW contents \in Data
    PROVE  Updated(Changed(b, f, contents), b, f, contents, <<>>)
BY FieldUpdated DEF Updated

\* A method that adds elements adds copies of them to memory as well.
LEMMA WithAddsCopies ==
    ASSUME Typed, NEW b \in builders, NEW f \in FieldsOf(structs[b].kind), NEW contents \in Data,
           NEW added \in Seq(builders)
    PROVE  Updated(Changed(b, f, contents) \o Copies(added), b, f, contents, added)
<1>. DEFINE changed == Changed(b, f, contents)
            copies  == Copies(added)
            new     == changed \o copies
<1>1. changed \in Seq(Cells) /\ Len(changed) = Len(structs)
  BY FieldUpdated
<1>2. \A s \in DOMAIN structs :
          /\ changed[s].kind = structs[s].kind
          /\ DOMAIN changed[s].fields = DOMAIN structs[s].fields
          /\ \A g \in DOMAIN structs[s].fields :
                 changed[s].fields[g] =
                     IF s = b /\ g = f THEN contents ELSE structs[s].fields[g]
          /\ s # b => changed[s] = structs[s]
  BY FieldUpdated
<1>3. DOMAIN added = 1..Len(added) /\ Len(added) \in Nat
  OBVIOUS
<1>4. \A i \in DOMAIN added : structs[added[i]] \in Cells
  BY CellTypes DEF Typed, ConfigurationsTypeOK
<1>5. copies \in Seq(Cells) /\ Len(copies) = Len(added)
      /\ \A i \in DOMAIN added : copies[i] = structs[added[i]]
  BY <1>3, <1>4 DEF Copies
<1>6. DOMAIN structs = DOMAIN changed /\ DOMAIN added = DOMAIN copies
  BY <1>1, <1>3, <1>5 DEF Typed
<1>. HIDE DEF changed, copies
<1>7. /\ new \in Seq(Cells) /\ Len(new) = Len(structs) + Len(added)
      /\ \A s \in DOMAIN structs : new[s] = changed[s]
      /\ \A i \in DOMAIN added : new[Len(structs) + i] = copies[i]
  <2>1. Joins(Cells, changed, copies, new)
    BY <1>1, <1>5, Joined
  <2>. HIDE DEF new
  <2>. QED
    BY <1>1, <1>5, <1>6, <2>1 DEF Joins
<1>. HIDE DEF new
<1>8. \A i \in DOMAIN added : new[Len(structs) + i] = structs[added[i]]
  BY <1>5, <1>7
<1>9. Updated(new, b, f, contents, added)
  BY <1>2, <1>7, <1>8 DEF Updated
<1>. QED
  BY <1>9 DEF new, changed, copies

\* The contents of a field, by the memory and the pointers there are.
ContentsIn(k, f, memory, pointers) ==
    CASE Does(k, f) = "sets"     -> Seq(0..MaxCalls)
      [] Does(k, f) = "appends"  -> Seq(0..MaxCalls)
      [] Does(k, f) = "merges"   -> SUBSET Entries
      [] Does(k, f) = "holds"    -> Seq(pointers)
      [] Does(k, f) = "collects" -> Seq(memory \ pointers)

\* What a field refers to stays where it is, and is of the kind it was.
LEMMA ContentsStay ==
    ASSUME Typed, builders' = builders, structs' \in Seq(Cells), Len(structs') >= Len(structs),
           NEW k \in Kinds, NEW f \in FieldsOf(k)
    PROVE  ContentsIn(k, f, DOMAIN structs, builders)
               \subseteq ContentsIn(k, f, DOMAIN structs', builders')
<1>1. DOMAIN structs \ builders \subseteq DOMAIN structs' \ builders'
  BY DEF Typed
<1>2. Seq(DOMAIN structs \ builders) \subseteq Seq(DOMAIN structs' \ builders')
  BY <1>1, SeqMonotonic
<1>. QED
  BY <1>2, FiveWays DEF ContentsIn

\* What links refer to is in memory.
LEMMA LinksLead ==
    ASSUME Typed, NEW s \in DOMAIN structs, NEW f \in Links(structs[s].kind),
           NEW i \in DOMAIN structs[s].fields[f]
    PROVE  structs[s].fields[f][i] \in DOMAIN structs
<1>1. /\ f \in FieldsOf(structs[s].kind) /\ Does(structs[s].kind, f) \in {"holds", "collects"}
      /\ structs[s].fields[f] \in Contents(structs[s].kind, f)
      /\ builders \subseteq DOMAIN structs
  BY CellTypes DEF Links
<1>2. structs[s].fields[f] \in Seq(builders) \union Seq(DOMAIN structs \ builders)
  BY <1>1 DEF Contents
<1>. QED
  BY <1>1, <1>2

\* What a call may leave in its field.
Fits(new, b, f, contents) ==
    LET k == structs[b].kind
    IN  /\ Does(k, f) \in {"sets", "appends"} => contents \in Seq(0..MaxCalls)
        /\ Does(k, f) = "merges" => contents \in SUBSET Entries
        /\ Does(k, f) = "holds" => contents \in Seq(builders)
        /\ Does(k, f) = "collects" => contents \in Seq(DOMAIN new \ builders)
        /\ f \in Links(k) => \A i \in DOMAIN contents : new[contents[i]].kind = Methods[k][f].kind

\* The struct has the fields of its kind, and they the contents they are for.
CellTyped(s) ==
    /\ structs[s].kind \in Kinds /\ DOMAIN structs[s].fields = FieldsOf(structs[s].kind)
    /\ \A f \in FieldsOf(structs[s].kind) : 
           structs[s].fields[f] \in ContentsIn(structs[s].kind, f, DOMAIN structs, builders)
    /\ \A f \in Links(structs[s].kind) : \A i \in DOMAIN structs[s].fields[f] :
           structs[structs[s].fields[f][i]].kind = Methods[structs[s].kind][f].kind

\* A struct that is left alone has its types still, and so has a copy of it.
LEMMA CellStays ==
    ASSUME Typed, builders' = builders, structs' \in Seq(Cells), Len(structs') >= Len(structs),
           \A s \in DOMAIN structs : structs'[s].kind = structs[s].kind,
           NEW s \in DOMAIN structs, NEW t \in DOMAIN structs', structs'[t] = structs[s]
    PROVE  CellTyped(t)'
<1>. DEFINE k == structs[s].kind
<1>1. k \in Kinds /\ structs'[t].kind = k /\ DOMAIN structs'[t].fields = FieldsOf(k)
  BY CellTypes
<1>2. \A f \in FieldsOf(k) : structs'[t].fields[f] \in ContentsIn(k, f, DOMAIN structs', builders')
  <2>1. \A f \in FieldsOf(k) : structs[s].fields[f] \in ContentsIn(k, f, DOMAIN structs, builders)
    BY CellTypes DEF Contents, ContentsIn
  <2>2. \A f \in FieldsOf(k) : ContentsIn(k, f, DOMAIN structs, builders)
                                   \subseteq ContentsIn(k, f, DOMAIN structs', builders')
    BY <1>1, ContentsStay
  <2>. QED
    BY <2>1, <2>2
<1>3. ASSUME NEW f \in Links(k), NEW i \in DOMAIN structs'[t].fields[f]
      PROVE  structs'[structs'[t].fields[f][i]].kind = Methods[k][f].kind
  BY CellTypes, LinksLead
<1>. HIDE DEF k
<1>. QED
  BY <1>1, <1>2, <1>3 DEF CellTyped

\* Nothing that is passed is forgotten: its kind stays, and so does its receiver.
LEMMA PassesStay ==
    ASSUME Typed, builders' = builders,
           \A s \in DOMAIN structs : structs'[s].kind = structs[s].kind,
           NEW c, NEW i, Passes(c, i)
    PROVE  Passes(c, i)'
<1>1. builders \subseteq DOMAIN structs
  BY DEF Typed, ConfigurationsTypeOK
<1>2. c.on \in builders /\ structs'[c.on].kind = structs[c.on].kind
  BY <1>1 DEF Passes
<1>3. PartsFor(c.on, c.field)' = PartsFor(c.on, c.field)
  BY <1>1, <1>2 DEF PartsFor
<1>. QED
  BY <1>2, <1>3 DEF Passes

\* A call of a With method keeps all types.
LEMMA CallIsTyped ==
    ASSUME Typed, NEW b \in builders, NEW f \in FieldsOf(structs[b].kind), NEW contents,
           NEW added \in Seq(builders), NEW given \in Data,
           Updated(structs', b, f, contents, added), Fits(structs', b, f, contents),
           builders' = builders, calls' = Append(calls, Call(b, f, given)), Len(calls) < MaxCalls,
           Passes(Call(b, f, given), Now)
    PROVE  Typed'
<1>1. /\ DOMAIN structs = 1..Len(structs) /\ Len(structs) \in Nat
      /\ DOMAIN added = 1..Len(added) /\ Len(added) \in Nat
      /\ builders \subseteq DOMAIN structs
  BY DEF Typed, ConfigurationsTypeOK
<1>2. /\ structs' \in Seq(Cells) /\ Len(structs') = Len(structs) + Len(added)
      /\ \A s \in DOMAIN structs :
             /\ structs'[s].kind = structs[s].kind
             /\ DOMAIN structs'[s].fields = DOMAIN structs[s].fields
             /\ \A g \in DOMAIN structs[s].fields :
                    structs'[s].fields[g] = IF s = b /\ g = f THEN contents ELSE structs[s].fields[g]
             /\ s # b => structs'[s] = structs[s]
      /\ \A i \in DOMAIN added : structs'[Len(structs) + i] = structs[added[i]]
  BY DEF Updated
<1>3. Len(structs') >= Len(structs) /\ DOMAIN structs' = 1..Len(structs) + Len(added)
  BY <1>1, <1>2
<1>4. \A s \in DOMAIN structs, t \in DOMAIN structs' :
          structs'[t] = structs[s] => CellTyped(t)'
  BY <1>2, <1>3, CellStays
<1>5. CellTyped(b)'
  <2>. DEFINE k == structs[b].kind
  <2>1. /\ b \in DOMAIN structs /\ k \in Kinds /\ structs'[b].kind = k
        /\ DOMAIN structs[b].fields = FieldsOf(k) /\ DOMAIN structs'[b].fields = FieldsOf(k)
        /\ \A g \in FieldsOf(k) :
               structs'[b].fields[g] = IF g = f THEN contents ELSE structs[b].fields[g]
    BY <1>1, <1>2, CellTypes
  <2>2. contents \in ContentsIn(k, f, DOMAIN structs', builders')
    BY <2>1, FiveWays DEF Fits, ContentsIn
  <2>3. f \in Links(k) => \A i \in DOMAIN contents : structs'[contents[i]].kind = Methods[k][f].kind
    BY DEF Fits
  <2>4. Links(k) \subseteq FieldsOf(k)
    BY DEF Links
  <2>5. \A g \in FieldsOf(k) : structs[b].fields[g] \in ContentsIn(k, g, DOMAIN structs', builders')
    <3>1. \A g \in FieldsOf(k) : structs[b].fields[g] \in ContentsIn(k, g, DOMAIN structs, builders)
      BY <2>1, CellTypes DEF Contents, ContentsIn
    <3>2. \A g \in FieldsOf(k) : ContentsIn(k, g, DOMAIN structs, builders)
                                   \subseteq ContentsIn(k, g, DOMAIN structs', builders')
      BY <1>2, <1>3, <2>1, ContentsStay
    <3>. QED
      BY <3>1, <3>2
  <2>6. ASSUME NEW g \in Links(k), NEW i \in DOMAIN structs[b].fields[g]
        PROVE  structs'[structs[b].fields[g][i]].kind = Methods[k][g].kind
    <3>1. structs[b].fields[g][i] \in DOMAIN structs
      BY <2>1, LinksLead
    <3>2. structs[structs[b].fields[g][i]].kind = Methods[k][g].kind
      BY <2>1, CellTypes
    <3>. QED
      BY <1>2, <3>1, <3>2
  <2>7. \A g \in FieldsOf(k) : structs'[b].fields[g] \in ContentsIn(k, g, DOMAIN structs', builders')
    BY <2>1, <2>2, <2>5
  <2>8. ASSUME NEW g \in Links(k), NEW i \in DOMAIN structs'[b].fields[g]
        PROVE  structs'[structs'[b].fields[g][i]].kind = Methods[k][g].kind
    <3>1. structs'[b].fields[g] = IF g = f THEN contents ELSE structs[b].fields[g]
      BY <2>1, <2>4
    <3>. HIDE DEF k
    <3>. QED
      BY <2>3, <2>6, <3>1
  <2>. HIDE DEF k
  <2>. QED
    BY <2>1, <2>7, <2>8 DEF CellTyped
<1>6. ASSUME NEW t \in DOMAIN structs' PROVE CellTyped(t)'
  <2>1. CASE t \in DOMAIN structs
    BY <1>2, <1>4, <1>5, <2>1
  <2>2. CASE t \notin DOMAIN structs
    <3>1. t - Len(structs) \in DOMAIN added /\ t = Len(structs) + (t - Len(structs))
      BY <1>1, <1>3, <2>2
    <3>2. added[t - Len(structs)] \in DOMAIN structs
      BY <1>1, <3>1
    <3>3. structs'[t] = structs[added[t - Len(structs)]]
      BY <1>2, <3>1
    <3>. QED
      BY <1>4, <3>2, <3>3
  <2>. QED
    BY <2>1, <2>2
<1>7. f \in AllFields /\ b \in Nat /\ Call(b, f, given) \in CallsMade
  BY <1>1, CellTypes DEF AllFields, CallsMade, Call
<1>8. /\ calls' \in Seq(CallsMade) /\ Len(calls') = Len(calls) + 1 /\ Len(calls) \in Nat
      /\ calls'[Len(calls) + 1] = Call(b, f, given)
      /\ \A i \in 1..Len(calls) : calls'[i] = calls[i]
  BY <1>7 DEF Typed
<1>9. ASSUME NEW i \in 1..Len(calls') PROVE Passes(calls[i], i)'
  <2>1. PICK c : c = calls'[i]
    OBVIOUS
  <2>2. Passes(c, i)
    BY <1>8, <2>1 DEF Typed, Now
  <2>3. Passes(c, i)'
    BY <1>2, <2>2, PassesStay
  <2>. QED
    BY <2>1, <2>3 DEF Passes
<1>10. ConfigurationsTypeOK'
  <2>1. builders' \subseteq DOMAIN structs' /\ Len(calls') <= MaxCalls
    BY <1>1, <1>3, <1>8, TableAssumption
  <2>. QED
    BY <1>6, <2>1 DEF ConfigurationsTypeOK, CellTyped, Contents, ContentsIn
<1>. QED
  BY <1>2, <1>8, <1>9, <1>10 DEF Typed

\* What the constructors leave in the fields of a new struct.
Fresh(k, fields) ==
    /\ fields \in [FieldsOf(k) -> Data]
    /\ \A f \in FieldsOf(k) :
           \/ Does(k, f) = "merges" /\ fields[f] = {}
           \/ Does(k, f) # "merges" /\ fields[f] = <<>>
           \/ Does(k, f) = "sets" /\ f \in Stamps /\ k \in Roots /\ fields[f] = <<0>>

\* And both constructors leave that.
LEMMA ConstructorsAreFresh ==
    ASSUME NEW k \in Kinds
    PROVE  Fresh(k, Empty(k)) /\ (k \in Roots => Fresh(k, Stamped(k)))
<1>1. {} \in Data /\ <<>> \in Data /\ <<0>> \in Data
  BY DEF Data
<1>2. Fresh(k, Empty(k))
  BY <1>1 DEF Fresh, Empty
<1>3. ASSUME k \in Roots PROVE Fresh(k, Stamped(k))
  <2>1. \A f \in FieldsOf(k) : f \in Stamps => Does(k, f) = "sets"
    BY <1>3, TableAssumption DEF FieldsOf
  <2>2. \A f \in FieldsOf(k) :
            /\ f \in Stamps => Stamped(k)[f] = <<0>>
            /\ f \notin Stamps => Stamped(k)[f] = IF Does(k, f) = "merges" THEN {} ELSE <<>>
    BY DEF Stamped, Empty
  <2>3. Stamped(k) \in [FieldsOf(k) -> Data]
    BY <1>1 DEF Stamped, Empty
  <2>. QED
    BY <1>3, <2>1, <2>2, <2>3 DEF Fresh
<1>. QED
  BY <1>2, <1>3

\* A struct that is made has the types of its kind, and the others keep theirs.
LEMMA NewIsTyped ==
    ASSUME Typed, NEW k \in Kinds, NEW fields, Fresh(k, fields), New(k, fields)
    PROVE  Typed'
<1>. DEFINE made == [kind |-> k, fields |-> fields]
<1>1. /\ DOMAIN structs = 1..Len(structs) /\ Len(structs) \in Nat
      /\ builders \subseteq DOMAIN structs
  BY DEF Typed, ConfigurationsTypeOK
<1>2. made \in Cells /\ made.kind = k /\ made.fields = fields
  BY DEF Cells, Fresh
<1>. HIDE DEF made
<1>3. /\ structs' \in Seq(Cells) /\ Len(structs') = Len(structs) + 1
      /\ structs'[Len(structs) + 1] = made
      /\ \A s \in DOMAIN structs : structs'[s] = structs[s]
  BY <1>1, <1>2 DEF Typed, New, made
<1>4. /\ DOMAIN structs' = 1..Len(structs) + 1
      /\ builders' = builders \union {Len(structs) + 1}
      /\ calls' = calls /\ calls = <<>>
  BY <1>1, <1>3 DEF New
<1>5. \A c \in Kinds : \A f \in FieldsOf(c) :
          ContentsIn(c, f, DOMAIN structs, builders) \subseteq
          ContentsIn(c, f, DOMAIN structs', builders')
  <2>1. DOMAIN structs \ builders \subseteq DOMAIN structs' \ builders'
    BY <1>1, <1>4
  <2>2. /\ Seq(DOMAIN structs \ builders) \subseteq Seq(DOMAIN structs' \ builders')
        /\ Seq(builders) \subseteq Seq(builders')
    BY <1>4, <2>1, SeqMonotonic
  <2>. QED
    BY <2>2, FiveWays DEF ContentsIn
<1>6. ASSUME NEW s \in DOMAIN structs PROVE CellTyped(s)'
  <2>. DEFINE c == structs[s].kind
  <2>1. c \in Kinds /\ structs'[s] = structs[s] /\ DOMAIN structs[s].fields = FieldsOf(c)
    BY <1>3, CellTypes
  <2>2. \A f \in FieldsOf(c) : structs[s].fields[f] \in ContentsIn(c, f, DOMAIN structs, builders)
    BY CellTypes DEF Contents, ContentsIn
  <2>3. ASSUME NEW f \in Links(c), NEW i \in DOMAIN structs[s].fields[f]
        PROVE  structs'[structs[s].fields[f][i]].kind = Methods[c][f].kind
    <3>1. structs[s].fields[f][i] \in DOMAIN structs
      BY <2>1, LinksLead
    <3>2. structs[structs[s].fields[f][i]].kind = Methods[c][f].kind
      BY <2>1, CellTypes
    <3>. QED
      BY <1>3, <3>1, <3>2
  <2>4. \A f \in FieldsOf(c) : structs[s].fields[f] \in ContentsIn(c, f, DOMAIN structs', builders')
    BY <1>5, <2>1, <2>2
  <2>. HIDE DEF c
  <2>. QED
    BY <2>1, <2>3, <2>4 DEF CellTyped, c
<1>7. ASSUME NEW t \in DOMAIN structs', t = Len(structs) + 1 PROVE CellTyped(t)'
  <2>1. ASSUME NEW f \in FieldsOf(k)
        PROVE  fields[f] \in ContentsIn(k, f, DOMAIN structs', builders')
    <3>1. <<>> \in Seq(0..MaxCalls) /\ <<0>> \in Seq(0..MaxCalls)
      BY TableAssumption
    <3>2. <<>> \in Seq(builders') /\ <<>> \in Seq(DOMAIN structs' \ builders')
      OBVIOUS
    <3>. QED
      BY <3>1, <3>2, FiveWays DEF Fresh, ContentsIn
  <2>2. \A f \in Links(k) : fields[f] = <<>>
    BY DEF Links, Fresh
  <2>3. structs'[t].kind = k /\ structs'[t].fields = fields /\ DOMAIN fields = FieldsOf(k)
    BY <1>2, <1>3, <1>7 DEF Fresh
  <2>. QED
    BY <2>1, <2>2, <2>3 DEF CellTyped
<1>8. ConfigurationsTypeOK'
  <2>1. builders' \subseteq DOMAIN structs' /\ Len(calls') <= MaxCalls
    BY <1>1, <1>4 DEF Typed, ConfigurationsTypeOK
  <2>2. ASSUME NEW t \in DOMAIN structs' PROVE CellTyped(t)'
    <3>1. t \in DOMAIN structs \/ t = Len(structs) + 1
      BY <1>1, <1>4
    <3>. QED
      BY <1>6, <1>7, <3>1
  <2>. QED
    BY <2>1, <2>2 DEF ConfigurationsTypeOK, CellTyped, Contents, ContentsIn
<1>. QED
  BY <1>3, <1>4, <1>8 DEF Typed

\* A With method has passed what is given to a field, and left its contents there.
Made(b, f, contents, added, given) ==
    /\ f \in FieldsOf(structs[b].kind) /\ added \in Seq(builders) /\ given \in Data
    /\ Updated(structs', b, f, contents, added) /\ Fits(structs', b, f, contents)
    /\ builders' = builders /\ calls' = Append(calls, Call(b, f, given)) /\ Len(calls) < MaxCalls
    /\ Passes(Call(b, f, given), Now)

\* Then all types are kept.
LEMMA MadeIsTyped ==
    ASSUME Typed, NEW b \in builders, NEW f, NEW contents, NEW added, NEW given,
           Made(b, f, contents, added, given)
    PROVE  Typed'
<1>1. f \in FieldsOf(structs[b].kind) /\ added \in Seq(builders) /\ given \in Data
  BY DEF Made
<1>. QED
  BY <1>1, CallIsTyped DEF Made

\* What a call of its own kind passes.
LEMMA OwnPasses ==
    ASSUME NEW b \in builders, NEW f \in FieldsOf(structs[b].kind), NEW given, NEW way,
           Does(structs[b].kind, f) = way,
           \/ way = "sets" /\ given = <<Now>>
           \/ way = "appends" /\ given = <<Now, Now>>
           \/ way = "merges" /\ \E key \in Keys : given = {[key |-> key, value |-> Now]}
           \/ way = "holds" /\ (given = <<>> \/ \E p \in PartsFor(b, f) : given = <<p>>)
           \/ way = "collects" /\ \E p \in PartsFor(b, f), q \in PartsFor(b, f) \union {NilPart} :
                                      given = <<p, q>>
    PROVE  Passes(Call(b, f, given), Now)
<1>1. Call(b, f, given).on = b /\ Call(b, f, given).field = f /\ Call(b, f, given).given = given
  BY DEF Call
<1>. QED
  BY <1>1 DEF Passes

\* The number of a call is one of those that stand for values.
LEMMA NowType ==
    ASSUME Typed, Len(calls) < MaxCalls
    PROVE  Now \in 1..MaxCalls /\ Now \in Nat /\ 0..MaxCalls \subseteq Nat /\ Now = Len(calls) + 1
           /\ Len(calls) \in Nat
BY TableAssumption DEF Typed, Now

\* What each of the five methods makes.
LEMMA ValueMade ==
    ASSUME Typed, NEW b \in builders, NEW f \in FieldsOf(structs[b].kind), WithValue(b, f)
    PROVE  Does(structs[b].kind, f) = "sets" /\ Made(b, f, <<Now>>, <<>>, <<Now>>)
<1>1. /\ Len(calls) < MaxCalls /\ Does(structs[b].kind, f) = "sets"
      /\ calls' = Append(calls, Call(b, f, <<Now>>)) /\ builders' = builders
      /\ structs' = Changed(b, f, <<Now>>)
  BY DEF WithValue, Calling, Changed
<1>2. Now \in 1..MaxCalls /\ Now \in Nat
  BY <1>1, NowType
<1>. HIDE DEF Now
<1>3. <<Now>> \in Seq(0..MaxCalls) /\ <<Now>> \in Data
  BY <1>2 DEF Data
<1>4. Updated(structs', b, f, <<Now>>, <<>>)
  BY <1>1, <1>3, WithUpdates
<1>5. Fits(structs', b, f, <<Now>>)
  BY <1>1, <1>3 DEF Fits, Links
<1>6. Passes(Call(b, f, <<Now>>), Now)
  BY <1>1, OwnPasses
<1>. QED
  BY <1>1, <1>3, <1>4, <1>5, <1>6 DEF Made

\* It appends what it is given.
LEMMA ValuesMade ==
    ASSUME Typed, NEW b \in builders, NEW f \in FieldsOf(structs[b].kind), WithValues(b, f)
    PROVE  Does(structs[b].kind, f) = "appends"
           /\ Made(b, f, structs[b].fields[f] \o <<Now, Now>>, <<>>, <<Now, Now>>)
<1>. DEFINE contents == structs[b].fields[f] \o <<Now, Now>>
<1>1. /\ Len(calls) < MaxCalls /\ Does(structs[b].kind, f) = "appends"
      /\ calls' = Append(calls, Call(b, f, <<Now, Now>>)) /\ builders' = builders
      /\ structs' = Changed(b, f, contents)
  BY DEF WithValues, Calling, Changed
<1>2. Now \in 1..MaxCalls /\ Now \in Nat /\ 0..MaxCalls \subseteq Nat
  BY <1>1, NowType
<1>3. structs[b].fields[f] \in Seq(0..MaxCalls)
  BY <1>1, CellTypes DEF Contents, Typed, ConfigurationsTypeOK
<1>4. <<Now, Now>> \in Seq(0..MaxCalls) /\ <<Now, Now>> \in Data
  BY <1>2 DEF Data
<1>5. contents \in Seq(0..MaxCalls)
  BY <1>3, <1>4
<1>6. contents \in Data
  BY <1>2, <1>5, SeqMonotonic DEF Data
<1>. HIDE DEF contents
<1>7. Updated(structs', b, f, contents, <<>>)
  BY <1>1, <1>6, WithUpdates
<1>8. Fits(structs', b, f, contents)
  BY <1>1, <1>5 DEF Fits, Links
<1>9. Passes(Call(b, f, <<Now, Now>>), Now)
  BY <1>1, OwnPasses
<1>10. Made(b, f, contents, <<>>, <<Now, Now>>)
  BY <1>1, <1>4, <1>7, <1>8, <1>9 DEF Made
<1>. QED
  BY <1>1, <1>10 DEF contents

\* It replaces the entry of its key.
LEMMA EntriesMade ==
    ASSUME Typed, NEW b \in builders, NEW f \in FieldsOf(structs[b].kind), NEW key \in Keys,
           WithEntries(b, f, key)
    PROVE  LET entries == {[key |-> key, value |-> Now]}
           IN  Does(structs[b].kind, f) = "merges"
               /\ Made(b, f, {e \in structs[b].fields[f] : e.key # key} \union entries, <<>>, entries)
<1>. DEFINE entries  == {[key |-> key, value |-> Now]}
            contents == {e \in structs[b].fields[f] : e.key # key} \union entries
<1>1. /\ Len(calls) < MaxCalls /\ Does(structs[b].kind, f) = "merges"
      /\ calls' = Append(calls, Call(b, f, entries)) /\ builders' = builders
      /\ structs' = Changed(b, f, contents)
  BY DEF WithEntries, Calling, Changed
<1>2. Now \in 1..MaxCalls
  BY <1>1, NowType
<1>3. structs[b].fields[f] \in SUBSET Entries
  BY <1>1, CellTypes DEF Contents, Typed, ConfigurationsTypeOK
<1>4. entries \in SUBSET Entries
  BY <1>2 DEF Entries
<1>5. contents \in SUBSET Entries
  BY <1>3, <1>4
<1>6. Passes(Call(b, f, entries), Now)
  BY <1>1, OwnPasses
<1>. HIDE DEF contents, entries
<1>7. Updated(structs', b, f, contents, <<>>)
  BY <1>1, <1>5, WithUpdates DEF Data
<1>8. Fits(structs', b, f, contents)
  BY <1>1, <1>5 DEF Fits, Links
<1>9. Made(b, f, contents, <<>>, entries)
  BY <1>1, <1>4, <1>6, <1>7, <1>8 DEF Made, Data
<1>. QED
  BY <1>1, <1>9 DEF contents, entries

\* It keeps the pointer it is given.
LEMMA PartMade ==
    ASSUME Typed, NEW b \in builders, NEW f \in FieldsOf(structs[b].kind),
           NEW part \in PartsFor(b, f) \union {NilPart}, WithPart(b, f, part)
    PROVE  LET value == IF part = NilPart THEN <<>> ELSE <<part>>
           IN  Does(structs[b].kind, f) = "holds" /\ Made(b, f, value, <<>>, value)
<1>. DEFINE value == IF part = NilPart THEN <<>> ELSE <<part>>
<1>1. /\ Len(calls) < MaxCalls /\ Does(structs[b].kind, f) = "holds"
      /\ calls' = Append(calls, Call(b, f, value)) /\ builders' = builders
      /\ structs' = Changed(b, f, value)
  BY DEF WithPart, Calling, Changed
<1>2. value = <<>> \/ (part \in PartsFor(b, f) /\ value = <<part>>)
  OBVIOUS
<1>. HIDE DEF value
<1>3. /\ value \in Seq(builders) /\ builders \subseteq DOMAIN structs /\ builders \subseteq Nat
      /\ \A i \in DOMAIN value :
             structs[value[i]].kind = Methods[structs[b].kind][f].kind /\ value[i] \in builders
  <2>1. builders \subseteq DOMAIN structs /\ builders \subseteq Nat
    BY DEF Typed, ConfigurationsTypeOK
  <2>2. CASE value = <<>>
    BY <2>1, <2>2
  <2>3. CASE part \in PartsFor(b, f) /\ value = <<part>>
    BY <2>1, <2>3 DEF PartsFor
  <2>. QED
    BY <1>2, <2>2, <2>3
<1>4. value \in Data
  BY <1>3, SeqMonotonic DEF Data
<1>5. Updated(structs', b, f, value, <<>>)
  BY <1>1, <1>4, WithUpdates
<1>6. Fits(structs', b, f, value)
  <2>1. \A i \in DOMAIN value : structs'[value[i]].kind = Methods[structs[b].kind][f].kind
    BY <1>3, <1>5 DEF Updated
  <2>. QED
    BY <1>1, <1>3, <2>1 DEF Fits
<1>7. Passes(Call(b, f, value), Now)
  BY <1>1, <1>2, OwnPasses
<1>8. Made(b, f, value, <<>>, value)
  BY <1>1, <1>4, <1>5, <1>6, <1>7 DEF Made
<1>. QED
  BY <1>1, <1>8 DEF value

\* The pointers before the first nil are of the kind the list is of.
LEMMA BeforeNilType ==
    ASSUME Typed, NEW b \in builders, NEW f,
           NEW first \in PartsFor(b, f), NEW second \in PartsFor(b, f) \union {NilPart}
    PROVE  LET values == <<first, second>>
               added  == BeforeNil(values)
           IN  /\ Dereferenced(values) = IF second = NilPart THEN 1..1 ELSE 1..2
               /\ added \in Seq(PartsFor(b, f)) /\ DOMAIN added = Dereferenced(values)
               /\ \A i \in DOMAIN added : added[i] = values[i]
               /\ values \in Seq(Nat)
<1>. DEFINE values == <<first, second>>
            added  == BeforeNil(values)
<1>1. PartsFor(b, f) \subseteq Nat \ {NilPart}
  BY DEF Typed, ConfigurationsTypeOK, PartsFor, NilPart
<1>2. /\ values[1] = first /\ values[2] = second /\ DOMAIN values = 1..2
      /\ values \in Seq(Nat)
  BY <1>1 DEF NilPart
<1>. HIDE DEF values
<1>3. CASE second = NilPart
  <2>1. Dereferenced(values) = 1..1
    BY <1>1, <1>2, <1>3 DEF Dereferenced
  <2>2. added = [i \in 1..1 |-> values[i]]
    BY <2>1 DEF BeforeNil
  <2>. HIDE DEF added
  <2>3. added \in Seq(PartsFor(b, f)) /\ DOMAIN added = 1..1
    BY <1>2, <2>2
  <2>. QED
    BY <1>2, <1>3, <2>1, <2>2, <2>3 DEF added, values
<1>4. CASE second # NilPart
  <2>1. Dereferenced(values) = 1..2
    BY <1>1, <1>2, <1>4 DEF Dereferenced
  <2>2. added = [i \in 1..2 |-> values[i]]
    BY <2>1 DEF BeforeNil
  <2>. HIDE DEF added
  <2>3. added \in Seq(PartsFor(b, f)) /\ DOMAIN added = 1..2
    BY <1>2, <1>4, <2>2
  <2>. QED
    BY <1>2, <1>4, <2>1, <2>2, <2>3 DEF added, values
<1>. QED
  BY <1>3, <1>4

\* The structs that the elements added to a list are copied to.
NewSlots(added) == [i \in DOMAIN added |-> Len(structs) + i]

\* It appends copies of what it is given up to the first nil.
LEMMA ElementsMade ==
    ASSUME Typed, NEW b \in builders, NEW f \in FieldsOf(structs[b].kind),
           NEW first \in PartsFor(b, f), NEW second \in PartsFor(b, f) \union {NilPart},
           WithElements(b, f, <<first, second>>)
    PROVE  LET added == BeforeNil(<<first, second>>)
           IN  /\ Does(structs[b].kind, f) = "collects"
               /\ Made(b, f, structs[b].fields[f] \o NewSlots(added), added, <<first, second>>)
<1>. DEFINE values   == <<first, second>>
            added    == BeforeNil(values)
            contents == structs[b].fields[f] \o NewSlots(added)
            kind     == Methods[structs[b].kind][f].kind
<1>1. /\ Len(calls) < MaxCalls /\ Does(structs[b].kind, f) = "collects"
      /\ calls' = Append(calls, Call(b, f, values)) /\ builders' = builders
      /\ structs' = Changed(b, f, contents) \o Copies(added)
  BY DEF WithElements, Calling, Changed, Copies, NewSlots
<1>2. added \in Seq(PartsFor(b, f)) /\ values \in Seq(Nat)
  BY BeforeNilType
<1>3. Passes(Call(b, f, values), Now)
  BY <1>1, OwnPasses
<1>. HIDE DEF values, added
<1>4. /\ builders \subseteq DOMAIN structs /\ builders \subseteq Nat
      /\ DOMAIN structs = 1..Len(structs) /\ Len(structs) \in Nat
      /\ DOMAIN structs \subseteq Nat
  BY DEF Typed, ConfigurationsTypeOK
<1>5. added \in Seq(builders) /\ DOMAIN added = 1..Len(added) /\ Len(added) \in Nat
      /\ \A i \in DOMAIN added : added[i] \in builders /\ structs[added[i]].kind = kind
  <2>1. PartsFor(b, f) \subseteq builders
    BY DEF PartsFor
  <2>. QED
    BY <1>2, <2>1, SeqMonotonic DEF PartsFor
<1>. DEFINE news == 1..(Len(structs) + Len(added)) \ builders
<1>6. structs[b].fields[f] \in Seq(DOMAIN structs \ builders)
  BY <1>1, <1>4, CellTypes DEF Contents
<1>7. structs[b].fields[f] \in Seq(news)
  <2>1. DOMAIN structs \ builders \subseteq news
    BY <1>4, <1>5
  <2>. HIDE DEF news
  <2>. QED
    BY <1>6, <2>1, SeqMonotonic
<1>8. /\ NewSlots(added) \in Seq(news) /\ DOMAIN NewSlots(added) = DOMAIN added
      /\ \A i \in DOMAIN added : NewSlots(added)[i] = Len(structs) + i
  <2>1. \A i \in DOMAIN added : Len(structs) + i \in news
    BY <1>4, <1>5
  <2>. HIDE DEF news
  <2>. QED
    BY <1>5, <2>1 DEF NewSlots
<1>9. Joins(news, structs[b].fields[f], NewSlots(added), contents)
  BY <1>7, <1>8, Joined
<1>. HIDE DEF contents
<1>10. contents \in Seq(news) /\ news \subseteq Nat
  BY <1>9 DEF Joins
<1>11. contents \in Data
  BY <1>10, SeqMonotonic DEF Data
<1>12. Updated(structs', b, f, contents, added)
  BY <1>1, <1>5, <1>11, WithAddsCopies
<1>13. DOMAIN structs' = 1..(Len(structs) + Len(added))
  BY <1>4, <1>5, <1>12 DEF Updated
<1>14. ASSUME NEW i \in DOMAIN contents PROVE structs'[contents[i]].kind = kind
  <2>. DEFINE old == structs[b].fields[f]
  <2>1. old \in Seq(news) /\ NewSlots(added) \in Seq(news) /\ contents \in Seq(news)
        /\ Len(contents) = Len(old) + Len(NewSlots(added))
    BY <1>7, <1>8, <1>9 DEF Joins
  <2>. HIDE DEF old
  <2>2. CASE i \in DOMAIN old
    <3>1. contents[i] = old[i]
      BY <1>9, <2>2 DEF Joins, old
    <3>2. old[i] \in DOMAIN structs /\ structs[old[i]].kind = kind
      <4>1. f \in Links(structs[b].kind)
        BY <1>1 DEF Links
      <4>. QED
        BY <1>4, <2>2, <4>1, CellTypes, LinksLead DEF old
    <3>. QED
      BY <1>12, <3>1, <3>2 DEF Updated
  <2>3. CASE i \notin DOMAIN old
    <3>1. i - Len(old) \in DOMAIN added /\ i = Len(old) + (i - Len(old))
      BY <1>5, <1>8, <2>1, <2>3
    <3>2. contents[i] = NewSlots(added)[i - Len(old)]
      BY <1>8, <1>9, <3>1 DEF Joins, old
    <3>3. contents[i] = Len(structs) + (i - Len(old))
      BY <1>8, <3>1, <3>2
    <3>4. structs'[contents[i]] = structs[added[i - Len(old)]]
      BY <1>12, <3>1, <3>3 DEF Updated
    <3>. QED
      BY <1>5, <3>1, <3>4
  <2>. QED
    BY <2>2, <2>3
<1>15. Fits(structs', b, f, contents)
  BY <1>1, <1>10, <1>13, <1>14 DEF Fits
<1>16. Made(b, f, contents, added, values)
  BY <1>1, <1>2, <1>3, <1>5, <1>12, <1>15 DEF Made, Data
<1>. QED
  BY <1>1, <1>16 DEF contents, added, values

\* Every call of a With method makes something.
LEMMA WithMethodMakes ==
    ASSUME Typed, NEW b \in builders, NEW f \in FieldsOf(structs[b].kind), WithMethod(b, f)
    PROVE  \E contents, added, given : Made(b, f, contents, added, given)
<1>1. CASE WithValue(b, f)
  BY <1>1, ValueMade
<1>2. CASE WithValues(b, f)
  BY <1>2, ValuesMade
<1>3. ASSUME NEW key \in Keys, WithEntries(b, f, key)
      PROVE  \E contents, added, given : Made(b, f, contents, added, given)
  BY <1>3, EntriesMade
<1>4. ASSUME NEW part \in PartsFor(b, f) \union {NilPart}, WithPart(b, f, part)
      PROVE  \E contents, added, given : Made(b, f, contents, added, given)
  BY <1>4, PartMade
<1>5. ASSUME NEW first \in PartsFor(b, f), NEW second \in PartsFor(b, f) \union {NilPart},
             WithElements(b, f, <<first, second>>)
      PROVE  \E contents, added, given : Made(b, f, contents, added, given)
  BY <1>5, ElementsMade
<1>. QED
  BY <1>1, <1>2, <1>3, <1>4, <1>5 DEF WithMethod

\* The types of memory and of calls are an invariant.
LEMMA TypedInvariant == ConfigurationsSpec => []Typed
<1>1. ConfigurationsInit => Typed
  BY TableAssumption DEF ConfigurationsInit, Typed, ConfigurationsTypeOK
<1>2. Typed /\ [ConfigurationsNext]_configurations => Typed'
  <2>. SUFFICES ASSUME Typed, [ConfigurationsNext]_configurations PROVE Typed'
    OBVIOUS
  <2>1. ASSUME NEW k \in Kinds, ForKindOrConstructor(k) PROVE Typed'
    <3>1. Fresh(k, Empty(k)) /\ (k \in Roots => Fresh(k, Stamped(k)))
      BY ConstructorsAreFresh
    <3>2. CASE New(k, Empty(k))
      BY <3>1, <3>2, NewIsTyped
    <3>3. CASE k \in Roots /\ New(k, Stamped(k))
      BY <3>1, <3>3, NewIsTyped
    <3>. QED
      BY <2>1, <3>2, <3>3 DEF ForKindOrConstructor
  <2>2. ASSUME NEW b \in builders, NEW f \in FieldsOf(structs[b].kind), WithMethod(b, f)
        PROVE  Typed'
    BY <2>2, WithMethodMakes, MadeIsTyped
  <2>3. ASSUME UNCHANGED configurations PROVE Typed'
    <3>1. structs' = structs /\ builders' = builders /\ calls' = calls
      BY <2>3 DEF configurations
    <3>2. ConfigurationsTypeOK'
      <4>1. \A s \in DOMAIN structs : CellTyped(s)'
        BY <3>1, CellStays DEF Typed
      <4>2. builders' \subseteq DOMAIN structs' /\ Len(calls') <= MaxCalls
        BY <3>1 DEF Typed, ConfigurationsTypeOK
      <4>3. \A s \in DOMAIN structs' : CellTyped(s)'
        BY <3>1, <4>1
      <4>. QED
        BY <4>2, <4>3 DEF ConfigurationsTypeOK, CellTyped, Contents, ContentsIn
    <3>3. ASSUME NEW i \in 1..Len(calls') PROVE Passes(calls[i], i)'
      <4>1. PICK c : c = calls'[i]
        OBVIOUS
      <4>2. Passes(c, i)
        BY <3>1, <4>1 DEF Typed
      <4>3. Passes(c, i)'
        BY <3>1, <4>2, PassesStay
      <4>. QED
        BY <4>1, <4>3 DEF Passes
    <3>. QED
      BY <3>1, <3>2, <3>3 DEF Typed
  <2>. QED
    BY <2>1, <2>2, <2>3 DEF ConfigurationsNext
<1>. QED
  BY <1>1, <1>2, PTL DEF ConfigurationsSpec

\* A struct always has the fields of its kind, what a field refers to is of the
\* kind the field is for, and the elements of lists are copies to which the
\* program has no pointers: the With methods never mix them up.
THEOREM ConfigurationsTypes == ConfigurationsSpec => []ConfigurationsTypeOK
<1>1. Typed => ConfigurationsTypeOK
  BY DEF Typed
<1>. QED
  BY <1>1, TypedInvariant, PTL

-----------------------------------------------------------------------------
(* What the calls of one method come to                                    *)

\* What is said of the calls of a method depends on no other calls.
LEMMA SameCalls ==
    ASSUME NEW c, NEW g, NEW m, NEW n, CallsOf(c, g, m)' = CallsOf(c, g, n),
           \A i \in CallsOf(c, g, n) : calls'[i] = calls[i]
    PROVE  /\ Newest(c, g, m)' = Newest(c, g, n)
           /\ Items(c, g, m)' = Items(c, g, n)
           /\ \A p \in Items(c, g, n) : Item(p)' = Item(p)
           /\ MapEntries(c, g, m)' = MapEntries(c, g, n)
<1>1. Newest(c, g, m)' = Newest(c, g, n)
  BY DEF Newest
<1>2. Items(c, g, m)' = Items(c, g, n)
  BY DEF Items
<1>3. \A p \in Items(c, g, n) : Item(p)' = Item(p)
  <2>1. \A p \in Items(c, g, n) : p[1] \in CallsOf(c, g, n)
    BY DEF Items
  <2>. QED
    BY <2>1 DEF Item
<1>4. \A i, key : Overridden(c, g, m, i, key)' <=> Overridden(c, g, n, i, key)
  BY DEF Overridden
<1>5. MapEntries(c, g, m)' = MapEntries(c, g, n)
  BY <1>4 DEF MapEntries
<1>. QED
  BY <1>1, <1>2, <1>3, <1>5

\* And so does what they make of a field.
LEMMA SameFollows ==
    ASSUME NEW c, NEW g, NEW m, NEW n, NEW x, CallsOf(c, g, m)' = CallsOf(c, g, n),
           \A i \in CallsOf(c, g, n) : calls'[i] = calls[i],
           structs'[c].kind = structs[c].kind,
           Does(structs[c].kind, g) \in {"sets", "appends", "merges", "holds"}
    PROVE  Follows(x, c, g, m)' <=> Follows(x, c, g, n)
<1>1. /\ Newest(c, g, m)' = Newest(c, g, n)
      /\ Items(c, g, m)' = Items(c, g, n)
      /\ \A p \in Items(c, g, n) : Item(p)' = Item(p)
      /\ MapEntries(c, g, m)' = MapEntries(c, g, n)
  BY SameCalls
<1>2. Newest(c, g, n) \subseteq CallsOf(c, g, n)
  BY DEF Newest
<1>3. Initially(c, g)' = Initially(c, g)
  BY DEF Initially
<1>4. CASE Does(structs[c].kind, g) \in {"sets", "holds"}
  BY <1>1, <1>2, <1>3, <1>4 DEF Follows
<1>5. CASE Does(structs[c].kind, g) = "appends"
  BY <1>1, <1>5 DEF Follows
<1>6. CASE Does(structs[c].kind, g) = "merges"
  BY <1>1, <1>6 DEF Follows
<1>. QED
  BY <1>4, <1>5, <1>6

\* A call comes after those before it, and is one of its own method.
LEMMA CallsGrow ==
    ASSUME Typed, NEW b \in builders, NEW f, NEW contents, NEW added, NEW given,
           Made(b, f, contents, added, given)
    PROVE  /\ Len(calls) \in Nat /\ Len(calls') = Len(calls) + 1
           /\ \A i \in 1..Len(calls) : calls'[i] = calls[i]
           /\ calls'[Len(calls) + 1].given = given
           /\ \A c, g : \A n \in 0..Len(calls) : CallsOf(c, g, n)' = CallsOf(c, g, n)
           /\ \A c, g : \A n \in 0..Len(calls) : CallsOf(c, g, n) \subseteq 1..Len(calls)
           /\ \A c, g, m : m = Len(calls) + 1 =>
                  CallsOf(c, g, m)' = IF c = b /\ g = f
                                      THEN CallsOf(c, g, Len(calls)) \union {m}
                                      ELSE CallsOf(c, g, Len(calls))
<1>1. /\ b \in Nat /\ f \in AllFields /\ given \in Data
  <2>1. b \in DOMAIN structs /\ DOMAIN structs \subseteq Nat
    BY DEF Typed, ConfigurationsTypeOK
  <2>. QED
    BY <2>1, CellTypes DEF Made, AllFields
<1>2. /\ calls' = Append(calls, Call(b, f, given)) /\ calls \in Seq(CallsMade)
      /\ Call(b, f, given) \in CallsMade
  BY <1>1 DEF Made, Typed, Call, CallsMade
<1>3. /\ Len(calls) \in Nat /\ Len(calls') = Len(calls) + 1
      /\ \A i \in 1..Len(calls) : calls'[i] = calls[i]
      /\ calls'[Len(calls) + 1] = Call(b, f, given)
  BY <1>2
<1>4. /\ calls'[Len(calls) + 1].on = b /\ calls'[Len(calls) + 1].field = f
      /\ calls'[Len(calls) + 1].given = given
  BY <1>3 DEF Call
<1>5. ASSUME NEW c, NEW g, NEW n \in 0..Len(calls)
      PROVE  CallsOf(c, g, n)' = CallsOf(c, g, n) /\ CallsOf(c, g, n) \subseteq 1..Len(calls)
  BY <1>3 DEF CallsOf
<1>6. ASSUME NEW c, NEW g, NEW m, m = Len(calls) + 1
      PROVE  CallsOf(c, g, m)' = IF c = b /\ g = f
                                 THEN CallsOf(c, g, Len(calls)) \union {m}
                                 ELSE CallsOf(c, g, Len(calls))
  <2>1. 1..m = (1..Len(calls)) \union {m} /\ m \notin 1..Len(calls)
    BY <1>3, <1>6
  <2>2. \A i \in 1..Len(calls) : calls'[i].on = calls[i].on /\ calls'[i].field = calls[i].field
    BY <1>3
  <2>3. calls'[m].on = b /\ calls'[m].field = f
    BY <1>4, <1>6
  <2>. QED
    BY <2>1, <2>2, <2>3 DEF CallsOf
<1>. QED
  BY <1>3, <1>4, <1>5, <1>6

\* The items of a list are at most two of each call.
LEMMA ItemsFinite ==
    ASSUME Typed, NEW c \in builders, NEW g \in FieldsOf(structs[c].kind),
           NEW n \in 0..Len(calls), Does(structs[c].kind, g) \in {"appends", "collects"}
    PROVE  /\ IsFiniteSet(Items(c, g, n)) /\ Cardinality(Items(c, g, n)) \in Nat
           /\ \A p \in Items(c, g, n) : p[1] \in 1..n /\ p[2] \in 1..2 /\ p = <<p[1], p[2]>>
           /\ \A p \in Items(c, g, n) :
                  p[1] \in CallsOf(c, g, n) /\ p[2] \in Dereferenced(calls[p[1]].given)
<1>1. ASSUME NEW i \in CallsOf(c, g, n) PROVE Dereferenced(calls[i].given) \subseteq 1..2 /\ i \in 1..n
  <2>1. i \in 1..Len(calls) /\ calls[i].on = c /\ calls[i].field = g /\ i \in 1..n
    BY DEF CallsOf, Typed
  <2>2. Passes(calls[i], i)
    BY <2>1 DEF Typed
  <2>3. \E p, q : calls[i].given = <<p, q>>
    BY <2>1, <2>2 DEF Passes
  <2>. QED
    BY <2>1, <2>3 DEF Dereferenced
<1>2. \A p \in Items(c, g, n) :
          /\ p[1] \in CallsOf(c, g, n) /\ p[2] \in Dereferenced(calls[p[1]].given)
          /\ p = <<p[1], p[2]>>
  BY DEF Items
<1>3. Items(c, g, n) \subseteq (1..n) \X (1..2)
  BY <1>1, <1>2
<1>4. IsFiniteSet((1..n) \X (1..2))
  <2>1. n \in Nat
    BY DEF Typed
  <2>2. IsFiniteSet(1..n)
    BY <2>1, FS_Interval
  <2>3. IsFiniteSet(1..2)
    <3>1. ASSUME NEW m \in Nat PROVE IsFiniteSet(1..m)
      BY FS_Interval
    <3>. QED
      BY <3>1
  <2>. QED
    BY <2>2, <2>3, FS_Product
<1>5. IsFiniteSet(Items(c, g, n)) /\ Cardinality(Items(c, g, n)) \in Nat
  BY <1>3, <1>4, FS_Subset, FS_CardinalityType
<1>. QED
  BY <1>1, <1>2, <1>5

\* A call adds as many items as it passes before a nil.
LEMMA ItemsGrow ==
    ASSUME Typed, NEW b \in builders, NEW f, NEW contents, NEW added, NEW given,
           Made(b, f, contents, added, given), NEW k \in Nat, Dereferenced(given) = 1..k,
           NEW m, m = Len(calls) + 1
    PROVE  /\ Items(b, f, m)' = Items(b, f, Len(calls)) \union Further(Len(calls), k)
           /\ \A p \in Items(b, f, Len(calls)) : Item(p)' = Item(p)
           /\ \A j \in 1..k : Item(<<m, j>>)' = given[j]
<1>1. /\ Len(calls) \in Nat
      /\ \A i \in 1..Len(calls) : calls'[i] = calls[i]
      /\ calls'[m].given = given
      /\ CallsOf(b, f, Len(calls)) \subseteq 1..Len(calls)
      /\ CallsOf(b, f, m)' = CallsOf(b, f, Len(calls)) \union {m}
  BY CallsGrow
<1>2. \A i \in CallsOf(b, f, Len(calls)) : calls'[i] = calls[i]
  BY <1>1
<1>3. Further(Len(calls), k) = {<<m, j>> : j \in Dereferenced(calls'[m].given)}
  BY <1>1 DEF Further
<1>4. Items(b, f, m)' = Items(b, f, Len(calls)) \union Further(Len(calls), k)
  BY <1>1, <1>2, <1>3 DEF Items
<1>5. \A p \in Items(b, f, Len(calls)) : p[1] \in CallsOf(b, f, Len(calls))
  BY DEF Items
<1>6. \A p \in Items(b, f, Len(calls)) : Item(p)' = Item(p)
  BY <1>2, <1>5 DEF Item
<1>7. \A j \in 1..k : Item(<<m, j>>)' = given[j]
  BY <1>1 DEF Item
<1>. QED
  BY <1>4, <1>6, <1>7

-----------------------------------------------------------------------------
(* What a call does to the elements of lists                               *)

\* The first items of a sequence are the same however it goes on.
LEMMA FirstItems ==
    ASSUME NEW S, NEW s \in Seq(S), NEW u \in Seq(S), Len(s) <= Len(u),
           \A i \in DOMAIN s : u[i] = s[i], NEW n \in 0..Len(s)
    PROVE  SubSeq(u, 1, n) = SubSeq(s, 1, n) /\ (n = Len(s) => SubSeq(u, 1, n) = s)
<1>1. Len(SubSeq(u, 1, n)) = n /\ Len(SubSeq(s, 1, n)) = n
      /\ SubSeq(u, 1, n) \in Seq(S) /\ SubSeq(s, 1, n) \in Seq(S)
  OBVIOUS
<1>2. \A i \in 1..n : SubSeq(u, 1, n)[i] = u[i] /\ SubSeq(s, 1, n)[i] = s[i]
  OBVIOUS
<1>3. DOMAIN s = 1..Len(s)
  OBVIOUS
<1>4. SubSeq(u, 1, n) = SubSeq(s, 1, n)
  <2>1. \A i \in 1..n : SubSeq(u, 1, n)[i] = SubSeq(s, 1, n)[i]
    BY <1>2, <1>3
  <2>. DEFINE v == SubSeq(u, 1, n)
              w == SubSeq(s, 1, n)
  <2>2. v \in Seq(S) /\ w \in Seq(S) /\ Len(v) = Len(w) /\ \A i \in 1..Len(v) : v[i] = w[i]
    BY <1>1, <2>1
  <2>. HIDE DEF v, w
  <2>3. v = w
    BY <2>2, SeqEqual
  <2>. QED
    BY <2>3 DEF v, w
<1>5. n = Len(s) => SubSeq(s, 1, n) = s
  OBVIOUS
<1>. QED
  BY <1>4, <1>5

\* A list only grows.
ListsGrow ==
    \A c \in builders : \A g \in FieldsOf(structs[c].kind) :
        Does(structs[c].kind, g) = "collects" =>
            /\ structs[c].fields[g] \in Seq(Nat) /\ structs'[c].fields[g] \in Seq(Nat)
            /\ Len(structs[c].fields[g]) <= Len(structs'[c].fields[g])
            /\ \A i \in DOMAIN structs[c].fields[g] :
                   structs'[c].fields[g][i] = structs[c].fields[g][i]

\* Every list has as many elements as calls have added.
Counted ==
    \A c \in builders : \A g \in FieldsOf(structs[c].kind) :
        Does(structs[c].kind, g) = "collects" =>
            Len(structs[c].fields[g]) = Cardinality(Items(c, g, Len(calls)))

\* The property says so.
LEMMA ListsAreCounted == DeclarationsFollowCalls => Counted
BY DEF DeclarationsFollowCalls, Counted

\* A struct that is left alone says what its original said, as before.
LEMMA CopiedStays ==
    ASSUME Typed, Counted, NEW b \in builders, NEW f, NEW contents, NEW added, NEW given,
           Made(b, f, contents, added, given), ListsGrow,
           NEW s \in DOMAIN structs, NEW t, structs'[t] = structs[s],
           NEW o \in builders, NEW n \in 0..Len(calls), Copied(s, o, n)
    PROVE  Copied(t, o, n)'
<1>. DEFINE k == structs[o].kind
<1>1. /\ Len(calls) \in Nat /\ o \in DOMAIN structs /\ k \in Kinds
      /\ structs'[o].kind = k /\ structs[s].kind = k
  BY CellTypes, CallsGrow DEF Copied, Made, Updated, Typed, ConfigurationsTypeOK
<1>2. \A g : /\ CallsOf(o, g, n)' = CallsOf(o, g, n)
             /\ \A i \in CallsOf(o, g, n) : calls'[i] = calls[i]
  BY CallsGrow
<1>3. ASSUME NEW g \in FieldsOf(k), Does(k, g) # "collects"
      PROVE  Follows(structs[t].fields[g], o, g, n)'
  <2>. DEFINE x == structs[s].fields[g]
  <2>1. Follows(x, o, g, n)
    BY <1>3 DEF Copied
  <2>2. PICK y : y = x
    OBVIOUS
  <2>3. Follows(y, o, g, n)'
    BY <1>1, <1>2, <1>3, <2>1, <2>2, FiveWays, SameFollows
  <2>4. y = structs'[t].fields[g]
    BY <2>2
  <2>. QED
    BY <2>3, <2>4 DEF Follows
<1>4. ASSUME NEW g \in FieldsOf(k), Does(k, g) = "collects"
      PROVE  structs'[t].fields[g] =
                 SubSeq(structs'[o].fields[g], 1, Cardinality(Items(o, g, n)'))
  <2>1. Items(o, g, n)' = Items(o, g, n)
    BY <1>2, SameCalls
  <2>2. structs'[t].fields[g] = SubSeq(structs[o].fields[g], 1, Cardinality(Items(o, g, n)))
    BY <1>4 DEF Copied
  <2>3. Cardinality(Items(o, g, n)) \in 0..Len(structs[o].fields[g])
    <3>1. IsFiniteSet(Items(o, g, Len(calls))) /\ Cardinality(Items(o, g, Len(calls))) \in Nat
      <4>1. Len(calls) \in 0..Len(calls)
        BY <1>1
      <4>. QED
        BY <1>4, <4>1, ItemsFinite
    <3>2. Items(o, g, n) \subseteq Items(o, g, Len(calls))
      BY <1>1 DEF Items, CallsOf
    <3>3. Len(structs[o].fields[g]) = Cardinality(Items(o, g, Len(calls)))
      BY <1>4 DEF Counted
    <3>4. Cardinality(Items(o, g, n)) \in Nat
      BY <1>4, ItemsFinite
    <3>. QED
      BY <3>1, <3>2, <3>3, <3>4, FS_Subset
  <2>4. /\ structs[o].fields[g] \in Seq(Nat) /\ structs'[o].fields[g] \in Seq(Nat)
        /\ Len(structs[o].fields[g]) <= Len(structs'[o].fields[g])
        /\ \A i \in DOMAIN structs[o].fields[g] :
               structs'[o].fields[g][i] = structs[o].fields[g][i]
    BY <1>4 DEF ListsGrow
  <2>. QED
    BY <2>1, <2>2, <2>3, <2>4, FirstItems
<1>. QED
  BY <1>1, <1>3, <1>4 DEF Copied

-----------------------------------------------------------------------------
(* What every configuration says                                           *)

\* What n calls on c have made of the contents of its field g.
Says(c, g, n, contents) ==
    IF Does(structs[c].kind, g) = "collects"
    THEN /\ Len(contents) = Cardinality(Items(c, g, n))
         /\ \A p \in Items(c, g, n) : \A e, o :
                e = contents[Place(Items(c, g, n), p)] /\ o = Item(p) => Copied(e, o, p[1] - 1)
    ELSE Follows(contents, c, g, n)

\* Every field contains what the calls so far have made of it.
AllSaid ==
    \A n, contents : \A c \in builders : \A g \in FieldsOf(structs[c].kind) :
        n = Len(calls) /\ contents = structs[c].fields[g] => Says(c, g, n, contents)

\* It is what the property says, with every argument a variable of its own.
LEMMA AllSaidIsMeant == AllSaid <=> DeclarationsFollowCalls
<1>. DEFINE Right(c, g) == Says(c, g, Len(calls), structs[c].fields[g])
<1>1. AllSaid <=> \A c \in builders : \A g \in FieldsOf(structs[c].kind) : Right(c, g)
  BY DEF AllSaid
<1>2. ASSUME NEW c \in builders, NEW g \in FieldsOf(structs[c].kind),
             Does(structs[c].kind, g) = "collects"
      PROVE  Right(c, g) <=>
                 LET items == Items(c, g, Len(calls))
                     slots == structs[c].fields[g]
                 IN  /\ Len(slots) = Cardinality(items)
                     /\ \A p \in items : Copied(slots[Place(items, p)], Item(p), p[1] - 1)
  BY <1>2 DEF Says
<1>3. ASSUME NEW c \in builders, NEW g \in FieldsOf(structs[c].kind),
             Does(structs[c].kind, g) # "collects"
      PROVE  Right(c, g) <=> Follows(structs[c].fields[g], c, g, Len(calls))
  BY <1>3 DEF Says
<1>. HIDE DEF Right
<1>. QED
  BY <1>1, <1>2, <1>3 DEF DeclarationsFollowCalls

\* So every list has as many elements as were added.
LEMMA AllSaidCounts == AllSaid => Counted
BY AllSaidIsMeant, ListsAreCounted

\* The elements of lists are no builders, and their originals are.
LEMMA ElementsAreCopies ==
    ASSUME Typed, Counted, NEW c \in builders, NEW g \in FieldsOf(structs[c].kind),
           Does(structs[c].kind, g) = "collects",
           NEW p \in Items(c, g, Len(calls))
    PROVE  /\ structs[c].fields[g][Place(Items(c, g, Len(calls)), p)] \in DOMAIN structs \ builders
           /\ Item(p) \in builders
           /\ p[1] - 1 \in 0..Len(calls)
<1>. DEFINE items == Items(c, g, Len(calls))
<1>1. Len(calls) \in Nat /\ Len(calls) \in 0..Len(calls)
  BY DEF Typed
<1>2. /\ IsFiniteSet(items) /\ Cardinality(items) \in Nat
      /\ p[1] \in 1..Len(calls) /\ p[2] \in 1..2
      /\ p[1] \in CallsOf(c, g, Len(calls)) /\ p[2] \in Dereferenced(calls[p[1]].given)
  BY <1>1, ItemsFinite
<1>. HIDE DEF items
<1>3. Place(items, p) \in 1..Cardinality(items)
  BY <1>2, PlaceType DEF items
<1>4. Len(structs[c].fields[g]) = Cardinality(items)
  BY DEF Counted, items
<1>5. structs[c].fields[g] \in Seq(DOMAIN structs \ builders)
  BY CellTypes DEF Contents, Typed, ConfigurationsTypeOK
<1>6. structs[c].fields[g][Place(items, p)] \in DOMAIN structs \ builders
  BY <1>3, <1>4, <1>5
<1>7. Item(p) \in builders
  <2>1. /\ Passes(calls[p[1]], p[1]) /\ calls[p[1]].on = c /\ calls[p[1]].field = g
    BY <1>2 DEF Typed, CallsOf
  <2>2. PICK q \in PartsFor(c, g), r \in PartsFor(c, g) \union {NilPart} : calls[p[1]].given = <<q, r>>
    BY <2>1 DEF Passes
  <2>3. calls[p[1]].given[p[2]] # NilPart
    BY <1>2, <2>2 DEF Dereferenced
  <2>. QED
    BY <1>2, <2>2, <2>3 DEF Item, PartsFor
<1>. QED
  BY <1>1, <1>2, <1>6, <1>7 DEF items

\* Elements that a list has say what they said.
LEMMA ElementsStay ==
    ASSUME Typed, AllSaid, NEW b \in builders, NEW f, NEW contents, NEW added, NEW given,
           Made(b, f, contents, added, given), ListsGrow,
           NEW c \in builders, NEW g \in FieldsOf(structs[c].kind),
           Does(structs[c].kind, g) = "collects",
           NEW p \in Items(c, g, Len(calls)), NEW e, NEW o,
           e = structs[c].fields[g][Place(Items(c, g, Len(calls)), p)], o = Item(p)
    PROVE  Copied(e, o, p[1] - 1)'
<1>1. e \in DOMAIN structs \ builders /\ o \in builders /\ p[1] - 1 \in 0..Len(calls)
  BY AllSaidCounts, ElementsAreCopies
<1>2. Copied(e, o, p[1] - 1)
  BY DEF AllSaid, Says
<1>3. structs'[e] = structs[e]
  BY <1>1 DEF Made, Updated
<1>. QED
  BY <1>1, <1>2, <1>3, AllSaidCounts, CopiedStays

\* A field that the call is not for says what it said.
LEMMA OtherFieldsSay ==
    ASSUME Typed, AllSaid, NEW b \in builders, NEW f, NEW contents, NEW added, NEW given,
           Made(b, f, contents, added, given), ListsGrow,
           NEW c \in builders, NEW g \in FieldsOf(structs[c].kind), ~(c = b /\ g = f),
           NEW n, n = Len(calls) + 1, NEW x, x = structs'[c].fields[g]
    PROVE  Says(c, g, n, x)'
<1>1. structs[c].fields[g] = x /\ structs'[c].kind = structs[c].kind
  BY CellTypes DEF Made, Updated, Typed, ConfigurationsTypeOK
<1>2. /\ CallsOf(c, g, n)' = CallsOf(c, g, Len(calls))
      /\ \A i \in CallsOf(c, g, Len(calls)) : calls'[i] = calls[i]
  BY CallsGrow
<1>3. Says(c, g, Len(calls), x)
  BY <1>1 DEF AllSaid
<1>4. CASE Does(structs[c].kind, g) # "collects"
  <2>1. Follows(x, c, g, Len(calls))
    BY <1>3, <1>4 DEF Says
  <2>2. structs[c].kind \in Kinds
    BY CellTypes DEF Typed, ConfigurationsTypeOK
  <2>3. Follows(x, c, g, n)'
    BY <1>1, <1>2, <1>4, <2>1, <2>2, FiveWays, SameFollows
  <2>. QED
    BY <1>1, <1>4, <2>3 DEF Says
<1>5. CASE Does(structs[c].kind, g) = "collects"
  <2>1. /\ Items(c, g, n)' = Items(c, g, Len(calls))
        /\ \A p \in Items(c, g, Len(calls)) : Item(p)' = Item(p)
    BY <1>2, SameCalls
  <2>2. Len(x) = Cardinality(Items(c, g, Len(calls)))
    BY <1>3, <1>5 DEF Says
  <2>3. ASSUME NEW p \in Items(c, g, Len(calls)), NEW e, NEW o,
               e = x[Place(Items(c, g, Len(calls)), p)], o = Item(p)
        PROVE  Copied(e, o, p[1] - 1)'
    BY <1>1, <1>5, <2>3, ElementsStay
  <2>. QED
    BY <1>1, <1>5, <2>1, <2>2, <2>3 DEF Says
<1>. QED
  BY <1>4, <1>5

\* A value that is set, or a pointer, is that of the call.
LEMMA SetSays ==
    ASSUME Typed, NEW b \in builders, NEW f, NEW contents, NEW added, NEW given,
           Made(b, f, contents, added, given), contents = given,
           Does(structs[b].kind, f) \in {"sets", "holds"}, NEW n, n = Len(calls) + 1
    PROVE  Says(b, f, n, contents)'
<1>1. structs'[b].kind = structs[b].kind
  BY DEF Made, Updated, Typed, ConfigurationsTypeOK
<1>2. /\ Len(calls) \in Nat /\ calls'[n].given = given
      /\ CallsOf(b, f, Len(calls)) \subseteq 1..Len(calls)
      /\ CallsOf(b, f, n)' = CallsOf(b, f, Len(calls)) \union {n}
  BY CallsGrow
<1>3. Newest(b, f, n)' = {n}
  <2>. DEFINE C == CallsOf(b, f, Len(calls))
  <2>1. n \in Nat /\ \A j \in C : j \in Nat /\ j < n
    BY <1>2
  <2>. HIDE DEF C
  <2>2. {i \in C \union {n} : \A j \in C \union {n} : j <= i} = {n}
    BY <2>1
  <2>. QED
    BY <1>2, <2>2 DEF Newest, C
<1>. QED
  BY <1>1, <1>2, <1>3 DEF Says, Follows

\* The values of a call come after those of the calls before it.
LEMMA AppendsSay ==
    ASSUME Typed, AllSaid, NEW b \in builders, NEW f, NEW contents, NEW added, NEW given,
           Made(b, f, contents, added, given), Does(structs[b].kind, f) = "appends",
           contents = structs[b].fields[f] \o given, given = <<Now, Now>>,
           NEW n, n = Len(calls) + 1
    PROVE  Says(b, f, n, contents)'
<1>. DEFINE old   == structs[b].fields[f]
            items == Items(b, f, Len(calls))
<1>1. /\ structs'[b].kind = structs[b].kind /\ f \in FieldsOf(structs[b].kind)
      /\ Len(calls) \in Nat /\ Len(calls) \in 0..Len(calls)
  BY DEF Made, Updated, Typed, ConfigurationsTypeOK
<1>2. Dereferenced(given) = 1..2 /\ given \in Seq(Nat) /\ Len(given) = 2
  BY <1>1 DEF Dereferenced, NilPart, Now
<1>3. /\ Items(b, f, n)' = items \union Further(Len(calls), 2)
      /\ \A p \in items : Item(p)' = Item(p)
      /\ \A j \in 1..2 : Item(<<n, j>>)' = given[j]
  <2>1. PICK k \in Nat : k = 2
    OBVIOUS
  <2>2. Dereferenced(given) = 1..k
    BY <1>2, <2>1
  <2>3. /\ Items(b, f, n)' = items \union Further(Len(calls), k)
        /\ \A p \in items : Item(p)' = Item(p)
        /\ \A j \in 1..k : Item(<<n, j>>)' = given[j]
    BY <2>2, ItemsGrow
  <2>. QED
    BY <2>1, <2>3
<1>4. /\ IsFiniteSet(items) /\ Cardinality(items) \in Nat
      /\ \A p \in items : p[1] \in 1..Len(calls) /\ p[2] \in 1..2
  BY <1>1, ItemsFinite
<1>5. Follows(old, b, f, Len(calls))
  BY <1>1 DEF AllSaid, Says
<1>6. Len(old) = Cardinality(items) /\ \A p \in items : old[Place(items, p)] = Item(p)
  BY <1>5 DEF Follows
<1>7. old \in Seq(Nat)
  <2>1. old \in Seq(0..MaxCalls) /\ 0..MaxCalls \subseteq Nat
    <3>1. b \in DOMAIN structs
      BY DEF Typed, ConfigurationsTypeOK
    <3>2. old \in Contents(structs[b].kind, f)
      BY <1>1, <3>1, CellTypes
    <3>3. Contents(structs[b].kind, f) = Seq(0..MaxCalls)
      BY DEF Contents
    <3>. QED
      BY <3>2, <3>3, TableAssumption
  <2>. HIDE DEF old
  <2>. QED
    BY <2>1, SeqMonotonic
<1>8. Joins(Nat, old, given, contents)
  BY <1>2, <1>7, Joined
<1>. HIDE DEF old, items
<1>9. /\ Cardinality(items \union Further(Len(calls), 2)) = Cardinality(items) + 2
      /\ \A p \in items : Place(items \union Further(Len(calls), 2), p) = Place(items, p)
      /\ \A j \in 1..2 : Place(items \union Further(Len(calls), 2), <<n, j>>) = Cardinality(items) + j
  <2>1. PICK k \in Nat : k = 2
    OBVIOUS
  <2>2. /\ Cardinality(items \union Further(Len(calls), k)) = Cardinality(items) + k
        /\ \A p \in items : Place(items \union Further(Len(calls), k), p) = Place(items, p)
        /\ \A j \in 1..k : Place(items \union Further(Len(calls), k), <<Len(calls) + 1, j>>) =
                                 Cardinality(items) + j
    BY <1>1, <1>4, PlacesStay
  <2>. QED
    BY <2>1, <2>2
<1>10. Len(contents) = Cardinality(items) + 2
  BY <1>2, <1>6, <1>8 DEF Joins
<1>11. ASSUME NEW p \in items PROVE contents[Place(items, p)] = Item(p)
  <2>1. p[1] \in Nat /\ p[2] \in Nat
    BY <1>1, <1>4
  <2>2. Place(items, p) \in 1..Cardinality(items)
    BY <1>4, <2>1, PlaceType
  <2>3. DOMAIN old = 1..Len(old)
    BY <1>7
  <2>. QED
    BY <1>6, <1>8, <2>2, <2>3 DEF Joins
<1>12. ASSUME NEW j \in 1..2 PROVE contents[Cardinality(items) + j] = given[j]
  <2>1. DOMAIN given = 1..2
    BY <1>2
  <2>. QED
    BY <1>6, <1>8, <2>1 DEF Joins
<1>13. \A p \in items \union Further(Len(calls), 2) :
          contents[Place(items \union Further(Len(calls), 2), p)] = Item(p)'
  <2>1. ASSUME NEW p \in items
        PROVE  contents[Place(items \union Further(Len(calls), 2), p)] = Item(p)'
    BY <1>3, <1>9, <1>11
  <2>2. ASSUME NEW p \in Further(Len(calls), 2)
        PROVE  contents[Place(items \union Further(Len(calls), 2), p)] = Item(p)'
    <3>1. PICK j \in 1..2 : p = <<n, j>>
      BY DEF Further
    <3>2. Item(p)' = given[j]
      BY <1>3, <3>1
    <3>. QED
      BY <1>9, <1>12, <3>1, <3>2
  <2>. QED
    BY <2>1, <2>2
<1>14. Follows(contents, b, f, n)'
  BY <1>1, <1>3, <1>9, <1>10, <1>13 DEF Follows
<1>. QED
  BY <1>1, <1>14 DEF Says

\* The entry of a call takes the place of any with its key.
LEMMA MergesSay ==
    ASSUME Typed, AllSaid, NEW b \in builders, NEW f, NEW contents, NEW added, NEW given,
           Made(b, f, contents, added, given), Does(structs[b].kind, f) = "merges",
           NEW key \in Keys, given = {[key |-> key, value |-> Now]},
           contents = {e \in structs[b].fields[f] : e.key # key} \union given,
           NEW n, n = Len(calls) + 1
    PROVE  Says(b, f, n, contents)'
<1>1. /\ structs'[b].kind = structs[b].kind /\ f \in FieldsOf(structs[b].kind)
      /\ Len(calls) \in Nat /\ \A e \in given : e.key = key
  BY DEF Made, Updated, Typed, ConfigurationsTypeOK
<1>2. /\ calls'[n].given = given
      /\ \A i \in 1..Len(calls) : calls'[i] = calls[i]
      /\ CallsOf(b, f, Len(calls)) \subseteq 1..Len(calls)
      /\ CallsOf(b, f, n)' = CallsOf(b, f, Len(calls)) \union {n}
  BY CallsGrow
<1>3. structs[b].fields[f] = MapEntries(b, f, Len(calls))
  BY <1>1 DEF AllSaid, Says, Follows
<1>4. ASSUME NEW i \in CallsOf(b, f, Len(calls)), NEW k
      PROVE  Overridden(b, f, n, i, k)' <=> Overridden(b, f, Len(calls), i, k) \/ k = key
  <2>1. \A j \in CallsOf(b, f, Len(calls)) : calls'[j] = calls[j] /\ j # n
    BY <1>1, <1>2
  <2>2. n > i
    BY <1>1, <1>2
  <2>3. (\E e \in given : e.key = k) <=> k = key
    BY <1>1
  <2>. QED
    BY <1>2, <2>1, <2>2, <2>3 DEF Overridden
<1>5. ASSUME NEW k PROVE ~Overridden(b, f, n, n, k)'
  BY <1>1, <1>2 DEF Overridden
<1>6. MapEntries(b, f, n)' =
          (UNION {{e \in calls[i].given : ~Overridden(b, f, Len(calls), i, e.key) /\ e.key # key} :
                     i \in CallsOf(b, f, Len(calls))}) \union given
  <2>1. \A i \in CallsOf(b, f, Len(calls)) : calls'[i].given = calls[i].given
    BY <1>2
  <2>. QED
    BY <1>2, <1>4, <1>5, <2>1 DEF MapEntries
<1>7. contents = MapEntries(b, f, n)'
  BY <1>3, <1>6 DEF MapEntries
<1>8. Follows(contents, b, f, n)'
  BY <1>1, <1>7 DEF Follows
<1>. QED
  BY <1>1, <1>8 DEF Says

\* What is added to a list comes after what it had.
LEMMA MadeGrows ==
    ASSUME Typed, NEW b \in builders, NEW f, NEW contents, NEW added, NEW given,
           Made(b, f, contents, added, given),
           Does(structs[b].kind, f) = "collects" => contents = structs[b].fields[f] \o NewSlots(added)
    PROVE  ListsGrow
<1>1. /\ DOMAIN structs \subseteq Nat /\ Len(structs) \in Nat /\ builders \subseteq DOMAIN structs
  BY DEF Typed, ConfigurationsTypeOK
<1>2. ASSUME NEW c \in builders, NEW g \in FieldsOf(structs[c].kind),
             Does(structs[c].kind, g) = "collects"
      PROVE  structs[c].fields[g] \in Seq(Nat)
  <2>1. structs[c].fields[g] \in Seq(DOMAIN structs \ builders)
    BY <1>1, <1>2, CellTypes DEF Contents
  <2>2. DOMAIN structs \ builders \subseteq Nat
    BY <1>1
  <2>. QED
    BY <2>1, <2>2, SeqMonotonic
<1>3. added \in Seq(builders)
  BY DEF Made
<1>4. NewSlots(added) \in Seq(Nat)
  BY <1>1, <1>3 DEF NewSlots
<1>5. ASSUME NEW c \in builders, NEW g \in FieldsOf(structs[c].kind),
             Does(structs[c].kind, g) = "collects"
      PROVE  /\ structs'[c].fields[g] \in Seq(Nat)
             /\ Len(structs[c].fields[g]) <= Len(structs'[c].fields[g])
             /\ \A i \in DOMAIN structs[c].fields[g] :
                    structs'[c].fields[g][i] = structs[c].fields[g][i]
  <2>. DEFINE old == structs[c].fields[g]
  <2>1. structs'[c].fields[g] = IF c = b /\ g = f THEN contents ELSE old
    BY <1>1, CellTypes DEF Made, Updated
  <2>2. old \in Seq(Nat)
    BY <1>2, <1>5
  <2>3. CASE c = b /\ g = f
    <3>1. contents = old \o NewSlots(added)
      BY <1>5, <2>3
    <3>. HIDE DEF old
    <3>2. Joins(Nat, old, NewSlots(added), contents)
      BY <1>4, <2>2, <3>1, Joined
    <3>3. Len(old) \in Nat /\ Len(NewSlots(added)) \in Nat
      BY <1>4, <2>2
    <3>4. /\ contents \in Seq(Nat) /\ Len(old) <= Len(contents)
          /\ \A i \in DOMAIN old : contents[i] = old[i]
      BY <3>2, <3>3 DEF Joins
    <3>. QED
      BY <2>1, <2>3, <3>4 DEF old
  <2>4. CASE ~(c = b /\ g = f)
    BY <2>1, <2>2, <2>4
  <2>. QED
    BY <2>3, <2>4
<1>. QED
  BY <1>2, <1>5 DEF ListsGrow

\* A configuration says what it says.
LEMMA CopiedItself ==
    ASSUME Typed, AllSaid, NEW o \in builders
    PROVE  Copied(o, o, Len(calls))
<1>1. ASSUME NEW g \in FieldsOf(structs[o].kind), Does(structs[o].kind, g) # "collects"
      PROVE  Follows(structs[o].fields[g], o, g, Len(calls))
  BY <1>1 DEF AllSaid, Says
<1>2. ASSUME NEW g \in FieldsOf(structs[o].kind), Does(structs[o].kind, g) = "collects"
      PROVE  structs[o].fields[g] =
                 SubSeq(structs[o].fields[g], 1, Cardinality(Items(o, g, Len(calls))))
  <2>1. Len(structs[o].fields[g]) = Cardinality(Items(o, g, Len(calls)))
    BY <1>2, AllSaidCounts DEF Counted
  <2>2. structs[o].fields[g] \in Seq(DOMAIN structs \ builders)
    BY <1>2, CellTypes DEF Contents, Typed, ConfigurationsTypeOK
  <2>. DEFINE s == structs[o].fields[g]
  <2>. HIDE DEF s
  <2>3. s \in Seq(DOMAIN structs \ builders) => SubSeq(s, 1, Len(s)) = s
    OBVIOUS
  <2>. QED
    BY <2>1, <2>2, <2>3 DEF s
<1>. QED
  BY <1>1, <1>2 DEF Copied

\* The elements that are added say what their originals say.
LEMMA CollectsSay ==
    ASSUME Typed, AllSaid, NEW b \in builders, NEW f, NEW contents, NEW added, NEW given,
           Made(b, f, contents, added, given), ListsGrow, Does(structs[b].kind, f) = "collects",
           contents = structs[b].fields[f] \o NewSlots(added),
           NEW k \in Nat, Dereferenced(given) = 1..k, DOMAIN added = 1..k,
           \A i \in 1..k : added[i] = given[i],
           NEW n, n = Len(calls) + 1
    PROVE  Says(b, f, n, contents)'
<1>. DEFINE old   == structs[b].fields[f]
            items == Items(b, f, Len(calls))
            more  == items \union Further(Len(calls), k)
<1>1. /\ structs'[b].kind = structs[b].kind /\ f \in FieldsOf(structs[b].kind)
      /\ Len(calls) \in Nat /\ Len(calls) \in 0..Len(calls) /\ Len(structs) \in Nat
  BY DEF Made, Updated, Typed, ConfigurationsTypeOK
<1>2. /\ Items(b, f, n)' = more
      /\ \A p \in items : Item(p)' = Item(p)
      /\ \A j \in 1..k : Item(<<n, j>>)' = given[j]
  BY ItemsGrow
<1>3. /\ IsFiniteSet(items) /\ Cardinality(items) \in Nat
      /\ \A p \in items : p[1] \in 1..Len(calls) /\ p[2] \in 1..2
  BY <1>1, ItemsFinite
<1>4. /\ Cardinality(more) = Cardinality(items) + k
      /\ \A p \in items : Place(more, p) = Place(items, p)
      /\ \A j \in 1..k : Place(more, <<n, j>>) = Cardinality(items) + j
  BY <1>1, <1>3, PlacesStay
<1>5. Len(old) = Cardinality(items) /\ old \in Seq(Nat)
  <2>1. Len(old) = Cardinality(items)
    BY <1>1, AllSaidCounts DEF Counted
  <2>. QED
    BY <1>1, <2>1 DEF ListsGrow
<1>6. /\ added \in Seq(builders) /\ Len(added) = k
      /\ NewSlots(added) \in Seq(Nat) /\ Len(NewSlots(added)) = k
      /\ \A j \in 1..k : NewSlots(added)[j] = Len(structs) + j
  <2>1. added \in Seq(builders) /\ Len(added) = k
    BY DEF Made
  <2>. QED
    BY <1>1, <2>1 DEF NewSlots
<1>7. Joins(Nat, old, NewSlots(added), contents)
  BY <1>5, <1>6, Joined
<1>. HIDE DEF old, items, more
<1>8. Len(contents) = Cardinality(more)
  BY <1>4, <1>5, <1>6, <1>7 DEF Joins
<1>9. ASSUME NEW p \in items, NEW e, NEW o, e = contents[Place(more, p)], o = Item(p)'
      PROVE  Copied(e, o, p[1] - 1)'
  <2>1. p[1] \in Nat /\ p[2] \in Nat
    BY <1>1, <1>3
  <2>2. Place(items, p) \in 1..Cardinality(items)
    BY <1>3, <2>1, PlaceType
  <2>3. DOMAIN old = 1..Len(old)
    BY <1>5
  <2>4. e = old[Place(items, p)]
    BY <1>4, <1>5, <1>7, <1>9, <2>2, <2>3 DEF Joins
  <2>5. o = Item(p)
    BY <1>2, <1>9
  <2>. QED
    BY <1>1, <2>4, <2>5, ElementsStay DEF old, items
<1>10. ASSUME NEW p \in Further(Len(calls), k), NEW e, NEW o, e = contents[Place(more, p)], o = Item(p)'
       PROVE  Copied(e, o, p[1] - 1)'
  <2>1. PICK j \in 1..k : p = <<n, j>>
    BY DEF Further
  <2>2. o = added[j] /\ o \in builders /\ p[1] - 1 = Len(calls)
    <3>1. Item(<<n, j>>)' = Item(p)'
      BY <2>1
    <3>2. o = added[j]
      BY <1>2, <1>10, <3>1
    <3>3. o \in builders
      BY <1>6, <3>2
    <3>4. p[1] = n
      BY <2>1
    <3>. QED
      BY <1>1, <3>2, <3>3, <3>4
  <2>3. e = Len(structs) + j
    <3>1. DOMAIN NewSlots(added) = 1..k
      BY <1>6
    <3>2. Place(more, p) = Len(old) + j
      BY <1>4, <1>5, <2>1
    <3>3. contents[Len(old) + j] = NewSlots(added)[j]
      BY <1>7, <3>1 DEF Joins
    <3>. QED
      BY <1>6, <1>10, <3>2, <3>3
  <2>4. structs'[e] = structs[o] /\ o \in DOMAIN structs
    BY <2>2, <2>3 DEF Made, Updated, Typed, ConfigurationsTypeOK
  <2>5. Copied(o, o, p[1] - 1)
    BY <2>2, CopiedItself
  <2>. QED
    BY <1>1, <2>2, <2>4, <2>5, AllSaidCounts, CopiedStays
<1>11. ASSUME NEW p \in more, NEW e, NEW o, e = contents[Place(more, p)], o = Item(p)'
       PROVE  Copied(e, o, p[1] - 1)'
  BY <1>9, <1>10, <1>11 DEF more
<1>. QED
  BY <1>1, <1>2, <1>8, <1>11 DEF Says

\* When the changed field says what the calls make of it, so does everything.
LEMMA CallSays ==
    ASSUME Typed, AllSaid, NEW b \in builders, NEW f, NEW contents, NEW added, NEW given,
           Made(b, f, contents, added, given), ListsGrow,
           \A n : n = Len(calls) + 1 => Says(b, f, n, contents)'
    PROVE  AllSaid'
<1>1. /\ builders' = builders /\ Len(calls') = Len(calls) + 1
      /\ \A c \in builders : c \in DOMAIN structs /\ structs'[c].kind = structs[c].kind
  BY CallsGrow DEF Made, Updated, Typed, ConfigurationsTypeOK
<1>2. structs'[b].fields[f] = contents
  BY <1>1, CellTypes DEF Made, Updated
<1>3. ASSUME NEW n, NEW x, NEW c \in builders, NEW g \in FieldsOf(structs[c].kind),
             n = Len(calls) + 1, x = structs'[c].fields[g]
      PROVE  Says(c, g, n, x)'
  <2>1. CASE c = b /\ g = f
    <3>1. Says(b, f, n, contents)' /\ x = contents
      BY <1>2, <1>3, <2>1
    <3>. QED
      BY <2>1, <3>1
  <2>2. CASE ~(c = b /\ g = f)
    BY <1>3, <2>2, OtherFieldsSay
  <2>. QED
    BY <2>1, <2>2
<1>. QED
  BY <1>1, <1>3 DEF AllSaid

\* Whatever method is called, what was said is said still, and its own besides.
LEMMA WithMethodSays ==
    ASSUME Typed, AllSaid, NEW b \in builders, NEW f \in FieldsOf(structs[b].kind), WithMethod(b, f)
    PROVE  AllSaid'
<1>. DEFINE k == structs[b].kind
<1>1. CASE WithValue(b, f)
  <2>1. Does(k, f) = "sets" /\ Made(b, f, <<Now>>, <<>>, <<Now>>)
    BY <1>1, ValueMade
  <2>. DEFINE given == <<Now>>
  <2>2. PICK x : x = given
    OBVIOUS
  <2>3. Made(b, f, x, <<>>, x)
    BY <2>1, <2>2
  <2>4. \A n : n = Len(calls) + 1 => Says(b, f, n, x)'
    BY <2>1, <2>3, SetSays
  <2>5. ListsGrow
    BY <2>1, <2>3, MadeGrows
  <2>. QED
    BY <2>3, <2>4, <2>5, CallSays
<1>2. CASE WithValues(b, f)
  <2>1. Does(k, f) = "appends"
        /\ Made(b, f, structs[b].fields[f] \o <<Now, Now>>, <<>>, <<Now, Now>>)
    BY <1>2, ValuesMade
  <2>2. PICK x : x = <<Now, Now>>
    OBVIOUS
  <2>3. PICK y : y = structs[b].fields[f] \o x
    OBVIOUS
  <2>4. Made(b, f, y, <<>>, x)
    BY <2>1, <2>2, <2>3
  <2>5. \A n : n = Len(calls) + 1 => Says(b, f, n, y)'
    BY <2>1, <2>2, <2>3, <2>4, AppendsSay
  <2>6. ListsGrow
    BY <2>1, <2>4, MadeGrows
  <2>. QED
    BY <2>4, <2>5, <2>6, CallSays
<1>3. ASSUME NEW key \in Keys, WithEntries(b, f, key) PROVE AllSaid'
  <2>. DEFINE entries == {[key |-> key, value |-> Now]}
  <2>1. Does(k, f) = "merges"
        /\ Made(b, f, {e \in structs[b].fields[f] : e.key # key} \union entries, <<>>, entries)
    BY <1>3, EntriesMade
  <2>2. PICK x : x = entries
    OBVIOUS
  <2>3. PICK y : y = {e \in structs[b].fields[f] : e.key # key} \union x
    OBVIOUS
  <2>4. Made(b, f, y, <<>>, x)
    BY <2>1, <2>2, <2>3
  <2>5. \A n : n = Len(calls) + 1 => Says(b, f, n, y)'
    BY <2>1, <2>2, <2>3, <2>4, MergesSay
  <2>6. ListsGrow
    BY <2>1, <2>4, MadeGrows
  <2>. QED
    BY <2>4, <2>5, <2>6, CallSays
<1>4. ASSUME NEW part \in PartsFor(b, f) \union {NilPart}, WithPart(b, f, part) PROVE AllSaid'
  <2>. DEFINE value == IF part = NilPart THEN <<>> ELSE <<part>>
  <2>1. Does(k, f) = "holds" /\ Made(b, f, value, <<>>, value)
    BY <1>4, PartMade
  <2>2. PICK x : x = value
    OBVIOUS
  <2>3. Made(b, f, x, <<>>, x)
    BY <2>1, <2>2
  <2>4. \A n : n = Len(calls) + 1 => Says(b, f, n, x)'
    BY <2>1, <2>3, SetSays
  <2>5. ListsGrow
    BY <2>1, <2>3, MadeGrows
  <2>. QED
    BY <2>3, <2>4, <2>5, CallSays
<1>5. ASSUME NEW first \in PartsFor(b, f), NEW second \in PartsFor(b, f) \union {NilPart},
             WithElements(b, f, <<first, second>>)
      PROVE  AllSaid'
  <2>. DEFINE values == <<first, second>>
              added  == BeforeNil(values)
              count  == IF second = NilPart THEN 1 ELSE 2
  <2>1. Does(k, f) = "collects" /\ Made(b, f, structs[b].fields[f] \o NewSlots(added), added, values)
    BY <1>5, ElementsMade
  <2>2. /\ Dereferenced(values) = IF second = NilPart THEN 1..1 ELSE 1..2
        /\ DOMAIN added = Dereferenced(values)
        /\ \A i \in DOMAIN added : added[i] = values[i]
    BY BeforeNilType
  <2>3. PICK m \in Nat : m = count
    OBVIOUS
  <2>4. PICK x : x = values
    OBVIOUS
  <2>5. PICK z : z = added
    OBVIOUS
  <2>6. Dereferenced(x) = 1..m /\ DOMAIN z = 1..m /\ \A i \in 1..m : z[i] = x[i]
    BY <2>2, <2>3, <2>4, <2>5
  <2>7. PICK y : y = structs[b].fields[f] \o NewSlots(z)
    OBVIOUS
  <2>. HIDE DEF values, added, count
  <2>8. Does(k, f) = "collects" /\ Made(b, f, y, z, x)
    BY <2>1, <2>4, <2>5, <2>7
  <2>9. ListsGrow
    BY <2>7, <2>8, MadeGrows
  <2>10. \A n : n = Len(calls) + 1 => Says(b, f, n, y)'
    BY <2>6, <2>7, <2>8, <2>9, CollectsSay
  <2>. QED
    BY <2>8, <2>9, <2>10, CallSays
<1>. QED
  BY <1>1, <1>2, <1>3, <1>4, <1>5 DEF WithMethod

\* A struct that is made says what its constructor says, the others what they said.
LEMMA NewSays ==
    ASSUME Typed, AllSaid, NEW k \in Kinds, NEW fields, Fresh(k, fields), New(k, fields)
    PROVE  AllSaid'
<1>1. /\ DOMAIN structs = 1..Len(structs) /\ Len(structs) \in Nat
      /\ builders \subseteq DOMAIN structs
  BY DEF Typed, ConfigurationsTypeOK
<1>2. /\ calls' = <<>> /\ calls = <<>> /\ builders' = builders \union {Len(structs) + 1}
      /\ structs'[Len(structs) + 1] = [kind |-> k, fields |-> fields]
      /\ \A s \in DOMAIN structs : structs'[s] = structs[s]
  BY <1>1 DEF Typed, New
<1>3. \A c, g : /\ CallsOf(c, g, 0) = {} /\ CallsOf(c, g, 0)' = {}
  BY DEF CallsOf
<1>4. \A c, g : /\ Newest(c, g, 0)' = {} /\ Items(c, g, 0)' = {} /\ MapEntries(c, g, 0)' = {}
                /\ Newest(c, g, 0) = {} /\ Items(c, g, 0) = {} /\ MapEntries(c, g, 0) = {}
  BY <1>3 DEF Newest, Items, MapEntries
<1>5. Cardinality({}) = 0
  BY FS_EmptySet
<1>6. ASSUME NEW c \in builders, NEW g \in FieldsOf(structs[c].kind), NEW x, x = structs'[c].fields[g]
      PROVE  Says(c, g, 0, x)'
  <2>1. structs'[c] = structs[c] /\ c \in DOMAIN structs
    BY <1>1, <1>2
  <2>2. Says(c, g, 0, x)
    BY <1>2, <1>6, <2>1 DEF AllSaid
  <2>3. CASE Does(structs[c].kind, g) = "collects"
    BY <1>4, <2>1, <2>2, <2>3 DEF Says
  <2>4. CASE Does(structs[c].kind, g) # "collects"
    <3>1. Follows(x, c, g, 0)
      BY <2>2, <2>4 DEF Says
    <3>2. Does(structs[c].kind, g) \in {"sets", "appends", "merges", "holds"}
      BY <2>1, <2>4, CellTypes, FiveWays
    <3>3. CallsOf(c, g, 0)' = CallsOf(c, g, 0) /\ \A i \in CallsOf(c, g, 0) : calls'[i] = calls[i]
      BY <1>3
    <3>4. Follows(x, c, g, 0)'
      BY <2>1, <3>1, <3>2, <3>3, SameFollows
    <3>. QED
      BY <2>1, <2>4, <3>4 DEF Says
  <2>. QED
    BY <2>3, <2>4
<1>7. ASSUME NEW c, c = Len(structs) + 1, NEW g \in FieldsOf(k), NEW x, x = fields[g]
      PROVE  Says(c, g, 0, x)'
  <2>1. structs'[c].kind = k
    BY <1>2, <1>7
  <2>2. \/ Does(k, g) = "merges" /\ x = {}
        \/ Does(k, g) # "merges" /\ x = <<>>
        \/ Does(k, g) = "sets" /\ g \in Stamps /\ k \in Roots /\ x = <<0>>
    BY <1>7 DEF Fresh
  <2>3. CASE Does(k, g) = "collects"
    BY <1>4, <1>5, <2>1, <2>2, <2>3 DEF Says
  <2>4. CASE Does(k, g) = "appends"
    BY <1>4, <1>5, <2>1, <2>2, <2>4 DEF Says, Follows
  <2>5. CASE Does(k, g) = "merges"
    BY <1>4, <2>1, <2>2, <2>5 DEF Says, Follows
  <2>6. CASE Does(k, g) \in {"sets", "holds"}
    <3>1. x \in Initially(c, g)'
      BY <2>1, <2>2, <2>6 DEF Initially
    <3>. QED
      BY <1>4, <2>1, <2>6, <3>1 DEF Says, Follows
  <2>. QED
    BY <2>3, <2>4, <2>5, <2>6, FiveWays
<1>8. ASSUME NEW c \in builders', NEW g \in FieldsOf(structs'[c].kind), NEW x,
             x = structs'[c].fields[g]
      PROVE  Says(c, g, 0, x)'
  <2>1. CASE c \in builders
    BY <1>1, <1>2, <1>6, <1>8, <2>1
  <2>2. CASE c = Len(structs) + 1
    BY <1>2, <1>7, <1>8, <2>2
  <2>. QED
    BY <1>2, <2>1, <2>2
<1>. QED
  BY <1>2, <1>8 DEF AllSaid

\* A step that changes nothing changes nothing that is said.
LEMMA StutterSays ==
    ASSUME Typed, AllSaid, UNCHANGED configurations
    PROVE  AllSaid'
<1>1. structs' = structs /\ builders' = builders /\ calls' = calls
  BY DEF configurations
<1>2. \A c, g, n : /\ CallsOf(c, g, n)' = CallsOf(c, g, n)
                   /\ \A i \in CallsOf(c, g, n) : calls'[i] = calls[i]
  BY <1>1 DEF CallsOf
<1>3. \A c, g, n : /\ Items(c, g, n)' = Items(c, g, n)
                   /\ \A p \in Items(c, g, n) : Item(p)' = Item(p)
  BY <1>2, SameCalls
<1>4. ASSUME NEW c \in builders, NEW g \in FieldsOf(structs[c].kind), NEW x, NEW n,
             Does(structs[c].kind, g) # "collects", Follows(x, c, g, n)
      PROVE  Follows(x, c, g, n)'
  <2>1. structs[c].kind \in Kinds /\ structs'[c].kind = structs[c].kind
    BY <1>1, CellTypes DEF Typed, ConfigurationsTypeOK
  <2>. QED
    BY <1>2, <1>4, <2>1, FiveWays, SameFollows
<1>5. ASSUME NEW e, NEW o \in builders, NEW n, Copied(e, o, n) PROVE Copied(e, o, n)'
  <2>1. ASSUME NEW g \in FieldsOf(structs[o].kind), Does(structs[o].kind, g) # "collects"
        PROVE  Follows(structs[e].fields[g], o, g, n)'
    <3>1. PICK x : x = structs[e].fields[g]
      OBVIOUS
    <3>2. Follows(x, o, g, n)'
      BY <1>4, <1>5, <2>1, <3>1 DEF Copied
    <3>3. x = structs'[e].fields[g]
      BY <1>1, <3>1
    <3>. QED
      BY <3>2, <3>3 DEF Follows
  <2>. QED
    BY <1>1, <1>3, <1>5, <2>1 DEF Copied
<1>6. ASSUME NEW c \in builders, NEW g \in FieldsOf(structs[c].kind), NEW n, n = Len(calls),
             NEW x, x = structs[c].fields[g]
      PROVE  Says(c, g, n, x)'
  <2>1. Says(c, g, n, x)
    BY <1>6 DEF AllSaid
  <2>2. CASE Does(structs[c].kind, g) # "collects"
    BY <1>1, <1>4, <2>1, <2>2 DEF Says
  <2>3. CASE Does(structs[c].kind, g) = "collects"
    <3>1. ASSUME NEW p \in Items(c, g, n), NEW e, NEW o, e = x[Place(Items(c, g, n), p)], o = Item(p)
          PROVE  Copied(e, o, p[1] - 1)'
      <4>1. Copied(e, o, p[1] - 1)
        BY <2>1, <2>3, <3>1 DEF Says
      <4>2. o \in builders
        BY <1>6, <2>3, <3>1, AllSaidCounts, ElementsAreCopies
      <4>. QED
        BY <1>5, <4>1, <4>2
    <3>2. Len(x) = Cardinality(Items(c, g, n))
      BY <2>1, <2>3 DEF Says
    <3>. QED
      BY <1>1, <1>3, <2>3, <3>1, <3>2 DEF Says
  <2>. QED
    BY <2>2, <2>3
<1>. QED
  BY <1>1, <1>6 DEF AllSaid

\* What is said is an invariant.
LEMMA SaidInvariant == ConfigurationsSpec => []AllSaid
<1>1. ConfigurationsInit => AllSaid
  BY DEF ConfigurationsInit, AllSaid
<1>2. Typed /\ AllSaid /\ [ConfigurationsNext]_configurations => AllSaid'
  <2>. SUFFICES ASSUME Typed, AllSaid, [ConfigurationsNext]_configurations PROVE AllSaid'
    OBVIOUS
  <2>1. ASSUME NEW k \in Kinds, ForKindOrConstructor(k) PROVE AllSaid'
    <3>1. Fresh(k, Empty(k)) /\ (k \in Roots => Fresh(k, Stamped(k)))
      BY ConstructorsAreFresh
    <3>2. CASE New(k, Empty(k))
      BY <3>1, <3>2, NewSays
    <3>3. CASE k \in Roots /\ New(k, Stamped(k))
      BY <3>1, <3>3, NewSays
    <3>. QED
      BY <2>1, <3>2, <3>3 DEF ForKindOrConstructor
  <2>2. ASSUME NEW b \in builders, NEW f \in FieldsOf(structs[b].kind), WithMethod(b, f)
        PROVE  AllSaid'
    BY <2>2, WithMethodSays
  <2>3. ASSUME UNCHANGED configurations PROVE AllSaid'
    BY <2>3, StutterSays
  <2>. QED
    BY <2>1, <2>2, <2>3 DEF ConfigurationsNext
<1>. QED
  BY <1>1, <1>2, TypedInvariant, PTL DEF ConfigurationsSpec

\* Whatever the order of the calls, every configuration declares what the calls on
\* it passed, and every element of a list what its original declared when it was
\* added: no later call on the original and no panic half way changes that.
THEOREM CallsAreDeclared == ConfigurationsSpec => []DeclarationsFollowCalls
<1>1. AllSaid => DeclarationsFollowCalls
  BY AllSaidIsMeant
<1>. QED
  BY <1>1, SaidInvariant, PTL
=============================================================================

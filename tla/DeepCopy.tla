------------------------------ MODULE DeepCopy ------------------------------
(***************************************************************************)
(* Readers take deep copies of one object that they share, as the types of *)
(* mycelium/api/v1alpha1 offer it (DeepCopy), and edit what they have got, *)
(* while the object is being replaced by newer ones.                       *)
(*                                                                         *)
(* Memory is a set of structs, each with its references to others; all     *)
(* other fields of one are its data, known by who has written it last.  An *)
(* address says who has made the struct, for a version of the object or a  *)
(* reader, and where in the whole it is.  A list has one element.          *)
(***************************************************************************)
EXTENDS Naturals, Sequences

CONSTANTS
    Readers,      \* goroutines, each takes one copy
    Objects,      \* the objects that can be shared: path -> [type, slots]
    Slots,        \* type -> the references in a struct of it
    Handled,      \* type -> those DeepCopyInto handles, in its order
    Conditions,   \* the reference that SetConditions replaces
    MaxVersions,  \* bound: how often the object is shared or replaced
    MaxEdits      \* bound: edits of a reader

Root     == <<>>
Versions == 1..MaxVersions
Makers   == Versions \union Readers
References == UNION {Slots[t] : t \in DOMAIN Slots}

\* The children of a struct are where its references say.
ASSUME ObjectsAssumption ==
    /\ MaxVersions \in Nat \ {0} /\ MaxEdits \in Nat
    /\ Readers \intersect Nat = {}
    /\ \A t \in DOMAIN Slots : Handled[t] \in Seq(Slots[t])
    /\ "Condition" \in DOMAIN Slots
    /\ References \subseteq Seq(STRING)
    /\ \A o \in Objects :
           /\ Root \in DOMAIN o /\ DOMAIN o \subseteq Seq(STRING)
           /\ \A p \in DOMAIN o :
                  /\ o[p].type \in DOMAIN Slots
                  /\ o[p].slots \subseteq Slots[o[p].type]
                  /\ \A s \in o[p].slots : p \o s \in DOMAIN o

\* The references of a type that its DeepCopyInto does not come to: after
\* *out = *in, both structs have the same.
Forgets(t) == {s \in Slots[t] : \A i \in DOMAIN Handled[t] : Handled[t][i] # s}

\* What makes copies of these objects deep: none has a reference of this kind, and
\* SetConditions makes none.
UsesNothingForgotten(objects) ==
    /\ \A t \in DOMAIN Slots : Conditions \notin Forgets(t)
    /\ \A o \in objects : \A p \in DOMAIN o : o[p].slots \intersect Forgets(o[p].type) = {}

VARIABLES
    mem,     \* address -> [type, data, refs]
    shared,  \* the address of the object that is shared now
    source,  \* what each reader has copied, or Nil
    todo,    \* the fields each reader's DeepCopyInto has still to come to
    at,      \* the struct of its copy a reader looks at
    edits    \* how often it has edited

vars == <<mem, shared, source, todo, at, edits>>

At(maker, path) == [by |-> maker, path |-> path]
Nil == At(0, Root)

Struct(type, data, refs) == [type |-> type, data |-> data, refs |-> refs]

\* What the decoder makes of an object.
Decoded(o, v) ==
    [a \in {At(v, p) : p \in DOMAIN o} |->
        Struct(o[a.path].type, v, [s \in o[a.path].slots |-> At(v, a.path \o s)])]

Init ==
    /\ \E o \in Objects : mem = Decoded(o, 1)
    /\ shared = At(1, Root)
    /\ source = [r \in Readers |-> Nil]
    /\ todo = [r \in Readers |-> <<>>]
    /\ at = [r \in Readers |-> Nil]
    /\ edits = [r \in Readers |-> 0]

\* A newer object takes the place of the shared one, whose memory stays as long
\* as somebody uses it.
Publish(o) ==
    /\ shared.by < MaxVersions
    /\ o[Root].type = mem[shared].type
    /\ shared' = At(shared.by + 1, Root)
    /\ mem' = [a \in DOMAIN mem \union DOMAIN Decoded(o, shared.by + 1) |->
                  IF a \in DOMAIN Decoded(o, shared.by + 1) THEN Decoded(o, shared.by + 1)[a] ELSE mem[a]]
    /\ UNCHANGED <<source, todo, at, edits>>

\* The fields the DeepCopyInto of a struct comes to after *out = *in.
Fields(out, type) == [i \in DOMAIN Handled[type] |-> [out |-> out, slot |-> Handled[type][i]]]

\* Memory with a struct written.
With(a, struct) == [b \in DOMAIN mem \union {a} |-> IF b = a THEN struct ELSE mem[b]]

\* DeepCopy: out := new(T), and *out = *in of the object itself.
Take(r) ==
    /\ source[r] = Nil
    /\ source' = [source EXCEPT ![r] = shared]
    /\ mem' = With(At(r, Root), mem[shared])
    /\ todo' = [todo EXCEPT ![r] = Fields(At(r, Root), mem[shared].type)]
    /\ at' = [at EXCEPT ![r] = At(r, Root)]
    /\ UNCHANGED <<shared, edits>>

\* Mutant: **out = **in, which generated code has for types without references.
CopyFieldShallow(r, out, slot) ==
    LET from   == mem[mem[out].refs[slot]]
        to     == At(r, out.path \o slot)
        linked == [mem[out] EXCEPT !.refs[slot] = to]
    IN  /\ slot \in DOMAIN mem[out].refs
        /\ mem' = [b \in DOMAIN mem \union {to} |->
                      IF b = to THEN from ELSE IF b = out THEN linked ELSE mem[b]]
        /\ todo' = [todo EXCEPT ![r] = Tail(@)]

\* if in.F != nil: new memory for out.F, *out = *in, and first the fields of it.
\* out.F is what *out = *in has made of it, in.F.
CopyField(r, out, slot) ==
    LET from   == mem[mem[out].refs[slot]]
        to     == At(r, out.path \o slot)
        linked == [mem[out] EXCEPT !.refs[slot] = to]
    IN  /\ slot \in DOMAIN mem[out].refs
        /\ mem' = [b \in DOMAIN mem \union {to} |->
                      IF b = to THEN from ELSE IF b = out THEN linked ELSE mem[b]]
        /\ todo' = [todo EXCEPT ![r] = Fields(to, from.type) \o Tail(@)]

\* Mutant: if in.F == nil, return.
SkipNilReturns(r, out, slot) ==
    /\ slot \notin DOMAIN mem[out].refs
    /\ todo' = [todo EXCEPT ![r] = SelectSeq(@, LAMBDA field : field.out # out)]
    /\ UNCHANGED mem

SkipNil(r, out, slot) ==
    /\ slot \notin DOMAIN mem[out].refs
    /\ todo' = [todo EXCEPT ![r] = Tail(@)]
    /\ UNCHANGED mem

DeepCopyInto(r) ==
    /\ todo[r] # <<>>
    /\ LET next == Head(todo[r])
       IN  CopyField(r, next.out, next.slot) \/ SkipNil(r, next.out, next.slot)
    /\ UNCHANGED <<shared, source, at, edits>>

\* The reader has its copy and edits it, at the root or where it has gone to.
Editing(r) ==
    /\ source[r] # Nil
    /\ todo[r] = <<>>
    /\ edits[r] < MaxEdits

Follow(r, slot) ==
    /\ Editing(r)
    /\ slot \in DOMAIN mem[at[r]].refs
    /\ at' = [at EXCEPT ![r] = mem[at[r]].refs[slot]]
    /\ UNCHANGED <<mem, shared, source, todo, edits>>

Edited(r) ==
    /\ Editing(r)
    /\ edits' = [edits EXCEPT ![r] = @ + 1]
    /\ UNCHANGED <<shared, source, todo, at>>

\* Fields of other types are assigned, elements of a list or a map are replaced:
\* conditions.Set(&object, c) does it to a condition the list has already.
Write(r) ==
    /\ Edited(r)
    /\ mem' = With(at[r], [mem[at[r]] EXCEPT !.data = r])

SetNil(r, slot) ==
    /\ Edited(r)
    /\ slot \in DOMAIN mem[at[r]].refs
    /\ mem' = With(at[r], [mem[at[r]] EXCEPT !.refs =
                              [s \in DOMAIN mem[at[r]].refs \ {slot} |-> mem[at[r]].refs[s]]])

\* The list is replaced by one the reader has made, at a place of its own.
SetConditions(r) ==
    LET root == At(r, Root)
        list == At(r, Conditions \o Conditions)
    IN  /\ Edited(r)
        /\ Conditions \in Slots[mem[root].type]
        /\ mem' = [b \in DOMAIN mem \union {list} |->
                      IF b = list THEN Struct("Condition", r, [s \in {} |-> Nil])
                      ELSE IF b = root
                      THEN [mem[root] EXCEPT !.refs =
                               [s \in DOMAIN @ \union {Conditions} |->
                                    IF s = Conditions THEN list ELSE mem[root].refs[s]]]
                      ELSE mem[b]]

Next ==
    \/ \E o \in Objects : Publish(o)
    \/ \E r \in Readers :
           \/ Take(r)
           \/ DeepCopyInto(r)
           \/ \E slot \in References : Follow(r, slot) \/ SetNil(r, slot)
           \/ Write(r)
           \/ SetConditions(r)

Spec == Init /\ [][Next]_vars

-----------------------------------------------------------------------------
(* Properties                                                              *)

Addresses == [by : Makers, path : Seq(STRING)]

\* Every reference is one the type of the struct has and refers to memory.
IsStruct(c, memory) ==
    /\ c = Struct(c.type, c.data, c.refs)
    /\ c.type \in DOMAIN Slots
    /\ c.data \in Makers
    /\ DOMAIN c.refs \subseteq Slots[c.type]
    /\ \A s \in DOMAIN c.refs : c.refs[s] \in memory

TypeOK ==
    /\ DOMAIN mem \subseteq Addresses
    /\ \A a \in DOMAIN mem : IsStruct(mem[a], DOMAIN mem)
    /\ shared \in DOMAIN mem /\ shared.by \in Versions
    /\ source \in [Readers -> DOMAIN mem \union {Nil}]
    /\ todo \in [Readers -> Seq([out : Addresses, slot : References])]
    /\ at \in [Readers -> DOMAIN mem \union {Nil}]
    /\ edits \in [Readers -> Nat]

\* The structs of a memory, each with what is below what it refers to.
Unfold(memory, below) ==
    [b \in DOMAIN memory |->
        Struct(memory[b].type, memory[b].data,
               [s \in DOMAIN memory[b].refs |-> below[memory[b].refs[s]]])]

\* A struct with all that it refers to: no object is deeper than MaxDepth.
MaxDepth == 6
TreeIn(memory, a) ==
    LET Deeper(below) == Unfold(memory, below)
        cut           == [b \in DOMAIN memory |-> Nil]
    IN  Deeper(Deeper(Deeper(Deeper(Deeper(Deeper(Deeper(cut)))))))[a]
Tree(a) == TreeIn(mem, a)

\* A copy that is finished refers to no memory but its own.
CopiesAreApart ==
    \A a \in DOMAIN mem :
        a.by \in Readers /\ todo[a.by] = <<>> =>
            \A s \in DOMAIN mem[a].refs : mem[a].refs[s].by = a.by

\* Nothing writes to the memory of an object that has been shared, be it the
\* one shared now or an older one that somebody still copies from.
SharedUnchanged ==
    [][\A a \in DOMAIN mem : a.by \in Versions => a \in DOMAIN mem' /\ mem'[a] = mem[a]]_vars

\* While DeepCopy runs the reader has taken what it copies from; when it
\* returns, what it has made.
NotTaken == Struct("nothing", 0, [s \in {} |-> Nil])
Taken(r) ==
    CASE source[r] = Nil -> NotTaken
      [] source[r] # Nil /\ todo[r] # <<>> -> Tree(source[r])
      [] OTHER -> Tree(At(r, Root))

Abstract == INSTANCE Snapshots WITH
    None <- NotTaken, object <- Tree(shared), taken <- [r \in Readers |-> Taken(r)]

\* Deep copies are snapshots: what one reader has taken is the object as it was,
\* however long the copying took, and its edits are seen by nobody else.
ImplementsSnapshots == Abstract!Spec
=============================================================================

------------------------ MODULE ApplyConfigurations ------------------------
(***************************************************************************)
(* A program builds declarative configurations with the generated With     *)
(* methods of mycelium/internal/applyconfiguration, holds on to the        *)
(* pointers, and goes on calling methods of any of them in any order.      *)
(*                                                                         *)
(* Memory is a sequence of structs.  The program has pointers to those it  *)
(* has made; the elements of a list are structs of their own, copied when  *)
(* they were added, to which it has none.  A copied struct shares what the *)
(* original points to, the elements of its lists included.                 *)
(*                                                                         *)
(* A value is represented by the number of the call that passed it.  The   *)
(* Get methods are left out: at most they make an empty ObjectMeta exist.  *)
(***************************************************************************)
EXTENDS Naturals, Sequences, FiniteSets, Functions

CONSTANTS
    Methods,    \* kind -> field -> what its With method does
    Roots,      \* kinds of whole objects, whose constructor stamps them
    Keys,       \* keys of the maps
    Builders,   \* bound: configurations the program makes
    MaxCalls    \* bound: calls of With methods

NilPart == 0
Kinds   == DOMAIN Methods
Does(k, f)   == Methods[k][f].does
Stamps       == {"Name", "Namespace", "Kind", "APIVersion"}
PartKinds(k) == {Methods[k][f].kind : f \in DOMAIN Methods[k]} \ {"value"}

\* A map in an element would be shared with the original if it had entries
\* when it was copied and not otherwise; no kind that is collected has one.
ASSUME TableAssumption ==
    /\ \A k \in Kinds : \A f \in DOMAIN Methods[k] :
           /\ Does(k, f) \in {"sets", "appends", "merges", "holds", "collects"}
           /\ Does(k, f) \in {"holds", "collects"} <=> Methods[k][f].kind # "value"
           /\ Does(k, f) = "collects" =>
                  \A g \in DOMAIN Methods[Methods[k][f].kind] :
                      Does(Methods[k][f].kind, g) # "merges"
    /\ "value" \notin Kinds
    /\ \A k \in Kinds : PartKinds(k) \subseteq Kinds
    /\ Roots \subseteq Kinds
    /\ \A k \in Roots : \A f \in Stamps \intersect DOMAIN Methods[k] : Does(k, f) = "sets"
    /\ Builders \in Nat
    /\ MaxCalls \in Nat

VARIABLES
    structs,   \* memory, a sequence of [kind, fields]
    builders,  \* the structs the program has pointers to
    calls      \* every call so far: [on, field, given]

configurations == <<structs, builders, calls>>

FieldsOf(k)  == DOMAIN Methods[k]
Links(k)   == {f \in FieldsOf(k) : Does(k, f) \in {"holds", "collects"}}
Now        == Len(calls) + 1
Entries    == [key : Keys, value : 1..MaxCalls]
Call(b, f, given) == [on |-> b, field |-> f, given |-> given]

\* What a field can contain: nil or one pointer, a list, or the entries of a map.
Contents(k, f) ==
    CASE Does(k, f) = "sets"     -> Seq(0..MaxCalls)
      [] Does(k, f) = "appends"  -> Seq(0..MaxCalls)
      [] Does(k, f) = "merges"   -> SUBSET Entries
      [] Does(k, f) = "holds"    -> Seq(builders)
      [] Does(k, f) = "collects" -> Seq(DOMAIN structs \ builders)

\* Memory is typed: a struct has the fields of its kind, and what a field
\* refers to is of the kind the field is for.
ConfigurationsTypeOK ==
    /\ builders \subseteq DOMAIN structs
    /\ \A s \in DOMAIN structs :
           /\ structs[s].kind \in Kinds
           /\ DOMAIN structs[s].fields = FieldsOf(structs[s].kind)
           /\ \A f \in FieldsOf(structs[s].kind) :
                  structs[s].fields[f] \in Contents(structs[s].kind, f)
           /\ \A f \in Links(structs[s].kind) : \A i \in DOMAIN structs[s].fields[f] :
                  structs[structs[s].fields[f][i]].kind = Methods[structs[s].kind][f].kind
    /\ Len(calls) <= MaxCalls

\* The empty struct of ForKind and of most constructors, and the stamped one.
Empty(k)   == [f \in FieldsOf(k) |-> IF Does(k, f) = "merges" THEN {} ELSE <<>>]
Stamped(k) == [f \in FieldsOf(k) |-> IF f \in Stamps THEN <<0>> ELSE Empty(k)[f]]

ConfigurationsInit ==
    /\ structs = <<>>
    /\ builders = {}
    /\ calls = <<>>

\* Configurations that cannot be part of one another do not interact, and
\* making one depends on nothing: the program makes what it needs first.
New(k, fields) ==
    /\ calls = <<>>
    /\ Len(structs) < Builders
    /\ structs # <<>> =>
           \/ \E b \in builders : k \in PartKinds(structs[b].kind)
           \/ \E b, c \in builders : k = structs[b].kind /\ structs[c].kind \in PartKinds(k)
    /\ structs' = Append(structs, [kind |-> k, fields |-> fields])
    /\ builders' = builders \union {Len(structs) + 1}
    /\ UNCHANGED calls

ForKindOrConstructor(k) ==
    \/ New(k, Empty(k))
    \/ k \in Roots /\ New(k, Stamped(k))

Calling(b, f, does, given) ==
    /\ Len(calls) < MaxCalls
    /\ Does(structs[b].kind, f) = does
    /\ calls' = Append(calls, Call(b, f, given))
    /\ UNCHANGED builders

\* What can be passed for a part.  The program passes nil only where it could
\* pass another configuration.
PartsFor(b, f) == {c \in builders : structs[c].kind = Methods[structs[b].kind][f].kind}

\* b.F = &value
WithValue(b, f) ==
    /\ Calling(b, f, "sets", <<Now>>)
    /\ structs' = [structs EXCEPT ![b].fields[f] = <<Now>>]

\* The mutant forgets the values of earlier calls.
WithValuesReplacing(b, f) ==
    LET values == <<Now, Now>>
    IN  /\ Calling(b, f, "appends", values)
        /\ structs' = [structs EXCEPT ![b].fields[f] = values]

\* b.F = append(b.F, values[i]) for every i
WithValues(b, f) ==
    LET values == <<Now, Now>>
    IN  /\ Calling(b, f, "appends", values)
        /\ structs' = [structs EXCEPT ![b].fields[f] = @ \o values]

\* b.F[k] = v for every entry: a call with several is as several with one.
WithEntries(b, f, key) ==
    LET entries == {[key |-> key, value |-> Now]}
    IN  /\ Calling(b, f, "merges", entries)
        /\ structs' = [structs EXCEPT ![b].fields[f] = {e \in @ : e.key # key} \union entries]

\* The mutant keeps a copy of the part.
WithPartCopied(b, f, part) ==
    LET value == IF part = NilPart THEN <<>> ELSE <<part>>
        slot  == IF part = NilPart THEN <<>> ELSE <<Len(structs) + 1>>
    IN  /\ Calling(b, f, "holds", value)
        /\ PartsFor(b, f) # {}
        /\ structs' = [structs EXCEPT ![b].fields[f] = slot] \o [i \in DOMAIN slot |-> structs[part]]

\* b.F = value, a pointer that may be nil
WithPart(b, f, part) ==
    LET value == IF part = NilPart THEN <<>> ELSE <<part>>
    IN  /\ Calling(b, f, "holds", value)
        /\ PartsFor(b, f) # {}
        /\ structs' = [structs EXCEPT ![b].fields[f] = value]

\* The pointers before the first nil, which is where the method panics.
Dereferenced(values) == {i \in DOMAIN values : \A j \in 1..i : values[j] # NilPart}
BeforeNil(values)    == [i \in Dereferenced(values) |-> values[i]]

\* The mutant appends the pointers.
WithElementsKept(b, f, values) ==
    /\ Calling(b, f, "collects", values)
    /\ structs' = [structs EXCEPT ![b].fields[f] = @ \o BeforeNil(values)]

\* b.F = append(b.F, *values[i]) for every i up to the first nil
WithElements(b, f, values) ==
    LET added == BeforeNil(values)
        slots == [i \in DOMAIN added |-> Len(structs) + i]
    IN  /\ Calling(b, f, "collects", values)
        /\ structs' = [structs EXCEPT ![b].fields[f] = @ \o slots]
                      \o [i \in DOMAIN added |-> structs[added[i]]]

WithMethod(b, f) ==
    \/ WithValue(b, f)
    \/ WithValues(b, f)
    \/ \E key \in Keys : WithEntries(b, f, key)
    \/ \E part \in PartsFor(b, f) \union {NilPart} : WithPart(b, f, part)
    \/ \E first \in PartsFor(b, f), second \in PartsFor(b, f) \union {NilPart} :
           WithElements(b, f, <<first, second>>)

ConfigurationsNext ==
    \/ \E k \in Kinds : ForKindOrConstructor(k)
    \/ \E b \in builders : \E f \in FieldsOf(structs[b].kind) : WithMethod(b, f)

ConfigurationsSpec == ConfigurationsInit /\ [][ConfigurationsNext]_configurations

-----------------------------------------------------------------------------
(* What the declarations mean                                              *)

\* No chain of kinds is longer than the kinds the program has made.
Steps == 0..Builders

\* The declaration that is sent when the struct is applied.
Declared(s) ==
    LET tree[n \in Steps] ==
            [t \in DOMAIN structs |->
                [f \in FieldsOf(structs[t].kind) |->
                    IF f \in Links(structs[t].kind) /\ n > 0
                    THEN [i \in DOMAIN structs[t].fields[f] |-> tree[n - 1][structs[t].fields[f][i]]]
                    ELSE structs[t].fields[f]]]
    IN  tree[Builders][s]

\* The calls of one method among the first n, and the newest of them.
CallsOf(b, f, n) == {i \in 1..n : calls[i].on = b /\ calls[i].field = f}
Newest(b, f, n)  == {i \in CallsOf(b, f, n) : \A j \in CallsOf(b, f, n) : j <= i}

\* What these calls pass for a list, as the calls and the positions in each; a
\* nil among the pointers keeps those before it.  Every item has its place.
Items(b, f, n) ==
    UNION {{<<i, j>> : j \in Dereferenced(calls[i].given)} : i \in CallsOf(b, f, n)}
Item(p)        == calls[p[1]].given[p[2]]
Earlier(p, q)  == p[1] < q[1] \/ (p[1] = q[1] /\ p[2] < q[2])
Place(items, p) == Cardinality({q \in items : Earlier(q, p)}) + 1

\* What the constructor has left in a field, known from the values numbered 0.
Initially(b, f) ==
    IF f \in Stamps /\ structs[b].kind \in Roots THEN {<<>>, <<0>>} ELSE {<<>>}

\* The entries of a map: for every key that of the last call that passed it.
Overridden(b, f, n, i, key) ==
    \E j \in CallsOf(b, f, n) : j > i /\ \E e \in calls[j].given : e.key = key
MapEntries(b, f, n) ==
    UNION {{e \in calls[i].given : ~Overridden(b, f, n, i, e.key)} : i \in CallsOf(b, f, n)}

\* What the first n calls make of a field that has no elements, as the
\* comments of the With methods tell: the value of the last call, the values
\* of all in their order, or the entries of a map.
Follows(contents, b, f, n) ==
    CASE Does(structs[b].kind, f) \in {"sets", "holds"} ->
             /\ Newest(b, f, n) = {} => contents \in Initially(b, f)
             /\ \A i \in Newest(b, f, n) : contents = calls[i].given
      [] Does(structs[b].kind, f) = "appends" ->
             LET items == Items(b, f, n)
             IN  /\ Len(contents) = Cardinality(items)
                 /\ \A p \in items : contents[Place(items, p)] = Item(p)
      [] Does(structs[b].kind, f) = "merges" ->
             contents = MapEntries(b, f, n)

\* What an element of a list says when its original said it after n calls.  Of a
\* list it has copied the elements there were.
Copied(element, original, n) ==
    /\ structs[element].kind = structs[original].kind
    /\ \A f \in FieldsOf(structs[original].kind) :
           IF Does(structs[original].kind, f) = "collects"
           THEN structs[element].fields[f] =
                    SubSeq(structs[original].fields[f], 1, Cardinality(Items(original, f, n)))
           ELSE Follows(structs[element].fields[f], original, f, n)

\* Every configuration says what the calls on it said, and every element of
\* a list says what the original said when it was added, whatever was called
\* on the original afterwards and whatever panicked in between.
DeclarationsFollowCalls ==
    \A b \in builders : \A f \in FieldsOf(structs[b].kind) :
        IF Does(structs[b].kind, f) = "collects"
        THEN LET items == Items(b, f, Len(calls))
                 slots == structs[b].fields[f]
             IN  /\ Len(slots) = Cardinality(items)
                 /\ \A p \in items : Copied(slots[Place(items, p)], Item(p), p[1] - 1)
        ELSE Follows(structs[b].fields[f], b, f, Len(calls))

\* The configurations b holds after n calls, itself or in its elements: those
\* an element held when it was added.
PartsOf(b, n) ==
    LET parts[m \in 0..n] ==
            [c \in builders |->
                UNION {IF Does(structs[c].kind, f) = "collects"
                       THEN UNION {parts[p[1] - 1][Item(p)] : p \in Items(c, f, m)}
                       ELSE UNION {Range(calls[i].given) : i \in Newest(c, f, m)} :
                           f \in Links(structs[c].kind)}]
    IN  parts[n][b]

\* The configurations whose later changes are changes of b.
Shares(b) ==
    LET holds[n \in Steps] ==
            IF n = 0 THEN {b}
            ELSE holds[n - 1] \union UNION {PartsOf(c, Len(calls)) : c \in holds[n - 1]}
    IN  holds[Builders]

\* A call changes the declaration of the receiver and of all that hold it by a
\* pointer, and of no other: what was added to a list no longer changes with
\* the original, what was set as a part does, in every configuration that it
\* is part of and in the elements copied from one.
CallsReachTheirHolders ==
    [][\A on \in builders :
           calls' # calls /\ calls'[Len(calls')].on = on =>
               LET changed == {b \in builders : Declared(b)' # Declared(b)}
               IN  changed \in {{}, {b \in builders : on \in Shares(b)}}]_configurations
=============================================================================

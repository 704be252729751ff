----------------------------- MODULE MCDeepCopy -----------------------------
(* TLC instances of DeepCopy over the types of the API.                    *)
EXTENDS DeepCopy, FiniteSets, TLC

Api == INSTANCE MyceliumApiTypes

\* f @@ <<>> is f, as a table and no longer as a rule to compute it by.
AllTypes  == DOMAIN Api!Types \union Api!Leaves
ApiRefers == [t \in AllTypes |-> Api!References(t)] @@ <<>>
ApiSlots  == [t \in AllTypes |-> {r.slot : r \in Api!References(t)}] @@ <<>>
ApiCopied == [t \in AllTypes |-> Api!Copied(t)] @@ <<>>

InUnion(t, slot)  == \E u \in Api!Unions : u.type = t /\ slot \in u.slots
Required(t, slot) == [type |-> t, slot |-> slot] \in Api!Required

\* The object of a kind with the chosen references: path -> [type, slots].
Object(kind, chosen) ==
    LET below(c) == {[path |-> c.path \o r.slot, type |-> r.of] : r \in chosen[c.type]}
        cells[n \in 0..MaxDepth] ==
            IF n = 0 THEN {[path |-> Root, type |-> kind]}
            ELSE LET above == cells[n - 1] IN above \union UNION {below(c) : c \in above}
        all == cells[MaxDepth]
    IN  [p \in {c.path : c \in all} |->
            LET t == (CHOOSE c \in all : c.path = p).type
            IN  [type |-> t, slots |-> {r.slot : r \in chosen[t]}]] @@ <<>>

\* The objects of these kinds: with the optional references or without them, and
\* with one alternative of every union.
ObjectsOf(kinds, without) ==
    LET refers == ApiRefers
        every == UNION {{[type |-> u.type, slot |-> s] : s \in u.slots} : u \in Api!Unions}
        alternatives == {c \in SUBSET every :
            \A u \in Api!Unions : Cardinality({a \in c : a.type = u.type}) = 1}
        chosen(c, optional) ==
            [t \in AllTypes |->
                {r \in refers[t] : IF InUnion(t, r.slot) THEN [type |-> t, slot |-> r.slot] \in c
                                   ELSE (optional /\ r.slot \notin without) \/ Required(t, r.slot)}] @@ <<>>
        choices == {chosen(c, optional) : c \in alternatives, optional \in BOOLEAN}
    IN  {Object(kind, choice) : kind \in kinds, choice \in choices}

ServiceAccount == {<<"Status", "ServiceAccount", "ResourceRef">>,
                   <<"Status", "ServiceAccount", "Conditions">>}

AllObjects == ObjectsOf(Api!RootKinds, ServiceAccount)
Agents     == ObjectsOf({"MyceliumAgent"}, {})

\* TLC evaluates a definition once, but the constant it stands for at every use.
MCSlots      == ApiSlots
MCHandled    == ApiCopied
MCConditions == <<"Status", "BaseMyceliumResourceStatus", "Conditions">>
MCAllObjects == AllObjects
MCAgents     == Agents

\* So the theorems that have this as their hypothesis are about the code's own
\* table and objects of all its kinds: all but an agent's Status.ServiceAccount.
ASSUME CodeUsesNothingForgotten == UsesNothingForgotten(MCAllObjects)
=============================================================================

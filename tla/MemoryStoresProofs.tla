-------------------------- MODULE MemoryStoresProofs --------------------------
(***************************************************************************)
(* Types, what a model can rely on that was told "saved", and what a search *)
(* returns, for any agents, users, contents and bounds.                    *)
(***************************************************************************)
EXTENDS MemoryStores, FiniteSetTheorems, FunctionTheorems, TLAPS

\* A search comes to a sequence of what it searches.
LEMMA RankingsAreSequences ==
    ASSUME NEW set, NEW limit \in Nat, NEW s \in Rankings(set, limit)
    PROVE  s \in Seq(set)
<1>1. PICK n \in 0..limit : s \in [1..n -> set]
  BY DEF Rankings
<1> QED
  BY <1>1

\* What an agent saves is an item.
LEMMA NewItemType ==
    ASSUME TypeOK, NEW a \in Agents, NEW c \in Contents
    PROVE  NewItem(a, c) \in Items
BY MemoryAssumption DEF TypeOK, NewItem, Items, Ids, Users

\* The start of an agent keeps the types.
LEMMA StartKeepsTypes ==
    ASSUME TypeOK, NEW a \in Agents, Start(a)
    PROVE  TypeOK'
<1>1. CASE StartEverMem(a)
  BY <1>1 DEF StartEverMem, TypeOK, Goto, index, saving, recall
<1>2. CASE ListIndexes(a)
  BY <1>2 DEF ListIndexes, TypeOK, Goto, saving, recall
<1>3. ASSUME NEW name \in Indexes, NEW then \in {"text", "ready"}, CreateIndex(a, name, then)
      PROVE  TypeOK'
  BY <1>3 DEF CreateIndex, TypeOK, Goto, saving, recall, Indexes
<1> QED
  BY <1>1, <1>2, <1>3 DEF Start, Indexes

\* The end of a process keeps the types.
LEMMA CrashKeepsTypes ==
    ASSUME TypeOK, NEW a \in Agents, Crash(a)
    PROVE  TypeOK'
<1>1. hits' \in [Agents -> Seq(Seq(Items))]
  BY DEF Crash, TypeOK
<1>2. faults' \in 0..MaxFaults
  BY MemoryAssumption DEF Crash, TypeOK
<1>3. item[a] \subseteq Items
  BY DEF TypeOK
<1> QED
  BY <1>1, <1>2, <1>3 DEF Crash, TypeOK, index

\* Saving keeps the types.
LEMMA SavingKeepsTypes ==
    ASSUME TypeOK, NEW a \in Agents,
           (\E c \in Contents : Remember(a, c)) \/ Embed(a) \/ Post(a) \/ Answer(a)
               \/ Timeout(a) \/ EmbedFails(a)
    PROVE  TypeOK'
<1>1. ASSUME NEW c \in Contents, Remember(a, c) PROVE TypeOK'
  <2>1. NewItem(a, c) \in Items
    BY NewItemType
  <2>2. pc' = [pc EXCEPT ![a] = IF store = "atlas" THEN "embed" ELSE "post"]
    BY <1>1 DEF Remember, Goto
  <2>3. /\ pc' \in [Agents -> {"down", "vector", "text", "ready", "embed", "post", "posted",
                               "search", "searched", "fuse", "found"}]
        /\ pc'[a] \in {"embed", "post"}
    BY <2>2 DEF TypeOK
  <2>4. item' = [item EXCEPT ![a] = {NewItem(a, c)}]
    BY <1>1 DEF Remember
  <2>5. item' \in [Agents -> SUBSET Items] /\ item'[a] = {NewItem(a, c)}
    BY <2>1, <2>4 DEF TypeOK
  <2>6. \A b \in Agents : IF pc'[b] \in {"embed", "post", "posted"} THEN \E x \in Items : item'[b] = {x}
                                                                    ELSE item'[b] = {}
    BY <2>1, <2>2, <2>3, <2>4, <2>5 DEF TypeOK
  <2>7. saves' \in [Agents -> Nat]
    BY <1>1 DEF Remember, TypeOK
  <2> QED
    BY <1>1, <2>3, <2>5, <2>6, <2>7 DEF Remember, TypeOK, index, recall
<1>2. CASE Embed(a)
  BY <1>2 DEF Embed, TypeOK, Goto, index, saving, recall
<1>3. CASE Post(a)
  <2>1. item[a] \subseteq Items
    BY DEF TypeOK
  <2> QED
    BY <1>3, <2>1 DEF Post, TypeOK, Goto, index, recall
<1>4. ASSUME NEW saved \in BOOLEAN, EndSave(a, saved), requests' \subseteq Items, faults' \in 0..MaxFaults
      PROVE  TypeOK'
  <2>1. item[a] \subseteq Items
    BY DEF TypeOK
  <2>2. told' \subseteq Items /\ raised' \subseteq Items
    BY <1>4, <2>1 DEF EndSave, TypeOK
  <2> QED
    BY <1>4, <2>2 DEF EndSave, TypeOK, index, recall
<1>5. CASE Answer(a)
  <2>1. requests' \subseteq Items /\ faults' \in 0..MaxFaults
    BY <1>5 DEF Answer, TypeOK
  <2> QED
    BY <1>4, <1>5, <2>1 DEF Answer
<1>6. faults < MaxFaults => faults + 1 \in 0..MaxFaults
  BY MemoryAssumption DEF TypeOK
<1>7. CASE Timeout(a)
  BY <1>4, <1>6, <1>7 DEF Timeout, TypeOK
<1>8. CASE EmbedFails(a)
  BY <1>4, <1>6, <1>8 DEF EmbedFails, TypeOK
<1> QED
  BY <1>1, <1>2, <1>3, <1>5, <1>7, <1>8

\* Searching keeps the types.
LEMMA SearchingKeepsTypes ==
    ASSUME TypeOK, NEW a \in Agents,
           Recall(a) \/ Vector(a) \/ Text(a) \/ Fuse(a) \/ Return(a) \/ SearchFails(a)
    PROVE  TypeOK'
<1>1. ASSUME NEW to \in {"ready", "search", "searched", "fuse", "found"},
             pc[a] \in {"ready", "search", "searched", "fuse", "found"},
             pc' = [pc EXCEPT ![a] = to],
             hits' \in [Agents -> Seq(Seq(Items))],
             searches' \in 0..MaxSearches,
             faults' \in 0..MaxFaults,
             UNCHANGED <<store, index, saving>>
      PROVE  TypeOK'
  BY <1>1 DEF TypeOK, index, saving
<1>2. CASE Recall(a)
  <2>1. searches' \in 0..MaxSearches
    BY <1>2, MemoryAssumption DEF Recall, TypeOK
  <2> QED
    BY <1>1, <1>2, <2>1 DEF Recall, Goto, TypeOK
<1>3. ASSUME NEW here, here \subseteq Items, NEW s \in Rankings(here, 2 * TopK)
      PROVE  s \in Seq(Items)
  <2>1. 2 * TopK \in Nat
    BY MemoryAssumption
  <2>2. s \in Seq(here)
    BY <1>3, <2>1, RankingsAreSequences
  <2> QED
    BY <1>3, <2>2
<1>4. Own(a) \subseteq Items
  BY DEF Own, TypeOK
<1>5. CASE Vector(a)
  <2>1. PICK s \in Rankings(IF "vector" \in indexes THEN Own(a) ELSE {}, 2 * TopK) :
            hits' = [hits EXCEPT ![a] = <<s>>]
    BY <1>5 DEF Vector
  <2>2. s \in Seq(Items)
    BY <1>3, <1>4, <2>1
  <2>3. <<s>> \in Seq(Seq(Items))
    BY <2>2
  <2>4. hits' \in [Agents -> Seq(Seq(Items))]
    BY <2>1, <2>3 DEF TypeOK
  <2> QED
    BY <1>1, <1>5, <2>4 DEF Vector, Goto, TypeOK
<1>6. CASE Text(a)
  <2>1. PICK s \in Rankings(IF "text" \in indexes THEN Own(a) ELSE {}, 2 * TopK) :
            hits' = [hits EXCEPT ![a] = Append(@, s)]
    BY <1>6 DEF Text
  <2>2. s \in Seq(Items)
    BY <1>3, <1>4, <2>1
  <2>3. hits[a] \in Seq(Seq(Items))
    BY DEF TypeOK
  <2>4. Append(hits[a], s) \in Seq(Seq(Items))
    BY <2>2, <2>3
  <2>5. hits' \in [Agents -> Seq(Seq(Items))]
    BY <2>1, <2>4 DEF TypeOK
  <2> QED
    BY <1>1, <1>6, <2>5 DEF Text, Goto, TypeOK
<1>7. CASE Fuse(a)
  BY <1>1, <1>7 DEF Fuse, Goto, TypeOK
<1>8. CASE Return(a)
  <2>1. hits' \in [Agents -> Seq(Seq(Items))]
    BY <1>8 DEF Return, TypeOK
  <2> QED
    BY <1>1, <1>8, <2>1 DEF Return, Goto, TypeOK
<1>9. CASE SearchFails(a)
  <2>1. hits' \in [Agents -> Seq(Seq(Items))]
    BY <1>9 DEF SearchFails, TypeOK
  <2>2. faults' \in 0..MaxFaults
    BY <1>9, MemoryAssumption DEF SearchFails, TypeOK
  <2> QED
    BY <1>1, <1>9, <2>1, <2>2 DEF SearchFails, TypeOK
<1> QED
  BY <1>2, <1>5, <1>6, <1>7, <1>8, <1>9

\* Every step keeps the types.
LEMMA StepKeepsTypes == TypeOK /\ [Next]_vars => TypeOK'
<1> SUFFICES ASSUME TypeOK, [Next]_vars PROVE TypeOK'
  OBVIOUS
<1>1. ASSUME NEW x \in requests, Execute(x) PROVE TypeOK'
  <2>1. x \in Items
    BY DEF TypeOK
  <2> QED
    BY <1>1, <2>1 DEF Execute, TypeOK, index, recall
<1>2. CASE UNCHANGED vars
  BY <1>2 DEF vars, TypeOK
<1> QED
  BY <1>1, <1>2, StartKeepsTypes, CrashKeepsTypes, SavingKeepsTypes, SearchingKeepsTypes DEF Next

\* Every reachable state has its types, for any agents, users, contents and
\* bounds: an agent that saves has one item, and another none.
THEOREM MemoryTypes == Spec => []TypeOK
<1>1. Init => TypeOK
  BY MemoryAssumption DEF Init, TypeOK, Indexes
<1> QED
  BY <1>1, StepKeepsTypes, PTL DEF Spec

-----------------------------------------------------------------------------
(* What was told                                                           *)

\* Every item that was sent is an early one, is being saved, or is one whose
\* model was told how it went.
Accounted == \A x \in requests \union items \union refused :
                 \/ x \in Early \union told \union raised
                 \/ x.id.by \in Agents /\ x \in item[x.id.by]

OwnItem == \A a \in Agents : \A x \in item[a] : x.id.by = a

\* An agent neither was told of two items of one content nor saves another.
ToldOnce == \A x, y \in told : x.id.by = y.id.by /\ x.content = y.content => x = y

SavesNoneTold == \A a \in Agents : \A x \in item[a] : \A y \in told :
                     y.id.by = a => x.content # y.content

SavingInv == Accounted /\ OwnItem /\ ToldOnce /\ SavesNoneTold /\ SavedIsStored

\* Remember keeps the invariant: the agent was saving nothing, and the model has
\* not been told of this content.
LEMMA RememberKeeps ==
    ASSUME TypeOK, SavingInv, NEW a \in Agents, NEW c \in Contents, Remember(a, c)
    PROVE  SavingInv'
<1> DEFINE x == NewItem(a, c)
<1>1. item[a] = {}
  BY DEF Remember, Goto, TypeOK
<1>2. x.id.by = a /\ x.content = c
  BY DEF NewItem
<1> HIDE DEF x
<1>3. item' = [item EXCEPT ![a] = {x}]
  BY DEF Remember, x
<1>4. item'[a] = {x} /\ \A b \in Agents \ {a} : item'[b] = item[b]
  BY <1>3 DEF TypeOK
<1>5. UNCHANGED <<store, requests, items, refused, told, raised>>
  BY DEF Remember
<1>6. Accounted'
  BY <1>1, <1>4, <1>5 DEF SavingInv, Accounted
<1>7. OwnItem'
  BY <1>2, <1>4 DEF SavingInv, OwnItem
<1>8. ToldOnce'
  BY <1>5 DEF SavingInv, ToldOnce
<1>9. SavesNoneTold'
  BY <1>2, <1>4, <1>5 DEF SavingInv, SavesNoneTold, Remember
<1>10. SavedIsStored'
  BY <1>5 DEF SavingInv, SavedIsStored
<1> QED
  BY <1>6, <1>7, <1>8, <1>9, <1>10 DEF SavingInv

\* A save that ends keeps the invariant, whatever of it is still on its way, if
\* what is told is so.
LEMMA EndSaveKeeps ==
    ASSUME TypeOK, SavingInv, NEW a \in Agents, NEW saved \in BOOLEAN, EndSave(a, saved),
           requests' \subseteq requests,
           saved => \A x \in item[a] : x \in items \/ (store = "evermem" /\ x \in refused)
    PROVE  SavingInv'
<1>1. item'[a] = {} /\ \A b \in Agents \ {a} : item'[b] = item[b]
  BY DEF EndSave, TypeOK
<1>2. UNCHANGED <<store, items, refused>>
  BY DEF EndSave
<1>3. /\ told' = IF saved THEN told \union item[a] ELSE told
      /\ raised' = IF saved THEN raised ELSE raised \union item[a]
  BY DEF EndSave
<1>4. \A x, y \in item[a] : x = y
  BY DEF TypeOK
<1>5. Accounted'
  BY <1>1, <1>2, <1>3 DEF SavingInv, Accounted
<1>6. OwnItem'
  BY <1>1 DEF SavingInv, OwnItem
<1>7. ToldOnce'
  <2> SUFFICES ASSUME NEW x \in told', NEW y \in told', x.id.by = y.id.by, x.content = y.content
               PROVE  x = y
    BY DEF ToldOnce
  <2>1. CASE x \in told /\ y \in told
    BY <2>1 DEF SavingInv, ToldOnce
  <2>2. CASE x \in item[a] /\ y \in item[a]
    BY <1>4, <2>2
  <2>3. CASE x \in told /\ y \in item[a]
    BY <2>3 DEF SavingInv, SavesNoneTold, OwnItem
  <2>4. CASE x \in item[a] /\ y \in told
    BY <2>4 DEF SavingInv, SavesNoneTold, OwnItem
  <2> QED
    BY <1>3, <2>1, <2>2, <2>3, <2>4
<1>8. SavesNoneTold'
  BY <1>1, <1>3 DEF SavingInv, SavesNoneTold, OwnItem
<1>9. SavedIsStored'
  BY <1>2, <1>3 DEF SavingInv, SavedIsStored
<1> QED
  BY <1>5, <1>6, <1>7, <1>8, <1>9 DEF SavingInv

\* Every step keeps the invariant.
LEMMA StepKeepsSaving == TypeOK /\ SavingInv /\ [Next]_vars => SavingInv'
<1> SUFFICES ASSUME TypeOK, SavingInv, [Next]_vars PROVE SavingInv'
  OBVIOUS
<1>1. ASSUME UNCHANGED <<store, saving>> PROVE SavingInv'
  BY <1>1 DEF saving, SavingInv, Accounted, OwnItem, ToldOnce, SavesNoneTold, SavedIsStored
<1>2. ASSUME NEW a \in Agents, Start(a) PROVE SavingInv'
  BY <1>1, <1>2 DEF Start, StartEverMem, ListIndexes, CreateIndex
<1>3. ASSUME NEW a \in Agents, Crash(a) PROVE SavingInv'
  <2>1. item'[a] = {} /\ \A b \in Agents \ {a} : item'[b] = item[b]
    BY <1>3 DEF Crash, TypeOK
  <2>2. raised' = raised \union item[a] /\ UNCHANGED <<store, requests, items, refused, told>>
    BY <1>3 DEF Crash
  <2> QED
    BY <2>1, <2>2 DEF SavingInv, Accounted, OwnItem, ToldOnce, SavesNoneTold, SavedIsStored
<1>4. ASSUME NEW a \in Agents, NEW c \in Contents, Remember(a, c) PROVE SavingInv'
  BY <1>4, RememberKeeps
<1>5. ASSUME NEW a \in Agents, Embed(a) PROVE SavingInv'
  BY <1>1, <1>5 DEF Embed
<1>6. ASSUME NEW a \in Agents, Post(a) PROVE SavingInv'
  <2>1. requests' = requests \union item[a] /\ UNCHANGED <<store, item, items, refused, told, raised>>
    BY <1>6 DEF Post
  <2>2. Accounted'
    BY <2>1 DEF SavingInv, Accounted, OwnItem
  <2> QED
    BY <2>1, <2>2 DEF SavingInv, OwnItem, ToldOnce, SavesNoneTold, SavedIsStored
<1>7. ASSUME NEW a \in Agents, Answer(a) PROVE SavingInv'
  <2> DEFINE saved == ~(store = "atlas" /\ item[a] \subseteq refused)
  <2>1. PICK x \in Items : item[a] = {x}
    BY <1>7 DEF Answer, TypeOK
  <2>2. store \in {"atlas", "evermem"}
    BY DEF TypeOK
  <2>3. saved => \A y \in item[a] : y \in items \/ (store = "evermem" /\ y \in refused)
    BY <1>7, <2>1, <2>2 DEF Answer
  <2>4. saved \in BOOLEAN /\ EndSave(a, saved) /\ requests' \subseteq requests
    BY <1>7 DEF Answer
  <2> QED
    BY <2>3, <2>4, EndSaveKeeps
<1>8. ASSUME NEW a \in Agents, Timeout(a) \/ EmbedFails(a) PROVE SavingInv'
  <2>1. EndSave(a, FALSE) /\ requests' \subseteq requests
    BY <1>8 DEF Timeout, EmbedFails
  <2> QED
    BY <2>1, EndSaveKeeps
<1>9. ASSUME NEW a \in Agents, Recall(a) \/ Vector(a) \/ Text(a) \/ Fuse(a) \/ Return(a) \/ SearchFails(a)
      PROVE  SavingInv'
  BY <1>1, <1>9 DEF Recall, Vector, Text, Fuse, Return, SearchFails
<1>10. ASSUME NEW x \in requests, Execute(x) PROVE SavingInv'
  <2>1. UNCHANGED <<store, item, told, raised>>
    BY <1>10 DEF Execute
  <2>2. /\ items \subseteq items' /\ refused \subseteq refused'
        /\ requests' \union items' \union refused' \subseteq requests \union items \union refused
    BY <1>10 DEF Execute
  <2> QED
    BY <2>1, <2>2 DEF SavingInv, Accounted, OwnItem, ToldOnce, SavesNoneTold, SavedIsStored
<1>11. CASE UNCHANGED vars
  BY <1>1, <1>11 DEF vars, saving
<1> QED
  BY <1>2, <1>3, <1>4, <1>5, <1>6, <1>7, <1>8, <1>9, <1>10, <1>11 DEF Next

\* Every reachable state accounts for its items.
LEMMA SavingIsKept == Spec => [](TypeOK /\ SavingInv)
<1>1. Init => SavingInv
  BY DEF Init, SavingInv, Accounted, OwnItem, ToldOnce, SavesNoneTold, SavedIsStored
<1> QED
  BY <1>1, StepKeepsSaving, MemoryTypes, PTL DEF Spec

\* What a model was told is saved is stored, unless EverMemOS has refused it.
THEOREM Saved == Spec => []SavedIsStored
<1>1. SavingInv => SavedIsStored
  BY DEF SavingInv
<1> QED
  BY <1>1, SavingIsKept, PTL

\* No two items that an agent has stored without an error have the same content.
THEOREM Once == Spec => []StoredOnce
<1>1. TypeOK /\ SavingInv => StoredOnce
  <2> SUFFICES ASSUME TypeOK, SavingInv, NEW x \in items \ (raised \union Early),
                      NEW y \in items \ (raised \union Early),
                      x.id.by = y.id.by, x.content = y.content
               PROVE  x = y
    BY DEF StoredOnce
  <2>1. /\ x \in told \/ (x.id.by \in Agents /\ x \in item[x.id.by])
        /\ y \in told \/ (y.id.by \in Agents /\ y \in item[y.id.by])
    BY DEF SavingInv, Accounted
  <2>2. CASE x \in told /\ y \in told
    BY <2>2 DEF SavingInv, ToldOnce
  <2>3. CASE x.id.by \in Agents /\ x \in item[x.id.by] /\ y \in item[y.id.by]
    <3>1. x.id.by \in Agents /\ x \in item[x.id.by] /\ y \in item[x.id.by]
      BY <2>3
    <3>2. \A p, q \in item[x.id.by] : p = q
      BY <3>1 DEF TypeOK
    <3> QED
      BY <3>1, <3>2
  <2>4. CASE x.id.by \in Agents /\ ( (x \in told /\ y \in item[y.id.by]) \/ (x \in item[x.id.by] /\ y \in told) )
    BY <2>4 DEF SavingInv, SavesNoneTold
  <2> QED
    BY <2>1, <2>2, <2>3, <2>4
<1> QED
  BY <1>1, SavingIsKept, PTL

-----------------------------------------------------------------------------
(* Recalls                                                                 *)

\* A finite set in a strict total order: an element has fewer elements before it
\* than all, a later one has more, and each number occurs.
LEMMA Ranked ==
    ASSUME NEW S, IsFiniteSet(S), NEW R,
           \A x \in S : <<x, x>> \notin R,
           \A x, y, z \in S : <<x, y>> \in R /\ <<y, z>> \in R => <<x, z>> \in R,
           \A x, y \in S : x # y => <<x, y>> \in R \/ <<y, x>> \in R
    PROVE  LET earlier(x) == Cardinality({y \in S : <<y, x>> \in R})
           IN  /\ Cardinality(S) \in Nat
               /\ \A x, y \in S : <<x, y>> \in R => earlier(x) < earlier(y)
               /\ \A x \in S : earlier(x) \in Nat
               /\ \A k \in 1..Cardinality(S) : \E x \in S : earlier(x) = k - 1
<1> DEFINE before(x) == {y \in S : <<y, x>> \in R}
           earlier(x) == Cardinality(before(x))
           n == Cardinality(S)
<1>1. n \in Nat
  BY FS_CardinalityType
<1>2. ASSUME NEW x \in S PROVE IsFiniteSet(before(x)) /\ earlier(x) \in Nat /\ earlier(x) < n
  <2>1. before(x) \in SUBSET S /\ before(x) # S
    OBVIOUS
  <2>2. IsFiniteSet(before(x)) /\ earlier(x) <= n /\ earlier(x) # n
    BY <2>1, FS_Subset
  <2>3. earlier(x) \in Nat
    BY <2>2, FS_CardinalityType
  <2> QED
    BY <1>1, <2>2, <2>3
<1>3. ASSUME NEW x \in S, NEW y \in S, <<x, y>> \in R PROVE earlier(x) < earlier(y)
  <2>1. before(x) \in SUBSET before(y) /\ before(x) # before(y)
    BY <1>3
  <2>2. IsFiniteSet(before(y)) /\ earlier(x) \in Nat /\ earlier(y) \in Nat
    BY <1>2
  <2>3. earlier(x) <= earlier(y) /\ earlier(x) # earlier(y)
    BY <2>1, <2>2, FS_Subset
  <2> QED
    BY <2>2, <2>3
<1>4. /\ \A x \in S : earlier(x) \in Nat /\ earlier(x) < n
      /\ \A x, y \in S : <<x, y>> \in R => earlier(x) < earlier(y)
  BY <1>2, <1>3
<1>5. ASSUME NEW k \in 1..n PROVE \E x \in S : earlier(x) = k - 1
  <2> DEFINE f == [x \in S |-> earlier(x) + 1]
  <2> HIDE DEF earlier
  <2>1. f \in [S -> 1..n]
    BY <1>1, <1>4
  <2>2. ASSUME NEW x \in S, NEW y \in S, f[x] = f[y] PROVE x = y
    <3>1. earlier(x) = earlier(y)
      BY <1>4, <2>2
    <3>2. <<x, y>> \notin R /\ <<y, x>> \notin R
      BY <1>4, <3>1
    <3> QED
      BY <3>2
  <2>3. f \in Injection(S, 1..n)
    BY <2>1, <2>2, Fun_IsInj
  <2>4. IsFiniteSet(1..n) /\ Cardinality(1..n) = n
    BY <1>1, FS_Interval
  <2>5. f \in Surjection(S, 1..n)
    BY <2>3, <2>4, FS_Injection
  <2>6. PICK x \in S : f[x] = k
    BY <2>5 DEF Surjection
  <2> QED
    BY <1>4, <2>6
<1> QED
  BY <1>1, <1>4, <1>5

\* A ranking is a sequence of some of the set, each once, that is not too long.
LEMMA RankingShape ==
    ASSUME NEW set, NEW limit \in Nat, NEW s \in Rankings(set, limit)
    PROVE  /\ Len(s) \in 0..limit /\ DOMAIN s = 1..Len(s)
           /\ s \in [1..Len(s) -> set]
           /\ \A i, j \in 1..Len(s) : s[i] = s[j] => i = j
<1>1. PICK n \in 0..limit : s \in [1..n -> set] /\ IsInjective(s)
  BY DEF Rankings
<1>2. s \in Seq(set) /\ Len(s) = n /\ DOMAIN s = 1..n
  BY <1>1
<1> QED
  BY <1>1, <1>2 DEF IsInjective

\* Where an item is in a ranking.
LEMMA RankType ==
    ASSUME NEW s, NEW n \in Nat, DOMAIN s = 1..n, NEW x, Found(x, s)
    PROVE  Rank(x, s) \in 1..n /\ s[Rank(x, s)] = x
<1>1. \E i \in DOMAIN s : s[i] = x
  BY DEF Found
<1> QED
  BY <1>1 DEF Rank

\* A product of positive numbers is positive, and grows with each of them.
LEMMA Product ==
    ASSUME NEW a \in Nat, NEW b \in Nat, NEW c \in Nat \ {0}
    PROVE  /\ a * c \in Nat
           /\ a > b <=> a * c > b * c
           /\ a = b <=> a * c = b * c
OBVIOUS

\* Scores are compared as the fractions they are: the comparison is transitive.
LEMMA FractionsTransitive ==
    ASSUME NEW a \in Nat \ {0}, NEW b \in Nat \ {0}, NEW c \in Nat \ {0},
           NEW d \in Nat \ {0}, NEW e \in Nat \ {0}, NEW f \in Nat \ {0},
           a * d >= c * b, c * f >= e * d
    PROVE  /\ a * f >= e * b
           /\ a * d > c * b \/ c * f > e * d => a * f > e * b
           /\ a * d = c * b /\ c * f = e * d => a * f = e * b
<1> DEFINE ad == a * d  cb == c * b  cf == c * f  ed == e * d  af == a * f  eb == e * b
<1>1. /\ ad \in Nat /\ cb \in Nat /\ cf \in Nat /\ ed \in Nat /\ af \in Nat /\ eb \in Nat
  BY Product
<1>2. /\ af * d = ad * f /\ cb * f = cf * b /\ ed * b = eb * d
  OBVIOUS
<1>3. /\ ad * f >= cb * f /\ (ad > cb => ad * f > cb * f) /\ (ad = cb => ad * f = cb * f)
  BY <1>1, Product
<1>4. /\ cf * b >= ed * b /\ (cf > ed => cf * b > ed * b) /\ (cf = ed => cf * b = ed * b)
  BY <1>1, Product
<1>5. /\ af * d \in Nat /\ ad * f \in Nat /\ cb * f \in Nat /\ cf * b \in Nat /\ ed * b \in Nat /\ eb * d \in Nat
  BY <1>1, Product
<1>6. /\ af * d >= eb * d /\ (ad > cb \/ cf > ed => af * d > eb * d)
      /\ (ad = cb /\ cf = ed => af * d = eb * d)
  BY <1>2, <1>3, <1>4, <1>5
<1>7. /\ (af > eb <=> af * d > eb * d) /\ (af = eb <=> af * d = eb * d)
  BY <1>1, Product
<1> QED
  BY <1>1, <1>5, <1>6, <1>7

\* The items of two rankings.
Ranking(vector, text) == {vector[i] : i \in DOMAIN vector} \union {text[i] : i \in DOMAIN text}

\* A position of each, of its own, and a score.
Place(x, vector, text) == IF Found(x, vector) THEN Rank(x, vector) ELSE Len(vector) + Rank(x, text)

\* Each item of two rankings has a positive score.
LEMMA ScoreType ==
    ASSUME NEW set, NEW limit \in Nat, NEW vector \in Rankings(set, limit),
           NEW text \in Rankings(set, limit), NEW x \in Ranking(vector, text)
    PROVE  /\ Score(x, vector, text).above \in Nat \ {0}
           /\ Score(x, vector, text).below \in Nat \ {0}
<1> DEFINE v == RrfK + Rank(x, vector)
           t == RrfK + Rank(x, text)
<1>1. RrfK \in Nat \ {0}
  BY MemoryAssumption
<1>2. Found(x, vector) => v \in Nat \ {0}
  BY <1>1, RankingShape, RankType
<1>3. Found(x, text) => t \in Nat \ {0}
  BY <1>1, RankingShape, RankType
<1>4. Found(x, vector) \/ Found(x, text)
  BY DEF Ranking, Found
<1> HIDE DEF v, t
<1>5. CASE Found(x, vector) /\ Found(x, text)
  <2>1. v + t \in Nat \ {0} /\ v * t \in Nat \ {0}
    BY <1>2, <1>3, <1>5
  <2> QED
    BY <1>5, <2>1 DEF Score, v, t
<1>6. CASE Found(x, vector) /\ ~Found(x, text)
  BY <1>2, <1>6 DEF Score, v, t
<1>7. CASE ~Found(x, vector) /\ Found(x, text)
  BY <1>3, <1>7 DEF Score, v, t
<1> QED
  BY <1>4, <1>5, <1>6, <1>7

\* No two items have the same place.
LEMMA PlaceIsUnique ==
    ASSUME NEW set, NEW limit \in Nat, NEW vector \in Rankings(set, limit),
           NEW text \in Rankings(set, limit),
           NEW x \in Ranking(vector, text), NEW y \in Ranking(vector, text)
    PROVE  /\ Place(x, vector, text) \in Nat
           /\ Place(x, vector, text) = Place(y, vector, text) => x = y
<1>1. /\ Len(vector) \in Nat /\ DOMAIN vector = 1..Len(vector)
      /\ Len(text) \in Nat /\ DOMAIN text = 1..Len(text)
  BY RankingShape
<1>2. ASSUME NEW z \in Ranking(vector, text)
      PROVE  \/ /\ Found(z, vector)
                /\ Rank(z, vector) \in 1..Len(vector) /\ vector[Rank(z, vector)] = z
             \/ /\ ~Found(z, vector)
                /\ Rank(z, text) \in 1..Len(text) /\ text[Rank(z, text)] = z
  <2>1. Found(z, vector) \/ Found(z, text)
    BY DEF Ranking, Found
  <2> QED
    BY <1>1, <2>1, RankType
<1> QED
  BY <1>1, <1>2 DEF Place

\* Of two items one is before the other, and of three in a row the first is
\* before the last.
LEMMA BeforeIsOrder ==
    ASSUME NEW set, NEW limit \in Nat, NEW vector \in Rankings(set, limit),
           NEW text \in Rankings(set, limit)
    PROVE  LET S == Ranking(vector, text)
           IN  /\ \A x \in S : ~Before(x, x, vector, text)
               /\ \A x, y, z \in S :
                      Before(x, y, vector, text) /\ Before(y, z, vector, text) =>
                          Before(x, z, vector, text)
               /\ \A x, y \in S :
                      x # y => Before(x, y, vector, text) \/ Before(y, x, vector, text)
<1> DEFINE S == Ranking(vector, text)
           above(x) == Score(x, vector, text).above
           below(x) == Score(x, vector, text).below
           place(x) == Place(x, vector, text)
           before(x, y) == Before(x, y, vector, text)
<1>1. /\ \A x \in S : above(x) \in Nat \ {0} /\ below(x) \in Nat \ {0} /\ place(x) \in Nat
      /\ \A x, y \in S : place(x) = place(y) => x = y
  BY ScoreType, PlaceIsUnique
<1>2. \A x, y \in S : before(x, y) <=>
          \/ above(x) * below(y) > above(y) * below(x)
          \/ above(x) * below(y) = above(y) * below(x) /\ place(x) < place(y)
  BY DEF Before, Place
<1> HIDE DEF above, below, place, before, S
<1>3. \A x, y \in S : above(x) * below(y) \in Nat
  BY <1>1, Product
<1>4. ASSUME NEW x \in S PROVE ~before(x, x)
  BY <1>1, <1>2, <1>3
<1>5. ASSUME NEW x \in S, NEW y \in S, NEW z \in S, before(x, y), before(y, z) PROVE before(x, z)
  <2> DEFINE a == above(x)  b == below(x)  c == above(y)  d == below(y)  e == above(z)  f == below(z)
  <2>1. /\ a \in Nat \ {0} /\ b \in Nat \ {0} /\ c \in Nat \ {0}
        /\ d \in Nat \ {0} /\ e \in Nat \ {0} /\ f \in Nat \ {0}
        /\ place(x) \in Nat /\ place(y) \in Nat /\ place(z) \in Nat
    BY <1>1
  <2>2. /\ a * d > c * b \/ (a * d = c * b /\ place(x) < place(y))
        /\ c * f > e * d \/ (c * f = e * d /\ place(y) < place(z))
    BY <1>2, <1>5
  <2> HIDE DEF a, b, c, d, e, f
  <2>3. /\ a * d \in Nat /\ c * b \in Nat /\ c * f \in Nat /\ e * d \in Nat
    BY <2>1, Product
  <2>4. a * d >= c * b /\ c * f >= e * d
    BY <2>2, <2>3
  <2>5. /\ a * d > c * b \/ c * f > e * d => a * f > e * b
        /\ a * d = c * b /\ c * f = e * d => a * f = e * b
    BY <2>1, <2>4, FractionsTransitive
  <2>6. a * f > e * b \/ (a * f = e * b /\ place(x) < place(z))
    <3> DEFINE ad == a * d  cb == c * b  cf == c * f  ed == e * d  af == a * f  eb == e * b
    <3> HIDE DEF ad, cb, cf, ed, af, eb
    <3>1. /\ ad > cb \/ (ad = cb /\ place(x) < place(y))
          /\ cf > ed \/ (cf = ed /\ place(y) < place(z))
          /\ ad > cb \/ cf > ed => af > eb
          /\ ad = cb /\ cf = ed => af = eb
      BY <2>2, <2>5 DEF ad, cb, cf, ed, af, eb
    <3>2. af > eb \/ (af = eb /\ place(x) < place(z))
      BY <2>1, <3>1
    <3> QED
      BY <3>2 DEF af, eb
  <2> QED
    BY <1>2, <2>6 DEF a, b, e, f
<1>6. ASSUME NEW x \in S, NEW y \in S, x # y PROVE before(x, y) \/ before(y, x)
  <2>1. place(x) < place(y) \/ place(y) < place(x)
    BY <1>1, <1>6
  <2> QED
    BY <1>2, <1>3, <2>1
<1> QED
  BY <1>4, <1>5, <1>6 DEF before, S

\* The items of two rankings are of what was searched.
LEMMA RankingOf ==
    ASSUME NEW set, NEW limit \in Nat, NEW vector \in Rankings(set, limit),
           NEW text \in Rankings(set, limit)
    PROVE  Ranking(vector, text) \subseteq set
<1>1. /\ DOMAIN vector = 1..Len(vector) /\ vector \in [1..Len(vector) -> set]
      /\ DOMAIN text = 1..Len(text) /\ text \in [1..Len(text) -> set]
  BY RankingShape
<1> QED
  BY <1>1 DEF Ranking

\* n items of two rankings, each once, and none without those that are before it.
Fused(s, n, vector, text) ==
    /\ s \in [1..n -> Ranking(vector, text)]
    /\ \A i, j \in 1..n : s[i] = s[j] => i = j
    /\ \A i \in 1..n, x \in Ranking(vector, text) :
           Before(x, s[i], vector, text) => \E j \in 1..i : s[j] = x

\* That is what Fusion makes of them.
LEMMA FusionShape ==
    ASSUME NEW set, NEW limit \in Nat, NEW vector \in Rankings(set, limit),
           NEW text \in Rankings(set, limit), NEW most \in Nat
    PROVE  \E n \in 0..most : Fused(Fusion(vector, text, most), n, vector, text)
<1> DEFINE S == Ranking(vector, text)
           before(x, y) == Before(x, y, vector, text)
           R == {r \in S \X S : before(r[1], r[2])}
           earlier(x) == Cardinality({y \in S : <<y, x>> \in R})
           n == IF Cardinality(S) < most THEN Cardinality(S) ELSE most
           s == Fusion(vector, text, most)
<1>1. IsFiniteSet(S)
  <2>1. IsFiniteSet(DOMAIN vector) /\ IsFiniteSet(DOMAIN text)
    BY RankingShape, FS_Interval
  <2>2. IsFiniteSet({vector[i] : i \in DOMAIN vector}) /\ IsFiniteSet({text[i] : i \in DOMAIN text})
    <3> DEFINE V == {vector[i] : i \in DOMAIN vector}
               T == {text[i] : i \in DOMAIN text}
    <3>1. vector \in Surjection(DOMAIN vector, V) /\ text \in Surjection(DOMAIN text, T)
      BY RankingShape DEF Surjection
    <3> QED
      BY <2>1, <3>1, FS_Surjection
  <2> QED
    BY <2>2, FS_Union DEF Ranking
<1>2. /\ \A x \in S : <<x, x>> \notin R
      /\ \A x, y, z \in S : <<x, y>> \in R /\ <<y, z>> \in R => <<x, z>> \in R
      /\ \A x, y \in S : x # y => <<x, y>> \in R \/ <<y, x>> \in R
  BY BeforeIsOrder
<1>3. /\ Cardinality(S) \in Nat
      /\ \A x, y \in S : <<x, y>> \in R => earlier(x) < earlier(y)
      /\ \A x \in S : earlier(x) \in Nat
      /\ \A k \in 1..Cardinality(S) : \E x \in S : earlier(x) = k - 1
  <2> HIDE DEF R, S
  <2> QED
    BY <1>1, <1>2, Ranked
<1>4. \A x \in S : {y \in S : <<y, x>> \in R} = {y \in S : before(y, x)}
  OBVIOUS
<1>5. s = [k \in 1..n |-> CHOOSE x \in S : Cardinality({y \in S : before(y, x)}) = k - 1]
  BY DEF Fusion, Ranking
<1>6. n \in 0..most /\ \A k \in 1..n : k \in 1..Cardinality(S)
  BY <1>3
<1>7. \A x, y \in S : before(x, y) => <<x, y>> \in R
  OBVIOUS
<1>8. \A x \in S : Cardinality({y \in S : before(y, x)}) = earlier(x)
  BY <1>4
<1> HIDE DEF S, before, R, earlier, n, s
<1>9. ASSUME NEW k \in 1..n PROVE s[k] \in S /\ earlier(s[k]) = k - 1
  <2>1. \E x \in S : Cardinality({y \in S : before(y, x)}) = k - 1
    BY <1>3, <1>6, <1>8
  <2> QED
    BY <1>5, <1>8, <2>1
<1>10. ASSUME NEW x \in S, NEW y \in S, earlier(x) = earlier(y) PROVE x = y
  <2>1. <<x, y>> \notin R /\ <<y, x>> \notin R
    BY <1>3, <1>10
  <2> QED
    BY <1>2, <2>1
<1>11. s \in [1..n -> S]
  BY <1>5, <1>9
<1>12. ASSUME NEW i \in 1..n, NEW j \in 1..n, s[i] = s[j] PROVE i = j
  <2>1. i - 1 = j - 1 /\ i \in Int /\ j \in Int
    BY <1>6, <1>9, <1>12
  <2> QED
    BY <2>1
<1>13. ASSUME NEW i \in 1..n, NEW x \in S, before(x, s[i]) PROVE \E j \in 1..i : s[j] = x
  <2> DEFINE j == earlier(x) + 1
  <2>1. earlier(x) \in Nat /\ earlier(x) < i - 1
    BY <1>3, <1>7, <1>9, <1>13
  <2>2. j \in 1..i /\ j \in 1..n
    BY <1>6, <2>1
  <2>3. s[j] \in S /\ earlier(s[j]) = earlier(x)
    BY <1>9, <2>1, <2>2
  <2> QED
    BY <1>10, <2>2, <2>3
<1> QED
  BY <1>6, <1>11, <1>12, <1>13 DEF S, before, s, Fused

\* Where a recall is, its rankings are of the user's own items, and what is found
\* is what they come to.
OneRanking(a)  == Len(hits[a]) = 1 /\ hits[a][1] \in Rankings(Own(a), 2 * TopK)
TwoRankings(a) == \A i \in {1, 2} : hits[a][i] \in Rankings(Own(a), 2 * TopK)

RecallOf(a) ==
    /\ pc[a] \in {"search", "searched", "fuse"} => store = "atlas"
    /\ pc[a] = "searched" => OneRanking(a)
    /\ pc[a] = "fuse" => TwoRankings(a)
    /\ pc[a] = "found" /\ store = "atlas" =>
           TwoRankings(a) /\ found[a] = Fusion(hits[a][1], hits[a][2], TopK)
    /\ pc[a] = "found" /\ store = "evermem" => found[a] \in Rankings(Own(a), TopK)
    /\ pc[a] # "found" => found[a] = <<>>

RecallInv == DOMAIN found = Agents /\ \A a \in Agents : RecallOf(a)

\* What can be found of a set can be found of a larger one, and of nothing nothing.
LEMMA RankingsGrow ==
    ASSUME NEW set, NEW larger, set \subseteq larger, NEW limit \in Nat
    PROVE  Rankings(set, limit) \subseteq Rankings(larger, limit)
<1> SUFFICES ASSUME NEW s \in Rankings(set, limit)
             PROVE  s \in Rankings(larger, limit)
  OBVIOUS
<1>1. PICK n \in 0..limit : s \in [1..n -> set] /\ IsInjective(s)
  BY DEF Rankings
<1>2. s \in [1..n -> larger]
  BY <1>1
<1> QED
  BY <1>1, <1>2 DEF Rankings

\* Items are never removed.
LEMMA ItemsStay == ASSUME [Next]_vars PROVE items \subseteq items' /\ store' = store
<1>1. ASSUME NEW a \in Agents, Start(a) PROVE items \subseteq items' /\ store' = store
  BY <1>1 DEF Start, StartEverMem, ListIndexes, CreateIndex, saving
<1>2. ASSUME NEW a \in Agents,
             Crash(a) \/ Embed(a) \/ Post(a) \/ Answer(a) \/ Timeout(a) \/ EmbedFails(a)
             \/ \E c \in Contents : Remember(a, c)
      PROVE  items \subseteq items' /\ store' = store
  BY <1>2 DEF Crash, Remember, Embed, Post, Answer, Timeout, EmbedFails, EndSave, saving
<1>3. ASSUME NEW a \in Agents,
             Recall(a) \/ Vector(a) \/ Text(a) \/ Fuse(a) \/ Return(a) \/ SearchFails(a)
      PROVE  items \subseteq items' /\ store' = store
  BY <1>3 DEF Recall, Vector, Text, Fuse, Return, SearchFails, saving
<1>4. ASSUME NEW x \in requests, Execute(x) PROVE items \subseteq items' /\ store' = store
  BY <1>4 DEF Execute
<1>5. CASE UNCHANGED vars
  BY <1>5 DEF vars
<1> QED
  BY <1>1, <1>2, <1>3, <1>4, <1>5 DEF Next

\* The own items of an agent are not removed either, nor what can be found of them.
LEMMA OwnStays ==
    ASSUME [Next]_vars, NEW a \in Agents
    PROVE  /\ Own(a) \subseteq Own(a)'
           /\ Rankings(Own(a), TopK) \subseteq Rankings(Own(a)', TopK)
           /\ Rankings(Own(a), 2 * TopK) \subseteq Rankings(Own(a)', 2 * TopK)
<1>1. Own(a) \subseteq Own(a)'
  BY ItemsStay DEF Own
<1>2. TopK \in Nat /\ 2 * TopK \in Nat
  BY MemoryAssumption
<1> QED
  BY <1>1, <1>2, RankingsGrow

\* A recall that a step does not touch stays what it is.
LEMMA RecallUntouched ==
    ASSUME [Next]_vars, NEW a \in Agents, RecallOf(a),
           pc'[a] = pc[a], hits'[a] = hits[a], found'[a] = found[a]
    PROVE  RecallOf(a)'
<1>1. store' = store
  BY ItemsStay
<1>2. /\ Rankings(Own(a), TopK) \subseteq Rankings(Own(a)', TopK)
      /\ Rankings(Own(a), 2 * TopK) \subseteq Rankings(Own(a)', 2 * TopK)
  BY OwnStays
<1> QED
  BY <1>1, <1>2 DEF RecallOf, OneRanking, TwoRankings

\* An agent that is not at a recall has found nothing.
LEMMA NoRecall ==
    ASSUME NEW a \in Agents, pc'[a] \notin {"search", "searched", "fuse", "found"},
           found'[a] = <<>>
    PROVE  RecallOf(a)'
BY DEF RecallOf

\* Every step keeps the recalls what they are.
LEMMA StepKeepsRecalls == TypeOK /\ RecallInv /\ [Next]_vars => RecallInv'
<1> SUFFICES ASSUME TypeOK, RecallInv, [Next]_vars PROVE RecallInv'
  OBVIOUS
<1>1. \A a \in Agents : RecallOf(a)
  BY DEF RecallInv
<1>2. DOMAIN pc = Agents /\ DOMAIN hits = Agents /\ DOMAIN found = Agents
  BY DEF TypeOK, RecallInv
<1>3. ASSUME UNCHANGED <<hits, found>>, NEW a \in Agents, NEW to, pc' = [pc EXCEPT ![a] = to],
             pc[a] # "found", to \in {"search", "searched", "fuse"} => to = "search" /\ store = "atlas",
             to # "found"
      PROVE  RecallInv'
  <2>1. found[a] = <<>>
    BY <1>1, <1>3 DEF RecallOf
  <2>2. RecallOf(a)'
    BY <1>2, <1>3, <2>1, ItemsStay DEF RecallOf
  <2>3. ASSUME NEW b \in Agents, b # a PROVE RecallOf(b)'
    BY <1>1, <1>2, <1>3, <2>3, RecallUntouched
  <2> QED
    BY <1>2, <1>3, <2>2, <2>3 DEF RecallInv
<1>4. ASSUME NEW a \in Agents, NEW to, pc' = [pc EXCEPT ![a] = to], NEW h,
             hits' = [hits EXCEPT ![a] = h] \/ hits' = hits, NEW f,
             found' = [found EXCEPT ![a] = f] \/ found' = found, RecallOf(a)'
      PROVE  RecallInv'
  <2>1. ASSUME NEW b \in Agents, b # a PROVE RecallOf(b)'
    <3>1. pc'[b] = pc[b] /\ hits'[b] = hits[b] /\ found'[b] = found[b]
      BY <1>2, <1>4, <2>1
    <3> QED
      BY <1>1, <3>1, RecallUntouched
  <2>2. DOMAIN found' = Agents
    BY <1>2, <1>4
  <2> QED
    BY <1>4, <2>1, <2>2 DEF RecallInv
<1>5. ASSUME NEW a \in Agents, Start(a) PROVE RecallInv'
  <2>1. PICK from, to : Goto(a, from, to) /\ from # "found" /\ to \in {"text", "ready", "vector", "down"}
    BY <1>5 DEF Start, StartEverMem, ListIndexes, CreateIndex
  <2>2. UNCHANGED <<hits, found>>
    BY <1>5 DEF Start, StartEverMem, ListIndexes, CreateIndex, recall
  <2> QED
    BY <1>3, <2>1, <2>2 DEF Goto
<1>6. ASSUME NEW a \in Agents, Crash(a) PROVE RecallInv'
  <2>1. RecallOf(a)'
    BY <1>2, <1>6, NoRecall DEF Crash
  <2> QED
    BY <1>4, <1>6, <2>1 DEF Crash
<1>7. ASSUME NEW a \in Agents,
             (\E c \in Contents : Remember(a, c)) \/ Embed(a) \/ Post(a) \/ Answer(a)
                 \/ Timeout(a) \/ EmbedFails(a)
      PROVE  RecallInv'
  <2>1. PICK to \in {"embed", "post", "posted", "ready"} : pc' = [pc EXCEPT ![a] = to]
    BY <1>7 DEF Remember, Embed, Post, Answer, Timeout, EmbedFails, EndSave, Goto
  <2>2. pc[a] # "found" /\ UNCHANGED <<hits, found>>
    BY <1>7 DEF Remember, Embed, Post, Answer, Timeout, EmbedFails, EndSave, Goto, recall
  <2> QED
    BY <1>3, <2>1, <2>2
<1>8. ASSUME NEW a \in Agents, Recall(a) PROVE RecallInv'
  <2>1. CASE store = "atlas"
    BY <1>3, <1>8, <2>1 DEF Recall, Goto
  <2>2. CASE store # "atlas"
    <3>1. PICK s \in Rankings(Own(a), TopK) : found' = [found EXCEPT ![a] = s]
      BY <1>8, <2>2 DEF Recall
    <3>2. pc' = [pc EXCEPT ![a] = "found"] /\ UNCHANGED <<hits, store>>
      BY <1>8, <2>2 DEF Recall, Goto
    <3>3. RecallOf(a)'
      BY <1>2, <2>2, <3>1, <3>2, OwnStays DEF RecallOf
    <3> QED
      BY <1>4, <3>1, <3>2, <3>3
  <2> QED
    BY <2>1, <2>2
<1>9. ASSUME NEW a \in Agents, NEW there, there = {} \/ there = Own(a)
      PROVE  Rankings(there, 2 * TopK) \subseteq Rankings(Own(a)', 2 * TopK)
  <2>1. there \subseteq Own(a)' /\ 2 * TopK \in Nat
    BY <1>9, OwnStays, MemoryAssumption
  <2> QED
    BY <2>1, RankingsGrow
<1>10. ASSUME NEW a \in Agents, Vector(a) PROVE RecallInv'
  <2>1. PICK s \in Rankings(IF "vector" \in indexes THEN Own(a) ELSE {}, 2 * TopK) :
            hits' = [hits EXCEPT ![a] = <<s>>]
    BY <1>10 DEF Vector
  <2>2. s \in Rankings(Own(a)', 2 * TopK)
    BY <1>9, <2>1
  <2>3. pc' = [pc EXCEPT ![a] = "searched"] /\ UNCHANGED <<found, store>> /\ pc[a] = "search"
    BY <1>10 DEF Vector, Goto
  <2>4. store = "atlas" /\ found[a] = <<>>
    BY <1>1, <2>3 DEF RecallOf
  <2>5. RecallOf(a)'
    BY <1>2, <2>1, <2>2, <2>3, <2>4 DEF RecallOf, OneRanking
  <2> QED
    BY <1>4, <2>1, <2>3, <2>5
<1>11. ASSUME NEW a \in Agents, Text(a) PROVE RecallInv'
  <2>1. PICK t \in Rankings(IF "text" \in indexes THEN Own(a) ELSE {}, 2 * TopK) :
            hits' = [hits EXCEPT ![a] = Append(hits[a], t)]
    BY <1>11 DEF Text
  <2>2. t \in Rankings(Own(a)', 2 * TopK)
    BY <1>9, <2>1
  <2>3. pc' = [pc EXCEPT ![a] = "fuse"] /\ UNCHANGED <<found, store>> /\ pc[a] = "searched"
    BY <1>11 DEF Text, Goto
  <2>4. store = "atlas" /\ found[a] = <<>> /\ OneRanking(a)
    BY <1>1, <2>3 DEF RecallOf
  <2>5. hits[a][1] \in Rankings(Own(a)', 2 * TopK) /\ Len(hits[a]) = 1
    BY <2>4, OwnStays DEF OneRanking
  <2>6. hits[a] \in Seq(Seq(Items) \union {t})
    BY DEF TypeOK
  <2>7. hits'[a] = Append(hits[a], t)
    BY <1>2, <2>1
  <2>8. hits'[a][1] = hits[a][1] /\ hits'[a][2] = t
    BY <2>5, <2>6, <2>7
  <2>9. RecallOf(a)'
    BY <1>2, <2>2, <2>3, <2>4, <2>5, <2>8 DEF RecallOf, TwoRankings
  <2> QED
    BY <1>4, <2>1, <2>3, <2>9
<1>12. ASSUME NEW a \in Agents, Fuse(a) PROVE RecallInv'
  <2>1. /\ pc' = [pc EXCEPT ![a] = "found"] /\ UNCHANGED <<hits, store>> /\ pc[a] = "fuse"
        /\ found' = [found EXCEPT ![a] = Fusion(hits[a][1], hits[a][2], TopK)]
    BY <1>12 DEF Fuse, Goto
  <2>2. store = "atlas" /\ TwoRankings(a)
    BY <1>1, <2>1 DEF RecallOf
  <2>3. \A i \in {1, 2} : hits[a][i] \in Rankings(Own(a)', 2 * TopK)
    BY <2>2, OwnStays DEF TwoRankings
  <2>4. found'[a] = Fusion(hits[a][1], hits[a][2], TopK)
    BY <1>2, <2>1
  <2>5. RecallOf(a)'
    BY <1>2, <2>1, <2>2, <2>3, <2>4 DEF RecallOf, TwoRankings
  <2> QED
    BY <1>4, <2>1, <2>5
<1>13. ASSUME NEW a \in Agents, Return(a) PROVE RecallInv'
  <2>1. RecallOf(a)'
    BY <1>2, <1>13, NoRecall DEF Return, Goto
  <2> QED
    BY <1>4, <1>13, <2>1 DEF Return, Goto
<1>14. ASSUME NEW a \in Agents, SearchFails(a) PROVE RecallInv'
  <2>1. pc[a] # "found" /\ found' = found
    BY <1>14 DEF SearchFails
  <2>2. found'[a] = <<>>
    BY <1>1, <2>1 DEF RecallOf
  <2>3. RecallOf(a)'
    BY <1>2, <1>14, <2>2, NoRecall DEF SearchFails
  <2> QED
    BY <1>4, <1>14, <2>3 DEF SearchFails
<1>15. ASSUME UNCHANGED <<pc, hits, found>> PROVE RecallInv'
  BY <1>1, <1>2, <1>15, RecallUntouched DEF RecallInv
<1>16. ASSUME NEW x \in requests, Execute(x) PROVE RecallInv'
  BY <1>15, <1>16 DEF Execute, recall
<1>17. CASE UNCHANGED vars
  BY <1>15, <1>17 DEF vars
<1> QED
  BY <1>5, <1>6, <1>7, <1>8, <1>10, <1>11, <1>12, <1>13, <1>14, <1>16, <1>17 DEF Next

\* Every reachable recall is what it should be.
LEMMA RecallsAreKept == Spec => [](TypeOK /\ RecallInv)
<1>1. Init => RecallInv
  BY DEF Init, RecallInv, RecallOf
<1> QED
  BY <1>1, StepKeepsRecalls, MemoryTypes, PTL DEF Spec

\* What a recall returns is the user's own, each item once, top_k at most, with
\* either store and whatever is saved between the two searches of a recall.
THEOREM OwnRecalls == Spec => []RecallIsOwn
<1>1. TypeOK /\ RecallInv => RecallIsOwn
  <2> SUFFICES ASSUME TypeOK, RecallInv, NEW a \in Agents
               PROVE  /\ \A i \in DOMAIN found[a] : found[a][i] \in Own(a)
                      /\ IsInjective(found[a])
                      /\ Len(found[a]) <= TopK
    BY DEF RecallIsOwn
  <2>1. RecallOf(a) /\ TopK \in Nat /\ 2 * TopK \in Nat
    BY MemoryAssumption DEF RecallInv
  <2>2. ASSUME found[a] \in Rankings(Own(a), TopK)
        PROVE  /\ \A i \in DOMAIN found[a] : found[a][i] \in Own(a)
               /\ IsInjective(found[a])
               /\ Len(found[a]) <= TopK
    BY <2>1, <2>2, RankingShape DEF IsInjective
  <2>3. CASE pc[a] # "found"
    BY <2>1, <2>3 DEF RecallOf, IsInjective
  <2>4. CASE pc[a] = "found" /\ store = "evermem"
    BY <2>1, <2>2, <2>4 DEF RecallOf
  <2>5. CASE pc[a] = "found" /\ store = "atlas"
    <3>1. PICK s \in Rankings(Own(a), 2 * TopK), t \in Rankings(Own(a), 2 * TopK) :
              found[a] = Fusion(s, t, TopK)
      BY <2>1, <2>5 DEF RecallOf, TwoRankings
    <3>2. PICK n \in 0..TopK : Fused(found[a], n, s, t)
      BY <2>1, <3>1, FusionShape
    <3>3. Ranking(s, t) \subseteq Own(a)
      BY <2>1, RankingOf
    <3>4. found[a] \in [1..n -> Own(a)] /\ IsInjective(found[a])
      BY <3>2, <3>3 DEF Fused, IsInjective
    <3> QED
      BY <2>2, <3>4 DEF Rankings
  <2> QED
    BY <2>3, <2>4, <2>5 DEF TypeOK
<1> QED
  BY <1>1, RecallsAreKept, PTL

\* Of rankings that are not too long an item of both is before one of only one.
LEMMA BothFirst ==
    ASSUME NEW set, NEW s \in Rankings(set, 2 * TopK), NEW t \in Rankings(set, 2 * TopK),
           2 * TopK <= RrfK + 1,
           NEW x, Found(x, s), Found(x, t),
           NEW y \in Ranking(s, t), ~(Found(y, s) /\ Found(y, t))
    PROVE  Before(x, y, s, t)
<1>1. TopK \in Nat \ {0} /\ RrfK \in Nat \ {0} /\ 2 * TopK \in Nat
  BY MemoryAssumption
<1>2. ASSUME NEW z, NEW r \in {s, t}, Found(z, r) PROVE Rank(z, r) \in 1..(2 * TopK)
  <2>1. Len(r) \in 0..(2 * TopK) /\ DOMAIN r = 1..Len(r)
    BY <1>1, RankingShape
  <2>2. Rank(z, r) \in 1..Len(r)
    BY <1>2, <2>1, RankType
  <2> QED
    BY <1>1, <2>1, <2>2
<1> DEFINE v == RrfK + Rank(x, s)
           w == RrfK + Rank(x, t)
           u == RrfK + Rank(y, IF Found(y, s) THEN s ELSE t)
<1>3. Score(x, s, t) = [above |-> v + w, below |-> v * w]
  BY DEF Score
<1>4. Score(y, s, t) = [above |-> 1, below |-> u]
  BY DEF Score
<1>5. Found(y, IF Found(y, s) THEN s ELSE t)
  BY DEF Ranking, Found
<1>6. /\ v \in Nat /\ w \in Nat /\ u \in Nat /\ v > 0 /\ w > 0
      /\ v < 2 * u /\ w < 2 * u
  BY <1>1, <1>2, <1>5
<1> HIDE DEF v, w, u
<1>7. (v + w) * u > v * w
  <2>1. v * w < (2 * u) * w /\ w * v < (2 * u) * v
    BY <1>6, Product
  <2>2. v * w \in Nat /\ u * w \in Nat /\ u * v \in Nat
    BY <1>6, Product
  <2>3. (2 * u) * w = 2 * (u * w) /\ (2 * u) * v = 2 * (u * v) /\ w * v = v * w
    BY <1>6
  <2>4. (v + w) * u = u * v + u * w
    BY <1>6
  <2> QED
    BY <2>1, <2>2, <2>3, <2>4
<1>8. (v + w) * u > 1 * (v * w)
  <2>1. v * w \in Nat
    BY <1>6, Product
  <2> QED
    BY <1>7, <2>1
<1> QED
  BY <1>3, <1>4, <1>8 DEF Before

\* An item that both rankings have comes before every item that only one has, or
\* takes its place, as long as the rankings are no longer than RrfK + 1.
THEOREM Agreement == Spec => []AgreementComesFirst
<1>1. TypeOK /\ RecallInv => AgreementComesFirst
  <2> SUFFICES ASSUME TypeOK, RecallInv, NEW a \in Agents,
                      pc[a] = "found", store = "atlas", 2 * TopK <= RrfK + 1,
                      NEW i \in DOMAIN found[a],
                      ~(/\ found[a][i] \in items
                        /\ Found(found[a][i], hits[a][1]) /\ Found(found[a][i], hits[a][2])),
                      NEW x \in items, Found(x, hits[a][1]), Found(x, hits[a][2])
               PROVE  \E j \in 1..i : found[a][j] = x
    BY DEF AgreementComesFirst
  <2>1. RecallOf(a) /\ TopK \in Nat /\ 2 * TopK \in Nat
    BY MemoryAssumption DEF RecallInv
  <2>2. PICK s \in Rankings(Own(a), 2 * TopK), t \in Rankings(Own(a), 2 * TopK) :
            hits[a][1] = s /\ hits[a][2] = t /\ found[a] = Fusion(s, t, TopK)
    BY <2>1 DEF RecallOf, TwoRankings
  <2>3. PICK n \in 0..TopK : Fused(found[a], n, s, t)
    BY <2>1, <2>2, FusionShape
  <2>4. Ranking(s, t) \subseteq items
    BY <2>1, RankingOf DEF Own
  <2>5. i \in 1..n /\ found[a][i] \in Ranking(s, t)
    BY <2>3 DEF Fused
  <2>6. Found(x, s) /\ Found(x, t) /\ ~(Found(found[a][i], s) /\ Found(found[a][i], t))
    BY <2>2, <2>4, <2>5
  <2>7. x \in Ranking(s, t)
    BY <2>6 DEF Ranking, Found
  <2>8. Before(x, found[a][i], s, t)
    BY <2>5, <2>6, BothFirst
  <2> QED
    BY <2>3, <2>5, <2>7, <2>8 DEF Fused
<1> QED
  BY <1>1, RecallsAreKept, PTL
=============================================================================

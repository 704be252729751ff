---------------------------- MODULE MemoryStores ----------------------------
(***************************************************************************)
(* Agents with long-term memory: the tools save_memory and search_memory   *)
(* (synapse/memory/base.py) over one of the two stores, AtlasMemoryStore   *)
(* (atlas.py) or EverMemStore (store.py), and the making of the search     *)
(* indexes when an agent starts (docs/synapse.md).                         *)
(*                                                                         *)
(* The service is external: a request to it is executed, refused or lost,  *)
(* also after its sender has given up, and a search finds some of what is  *)
(* stored in an order of its own.  A model that has been told of an error  *)
(* may save the same content again; one that was told "saved" does not.    *)
(***************************************************************************)
EXTENDS Naturals, Sequences, FiniteSets, Functions

CONSTANTS
    Agents,     \* processes, each with a store object of its own
    UserOf,     \* agent -> the user_id of its store
    Contents,   \* what can be saved
    Early,      \* items that are stored from the start
    TopK,       \* top_k of a recall
    RrfK,       \* ATLAS_RRF_K
    MaxSaves,   \* bound: calls of save_memory of an agent
    MaxSearches,\* bound: calls of search_memory
    MaxFaults   \* bound: calls that get no answer, processes that end

Users == {UserOf[a] : a \in Agents}
Ids   == [by : Agents \union {"early"}, n : Nat]
Items == [id : Ids, user : Users, content : Contents]

ASSUME MemoryAssumption ==
    /\ UserOf \in [Agents -> Users]
    /\ Early \subseteq Items /\ "early" \notin Agents
    /\ \A x, y \in Early : x.id = y.id => x = y
    /\ \A x \in Early : x.id.by = "early"
    /\ TopK \in Nat \ {0} /\ RrfK \in Nat \ {0}
    /\ MaxSaves \in Nat /\ MaxSearches \in Nat /\ MaxFaults \in Nat

Indexes == {"vector", "text"}

VARIABLES
    store,     \* which of the two the agents use
    indexes,   \* the search indexes of the collection
    pc,        \* where each agent is
    known,     \* the indexes an agent has listed
    item,      \* the item an agent saves
    requests,  \* items on their way to the service
    items,     \* items stored
    refused,   \* items the service has refused
    told,      \* items a model was told are saved
    raised,    \* saves that have raised
    saves,     \* calls of save_memory of each agent
    hits,      \* the rankings a recall has got so far
    found,     \* what a recall returns
    searches,  \* calls of search_memory
    faults

vars == <<store, indexes, pc, known, item, requests, items, refused, told, raised, saves,
          hits, found, searches, faults>>
index  == <<indexes, known>>
saving == <<item, requests, items, refused, told, raised, saves>>
recall == <<hits, found, searches>>

Init ==
    /\ store \in {"atlas", "evermem"}
    /\ indexes = {}
    /\ pc = [a \in Agents |-> "down"]
    /\ known = [a \in Agents |-> {}]
    /\ item = [a \in Agents |-> {}]
    /\ requests = {}
    /\ items = Early
    /\ refused = {}
    /\ told = {}
    /\ raised = {}
    /\ saves = [a \in Agents |-> 0]
    /\ hits = [a \in Agents |-> <<>>]
    /\ found = [a \in Agents |-> <<>>]
    /\ searches = 0
    /\ faults = 0

Goto(a, from, to) == pc[a] = from /\ pc' = [pc EXCEPT ![a] = to]

-----------------------------------------------------------------------------
(* The start of an agent                                                   *)

\* ensure_group (store.py) registers the group again and again, to no effect.
StartEverMem(a) ==
    /\ store = "evermem"
    /\ Goto(a, "down", "ready")
    /\ UNCHANGED <<store, index, saving, recall, faults>>

ListIndexes(a) ==
    /\ store = "atlas"
    /\ Goto(a, "down", "vector")
    /\ known' = [known EXCEPT ![a] = indexes]
    /\ UNCHANGED <<store, indexes, saving, recall, faults>>

\* The mutant takes it that one index does not come without the other.
CreateIndexUnlessAny(a, name, then) ==
    /\ \/ known[a] # {} /\ Goto(a, name, then) /\ UNCHANGED indexes
       \/ known[a] = {} /\ name \notin indexes /\ Goto(a, name, then) /\ indexes' = indexes \union {name}
       \/ known[a] = {} /\ name \in indexes /\ Goto(a, name, "down") /\ UNCHANGED indexes
    /\ UNCHANGED <<store, known, saving, recall, faults>>

\* Nothing is done for an index that was listed; the service refuses to create
\* one of a name it has, and the agent fails.
CreateIndex(a, name, then) ==
    /\ \/ name \in known[a] /\ Goto(a, name, then) /\ UNCHANGED indexes
       \/ name \notin known[a] \union indexes /\ Goto(a, name, then) /\ indexes' = indexes \union {name}
       \/ name \in indexes \ known[a] /\ Goto(a, name, "down") /\ UNCHANGED indexes
    /\ UNCHANGED <<store, known, saving, recall, faults>>

Start(a) ==
    \/ StartEverMem(a)
    \/ ListIndexes(a)
    \/ CreateIndex(a, "vector", "text")
    \/ CreateIndex(a, "text", "ready")

\* The process ends, at any point, or a call of it for an index gets no answer;
\* it is started again.
Crash(a) ==
    /\ faults < MaxFaults
    /\ pc[a] # "down"
    /\ pc' = [pc EXCEPT ![a] = "down"]
    /\ faults' = faults + 1
    /\ hits' = [hits EXCEPT ![a] = <<>>]
    /\ found' = [found EXCEPT ![a] = <<>>]
    /\ raised' = raised \union item[a]
    /\ item' = [item EXCEPT ![a] = {}]
    /\ UNCHANGED <<store, index, requests, items, refused, told, saves, searches>>

-----------------------------------------------------------------------------
(* save_memory                                                             *)

\* An item with an id of its own.
NewItem(a, c) == [id |-> [by |-> a, n |-> saves[a]], user |-> UserOf[a], content |-> c]

\* remember: Atlas has the content embedded first.
Remember(a, c) ==
    /\ saves[a] < MaxSaves
    /\ \A x \in told : ~(x.id.by = a /\ x.content = c)
    /\ Goto(a, "ready", IF store = "atlas" THEN "embed" ELSE "post")
    /\ item' = [item EXCEPT ![a] = {NewItem(a, c)}]
    /\ saves' = [saves EXCEPT ![a] = @ + 1]
    /\ UNCHANGED <<store, index, requests, items, refused, told, raised, recall, faults>>

Embed(a) ==
    /\ Goto(a, "embed", "post")
    /\ UNCHANGED <<store, index, saving, recall, faults>>

Post(a) ==
    /\ Goto(a, "post", "posted")
    /\ requests' = requests \union item[a]
    /\ UNCHANGED <<store, index, item, items, refused, told, raised, saves, recall, faults>>

\* The service executes or refuses a request, whoever still waits for it.
Execute(x) ==
    /\ x \in requests
    /\ requests' = requests \ {x}
    /\ \/ items' = items \union {x} /\ UNCHANGED refused
       \/ refused' = refused \union {x} /\ UNCHANGED items
    /\ UNCHANGED <<store, index, pc, item, told, raised, saves, recall, faults>>

\* The save ends and its caller is told that, or told of an error.
EndSave(a, saved) ==
    /\ pc' = [pc EXCEPT ![a] = "ready"]
    /\ item' = [item EXCEPT ![a] = {}]
    /\ IF saved THEN told' = told \union item[a] /\ UNCHANGED raised
                ELSE raised' = raised \union item[a] /\ UNCHANGED told
    /\ UNCHANGED <<store, index, items, refused, saves, recall>>

\* Mutant: insert_one is not awaited.
AnswerAtOnce(a) ==
    /\ pc[a] = "posted"
    /\ EndSave(a, ~(store = "atlas" /\ item[a] \subseteq refused))
    /\ UNCHANGED <<requests, faults>>

\* Atlas raises when it refuses an item; what EverMemOS answers is not looked at.
Answer(a) ==
    /\ pc[a] = "posted"
    /\ item[a] \subseteq items \union refused
    /\ EndSave(a, ~(store = "atlas" /\ item[a] \subseteq refused))
    /\ UNCHANGED <<requests, faults>>

\* Mutant: a call that gets no answer is made again with a new id.
TimeoutRepeats(a) ==
    /\ faults < MaxFaults
    /\ faults' = faults + 1
    /\ Goto(a, "posted", "post")
    /\ saves' = [saves EXCEPT ![a] = @ + 1]
    /\ item' = [item EXCEPT ![a] = {NewItem(a, x.content) : x \in @}]
    /\ UNCHANGED <<store, index, requests, items, refused, told, raised, recall>>

\* No answer: the client raises.  What it has sent may still arrive.
Timeout(a) ==
    /\ faults < MaxFaults
    /\ faults' = faults + 1
    /\ pc[a] = "posted"
    /\ EndSave(a, FALSE)
    /\ \E lost \in {{}, item[a]} : requests' = requests \ lost

\* The embedding model raises; nothing has been sent.
EmbedFails(a) ==
    /\ faults < MaxFaults
    /\ faults' = faults + 1
    /\ pc[a] = "embed"
    /\ EndSave(a, FALSE)
    /\ UNCHANGED requests

-----------------------------------------------------------------------------
(* search_memory                                                           *)

\* What a search can come to: some of these, in some order, so many at most.
Rankings(set, limit) == UNION {{s \in [1..n -> set] : IsInjective(s)} : n \in 0..limit}

Own(a) == {x \in items : x.user = UserOf[a]}

\* recall of EverMemOS: the service ranks, and its answer is passed on.
Recall(a) ==
    /\ searches < MaxSearches
    /\ searches' = searches + 1
    /\ Goto(a, "ready", IF store = "atlas" THEN "search" ELSE "found")
    /\ IF store = "atlas" THEN UNCHANGED found
       ELSE \E s \in Rankings(Own(a), TopK) : found' = [found EXCEPT ![a] = s]
    /\ UNCHANGED <<store, index, saving, hits, faults>>

\* _vector and _text have one search each, of twice as many items; a search
\* with an index that does not exist finds nothing.
Vector(a) ==
    /\ Goto(a, "search", "searched")
    /\ \E s \in Rankings(IF "vector" \in indexes THEN Own(a) ELSE {}, 2 * TopK) :
           hits' = [hits EXCEPT ![a] = <<s>>]
    /\ UNCHANGED <<store, index, saving, found, searches, faults>>

\* Mutant: the stage $match is missing.
TextAnybody(a) ==
    /\ Goto(a, "searched", "fuse")
    /\ \E s \in Rankings(IF "text" \in indexes THEN items ELSE {}, 2 * TopK) :
           hits' = [hits EXCEPT ![a] = Append(@, s)]
    /\ UNCHANGED <<store, index, saving, found, searches, faults>>

Text(a) ==
    /\ Goto(a, "searched", "fuse")
    /\ \E s \in Rankings(IF "text" \in indexes THEN Own(a) ELSE {}, 2 * TopK) :
           hits' = [hits EXCEPT ![a] = Append(@, s)]
    /\ UNCHANGED <<store, index, saving, found, searches, faults>>

Found(x, s) == \E i \in DOMAIN s : s[i] = x
Rank(x, s)  == CHOOSE i \in DOMAIN s : s[i] = x

\* Mutant: scores[doc_id] = 1.0 / (...), the text ranking's where it has one.
ScoreLast(x, vector, text) ==
    [above |-> 1, below |-> RrfK + IF Found(x, text) THEN Rank(x, text) ELSE Rank(x, vector)]

\* The sum of 1 / (rrf_k + rank) over the rankings an item is in, a fraction.
Score(x, vector, text) ==
    LET v == RrfK + Rank(x, vector)
        t == RrfK + Rank(x, text)
    IN  CASE Found(x, vector) /\ Found(x, text) -> [above |-> v + t, below |-> v * t]
          [] Found(x, vector) /\ ~Found(x, text) -> [above |-> 1, below |-> v]
          [] OTHER -> [above |-> 1, below |-> t]

\* sorted by descending score; it is stable: of two with one score comes first
\* which scores got first, the vector ranking's before the others of the text one.
Before(x, y, vector, text) ==
    LET p == Score(x, vector, text)
        q == Score(y, vector, text)
        place(z) == IF Found(z, vector) THEN Rank(z, vector) ELSE Len(vector) + Rank(z, text)
    IN  \/ p.above * q.below > q.above * p.below
        \/ p.above * q.below = q.above * p.below /\ place(x) < place(y)

\* The k-th is the one that comes after k - 1 others; limit of them at most.
Fusion(vector, text, limit) ==
    LET all        == {vector[i] : i \in DOMAIN vector} \union {text[i] : i \in DOMAIN text}
        earlier(x) == {y \in all : Before(y, x, vector, text)}
        n          == Cardinality(all)
    IN  [k \in 1..(IF n < limit THEN n ELSE limit) |->
            CHOOSE x \in all : Cardinality(earlier(x)) = k - 1]

Fuse(a) ==
    /\ Goto(a, "fuse", "found")
    /\ found' = [found EXCEPT ![a] = Fusion(hits[a][1], hits[a][2], TopK)]
    /\ UNCHANGED <<store, index, saving, hits, searches, faults>>

\* The model has its answer.
Return(a) ==
    /\ Goto(a, "found", "ready")
    /\ hits' = [hits EXCEPT ![a] = <<>>]
    /\ found' = [found EXCEPT ![a] = <<>>]
    /\ UNCHANGED <<store, index, saving, searches, faults>>

SearchFails(a) ==
    /\ faults < MaxFaults
    /\ faults' = faults + 1
    /\ pc[a] \in {"search", "searched"}
    /\ pc' = [pc EXCEPT ![a] = "ready"]
    /\ hits' = [hits EXCEPT ![a] = <<>>]
    /\ UNCHANGED <<store, index, saving, found, searches>>

-----------------------------------------------------------------------------
Next ==
    \/ \E a \in Agents :
           \/ Start(a)
           \/ Crash(a)
           \/ \E c \in Contents : Remember(a, c)
           \/ Embed(a) \/ Post(a) \/ Answer(a) \/ Timeout(a) \/ EmbedFails(a)
           \/ Recall(a) \/ Vector(a) \/ Text(a) \/ Fuse(a) \/ Return(a) \/ SearchFails(a)
    \/ \E x \in requests : Execute(x)

Spec == Init /\ [][Next]_vars

\* An agent that is down is started, and its start goes on.
FairSpec == Spec /\ \A a \in Agents : WF_vars(Start(a))

-----------------------------------------------------------------------------
(* Properties                                                              *)

\* The types; RecallIsOwn says what found has.
TypeOK ==
    /\ store \in {"atlas", "evermem"}
    /\ indexes \subseteq Indexes
    /\ pc \in [Agents -> {"down", "vector", "text", "ready", "embed", "post", "posted",
                          "search", "searched", "fuse", "found"}]
    /\ known \in [Agents -> SUBSET Indexes]
    /\ item \in [Agents -> SUBSET Items]
    /\ \A a \in Agents : IF pc[a] \in {"embed", "post", "posted"} THEN \E x \in Items : item[a] = {x}
                                                                  ELSE item[a] = {}
    /\ requests \subseteq Items /\ items \subseteq Items /\ refused \subseteq Items
    /\ told \subseteq Items /\ raised \subseteq Items
    /\ saves \in [Agents -> Nat]
    /\ hits \in [Agents -> Seq(Seq(Items))]
    /\ searches \in 0..MaxSearches
    /\ faults \in 0..MaxFaults

\* What a model was told is saved is stored, unless EverMemOS has refused it
\* (base.py 49-50): then remember does not know.
SavedIsStored ==
    \A x \in told : x \in items \/ (store = "evermem" /\ x \in refused)

\* An agent's content is stored twice only if a call to store it has raised, the
\* item of which arrived nevertheless: no two of the items that an agent has
\* stored without an error have the same content.
StoredOnce ==
    \A x, y \in items \ (raised \union Early) :
        x.id.by = y.id.by /\ x.content = y.content => x = y

\* What a recall returns is the user's own, each item once, top_k at most; so
\* that neither the two rankings nor items saved between their two searches
\* make it return one twice.
RecallIsOwn ==
    \A a \in Agents :
        /\ \A i \in DOMAIN found[a] : found[a][i] \in Own(a)
        /\ IsInjective(found[a])
        /\ Len(found[a]) <= TopK

\* An item that both rankings have comes before every item that only one has, or
\* takes its place, as long as the rankings are no longer than RrfK + 1.
\* ("B ranks in both lists -> fused score beats A and C", test_atlas.py 127.)
AgreementComesFirst ==
    \A a \in Agents :
        pc[a] = "found" /\ store = "atlas" /\ 2 * TopK <= RrfK + 1 =>
            LET vector == hits[a][1]
                text   == hits[a][2]
                both   == {x \in items : Found(x, vector) /\ Found(x, text)}
            IN  \A i \in DOMAIN found[a] : found[a][i] \notin both =>
                    \A x \in both : \E j \in 1..i : found[a][j] = x

\* Both indexes are there some day, although agents that start together race for
\* them, and one may end between the creation of the first and the second.
IndexesComeAbout == store = "atlas" => <>[](indexes = Indexes)
=============================================================================

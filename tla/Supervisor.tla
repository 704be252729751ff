----------------------------- MODULE Supervisor -----------------------------
(***************************************************************************)
(* The supervisor graph built by create_supervisor_agent                   *)
(* (synapse/graphs/supervisor.py): a routing model and the worker graphs   *)
(* it delegates to, run again and again, from nothing or on the thread the *)
(* last run left.                                                          *)
(*                                                                         *)
(* A message is represented by its kind, the worker it is about and the    *)
(* turn it was written in.  A worker returns its last message: a result of *)
(* its own, or the handoff it was given when it had nothing to add, which  *)
(* add_messages finds in the list already and does not add again.          *)
(***************************************************************************)
EXTENDS Naturals, Sequences, SequencesExt

CONSTANTS
    Workers,         \* names of the worker graphs
    Nobody,          \* the worker of a message that is about none
    Echoing,         \* the workers that may add nothing (an empty plan)
    RecursionLimit,  \* supersteps LangGraph's recursion limit leaves a run
    MaxTurns         \* bound: runs

ASSUME SupervisorAssumption ==
    /\ Workers # {}  \* otherwise create_supervisor_agent raises ValueError
    /\ Nobody \notin Workers
    /\ Echoing \subseteq Workers
    /\ RecursionLimit \in Nat
    /\ MaxTurns \in Nat

VARIABLES
    pc,          \* how far the run is
    next,        \* state["next"], a worker or Nobody for FINISH
    messages,    \* state["messages"]
    supersteps,  \* supersteps of the current run
    turn         \* runs started

vars == <<pc, next, messages, supersteps, turn>>

Kinds    == {"human", "handoff", "result", "answer", "empty"}
Messages == [kind : Kinds, worker : Workers \union {Nobody}, turn : 1..MaxTurns]

TypeOK ==
    /\ pc \in {"idle", "supervisor", "worker", "ended", "failed"}
    /\ next \in Workers \union {Nobody}
    /\ messages \in Seq(Messages)
    /\ supersteps \in 0..RecursionLimit
    /\ turn \in 0..MaxTurns
    /\ pc = "worker" => next \in Workers

Init ==
    /\ pc = "idle"
    /\ next = Nobody
    /\ messages = <<>>
    /\ supersteps = 0
    /\ turn = 0

Running == pc \in {"supervisor", "worker"}

Message(kind, worker) == [kind |-> kind, worker |-> worker, turn |-> turn]

\* A caller starts a run, with a message or with an empty list.
Start(fresh, asked) ==
    LET kept == IF fresh THEN <<>> ELSE messages
    IN  /\ ~Running
        /\ turn < MaxTurns
        /\ turn' = turn + 1
        /\ pc' = "supervisor"
        /\ messages' = IF asked THEN Append(kept, Message("human", Nobody)')
                                ELSE kept
        /\ next' = IF fresh THEN Nobody ELSE next
        /\ supersteps' = 0

Superstep(node) ==
    /\ pc = node
    /\ supersteps < RecursionLimit
    /\ supersteps' = supersteps + 1
    /\ UNCHANGED turn

route(to) == IF to = Nobody THEN "ended" ELSE "worker"

\* The model chooses FINISH, with a final answer or, its default, without one.
Finish(text) ==
    /\ Superstep("supervisor")
    /\ next' = Nobody
    /\ messages' = Append(messages, Message(IF text THEN "answer" ELSE "empty", Nobody))
    /\ pc' = route(next')

\* The model chooses a worker and hands it an instruction or, without one, the
\* last message of the conversation.
Delegate(w, instruction) ==
    /\ Superstep("supervisor")
    /\ instruction \/ messages # <<>>
    /\ next' = w
    /\ messages' = Append(messages, Message("handoff", w))
    /\ pc' = route(next')

\* Mutant: the edge from a worker leads to itself.
RunWorkerAgain ==
    /\ Superstep("worker")
    /\ \/ messages' = Append(messages, Message("result", next))
       \/ next \in Echoing /\ UNCHANGED messages
    /\ pc' = "worker"
    /\ UNCHANGED next

\* Mutant: the worker's messages but the last are returned, all known already.
RunWorkerDropsResult ==
    /\ Superstep("worker")
    /\ pc' = "supervisor"
    /\ UNCHANGED <<next, messages>>

\* Mutant: a worker that added nothing is waited for.
RunWorkerWaits ==
    /\ Superstep("worker")
    /\ next \notin Echoing
    /\ messages' = Append(messages, Message("result", next))
    /\ pc' = "supervisor"
    /\ UNCHANGED next

\* The worker graph runs on the whole conversation and returns its last
\* message; the edge leads back to the supervisor.
RunWorker ==
    /\ Superstep("worker")
    /\ \/ messages' = Append(messages, Message("result", next))
       \/ next \in Echoing /\ UNCHANGED messages
    /\ pc' = "supervisor"
    /\ UNCHANGED next

Fail ==
    /\ pc' = "failed"
    /\ UNCHANGED <<next, messages, supersteps, turn>>

\* The model, or the worker graph, raises.
CallFails == Running /\ Fail

\* The fallback for a missing instruction needs a message: IndexError.
NoHandoff == pc = "supervisor" /\ messages = <<>> /\ Fail

\* LangGraph refuses another superstep: GraphRecursionError.
OutOfSteps == Running /\ supersteps = RecursionLimit /\ Fail

Run ==
    \/ \E text \in BOOLEAN : Finish(text)
    \/ \E w \in Workers, instruction \in BOOLEAN : Delegate(w, instruction)
    \/ RunWorker
    \/ OutOfSteps

Next ==
    \/ \E fresh, asked \in BOOLEAN : Start(fresh, asked)
    \/ Run
    \/ NoHandoff
    \/ CallFails

Spec == Init /\ [][Next]_vars

\* The runtime goes on with a run: a call of the model or of a worker graph
\* returns or raises.
FairSpec == Spec /\ WF_vars(Run)

-----------------------------------------------------------------------------
\* A result is the answer to a handoff: in every thread each result directly
\* follows the handoff to its worker in the same turn, whatever failed before
\* ("Delegate one sub-task at a time", supervisor.py 27).
ResultsAnswerHandoffs ==
    \A i \in DOMAIN messages :
        messages[i].kind = "result" =>
            i > 1 /\ messages[i - 1] = [messages[i] EXCEPT !.kind = "handoff"]

\* A run that ends has written the last message, and each of its handoffs has
\* a result unless it went to a worker that added nothing.
EndsWithFinish ==
    pc = "ended" =>
        /\ Last(messages).turn = turn
        /\ Last(messages).kind \in {"answer", "empty"}
        /\ \A i \in DOMAIN messages :
              messages[i].kind = "handoff" /\ messages[i].turn = turn
              => messages[i + 1].kind = "result" \/ messages[i].worker \in Echoing

\* Every run ends or fails: that the supervisor and a worker alternate (the two
\* edges of supervisor.py 113-116 form a cycle, and nothing in the graph counts)
\* is stopped by the recursion limit, whatever the models answer and also when
\* workers add nothing.
EveryRunEnds == Running ~> ~Running
=============================================================================

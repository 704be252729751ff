----------------------------- MODULE PlanExecute -----------------------------
(***************************************************************************)
(* The plan-execute-replan graph built by create_plan_execute_agent        *)
(* (synapse/graphs/plan_execute.py), run again and again: each run starts   *)
(* from nothing or goes on with the thread the last one left.              *)
(*                                                                         *)
(* LangGraph runs one node per superstep, merges what the node returns     *)
(* into the state when it is done, and then asks the edges for the next    *)
(* node.  A node that raises ends the run and returns nothing, and so does *)
(* a superstep beyond the recursion limit.  With a checkpointer a run       *)
(* starts from the state its thread was left in; a run on a new thread, or *)
(* without a checkpointer, starts from nothing.                            *)
(*                                                                         *)
(* A plan is represented by the number of its steps, past_steps by its     *)
(* length, the response by whether it is a non-empty text.                 *)
(***************************************************************************)
EXTENDS Integers

CONSTANTS
    CycleBounds,     \* what the argument max_cycles may be: any number
    Limits,          \* supersteps the recursion limits of callers leave a run
    Callers,         \* who starts runs: a "program" passes input,
                     \* the "server" (AgentServer) passes messages only
    MaxPlan,         \* bound: steps in a plan a model returns
    MaxTurns         \* bound: runs

ASSUME PlanExecuteAssumption ==
    /\ CycleBounds \subseteq Int
    /\ Limits \subseteq Nat
    /\ Callers \subseteq {"program", "server"}
    /\ MaxPlan \in Nat
    /\ MaxTurns \in Nat

VARIABLES
    max_cycles, \* the argument the graph was built with
    next,       \* the node to run, or how the last run stopped
    input,      \* the state has a value for input
    plan,       \* number of steps in plan
    past_steps, \* number of entries in past_steps
    response,   \* response is a non-empty text
    supersteps, \* supersteps of the current run
    limit,      \* supersteps it may take
    turn,       \* runs started
    fresh,      \* history: the current run started from nothing
    executed,   \* history: steps the current run has executed
    decision,   \* history: what the replanner last decided in the current run
    fault       \* history: a model or tool call of the current run has raised

state == <<input, plan, past_steps, response>>
vars  == <<max_cycles, next, state, supersteps, limit, turn, fresh, executed,
           decision, fault>>

Nodes     == {"plan", "execute", "replan"}
Decisions == {"none", "answer", "empty_answer", "steps", "no_steps"}

TypeOK ==
    /\ max_cycles \in CycleBounds
    /\ next \in Nodes \union {"idle", "ended", "failed"}
    /\ input \in BOOLEAN
    /\ plan \in 0..MaxPlan
    /\ past_steps \in Nat
    /\ response \in BOOLEAN
    /\ limit \in Limits \union {0}
    /\ supersteps \in 0..limit
    /\ turn \in 0..MaxTurns
    /\ fresh \in BOOLEAN
    /\ executed \in 0..past_steps
    /\ decision \in Decisions
    /\ fault \in BOOLEAN

Init ==
    /\ max_cycles \in CycleBounds
    /\ next = "idle"
    /\ input = FALSE
    /\ plan = 0
    /\ past_steps = 0
    /\ response = FALSE
    /\ supersteps = 0
    /\ limit = 0
    /\ turn = 0
    /\ fresh = TRUE
    /\ executed = 0
    /\ decision = "none"
    /\ fault = FALSE

\* A caller starts a run, on the thread of the last one or from nothing.  It
\* passes input or, through AgentServer, messages alone.
Start ==
    /\ next \notin Nodes
    /\ turn < MaxTurns
    /\ turn' = turn + 1
    /\ next' = "plan"
    /\ fresh' \in BOOLEAN
    /\ \E caller \in Callers :
          input' = (caller = "program" \/ (~fresh' /\ input))
    /\ IF fresh'
       THEN plan' = 0 /\ past_steps' = 0 /\ response' = FALSE
       ELSE UNCHANGED <<plan, past_steps, response>>
    /\ limit' \in Limits
    /\ supersteps' = 0
    /\ executed' = 0
    /\ decision' = "none"
    /\ fault' = FALSE
    /\ UNCHANGED max_cycles

\* A superstep that runs node n.
Superstep(n) ==
    /\ next = n
    /\ supersteps < limit
    /\ supersteps' = supersteps + 1
    /\ UNCHANGED <<max_cycles, input, limit, turn, fresh, fault>>

\* The planner model returns a plan, which may be empty.
Plan ==
    /\ Superstep("plan")
    /\ input
    /\ plan' \in 0..MaxPlan
    /\ next' = "execute"
    /\ UNCHANGED <<past_steps, response, executed, decision>>

\* Mutant: the bound is compared before the step is counted.
RouteAfterExecuteLate(past) == IF past > max_cycles THEN "ended" ELSE "replan"

\* Mutant: the bound counts the step to come.
RouteAfterExecuteEarly(past) == IF past + 1 >= max_cycles THEN "ended" ELSE "replan"

route_after_execute(past) == IF past >= max_cycles THEN "ended" ELSE "replan"

\* The executor runs the first step, removes it from the plan and records it.
Execute ==
    /\ Superstep("execute")
    /\ plan > 0
    /\ plan' = plan - 1
    /\ past_steps' = past_steps + 1
    /\ executed' = executed + 1
    /\ next' = route_after_execute(past_steps')
    /\ UNCHANGED <<response, decision>>

route_after_replan(resp, p) == IF resp \/ p = 0 THEN "ended" ELSE "execute"

\* The replanner returns a final response, possibly an empty text.
Respond(text) ==
    /\ response' = text
    /\ decision' = IF text THEN "answer" ELSE "empty_answer"
    /\ UNCHANGED plan

\* The replanner returns a plan of n steps.
Revise(n) ==
    /\ plan' = n
    /\ decision' = IF n > 0 THEN "steps" ELSE "no_steps"
    /\ UNCHANGED response

\* A response found in the state ends the run, whichever run wrote it.
Replan ==
    /\ Superstep("replan")
    /\ \/ \E text \in BOOLEAN : Respond(text)
       \/ \E n \in 0..MaxPlan : Revise(n)
    /\ next' = route_after_replan(response', plan')
    /\ UNCHANGED <<past_steps, executed>>

\* The run ends with an exception; the state of the last superstep stays.
Fail ==
    /\ next' = "failed"
    /\ UNCHANGED <<max_cycles, state, supersteps, limit, turn, fresh, executed, decision>>

\* plan_step reads state["input"], which messages alone do not set: KeyError.
NoInput ==
    /\ next = "plan"
    /\ ~input
    /\ Fail
    /\ UNCHANGED fault

\* Mutant: the node waits for a plan instead of raising.
NoStepWaits ==
    /\ next = "execute"
    /\ plan = 0
    /\ UNCHANGED vars

\* execute_step takes state["plan"][0] of an empty plan: IndexError.
NoStep ==
    /\ next = "execute"
    /\ plan = 0
    /\ Fail
    /\ UNCHANGED fault

\* A model or tool call raises.
CallFails ==
    /\ next \in Nodes
    /\ Fail
    /\ fault' = TRUE

\* LangGraph refuses another superstep: GraphRecursionError.
OutOfSteps ==
    /\ next \in Nodes
    /\ supersteps = limit
    /\ Fail
    /\ UNCHANGED fault

Run == Plan \/ Execute \/ Replan \/ NoInput \/ NoStep \/ OutOfSteps

Next == Start \/ Run \/ CallFails

Spec == Init /\ [][Next]_vars

\* Every model and tool call returns or raises, and the event loop goes on: a
\* run that CallFails does not stop takes its next step.
FairSpec == Spec /\ WF_vars(Run)

-----------------------------------------------------------------------------
\* The steps max_cycles allows a run.  It is compared after a step, so there is
\* one where it is zero or less.
Cycles == IF max_cycles > 0 THEN max_cycles ELSE 1

\* "max_cycles: Safety bound on plan-execute-replan iterations": no run
\* executes more steps than that, or more than the one before it is looked at, on
\* however old a thread, and none takes more than two supersteps per cycle
\* (route_after_execute, plan_execute.py 155-158).
CyclesBounded ==
    /\ executed <= Cycles
    /\ supersteps <= 2 * Cycles

\* With room for two supersteps per cycle the recursion limit is never what
\* stops a run: the graph's own bound comes first.
OwnBoundFirst ==
    limit >= 2 * Cycles => ~(next \in Nodes /\ supersteps = limit)

\* Every run ends or fails.
EveryRunStops == next \in Nodes ~> next \notin Nodes

\* A run that started from nothing, after however many others, is followed by
\* the replanner after every step until it has used up max_cycles
\* (route_after_execute, plan_execute.py 155-158).
CyclesAreOwn ==
    [][fresh /\ executed' > executed
       => next' = "replan" \/ executed' = Cycles]_vars

\* "Updated plan to continue, or the final response to finish"
\* (plan_execute.py 65-67): a run that started from nothing executes a plan
\* with steps.
UpdatedPlanContinues ==
    [][fresh /\ next = "replan" /\ next' # "failed" /\ decision' = "steps"
       => next' = "execute"]_vars

\* The docstring as it stands (plan_execute.py 95): fails for max_cycles = 0, where
\* a run executes a step.
MaxCyclesIsABound == executed <= max_cycles

\* "Any compiled StateGraph that consumes and returns a messages list (all
\* Synapse templates do)" (runtime/server.py 91-92): given messages, a run
\* fails before its first superstep only when a call raised.
ServedFromMessages == next = "failed" /\ supersteps = 0 => fault \/ limit = 0
=============================================================================

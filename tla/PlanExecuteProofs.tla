-------------------------- MODULE PlanExecuteProofs --------------------------
(***************************************************************************)
(* Proofs about PlanExecute for every max_cycles, recursion limit, plan    *)
(* length and number of turns: what its runs check on small instances.     *)
(***************************************************************************)
EXTENDS PlanExecute, TLAPS

\* Where a run is says how many supersteps and steps it has taken.
Progress ==
    /\ next = "plan" => supersteps = 0 /\ executed = 0
    /\ next = "execute" => supersteps = 1 + 2 * executed /\ executed < Cycles
    /\ next = "replan" => supersteps = 2 * executed /\ executed < Cycles
    /\ CyclesBounded

\* A run that started from nothing has nothing of an earlier run.
Fresh ==
    fresh =>
        /\ past_steps = executed
        /\ next \in Nodes => ~response

IInv == TypeOK /\ Progress /\ Fresh

\* The state before the first run satisfies the invariant.
LEMMA InitInvariant == Init => IInv
<1> SUFFICES ASSUME Init PROVE IInv
    OBVIOUS
<1>1. TypeOK
  <2>1. /\ input \in BOOLEAN /\ response \in BOOLEAN /\ fault \in BOOLEAN
        /\ fresh \in BOOLEAN
        BY Zenon DEF Init
  <2>2. max_cycles \in CycleBounds /\ next = "idle" /\ decision = "none"
        /\ plan = 0 /\ past_steps = 0 /\ supersteps = 0 /\ limit = 0 /\ turn = 0 /\ executed = 0
        BY DEF Init
  <2> QED BY <2>1, <2>2, PlanExecuteAssumption DEF TypeOK, Decisions
<1>2. Progress
      BY PlanExecuteAssumption DEF Init, Progress, CyclesBounded, Cycles
<1>3. Fresh
      BY DEF Init, Fresh, Nodes
<1> QED BY <1>1, <1>2, <1>3 DEF IInv

\* Every step preserves it.
LEMMA NextInvariant == IInv /\ [Next]_vars => IInv'
<1> SUFFICES ASSUME IInv, [Next]_vars PROVE IInv'
    OBVIOUS
<1> USE PlanExecuteAssumption DEF IInv, TypeOK, Nodes, Decisions, Cycles
<1>1. CASE Start
  <2>1. TypeOK'
    <3>1. input' \in BOOLEAN /\ fault' \in BOOLEAN /\ fresh' \in BOOLEAN
          BY <1>1, Zenon DEF Start
    <3>2. next' = "plan" /\ supersteps' = 0 /\ executed' = 0 /\ limit' \in Limits
          /\ turn' = turn + 1 /\ turn < MaxTurns
          /\ decision' = "none" /\ max_cycles' = max_cycles
          BY <1>1 DEF Start
    <3>3. plan' \in 0..MaxPlan /\ past_steps' \in Nat
          BY <1>1 DEF Start
    <3>4. response' \in BOOLEAN
          BY <1>1 DEF Start
    <3> QED BY <3>1, <3>2, <3>3, <3>4
  <2>2. Progress'
        BY <1>1 DEF Start, Progress, CyclesBounded
  <2>3. Fresh'
        BY <1>1 DEF Start, Fresh
  <2> QED BY <2>1, <2>2, <2>3
<1>2. CASE Plan
  <2>1. TypeOK'
        BY <1>2 DEF Plan, Superstep
  <2>2. Progress'
        BY <1>2 DEF Plan, Superstep, Progress, CyclesBounded
  <2>3. Fresh'
        BY <1>2 DEF Plan, Superstep, Fresh
  <2> QED BY <2>1, <2>2, <2>3
<1>3. CASE Execute
  <2>1. next' = IF past_steps' >= max_cycles THEN "ended" ELSE "replan"
        BY <1>3 DEF Execute, route_after_execute
  <2>2. TypeOK'
        BY <1>3, <2>1 DEF Execute, Superstep
  <2>3. Progress'
        BY <1>3, <2>1 DEF Execute, Superstep, Progress, CyclesBounded
  <2>4. Fresh'
        BY <1>3, <2>1 DEF Execute, Superstep, Fresh
  <2> QED BY <2>2, <2>3, <2>4
<1>4. CASE Replan
  <2>1. response' \in BOOLEAN /\ plan' \in 0..MaxPlan /\ decision' \in Decisions
        BY <1>4 DEF Replan, Respond, Revise
  <2>2. next' \in {"ended", "execute"} /\ (next' = "execute" => ~response')
        BY <1>4 DEF Replan, route_after_replan
  <2>3. TypeOK'
        BY <1>4, <2>1, <2>2 DEF Replan, Superstep
  <2>4. Progress'
        BY <1>4, <2>2 DEF Replan, Superstep, Progress, CyclesBounded
  <2>5. Fresh'
        BY <1>4, <2>2 DEF Replan, Superstep, Fresh
  <2> QED BY <2>3, <2>4, <2>5
<1>5. CASE Fail /\ fault' \in BOOLEAN
  <2>1. TypeOK'
        BY <1>5 DEF Fail, state
  <2>2. Progress' /\ Fresh'
        BY <1>5 DEF Fail, state, Progress, Fresh, CyclesBounded
  <2> QED BY <2>1, <2>2
<1>6. CASE UNCHANGED vars
      BY <1>6 DEF vars, state, Progress, Fresh, CyclesBounded
<1>7. NoInput \/ NoStep \/ OutOfSteps \/ CallFails => Fail /\ fault' \in BOOLEAN
      BY DEF NoInput, NoStep, OutOfSteps, CallFails
<1> QED BY <1>1, <1>2, <1>3, <1>4, <1>5, <1>6, <1>7 DEF Next, Run

\* The invariant holds in every reachable state.
LEMMA Invariant == Spec => []IInv
<1>1. Init => IInv
      BY InitInvariant
<1>2. IInv /\ [Next]_vars => IInv'
      BY NextInvariant
<1> QED BY <1>1, <1>2, PTL DEF Spec

\* Every variable keeps its type.
THEOREM PlanExecuteTypes == Spec => []TypeOK
<1>1. IInv => TypeOK
      BY DEF IInv
<1> QED BY <1>1, Invariant, PTL

\* No run executes more than max_cycles steps, or one where that is less, or
\* takes more than two supersteps per cycle, whatever the thread holds when it
\* starts.
THEOREM Bounded == Spec => []CyclesBounded
<1>1. IInv => CyclesBounded
      BY DEF IInv, Progress
<1> QED BY <1>1, Invariant, PTL

\* With two supersteps per cycle to spend, the graph's own bound always stops
\* a run before LangGraph's limit does.
THEOREM OwnBound == Spec => []OwnBoundFirst
<1>1. IInv => OwnBoundFirst
      BY PlanExecuteAssumption
      DEF IInv, TypeOK, Progress, OwnBoundFirst, Nodes, Cycles
<1> QED BY <1>1, Invariant, PTL

\* A run that started from nothing replans after every step until its cycles
\* are used up.
THEOREM OwnCycles == Spec => CyclesAreOwn
<1>1. IInv /\ IInv' /\ [Next]_vars
      => [fresh /\ executed' > executed
          => next' = "replan" \/ executed' = Cycles]_vars
  <2> SUFFICES ASSUME IInv, IInv', [Next]_vars, fresh, executed' > executed
               PROVE  next' = "replan" \/ executed' = Cycles
      OBVIOUS
  <2> USE PlanExecuteAssumption DEF IInv, TypeOK
  <2>1. CASE Execute
    <3>1. fresh' = fresh /\ max_cycles' = max_cycles
          BY <2>1 DEF Execute, Superstep
    <3>2. past_steps' = executed' /\ executed' <= Cycles
          BY <3>1 DEF Fresh, Progress, CyclesBounded, Cycles
    <3> QED BY <2>1, <3>1, <3>2 DEF Execute, route_after_execute, Cycles
  <2>2. CASE ~Execute
    <3>1. executed' = executed \/ executed' = 0
          BY <2>2 DEF Next, Run, Start, Plan, Replan, NoInput, NoStep,
                      OutOfSteps, CallFails, Fail, vars
    <3> QED BY <3>1
  <2> QED BY <2>1, <2>2
<1> QED BY <1>1, Invariant, PTL DEF Spec, CyclesAreOwn

\* A run that started from nothing executes every plan with steps.
THEOREM PlansContinue == Spec => UpdatedPlanContinues
<1>1. IInv /\ [Next]_vars
      => [fresh /\ next = "replan" /\ next' # "failed" /\ decision' = "steps"
          => next' = "execute"]_vars
  <2> SUFFICES ASSUME IInv, Next, fresh,
                      next = "replan", next' # "failed", decision' = "steps"
               PROVE  next' = "execute"
      BY DEF Next
  <2>1. Replan
        BY DEF Next, Run, Start, Plan, Execute, Superstep, NoInput, NoStep,
               OutOfSteps, CallFails, Fail, Nodes
  <2>2. ~response
        BY DEF IInv, Fresh, Nodes
  <2>3. plan' > 0 /\ response' = response
        BY <2>1 DEF Replan, Respond, Revise
  <2> QED BY <2>1, <2>2, <2>3 DEF Replan, route_after_replan
<1> QED BY <1>1, Invariant, PTL DEF Spec, UpdatedPlanContinues
=============================================================================

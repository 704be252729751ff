---------------------------- MODULE DeepResearch ----------------------------
(***************************************************************************)
(* The deep research graph built by create_deep_research_agent             *)
(* (synapse/graphs/deep_research.py): a planner, one analyst branch per    *)
(* sub-question, a synthesizer; run again and again, from nothing or on    *)
(* the thread the last run left.                                           *)
(*                                                                         *)
(* The branches are tasks of one superstep: they run concurrently, what    *)
(* they return is merged in the order of the Sends when all have returned, *)
(* and the first that raises ends the run and discards what the others     *)
(* returned.  With a checkpointer a run starts from the state its thread   *)
(* was left in; a run on a new thread, or without a checkpointer, starts   *)
(* from nothing.  Three supersteps are below any recursion limit.          *)
(*                                                                         *)
(* A question is represented by the turn whose caller asked it, a          *)
(* sub-question by the turn that planned it and its position, a brief by   *)
(* its sub-question, a report by the question and the briefs it was made   *)
(* of.  Turn 0 stands for no question.                                     *)
(***************************************************************************)
EXTENDS Naturals, Sequences, SequencesExt

CONSTANTS
    MaxQuestions,  \* the argument max_questions
    Inputs,        \* what callers pass: subset of {"question", "message"} each
    MaxPlanned,    \* bound: sub-questions the planner model returns
    MaxTurns       \* bound: runs

ASSUME DeepResearchAssumption ==
    /\ MaxQuestions \in Nat
    /\ Inputs \subseteq SUBSET {"question", "message"}
    /\ MaxPlanned \in Nat
    /\ MaxTurns \in Nat

VARIABLES
    pc,             \* the node to run, or how the last run stopped
    turn,           \* runs started
    begun,          \* history: the run began from nothing, with what input
    messages,       \* who wrote each message, in which turn
    question,       \* state["question"]
    sub_questions,  \* state["sub_questions"]
    returned,       \* the branches of this superstep that have returned
    briefs,         \* state["briefs"]
    report          \* state["report"]

thread == <<messages, question, sub_questions, briefs, report>>
vars   == <<pc, turn, begun, thread, returned>>

Turns        == 0..MaxTurns
SubQuestions == (1..MaxTurns) \X (1..MaxQuestions)
NoReport     == [question |-> 0, briefs |-> <<>>]

TypeOK ==
    /\ pc \in {"idle", "plan", "research", "synthesize", "ended", "failed"}
    /\ turn \in Turns
    /\ begun \in [fresh : BOOLEAN, passed : SUBSET {"question", "message"}]
    /\ messages \in Seq([author : {"human", "agent"}, turn : Turns])
    /\ question \in Turns
    /\ sub_questions \in Seq(SubQuestions)
    /\ returned \subseteq DOMAIN sub_questions
    /\ briefs \in Seq(SubQuestions)
    /\ report \in [question : Turns, briefs : Seq(SubQuestions)]

Init ==
    /\ pc = "idle"
    /\ turn = 0
    /\ begun = [fresh |-> TRUE, passed |-> {}]
    /\ messages = <<>>
    /\ question = 0
    /\ sub_questions = <<>>
    /\ returned = {}
    /\ briefs = <<>>
    /\ report = NoReport

Running == pc \in {"plan", "research", "synthesize"}

\* A caller starts a run with a question, a human message, both or neither (an
\* empty list of messages).
Start(fresh, passed) ==
    LET kept == IF fresh THEN <<>> ELSE messages
    IN  /\ ~Running
        /\ turn < MaxTurns
        /\ turn' = turn + 1
        /\ pc' = "plan"
        /\ begun' = [fresh |-> fresh, passed |-> passed]
        /\ messages' = IF "message" \in passed
                       THEN Append(kept, [author |-> "human", turn |-> turn + 1])
                       ELSE kept
        /\ question' = IF "question" \in passed THEN turn + 1
                       ELSE IF fresh THEN 0 ELSE question
        /\ IF fresh
           THEN sub_questions' = <<>> /\ briefs' = <<>> /\ report' = NoReport
           ELSE UNCHANGED <<sub_questions, briefs, report>>
        /\ returned' = {}

\* The last human message.
LastHuman(msgs) ==
    LET at == {i \in DOMAIN msgs : msgs[i].author = "human"}
    IN  IF at = {} THEN 0 ELSE msgs[CHOOSE i \in at : \A j \in at : j <= i].turn

\* Mutant: a human message goes before the explicit question.
QuestionFromMessages ==
    IF LastHuman(messages) # 0 THEN LastHuman(messages) ELSE question

\* The explicit question or else the last human message; 0 when it raises.
QuestionFrom == IF question # 0 THEN question ELSE LastHuman(messages)

\* The planner's list is cut to max_questions.
First(n) == IF n < MaxQuestions THEN n ELSE MaxQuestions

\* The planner model returns n sub-questions.  The question it was asked stays
\* in the state.  Without a sub-question no Send is made and the run is over.
Plan(n) ==
    /\ pc = "plan"
    /\ QuestionFrom # 0
    /\ question' = QuestionFrom
    /\ sub_questions' = [i \in 1..First(n) |-> <<turn, i>>]
    /\ pc' = IF First(n) = 0 THEN "ended" ELSE "research"
    /\ UNCHANGED <<turn, begun, messages, returned, briefs, report>>

\* A branch has its brief.
BranchReturns(i) ==
    /\ pc = "research"
    /\ i \in DOMAIN sub_questions \ returned
    /\ returned' = returned \union {i}
    /\ UNCHANGED <<pc, turn, begun, thread>>

\* Mutant: the first brief is enough to go on.
BarrierAny ==
    /\ pc = "research"
    /\ returned # {}
    /\ briefs' = briefs \o SelectSeq(sub_questions, LAMBDA q : q[2] \in returned)
    /\ returned' = {}
    /\ pc' = "synthesize"
    /\ UNCHANGED <<turn, begun, messages, question, sub_questions, report>>

\* Mutant: the graph waits for max_questions branches.
BarrierFull ==
    /\ pc = "research"
    /\ returned = 1..MaxQuestions
    /\ briefs' = briefs \o sub_questions
    /\ returned' = {}
    /\ pc' = "synthesize"
    /\ UNCHANGED <<turn, begun, messages, question, sub_questions, report>>

\* Every branch has returned and the briefs are added to the state.
Barrier ==
    /\ pc = "research"
    /\ returned = DOMAIN sub_questions
    /\ briefs' = briefs \o sub_questions
    /\ returned' = {}
    /\ pc' = "synthesize"
    /\ UNCHANGED <<turn, begun, messages, question, sub_questions, report>>

\* The synthesizer writes a report from every brief in the state.
Synthesize ==
    /\ pc = "synthesize"
    /\ report' = [question |-> question, briefs |-> briefs]
    /\ messages' = Append(messages, [author |-> "agent", turn |-> turn])
    /\ pc' = "ended"
    /\ UNCHANGED <<turn, begun, question, sub_questions, returned, briefs>>

\* The run ends with an exception: a model or tool call raises, in a node or
\* in a branch that is still running, or there is no question at all.
Fail ==
    /\ Running
    /\ pc = "research" => returned # DOMAIN sub_questions
    /\ pc' = "failed"
    /\ returned' = {}
    /\ UNCHANGED <<turn, begun, thread>>

NoQuestion == pc = "plan" /\ QuestionFrom = 0 /\ Fail

Node ==
    \/ \E n \in 0..MaxPlanned : Plan(n)
    \/ Barrier
    \/ Synthesize
    \/ NoQuestion

Next ==
    \/ \E fresh \in BOOLEAN, passed \in Inputs : Start(fresh, passed)
    \/ Node
    \/ \E i \in 1..MaxQuestions : BranchReturns(i)
    \/ Fail

Spec == Init /\ [][Next]_vars

\* Every model and tool call returns or raises, and the event loop goes on.
FairSpec ==
    /\ Spec
    /\ WF_vars(Node)
    /\ \A i \in 1..MaxQuestions : WF_vars(BranchReturns(i))

-----------------------------------------------------------------------------
\* The report of the run that has just ended.
Reported == pc = "ended" /\ sub_questions # <<>>

\* "merges all briefs into one structured, cited report" (deep_research.py
\* 5-9): a run that began from nothing reports one brief for each of its
\* sub-questions, in the planner's order, at most max_questions of them, and
\* nothing else; on a thread these are the last of its briefs.
ReportCoversOwnPlan ==
    Reported =>
        /\ begun.fresh => report.briefs = sub_questions
        /\ IsSuffix(sub_questions, report.briefs)
        /\ Len(sub_questions) <= MaxQuestions
        /\ \A i \in DOMAIN sub_questions : sub_questions[i] = <<turn, i>>

\* "Research question: explicit question or the last human message"
\* (deep_research.py 84-91): a run that began from nothing, or was passed a
\* question, reports on what its caller asked, whatever the thread holds.
ReportAnswersCaller ==
    Reported /\ (begun.fresh \/ "question" \in begun.passed)
    => report.question = turn

\* The same words: a run reports on the explicit question or else on the last
\* human message, on a thread as well.
ReportAnswersMessage ==
    Reported /\ begun.passed # {} => report.question = turn

\* "The A2A contract: messages in, answer in the final message"
\* (tests/test_graphs.py 65): the report is the last message.
ReportIsLastMessage ==
    Reported => messages # <<>> /\ Last(messages) = [author |-> "agent", turn |-> turn]

\* However many runs of a thread fail with briefs already returned, the thread
\* holds each brief once, all briefs of a plan or none, turn after turn
\* (the reducer operator.add on briefs, deep_research.py 80).
BriefsAreWhole ==
    /\ \A i, j \in DOMAIN briefs :
          i < j => \/ briefs[i][1] < briefs[j][1]
                   \/ briefs[i][1] = briefs[j][1] /\ briefs[i][2] < briefs[j][2]
    /\ pc = "synthesize" => IsSuffix(sub_questions, briefs)
    /\ pc = "research" => \A i \in DOMAIN briefs : briefs[i][1] < turn

\* Every run ends, whichever branch returns last.
EveryRunEnds == Running ~> ~Running
=============================================================================

-------------------------- MODULE DeepResearchProofs --------------------------
(***************************************************************************)
(* Proofs about DeepResearch for any number of sub-questions and runs.     *)
(***************************************************************************)
EXTENDS DeepResearch, WellFoundedInduction, TLAPS

(* The inductive invariant.                                                *)

\* A run has a number, and no branch has returned but where branches run.
Numbered ==
    /\ Running => turn >= 1
    /\ pc # "research" => returned = {}

\* A plan that is worked on, or was, is the plan of its turn.
OwnPlan ==
    pc \in {"research", "synthesize", "ended"} =>
        /\ Len(sub_questions) <= MaxQuestions
        /\ \A i \in 1..Len(sub_questions) : sub_questions[i] = <<turn, i>>

\* A caller who passes a question, or begins from nothing, has the question that
\* is being researched; until the planner has run it may be a message still.
OwnQuestion ==
    /\ pc = "plan" /\ "question" \in begun.passed => question = turn
    /\ pc = "plan" /\ begun.fresh /\ "question" \notin begun.passed =>
           question = 0 /\ \A i \in 1..Len(messages) : messages[i].turn = turn
    /\ pc \in {"research", "synthesize"} /\ (begun.fresh \/ "question" \in begun.passed)
           => question = turn

\* Briefs of this turn are there once all of them are.
OwnBriefs ==
    /\ \A i \in 1..Len(briefs) : briefs[i][1] <= turn
    /\ pc \in {"plan", "research"} => \A i \in 1..Len(briefs) : briefs[i][1] < turn
    /\ pc \in {"plan", "research"} /\ begun.fresh => briefs = <<>>
    /\ pc = "synthesize" =>
           IsSuffix(sub_questions, briefs) /\ (begun.fresh => briefs = sub_questions)

\* Briefs are in the order they were planned in, each once.
Sorted ==
    \A i, j \in 1..Len(briefs) :
        i < j => \/ briefs[i][1] < briefs[j][1]
                 \/ briefs[i][1] = briefs[j][1] /\ briefs[i][2] < briefs[j][2]

Reports == ReportCoversOwnPlan /\ ReportAnswersCaller /\ ReportIsLastMessage

ResearchInv == Numbered /\ OwnPlan /\ OwnQuestion /\ OwnBriefs /\ Sorted /\ Reports

-----------------------------------------------------------------------------
(* Facts about numbers and sequences.                                      *)

\* A set of natural numbers has a least one.
LEMMA Least ==
    ASSUME NEW S \in SUBSET Nat, S # {}
    PROVE  \E m \in S : \A n \in S : m <= n
<1> DEFINE R == OpToRel(<, Nat)
<1>1. IsWellFoundedOn(R, Nat)
      BY NatLessThanWellFounded
<1>2. PICK x \in S : \A y \in S : ~ (<<y, x>> \in R)
  <2> HIDE DEF R
  <2> QED BY <1>1, WFMin
<1>3. \A y \in S : ~(y < x)
      BY <1>2 DEF OpToRel
<1> QED BY <1>3

\* A set of positions of a sequence has a last one.
LEMMA Greatest ==
    ASSUME NEW k \in Nat, NEW S \in SUBSET (1..k), S # {}
    PROVE  \E m \in S : \A n \in S : n <= m
<1> DEFINE T == {k - i : i \in S}
<1>1. T \in SUBSET Nat /\ T # {}
  <2>1. \A i \in S : k - i \in Nat
        OBVIOUS
  <2>2. PICK i \in S : TRUE
        OBVIOUS
  <2>3. k - i \in T
        OBVIOUS
  <2> QED BY <2>1, <2>3
<1>2. PICK m \in T : \A n \in T : m <= n
  <2> HIDE DEF T
  <2> QED BY <1>1, Least
<1>3. PICK i \in S : m = k - i
      BY <1>2
<1>4. ASSUME NEW j \in S PROVE j <= i
  <2>1. k - j \in T
        OBVIOUS
  <2>2. m <= k - j
        BY <1>2, <2>1
  <2> QED BY <1>3, <2>2
<1> QED BY <1>4

\* What appending does to a sequence.
LEMMA AppendFacts ==
    ASSUME NEW S, NEW s \in Seq(S), NEW x \in S
    PROVE  /\ Append(s, x) \in Seq(S)
           /\ Len(Append(s, x)) = Len(s) + 1
           /\ Append(s, x) # <<>>
           /\ Append(s, x)[Len(s) + 1] = x
OBVIOUS

\* What concatenation does to two sequences.
LEMMA ConcatFacts ==
    ASSUME NEW S, NEW s \in Seq(S), NEW t \in Seq(S)
    PROVE  /\ t \o s \in Seq(S)
           /\ Len(t \o s) = Len(t) + Len(s)
           /\ \A i \in 1..Len(t) : (t \o s)[i] = t[i]
           /\ \A i \in 1..Len(s) : (t \o s)[Len(t) + i] = s[i]
OBVIOUS

\* What is put at the end of a sequence is a suffix of it.
LEMMA ConcatSuffix ==
    ASSUME NEW S, NEW s \in Seq(S), NEW t \in Seq(S)
    PROVE  IsSuffix(s, t \o s)
<1> DEFINE u == t \o s
<1>1. u \in Seq(S) /\ Len(u) = Len(t) + Len(s) /\ Len(t) \in Nat /\ Len(s) \in Nat
      /\ \A i \in 1..Len(s) : u[Len(t) + i] = s[i]
      BY ConcatFacts
<1> HIDE DEF u
<1>2. Reverse(s) \in Seq(S) /\ Len(Reverse(s)) = Len(s)
      /\ \A i \in 1..Len(s) : Reverse(s)[i] = s[(Len(s) - i) + 1]
      BY <1>1 DEF Reverse
<1>3. Reverse(u) \in Seq(S) /\ Len(Reverse(u)) = Len(u)
      /\ \A i \in 1..Len(u) : Reverse(u)[i] = u[(Len(u) - i) + 1]
      BY <1>1 DEF Reverse
<1>4. SubSeq(Reverse(u), 1, Len(s)) \in Seq(S)
      /\ Len(SubSeq(Reverse(u), 1, Len(s))) = Len(s)
      /\ \A i \in 1..Len(s) : SubSeq(Reverse(u), 1, Len(s))[i] = Reverse(u)[i]
      BY <1>1, <1>3
<1>5. ASSUME NEW i \in 1..Len(s) PROVE Reverse(u)[i] = Reverse(s)[i]
  <2>1. (Len(s) - i) + 1 \in 1..Len(s) /\ (Len(u) - i) + 1 = Len(t) + ((Len(s) - i) + 1)
        BY <1>1
  <2>2. i \in 1..Len(u)
        BY <1>1
  <2> QED BY <1>1, <1>2, <1>3, <2>1, <2>2
<1>6. SubSeq(Reverse(u), 1, Len(s)) = Reverse(s)
      BY <1>2, <1>4, <1>5
<1> QED BY <1>1, <1>2, <1>3, <1>6 DEF IsSuffix, IsPrefix, u

-----------------------------------------------------------------------------
(* Types.                                                                  *)

Authored == [author : {"human", "agent"}, turn : Turns]

\* The question that is taken from messages is the turn of one of them.
LEMMA LastHumanFacts ==
    ASSUME NEW msgs \in Seq(Authored)
    PROVE  LastHuman(msgs) = 0 \/ \E i \in 1..Len(msgs) : LastHuman(msgs) = msgs[i].turn
<1> DEFINE at == {i \in DOMAIN msgs : msgs[i].author = "human"}
<1>1. Len(msgs) \in Nat /\ DOMAIN msgs = 1..Len(msgs) /\ at \in SUBSET (1..Len(msgs))
      OBVIOUS
<1>2. CASE at = {}
      BY <1>2 DEF LastHuman
<1>3. CASE at # {}
  <2>1. \E i \in at : \A j \in at : j <= i
    <3> HIDE DEF at
    <3> QED BY <1>1, <1>3, Greatest
  <2> DEFINE last == CHOOSE i \in at : \A j \in at : j <= i
  <2>2. last \in at
    <3> HIDE DEF at
    <3> QED BY <2>1
  <2>3. LastHuman(msgs) = msgs[last].turn
        BY <1>3 DEF LastHuman
  <2>4. last \in 1..Len(msgs)
    <3> HIDE DEF at, last
    <3> QED BY <1>1, <2>2
  <2> HIDE DEF last
  <2> QED BY <2>3, <2>4
<1> QED BY <1>2, <1>3

\* The question of a run, if there is one, is the turn of a caller.
LEMMA QuestionType == TypeOK => QuestionFrom \in Turns
<1> SUFFICES ASSUME TypeOK PROVE QuestionFrom \in Turns
    OBVIOUS
<1>1. messages \in Seq(Authored) /\ question \in Turns /\ 0 \in Turns
      BY DeepResearchAssumption DEF TypeOK, Authored, Turns
<1>2. ASSUME NEW i \in 1..Len(messages) PROVE messages[i].turn \in Turns
  <2>1. messages[i] \in Authored
        BY <1>1
  <2> QED BY <2>1 DEF Authored
<1>3. LastHuman(messages) \in Turns
      BY <1>1, <1>2, LastHumanFacts
<1> QED BY <1>1, <1>3 DEF QuestionFrom

\* A plan is cut to what max_questions allows.
LEMMA FirstFacts ==
    ASSUME NEW n \in 0..MaxPlanned
    PROVE  First(n) \in 0..MaxQuestions
BY DeepResearchAssumption DEF First

\* The initial state has the types.
LEMMA InitTypes == Init => TypeOK
<1> SUFFICES ASSUME Init PROVE TypeOK
    OBVIOUS
<1>1. 0 \in Turns
      BY DeepResearchAssumption DEF Turns
<1>2. \A S : <<>> \in Seq(S)
      OBVIOUS
<1>3. report \in [question : Turns, briefs : Seq(SubQuestions)]
      BY <1>1, <1>2 DEF Init, NoReport
<1>4. begun \in [fresh : BOOLEAN, passed : SUBSET {"question", "message"}]
      BY DEF Init
<1> QED BY <1>1, <1>2, <1>3, <1>4 DEF Init, TypeOK

\* Every step keeps them.
LEMMA NextTypes == TypeOK /\ Numbered /\ [Next]_vars => TypeOK'
<1> SUFFICES ASSUME TypeOK, Numbered, [Next]_vars PROVE TypeOK'
    OBVIOUS
<1> USE DeepResearchAssumption
<1>0. /\ turn \in Nat /\ turn <= MaxTurns /\ 0 \in Turns
      /\ messages \in Seq(Authored)
      BY DEF TypeOK, Turns, Authored
<1>1. ASSUME NEW fresh \in BOOLEAN, NEW passed \in Inputs, Start(fresh, passed) PROVE TypeOK'
  <2> DEFINE kept == IF fresh THEN <<>> ELSE messages
             m    == [author |-> "human", turn |-> turn + 1]
  <2>1. turn + 1 \in Turns /\ turn' = turn + 1
        BY <1>0, <1>1 DEF Start, Turns
  <2>2. m \in Authored /\ kept \in Seq(Authored)
        BY <1>0, <2>1 DEF Authored
  <2>3. messages' = Append(kept, m) \/ messages' = kept
        BY <1>1 DEF Start
  <2>4. messages' \in Seq(Authored)
    <3> HIDE DEF kept, m
    <3> QED BY <2>2, <2>3, AppendFacts
  <2>5. question' \in Turns
        BY <1>0, <1>1, <2>1 DEF Start, TypeOK
  <2>6. begun' \in [fresh : BOOLEAN, passed : SUBSET {"question", "message"}]
        BY <1>1 DEF Start
  <2>7. /\ sub_questions' \in Seq(SubQuestions) /\ briefs' \in Seq(SubQuestions)
        /\ report' \in [question : Turns, briefs : Seq(SubQuestions)]
    <3>1. CASE fresh
      <4>1. <<>> \in Seq(SubQuestions)
            OBVIOUS
      <4>2. sub_questions' = <<>> /\ briefs' = <<>> /\ report' = NoReport
            BY <1>1, <3>1 DEF Start
      <4>3. NoReport \in [question : Turns, briefs : Seq(SubQuestions)]
            BY <1>0, <4>1 DEF NoReport
      <4> QED BY <4>1, <4>2, <4>3
    <3>2. CASE ~fresh
          BY <1>1, <3>2 DEF Start, TypeOK
    <3> QED BY <3>1, <3>2
  <2>8. pc' = "plan" /\ returned' = {}
        BY <1>1 DEF Start
  <2> QED BY <2>1, <2>4, <2>5, <2>6, <2>7, <2>8 DEF TypeOK, Authored
<1>2. ASSUME NEW n \in 0..MaxPlanned, Plan(n) PROVE TypeOK'
  <2>1. First(n) \in 0..MaxQuestions
        BY FirstFacts
  <2>2. turn \in 1..MaxTurns
        BY <1>0, <1>2 DEF Plan, Numbered, Running
  <2>3. \A i \in 1..First(n) : <<turn, i>> \in SubQuestions
        BY <2>1, <2>2 DEF SubQuestions
  <2>4. sub_questions' \in Seq(SubQuestions)
        BY <1>2, <2>1, <2>3 DEF Plan
  <2>5. question' \in Turns /\ returned' = {}
        BY <1>2, QuestionType DEF Plan, Numbered
  <2> QED BY <1>2, <2>4, <2>5 DEF Plan, TypeOK
<1>3. CASE Barrier
  <2>1. briefs' \in Seq(SubQuestions)
        BY <1>3, ConcatFacts DEF Barrier, TypeOK
  <2> QED BY <1>3, <2>1 DEF Barrier, TypeOK
<1>4. CASE Synthesize
  <2>1. [author |-> "agent", turn |-> turn] \in Authored
        BY DEF TypeOK, Authored
  <2>2. messages' \in Seq(Authored)
        BY <1>0, <1>4, <2>1, AppendFacts DEF Synthesize
  <2>3. report' \in [question : Turns, briefs : Seq(SubQuestions)]
        BY <1>4 DEF Synthesize, TypeOK
  <2> QED BY <1>4, <2>2, <2>3 DEF Synthesize, TypeOK, Authored
<1>5. ASSUME NEW i \in 1..MaxQuestions, BranchReturns(i) PROVE TypeOK'
      BY <1>5 DEF BranchReturns, thread, TypeOK
<1>6. CASE Fail
      BY <1>6 DEF Fail, thread, TypeOK
<1>7. CASE UNCHANGED vars
      BY <1>7 DEF vars, thread, TypeOK
<1> QED BY <1>1, <1>2, <1>3, <1>4, <1>5, <1>6, <1>7 DEF Next, Node, NoQuestion

-----------------------------------------------------------------------------
(* The invariant.                                                          *)

\* Nothing has happened in the initial state.
LEMMA InitResearch == Init => ResearchInv
<1> SUFFICES ASSUME Init PROVE ResearchInv
    OBVIOUS
<1> USE DEF Init
<1>1. Numbered /\ OwnPlan /\ OwnQuestion
      BY DEF Numbered, Running, OwnPlan, OwnQuestion
<1>2. OwnBriefs /\ Sorted
      BY DEF OwnBriefs, Sorted
<1>3. Reports
      BY DEF Reports, ReportCoversOwnPlan, ReportAnswersCaller, ReportIsLastMessage, Reported
<1> QED BY <1>1, <1>2, <1>3 DEF ResearchInv

\* A run starts with briefs of earlier turns only, and with its own question if
\* it was passed one or has none from before.
LEMMA StartResearch ==
    ASSUME TypeOK, ResearchInv, NEW fresh \in BOOLEAN, NEW passed \in Inputs,
           Start(fresh, passed)
    PROVE  ResearchInv'
<1>1. /\ turn \in Nat /\ turn' = turn + 1 /\ pc' = "plan" /\ returned' = {}
      /\ begun' = [fresh |-> fresh, passed |-> passed]
      BY DeepResearchAssumption DEF TypeOK, Turns, Start
<1>2. Numbered' /\ OwnPlan' /\ Reports'
      BY <1>1 DEF Numbered, OwnPlan, Reports, ReportCoversOwnPlan, ReportAnswersCaller,
         ReportIsLastMessage, Reported
<1>3. (briefs' = <<>> /\ fresh) \/ (briefs' = briefs /\ ~fresh)
      BY DEF Start
<1>4. OwnBriefs' /\ Sorted'
  <2>1. CASE briefs' = <<>>
        BY <1>1, <2>1 DEF OwnBriefs, Sorted
  <2>2. CASE briefs' = briefs /\ ~fresh
    <3>1. \A i \in 1..Len(briefs) : briefs[i] \in SubQuestions
          BY DEF TypeOK
    <3>2. \A i \in 1..Len(briefs) : briefs[i][1] \in Nat
          BY <3>1, DeepResearchAssumption DEF SubQuestions
    <3>3. \A i \in 1..Len(briefs) : briefs[i][1] <= turn
          BY DEF ResearchInv, OwnBriefs
    <3>4. \A i \in 1..Len(briefs) : briefs[i][1] < turn + 1 /\ briefs[i][1] <= turn + 1
          BY <1>1, <3>2, <3>3
    <3>5. OwnBriefs'
          BY <1>1, <2>2, <3>4 DEF OwnBriefs
    <3> QED BY <2>2, <3>5 DEF ResearchInv, Sorted
  <2> QED BY <1>3, <2>1, <2>2
<1>5. OwnQuestion'
  <2>1. "question" \in passed => question' = turn'
        BY <1>1 DEF Start
  <2>2. ASSUME fresh, "question" \notin passed
        PROVE  question' = 0 /\ \A i \in 1..Len(messages') : messages'[i].turn = turn'
    <3>1. CASE "message" \in passed
      <4>1. messages' = Append(<<>>, [author |-> "human", turn |-> turn + 1])
            BY <2>2, <3>1 DEF Start
      <4>2. Len(messages') = 1 /\ messages'[1] = [author |-> "human", turn |-> turn + 1]
            BY <4>1
      <4>3. messages'[1].turn = turn'
            BY <1>1, <4>2
      <4> QED BY <2>2, <4>2, <4>3 DEF Start
    <3>2. CASE "message" \notin passed
      <4>1. messages' = <<>>
            BY <2>2, <3>2 DEF Start
      <4> QED BY <2>2, <4>1 DEF Start
    <3> QED BY <3>1, <3>2
  <2> QED BY <1>1, <2>1, <2>2 DEF OwnQuestion
<1> QED BY <1>2, <1>4, <1>5 DEF ResearchInv

\* The planner takes the question of its own caller, where there is no other.
LEMMA PlanResearch ==
    ASSUME TypeOK, ResearchInv, NEW n \in 0..MaxPlanned, Plan(n)
    PROVE  ResearchInv'
<1>1. /\ pc = "plan" /\ pc' \in {"ended", "research"} /\ turn >= 1 /\ turn \in Nat
      /\ UNCHANGED <<turn, begun, messages, returned, briefs, report>>
      BY DeepResearchAssumption DEF TypeOK, Turns, Plan, ResearchInv, Numbered, Running
<1>2. /\ Len(sub_questions') <= MaxQuestions
      /\ \A i \in 1..Len(sub_questions') : sub_questions'[i] = <<turn, i>>
      /\ pc' = "ended" => sub_questions' = <<>>
  <2>1. First(n) \in 0..MaxQuestions /\ MaxQuestions \in Nat
        BY FirstFacts, DeepResearchAssumption
  <2>2. sub_questions' = [i \in 1..First(n) |-> <<turn, i>>]
        BY DEF Plan
  <2>3. Len(sub_questions') = First(n)
        BY <2>1, <2>2
  <2>4. First(n) = 0 => sub_questions' = <<>>
        BY <2>2
  <2>5. pc' = "ended" => First(n) = 0
        BY DEF Plan
  <2> QED BY <2>1, <2>2, <2>3, <2>4, <2>5
<1>3. Numbered' /\ OwnPlan' /\ Reports'
      BY <1>1, <1>2 DEF ResearchInv, Numbered, OwnPlan, Reports, ReportCoversOwnPlan,
         ReportAnswersCaller, ReportIsLastMessage, Reported
<1>4. OwnBriefs' /\ Sorted'
      BY <1>1 DEF ResearchInv, OwnBriefs, Sorted
<1>5. OwnQuestion'
  <2> SUFFICES ASSUME begun.fresh \/ "question" \in begun.passed
               PROVE  QuestionFrom = turn
      BY <1>1 DEF OwnQuestion, Plan
  <2>1. CASE "question" \in begun.passed
        BY <1>1, <2>1 DEF ResearchInv, OwnQuestion, QuestionFrom
  <2>2. CASE "question" \notin begun.passed
    <3>1. question = 0 /\ \A i \in 1..Len(messages) : messages[i].turn = turn
          BY <1>1, <2>2 DEF ResearchInv, OwnQuestion
    <3>2. QuestionFrom = LastHuman(messages) /\ QuestionFrom # 0
          BY <3>1 DEF QuestionFrom, Plan
    <3>3. messages \in Seq(Authored)
          BY DEF TypeOK, Authored
    <3> QED BY <3>1, <3>2, <3>3, LastHumanFacts
  <2> QED BY <2>1, <2>2
<1> QED BY <1>3, <1>4, <1>5 DEF ResearchInv

\* The briefs of a plan come after all others, in its order.
LEMMA BarrierResearch ==
    ASSUME TypeOK, ResearchInv, Barrier
    PROVE  ResearchInv'
<1>1. /\ pc = "research" /\ pc' = "synthesize" /\ turn \in Nat /\ returned' = {}
      /\ UNCHANGED <<turn, begun, messages, question, sub_questions, report>>
      /\ briefs' = briefs \o sub_questions
      BY DeepResearchAssumption DEF TypeOK, Turns, Barrier
<1>2. /\ briefs \in Seq(SubQuestions) /\ sub_questions \in Seq(SubQuestions)
      /\ Len(briefs) \in Nat /\ Len(sub_questions) \in Nat
      BY DEF TypeOK
<1>3. /\ Len(briefs') = Len(briefs) + Len(sub_questions)
      /\ \A i \in 1..Len(briefs) : briefs'[i] = briefs[i]
      /\ \A i \in 1..Len(sub_questions) : briefs'[Len(briefs) + i] = sub_questions[i]
      BY <1>1, <1>2, ConcatFacts
<1>4. \A i \in 1..Len(briefs) : briefs[i][1] < turn /\ briefs[i][1] \in Nat
  <2>1. \A i \in 1..Len(briefs) : briefs[i] \in SubQuestions
        BY <1>2
  <2> QED BY <1>1, <2>1, DeepResearchAssumption DEF ResearchInv, OwnBriefs, SubQuestions
<1>5. \A i \in 1..Len(sub_questions) : sub_questions[i] = <<turn, i>>
      BY <1>1 DEF ResearchInv, OwnPlan
<1>6. ASSUME NEW i \in 1..Len(briefs')
      PROVE  \/ i \in 1..Len(briefs) /\ briefs'[i] = briefs[i]
             \/ i > Len(briefs) /\ briefs'[i] = <<turn, i - Len(briefs)>>
  <2>1. CASE i \in 1..Len(briefs)
        BY <1>3, <2>1
  <2>2. CASE i > Len(briefs)
    <3>1. i - Len(briefs) \in 1..Len(sub_questions) /\ i = Len(briefs) + (i - Len(briefs))
          BY <1>2, <1>3, <2>2
    <3> QED BY <1>3, <1>5, <2>2, <3>1
  <2> QED BY <1>2, <1>3, <2>1, <2>2
<1>7. Sorted'
  <2> SUFFICES ASSUME NEW i \in 1..Len(briefs'), NEW j \in 1..Len(briefs'), i < j
               PROVE  \/ briefs'[i][1] < briefs'[j][1]
                      \/ briefs'[i][1] = briefs'[j][1] /\ briefs'[i][2] < briefs'[j][2]
      BY DEF Sorted
  <2>0. i \in Nat /\ j \in Nat
        BY <1>2, <1>3
  <2>1. CASE j \in 1..Len(briefs) /\ briefs'[j] = briefs[j]
    <3>1. i \in 1..Len(briefs) /\ briefs'[i] = briefs[i]
          BY <1>2, <1>3, <2>0, <2>1
    <3> QED BY <2>1, <3>1 DEF ResearchInv, Sorted
  <2>2. CASE j > Len(briefs) /\ briefs'[j] = <<turn, j - Len(briefs)>>
    <3>1. CASE i \in 1..Len(briefs) /\ briefs'[i] = briefs[i]
      <4>1. briefs[i][1] < turn
            BY <1>4, <3>1
      <4> QED BY <2>2, <3>1, <4>1
    <3>2. CASE i > Len(briefs) /\ briefs'[i] = <<turn, i - Len(briefs)>>
      <4>1. i - Len(briefs) < j - Len(briefs)
            BY <1>2, <2>0
      <4> QED BY <2>2, <3>2, <4>1
    <3> QED BY <1>6, <3>1, <3>2
  <2> QED BY <1>6, <2>1, <2>2
<1>8. OwnBriefs'
  <2>1. IsSuffix(sub_questions, briefs')
        BY <1>1, <1>2, ConcatSuffix
  <2>2. \A i \in 1..Len(briefs') : briefs'[i][1] <= turn
    <3> SUFFICES ASSUME NEW i \in 1..Len(briefs') PROVE briefs'[i][1] <= turn
        OBVIOUS
    <3>1. CASE i \in 1..Len(briefs) /\ briefs'[i] = briefs[i]
      <4>1. briefs[i][1] < turn /\ briefs[i][1] \in Nat
            BY <1>4, <3>1
      <4> QED BY <1>1, <3>1, <4>1
    <3>2. CASE briefs'[i] = <<turn, i - Len(briefs)>>
          BY <1>1, <3>2
    <3> QED BY <1>6, <3>1, <3>2
  <2>3. begun.fresh => briefs' = sub_questions
    <3>1. begun.fresh => briefs = <<>>
          BY <1>1 DEF ResearchInv, OwnBriefs
    <3> QED BY <1>1, <1>2, <3>1
  <2> QED BY <1>1, <2>1, <2>2, <2>3 DEF OwnBriefs
<1>9. Numbered' /\ OwnPlan' /\ OwnQuestion'
      BY <1>1 DEF ResearchInv, Numbered, Running, OwnPlan, OwnQuestion
<1>10. Reports'
      BY <1>1 DEF Reports, ReportCoversOwnPlan, ReportAnswersCaller, ReportIsLastMessage,
         Reported
<1> QED BY <1>7, <1>8, <1>9, <1>10 DEF ResearchInv

\* The report is made of the question and the briefs of the state, and sent.
LEMMA SynthesizeResearch ==
    ASSUME TypeOK, ResearchInv, Synthesize
    PROVE  ResearchInv'
<1>1. /\ pc = "synthesize" /\ pc' = "ended"
      /\ UNCHANGED <<turn, begun, question, sub_questions, returned, briefs>>
      /\ report' = [question |-> question, briefs |-> briefs]
      BY DEF Synthesize
<1>2. Numbered' /\ OwnPlan' /\ OwnQuestion' /\ OwnBriefs' /\ Sorted'
      BY <1>1 DEF ResearchInv, Numbered, Running, OwnPlan, OwnQuestion, OwnBriefs, Sorted
<1>3. ReportCoversOwnPlan'
  <2>1. DOMAIN sub_questions = 1..Len(sub_questions)
        BY DEF TypeOK
  <2> QED BY <1>1, <2>1 DEF ResearchInv, OwnPlan, OwnBriefs, ReportCoversOwnPlan
<1>4. ReportAnswersCaller'
      BY <1>1 DEF ResearchInv, OwnQuestion, ReportAnswersCaller
<1>5. ReportIsLastMessage'
  <2> DEFINE m == [author |-> "agent", turn |-> turn]
  <2>1. m \in Authored /\ messages \in Seq(Authored)
        BY DEF TypeOK, Authored
  <2>2. messages' = Append(messages, m)
        BY DEF Synthesize
  <2>3. messages' # <<>> /\ messages'[Len(messages')] = m
    <3> HIDE DEF m
    <3> QED BY <2>1, <2>2, AppendFacts
  <2> QED BY <1>1, <2>3 DEF ReportIsLastMessage, Last
<1> QED BY <1>2, <1>3, <1>4, <1>5 DEF ResearchInv, Reports

\* Every step keeps the invariant.
LEMMA NextResearch == TypeOK /\ ResearchInv /\ [Next]_vars => ResearchInv'
<1> SUFFICES ASSUME TypeOK, ResearchInv, [Next]_vars PROVE ResearchInv'
    OBVIOUS
<1>1. ASSUME NEW fresh \in BOOLEAN, NEW passed \in Inputs, Start(fresh, passed)
      PROVE  ResearchInv'
      BY <1>1, StartResearch
<1>2. ASSUME NEW n \in 0..MaxPlanned, Plan(n) PROVE ResearchInv'
      BY <1>2, PlanResearch
<1>3. CASE Barrier
      BY <1>3, BarrierResearch
<1>4. CASE Synthesize
      BY <1>4, SynthesizeResearch
<1>5. ASSUME NEW i \in 1..MaxQuestions, BranchReturns(i) PROVE ResearchInv'
      BY <1>5 DEF BranchReturns, thread, ResearchInv, Numbered, Running, OwnPlan, OwnQuestion,
         OwnBriefs, Sorted, Reports, ReportCoversOwnPlan, ReportAnswersCaller,
         ReportIsLastMessage, Reported
<1>6. CASE Fail
      BY <1>6 DEF Fail, thread, ResearchInv, Numbered, Running, OwnPlan, OwnQuestion,
         OwnBriefs, Sorted, Reports, ReportCoversOwnPlan, ReportAnswersCaller,
         ReportIsLastMessage, Reported
<1>7. CASE UNCHANGED vars
      BY <1>7 DEF vars, thread, ResearchInv, Numbered, Running, OwnPlan, OwnQuestion,
         OwnBriefs, Sorted, Reports, ReportCoversOwnPlan, ReportAnswersCaller,
         ReportIsLastMessage, Reported
<1> QED BY <1>1, <1>2, <1>3, <1>4, <1>5, <1>6, <1>7 DEF Next, Node, NoQuestion

\* Types and the invariant hold together, since each needs the other.
LEMMA Together == Spec => [](TypeOK /\ ResearchInv)
<1>1. TypeOK /\ ResearchInv /\ [Next]_vars => TypeOK' /\ ResearchInv'
      BY NextTypes, NextResearch DEF ResearchInv
<1> QED BY <1>1, InitTypes, InitResearch, PTL DEF Spec

\* Types hold of every behaviour, for any number of sub-questions and runs.
THEOREM ResearchTypes == Spec => []TypeOK
<1> QED BY Together, PTL

\* A report is made of the briefs of its own plan, in its order, and of no others
\* when the run began from nothing (deep_research.py 130-157).
THEOREM ReportsCover == Spec => []ReportCoversOwnPlan
<1>1. ResearchInv => ReportCoversOwnPlan
      BY DEF ResearchInv, Reports
<1> QED BY <1>1, Together, PTL

\* It is about what the caller asked, where the thread has no other question
\* (deep_research.py 84-91).
THEOREM ReportsAnswer == Spec => []ReportAnswersCaller
<1>1. ResearchInv => ReportAnswersCaller
      BY DEF ResearchInv, Reports
<1> QED BY <1>1, Together, PTL

\* And it is the last message, as the server that sends it expects.
THEOREM ReportsAreSent == Spec => []ReportIsLastMessage
<1>1. ResearchInv => ReportIsLastMessage
      BY DEF ResearchInv, Reports
<1> QED BY <1>1, Together, PTL

\* A thread has the briefs of a plan all or not at all, whichever branch fails
\* (the reducer operator.add on briefs, deep_research.py 80).
THEOREM WholeBriefs == Spec => []BriefsAreWhole
<1>1. TypeOK /\ ResearchInv => BriefsAreWhole
  <2> SUFFICES ASSUME TypeOK, ResearchInv PROVE BriefsAreWhole
      OBVIOUS
  <2>1. DOMAIN briefs = 1..Len(briefs)
        BY DEF TypeOK
  <2> QED BY <2>1 DEF ResearchInv, OwnBriefs, Sorted, BriefsAreWhole
<1> QED BY <1>1, Together, PTL
=============================================================================

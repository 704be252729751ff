--------------------------- MODULE SupervisorProofs ---------------------------
(***************************************************************************)
(* Proofs about Supervisor for any workers, recursion limit and number of  *)
(* runs.                                                                   *)
(***************************************************************************)
EXTENDS Supervisor, TLAPS

\* What a thread looks like while its run is at each node.  Messages are never
\* of a later turn.
Dated ==
    /\ Running => turn >= 1
    /\ \A i \in 1..Len(messages) : messages[i].turn <= turn

\* A worker runs on a conversation that ends with the handoff to it.
HandedOver ==
    pc = "worker" =>
        /\ messages # <<>>
        /\ messages[Len(messages)] = Message("handoff", next)

\* A handoff of this turn has a result, or its worker is running or adds nothing.
Answered ==
    pc \in {"supervisor", "worker", "ended"} =>
        \A i \in 1..Len(messages) :
            messages[i].kind = "handoff" /\ messages[i].turn = turn =>
                \/ messages[i].worker \in Echoing
                \/ i < Len(messages) /\ messages[i + 1].kind = "result"
                \/ pc = "worker" /\ i = Len(messages)

\* A run that has ended has written the last message.
Closed ==
    pc = "ended" =>
        /\ messages # <<>>
        /\ messages[Len(messages)].turn = turn
        /\ messages[Len(messages)].kind \in {"answer", "empty"}

ThreadInv == Dated /\ HandedOver /\ Answered /\ Closed /\ ResultsAnswerHandoffs

\* What appending does to a sequence.
LEMMA AppendFacts ==
    ASSUME NEW S, NEW s \in Seq(S), NEW x \in S
    PROVE  /\ Append(s, x) \in Seq(S)
           /\ Len(Append(s, x)) = Len(s) + 1
           /\ Append(s, x) # <<>>
           /\ \A i \in 1..Len(s) : Append(s, x)[i] = s[i]
           /\ Append(s, x)[Len(s) + 1] = x
OBVIOUS

\* A message that is written now is one.
LEMMA MessageType ==
    ASSUME TypeOK, turn >= 1, NEW kind \in Kinds, NEW w \in Workers \union {Nobody}
    PROVE  Message(kind, w) \in Messages
<1>1. turn \in 1..MaxTurns
      BY SupervisorAssumption DEF TypeOK
<1> QED BY <1>1 DEF Message, Messages

-----------------------------------------------------------------------------
\* The initial state has the types.
LEMMA InitTypes == Init => TypeOK
BY SupervisorAssumption DEF Init, TypeOK

\* Every step keeps them; that a running turn has a number is part of Dated.
LEMMA NextTypes == TypeOK /\ Dated /\ [Next]_vars => TypeOK'
<1> SUFFICES ASSUME TypeOK, Dated, [Next]_vars PROVE TypeOK'
    OBVIOUS
<1> USE SupervisorAssumption
<1>0. Running => turn >= 1
      BY DEF Dated
<1>1. ASSUME NEW fresh \in BOOLEAN, NEW asked \in BOOLEAN, Start(fresh, asked) PROVE TypeOK'
  <2> DEFINE kept == IF fresh THEN <<>> ELSE messages
  <2>1. kept \in Seq(Messages) /\ turn' \in 1..MaxTurns
        BY <1>1 DEF Start, TypeOK
  <2>2. Message("human", Nobody)' \in Messages
        BY <2>1 DEF Message, Messages, Kinds
  <2>3. messages' \in Seq(Messages)
        BY <1>1, <2>1, <2>2, AppendFacts DEF Start
  <2> QED BY <1>1, <2>1, <2>3 DEF Start, TypeOK
<1>2. ASSUME NEW text \in BOOLEAN, Finish(text) PROVE TypeOK'
  <2>1. Message(IF text THEN "answer" ELSE "empty", Nobody) \in Messages
        BY <1>0, <1>2, MessageType DEF Finish, Superstep, Running, Kinds
  <2>2. messages' \in Seq(Messages)
        BY <1>2, <2>1, AppendFacts DEF Finish, TypeOK
  <2> QED BY <1>2, <2>2 DEF Finish, Superstep, route, TypeOK
<1>3. ASSUME NEW w \in Workers, NEW instruction \in BOOLEAN, Delegate(w, instruction)
      PROVE TypeOK'
  <2>1. Message("handoff", w) \in Messages
        BY <1>0, <1>3, MessageType DEF Delegate, Superstep, Running, Kinds
  <2>2. messages' \in Seq(Messages)
        BY <1>3, <2>1, AppendFacts DEF Delegate, TypeOK
  <2> QED BY <1>3, <2>2 DEF Delegate, Superstep, route, TypeOK
<1>4. CASE RunWorker
  <2>1. Message("result", next) \in Messages
        BY <1>0, <1>4, MessageType DEF RunWorker, Superstep, Running, Kinds, TypeOK
  <2>2. messages' \in Seq(Messages)
        BY <1>4, <2>1, AppendFacts DEF RunWorker, TypeOK
  <2> QED BY <1>4, <2>2 DEF RunWorker, Superstep, TypeOK
<1>5. CASE Fail
      BY <1>5 DEF Fail, TypeOK
<1>6. CASE UNCHANGED vars
      BY <1>6 DEF vars, TypeOK
<1> QED BY <1>1, <1>2, <1>3, <1>4, <1>5, <1>6 DEF Next, Run, OutOfSteps, NoHandoff, CallFails

-----------------------------------------------------------------------------
\* Nothing is in the thread in the initial state.
LEMMA InitThread == Init => ThreadInv
BY DEF Init, ThreadInv, Dated, HandedOver, Answered, Closed, ResultsAnswerHandoffs, Running

\* What a new message leaves true of the others, whoever writes it.
LEMMA Older ==
    ASSUME TypeOK, ThreadInv, NEW m \in Messages, messages' = Append(messages, m),
           m.turn = turn, turn' = turn
    PROVE  /\ Len(messages') = Len(messages) + 1 /\ Len(messages) \in Nat
           /\ messages'[Len(messages')] = m /\ messages' # <<>>
           /\ \A i \in 1..Len(messages) : messages'[i] = messages[i]
           /\ \A i \in 1..Len(messages') : messages'[i].turn <= turn
           /\ m.kind # "result" => ResultsAnswerHandoffs'
<1>1. messages \in Seq(Messages) /\ Len(messages) \in Nat /\ turn \in Nat
      BY SupervisorAssumption DEF TypeOK
<1>2. /\ Len(messages') = Len(messages) + 1 /\ messages' # <<>>
      /\ messages'[Len(messages')] = m
      /\ \A i \in 1..Len(messages) : messages'[i] = messages[i]
      /\ messages' \in Seq(Messages)
      BY <1>1, AppendFacts
<1>a. DOMAIN messages = 1..Len(messages) /\ DOMAIN messages' = 1..Len(messages')
      BY <1>1, <1>2
<1>3. \A i \in 1..Len(messages) : messages[i].turn <= turn
      BY DEF ThreadInv, Dated
<1>4. \A i \in 1..Len(messages') : i \in 1..Len(messages) \/ i = Len(messages')
      BY <1>1, <1>2
<1>5. ASSUME NEW i \in 1..Len(messages') PROVE messages'[i].turn <= turn
  <2>1. CASE i \in 1..Len(messages)
    <3>1. messages'[i] = messages[i]
          BY <1>2, <2>1
    <3>2. messages[i].turn <= turn
          BY <1>3, <2>1
    <3> QED BY <3>1, <3>2
  <2>2. CASE i = Len(messages')
    <3>1. messages'[i] = m
          BY <1>2, <2>2
    <3> QED BY <1>1, <3>1
  <2> QED BY <1>4, <2>1, <2>2
<1>6. ASSUME m.kind # "result" PROVE ResultsAnswerHandoffs'
  <2> SUFFICES ASSUME NEW i \in 1..Len(messages'), messages'[i].kind = "result"
               PROVE  i > 1 /\ messages'[i - 1] = [messages'[i] EXCEPT !.kind = "handoff"]
      BY <1>a DEF ResultsAnswerHandoffs
  <2>1. i \in 1..Len(messages) /\ messages'[i] = messages[i]
        BY <1>2, <1>4, <1>6
  <2>2. i > 1 /\ messages[i - 1] = [messages[i] EXCEPT !.kind = "handoff"]
        BY <1>a, <2>1 DEF ThreadInv, ResultsAnswerHandoffs
  <2>3. i - 1 \in 1..Len(messages)
        BY <1>1, <2>1, <2>2
  <2> QED BY <1>2, <2>1, <2>2, <2>3
<1> QED BY <1>1, <1>2, <1>5, <1>6

\* A run starts with older messages, and none of them is a handoff of its own.
LEMMA StartThread ==
    ASSUME TypeOK, ThreadInv, NEW fresh \in BOOLEAN, NEW asked \in BOOLEAN,
           Start(fresh, asked)
    PROVE  ThreadInv'
<1> DEFINE kept == IF fresh THEN <<>> ELSE messages
           m    == Message("human", Nobody)'
<1>1. turn \in Nat /\ turn' = turn + 1 /\ pc' = "supervisor" /\ messages \in Seq(Messages)
      BY SupervisorAssumption DEF TypeOK, Start
<1>2. m.kind = "human" /\ m.turn = turn' /\ m \in Messages
  <2>1. turn' \in 1..MaxTurns
        BY SupervisorAssumption DEF Start, TypeOK
  <2> QED BY <2>1 DEF Message, Messages, Kinds
<1>3. kept \in Seq(Messages) /\ Len(kept) \in Nat /\ DOMAIN kept = 1..Len(kept)
      BY <1>1
<1>4. ASSUME NEW i \in 1..Len(kept)
      PROVE  /\ kept[i].turn <= turn /\ kept[i].turn \in Nat
             /\ kept[i].kind = "result" =>
                    i > 1 /\ kept[i - 1] = [kept[i] EXCEPT !.kind = "handoff"]
  <2>1. CASE fresh
        BY <2>1
  <2>2. CASE ~fresh
    <3>1. kept = messages /\ i \in 1..Len(messages) /\ i \in DOMAIN messages
          BY <1>1, <2>2
    <3>2. messages[i].turn <= turn /\ messages[i] \in Messages
          BY <1>1, <3>1 DEF ThreadInv, Dated
    <3>3. messages[i].turn \in Nat
          BY <3>2, SupervisorAssumption DEF Messages
    <3> QED BY <3>1, <3>2, <3>3 DEF ThreadInv, ResultsAnswerHandoffs
  <2> QED BY <2>1, <2>2
<1>5. /\ Len(messages') >= Len(kept) /\ Len(messages') \in Nat
      /\ DOMAIN messages' = 1..Len(messages')
      /\ \A i \in 1..Len(messages') :
            \/ i \in 1..Len(kept) /\ messages'[i] = kept[i]
            \/ messages'[i] = m
      /\ \A i \in 1..Len(kept) : messages'[i] = kept[i]
  <2>1. CASE asked
    <3>1. messages' = Append(kept, m)
          BY <2>1 DEF Start
    <3> HIDE DEF kept, m
    <3>2. Len(messages') = Len(kept) + 1 /\ messages' \in Seq(Messages)
          /\ messages'[Len(kept) + 1] = m
          /\ \A i \in 1..Len(kept) : messages'[i] = kept[i]
          BY <1>2, <1>3, <3>1, AppendFacts
    <3> QED BY <1>3, <3>2
  <2>2. CASE ~asked
    <3>1. messages' = kept
          BY <2>2 DEF Start
    <3> HIDE DEF kept, m
    <3> QED BY <1>3, <3>1
  <2> QED BY <2>1, <2>2
<1> HIDE DEF kept, m
<1>6. ASSUME NEW i \in 1..Len(messages')
      PROVE  /\ messages'[i].turn <= turn'
             /\ messages'[i].turn = turn' => messages'[i].kind = "human"
  <2>1. CASE i \in 1..Len(kept) /\ messages'[i] = kept[i]
    <3>1. kept[i].turn <= turn /\ kept[i].turn \in Nat
          BY <1>4, <2>1
    <3> QED BY <1>1, <2>1, <3>1
  <2>2. CASE messages'[i] = m
        BY <1>1, <1>2, <2>2
  <2> QED BY <1>5, <2>1, <2>2
<1>7. Dated' /\ HandedOver' /\ Closed'
      BY <1>1, <1>6 DEF Dated, HandedOver, Closed
<1>8. Answered'
      BY <1>6 DEF Answered
<1>9. ResultsAnswerHandoffs'
  <2> SUFFICES ASSUME NEW i \in 1..Len(messages'), messages'[i].kind = "result"
               PROVE  i > 1 /\ messages'[i - 1] = [messages'[i] EXCEPT !.kind = "handoff"]
      BY <1>5 DEF ResultsAnswerHandoffs
  <2>1. i \in 1..Len(kept) /\ messages'[i] = kept[i]
        BY <1>2, <1>5
  <2>2. i > 1 /\ kept[i - 1] = [kept[i] EXCEPT !.kind = "handoff"]
        BY <1>4, <2>1
  <2>3. i - 1 \in 1..Len(kept) /\ i - 1 \in 1..Len(messages')
        BY <1>3, <1>5, <2>1, <2>2
  <2>4. messages'[i - 1] = kept[i - 1]
        BY <1>5, <2>3
  <2> QED BY <2>1, <2>2, <2>4
<1> QED BY <1>7, <1>8, <1>9 DEF ThreadInv

\* The supervisor writes the last message of a run that ends, or the handoff to
\* the worker that is next.
LEMMA SupervisorThread ==
    ASSUME TypeOK, ThreadInv, pc = "supervisor", NEW m \in Messages, turn' = turn,
           messages' = Append(messages, m), m.turn = turn,
           \/ m.kind \in {"answer", "empty"} /\ pc' = "ended"
           \/ m = Message("handoff", next') /\ pc' = "worker"
    PROVE  ThreadInv'
<1>1. /\ Len(messages') = Len(messages) + 1 /\ Len(messages) \in Nat
      /\ messages'[Len(messages')] = m /\ messages' # <<>>
      /\ \A i \in 1..Len(messages) : messages'[i] = messages[i]
      /\ \A i \in 1..Len(messages') : messages'[i].turn <= turn
      /\ m.kind # "result" => ResultsAnswerHandoffs'
      BY Older
<1>2. m.kind # "result" /\ (pc' = "ended" => m.kind # "handoff")
      BY DEF Message
<1>3. Dated'
      BY <1>1 DEF ThreadInv, Dated, Running
<1>4. HandedOver' /\ Closed'
      BY <1>1 DEF HandedOver, Closed, Message
<1>5. Answered'
  <2> SUFFICES ASSUME NEW i \in 1..Len(messages'), messages'[i].kind = "handoff",
                      messages'[i].turn = turn, messages'[i].worker \notin Echoing,
                      ~(pc' = "worker" /\ i = Len(messages'))
               PROVE  i < Len(messages') /\ messages'[i + 1].kind = "result"
      BY DEF Answered
  <2>1. i \in 1..Len(messages)
        BY <1>1, <1>2
  <2>2. messages'[i] = messages[i]
        BY <1>1, <2>1
  <2>3. i < Len(messages) /\ messages[i + 1].kind = "result"
        BY <2>1, <2>2 DEF ThreadInv, Answered
  <2>4. i + 1 \in 1..Len(messages)
        BY <1>1, <2>1, <2>3
  <2>5. messages'[i + 1] = messages[i + 1]
        BY <1>1, <2>4
  <2> QED BY <1>1, <2>1, <2>3, <2>5
<1> QED BY <1>1, <1>2, <1>3, <1>4, <1>5 DEF ThreadInv

\* A worker answers the handoff that is the last message, or adds nothing.
LEMMA WorkerThread ==
    ASSUME TypeOK, ThreadInv, RunWorker
    PROVE  ThreadInv'
<1>1. /\ pc = "worker" /\ pc' = "supervisor" /\ next' = next /\ turn' = turn
      /\ next \in Workers /\ turn >= 1
      BY DEF RunWorker, Superstep, TypeOK, ThreadInv, Dated, Running
<1>2. messages # <<>> /\ messages[Len(messages)] = Message("handoff", next)
      /\ messages \in Seq(Messages)
      BY <1>1 DEF ThreadInv, HandedOver, TypeOK
<1>3. Len(messages) \in Nat /\ Len(messages) >= 1 /\ DOMAIN messages = 1..Len(messages)
      BY <1>2
<1>4. \A i \in 1..Len(messages) :
          messages[i].kind = "handoff" /\ messages[i].turn = turn =>
              \/ messages[i].worker \in Echoing
              \/ i < Len(messages) /\ messages[i + 1].kind = "result"
              \/ i = Len(messages)
      BY <1>1 DEF ThreadInv, Answered
<1>5. CASE messages' = Append(messages, Message("result", next))
  <2> DEFINE m == Message("result", next)
  <2>1. m \in Messages /\ m.turn = turn /\ m.kind = "result"
        /\ [m EXCEPT !.kind = "handoff"] = Message("handoff", next)
    <3>1. m \in Messages
          BY <1>1, MessageType DEF Kinds
    <3> QED BY <3>1 DEF Message
  <2> HIDE DEF m
  <2>2. messages' = Append(messages, m)
        BY <1>5 DEF m
  <2>3. /\ Len(messages') = Len(messages) + 1
        /\ messages'[Len(messages')] = m /\ messages' # <<>>
        /\ \A i \in 1..Len(messages) : messages'[i] = messages[i]
        /\ \A i \in 1..Len(messages') : messages'[i].turn <= turn
        BY <1>1, <2>1, <2>2, Older
  <2>4. messages' \in Seq(Messages) /\ DOMAIN messages' = 1..Len(messages')
        BY <1>2, <2>1, <2>2, AppendFacts
  <2>5. Dated' /\ HandedOver' /\ Closed'
        BY <1>1, <2>3 DEF ThreadInv, Dated, HandedOver, Closed, Running
  <2>6. Answered'
    <3> SUFFICES ASSUME NEW i \in 1..Len(messages'), messages'[i].kind = "handoff",
                        messages'[i].turn = turn, messages'[i].worker \notin Echoing
                 PROVE  i < Len(messages') /\ messages'[i + 1].kind = "result"
        BY <1>1 DEF Answered
    <3>1. i \in 1..Len(messages)
          BY <1>3, <2>1, <2>3
    <3>2. messages'[i] = messages[i] /\ i < Len(messages') /\ i \in Nat
          BY <1>3, <2>3, <3>1
    <3>3. CASE i = Len(messages)
          BY <2>1, <2>3, <3>2, <3>3
    <3>4. CASE i < Len(messages) /\ messages[i + 1].kind = "result"
      <4>1. i + 1 \in 1..Len(messages)
            BY <1>3, <3>2, <3>4
      <4> QED BY <2>3, <3>2, <3>4, <4>1
    <3> QED BY <1>4, <3>1, <3>2, <3>3, <3>4
  <2>7. ResultsAnswerHandoffs'
    <3> SUFFICES ASSUME NEW i \in 1..Len(messages'), messages'[i].kind = "result"
                 PROVE  i > 1 /\ messages'[i - 1] = [messages'[i] EXCEPT !.kind = "handoff"]
        BY <2>4 DEF ResultsAnswerHandoffs
    <3>1. CASE i = Len(messages')
      <4>1. i - 1 = Len(messages) /\ i > 1
            BY <1>3, <2>3, <3>1
      <4>2. messages'[i - 1] = Message("handoff", next)
            BY <1>2, <1>3, <2>3, <4>1
      <4> QED BY <2>1, <2>3, <3>1, <4>1, <4>2
    <3>2. CASE i \in 1..Len(messages)
      <4>1. messages'[i] = messages[i]
            BY <2>3, <3>2
      <4>2. i > 1 /\ messages[i - 1] = [messages[i] EXCEPT !.kind = "handoff"]
            BY <1>3, <3>2, <4>1 DEF ThreadInv, ResultsAnswerHandoffs
      <4>3. i - 1 \in 1..Len(messages)
            BY <1>3, <3>2, <4>2
      <4> QED BY <2>3, <4>1, <4>2, <4>3
    <3> QED BY <1>3, <2>3, <3>1, <3>2
  <2> QED BY <2>5, <2>6, <2>7 DEF ThreadInv
<1>6. CASE next \in Echoing /\ messages' = messages
  <2>1. messages[Len(messages)].worker \in Echoing
        BY <1>2, <1>6 DEF Message
  <2>2. Answered'
        BY <1>1, <1>4, <1>6, <2>1 DEF Answered
  <2>3. Dated' /\ HandedOver' /\ Closed' /\ ResultsAnswerHandoffs'
        BY <1>1, <1>6 DEF ThreadInv, Dated, HandedOver, Closed, ResultsAnswerHandoffs, Running
  <2> QED BY <2>2, <2>3 DEF ThreadInv
<1> QED BY <1>5, <1>6 DEF RunWorker

\* Every step keeps the invariant.
LEMMA NextThread == TypeOK /\ ThreadInv /\ [Next]_vars => ThreadInv'
<1> SUFFICES ASSUME TypeOK, ThreadInv, [Next]_vars PROVE ThreadInv'
    OBVIOUS
<1>1. ASSUME NEW fresh \in BOOLEAN, NEW asked \in BOOLEAN, Start(fresh, asked)
      PROVE  ThreadInv'
      BY <1>1, StartThread
<1>2. ASSUME NEW text \in BOOLEAN, Finish(text) PROVE ThreadInv'
  <2> DEFINE m == Message(IF text THEN "answer" ELSE "empty", Nobody)
  <2>1. pc = "supervisor" /\ turn' = turn /\ pc' = "ended" /\ turn >= 1
        BY <1>2 DEF Finish, Superstep, route, ThreadInv, Dated, Running
  <2>2. m \in Messages /\ m.turn = turn /\ m.kind \in {"answer", "empty"}
    <3>1. m \in Messages
          BY <2>1, MessageType DEF Kinds
    <3> QED BY <3>1 DEF Message
  <2>3. messages' = Append(messages, m)
        BY <1>2 DEF Finish
  <2> QED BY <2>1, <2>2, <2>3, SupervisorThread
<1>3. ASSUME NEW w \in Workers, NEW instruction \in BOOLEAN, Delegate(w, instruction)
      PROVE  ThreadInv'
  <2>1. pc = "supervisor" /\ turn' = turn /\ next' = w /\ pc' = "worker" /\ turn >= 1
        BY <1>3, SupervisorAssumption DEF Delegate, Superstep, route, ThreadInv, Dated, Running
  <2>2. Message("handoff", w) \in Messages /\ Message("handoff", w).turn = turn
    <3>1. Message("handoff", w) \in Messages
          BY <2>1, MessageType DEF Kinds
    <3> QED BY <3>1 DEF Message
  <2>3. messages' = Append(messages, Message("handoff", w))
        /\ Message("handoff", next') = Message("handoff", w)
        BY <1>3, <2>1 DEF Delegate
  <2> QED BY <2>1, <2>2, <2>3, SupervisorThread
<1>4. CASE RunWorker
      BY <1>4, WorkerThread
<1>5. CASE Fail
      BY <1>5 DEF Fail, ThreadInv, Dated, HandedOver, Answered, Closed,
         ResultsAnswerHandoffs, Running
<1>6. CASE UNCHANGED vars
      BY <1>6 DEF vars, ThreadInv, Dated, HandedOver, Answered, Closed,
         ResultsAnswerHandoffs, Running, Message
<1> QED BY <1>1, <1>2, <1>3, <1>4, <1>5, <1>6 DEF Next, Run, OutOfSteps, NoHandoff, CallFails

\* Types and the invariant hold together, since each needs the other.
LEMMA Together == Spec => [](TypeOK /\ ThreadInv)
<1>1. TypeOK /\ ThreadInv /\ [Next]_vars => TypeOK' /\ ThreadInv'
      BY NextTypes, NextThread DEF ThreadInv
<1> QED BY <1>1, InitTypes, InitThread, PTL DEF Spec

\* Types hold of every behaviour, for any workers, limit and number of runs.
THEOREM SupervisorTypes == Spec => []TypeOK
<1> QED BY Together, PTL

\* A result directly follows the handoff to its worker (supervisor.py 84-105).
THEOREM Handoffs == Spec => []ResultsAnswerHandoffs
<1>1. ThreadInv => ResultsAnswerHandoffs
      BY DEF ThreadInv
<1> QED BY <1>1, Together, PTL

\* A run that has ended has answered, and none of its handoffs is open
\* (supervisor.py 77-105).
THEOREM Finishes == Spec => []EndsWithFinish
<1>1. TypeOK /\ ThreadInv => EndsWithFinish
  <2> SUFFICES ASSUME TypeOK, ThreadInv, pc = "ended" PROVE EndsWithFinish
      BY DEF EndsWithFinish
  <2>1. DOMAIN messages = 1..Len(messages)
        BY DEF TypeOK
  <2>2. \A i \in 1..Len(messages) :
            messages[i].kind = "handoff" /\ messages[i].turn = turn =>
                messages[i + 1].kind = "result" \/ messages[i].worker \in Echoing
        BY DEF ThreadInv, Answered
  <2> QED BY <2>1, <2>2 DEF ThreadInv, Closed, EndsWithFinish, Last
<1> QED BY <1>1, Together, PTL
=============================================================================

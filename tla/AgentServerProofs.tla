-------------------------- MODULE AgentServerProofs --------------------------
(***************************************************************************)
(* Proofs about AgentServer for every set of requests and task ids.        *)
(***************************************************************************)
EXTENDS AgentServer, TLAPS

\* What appending does to a sequence.
LEMMA AppendFacts ==
    ASSUME NEW S, NEW s \in Seq(S), NEW x \in S
    PROVE  /\ Append(s, x) \in Seq(S)
           /\ Len(Append(s, x)) = Len(s) + 1
           /\ \A i \in 1..Len(s) : Append(s, x)[i] = s[i]
           /\ Append(s, x)[Len(s) + 1] = x
OBVIOUS

\* What storing a turn does to the sequence a run has loaded.
LEMMA TurnFacts ==
    ASSUME NEW S, NEW s \in Seq(S), NEW x \in S, NEW y \in S
    PROVE  /\ s \o <<x, y>> \in Seq(S)
           /\ Len(s \o <<x, y>>) = Len(s) + 2
           /\ \A i \in 1..Len(s) : (s \o <<x, y>>)[i] = s[i]
           /\ (s \o <<x, y>>)[Len(s) + 1] = x
           /\ (s \o <<x, y>>)[Len(s) + 2] = y
OBVIOUS

\* Task and thread ids are ids, and messages are messages.
LEMMA IdTypes ==
    ASSUME TypeOK, NEW r \in Requests
    PROVE  /\ TaskId(r) \in Ids /\ ThreadId(r) \in Ids
           /\ Human(r) \in Messages /\ Agent(r) \in Messages
           /\ Human(r) # Agent(r)
<1>1. call[r].task \in Ids \union {None}
      BY DEF TypeOK, Calls, Ids, MadeUp
<1>2. <<r, "task">> \in MadeUp /\ <<r, "thread">> \in MadeUp
      BY DEF MadeUp
<1>3. TaskId(r) \in Ids
      BY <1>1, <1>2 DEF TaskId, Ids
<1>4. ThreadId(r) \in Ids
      BY <1>2, <1>3 DEF ThreadId, Ids
<1>5. Human(r) \in Messages /\ Agent(r) \in Messages /\ Human(r) # Agent(r)
      BY DEF Messages, Human, Agent
<1> QED BY <1>3, <1>4, <1>5

-----------------------------------------------------------------------------
\* The initial state has the types.
LEMMA InitTypes == Init => TypeOK
<1> SUFFICES ASSUME Init PROVE TypeOK
    OBVIOUS
<1>1. NoCall \in Calls
      BY DEF NoCall, Calls
<1>2. \A S : <<>> \in Seq(S)
      OBVIOUS
<1> QED BY <1>1, <1>2, AgentServerAssumption DEF Init, TypeOK, Stages

\* Every step keeps them.
LEMMA NextTypes == TypeOK /\ [Next]_vars => TypeOK'
<1> SUFFICES ASSUME TypeOK, [Next]_vars PROVE TypeOK'
    OBVIOUS
<1> USE AgentServerAssumption
<1> DEFINE Emitted(r) == \E e \in Answers : Emit(r, e)
<1>0. ASSUME NEW r \in Requests, Emitted(r)
      PROVE  out' \in [Requests -> Seq(Answers)]
  <2>1. PICK e \in Answers : Emit(r, e)
        BY <1>0
  <2>2. Append(out[r], e) \in Seq(Answers)
        BY AppendFacts DEF TypeOK
  <2> QED BY <2>1, <2>2 DEF TypeOK, Emit
<1>1. ASSUME NEW r \in Requests, NEW c \in Calls, Receive(r, c)
      PROVE  TypeOK'
  <2>1. "error" \in Answers
        BY DEF Answers
  <2>2. out' \in [Requests -> Seq(Answers)]
        BY <1>0, <1>1, <2>1 DEF Receive, TypeOK
  <2>3. call' \in [Requests -> Calls] /\ call' = [call EXCEPT ![r] = c]
        BY <1>1 DEF Receive, TypeOK
  <2>4. pc' \in [Requests -> Stages]
        BY <1>1 DEF Receive, TypeOK, Goto, Stages
  <2>5. ASSUME NEW q \in Requests
        PROVE  /\ pc'[q] # "new" => call'[q].method \in {"send", "sendSubscribe"} \/ pc'[q] = "done"
               /\ pc'[q] = "submitted" => call'[q].method = "sendSubscribe"
        BY <1>1, <2>3 DEF Receive, TypeOK, Goto, Calls
  <2> QED BY <1>1, <2>2, <2>3, <2>4, <2>5 DEF Receive, TypeOK
<1>2. ASSUME NEW r \in Requests, Submitted(r)
      PROVE  TypeOK'
  <2>1. out' \in [Requests -> Seq(Answers)]
        BY <1>0, <1>2 DEF Submitted, Answers
  <2> QED BY <1>2, <2>1 DEF Submitted, TypeOK
<1>3. ASSUME NEW r \in Requests, Working(r)
      PROVE  TypeOK'
  <2>1. out' \in [Requests -> Seq(Answers)]
        BY <1>0, <1>3 DEF Working, Answers
  <2> QED BY <1>3, <2>1 DEF Working, TypeOK, Goto, Stages
<1>4. ASSUME NEW r \in Requests, RefuseMessage(r)
      PROVE  TypeOK'
  <2>1. out' \in [Requests -> Seq(Answers)]
        BY <1>0, <1>4 DEF RefuseMessage, Answers
  <2> QED BY <1>4, <2>1 DEF RefuseMessage, TypeOK, Goto, Stages
<1>5. ASSUME NEW r \in Requests, BreakStream(r)
      PROVE  TypeOK'
      BY <1>5 DEF BreakStream, TypeOK, Goto, Stages
<1>6. ASSUME NEW r \in Requests, Load(r)
      PROVE  TypeOK'
  <2>1. threads[ThreadId(r)] \in Seq(Messages) /\ Human(r) \in Messages
        BY IdTypes DEF TypeOK
  <2>2. Append(threads[ThreadId(r)], Human(r)) \in Seq(Messages)
        BY <2>1, AppendFacts
  <2>3. overlapped' \subseteq Ids
        BY <1>6, IdTypes DEF Load, TypeOK
  <2>4. threads' \in [Ids -> Seq(Messages)]
        BY <1>6, <2>2 DEF Load, TypeOK
  <2>5. base' \in [Requests -> Seq(Messages)]
        BY <1>6, <2>1 DEF Load, TypeOK
  <2>6. pc' \in [Requests -> Stages]
        BY <1>6 DEF Load, TypeOK, Goto, Stages
  <2>7. \A q \in Requests : pc'[q] = IF q = r THEN "running" ELSE pc[q]
        BY <1>6 DEF Load, Goto, TypeOK
  <2>8. call' = call /\ call[r].method \in {"send", "sendSubscribe"}
        BY <1>6 DEF Load, TypeOK, AtMessage
  <2>9. restarts' \in 0..MaxRestarts /\ out' \in [Requests -> Seq(Answers)]
        BY <1>6 DEF Load, TypeOK
  <2> QED BY <2>3, <2>4, <2>5, <2>6, <2>7, <2>8, <2>9 DEF TypeOK
<1>7. ASSUME NEW r \in Requests, Store(r)
      PROVE  TypeOK'
  <2>1. base[r] \o <<Human(r), Agent(r)>> \in Seq(Messages)
        BY IdTypes, TurnFacts DEF TypeOK
  <2>2. threads' \in [Ids -> Seq(Messages)]
        BY <1>7, <2>1 DEF Store, TypeOK
  <2> QED BY <1>7, <2>2 DEF Store, TypeOK, Goto, Stages
<1>8. ASSUME NEW r \in Requests, Complete(r)
      PROVE  TypeOK'
  <2>1. out' \in [Requests -> Seq(Answers)]
        BY <1>0, <1>8 DEF Complete, Answers
  <2> QED BY <1>8, <2>1 DEF Complete, TypeOK, Goto, Stages
<1>9. ASSUME NEW r \in Requests, Chunk(r)
      PROVE  TypeOK'
  <2>1. out' \in [Requests -> Seq(Answers)]
        BY <1>0, <1>9 DEF Chunk, Answers
  <2> QED BY <1>9, <2>1 DEF Chunk, TypeOK
<1>10. ASSUME NEW r \in Requests, RunFails(r)
      PROVE  TypeOK'
  <2>1. out' \in [Requests -> Seq(Answers)]
        BY <1>0, <1>10 DEF RunFails, Answers
  <2> QED BY <1>10, <2>1 DEF RunFails, TypeOK, Goto, Stages
<1>11. ASSUME NEW r \in Requests, Disconnect(r)
      PROVE  TypeOK'
      BY <1>11 DEF Disconnect, TypeOK, Goto, Stages
<1>12. CASE Restart
  <2>1. pc' \in [Requests -> Stages]
        BY <1>12 DEF Restart, TypeOK, Stages
  <2>2. restarts' \in 0..MaxRestarts
        BY <1>12 DEF Restart, TypeOK
  <2>3. \A q \in Requests :
           pc'[q] = IF pc[q] \in {"new", "done", "broken"} THEN pc[q] ELSE "gone"
        BY <1>12 DEF Restart
  <2> QED BY <1>12, <2>1, <2>2, <2>3 DEF Restart, TypeOK
<1>13. CASE UNCHANGED vars
      BY <1>13 DEF vars, TypeOK
<1> QED BY <1>1, <1>2, <1>3, <1>4, <1>5, <1>6, <1>7, <1>8, <1>9, <1>10, <1>11,
           <1>12, <1>13 DEF Next, Handle

\* Every variable keeps its type, and each handler is where its method goes.
THEOREM ServerTypes == Spec => []TypeOK
BY InitTypes, NextTypes, PTL DEF Spec

-----------------------------------------------------------------------------
\* What a client has been sent by the stage its request is in.
Sent(r) ==
    /\ pc[r] = "new" => out[r] = <<>>
    /\ call[r].method # "sendSubscribe" /\ pc[r] # "done" => out[r] = <<>>
    /\ pc[r] = "received" => Len(out[r]) < 2
    /\ call[r].method = "sendSubscribe" /\ pc[r] \in {"submitted", "running", "saved"} =>
          Len(out[r]) >= 2
    /\ \A i \in 1..Len(out[r]) :
          /\ out[r][i] \in Terminal => i = Len(out[r]) /\ pc[r] = "done"
          /\ out[r][i] = "artifact" => i > 2
          /\ call[r].method = "sendSubscribe" /\ i = 1 => out[r][i] = "submitted"
          /\ call[r].method = "sendSubscribe" /\ i = 2 => out[r][i] = "working"
    /\ pc[r] = "done" => Len(out[r]) > 0 /\ out[r][Len(out[r])] \in Terminal

StreamInv == TypeOK /\ \A r \in Requests : Sent(r)

\* Nothing has been sent at the start.
LEMMA InitStreams == Init => StreamInv
<1> SUFFICES ASSUME Init PROVE StreamInv
    OBVIOUS
<1>1. ASSUME NEW r \in Requests PROVE Sent(r)
  <2>1. pc[r] = "new" /\ out[r] = <<>> /\ call[r].method = "other"
        BY DEF Init, NoCall
  <2>2. Len(out[r]) = 0
        BY <2>1
  <2> QED BY <2>1, <2>2 DEF Sent
<1> QED BY <1>1, InitTypes DEF StreamInv

\* A request nothing happens to.
LEMMA SentUnchanged ==
    ASSUME NEW r \in Requests, Sent(r),
           pc'[r] = pc[r], call'[r] = call[r], out'[r] = out[r]
    PROVE  Sent(r)'
BY DEF Sent

\* A request that is sent one more event.
LEMMA SentEmit ==
    ASSUME StreamInv, NEW r \in Requests, NEW e \in Answers, Emit(r, e)
    PROVE  /\ \A q \in Requests \ {r} : out'[q] = out[q]
           /\ Len(out'[r]) = Len(out[r]) + 1
           /\ \A i \in 1..Len(out[r]) : out'[r][i] = out[r][i]
           /\ out'[r][Len(out[r]) + 1] = e
           /\ Len(out[r]) \in Nat
<1>1. out[r] \in Seq(Answers)
      BY DEF StreamInv, TypeOK
<1>2. out'[r] = Append(out[r], e)
      BY DEF Emit, StreamInv, TypeOK
<1>3. \A q \in Requests \ {r} : out'[q] = out[q]
      BY DEF Emit, StreamInv, TypeOK
<1>4. Len(out[r]) \in Nat
      BY <1>1
<1> QED BY <1>1, <1>2, <1>3, <1>4, AppendFacts

\* Every step keeps what has been sent well formed.
LEMMA NextStreams == StreamInv /\ [Next]_vars => StreamInv'
<1> SUFFICES ASSUME StreamInv, [Next]_vars PROVE StreamInv'
    OBVIOUS
<1>0. TypeOK'
      BY NextTypes DEF StreamInv
<1> SUFFICES ASSUME NEW q \in Requests PROVE Sent(q)'
    BY <1>0 DEF StreamInv
<1> USE DEF StreamInv
<1>1. ASSUME NEW r \in Requests, NEW c \in Calls, Receive(r, c)
      PROVE  Sent(q)'
  <2>1. CASE q # r
    <3>1. pc'[q] = pc[q] /\ call'[q] = call[q] /\ out'[q] = out[q]
          BY <1>1, <2>1 DEF Receive, Goto, Emit, TypeOK
    <3> QED BY <3>1, SentUnchanged
  <2>2. CASE q = r
    <3>1. out[r] = <<>> /\ call'[r] = c
          BY <1>1 DEF Receive, Sent, TypeOK
    <3>2. CASE c.method = "other"
      <4>1. pc'[r] = "done" /\ out'[r] = <<"error">>
            BY <1>1, <3>1, <3>2 DEF Receive, Goto, Emit, TypeOK
      <4> QED BY <2>2, <3>1, <3>2, <4>1 DEF Sent, Terminal
    <3>3. CASE c.method # "other"
      <4>1. pc'[r] = "received" /\ out'[r] = <<>>
            BY <1>1, <3>1, <3>3 DEF Receive, Goto, TypeOK
      <4>2. Len(out'[r]) = 0
            BY <4>1
      <4> QED BY <2>2, <3>1, <4>1, <4>2 DEF Sent
    <3> QED BY <3>2, <3>3
  <2> QED BY <2>1, <2>2
<1>2. ASSUME NEW r \in Requests, Submitted(r) \/ Working(r)
      PROVE  Sent(q)'
  <2>1. /\ pc[r] = "received" /\ call[r].method = "sendSubscribe" /\ call' = call
        /\ \/ out[r] = <<>> /\ Emit(r, "submitted") /\ pc' = pc
           \/ out[r] = <<"submitted">> /\ Emit(r, "working") /\ Goto(r, "submitted")
        BY <1>2 DEF Submitted, Working
  <2>2. CASE q # r
    <3>1. pc'[q] = pc[q] /\ call'[q] = call[q] /\ out'[q] = out[q]
          BY <2>1, <2>2 DEF Goto, Emit, TypeOK
    <3> QED BY <3>1, SentUnchanged
  <2>3. CASE q = r
    <3>0. "submitted" \in Answers /\ "working" \in Answers
          BY DEF Answers
    <3>1. CASE out[r] = <<>> /\ Emit(r, "submitted") /\ pc' = pc
      <4>0. /\ Len(out[r]) = 0
            /\ Len(out'[r]) = Len(out[r]) + 1
            /\ out'[r][Len(out[r]) + 1] = "submitted"
        <5>1. Len(out[r]) = 0
              BY <3>1
        <5> QED BY <3>0, <3>1, <5>1, SentEmit
      <4>1. Len(out'[r]) = 1 /\ out'[r][1] = "submitted"
            BY <4>0
      <4>2. \A i \in 1..Len(out'[r]) :
               i = 1 /\ out'[r][i] = "submitted" /\ out'[r][i] \notin Terminal
            BY <4>1 DEF Terminal
      <4>3. pc'[r] = "received" /\ call'[r] = call[r] /\ Len(out'[r]) < 2
            BY <2>1, <3>1, <4>1
      <4> QED BY <2>1, <2>3, <4>2, <4>3 DEF Sent
    <3>2. CASE out[r] = <<"submitted">> /\ Emit(r, "working") /\ Goto(r, "submitted")
      <4>0. /\ Len(out[r]) = 1 /\ out[r][1] = "submitted"
            /\ Len(out'[r]) = Len(out[r]) + 1
            /\ \A i \in 1..Len(out[r]) : out'[r][i] = out[r][i]
            /\ out'[r][Len(out[r]) + 1] = "working"
        <5>1. Len(out[r]) = 1 /\ out[r][1] = "submitted"
              BY <3>2
        <5> QED BY <3>0, <3>2, <5>1, SentEmit
      <4>1. /\ Len(out'[r]) = 2
            /\ out'[r][1] = "submitted" /\ out'[r][2] = "working"
            BY <4>0
      <4>2. pc'[r] = "submitted"
            BY <3>2 DEF Goto, TypeOK
      <4>3. \A i \in 1..Len(out'[r]) :
               /\ i \in {1, 2} /\ out'[r][i] \notin Terminal /\ out'[r][i] # "artifact"
               /\ i = 1 => out'[r][i] = "submitted"
               /\ i = 2 => out'[r][i] = "working"
            BY <4>1 DEF Terminal
      <4> QED BY <2>1, <2>3, <4>1, <4>2, <4>3 DEF Sent
    <3> QED BY <2>1, <3>1, <3>2
  <2> QED BY <2>2, <2>3
<1>3. ASSUME NEW r \in Requests, BreakStream(r) \/ Disconnect(r)
      PROVE  Sent(q)'
  <2>1. call' = call /\ out' = out /\ call[r].method = "sendSubscribe"
        /\ pc[r] \in {"received", "submitted", "running", "saved"}
        /\ (Goto(r, "broken") \/ Goto(r, "gone"))
        BY <1>3 DEF BreakStream, Disconnect, AtMessage
  <2>2. CASE q # r
    <3>1. pc'[q] = pc[q]
          BY <2>1, <2>2 DEF Goto, TypeOK
    <3> QED BY <2>1, <3>1, SentUnchanged
  <2>3. CASE q = r
    <3>1. pc'[r] \in {"broken", "gone"}
          BY <2>1 DEF Goto, TypeOK
    <3> QED BY <2>1, <2>3, <3>1 DEF Sent
  <2> QED BY <2>2, <2>3
<1>4. ASSUME NEW r \in Requests, Load(r) \/ Store(r)
      PROVE  Sent(q)'
  <2>1. call' = call /\ out' = out
        /\ \/ AtMessage(r) /\ Goto(r, "running")
           \/ pc[r] = "running" /\ Goto(r, "saved")
        BY <1>4 DEF Load, Store
  <2>2. CASE q # r
    <3>1. pc'[q] = pc[q]
          BY <2>1, <2>2 DEF Goto, TypeOK
    <3> QED BY <2>1, <3>1, SentUnchanged
  <2>3. CASE q = r
    <3>1. pc[r] \in {"received", "submitted", "running"}
          /\ (pc[r] = "received" => call[r].method = "send")
          /\ pc'[r] \in {"running", "saved"}
          BY <2>1 DEF Goto, TypeOK, AtMessage
    <3> QED BY <2>1, <2>3, <3>1 DEF Sent
  <2> QED BY <2>2, <2>3
<1>5. ASSUME NEW r \in Requests, RefuseMessage(r) \/ Complete(r) \/ RunFails(r)
      PROVE  Sent(q)'
  <2>1. /\ call' = call /\ Goto(r, "done")
        /\ \E e \in {"failed", "completed"} : Emit(r, e)
        /\ \/ pc[r] \in {"running", "saved"}
           \/ call[r].method = "send" /\ pc[r] \in {"received", "submitted"}
        BY <1>5 DEF RefuseMessage, Complete, RunFails, AtMessage
  <2>2. PICK e \in {"failed", "completed"} : Emit(r, e)
        BY <2>1
  <2>3. e \in Answers /\ e \in Terminal /\ e # "artifact"
        BY DEF Answers, Terminal
  <2>4. CASE q # r
    <3>1. pc'[q] = pc[q] /\ call'[q] = call[q] /\ out'[q] = out[q]
          BY <2>1, <2>2, <2>3, <2>4, SentEmit DEF Goto, TypeOK
    <3> QED BY <3>1, SentUnchanged
  <2>5. CASE q = r
    <3>1. pc'[r] = "done"
          BY <2>1 DEF Goto, TypeOK
    <3>2. pc[r] # "done" /\ (call[r].method = "sendSubscribe" => Len(out[r]) >= 2)
          BY <2>1 DEF Sent
    <3>3. Sent(r)
          OBVIOUS
    <3>4. /\ Len(out'[r]) = Len(out[r]) + 1
          /\ \A i \in 1..Len(out[r]) : out'[r][i] = out[r][i]
          /\ out'[r][Len(out[r]) + 1] = e
          /\ Len(out[r]) \in Nat
          BY <2>2, <2>3, SentEmit
    <3>5. ASSUME NEW i \in 1..Len(out'[r])
          PROVE  /\ out'[r][i] \in Terminal => i = Len(out'[r])
                 /\ out'[r][i] = "artifact" => i > 2
                 /\ call[r].method = "sendSubscribe" /\ i = 1 => out'[r][i] = "submitted"
                 /\ call[r].method = "sendSubscribe" /\ i = 2 => out'[r][i] = "working"
      <4>1. CASE i = Len(out[r]) + 1
            BY <3>2, <3>4, <4>1, <2>3
      <4>2. CASE i # Len(out[r]) + 1
        <5>1. i \in 1..Len(out[r]) /\ out'[r][i] = out[r][i]
              BY <3>4, <4>2
        <5> QED BY <3>2, <3>3, <5>1 DEF Sent
      <4> QED BY <4>1, <4>2
    <3> QED BY <2>1, <2>3, <2>5, <3>1, <3>4, <3>5 DEF Sent
  <2> QED BY <2>4, <2>5
<1>6. ASSUME NEW r \in Requests, Chunk(r)
      PROVE  Sent(q)'
  <2>1. pc' = pc /\ call' = call /\ Emit(r, "artifact") /\ pc[r] = "running"
        /\ call[r].method = "sendSubscribe" /\ "artifact" \in Answers
        BY <1>6 DEF Chunk, Answers
  <2>2. CASE q # r
    <3>1. out'[q] = out[q]
          BY <2>1, <2>2, SentEmit
    <3> QED BY <2>1, <3>1, SentUnchanged
  <2>3. CASE q = r
    <3>1. Sent(r) /\ Len(out[r]) >= 2
          BY <2>1 DEF Sent
    <3>2. /\ Len(out'[r]) = Len(out[r]) + 1
          /\ \A i \in 1..Len(out[r]) : out'[r][i] = out[r][i]
          /\ out'[r][Len(out[r]) + 1] = "artifact"
          /\ Len(out[r]) \in Nat
          BY <2>1, SentEmit
    <3>3. ASSUME NEW i \in 1..Len(out'[r])
          PROVE  /\ out'[r][i] \notin Terminal
                 /\ out'[r][i] = "artifact" => i > 2
                 /\ i = 1 => out'[r][i] = "submitted"
                 /\ i = 2 => out'[r][i] = "working"
      <4>1. CASE i = Len(out[r]) + 1
            BY <3>1, <3>2, <4>1 DEF Terminal
      <4>2. CASE i # Len(out[r]) + 1
        <5>1. i \in 1..Len(out[r]) /\ out'[r][i] = out[r][i]
              BY <3>2, <4>2
        <5> QED BY <2>1, <3>1, <5>1 DEF Sent
      <4> QED BY <4>1, <4>2
    <3> QED BY <2>1, <2>3, <3>1, <3>2, <3>3 DEF Sent
  <2> QED BY <2>2, <2>3
<1>7. CASE Restart
  <2>1. call' = call /\ out' = out /\ pc'[q] \in {pc[q], "gone"}
        /\ (pc'[q] = "gone" => pc[q] \notin {"new", "done", "broken"})
        BY <1>7 DEF Restart, TypeOK
  <2> QED BY <2>1 DEF Sent
<1>8. CASE UNCHANGED vars
      BY <1>8, SentUnchanged DEF vars
<1> QED BY <1>1, <1>2, <1>3, <1>4, <1>5, <1>6, <1>7, <1>8 DEF Next, Handle

\* Every client is sent a well-formed sequence of states and artifacts: one
\* terminal state at most, nothing after it, and one for each finished request.
THEOREM Streams == Spec => []StreamsAreWellFormed
<1>1. StreamInv => StreamsAreWellFormed
  <2> SUFFICES ASSUME StreamInv, NEW r \in Requests
               PROVE  /\ \A i \in DOMAIN out[r] :
                            /\ out[r][i] \in Terminal => i = Len(out[r]) /\ pc[r] = "done"
                            /\ out[r][i] = "artifact" => i > 2
                      /\ call[r].method = "sendSubscribe" => \A i \in DOMAIN out[r] :
                            /\ i = 1 => out[r][i] = "submitted"
                            /\ i = 2 => out[r][i] = "working"
                      /\ pc[r] = "done" => Last(out[r]) \in Terminal
      BY DEF StreamsAreWellFormed
  <2>1. DOMAIN out[r] = 1..Len(out[r])
        BY DEF StreamInv, TypeOK
  <2> QED BY <2>1 DEF StreamInv, Sent, Last
<1> QED BY <1>1, InitStreams, NextStreams, PTL DEF Spec

-----------------------------------------------------------------------------
\* The stages before the run, and those after a run that was completed.
Early == {"new", "received", "submitted"}
Over(r) ==
    \/ pc[r] = "saved"
    \/ pc[r] = "done" /\ Last(out[r]) = "completed"

\* A message is of a request that has run on the thread it is found in, or on
\* the thread of the request that has loaded it.
Separate ==
    /\ \A t \in Ids, q \in Requests : \A i \in 1..Len(threads[t]) :
          threads[t][i].request = q => pc[q] \notin Early /\ ThreadId(q) = t
    /\ \A r, q \in Requests : \A i \in 1..Len(base[r]) :
          base[r][i].request = q =>
              pc[q] \notin Early /\ ThreadId(q) = ThreadId(r) /\ q # r
    /\ \A r \in Requests : pc[r] \in Early => base[r] = <<>>

\* As long as runs of a thread do not overlap, the one under way is alone, its
\* thread holds what it has loaded and its question, and nothing completed is
\* forgotten.
Kept ==
    \A r \in Requests : \A t \in Ids : t = ThreadId(r) /\ t \notin overlapped =>
        /\ pc[r] = "running" =>
              /\ threads[t] = Append(base[r], Human(r))
              /\ \A q \in Requests : pc[q] = "running" /\ ThreadId(q) = t => q = r
        /\ Over(r) => Remembers(t, r)

MemoryInv == StreamInv /\ Separate /\ Kept

\* A step that touches neither threads nor loaded messages starts and stores
\* no run.
Quiet ==
    /\ call' = call /\ base' = base /\ threads' = threads /\ overlapped' = overlapped
    /\ \A q \in Requests :
          /\ pc'[q] = "running" => pc[q] = "running"
          /\ pc'[q] \in Early => pc[q] \in Early
          /\ Over(q)' => Over(q)

\* A step of one handler is quiet when it is so for its own request.
LEMMA QuietStep ==
    ASSUME StreamInv, NEW r \in Requests,
           call' = call, base' = base, threads' = threads, overlapped' = overlapped,
           \A q \in Requests \ {r} : pc'[q] = pc[q] /\ out'[q] = out[q],
           pc'[r] = "running" => pc[r] = "running",
           pc'[r] \in Early => pc[r] \in Early,
           Over(r)' => Over(r)
    PROVE  Quiet
<1> SUFFICES ASSUME NEW q \in Requests
             PROVE  /\ pc'[q] = "running" => pc[q] = "running"
                    /\ pc'[q] \in Early => pc[q] \in Early
                    /\ Over(q)' => Over(q)
    BY DEF Quiet
<1>1. CASE q = r
      BY <1>1
<1>2. CASE q # r
      BY <1>2 DEF Over
<1> QED BY <1>1, <1>2

\* Every step is quiet but those that receive, start or store.
LEMMA QuietSteps ==
    ASSUME StreamInv, StreamInv', Next
    PROVE  \/ Quiet
           \/ \E r \in Requests : Load(r) \/ Store(r) \/ \E c \in Calls : Receive(r, c)
<1> USE DEF StreamInv
<1> DEFINE Rest(r) == /\ call' = call /\ base' = base /\ threads' = threads
                      /\ overlapped' = overlapped
                      /\ \A q \in Requests \ {r} : pc'[q] = pc[q] /\ out'[q] = out[q]
<1>1. ASSUME NEW r \in Requests, Submitted(r) \/ Working(r) \/ Chunk(r)
      PROVE  Quiet
  <2>1. Rest(r)
        BY <1>1 DEF Submitted, Working, Chunk, Goto, Emit, TypeOK
  <2>2. \/ pc'[r] = pc[r] /\ pc[r] \in {"received", "running"}
        \/ pc'[r] = "submitted" /\ pc[r] = "received"
        BY <1>1 DEF Submitted, Working, Chunk, Goto, TypeOK
  <2>3. ~Over(r)'
        BY <2>2 DEF Over
  <2> QED BY <2>1, <2>2, <2>3, QuietStep DEF Early
<1>2. ASSUME NEW r \in Requests, BreakStream(r) \/ Disconnect(r)
      PROVE  Quiet
  <2>1. Rest(r) /\ (Goto(r, "broken") \/ Goto(r, "gone"))
        BY <1>2 DEF BreakStream, Disconnect, Goto, TypeOK
  <2>2. pc'[r] \in {"broken", "gone"}
        BY <2>1 DEF Goto, TypeOK
  <2>3. ~Over(r)'
        BY <2>2 DEF Over
  <2> QED BY <2>1, <2>2, <2>3, QuietStep DEF Early
<1>3. ASSUME NEW r \in Requests, RefuseMessage(r) \/ RunFails(r)
      PROVE  Quiet
  <2>1. Rest(r) /\ Goto(r, "done") /\ Emit(r, "failed")
        BY <1>3 DEF RefuseMessage, RunFails, Goto, Emit, TypeOK
  <2>2. pc'[r] = "done"
        BY <2>1 DEF Goto, TypeOK
  <2>3. Last(out[r])' = "failed"
    <3>1. "failed" \in Answers
          BY DEF Answers
    <3> QED BY <2>1, <3>1, SentEmit DEF Last
  <2>4. ~Over(r)'
        BY <2>2, <2>3 DEF Over
  <2> QED BY <2>1, <2>2, <2>4, QuietStep DEF Early
<1>4. ASSUME NEW r \in Requests, Complete(r)
      PROVE  Quiet
  <2>1. Rest(r)
        BY <1>4 DEF Complete, Goto, Emit, TypeOK
  <2>2. pc'[r] = "done"
        BY <1>4 DEF Complete, Goto, TypeOK
  <2>3. Over(r)
        BY <1>4 DEF Complete, Over
  <2> QED BY <2>1, <2>2, <2>3, QuietStep DEF Early
<1>5. ASSUME Restart
      PROVE  Quiet
  <2> SUFFICES ASSUME NEW q \in Requests
               PROVE  /\ pc'[q] = "running" => pc[q] = "running"
                      /\ pc'[q] \in Early => pc[q] \in Early
                      /\ Over(q)' => Over(q)
      BY <1>5 DEF Quiet, Restart
  <2>1. out' = out
        BY <1>5 DEF Restart
  <2>2. CASE pc[q] \in {"new", "done", "broken"}
    <3>1. pc'[q] = pc[q]
          BY <1>5, <2>2 DEF Restart
    <3> QED BY <2>1, <3>1 DEF Early, Over
  <2>3. CASE pc[q] \notin {"new", "done", "broken"}
    <3>1. pc'[q] = "gone"
          BY <1>5, <2>3 DEF Restart
    <3> QED BY <3>1 DEF Early, Over
  <2> QED BY <2>2, <2>3
<1> QED BY <1>1, <1>2, <1>3, <1>4, <1>5 DEF Next, Handle

\* The threads are empty at the start.
LEMMA InitMemory == Init => MemoryInv
<1> SUFFICES ASSUME Init PROVE MemoryInv
    OBVIOUS
<1>1. StreamInv
      BY InitStreams
<1>2. Separate
  <2>1. \A t \in Ids : threads[t] = <<>> /\ Len(threads[t]) = 0
        BY DEF Init
  <2>2. \A r \in Requests : base[r] = <<>> /\ Len(base[r]) = 0
        BY DEF Init
  <2> QED BY <2>1, <2>2 DEF Separate
<1>3. Kept
      BY DEF Init, Kept, Over
<1> QED BY <1>1, <1>2, <1>3 DEF MemoryInv

\* A request keeps its thread once it has been received.
LEMMA ThreadStays ==
    ASSUME NEW r \in Requests, call'[r] = call[r]
    PROVE  ThreadId(r)' = ThreadId(r)
BY DEF ThreadId, TaskId

\* A quiet step keeps the memory.
LEMMA QuietMemory ==
    ASSUME MemoryInv, StreamInv', Quiet
    PROVE  Separate' /\ Kept'
<1> USE DEF MemoryInv, StreamInv, TypeOK
<1>1. \A r \in Requests : ThreadId(r)' = ThreadId(r)
      BY ThreadStays DEF Quiet
<1>2. \A r \in Requests : pc'[r] \in Early => pc[r] \in Early
      BY DEF Quiet
<1>3. threads' = threads /\ base' = base /\ overlapped' = overlapped
      BY DEF Quiet
<1>4. ASSUME NEW t, NEW r \in Requests
      PROVE  Remembers(t, r)' <=> Remembers(t, r)
      BY <1>3 DEF Remembers, Human, Agent
<1>5. Separate'
  <2>1. ASSUME NEW t \in Ids, NEW q \in Requests, NEW i \in 1..Len(threads[t]),
               threads[t][i].request = q
        PROVE  pc'[q] \notin Early /\ ThreadId(q)' = t
        BY <1>1, <1>2, <2>1 DEF Separate
  <2>2. ASSUME NEW r \in Requests, NEW q \in Requests, NEW i \in 1..Len(base[r]),
               base[r][i].request = q
        PROVE  pc'[q] \notin Early /\ ThreadId(q)' = ThreadId(r)' /\ q # r
        BY <1>1, <1>2, <2>2 DEF Separate
  <2>3. \A r \in Requests : pc'[r] \in Early => base[r] = <<>>
        BY <1>2 DEF Separate
  <2> QED BY <1>3, <2>1, <2>2, <2>3 DEF Separate
<1>6. Kept'
  <2> SUFFICES ASSUME NEW r \in Requests, NEW t \in Ids,
                      t = ThreadId(r)', t \notin overlapped'
               PROVE  /\ pc'[r] = "running" =>
                            /\ threads'[t] = Append(base'[r], Human(r)')
                            /\ \A q \in Requests :
                                  pc'[q] = "running" /\ ThreadId(q)' = t => q = r
                      /\ Over(r)' => Remembers(t, r)'
      BY DEF Kept
  <2>1. \A q \in Requests : (pc'[q] = "running" => pc[q] = "running") /\ (Over(q)' => Over(q))
        BY DEF Quiet
  <2>2. t = ThreadId(r) /\ t \notin overlapped /\ Human(r)' = Human(r)
        BY <1>1, <1>3 DEF Human
  <2>3. ASSUME pc'[r] = "running"
        PROVE  /\ threads'[t] = Append(base'[r], Human(r)')
               /\ \A q \in Requests : pc'[q] = "running" /\ ThreadId(q)' = t => q = r
    <3>1. /\ threads[t] = Append(base[r], Human(r))
          /\ \A q \in Requests : pc[q] = "running" /\ ThreadId(q) = t => q = r
          BY <2>1, <2>2, <2>3 DEF Kept
    <3> QED BY <1>1, <1>3, <2>1, <2>2, <3>1
  <2>4. ASSUME Over(r)'
        PROVE  Remembers(t, r)'
    <3>1. Remembers(t, r)
          BY <2>1, <2>2, <2>4 DEF Kept
    <3> QED BY <1>4, <3>1
  <2> QED BY <2>3, <2>4
<1> QED BY <1>5, <1>6

\* A new request has neither run nor loaded anything.
LEMMA ReceiveMemory ==
    ASSUME MemoryInv, StreamInv', NEW r \in Requests, NEW c \in Calls, Receive(r, c)
    PROVE  Separate' /\ Kept'
<1> USE DEF MemoryInv, StreamInv, TypeOK
<1>1. threads' = threads /\ base' = base /\ overlapped' = overlapped
      BY DEF Receive
<1>2. ASSUME NEW q \in Requests, q # r
      PROVE  pc'[q] = pc[q] /\ ThreadId(q)' = ThreadId(q) /\ out'[q] = out[q]
  <2>1. pc'[q] = pc[q] /\ call'[q] = call[q] /\ out'[q] = out[q]
        BY <1>2 DEF Receive, Goto, Emit
  <2> QED BY <2>1, ThreadStays
<1>3. /\ pc[r] = "new" /\ pc'[r] \in {"received", "done"}
      /\ base[r] = <<>> /\ Len(base[r]) = 0
  <2>1. pc[r] = "new" /\ pc'[r] \in {"received", "done"}
        BY DEF Receive, Goto
  <2>2. base[r] = <<>>
        BY <2>1 DEF Separate, Early
  <2> QED BY <2>1, <2>2
<1>4. ~Over(r)'
  <2>1. CASE c.method = "other"
    <3>1. Emit(r, "error") /\ "error" \in Answers
          BY <2>1 DEF Receive, Answers
    <3>2. Last(out[r])' = "error"
          BY <3>1, SentEmit DEF Last
    <3>3. pc'[r] = "done"
          BY <2>1 DEF Receive, Goto
    <3> QED BY <3>2, <3>3 DEF Over
  <2>2. CASE c.method # "other"
    <3>1. pc'[r] = "received"
          BY <2>2 DEF Receive, Goto
    <3> QED BY <3>1 DEF Over
  <2> QED BY <2>1, <2>2
<1>5. Separate'
  <2>1. ASSUME NEW t \in Ids, NEW q \in Requests, NEW i \in 1..Len(threads[t]),
               threads[t][i].request = q
        PROVE  pc'[q] \notin Early /\ ThreadId(q)' = t
    <3>1. pc[q] \notin Early /\ ThreadId(q) = t
          BY <2>1 DEF Separate
    <3>2. q # r
          BY <1>3, <3>1 DEF Early
    <3> QED BY <1>2, <3>1, <3>2
  <2>2. ASSUME NEW R \in Requests, NEW q \in Requests, NEW i \in 1..Len(base[R]),
               base[R][i].request = q
        PROVE  pc'[q] \notin Early /\ ThreadId(q)' = ThreadId(R)' /\ q # R
    <3>1. pc[q] \notin Early /\ ThreadId(q) = ThreadId(R) /\ q # R
          BY <2>2 DEF Separate
    <3>2. q # r /\ R # r
          BY <1>3, <2>2, <3>1 DEF Early
    <3> QED BY <1>2, <3>1, <3>2
  <2>3. ASSUME NEW q \in Requests, pc'[q] \in Early
        PROVE  base[q] = <<>>
    <3>1. CASE q = r
          BY <1>3, <3>1
    <3>2. CASE q # r
          BY <1>2, <2>3, <3>2 DEF Separate
    <3> QED BY <3>1, <3>2
  <2> QED BY <1>1, <2>1, <2>2, <2>3 DEF Separate
<1>6. Kept'
  <2> SUFFICES ASSUME NEW R \in Requests, NEW t \in Ids,
                      t = ThreadId(R)', t \notin overlapped'
               PROVE  /\ pc'[R] = "running" =>
                            /\ threads'[t] = Append(base'[R], Human(R)')
                            /\ \A q \in Requests :
                                  pc'[q] = "running" /\ ThreadId(q)' = t => q = R
                      /\ Over(R)' => Remembers(t, R)'
      BY DEF Kept
  <2>1. CASE R = r
        BY <1>3, <1>4, <2>1
  <2>2. CASE R # r
    <3>1. pc'[R] = pc[R] /\ t = ThreadId(R) /\ Human(R)' = Human(R)
          /\ (Over(R)' => Over(R))
          BY <1>2, <2>2 DEF Human, Over
    <3>2. ASSUME pc'[R] = "running", NEW q \in Requests,
                 pc'[q] = "running", ThreadId(q)' = t
          PROVE  q = R
      <4>1. q # r
            BY <1>3, <3>2
      <4>2. pc[q] = "running" /\ ThreadId(q) = t
            BY <1>2, <3>2, <4>1
      <4> QED BY <1>1, <3>1, <3>2, <4>2 DEF Kept
    <3>3. pc'[R] = "running" => threads'[t] = Append(base'[R], Human(R)')
          BY <1>1, <3>1 DEF Kept
    <3>4. Over(R)' => Remembers(t, R)
          BY <1>1, <3>1 DEF Kept
    <3>5. Remembers(t, R)' <=> Remembers(t, R)
          BY <1>1 DEF Remembers, Human, Agent
    <3> QED BY <3>2, <3>3, <3>4, <3>5
  <2> QED BY <2>1, <2>2
<1> QED BY <1>5, <1>6

\* Starting a run keeps the memory.
LEMMA LoadMemory ==
    ASSUME MemoryInv, StreamInv', NEW r \in Requests, Load(r)
    PROVE  Separate' /\ Kept'
<1> USE DEF MemoryInv, StreamInv, TypeOK
<1> DEFINE t0 == ThreadId(r)
<1>0. t0 \in Ids /\ Human(r) \in Messages /\ Human(r).request = r
      BY IdTypes DEF Human
<1>1. \A q \in Requests : ThreadId(q)' = ThreadId(q)
      BY ThreadStays DEF Load
<1>2. pc[r] \in Early /\ pc'[r] = "running"
      BY DEF Load, AtMessage, Early, Goto
<1>3. \A q \in Requests : q # r => pc'[q] = pc[q] /\ base'[q] = base[q]
      BY DEF Load, Goto
<1>4. out' = out /\ base'[r] = threads[t0]
      BY DEF Load
<1>5. /\ \A t \in Ids : t # t0 => threads'[t] = threads[t]
      /\ threads'[t0] = Append(threads[t0], Human(r))
      BY <1>0 DEF Load
<1>6. /\ Len(threads'[t0]) = Len(threads[t0]) + 1
      /\ \A i \in 1..Len(threads[t0]) : threads'[t0][i] = threads[t0][i]
      /\ threads'[t0][Len(threads[t0]) + 1] = Human(r)
      /\ Len(threads[t0]) \in Nat
      BY <1>0, <1>5, AppendFacts
<1>7. t0 \notin overlapped' =>
         t0 \notin overlapped /\ \A q \in Requests : ~(pc[q] = "running" /\ ThreadId(q) = t0)
      BY DEF Load, InRun
<1>8. overlapped \subseteq overlapped'
      BY DEF Load
<1>9. Separate'
  <2>1. ASSUME NEW t \in Ids, NEW q \in Requests, NEW i \in 1..Len(threads'[t]),
               threads'[t][i].request = q
        PROVE  pc'[q] \notin Early /\ ThreadId(q)' = t
    <3>1. CASE t = t0 /\ i = Len(threads[t0]) + 1
          BY <1>0, <1>1, <1>2, <1>6, <2>1, <3>1 DEF Early
    <3>2. CASE ~(t = t0 /\ i = Len(threads[t0]) + 1)
      <4>1. i \in 1..Len(threads[t]) /\ threads'[t][i] = threads[t][i]
        <5>1. CASE t = t0
              BY <1>6, <3>2, <5>1
        <5>2. CASE t # t0
              BY <1>5, <5>2
        <5> QED BY <5>1, <5>2
      <4>2. pc[q] \notin Early /\ ThreadId(q) = t
            BY <2>1, <4>1 DEF Separate
      <4> QED BY <1>1, <1>2, <1>3, <4>2
    <3> QED BY <3>1, <3>2
  <2>2. ASSUME NEW R \in Requests, NEW q \in Requests, NEW i \in 1..Len(base'[R]),
               base'[R][i].request = q
        PROVE  pc'[q] \notin Early /\ ThreadId(q)' = ThreadId(R)' /\ q # R
    <3>1. CASE R = r
      <4>1. pc[q] \notin Early /\ ThreadId(q) = t0
            BY <1>0, <1>4, <2>2, <3>1 DEF Separate
      <4> QED BY <1>1, <1>2, <1>3, <3>1, <4>1
    <3>2. CASE R # r
      <4>1. pc[q] \notin Early /\ ThreadId(q) = ThreadId(R) /\ q # R
            BY <1>3, <2>2, <3>2 DEF Separate
      <4> QED BY <1>1, <1>2, <1>3, <4>1
    <3> QED BY <3>1, <3>2
  <2>3. \A q \in Requests : pc'[q] \in Early => base'[q] = <<>>
        BY <1>2, <1>3 DEF Separate, Early
  <2> QED BY <2>1, <2>2, <2>3 DEF Separate
<1>10. Kept'
  <2> SUFFICES ASSUME NEW R \in Requests, NEW t \in Ids,
                      t = ThreadId(R)', t \notin overlapped'
               PROVE  /\ pc'[R] = "running" =>
                            /\ threads'[t] = Append(base'[R], Human(R)')
                            /\ \A q \in Requests :
                                  pc'[q] = "running" /\ ThreadId(q)' = t => q = R
                      /\ Over(R)' => Remembers(t, R)'
      BY DEF Kept
  <2>0. t = ThreadId(R) /\ t \notin overlapped /\ Human(R)' = Human(R)
        /\ Agent(R)' = Agent(R)
        BY <1>1, <1>8 DEF Human, Agent
  <2>1. CASE R = r
    <3>1. t = t0
          BY <2>0, <2>1
    <3>2. ~Over(R)'
          BY <1>2, <2>1 DEF Over
    <3>3. threads'[t] = Append(base'[R], Human(R)')
          BY <1>4, <1>5, <2>0, <2>1, <3>1
    <3>4. ASSUME NEW q \in Requests, pc'[q] = "running", ThreadId(q)' = t
          PROVE  q = R
          BY <1>1, <1>3, <1>7, <2>1, <3>1, <3>4
    <3> QED BY <3>2, <3>3, <3>4
  <2>2. CASE R # r
    <3>1. pc'[R] = pc[R] /\ base'[R] = base[R] /\ (Over(R)' => Over(R))
          BY <1>3, <1>4, <2>2 DEF Over
    <3>2. ASSUME pc'[R] = "running"
          PROVE  /\ threads'[t] = Append(base'[R], Human(R)')
                 /\ \A q \in Requests : pc'[q] = "running" /\ ThreadId(q)' = t => q = R
      <4>1. t # t0
            BY <1>7, <2>0, <3>1, <3>2
      <4>2. threads[t] = Append(base[R], Human(R))
            BY <2>0, <3>1, <3>2 DEF Kept
      <4>3. ASSUME NEW q \in Requests, pc'[q] = "running", ThreadId(q)' = t
            PROVE  q = R
        <5>1. q # r /\ pc[q] = "running" /\ ThreadId(q) = t
              BY <1>1, <1>3, <4>1, <4>3
        <5> QED BY <2>0, <3>1, <3>2, <5>1 DEF Kept
      <4> QED BY <1>5, <2>0, <3>1, <4>1, <4>2, <4>3
    <3>3. ASSUME Over(R)'
          PROVE  Remembers(t, R)'
      <4>1. PICK i \in 1..(Len(threads[t]) - 1) :
                threads[t][i] = Human(R) /\ threads[t][i + 1] = Agent(R)
            BY <2>0, <3>1, <3>3 DEF Kept, Remembers
      <4>2. /\ Len(threads[t]) \in Nat /\ Len(threads'[t]) \in Nat
            /\ Len(threads'[t]) >= Len(threads[t])
            /\ \A j \in 1..Len(threads[t]) : threads'[t][j] = threads[t][j]
        <5>1. CASE t = t0
              BY <1>6, <5>1
        <5>2. CASE t # t0
          <6>1. threads'[t] = threads[t] /\ Len(threads[t]) \in Nat
                BY <1>5, <5>2
          <6> QED BY <6>1
        <5> QED BY <5>1, <5>2
      <4>3. i \in 1..(Len(threads'[t]) - 1)
            /\ i \in 1..Len(threads[t]) /\ i + 1 \in 1..Len(threads[t])
            BY <4>2
      <4>4. threads'[t][i] = Human(R)' /\ threads'[t][i + 1] = Agent(R)'
            BY <2>0, <4>1, <4>2, <4>3
      <4> QED BY <4>3, <4>4 DEF Remembers
    <3> QED BY <3>2, <3>3
  <2> QED BY <2>1, <2>2
<1> QED BY <1>9, <1>10

\* Storing a turn keeps the memory.
LEMMA StoreMemory ==
    ASSUME MemoryInv, StreamInv', NEW r \in Requests, Store(r)
    PROVE  Separate' /\ Kept'
<1> USE DEF MemoryInv, StreamInv, TypeOK
<1> DEFINE t0 == ThreadId(r)
           n  == Len(base[r])
<1>0. t0 \in Ids /\ n \in Nat
      /\ Human(r) \in Messages /\ Human(r).request = r
      /\ Agent(r) \in Messages /\ Agent(r).request = r
      BY IdTypes DEF Human, Agent
<1>1. \A q \in Requests : ThreadId(q)' = ThreadId(q)
      BY ThreadStays DEF Store
<1>2. pc[r] = "running" /\ pc'[r] = "saved"
      BY DEF Store, Goto
<1>3. \A q \in Requests : q # r => pc'[q] = pc[q]
      BY DEF Store, Goto
<1>4. out' = out /\ base' = base /\ overlapped' = overlapped
      BY DEF Store
<1>5. /\ \A t \in Ids : t # t0 => threads'[t] = threads[t]
      /\ threads'[t0] = base[r] \o <<Human(r), Agent(r)>>
      BY <1>0 DEF Store
<1>6. /\ Len(threads'[t0]) = n + 2
      /\ \A i \in 1..n : threads'[t0][i] = base[r][i]
      /\ threads'[t0][n + 1] = Human(r)
      /\ threads'[t0][n + 2] = Agent(r)
      BY <1>0, <1>5, TurnFacts
<1>7. Separate'
  <2>1. ASSUME NEW t \in Ids, NEW q \in Requests, NEW i \in 1..Len(threads'[t]),
               threads'[t][i].request = q
        PROVE  pc'[q] \notin Early /\ ThreadId(q)' = t
    <3>1. CASE t # t0
      <4>1. threads[t][i].request = q /\ i \in 1..Len(threads[t])
            BY <1>5, <2>1, <3>1
      <4>2. pc[q] \notin Early /\ ThreadId(q) = t
            BY <4>1 DEF Separate
      <4> QED BY <1>1, <1>2, <1>3, <4>2 DEF Early
    <3>2. CASE t = t0 /\ i \in 1..n
      <4>1. pc[q] \notin Early /\ ThreadId(q) = t0
            BY <1>6, <2>1, <3>2 DEF Separate
      <4> QED BY <1>1, <1>2, <1>3, <3>2, <4>1 DEF Early
    <3>3. CASE t = t0 /\ i \notin 1..n
      <4>1. i = n + 1 \/ i = n + 2
        <5>1. Len(threads'[t]) = n + 2
              BY <1>6, <3>3
        <5>2. i \in 1..(n + 2) /\ n \in Nat /\ i \notin 1..n
              BY <1>0, <3>3, <5>1
        <5> HIDE DEF n
        <5> QED BY <5>2
      <4>2. q = r
            BY <1>0, <1>6, <2>1, <3>3, <4>1
      <4> QED BY <1>1, <1>2, <3>3, <4>2 DEF Early
    <3> QED BY <3>1, <3>2, <3>3
  <2>2. ASSUME NEW R \in Requests, NEW q \in Requests, NEW i \in 1..Len(base[R]),
               base[R][i].request = q
        PROVE  pc'[q] \notin Early /\ ThreadId(q)' = ThreadId(R)' /\ q # R
    <3>1. pc[q] \notin Early /\ ThreadId(q) = ThreadId(R) /\ q # R
          BY <2>2 DEF Separate
    <3> QED BY <1>1, <1>2, <1>3, <3>1 DEF Early
  <2>3. \A q \in Requests : pc'[q] \in Early => base[q] = <<>>
        BY <1>2, <1>3 DEF Separate, Early
  <2> QED BY <1>4, <2>1, <2>2, <2>3 DEF Separate
<1>8. Kept'
  <2> SUFFICES ASSUME NEW R \in Requests, NEW t \in Ids,
                      t = ThreadId(R)', t \notin overlapped'
               PROVE  /\ pc'[R] = "running" =>
                            /\ threads'[t] = Append(base'[R], Human(R)')
                            /\ \A q \in Requests :
                                  pc'[q] = "running" /\ ThreadId(q)' = t => q = R
                      /\ Over(R)' => Remembers(t, R)'
      BY DEF Kept
  <2>0. t = ThreadId(R) /\ t \notin overlapped
        /\ Human(R)' = Human(R) /\ Agent(R)' = Agent(R)
        BY <1>1, <1>4 DEF Human, Agent
  <2>1. CASE R = r
    <3>1. threads'[t][n + 1] = Human(R)' /\ threads'[t][n + 1 + 1] = Agent(R)'
          BY <1>0, <1>6, <2>0, <2>1
    <3>2. n + 1 \in 1..(Len(threads'[t]) - 1)
          BY <1>0, <1>6, <2>0, <2>1
    <3>3. Remembers(t, R)'
          BY <3>1, <3>2 DEF Remembers
    <3> QED BY <1>2, <2>1, <3>3
  <2>2. CASE R # r
    <3>1. pc'[R] = pc[R] /\ (Over(R)' => Over(R))
          BY <1>3, <1>4, <2>2 DEF Over
    <3>2. ASSUME pc'[R] = "running"
          PROVE  /\ threads'[t] = Append(base'[R], Human(R)')
                 /\ \A q \in Requests : pc'[q] = "running" /\ ThreadId(q)' = t => q = R
      <4>1. t # t0
            BY <1>2, <2>0, <2>2, <3>1, <3>2 DEF Kept
      <4>2. /\ threads[t] = Append(base[R], Human(R))
            /\ \A q \in Requests : pc[q] = "running" /\ ThreadId(q) = t => q = R
            BY <2>0, <3>1, <3>2 DEF Kept
      <4>3. ASSUME NEW q \in Requests, pc'[q] = "running", ThreadId(q)' = t
            PROVE  q = R
            BY <1>1, <1>2, <1>3, <4>2, <4>3
      <4> QED BY <1>4, <1>5, <2>0, <4>1, <4>2, <4>3
    <3>3. ASSUME Over(R)'
          PROVE  Remembers(t, R)'
      <4>1. PICK i \in 1..(Len(threads[t]) - 1) :
                threads[t][i] = Human(R) /\ threads[t][i + 1] = Agent(R)
            BY <2>0, <3>1, <3>3 DEF Kept, Remembers
      <4>2. /\ Len(threads[t]) \in Nat /\ Len(threads'[t]) \in Nat
            /\ Len(threads'[t]) >= Len(threads[t])
            /\ \A j \in 1..Len(threads[t]) : threads'[t][j] = threads[t][j]
        <5>1. CASE t = t0
          <6>1. threads[t] = Append(base[r], Human(r))
                BY <1>2, <2>0, <5>1 DEF Kept
          <6>2. /\ Len(threads[t]) = n + 1
                /\ \A j \in 1..n : threads[t][j] = base[r][j]
                /\ threads[t][n + 1] = Human(r)
                BY <1>0, <6>1, AppendFacts
          <6>3. /\ Len(threads'[t]) = n + 2
                /\ \A j \in 1..n : threads'[t][j] = base[r][j]
                /\ threads'[t][n + 1] = Human(r)
                BY <1>6, <5>1
          <6>4. n \in Nat
                BY <1>0
          <6> HIDE DEF n
          <6>5. ASSUME NEW j \in 1..Len(threads[t])
                PROVE  threads'[t][j] = threads[t][j]
            <7>1. j \in 1..n \/ j = n + 1
                  BY <6>2, <6>4
            <7> QED BY <6>2, <6>3, <7>1
          <6>6. Len(threads[t]) \in Nat /\ Len(threads'[t]) \in Nat
                /\ Len(threads'[t]) >= Len(threads[t])
                BY <6>2, <6>3, <6>4
          <6> QED BY <6>5, <6>6
        <5>2. CASE t # t0
          <6>1. threads'[t] = threads[t] /\ Len(threads[t]) \in Nat
                BY <1>5, <5>2
          <6> QED BY <6>1
        <5> QED BY <5>1, <5>2
      <4>3. i \in 1..(Len(threads'[t]) - 1)
            /\ i \in 1..Len(threads[t]) /\ i + 1 \in 1..Len(threads[t])
            BY <4>2
      <4>4. threads'[t][i] = Human(R)' /\ threads'[t][i + 1] = Agent(R)'
            BY <2>0, <4>1, <4>2, <4>3
      <4> QED BY <4>3, <4>4 DEF Remembers
    <3> QED BY <3>2, <3>3
  <2> QED BY <2>1, <2>2
<1> QED BY <1>7, <1>8

\* Every step keeps the memory.
LEMMA NextMemory == MemoryInv /\ [Next]_vars => MemoryInv'
<1> SUFFICES ASSUME MemoryInv, [Next]_vars PROVE MemoryInv'
    OBVIOUS
<1>1. StreamInv'
      BY NextStreams DEF MemoryInv
<1>2. CASE Next
  <2>1. CASE Quiet
        BY <1>1, <2>1, QuietMemory DEF MemoryInv
  <2>2. ASSUME NEW r \in Requests, Load(r)
        PROVE  MemoryInv'
        BY <1>1, <2>2, LoadMemory DEF MemoryInv
  <2>3. ASSUME NEW r \in Requests, Store(r)
        PROVE  MemoryInv'
        BY <1>1, <2>3, StoreMemory DEF MemoryInv
  <2>4. ASSUME NEW r \in Requests, NEW c \in Calls, Receive(r, c)
        PROVE  MemoryInv'
        BY <1>1, <2>4, ReceiveMemory DEF MemoryInv
  <2> QED BY <1>1, <1>2, <2>1, <2>2, <2>3, <2>4, QuietSteps DEF MemoryInv
<1>3. CASE UNCHANGED vars
  <2>1. Quiet
        BY <1>3 DEF vars, Quiet, Over
  <2> QED BY <1>1, <2>1, QuietMemory DEF MemoryInv
<1> QED BY <1>2, <1>3

\* A completed turn stays in the thread its task id names as long as no two
\* runs of the thread overlap.
THEOREM TurnsKept == Spec => []CompletedTurnsKept
<1>1. MemoryInv => CompletedTurnsKept
  <2> SUFFICES ASSUME MemoryInv, NEW r \in Requests,
                      out[r] # <<>>, Last(out[r]) = "completed",
                      call[r].task # None \/ call[r].method = "sendSubscribe",
                      TaskId(r) \notin overlapped
               PROVE  Remembers(TaskId(r), r)
      BY DEF CompletedTurnsKept
  <2> USE DEF MemoryInv, StreamInv
  <2>1. ThreadId(r) = TaskId(r)
        BY DEF ThreadId
  <2>2. Len(out[r]) \in 1..Len(out[r]) /\ out[r][Len(out[r])] = "completed"
        BY DEF Last, TypeOK
  <2>3. pc[r] = "done"
        BY <2>2 DEF Sent, Terminal
  <2>4. ThreadId(r) \in Ids /\ Over(r)
        BY <2>3, IdTypes DEF Over
  <2> QED BY <2>1, <2>4 DEF Kept
<1> QED BY <1>1, InitMemory, NextMemory, PTL DEF Spec

\* Only the runs of one task have one thread, apart from the run itself: the
\* thread of tasks/send without an id is told to nobody, so no client names it.
LEMMA OneThread ==
    ASSUME TypeOK, NEW q \in Requests, NEW r \in Requests, q # r, ThreadId(q) = ThreadId(r)
    PROVE  /\ TaskId(q) = TaskId(r)
           /\ ~(call[r].method = "send" /\ call[r].task = None)
<1> DEFINE Own(p) == call[p].method = "send" /\ call[p].task = None
<1>1. ASSUME NEW p \in Requests, NEW o \in Requests, p # o, Own(o)
      PROVE  ThreadId(p) # ThreadId(o)
  <2>1. ThreadId(o) = <<o, "thread">> /\ ThreadId(o) \in MadeUp
        BY <1>1 DEF ThreadId, MadeUp
  <2>2. CASE call[p].task = None
        BY <1>1, <2>1, <2>2 DEF ThreadId, TaskId
  <2>3. CASE call[p].task # None
    <3>1. ThreadId(p) = call[p].task /\ call[p].task \in Tasks \union (Requests \X {"task"})
          BY <2>3 DEF ThreadId, TaskId, TypeOK, Calls
    <3> QED BY <2>1, <3>1, AgentServerAssumption
  <2> QED BY <2>2, <2>3
<1>2. ~Own(q) /\ ~Own(r)
      BY <1>1
<1>3. ThreadId(q) = TaskId(q) /\ ThreadId(r) = TaskId(r)
      BY <1>2 DEF ThreadId
<1> QED BY <1>2, <1>3

\* No run is shown a message of a request of another task, and a message sent
\* without an id is the first of its thread.
THEOREM Separation == Spec => []ConversationsAreSeparate
<1>1. MemoryInv => ConversationsAreSeparate
  <2> SUFFICES ASSUME MemoryInv, NEW r \in Requests
               PROVE  /\ call[r].method = "send" /\ call[r].task = None => base[r] = <<>>
                      /\ \A i \in DOMAIN base[r] : TaskId(base[r][i].request) = TaskId(r)
      BY DEF ConversationsAreSeparate
  <2> USE DEF MemoryInv, StreamInv
  <2>1. base[r] \in Seq(Messages)
        BY DEF TypeOK
  <2>2. ASSUME NEW i \in 1..Len(base[r])
        PROVE  /\ TaskId(base[r][i].request) = TaskId(r)
               /\ ~(call[r].method = "send" /\ call[r].task = None)
    <3>0. base[r][i] \in Messages
          BY <2>1
    <3>1. PICK q \in Requests : q = base[r][i].request
          BY <3>0 DEF Messages
    <3>2. ThreadId(q) = ThreadId(r) /\ q # r
          BY <3>1 DEF Separate
    <3> QED BY <3>1, <3>2, OneThread
  <2>3. ASSUME call[r].method = "send", call[r].task = None
        PROVE  base[r] = <<>>
    <3>1. Len(base[r]) = 0
          BY <2>1, <2>2, <2>3
    <3> QED BY <2>1, <3>1
  <2> QED BY <2>1, <2>2, <2>3
<1> QED BY <1>1, InitMemory, NextMemory, PTL DEF Spec
=============================================================================

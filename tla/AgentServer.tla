----------------------------- MODULE AgentServer -----------------------------
(***************************************************************************)
(* AgentServer (synapse/runtime/server.py): JSON-RPC requests handled by   *)
(* one event loop, each of which runs the graph on a thread.               *)
(*                                                                         *)
(* Handlers interleave at every await.  The graph has a checkpointer, of   *)
(* which LangGraph asks two things in a run: the latest state of the       *)
(* thread when the run starts, and to store the state after the input and  *)
(* at the end, as the latest.  What a run stores is what it loaded and its *)
(* own messages, whatever was stored in between.                           *)
(*                                                                         *)
(* A message is its author and the request it belongs to; what a client    *)
(* receives is the sequence of the states and artifacts, in order.         *)
(***************************************************************************)
EXTENDS Naturals, Sequences, SequencesExt

CONSTANTS
    Requests,     \* the requests clients send
    Tasks,        \* the task ids clients choose of their own
    None,         \* no task id in the params
    MaxChunks,    \* bound: chunks a run streams
    MaxRestarts   \* bound: restarts of the process

MadeUp == Requests \X {"task", "thread"}  \* the ids uuid4 makes up

\* No client chooses of its own what uuid4 is going to make up.
ASSUME AgentServerAssumption ==
    /\ None \notin Tasks \union MadeUp
    /\ Tasks \intersect MadeUp = {}
    /\ MaxChunks \in Nat
    /\ MaxRestarts \in Nat

VARIABLES
    pc,         \* how far each request is
    call,       \* its method, task id, and whether its message is well formed
    base,       \* the messages its run loaded
    out,        \* what its client has been sent
    threads,    \* the latest messages the checkpointer has of each thread
    restarts,   \* restarts so far
    overlapped  \* history: threads on which two runs were under way at once

vars == <<pc, call, base, out, threads, restarts, overlapped>>

Calls    == [method : {"send", "sendSubscribe", "other"},
             task : Tasks \union {None} \union (Requests \X {"task"}), good : BOOLEAN]
NoCall   == [method |-> "other", task |-> None, good |-> FALSE]
Ids      == Tasks \union MadeUp
Messages == [author : {"human", "agent"}, request : Requests]
Answers  == {"submitted", "working", "artifact", "completed", "failed", "error"}

\* new: not sent yet; received, submitted: before the run; running: in the
\* run; saved: the run is over; done: answered; broken: the handler raised;
\* gone: the client of a stream has left or the process has ended.
Stages == {"new", "received", "submitted", "running", "saved", "done", "broken", "gone"}

TypeOK ==
    /\ pc \in [Requests -> Stages]
    /\ call \in [Requests -> Calls]
    /\ base \in [Requests -> Seq(Messages)]
    /\ out \in [Requests -> Seq(Answers)]
    /\ threads \in [Ids -> Seq(Messages)]
    /\ restarts \in 0..MaxRestarts
    /\ overlapped \subseteq Ids
    /\ \A r \in Requests :
          /\ pc[r] # "new" => call[r].method \in {"send", "sendSubscribe"} \/ pc[r] = "done"
          /\ pc[r] = "submitted" => call[r].method = "sendSubscribe"

Init ==
    /\ pc = [r \in Requests |-> "new"]
    /\ call = [r \in Requests |-> NoCall]
    /\ base = [r \in Requests |-> <<>>]
    /\ out = [r \in Requests |-> <<>>]
    /\ threads = [i \in Ids |-> <<>>]
    /\ restarts = 0
    /\ overlapped = {}

Human(r) == [author |-> "human", request |-> r]
Agent(r) == [author |-> "agent", request |-> r]

\* The id a task is given in what its client is sent.
TaskId(r) == IF call[r].task # None THEN call[r].task ELSE <<r, "task">>

\* Mutant: requests without a task id share one.
ThreadIdShared(r) ==
    IF call[r].task # None THEN call[r].task ELSE CHOOSE t \in Tasks : TRUE

\* The thread of the run.  _invoke makes up an id of its own for a request
\* without one, _send_subscribe uses the task's.
ThreadId(r) ==
    IF call[r].method = "send" /\ call[r].task = None THEN <<r, "thread">>
                                                      ELSE TaskId(r)

Goto(r, stage) == pc' = [pc EXCEPT ![r] = stage]
Emit(r, event) == out' = [out EXCEPT ![r] = Append(@, event)]

\* The made-up ids clients have been told, with which they may follow up.  The id
\* _invoke makes up for a thread is told to nobody.
Returned ==
    {<<q, "task">> : q \in {q \in Requests : /\ call[q].task = None
                                           /\ call[q].method # "other"
                                           /\ out[q] # <<>>}}

\* A request arrives; another method is answered with an error at once.
Receive(r, c) ==
    /\ pc[r] = "new"
    /\ c.task \in Tasks \union {None} \union Returned
    /\ call' = [call EXCEPT ![r] = c]
    /\ IF c.method = "other"
       THEN Goto(r, "done") /\ Emit(r, "error")
       ELSE Goto(r, "received") /\ UNCHANGED out
    /\ UNCHANGED <<base, threads, restarts, overlapped>>

\* A stream begins with two states, each sent when the client takes it.
Submitted(r) ==
    /\ pc[r] = "received"
    /\ call[r].method = "sendSubscribe"
    /\ out[r] = <<>>
    /\ Emit(r, "submitted")
    /\ UNCHANGED <<pc, call, base, threads, restarts, overlapped>>

Working(r) ==
    /\ pc[r] = "received"
    /\ call[r].method = "sendSubscribe"
    /\ out[r] = <<"submitted">>
    /\ Emit(r, "working")
    /\ Goto(r, "submitted")
    /\ UNCHANGED <<call, base, threads, restarts, overlapped>>

\* The handler is where it reads the message.
AtMessage(r) ==
    \/ pc[r] = "received" /\ call[r].method = "send"
    \/ pc[r] = "submitted"

\* A message the handler cannot read fails a task that is sent ...
RefuseMessage(r) ==
    /\ AtMessage(r)
    /\ ~call[r].good
    /\ call[r].method = "send"
    /\ Emit(r, "failed")
    /\ Goto(r, "done")
    /\ UNCHANGED <<call, base, threads, restarts, overlapped>>

\* ... and breaks a stream, where it is read outside of the try.
BreakStream(r) ==
    /\ AtMessage(r)
    /\ ~call[r].good
    /\ call[r].method = "sendSubscribe"
    /\ Goto(r, "broken")
    /\ UNCHANGED <<call, base, out, threads, restarts, overlapped>>

InRun(t) == {r \in Requests : pc[r] = "running" /\ ThreadId(r) = t}

\* Mutant: a thread has a lock that a cancelled handler does not release.
LoadLocked(r) ==
    LET t == ThreadId(r)
    IN  /\ AtMessage(r)
        /\ call[r].good
        /\ \A q \in Requests \ {r} :
              ThreadId(q) = t => pc[q] \notin {"running", "gone"}
        /\ base' = [base EXCEPT ![r] = threads[t]]
        /\ threads' = [threads EXCEPT ![t] = Append(@, Human(r))]
        /\ Goto(r, "running")
        /\ UNCHANGED <<call, out, restarts, overlapped>>

\* The run starts from the latest state of its thread and stores its input.
Load(r) ==
    LET t == ThreadId(r)
    IN  /\ AtMessage(r)
        /\ call[r].good
        /\ base' = [base EXCEPT ![r] = threads[t]]
        /\ threads' = [threads EXCEPT ![t] = Append(@, Human(r))]
        /\ overlapped' = IF InRun(t) = {} THEN overlapped ELSE overlapped \union {t}
        /\ Goto(r, "running")
        /\ UNCHANGED <<call, out, restarts>>

\* A chunk of a streamed run is passed on.
Chunk(r) ==
    /\ pc[r] = "running"
    /\ call[r].method = "sendSubscribe"
    /\ Len(out[r]) < 2 + MaxChunks
    /\ Emit(r, "artifact")
    /\ UNCHANGED <<pc, call, base, threads, restarts, overlapped>>

\* Mutant: the run stores its own turn only.
StoreTurn(r) ==
    /\ pc[r] = "running"
    /\ threads' = [threads EXCEPT ![ThreadId(r)] = <<Human(r), Agent(r)>>]
    /\ Goto(r, "saved")
    /\ UNCHANGED <<call, base, out, restarts, overlapped>>

\* The graph has answered and its last state is stored.
Store(r) ==
    /\ pc[r] = "running"
    /\ threads' = [threads EXCEPT ![ThreadId(r)] =
                      base[r] \o <<Human(r), Agent(r)>>]
    /\ Goto(r, "saved")
    /\ UNCHANGED <<call, base, out, restarts, overlapped>>

\* The answer, or the last state of the stream, is sent.
Complete(r) ==
    /\ pc[r] = "saved"
    /\ Emit(r, "completed")
    /\ Goto(r, "done")
    /\ UNCHANGED <<call, base, threads, restarts, overlapped>>

\* Mutant: the stream goes on after the failure is reported.
RunFailsOpen(r) ==
    /\ pc[r] = "running"
    /\ Emit(r, "failed")
    /\ UNCHANGED <<pc, call, base, threads, restarts, overlapped>>

\* The graph raises; both handlers report a failed task.
RunFails(r) ==
    /\ pc[r] = "running"
    /\ Emit(r, "failed")
    /\ Goto(r, "done")
    /\ UNCHANGED <<call, base, threads, restarts, overlapped>>

\* The client of a stream leaves and the handler is cancelled with its run.
\* A client that leaves tasks/send only misses its answer.
Disconnect(r) ==
    /\ pc[r] \in {"received", "submitted", "running", "saved"}
    /\ call[r].method = "sendSubscribe"
    /\ Goto(r, "gone")
    /\ UNCHANGED <<call, base, out, threads, restarts, overlapped>>

\* The process ends and another one starts: every handler is gone.
Restart ==
    /\ restarts < MaxRestarts
    /\ restarts' = restarts + 1
    /\ pc' = [r \in Requests |->
                IF pc[r] \in {"new", "done", "broken"} THEN pc[r] ELSE "gone"]
    /\ UNCHANGED <<call, base, out, threads, overlapped>>

Handle(r) ==
    \/ Submitted(r) \/ Working(r) \/ RefuseMessage(r) \/ BreakStream(r)
    \/ Load(r) \/ Store(r) \/ Complete(r)

Next ==
    \/ \E r \in Requests :
          \/ \E c \in Calls : Receive(r, c)
          \/ Handle(r) \/ Chunk(r) \/ RunFails(r) \/ Disconnect(r)
    \/ Restart

Spec == Init /\ [][Next]_vars

\* A run returns or raises and the event loop goes on with every handler.
FairSpec == Spec /\ \A r \in Requests : WF_vars(Handle(r) \/ RunFails(r))

-----------------------------------------------------------------------------
Terminal == {"completed", "failed", "error"}

\* A client is sent one terminal state at most and nothing after it, a stream
\* starts with submitted and working before any artifact, and a request that
\* has its terminal state is over (_send 142-148, _send_subscribe 150-181).
StreamsAreWellFormed ==
    \A r \in Requests :
        /\ \A i \in DOMAIN out[r] :
              /\ out[r][i] \in Terminal => i = Len(out[r]) /\ pc[r] = "done"
              /\ out[r][i] = "artifact" => i > 2
        /\ call[r].method = "sendSubscribe" => \A i \in DOMAIN out[r] :
              /\ i = 1 => out[r][i] = "submitted"
              /\ i = 2 => out[r][i] = "working"
        /\ pc[r] = "done" => Last(out[r]) \in Terminal

\* A thread remembers the turn of a request, question before answer.
Remembers(t, r) ==
    \E i \in 1..(Len(threads[t]) - 1) :
        threads[t][i] = Human(r) /\ threads[t][i + 1] = Agent(r)

\* A completed task is remembered by the thread its id names, later turns that
\* complete, fail or are cut off included, as long as no two runs of the
\* thread are under way at once (_invoke 134-140, _send_subscribe 151).  Of
\* tasks/send without an id this is not so: the id that is returned names no thread.
CompletedTurnsKept ==
    \A r \in Requests :
        /\ out[r] # <<>> /\ Last(out[r]) = "completed"
        /\ call[r].task # None \/ call[r].method = "sendSubscribe"
        /\ TaskId(r) \notin overlapped
        => Remembers(TaskId(r), r)

\* No run is shown a message of a request whose client was told of another task,
\* whether clients choose their ids or follow up with those that were returned to
\* them; and tasks/send without an id starts from nothing (136, 143, 151).
ConversationsAreSeparate ==
    \A r \in Requests :
        /\ call[r].method = "send" /\ call[r].task = None => base[r] = <<>>
        /\ \A i \in DOMAIN base[r] : TaskId(base[r][i].request) = TaskId(r)

\* Every request is over some day, one way or another.
EveryRequestEnds ==
    \A r \in Requests :
        pc[r] = "received" ~> pc[r] \in {"done", "broken", "gone"}

\* "Short-term memory (thread state)" (deep_research.py 110, the checkpointer):
\* a completed task is remembered by its thread.
CompletedTurnsRemembered ==
    \A r \in Requests :
        out[r] # <<>> /\ Last(out[r]) = "completed" => Remembers(ThreadId(r), r)
=============================================================================

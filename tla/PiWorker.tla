------------------------------ MODULE PiWorker ------------------------------
(***************************************************************************)
(* One Pi worker: agents/pi_process.py on the Python side and              *)
(* pi_worker/worker.mjs on the other end of the pipes.                     *)
(*                                                                         *)
(* Four activities meet here: the thread that calls (one, since a worker   *)
(* belongs to one problem, so _lock is never contended), the thread that   *)
(* writes a request, the thread that reads answers into the bounded queue, *)
(* and the process.  The thread that drains stderr shares no state with    *)
(* them.  Time is abstract: a deadline may pass at any moment.             *)
(***************************************************************************)
EXTENDS Integers, Sequences

CONSTANTS
    MaxCalls,   \* how many calls are made of this worker
    QueueSize   \* the capacity of _messages (128)

ASSUME PiWorkerAssumption ==
    /\ MaxCalls \in Nat \ {0}
    /\ QueueSize \in Nat \ {0}

VARIABLES
    pc,        \* where the calling thread is, in call or in close
    id,        \* the id of the last request
    closed,    \* _closed
    streams,   \* the pipes have not been closed on this side
    queue,     \* _messages
    writer,    \* the _send thread of the last request
    reader,    \* the _read thread
    held,      \* what _read still has to enqueue
    proc,      \* the process, and the strongest signal it was sent
    job,       \* the request the process is at, 0 for none
    stdout,    \* the lines the process has written and nobody read
    outcome,   \* history: what became of each call
    counted,   \* history: calls of on_usage for each request
    reported   \* history: usage events the process wrote for each request

caller  == <<pc, id, closed, streams, outcome, counted>>
threads == <<writer, reader, held, queue>>
process == <<proc, job, stdout, reported>>
vars    == <<caller, threads, process>>

Request == 1..MaxCalls

\* A line of the protocol; the id of a line cut off by the process's death
\* cannot be read.
Line == [kind : {"usage", "result"}, id : Request] \cup [kind : {"partial"}, id : {0}]

\* What travels in the queue: whole lines, an exception, the final None.
Message == [kind : {"usage", "result"}, id : Request]
           \cup [kind : {"error", "end"}, id : {0}]

Partial == [kind |-> "partial", id |-> 0]
Error   == [kind |-> "error", id |-> 0]
End     == [kind |-> "end", id |-> 0]

Init ==
    /\ pc = "idle" /\ id = 0 /\ closed = FALSE /\ streams = TRUE
    /\ queue = <<>> /\ held = <<>>
    /\ writer = "done" /\ reader = "reading"
    /\ proc = "running" /\ job = 0 /\ stdout = <<>>
    /\ outcome  = [r \in Request |-> "none"]
    /\ counted  = [r \in Request |-> 0]
    /\ reported = [r \in Request |-> 0]

-----------------------------------------------------------------------------
\* Mutated: only room ends the loop.
Enqueue_UntilRoom(m) == Len(queue) < QueueSize /\ queue' = Append(queue, m)

\* Mutated: a queue without a capacity.
Enqueue_Unbounded(m) == queue' = Append(queue, m)

\* _enqueue: try again until there is room or the worker is closed.  A put
\* that was under way when the worker was closed may still succeed.
Enqueue(m) ==
    \/ Len(queue) < QueueSize /\ queue' = Append(queue, m)
    \/ closed /\ queue' = queue

-----------------------------------------------------------------------------
(* The calling thread                                                      *)

\* call on an open worker: start the writer and wait for events.
Call ==
    /\ pc = "idle" /\ ~closed /\ id < MaxCalls
    /\ id' = id + 1
    /\ writer' = "writing"
    /\ pc' = "waiting"
    /\ UNCHANGED <<closed, streams, queue, reader, held, outcome, counted, process>>

\* call on a closed worker: "Pi worker is closed".
Refuse ==
    /\ pc = "idle" /\ closed /\ id < MaxCalls
    /\ id' = id + 1
    /\ outcome' = [outcome EXCEPT ![id'] = "refused"]
    /\ UNCHANGED <<pc, closed, streams, counted, threads, process>>

\* call with a request over the size limit: nothing is sent, and the worker
\* stays as it is.
RefuseOversized ==
    /\ pc = "idle" /\ ~closed /\ id < MaxCalls
    /\ id' = id + 1
    /\ outcome' = [outcome EXCEPT ![id'] = "refused"]
    /\ UNCHANGED <<pc, closed, streams, counted, threads, process>>

\* close, up to its first wait: a worker that is closed is left alone.
StartClose ==
    /\ closed' = TRUE
    /\ IF proc = "dead" THEN pc' = "joining" /\ UNCHANGED proc
                        ELSE pc' = "terminating" /\ proc' = "terminated"

\* except BaseException: close the worker and raise.
Fail ==
    /\ outcome' = [outcome EXCEPT ![id] = "failed"]
    /\ StartClose

\* The message at the head of the queue ends the call: it is the end of the
\* stream or an error, or it belongs to another request.
ReceiveFailure ==
    /\ pc = "waiting" /\ queue # <<>>
    /\ Head(queue).kind \in {"error", "end"} \/ Head(queue).id # id
    /\ queue' = Tail(queue)
    /\ Fail
    /\ UNCHANGED <<id, streams, counted, writer, reader, held, job, stdout, reported>>

\* A usage event: on_usage counts it, and may raise (its log file).
ReceiveUsage ==
    /\ pc = "waiting" /\ queue # <<>>
    /\ Head(queue).kind = "usage" /\ Head(queue).id = id
    /\ queue' = Tail(queue)
    /\ counted' = [counted EXCEPT ![id] = @ + 1]
    /\ Fail \/ UNCHANGED <<pc, closed, outcome, proc>>
    /\ UNCHANGED <<id, streams, writer, reader, held, job, stdout, reported>>

\* Mutated: the newest message first.
ReceiveResult_NewestFirst ==
    /\ pc = "waiting" /\ queue # <<>>
    /\ queue[Len(queue)] = [kind |-> "result", id |-> id]
    /\ queue' = <<>>
    /\ outcome' = [outcome EXCEPT ![id] = "answered"]
    /\ pc' = "idle"
    /\ UNCHANGED <<id, closed, streams, counted, writer, reader, held, process>>

ReceiveResult ==
    /\ pc = "waiting" /\ queue # <<>>
    /\ Head(queue).kind = "result" /\ Head(queue).id = id
    /\ queue' = Tail(queue)
    /\ outcome' = [outcome EXCEPT ![id] = "answered"]
    /\ pc' = "idle"
    /\ UNCHANGED <<id, closed, streams, counted, writer, reader, held, process>>

\* Mutated: the call is given up and the worker kept for the next one.
TimeOut_KeepsWorker ==
    /\ pc = "waiting"
    /\ outcome' = [outcome EXCEPT ![id] = "failed"]
    /\ pc' = "idle"
    /\ UNCHANGED <<id, closed, streams, counted, threads, process>>

\* Mutated: get without a time limit.
TimeOut_Never == FALSE /\ UNCHANGED vars

\* The deadline (seconds + 15) passes.
TimeOut ==
    /\ pc = "waiting"
    /\ Fail
    /\ UNCHANGED <<id, streams, counted, threads, job, stdout, reported>>

\* close called by the worker's owner.
Close ==
    /\ pc = "idle" /\ ~closed
    /\ StartClose
    /\ UNCHANGED <<id, streams, outcome, counted, threads, job, stdout, reported>>

\* Mutated: a process that does not stop is left to itself.
AwaitTermination_NoKill ==
    /\ pc = "terminating"
    /\ pc' = "joining"
    /\ UNCHANGED <<id, closed, streams, outcome, counted, threads, process>>

\* wait(timeout=3) after terminate, and kill when it was not enough.
AwaitTermination ==
    /\ pc = "terminating"
    /\ IF proc = "dead" THEN pc' = "joining" /\ UNCHANGED proc
                        ELSE pc' = "killing" /\ proc' = "killed"
    /\ UNCHANGED <<id, closed, streams, outcome, counted, threads, job, stdout, reported>>

\* wait(timeout=3) after kill: when it expires, TimeoutExpired leaves close
\* with the pipes open.
AwaitKill ==
    /\ pc = "killing"
    /\ pc' = IF proc = "dead" THEN "joining" ELSE "idle"
    /\ UNCHANGED <<id, closed, streams, outcome, counted, threads, process>>

\* Both joins, each for a second at most, and the three streams.
CloseStreams ==
    /\ pc = "joining"
    /\ pc' = "idle"
    /\ streams' = FALSE
    /\ UNCHANGED <<id, closed, outcome, counted, threads, process>>

-----------------------------------------------------------------------------
(* The thread of _send.  The pipe is smaller than a request can be, so the *)
(* write is over when the process has taken the request from the pipe.     *)

Write ==
    /\ writer = "writing" /\ proc = "running" /\ job = 0
    /\ writer' = "done"
    /\ job' = id
    /\ UNCHANGED <<caller, queue, reader, held, proc, stdout, reported>>

WriteFails ==
    /\ writer = "writing" /\ proc = "dead"
    /\ writer' = "failing"
    /\ UNCHANGED <<caller, queue, reader, held, process>>

WriterReports ==
    /\ writer = "failing"
    /\ Enqueue(Error)
    /\ writer' = "done"
    /\ UNCHANGED <<caller, reader, held, process>>

-----------------------------------------------------------------------------
(* The thread of _read                                                     *)

ReadLine ==
    /\ reader = "reading" /\ held = <<>>
    /\ stdout # <<>> /\ Head(stdout) # Partial
    /\ stdout' = Tail(stdout)
    /\ held' = <<Head(stdout)>>
    /\ UNCHANGED <<caller, writer, reader, queue, proc, job, reported>>

\* An incomplete line, or the stream closed under the reader.
ReadFails ==
    /\ reader = "reading" /\ held = <<>>
    /\ \/ stdout # <<>> /\ Head(stdout) = Partial
       \/ ~streams
    /\ reader' = "ending"
    /\ held' = <<Error, End>>
    /\ UNCHANGED <<caller, writer, queue, process>>

ReadEndOfFile ==
    /\ reader = "reading" /\ held = <<>>
    /\ stdout = <<>> /\ proc = "dead"
    /\ reader' = "ending"
    /\ held' = <<End>>
    /\ UNCHANGED <<caller, writer, queue, process>>

ReaderEnqueues ==
    /\ held # <<>>
    /\ Enqueue(Head(held))
    /\ held' = Tail(held)
    /\ UNCHANGED <<caller, writer, reader, process>>

-----------------------------------------------------------------------------
(* The process                                                             *)

\* runtime.run reports the usage of its one completion ...
Report ==
    /\ proc \in {"running", "terminated"} /\ job # 0 /\ reported[job] = 0
    /\ stdout' = Append(stdout, [kind |-> "usage", id |-> job])
    /\ reported' = [reported EXCEPT ![job] = 1]
    /\ UNCHANGED <<caller, threads, proc, job>>

\* ... and receive sends its result, with or without a completion before it.
Answer ==
    /\ proc \in {"running", "terminated"} /\ job # 0
    /\ stdout' = Append(stdout, [kind |-> "result", id |-> job])
    /\ job' = 0
    /\ UNCHANGED <<caller, threads, proc, reported>>

\* It exits on a signal, on an exception or by itself, at any point, perhaps
\* within a line.
Exit ==
    /\ proc # "dead"
    /\ proc' = "dead"
    /\ job' = 0
    /\ stdout' \in {stdout, Append(stdout, Partial)}
    /\ UNCHANGED <<caller, threads, reported>>

-----------------------------------------------------------------------------
Next ==
    \/ Call \/ Refuse \/ RefuseOversized \/ Close
    \/ ReceiveUsage \/ ReceiveResult \/ ReceiveFailure \/ TimeOut
    \/ AwaitTermination \/ AwaitKill \/ CloseStreams
    \/ Write \/ WriteFails \/ WriterReports
    \/ ReadLine \/ ReadFails \/ ReadEndOfFile \/ ReaderEnqueues
    \/ Report \/ Answer \/ Exit

Spec == Init /\ [][Next]_vars

\* Deadlines pass, threads that can run do, and a killed process dies.  The
\* process owes nothing else: it may hang, and it may ignore SIGTERM.
Fairness ==
    /\ WF_vars(TimeOut)
    /\ WF_vars(AwaitTermination \/ AwaitKill \/ CloseStreams)
    /\ WF_vars(WriteFails \/ WriterReports)
    /\ WF_vars(ReadLine \/ ReadFails \/ ReadEndOfFile \/ ReaderEnqueues)
    /\ WF_vars(proc = "killed" /\ Exit)

FairSpec == Spec /\ Fairness

-----------------------------------------------------------------------------
\* Types of all variables; the queue never outgrows its capacity
\* (Queue(maxsize=128)).
TypeOK ==
    /\ pc \in {"idle", "waiting", "terminating", "killing", "joining"}
    /\ id \in 0..MaxCalls
    /\ closed \in BOOLEAN /\ streams \in BOOLEAN
    /\ queue \in Seq(Message) /\ Len(queue) <= QueueSize
    /\ writer \in {"done", "writing", "failing"}
    /\ reader \in {"reading", "ending"}
    /\ held \in Seq(Message)
    /\ proc \in {"running", "terminated", "killed", "dead"}
    /\ job \in 0..MaxCalls
    /\ stdout \in Seq(Line)
    /\ outcome \in [Request -> {"none", "answered", "failed", "refused"}]
    /\ counted \in [Request -> Nat]
    /\ reported \in [Request -> {0, 1}]

\* The lines on their way from the process to the call, oldest first.
InFlight == queue \o held \o stdout

\* What a call may find is about its own request, wherever it is between the
\* process and the queue: no late answer of an earlier call is in the way, so
\* "belongs to a different stage" never fires with this worker (call).
AnswersOwnQuestion ==
    pc = "waiting" =>
        \A i \in DOMAIN InFlight :
            InFlight[i].kind \in {"usage", "result"} => InFlight[i].id = id

\* Usage is counted once: never more often than the process reported it, and
\* when a call returns its result, everything reported for it has been counted
\* (call: "Count usage even if the next message fails").
UsageIsCounted ==
    \A r \in Request :
        /\ counted[r] <= reported[r]
        /\ outcome[r] = "answered" => counted[r] = reported[r]

\* A close that is over has ended the process; one that gave up waiting has at
\* least killed it, and has not closed the pipes under a process that may still
\* use them (close).
ClosedMeansEnded ==
    closed /\ pc = "idle" => /\ proc \in {"killed", "dead"}
                             /\ ~streams => proc = "dead"

\* After close has begun, the process and both threads come to an end, however
\* full the queue is and whatever is still in the pipe (_enqueue, _read, _send).
CloseEndsThreads ==
    closed ~> /\ proc = "dead" /\ writer = "done"
              /\ reader = "ending" /\ held = <<>>

\* Every call comes back, with a process that hangs, exits or never reads its
\* request (call: one deadline for blocked writes and for responses).
CallsComeBack == pc = "waiting" ~> pc = "idle"

WorkerState ==
    IF closed THEN "closed"
    ELSE IF \E r \in Request : outcome[r] = "failed" THEN "broken"
    ELSE IF pc # "waiting" THEN "idle"
    ELSE IF counted[id] = 0 THEN "called"
    ELSE IF counted[id] = 1 THEN "metered"
    ELSE "counted twice"

Contract == INSTANCE WorkerContract WITH state <- WorkerState

\* The worker keeps the contract PiCaller relies on: at most one usage event and
\* one result for each call, in this order, and no call on a worker of which one
\* has failed, whatever is still in its pipes (call: "except BaseException").
KeepsContract == Contract!Spec
=============================================================================

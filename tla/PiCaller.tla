------------------------------ MODULE PiCaller ------------------------------
(***************************************************************************)
(* The calls one problem makes of its model: agents/pi_client.py           *)
(* (PiAgentCaller) and, in the worker processes it starts, the budgets of  *)
(* pi_worker/runtime.mjs.  PiWorker is the detailed model of one worker;   *)
(* here its call either brings usage and then a result, or fails and       *)
(* leaves the worker closed.                                               *)
(*                                                                         *)
(* Tokens of the two kinds and seconds are small numbers; what takes time  *)
(* is to wait, for a completion, an answer or the end of a process, and    *)
(* not what is computed in between.  A worker is the number of its start;  *)
(* None stands for self._worker = None.                                    *)
(***************************************************************************)
EXTENDS Integers, FiniteSets, Functions

CONSTANTS
    Agent,         \* the roles a call can be made for
    Usages,        \* what one completion may cost: a subset of [Token -> Nat]
    Dearest,       \* and no more than
    Delays,        \* how long it and other waits may take, in seconds
    Longest,       \* and no longer than
    CallSeconds,   \* 600
    Grace,         \* _SHUTDOWN_GRACE_SECONDS (15)
    CloseSeconds,  \* the waits and joins of PiWorker.close (3 + 3 + 1 + 1)
    CallLimit,     \* tokens of a typed call (400k in, 40k out)
    ProblemLimit,  \* what a worker process may spend (1.5M, 100k, 70, 1800 s)
    MaxCalls       \* bound: how many calls are made

Token    == {"input", "output"}
Resource == Token \cup {"responses", "seconds"}
Worker   == 1..MaxCalls
None     == 0
Attempts == 3

ASSUME PiCallerAssumption ==
    /\ IsFiniteSet(Agent)
    /\ Usages \subseteq [Token -> Nat] /\ Dearest \in [Token -> Nat]
    /\ \A u \in Usages, k \in Token : u[k] <= Dearest[k]
    /\ Delays \subseteq Nat /\ Longest \in Nat /\ \A d \in Delays : d <= Longest
    /\ CallSeconds \in Nat \ {0} /\ Grace \in Nat /\ CloseSeconds \in Nat
    /\ CallLimit \in [Token -> Nat \ {0}]
    /\ ProblemLimit \in [Resource -> Nat \ {0}]
    /\ MaxCalls \in Nat

VARIABLES
    pc,        \* where call_typed and worker.call are
    call,      \* the locals of the last call_typed: agent, attempt, used (the
               \* sums over records), the seconds it has taken, and the deadline,
               \* the second after which worker.call takes no answer
    worker,    \* _worker
    sequence,  \* _sequence
    tokens,    \* agent_tokens
    times,     \* agent_times
    closed,    \* _closed
    process,   \* every process: is it open, its lastId, what it has spent
    inflight,  \* usage a process has reported and call has not yet counted
    started,   \* history: how many workers were started
    calls,     \* history: how many calls were begun
    since,     \* history: what the processes have spent since the call began
    lost,      \* history: usage that was on its way when a worker failed
    unsent     \* history: workers that were handed a request over the size limit

code    == <<pc, call, worker, sequence, tokens, times, closed>>
history == <<started, calls, since, lost, unsent>>
vars    == <<code, process, inflight, history>>

Nothing  == [k \in Token |-> 0]
Plus(f, g) == [k \in Token |-> f[k] + g[k]]
Unused   == [open |-> FALSE, lastId |-> 0, spent |-> [r \in Resource |-> 0]]

Spent(r) == SumFunction([w \in Worker |-> process[w].spent[r]])
Counted(k) == SumFunction([a \in Agent |-> tokens[a][k]])

Init ==
    /\ pc = "idle"
    /\ call \in [agent : Agent, attempt : {0}, used : {Nothing}, elapsed : {0},
                deadline : {0}]
    /\ worker = None /\ sequence = 0 /\ closed = FALSE
    /\ tokens = [a \in Agent |-> Nothing]
    /\ times = [a \in Agent |-> 0]
    /\ process = [w \in Worker |-> Unused]
    /\ inflight = Nothing
    /\ started = 0 /\ calls = 0 /\ since = Nothing /\ lost = Nothing /\ unsent = {}

-----------------------------------------------------------------------------
(* PiAgentCaller                                                           *)

\* call_typed on an open caller; a closed one refuses.  Start a worker when there
\* is none.  The log's directory, the prompt or the schema may then raise, which
\* leaves the worker to the next call.
BeginCall(a) ==
    /\ pc = "idle" /\ ~closed /\ calls < MaxCalls
    /\ IF worker = None
       THEN /\ started' = started + 1
            /\ worker' = started'
            /\ process' = [process EXCEPT ![started'].open = TRUE]
       ELSE UNCHANGED <<started, worker, process>>
    /\ call' = [agent |-> a, attempt |-> 0, used |-> Nothing, elapsed |-> 0,
                deadline |-> 0]
    /\ since' = Nothing
    /\ calls' = calls + 1
    /\ pc' \in {"choosing", "idle"}
    /\ UNCHANGED <<sequence, tokens, times, closed, inflight, lost, unsent>>

\* finally: the time of the call is added, whatever became of it; its records
\* are gone.
EndCall(elapsed) ==
    /\ pc' = "idle"
    /\ call' = [call EXCEPT !.elapsed = elapsed, !.attempt = 0, !.used = Nothing,
                         !.deadline = 0]
    /\ times' = [times EXCEPT ![call.agent] = @ + elapsed]

\* Mutated: every attempt has the whole time of the call.
SecondsLeft_Fresh == CallSeconds

SecondsLeft == CallSeconds - call.elapsed

Exhausted ==
    \/ SecondsLeft < 1
    \/ \E k \in Token : call.used[k] >= CallLimit[k]

\* Mutated: one attempt too many.
AttemptsLeft_OneMore == call.attempt <= Attempts

AttemptsLeft == call.attempt < Attempts

\* The third attempt failed too (raise last_error), or the budget of the call
\* is exhausted.
GiveUp ==
    /\ pc = "choosing"
    /\ ~AttemptsLeft \/ Exhausted
    /\ EndCall(call.elapsed)
    /\ UNCHANGED <<worker, sequence, tokens, closed, process, inflight, history>>

\* Mutated: ids count the attempts of one call.
NextId_PerCall == call.attempt + 1

NextId == sequence + 1

\* Another attempt: a request with the next id, to a worker that is open.
Send ==
    /\ pc = "choosing" /\ AttemptsLeft /\ ~Exhausted
    /\ process[worker].open
    /\ sequence' = NextId
    /\ process' = [process EXCEPT ![worker].lastId = NextId]
    /\ call' = [call EXCEPT !.deadline = call.elapsed + SecondsLeft + Grace]
    /\ pc' = "awaiting"
    /\ UNCHANGED <<worker, tokens, times, closed, inflight, history>>

\* The next message comes d seconds after the last one, and in time.
InTime(d) == call.elapsed + d <= call.deadline

\* worker.call raises before it sends: the worker is closed, or the request is
\* over the size limit.  Either way the caller lets go of the worker.
SendFails ==
    /\ pc = "choosing" /\ AttemptsLeft /\ ~Exhausted
    /\ sequence' = NextId
    /\ unsent' = IF process[worker].open THEN unsent \cup {worker} ELSE unsent
    /\ worker' = None
    /\ EndCall(call.elapsed)
    /\ UNCHANGED <<tokens, closed, process, inflight, started, calls, since, lost>>

\* Mutated: the totals of an agent are those of its last call.
Totals_LastCall(a) == Plus(call.used, inflight)

\* The totals of agent a with the usage that has just arrived.
Totals(a) == Plus(tokens[a], inflight)

\* usage: one record, first into the agent's totals and then into the log.
CountUsage ==
    /\ tokens' = [tokens EXCEPT ![call.agent] = Totals(call.agent)]
    /\ inflight' = Nothing

Count ==
    /\ pc = "metered"
    /\ CountUsage
    /\ call' = [call EXCEPT !.used = Plus(@, inflight)]
    /\ pc' = "counted"
    /\ UNCHANGED <<worker, sequence, times, closed, process, history>>

\* The usage is counted and the log file cannot be written: worker.call closes
\* the worker, which takes d seconds, and raises what is no PiWorkerError, so the
\* worker stays.
CountRaises(d) ==
    /\ pc = "metered" /\ d <= CloseSeconds
    /\ CountUsage
    /\ EndCall(call.elapsed + d)
    /\ process' = [process EXCEPT ![worker].open = FALSE]
    /\ UNCHANGED <<worker, sequence, closed, history>>

\* The answer, d seconds after its usage, parses and validates; or its file
\* cannot be written, which leaves the call in the same state.
Return(d) ==
    /\ pc = "counted" /\ InTime(d)
    /\ EndCall(call.elapsed + d)
    /\ UNCHANGED <<worker, sequence, tokens, closed, process, inflight, history>>

\* It is empty, truncated or does not validate.
Retry(d) ==
    /\ pc = "counted" /\ InTime(d)
    /\ call' = [call EXCEPT !.attempt = @ + 1, !.elapsed = @ + d]
    /\ pc' = "choosing"
    /\ UNCHANGED <<worker, sequence, tokens, times, closed, process, inflight, history>>

\* Mutated: an answer with ok = false is taken for a failure of the transport.
AfterFailedStage_Dropped == None

\* The worker after an answer with ok = false: the same one.
AfterFailedStage == worker

\* The process answers that the stage failed, after its usage.
StageFails(d) ==
    /\ pc = "counted" /\ InTime(d)
    /\ worker' = AfterFailedStage
    /\ EndCall(call.elapsed + d)
    /\ UNCHANGED <<sequence, tokens, closed, process, inflight, history>>

\* The worker fails at any point of the call, or its deadline passes.  Before
\* worker.call raises it closes the worker, and the time of that, too, is the
\* call's: d seconds from the last message to the end of the close.  A worker that
\* was closed is let go.  A kill that does not work in time raises TimeoutExpired
\* instead of PiWorkerError, and the caller keeps the closed worker.
TransportFails(d) ==
    /\ pc \in {"awaiting", "metered", "counted"}
    /\ call.elapsed + d <= call.deadline + CloseSeconds
    /\ process' = [process EXCEPT ![worker].open = FALSE]
    /\ worker' \in {None, worker}
    /\ lost' = Plus(lost, inflight)
    /\ inflight' = Nothing
    /\ EndCall(call.elapsed + d)
    /\ UNCHANGED <<sequence, tokens, closed, started, calls, since, unsent>>

Close ==
    /\ pc = "idle" /\ ~closed
    /\ closed' = TRUE
    /\ process' = IF worker = None THEN process
                  ELSE [process EXCEPT ![worker].open = FALSE]
    /\ UNCHANGED <<pc, call, worker, sequence, tokens, times, inflight, history>>

-----------------------------------------------------------------------------
(* PiRuntime.run in the worker's process                                   *)

WithinBudget ==
    \A r \in Resource : process[worker].spent[r] < ProblemLimit[r]

\* One completion that costs u and takes d seconds; its usage comes e seconds
\* after the request.  That a signal aborts it at the end of its seconds is not
\* counted on: Python waits for the grace longer.
Complete(u, d, e) ==
    /\ pc = "awaiting" /\ WithinBudget
    /\ d <= e /\ InTime(e)
    /\ process' = [process EXCEPT ![worker].spent =
                     [r \in Resource |-> IF r \in Token THEN @[r] + u[r]
                                         ELSE IF r = "responses" THEN @[r] + 1
                                         ELSE @[r] + d]]
    /\ inflight' = u /\ since' = Plus(since, u)
    /\ call' = [call EXCEPT !.elapsed = @ + e]
    /\ pc' = "metered"
    /\ UNCHANGED <<worker, sequence, tokens, times, closed, started, calls, lost, unsent>>

\* No completion to report: the budget is spent, there is no such model, or the
\* provider failed after d seconds.  The result has ok = false.
CompletionFails(d, e) ==
    /\ pc = "awaiting"
    /\ d <= e /\ InTime(e)
    /\ ~WithinBudget => d = 0
    /\ process' = [process EXCEPT ![worker].spent["seconds"] = @ + d]
    /\ worker' = AfterFailedStage
    /\ EndCall(call.elapsed + e)
    /\ UNCHANGED <<sequence, tokens, closed, inflight, history>>

-----------------------------------------------------------------------------
Next ==
    \/ \E a \in Agent : BeginCall(a)
    \/ GiveUp \/ Send \/ SendFails
    \/ Count \/ Close
    \/ \E d \in Delays :
         \/ CountRaises(d) \/ Return(d) \/ Retry(d) \/ StageFails(d) \/ TransportFails(d)
         \/ \E e \in Delays :
              \/ \E u \in Usages : Complete(u, d, e)
              \/ CompletionFails(d, e)

Spec == Init /\ [][Next]_vars

-----------------------------------------------------------------------------
\* Types of all variables; a call that is under way has a worker.
TypeOK ==
    /\ pc \in {"idle", "choosing", "awaiting", "metered", "counted"}
    /\ call \in [agent : Agent, attempt : 0..Attempts, used : [Token -> Nat],
                 elapsed : Nat, deadline : Nat]
    /\ worker \in Worker \cup {None}
    /\ sequence \in Nat /\ closed \in BOOLEAN
    /\ tokens \in [Agent -> [Token -> Nat]] /\ times \in [Agent -> Nat]
    /\ process \in [Worker -> [open : BOOLEAN, lastId : Nat, spent : [Resource -> Nat]]]
    /\ inflight \in [Token -> Nat]
    /\ started \in 0..MaxCalls /\ calls \in 0..MaxCalls
    /\ since \in [Token -> Nat] /\ lost \in [Token -> Nat]
    /\ unsent \subseteq Worker
    /\ pc # "idle" => worker # None

\* The longest that a call may take: its seconds, the grace, and the close of a
\* worker that did not answer.
WholeCall == CallSeconds + Grace + CloseSeconds

\* The budgets of PI_CALLER.md, measured at the processes: "one response can
\* cross a ceiling", and no more than one.  However its attempts go and however
\* late they are answered, a call spends less than its limit before its last
\* response and takes no longer than WholeCall, no attempt having time of its own;
\* a process spends less than its own limit before its last one (call_typed,
\* PiWorker.call and close, PiRuntime.run).
BudgetsHold ==
    /\ \A k \in Token : since[k] < CallLimit[k] + Dearest[k]
    /\ call.elapsed <= WholeCall
    /\ \A a \in Agent : times[a] <= calls * WholeCall
    /\ \A w \in Worker :
         /\ \A k \in Token : process[w].spent[k] < ProblemLimit[k] + Dearest[k]
         /\ process[w].spent["responses"] <= ProblemLimit["responses"]
         /\ process[w].spent["seconds"] < ProblemLimit["seconds"] + Longest

\* "Per-role totals across every attempt, including failures": whatever the
\* processes have spent is in exactly one agent's totals, once, but for what
\* was on its way when a worker failed (usage in call_typed, base.py).
UsageIsAccounted ==
    \A k \in Token : Counted(k) + inflight[k] + lost[k] = Spent(k)

\* The process accepts a request only with an id above its last one (receive):
\* with one sequence for all calls and workers that always holds, whichever
\* calls failed and whichever worker is the current one.
RequestsAreAccepted ==
    pc = "choosing" => NextId > process[worker].lastId

\* A worker that is open is the one in use, and none is after close; the only
\* ones left over are those the caller let go of although they were refused a
\* request and not broken (call_typed, close).
OnlyUnsentLeftOpen ==
    \A w \in Worker : process[w].open => (w = worker /\ ~closed) \/ w \in unsent

\* "Python closes each worker" (PI_CALLER.md): when the caller is closed no
\* process it started is left.
EveryWorkerIsClosed == closed => \A w \in Worker : ~process[w].open

\* What worker w is here, in the terms of its contract.
WorkerState(w) ==
    IF w > started THEN "none"
    ELSE IF ~process[w].open THEN "closed"
    ELSE IF w = worker /\ pc \in {"awaiting", "metered"} THEN "called"
    ELSE IF w = worker /\ pc = "counted" THEN "metered"
    ELSE "idle"

Contract(w) == INSTANCE WorkerContract WITH state <- WorkerState(w)

\* Of its workers the caller supposes no more than the contract, which PiWorker
\* keeps: all it does with one is a call at a time, and none after a failure.
CallsByContract(w) == Contract(w)!Spec
=============================================================================

------------------------------ MODULE BatchRun ------------------------------
(***************************************************************************)
(* One batch (cli/run_batch.py) with its container pool                    *)
(* (validation/container_pool.py) and its thread pool, over the Docker     *)
(* validator.  The main thread starts one container per worker, submits    *)
(* every problem, collects the results as they complete, and removes the   *)
(* containers.  A worker takes the next problem, leases a container for    *)
(* the whole of it, validates one revision of its project after another,   *)
(* and gives the container back.                                           *)
(*                                                                         *)
(* Problems are numbered in the order they are submitted.  What a problem  *)
(* does besides validating (generation, repair, files) is in other modules *)
(* and appears here as the choice of when to validate and when to return.  *)
(***************************************************************************)
EXTENDS DockerValidator, Sequences

CONSTANTS
    Worker,         \* the executor's threads
    Main,           \* the main thread
    Names,          \* the pool's container names, in order
    NumJobs,        \* input files
    MaxRevs,        \* bound: validations per problem (fix attempts + 1)
    MaxInterrupts   \* bound: KeyboardInterrupts in the main thread

Job == 1..NumJobs
PoolSize == Len(Names)
PoolName == {Names[i] : i \in 1..PoolSize}

ASSUME BatchAssumption ==
    /\ NumJobs \in Nat /\ MaxRevs \in Nat /\ MaxInterrupts \in Nat
    /\ Client = Worker \cup {Main} /\ Main \notin Worker
    /\ Names \in Seq(Container)
    /\ \A i, j \in 1..PoolSize : Names[i] = Names[j] => i = j
    /\ Job \X (1..MaxRevs) \subseteq Manifest

\* n_workers threads and as many containers.
ASSUME PoolSizeAssumption == IsFiniteSet(Worker) /\ Cardinality(Worker) = PoolSize

\* job 0: waiting for one.  lease: the container it holds.  revs: validations
\* begun for the problem.
Thread == [job : 0..NumJobs, lease : Container \cup {None}, revs : 0..MaxRevs]

Waiting == [job |-> 0, lease |-> None, revs |-> 0]

VARIABLES
    main,        \* where the main thread stands
    next,        \* which of Names it starts or removes next
    free,        \* the pool's queue
    submitted,   \* problems in the executor
    taken,       \* problems a worker has taken
    thread,      \* the workers
    outcome,     \* the futures
    collected,   \* the problems whose result is in results
    forced,      \* the wait for the workers was cut short
    interrupts   \* KeyboardInterrupts so far

mainVars == <<main, next, submitted, collected, forced, interrupts>>
workVars == <<free, taken, thread, outcome>>
vars == <<dockerVars, mainVars, workVars>>

TypeOK ==
    /\ DockerTypeOK
    /\ main \in {"init", "starting", "collect", "join", "shutdown", "exited"}
    /\ next \in 1..(PoolSize + 1)
    /\ free \in Seq(PoolName)
    /\ submitted \in {0, NumJobs}
    /\ taken \in 0..submitted
    /\ thread \in [Worker -> Thread]
    /\ outcome \in [Job -> {"pending", "result", "raised"}]
    /\ collected \subseteq Job
    /\ forced \in BOOLEAN
    /\ interrupts \in 0..MaxInterrupts

Init ==
    /\ DockerInit
    /\ main = "init" /\ next = 1
    /\ free = <<>>
    /\ submitted = 0 /\ taken = 0
    /\ thread = [w \in Worker |-> Waiting]
    /\ outcome = [j \in Job |-> "pending"]
    /\ collected = {}
    /\ forced = FALSE
    /\ interrupts = 0

-----------------------------------------------------------------------------
(* DockerContainerPool.initialize, in the main thread.                     *)

\* The validator object x was using is gone.
Forget(x) == call' = [call EXCEPT ![x] = NoCall]

StartContainer ==
    /\ main = "init" /\ next <= PoolSize
    /\ Begin(Main, Names[next], None)
    /\ main' = "starting"
    /\ UNCHANGED <<image, box, lingering, mishaps, next, submitted, collected, forced,
                   interrupts, workVars>>

\* Mutated: only a container that was started goes into the pool.
Pooled_OnlyStarted ==
    IF call[Main].verdict = "started" THEN Append(free, Names[next]) ELSE free

\* The name goes into the queue whatever start_persistent_container answered.
Pooled == Append(free, Names[next])

Enqueue ==
    /\ main = "starting" /\ Idle(Main)
    /\ free' = Pooled
    /\ next' = next + 1
    /\ main' = "init"
    /\ Forget(Main)
    /\ UNCHANGED <<image, box, lingering, mishaps, submitted, collected, forced, interrupts,
                   taken, thread, outcome>>

-----------------------------------------------------------------------------
(* The main thread, from the submission of the problems to the end.        *)

Submit ==
    /\ main = "init" /\ next > PoolSize
    /\ submitted' = NumJobs
    /\ main' = "collect"
    /\ UNCHANGED <<dockerVars, next, collected, forced, interrupts, workVars>>

Collect(j) ==
    /\ main = "collect"
    /\ outcome[j] = "result" /\ j \notin collected
    /\ collected' = collected \cup {j}
    /\ UNCHANGED <<dockerVars, main, next, submitted, forced, interrupts, workVars>>

\* Either as_completed is exhausted, or future.result() raises what a problem
\* raised and the results still to come are not collected.
LeaveLoop ==
    /\ main = "collect"
    /\ collected = Job \/ \E j \in Job : outcome[j] = "raised"
    /\ main' = "join"
    /\ UNCHANGED <<dockerVars, next, submitted, collected, forced, interrupts, workVars>>

AllDone == \A j \in Job : outcome[j] # "pending"

\* Mutated: the pool is shut down without waiting for the workers.
Joined_NoWait == main = "join"

\* The executor's __exit__ waits for every problem, the queued ones included.
Joined == main = "join" /\ AllDone

BeginShutdown ==
    /\ Joined
    /\ main' = "shutdown" /\ next' = 1
    /\ UNCHANGED <<dockerVars, submitted, collected, forced, interrupts, workVars>>

\* docker rm -f of one name of the pool.
RemoveContainer ==
    /\ main = "shutdown" /\ next <= PoolSize
    /\ box' = [box EXCEPT ![Names[next]] = Gone]
    /\ next' = next + 1
    /\ UNCHANGED <<image, call, lingering, mishaps, main, submitted, collected, forced,
                   interrupts, workVars>>

Exit ==
    /\ main = "shutdown" /\ next > PoolSize
    /\ main' = "exited"
    /\ UNCHANGED <<dockerVars, next, submitted, collected, forced, interrupts, workVars>>

\* A KeyboardInterrupt leaves the block the main thread is in: initialize is
\* outside the try, the waiting executor is inside, the shutdown is its finally.
Interrupt ==
    /\ main # "exited" /\ interrupts < MaxInterrupts
    /\ interrupts' = interrupts + 1
    /\ main' = CASE main = "collect" -> "join"
                 [] main = "join"    -> "shutdown"
                 [] OTHER            -> "exited"
    /\ forced' = (forced \/ main = "join")
    /\ next' = 1
    /\ Forget(Main)
    /\ UNCHANGED <<image, box, lingering, mishaps, submitted, collected, workVars>>

-----------------------------------------------------------------------------
(* A worker thread of the executor: _run_one.                              *)

TakeJob(w) ==
    /\ thread[w].job = 0
    /\ taken < submitted
    /\ taken' = taken + 1
    /\ thread' = [thread EXCEPT ![w].job = taken + 1]
    /\ UNCHANGED <<dockerVars, mainVars, free, outcome>>

\* Mutated: a name is looked at, not taken out of the queue.
Dequeued_Peek == free

Dequeued == Tail(free)

Acquire(w) ==
    /\ thread[w].job # 0 /\ thread[w].lease = None
    /\ free # <<>>
    /\ thread' = [thread EXCEPT ![w].lease = Head(free)]
    /\ free' = Dequeued
    /\ UNCHANGED <<dockerVars, mainVars, taken, outcome>>

\* run_problem is under way in w, and not inside a validation.
Between(w) == thread[w].lease # None /\ Idle(w)

\* _ensure_docker_ready, when the image is not there yet.
BuildImage(w) ==
    /\ Between(w) /\ thread[w].revs = 0
    /\ ImageBuilt
    /\ UNCHANGED <<mainVars, workVars>>

\* Mutated: one revision too many.
MayValidate_OneMore(w) ==
    /\ thread[w].revs = 0 \/ call[w].verdict \in ErrorPhase
    /\ thread[w].revs <= MaxRevs

\* The first revision, once the image is there, then one after each fix of a
\* failed one.  A pass or an exception of validate() ends the problem.
MayValidate(w) ==
    /\ thread[w].revs = 0 \/ call[w].verdict \in ErrorPhase
    /\ thread[w].revs < MaxRevs

\* The controller calls validate for the next revision of the project.
Validate(w) ==
    LET t == thread[w] IN
    /\ Between(w) /\ image
    /\ MayValidate(w)
    /\ Begin(w, t.lease, <<t.job, t.revs + 1>>)
    /\ thread' = [thread EXCEPT ![w].revs = @ + 1]
    /\ UNCHANGED <<image, box, lingering, mishaps, mainVars, free, taken, outcome>>

\* Mutated: the container is given back only after an ordinary return.
Release_OnReturn(w, how) ==
    free' = IF how = "result" THEN Append(free, thread[w].lease) ELSE free

Release(w, how) == free' = Append(free, thread[w].lease)

\* run_problem returns a result (a crash inside it is one), or raises: before its
\* try block, or in its finally when the caller does not close.  Either way the
\* finally of acquire_context gives the container back.
EndJob(w, how) ==
    /\ Between(w)
    /\ Release(w, how)
    /\ outcome' = [outcome EXCEPT ![thread[w].job] = how]
    /\ thread' = [thread EXCEPT ![w] = Waiting]
    /\ Forget(w)
    /\ UNCHANGED <<image, box, lingering, mishaps, mainVars, taken>>

-----------------------------------------------------------------------------
\* What the main thread does by itself.
MainProceeds ==
    \/ StartContainer \/ Enqueue \/ Submit
    \/ \E j \in Job : Collect(j)
    \/ LeaveLoop \/ BeginShutdown \/ RemoveContainer \/ Exit

MainStep == MainProceeds \/ Interrupt

WorkerStep(w) ==
    \/ TakeJob(w) \/ Acquire(w) \/ BuildImage(w) \/ Validate(w)
    \/ \E how \in {"result", "raised"} : EndJob(w, how)

Next ==
    \/ MainStep
    \/ \E w \in Worker : WorkerStep(w)
    \/ \E x \in Client : CallStep(x) /\ UNCHANGED <<mainVars, workVars>>
    \/ DockerStep /\ UNCHANGED <<mainVars, workVars>>

Spec == Init /\ [][Next]_vars

\* Threads that can go on do, and every docker command comes back; nothing is
\* assumed of interrupts, of containers that stop, or of orphans: a main thread
\* that waits is not helped by a KeyboardInterrupt that need not come.
FairSpec ==
    /\ Spec
    /\ WF_vars(MainProceeds)
    /\ \A w \in Worker : WF_vars(WorkerStep(w))
    /\ \A x \in Client : WF_vars(CallStep(x) /\ UNCHANGED <<mainVars, workVars>>)

-----------------------------------------------------------------------------
(* What a batch promises.                                                  *)

Holder(c) == {w \in Worker : thread[w].lease = c}
InQueue(c) == {i \in 1..Len(free) : free[i] = c}

\* A container name is in one place at a time: at most once in the queue, with
\* at most one worker, never both (DockerContainerPool.acquire and release, the
\* finally of acquire_context).
LeasesAreExclusive ==
    \A c \in PoolName :
        /\ \A v, w \in Holder(c) : v = w
        /\ \A i, j \in InQueue(c) : i = j
        /\ Holder(c) = {} \/ InQueue(c) = {}

\* A worker never waits for a container: there are as many as workers, and all
\* of them were put into the queue before the first problem was submitted.
AcquireNeverWaits ==
    \A w \in Worker : thread[w].job # 0 /\ thread[w].lease = None => free # <<>>

\* A verdict is about the manifest it was asked for.  What else the container's
\* commands saw are manifests whose own command was abandoned at its time limit
\* in this container, and is perhaps still running; nothing else survives the
\* clearing of /project, whichever problem the container served before.
VerdictsAreOwn ==
    \A w \in Worker :
        LET r == call[w] IN
        r.name # None =>
            /\ r.saw \subseteq {r.manifest} \cup lingering[r.name]
            /\ r.verdict = "none" => r.manifest \in r.saw

\* The pool is shut down when the last problem is done: nobody holds a container
\* that is being removed, and none that was removed comes back, even when a
\* problem raised or the collection was interrupted.
ShutdownIsClean ==
    main \in {"shutdown", "exited"} /\ submitted # 0 /\ ~forced =>
        /\ AllDone
        /\ \A w \in Worker : thread[w].lease = None
        /\ \A i \in 1..(next - 1) : box[Names[i]].status = "absent"

\* The batch comes to its end, and its workers with it: no exception of a
\* problem, no dead container and no interrupt leaves a thread waiting.
BatchEnds ==
    <>(main = "exited" /\ (submitted = 0 \/ AllDone))
-----------------------------------------------------------------------------
(* What the comments say and the code does not keep.                       *)

\* "Ensure container is running" (validate): past start_persistent_container the
\* container of the call runs, in a world where none stops by itself.
StartedIsRunning ==
    \A w \in Worker : call[w].step = "clear" => box[call[w].name].status = "running"

\* "Clear old project files first" (copy_files_to_container): what a validation
\* compiles, runs and tests afterwards is its own manifest and no other.
VerdictsAreOnlyOwn ==
    \A w \in Worker : call[w].saw \subseteq {call[w].manifest}
=============================================================================

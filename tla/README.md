# Verification of vibesolve

vibesolve turns a problem description into a Java/Timefold project: language
model agents write the project in stages, a Docker container compiles, runs and
tests it, and a fixer agent repairs what fails.  This directory holds TLA+
modules of the parts of that program where order, failure and concurrency
matter, the TLC configurations that check them, and TLAPS proofs.

Paths below are relative to the repository; `V/` is `src/vibesolve/`.

- [1. Inventory](#1-inventory)
- [2. Modules and plan](#2-modules-and-plan)
- [3. The repair loop](#3-the-repair-loop)
- [4. The validator, the pool and the batch](#4-the-validator-the-pool-and-the-batch)
- [5. The Pi worker, the caller and the pipeline](#5-the-pi-worker-the-caller-and-the-pipeline)
- [6. The installer, the reports and the benchmark](#6-the-installer-the-reports-and-the-benchmark)
- [7. What the runs check](#7-what-the-runs-check)
- [8. What is proved](#8-what-is-proved)
- [9. What the code does otherwise than it says](#9-what-the-code-does-otherwise-than-it-says)
- [10. What is not modelled](#10-what-is-not-modelled)

## 1. Inventory

| Part | Source | State | Operations | What is hard | What makes it correct |
|---|---|---|---|---|---|
| Feedback controller | `V/validation/feedback_controller.py` | manifest, prev_manifest, fix_history, error_phases, retry_feedback | run | two nested loops on one budget, exceptions in the middle, records written long after what they are about | answers only about judged manifests, verdicts on the right attempt, budget, termination |
| Manifest and deltas | `V/models/domain.py`, `V/utils/patch_utils.py` | none (values) | apply_delta, file_map | deletions and additions in one delta, selections of files | unnamed files survive |
| Docker validator | `V/validation/docker_validator.py` | a container: running or not, /project, target | start_persistent_container, copy_files_to_container, exec_in_container, validate | time-outs that leave a process behind, a name filter that matches other containers, leftovers of a killed batch, failures between rm, mkdir and cp | a verdict is about the manifest it was asked for |
| Container pool | `V/validation/container_pool.py` | queue of free names | initialize, acquire, release, shutdown | threads; start failures | one worker per container; nothing lost or lent twice; no use after shutdown |
| Batch run | `V/cli/run_batch.py` | thread pool, futures, results | submit, collect, shut down, summarise, benchmark | an exception of one problem while others run, interrupts | every problem finished before the containers go, the batch ends |
| Single run | `V/cli/run_single.py` | none | run_problem on the fixed container name | two runs at once share a container | as for the validator |
| Pipeline | `V/pipeline/runner.py`, `user_validator.py` | spec, corrections, manifest, records of the run | parse, review, generate, validate, write, zip | a message made before or after what it has to carry; an exception at any stage; the caller closed in a finally | one result per problem, with the records the run has made |
| Pi worker process | `V/agents/pi_process.py`, `pi_protocol.py` | subprocess, message queue of 128, closed flag | call, close, reader/writer/error threads | time-outs, a full queue, late answers, process exits, close while a thread blocks | an answer belongs to its question; close ends every thread |
| Pi caller | `V/agents/pi_client.py` | worker or none, sequence, token buckets | call_typed, close | retries on a shared budget; a worker replaced after a failure | a budget per call, usage counted once, ids monotone per worker |
| Worker runtime | `V/pi_worker/worker.mjs`, `runtime.mjs` | lastId, spent responses/tokens/time | receive, run, close | budgets that belong to one process | the budget of a problem |
| Installer | `V/agents/pi_install.py` | a cache directory shared by processes | ensure_pi_worker | two processes publish at once; a crash in between | what is returned is a complete installation |
| Reporting | `V/reporting/kpi_tracker.py`, `V/benchmarking/table.py` | none (values) | aggregate_results, aggregate_token_usage, rows and totals of the table | unknown costs, cells not measured | totals are the sums of the parts |
| Benchmark | `V/benchmarking/evaluator.py`, end of `V/cli/run_batch.py` | two containers and an image per project, one port of the host | evaluate_project and its stages, probe_endpoints | a stage that raises, commands cut short that the daemon goes on with, containers of earlier batches | every row filled, cells about this batch's containers, nothing left that was not given up |
| Settings, CLI options, logging, packaging, prompts | `V/config/`, `V/cli/`, `V/utils/`, `V/packaging.py`, `V/agents/prompts*` | none | parsing, formatting | nothing concurrent | ordinary unit tests reach it |

How they interact.  `run_batch` starts one container per worker through the
pool and one thread per worker through an executor; each thread leases a
container and runs the pipeline of one problem (`run_problem`) in it.  The
pipeline makes a Pi caller, which owns one Pi worker process, and calls it for
every agent; then it hands the manifest to a feedback controller, which calls
the Docker validator (on the leased container) and the fixer agents (through the
same caller).  What the threads of a batch share is the pool's queue, the Docker
daemon and the image; everything else belongs to one problem.  When all problems
are done and the pool is gone, the main thread adds up the results and takes the
projects through the benchmark, one after the other.  Before any of this, the Node
part of the Pi worker is installed in a cache that all processes of a user share.

`PROJECT.json` lists the hazards of all of these, each at the line where it
bites, with the properties that watch over it or the reason none does yet.

## 2. Modules and plan

| Module | Models | Composed with |
|---|---|---|
| `Manifest` | manifests, deltas, `apply_delta`, the controller's helpers on manifests | used by `RepairLoop` |
| `RepairLoop` | one call of `FeedbackController.run` | |
| `RepairPolicy` | the abstract promise of that call | refined by `RepairLoop` |
| `DockerValidator` | containers, and one docker command at a time of `validate` and `start_persistent_container` | used by `BatchRun` |
| `BatchRun` | the main thread of a batch, the container pool, the worker threads | over `DockerValidator` |
| `WorkerContract` | what one worker is to its caller: the abstract promise of `PiWorker` | refined by `PiWorker`, kept by `PiCaller` for each worker |
| `PiWorker` | one worker: the calling thread, the writer, the reader, the bounded queue, the process at the other end | implements `WorkerContract` |
| `PiCaller` | `call_typed` and `close` of one problem's caller, and the budgets of the worker processes it starts | each worker by its contract |
| `Pipeline` | `run_problem` and the user's review, from the text to the result | `RepairLoop` and a typed call as one step each |
| `Installer` | `ensure_pi_worker` in several processes over one cache directory | |
| `Reporting` | the sums over results, usages and rows, as operators | used by `Benchmark` |
| `Probe` | `probe_endpoints`: which request is sent when, and what it carries, as operators | used by `Benchmark` |
| `Benchmark` | what `run_batch` does after the pool is gone, and `evaluate_project` with its two stages | over `Reporting` and `Probe` |
| `FoldLemmas` | nothing of the program: what the folds and sums of the community modules compute | used by three of the proof modules |
| `*_proofs` | the proofs, of the module they are named for; `BatchRun_proofs` has those of `DockerValidator` too | |
| `MC*` | the instances of the modules whose constants are structured; the others are instantiated in their `.cfg` | |

The order was that of importance: the repair loop and the validator first, for
they decide what the program answers; then the batch, the worker and its caller,
where threads and processes meet; then the pipeline around them; last the installer
and the benchmark.

What is left, in this order:

1. Two single runs at once over the one container they share, as an instance of
   `DockerValidator` without a pool.  Nothing in the code promises anything of it, so
   the property would have to come from a decision of the program's authors first.
2. `BatchRun` and `Benchmark` in one behaviour.  Now the second starts where the first
   ends, with any results a batch can have.

## 3. The repair loop

`RepairLoop` has one action per stretch of `run()` between two calls that take
time or can raise: the Docker check, the pre-review, a validation, a fixer call.
`pc` is the place in the two nested loops.  `manifest`, `prev`, `result`,
`history`, `errorPhases` and `feedback` are `manifest`, `prev_manifest`,
`result.error_phase`, `fix_history`, `error_phases` and `retry_feedback is not
None`; `returned` is what the call returned.  `validations` and `asked` are history:
which manifests were validated and how, and what each fixer was asked and answered,
because the properties relate these to what is returned.

- The model's inputs are verdicts (`none` and the three error phases), answers of
  reviewer and fixers (a set of deltas), selections of files, and an exception of
  every call that can raise one.
- A manifest is a record `[name, files, end]`: `files` maps each path to `Absent` or
  to its content and its place in the list.  The place matters only to
  `_pom_changed`, which looks at the first path that ends in `pom.xml`.  `name`
  stands for project name and base package, since every use of one in this part is
  a use of both.
- Deltas are taken as the model classes leave them, that is after Pydantic's
  validation.

`RepairPolicy` says what the caller may rely on and nothing of how.  A candidate is
a draft until it is first tested, then `failed`, `passed`, or `untested` after a
repair that changed it; every repair begun is charged to the budget; one answer is
given, about the candidate as it was last judged.  `ImplementsPolicy` is the
refinement.

## 4. The validator, the pool and the batch

`DockerValidator` has a set of clients, each inside at most one call, and a set of
containers.  Each docker command of the code is one step, so that two calls on
one container, or a call and an abandoned command, interleave between any two of
them.  A container (`box`) is `absent`, `stopped` or `running`, has a `/project`
or not, and holds files of a set of manifests (`tree`: sources and build output
alike).  `call[x]` is where client `x` stands, and what its compile, execute and
test commands have seen (`saw`).

- A time-out kills the `docker exec` client and not the command in the container,
  which becomes an orphan of its manifest and may write until it ends.
  `lingering[c]` is the history the properties need: whose orphans were alive in
  `c` at any time since its last clearing.
- `docker ps -f name=X` answers for every container in `Alike[X]`.
- `Leftovers` are the states a container may be in before the batch starts: an
  earlier batch that was killed leaves its containers and their `/project`.
- Both kinds of build see the whole of `/project`: since `rm -rf /project`
  precedes every copy, an incremental `mvn compile` starts from an empty target
  too, so the model does not tell them apart here.  Which one is asked for is a
  property of `RepairLoop`.

`BatchRun` adds the main thread (fill the pool, submit, collect, leave the
executor's block, shut down), the pool's queue `free`, and the worker threads: take
the next problem, lease, validate one revision after another, give back.  What a
problem does besides validating appears as the choice of when to validate and when
to return or raise; how many revisions there may be and after which verdicts is
`MayValidate`, the summary of `RepairLoop`.  A `KeyboardInterrupt` may reach the
main thread in any state; it leaves the block it is in, as Python's `with` and
`finally` make it.

Bounds are constants: `MaxRevs` revisions per problem, `MaxMishaps` time-outs and
containers that stop, `MaxInterrupts` interrupts.  The proofs hold for all of
their values.

## 5. The Pi worker, the caller and the pipeline

`PiWorker` is one `PiWorker` object (`V/agents/pi_process.py`) and its Node process
(`V/pi_worker/worker.mjs`).  Its actions belong to four activities.

| Activity | State | Actions |
|---|---|---|
| the thread in `call` and `close` | `pc`, `id`, `closed`, `streams` | `Call`, `Refuse`, `RefuseOversized`, `ReceiveUsage`, `ReceiveResult`, `ReceiveFailure`, `TimeOut`, `Close`, `AwaitTermination`, `AwaitKill`, `CloseStreams` |
| the thread of `_send` | `writer` | `Write`, `WriteFails`, `WriterReports` |
| the thread of `_read` | `reader`, `held`, `queue` | `ReadLine`, `ReadFails`, `ReadEndOfFile`, `ReaderEnqueues` |
| the process | `proc`, `job`, `stdout` | `Report`, `Answer`, `Exit` |

- A failure of `call` closes the worker in the same step, as its `except
  BaseException` does; the two waits and the joins of `close` are steps, since the
  process and the threads go on meanwhile.
- `Enqueue` is the loop of `_enqueue`: it waits for room, and gives up only on a
  closed worker, where a `put` that had begun may still succeed.
- Time is abstract: a deadline or a wait may be over at any moment.
- `outcome`, `counted` and `reported` are history: how each call ended, and how much
  usage the call counted and the process reported.
- One thread calls a worker, so `_lock` is never contended and is left out.  So is
  the thread that drains stderr, which shares nothing with the others.

`WorkerContract` is what the two have to agree on, with one variable: a worker is not
started, idle, called, called and its usage counted, or closed.  A call brings at most
one usage event and then its answer, and one that fails leaves the worker closed.
`PiWorker` implements it (`KeepsContract`, with `WorkerState` the state as its caller
can know it); `PiCaller` takes the same steps with every worker it starts
(`CallsByContract`, stated for each number of a worker).  So a worker's call may be a
few steps there, with no thread and no pipe.

`PiCaller` is `call_typed` and `close` (`V/agents/pi_client.py`) and the budgets of
`runtime.mjs`.  `pc` is the place in the loop of attempts (`idle`, `choosing`,
`awaiting` the response, usage `metered` by the process, usage `counted`); `call`
holds the locals, `worker`, `sequence`, `tokens`, `times`, `closed` the attributes, and
`process` all processes ever started with their `lastId` and what they have spent.
A worker's call is a few steps: a completion and its usage, then an answer that is
taken, is asked for again (`Retry`) or says that the stage failed (`StageFails`); at
any of them the transport may fail, which closes the worker.  Two exceptions are
not a `PiWorkerError` and leave the closed worker in place for the next call to fail
on: a log that cannot be written (`CountRaises`) and a kill that does not come
through in time (`TransportFails`).  Tokens and seconds are numbers, and each
completion costs one of `Usages` and takes one of `Delays`;
`Dearest` and `Longest` bound both, for what one response may cross a ceiling by, and
`since` is what the processes have spent since the call began.

What takes a call's time is to wait: for a completion, an answer, or the end of a process.
The deadline of an attempt is that of `worker.call`, the seconds that are left and the grace,
and an answer counts until then, however late it was for the process, whose own time limit
is not counted on.  A call that fails closes its worker before its time is booked, and a
process that ignores SIGTERM makes that take up to `CloseSeconds`.  So the whole of a call is
`WholeCall`: its seconds, the grace, and one close.

`Pipeline` is `run_problem` (`V/pipeline/runner.py`) with `run_user_validation_loop`.
`pc` is its next step; `manifest`, `records` and `success` are its locals; `disk` is what
is in the results directory.  A manifest is known by the step that made it, so that
"the zip has the final manifest" can be said without saying what a manifest is, and a spec
by the number of answers it has come from: 1 is the parser's, and each update makes one
more.  `spec` is `run_problem`'s own, `reviewed` that of the review, which returns it when the
user accepts.  `message` is the last message an agent was sent: which agent, the spec, the
corrections of `context.fields()`, and for an update the feedback.  The parser, the review, the
generation stages, and the reviewer and fixers of the controller each make theirs out of these
variables at the step of their call (`Due`, `Request`, `ToRepairer`); of the several fixers of one
repair it is the last that is seen.  `said` and `shown` are history: what the user has asked for,
and the spec whose explanation was last on the screen.  Any
step that calls a model, the prompt or the file system may raise.  Set-up is before
the `try` and `close` is in the `finally`: both may raise out of `run_problem`.

## 6. The installer, the reports and the benchmark

`Installer` is `ensure_pi_worker` (`V/agents/pi_install.py`) in any number of processes
at once.  A directory is the set of its parts; `target` is the one all processes look
at, `staging[p]` the candidate of process `p`.  npm fills a candidate part by part, and a
process can be killed between any two steps.  The rename takes the whole directory at
once, onto no directory or an empty one, as `rename(2)` does.  What lies there at the
start may be damaged (`Found`), but not so that the test for an installation misses
it: a whole package that lost a file deep in `node_modules` is out of sight of the
code and of the model.  A damaged cache is never repaired: each process installs its
own and is refused (`LosersAreServed` says that nothing else is).

`Reporting` and `Probe` are operators.  `Reporting` has the sums over usages and results
and the rows and totals of the table; a cost is a number in tenths of the last digit
that is reported, rounded half up where the code rounds half to even, which differ only
at the exact half.  `Probe` has the order in which endpoints are asked and what is known
of a problem and a job at each of them; a path is what the regular expressions
of `V/benchmarking/evaluator.py` say of it.

`Benchmark` is the main thread from the summary to the exit code.  `step` is its place,
`stage` whether it boots the package (`qk`) or the image (`dk`), `rows`, `rec` and `res` are
the table, the record of `evaluate_project` and the `res` of a stage, `raised` the exception
on its way through the `finally` clauses.  Each docker command is a step.

- A container (`box`) is there or not, is up and holds the host's one port, has the line
  in its logs that Quarkus started, and is this batch's own or an earlier one's.
- A command that is cut short by its time limit or an interrupt kills the client.  What the
  daemon had been asked may still happen (`late`, `LateDone`): a container that is
  created later, an image that is built later.
- A row's `solver_runs` may be true although `compiles` is false: the first is raised by
  the probe, the second only says what the validation saw.  That is what the code does.
- In the `finally` of the second stage the removal of the image has a time limit, too; when
  it strikes while an interrupt is on its way, the interrupt is lost and the benchmark
  goes on.
- An interrupt in the removal of that stage's container skips the removal of its image
  (`Handler`): the image stays, and its stage is one that was interrupted.
- `MaxMishaps` bounds commands cut short, removals refused, and interrupts together.

## 7. What the runs check

| Run | Question | Instance |
|---|---|---|
| `repair_loop` | does every order of verdicts, answers, no-ops and exceptions keep the records of one repair straight, within budget, ending, and within the policy? | budget 3 (one cheap and two full attempts), two initial manifests with a pom and two sources, five fixer answers among them no-ops of each kind |
| `batch_run` | are containers lent one at a time and at once, verdicts kept apart, the pool removed when all is done? | 3 problems, 2 workers and containers, 1 mishap, 1 interrupt, a possible leftover in each container |
| `batch_ends` | does the batch end, and its threads with it? | 3 problems, 2 workers, no mishap, 1 interrupt |
| `pi_worker` | is usage counted once and each answer met by its own call; does every call come back, `close` end everything, and the worker keep its contract? | 3 calls, a queue of 2 |
| `pi_caller` | do the budgets hold, is usage accounted for, do workers accept what they are sent, whichever calls fail? | 2 calls of 2 roles, delays of 0, 1 and 3 s, a call of 2 s, 1 s of grace and 1 s to close a worker, limits of two or three responses |
| `pipeline` | does a result agree with what was said, done and written, wherever it was left? | 2 corrections, 2 phases, 1 attempt |
| `installer` | is whoever is given the cache given a whole installation, and whoever loses the race given it, too? | 3 processes, a cache that is missing, empty, whole or damaged in two ways |
| `benchmark` | what is left behind, what do the cells say, does the report come out, do sums add up, are endpoints asked in a round trip? | 2 problems, 2 mishaps, a container and images of an earlier batch; usages of two models, and all lists of up to three of seven kinds of endpoints |
| `nested_pom`, `name_filter`, `timed_out`, `worker_left` | section 9 | |

The properties of `repair_loop`: `ReturnsWhatWasJudged` (what is returned was the
last one validated, success only for a pass), `VerdictsFallOnTheirFix` and
`DecidedStaysDecided` (a verdict is written on the attempt it judges and stays),
`OneValidationPerFix` (each validation after the first follows an attempt of its
own that changed something), `BudgetAndRouting`, `FeedbackOnlyAfterNoOp`,
`ErrorPhasesAreTheFailures`, `IncrementalOnlyIfPomUnchanged`,
`UnnamedFilesSurvive`, `Terminates`, `ImplementsPolicy`.

Of the batch: `LeasesAreExclusive`, `AcquireNeverWaits` (no worker ever finds the
queue empty, although containers that failed to start are lent too),
`VerdictsAreOwn` (a validation sees its own manifest, and of others only those
whose commands were abandoned in that container), `ShutdownIsClean`, `BatchEnds`.

Of the worker: `AnswersOwnQuestion` (nothing of an earlier request is anywhere
between the process and a waiting call), `UsageIsCounted`, `ClosedMeansEnded`,
`CloseEndsThreads`, `CallsComeBack`, `KeepsContract`.  Of the caller: `BudgetsHold` (per call and per
process; one response may cross a ceiling, and no more; the time of a call is `WholeCall`), `UsageIsAccounted`,
`RequestsAreAccepted` (ids grow for every worker), `OnlyUnsentLeftOpen`.  Of the
pipeline: `IntentIsComplete` (every message has all corrections made by then, the update
agent is asked for the latest on the spec the user saw, and what generates and repairs gets
the spec that answers the last one and was shown), `RecordsSurvive`
(a result has the controller's records even when the controller raised),
`ResultIsHonest` (a success is on disk and in the zip, artifacts are only of what
passed, a failure without a phase is one nothing was tried on).

Of the installer: `ReturnedIsComplete`, `LosersAreServed`.  Of the benchmark:
`LeftoversAreAbandoned` (a container or an image of this batch that is still there between
two projects is one for which a command was cut short or a removal refused),
`CellsAreOwn` (a cell that says a project started was read off its own container),
`ReportIsOut` (nothing but an interrupt keeps the table and the exit code from coming
out once there are rows), `TotalsAreSums`, `ProbeIsARoundTrip` (each endpoint is asked once;
when there is a problem to be had no request with a body goes without it, that to
solve first of all; when there is a job, only the request for the problem goes without it;
and nothing is stopped before everything else was asked).

Why the bounds are enough for what can happen: three attempts give a cheap
attempt, a full one after it and a last one whose result must still be judged; a
no-op can come before, between and after changes.  Three problems on two
containers make a container serve a problem after another one, while the other
worker is anywhere; one mishap is one time-out whose orphan lives on through the
next problems or one container that dies in the middle of a call.  For the end of
the batch three problems matter more than mishaps, which only add ways for a call
to fail: two that raise could lose both containers, and the third would wait.  A queue of 2
is full with the usage and the answer of one request, and a third message, an error
or the end, must wait; three calls make a second one on a worker that has answered,
and one on a worker that has failed.  Two typed calls of three attempts each reach
both ceilings, that of the call and that of the process, and put a second worker
after a first that was lost.  Two corrections are enough to lose one or to swap them.
Three installers are a winner, a loser, and one that comes in between or dies.  Two
projects put a stage after each kind of stage, of the same and of another project, and two
mishaps are a command that was cut short and a removal refused, or an interrupt in
the clean-up after a time-out.
The workers of `batch_run`, the roles of `pi_caller` and the processes of `installer` are
symmetric; the runs that check liveness use no symmetry.  `CHECK_DEADLOCK FALSE` is there because all of
these systems stop when their work is done.

Fairness.  `RepairLoop`: validations and agent calls have time limits in the code
(docker time-outs, the Pi worker's deadline), so a step that is due is taken: weak
fairness of the next step of the one thread.  `BatchRun`: weak fairness of what the
main thread does by itself (`MainProceeds`, which is `MainStep` without `Interrupt`), of
each worker and of each call in progress: threads are scheduled and docker commands
come back.  (Those without a time limit in the code, `ps`, `start`,
`run`, `rm`, are assumed to; a daemon that never answers stops the batch.)  Nothing
is assumed of interrupts, mishaps, orphans or of a problem ever being validated: a
batch that waited for something that never comes would violate `BatchEnds`, although a
user could interrupt it.
`PiWorker` (`FairSpec`): the deadline of a call passes, the waits of `close` are
bounded, the two threads run when they can, and a process that was sent SIGKILL dies.
The process owes nothing else: it may hang, read nothing and ignore SIGTERM.
`Benchmark` (`FairSpec`): the main thread goes on, which again assumes that docker commands
without a time limit come back; nothing is assumed of the daemon's late work, of a
project ever starting, or of interrupts.

Every property is paired in `PROJECT.json` with a mutation of a definition it
depends on (a verdict stamped on a pass only, a name looked at and not taken, a
`/project` not emptied, ...) that violates it under the run's own configuration.

## 8. What is proved

For every value of the constants that satisfies the named assumptions
(`DockerAssumption`, `BatchAssumption`, `PoolSizeAssumption`,
`PiWorkerAssumption`, `PiCallerAssumption`, `PipelineAssumption`, `InstallerAssumption`,
`BenchmarkAssumption`, those of `RepairLoop` and `Manifest`), all of which TLC evaluates on
the runs' instances.  They are typings and bounds, with four that say something of the
program: there are as many containers as workers; a batch has at least one problem when it is
benchmarked (`run_batch` refuses an empty directory); there are finitely many agents; and no
project has an endpoint twice in its list, which a scan of its sources makes so.

*Repair loop* (`RepairLoop_proofs`): type correctness, `ReturnsWhatWasJudged`,
`VerdictsFallOnTheirFix`, `OneValidationPerFix`, `BudgetAndRouting`,
`FeedbackOnlyAfterNoOp`, `ErrorPhasesAreTheFailures`, the action property
`DecidedStaysDecided`, and `RunImplementsPolicy`: every step is a step of the
policy or a stutter.  The properties are nearly inductive together; what is
missing from them and added by the invariant is where in the two loops the last
attempt stands: between a change and its validation the last attempt is
undecided, everywhere else every attempt is decided.

`UnnamedSurvive` adds to that invariant what has been answered since the last validation
(`Answers`).  `IncrementalBuildsKeepPom` needs an assumption that the code does not make
true, `PomIsRoot`: a project has no pom but the root one, and none of its versions is empty.
The run `nested_pom` shows why, and the run `repair_loop` satisfies it.  Under it
`_pom_changed` compares the one pom with itself (`SamePom`), and `prev_manifest` is what was
validated last (`Previous`).

*Batch* (`BatchRun_proofs`): `TypeOK`,
`LeasesAreExclusive`, `AcquireNeverWaits`, `VerdictsAreOwn`, `ShutdownIsClean`.
The invariant `IInv` has seven parts:

- `Leases`: the queue has no duplicates, leases are distinct and not in the queue.
- `NothingLost`: from submission on every name is in the queue or leased.  With as
  many names as workers, a worker without a lease leaves fewer holders than names,
  so the queue is not empty: a counting argument (a surjection from the holders
  onto the names), the only place where `PoolSizeAssumption` is used.
- `Filling`: while the pool is filled the queue is the prefix of the names gone
  through and nobody works.
- `Calls`: a call is of the container its worker has leased.  This is what makes
  two calls never share a container, and so a command of one disturb nothing that
  another relies on.
- `Isolation`: the local invariant `Isolated` between a call, its container and
  what lingers there: from the clearing on, the container holds files of the
  call's manifest and of lingering ones only; from the copy on, it holds the
  call's.  Lemmas about `DockerValidator` alone say that a docker command keeps it
  for its own call (`CallStepIsolates`), and that the daemon and the orphans break it
  for none (`DockerStepIsolates`).
- `Futures`: a problem that is with a worker is pending and with one worker only,
  so once all are done no worker can take, validate or return any.
- `Shutdown`: `ShutdownIsClean` itself.

`StartedRuns` and `OnlyOwnIfNoneAbandoned` are what is true of the two comments that the
runs `name_filter` and `timed_out` refute.  A validation copies into a container that runs,
provided that the name filter lists no other container (the hypothesis of the theorem), none
has stopped by itself, no command was abandoned and the wait for the workers was not cut
short.  A verdict is about its own manifest only, provided that no command was abandoned and
none was still at work in a container when the batch began.

*Worker* (`PiWorker_proofs`): `TypeOK`, `AnswersOwnQuestion`, `UsageIsCounted`,
`ClosedMeansEnded`, for any number of calls and any capacity of the queue.  Neither of
the two in the middle is inductive: what excludes a late answer is the order in which
a request empties the pipes behind it.  `Traffic` says it, of an open worker: the
lines in the queue, in the reader's hand and in the pipe are, taken in a row, at most
one usage event and at most one result after it, of the current request; once there
is a result the process is at no request; an idle worker has nothing under way.
`Books` says the same of the histories, and holds of a closed worker too, whose
queue may lose messages.  The lemmas `AppendHas`, `AppendInOrder`, `TailHas`,
`TailInOrder` and `Move` say how a sequence of lines keeps its order when one is put
behind, taken or moved on; every step is one of these.  `WorkerKeepsContract` follows: every step
of the worker is one of the contract or none, since an answer that is received is that of
the call that waits, and its usage was before it.

*Caller* (`PiCaller_proofs`): `TypeOK`, `RequestsAreAccepted` and `OnlyUnsentLeftOpen`, from
the invariant that workers are numbered as they are started, that no worker has seen
an id the sequence has not passed, and that numbers not given are of no open worker.
`UsageAccounted` is an equation between sums: of what the processes have spent, of what the
agents are booked for, and of what was under way when a worker failed.  A step changes one
term on each side, and a sum over a finite set changes by what its one term does
(`SumWithOneChanged`, from `FoldLemmas`).
`BudgetsHold` adds where the call stands (`Budgets`): before a request the call is below
its limits and after it at most one response above them; the deadlines of all its attempts
are within its seconds and the grace, and only the attempt that fails, which is the last, adds
a close to them.  `CallerKeepsContracts` says that the
caller uses each worker by its contract, whatever the number of the worker.

*Installer* (`Installer_proofs`): types, `ReturnedIsComplete`, `LosersAreServed`, and
`PublishedOnce` (the target changes once at most, from nothing to a whole installation).
`Phase` says what each process has made or seen at its step, `Published` that the target
is what was found or whole.

*Benchmark* (`Benchmark_proofs`): types, `LeftoversAreAbandoned` and `CellsAreOwn`, for any
number of problems, any batches and any number of mishaps.  `Boxes` and `Images` say where a
container and an image of this batch may be while the main thread is in a stage,
`Lateness` that whatever the daemon may still do was given up, `Found` that what a stage
has seen is its own.  `TotalsAddUp` is about a fold along the usages of all results, which keeps a sum for each
model, and the sum over the models of what it ends with: after each usage the sums by model are
those of the usages so far (`SumsStep`), and a sum is that of its parts.  `ProbesAreRoundTrips` is
about a fold along the list of endpoints: `Trace` gives the sequence of its values, and what is
known of the problem and the job at each of them follows by induction along the list; that
the two requests that get them come first, and need nothing themselves, is `FoundOnes`,
`SolveIsBare` and `OrderedInOrder`.

*Bounds, and nobody stuck.*  The liveness properties need fairness and so stay with TLC, but
what they rest on is proved for all values of the constants: that a system can make only so many
steps, and that there is somebody to make the next one until it is done.  Both are about what
the code may do, whoever is scheduled.

| System | A bound on the steps | Never stuck | Left to the fairness |
|---|---|---|---|
| `RepairLoop` | `RunIsBounded`: each step lowers `StepsLeft`, from `3 * MaxIterations + 4` | model-checked: one thread, and each of its places has a step | `Terminates` |
| `BatchRun` | `BatchIsBounded`: the main thread, workers and docker commands lower `StepsLeft`, the daemon and abandoned commands leave it as it is | `BatchIsNeverStuck` | `BatchEnds` |
| `PiWorker` | `WorkerIsBounded`: each step of anyone lowers `StepsLeft`, from `14 * MaxCalls + 13` | `CloseIsNeverStuck`; a call that waits may always find its deadline over | `CloseEndsThreads`, `CallsComeBack` |
| `Benchmark` | `BenchmarkIsBounded`: the main thread lowers `StepsLeft`, from `3 + 18 * NumProblems`, and nobody else raises it | model-checked: one thread, and each of its places has a step | `ReportIsOut` |

A bound is a sum of what each actor may still do (`CommandsLeft` of a docker call, `JobLeft` of
a worker, the main thread's place), where taking up work costs more than the work has steps.
"Never stuck" is stated with the guards of the actions that the fairness is about
(`MainIsDue`, `WorkerIsDue`, `CloserIsDue`, ...), since `ENABLED` is out of the prover's
reach.  `BatchIsNeverStuck` needs two more facts than `IInv`, in `Held`: a problem that was
taken and is not done is with a worker, and the main thread waits only for problems it has
submitted.  It needs a worker, too: the executor cannot be made without one.  For the benchmark
`ReportIsWhole` says what there is at the end: it is without its report only after an
interrupt or before there were rows, and otherwise every project that passed was evaluated
and the exit code is that of the failures.

*Folds* (`FoldLemmas`).  The folds of the community modules are recursive functions on the subsets of
a set.  `FoldExists` says that there is such a function, without which nothing can be proved of
it: there is one that is right for sets of up to `n` elements, for every `n`.  `Trace` says
that a fold along a sequence takes one step for each element, `SumWithout` that a sum is a
term and the sum without it, whatever the order.  Induction over the naturals is used as a
statement about a set of numbers (`Induction`), so that no operator is a parameter.

*Pipeline* (`Pipeline_proofs`): `TypeOK` and the three invariants of the run.  `Review` says
how many answers the spec has come from at each step of the review, against the number of
corrections; that every message is complete follows since each is made at such a step.
`Progress` says what is settled at each step (which manifest, what is on disk, no artifacts yet), and `Outcome` that
there is no result before the caller is closed; `ResultIsHonest` follows when the
result is made and is not disturbed afterwards.

The types of `Pipeline`, `Installer` and `Benchmark`, `PublishedOnce` and `CallsByContract`
are proved and are in no run.  What the runs of the
other modules have of them is their type invariant.

Only model-checked: the liveness properties `Terminates`, `BatchEnds`, `CloseEndsThreads`,
`CallsComeBack` and `ReportIsOut` as such.  Fairness is a statement about `ENABLED`, which no
installed prover has a rule for.

## 9. What the code does otherwise than it says

Four runs look for a violation, and find it, of what a comment or docstring says.

- `name_filter`: `is_container_running` asks for names that *contain* the name.
  From eleven workers on `timefold-validator-10` answers for
  `timefold-validator-1`, and the validation goes on with a container that is not
  running.  With `Alike` the identity the property holds while nothing goes wrong: `StartedRuns`.
- `timed_out`: "Clear old project files first" is not enough when an abandoned
  `mvn` of the previous validation still writes there.  It is as long as there is none
  (`OnlyOwnIfNoneAbandoned`).
- `nested_pom`: `_pom_changed` looks at the first path that ends in `pom.xml`,
  which in a project with modules need not be the build's own; the build is then
  incremental although its pom changed.
- `worker_left`: "Python closes each worker" (`PI_CALLER.md`).  A request over 16 MiB
  is refused by a worker that stays open, but `call_typed` takes every
  `PiWorkerError` for a failed transport and drops the worker, so nobody closes that
  process.  `OnlyUnsentLeftOpen` shows that this is the only way.

Four more that no run is spent on.

- `DockerContainerPool.initialize`: "Start all N containers. Blocks until all are running."
  The answer of `start_persistent_container` is dropped.  On a machine that has no image
  yet nothing can be created at that point: the image is built by the first problem's
  controller.  Each validation starts its container again, which is why this does no
  lasting harm (`AcquireNeverWaits`, `BatchEnds`).
- `run_problem` is documented as "always returned, never raises", but set-up is before its
  `try` and a `close` that cannot kill the worker raises out of its `finally` (`SetUp` and
  `Close` of `Pipeline`).
- "The next stage starts a new one" is not so after a failure that is not a
  `PiWorkerError`: the closed worker stays, and the next call fails on it before it is
  replaced (`CountRaises` and `TransportFails` of `PiCaller`).
- `evaluate_project`: "Containers are torn down even if a stage dies."  A `docker run`
  whose client was killed by its time limit may create its container after the removal,
  and the container in which `mvn package` runs has no name and is removed by nobody when
  its client is killed.  `LeftoversAreAbandoned` is what holds: nothing is left but what
  belongs to a command that was cut short or refused.

## 10. What is not modelled

- Settings, options, logging, packaging, prompts: parsing, formatting and files of one
  process, one step after the other.  No order of events can go wrong there, and a test of
  one function reaches every case.
- A single run: it is one problem on one container, which `Pipeline`, `RepairLoop` and
  `DockerValidator` model.  Two of them at once share the container; nothing promises that
  this works, so there is no property to check.
- Of the reports: averages, durations, and the text of summaries and tables.  Of the usage:
  tokens read from and written to caches, which are added up as the others are.
- Of the benchmark: HTTP, the scan of sources for endpoints, notes, and the ways in which
  a project directory is looked up.
- Of the installer: node's version, the environment, and the hash of the assets; a process
  with other assets has another target.
- Of the Pi worker: the stderr thread, environment and command line, the size of
  lines, and JSON that does not parse other than as a line cut short.  Of the caller:
  cost estimates, model configurations, schemas and the repair of nearly-JSON.  A
  model's answer is good, to be asked for again, or failed.
- Of the pipeline: the content of specs and deltas, the request and the manifests in the
  messages, and half-written files.
- Of the batch: argument checks, and the names of files and directories.
- Interrupts of anything but the main thread.  A Ctrl-C in a terminal also kills
  the docker clients of the workers; the effect of that on one of them is the
  model's time-out.
- `docker rm -f` is assumed to remove, and `docker ps` to answer.
- Hard crashes of the batch process: what they leave behind is `Leftovers`, the
  rest dies with it.
- `create_tar_archive` can raise for an unsafe path, which `FileEntry` has already
  refused; the step is not reachable.
- The text of prompts, logs, summaries and error output, except where a branch
  depends on it.

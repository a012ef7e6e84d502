------------------------------ MODULE Benchmark ------------------------------
(***************************************************************************)
(* The end of run_batch (cli/run_batch.py): the summary, then the          *)
(* benchmark, which takes one project after the other through              *)
(* evaluate_project (benchmarking/evaluator.py): package it, boot it and   *)
(* probe its endpoints (stage "qk"), build its image and boot that (stage  *)
(* "dk").  Both containers publish the same port of the host.  The main    *)
(* thread is alone, but the docker daemon goes on with what a killed       *)
(* client asked for, containers boot and stop by themselves, and the user  *)
(* may interrupt.                                                          *)
(***************************************************************************)
EXTENDS Reporting, Probe

CONSTANTS
    NumProblems,  \* the problems of the batch, by their sorted names
    Batches,      \* [results, docker, endpoints]: what the batch hands over
    MaxMishaps    \* bound: commands cut short, removals refused, interrupts

Problem == 1..NumProblems

\* What a batch knows of a problem in the end.
Result == [problem : Problem, success : BOOLEAN, phase : STRING, phases : Seq(STRING),
           iterations : Nat, usages : Seq(Usage)]

ASSUME BenchmarkAssumption ==
    /\ NumProblems \in Nat \ {0} /\ MaxMishaps \in Nat
    /\ Unknown \notin BOOLEAN /\ Unknown \notin Nat
    /\ \A b \in Batches :
         /\ b.docker \in BOOLEAN
         /\ b.results \in Seq(Result)
         /\ b.endpoints \in [Problem -> Seq(Endpoint)]
         /\ \A p \in Problem : IsInjective(b.endpoints[p])

Name == {"qk", "dk"} \X Problem

VARIABLES
    batch,      \* the results in the order they came, whether docker is on, and
                \* what discover_endpoints finds in each project
    step,       \* where the main thread is
    stage,      \* the stage of the project it is in
    i,          \* the project it is at
    rows,       \* the records of the benchmark, <<>> until it starts
    rec,        \* what evaluate_project has for this project so far
    res,        \* what the stage has so far
    raised,     \* the exception on its way: "no", "error" or "interrupt"
    exit,       \* the exit code, Unknown until the program ends
    box,        \* the containers
    image,      \* each project's image: "none", "old" or "new"
    late,       \* what the daemon may still do for a client that was killed
    mishaps,    \* how many commands have gone wrong
    fresh,      \* history: stages whose own container was seen to start
    abandoned   \* history: stages with a command that was cut short or refused

thread == <<step, stage, i, rows, rec, res, raised, exit>>
daemon == <<box, image, late>>
history == <<mishaps, fresh, abandoned>>
vars == <<batch, thread, daemon, history>>

\* A container: is it there, does it run and hold the port, have its logs the
\* line that Quarkus started, and is it this batch's.
Gone == [there |-> FALSE, up |-> FALSE, log |-> FALSE, own |-> FALSE]
Created == [there |-> TRUE, up |-> FALSE, log |-> FALSE, own |-> TRUE]
OldBoxes == {[there |-> TRUE, up |-> u, log |-> TRUE, own |-> FALSE] : u \in BOOLEAN}

NoRes == [started |-> FALSE, score |-> 0, solve_ok |-> FALSE]
NoRec == [quarkus_runs |-> FALSE, score |-> 0, solve_ok |-> FALSE, docker_works |-> FALSE]

PortIsFree == \A n \in Name : ~box[n].up
ThisBox == <<stage, i>>
ResultOf(p) == CHOOSE r \in ToSet(batch.results) : r.problem = p
Failures == AggregateResults(batch.results).failure_count

\* At most one container is left from earlier, and all images or none.
Init ==
    /\ batch \in Batches
    /\ step = "summary" /\ stage = "none" /\ i = 0 /\ rows = <<>>
    /\ rec = NoRec /\ res = NoRes
    /\ raised = "no" /\ exit = Unknown
    /\ \E n \in Name, old \in OldBoxes \cup {Gone} :
         box = [[m \in Name |-> Gone] EXCEPT ![n] = old]
    /\ image \in {[p \in Problem |-> tag] : tag \in {"none", "old"}}
    /\ late = {} /\ mishaps = 0 /\ fresh = {} /\ abandoned = {}

-----------------------------------------------------------------------------
(* Steps of docker commands                                                *)

Mishap == mishaps < MaxMishaps /\ mishaps' = mishaps + 1
Abandon(n) == abandoned' = abandoned \cup {n}
NoMishap == UNCHANGED <<mishaps, abandoned>>

\* Mutated: docker stop.
Removed_Stopped(b) == [b EXCEPT !.up = FALSE]

Removed(b) == Gone

\* docker rm -f, whose answer nobody reads.
RemoveBox ==
    /\ \/ box' = [box EXCEPT ![ThisBox] = Removed(@)] /\ NoMishap
       \/ box[ThisBox].there /\ Mishap /\ Abandon(ThisBox) /\ UNCHANGED box
    /\ UNCHANGED <<image, late, fresh>>

\* docker rmi -f.
RemoveImage ==
    /\ \/ image' = [image EXCEPT ![i] = "none"] /\ NoMishap
       \/ image[i] # "none" /\ Mishap /\ Abandon(ThisBox) /\ UNCHANGED image
    /\ UNCHANGED <<box, late, fresh>>

\* A time-out kills the docker client; the daemon may go on with its work.
CutShort(work) ==
    /\ Mishap /\ Abandon(ThisBox)
    /\ late' = late \cup work
    /\ UNCHANGED <<image, fresh>>

\* What docker run leaves: nothing new if the name is taken, and a container that
\* does not start if the port is.
AfterRun ==
    IF box[ThisBox].there THEN box
    ELSE [box EXCEPT ![ThisBox] = [Created EXCEPT !.up = PortIsFree]]

-----------------------------------------------------------------------------
(* run_batch                                                               *)

Goto(s) == step' = s /\ UNCHANGED <<stage, i, rows, rec, res, raised, exit>>
Raise(s, e) ==
    /\ step' = s /\ raised' = e
    /\ UNCHANGED <<stage, i, rows, rec, res, exit>>

End == /\ step' = "over" /\ exit' = (IF Failures > 0 THEN 1 ELSE 0)
       /\ UNCHANGED <<stage, i, rows, rec, res, raised>>

\* The summary's files come first; one that cannot be written ends the program.
WriteSummary ==
    /\ step = "summary"
    /\ \/ batch.docker /\ Goto("gate")
       \/ ~batch.docker /\ End
       \/ Raise("left", "error")
    /\ UNCHANGED <<batch, daemon, history>>

\* The benchmark is skipped when the port is in use, by a container or otherwise.
Gate ==
    /\ step = "gate"
    /\ \/ End
       \/ /\ PortIsFree /\ step' = "next"
          /\ rows' = [p \in Problem |-> BenchmarkFromResult(ResultOf(p))]
          /\ UNCHANGED <<stage, i, rec, res, raised, exit>>
    /\ UNCHANGED <<batch, daemon, history>>

EvaluatedRow(row, r) ==
    [row EXCEPT !.evaluated = TRUE, !.quarkus_runs = r.quarkus_runs,
                !.score = r.score, !.docker_works = r.docker_works,
                !.solver_runs = @ \/ r.solve_ok]

\* A problem without a project, or whose project cannot be looked up, has failed
\* in all columns; a project that passed its validations is there.
NextProject ==
    /\ step = "next" /\ i < NumProblems /\ i' = i + 1
    /\ \/ step' = "package" /\ rec' = NoRec /\ res' = NoRes /\ stage' = "qk" /\ UNCHANGED rows
       \/ /\ ~ResultOf(i').success
          /\ rows' = [rows EXCEPT ![i'] = EvaluatedRow(@, NoRec)]
          /\ UNCHANGED <<step, stage, rec, res>>
    /\ UNCHANGED <<raised, exit, batch, daemon, history>>

WriteRow ==
    /\ step = "row" /\ step' = "next" /\ stage' = "none"
    /\ rows' = [rows EXCEPT ![i] = EvaluatedRow(@, rec)]
    /\ UNCHANGED <<i, rec, res, raised, exit, batch, daemon, history>>

\* The table and its files, of which none, some or all are written.
WriteTable ==
    /\ step = "next" /\ i = NumProblems /\ End
    /\ UNCHANGED <<batch, daemon, history>>

-----------------------------------------------------------------------------
(* evaluate_project and its stages                                         *)

\* mvn package in a container without a name.  A failure, a time-out, and a
\* package without a jar end the stage.
Package ==
    /\ step = "package"
    /\ \/ Goto("clear") /\ UNCHANGED <<daemon, history>>
       \/ Goto("end") /\ UNCHANGED <<daemon, history>>
       \/ Goto("end") /\ CutShort({<<"package", i>>}) /\ UNCHANGED box
    /\ UNCHANGED batch

\* Mutated: what lies under the container's name is not removed before the run.
Clear_Skipped == step = "clear" /\ Goto("run") /\ UNCHANGED <<batch, daemon, history>>

Clear == step = "clear" /\ Goto("run") /\ RemoveBox /\ UNCHANGED batch

\* docker run -d, before the try; a time-out of the client raises.
Run ==
    /\ step = "run"
    /\ \/ Goto("poll") /\ box' \in {box, AfterRun} /\ UNCHANGED <<image, late, history>>
       \/ Raise("end", "error") /\ CutShort({ThisBox}) /\ box' \in {box, AfterRun}
    /\ UNCHANGED batch

\* _container_started reads the logs of whatever has the name.  It may give up at
\* any time, as after its two minutes.
Poll ==
    /\ step = "poll"
    /\ \/ /\ box[ThisBox].log
          /\ res' = [res EXCEPT !.started = TRUE]
          /\ fresh' = IF box[ThisBox].own THEN fresh \cup {ThisBox} ELSE fresh
          /\ step' = IF stage = "qk" THEN "probe" ELSE "logs"
          /\ UNCHANGED <<stage, i, rows, rec, raised, exit, mishaps, abandoned>>
       \/ Goto(IF stage = "qk" THEN "remove" ELSE "logs") /\ UNCHANGED history
    /\ UNCHANGED <<batch, daemon>>

\* A request never raises, but looking for endpoints may.
ProbeStep ==
    /\ step = "probe" /\ step' = "remove"
    /\ \/ /\ \E answers \in [ToSet(batch.endpoints[i]) -> Answer] :
               LET endpoints == batch.endpoints[i]
                   ok == ProbeEndpoints(endpoints, answers).ok
               IN res' = [res EXCEPT !.score = Score(ok, Len(endpoints)),
                                     !.solve_ok = SolveOk(endpoints, answers)]
          /\ UNCHANGED raised
       \/ raised' = "error" /\ UNCHANGED res
    /\ UNCHANGED <<stage, i, rows, rec, exit, batch, daemon, history>>

\* docker rmi of what an earlier run left under the tag, if there is a Dockerfile.
ClearImage ==
    /\ step = "image"
    /\ \/ Goto("end") /\ UNCHANGED <<daemon, history>>
       \/ Goto("build") /\ RemoveImage
       \/ Raise("end", "error") /\ CutShort({}) /\ UNCHANGED box
    /\ UNCHANGED batch

Build ==
    /\ step = "build"
    /\ \/ /\ Goto("clear") /\ image' = [image EXCEPT ![i] = "new"]
          /\ UNCHANGED <<box, late, history>>
       \/ Goto("end") /\ UNCHANGED <<daemon, history>>
       \/ Goto("end") /\ CutShort({<<"build", i>>}) /\ UNCHANGED box
    /\ UNCHANGED batch

\* docker logs, for the note.
ReadLogs ==
    /\ step = "logs"
    /\ \/ Goto("remove") /\ UNCHANGED <<daemon, history>>
       \/ Raise("remove", "error") /\ Mishap /\ UNCHANGED <<daemon, fresh, abandoned>>
    /\ UNCHANGED batch

\* The finally of the stage; that of the other one has an image to remove, too.
TearDown ==
    /\ step = "remove" /\ Goto(IF stage = "qk" THEN "end" ELSE "untag")
    /\ RemoveBox
    /\ UNCHANGED batch

\* A time-out here takes the place of the exception on its way, even of an
\* interrupt.
Untag ==
    /\ step = "untag"
    /\ \/ Goto("end") /\ RemoveImage
       \/ Raise("end", "error") /\ CutShort({}) /\ UNCHANGED box
    /\ UNCHANGED batch

\* Mutated: what a stage raises leaves evaluate_project.
Propagates_All(e) == e # "no"

\* except Exception catches anything but an interrupt.
Propagates(e) == e = "interrupt"

\* The finally of evaluate_project.  A stage that raised has no result.
EndStage ==
    /\ step = "end" /\ RemoveBox
    /\ rec' = IF raised # "no" THEN rec
              ELSE IF stage = "qk"
                THEN [quarkus_runs |-> res.started, score |-> res.score,
                      solve_ok |-> res.solve_ok, docker_works |-> FALSE]
                ELSE [rec EXCEPT !.docker_works = res.started]
    /\ IF Propagates(raised)
         THEN step' = "left" /\ UNCHANGED <<stage, res, raised>>
         ELSE /\ IF stage = "qk" THEN step' = "image" /\ stage' = "dk"
                                 ELSE step' = "row" /\ UNCHANGED stage
              /\ res' = NoRes /\ raised' = "no"
    /\ UNCHANGED <<i, rows, exit, batch>>

\* Where the finally clauses take the main thread from a step of a stage.  The
\* first command of a finally that is interrupted is its last: the image of a
\* stage interrupted at its docker rm stays.
Handler(s) ==
    IF s \in {"poll", "probe", "logs"} THEN "remove"
    ELSE IF s = "end" THEN "left" ELSE "end"

\* The user interrupts, and the command that runs is cut short.
Interrupt ==
    /\ step \notin {"over", "left"}
    /\ raised' = "interrupt"
    /\ IF step \in {"summary", "gate", "next", "row"}
         THEN step' = "left" /\ Mishap /\ UNCHANGED <<daemon, fresh, abandoned>>
         ELSE /\ step' = Handler(step)
              /\ IF step \in {"poll", "probe", "logs"}
                   THEN Mishap /\ UNCHANGED <<daemon, fresh, abandoned>>
                   ELSE /\ CutShort(IF step = "run" THEN {ThisBox}
                                    ELSE IF step \in {"package", "build"} THEN {<<step, i>>}
                                    ELSE {})
                        /\ box' \in IF step = "run" THEN {box, AfterRun} ELSE {box}
    /\ UNCHANGED <<stage, i, rows, rec, res, exit, batch>>

-----------------------------------------------------------------------------
(* What happens by itself                                                  *)

\* The daemon drops what it was asked by a client that is gone, or does it: a
\* container that is created so is not started.
LateDone ==
    /\ \E work \in late :
         /\ late' = late \ {work}
         /\ \/ UNCHANGED <<box, image>>
            \/ /\ work \in Name /\ ~box[work].there
               /\ box' = [box EXCEPT ![work] = Created] /\ UNCHANGED image
            \/ /\ work[1] = "build"
               /\ image' = [image EXCEPT ![work[2]] = "new"] /\ UNCHANGED box
    /\ UNCHANGED <<batch, thread, history>>

\* Quarkus logs that it started; a container stops.
Boot(n) == box[n].up /\ ~box[n].log /\ box' = [box EXCEPT ![n].log = TRUE]
Stop(n) == box[n].up /\ box' = [box EXCEPT ![n].up = FALSE]

Main ==
    \/ WriteSummary \/ Gate \/ NextProject \/ WriteRow \/ WriteTable
    \/ Package \/ Clear \/ Run \/ Poll \/ ProbeStep \/ TearDown \/ EndStage
    \/ ClearImage \/ Build \/ ReadLogs \/ Untag

Next ==
    \/ Main \/ Interrupt \/ LateDone
    \/ /\ \E n \in Name : Boot(n) \/ Stop(n)
       /\ UNCHANGED <<batch, thread, image, late, history>>

Spec == Init /\ [][Next]_vars

\* The main thread goes on: docker commands without a time limit come back.
FairSpec == Spec /\ WF_vars(Main)

-----------------------------------------------------------------------------
Row == [evaluated : BOOLEAN, compiles : BOOLEAN, solver_runs : BOOLEAN,
        quarkus_runs : BOOLEAN \cup {Unknown}, score : 0..2 \cup {Unknown},
        docker_works : BOOLEAN \cup {Unknown}]

\* Types of the variables.
TypeOK ==
    /\ batch \in Batches /\ stage \in {"none", "qk", "dk"} /\ i \in 0..NumProblems
    /\ step \in {"summary", "gate", "next", "package", "clear", "run", "poll", "probe",
                 "remove", "end", "image", "build", "logs", "untag", "row", "over", "left"}
    /\ raised \in {"no", "error", "interrupt"} /\ exit \in {0, 1, Unknown}
    /\ box \in [Name -> [there : BOOLEAN, up : BOOLEAN, log : BOOLEAN, own : BOOLEAN]]
    /\ image \in [Problem -> {"none", "old", "new"}]
    /\ late \subseteq ({"qk", "dk", "package", "build"} \X Problem)
    /\ res \in [started : BOOLEAN, score : 0..2, solve_ok : BOOLEAN]
    /\ rec \in [quarkus_runs : BOOLEAN, score : 0..2, solve_ok : BOOLEAN,
                docker_works : BOOLEAN]
    /\ rows = <<>> \/ rows \in [Problem -> Row]
    /\ mishaps \in 0..MaxMishaps /\ fresh \subseteq Name /\ abandoned \subseteq Name

\* Between two projects and at the end, the containers and images that are left
\* of this batch are those of a stage one of whose commands was cut short or
\* refused, and no other container holds the port when one is run.  This is what
\* "Containers are torn down even if a stage dies" (evaluate_project) comes to.
LeftoversAreAbandoned ==
    /\ step \in {"next", "row", "over", "left"} =>
         /\ \A n \in Name : box[n].own => n \in abandoned
         /\ \A p \in Problem : image[p] = "new" => <<"dk", p>> \in abandoned
    /\ step = "run" => \A n \in Name : box[n].up => n \in abandoned

\* A cell says that a project started only if its own container of this batch was
\* seen to, whatever earlier batches left under that name and in its logs, unless
\* docker refused to remove that; endpoints count only for one that started.
CellsAreOwn ==
    \A p \in DOMAIN rows :
      /\ rows[p].quarkus_runs = TRUE => <<"qk", p>> \in fresh \cup abandoned
      /\ rows[p].docker_works = TRUE => <<"dk", p>> \in fresh \cup abandoned
      /\ rows[p].score \in {1, 2} => rows[p].quarkus_runs = TRUE

\* The totals of every batch add up (aggregate_token_usage).
TotalsAreSums == step = "summary" => SumsUp(batch.results)

\* Whatever endpoints a project has and whatever it answers, they are asked in a
\* round trip (probe_endpoints).
ProbeIsARoundTrip ==
    step = "summary" =>
      \A p \in Problem : \A answers \in [ToSet(batch.endpoints[p]) -> Answer] :
        RoundTrip(batch.endpoints[p], answers)

\* Nothing that fails once the benchmark has rows keeps the program from its end:
\* unless it was skipped there is a record of every project and a table with no cell
\* left out, and the exit code is that of the batch ("one project must never abort
\* the benchmark").
ReportIsOut ==
    <>[](\/ step = "left" /\ (raised = "interrupt" \/ rows = <<>>)
         \/ /\ step = "over" /\ exit = (IF Failures > 0 THEN 1 ELSE 0)
            /\ \A p \in DOMAIN rows : rows[p].evaluated
            /\ rows # <<>> => Totals(rows).quarkus_runs \in 0..NumProblems)
=============================================================================

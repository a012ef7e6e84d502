------------------------------ MODULE Pipeline ------------------------------
(***************************************************************************)
(* One problem from its text to its ProblemResult: pipeline/runner.py      *)
(* (run_problem), pipeline/user_validator.py and the IntentContext they    *)
(* share.  The repair loop is one step here (RepairLoop is its model), and *)
(* so is a typed call (PiCaller).                                          *)
(*                                                                         *)
(* A manifest is known by the step that made it: stage k makes manifest k  *)
(* out of manifest k - 1, and the repair loop returns Repaired.  A file    *)
(* that an exception left half written is not told from one not written.   *)
(* A spec is known by the number of agents' answers it has come from.      *)
(***************************************************************************)
EXTENDS Integers, Sequences

CONSTANTS
    Phase,         \* the phases in which a validation fails
    Feedback,      \* what a user may ask to change
    MaxFeedback,   \* bound: how often the user asks for changes
    MaxAttempts    \* max_fix_iterations

ASSUME PipelineAssumption ==
    /\ MaxFeedback \in Nat /\ MaxAttempts \in Nat
    /\ {"none", "crash"} \cap Phase = {} /\ "none" \notin Feedback

Stages   == 4           \* len(GENERATION_STAGES)
Nothing  == 0           \* the empty manifest, or no manifest
Repaired == Stages + 1
Manifest == Nothing..Repaired

Agent  == <<"model_builder", "constraint_builder", "io", "integrator">>
Makers == {"model_builder", "constraint_builder", "io", "integrator",
           "reviewer", "fixer_cheap", "fixer"}

\* What an agent is sent: a spec, the corrections of the context, and for the
\* update of a spec what is to change.  The request and the manifest are left out.
Message == [to          : Makers \cup {"none", "parser", "user_validator_explain",
                                       "user_validator_update"},
            spec        : Nat,
            corrections : Seq(Feedback),
            feedback    : Feedback \cup {"none"}]

Records == [attempts : 0..MaxAttempts,
            phases   : UNION {[1..n -> Phase] : n \in 0..(MaxAttempts + 1)}]
NoRecords == [attempts |-> 0, phases |-> <<>>]

VARIABLES
    asked,     \* the options: docker, serve, review
    pc,        \* the next step of run_problem
    intent,    \* context.clarifications
    spec,      \* problem_spec of run_problem, 0 before there is one
    reviewed,  \* problem_spec of run_user_validation_loop
    message,   \* the last message an agent was sent
    manifest,  \* the local of that name
    records,   \* fix_attempts (their number) and error_phases
    success,   \* validation_success
    disk,      \* the results: ProjectManifest.json, the project's files, its
               \* Docker artifacts, and both as they are in the zip
    caller,    \* this problem's caller: none, open, closed
    result,    \* the ProblemResult, or NoResult
    ended,     \* how run_problem has ended: not, returned, raised
    said,      \* history: what the user has asked to change, in order
    shown,     \* history: the spec whose explanation the user saw last
    repair     \* history: the controller's own records and what run returned

review  == <<intent, spec, reviewed, message, said, shown>>
product == <<manifest, records, success, repair>>
outcome == <<caller, result, ended>>
vars    == <<asked, pc, review, product, disk, outcome>>

To(agent, s, corrections) ==
    [to |-> agent, spec |-> s, corrections |-> corrections, feedback |-> "none"]

NoResult == [kind |-> "none", success |-> FALSE, final |-> "none", records |-> NoRecords]

Init ==
    /\ asked \in [docker : BOOLEAN, serve : BOOLEAN, review : BOOLEAN]
    /\ pc = "set_up"
    /\ intent = <<>> /\ spec = 0 /\ reviewed = 0 /\ message = To("none", 0, <<>>)
    /\ said = <<>> /\ shown = 0
    /\ manifest = Nothing /\ records = NoRecords /\ success = TRUE
    /\ repair = [records |-> NoRecords, success |-> FALSE]
    /\ disk = [json |-> Nothing, project |-> Nothing, artifacts |-> "none",
               zip |-> <<Nothing, "none">>]
    /\ caller = "none" /\ result = NoResult /\ ended = "not"

Go(to) == pc' = to

-----------------------------------------------------------------------------
\* What the agent called at this step is sent: the parser the bare request, all
\* others the spec with context.fields().
Due ==
    CASE pc = "parse"    -> To("parser", 0, <<>>)
      [] pc = "explain"  -> To("user_validator_explain", reviewed, intent)
      [] pc = "generate" -> To(Agent[manifest + 1], spec, intent)
      [] OTHER           -> message

\* Directories, logging and the caller, before the try.
SetUp ==
    /\ pc = "set_up"
    /\ \/ Go("parse") /\ caller' = "open" /\ UNCHANGED ended
       \/ Go("over") /\ ended' = "raised" /\ UNCHANGED caller
    /\ UNCHANGED <<review, product, disk, result>>

\* Read the problem and parse it; the review starts from the parser's spec.
Parse ==
    /\ pc = "parse"
    /\ message' = Due
    /\ spec' = 1 /\ reviewed' = 1
    /\ Go(IF asked.review THEN "explain" ELSE "generate")
    /\ UNCHANGED <<intent, said, shown, product, disk, outcome>>

\* user_validator_explain, whose answer is shown at the prompt.
Explain ==
    /\ pc = "explain"
    /\ message' = Due
    /\ shown' = reviewed
    /\ Go("prompt")
    /\ UNCHANGED <<intent, spec, reviewed, said, product, disk, outcome>>

\* The user presses Enter, and run_problem goes on with the spec of the review.
Accept ==
    /\ pc = "prompt"
    /\ spec' = reviewed
    /\ Go("generate")
    /\ UNCHANGED <<intent, reviewed, message, said, shown, product, disk, outcome>>

\* context.clarifications.append(feedback)
Clarified(f) == Append(intent, f)

\* Mutated: the message is made before the append.
Request_BeforeAppend(f) ==
    [To("user_validator_update", reviewed, intent) EXCEPT !.feedback = f]

Request(f) == [To("user_validator_update", reviewed, Clarified(f)) EXCEPT !.feedback = f]

\* The user asks for a change, and user_validator_update is called.
Correct(f) ==
    /\ pc = "prompt" /\ Len(said) < MaxFeedback
    /\ said' = Append(said, f)
    /\ intent' = Clarified(f)
    /\ message' = Request(f)
    /\ Go("update")
    /\ UNCHANGED <<spec, reviewed, shown, product, disk, outcome>>

\* It answers with a new spec, which may omit what was said.
Update ==
    /\ pc = "update"
    /\ reviewed' = reviewed + 1
    /\ Go("explain")
    /\ UNCHANGED <<intent, spec, message, said, shown, product, disk, outcome>>

-----------------------------------------------------------------------------
Complete(m) == m = Stages

\* The next agent of GENERATION_STAGES, and apply_delta.
Generate ==
    /\ pc = "generate"
    /\ message' = Due
    /\ manifest' = manifest + 1
    /\ Go(IF ~Complete(manifest') THEN "generate"
          ELSE IF asked.docker THEN "repair" ELSE "save")
    /\ UNCHANGED <<intent, spec, reviewed, said, shown, records, success, repair, disk,
                   outcome>>

\* What the controller sends before its first attempt, and at its n-th.
Repairer(n) == IF n = 0 THEN "reviewer" ELSE IF n = 1 THEN "fixer_cheap" ELSE "fixer"
ToRepairer(n) == To(Repairer(n), spec, intent)

\* Mutated: the records are copied when run has returned.
Copied_IfReturned(r, returned) == IF returned THEN r ELSE records

\* finally: run_problem's copies of the controller's records.
Copied(r, returned) == r

\* controller.run returns a manifest and a verdict.  A failed verdict comes with
\* the phases that failed, except that of a run without Docker, which has done
\* nothing.
RepairReturns(r, passed) ==
    /\ pc = "repair"
    /\ ~passed /\ r.phases = <<>> => r = NoRecords
    /\ message' = IF passed \/ r # NoRecords THEN ToRepairer(r.attempts) ELSE message
    /\ repair' = [records |-> r, success |-> passed]
    /\ records' = Copied(r, TRUE)
    /\ manifest' = Repaired
    /\ success' = passed
    /\ Go("save")
    /\ UNCHANGED <<intent, spec, reviewed, said, shown, disk, outcome>>

\* It raises in the middle, with the records it has by then; the agent of the
\* last attempt has been called or not.
RepairRaises(r) ==
    /\ pc = "repair"
    /\ \/ message' = ToRepairer(r.attempts)
       \/ r.attempts > 0 /\ message' = ToRepairer(r.attempts - 1)
       \/ r = NoRecords /\ UNCHANGED message
    /\ repair' = [records |-> r, success |-> FALSE]
    /\ records' = Copied(r, FALSE)
    /\ Go("crash")
    /\ UNCHANGED <<intent, spec, reviewed, said, shown, manifest, success, disk, outcome>>

-----------------------------------------------------------------------------
\* ProblemSpec.json and ProjectManifest.json.
Save ==
    /\ pc = "save"
    /\ disk' = [disk EXCEPT !.json = manifest]
    /\ Go("write")
    /\ UNCHANGED <<review, product, outcome>>

\* _project_output_dir and _write_manifest.
Write ==
    /\ pc = "write"
    /\ disk' = [disk EXCEPT !.project = manifest]
    /\ Go("serve")
    /\ UNCHANGED <<review, product, outcome>>

\* Mutated: artifacts for every project that was to be served.
Served_Always == asked.serve

Served == asked.serve /\ success

\* emit_docker_artifacts, for a project that passed.  It writes three files
\* and may fail at each of them, which is no failure of the run.
Serve ==
    /\ pc = "serve"
    /\ IF Served
       THEN \E a \in {"none", "some", "all"} : disk' = [disk EXCEPT !.artifacts = a]
       ELSE UNCHANGED disk
    /\ Go("zip")
    /\ UNCHANGED <<review, product, outcome>>

\* _zip_dir packs the project's directory as it is.
Zip ==
    /\ pc = "zip"
    /\ disk' = [disk EXCEPT !.zip = <<disk.project, disk.artifacts>>]
    /\ Go("return")
    /\ UNCHANGED <<review, product, outcome>>

-----------------------------------------------------------------------------
FinalPhase ==
    IF records.phases # <<>> /\ ~success THEN records.phases[Len(records.phases)]
                                         ELSE "none"

\* The result of a run that came to its end.
Return ==
    /\ pc = "return"
    /\ result' = [kind |-> "finished", success |-> success, final |-> FinalPhase,
                  records |-> records]
    /\ Go("close")
    /\ UNCHANGED <<review, product, disk, caller, ended>>

\* A file, a typed call or the prompt raises, and an agent to be called at this
\* step has its message or not.
Raise ==
    /\ pc \in {"parse", "explain", "prompt", "update", "generate", "save", "write", "zip"}
    /\ message' \in {message, Due}
    /\ Go("crash")
    /\ UNCHANGED <<intent, spec, reviewed, said, shown, product, disk, outcome>>

\* except Exception: the result of a run that crashed.
Crash ==
    /\ pc = "crash"
    /\ result' = [kind |-> "crashed", success |-> FALSE, final |-> "crash",
                  records |-> records]
    /\ Go("close")
    /\ UNCHANGED <<review, product, disk, caller, ended>>

\* finally: close the caller.  A worker that cannot be killed in time raises
\* out of close, instead of the result.
Close ==
    /\ pc = "close"
    /\ caller' = "closed"
    /\ ended' \in {"returned", "raised"}
    /\ Go("over")
    /\ UNCHANGED <<review, product, disk, result>>

Next ==
    /\ \/ SetUp \/ Parse \/ Explain \/ Accept \/ Update
       \/ \E f \in Feedback : Correct(f)
       \/ Generate
       \/ \E r \in Records, passed \in BOOLEAN : RepairReturns(r, passed)
       \/ \E r \in Records : RepairRaises(r)
       \/ Save \/ Write \/ Serve \/ Zip
       \/ Return \/ Raise \/ Crash \/ Close
    /\ UNCHANGED asked

Spec == Init /\ [][Next]_vars

-----------------------------------------------------------------------------
\* Types of all variables, and all stages are done before the loop or a file.
TypeOK ==
    /\ asked \in [docker : BOOLEAN, serve : BOOLEAN, review : BOOLEAN]
    /\ pc \in {"set_up", "parse", "explain", "prompt", "update", "generate", "repair",
               "save", "write", "serve", "zip", "return", "crash", "close", "over"}
    /\ intent \in Seq(Feedback) /\ said \in Seq(Feedback)
    /\ spec \in Nat /\ reviewed \in Nat /\ shown \in Nat /\ message \in Message
    /\ manifest \in Manifest /\ records \in Records /\ success \in BOOLEAN
    /\ disk \in [json : Manifest, project : Manifest,
                 artifacts : {"none", "some", "all"},
                 zip : Manifest \X {"none", "some", "all"}]
    /\ caller \in {"none", "open", "closed"}
    /\ result \in [kind : {"none", "finished", "crashed"}, success : BOOLEAN,
                   final : Phase \cup {"none", "crash"}, records : Records]
    /\ ended \in {"not", "returned", "raised"}
    /\ repair \in [records : Records, success : BOOLEAN]
    /\ pc \in {"repair", "save"} => manifest \in {Stages, Repaired}

\* Every message an agent is sent carries all the user has asked to change by
\* then, in order (ARCHITECTURE.md: "ordered, exact UserClarifications").  The
\* update agent is asked for the latest of it, on the spec the user was shown.
\* The agents that make the project get a spec made after the last correction,
\* and after a review the one the user saw when accepting (run_problem,
\* run_user_validation_loop, IntentContext, FeedbackController).
IntentIsComplete ==
    /\ message.corrections = said
    /\ message.to = "user_validator_update" =>
         message.spec = shown /\ message.feedback = said[Len(said)]
    /\ message.to \in Makers =>
         message.spec = Len(said) + 1 /\ (asked.review => message.spec = shown)

\* A result has the records the controller had when it was left, however it was
\* left and whatever happened after it (run_problem, finally and crash result).
RecordsSurvive == result.kind # "none" => result.records = repair.records

\* What a run reports is what it leaves behind.  A success was given by the
\* repair loop or asked for without one; then the manifest, the project and the
\* zip are of the same and last manifest, and the zip has the artifacts that
\* could be written.  A project that did not pass gets no artifacts, and a
\* failure that names no phase is one that nothing was tried on (run_problem:
\* "BEFORE zipping", "We do NOT emit on failure").
ResultIsHonest ==
    /\ result.success =>
         /\ asked.docker => repair.success /\ manifest = Repaired
         /\ ~asked.docker => manifest = Stages
         /\ disk.json = manifest /\ disk.project = manifest
         /\ disk.zip = <<manifest, disk.artifacts>>
    /\ disk.artifacts # "none" => asked.serve /\ (asked.docker => repair.success)
    /\ result.kind = "finished" =>
         (result.final = "none" <=> result.success \/ result.records = NoRecords)
=============================================================================

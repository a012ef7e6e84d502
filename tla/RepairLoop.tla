----------------------------- MODULE RepairLoop -----------------------------
(***************************************************************************)
(* FeedbackController (validation/feedback_controller.py): one call of     *)
(* run(), from the Docker check to its return or the exception that leaves *)
(* it.  The controller alternates validations of the current manifest with *)
(* calls of a fixer agent, on a budget of MaxIterations fixer calls.       *)
(*                                                                         *)
(* The environment is the Docker validator (any verdict, or an exception), *)
(* the agents (any delta from a given set, or an exception) and the error  *)
(* log (its write may fail).  Two of the variables record the calls the    *)
(* controller made, for the properties to speak about: validations and     *)
(* asked.  The rest is the state of the code.                              *)
(***************************************************************************)
EXTENDS Manifest

CONSTANTS
    MaxIterations,     \* FeedbackConfig.max_iterations: fixer calls per run
    EnablePreReview,   \* FeedbackConfig.enable_pre_review
    InitialManifests,  \* what the generation stages may hand over
    ReviewerDeltas,    \* what the reviewer may answer
    FixerDeltas,       \* what a fixer may answer
    Mentions,          \* the sets of paths a compiler output may mention
    None

ErrorPhase == {"compilation", "runtime", "test"}
Phase == ErrorPhase \cup {"none"}
Agent == {"fixer_cheap", "fixer"}
Outcome == {"pending", "validation_passed", "validation_failed",
            "no_changes", "call_failed"}

\* The tuple run() returns.
Returned == [manifest : ProjectManifest, success : BOOLEAN]

ASSUME RepairAssumption ==
    /\ MaxIterations \in Nat
    /\ EnablePreReview \in BOOLEAN
    /\ InitialManifests \subseteq ProjectManifest
    /\ ReviewerDeltas \subseteq Delta
    /\ FixerDeltas \subseteq {d \in Delta : IsFixerDelta(d)}
    /\ Mentions \subseteq SUBSET Path
    /\ None \notin ProjectManifest \cup Delta
    /\ None \notin Returned

VARIABLES
    pc,           \* where run() stands
    manifest,     \* manifest
    prev,         \* prev_manifest, or None
    result,       \* result.error_phase of the last validation
    history,      \* fix_history
    errorPhases,  \* error_phases
    feedback,     \* retry_feedback is not None
    validations,  \* the calls of validator.validate, in order
    asked,        \* the calls of a fixer agent, in order
    returned      \* what run() returned, or None

vars == <<pc, manifest, prev, result, history, errorPhases, feedback,
          validations, asked, returned>>

Attempt == [agent : Agent, phase : ErrorPhase, outcome : Outcome, fixed : BOOLEAN]

\* after is the number of fixer attempts made so far, which run() logs too.
Validation == [manifest : ProjectManifest, clean : BOOLEAN, phase : Phase, after : Nat]

Question == [agent : Agent, sent : ProjectManifest, feedback : BOOLEAN,
             answer : Delta \cup {None}]

TypeOK ==
    /\ pc \in {"start", "review", "validate", "fix", "calling", "done", "raised"}
    /\ manifest \in ProjectManifest
    /\ prev \in ProjectManifest \cup {None}
    /\ result \in Phase
    /\ history \in Seq(Attempt)
    /\ errorPhases \in Seq(ErrorPhase)
    /\ feedback \in BOOLEAN
    /\ validations \in Seq(Validation)
    /\ asked \in Seq(Question)
    /\ returned \in Returned \cup {None}

Init ==
    /\ pc = "start"
    /\ manifest \in InitialManifests
    /\ prev = None
    /\ result = "none"
    /\ history = <<>>
    /\ errorPhases = <<>>
    /\ feedback = FALSE
    /\ validations = <<>>
    /\ asked = <<>>
    /\ returned = None

Return(m, success) ==
    /\ pc' = "done"
    /\ returned' = [manifest |-> m, success |-> success]

loopVars == <<prev, result, history, errorPhases, feedback, validations, asked>>

-----------------------------------------------------------------------------
(* Before the loop: _ensure_docker_ready and _run_pre_review.              *)

DockerUnavailable ==
    /\ pc = "start"
    /\ Return(manifest, FALSE)
    /\ UNCHANGED <<manifest, loopVars>>

\* The docker command is missing or the image build times out.
DockerCheckRaises ==
    /\ pc = "start"
    /\ pc' = "raised"
    /\ UNCHANGED <<manifest, loopVars, returned>>

DockerReady ==
    /\ pc = "start"
    /\ pc' = IF EnablePreReview THEN "review" ELSE "validate"
    /\ UNCHANGED <<manifest, loopVars, returned>>

PreReview(d) ==
    /\ pc = "review"
    /\ manifest' = ApplyDelta(manifest, d)
    /\ pc' = "validate"
    /\ UNCHANGED <<loopVars, returned>>

\* Any exception of the reviewer call leaves the manifest as it was.
PreReviewFails ==
    /\ pc = "review"
    /\ pc' = "validate"
    /\ UNCHANGED <<manifest, loopVars, returned>>

-----------------------------------------------------------------------------
(* One validation of the current manifest, and what run() records of it.   *)

\* Mutated: incremental whenever something was validated before.
UseClean_FirstOnly == prev = None

UseClean == prev = None \/ PomChanged(prev, manifest)

\* Mutated: the attempt is stamped only when the validation passed.
Stamped_PassOnly(phase) ==
    IF history = <<>> \/ phase # "none" THEN history
    ELSE [history EXCEPT ![Len(history)] =
            [@ EXCEPT !.fixed = TRUE, !.outcome = "validation_passed"]]

\* fix_history[-1] gets the verdict of the validation that followed it.
Stamped(phase) ==
    IF history = <<>> THEN history
    ELSE [history EXCEPT ![Len(history)] =
            [@ EXCEPT !.fixed = (phase = "none"),
                      !.outcome = IF phase = "none" THEN "validation_passed"
                                                    ELSE "validation_failed"]]

Judge(phase) ==
    /\ pc = "validate"
    /\ validations' = Append(validations,
            [manifest |-> manifest, clean |-> UseClean, phase |-> phase,
             after |-> Len(history)])
    /\ result' = phase
    /\ history' = Stamped(phase)

ValidationPasses ==
    /\ Judge("none")
    /\ Return(manifest, TRUE)
    /\ UNCHANGED <<manifest, prev, errorPhases, feedback, asked>>

\* Mutated: the phase of the validation before.
RecordFailure_Stale(phase) == errorPhases' = Append(errorPhases, result)

RecordFailure(phase) == errorPhases' = Append(errorPhases, phase)

\* Mutated: retry_feedback outlives the error it was about.
NextError_KeepsFeedback == prev' = manifest /\ feedback' = feedback

\* A new error: prev_manifest is what failed, retry_feedback starts empty.
NextError == prev' = manifest /\ feedback' = FALSE

ValidationFails(phase) ==
    /\ Judge(phase)
    /\ RecordFailure(phase)
    /\ NextError
    /\ pc' = "fix"
    /\ UNCHANGED <<manifest, asked, returned>>

\* _log_validation_error cannot write the error log.
ErrorLogRaises(phase) ==
    /\ Judge(phase)
    /\ RecordFailure(phase)
    /\ pc' = "raised"
    /\ UNCHANGED <<manifest, prev, feedback, asked, returned>>

\* validate() itself raises (docker cp times out, say): no verdict at all.
ValidatorRaises ==
    /\ pc = "validate"
    /\ pc' = "raised"
    /\ UNCHANGED <<manifest, loopVars, returned>>

-----------------------------------------------------------------------------
(* The fixer attempts that follow a failed validation.                     *)

\* Mutated: the strong fixer first, the cheap one for the retries.
FixerFor_Swapped(n) == IF n = 1 THEN "fixer" ELSE "fixer_cheap"

FixerFor(n) == IF n = 1 THEN "fixer_cheap" ELSE "fixer"

\* Mutated: one attempt too many.
BudgetLeft_OneMore == Len(history) <= MaxIterations

BudgetLeft == Len(history) < MaxIterations

\* The attempt is recorded, as pending, before the agent is called.
CallFixer(mentioned) ==
    /\ pc = "fix"
    /\ BudgetLeft
    /\ LET agent == FixerFor(Len(history) + 1)
       IN  /\ history' = Append(history,
                [agent |-> agent, phase |-> result, outcome |-> "pending", fixed |-> FALSE])
           /\ asked' = Append(asked,
                [agent |-> agent, feedback |-> feedback, answer |-> None,
                 sent |-> SelectRelevant(manifest, result, mentioned)])
    /\ pc' = "calling"
    /\ UNCHANGED <<manifest, prev, result, errorPhases, feedback, validations, returned>>

LastAttemptIs(outcome) == history' = [history EXCEPT ![Len(history)].outcome = outcome]
LastAnswerIs(d) == asked' = [asked EXCEPT ![Len(asked)].answer = d]

\* Mutated: an answer that changes nothing is revalidated like any other.
RetryAtOnce_Revalidates == feedback' = TRUE /\ pc' = "validate"

\* The continue of the inner loop: the same error, another attempt.
RetryAtOnce == feedback' = TRUE /\ pc' = "fix"

\* Mutated: a no-op attempt is given back to the budget.
FixerChangesNothing_Refunded(d) ==
    /\ pc = "calling"
    /\ ~HasFileChanges(manifest, d)
    /\ history' = SubSeq(history, 1, Len(history) - 1)
    /\ asked' = SubSeq(asked, 1, Len(asked) - 1)
    /\ RetryAtOnce
    /\ UNCHANGED <<manifest, prev, result, errorPhases, validations, returned>>

FixerChangesNothing(d) ==
    /\ pc = "calling"
    /\ ~HasFileChanges(manifest, d)
    /\ LastAttemptIs("no_changes")
    /\ LastAnswerIs(d)
    /\ RetryAtOnce
    /\ UNCHANGED <<manifest, prev, result, errorPhases, validations, returned>>

\* Mutated: the delta is merged into the selection the fixer was sent.
Patch_Selection(d) ==
    manifest' = ApplyDelta(asked[Len(asked)].sent, d) /\ pc' = "validate"

\* Mutated: the fix of the last attempt is returned without a validation.
Patch_LastUntested(d) ==
    /\ manifest' = ApplyDelta(manifest, d)
    /\ pc' = IF BudgetLeft THEN "validate" ELSE "fix"

\* The break of the inner loop: back to a validation of the patched project.
Patch(d) == manifest' = ApplyDelta(manifest, d) /\ pc' = "validate"

FixerApplied(d) ==
    /\ pc = "calling"
    /\ HasFileChanges(manifest, d)
    /\ Patch(d)
    /\ LastAnswerIs(d)
    /\ UNCHANGED <<prev, result, history, errorPhases, feedback, validations, returned>>

FixerCallFails ==
    /\ pc = "calling"
    /\ LastAttemptIs("call_failed")
    /\ Return(manifest, FALSE)
    /\ UNCHANGED <<manifest, prev, result, errorPhases, feedback, validations, asked>>

\* The else branch of the inner loop.
MaxIterationsReached ==
    /\ pc = "fix"
    /\ ~BudgetLeft
    /\ Return(manifest, FALSE)
    /\ UNCHANGED <<manifest, loopVars>>

-----------------------------------------------------------------------------
Next ==
    \/ DockerUnavailable \/ DockerCheckRaises \/ DockerReady
    \/ \E d \in ReviewerDeltas : PreReview(d)
    \/ PreReviewFails
    \/ ValidationPasses
    \/ \E phase \in ErrorPhase : ValidationFails(phase) \/ ErrorLogRaises(phase)
    \/ ValidatorRaises
    \/ \E mentioned \in Mentions : CallFixer(mentioned)
    \/ \E d \in FixerDeltas : FixerChangesNothing(d) \/ FixerApplied(d)
    \/ FixerCallFails
    \/ MaxIterationsReached

Spec == Init /\ [][Next]_vars

\* Every call run() makes comes back, with a result or an exception.
FairSpec == Spec /\ WF_vars(Next)

-----------------------------------------------------------------------------
(* What run() promises.                                                    *)

Finished == pc \in {"done", "raised"}

\* run() answers success exactly when the manifest it returns is the one the
\* last validation ran on, and that validation passed; after a failure with
\* Docker available it returns the last manifest a validation has judged,
\* never an untested one (run(), the four return statements).
ReturnsWhatWasJudged ==
    returned # None =>
        /\ returned.success =>
              /\ validations # <<>>
              /\ validations[Len(validations)].phase = "none"
        /\ validations # <<>> =>
              /\ returned.manifest = validations[Len(validations)].manifest
              /\ validations[Len(validations)].phase = "none" => returned.success

\* A verdict is stamped on the fix it judges: attempt i says passed or failed
\* exactly when the validation that followed it, before any other attempt,
\* said so; a no-op or failed call is never followed by a validation of its own
\* (run(), lines on fix_history[-1]).
VerdictsFallOnTheirFix ==
    \A i \in DOMAIN history :
        LET judged == {k \in DOMAIN validations : validations[k].after = i}
        IN  /\ history[i].outcome \in {"validation_passed", "validation_failed"}
                 <=> judged # {}
            /\ \A k \in judged : history[i].fixed = (validations[k].phase = "none")
            /\ \A k \in judged : (history[i].outcome = "validation_passed")
                                    = (validations[k].phase = "none")

\* One validation per manifest: the first before any attempt, each later one
\* after an attempt of its own, so a no-op never buys a revalidation
\* (ARCHITECTURE.md: only file changes trigger revalidation).
OneValidationPerFix ==
    \A k \in DOMAIN validations :
        /\ k = 1 <=> validations[k].after = 0
        /\ k > 1 => /\ validations[k - 1].after < validations[k].after
                    /\ FileMap(validations[k - 1].manifest)
                         # FileMap(validations[k].manifest)

\* At most MaxIterations fixer calls, no-ops included, the cheap fixer first
\* and only first; the attempts on record are the calls that were made.
BudgetAndRouting ==
    /\ Len(history) <= MaxIterations
    /\ Len(asked) = Len(history)
    /\ \A i \in DOMAIN asked :
          /\ asked[i].agent = history[i].agent
          /\ asked[i].agent = "fixer_cheap" <=> i = 1

\* A call carries the "no effective file changes" feedback exactly when the
\* call before it was a no-op on the same error (retry_feedback).
FeedbackOnlyAfterNoOp ==
    \A i \in DOMAIN asked :
        asked[i].feedback <=> i > 1 /\ history[i - 1].outcome = "no_changes"

\* error_phases lists the phases of the failed validations, one for one and in
\* their order, whatever way run() ends; only the last validation can pass.
ErrorPhasesAreTheFailures ==
    /\ DOMAIN errorPhases \subseteq DOMAIN validations
    /\ \A k \in DOMAIN validations :
          IF validations[k].phase = "none"
          THEN k = Len(validations) /\ k \notin DOMAIN errorPhases
          ELSE k \in DOMAIN errorPhases /\ errorPhases[k] = validations[k].phase

\* A validation runs mvn without clean only when the root pom is the one the
\* previous validation ran with (use_clean).
IncrementalOnlyIfPomUnchanged ==
    \A k \in DOMAIN validations : ~validations[k].clean =>
        /\ k > 1
        /\ FileMap(validations[k].manifest)[RootPom]
             = FileMap(validations[k - 1].manifest)[RootPom]

\* A fixer that saw a selection of the files still patches the whole project:
\* from one validation to the next a file changes or goes only if the answer
\* in between names it (_select_relevant_files against apply_delta).
UnnamedFilesSurvive ==
    \A k \in DOMAIN validations : k > 1 =>
        LET d == asked[validations[k].after].answer
        IN  /\ d # None
            /\ \A p \in Path \ (Written(d) \cup d.deleted) :
                  FileMap(validations[k].manifest)[p]
                    = FileMap(validations[k - 1].manifest)[p]

\* What an attempt has been decided to be is never rewritten, and no attempt
\* is taken off the record.
DecidedStaysDecided ==
    [][ /\ Len(history') >= Len(history)
        /\ \A i \in DOMAIN history :
              history[i].outcome # "pending" => history'[i] = history[i] ]_vars

\* run() comes back or raises: no-ops are counted against the budget, so the
\* two nested loops end (the while conditions of run()).
Terminates == <>Finished
-----------------------------------------------------------------------------
(* The controller, seen as the policy it implements.                       *)

AwaitingVerdict ==
    \/ pc = "validate"
    \/ pc = "raised" /\ history # <<>> /\ history[Len(history)].outcome = "pending"

verdictBar ==
    IF validations = <<>> THEN "draft"
    ELSE IF pc = "calling" THEN "repairing"
    ELSE IF AwaitingVerdict THEN "untested"
    ELSE IF result = "none" THEN "passed"
    ELSE "failed"

Policy == INSTANCE RepairPolicy WITH
              Candidate <- ProjectManifest, Budget <- MaxIterations, None <- None,
              candidate <- manifest, verdict <- verdictBar,
              spent <- Len(history), answer <- returned

\* run() implements the repair policy: tests and repairs alternate, each repair
\* is paid for once, and the answer is about the candidate last tested.
ImplementsPolicy == Policy!Spec
=============================================================================

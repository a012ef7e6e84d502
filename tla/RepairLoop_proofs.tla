-------------------------- MODULE RepairLoop_proofs --------------------------
(***************************************************************************)
(* Theorems about RepairLoop, for every budget, every set of deltas and    *)
(* every behaviour of the validator and the agents.                        *)
(***************************************************************************)
EXTENDS RepairLoop, SequenceTheorems, TLAPS

\* The place CHOOSE picks in a delta is one that writes the path.
LEMMA EntryOfWritten ==
    ASSUME NEW d \in Delta, NEW p \in Written(d)
    PROVE  /\ EntryOf(d, p) \in DOMAIN d.changed
           /\ d.changed[EntryOf(d, p)].path = p
BY DEF Written, EntryOf

\* apply_delta turns a manifest and a delta into a manifest.
LEMMA ApplyDeltaType ==
    ASSUME NEW m \in ProjectManifest, NEW d \in Delta
    PROVE  ApplyDelta(m, d) \in ProjectManifest
<1> DEFINE new == ApplyDelta(m, d)
<1>1. d.changed \in Seq([path : Path, content : Content]) /\ d.name \in Name
  BY DEF Delta
<1>2. new.name \in Name /\ new.end \in Nat
  BY <1>1 DEF ApplyDelta, ProjectManifest
<1>3. ASSUME NEW p \in Path
      PROVE  new.files[p] \in File \cup {Absent}
  <2>1. CASE p \in Written(d)
    <3>1. EntryOf(d, p) \in 1 .. Len(d.changed)
      BY <1>1, <2>1, EntryOfWritten
    <3>2. d.changed[EntryOf(d, p)].content \in Content
      <4>1. d.changed[EntryOf(d, p)] \in [path : Path, content : Content]
        BY <1>1, <3>1, ElementOfSeq
      <4> QED
        BY <4>1
    <3>3. p \in Paths(m) => m.files[p].pos \in Nat
      BY DEF Paths, ProjectManifest, File
    <3>4. m.end + EntryOf(d, p) \in Nat
      BY <3>1 DEF ProjectManifest
    <3> QED
      BY <2>1, <3>2, <3>3, <3>4 DEF ApplyDelta, File
  <2>2. CASE p \notin Written(d)
    BY <2>2 DEF ApplyDelta, ProjectManifest, Paths
  <2> QED
    BY <2>1, <2>2
<1>4. new = [name |-> new.name, files |-> new.files, end |-> new.end]
      /\ new.files = [p \in Path |-> new.files[p]]
  BY DEF ApplyDelta
<1> HIDE DEF new
<1>5. new.files \in [Path -> File \cup {Absent}]
  BY <1>3, <1>4
<1> QED
  BY <1>2, <1>4, <1>5 DEF ProjectManifest, new

\* What the fixer is sent is a manifest.
LEMMA SelectRelevantType ==
    ASSUME NEW m \in ProjectManifest, NEW phase, NEW mentioned
    PROVE  SelectRelevant(m, phase, mentioned) \in ProjectManifest
BY DEF SelectRelevant, ProjectManifest

\* What run() returns can be told from nothing returned.
LEMMA ReturnedType ==
    ASSUME NEW m \in ProjectManifest, NEW success \in BOOLEAN
    PROVE  /\ [manifest |-> m, success |-> success] \in Returned
           /\ [manifest |-> m, success |-> success] # None
<1>1. [manifest |-> m, success |-> success] \in Returned
  BY DEF Returned
<1> QED
  BY <1>1, RepairAssumption

-----------------------------------------------------------------------------
(* The inductive invariant.  The properties of RepairLoop speak of the two  *)
(* call records; Control ties those records to where run() stands.         *)

LastRun == validations[Len(validations)]
LastTry == history[Len(history)]

NothingYet == validations = <<>> /\ history = <<>> /\ errorPhases = <<>>

\* A verdict that failed is being dealt with.
Failing ==
    /\ validations # <<>>
    /\ result \in ErrorPhase
    /\ LastRun.phase = result
    /\ Len(errorPhases) = Len(validations)

Control ==
    /\ pc # "done" <=> returned = None
    /\ pc \in {"start", "review"} => NothingYet
    /\ pc = "validate" =>
          \/ NothingYet
          \/ /\ Failing
             /\ history # <<>> /\ LastTry.outcome = "pending"
             /\ LastRun.after < Len(history)
             /\ FileMap(LastRun.manifest) # FileMap(manifest)
    /\ pc = "fix" =>
          /\ Failing
          /\ manifest = LastRun.manifest
          /\ history # <<>> => LastTry.outcome # "pending"
          /\ feedback <=> history # <<>> /\ LastTry.outcome = "no_changes"
    /\ pc = "calling" =>
          /\ Failing
          /\ manifest = LastRun.manifest
          /\ history # <<>> /\ LastTry.outcome = "pending"
          /\ LastRun.after < Len(history)

\* Only the last attempt can be undecided, and no validation is ahead of it.
Records ==
    /\ \A i \in DOMAIN history : history[i].outcome = "pending" => i = Len(history)
    /\ \A k \in DOMAIN validations : validations[k].after <= Len(history)

IInv ==
    /\ TypeOK
    /\ Control
    /\ Records
    /\ ReturnsWhatWasJudged
    /\ VerdictsFallOnTheirFix
    /\ OneValidationPerFix
    /\ BudgetAndRouting
    /\ FeedbackOnlyAfterNoOp
    /\ ErrorPhasesAreTheFailures

-----------------------------------------------------------------------------
(* What the steps do to the two records.                                   *)

\* A validation is recorded last, and only the last attempt is stamped.
LEMMA JudgeEffect ==
    ASSUME TypeOK, NEW phase \in Phase, Judge(phase)
    PROVE  /\ history' \in Seq(Attempt) /\ Len(history') = Len(history)
           /\ \A i \in 1 .. Len(history) :
                 /\ history'[i].agent = history[i].agent
                 /\ i # Len(history) => history'[i] = history[i]
                 /\ i = Len(history) =>
                       /\ history'[i].fixed = (phase = "none")
                       /\ history'[i].outcome = IF phase = "none" THEN "validation_passed"
                                                 ELSE "validation_failed"
           /\ validations' \in Seq(Validation)
           /\ Len(validations') = Len(validations) + 1
           /\ \A k \in 1 .. Len(validations) : validations'[k] = validations[k]
           /\ validations'[Len(validations) + 1].manifest = manifest
           /\ validations'[Len(validations) + 1].phase = phase
           /\ validations'[Len(validations) + 1].after = Len(history)
           /\ result' = phase
<1>1. /\ history' \in Seq(Attempt) /\ Len(history') = Len(history)
      /\ \A i \in 1 .. Len(history) :
            /\ history'[i].agent = history[i].agent
            /\ i # Len(history) => history'[i] = history[i]
            /\ i = Len(history) =>
                  /\ history'[i].fixed = (phase = "none")
                  /\ history'[i].outcome = IF phase = "none" THEN "validation_passed"
                                            ELSE "validation_failed"
  <2>1. CASE history = <<>>
    BY <2>1 DEF Judge, Stamped, TypeOK
  <2>2. CASE history # <<>>
    <3> DEFINE n == Len(history)
               last == [history[n] EXCEPT
                          !.fixed = (phase = "none"),
                          !.outcome = IF phase = "none" THEN "validation_passed"
                                                        ELSE "validation_failed"]
    <3>1. n \in 1 .. n /\ history \in Seq(Attempt) /\ history[n] \in Attempt
      BY <2>2, ElementOfSeq DEF TypeOK
    <3>2. /\ last \in Attempt
          /\ last.agent = history[n].agent
          /\ last.fixed = (phase = "none")
          /\ last.outcome = IF phase = "none" THEN "validation_passed" ELSE "validation_failed"
      BY <3>1 DEF Attempt, Outcome
    <3>3. history' = [history EXCEPT ![n] = last]
      BY <2>2 DEF Judge, Stamped
    <3> HIDE DEF last
    <3> QED
      BY <3>1, <3>2, <3>3, ExceptSeq
  <2> QED
    BY <2>1, <2>2
<1>2. UseClean \in BOOLEAN
  BY DEF UseClean, PomChanged
<1> DEFINE run == [manifest |-> manifest, clean |-> UseClean, phase |-> phase,
                   after |-> Len(history)]
<1>3. run \in Validation /\ validations \in Seq(Validation)
  BY <1>2 DEF Validation, TypeOK
<1>4. validations' = Append(validations, run) /\ result' = phase
  BY DEF Judge
<1>5. run.manifest = manifest /\ run.phase = phase /\ run.after = Len(history)
  OBVIOUS
<1> HIDE DEF run
<1>6. validations' \in Seq(Validation) /\ Len(validations') = Len(validations) + 1
      /\ validations'[Len(validations) + 1] = run
      /\ \A k \in 1 .. Len(validations) : validations'[k] = validations[k]
  BY <1>3, <1>4, AppendProperties
<1> QED
  BY <1>1, <1>4, <1>5, <1>6

\* A fixer call adds one pending attempt and one question.
LEMMA CallEffect ==
    ASSUME TypeOK, result \in ErrorPhase, NEW mentioned \in Mentions, CallFixer(mentioned)
    PROVE  /\ history' \in Seq(Attempt) /\ Len(history') = Len(history) + 1
           /\ \A i \in 1 .. Len(history) : history'[i] = history[i]
           /\ history'[Len(history) + 1].outcome = "pending"
           /\ history'[Len(history) + 1].agent = FixerFor(Len(history) + 1)
           /\ asked' \in Seq(Question) /\ Len(asked') = Len(asked) + 1
           /\ \A i \in 1 .. Len(asked) : asked'[i] = asked[i]
           /\ asked'[Len(asked) + 1].agent = FixerFor(Len(history) + 1)
           /\ asked'[Len(asked) + 1].feedback = feedback
<1> DEFINE agent == FixerFor(Len(history) + 1)
           try == [agent |-> agent, phase |-> result, outcome |-> "pending", fixed |-> FALSE]
           ask == [agent |-> agent, feedback |-> feedback, answer |-> None,
                   sent |-> SelectRelevant(manifest, result, mentioned)]
<1>1. agent \in Agent
  BY DEF FixerFor, Agent
<1>2. try \in Attempt /\ try.outcome = "pending" /\ try.agent = agent
  BY <1>1 DEF Attempt, Outcome
<1>3. ask \in Question /\ ask.agent = agent /\ ask.feedback = feedback
  BY <1>1, SelectRelevantType DEF Question, TypeOK
<1>4. /\ history' = Append(history, try) /\ history \in Seq(Attempt)
      /\ asked' = Append(asked, ask) /\ asked \in Seq(Question)
  BY DEF CallFixer, TypeOK
<1> HIDE DEF try, ask, agent
<1>5. /\ history' \in Seq(Attempt) /\ Len(history') = Len(history) + 1
      /\ history'[Len(history) + 1] = try
      /\ \A i \in 1 .. Len(history) : history'[i] = history[i]
  BY <1>2, <1>4, AppendProperties
<1>6. /\ asked' \in Seq(Question) /\ Len(asked') = Len(asked) + 1
      /\ asked'[Len(asked) + 1] = ask
      /\ \A i \in 1 .. Len(asked) : asked'[i] = asked[i]
  BY <1>3, <1>4, AppendProperties
<1> QED
  BY <1>2, <1>3, <1>5, <1>6 DEF agent

\* Closing an attempt touches the outcome of the last one only.
LEMMA CloseEffect ==
    ASSUME TypeOK, history # <<>>, NEW outcome \in Outcome, LastAttemptIs(outcome)
    PROVE  /\ history' \in Seq(Attempt) /\ Len(history') = Len(history)
           /\ \A i \in 1 .. Len(history) :
                 /\ history'[i].agent = history[i].agent
                 /\ history'[i].fixed = history[i].fixed
                 /\ i # Len(history) => history'[i] = history[i]
           /\ history'[Len(history)].outcome = outcome
<1> DEFINE n == Len(history)
           last == [history[n] EXCEPT !.outcome = outcome]
<1>1. n \in 1 .. n /\ history \in Seq(Attempt) /\ history[n] \in Attempt
  BY ElementOfSeq DEF TypeOK
<1>2. /\ last \in Attempt /\ last.agent = history[n].agent
      /\ last.fixed = history[n].fixed /\ last.outcome = outcome
  BY <1>1 DEF Attempt
<1>3. history' = [history EXCEPT ![n] = last]
  BY DEF LastAttemptIs
<1> HIDE DEF last
<1> QED
  BY <1>1, <1>2, <1>3, ExceptSeq

\* Recording an answer keeps every question as it was put.
LEMMA AnswerEffect ==
    ASSUME TypeOK, asked # <<>>, NEW d \in Delta, LastAnswerIs(d)
    PROVE  /\ asked' \in Seq(Question) /\ Len(asked') = Len(asked)
           /\ \A i \in 1 .. Len(asked) :
                 /\ asked'[i].agent = asked[i].agent
                 /\ asked'[i].feedback = asked[i].feedback
<1> DEFINE n == Len(asked)
           last == [asked[n] EXCEPT !.answer = d]
<1>1. n \in 1 .. n /\ asked \in Seq(Question) /\ asked[n] \in Question
  BY ElementOfSeq DEF TypeOK
<1>2. /\ last \in Question /\ last.agent = asked[n].agent
      /\ last.feedback = asked[n].feedback
  BY <1>1 DEF Question
<1>3. asked' = [asked EXCEPT ![n] = last]
  BY DEF LastAnswerIs
<1> HIDE DEF last
<1> QED
  BY <1>1, <1>2, <1>3, ExceptSeq

-----------------------------------------------------------------------------
(* Every step keeps the invariant: first the steps that leave the records   *)
(* alone, then a validation, then the fixer's.                             *)

\* Checks, the pre-review and endings without a new record keep it.
LEMMA QuietSteps ==
    ASSUME IInv, UNCHANGED loopVars,
           \/ DockerUnavailable \/ DockerCheckRaises \/ DockerReady
           \/ \E d \in ReviewerDeltas : PreReview(d)
           \/ PreReviewFails \/ ValidatorRaises \/ MaxIterationsReached
    PROVE  IInv'
<1>1. TypeOK
  BY DEF IInv
<1>2. /\ pc' \in {"review", "validate", "done", "raised"}
      /\ manifest' \in ProjectManifest
      /\ manifest' = manifest \/ pc = "review"
      /\ pc' \in {"review", "validate"} => pc \in {"start", "review"}
      /\ pc' = "done" => /\ pc \in {"start", "fix"}
                         /\ returned' = [manifest |-> manifest, success |-> FALSE]
      /\ pc' # "done" => pc # "done" /\ returned' = returned
  <2>1. \A d \in ReviewerDeltas : ApplyDelta(manifest, d) \in ProjectManifest
    BY <1>1, ApplyDeltaType, RepairAssumption DEF TypeOK
  <2>2. ASSUME NEW d \in ReviewerDeltas, PreReview(d) PROVE <1>2!:
    BY <2>1, <2>2 DEF PreReview
  <2> QED
    BY <1>1, <2>2 DEF TypeOK, DockerUnavailable, DockerCheckRaises, DockerReady,
                      PreReviewFails, ValidatorRaises, MaxIterationsReached, Return
<1>3. UNCHANGED <<prev, result, history, errorPhases, feedback, validations, asked>>
  BY DEF loopVars
<1>4. TypeOK'
  <2>1. returned' \in Returned \cup {None}
    BY <1>1, <1>2, ReturnedType DEF TypeOK
  <2> QED
    BY <1>1, <1>2, <1>3, <2>1 DEF TypeOK
<1>5. Control'
  <2>1. returned' = None <=> pc' # "done"
    BY <1>1, <1>2, ReturnedType DEF IInv, Control, TypeOK
  <2>2. pc' \in {"review", "validate"} => NothingYet'
    BY <1>2, <1>3 DEF IInv, Control, NothingYet
  <2> QED
    BY <1>2, <2>1, <2>2 DEF Control
<1>6. /\ Records' /\ VerdictsFallOnTheirFix' /\ OneValidationPerFix' /\ BudgetAndRouting'
      /\ FeedbackOnlyAfterNoOp' /\ ErrorPhasesAreTheFailures'
  BY <1>3 DEF IInv, Records, VerdictsFallOnTheirFix, OneValidationPerFix, BudgetAndRouting,
              FeedbackOnlyAfterNoOp, ErrorPhasesAreTheFailures
<1>7. ReturnsWhatWasJudged'
  <2>1. CASE pc' = "done"
    BY <1>2, <1>3, <2>1 DEF IInv, Control, NothingYet, Failing, LastRun, ErrorPhase,
                            ReturnsWhatWasJudged
  <2>2. CASE pc' # "done"
    BY <1>2, <1>3, <2>2 DEF IInv, ReturnsWhatWasJudged
  <2> QED
    BY <2>1, <2>2
<1> QED
  BY <1>4, <1>5, <1>6, <1>7 DEF IInv

\* A validation of the current manifest, passed or failed.
LEMMA ValidationSteps ==
    ASSUME IInv,
           \/ ValidationPasses
           \/ \E phase \in ErrorPhase : ValidationFails(phase) \/ ErrorLogRaises(phase)
    PROVE  IInv'
<1> DEFINE n == Len(history)
           m == Len(validations)
<1>1. TypeOK
  BY DEF IInv
<1>2. PICK phase \in Phase :
         /\ Judge(phase)
         /\ \/ phase = "none" /\ ValidationPasses
            \/ phase \in ErrorPhase /\ (ValidationFails(phase) \/ ErrorLogRaises(phase))
  BY DEF ValidationPasses, ValidationFails, ErrorLogRaises, Phase
<1>3. /\ history' \in Seq(Attempt) /\ validations' \in Seq(Validation)
      /\ result' = phase
  BY <1>1, <1>2, JudgeEffect
\* The two records before and after, by index.
<1>h. /\ n \in Nat /\ DOMAIN history = 1 .. n /\ DOMAIN history' = 1 .. n
      /\ Len(history') = n
      /\ \A i \in 1 .. n :
            /\ history'[i].agent = history[i].agent
            /\ i # n => history'[i] = history[i]
            /\ i = n => /\ history'[i].fixed = (phase = "none")
                        /\ history'[i].outcome = IF phase = "none" THEN "validation_passed"
                                                 ELSE "validation_failed"
  BY <1>1, <1>2, <1>3, JudgeEffect DEF TypeOK
<1>v. /\ m \in Nat /\ DOMAIN validations = 1 .. m /\ DOMAIN validations' = 1 .. (m + 1)
      /\ Len(validations') = m + 1
      /\ \A k \in 1 .. m : validations'[k] = validations[k]
      /\ validations'[m + 1].manifest = manifest
      /\ validations'[m + 1].phase = phase
      /\ validations'[m + 1].after = n
  BY <1>1, <1>2, <1>3, JudgeEffect DEF TypeOK
<1>a. \A k \in 1 .. m : validations[k].after \in Nat
  <2>1. \A k \in 1 .. m : validations[k] \in Validation
    BY <1>1 DEF TypeOK
  <2> QED
    BY <2>1 DEF Validation
<1>e. /\ history = <<>> <=> n = 0
      /\ history' = <<>> <=> n = 0
      /\ validations = <<>> <=> m = 0
      /\ validations' # <<>>
  <2>1. history \in Seq(Attempt) /\ validations \in Seq(Validation)
    BY <1>1 DEF TypeOK
  <2>2. \A s \in Seq(Attempt) \cup Seq(Validation) : s = <<>> <=> Len(s) = 0
    BY EmptySeq
  <2>3. m + 1 # 0
    BY <1>v
  <2> QED
    BY <1>3, <1>h, <1>v, <2>1, <2>2, <2>3
<1>4. "none" \notin ErrorPhase
  BY DEF ErrorPhase
<1>5. /\ pc = "validate" /\ UNCHANGED <<manifest, asked>>
      /\ \/ /\ phase = "none" /\ pc' = "done" /\ errorPhases' = errorPhases
            /\ returned' = [manifest |-> manifest, success |-> TRUE]
            /\ UNCHANGED <<prev, feedback>>
         \/ /\ phase \in ErrorPhase /\ pc' \in {"fix", "raised"}
            /\ errorPhases' = Append(errorPhases, phase) /\ returned' = returned
            /\ prev' \in {prev, manifest} /\ feedback' \in {feedback, FALSE}
            /\ pc' = "fix" => feedback' = FALSE
  BY <1>2 DEF Judge, ValidationPasses, ValidationFails, ErrorLogRaises, RecordFailure,
              NextError, Return
<1>6. /\ Len(errorPhases) = m
      /\ n > 0 => /\ m > 0 /\ validations[m].after < n
                  /\ history[n].outcome = "pending"
                  /\ FileMap(validations[m].manifest) # FileMap(manifest)
      /\ n = 0 => m = 0
      /\ m > 0 => validations[m].phase \in ErrorPhase
  <2>1. CASE NothingYet
    BY <1>e, <1>h, <1>v, <2>1 DEF NothingYet
  <2>2. CASE ~NothingYet
    <3>1. /\ Failing /\ history # <<>> /\ LastTry.outcome = "pending"
          /\ LastRun.after < Len(history)
          /\ FileMap(LastRun.manifest) # FileMap(manifest)
      BY <1>5, <2>2 DEF IInv, Control
    <3>2. LastRun = validations[m] /\ LastTry = history[n]
      BY DEF LastRun, LastTry
    <3>3. n > 0 /\ m > 0
      <4>1. n \in Nat /\ m \in Nat
        BY <1>h, <1>v
      <4>2. n # 0 /\ m # 0
        BY <1>e, <3>1 DEF Failing
      <4> HIDE DEF n, m
      <4> QED
        BY <4>1, <4>2
    <3>4. Len(errorPhases) = m /\ LastRun.phase \in ErrorPhase
      BY <3>1 DEF Failing
    <3>5. n = 0 => m = 0
      BY <3>3
    <3> QED
      BY <3>1, <3>2, <3>3, <3>4, <3>5
  <2> QED
    BY <2>1, <2>2
<1>p. /\ errorPhases \in Seq(ErrorPhase) /\ DOMAIN errorPhases = 1 .. m
      /\ phase = "none" => errorPhases' = errorPhases
      /\ phase # "none" => /\ errorPhases' \in Seq(ErrorPhase) /\ Len(errorPhases') = m + 1
                           /\ DOMAIN errorPhases' = 1 .. (m + 1)
                           /\ errorPhases'[m + 1] = phase
                           /\ \A k \in 1 .. m : errorPhases'[k] = errorPhases[k]
  <2>1. errorPhases \in Seq(ErrorPhase) /\ DOMAIN errorPhases = 1 .. m
    BY <1>1, <1>6 DEF TypeOK
  <2>2. ASSUME phase # "none"
        PROVE  phase \in ErrorPhase /\ errorPhases' = Append(errorPhases, phase)
    BY <1>5, <2>2
  <2>3. CASE phase = "none"
    BY <1>4, <1>5, <2>1, <2>3
  <2>4. CASE phase # "none"
    <3>1. /\ errorPhases' \in Seq(ErrorPhase) /\ Len(errorPhases') = m + 1
          /\ errorPhases'[m + 1] = phase
          /\ \A k \in 1 .. m : errorPhases'[k] = errorPhases[k]
      BY <1>6, <2>1, <2>2, <2>4, AppendProperties
    <3> QED
      BY <2>1, <2>4, <3>1, LenProperties
  <2> QED
    BY <2>3, <2>4
<1> HIDE DEF n, m
<1>7. TypeOK'
  <2>1. returned' \in Returned \cup {None}
    BY <1>1, <1>5, ReturnedType DEF TypeOK
  <2>2. /\ pc' \in {"done", "fix", "raised"} /\ prev' \in ProjectManifest \cup {None}
        /\ feedback' \in BOOLEAN /\ manifest' \in ProjectManifest
        /\ asked' \in Seq(Question)
    BY <1>1, <1>5 DEF TypeOK
  <2> QED
    BY <1>3, <1>p, <2>1, <2>2 DEF TypeOK
<1>8. Control'
  <2>1. returned' = None <=> pc' # "done"
    BY <1>1, <1>5, ReturnedType DEF IInv, Control, TypeOK
  <2>2. ASSUME pc' = "fix" PROVE Failing'
    <3>1. phase \in ErrorPhase
      BY <1>5, <2>2
    <3> QED
      BY <1>3, <1>4, <1>e, <1>p, <1>v, <3>1 DEF Failing, LastRun
  <2>3. ASSUME pc' = "fix"
        PROVE  /\ manifest' = LastRun'.manifest
               /\ history' # <<>> => LastTry'.outcome = "validation_failed"
               /\ feedback' = FALSE
    <3>1. phase # "none" /\ feedback' = FALSE /\ manifest' = manifest
      BY <1>4, <1>5, <2>3
    <3> QED
      BY <1>e, <1>h, <1>v, <3>1 DEF LastRun, LastTry
  <2> QED
    BY <1>5, <2>1, <2>2, <2>3 DEF Control
<1>9. Records'
  <2>1. ASSUME NEW i \in 1 .. n, history'[i].outcome = "pending" PROVE i = n
    BY <1>h, <2>1 DEF IInv, Records
  <2>2. ASSUME NEW k \in 1 .. (m + 1) PROVE validations'[k].after <= n
    <3>1. CASE k \in 1 .. m
      BY <1>h, <1>v, <3>1 DEF IInv, Records, n
    <3>2. CASE k = m + 1
      BY <1>h, <1>v, <3>2
    <3> QED
      BY <1>v, <3>1, <3>2
  <2> QED
    BY <1>h, <1>v, <2>1, <2>2 DEF Records
<1>10. ReturnsWhatWasJudged'
  <2>1. returned = None
    BY <1>5 DEF IInv, Control
  <2> QED
    <3>1. CASE phase = "none"
      <4>1. returned' = [manifest |-> manifest, success |-> TRUE]
        BY <1>4, <1>5, <3>1
      <4> QED
        BY <1>e, <1>v, <3>1, <4>1 DEF ReturnsWhatWasJudged
    <3>2. CASE phase # "none"
      BY <1>5, <2>1, <3>2 DEF ReturnsWhatWasJudged
    <3> QED
      BY <3>1, <3>2
<1>11. VerdictsFallOnTheirFix'
  <2> SUFFICES ASSUME NEW i \in 1 .. n
               PROVE  LET judged == {k \in 1 .. (m + 1) : validations'[k].after = i}
                      IN  /\ history'[i].outcome \in {"validation_passed", "validation_failed"}
                               <=> judged # {}
                          /\ \A k \in judged :
                                history'[i].fixed = (validations'[k].phase = "none")
                          /\ \A k \in judged : (history'[i].outcome = "validation_passed")
                                                  = (validations'[k].phase = "none")
    BY <1>h, <1>v DEF VerdictsFallOnTheirFix
  <2> DEFINE before == {k \in 1 .. m : validations[k].after = i}
  <2>1. /\ history[i].outcome \in {"validation_passed", "validation_failed"} <=> before # {}
        /\ \A k \in before : history[i].fixed = (validations[k].phase = "none")
        /\ \A k \in before : (history[i].outcome = "validation_passed")
                                = (validations[k].phase = "none")
    BY <1>h, <1>v DEF IInv, VerdictsFallOnTheirFix
  <2>2. CASE i = n
    <3>1. before = {}
      BY <1>6, <1>h, <2>1, <2>2
    <3>2. {k \in 1 .. (m + 1) : validations'[k].after = i} = {m + 1}
      BY <1>v, <2>2, <3>1
    <3> QED
      BY <1>h, <1>v, <2>2, <3>2
  <2>3. CASE i # n
    <3>1. {k \in 1 .. (m + 1) : validations'[k].after = i} = before
      BY <1>v, <2>3
    <3>2. history'[i] = history[i] /\ \A k \in before : validations'[k] = validations[k]
      BY <1>h, <1>v, <2>3
    <3> QED
      BY <2>1, <3>1, <3>2
  <2> QED
    BY <2>2, <2>3
<1>12. OneValidationPerFix'
  <2> SUFFICES ASSUME NEW k \in 1 .. (m + 1)
               PROVE  /\ k = 1 <=> validations'[k].after = 0
                      /\ k > 1 => /\ validations'[k - 1].after < validations'[k].after
                                  /\ FileMap(validations'[k - 1].manifest)
                                       # FileMap(validations'[k].manifest)
    BY <1>v DEF OneValidationPerFix
  <2>1. CASE k \in 1 .. m
    <3>1. /\ k = 1 <=> validations[k].after = 0
          /\ k > 1 => /\ validations[k - 1].after < validations[k].after
                      /\ FileMap(validations[k - 1].manifest)
                           # FileMap(validations[k].manifest)
      BY <1>v, <2>1 DEF IInv, OneValidationPerFix
    <3>2. validations'[k] = validations[k]
          /\ (k > 1 => validations'[k - 1] = validations[k - 1])
      BY <1>v, <2>1
    <3> QED
      BY <3>1, <3>2
  <2>2. CASE k = m + 1
    BY <1>6, <1>h, <1>v, <2>2
  <2> QED
    BY <1>v, <2>1, <2>2
<1>13. BudgetAndRouting'
  <2>1. asked' = asked /\ DOMAIN asked = 1 .. n
    BY <1>1, <1>5 DEF IInv, TypeOK, BudgetAndRouting, n
  <2> QED
    BY <1>h, <2>1 DEF IInv, BudgetAndRouting, n
<1>14. FeedbackOnlyAfterNoOp'
  <2>1. asked' = asked /\ DOMAIN asked = 1 .. n
    BY <1>1, <1>5 DEF IInv, TypeOK, BudgetAndRouting, n
  <2>2. ASSUME NEW i \in 1 .. n, i > 1 PROVE history'[i - 1] = history[i - 1]
    BY <1>h, <2>2
  <2> QED
    BY <2>1, <2>2 DEF IInv, FeedbackOnlyAfterNoOp
<1>15. ErrorPhasesAreTheFailures'
  <2>1. ASSUME NEW k \in 1 .. m
        PROVE  /\ validations'[k].phase = validations[k].phase
               /\ validations[k].phase # "none" /\ errorPhases[k] = validations[k].phase
    <3>1. k \in DOMAIN errorPhases /\ k \in DOMAIN validations
      BY <1>p, <1>v
    <3> QED
      BY <1>v, <3>1 DEF IInv, ErrorPhasesAreTheFailures
  <2>2. CASE phase = "none"
    BY <1>p, <1>v, <2>1, <2>2 DEF ErrorPhasesAreTheFailures
  <2>3. CASE phase # "none"
    BY <1>p, <1>v, <2>1, <2>3 DEF ErrorPhasesAreTheFailures
  <2> QED
    BY <2>2, <2>3
<1> QED
  BY <1>7, <1>8, <1>9, <1>10, <1>11, <1>12, <1>13, <1>14, <1>15 DEF IInv

\* A fixer is called: one more attempt, pending.
LEMMA CallSteps ==
    ASSUME IInv, NEW mentioned \in Mentions, CallFixer(mentioned)
    PROVE  IInv'
<1> DEFINE n == Len(history)
           m == Len(validations)
<1>1. TypeOK
  BY DEF IInv
<1>2. /\ pc = "fix" /\ pc' = "calling" /\ n < MaxIterations
      /\ UNCHANGED <<manifest, prev, result, errorPhases, feedback, validations, returned>>
  BY DEF CallFixer, BudgetLeft
<1>3. /\ Failing /\ manifest = LastRun.manifest
      /\ history # <<>> => LastTry.outcome # "pending"
      /\ feedback <=> history # <<>> /\ LastTry.outcome = "no_changes"
      /\ result \in ErrorPhase /\ validations # <<>> /\ returned = None
  BY <1>2 DEF IInv, Control, Failing
<1>4. /\ history' \in Seq(Attempt) /\ asked' \in Seq(Question)
      /\ history \in Seq(Attempt) /\ asked \in Seq(Question)
      /\ validations \in Seq(Validation)
  BY <1>1, <1>3, CallEffect DEF TypeOK
<1>5. Len(asked) = n /\ n \in Nat /\ m \in Nat /\ MaxIterations \in Nat
  BY <1>4, RepairAssumption DEF IInv, BudgetAndRouting
<1>h. /\ DOMAIN history = 1 .. n /\ DOMAIN history' = 1 .. (n + 1) /\ Len(history') = n + 1
      /\ \A i \in 1 .. n : history'[i] = history[i]
      /\ history'[n + 1].outcome = "pending"
      /\ history'[n + 1].agent = FixerFor(n + 1)
  BY <1>1, <1>3, <1>4, CallEffect
<1>q. /\ DOMAIN asked = 1 .. n /\ DOMAIN asked' = 1 .. (n + 1) /\ Len(asked') = n + 1
      /\ \A i \in 1 .. n : asked'[i] = asked[i]
      /\ asked'[n + 1].agent = FixerFor(n + 1)
      /\ asked'[n + 1].feedback = feedback
  BY <1>1, <1>3, <1>4, <1>5, CallEffect
<1>v. /\ DOMAIN validations = 1 .. m /\ validations' = validations
      /\ \A k \in 1 .. m : validations[k].after <= n
  BY <1>2, <1>4 DEF IInv, Records
<1>6. n > 0 => LastTry = history[n]
  BY DEF LastTry
<1>7. history = <<>> <=> n = 0
  BY <1>4, <1>5, EmptySeq
<1>8. m > 0 /\ LastRun = validations[m]
  BY <1>3, <1>4, EmptySeq DEF LastRun
<1>9. history' # <<>> /\ LastTry' = history'[n + 1]
  BY <1>4, <1>5, <1>h, EmptySeq DEF LastTry
<1> HIDE DEF n, m
<1>10. TypeOK'
  BY <1>1, <1>2, <1>4 DEF TypeOK
<1>11. Control'
  <2>1. Failing' /\ LastRun' = LastRun
    BY <1>2, <1>3 DEF Failing, LastRun
  <2>2. LastRun.after < Len(history')
    <3>1. LastRun.after <= n /\ LastRun.after \in Nat
      <4>1. validations[m] \in Validation
        BY <1>4, <1>5, <1>8, <1>v
      <4> QED
        BY <1>5, <1>8, <1>v, <4>1 DEF Validation
    <3> QED
      BY <1>5, <1>h, <3>1
  <2>3. /\ LastTry'.outcome = "pending" /\ manifest' = LastRun'.manifest
        /\ LastRun'.after < Len(history')
    BY <1>2, <1>3, <1>9, <1>h, <2>1, <2>2
  <2> QED
    BY <1>2, <1>3, <1>9, <2>1, <2>3 DEF Control
<1>12. Records'
  <2>1. ASSUME NEW i \in 1 .. n PROVE history[i].outcome # "pending"
    <3>1. history[i].outcome = "pending" => i = n
      BY <1>h DEF IInv, Records, n
    <3> QED
      BY <1>3, <1>5, <1>6, <1>7, <3>1
  <2>2. ASSUME NEW i \in 1 .. (n + 1), history'[i].outcome = "pending" PROVE i = n + 1
    BY <1>5, <1>h, <2>1, <2>2
  <2>3. ASSUME NEW k \in 1 .. m PROVE validations[k].after <= n + 1
    <3>1. validations[k] \in Validation
      BY <1>4, ElementOfSeq DEF m
    <3> QED
      BY <1>5, <1>v, <3>1 DEF Validation
  <2> QED
    BY <1>h, <1>v, <2>2, <2>3 DEF Records
<1>13. ReturnsWhatWasJudged'
  BY <1>2, <1>3 DEF ReturnsWhatWasJudged
<1>14. VerdictsFallOnTheirFix'
  <2> SUFFICES ASSUME NEW i \in 1 .. (n + 1)
               PROVE  LET judged == {k \in 1 .. m : validations[k].after = i}
                      IN  /\ history'[i].outcome \in {"validation_passed", "validation_failed"}
                               <=> judged # {}
                          /\ \A k \in judged :
                                history'[i].fixed = (validations[k].phase = "none")
                          /\ \A k \in judged : (history'[i].outcome = "validation_passed")
                                                  = (validations[k].phase = "none")
    BY <1>h, <1>v DEF VerdictsFallOnTheirFix
  <2> DEFINE judged == {k \in 1 .. m : validations[k].after = i}
  <2>1. CASE i \in 1 .. n
    BY <1>h, <1>v, <2>1 DEF IInv, VerdictsFallOnTheirFix
  <2>2. CASE i = n + 1
    <3>1. judged = {}
      BY <1>5, <1>v, <2>2
    <3> QED
      BY <1>h, <2>2, <3>1
  <2> QED
    BY <1>5, <2>1, <2>2
<1>15. OneValidationPerFix'
  BY <1>v DEF IInv, OneValidationPerFix
<1>16. BudgetAndRouting'
  <2>1. ASSUME NEW i \in 1 .. n
        PROVE  asked'[i].agent = history'[i].agent
               /\ (asked'[i].agent = "fixer_cheap" <=> i = 1)
    BY <1>h, <1>q, <2>1 DEF IInv, BudgetAndRouting
  <2>2. FixerFor(n + 1) = "fixer_cheap" <=> n + 1 = 1
    BY DEF FixerFor
  <2> QED
    BY <1>2, <1>5, <1>h, <1>q, <2>1, <2>2 DEF BudgetAndRouting
<1>17. FeedbackOnlyAfterNoOp'
  <2> SUFFICES ASSUME NEW i \in 1 .. (n + 1)
               PROVE  asked'[i].feedback
                        <=> i > 1 /\ history'[i - 1].outcome = "no_changes"
    BY <1>q DEF FeedbackOnlyAfterNoOp
  <2>1. CASE i \in 1 .. n
    <3>1. i > 1 => history'[i - 1] = history[i - 1]
      BY <1>5, <1>h, <2>1
    <3> QED
      BY <1>q, <2>1, <3>1 DEF IInv, FeedbackOnlyAfterNoOp
  <2>2. CASE i = n + 1
    <3>1. i > 1 <=> n # 0
      BY <1>5, <2>2
    <3>2. n # 0 => history'[n] = history[n]
      BY <1>5, <1>h
    <3>3. i - 1 = n
      BY <1>5, <2>2
    <3>4. n # 0 => n > 0
      BY <1>5
    <3> QED
      BY <1>3, <1>6, <1>7, <1>q, <2>2, <3>1, <3>2, <3>3, <3>4
  <2> QED
    BY <1>5, <2>1, <2>2
<1>18. ErrorPhasesAreTheFailures'
  BY <1>2 DEF IInv, ErrorPhasesAreTheFailures
<1> QED
  BY <1>10, <1>11, <1>12, <1>13, <1>14, <1>15, <1>16, <1>17, <1>18 DEF IInv

\* The fixer call comes back: with a fix, with a no-op, or with an exception.
LEMMA AnswerSteps ==
    ASSUME IInv,
           \/ \E d \in FixerDeltas : FixerChangesNothing(d) \/ FixerApplied(d)
           \/ FixerCallFails
    PROVE  IInv'
<1> DEFINE n == Len(history)
           m == Len(validations)
<1>1. TypeOK
  BY DEF IInv
<1>2. pc = "calling" /\ UNCHANGED <<prev, result, errorPhases, validations>>
  BY DEF FixerChangesNothing, FixerApplied, FixerCallFails
<1>3. /\ Failing /\ manifest = LastRun.manifest /\ returned = None
      /\ history # <<>> /\ LastTry.outcome = "pending"
      /\ LastRun.after < Len(history)
      /\ result \in ErrorPhase /\ validations # <<>> /\ LastRun.phase = result
  BY <1>2 DEF IInv, Control, Failing
<1>4. /\ history \in Seq(Attempt) /\ asked \in Seq(Question)
      /\ validations \in Seq(Validation)
  BY <1>1 DEF TypeOK
<1>5. Len(asked) = n /\ n \in Nat /\ n > 0 /\ asked # <<>> /\ m \in Nat
  BY <1>3, <1>4, EmptySeq DEF IInv, BudgetAndRouting
<1>6. FixerDeltas \subseteq Delta
  BY RepairAssumption
\* The three ways the attempt can go on.
<1>7. \/ /\ history' = history /\ pc' = "validate" /\ returned' = returned
         /\ feedback' = feedback
         /\ manifest' \in ProjectManifest /\ FileMap(manifest') # FileMap(manifest)
      \/ /\ LastAttemptIs("no_changes") /\ pc' = "fix" /\ returned' = returned
         /\ feedback' = TRUE /\ manifest' = manifest
      \/ /\ LastAttemptIs("call_failed") /\ pc' = "done"
         /\ returned' = [manifest |-> manifest, success |-> FALSE]
         /\ feedback' = feedback /\ manifest' = manifest
  <2>1. ASSUME NEW d \in FixerDeltas, FixerApplied(d)
        PROVE  /\ history' = history /\ pc' = "validate" /\ returned' = returned
               /\ feedback' = feedback
               /\ manifest' \in ProjectManifest /\ FileMap(manifest') # FileMap(manifest)
    <3>1. manifest' = ApplyDelta(manifest, d)
      BY <2>1 DEF FixerApplied, Patch
    <3>2. ApplyDelta(manifest, d) \in ProjectManifest
      BY <1>1, <1>6, ApplyDeltaType DEF TypeOK
    <3> QED
      BY <2>1, <3>1, <3>2 DEF FixerApplied, Patch, HasFileChanges
  <2>2. ASSUME NEW d \in FixerDeltas, FixerChangesNothing(d)
        PROVE  /\ LastAttemptIs("no_changes") /\ pc' = "fix" /\ returned' = returned
               /\ feedback' = TRUE /\ manifest' = manifest
    BY <2>2 DEF FixerChangesNothing, RetryAtOnce
  <2>3. ASSUME FixerCallFails
        PROVE  /\ LastAttemptIs("call_failed") /\ pc' = "done"
               /\ returned' = [manifest |-> manifest, success |-> FALSE]
               /\ feedback' = feedback /\ manifest' = manifest
    BY <2>3 DEF FixerCallFails, Return
  <2> QED
    BY <2>1, <2>2, <2>3
<1>q. /\ asked' \in Seq(Question) /\ Len(asked') = n /\ DOMAIN asked' = 1 .. n
      /\ DOMAIN asked = 1 .. n
      /\ \A i \in 1 .. n : /\ asked'[i].agent = asked[i].agent
                           /\ asked'[i].feedback = asked[i].feedback
  <2>1. asked' = asked \/ \E d \in FixerDeltas : LastAnswerIs(d)
    BY DEF FixerChangesNothing, FixerApplied, FixerCallFails
  <2>2. CASE asked' = asked
    BY <1>4, <1>5, <2>2
  <2>3. CASE \E d \in FixerDeltas : LastAnswerIs(d)
    BY <1>1, <1>4, <1>5, <1>6, <2>3, AnswerEffect
  <2> QED
    BY <2>1, <2>2, <2>3
<1>h. /\ history' \in Seq(Attempt) /\ Len(history') = n /\ DOMAIN history' = 1 .. n
      /\ DOMAIN history = 1 .. n
      /\ \A i \in 1 .. n : /\ history'[i].agent = history[i].agent
                           /\ i # n => history'[i] = history[i]
      /\ history'[n].outcome =
            CASE pc' = "validate" -> "pending"
              [] pc' = "fix" -> "no_changes"
              [] OTHER -> "call_failed"
  <2>1. history[n].outcome = "pending"
    BY <1>3 DEF LastTry
  <2>2. CASE history' = history /\ pc' = "validate"
    BY <1>4, <2>1, <2>2
  <2>3. ASSUME NEW outcome \in {"no_changes", "call_failed"}, LastAttemptIs(outcome),
               pc' = IF outcome = "no_changes" THEN "fix" ELSE "done"
        PROVE  <1>h!:
    <3>1. outcome \in Outcome
      BY DEF Outcome
    <3>2. /\ history' \in Seq(Attempt) /\ Len(history') = n
          /\ \A i \in 1 .. n : /\ history'[i].agent = history[i].agent
                               /\ i # n => history'[i] = history[i]
          /\ history'[n].outcome = outcome
      BY <1>1, <1>3, <2>3, <3>1, CloseEffect
    <3> QED
      BY <1>4, <2>3, <3>2
  <2> QED
    BY <1>7, <2>2, <2>3
<1>v. /\ DOMAIN validations = 1 .. m /\ validations' = validations
      /\ \A k \in 1 .. m : validations[k].after # n
  <2>1. history[n].outcome = "pending" /\ n \in DOMAIN history
    BY <1>3, <1>5, <1>h DEF LastTry
  <2>2. {k \in DOMAIN validations : validations[k].after = n} = {}
    BY <2>1 DEF IInv, VerdictsFallOnTheirFix
  <2> QED
    BY <1>2, <1>4, <2>2
<1>8. history' # <<>> /\ LastTry' = history'[n] /\ LastRun' = LastRun
  BY <1>2, <1>5, <1>h DEF LastTry, LastRun
<1>9. Len(history') = Len(history)
  BY <1>h
<1> HIDE DEF n, m
<1>10. TypeOK'
  <2>1. returned' \in Returned \cup {None}
    BY <1>1, <1>7, ReturnedType DEF TypeOK
  <2>2. /\ pc' \in {"validate", "fix", "done"} /\ manifest' \in ProjectManifest
        /\ feedback' \in BOOLEAN
    BY <1>1, <1>7 DEF TypeOK
  <2> QED
    BY <1>1, <1>2, <1>h, <1>q, <2>1, <2>2 DEF TypeOK
<1>11. Control'
  <2>1. returned' = None <=> pc' # "done"
    BY <1>1, <1>3, <1>7, ReturnedType DEF TypeOK
  <2>2. Failing' /\ LastRun'.after < Len(history')
    BY <1>2, <1>3, <1>8, <1>9 DEF Failing
  <2>3. CASE pc' = "validate"
    <3>1. FileMap(manifest') # FileMap(manifest)
      BY <1>7, <2>3
    <3> QED
      BY <1>3, <1>8, <1>h, <2>1, <2>2, <2>3, <3>1 DEF Control
  <2>4. CASE pc' = "fix"
    <3>1. feedback' = TRUE /\ manifest' = manifest
      BY <1>7, <2>4
    <3> QED
      BY <1>3, <1>8, <1>h, <2>1, <2>2, <2>4, <3>1 DEF Control
  <2>5. CASE pc' = "done"
    BY <2>1, <2>5 DEF Control
  <2> QED
    BY <1>7, <2>3, <2>4, <2>5
<1>12. Records'
  <2>1. ASSUME NEW i \in 1 .. n, history'[i].outcome = "pending" PROVE i = n
    BY <1>h, <2>1 DEF IInv, Records, n
  <2> QED
    BY <1>9, <1>h, <1>v, <2>1 DEF IInv, Records
<1>13. ReturnsWhatWasJudged'
  <2>1. LastRun.phase # "none"
    BY <1>3 DEF ErrorPhase
  <2>2. CASE pc' = "done"
    <3>1. returned' = [manifest |-> manifest, success |-> FALSE]
      BY <1>7, <2>2
    <3> QED
      BY <1>2, <1>3, <2>1, <3>1 DEF ReturnsWhatWasJudged, LastRun
  <2>3. CASE pc' # "done"
    BY <1>3, <1>7, <2>3 DEF ReturnsWhatWasJudged
  <2> QED
    BY <2>2, <2>3
<1>14. VerdictsFallOnTheirFix'
  <2> SUFFICES ASSUME NEW i \in 1 .. n
               PROVE  LET judged == {k \in 1 .. m : validations[k].after = i}
                      IN  /\ history'[i].outcome \in {"validation_passed", "validation_failed"}
                               <=> judged # {}
                          /\ \A k \in judged :
                                history'[i].fixed = (validations[k].phase = "none")
                          /\ \A k \in judged : (history'[i].outcome = "validation_passed")
                                                  = (validations[k].phase = "none")
    BY <1>h, <1>v DEF VerdictsFallOnTheirFix
  <2> DEFINE judged == {k \in 1 .. m : validations[k].after = i}
  <2>1. CASE i # n
    BY <1>h, <1>v, <2>1 DEF IInv, VerdictsFallOnTheirFix
  <2>2. CASE i = n
    <3>1. judged = {}
      BY <1>v, <2>2
    <3>2. history'[n].outcome \in {"pending", "no_changes", "call_failed"}
      BY <1>h
    <3> QED
      BY <2>2, <3>1, <3>2
  <2> QED
    BY <2>1, <2>2
<1>15. OneValidationPerFix'
  BY <1>v DEF IInv, OneValidationPerFix
<1>16. BudgetAndRouting'
  BY <1>9, <1>h, <1>q DEF IInv, BudgetAndRouting, n
<1>17. FeedbackOnlyAfterNoOp'
  <2>1. ASSUME NEW i \in 1 .. n, i > 1 PROVE history'[i - 1] = history[i - 1]
    BY <1>5, <1>h, <2>1
  <2> QED
    BY <1>q, <2>1 DEF IInv, FeedbackOnlyAfterNoOp
<1>18. ErrorPhasesAreTheFailures'
  BY <1>2 DEF IInv, ErrorPhasesAreTheFailures
<1> QED
  BY <1>10, <1>11, <1>12, <1>13, <1>14, <1>15, <1>16, <1>17, <1>18 DEF IInv

-----------------------------------------------------------------------------
(* The theorems.                                                           *)

\* IInv holds at the start of run() and survives every step of it.
LEMMA Inductive ==
    /\ Init => IInv
    /\ IInv /\ [Next]_vars => IInv'
<1>1. ASSUME Init PROVE IInv
  <2>1. TypeOK
    <3>1. /\ pc = "start" /\ manifest \in ProjectManifest /\ prev = None /\ returned = None
          /\ result \in Phase /\ feedback \in BOOLEAN
      BY <1>1, RepairAssumption DEF Init, Phase
    <3>2. history = <<>> /\ errorPhases = <<>> /\ validations = <<>> /\ asked = <<>>
      BY <1>1 DEF Init
    <3> QED
      BY <3>1, <3>2, EmptySeq DEF TypeOK
  <2>2. Control
    BY <1>1 DEF Init, Control, NothingYet
  <2>3. Len(history) = 0 /\ DOMAIN history = {} /\ DOMAIN validations = {}
        /\ Len(asked) = 0 /\ DOMAIN asked = {} /\ DOMAIN errorPhases = {} /\ returned = None
    BY <1>1 DEF Init
  <2> QED
    BY <2>1, <2>2, <2>3, RepairAssumption
       DEF IInv, Records, ReturnsWhatWasJudged, VerdictsFallOnTheirFix, OneValidationPerFix,
           BudgetAndRouting, FeedbackOnlyAfterNoOp, ErrorPhasesAreTheFailures
<1>2. ASSUME IInv, Next PROVE IInv'
  <2>1. ASSUME \/ DockerUnavailable \/ DockerCheckRaises \/ DockerReady
               \/ \E d \in ReviewerDeltas : PreReview(d)
               \/ PreReviewFails \/ ValidatorRaises \/ MaxIterationsReached
        PROVE  UNCHANGED loopVars
    BY <2>1 DEF DockerUnavailable, DockerCheckRaises, DockerReady, PreReview,
                PreReviewFails, ValidatorRaises, MaxIterationsReached
  <2> QED
    BY <1>2, <2>1, QuietSteps, ValidationSteps, CallSteps, AnswerSteps DEF Next
<1>3. ASSUME IInv, UNCHANGED vars PROVE IInv'
  BY <1>3 DEF vars, IInv, TypeOK, Control, NothingYet, Failing, LastRun, LastTry, Records,
              ReturnsWhatWasJudged, VerdictsFallOnTheirFix, OneValidationPerFix,
              BudgetAndRouting, FeedbackOnlyAfterNoOp, ErrorPhasesAreTheFailures
<1> QED
  BY <1>1, <1>2, <1>3

\* So it always holds.
LEMMA Invariance == Spec => []IInv
BY Inductive, PTL DEF Spec

\* Every variable of run() keeps its type.
THEOREM TypeCorrect == Spec => []TypeOK
BY Invariance, PTL DEF IInv

\* run() answers about the manifest it last validated, and answers success for
\* exactly the passed ones (feedback_controller.run, the return statements).
THEOREM AnswersAreJudged == Spec => []ReturnsWhatWasJudged
BY Invariance, PTL DEF IInv

\* Every verdict is credited to the fix it was a verdict on, however no-ops,
\* failed calls and validations follow each other.
THEOREM VerdictsAreAttributed == Spec => []VerdictsFallOnTheirFix
BY Invariance, PTL DEF IInv

\* Nothing is validated twice without a file having changed in between.
THEOREM FixesAreValidatedOnce == Spec => []OneValidationPerFix
BY Invariance, PTL DEF IInv

\* The fixer is called at most MaxIterations times, the cheap one first.
THEOREM BudgetIsKept == Spec => []BudgetAndRouting
BY Invariance, PTL DEF IInv

\* The no-op feedback reaches exactly the call that follows a no-op.
THEOREM FeedbackIsFresh == Spec => []FeedbackOnlyAfterNoOp
BY Invariance, PTL DEF IInv

\* error_phases is the record of the failed validations.
THEOREM ErrorPhasesAreKept == Spec => []ErrorPhasesAreTheFailures
BY Invariance, PTL DEF IInv

\* A decided attempt is never rewritten: only the pending one, which is always
\* the last, can be stamped.
THEOREM DecisionsStand == Spec => DecidedStaysDecided
<1> DEFINE Kept == /\ Len(history') >= Len(history)
                   /\ \A i \in DOMAIN history :
                         history[i].outcome # "pending" => history'[i] = history[i]
<1>1. ASSUME IInv, Next PROVE Kept
  <2>1. /\ TypeOK /\ Len(history) \in Nat /\ DOMAIN history = 1 .. Len(history)
        /\ history \in Seq(Attempt)
    BY <1>1 DEF IInv, TypeOK
  <2>2. CASE history' = history
    BY <2>1, <2>2
  <2>3. ASSUME NEW phase \in Phase, Judge(phase) PROVE Kept
    <3>1. history # <<>> => history[Len(history)].outcome = "pending"
      BY <1>1, <2>3 DEF IInv, Control, NothingYet, LastTry, Judge
    <3>2. /\ Len(history') = Len(history)
          /\ \A i \in 1 .. Len(history) : i # Len(history) => history'[i] = history[i]
      BY <2>1, <2>3, JudgeEffect
    <3> QED
      BY <2>1, <3>1, <3>2
  <2>4. ASSUME NEW mentioned \in Mentions, CallFixer(mentioned) PROVE Kept
    <3>1. result \in ErrorPhase
      BY <1>1, <2>4 DEF IInv, Control, Failing, CallFixer
    <3> QED
      BY <2>1, <2>4, <3>1, CallEffect
  <2>5. ASSUME pc = "calling", NEW outcome \in {"no_changes", "call_failed"},
               LastAttemptIs(outcome)
        PROVE  Kept
    <3>1. history # <<>> /\ history[Len(history)].outcome = "pending"
      BY <1>1, <2>5 DEF IInv, Control, LastTry
    <3>2. outcome \in Outcome
      BY DEF Outcome
    <3>3. \A i \in 1 .. Len(history) : i # Len(history) => history'[i] = history[i]
      BY <2>1, <2>5, <3>1, <3>2, CloseEffect
    <3>4. \A i \in 1 .. Len(history) :
             history[i].outcome # "pending" => history'[i] = history[i]
      BY <3>1, <3>3
    <3>5. Len(history') = Len(history)
      BY <2>1, <2>5, <3>1, <3>2, CloseEffect
    <3> QED
      BY <2>1, <3>4, <3>5
  <2>6. \/ history' = history
        \/ \E phase \in Phase : Judge(phase)
        \/ \E mentioned \in Mentions : CallFixer(mentioned)
        \/ /\ pc = "calling"
           /\ \E outcome \in {"no_changes", "call_failed"} : LastAttemptIs(outcome)
    BY <1>1 DEF Next, DockerUnavailable, DockerCheckRaises, DockerReady, PreReview,
                PreReviewFails, ValidatorRaises, MaxIterationsReached, loopVars,
                ValidationPasses, ValidationFails, ErrorLogRaises, Phase,
                FixerChangesNothing, FixerApplied, FixerCallFails
  <2> HIDE DEF Kept
  <2> QED
    BY <2>2, <2>3, <2>4, <2>5, <2>6
<1>2. IInv /\ [Next]_vars => [Kept]_vars
  BY <1>1
<1> QED
  BY <1>2, Invariance, PTL DEF Spec, DecidedStaysDecided

\* How many steps run() has still to take, at most: three for each attempt that
\* is left, and those to the end from where it stands.
StepsLeft ==
    IF Finished THEN 0
    ELSE 3 * (MaxIterations - Len(history)) +
           CASE pc = "start" -> 4 [] pc \in {"review", "calling"} -> 3
             [] pc = "validate" -> 2 [] OTHER -> 1

\* The loops cannot go on for ever: each step of run() brings it nearer to its
\* end, and there are 3 * MaxIterations + 4 at most.  It is what Terminates needs
\* besides the fairness that each call comes back.
THEOREM RunIsBounded ==
    /\ Init => StepsLeft = 3 * MaxIterations + 4
    /\ Spec => [][StepsLeft' \in Nat /\ StepsLeft' < StepsLeft]_vars
<1> DEFINE Nearer == StepsLeft' \in Nat /\ StepsLeft' < StepsLeft
<1>1. Init => StepsLeft = 3 * MaxIterations + 4
  BY RepairAssumption DEF Init, StepsLeft, Finished
<1>2. ASSUME IInv, Next PROVE Nearer
  <2>1. /\ MaxIterations \in Nat /\ Len(history) \in Nat
        /\ Len(history) <= MaxIterations
        /\ TypeOK
    BY <1>2, RepairAssumption DEF IInv, TypeOK, BudgetAndRouting
  <2>2. /\ pc \in {"start", "review", "validate", "fix", "calling", "done", "raised"}
        /\ pc' \in {"start", "review", "validate", "fix", "calling", "done", "raised"}
        /\ Len(history') \in Nat /\ Len(history') <= MaxIterations
    BY <1>2, Inductive DEF IInv, TypeOK, BudgetAndRouting
  <2>3. ASSUME pc' \in {"done", "raised"}, ~Finished PROVE Nearer
    BY <2>1, <2>2, <2>3 DEF StepsLeft, Finished
  <2>4. CASE DockerUnavailable \/ DockerCheckRaises \/ ValidatorRaises
             \/ MaxIterationsReached \/ FixerCallFails \/ ValidationPasses
    BY <2>3, <2>4 DEF DockerUnavailable, DockerCheckRaises, ValidatorRaises,
         MaxIterationsReached, FixerCallFails, ValidationPasses, Judge, Return, Finished
  <2>5. CASE DockerReady \/ PreReviewFails \/ \E d \in ReviewerDeltas : PreReview(d)
    BY <2>1, <2>5 DEF DockerReady, PreReviewFails, PreReview, loopVars, StepsLeft, Finished
  <2>6. ASSUME NEW phase \in ErrorPhase, ErrorLogRaises(phase) PROVE Nearer
    BY <2>3, <2>6 DEF ErrorLogRaises, Judge, Finished
  <2>7. ASSUME NEW phase \in ErrorPhase, ValidationFails(phase) PROVE Nearer
    <3>1. Len(history') = Len(history)
      BY <2>1, <2>7, JudgeEffect DEF ValidationFails, Phase
    <3> QED
      BY <2>1, <2>7, <3>1 DEF ValidationFails, Judge, StepsLeft, Finished
  <2>8. ASSUME NEW mentioned \in Mentions, CallFixer(mentioned) PROVE Nearer
    <3>1. result \in ErrorPhase
      BY <1>2, <2>8 DEF IInv, Control, Failing, CallFixer
    <3>2. Len(history') = Len(history) + 1
      BY <2>1, <2>8, <3>1, CallEffect
    <3> QED
      BY <2>1, <2>8, <3>2 DEF CallFixer, BudgetLeft, StepsLeft, Finished
  <2>9. ASSUME NEW d \in FixerDeltas, FixerChangesNothing(d) PROVE Nearer
    <3>1. history # <<>>
      BY <1>2, <2>9 DEF IInv, Control, FixerChangesNothing
    <3>2. Len(history') = Len(history)
      BY <2>1, <2>9, <3>1, CloseEffect DEF FixerChangesNothing, Outcome
    <3> QED
      BY <2>1, <2>9, <3>2 DEF FixerChangesNothing, RetryAtOnce, StepsLeft, Finished
  <2>10. ASSUME NEW d \in FixerDeltas, FixerApplied(d) PROVE Nearer
    BY <2>1, <2>10 DEF FixerApplied, Patch, StepsLeft, Finished
  <2> HIDE DEF Nearer
  <2> QED
    BY <1>2, <2>4, <2>5, <2>6, <2>7, <2>8, <2>9, <2>10 DEF Next
<1>3. IInv /\ [Next]_vars => [Nearer]_vars
  BY <1>2
<1> QED
  BY <1>1, <1>3, Invariance, PTL DEF Spec

-----------------------------------------------------------------------------
(* The controller implements the repair policy.                            *)

\* Where run() stands determines what the policy knows of the candidate.
LEMMA Verdicts ==
    ASSUME IInv
    PROVE  /\ NothingYet => verdictBar = "draft"
           /\ pc = "fix" => verdictBar = "failed"
           /\ pc = "calling" => verdictBar = "repairing"
           /\ pc = "validate" => verdictBar \in {"draft", "untested"}
           /\ pc # "done" => returned = None
<1>1. ASSUME Failing PROVE validations # <<>> /\ result # "none"
  BY <1>1 DEF Failing, ErrorPhase
<1>2. NothingYet => verdictBar = "draft"
  BY DEF NothingYet, verdictBar
<1>3. pc = "fix" => verdictBar = "failed"
  BY <1>1 DEF IInv, Control, verdictBar, AwaitingVerdict
<1>4. pc = "calling" => verdictBar = "repairing"
  BY <1>1 DEF IInv, Control, verdictBar
<1>5. pc = "validate" => verdictBar \in {"draft", "untested"}
  BY DEF verdictBar, AwaitingVerdict
<1>6. pc # "done" => returned = None
  BY DEF IInv, Control
<1> QED
  BY <1>2, <1>3, <1>4, <1>5, <1>6

\* Every step of run() is a step of the policy or none of its business.
LEMMA StepImplements ==
    ASSUME IInv, IInv', Next
    PROVE  [Policy!Next]_(Policy!vars)
<1> DEFINE n == Len(history)
<1>1. TypeOK /\ TypeOK' /\ n \in Nat /\ n <= MaxIterations /\ MaxIterations \in Nat
  BY RepairAssumption DEF IInv, TypeOK, BudgetAndRouting
<1>2. manifest \in ProjectManifest /\ manifest' \in ProjectManifest
  BY <1>1 DEF TypeOK
<1>3. CASE DockerUnavailable
  <2>1. verdictBar = "draft" /\ returned = None
    BY <1>3, Verdicts DEF DockerUnavailable, IInv, Control
  <2>2. verdictBar' = "draft"
    BY <1>3 DEF DockerUnavailable, loopVars, IInv, Control, NothingYet, verdictBar
  <2>3. Policy!Decline
    BY <1>3, <2>1, <2>2 DEF DockerUnavailable, Return, loopVars, Policy!Decline
  <2> QED
    BY <2>3 DEF Policy!Next
<1>4. CASE DockerCheckRaises \/ DockerReady \/ PreReviewFails
  <2>1. NothingYet /\ NothingYet'
    BY <1>4 DEF DockerCheckRaises, DockerReady, PreReviewFails, loopVars, IInv, Control,
                NothingYet
  <2>2. verdictBar' = verdictBar
    BY <2>1, Verdicts DEF NothingYet, verdictBar
  <2> QED
    BY <1>4, <2>2 DEF DockerCheckRaises, DockerReady, PreReviewFails, loopVars, Policy!vars
<1>5. ASSUME NEW d \in ReviewerDeltas, PreReview(d) PROVE Policy!Review
  <2>1. NothingYet /\ NothingYet' /\ returned = None
    BY <1>5 DEF PreReview, loopVars, IInv, Control, NothingYet
  <2>2. verdictBar = "draft" /\ verdictBar' = "draft"
    BY <2>1 DEF NothingYet, verdictBar
  <2> QED
    BY <1>2, <1>5, <2>1, <2>2 DEF PreReview, loopVars, Policy!Review
<1>6. ASSUME NEW phase \in Phase, Judge(phase)
      PROVE  /\ verdictBar \in {"draft", "untested"} /\ returned = None
             /\ validations' # <<>> /\ result' = phase /\ Len(history') = n
             /\ history' # <<>> => history'[Len(history')].outcome # "pending"
  <2>1. /\ Len(history') = n /\ Len(validations') = Len(validations) + 1
        /\ validations' \in Seq(Validation) /\ history' \in Seq(Attempt)
        /\ \A i \in 1 .. n : i = n =>
              history'[i].outcome = IF phase = "none" THEN "validation_passed"
                                    ELSE "validation_failed"
    BY <1>1, <1>6, JudgeEffect
  <2>2. Len(validations') # 0
    BY <1>1, <2>1 DEF TypeOK
  <2>3. history' # <<>> => n \in 1 .. n
    BY <1>1, <2>1, EmptySeq
  <2> QED
    BY <1>6, <2>1, <2>2, <2>3, Verdicts DEF Judge
<1>7. CASE ValidationPasses
  <2>1. verdictBar' = "passed"
    BY <1>6, <1>7 DEF ValidationPasses, Return, Phase, verdictBar, AwaitingVerdict
  <2>2. Policy!Accept
    BY <1>6, <1>7, <2>1 DEF ValidationPasses, Return, Phase, Policy!Accept
  <2> QED
    BY <2>2 DEF Policy!Next
<1>8. ASSUME NEW phase \in ErrorPhase, ValidationFails(phase) \/ ErrorLogRaises(phase)
      PROVE  Policy!Fail
  <2>1. /\ Judge(phase) /\ phase \in Phase /\ phase # "none"
        /\ pc' \in {"fix", "raised"} /\ UNCHANGED <<manifest, returned>>
    BY <1>8 DEF ValidationFails, ErrorLogRaises, Phase, ErrorPhase
  <2>2. verdictBar' = "failed"
    BY <1>6, <2>1 DEF verdictBar, AwaitingVerdict
  <2> QED
    BY <1>6, <2>1, <2>2 DEF Policy!Fail
<1>9. CASE ValidatorRaises
  <2>1. validations = <<>> \/ (history # <<>> /\ history[n].outcome = "pending")
    BY <1>9 DEF ValidatorRaises, IInv, Control, NothingYet, LastTry
  <2>2. verdictBar' = verdictBar
    BY <1>9, <2>1 DEF ValidatorRaises, loopVars, verdictBar, AwaitingVerdict
  <2> QED
    BY <1>9, <2>2 DEF ValidatorRaises, loopVars, Policy!vars
<1>10. ASSUME NEW mentioned \in Mentions, CallFixer(mentioned) PROVE Policy!Attempt
  <2>1. result \in ErrorPhase
    BY <1>10 DEF CallFixer, IInv, Control, Failing
  <2>2. Len(history') = n + 1
    BY <1>1, <1>10, <2>1, CallEffect
  <2>3. verdictBar = "failed" /\ returned = None
    BY <1>10, Verdicts DEF CallFixer
  <2>4. verdictBar' = "repairing"
    BY <1>10, <2>1 DEF CallFixer, IInv, Control, Failing, verdictBar
  <2> QED
    BY <1>10, <2>2, <2>3, <2>4 DEF CallFixer, BudgetLeft, Policy!Attempt
<1>11. ASSUME pc = "calling"
       PROVE  verdictBar = "repairing" /\ returned = None /\ validations # <<>>
              /\ result # "none" /\ history # <<>>
  BY <1>11, Verdicts DEF IInv, Control, Failing, ErrorPhase
<1>12. ASSUME NEW d \in FixerDeltas, FixerApplied(d) PROVE Policy!Repaired
  <2>1. FileMap(manifest') # FileMap(manifest)
    BY <1>12 DEF FixerApplied, Patch, HasFileChanges
  <2>2. verdictBar' = "untested"
    BY <1>11, <1>12 DEF FixerApplied, Patch, verdictBar, AwaitingVerdict
  <2> QED
    BY <1>2, <1>11, <1>12, <2>1, <2>2 DEF FixerApplied, Patch, Policy!Repaired
<1>13. ASSUME NEW outcome \in {"no_changes", "call_failed"}, LastAttemptIs(outcome),
              pc = "calling"
       PROVE  Len(history') = n
  <2>1. outcome \in Outcome
    BY DEF Outcome
  <2> QED
    BY <1>1, <1>11, <1>13, <2>1, CloseEffect
<1>14. ASSUME NEW d \in FixerDeltas, FixerChangesNothing(d) PROVE Policy!NotRepaired
  <2>1. verdictBar' = "failed"
    BY <1>11, <1>14 DEF FixerChangesNothing, RetryAtOnce, verdictBar, AwaitingVerdict
  <2> QED
    BY <1>11, <1>13, <1>14, <2>1 DEF FixerChangesNothing, RetryAtOnce, Policy!NotRepaired
<1>15. CASE FixerCallFails
  <2>1. verdictBar' = "failed"
    BY <1>11, <1>15 DEF FixerCallFails, Return, verdictBar, AwaitingVerdict
  <2>2. Policy!GiveUp
    BY <1>11, <1>13, <1>15, <2>1 DEF FixerCallFails, Return, Policy!GiveUp
  <2> QED
    BY <2>2 DEF Policy!Next
<1>16. CASE MaxIterationsReached
  <2>1. n = MaxIterations
    BY <1>1, <1>16 DEF MaxIterationsReached, BudgetLeft
  <2>2. verdictBar = "failed" /\ returned = None
    BY <1>16, Verdicts DEF MaxIterationsReached
  <2>3. verdictBar' = "failed"
    BY <1>16, <2>2 DEF MaxIterationsReached, Return, loopVars, verdictBar, AwaitingVerdict
  <2>4. Policy!GiveUp
    BY <1>16, <2>1, <2>2, <2>3 DEF MaxIterationsReached, Return, loopVars, Policy!GiveUp
  <2> QED
    BY <2>4 DEF Policy!Next
<1> QED
  BY <1>3, <1>4, <1>5, <1>7, <1>8, <1>9, <1>10, <1>12, <1>14, <1>15, <1>16
     DEF Next, Policy!Next

\* run(), whatever the budget, the deltas and the verdicts, behaves as the repair
\* policy says: test, repair on a budget, answer once about what was tested.
THEOREM RunImplementsPolicy == Spec => ImplementsPolicy
<1>1. Init => Policy!Init
  BY RepairAssumption DEF Init, Policy!Init, verdictBar
<1>2. IInv /\ IInv' /\ [Next]_vars => [Policy!Next]_(Policy!vars)
  <2>1. ASSUME UNCHANGED vars PROVE UNCHANGED Policy!vars
    BY <2>1 DEF vars, Policy!vars, verdictBar, AwaitingVerdict
  <2> QED
    BY <2>1, StepImplements
<1> QED
  BY <1>1, <1>2, Invariance, PTL DEF Spec, ImplementsPolicy, Policy!Spec

-----------------------------------------------------------------------------
(* Whole projects: what a fixer did not name survives, and the pom of an    *)
(* incremental build is that of the build before.                          *)

\* What an answer changed between two manifests is what it names.
Follows(d, before, after) ==
    /\ d # None
    /\ \A p \in Path \ (Written(d) \cup d.deleted) : FileMap(after)[p] = FileMap(before)[p]

\* A manifest that waits for its validation was patched by the last answer; while
\* an answer is awaited no validation rests on it.
Answers ==
    /\ UnnamedFilesSurvive
    /\ pc = "validate" /\ validations # <<>> =>
          Follows(asked[Len(asked)].answer, LastRun.manifest, manifest)
    /\ pc = "calling" => \A k \in DOMAIN validations : validations[k].after < Len(asked)

\* apply_delta touches the files its delta names and no other.
LEMMA ApplyDeltaKeeps ==
    ASSUME NEW m \in ProjectManifest, NEW d \in Delta,
           NEW p \in Path \ (Written(d) \cup d.deleted)
    PROVE  FileMap(ApplyDelta(m, d))[p] = FileMap(m)[p]
BY DEF FileMap, ApplyDelta, Paths

\* A validation that is not the first has an answer on record.
LEMMA AfterIsAsked ==
    ASSUME IInv, NEW k \in DOMAIN validations
    PROVE  /\ validations[k].after \in 0 .. Len(asked)
           /\ k > 1 => validations[k].after \in DOMAIN asked /\ k - 1 \in DOMAIN validations
<1>1. /\ validations \in Seq(Validation) /\ asked \in Seq(Question)
      /\ Len(asked) = Len(history) /\ validations[k].after <= Len(history)
      /\ k > 1 => validations[k - 1].after < validations[k].after
  BY DEF IInv, TypeOK, BudgetAndRouting, Records, OneValidationPerFix
<1>2. k \in 1 .. Len(validations) /\ DOMAIN asked = 1 .. Len(asked) /\ Len(asked) \in Nat
  BY <1>1
<1>3. validations[k] \in Validation /\ (k > 1 => validations[k - 1] \in Validation)
  BY <1>1, <1>2, ElementOfSeq
<1>4. validations[k].after \in Nat /\ (k > 1 => validations[k - 1].after \in Nat)
  BY <1>3 DEF Validation
<1> QED
  BY <1>1, <1>2, <1>4

\* Answers is kept.
LEMMA AnswersStep ==
    ASSUME IInv, Answers, [Next]_vars
    PROVE  Answers'
<1> DEFINE n == Len(validations)
           a == Len(asked)
<1>0. /\ TypeOK /\ Control /\ Len(history) = a /\ a \in Nat /\ n \in Nat
      /\ validations \in Seq(Validation) /\ asked \in Seq(Question)
      /\ DOMAIN validations = 1 .. n /\ DOMAIN asked = 1 .. a
      /\ n = 0 <=> validations = <<>>
  BY DEF IInv, TypeOK, BudgetAndRouting
<1>1. \A k \in 1 .. n : /\ validations[k].after \in 0 .. a
                        /\ k > 1 => validations[k].after \in 1 .. a /\ k - 1 \in 1 .. n
  BY <1>0, AfterIsAsked
<1>2. \A k \in 1 .. n : k > 1 =>
        Follows(asked[validations[k].after].answer,
                validations[k - 1].manifest, validations[k].manifest)
  BY <1>0 DEF Answers, UnnamedFilesSurvive, Follows
<1>3. ASSUME UNCHANGED <<asked, validations>>,
             pc' = "validate" => validations = <<>> \/ UNCHANGED <<pc, manifest>>,
             pc' = "calling" => pc = "calling"
      PROVE  Answers'
  BY <1>3 DEF Answers, UnnamedFilesSurvive, LastRun, Follows
<1>4. CASE UNCHANGED vars
  BY <1>3, <1>4 DEF vars
<1>5. CASE \/ DockerUnavailable \/ DockerCheckRaises \/ DockerReady
           \/ \E d \in ReviewerDeltas : PreReview(d)
           \/ PreReviewFails \/ ValidatorRaises \/ FixerCallFails \/ MaxIterationsReached
  <2>1. /\ UNCHANGED <<asked, validations>> /\ pc' # "calling"
        /\ pc' = "validate" => pc \in {"start", "review"}
    BY <1>5 DEF DockerUnavailable, DockerCheckRaises, DockerReady, PreReview, PreReviewFails,
                ValidatorRaises, FixerCallFails, MaxIterationsReached, Return, loopVars
  <2>2. pc \in {"start", "review"} => validations = <<>>
    BY <1>0 DEF Control, NothingYet
  <2> QED
    BY <1>3, <2>1, <2>2
<1>6. ASSUME NEW phase \in Phase, Judge(phase), asked' = asked,
             pc' \notin {"validate", "calling"}
      PROVE  Answers'
  <2>1. /\ validations' \in Seq(Validation) /\ Len(validations') = n + 1
        /\ \A k \in 1 .. n : validations'[k] = validations[k]
        /\ validations'[n + 1].manifest = manifest /\ validations'[n + 1].after = a
    BY <1>0, <1>6, JudgeEffect
  <2>2. n > 0 => Follows(asked[a].answer, validations[n].manifest, manifest)
    BY <1>0, <1>6 DEF Answers, Judge, LastRun
  <2>3. ASSUME NEW k \in 1 .. n + 1, k > 1
        PROVE  Follows(asked'[validations'[k].after].answer,
                       validations'[k - 1].manifest, validations'[k].manifest)
    <3>1. CASE k \in 1 .. n
      BY <1>0, <1>1, <1>2, <1>6, <2>1, <2>3, <3>1
    <3>2. CASE k = n + 1
      <4>1. k - 1 = n /\ n \in 1 .. n /\ n > 0
        BY <1>0, <2>3, <3>2
      <4> QED
        BY <1>6, <2>1, <2>2, <3>2, <4>1
    <3> QED
      BY <1>0, <2>3, <3>1, <3>2
  <2>4. DOMAIN validations' = 1 .. n + 1
    BY <2>1
  <2>5. UnnamedFilesSurvive'
    BY <2>3, <2>4 DEF UnnamedFilesSurvive, Follows
  <2> QED
    BY <1>6, <2>5 DEF Answers
<1>7. CASE \/ ValidationPasses
           \/ \E phase \in ErrorPhase : ValidationFails(phase) \/ ErrorLogRaises(phase)
  <2>1. PICK phase \in Phase : Judge(phase)
    BY <1>7 DEF ValidationPasses, ValidationFails, ErrorLogRaises, Phase
  <2>2. asked' = asked /\ pc' \notin {"validate", "calling"}
    BY <1>7 DEF ValidationPasses, ValidationFails, ErrorLogRaises, Return
  <2> QED
    BY <1>6, <2>1, <2>2
<1>8. CASE \E mentioned \in Mentions : CallFixer(mentioned)
  <2>1. PICK mentioned \in Mentions : CallFixer(mentioned)
    BY <1>8
  <2>2. result \in ErrorPhase
    BY <1>0, <2>1 DEF Control, Failing, CallFixer
  <2>3. /\ Len(asked') = a + 1 /\ \A j \in 1 .. a : asked'[j] = asked[j]
        /\ validations' = validations /\ pc' = "calling"
    BY <1>0, <2>1, <2>2, CallEffect DEF CallFixer
  <2>4. UnnamedFilesSurvive'
    <3>1. ASSUME NEW k \in 1 .. n, k > 1
          PROVE  Follows(asked'[validations'[k].after].answer,
                         validations'[k - 1].manifest, validations'[k].manifest)
      <4>1. validations[k].after \in 1 .. a
        BY <1>0, <1>1, <3>1
      <4>2. asked'[validations[k].after] = asked[validations[k].after]
        BY <2>3, <4>1
      <4> QED
        BY <1>2, <2>3, <3>1, <4>2
    <3> QED
      BY <1>0, <2>3, <3>1 DEF UnnamedFilesSurvive, Follows
  <2>5. \A k \in DOMAIN validations' : validations'[k].after < Len(asked')
    BY <1>0, <1>1, <2>3
  <2> QED
    BY <2>3, <2>4, <2>5 DEF Answers
<1>9. CASE \E d \in FixerDeltas : FixerChangesNothing(d) \/ FixerApplied(d)
  <2>1. PICK d \in FixerDeltas : FixerChangesNothing(d) \/ FixerApplied(d)
    BY <1>9
  <2>2. /\ d \in Delta /\ d # None
        /\ pc = "calling" /\ validations' = validations /\ LastAnswerIs(d)
        /\ pc' = "fix" \/ (pc' = "validate" /\ manifest' = ApplyDelta(manifest, d))
    BY <2>1, RepairAssumption DEF FixerChangesNothing, FixerApplied, RetryAtOnce, Patch
  <2>3. /\ manifest \in ProjectManifest /\ manifest = LastRun.manifest /\ a > 0
        /\ \A k \in 1 .. n : validations[k].after < a
    BY <1>0, <2>2 DEF Control, Answers, TypeOK
  <2>4. /\ Len(asked') = a /\ asked'[a].answer = d
        /\ \A j \in 1 .. a : j # a => asked'[j] = asked[j]
    <3>1. a \in 1 .. a /\ asked[a] \in Question
      BY <1>0, <2>3, ElementOfSeq
    <3> DEFINE last == [asked[a] EXCEPT !.answer = d]
    <3>2. last \in Question /\ last.answer = d
      BY <2>2, <3>1 DEF Question
    <3>3. asked' = [asked EXCEPT ![a] = last]
      BY <2>2 DEF LastAnswerIs
    <3> HIDE DEF last
    <3> QED
      BY <1>0, <3>1, <3>2, <3>3, ExceptSeq
  <2>5. UnnamedFilesSurvive'
    <3>1. ASSUME NEW k \in 1 .. n, k > 1
          PROVE  Follows(asked'[validations'[k].after].answer,
                         validations'[k - 1].manifest, validations'[k].manifest)
      <4>1. validations[k].after \in 1 .. a /\ validations[k].after # a
        BY <1>0, <1>1, <2>3, <3>1
      <4>2. asked'[validations[k].after] = asked[validations[k].after]
        BY <2>2, <2>3, <2>4, <4>1
      <4> QED
        BY <1>2, <2>2, <3>1, <4>2
    <3> QED
      BY <1>0, <2>2, <3>1 DEF UnnamedFilesSurvive, Follows
  <2>6. pc' = "validate" => Follows(d, manifest, manifest')
    BY <2>2, <2>3, ApplyDeltaKeeps DEF Follows
  <2>7. pc' = "validate" => Follows(asked'[Len(asked')].answer,
                                    validations'[Len(validations')].manifest, manifest')
    BY <2>2, <2>3, <2>4, <2>6 DEF LastRun
  <2> QED
    BY <2>2, <2>5, <2>7 DEF Answers, LastRun, Follows
<1> QED
  BY <1>4, <1>5, <1>7, <1>8, <1>9 DEF Next

\* A fixer that saw a selection of the files patches the whole project: what its
\* answer does not name is the same in the next validation.
THEOREM UnnamedSurvive == Spec => []UnnamedFilesSurvive
<1>1. Init => Answers
  BY DEF Init, Answers, UnnamedFilesSurvive
<1>2. IInv /\ Answers /\ [Next]_vars => Answers'
  BY AnswersStep
<1>3. Answers => UnnamedFilesSurvive
  BY DEF Answers
<1> QED
  BY <1>1, <1>2, <1>3, Invariance, PTL DEF Spec

\* A project has no pom.xml but the root one, and none of its versions is empty.
PomIsRoot ==
    /\ PomPath = {RootPom}
    /\ \A m \in InitialManifests :
          RootPom \in Paths(m) => m.files[RootPom].content # Empty
    /\ \A d \in ReviewerDeltas \cup FixerDeltas : \A j \in DOMAIN d.changed :
          d.changed[j].path = RootPom => d.changed[j].content # Empty

HasText(m) == RootPom \in Paths(m) => m.files[RootPom].content # Empty

\* prev_manifest is what the last validation judged.
Previous ==
    /\ IncrementalOnlyIfPomUnchanged
    /\ HasText(manifest) /\ (prev # None => HasText(prev))
    /\ pc \in {"start", "review"} => prev = None
    /\ pc \in {"validate", "fix", "calling"} =>
          (prev # None => validations # <<>> /\ prev = LastRun.manifest)

\* _pom_changed tells two versions of the one pom apart.
LEMMA SamePom ==
    ASSUME PomPath = {RootPom}, NEW m \in ProjectManifest, NEW q \in ProjectManifest,
           HasText(m), HasText(q), ~PomChanged(m, q)
    PROVE  FileMap(m)[RootPom] = FileMap(q)[RootPom]
<1>1. RootPom \in Path
  BY ManifestAssumption
<1>2. ASSUME NEW r \in ProjectManifest
      PROVE  GetPom(r) = IF RootPom \in Paths(r) THEN r.files[RootPom].content ELSE Empty
  <2>1. CASE RootPom \in Paths(r)
    <3>1. PomPath \cap Paths(r) = {RootPom}
      BY <2>1
    <3>2. r.files[RootPom].pos \in Nat
      BY <1>1, <2>1 DEF Paths, ProjectManifest, File
    <3> DEFINE poms == PomPath \cap Paths(r)
               first == CHOOSE p \in poms : \A o \in poms : r.files[p].pos <= r.files[o].pos
    <3>3. GetPom(r) = r.files[first].content
      BY <3>1 DEF GetPom
    <3>4. \E p \in poms : \A o \in poms : r.files[p].pos <= r.files[o].pos
      BY <3>1, <3>2
    <3>5. first \in poms
      BY <3>4
    <3> QED
      BY <2>1, <3>1, <3>3, <3>5
  <2>2. CASE RootPom \notin Paths(r)
    BY <2>2 DEF GetPom
  <2> QED
    BY <2>1, <2>2
<1> QED
  BY <1>1, <1>2 DEF PomChanged, HasText, FileMap

\* A delta that writes no empty pom leaves none.
LEMMA ApplyDeltaHasText ==
    ASSUME NEW m \in ProjectManifest, HasText(m), NEW d \in Delta,
           \A j \in DOMAIN d.changed :
             d.changed[j].path = RootPom => d.changed[j].content # Empty
    PROVE  HasText(ApplyDelta(m, d))
<1>1. RootPom \in Path
  BY ManifestAssumption
<1>2. CASE RootPom \in Written(d)
  <2>1. d.changed[EntryOf(d, RootPom)].content # Empty
    BY <1>2, EntryOfWritten
  <2>2. ApplyDelta(m, d).files[RootPom].content = d.changed[EntryOf(d, RootPom)].content
    BY <1>1, <1>2 DEF ApplyDelta
  <2> QED
    BY <2>1, <2>2 DEF HasText
<1>3. CASE RootPom \notin Written(d)
  BY <1>1, <1>3 DEF ApplyDelta, HasText, Paths
<1> QED
  BY <1>2, <1>3

\* Previous is kept.
LEMMA PreviousStep ==
    ASSUME PomIsRoot, IInv, Previous, [Next]_vars
    PROVE  Previous'
<1>0. /\ TypeOK /\ Control /\ manifest \in ProjectManifest
      /\ prev \in ProjectManifest \cup {None} /\ None \notin ProjectManifest
      /\ validations \in Seq(Validation)
  BY RepairAssumption DEF IInv, TypeOK
<1>1. \A d \in ReviewerDeltas \cup FixerDeltas : HasText(ApplyDelta(manifest, d))
  BY <1>0, ApplyDeltaHasText, RepairAssumption DEF PomIsRoot, Previous
<1>2. ASSUME UNCHANGED <<prev, validations>>, HasText(manifest)',
             pc' \in {"start", "review"} => pc \in {"start", "review"},
             pc \notin {"done", "raised"} \/ UNCHANGED pc
      PROVE  Previous'
  <2>1. IncrementalOnlyIfPomUnchanged'
    BY <1>2 DEF Previous, IncrementalOnlyIfPomUnchanged
  <2>2. pc \in {"start", "review", "validate", "fix", "calling", "done", "raised"}
    BY <1>0 DEF TypeOK
  <2>3. (pc \in {"start", "review", "validate", "fix", "calling"} /\ prev # None) =>
          validations # <<>> /\ prev = LastRun.manifest
    BY <1>0 DEF Previous
  <2>4. LastRun' = LastRun
    BY <1>2 DEF LastRun
  <2>5. prev # None => HasText(prev)'
    BY <1>2 DEF Previous, HasText
  <2> QED
    BY <1>2, <2>1, <2>2, <2>3, <2>4, <2>5 DEF Previous
<1>3. UNCHANGED manifest => HasText(manifest)'
  BY DEF Previous, HasText
<1>4. CASE UNCHANGED vars
  BY <1>2, <1>3, <1>4 DEF vars
<1>5. CASE \/ DockerUnavailable \/ DockerCheckRaises \/ DockerReady \/ PreReviewFails
           \/ ValidatorRaises \/ FixerCallFails \/ MaxIterationsReached
  BY <1>2, <1>3, <1>5
     DEF DockerUnavailable, DockerCheckRaises, DockerReady, PreReviewFails,
         ValidatorRaises, FixerCallFails, MaxIterationsReached, Return, loopVars
<1>6. CASE \E d \in ReviewerDeltas : PreReview(d)
  <2>1. HasText(manifest)'
    BY <1>1, <1>6 DEF PreReview, HasText
  <2> QED
    BY <1>2, <1>6, <2>1 DEF PreReview, loopVars
<1>7. CASE \E mentioned \in Mentions : CallFixer(mentioned)
  BY <1>2, <1>3, <1>7 DEF CallFixer
<1>8. CASE \E d \in FixerDeltas : FixerChangesNothing(d) \/ FixerApplied(d)
  <2>1. PICK d \in FixerDeltas : FixerChangesNothing(d) \/ FixerApplied(d)
    BY <1>8
  <2>2. HasText(manifest)'
    BY <1>1, <1>3, <2>1 DEF FixerChangesNothing, FixerApplied, Patch, HasText
  <2> QED
    BY <1>2, <2>1, <2>2 DEF FixerChangesNothing, FixerApplied, Patch, RetryAtOnce
<1>9. CASE \/ ValidationPasses
           \/ \E phase \in ErrorPhase : ValidationFails(phase) \/ ErrorLogRaises(phase)
  <2> DEFINE n == Len(validations)
  <2>1. PICK phase \in Phase : Judge(phase)
    BY <1>9 DEF ValidationPasses, ValidationFails, ErrorLogRaises, Phase
  <2>2. /\ Len(validations') = n + 1 /\ validations' \in Seq(Validation)
        /\ \A k \in 1 .. n : validations'[k] = validations[k]
        /\ validations'[n + 1].manifest = manifest
    BY <1>0, <2>1, JudgeEffect
  <2>3. validations'[n + 1].clean = UseClean
    BY <1>0, <2>1 DEF Judge
  <2>4. /\ pc = "validate" /\ UNCHANGED manifest /\ pc' \in {"done", "fix", "raised"}
        /\ prev' = manifest \/ (UNCHANGED prev /\ pc' \in {"done", "raised"})
    BY <1>9 DEF ValidationPasses, ValidationFails, ErrorLogRaises, Return, NextError, Judge
  <2>5. n \in Nat /\ DOMAIN validations = 1 .. n /\ DOMAIN validations' = 1 .. n + 1
    BY <1>0, <2>2
  <2>6. ~UseClean => /\ n > 0
                     /\ FileMap(manifest)[RootPom] = FileMap(validations[n].manifest)[RootPom]
    <3> SUFFICES ASSUME ~UseClean
                 PROVE  /\ n > 0
                        /\ FileMap(manifest)[RootPom]
                             = FileMap(validations[n].manifest)[RootPom]
      OBVIOUS
    <3>1. prev # None /\ ~PomChanged(prev, manifest)
      BY DEF UseClean
    <3>2. validations # <<>> /\ prev = validations[n].manifest /\ HasText(prev)
          /\ HasText(manifest)
      BY <2>4, <3>1 DEF Previous, LastRun
    <3>3. FileMap(prev)[RootPom] = FileMap(manifest)[RootPom]
      BY <1>0, <3>1, <3>2, SamePom DEF PomIsRoot
    <3> QED
      BY <1>0, <3>2, <3>3
  <2>7. ASSUME NEW k \in 1 .. n + 1, ~validations'[k].clean
        PROVE  k > 1 /\ FileMap(validations'[k].manifest)[RootPom]
                          = FileMap(validations'[k - 1].manifest)[RootPom]
    <3>1. CASE k \in 1 .. n
      <4>1. k > 1 /\ FileMap(validations[k].manifest)[RootPom]
                       = FileMap(validations[k - 1].manifest)[RootPom]
        BY <2>2, <2>5, <2>7, <3>1 DEF Previous, IncrementalOnlyIfPomUnchanged
      <4>2. k - 1 \in 1 .. n
        BY <2>5, <3>1, <4>1
      <4> QED
        BY <2>2, <3>1, <4>1, <4>2
    <3>2. CASE k = n + 1
      BY <2>2, <2>3, <2>5, <2>6, <2>7, <3>2
    <3> QED
      BY <2>5, <3>1, <3>2
  <2>8. IncrementalOnlyIfPomUnchanged'
    BY <2>5, <2>7 DEF IncrementalOnlyIfPomUnchanged
  <2>9. HasText(manifest)' /\ (prev' # None => HasText(prev)')
    BY <2>4 DEF Previous, HasText
  <2>10. pc' = "fix" => validations' # <<>> /\ prev' = validations'[Len(validations')].manifest
    BY <2>2, <2>4, <2>5
  <2> QED
    BY <2>4, <2>8, <2>9, <2>10 DEF Previous, LastRun
<1> QED
  BY <1>4, <1>5, <1>6, <1>7, <1>8, <1>9 DEF Next

\* In a project whose one pom.xml is the root one, a build without clean has the pom
\* of the build before it (use_clean).
THEOREM IncrementalBuildsKeepPom ==
    ASSUME PomIsRoot
    PROVE  Spec => []IncrementalOnlyIfPomUnchanged
<1>1. Init => Previous
  BY DEF PomIsRoot, Init, Previous, IncrementalOnlyIfPomUnchanged, HasText
<1>2. IInv /\ Previous /\ [Next]_vars => Previous'
  BY PreviousStep
<1>3. Previous => IncrementalOnlyIfPomUnchanged
  BY DEF Previous
<1> QED
  BY <1>1, <1>2, <1>3, Invariance, PTL DEF Spec
=============================================================================

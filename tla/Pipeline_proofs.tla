--------------------------- MODULE Pipeline_proofs ---------------------------
(***************************************************************************)
(* Proofs about Pipeline, for any phases, feedback and numbers of          *)
(* corrections and attempts.  Progress says how far the files have come at *)
(* each step; together with Outcome it is what ResultIsHonest rests on.    *)
(* Review says which spec there is at each step of the review, which is    *)
(* what IntentIsComplete rests on.                                         *)
(***************************************************************************)
EXTENDS Pipeline, TLAPS

-----------------------------------------------------------------------------
\* A nonempty sequence of phases ends in one of them.
LEMMA LastPhase ==
  ASSUME NEW r \in Records, r.phases # <<>>
  PROVE  r.phases[Len(r.phases)] \in Phase
<1>1. PICK n \in 0..(MaxAttempts + 1) : r.phases \in [1..n -> Phase]
  BY DEF Records
<1>2. r.phases \in Seq(Phase) /\ Len(r.phases) \in Nat
  BY <1>1, PipelineAssumption
<1>3. Len(r.phases) # 0
  BY <1>2
<1>4. Len(r.phases) \in 1..Len(r.phases)
  BY <1>2, <1>3
<1> QED
  BY <1>2, <1>4

-----------------------------------------------------------------------------
(* The inductive invariant                                                 *)

\* run_problem's copies are the controller's own records, and the context has
\* what the user said.
Copies == records = repair.records /\ intent = said

\* What is settled when run_problem comes to each step.
Progress ==
    /\ pc \in {"set_up", "parse", "explain", "prompt", "update"} => manifest = Nothing
    /\ pc = "set_up" => caller = "none"
    /\ pc = "generate" => manifest < Stages
    /\ pc \in {"set_up", "parse", "explain", "prompt", "update", "generate",
               "repair", "save", "write", "serve"} => disk.artifacts = "none"
    /\ pc \in {"set_up", "parse", "explain", "prompt", "update", "generate", "repair"} =>
         success
    /\ pc = "repair" => manifest = Stages /\ asked.docker
    /\ pc \in {"save", "write", "serve", "zip", "return"} =>
         /\ IF asked.docker THEN manifest = Repaired /\ repair.success = success
                            ELSE manifest = Stages /\ success
         /\ ~success /\ records.phases = <<>> => records = NoRecords
    /\ pc \in {"write", "serve", "zip", "return"} => disk.json = manifest
    /\ pc \in {"serve", "zip", "return"} => disk.project = manifest
    /\ pc = "return" => disk.zip = <<manifest, disk.artifacts>>

\* Each correction has had its update before the user is shown a spec again,
\* and the spec that is accepted is the one shown.
Review ==
    /\ pc \in {"set_up", "parse"} => said = <<>>
    /\ pc \in {"explain", "prompt"} => reviewed = Len(said) + 1
    /\ pc \in {"prompt", "update"} => shown = reviewed
    /\ pc = "update" => reviewed = Len(said)
    /\ pc \in {"generate", "repair"} =>
         spec = Len(said) + 1 /\ (asked.review => spec = shown)
    /\ IntentIsComplete

\* A result is made once, just before the caller is closed, and artifacts are
\* those of a project that passed.
Outcome ==
    /\ pc \notin {"close", "over"} => result = NoResult
    /\ ResultIsHonest

IInv == TypeOK /\ Copies /\ Progress /\ Review /\ Outcome /\ RecordsSurvive

-----------------------------------------------------------------------------
\* A run starts in the invariant.
LEMMA InitIInv == Init => IInv
<1> SUFFICES ASSUME Init PROVE IInv
  OBVIOUS
<1>1. NoRecords \in Records
  <2>1. <<>> \in [1..0 -> Phase]
    OBVIOUS
  <2>2. 0 \in 0..(MaxAttempts + 1) /\ 0 \in 0..MaxAttempts
    BY PipelineAssumption
  <2> QED
    BY <2>1, <2>2 DEF NoRecords, Records
<1>2. TypeOK
  <2>1. To("none", 0, <<>>) \in Message
    BY DEF To, Message
  <2> QED
    BY <1>1, <2>1 DEF Init, TypeOK, Manifest, Nothing, Repaired, Stages, NoResult
<1>3. Copies /\ Progress /\ Outcome /\ RecordsSurvive
  BY DEF Init, Copies, Progress, Outcome, ResultIsHonest, RecordsSurvive, NoResult,
         NoRecords, Nothing, Stages
<1>4. Review
  BY DEF Init, Review, IntentIsComplete, To, Makers
<1> QED
  BY <1>2, <1>3, <1>4 DEF IInv

\* What an agent is sent has the parts it should have.
LEMMA ToIsMessage ==
  ASSUME TypeOK,
         NEW a \in Makers \cup {"none", "parser", "user_validator_explain",
                                "user_validator_update"},
         NEW n \in Nat, NEW c \in Seq(Feedback)
  PROVE  To(a, n, c) \in Message
  BY DEF To, Message

\* A generation stage is one of the agents that make the project.
LEMMA StageIsMaker ==
  ASSUME TypeOK, Progress, pc = "generate"
  PROVE  Agent[manifest + 1] \in Makers
<1>1. manifest \in 0..3
  BY DEF Progress, TypeOK, Manifest, Nothing, Stages
<1> QED
  BY <1>1 DEF Agent, Makers

\* So is whatever the controller calls.
LEMMA RepairerIsMaker ==
  ASSUME NEW n
  PROVE  Repairer(n) \in Makers
  BY DEF Repairer, Makers

\* The message that is due has its parts.
LEMMA DueIsMessage ==
  ASSUME TypeOK, Progress
  PROVE  Due \in Message
<1>1. <<>> \in Seq(Feedback)
  OBVIOUS
<1>2. CASE pc = "parse"
  BY <1>1, <1>2, ToIsMessage DEF Due
<1>3. CASE pc = "explain"
  BY <1>3, ToIsMessage DEF Due, TypeOK
<1>4. CASE pc = "generate"
  BY <1>4, ToIsMessage, StageIsMaker DEF Due, TypeOK
<1>5. CASE pc \notin {"parse", "explain", "generate"}
  BY <1>5 DEF Due, TypeOK
<1> QED
  BY <1>2, <1>3, <1>4, <1>5

\* No step leaves the types.
LEMMA TypeStep ==
  ASSUME TypeOK, Progress, [Next]_vars
  PROVE  TypeOK'
<1> USE DEF TypeOK, Go
<1>0. asked' = asked
  BY DEF Next, vars
<1>1. CASE SetUp
  BY <1>0, <1>1 DEF SetUp, review, product
<1>2. CASE Parse \/ Explain \/ Accept \/ Update
  BY <1>0, <1>2, DueIsMessage DEF Parse, Explain, Accept, Update, review, product, outcome
<1>3. ASSUME NEW f \in Feedback, Correct(f) PROVE TypeOK'
  <2>1. Clarified(f) \in Seq(Feedback)
    BY DEF Clarified
  <2>2. Request(f) = [to |-> "user_validator_update", spec |-> reviewed,
                      corrections |-> Clarified(f), feedback |-> f]
    BY DEF Request, To
  <2>3. Request(f) \in Message
    BY <2>1, <2>2 DEF Message
  <2> QED
    BY <1>0, <1>3, <2>1, <2>3 DEF Correct, product, outcome
<1>4. CASE Generate
  <2>1. manifest' \in Manifest /\ manifest' \in 0..4 /\ (pc' # "generate" => manifest' = 4)
    BY <1>4 DEF Generate, Complete, Progress, Manifest, Nothing, Repaired, Stages
  <2> QED
    BY <1>0, <1>4, <2>1, DueIsMessage DEF Generate, review, outcome, Stages
<1>5. ASSUME NEW r \in Records, NEW passed \in BOOLEAN, RepairReturns(r, passed)
      PROVE  TypeOK'
  <2>1. Repaired \in Manifest
    BY DEF Manifest, Nothing, Repaired, Stages
  <2>2. ToRepairer(r.attempts) \in Message
    BY RepairerIsMaker, ToIsMessage DEF ToRepairer
  <2> QED
    BY <1>0, <1>5, <2>1, <2>2 DEF RepairReturns, Copied, review, outcome
<1>6. ASSUME NEW r \in Records, RepairRaises(r) PROVE TypeOK'
  <2>1. \A n : ToRepairer(n) \in Message
    BY RepairerIsMaker, ToIsMessage DEF ToRepairer
  <2> QED
    BY <1>0, <1>6, <2>1 DEF RepairRaises, Copied, review, outcome
<1>7. CASE Save \/ Write \/ Serve \/ Zip
  BY <1>0, <1>7 DEF Save, Write, Serve, Served, Zip, review, product, outcome
<1>8. CASE Return
  <2>1. FinalPhase \in Phase \cup {"none"}
    BY LastPhase DEF FinalPhase
  <2> QED
    BY <1>0, <1>8, <2>1 DEF Return, review, product
<1>9. CASE Raise
  BY <1>0, <1>9, DueIsMessage DEF Raise, review, product, outcome
<1>10. CASE Crash
  BY <1>0, <1>10 DEF Crash, review, product
<1>11. CASE Close
  BY <1>0, <1>11 DEF Close, review, product
<1>12. CASE UNCHANGED vars
  BY <1>12 DEF vars, review, product, outcome
<1> QED
  BY <1>1, <1>2, <1>3, <1>4, <1>5, <1>6, <1>7, <1>8, <1>9, <1>10, <1>11, <1>12 DEF Next

\* The copies are made in the step that makes the records.
LEMMA CopiesStep ==
  ASSUME Copies, [Next]_vars
  PROVE  Copies'
  BY DEF Copies, Next, vars, review, product, outcome, SetUp, Parse, Explain, Accept,
         Update, Correct, Clarified, Generate, RepairReturns, RepairRaises, Copied, Save,
         Write, Serve, Zip, Return, Raise, Crash, Close

\* While the run is on its way to a result, each step leaves what the next one
\* counts on.
LEMMA ProgressStep ==
  ASSUME TypeOK, Progress, Outcome, [Next]_vars
  PROVE  Progress'
<1> USE DEF Progress, Go
<1>0. asked' = asked
  BY DEF Next, vars
<1>1. CASE SetUp
  BY <1>0, <1>1 DEF SetUp, review, product
<1>2. CASE Parse \/ Explain \/ Accept \/ Update
  BY <1>0, <1>2 DEF Parse, Explain, Accept, Update, review, product, outcome, Nothing,
       Stages
<1>3. ASSUME NEW f \in Feedback, Correct(f) PROVE Progress'
  BY <1>0, <1>3 DEF Correct, product, outcome
<1>4. CASE Generate
  <2>1. manifest \in Int
    BY DEF TypeOK, Manifest
  <2> QED
    BY <1>0, <1>4, <2>1 DEF Generate, Complete, review, outcome, Stages
<1>5. ASSUME NEW r \in Records, NEW passed \in BOOLEAN, RepairReturns(r, passed)
      PROVE  Progress'
  BY <1>0, <1>5 DEF RepairReturns, Copied, review, outcome
<1>6. ASSUME NEW r \in Records, RepairRaises(r) PROVE Progress'
  BY <1>0, <1>6 DEF RepairRaises, review, outcome
<1>7. CASE Save \/ Write
  BY <1>0, <1>7 DEF Save, Write, review, product, outcome, TypeOK
<1>8. CASE Serve \/ Zip
  BY <1>0, <1>8 DEF Serve, Served, Zip, review, product, outcome, TypeOK
<1>9. CASE Return \/ Raise \/ Crash \/ Close
  BY <1>0, <1>9 DEF Return, Raise, Crash, Close, review, product, outcome
<1>10. CASE UNCHANGED vars
  BY <1>10 DEF vars, review, product, outcome
<1> QED
  BY <1>1, <1>2, <1>3, <1>4, <1>5, <1>6, <1>7, <1>8, <1>9, <1>10 DEF Next

\* Until there is a result only the artifacts matter to ResultIsHonest, and a
\* result is what Progress has settled by then.
LEMMA OutcomeStep ==
  ASSUME TypeOK, Progress, Outcome, [Next]_vars
  PROVE  Outcome'
<1> USE DEF Outcome, ResultIsHonest, NoResult, Go
<1>0. asked' = asked
  BY DEF Next, vars
<1>1. CASE SetUp \/ Parse \/ Explain \/ Accept \/ Update
  BY <1>0, <1>1 DEF SetUp, Parse, Explain, Accept, Update, review, product, outcome
<1>2. ASSUME NEW f \in Feedback, Correct(f) PROVE Outcome'
  BY <1>0, <1>2 DEF Correct, product, outcome
<1>3. CASE Generate
  BY <1>0, <1>3 DEF Generate, Progress, review, outcome
<1>4. ASSUME NEW r \in Records, NEW passed \in BOOLEAN, RepairReturns(r, passed)
      PROVE  Outcome'
  BY <1>0, <1>4 DEF RepairReturns, Progress, review, outcome
<1>5. ASSUME NEW r \in Records, RepairRaises(r) PROVE Outcome'
  BY <1>0, <1>5 DEF RepairRaises, Progress, review, outcome
<1>6. CASE Save \/ Write
  BY <1>0, <1>6 DEF Save, Write, Progress, review, product, outcome, TypeOK
<1>7. CASE Serve
  BY <1>0, <1>7 DEF Serve, Served, Progress, review, product, outcome, TypeOK
<1>8. CASE Zip
  BY <1>0, <1>8 DEF Zip, review, product, outcome, TypeOK
<1>9. CASE Return
  <2>1. records.phases # <<>> => records.phases[Len(records.phases)] \in Phase
    BY LastPhase DEF TypeOK
  <2>2. pc = "return" => (FinalPhase = "none" <=> success \/ records = NoRecords)
    BY <2>1, PipelineAssumption DEF FinalPhase, Progress, TypeOK, NoRecords
  <2> QED
    BY <1>0, <1>9, <2>2 DEF Return, Progress, review, product, TypeOK
<1>10. CASE Raise \/ Crash \/ Close
  BY <1>0, <1>10 DEF Raise, Crash, Close, review, product, outcome
<1>11. CASE UNCHANGED vars
  BY <1>11 DEF vars, review, product, outcome
<1> QED
  BY <1>1, <1>2, <1>3, <1>4, <1>5, <1>6, <1>7, <1>8, <1>9, <1>10, <1>11 DEF Next

\* A correction is in the message that asks for its update, which makes one more
\* spec; the others are sent what the review has come to.
LEMMA ReviewStep ==
  ASSUME TypeOK, Copies, Progress, Review, [Next]_vars
  PROVE  Review'
<1> USE DEF Review, IntentIsComplete, Go
<1>0. asked' = asked
  BY DEF Next, vars
<1>1. said \in Seq(Feedback) /\ Len(said) \in Nat /\ intent = said
  BY DEF Copies, TypeOK
<1>2. CASE SetUp
  BY <1>0, <1>2 DEF SetUp, review
<1>3. CASE Parse
  BY <1>0, <1>1, <1>3 DEF Parse, Due, To, Makers
<1>4. CASE Explain
  BY <1>0, <1>1, <1>4 DEF Explain, Due, To, Makers
<1>5. CASE Accept
  BY <1>0, <1>1, <1>5 DEF Accept
<1>6. ASSUME NEW f \in Feedback, Correct(f) PROVE Review'
  <2>1. /\ said' \in Seq(Feedback) /\ Len(said') = Len(said) + 1
        /\ said'[Len(said')] = f
    BY <1>1, <1>6 DEF Correct
  <2>2. /\ message'.to = "user_validator_update" /\ message'.spec = reviewed
        /\ message'.corrections = said' /\ message'.feedback = f
    BY <1>1, <1>6 DEF Correct, Request, Clarified, To
  <2>3. pc = "prompt" /\ pc' = "update" /\ reviewed' = reviewed /\ shown' = shown
    BY <1>6 DEF Correct
  <2> QED
    BY <1>1, <2>1, <2>2, <2>3 DEF Makers
<1>7. CASE Update
  BY <1>0, <1>1, <1>7 DEF Update
<1>8. CASE Generate
  <2>1. /\ message'.to \in Makers /\ message'.spec = spec /\ message'.corrections = said
    BY <1>1, <1>8, StageIsMaker DEF Generate, Due, To
  <2> QED
    BY <1>0, <1>1, <1>8, <2>1 DEF Generate, Makers
<1>9. ASSUME NEW r \in Records, NEW passed \in BOOLEAN, RepairReturns(r, passed)
      PROVE  Review'
  BY <1>0, <1>1, <1>9, RepairerIsMaker DEF RepairReturns, ToRepairer, To, Makers
<1>10. ASSUME NEW r \in Records, RepairRaises(r) PROVE Review'
  BY <1>0, <1>1, <1>10, RepairerIsMaker DEF RepairRaises, ToRepairer, To, Makers
<1>11. CASE Save \/ Write \/ Serve \/ Zip
  BY <1>0, <1>11 DEF Save, Write, Serve, Zip, review
<1>12. CASE Raise
  <2>1. message'.corrections = said
    BY <1>1, <1>12 DEF Raise, Due, To
  <2>2. message'.to = "user_validator_update" => message' = message
    BY <1>12, StageIsMaker DEF Raise, Due, To, Makers
  <2>3. message'.to \in Makers =>
          message' = message \/ (pc = "generate" /\ message'.spec = spec)
    <3>1. CASE pc \in {"parse", "explain"}
      BY <1>12, <3>1 DEF Raise, Due, To, Makers
    <3>2. CASE pc = "generate"
      BY <1>12, <3>2 DEF Raise, Due, To
    <3>3. CASE pc \notin {"parse", "explain", "generate"}
      BY <1>12, <3>3 DEF Raise, Due
    <3> QED
      BY <3>1, <3>2, <3>3
  <2>4. said' = said /\ shown' = shown /\ pc' = "crash"
    BY <1>12 DEF Raise
  <2> QED
    BY <1>0, <1>1, <2>1, <2>2, <2>3, <2>4
<1>13. CASE Return \/ Crash \/ Close
  BY <1>0, <1>13 DEF Return, Crash, Close, review
<1>14. CASE UNCHANGED vars
  BY <1>14 DEF vars, review
<1> QED
  BY <1>2, <1>3, <1>4, <1>5, <1>6, <1>7, <1>8, <1>9, <1>10, <1>11, <1>12, <1>13, <1>14
     DEF Next

\* The records of a result are those the controller had when it was left, which
\* nothing after it touches.
LEMMA KeptStep ==
  ASSUME Copies, Outcome, RecordsSurvive, [Next]_vars
  PROVE  RecordsSurvive'
<1>1. CASE pc \notin {"close", "over"}
  <2>1. result = NoResult
    BY <1>1 DEF Outcome
  <2>2. CASE Return \/ Crash
    BY <2>2 DEF Return, Crash, Copies, RecordsSurvive, product
  <2>3. CASE ~(Return \/ Crash)
    <3>1. result' = result
      BY <1>1, <2>3 DEF Next, vars, outcome, SetUp, Parse, Explain, Accept, Update,
             Correct, Generate, RepairReturns, RepairRaises, Save, Write, Serve, Zip,
             Raise, Close
    <3> QED
      BY <2>1, <3>1 DEF NoResult, RecordsSurvive
  <2> QED
    BY <2>2, <2>3
<1>2. CASE pc \in {"close", "over"}
  <2>1. result' = result /\ repair' = repair
    BY <1>2 DEF Next, vars, product, outcome, SetUp, Parse, Explain, Accept, Update,
           Correct, Generate, RepairReturns, RepairRaises, Save, Write, Serve, Zip,
           Return, Raise, Crash, Close
  <2> QED
    BY <2>1 DEF RecordsSurvive
<1> QED
  BY <1>1, <1>2

-----------------------------------------------------------------------------
(* The theorems                                                            *)

\* Every step keeps the invariant, so it always holds.
LEMMA Invariant == Spec => []IInv
<1>1. IInv /\ [Next]_vars => IInv'
  BY TypeStep, CopiesStep, ProgressStep, ReviewStep, OutcomeStep, KeptStep DEF IInv
<1> QED
  BY InitIInv, <1>1, PTL DEF Spec

\* Every variable of run_problem keeps its type, whatever the phases, the
\* feedback and the budgets are.
THEOREM TypeCorrect == Spec => []TypeOK
<1>1. IInv => TypeOK
  BY DEF IInv
<1> QED
  BY Invariant, <1>1, PTL

\* However many corrections there are, every message an agent is sent has all of
\* them that were made by then, and the agents that make the project get the spec
\* that answers the last one and was shown (run_user_validation_loop).
THEOREM CorrectionsReachAgents == Spec => []IntentIsComplete
<1>1. IInv => IntentIsComplete
  BY DEF IInv, Review
<1> QED
  BY Invariant, <1>1, PTL

\* A result, crashed or not, has the records of the controller (run_problem,
\* finally).
THEOREM RecordsReachResult == Spec => []RecordsSurvive
<1>1. IInv => RecordsSurvive
  BY DEF IInv
<1> QED
  BY Invariant, <1>1, PTL

\* What is reported agrees with what is left on disk, and artifacts are only
\* those of a project that passed (run_problem).
THEOREM ReportsAreHonest == Spec => []ResultIsHonest
<1>1. IInv => ResultIsHonest
  BY DEF IInv, Outcome
<1> QED
  BY Invariant, <1>1, PTL
=============================================================================

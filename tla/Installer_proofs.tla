-------------------------- MODULE Installer_proofs --------------------------
(***************************************************************************)
(* Proofs about Installer, for any processes and any cache they may find.  *)
(* Phase says what each process has made or seen so far, Published that    *)
(* the target is what was found or a whole installation.                   *)
(***************************************************************************)
EXTENDS Installer, TLAPS

\* What holds of a process at each of its steps.
Phase(p) ==
    /\ pc[p] = "npm" => staging[p] \in SUBSET Part /\ "assets" \in staging[p]
    /\ pc[p] \in {"publish", "lost"} => staging[p] = Part
    /\ pc[p] = "check_ready" => Has(target, "package")
    /\ pc[p] = "returned" => target = Part
    /\ pc[p] = "lost" => target \notin {None, {}}
    /\ pc[p] = "refused" => target = found /\ ~Usable(found) /\ target \notin {None, {}}

Published ==
    /\ Usable(target) => target = Part
    /\ target # found => target = Part

IInv == TypeOK /\ Published /\ \A p \in Process : Phase(p)

\* The whole installation is there, is usable, and is something.
LEMMA PartUsable ==
  /\ Usable(Part) /\ Part # {} /\ Part # None
  /\ Part \in SUBSET Part
<1>1. \A d \in SUBSET Part : d # None
  BY InstallerAssumption
<1>2. "package" \in Part /\ "ready" \in Part
  BY DEF Part
<1> QED
  BY <1>1, <1>2 DEF Usable, Has

LEMMA InitIInv == Init => IInv
<1> SUFFICES ASSUME Init PROVE IInv
  OBVIOUS
<1>1. TypeOK
  BY InstallerAssumption DEF Init, TypeOK
<1>2. Published
  BY InstallerAssumption DEF Init, Published
<1>3. \A p \in Process : Phase(p)
  BY DEF Init, Phase
<1> QED
  BY <1>1, <1>2, <1>3 DEF IInv

\* A process that goes on touches no pc but its own.
LEMMA GoesOwn ==
  ASSUME TypeOK, NEW p \in Process, NEW from, NEW to, Goes(p, from, to)
  PROVE  /\ pc[p] = from /\ pc'[p] = to
         /\ \A q \in Process : q # p => pc'[q] = pc[q]
BY DEF Goes, TypeOK

LEMMA TypeStep == IInv /\ [Next]_vars => TypeOK'
<1> SUFFICES ASSUME IInv, [Next]_vars PROVE TypeOK'
  OBVIOUS
<1> USE DEF TypeOK, Ended
<1>0. TypeOK
  BY DEF IInv
<1>1. ASSUME NEW p \in Process, Begin(p) \/ Check(p) \/ CheckReady(p) \/ Crash(p)
      PROVE  TypeOK'
  BY <1>0, <1>1 DEF Begin, Check, CheckReady, Crash, Goes
<1>2. ASSUME NEW p \in Process, Make(p) \/ Fail(p) PROVE TypeOK'
  <2>1. {"assets"} \in SUBSET Part
    BY DEF Part
  <2>2. staging' \in [Process -> (SUBSET Part) \cup {None}]
    BY <1>0, <1>2, <2>1 DEF Make, Fail
  <2> QED
    BY <1>0, <1>2, <2>2 DEF Make, Fail, Goes
<1>3. ASSUME NEW p \in Process, MarkReady(p) PROVE TypeOK'
  <2>1. staging[p] \in SUBSET Part
    BY <1>3 DEF IInv, Phase, MarkReady, Goes
  <2> QED
    BY <1>0, <1>3, <2>1 DEF MarkReady, Goes, Part
<1>4. ASSUME NEW p \in Process, NEW part \in Part, Install(p, part) PROVE TypeOK'
  <2>1. staging[p] \in SUBSET Part
    BY <1>4 DEF IInv, Phase, Install
  <2> QED
    BY <1>0, <1>4, <2>1 DEF Install
<1>5. ASSUME NEW p \in Process, Publish(p) PROVE TypeOK'
  BY <1>0, <1>5 DEF Publish, Goes
<1>6. ASSUME NEW p \in Process, Lose(p) PROVE TypeOK'
  BY <1>0, <1>6 DEF Lose, Goes, Outcome
<1>7. CASE UNCHANGED vars
  BY <1>0, <1>7 DEF vars
<1> QED
  BY <1>1, <1>2, <1>3, <1>4, <1>5, <1>6, <1>7 DEF Next

\* A step that publishes finds nothing under the name, and leaves the whole
\* installation there.
LEMMA TargetStep ==
  ASSUME IInv, [Next]_vars, target' # target
  PROVE  target \in {None, {}} /\ target' = Part
<1>1. ASSUME NEW p \in Process, Publish(p)
      PROVE  target \in {None, {}} /\ target' = Part
  BY <1>1 DEF Publish, Goes, IInv, Phase
<1> QED
  BY <1>1 DEF Next, vars, Begin, Check, CheckReady, Make, Install, MarkReady, Fail, Lose,
         Crash

LEMMA PublishedStep == IInv /\ [Next]_vars => Published'
<1> SUFFICES ASSUME IInv, [Next]_vars PROVE Published'
  OBVIOUS
<1>1. found' = found
  BY DEF Next, vars, Begin, Check, CheckReady, Make, Install, MarkReady, Fail, Publish,
         Lose, Crash
<1>2. CASE target' = target
  BY <1>1, <1>2 DEF IInv, Published, Usable, Has
<1>3. CASE target' # target
  BY <1>3, TargetStep DEF Published
<1> QED
  BY <1>2, <1>3

\* What a process has seen under the name, another's step does not undo.
LEMMA OthersStep ==
  ASSUME IInv, [Next]_vars, NEW q \in Process, pc'[q] = pc[q], staging'[q] = staging[q]
  PROVE  Phase(q)'
<1>1. found' = found
  BY DEF Next, vars, Begin, Check, CheckReady, Make, Install, MarkReady, Fail, Publish,
         Lose, Crash
<1>2. CASE target' = target
  BY <1>1, <1>2 DEF IInv, Phase, Has, Usable
<1>3. CASE target' # target
  <2>1. target \in {None, {}} /\ target' = Part
    BY <1>3, TargetStep
  <2>2. pc[q] \notin {"refused"}
    BY <2>1 DEF IInv, Phase
  <2> QED
    BY <2>1, <2>2, PartUsable DEF IInv, Phase, Has, Usable
<1> QED
  BY <1>2, <1>3

\* The process that moves arrives with what its next step needs.
LEMMA OwnStep ==
  ASSUME IInv, NEW p \in Process,
         \/ Begin(p) \/ Check(p) \/ CheckReady(p) \/ Make(p) \/ MarkReady(p)
         \/ \E part \in Part : Install(p, part)
         \/ Fail(p) \/ Publish(p) \/ Lose(p) \/ Crash(p)
  PROVE  Phase(p)'
<1>0. TypeOK /\ Phase(p) /\ Published
  BY DEF IInv
<1>1. CASE Begin(p)
  BY <1>0, <1>1, GoesOwn DEF Begin, Phase
<1>2. CASE Check(p)
  BY <1>0, <1>2, GoesOwn DEF Check, Phase, Has
<1>3. CASE CheckReady(p)
  <2>1. Has(target, "ready") => target = Part
    BY <1>0, <1>3 DEF CheckReady, Goes, Phase, Published, Usable
  <2> QED
    BY <1>0, <1>3, <2>1, GoesOwn DEF CheckReady, Phase
<1>4. CASE Make(p)
  <2>1. staging'[p] = {"assets"}
    BY <1>0, <1>4 DEF Make, TypeOK
  <2> QED
    BY <1>0, <1>4, <2>1, GoesOwn DEF Make, Phase, Part
<1>5. CASE MarkReady(p)
  <2>1. staging[p] \in SUBSET Part /\ "assets" \in staging[p]
    BY <1>0, <1>5 DEF MarkReady, Goes, Phase
  <2>2. staging'[p] = Part
    BY <1>0, <1>5, <2>1 DEF MarkReady, TypeOK, Part
  <2> QED
    BY <1>0, <1>5, <2>2, GoesOwn DEF MarkReady, Phase
<1>6. ASSUME NEW part \in Part, Install(p, part)
      PROVE  Phase(p)'
  <2>1. staging[p] \in SUBSET Part /\ "assets" \in staging[p]
    BY <1>0, <1>6 DEF Install, Phase
  <2>2. staging'[p] = staging[p] \cup {part} /\ pc'[p] = "npm"
    BY <1>0, <1>6 DEF Install, TypeOK
  <2> QED
    BY <1>6, <2>1, <2>2 DEF Phase
<1>7. CASE Fail(p) \/ Crash(p)
  <2>1. pc'[p] \in {"failed", "dead"}
    BY <1>0, <1>7 DEF Fail, Crash, TypeOK
  <2> QED
    BY <2>1 DEF Phase
<1>8. CASE Publish(p)
  <2>1. CASE target \in {None, {}}
    BY <1>0, <1>8, <2>1, GoesOwn DEF Publish, Goes, Phase
  <2>2. CASE target \notin {None, {}}
    <3>1. pc[p] = "publish" /\ pc'[p] = "lost" /\ UNCHANGED <<staging, target>>
      BY <1>0, <1>8, <2>2, GoesOwn DEF Publish
    <3> QED
      BY <1>0, <2>2, <3>1 DEF Phase
  <2> QED
    BY <2>1, <2>2
<1>9. CASE Lose(p)
  <2>1. /\ pc[p] = "lost" /\ pc'[p] = Outcome(target)
        /\ UNCHANGED <<target, found>>
    BY <1>0, <1>9, GoesOwn DEF Lose
  <2>2. CASE Usable(target)
    BY <1>0, <2>1, <2>2 DEF Outcome, Phase, Published
  <2>3. CASE ~Usable(target)
    <3>1. target = found
      BY <1>0, <2>3, PartUsable DEF Published
    <3> QED
      BY <1>0, <2>1, <2>3, <3>1 DEF Outcome, Phase
  <2> QED
    BY <2>2, <2>3
<1> QED
  BY <1>1, <1>2, <1>3, <1>4, <1>5, <1>6, <1>7, <1>8, <1>9

LEMMA PhaseStep == IInv /\ [Next]_vars => \A q \in Process : Phase(q)'
<1> SUFFICES ASSUME IInv, [Next]_vars, NEW q \in Process PROVE Phase(q)'
  OBVIOUS
<1>1. CASE UNCHANGED vars
  BY <1>1, OthersStep DEF vars
<1>2. ASSUME NEW p \in Process, p # q,
             \/ Begin(p) \/ Check(p) \/ CheckReady(p) \/ Make(p) \/ MarkReady(p)
             \/ \E part \in Part : Install(p, part)
             \/ Fail(p) \/ Publish(p) \/ Lose(p) \/ Crash(p)
      PROVE  Phase(q)'
  <2>1. pc'[q] = pc[q] /\ staging'[q] = staging[q]
    BY <1>2 DEF IInv, TypeOK, Begin, Check, CheckReady, Make, Install, MarkReady, Fail,
           Publish, Lose, Crash, Goes
  <2> QED
    BY <2>1, OthersStep
<1> QED
  BY <1>1, <1>2, OwnStep DEF Next

\* Every step keeps the invariant, so it always holds.
LEMMA Invariant == Spec => []IInv
<1>1. IInv /\ [Next]_vars => IInv'
  BY TypeStep, PublishedStep, PhaseStep DEF IInv
<1> QED
  BY InitIInv, <1>1, PTL DEF Spec

\* Every variable keeps its type, however many processes install.
THEOREM TypeCorrect == Spec => []TypeOK
<1>1. IInv => TypeOK
  BY DEF IInv
<1> QED
  BY Invariant, <1>1, PTL

\* A process that was given the cache directory finds a complete installation
\* there for good, however the others and their crashes interleave
\* (ensure_pi_worker).
THEOREM InstallationsAreComplete == Spec => []ReturnedIsComplete
<1>1. IInv => ReturnedIsComplete
  BY DEF IInv, Phase, ReturnedIsComplete
<1> QED
  BY Invariant, <1>1, PTL

\* A process that loses the race is refused only over something unusable that
\* was there before all of them (ensure_pi_worker, except OSError).
THEOREM LosersAreNotRefused == Spec => []LosersAreServed
<1>1. IInv => LosersAreServed
  BY DEF IInv, Phase, LosersAreServed
<1> QED
  BY Invariant, <1>1, PTL

\* What is under the target's name changes once at most, and then all at once
\* (candidate.rename).
THEOREM PublishesOnce == Spec => PublishedOnce
<1>1. IInv /\ [Next]_vars => [target' # target => target \in {None, {}} /\ target' = Part]_vars
  BY TargetStep
<1> QED
  BY Invariant, <1>1, PTL DEF Spec, PublishedOnce
=============================================================================

-------------------------- MODULE Benchmark_proofs --------------------------
(***************************************************************************)
(* Proofs about Benchmark, for any batch, any number of problems and of    *)
(* mishaps.  What is left behind is left by a command that was cut short   *)
(* or refused, and no cell of the table is about somebody else's           *)
(* container: both rest on where a container or an image of the batch may  *)
(* be while the main thread is in a stage (Boxes, Images), and on what the *)
(* daemon may still do for a client that is gone (Lateness).  Every        *)
(* project is probed in a round trip; the totals are sums of the usages;   *)
(* the main thread ends after a bounded number of steps, and only an       *)
(* interrupt loses the report.                                             *)
(***************************************************************************)
EXTENDS Benchmark, FoldLemmas

-----------------------------------------------------------------------------
(* The inductive invariant                                                 *)

InStage == step \in {"package", "clear", "run", "poll", "probe", "remove", "end",
                     "image", "build", "logs", "untag"}

\* A stage has a project, and its steps in common with the other one or not.
Control ==
    /\ InStage \/ step = "row" => i \in Problem /\ stage \in {"qk", "dk"}
    /\ step \in {"package", "probe"} => stage = "qk"
    /\ step \in {"image", "build", "logs", "untag", "row"} => stage = "dk"

\* This batch's containers are that of the stage, from its start to its removal, or
\* given up; no other holds the port; and what has the name when a container is
\* run, and is not the one that was run, could not be removed.
Boxes ==
    /\ \A n \in Name : box[n].own =>
         \/ n \in abandoned
         \/ n = ThisBox /\ step \in {"poll", "probe", "logs", "remove"}
    /\ step \notin {"summary", "gate", "over", "left"} =>
         \A n \in Name : box[n].up => box[n].own
    /\ \A n \in Name : ~box[n].there => box[n] = Gone
    /\ step \in {"run", "poll", "probe", "logs", "remove"} =>
         (box[ThisBox].there /\ (~box[ThisBox].own \/ step = "run") => ThisBox \in abandoned)

\* This batch's images are that of the stage, from its build to its removal, or
\* given up.
Images ==
    \A p \in Problem : image[p] = "new" =>
      \/ <<"dk", p>> \in abandoned
      \/ /\ p = i /\ stage = "dk"
         /\ step \in {"clear", "run", "poll", "logs", "remove", "untag"}

\* What the daemon may still do was given up.
Lateness ==
    /\ \A n \in Name : n \in late => n \in abandoned
    /\ \A p \in Problem : <<"build", p>> \in late => <<"dk", p>> \in abandoned

\* A stage that was started: its own container was, or could not be told apart.
Seen(p, s) == <<s, p>> \in fresh \/ <<s, p>> \in abandoned

\* What the stage and the stages of the project have found is their own, and there
\* is a score only for a project that started.
Found ==
    /\ InStage => /\ res.started => Seen(i, stage)
                  /\ res.score # 0 => res.started
                  /\ step = "probe" => res.started
    /\ InStage \/ step = "row" => /\ rec.quarkus_runs => Seen(i, "qk")
                                  /\ rec.docker_works => Seen(i, "dk")
                                  /\ rec.score # 0 => rec.quarkus_runs
    /\ step \notin {"summary", "gate", "over", "left"} => rows \in [Problem -> Row]

IInv == TypeOK /\ Control /\ Boxes /\ Images /\ Lateness /\ Found /\ CellsAreOwn

-----------------------------------------------------------------------------
(* Types                                                                   *)

Box == [there : BOOLEAN, up : BOOLEAN, log : BOOLEAN, own : BOOLEAN]
Res == [started : BOOLEAN, score : 0..2, solve_ok : BOOLEAN]
Rec == [quarkus_runs : BOOLEAN, score : 0..2, solve_ok : BOOLEAN, docker_works : BOOLEAN]
Works == {"qk", "dk", "package", "build"} \X Problem

\* The constants of the model have their types.
LEMMA Constants ==
  /\ Gone \in Box /\ Created \in Box /\ OldBoxes \subseteq Box
  /\ NoRes \in Res /\ NoRec \in Rec /\ Name \subseteq Works
  /\ \A n, m : Score(n, m) \in 0..2
<1>1. /\ NoRes \in Res /\ NoRec \in Rec
      /\ Gone \in Box /\ Created \in Box /\ OldBoxes \subseteq Box
  <2>1. NoRes \in Res /\ NoRec \in Rec
    BY DEF NoRes, Res, NoRec, Rec
  <2>2. Gone \in Box /\ Created \in Box
    BY DEF Gone, Created, Box
  <2>3. OldBoxes \subseteq Box
    <3>1. \A u \in BOOLEAN : [there |-> TRUE, up |-> u, log |-> TRUE, own |-> FALSE] \in Box
      BY DEF Box
    <3> QED
      BY <3>1 DEF OldBoxes
  <2> QED
    BY <2>1, <2>2, <2>3
<1>2. Name \subseteq Works
  BY DEF Name, Works
<1>3. \A n, m : Score(n, m) \in 0..2
  BY DEF Score
<1> QED
  BY <1>1, <1>2, <1>3

\* A row is one with what a project was evaluated to.
LEMMA EvaluatedRowType ==
  ASSUME NEW row \in Row, NEW r \in Rec
  PROVE  /\ EvaluatedRow(row, r) \in Row
         /\ EvaluatedRow(row, r).quarkus_runs = r.quarkus_runs
         /\ EvaluatedRow(row, r).docker_works = r.docker_works
         /\ EvaluatedRow(row, r).score = r.score
<1> DEFINE runs == row.solver_runs \/ r.solve_ok
<1>1. runs \in BOOLEAN
  OBVIOUS
<1>2. EvaluatedRow(row, r) =
        [row EXCEPT !.evaluated = TRUE, !.quarkus_runs = r.quarkus_runs,
                    !.score = r.score, !.docker_works = r.docker_works,
                    !.solver_runs = runs]
  BY Zenon DEF EvaluatedRow
<1> HIDE DEF runs
<1> QED
  BY <1>1, <1>2 DEF Row, Rec

\* A row that has not been evaluated says nothing of containers.
LEMMA FirstRowType ==
  ASSUME NEW r
  PROVE  /\ BenchmarkFromResult(r) \in Row
         /\ BenchmarkFromResult(r).quarkus_runs = Unknown
         /\ BenchmarkFromResult(r).docker_works = Unknown
         /\ BenchmarkFromResult(r).score = Unknown
<1>1. DeriveLightColumns(r).compiles \in BOOLEAN
      /\ DeriveLightColumns(r).solver_runs \in BOOLEAN
  BY DEF DeriveLightColumns
<1> QED
  BY <1>1 DEF BenchmarkFromResult, Row

\* The stage of a project has a container's name.
LEMMA ThisName == TypeOK /\ Control /\ InStage => ThisBox \in Name /\ i \in Problem
  BY DEF TypeOK, Control, ThisBox, Name

\* Control is kept.
LEMMA ControlStep ==
  ASSUME TypeOK, Control, [Next]_vars
  PROVE  /\ Control'
         /\ i' \in 0..NumProblems /\ stage' \in {"none", "qk", "dk"}
         /\ step' \in {"summary", "gate", "next", "package", "clear", "run", "poll", "probe",
                     "remove", "end", "image", "build", "logs", "untag", "row", "over",
                     "left"}
<1>0. /\ NumProblems \in Nat \ {0} /\ i \in 0..NumProblems
      /\ stage \in {"none", "qk", "dk"} /\ \A p : p \in Problem <=> p \in 1..NumProblems
  BY BenchmarkAssumption DEF TypeOK, Problem
<1> USE DEF Control, InStage, Goto, Raise, End, thread
<1>1. CASE WriteSummary \/ Gate \/ WriteRow \/ WriteTable
  BY <1>0, <1>1 DEF WriteSummary, Gate, WriteRow, WriteTable
<1>2. CASE NextProject
  <2>1. i' \in Problem /\ i' \in 0..NumProblems
    BY <1>0, <1>2 DEF NextProject
  <2> QED
    BY <1>0, <1>2, <2>1 DEF NextProject
<1>3. CASE Package \/ Clear \/ Run \/ TearDown
  BY <1>0, <1>3 DEF Package, Clear, Run, TearDown
<1>4. CASE Poll \/ ProbeStep
  BY <1>0, <1>4 DEF Poll, ProbeStep
<1>5. CASE ClearImage \/ Build \/ ReadLogs \/ Untag
  BY <1>0, <1>5 DEF ClearImage, Build, ReadLogs, Untag
<1>6. CASE EndStage
  BY <1>0, <1>6 DEF EndStage
<1>7. CASE Interrupt
  BY <1>0, <1>7 DEF Interrupt, Handler, TypeOK
<1>8. CASE UNCHANGED thread
  BY <1>0, <1>8 DEF TypeOK
<1> QED
  BY <1>1, <1>2, <1>3, <1>4, <1>5, <1>6, <1>7, <1>8 DEF Next, Main, LateDone, vars
-----------------------------------------------------------------------------
(* The daemon                                                              *)

\* The types of what the daemon has.
DaemonTypes ==
    /\ box \in [Name -> Box] /\ image \in [Problem -> {"none", "old", "new"}]
    /\ late \subseteq Works
    /\ mishaps \in 0..MaxMishaps /\ fresh \subseteq Name /\ abandoned \subseteq Name

\* What docker run leaves under the name.
LEMMA AfterRunEffect ==
  ASSUME DaemonTypes, ThisBox \in Name
  PROVE  /\ AfterRun \in [Name -> Box]
         /\ \A n \in Name : n # ThisBox => AfterRun[n] = box[n]
         /\ box[ThisBox].there => AfterRun = box
         /\ ~box[ThisBox].there => /\ AfterRun[ThisBox].there /\ AfterRun[ThisBox].own
                                   /\ ~AfterRun[ThisBox].log
<1> DEFINE b == [Created EXCEPT !.up = PortIsFree]
<1>1. PortIsFree \in BOOLEAN
  BY DEF PortIsFree
<1>2. b \in Box /\ b.there /\ b.own /\ ~b.log
  <2> DEFINE u == PortIsFree
  <2>1. b = [Created EXCEPT !.up = u] /\ u \in BOOLEAN
    BY <1>1
  <2> HIDE DEF u
  <2> QED
    BY <2>1 DEF Created, Box
<1>3. AfterRun = IF box[ThisBox].there THEN box ELSE [box EXCEPT ![ThisBox] = b]
  BY DEF AfterRun
<1> HIDE DEF b
<1> QED
  BY <1>2, <1>3 DEF DaemonTypes

\* docker rm -f: the box is gone, or the stage is one with a command that failed.
LEMMA RemoveBoxEffect ==
  ASSUME DaemonTypes, ThisBox \in Name, RemoveBox
  PROVE  /\ \/ box' = [box EXCEPT ![ThisBox] = Gone] /\ UNCHANGED <<mishaps, abandoned>>
            \/ /\ box' = box /\ abandoned' = abandoned \cup {ThisBox}
               /\ mishaps < MaxMishaps /\ mishaps' = mishaps + 1
         /\ UNCHANGED <<image, late, fresh>>
  BY DEF RemoveBox, Removed, NoMishap, Mishap, Abandon

\* No step leaves the types.
LEMMA DaemonStep ==
  ASSUME TypeOK, DaemonTypes, Control, [Next]_vars
  PROVE  DaemonTypes'
<1>0. /\ Name \subseteq Works /\ Gone \in Box /\ Created \in Box
      /\ mishaps \in 0..MaxMishaps /\ MaxMishaps \in Nat
      /\ InStage => ThisBox \in Name /\ i \in Problem
      /\ late \subseteq Works /\ fresh \subseteq Name /\ abandoned \subseteq Name
      /\ image \in [Problem -> {"none", "old", "new"}] /\ box \in [Name -> Box]
  BY Constants, ThisName, BenchmarkAssumption DEF DaemonTypes
<1>1. ASSUME mishaps < MaxMishaps, mishaps' = mishaps + 1
      PROVE  mishaps' \in 0..MaxMishaps
  BY <1>0, <1>1
<1>2. ASSUME UNCHANGED <<daemon, history>> PROVE DaemonTypes'
  BY <1>2 DEF daemon, history, DaemonTypes
<1>3. ASSUME RemoveBox, InStage PROVE DaemonTypes'
  BY <1>0, <1>1, <1>3, RemoveBoxEffect DEF DaemonTypes
<1>4. ASSUME RemoveImage, InStage PROVE DaemonTypes'
  BY <1>0, <1>1, <1>4 DEF RemoveImage, NoMishap, Mishap, Abandon, DaemonTypes
<1>5. ASSUME NEW work \in SUBSET Works, CutShort(work), InStage, box' \in {box, AfterRun}
      PROVE  DaemonTypes'
  BY <1>0, <1>1, <1>5, AfterRunEffect DEF CutShort, Mishap, Abandon, DaemonTypes
<1>6. ASSUME InStage
      PROVE  /\ {} \in SUBSET Works /\ {ThisBox} \in SUBSET Works
             /\ {<<"package", i>>} \in SUBSET Works /\ {<<"build", i>>} \in SUBSET Works
  BY <1>0, <1>6 DEF Works
<1>7. CASE WriteSummary \/ Gate \/ NextProject \/ WriteRow \/ WriteTable \/ ProbeStep
  BY <1>2, <1>7 DEF WriteSummary, Gate, NextProject, WriteRow, WriteTable, ProbeStep
<1>8. CASE Package
  BY <1>2, <1>5, <1>6, <1>8 DEF Package, InStage
<1>9. CASE Clear \/ TearDown \/ EndStage
  BY <1>3, <1>9 DEF Clear, TearDown, EndStage, InStage
<1>10. CASE Run
  <2>1. CASE CutShort({ThisBox})
    BY <1>5, <1>6, <1>10, <2>1 DEF Run, InStage
  <2>2. CASE box' \in {box, AfterRun} /\ UNCHANGED <<image, late, history>>
    BY <1>0, <1>10, <2>2, AfterRunEffect DEF Run, InStage, history, DaemonTypes
  <2> QED
    BY <1>10, <2>1, <2>2 DEF Run
<1>11. CASE Poll
  <2>1. UNCHANGED <<daemon, mishaps, abandoned>> /\ fresh' \subseteq Name
    BY <1>0, <1>11 DEF Poll, InStage, history
  <2> QED
    BY <1>0, <2>1 DEF daemon, DaemonTypes
<1>12. CASE ClearImage
  BY <1>2, <1>4, <1>5, <1>6, <1>12 DEF ClearImage, InStage
<1>13. CASE Build
  <2>1. CASE CutShort({<<"build", i>>}) /\ UNCHANGED box
    BY <1>5, <1>6, <1>13, <2>1 DEF Build, InStage
  <2>2. CASE image' = [image EXCEPT ![i] = "new"] /\ UNCHANGED <<box, late, history>>
    BY <1>0, <2>2 DEF history, DaemonTypes
  <2> QED
    BY <1>2, <1>13, <2>1, <2>2 DEF Build
<1>14. CASE ReadLogs
  BY <1>0, <1>1, <1>2, <1>14 DEF ReadLogs, Mishap, daemon, DaemonTypes
<1>15. CASE Untag
  BY <1>4, <1>5, <1>6, <1>15 DEF Untag, InStage
<1>16. CASE Interrupt
  <2>1. CASE Mishap /\ UNCHANGED <<daemon, fresh, abandoned>>
    BY <1>0, <1>1, <2>1 DEF Mishap, daemon, DaemonTypes
  <2>2. CASE InStage /\ \E work \in {{}, {ThisBox}, {<<"package", i>>}, {<<"build", i>>}} :
                 CutShort(work) /\ box' \in {box, AfterRun}
    BY <1>5, <1>6, <2>2
  <2>3. step \in {"summary", "gate", "next", "row", "poll", "probe", "logs"}
        \/ (InStage /\ box' \in {box, AfterRun}
            /\ CutShort(IF step = "run" THEN {ThisBox}
                        ELSE IF step \in {"package", "build"} THEN {<<step, i>>} ELSE {}))
    BY <1>16 DEF Interrupt, TypeOK, InStage
  <2>4. CASE step \in {"summary", "gate", "next", "row", "poll", "probe", "logs"}
    BY <1>16, <2>1, <2>4 DEF Interrupt
  <2>5. CASE InStage /\ box' \in {box, AfterRun}
             /\ CutShort(IF step = "run" THEN {ThisBox}
                         ELSE IF step \in {"package", "build"} THEN {<<step, i>>} ELSE {})
    BY <2>2, <2>5
  <2> QED
    BY <2>3, <2>4, <2>5
<1>17. CASE LateDone
  <2>1. PICK work \in late :
          /\ late' = late \ {work}
          /\ \/ UNCHANGED <<box, image>>
             \/ /\ work \in Name /\ ~box[work].there
                /\ box' = [box EXCEPT ![work] = Created] /\ UNCHANGED image
             \/ /\ work[1] = "build"
                /\ image' = [image EXCEPT ![work[2]] = "new"] /\ UNCHANGED box
    BY <1>17 DEF LateDone
  <2> QED
    BY <1>0, <1>17, <2>1 DEF LateDone, history, DaemonTypes
<1>18. ASSUME NEW n \in Name, Boot(n) \/ Stop(n), UNCHANGED <<image, late, history>>
       PROVE  DaemonTypes'
  <2>1. box' \in [Name -> Box]
    <3>1. /\ box[n] \in Box /\ [box[n] EXCEPT !.log = TRUE] \in Box
          /\ [box[n] EXCEPT !.up = FALSE] \in Box
      BY <1>0 DEF Box
    <3>2. \/ box' = [box EXCEPT ![n] = [box[n] EXCEPT !.log = TRUE]]
          \/ box' = [box EXCEPT ![n] = [box[n] EXCEPT !.up = FALSE]]
      BY <1>18 DEF Boot, Stop
    <3> QED
      BY <1>0, <3>1, <3>2
  <2> QED
    BY <1>0, <1>18, <2>1 DEF history, DaemonTypes
<1>19. CASE UNCHANGED vars
  BY <1>2, <1>19 DEF vars
<1> QED
  BY <1>7, <1>8, <1>9, <1>10, <1>11, <1>12, <1>13, <1>14, <1>15, <1>16, <1>17, <1>18, <1>19
     DEF Next, Main
-----------------------------------------------------------------------------
(* What was given up                                                       *)

\* What was seen or given up stays so.
LEMMA Monotone ==
  ASSUME [Next]_vars
  PROVE  abandoned \subseteq abandoned' /\ fresh \subseteq fresh'
<1> USE DEF RemoveBox, RemoveImage, CutShort, NoMishap, Mishap, Abandon, history
<1>1. CASE WriteSummary \/ Gate \/ NextProject \/ WriteRow \/ WriteTable \/ ProbeStep
  BY <1>1 DEF WriteSummary, Gate, NextProject, WriteRow, WriteTable, ProbeStep
<1>2. CASE Package \/ Clear \/ Run \/ Poll \/ TearDown \/ EndStage
  BY <1>2 DEF Package, Clear, Run, Poll, TearDown, EndStage
<1>3. CASE ClearImage \/ Build \/ ReadLogs \/ Untag
  BY <1>3 DEF ClearImage, Build, ReadLogs, Untag
<1>4. CASE Interrupt
  BY <1>4 DEF Interrupt
<1>5. CASE UNCHANGED history
  BY <1>5
<1> QED
  BY <1>1, <1>2, <1>3, <1>4, <1>5 DEF Next, Main, LateDone, vars

\* What a step may add to the daemon's work, and what it gives up with it.
LEMMA LateWork ==
  ASSUME TypeOK, Control, [Next]_vars
  PROVE  \/ late' \subseteq late
         \/ InStage /\ ThisBox \in abandoned' /\ late' = late \cup {ThisBox}
         \/ InStage /\ ThisBox \in abandoned' /\ late' = late \cup {<<"package", i>>}
         \/ InStage /\ ThisBox \in abandoned' /\ late' = late \cup {<<"build", i>>}
            /\ stage = "dk"
<1> USE DEF RemoveBox, RemoveImage, CutShort, Abandon, InStage, daemon
<1>1. CASE WriteSummary \/ Gate \/ NextProject \/ WriteRow \/ WriteTable \/ ProbeStep
  BY <1>1 DEF WriteSummary, Gate, NextProject, WriteRow, WriteTable, ProbeStep
<1>2. CASE Package \/ Clear \/ Run \/ Poll \/ TearDown \/ EndStage
  BY <1>2 DEF Package, Clear, Run, Poll, TearDown, EndStage
<1>3. CASE ClearImage \/ Build \/ ReadLogs \/ Untag
  BY <1>3 DEF ClearImage, Build, ReadLogs, Untag, Control
<1>4. CASE Interrupt
  <2>1. CASE UNCHANGED daemon
    BY <2>1
  <2>2. CASE step = "run"
    BY <1>4, <2>2 DEF Interrupt
  <2>3. CASE step = "build"
    BY <1>4, <2>3 DEF Interrupt, Control
  <2>4. CASE step = "package"
    BY <1>4, <2>4 DEF Interrupt
  <2>5. CASE step \notin {"run", "build", "package"} /\ ~UNCHANGED daemon
    BY <1>4, <2>5 DEF Interrupt
  <2> QED
    BY <2>1, <2>2, <2>3, <2>4, <2>5
<1>5. CASE LateDone
  BY <1>5 DEF LateDone
<1>6. CASE UNCHANGED late
  BY <1>6
<1> QED
  BY <1>1, <1>2, <1>3, <1>4, <1>5, <1>6 DEF Next, Main, vars

\* Lateness is kept.
LEMMA LatenessStep ==
  ASSUME TypeOK, Control, Lateness, [Next]_vars
  PROVE  Lateness'
<1>1. \A x, p : <<x, p>> \in Name => x \in {"qk", "dk"} /\ p \in Problem
  BY DEF Name
<1>2. \A n \in Name : /\ n # <<"package", i>> /\ n # <<"build", i>>
  BY <1>1
<1>3. \A p \in Problem : /\ <<"build", p>> # <<"package", i>>
                         /\ <<"build", p>> = <<"build", i>> => p = i
  OBVIOUS
<1>4. InStage => \A p \in Problem : <<"build", p>> # ThisBox
  BY DEF Control, ThisBox
<1>5. stage = "dk" => ThisBox = <<"dk", i>>
  BY DEF ThisBox
<1> QED
  BY <1>2, <1>3, <1>4, <1>5, LateWork, Monotone DEF Lateness
-----------------------------------------------------------------------------
(* Containers                                                              *)

Live == {"poll", "probe", "logs", "remove"}
Quiet == {"summary", "gate", "over", "left"}

\* Boxes is kept.
LEMMA BoxesStep ==
  ASSUME TypeOK, DaemonTypes, Control, Lateness, Boxes, [Next]_vars
  PROVE  Boxes'
<1>0. /\ box \in [Name -> Box] /\ abandoned \subseteq abandoned'
      /\ InStage => ThisBox \in Name
      /\ Gone \in Box /\ Created \in Box
      /\ Gone.there = FALSE /\ Gone.up = FALSE /\ Gone.log = FALSE /\ Gone.own = FALSE
      /\ Created.there = TRUE /\ Created.up = FALSE /\ Created.own = TRUE
  BY Monotone, ThisName, Constants DEF DaemonTypes, Gone, Created
<1>1. ASSUME box' = box, step' \notin Live, step' # "run",
             step \in Live => ThisBox \in abandoned', step' \notin Quiet => step \notin Quiet
      PROVE  Boxes'
  BY <1>0, <1>1 DEF Boxes, Live, Quiet
<1>2. ASSUME box' = box, step \in Live, step' \in Live, UNCHANGED <<stage, i>>
      PROVE  Boxes'
  <2>1. ThisBox' = ThisBox
    BY <1>2 DEF ThisBox
  <2> QED
    BY <1>0, <1>2, <2>1 DEF Boxes, Live
<1>3. ASSUME RemoveBox, InStage, step' \notin Live
      PROVE  /\ \A n \in Name : box'[n].own => n \in abandoned'
             /\ step' # "run" => Boxes'
             /\ ThisBox' = ThisBox => Boxes'
  <2>1. /\ ThisBox \in Name
        /\ \/ box' = [box EXCEPT ![ThisBox] = Gone] /\ abandoned' = abandoned
           \/ box' = box /\ abandoned' = abandoned \cup {ThisBox}
    BY <1>0, <1>3, RemoveBoxEffect
  <2>2. CASE box' = box /\ abandoned' = abandoned \cup {ThisBox}
    BY <1>0, <1>3, <2>1, <2>2 DEF Boxes, Live, InStage
  <2>3. CASE box' = [box EXCEPT ![ThisBox] = Gone]
    <3>1. box'[ThisBox] = Gone /\ \A n \in Name : n # ThisBox => box'[n] = box[n]
      BY <1>0, <2>1, <2>3
    <3> QED
      BY <1>0, <1>3, <2>1, <3>1 DEF Boxes, Live, InStage
  <2> QED
    BY <2>1, <2>2, <2>3
<1>4. CASE Gate
  <2>1. /\ box' = box /\ step = "gate" /\ step' \in {"next", "over"}
        /\ step' = "next" => PortIsFree
    BY <1>4 DEF Gate, End, daemon
  <2> QED
    BY <1>0, <2>1 DEF Boxes, PortIsFree
<1>5. CASE WriteSummary \/ NextProject \/ WriteRow \/ WriteTable
  <2>1. box' = box /\ step \notin Live /\ step' \notin Live /\ step' # "run"
        /\ (step' \notin Quiet => step \notin Quiet)
    BY <1>5 DEF WriteSummary, NextProject, WriteRow, WriteTable, Goto, Raise, End, daemon, Live,
                Quiet
  <2> QED
    BY <1>1, <2>1
<1>6. CASE Package \/ ClearImage \/ Build \/ Untag
  <2>1. box' = box /\ step \notin Live /\ step' \notin Live /\ step' # "run"
        /\ step \notin Quiet
    BY <1>6 DEF Package, ClearImage, Build, Untag, RemoveImage, Goto, Raise, daemon, Live,
                Quiet
  <2> QED
    BY <1>1, <2>1
<1>7. CASE Clear
  <2>1. RemoveBox /\ InStage /\ step' \notin Live /\ ThisBox' = ThisBox
    BY <1>7 DEF Clear, Goto, InStage, Live, ThisBox
  <2> QED
    BY <1>3, <2>1
<1>8. ASSUME step = "run", UNCHANGED <<stage, i>>, box' \in {box, AfterRun}
      PROVE  /\ step' = "poll" => Boxes'
             /\ step' = "end" /\ ThisBox \in abandoned' => Boxes'
  <2>1. ThisBox \in Name /\ ThisBox' = ThisBox
    BY <1>0, <1>8 DEF InStage, ThisBox
  <2>2. /\ \A n \in Name : n # ThisBox => box'[n] = box[n]
        /\ box[ThisBox].there => box' = box
        /\ box' = box \/ (box'[ThisBox].there /\ box'[ThisBox].own)
    BY <1>8, <2>1, AfterRunEffect
  <2>3. box[ThisBox].there => ThisBox \in abandoned
    BY <1>8 DEF Boxes
  <2>4. /\ \A n \in Name : box'[n].up => box'[n].own
        /\ \A n \in Name : ~box'[n].there => box'[n] = Gone
        /\ \A n \in Name : box'[n].own => n \in abandoned \/ n = ThisBox
        /\ box'[ThisBox].there => ThisBox \in abandoned \/ box'[ThisBox].own
    BY <1>8, <2>1, <2>2, <2>3 DEF Boxes
  <2> QED
    BY <1>0, <2>1, <2>4 DEF Boxes
<1>9. CASE Run
  <2>1. /\ step = "run" /\ UNCHANGED <<stage, i>> /\ box' \in {box, AfterRun}
        /\ step' = "poll" \/ (step' = "end" /\ ThisBox \in abandoned')
    BY <1>9 DEF Run, Goto, Raise, CutShort, Abandon
  <2> QED
    BY <1>8, <2>1
<1>10. CASE Poll \/ ProbeStep \/ ReadLogs
  <2>1. box' = box /\ step \in Live /\ step' \in Live /\ UNCHANGED <<stage, i>>
    BY <1>10 DEF Poll, ProbeStep, ReadLogs, Goto, Raise, daemon, Live
  <2> QED
    BY <1>2, <2>1
<1>11. CASE TearDown \/ EndStage
  <2>1. RemoveBox /\ InStage /\ step' \notin Live /\ step' # "run"
    BY <1>11 DEF TearDown, EndStage, Goto, InStage, Live
  <2> QED
    BY <1>3, <2>1
<1>12. CASE Interrupt
  <2>1. UNCHANGED <<stage, i>>
    BY <1>12 DEF Interrupt
  <2>2. CASE step \in {"summary", "gate", "next", "row"}
    <3>1. box' = box /\ step' = "left"
      BY <1>12, <2>2 DEF Interrupt, daemon
    <3> QED
      BY <1>1, <2>2, <3>1 DEF Live, Quiet
  <2>3. CASE step \in {"poll", "probe", "logs"}
    <3>1. box' = box /\ step' = "remove"
      BY <1>12, <2>3 DEF Interrupt, Handler, daemon
    <3> QED
      BY <1>2, <2>1, <2>3, <3>1 DEF Live
  <2>4. CASE step = "run"
    <3>1. box' \in {box, AfterRun} /\ step' = "end" /\ ThisBox \in abandoned'
      BY <1>12, <2>4 DEF Interrupt, Handler, CutShort, Abandon
    <3> QED
      BY <1>8, <2>1, <2>4, <3>1
  <2>5. CASE step \notin {"summary", "gate", "next", "row", "poll", "probe", "logs", "run"}
    <3>1. /\ box' = box /\ step' \in {"untag", "end", "left"} /\ ThisBox \in abandoned'
          /\ step \notin {"over", "left"}
      BY <1>12, <2>5 DEF Interrupt, Handler, CutShort, Abandon
    <3> QED
      BY <1>1, <2>5, <3>1 DEF Live, Quiet
  <2> QED
    BY <2>2, <2>3, <2>4, <2>5
<1>13. CASE LateDone
  <2>0. step = "run" \/ step \in Live => ThisBox \in Name
    BY <1>0 DEF InStage, Live
  <2>1. UNCHANGED <<step, stage, i, abandoned>> /\ ThisBox' = ThisBox
    BY <1>13 DEF LateDone, thread, history, ThisBox
  <2>2. CASE box' = box
    BY <2>1, <2>2 DEF Boxes
  <2>3. CASE \E work \in late \cap Name : ~box[work].there
                                    /\ box' = [box EXCEPT ![work] = Created]
    <3>1. PICK work \in late \cap Name : box' = [box EXCEPT ![work] = Created]
      BY <2>3
    <3>2. work \in abandoned
      BY DEF Lateness
    <3>3. box'[work] = Created /\ \A n \in Name : n # work => box'[n] = box[n]
      BY <1>0, <3>1
    <3> QED
      BY <1>0, <2>0, <2>1, <3>2, <3>3 DEF Boxes, Live
  <2> QED
    BY <1>13, <2>2, <2>3 DEF LateDone
<1>14. ASSUME NEW n \in Name, Boot(n) \/ Stop(n), UNCHANGED <<thread, history>>
       PROVE  Boxes'
  <2>0. step = "run" \/ step \in Live => ThisBox \in Name
    BY <1>0 DEF InStage, Live
  <2>1. UNCHANGED <<step, stage, i, abandoned>> /\ ThisBox' = ThisBox
    BY <1>14 DEF thread, history, ThisBox
  <2>2. /\ box[n] \in Box /\ box[n].up
        /\ \/ box' = [box EXCEPT ![n] = [box[n] EXCEPT !.log = TRUE]]
           \/ box' = [box EXCEPT ![n] = [box[n] EXCEPT !.up = FALSE]]
    BY <1>0, <1>14 DEF Boot, Stop
  <2>3. /\ box'[n].there = box[n].there /\ box'[n].own = box[n].own
        /\ \A m \in Name : m # n => box'[m] = box[m]
    BY <1>0, <2>2 DEF Box
  <2>4. box[n].there
    BY <1>0, <2>2 DEF Boxes
  <2> QED
    <3>1. \A m \in Name : box'[m].there = box[m].there /\ box'[m].own = box[m].own
      BY <2>3
    <3>2. \A m \in Name : box'[m].up => box[m].up
      BY <2>2, <2>3
    <3>3. \A m \in Name : ~box'[m].there => box'[m] = Gone
      BY <2>3, <2>4, <3>1 DEF Boxes
    <3> QED
      BY <2>0, <2>1, <3>1, <3>2, <3>3 DEF Boxes, Live
<1>15. CASE UNCHANGED vars
  BY <1>15 DEF vars, thread, daemon, history, Boxes, ThisBox
<1> QED
  BY <1>4, <1>5, <1>6, <1>7, <1>9, <1>10, <1>11, <1>12, <1>13, <1>14, <1>15 DEF Next, Main
-----------------------------------------------------------------------------
(* Images                                                                  *)

Home == {"clear", "run", "poll", "logs", "remove", "untag"}

\* Images is kept.
LEMMA ImagesStep ==
  ASSUME TypeOK, DaemonTypes, Control, Lateness, Images, [Next]_vars
  PROVE  Images'
<1>0. /\ image \in [Problem -> {"none", "old", "new"}] /\ abandoned \subseteq abandoned'
      /\ InStage => i \in Problem
      /\ stage = "dk" => ThisBox = <<"dk", i>>
  BY Monotone, ThisName DEF DaemonTypes, ThisBox
<1>1. ASSUME image' = image,
             step \in Home /\ stage = "dk" =>
               \/ step' \in Home /\ UNCHANGED <<stage, i>>
               \/ ThisBox \in abandoned'
      PROVE  Images'
  BY <1>0, <1>1 DEF Images, Home
<1>2. ASSUME RemoveImage, InStage, stage = "dk" PROVE Images'
  <2>1. CASE image' = [image EXCEPT ![i] = "none"]
    <3>1. image'[i] = "none" /\ \A p \in Problem : p # i => image'[p] = image[p]
      BY <1>0, <1>2, <2>1
    <3> QED
      BY <1>0, <3>1 DEF Images
  <2>2. CASE image' = image /\ ThisBox \in abandoned'
    BY <1>1, <2>2
  <2> QED
    BY <1>2, <2>1, <2>2 DEF RemoveImage, Abandon
<1>3. CASE WriteSummary \/ Gate \/ NextProject \/ WriteRow \/ WriteTable \/ Package
  <2>1. image' = image /\ step \notin Home
    BY <1>3 DEF WriteSummary, Gate, NextProject, WriteRow, WriteTable, Package, CutShort,
                daemon, Home
  <2> QED
    BY <1>1, <2>1
<1>4. CASE ProbeStep \/ EndStage
  <2>1. image' = image /\ step \notin Home
    BY <1>4 DEF ProbeStep, EndStage, RemoveBox, daemon, Home
  <2> QED
    BY <1>1, <2>1
<1>5. CASE Clear \/ Run \/ Poll \/ TearDown \/ ReadLogs
  <2>1. image' = image /\ UNCHANGED <<stage, i>>
        /\ (stage = "dk" => step' \in Home \/ ThisBox \in abandoned')
    BY <1>5 DEF Clear, Run, Poll, TearDown, ReadLogs, Goto, Raise, RemoveBox, CutShort,
                Abandon, history, daemon, Home
  <2> QED
    BY <1>1, <2>1
<1>6. CASE ClearImage \/ Untag
  <2>1. stage = "dk" /\ InStage
    BY <1>6 DEF ClearImage, Untag, Control, InStage
  <2>2. CASE RemoveImage
    BY <1>2, <2>1, <2>2
  <2>3. CASE image' = image /\ (step = "untag" => ThisBox \in abandoned')
    <3>1. step \in {"image", "untag"}
      BY <1>6 DEF ClearImage, Untag
    <3> QED
      BY <1>1, <2>3, <3>1 DEF Home
  <2> QED
    BY <1>6, <2>2, <2>3 DEF ClearImage, Untag, CutShort, Abandon, daemon
<1>7. CASE Build
  <2>1. step = "build" /\ stage = "dk" /\ i \in Problem
    BY <1>0, <1>7 DEF Build, Control, InStage
  <2>2. CASE image' = image
    BY <1>1, <2>1, <2>2 DEF Home
  <2>3. CASE image' = [image EXCEPT ![i] = "new"] /\ Goto("clear")
    <3>1. /\ step' = "clear" /\ stage' = "dk" /\ i' = i
          /\ \A p \in Problem : p # i => image'[p] = image[p]
      BY <1>0, <2>1, <2>3 DEF Goto
    <3> QED
      BY <1>0, <2>1, <3>1 DEF Images
  <2> QED
    BY <1>7, <2>2, <2>3 DEF Build, CutShort, daemon
<1>8. CASE Interrupt
  <2>1. image' = image /\ UNCHANGED <<stage, i>>
    BY <1>8 DEF Interrupt, CutShort, daemon
  <2>2. CASE step \in {"poll", "logs"}
    <3>1. step' = "remove"
      BY <1>8, <2>2 DEF Interrupt, Handler
    <3> QED
      BY <1>1, <2>1, <3>1 DEF Home
  <2>3. CASE step \in {"clear", "run", "remove", "untag"}
    <3>1. ThisBox \in abandoned'
      BY <1>8, <2>3 DEF Interrupt, CutShort, Abandon
    <3> QED
      BY <1>1, <2>1, <3>1
  <2> QED
    BY <1>1, <2>1, <2>2, <2>3 DEF Home
<1>9. CASE LateDone
  <2>1. UNCHANGED <<step, stage, i>>
    BY <1>9 DEF LateDone, thread
  <2>2. CASE image' = image
    BY <1>1, <2>1, <2>2
  <2>3. CASE image' # image
    <3>1. PICK work \in late : work[1] = "build" /\ image' = [image EXCEPT ![work[2]] = "new"]
      BY <1>9, <2>3 DEF LateDone
    <3>2. work = <<"build", work[2]>> /\ work[2] \in Problem
      BY <3>1 DEF DaemonTypes, Works
    <3>3. <<"dk", work[2]>> \in abandoned
      BY <3>1, <3>2 DEF Lateness
    <3>4. \A p \in Problem : p # work[2] => image'[p] = image[p]
      BY <1>0, <3>1
    <3> QED
      BY <1>0, <2>1, <3>3, <3>4 DEF Images
  <2> QED
    BY <2>2, <2>3
<1>10. CASE UNCHANGED <<thread, image, history>>
  BY <1>10 DEF thread, history, Images
<1> QED
  BY <1>3, <1>4, <1>5, <1>6, <1>7, <1>8, <1>9, <1>10 DEF Next, Main, vars, daemon

-----------------------------------------------------------------------------
(* What is found                                                           *)

\* The types of the results and of the rows.
ResultTypes ==
    /\ raised \in {"no", "error", "interrupt"} /\ exit \in {0, 1, Unknown}
    /\ res \in Res /\ rec \in Rec
    /\ rows = <<>> \/ rows \in [Problem -> Row]

\* What evaluate_project has after a stage.
LEMMA EndStageEffect ==
  ASSUME ResultTypes, Control, Found, EndStage
  PROVE  /\ rec' \in Rec /\ res' \in Res /\ UNCHANGED <<i, rows, exit>>
         /\ step' # "left" => /\ rec'.quarkus_runs => Seen(i, "qk")
                              /\ rec'.docker_works => Seen(i, "dk")
                              /\ rec'.score # 0 => rec'.quarkus_runs
                              /\ res' = NoRes
<1>1. /\ step = "end" /\ UNCHANGED <<i, rows, exit>>
      /\ rec' = IF raised # "no" THEN rec
                ELSE IF stage = "qk"
                  THEN [quarkus_runs |-> res.started, score |-> res.score,
                        solve_ok |-> res.solve_ok, docker_works |-> FALSE]
                  ELSE [rec EXCEPT !.docker_works = res.started]
      /\ \/ step' = "left" /\ res' = res
         \/ res' = NoRes
  BY DEF EndStage
<1>2. /\ InStage /\ stage \in {"qk", "dk"} /\ res \in Res /\ rec \in Rec /\ NoRes \in Res
  <2>1. InStage /\ stage \in {"qk", "dk"}
    BY <1>1 DEF InStage, Control
  <2>2. res \in Res /\ rec \in Rec
    BY DEF ResultTypes
  <2> QED
    BY <2>1, <2>2, Constants
<1>3. /\ res.started => Seen(i, stage)
      /\ res.score # 0 => res.started
      /\ rec.quarkus_runs => Seen(i, "qk")
      /\ rec.docker_works => Seen(i, "dk")
      /\ rec.score # 0 => rec.quarkus_runs
  BY <1>2 DEF Found
<1>4. CASE raised # "no"
  BY <1>1, <1>2, <1>3, <1>4
<1>5. CASE raised = "no" /\ stage = "qk"
  <2>1. rec' = [quarkus_runs |-> res.started, score |-> res.score,
                solve_ok |-> res.solve_ok, docker_works |-> FALSE]
    BY <1>1, <1>5
  <2>2. /\ rec' \in Rec /\ rec'.quarkus_runs = res.started
        /\ ~rec'.docker_works /\ rec'.score = res.score
    BY <1>2, <2>1 DEF Res, Rec
  <2> QED
    BY <1>1, <1>2, <1>3, <1>5, <2>2
<1>6. CASE raised = "no" /\ stage = "dk"
  <2>1. rec' = [rec EXCEPT !.docker_works = res.started]
    BY <1>1, <1>6
  <2>2. /\ rec' \in Rec /\ rec'.quarkus_runs = rec.quarkus_runs
        /\ rec'.docker_works = res.started /\ rec'.score = rec.score
    BY <1>2, <2>1 DEF Res, Rec
  <2> QED
    BY <1>1, <1>2, <1>3, <1>6, <2>2
<1> QED
  BY <1>2, <1>4, <1>5, <1>6
\* The cells of one row are the batch's own.
OwnRow(row, p) ==
    /\ row.quarkus_runs = TRUE => Seen(p, "qk")
    /\ row.docker_works = TRUE => Seen(p, "dk")
    /\ row.score \in {1, 2} => row.quarkus_runs = TRUE

\* The row of a project whose stages are over is its own.
LEMMA OwnEvaluatedRow ==
  ASSUME NEW row \in Row, NEW r \in Rec, NEW p,
         r.quarkus_runs => Seen(p, "qk"), r.docker_works => Seen(p, "dk"),
         r.score # 0 => r.quarkus_runs
  PROVE  EvaluatedRow(row, r) \in Row /\ OwnRow(EvaluatedRow(row, r), p)
<1>1. r.quarkus_runs \in BOOLEAN /\ r.docker_works \in BOOLEAN
  BY DEF Rec
<1> QED
  BY <1>1, EvaluatedRowType DEF OwnRow

\* Results, rows and what is said of them are kept.
LEMMA FoundStep ==
  ASSUME TypeOK, DaemonTypes, ResultTypes, Control, Boxes, Found, CellsAreOwn, [Next]_vars
  PROVE  ResultTypes' /\ Found' /\ CellsAreOwn'
<1>0. /\ res \in Res /\ rec \in Rec /\ NoRes \in Res /\ NoRec \in Rec
      /\ rows = <<>> \/ rows \in [Problem -> Row]
      /\ raised \in {"no", "error", "interrupt"} /\ exit \in {0, 1, Unknown}
      /\ \A p, x : Seen(p, x) => Seen(p, x)'
  <2>1. NoRes \in Res /\ NoRec \in Rec
    BY Constants
  <2>2. \A p, x : Seen(p, x) => Seen(p, x)'
    BY Monotone DEF Seen
  <2> QED
    BY <2>1, <2>2 DEF ResultTypes
<1>1. CellsAreOwn <=> \A p \in DOMAIN rows : OwnRow(rows[p], p)
  BY DEF CellsAreOwn, OwnRow, Seen
<1>2. CellsAreOwn' <=>
        \A p \in DOMAIN rows' : /\ rows'[p].quarkus_runs = TRUE => Seen(p, "qk")'
                                /\ rows'[p].docker_works = TRUE => Seen(p, "dk")'
                                /\ rows'[p].score \in {1, 2} => rows'[p].quarkus_runs = TRUE
  BY DEF CellsAreOwn, Seen
<1>4. rows' = rows => CellsAreOwn'
  <2>1. SUFFICES ASSUME rows' = rows, NEW p \in DOMAIN rows'
                 PROVE  /\ rows'[p].quarkus_runs = TRUE => Seen(p, "qk")'
                        /\ rows'[p].docker_works = TRUE => Seen(p, "dk")'
                        /\ rows'[p].score \in {1, 2} => rows'[p].quarkus_runs = TRUE
    BY <1>2, Zenon
  <2>2. OwnRow(rows'[p], p)
    BY <1>1, <2>1
  <2> QED
    BY <1>0, <2>2 DEF OwnRow, Seen
<1>5. ASSUME UNCHANGED <<i, stage, res, rec, rows>>, InStage' => InStage,
             step' = "row" => InStage \/ step = "row", step' \notin Quiet => step \notin Quiet,
             step' = "probe" => step = "probe",
             raised' \in {"no", "error", "interrupt"}, exit' \in {0, 1, Unknown}
      PROVE  ResultTypes' /\ Found' /\ CellsAreOwn'
  <2>1. ResultTypes'
    BY <1>0, <1>5 DEF ResultTypes
  <2>2. Found'
    BY <1>0, <1>5 DEF Found, Quiet
  <2> QED
    BY <1>4, <1>5, <2>1, <2>2
<1>6. CASE WriteSummary \/ WriteTable
  <2>1. /\ UNCHANGED <<i, stage, res, rec, rows>> /\ raised' \in {raised, "error"}
        /\ step' \in {"gate", "over", "left"} /\ exit' \in {0, 1, exit}
    BY <1>6 DEF WriteSummary, WriteTable, Goto, Raise, End
  <2> QED
    BY <1>0, <1>5, <2>1 DEF InStage, Quiet
<1>7. CASE Gate
  <2>1. CASE End
    BY <1>0, <1>5, <2>1 DEF End, InStage, Quiet
  <2>2. CASE /\ step' = "next" /\ UNCHANGED <<stage, i, rec, res, raised, exit>>
             /\ rows' = [p \in Problem |-> BenchmarkFromResult(ResultOf(p))]
    <3>1. \A p \in Problem : /\ rows'[p] \in Row
                            /\ rows'[p].quarkus_runs = Unknown
                            /\ rows'[p].docker_works = Unknown
                            /\ rows'[p].score = Unknown
      BY <2>2, FirstRowType
    <3>2. rows' \in [Problem -> Row]
      BY <2>2, <3>1
    <3>3. Unknown # TRUE /\ Unknown \notin {1, 2}
      <4>1. TRUE \in BOOLEAN /\ 1 \in Nat /\ 2 \in Nat
        OBVIOUS
      <4> QED
        BY <4>1, BenchmarkAssumption, Zenon
    <3>4. CellsAreOwn'
      BY <3>1, <3>2, <3>3 DEF CellsAreOwn
    <3>5. ResultTypes' /\ Found'
      BY <1>0, <2>2, <3>2 DEF ResultTypes, Found, InStage
    <3> QED
      BY <3>4, <3>5
  <2> QED
    BY <1>7, <2>1, <2>2 DEF Gate
<1>8. ASSUME NEW p \in Problem, NEW r \in Rec, rows \in [Problem -> Row],
             rows' = [rows EXCEPT ![p] = EvaluatedRow(rows[p], r)],
             r.quarkus_runs => Seen(p, "qk"), r.docker_works => Seen(p, "dk"),
             r.score # 0 => r.quarkus_runs
      PROVE  rows' \in [Problem -> Row] /\ CellsAreOwn'
  <2>1. EvaluatedRow(rows[p], r) \in Row /\ OwnRow(EvaluatedRow(rows[p], r), p)
    BY <1>8, OwnEvaluatedRow
  <2>2. rows' \in [Problem -> Row]
    BY <1>8, <2>1
  <2>3. \A q \in Problem : OwnRow(rows'[q], q)
    BY <1>1, <1>8, <2>1
  <2>4. DOMAIN rows' = Problem
    BY <2>2
  <2>5. ASSUME NEW q \in DOMAIN rows'
        PROVE  /\ rows'[q].quarkus_runs = TRUE => Seen(q, "qk")'
               /\ rows'[q].docker_works = TRUE => Seen(q, "dk")'
               /\ rows'[q].score \in {1, 2} => rows'[q].quarkus_runs = TRUE
    <3>1. OwnRow(rows'[q], q)
      BY <2>3, <2>4, <2>5
    <3> QED
      BY <1>0, <3>1 DEF OwnRow, Seen
  <2> QED
    BY <1>2, <2>2, <2>5, Zenon
<1>9. CASE NextProject
  <2>1. /\ step = "next" /\ i' \in Problem /\ rows \in [Problem -> Row]
        /\ UNCHANGED <<raised, exit>>
    <3>1. i' \in Problem
      BY <1>9, BenchmarkAssumption DEF NextProject, TypeOK, Problem
    <3> QED
      BY <1>9, <3>1 DEF NextProject, Found
  <2>2. CASE step' = "package" /\ rec' = NoRec /\ res' = NoRes /\ UNCHANGED rows
    <3>1. ~NoRes.started /\ NoRes.score = 0
          /\ ~NoRec.quarkus_runs /\ ~NoRec.docker_works /\ NoRec.score = 0
      BY DEF NoRes, NoRec
    <3> QED
      BY <1>0, <1>4, <2>1, <2>2, <3>1 DEF ResultTypes, Found
  <2>3. CASE rows' = [rows EXCEPT ![i'] = EvaluatedRow(@, NoRec)]
             /\ UNCHANGED <<step, stage, rec, res>>
    <3>1. ~NoRec.quarkus_runs /\ ~NoRec.docker_works /\ NoRec.score = 0
      BY DEF NoRec
    <3>2. rows' \in [Problem -> Row] /\ CellsAreOwn'
      BY <1>0, <1>8, <2>1, <2>3, <3>1
    <3> QED
      BY <1>0, <2>1, <2>3, <3>2 DEF ResultTypes, Found, InStage
  <2> QED
    BY <1>9, <2>2, <2>3 DEF NextProject
<1>10. CASE WriteRow
  <2>1. /\ step = "row" /\ step' = "next" /\ UNCHANGED <<i, rec, res, raised, exit>>
        /\ rows' = [rows EXCEPT ![i] = EvaluatedRow(rows[i], rec)]
        /\ i \in Problem /\ rows \in [Problem -> Row]
    BY <1>10 DEF WriteRow, Control, Found
  <2>2. rows' \in [Problem -> Row] /\ CellsAreOwn'
    BY <1>0, <1>8, <2>1 DEF Found
  <2> QED
    BY <1>0, <2>1, <2>2 DEF ResultTypes, Found, InStage
<1>11. CASE Package \/ Clear \/ Run \/ TearDown
  <2>1. /\ UNCHANGED <<i, stage, res, rec, rows, exit>> /\ raised' \in {raised, "error"}
        /\ InStage /\ step \notin Quiet /\ step' \notin {"row", "probe"}
    BY <1>11 DEF Package, Clear, Run, TearDown, Goto, Raise, InStage, Quiet
  <2> QED
    BY <1>0, <1>5, <2>1
<1>12. CASE ClearImage \/ Build \/ ReadLogs \/ Untag
  <2>1. /\ UNCHANGED <<i, stage, res, rec, rows, exit>> /\ raised' \in {raised, "error"}
        /\ InStage /\ step \notin Quiet /\ step' \notin {"row", "probe"}
    BY <1>12 DEF ClearImage, Build, ReadLogs, Untag, Goto, Raise, InStage, Quiet
  <2> QED
    BY <1>0, <1>5, <2>1
<1>13. CASE Poll
  <2>1. CASE Goto(IF stage = "qk" THEN "remove" ELSE "logs")
    BY <1>0, <1>5, <1>13, <2>1 DEF Poll, Goto, InStage, Quiet
  <2>2. CASE /\ box[ThisBox].log
             /\ res' = [res EXCEPT !.started = TRUE]
             /\ fresh' = IF box[ThisBox].own THEN fresh \cup {ThisBox} ELSE fresh
             /\ step' = IF stage = "qk" THEN "probe" ELSE "logs"
             /\ UNCHANGED <<stage, i, rows, rec, raised, exit, mishaps, abandoned>>
    <3>1. step = "poll" /\ InStage /\ ThisBox \in Name
      BY <1>13, ThisName DEF Poll, InStage
    <3>2. box[ThisBox].there
      BY <2>2, <3>1 DEF Boxes, Gone
    <3>3. Seen(i, stage)'
      BY <2>2, <3>1, <3>2 DEF Boxes, Seen, ThisBox
    <3>4. res' \in Res /\ res'.started /\ res'.score = res.score
      BY <1>0, <2>2 DEF Res
    <3>5. ResultTypes'
      BY <1>0, <2>2, <3>4 DEF ResultTypes
    <3>6. Found'
      BY <1>0, <2>2, <3>1, <3>3, <3>4 DEF Found
    <3> QED
      BY <1>4, <2>2, <3>5, <3>6
  <2> QED
    BY <1>13, <2>1, <2>2 DEF Poll
<1>14. CASE ProbeStep
  <2>1. /\ step = "probe" /\ step' = "remove" /\ InStage
        /\ UNCHANGED <<stage, i, rows, rec, exit>>
        /\ raised' \in {raised, "error"}
    BY <1>14 DEF ProbeStep, InStage
  <2>2. CASE UNCHANGED res
    BY <1>0, <1>5, <2>1, <2>2 DEF Quiet
  <2>3. CASE res' # res
    <3>1. PICK answers \in [ToSet(batch.endpoints[i]) -> Answer] :
             LET endpoints == batch.endpoints[i]
                 ok == ProbeEndpoints(endpoints, answers).ok
             IN res' = [res EXCEPT !.score = Score(ok, Len(endpoints)),
                                   !.solve_ok = SolveOk(endpoints, answers)]
      BY <1>14, <2>3 DEF ProbeStep
    <3> DEFINE score == Score(ProbeEndpoints(batch.endpoints[i], answers).ok,
                              Len(batch.endpoints[i]))
               solve == SolveOk(batch.endpoints[i], answers)
    <3>2. score \in 0..2
      BY Constants
    <3>3. solve \in BOOLEAN
      BY DEF SolveOk
    <3>4. res' = [res EXCEPT !.score = score, !.solve_ok = solve]
      BY <3>1
    <3> HIDE DEF score, solve
    <3>5. res' \in Res /\ res'.started = res.started
      BY <1>0, <3>2, <3>3, <3>4 DEF Res
    <3>6. ResultTypes'
      BY <1>0, <2>1, <3>5 DEF ResultTypes
    <3>7. Found'
      BY <1>0, <2>1, <3>5 DEF Found
    <3> QED
      BY <1>4, <2>1, <3>6, <3>7
  <2> QED
    BY <2>2, <2>3
<1>15. CASE EndStage
  <2>1. /\ step = "end" /\ step' \in {"left", "image", "row"} /\ raised' \in {raised, "no"}
    BY <1>15 DEF EndStage
  <2>2. /\ rec' \in Rec /\ res' \in Res /\ UNCHANGED <<i, rows, exit>>
        /\ step' # "left" => /\ rec'.quarkus_runs => Seen(i, "qk")
                             /\ rec'.docker_works => Seen(i, "dk")
                             /\ rec'.score # 0 => rec'.quarkus_runs
                             /\ res' = NoRes
    BY <1>15, EndStageEffect
  <2>3. ~NoRes.started /\ NoRes.score = 0
    BY DEF NoRes
  <2>4. ResultTypes'
    BY <1>0, <2>1, <2>2 DEF ResultTypes
  <2>5. Found'
    BY <1>0, <2>1, <2>2, <2>3 DEF Found, InStage
  <2> QED
    BY <1>4, <2>2, <2>4, <2>5
<1>16. CASE Interrupt
  <2>1. /\ UNCHANGED <<stage, i, rows, rec, res, exit>> /\ raised' = "interrupt"
        /\ step \notin {"over", "left"}
        /\ IF step \in {"summary", "gate", "next", "row"} THEN step' = "left"
           ELSE step' \in {"remove", "untag", "end", "left"}
    BY <1>16 DEF Interrupt, Handler
  <2>2. InStage' => InStage
    BY <2>1 DEF InStage, TypeOK
  <2> QED
    BY <1>5, <1>0, <2>1, <2>2 DEF Quiet
<1>17. CASE UNCHANGED thread
  <2>1. UNCHANGED <<i, stage, res, rec, rows, step, raised, exit>>
    BY <1>17 DEF thread
  <2>2. InStage' <=> InStage
    BY <2>1 DEF InStage
  <2> QED
    BY <1>0, <1>5, <2>1, <2>2
<1> QED
  BY <1>6, <1>7, <1>9, <1>10, <1>11, <1>12, <1>13, <1>14, <1>15, <1>16, <1>17
     DEF Next, Main, LateDone, vars

-----------------------------------------------------------------------------
(* The requests of a probe                                                 *)

\* The elements of endpoints that are in fit, one after the other.
Keeping(t, endpoints, fit, S) ==
    /\ t \in [0..Len(endpoints) -> Seq(S)]
    /\ t[0] = <<>> /\ t[Len(endpoints)] = Only(endpoints, fit)
    /\ \A k \in 1..Len(endpoints) :
         t[k] = IF endpoints[k] \in fit THEN Append(t[k - 1], endpoints[k]) ELSE t[k - 1]

\* That is how Only takes them.
LEMMA OnlyTrace ==
  ASSUME NEW S, NEW endpoints \in Seq(S), NEW fit
  PROVE  \E t : Keeping(t, endpoints, fit, S)
<1> DEFINE n == Len(endpoints)
           A == Seq(S)
           base == <<>>
           Keep(kept, e) == IF e \in fit THEN Append(kept, e) ELSE kept
           op == [p \in (1..n) \X A |-> Keep(p[2], endpoints[p[1]])]
           Equation(g) == g = [s \in SUBSET DOMAIN endpoints |->
                                IF s = {} THEN <<>>
                                ELSE Keep(g[s \ {Max(s)}], endpoints[Max(s)])]
           fold == CHOOSE g : Equation(g)
<1>1. n \in Nat /\ DOMAIN endpoints = 1..n /\ \A k \in 1..n : endpoints[k] \in S
  BY LenProperties
<1>2. <<>> \in A /\ \A k \in 1..n, kept \in A : Keep(kept, endpoints[k]) \in A
  BY <1>1
<1>3. op \in [(1..n) \X A -> A]
  <2> HIDE DEF A, n, Keep
  <2> QED
    BY <1>2
<1>4. \A k \in 1..n, kept \in A : op[<<k, kept>>] = Keep(kept, endpoints[k])
  <2> HIDE DEF A, n, Keep
  <2> QED
    OBVIOUS
<1>5. PICK g : FoldsAlong(g, n, A, base, op)
  <2>1. base \in A
    BY <1>2
  <2> HIDE DEF A, n, op, base
  <2> QED
    BY <1>1, <1>3, <2>1, FoldAlongExists
<1>6. Equation(g)
  <2>1. \A s \in SUBSET (1..n) : s # {} => Max(s) \in 1..n /\ g[s \ {Max(s)}] \in A
    BY <1>1, <1>5, MaxOfSome DEF FoldsAlong
  <2> HIDE DEF A, n, Keep, op
  <2> QED
    BY <1>1, <1>4, <1>5, <2>1 DEF FoldsAlong
<1>7. Equation(fold)
  BY <1>6
<1>8. Only(endpoints, fit) = fold[1..n]
  BY <1>1 DEF Only, FoldLeft, MapThenFoldSet
<1>9. PICK t : IsTrace(t, fold, n, A, base, op)
  <2>1. fold[{}] = base /\ base \in A
    BY <1>2, <1>7
  <2>2. ASSUME NEW s \in SUBSET (1..n), s # {}, fold[s \ {Max(s)}] \in A
        PROVE  fold[s] = op[<<Max(s), fold[s \ {Max(s)}]>>]
    <3>1. Max(s) \in 1..n
      BY <1>1, <2>2, MaxOfSome
    <3>2. fold[s] = Keep(fold[s \ {Max(s)}], endpoints[Max(s)])
      <4> HIDE DEF fold, Keep
      <4> QED
        BY <1>1, <1>7, <2>2
    <3> HIDE DEF fold, Keep, op, A, n
    <3> QED
      BY <1>4, <2>2, <3>1, <3>2
  <2>3. Solves(fold, n, A, base, op)
    <3> HIDE DEF A, n, op, fold, base
    <3> QED
      BY <2>1, <2>2 DEF Solves
  <2>4. n \in Nat /\ base \in A
    BY <1>1, <2>1
  <2> HIDE DEF A, n, op, fold, base
  <2> QED
    BY <1>3, <2>3, <2>4, Trace
<1>10. ASSUME NEW k \in 1..n PROVE t[k] = Keep(t[k - 1], endpoints[k])
  <2>1. k - 1 \in 0..n /\ t[k - 1] \in A /\ t[k] = op[<<k, t[k - 1]>>]
    <3> HIDE DEF n, A, base, op, fold
    <3> QED
      BY <1>1, <1>9 DEF IsTrace
  <2> HIDE DEF op, Keep, A
  <2> QED
    BY <1>4, <2>1
<1>11. t \in [0..n -> A] /\ t[0] = <<>> /\ t[n] = fold[1..n]
  BY <1>9 DEF IsTrace
<1> HIDE DEF op, fold
<1> QED
  BY <1>8, <1>10, <1>11 DEF Keeping

\* They are as many as their places, and no others.
LEMMA OnlyKeeps ==
  ASSUME NEW S, NEW endpoints \in Seq(S), NEW fit
  PROVE  /\ Only(endpoints, fit) \in Seq(S)
         /\ ToSet(Only(endpoints, fit)) = ToSet(endpoints) \cap fit
         /\ Len(Only(endpoints, fit))
              = Cardinality({k \in 1..Len(endpoints) : endpoints[k] \in fit})
<1> DEFINE n == Len(endpoints)
           At(k) == {j \in 1..k : endpoints[j] \in fit}
           Keeps(s, k) == ToSet(s) = {endpoints[j] : j \in At(k)} /\ Len(s) = Cardinality(At(k))
<1>0. PICK t : Keeping(t, endpoints, fit, S)
  BY OnlyTrace
<1>1. /\ t \in [0..n -> Seq(S)]
      /\ t[0] = <<>> /\ t[n] = Only(endpoints, fit)
      /\ \A k \in 1..n : t[k] = IF endpoints[k] \in fit
                               THEN Append(t[k - 1], endpoints[k]) ELSE t[k - 1]
  BY <1>0 DEF Keeping
<1> DEFINE T == {k \in Nat : k <= n => Keeps(t[k], k)}
<1>2. n \in Nat /\ DOMAIN endpoints = 1..n /\ \A k \in 1..n : endpoints[k] \in S
  BY LenProperties
<1>3. Keeps(t[0], 0)
  <2>1. At(0) = {}
    OBVIOUS
  <2>2. ToSet(<<>>) = {} /\ Len(<<>>) = 0
    BY DEF ToSet
  <2> HIDE DEF At
  <2> QED
    BY <1>1, <2>1, <2>2, FS_EmptySet
<1>4. ASSUME NEW k \in 1..n, Keeps(t[k - 1], k - 1) PROVE Keeps(t[k], k)
  <2> DEFINE s == t[k - 1]
             e == endpoints[k]
  <2>1. s \in Seq(S) /\ e \in S /\ k - 1 \in Nat
    BY <1>1, <1>2
  <2>2. CASE e \in fit
    <3>1. t[k] = Append(s, e)
      BY <1>1, <2>2
    <3>2. At(k) = At(k - 1) \cup {k} /\ k \notin At(k - 1)
      BY <2>2
    <3>3. IsFiniteSet(At(k - 1))
      <4>1. At(k - 1) \in SUBSET (1..(k - 1))
        OBVIOUS
      <4>2. IsFiniteSet(1..(k - 1))
        BY <2>1, FS_Interval
      <4> HIDE DEF At
      <4> QED
        BY <4>1, <4>2, FS_Subset
    <3>4. Cardinality(At(k)) = Cardinality(At(k - 1)) + 1
      <4> HIDE DEF At
      <4> QED
        BY <3>2, <3>3, FS_AddElement
    <3>5. /\ Len(Append(s, e)) = Len(s) + 1 /\ Len(s) \in Nat
          /\ DOMAIN s = 1..Len(s) /\ DOMAIN Append(s, e) = 1..(Len(s) + 1)
          /\ \A j \in 1..Len(s) : Append(s, e)[j] = s[j]
          /\ Append(s, e)[Len(s) + 1] = e
      <4> HIDE DEF s, e
      <4>1. Append(s, e) \in Seq(S) /\ Len(Append(s, e)) = Len(s) + 1
        BY <2>1, AppendProperties
      <4> QED
        BY <2>1, <4>1, AppendProperties, LenProperties
    <3>6. ToSet(Append(s, e)) = ToSet(s) \cup {e}
      <4> HIDE DEF s, e
      <4> QED
        BY <3>5 DEF ToSet
    <3>7. {endpoints[j] : j \in At(k)} = {endpoints[j] : j \in At(k - 1)} \cup {e}
      <4> HIDE DEF At
      <4> QED
        BY <3>2
    <3> HIDE DEF At, s, e
    <3> QED
      BY <1>4, <3>1, <3>4, <3>5, <3>6, <3>7 DEF s
  <2>3. CASE e \notin fit
    <3>1. t[k] = s /\ At(k) = At(k - 1)
      BY <1>1, <2>3
    <3> HIDE DEF At
    <3> QED
      BY <1>4, <3>1
  <2> QED
    BY <2>2, <2>3
<1>5. ASSUME NEW k \in Nat, k \in T PROVE k + 1 \in T
  <2> SUFFICES ASSUME k + 1 <= n PROVE Keeps(t[k + 1], k + 1)
    OBVIOUS
  <2> DEFINE m == k + 1
  <2>1. m \in 1..n /\ m - 1 = k /\ Keeps(t[k], k)
    BY <1>5
  <2> HIDE DEF m, Keeps
  <2>2. Keeps(t[m - 1], m - 1)
    BY <2>1
  <2>3. Keeps(t[m], m)
    BY <1>4, <2>1, <2>2
  <2> QED
    BY <2>3 DEF m
<1>6. n \in T
  <2>1. 0 \in T
    BY <1>3
  <2>2. Nat \subseteq T
    <3> HIDE DEF T
    <3> QED
      BY <1>5, <2>1, Induction
  <2> QED
    BY <1>2, <2>2
<1>7. Keeps(t[n], n)
  <2> HIDE DEF Keeps
  <2> QED
    BY <1>2, <1>6
<1>8. {endpoints[j] : j \in At(n)} = ToSet(endpoints) \cap fit
  BY <1>2 DEF ToSet
<1> QED
  BY <1>1, <1>2, <1>7, <1>8

Request == [endpoint : Endpoint, body : {"none", "problem", "{}"},
            job : {"none", "job", "1"}]
Asks == [asked : Seq(Request), ok : Nat, problem : BOOLEAN, job : BOOLEAN]

\* One request leads to the next.
LEMMA AskNextType ==
  ASSUME NEW s \in Asks, NEW e \in Endpoint, NEW generate, NEW solve, NEW answer
  PROVE  AskNext(s, e, generate, solve, answer) \in Asks
<1>1. Asked(e, s.problem, s.job) \in Request
  BY DEF Asked, Request
<1>2. Append(s.asked, Asked(e, s.problem, s.job)) \in Seq(Request)
  BY <1>1, AppendProperties DEF Asks
<1>3. (IF answer = "refused" THEN s.ok ELSE s.ok + 1) \in Nat
  BY DEF Asks
<1>4. /\ (s.problem \/ (<<e>> = generate /\ answer = "text")) \in BOOLEAN
      /\ (s.job \/ (<<e>> = solve /\ answer = "text")) \in BOOLEAN
  BY DEF Asks
<1> QED
  BY <1>2, <1>3, <1>4 DEF AskNext, Asks

\* What there is after all requests to the endpoints of es.
AllAsked(es, generate, solve, answers) ==
    FoldLeft(LAMBDA s, e : AskNext(s, e, generate, solve, answers[e]), NothingAsked, es)

\* The requests, one after the other.
Asking(t, es, generate, solve, answers) ==
    /\ t \in [0..Len(es) -> Asks]
    /\ t[0] = NothingAsked
    /\ t[Len(es)] = AllAsked(es, generate, solve, answers)
    /\ \A k \in 1..Len(es) :
         t[k] = AskNext(t[k - 1], es[k], generate, solve, answers[es[k]])

\* That is how they are made.
LEMMA AskTrace ==
  ASSUME NEW es \in Seq(Endpoint), NEW generate, NEW solve, NEW answers
  PROVE  \E t : Asking(t, es, generate, solve, answers)
<1> DEFINE n == Len(es)
           base == NothingAsked
           Ask(s, e) == AskNext(s, e, generate, solve, answers[e])
           op == [p \in (1..n) \X Asks |-> Ask(p[2], es[p[1]])]
           Equation(g) == g = [s \in SUBSET DOMAIN es |->
                                IF s = {} THEN base ELSE Ask(g[s \ {Max(s)}], es[Max(s)])]
           fold == CHOOSE g : Equation(g)
<1>1. n \in Nat /\ DOMAIN es = 1..n /\ \A k \in 1..n : es[k] \in Endpoint
  BY LenProperties
<1>2. base \in Asks /\ \A k \in 1..n, s \in Asks : Ask(s, es[k]) \in Asks
  <2>1. base \in Asks
    BY EmptySeq DEF NothingAsked, Asks
  <2> QED
    BY <1>1, <2>1, AskNextType
<1>3. op \in [(1..n) \X Asks -> Asks]
  <2> HIDE DEF n, Ask
  <2> QED
    BY <1>2
<1>4. \A k \in 1..n, s \in Asks : op[<<k, s>>] = Ask(s, es[k])
  <2> HIDE DEF n, Ask
  <2> QED
    OBVIOUS
<1>5. PICK g : FoldsAlong(g, n, Asks, base, op)
  <2> HIDE DEF n, op, base
  <2> QED
    BY <1>1, <1>2, <1>3, FoldAlongExists
<1>6. Equation(g)
  <2>1. \A s \in SUBSET (1..n) : s # {} => Max(s) \in 1..n /\ g[s \ {Max(s)}] \in Asks
    BY <1>1, <1>5, MaxOfSome DEF FoldsAlong
  <2> HIDE DEF n, Ask, op, base
  <2> QED
    BY <1>1, <1>4, <1>5, <2>1 DEF FoldsAlong
<1>7. Equation(fold)
  BY <1>6
<1>8. AllAsked(es, generate, solve, answers) = fold[1..n]
  BY <1>1 DEF AllAsked, FoldLeft, MapThenFoldSet
<1>9. PICK t : IsTrace(t, fold, n, Asks, base, op)
  <2>1. fold[{}] = base
    BY <1>7
  <2>2. ASSUME NEW s \in SUBSET (1..n), s # {}, fold[s \ {Max(s)}] \in Asks
        PROVE  fold[s] = op[<<Max(s), fold[s \ {Max(s)}]>>]
    <3>1. Max(s) \in 1..n
      BY <1>1, <2>2, MaxOfSome
    <3>2. fold[s] = Ask(fold[s \ {Max(s)}], es[Max(s)])
      <4> HIDE DEF fold, Ask
      <4> QED
        BY <1>1, <1>7, <2>2
    <3> HIDE DEF fold, Ask, op, n
    <3> QED
      BY <1>4, <2>2, <3>1, <3>2
  <2>3. Solves(fold, n, Asks, base, op)
    <3> HIDE DEF n, op, fold, base
    <3> QED
      BY <2>1, <2>2 DEF Solves
  <2> HIDE DEF n, op, fold, base
  <2> QED
    BY <1>1, <1>2, <1>3, <2>3, Trace
<1>10. ASSUME NEW k \in 1..n PROVE t[k] = Ask(t[k - 1], es[k])
  <2>1. k - 1 \in 0..n /\ t[k - 1] \in Asks /\ t[k] = op[<<k, t[k - 1]>>]
    <3> HIDE DEF n, base, op, fold
    <3> QED
      BY <1>1, <1>9 DEF IsTrace
  <2> HIDE DEF op, Ask
  <2> QED
    BY <1>4, <2>1
<1>11. t \in [0..n -> Asks] /\ t[0] = base /\ t[n] = fold[1..n]
  BY <1>9 DEF IsTrace
<1> HIDE DEF op, fold
<1> QED
  BY <1>8, <1>10, <1>11 DEF Asking

\* What was asked after k requests, and what there was to ask with.
LEMMA AskedSoFar ==
  ASSUME NEW es \in Seq(Endpoint), NEW generate, NEW solve, NEW answers, NEW t,
         Asking(t, es, generate, solve, answers), NEW k \in 0..Len(es)
  PROVE  /\ Len(t[k].asked) = k
         /\ \A j \in 1..k :
              /\ t[k].asked[j] = Asked(es[j], t[j - 1].problem, t[j - 1].job)
              /\ <<es[j]>> = generate /\ answers[es[j]] = "text" => t[k].problem
              /\ <<es[j]>> = solve /\ answers[es[j]] = "text" => t[k].job
<1> DEFINE n == Len(es)
           This(m, j) ==
              /\ t[m].asked[j] = Asked(es[j], t[j - 1].problem, t[j - 1].job)
              /\ <<es[j]>> = generate /\ answers[es[j]] = "text" => t[m].problem
              /\ <<es[j]>> = solve /\ answers[es[j]] = "text" => t[m].job
           So(m) == Len(t[m].asked) = m /\ \A j \in 1..m : This(m, j)
           T == {m \in Nat : m <= n => So(m)}
<1>1. n \in Nat /\ \A m \in 1..n : es[m] \in Endpoint
  BY LenProperties
<1>2. So(0)
  <2>1. t[0].asked = <<>>
    BY DEF Asking, NothingAsked
  <2> QED
    BY <2>1
<1>3. ASSUME NEW m \in 1..n, So(m - 1) PROVE So(m)
  <2> DEFINE s == t[m - 1]
             e == es[m]
             a == Asked(e, s.problem, s.job)
             problem == s.problem \/ (<<e>> = generate /\ answers[e] = "text")
             job == s.job \/ (<<e>> = solve /\ answers[e] = "text")
  <2>1. t[m] = AskNext(s, e, generate, solve, answers[e]) /\ s \in Asks /\ m - 1 \in Nat
    BY DEF Asking
  <2>2. s.asked \in Seq(Request) /\ a \in Request
    BY <1>1, <2>1 DEF Asks, Asked, Request
  <2>3. /\ t[m].asked = Append(s.asked, a)
        /\ s.problem => t[m].problem
        /\ s.job => t[m].job
        /\ <<e>> = generate /\ answers[e] = "text" => t[m].problem
        /\ <<e>> = solve /\ answers[e] = "text" => t[m].job
    <3>1. problem \in BOOLEAN /\ job \in BOOLEAN
      BY <2>1 DEF Asks
    <3>2. t[m].asked = Append(s.asked, a) /\ t[m].problem = problem /\ t[m].job = job
      <4>1. t[m] = [asked |-> Append(s.asked, a),
                    ok |-> IF answers[e] = "refused" THEN s.ok ELSE s.ok + 1,
                    problem |-> problem, job |-> job]
        BY <2>1 DEF AskNext
      <4> HIDE DEF problem, job, a
      <4> QED
        BY <4>1
    <3> QED
      BY <3>1, <3>2
  <2>4. /\ Len(s.asked) = m - 1 /\ Len(t[m].asked) = m
        /\ \A j \in 1..(m - 1) : t[m].asked[j] = s.asked[j]
        /\ t[m].asked[m] = a
    <3>1. Len(s.asked) = m - 1
      BY <1>3
    <3> HIDE DEF a, s
    <3> QED
      BY <2>1, <2>2, <2>3, <3>1, AppendProperties
  <2>5. ASSUME NEW j \in 1..m PROVE This(m, j)
    <3>1. CASE j = m
      BY <2>3, <2>4, <3>1
    <3>2. CASE j # m
      <4>1. j \in 1..(m - 1)
        BY <3>2
      <4>2. This(m - 1, j)
        BY <1>3, <4>1
      <4> QED
        BY <2>3, <2>4, <4>1, <4>2
    <3> QED
      BY <3>1, <3>2
  <2> HIDE DEF This
  <2> QED
    BY <2>4, <2>5
<1>4. ASSUME NEW m \in Nat, m \in T PROVE m + 1 \in T
  <2> SUFFICES ASSUME m + 1 <= n PROVE So(m + 1)
    OBVIOUS
  <2> DEFINE l == m + 1
  <2>1. l \in 1..n /\ l - 1 = m /\ So(m)
    BY <1>4
  <2> HIDE DEF l, So
  <2>2. So(l - 1)
    BY <2>1
  <2>3. So(l)
    BY <1>3, <2>1, <2>2
  <2> QED
    BY <2>3 DEF l
<1>5. k \in T
  <2>1. 0 \in T
    BY <1>2
  <2>2. Nat \subseteq T
    <3> HIDE DEF T
    <3> QED
      BY <1>4, <2>1, Induction
  <2> QED
    BY <2>2
<1>6. So(k)
  <2> HIDE DEF So
  <2> QED
    BY <1>5
<1> QED
  BY <1>6

\* At most one of the endpoints.
AtMostOne(s, endpoints, fit) ==
    s = <<>> \/ \E k \in 1..Len(endpoints) : endpoints[k] \in fit /\ s = <<endpoints[k]>>

\* That is what First finds.
LEMMA FirstOne ==
  ASSUME NEW S, NEW endpoints \in Seq(S), NEW fit
  PROVE  AtMostOne(First(endpoints, fit), endpoints, fit)
<1> DEFINE hits == {k \in DOMAIN endpoints : endpoints[k] \in fit}
<1>1. Len(endpoints) \in Nat /\ DOMAIN endpoints = 1..Len(endpoints)
  BY LenProperties
<1>2. CASE hits = {}
  BY <1>2 DEF First, AtMostOne
<1>3. CASE hits # {}
  <2>1. hits \subseteq Nat
    BY <1>1
  <2>2. PICK k \in hits : \A l \in hits : k <= l
    <3> HIDE DEF hits
    <3>1. IsWellFoundedOn(Below, Nat)
      BY NatLessThanWellFounded DEF OpToRel, Below
    <3>2. PICK k \in hits : \A l \in hits : <<l, k>> \notin Below
      BY <1>3, <2>1, <3>1, WFMin
    <3>3. \A l, m \in Nat : l < m => <<l, m>> \in Below
      BY DEF Below
    <3>4. ASSUME NEW l \in hits PROVE k <= l
      <4>1. k \in Nat /\ l \in Nat
        BY <2>1
      <4>2. ~(l < k)
        BY <3>2, <3>3, <4>1
      <4> QED
        BY <4>1, <4>2
    <3> QED
      BY <3>4
  <2>3. Min(hits) \in hits
    <3> HIDE DEF hits
    <3> QED
      BY <2>2 DEF Min
  <2>4. Min(hits) \in 1..Len(endpoints) /\ endpoints[Min(hits)] \in fit
    BY <1>1, <2>3
  <2>5. First(endpoints, fit) = <<endpoints[Min(hits)]>>
    BY <1>3 DEF First
  <2> HIDE DEF hits
  <2> QED
    BY <2>4, <2>5 DEF AtMostOne
<1> QED
  BY <1>2, <1>3

Using(method) == {e \in Endpoint : e.method = method}

\* The two that give something to the others are one GET and one POST at most.
LEMMA FoundOnes ==
  ASSUME NEW endpoints \in Seq(Endpoint)
  PROVE  /\ AtMostOne(FindGenerate(endpoints), endpoints, Using("GET"))
         /\ AtMostOne(FindSolve(endpoints), endpoints, Using("POST"))
<1> DEFINE listed == ToSet(endpoints)
<1>1. listed \subseteq Endpoint
  BY LenProperties DEF ToSet
<1>2. ASSUME NEW fit, NEW method, fit \subseteq Using(method)
      PROVE  AtMostOne(First(endpoints, fit), endpoints, Using(method))
  <2>1. AtMostOne(First(endpoints, fit), endpoints, fit)
    BY FirstOne
  <2> QED
    BY <1>2, <2>1 DEF AtMostOne
<1>3. /\ {e \in listed : IsGenerate(e)} \subseteq Using("GET")
      /\ {e \in listed : /\ e.method = "GET" /\ ~e.param
                         /\ "list" \notin e.words} \subseteq Using("GET")
  BY <1>1 DEF IsGenerate, Using
<1>4. /\ {e \in listed : IsSolve(e) /\ ~e.param} \subseteq Using("POST")
      /\ {e \in listed : e.method = "POST" /\ ~e.param} \subseteq Using("POST")
  BY <1>1 DEF IsSolve, Using
<1>5. AtMostOne(FindGenerate(endpoints), endpoints, Using("GET"))
  BY <1>2, <1>3 DEF FindGenerate
<1>6. AtMostOne(FindSolve(endpoints), endpoints, Using("POST"))
  BY <1>2, <1>4 DEF FindSolve
<1> QED
  BY <1>5, <1>6

\* The solve call has no parameter that would ask for a job.
LEMMA SolveIsBare ==
  ASSUME NEW endpoints \in Seq(Endpoint), FindSolve(endpoints) # <<>>
  PROVE  ~Head(FindSolve(endpoints)).param
<1> DEFINE bare == {e \in Endpoint : ~e.param}
<1>1. ToSet(endpoints) \subseteq Endpoint
  BY LenProperties DEF ToSet
<1>2. ASSUME NEW fit, fit \subseteq bare
      PROVE  AtMostOne(First(endpoints, fit), endpoints, bare)
  <2>1. AtMostOne(First(endpoints, fit), endpoints, fit)
    BY FirstOne
  <2> QED
    BY <1>2, <2>1 DEF AtMostOne
<1>3. AtMostOne(FindSolve(endpoints), endpoints, bare)
  BY <1>1, <1>2 DEF FindSolve
<1>4. PICK e \in bare : FindSolve(endpoints) = <<e>>
  BY <1>3 DEF AtMostOne
<1> QED
  BY <1>4

\* The places in endpoints of what is in s.
Places(endpoints, s) == {k \in 1..Len(endpoints) : endpoints[k] \in s}

\* Those of disjoint sets that have it all are all places.
LEMMA PlacesOfAll ==
  ASSUME NEW S, NEW endpoints \in Seq(S), NEW a, NEW b, NEW c,
         a \cap b = {}, a \cap c = {}, b \cap c = {},
         ToSet(endpoints) \subseteq UNION {a, b, c}
  PROVE  Cardinality(Places(endpoints, a)) + Cardinality(Places(endpoints, b))
           + Cardinality(Places(endpoints, c)) = Len(endpoints)
<1> DEFINE n == Len(endpoints)
           A == Places(endpoints, a)
           B == Places(endpoints, b)
           C == Places(endpoints, c)
<1>1. n \in Nat /\ ToSet(endpoints) = {endpoints[k] : k \in 1..n}
  BY LenProperties DEF ToSet
<1>2. IsFiniteSet(1..n) /\ Cardinality(1..n) = n
  BY <1>1, FS_Interval
<1>3. /\ A \subseteq 1..n /\ B \subseteq 1..n /\ C \subseteq 1..n
      /\ (A \cup B) \cup C = 1..n /\ A \cap B = {} /\ (A \cup B) \cap C = {}
  BY <1>1 DEF Places
<1> HIDE DEF A, B, C, n
<1>4. IsFiniteSet(A) /\ IsFiniteSet(B) /\ IsFiniteSet(C)
  BY <1>2, <1>3, FS_Subset
<1>5. /\ IsFiniteSet(A \cup B)
      /\ Cardinality(A \cup B) = Cardinality(A) + Cardinality(B) - Cardinality({})
  BY <1>3, <1>4, FS_Union
<1>6. Cardinality(1..n) = Cardinality(A \cup B) + Cardinality(C) - Cardinality({})
  <2> DEFINE D == A \cup B
  <2>1. IsFiniteSet(D) /\ IsFiniteSet(C) /\ D \cup C = 1..n /\ D \cap C = {}
    BY <1>3, <1>4, <1>5
  <2> HIDE DEF D
  <2>2. Cardinality(D \cup C) = Cardinality(D) + Cardinality(C) - Cardinality(D \cap C)
    BY <2>1, FS_Union
  <2>3. Cardinality(1..n) = Cardinality(D) + Cardinality(C) - Cardinality({})
    BY <2>1, <2>2
  <2> QED
    BY <2>3 DEF D
<1>7. Cardinality(A) \in Nat /\ Cardinality(B) \in Nat /\ Cardinality(C) \in Nat
  BY <1>4, FS_CardinalityType
<1>8. Cardinality({}) = 0
  BY FS_EmptySet
<1>9. Cardinality(A) + Cardinality(B) + Cardinality(C) = n
  BY <1>2, <1>5, <1>6, <1>7, <1>8
<1> QED
  BY <1>9 DEF A, B, C, n

\* What the two first ones are to endpoints.
Leading(first, endpoints) ==
    /\ first \in Seq(Endpoint) /\ ToSet(first) \subseteq ToSet(endpoints)
    /\ Len(first) = Cardinality(Places(endpoints, ToSet(first)))

\* They are in endpoints, each in a place of its own.
LEMMA FirstOnesLead ==
  ASSUME NEW endpoints \in Seq(Endpoint), IsInjective(endpoints),
         NEW generate, AtMostOne(generate, endpoints, Using("GET")),
         NEW solve, AtMostOne(solve, endpoints, Using("POST"))
  PROVE  Leading(generate \o solve, endpoints)
<1>1. /\ Len(endpoints) \in Nat /\ DOMAIN endpoints = 1..Len(endpoints)
      /\ \A k \in 1..Len(endpoints) : endpoints[k] \in Endpoint
      /\ ToSet(endpoints) = {endpoints[k] : k \in 1..Len(endpoints)}
  BY LenProperties DEF ToSet
<1>2. \A k, l \in 1..Len(endpoints) : endpoints[k] = endpoints[l] => k = l
  BY <1>1 DEF IsInjective
<1>3. CASE generate = <<>> /\ solve = <<>>
  <2>1. generate \o solve = <<>>
    BY <1>3
  <2>2. Places(endpoints, ToSet(<<>>)) = {}
    BY DEF Places, ToSet
  <2> QED
    BY <2>1, <2>2, FS_EmptySet, EmptySeq DEF Leading, ToSet
<1>4. ASSUME NEW k \in 1..Len(endpoints)
      PROVE  Leading(<<endpoints[k]>>, endpoints)
  <2>1. ToSet(<<endpoints[k]>>) = {endpoints[k]}
    BY DEF ToSet
  <2>2. Places(endpoints, {endpoints[k]}) = {k}
    BY <1>2 DEF Places
  <2>3. Cardinality({k}) = 1
    BY FS_Singleton
  <2>4. <<endpoints[k]>> \in Seq(Endpoint) /\ Len(<<endpoints[k]>>) = 1
    BY <1>1
  <2> QED
    BY <1>1, <2>1, <2>2, <2>3, <2>4 DEF Leading
<1>5. CASE generate = <<>> /\ solve # <<>>
  <2>1. PICK k \in 1..Len(endpoints) : solve = <<endpoints[k]>>
    BY <1>5 DEF AtMostOne
  <2>2. <<>> \o <<endpoints[k]>> = <<endpoints[k]>>
    BY <1>1, ConcatEmptySeq
  <2> QED
    BY <1>4, <1>5, <2>1, <2>2
<1>6. CASE generate # <<>> /\ solve = <<>>
  <2>1. PICK k \in 1..Len(endpoints) : generate = <<endpoints[k]>>
    BY <1>6 DEF AtMostOne
  <2>2. <<endpoints[k]>> \o <<>> = <<endpoints[k]>>
    BY <1>1, ConcatEmptySeq
  <2> QED
    BY <1>4, <1>6, <2>1, <2>2
<1>7. CASE generate # <<>> /\ solve # <<>>
  <2>1. PICK k \in 1..Len(endpoints) :
               generate = <<endpoints[k]>> /\ endpoints[k] \in Using("GET")
    BY <1>7 DEF AtMostOne
  <2>2. PICK l \in 1..Len(endpoints) :
               solve = <<endpoints[l]>> /\ endpoints[l] \in Using("POST")
    BY <1>7 DEF AtMostOne
  <2>3. generate \o solve = <<endpoints[k], endpoints[l]>>
    <3> DEFINE d == endpoints[k]
               e == endpoints[l]
    <3> HIDE DEF d, e
    <3>1. <<d>> \o <<e>> = <<d, e>>
      <4> DEFINE S == {d, e}
      <4>1. <<d>> \in Seq(S) /\ <<e>> \in Seq(S) /\ <<d, e>> \in Seq(S)
        OBVIOUS
      <4>2. Len(<<d>>) = 1 /\ Len(<<e>>) = 1 /\ Len(<<d, e>>) = 2
        OBVIOUS
      <4>3. /\ <<d>> \o <<e>> \in Seq(S) /\ Len(<<d>> \o <<e>>) = 2
            /\ \A j \in 1..2 : (<<d>> \o <<e>>)[j] = IF j <= 1 THEN <<d>>[j] ELSE <<e>>[j - 1]
        <5> HIDE DEF S
        <5> QED
          BY <4>1, <4>2, ConcatProperties
      <4>4. \A j \in 1..2 : (<<d>> \o <<e>>)[j] = <<d, e>>[j]
        BY <4>3
      <4> HIDE DEF S
      <4> QED
        BY <4>1, <4>2, <4>3, <4>4, SeqEqual
    <3> QED
      BY <2>1, <2>2, <3>1 DEF d, e
  <2>4. k # l
    BY <2>1, <2>2 DEF Using
  <2>5. ToSet(<<endpoints[k], endpoints[l]>>) = {endpoints[k], endpoints[l]}
    BY DEF ToSet
  <2>6. Places(endpoints, {endpoints[k], endpoints[l]}) = {k} \cup {l}
    BY <1>2 DEF Places
  <2>7. Cardinality({k} \cup {l}) = 2
    <3> DEFINE s == {k}
    <3>1. IsFiniteSet(s) /\ Cardinality(s) = 1 /\ l \notin s
      BY <2>4, FS_Singleton
    <3> HIDE DEF s
    <3>2. Cardinality(s \cup {l}) = Cardinality(s) + 1
      BY <3>1, FS_AddElement
    <3>3. Cardinality(s \cup {l}) = 2
      BY <3>1, <3>2
    <3> QED
      BY <3>3 DEF s
  <2>8. /\ <<endpoints[k], endpoints[l]>> \in Seq(Endpoint)
        /\ Len(<<endpoints[k], endpoints[l]>>) = 2
    BY <1>1
  <2> QED
    BY <1>1, <2>3, <2>5, <2>6, <2>7, <2>8 DEF Leading
<1> QED
  BY <1>3, <1>5, <1>6, <1>7

\* es asks the same endpoints: first these, and the stops last.
InOrder(es, endpoints, first) ==
    /\ es \in Seq(Endpoint) /\ Len(es) = Len(endpoints) /\ ToSet(es) = ToSet(endpoints)
    /\ Len(first) \in 0..Len(es) /\ \A k \in 1..Len(first) : es[k] = first[k]
    /\ \A k \in Len(first) + 1 .. Len(es) :
         IsStop(es[k]) => \A j \in k..Len(es) : IsStop(es[j])

\* That is how Ordered puts them.
LEMMA OrderedInOrder ==
  ASSUME NEW endpoints \in Seq(Endpoint), IsInjective(endpoints)
  PROVE  InOrder(Ordered(endpoints), endpoints,
                 FindGenerate(endpoints) \o FindSolve(endpoints))
<1> DEFINE first == FindGenerate(endpoints) \o FindSolve(endpoints)
           others == ToSet(endpoints) \ ToSet(first)
           stops == {e \in others : IsStop(e)}
           rest == others \ stops
           middle == Only(endpoints, rest)
           last == Only(endpoints, stops)
           start == first \o middle
           es == start \o last
<1>1. Leading(first, endpoints)
  <2> HIDE DEF first
  <2>1. /\ AtMostOne(FindGenerate(endpoints), endpoints, Using("GET"))
        /\ AtMostOne(FindSolve(endpoints), endpoints, Using("POST"))
    BY FoundOnes
  <2> QED
    BY <2>1, FirstOnesLead DEF first
<1>2. Ordered(endpoints) = es
  <2>1. ASSUME NEW a, NEW b, NEW c, a \in Seq(Endpoint), b \in Seq(Endpoint),
               c \in Seq(Endpoint)
        PROVE  a \o b \o c = (a \o b) \o c
    OBVIOUS
  <2> QED
    BY DEF Ordered
<1>3. /\ middle \in Seq(Endpoint) /\ ToSet(middle) = rest
      /\ Len(middle) = Cardinality(Places(endpoints, rest))
  <2>1. ToSet(endpoints) \cap rest = rest
    OBVIOUS
  <2> HIDE DEF rest
  <2> QED
    BY <2>1, OnlyKeeps DEF Places
<1>4. /\ last \in Seq(Endpoint) /\ ToSet(last) = stops
      /\ Len(last) = Cardinality(Places(endpoints, stops))
  <2>1. ToSet(endpoints) \cap stops = stops
    OBVIOUS
  <2> HIDE DEF stops
  <2> QED
    BY <2>1, OnlyKeeps DEF Places
<1>5. /\ ToSet(first) \cap rest = {} /\ ToSet(first) \cap stops = {} /\ rest \cap stops = {}
      /\ ToSet(endpoints) = (ToSet(first) \cup rest) \cup stops
  BY <1>1 DEF Leading
<1>6. \A e \in stops : IsStop(e)
  OBVIOUS
<1>7. \A e \in rest : ~IsStop(e)
  OBVIOUS
<1> HIDE DEF first, rest, stops, middle, last
<1>8. Len(first) + Len(middle) + Len(last) = Len(endpoints)
  <2>1. ToSet(endpoints) \subseteq UNION {ToSet(first), rest, stops}
    BY <1>5
  <2> DEFINE p == ToSet(first)
  <2>2. p \cap rest = {} /\ p \cap stops = {} /\ rest \cap stops = {}
    BY <1>5
  <2> HIDE DEF p
  <2>3. Cardinality(Places(endpoints, p)) + Cardinality(Places(endpoints, rest))
          + Cardinality(Places(endpoints, stops)) = Len(endpoints)
    BY <2>1, <2>2, PlacesOfAll DEF p
  <2> QED
    BY <1>1, <1>3, <1>4, <2>3 DEF Leading, p
<1>9. Len(first) \in Nat /\ Len(middle) \in Nat /\ Len(last) \in Nat /\ first \in Seq(Endpoint)
  BY <1>1, <1>3, <1>4, LenProperties DEF Leading
<1>10. /\ start \in Seq(Endpoint) /\ Len(start) = Len(first) + Len(middle)
       /\ \A k \in 1..Len(first) + Len(middle) :
            start[k] = IF k <= Len(first) THEN first[k] ELSE middle[k - Len(first)]
       /\ ToSet(start) = ToSet(first) \cup rest
       /\ \A k \in 1..Len(middle) : middle[k] \in rest
  <2>1. ToSet(start) = ToSet(first) \cup ToSet(middle)
    BY <1>3, <1>9, ConcatSet
  <2>2. \A k \in 1..Len(middle) : middle[k] \in ToSet(middle)
    BY <1>3, ConcatSet
  <2> QED
    BY <1>3, <1>9, <2>1, <2>2, ConcatProperties
<1> HIDE DEF start
<1>11. /\ es \in Seq(Endpoint) /\ Len(es) = Len(start) + Len(last)
       /\ \A k \in 1..Len(start) + Len(last) :
            es[k] = IF k <= Len(start) THEN start[k] ELSE last[k - Len(start)]
       /\ ToSet(es) = ToSet(start) \cup stops
       /\ \A k \in 1..Len(last) : last[k] \in stops
  <2>1. ToSet(es) = ToSet(start) \cup ToSet(last)
    BY <1>4, <1>10, ConcatSet
  <2>2. \A k \in 1..Len(last) : last[k] \in ToSet(last)
    BY <1>4, ConcatSet
  <2>3. start \in Seq(Endpoint) /\ last \in Seq(Endpoint)
    BY <1>4, <1>10
  <2>4. /\ es \in Seq(Endpoint) /\ Len(es) = Len(start) + Len(last)
        /\ \A k \in 1..Len(start) + Len(last) :
             es[k] = IF k <= Len(start) THEN start[k] ELSE last[k - Len(start)]
    BY <2>3, ConcatProperties
  <2>5. ToSet(last) = stops
    BY <1>4
  <2> HIDE DEF es
  <2> QED
    BY <2>1, <2>2, <2>4, <2>5
<1> HIDE DEF es
<1>12. Len(es) = Len(endpoints) /\ ToSet(es) = ToSet(endpoints)
  BY <1>5, <1>8, <1>10, <1>11
<1>13. \A k \in 1..Len(first) : es[k] = first[k]
  BY <1>9, <1>10, <1>11
<1>14. ASSUME NEW k \in Len(first) + 1 .. Len(es), IsStop(es[k]), NEW j \in k..Len(es)
       PROVE  IsStop(es[j])
  <2>1. k > Len(start)
    <3> SUFFICES ASSUME k <= Len(start) PROVE FALSE
      BY <1>9, <1>10
    <3>1. k - Len(first) \in 1..Len(middle) /\ es[k] = middle[k - Len(first)]
      BY <1>9, <1>10, <1>11
    <3>2. es[k] \in rest
      BY <1>10, <3>1
    <3> QED
      BY <1>7, <1>14, <3>2
  <2>2. j - Len(start) \in 1..Len(last) /\ es[j] = last[j - Len(start)]
    BY <1>9, <1>10, <1>11, <2>1
  <2> QED
    BY <1>6, <1>11, <2>2
<1>15. InOrder(es, endpoints, first)
  BY <1>9, <1>10, <1>11, <1>12, <1>13, <1>14 DEF InOrder
<1> QED
  BY <1>2, <1>15 DEF first

\* What there is to give is in the request, and a path without a parameter has no job.
LEMMA AskedWith ==
  ASSUME NEW e, NEW s \in Asks
  PROVE  /\ Asked(e, s.problem, s.job).endpoint = e
         /\ s.problem => Asked(e, s.problem, s.job).body # "{}"
         /\ s.job => Asked(e, s.problem, s.job).job # "1"
         /\ ~e.param => Asked(e, s.problem, s.job).job = "none"
  BY DEF Asked, Asks

\* Whatever is answered, the endpoints of a project are asked in a round trip.
LEMMA EveryRoundTrip ==
  ASSUME NEW endpoints \in Seq(Endpoint), IsInjective(endpoints), NEW answers
  PROVE  RoundTrip(endpoints, answers)
<1> DEFINE generate == FindGenerate(endpoints)
           solve == FindSolve(endpoints)
           first == generate \o solve
           es == Ordered(endpoints)
           n == Len(endpoints)
           asked == ProbeEndpoints(endpoints, answers).asked
<1>1. InOrder(es, endpoints, first)
  BY OrderedInOrder
<1>2. ProbeEndpoints(endpoints, answers) = AllAsked(es, generate, solve, answers)
  BY DEF ProbeEndpoints, AllAsked
<1>3. AtMostOne(generate, endpoints, Using("GET")) /\ AtMostOne(solve, endpoints, Using("POST"))
  BY FoundOnes
<1> HIDE DEF es, generate, solve
<1>4. es \in Seq(Endpoint) /\ Len(es) = n /\ n \in Nat
  BY <1>1, LenProperties DEF InOrder
<1>5. PICK t : Asking(t, es, generate, solve, answers)
  BY <1>4, AskTrace
<1>6. asked = t[n].asked /\ t \in [0..n -> Asks]
  BY <1>2, <1>4, <1>5 DEF Asking
<1> HIDE DEF asked
<1>7. Len(asked) = n /\ \A k \in 1..n : asked[k] = Asked(es[k], t[k - 1].problem, t[k - 1].job)
  <2> DEFINE m == n
  <2>1. m \in 0..Len(es)
    BY <1>4
  <2> HIDE DEF m
  <2>2. /\ Len(t[m].asked) = m
        /\ \A k \in 1..m : t[m].asked[k] = Asked(es[k], t[k - 1].problem, t[k - 1].job)
    BY <1>4, <1>5, <2>1, AskedSoFar
  <2> QED
    BY <1>6, <2>2 DEF m
<1>8. ASSUME NEW k \in 1..n
       PROVE  /\ asked[k].endpoint = es[k]
              /\ t[k - 1].problem => asked[k].body # "{}"
              /\ t[k - 1].job => asked[k].job # "1"
  <2> DEFINE s == t[k - 1]
             e == es[k]
             a == asked[k]
  <2>1. s \in Asks
    BY <1>4, <1>6
  <2>2. a = Asked(e, s.problem, s.job)
    BY <1>7
  <2> HIDE DEF s, e, a
  <2>3. a.endpoint = e
    BY <2>1, <2>2, AskedWith
  <2>4. s.problem => a.body # "{}"
    BY <2>1, <2>2, AskedWith
  <2>5. s.job => a.job # "1"
    BY <2>1, <2>2, AskedWith
  <2> QED
    BY <2>3, <2>4, <2>5 DEF s, e, a
<1>9. DOMAIN asked = 1..n
  <2>1. asked \in Seq(Request)
    BY <1>4, <1>6 DEF Asks
  <2> QED
    BY <1>7, <2>1, LenProperties
<1>10. \A k \in 1..n : asked[k].endpoint = es[k]
  BY <1>8
<1>11. {asked[k].endpoint : k \in DOMAIN asked} = ToSet(endpoints)
  <2>1. ToSet(es) = {es[k] : k \in 1..n}
    BY <1>4, LenProperties DEF ToSet
  <2>2. ToSet(es) = ToSet(endpoints)
    BY <1>1 DEF InOrder
  <2> QED
    BY <1>9, <1>10, <2>1, <2>2
<1>12. /\ generate \in Seq(Endpoint) /\ solve \in Seq(Endpoint)
       /\ generate # <<>> => generate = <<Head(generate)>> /\ Len(generate) = 1
       /\ solve # <<>> => solve = <<Head(solve)>> /\ Len(solve) = 1
  <2>1. \A k \in 1..Len(endpoints) : endpoints[k] \in Endpoint
    BY LenProperties
  <2>2. ASSUME NEW s, NEW fit, AtMostOne(s, endpoints, fit)
        PROVE  s \in Seq(Endpoint) /\ (s # <<>> => s = <<Head(s)>> /\ Len(s) = 1)
    <3>1. CASE s = <<>>
      BY <3>1, EmptySeq
    <3>2. ASSUME NEW e \in Endpoint, s = <<e>>
          PROVE  s \in Seq(Endpoint) /\ s = <<Head(s)>> /\ Len(s) = 1
      BY <3>2
    <3> QED
      BY <2>1, <2>2, <3>1, <3>2 DEF AtMostOne
  <2> QED
    BY <1>3, <2>2
<1>13. /\ Len(first) = Len(generate) + Len(solve) /\ Len(first) \in Nat
       /\ Len(generate) \in Nat /\ Len(solve) \in Nat
       /\ generate # <<>> => first[1] = generate[1]
       /\ solve # <<>> => first[Len(first)] = solve[1]
  BY <1>12, ConcatProperties, LenProperties
<1>14. \A k \in 1..Len(first) :
          first[k] = IF k <= Len(generate) THEN generate[k] ELSE solve[k - Len(generate)]
  BY <1>12, <1>13, ConcatProperties
<1> HIDE DEF first
<1>15. ASSUME NEW k \in 1..Len(first)
       PROVE  <<es[k]>> = generate \/ (<<es[k]>> = solve /\ es[k] = Head(solve))
  <2> DEFINE g == Len(generate)
             v == Len(solve)
  <2>1. es[k] = first[k] /\ first[k] = IF k <= g THEN generate[k] ELSE solve[k - g]
    BY <1>1, <1>14 DEF InOrder
  <2>2. k \in Nat /\ 1 <= k /\ k <= g + v
    BY <1>13
  <2>3. (generate = <<>> /\ g = 0) \/ (generate = <<Head(generate)>> /\ g = 1)
    <3>1. CASE generate = <<>>
      BY <3>1
    <3>2. CASE generate # <<>>
      BY <1>12, <3>2
    <3> QED
      BY <3>1, <3>2
  <2>4. (solve = <<>> /\ v = 0) \/ (solve = <<Head(solve)>> /\ v = 1)
    <3>1. CASE solve = <<>>
      BY <3>1
    <3>2. CASE solve # <<>>
      BY <1>12, <3>2
    <3> QED
      BY <3>1, <3>2
  <2> HIDE DEF g, v
  <2>5. CASE k <= g
    <3>1. g = 1 /\ k = 1
      BY <2>2, <2>3, <2>5
    <3>2. generate = <<Head(generate)>> /\ es[k] = generate[1]
      BY <2>1, <2>3, <2>5, <3>1
    <3> QED
      BY <3>2
  <2>6. CASE ~(k <= g)
    <3>1. v = 1 /\ k - g = 1
      BY <2>2, <2>3, <2>4, <2>6
    <3>2. solve = <<Head(solve)>> /\ es[k] = solve[1]
      BY <2>1, <2>4, <2>6, <3>1
    <3> QED
      BY <3>2
  <2> QED
    BY <2>5, <2>6
<1>16. ASSUME NEW k \in 1..n, generate # <<>>, answers[Head(generate)] = "text"
       PROVE  asked[k].body # "{}"
  <2>1. Len(first) >= 1 /\ <<es[1]>> = generate /\ es[1] = Head(generate)
    <3>1. Len(first) >= 1
      BY <1>12, <1>13, <1>16
    <3>2. es[1] = first[1]
      BY <1>1, <1>13, <3>1 DEF InOrder
    <3>3. generate = <<Head(generate)>> /\ first[1] = generate[1]
      BY <1>12, <1>13, <1>16
    <3> QED
      BY <3>1, <3>2, <3>3
  <2>2. CASE k = 1
    <3>1. asked[1] = Asked(es[1], t[0].problem, t[0].job)
      BY <1>7, <2>2
    <3>2. PICK e \in Using("GET") : generate = <<e>>
      BY <1>3, <1>16 DEF AtMostOne
    <3>3. es[1].method = "GET"
      BY <2>1, <3>2 DEF Using
    <3> QED
      BY <2>2, <3>1, <3>3 DEF Asked
  <2>3. CASE k # 1
    <3>1. k - 1 \in 0..Len(es) /\ 1 \in 1..(k - 1)
      BY <1>4, <2>3
    <3>2. t[k - 1].problem
      BY <1>4, <1>5, <1>16, <2>1, <3>1, AskedSoFar
    <3> QED
      BY <1>8, <3>2
  <2> QED
    BY <2>2, <2>3
<1>17. ASSUME NEW k \in 1..n, solve # <<>>, answers[Head(solve)] = "text"
       PROVE  asked[k].job # "1" \/ <<asked[k].endpoint>> = generate
  <2> DEFINE l == Len(first)
  <2>1. l >= 1 /\ <<es[l]>> = solve /\ es[l] = Head(solve)
    <3>1. l >= 1
      BY <1>12, <1>13, <1>17
    <3>2. es[l] = first[l]
      BY <1>1, <1>13, <3>1 DEF InOrder
    <3>3. solve = <<Head(solve)>> /\ first[l] = solve[1]
      BY <1>12, <1>13, <1>17
    <3> QED
      BY <3>1, <3>2, <3>3
  <2>2. CASE k > l
    <3>1. k - 1 \in 0..Len(es) /\ l \in 1..(k - 1)
      BY <1>4, <1>13, <2>1, <2>2
    <3> HIDE DEF l
    <3>2. t[k - 1].job
      BY <1>4, <1>5, <1>17, <2>1, <3>1, AskedSoFar
    <3> QED
      BY <1>8, <3>2
  <2>3. CASE ~(k > l)
    <3>1. k \in 1..Len(first)
      BY <1>13, <2>3
    <3>2. CASE <<es[k]>> = generate
      BY <1>10, <3>2
    <3>3. CASE es[k] = Head(solve)
      <4> DEFINE e == es[k]
                 s == t[k - 1]
                 a == asked[k]
      <4>1. ~e.param
        BY <1>17, <3>3, SolveIsBare DEF solve
      <4>2. a = Asked(e, s.problem, s.job) /\ s \in Asks
        BY <1>4, <1>6, <1>7
      <4> HIDE DEF e, s, a
      <4>3. a.job = "none"
        BY <4>1, <4>2, AskedWith
      <4> QED
        BY <4>3 DEF a
    <3> QED
      BY <1>15, <3>1, <3>2, <3>3
  <2> QED
    BY <2>2, <2>3
<1>18. ASSUME NEW k \in 1..n, IsStop(asked[k].endpoint),
              <<asked[k].endpoint>> \notin {generate, solve}, NEW j \in k..n
       PROVE  IsStop(asked[j].endpoint)
  <2>1. j \in 1..n
    BY <1>4
  <2>2. asked[k].endpoint = es[k] /\ asked[j].endpoint = es[j]
    BY <1>10, <2>1
  <2>3. k \in Len(first) + 1 .. Len(es)
    <3>1. k \notin 1..Len(first)
      BY <1>15, <1>18, <2>2
    <3> QED
      BY <1>4, <1>13, <3>1
  <2> QED
    BY <1>1, <1>4, <1>18, <2>2, <2>3 DEF InOrder
<1> QED
  BY <1>7, <1>9, <1>11, <1>16, <1>17, <1>18 DEF RoundTrip, asked, generate, solve

-----------------------------------------------------------------------------
(* The totals of a batch                                                   *)

Total == [input : Nat, output : Nat, cost : Nat \cup {Unknown}]

\* What the sums by model can be.
ByModels == UNION {[models -> Total] : models \in SUBSET STRING}

\* Sums stay sums.
LEMMA PlusType ==
  ASSUME NEW u \in Usage, NEW sum \in Total
  PROVE  Plus(sum, u) \in Total
<1>1. PlusCost(sum.cost, u.cost) \in Nat \cup {Unknown}
  BY DEF PlusCost, Total, Usage
<1>2. sum.input + u.input \in Nat /\ sum.output + u.output \in Nat
  BY DEF Total, Usage
<1> QED
  BY <1>1, <1>2 DEF Plus, Total

\* What one more usage does to the sums.
LEMMA WithOneMore ==
  ASSUME NEW u \in Usage, NEW by \in ByModels
  PROVE  LET next == WithUsage(by, u)
         IN /\ next \in ByModels
            /\ DOMAIN next = DOMAIN by \cup {u.model}
            /\ \A model \in DOMAIN by : by[model] \in Total
            /\ \A model \in DOMAIN by : model # u.model => next[model] = by[model]
            /\ next[u.model] = Plus(IF u.model \in DOMAIN by THEN by[u.model] ELSE Zero, u)
<1> DEFINE next == WithUsage(by, u)
           m == u.model
           D == DOMAIN by \cup {m}
           old == IF m \in DOMAIN by THEN by[m] ELSE Zero
           Value(model) == IF model # m THEN by[model] ELSE Plus(old, u)
<1>1. PICK models \in SUBSET STRING : by \in [models -> Total]
  BY DEF ByModels
<1>2. DOMAIN by = models /\ m \in STRING /\ \A model \in DOMAIN by : by[model] \in Total
  BY <1>1 DEF Usage
<1>3. Zero \in Total
  BY DEF Zero, Total
<1>4. Plus(old, u) \in Total
  <2>1. old \in Total
    BY <1>2, <1>3
  <2> HIDE DEF old
  <2> QED
    BY <2>1, PlusType
<1>5. next = [model \in D |-> Value(model)]
  BY DEF WithUsage
<1>6. D \in SUBSET STRING /\ \A model \in D : Value(model) \in Total
  BY <1>2, <1>4
<1>7. next \in [D -> Total] /\ DOMAIN next = D
  <2> HIDE DEF D, Value, next
  <2> QED
    BY <1>5, <1>6
<1>8. next \in ByModels
  <2> HIDE DEF D, next
  <2> QED
    BY <1>6, <1>7 DEF ByModels
<1>9. \A model \in D : next[model] = Value(model)
  <2> HIDE DEF D, Value, next
  <2> QED
    BY <1>5
<1>10. \A model \in DOMAIN by : model # m => next[model] = by[model]
  <2> HIDE DEF next, old
  <2> QED
    BY <1>9
<1>11. next[m] = Plus(old, u)
  <2> HIDE DEF next, old
  <2> QED
    BY <1>9
<1> HIDE DEF next
<1> QED
  BY <1>2, <1>7, <1>8, <1>10, <1>11 DEF next

\* The sums of the usages us, one after the other.
Summing(t, us) ==
    /\ t \in [0..Len(us) -> ByModels] /\ t[0] = <<>>
    /\ t[Len(us)] = FoldLeft(WithUsage, <<>>, us)
    /\ \A k \in 1..Len(us) : t[k] = WithUsage(t[k - 1], us[k])

\* That is how they are made.
LEMMA SumTrace ==
  ASSUME NEW us \in Seq(Usage)
  PROVE  \E t : Summing(t, us)
<1> DEFINE n == Len(us)
           A == ByModels
           base == <<>>
           op == [p \in (1..n) \X A |-> WithUsage(p[2], us[p[1]])]
           Equation(g) == g = [s \in SUBSET DOMAIN us |->
                                IF s = {} THEN <<>>
                                ELSE WithUsage(g[s \ {Max(s)}], us[Max(s)])]
           fold == CHOOSE g : Equation(g)
<1>1. n \in Nat /\ DOMAIN us = 1..n /\ \A k \in 1..n : us[k] \in Usage
  BY LenProperties
<1>2. base \in A
  <2>1. <<>> \in [1..0 -> Total]
    BY EmptySeq, LenProperties
  <2>2. 1..0 = {}
    OBVIOUS
  <2>3. <<>> \in [{} -> Total] /\ {} \in SUBSET STRING
    BY <2>1, <2>2
  <2> QED
    BY <2>3 DEF ByModels
<1>3. \A k \in 1..n, by \in A : WithUsage(by, us[k]) \in A
  BY <1>1, WithOneMore
<1>4. op \in [(1..n) \X A -> A]
  <2> HIDE DEF n, A
  <2> QED
    BY <1>3
<1>5. \A k \in 1..n, by \in A : op[<<k, by>>] = WithUsage(by, us[k])
  <2> HIDE DEF n, A
  <2> QED
    OBVIOUS
<1>6. PICK g : FoldsAlong(g, n, A, base, op)
  <2> HIDE DEF A, n, op, base
  <2> QED
    BY <1>1, <1>2, <1>4, FoldAlongExists
<1>7. Equation(g)
  <2>1. \A s \in SUBSET (1..n) : s # {} => Max(s) \in 1..n /\ g[s \ {Max(s)}] \in A
    BY <1>1, <1>6, MaxOfSome DEF FoldsAlong
  <2> HIDE DEF A, n, op
  <2> QED
    BY <1>1, <1>5, <1>6, <2>1 DEF FoldsAlong
<1>8. Equation(fold)
  BY <1>7
<1>9. FoldLeft(WithUsage, <<>>, us) = fold[1..n]
  BY <1>1 DEF FoldLeft, MapThenFoldSet
<1>10. PICK t : IsTrace(t, fold, n, A, base, op)
  <2>1. fold[{}] = base
    BY <1>8
  <2>2. ASSUME NEW s \in SUBSET (1..n), s # {}, fold[s \ {Max(s)}] \in A
        PROVE  fold[s] = op[<<Max(s), fold[s \ {Max(s)}]>>]
    <3>1. Max(s) \in 1..n
      BY <1>1, <2>2, MaxOfSome
    <3>2. fold[s] = WithUsage(fold[s \ {Max(s)}], us[Max(s)])
      <4> HIDE DEF fold
      <4> QED
        BY <1>1, <1>8, <2>2
    <3> HIDE DEF fold, op, A, n
    <3> QED
      BY <1>5, <2>2, <3>1, <3>2
  <2>3. Solves(fold, n, A, base, op)
    <3> HIDE DEF A, n, op, fold, base
    <3> QED
      BY <2>1, <2>2 DEF Solves
  <2> HIDE DEF A, n, op, fold, base
  <2> QED
    BY <1>1, <1>2, <1>4, <2>3, Trace
<1>11. ASSUME NEW k \in 1..n PROVE t[k] = WithUsage(t[k - 1], us[k])
  <2>1. k - 1 \in 0..n /\ t[k - 1] \in A /\ t[k] = op[<<k, t[k - 1]>>]
    <3> HIDE DEF n, A, base, op, fold
    <3> QED
      BY <1>1, <1>10 DEF IsTrace
  <2> HIDE DEF op, A
  <2> QED
    BY <1>5, <2>1
<1>12. t \in [0..n -> A] /\ t[0] = <<>> /\ t[n] = fold[1..n]
  BY <1>10 DEF IsTrace
<1> HIDE DEF op, fold
<1> QED
  BY <1>9, <1>11, <1>12 DEF Summing

\* What the sums are made of.
Inputs(us) == [k \in DOMAIN us |-> us[k].input]
Outputs(us) == [k \in DOMAIN us |-> us[k].output]
Costs(us) == [k \in DOMAIN us |-> us[k].cost]

UsesOf(us, model, k) == {j \in 1..k : us[j].model = model}
Known(us, uses) == \A j \in uses : us[j].cost # Unknown
CostOf(us, uses) == IF Known(us, uses) THEN SumFunctionOnSet(Costs(us), uses) ELSE Unknown

InputsBy(by) == [model \in DOMAIN by |-> by[model].input]
OutputsBy(by) == [model \in DOMAIN by |-> by[model].output]
CostsBy(by) == [model \in DOMAIN by |-> by[model].cost]

\* by is what the first k usages come to.
SumsTo(by, us, k) ==
    /\ IsFiniteSet(DOMAIN by) /\ DOMAIN by = {us[j].model : j \in 1..k}
    /\ SumFunctionOnSet(InputsBy(by), DOMAIN by) = SumFunctionOnSet(Inputs(us), 1..k)
    /\ SumFunctionOnSet(OutputsBy(by), DOMAIN by) = SumFunctionOnSet(Outputs(us), 1..k)
    /\ \A model \in DOMAIN by : by[model].cost = CostOf(us, UsesOf(us, model, k))
    /\ Known(us, 1..k) =>
         SumFunctionOnSet(CostsBy(by), DOMAIN by) = SumFunctionOnSet(Costs(us), 1..k)

\* A sequence of usages.
LEMMA UsesType ==
  ASSUME NEW us \in Seq(Usage)
  PROVE  /\ Len(us) \in Nat /\ DOMAIN us = 1..Len(us)
         /\ \A j \in 1..Len(us) : /\ us[j] \in Usage /\ us[j].input \in Nat
                                  /\ us[j].output \in Nat
                                  /\ us[j].cost \in Nat \cup {Unknown}
         /\ \A uses \in SUBSET (1..Len(us)) : IsFiniteSet(uses)
<1>1. Len(us) \in Nat /\ DOMAIN us = 1..Len(us) /\ \A j \in 1..Len(us) : us[j] \in Usage
  BY LenProperties
<1>2. \A u \in Usage : /\ u.input \in Nat /\ u.output \in Nat
                       /\ u.cost \in Nat \cup {Unknown}
  BY DEF Usage
<1>3. IsFiniteSet(1..Len(us))
  BY <1>1, FS_Interval
<1>4. \A uses \in SUBSET (1..Len(us)) : IsFiniteSet(uses)
  BY <1>3, FS_Subset
<1> QED
  BY <1>1, <1>2, <1>4

\* The cost of known uses is known, and no others' is.
LEMMA CostType ==
  ASSUME Unknown \notin Nat, NEW us \in Seq(Usage), NEW uses, uses \subseteq 1..Len(us)
  PROVE  /\ Known(us, uses) => /\ CostOf(us, uses) \in Nat
                               /\ \A j \in uses : Costs(us)[j] \in Nat
         /\ ~Known(us, uses) => CostOf(us, uses) = Unknown
<1>1. /\ Len(us) \in Nat /\ DOMAIN us = 1..Len(us)
      /\ \A j \in 1..Len(us) : us[j].cost \in Nat \cup {Unknown}
  BY UsesType
<1>2. IsFiniteSet(uses)
  BY UsesType
<1>3. \A j \in uses : Costs(us)[j] = us[j].cost
  BY <1>1 DEF Costs
<1>4. ASSUME Known(us, uses)
      PROVE  CostOf(us, uses) \in Nat /\ \A j \in uses : Costs(us)[j] \in Nat
  <2>1. \A j \in uses : Costs(us)[j] \in Nat
    BY <1>1, <1>3, <1>4 DEF Known
  <2>2. SumFunctionOnSet(Costs(us), uses) \in Nat
    <3>1. \A j \in uses : Costs(us)[j] \in Int
      BY <2>1
    <3> QED
      BY <1>2, <2>1, <3>1, SumType
  <2> QED
    BY <1>4, <2>1, <2>2 DEF CostOf
<1> QED
  BY <1>4 DEF CostOf

\* The cost of a model with one more use, u, at k.
LEMMA CostWithMore ==
  ASSUME Unknown \notin Nat, NEW us \in Seq(Usage), NEW uses, NEW k,
         uses \cup {k} \subseteq 1..Len(us), k \notin uses
  PROVE  CostOf(us, uses \cup {k}) = PlusCost(CostOf(us, uses), us[k].cost)
<1> DEFINE all == uses \cup {k}
           f == Costs(us)
           c == us[k].cost
<1>1. /\ Len(us) \in Nat /\ DOMAIN us = 1..Len(us) /\ k \in 1..Len(us)
      /\ c \in Nat \cup {Unknown}
  BY UsesType
<1>2. uses \subseteq 1..Len(us) /\ all \subseteq 1..Len(us)
  OBVIOUS
<1>3. IsFiniteSet(uses)
  BY <1>2, UsesType
<1>4. Known(us, all) <=> Known(us, uses) /\ c # Unknown
  BY DEF Known
<1>5. f[k] = c
  BY <1>1 DEF Costs
<1>6. CASE Known(us, all)
  <2>1. Known(us, uses) /\ c # Unknown
    BY <1>4, <1>6
  <2>2. CostOf(us, uses) \in Nat /\ \A j \in all : f[j] \in Nat
    BY <1>2, <1>6, <2>1, CostType
  <2>3. SumFunctionOnSet(f, uses \cup {k}) = SumFunctionOnSet(f, uses) + f[k]
    <3>1. \A x \in uses \cup {k} : f[x] \in Int
      BY <2>2
    <3> HIDE DEF f
    <3> QED
      BY <1>3, <3>1, SumOneFurther
  <2>4. /\ CostOf(us, all) = SumFunctionOnSet(f, all)
        /\ CostOf(us, uses) = SumFunctionOnSet(f, uses)
    BY <1>6, <2>1 DEF CostOf
  <2>5. CostOf(us, uses) # Unknown
    BY <2>2
  <2>6. CostOf(us, all) = CostOf(us, uses) + c
    BY <1>5, <2>3, <2>4
  <2> DEFINE was == CostOf(us, uses)
  <2> HIDE DEF f, c, was
  <2>7. CostOf(us, all) = PlusCost(was, c)
    BY <2>1, <2>5, <2>6 DEF PlusCost, was
  <2> QED
    BY <2>7 DEF was, c
<1>7. CASE ~Known(us, all)
  <2>1. CostOf(us, all) = Unknown
    BY <1>7 DEF CostOf
  <2>2. CostOf(us, uses) = Unknown \/ c = Unknown
    <3> HIDE DEF c, all
    <3> QED
      BY <1>4, <1>7 DEF CostOf
  <2> HIDE DEF c
  <2> QED
    BY <2>1, <2>2 DEF PlusCost, c
<1> QED
  BY <1>6, <1>7

\* h is f with part[k] added at m, and f has the sum of the parts before that.
Grows(h, f, D, m, part, k) ==
    /\ \A x \in D : f[x] \in Int /\ (x # m => h[x] = f[x])
    /\ \A j \in 1..k : part[j] \in Int
    /\ h[m] = (IF m \in D THEN f[m] ELSE 0) + part[k]
    /\ SumFunctionOnSet(f, D) = SumFunctionOnSet(part, 1..(k - 1))

\* So h has that of the parts up to k.
LEMMA Grown ==
  ASSUME NEW D, IsFiniteSet(D), NEW m, NEW k \in Nat, k # 0, NEW f, NEW h, NEW part,
         Grows(h, f, D, m, part, k)
  PROVE  SumFunctionOnSet(h, D \cup {m}) = SumFunctionOnSet(part, 1..k)
<1> DEFINE a == part[k]
<1>1. a \in Int /\ h[m] = (IF m \in D THEN f[m] ELSE 0) + a
  BY DEF Grows
<1>2. \A x \in D : f[x] \in Int
  BY DEF Grows
<1>3. \A x \in D : x # m => h[x] = f[x]
  BY DEF Grows
<1>4. \A j \in 1..k : part[j] \in Int
  BY DEF Grows
<1>5. SumFunctionOnSet(part, 1..k) = SumFunctionOnSet(part, 1..(k - 1)) + a
  BY <1>4, SumOfFirst
<1> HIDE DEF a
<1>6. SumFunctionOnSet(h, D \cup {m}) = SumFunctionOnSet(f, D) + a
  BY <1>1, <1>2, <1>3, SumWithMore
<1>7. SumFunctionOnSet(f, D) = SumFunctionOnSet(part, 1..(k - 1))
  BY DEF Grows
<1> QED
  BY <1>5, <1>6, <1>7

\* With one more usage the sums are what one more usage comes to.
LEMMA SumsStep ==
  ASSUME Unknown \notin Nat, NEW us \in Seq(Usage), NEW k \in 1..Len(us),
         NEW by \in ByModels, SumsTo(by, us, k - 1)
  PROVE  SumsTo(WithUsage(by, us[k]), us, k)
<1> DEFINE u == us[k]
           m == u.model
           D == DOMAIN by
           next == WithUsage(by, u)
           here == IF m \in D THEN by[m] ELSE Zero
<1>1. /\ Len(us) \in Nat /\ DOMAIN us = 1..Len(us) /\ k \in Nat /\ k # 0
      /\ \A j \in 1..Len(us) : /\ us[j].input \in Nat /\ us[j].output \in Nat
                               /\ us[j].cost \in Nat \cup {Unknown}
      /\ u \in Usage
  BY UsesType
<1>2. /\ next \in ByModels /\ DOMAIN next = D \cup {m}
      /\ \A model \in D : by[model] \in Total
      /\ \A model \in D : model # m => next[model] = by[model]
      /\ next[m] = Plus(here, u)
  <2> HIDE DEF u
  <2> QED
    BY <1>1, WithOneMore
<1>3. /\ IsFiniteSet(D) /\ D = {us[j].model : j \in 1..(k - 1)}
      /\ SumFunctionOnSet(InputsBy(by), D) = SumFunctionOnSet(Inputs(us), 1..(k - 1))
      /\ SumFunctionOnSet(OutputsBy(by), D) = SumFunctionOnSet(Outputs(us), 1..(k - 1))
      /\ \A model \in D : by[model].cost = CostOf(us, UsesOf(us, model, k - 1))
      /\ Known(us, 1..(k - 1)) =>
           SumFunctionOnSet(CostsBy(by), D) = SumFunctionOnSet(Costs(us), 1..(k - 1))
  BY DEF SumsTo
<1>4. /\ next[m].input = (IF m \in D THEN by[m].input ELSE 0) + u.input
      /\ next[m].output = (IF m \in D THEN by[m].output ELSE 0) + u.output
      /\ next[m].cost = PlusCost(IF m \in D THEN by[m].cost ELSE 0, u.cost)
  <2> HIDE DEF next, D, m, u
  <2> QED
    BY <1>2 DEF Plus, Zero
<1>5. IsFiniteSet(DOMAIN next) /\ DOMAIN next = {us[j].model : j \in 1..k}
  <2>1. {us[j].model : j \in 1..k} = {us[j].model : j \in 1..(k - 1)} \cup {m}
    <3>1. 1..k = (1..(k - 1)) \cup {k}
      BY <1>1
    <3> QED
      BY <3>1
  <2> HIDE DEF D, m, next
  <2>2. IsFiniteSet(D \cup {m})
    BY <1>3, FS_AddElement
  <2> QED
    BY <1>2, <1>3, <2>1, <2>2
<1>6. ASSUME NEW f, NEW h, NEW part, Grows(h, f, D, m, part, k)
      PROVE  SumFunctionOnSet(h, DOMAIN next) = SumFunctionOnSet(part, 1..k)
  <2> HIDE DEF D, m, next
  <2> QED
    BY <1>1, <1>2, <1>3, <1>6, Grown
<1> HIDE DEF next, D, m, here
<1>7. SumFunctionOnSet(InputsBy(next), DOMAIN next) = SumFunctionOnSet(Inputs(us), 1..k)
  <2>1. \A j \in 1..k : Inputs(us)[j] = us[j].input /\ us[j].input \in Int
    BY <1>1 DEF Inputs
  <2>2. \A x \in D : InputsBy(by)[x] = by[x].input /\ by[x].input \in Int
    BY <1>2 DEF InputsBy, D, Total
  <2>3. \A x \in D \cup {m} : InputsBy(next)[x] = next[x].input
    BY <1>2 DEF InputsBy
  <2>4. \A x \in D : x # m => InputsBy(next)[x] = InputsBy(by)[x]
    BY <1>2, <2>2, <2>3
  <2>5. InputsBy(next)[m] = (IF m \in D THEN InputsBy(by)[m] ELSE 0) + Inputs(us)[k]
    BY <1>1, <1>4, <2>1, <2>2, <2>3
  <2>6. Grows(InputsBy(next), InputsBy(by), D, m, Inputs(us), k)
    BY <1>3, <2>1, <2>2, <2>4, <2>5 DEF Grows
  <2> QED
    BY <1>6, <2>6
<1>8. SumFunctionOnSet(OutputsBy(next), DOMAIN next) = SumFunctionOnSet(Outputs(us), 1..k)
  <2>1. \A j \in 1..k : Outputs(us)[j] = us[j].output /\ us[j].output \in Int
    BY <1>1 DEF Outputs
  <2>2. \A x \in D : OutputsBy(by)[x] = by[x].output /\ by[x].output \in Int
    BY <1>2 DEF OutputsBy, D, Total
  <2>3. \A x \in D \cup {m} : OutputsBy(next)[x] = next[x].output
    BY <1>2 DEF OutputsBy
  <2>4. \A x \in D : x # m => OutputsBy(next)[x] = OutputsBy(by)[x]
    BY <1>2, <2>2, <2>3
  <2>5. OutputsBy(next)[m] = (IF m \in D THEN OutputsBy(by)[m] ELSE 0) + Outputs(us)[k]
    BY <1>1, <1>4, <2>1, <2>2, <2>3
  <2>6. Grows(OutputsBy(next), OutputsBy(by), D, m, Outputs(us), k)
    BY <1>3, <2>1, <2>2, <2>4, <2>5 DEF Grows
  <2> QED
    BY <1>6, <2>6
<1>9. ASSUME NEW model \in DOMAIN next
      PROVE  next[model].cost = CostOf(us, UsesOf(us, model, k))
  <2> DEFINE uses == UsesOf(us, model, k - 1)
  <2>1. CASE model # m
    <3>1. UsesOf(us, model, k) = uses
      BY <1>1, <2>1 DEF UsesOf, m
    <3> QED
      BY <1>2, <1>3, <2>1, <3>1
  <2>2. CASE model = m
    <3>1. UsesOf(us, model, k) = uses \cup {k} /\ k \notin uses
      BY <1>1, <2>2 DEF UsesOf, m
    <3>2. uses \cup {k} \subseteq 1..Len(us)
      BY <1>1 DEF UsesOf
    <3>3. (IF m \in D THEN by[m].cost ELSE 0) = CostOf(us, uses)
      <4>1. CASE m \in D
        BY <1>3, <2>2, <4>1
      <4>2. CASE m \notin D
        <5>1. uses = {}
          BY <1>3, <2>2, <4>2 DEF UsesOf
        <5>2. CostOf(us, {}) = SumFunctionOnSet(Costs(us), {})
          BY DEF CostOf, Known
        <5>3. SumFunctionOnSet(Costs(us), {}) = 0
          BY FS_EmptySet, SumOfZeros
        <5> HIDE DEF uses
        <5> QED
          BY <4>2, <5>1, <5>2, <5>3
      <4> QED
        BY <4>1, <4>2
    <3> HIDE DEF uses, u
    <3>4. CostOf(us, uses \cup {k}) = PlusCost(CostOf(us, uses), us[k].cost)
      BY <3>1, <3>2, CostWithMore
    <3> QED
      BY <1>4, <2>2, <3>1, <3>3, <3>4 DEF u
  <2> QED
    BY <2>1, <2>2
<1>10. ASSUME Known(us, 1..k)
       PROVE  SumFunctionOnSet(CostsBy(next), DOMAIN next) = SumFunctionOnSet(Costs(us), 1..k)
  <2>1. Known(us, 1..(k - 1))
    BY <1>1, <1>10 DEF Known
  <2>2. \A j \in 1..k : Costs(us)[j] = us[j].cost /\ us[j].cost \in Nat
    BY <1>1, <1>10 DEF Costs, Known
  <2>3. ASSUME NEW x \in D PROVE CostsBy(by)[x] = by[x].cost /\ by[x].cost \in Nat
    <3>1. UsesOf(us, x, k - 1) \subseteq 1..Len(us) /\ Known(us, UsesOf(us, x, k - 1))
      BY <1>1, <2>1 DEF UsesOf, Known
    <3>2. CostOf(us, UsesOf(us, x, k - 1)) \in Nat
      BY <3>1, CostType
    <3>3. CostsBy(by)[x] = by[x].cost
      BY DEF CostsBy, D
    <3> QED
      BY <1>3, <3>2, <3>3
  <2>4. \A x \in D \cup {m} : CostsBy(next)[x] = next[x].cost
    BY <1>2 DEF CostsBy
  <2>5. \A x \in D : x # m => CostsBy(next)[x] = CostsBy(by)[x]
    BY <1>2, <2>3, <2>4
  <2>6. CostsBy(next)[m] = (IF m \in D THEN CostsBy(by)[m] ELSE 0) + Costs(us)[k]
    <3> DEFINE was == IF m \in D THEN by[m].cost ELSE 0
               c == u.cost
    <3>1. was \in Nat /\ c \in Nat /\ next[m].cost = PlusCost(was, c)
      BY <1>1, <1>4, <2>2, <2>3
    <3>2. was # Unknown /\ c # Unknown
      BY <3>1
    <3> HIDE DEF was, c
    <3>3. next[m].cost = was + c
      BY <3>1, <3>2 DEF PlusCost
    <3>4. was = IF m \in D THEN CostsBy(by)[m] ELSE 0
      BY <2>3 DEF was
    <3>5. c = Costs(us)[k]
      BY <1>1, <2>2 DEF c
    <3> QED
      BY <2>4, <3>3, <3>4, <3>5
  <2>7. SumFunctionOnSet(CostsBy(by), D) = SumFunctionOnSet(Costs(us), 1..(k - 1))
    BY <1>3, <2>1
  <2>8. Grows(CostsBy(next), CostsBy(by), D, m, Costs(us), k)
    BY <2>2, <2>3, <2>5, <2>6, <2>7 DEF Grows
  <2> QED
    BY <1>6, <2>8
<1> QED
  BY <1>5, <1>7, <1>8, <1>9, <1>10 DEF SumsTo, next, u

\* The sums by model are what all usages come to.
LEMMA SumsToAll ==
  ASSUME Unknown \notin Nat, NEW us \in Seq(Usage)
  PROVE  /\ FoldLeft(WithUsage, <<>>, us) \in ByModels
         /\ SumsTo(FoldLeft(WithUsage, <<>>, us), us, Len(us))
<1> DEFINE n == Len(us)
<1>1. n \in Nat /\ \A k \in 1..n : us[k] \in Usage
  BY UsesType
<1>2. PICK t : Summing(t, us)
  BY SumTrace
<1>3. /\ t \in [0..n -> ByModels] /\ t[0] = <<>>
      /\ t[n] = FoldLeft(WithUsage, <<>>, us)
      /\ \A k \in 1..n : t[k] = WithUsage(t[k - 1], us[k])
  BY <1>2 DEF Summing
<1> DEFINE T == {k \in Nat : k <= n => SumsTo(t[k], us, k)}
<1>4. SumsTo(t[0], us, 0)
  <2>1. DOMAIN <<>> = {}
    <3>1. <<>> \in Seq({}) /\ Len(<<>>) = 0
      BY EmptySeq
    <3>2. DOMAIN <<>> = 1..Len(<<>>)
      BY <3>1, LenProperties
    <3> QED
      BY <3>1, <3>2
  <2>2. 1..0 = {} /\ {us[j].model : j \in {}} = {}
    OBVIOUS
  <2>3. \A f : SumFunctionOnSet(f, {}) = 0
    BY FS_EmptySet, SumOfZeros
  <2>4. IsFiniteSet({})
    BY FS_EmptySet
  <2> DEFINE none == <<>>
  <2>5. DOMAIN none = {} /\ t[0] = none
    BY <1>3, <2>1
  <2> HIDE DEF none
  <2>6. SumsTo(none, us, 0)
    BY <2>2, <2>3, <2>4, <2>5 DEF SumsTo
  <2> QED
    BY <2>5, <2>6
<1>5. ASSUME NEW k \in 1..n, SumsTo(t[k - 1], us, k - 1) PROVE SumsTo(t[k], us, k)
  <2>1. t[k - 1] \in ByModels /\ t[k] = WithUsage(t[k - 1], us[k])
    BY <1>1, <1>3
  <2> DEFINE by == t[k - 1]
  <2>2. by \in ByModels /\ SumsTo(by, us, k - 1)
    BY <1>5, <2>1
  <2> HIDE DEF by
  <2>3. SumsTo(WithUsage(by, us[k]), us, k)
    BY <2>2, SumsStep
  <2> QED
    BY <2>1, <2>3 DEF by
<1>6. ASSUME NEW k \in Nat, k \in T PROVE k + 1 \in T
  <2> SUFFICES ASSUME k + 1 <= n PROVE SumsTo(t[k + 1], us, k + 1)
    OBVIOUS
  <2> DEFINE m == k + 1
  <2>1. m \in 1..n /\ m - 1 = k /\ SumsTo(t[k], us, k)
    BY <1>1, <1>6
  <2> HIDE DEF m
  <2>2. SumsTo(t[m - 1], us, m - 1)
    BY <2>1
  <2>3. SumsTo(t[m], us, m)
    BY <1>5, <2>1, <2>2
  <2> QED
    BY <2>3 DEF m
<1>7. n \in T
  <2>1. 0 \in T
    BY <1>4
  <2>2. Nat \subseteq T
    <3> HIDE DEF T
    <3> QED
      BY <1>6, <2>1, Induction
  <2> QED
    BY <1>1, <2>2
<1> QED
  BY <1>1, <1>3, <1>7

\* A sum rounded once is the sum to within half a unit.
LEMMA RoundedOnce ==
  ASSUME NEW c \in Nat
  PROVE  10 * Rounded(c) - c \in -5..5
  BY DEF Rounded

\* Usages that add up, in the words of SumsUp.
LEMMA AddedUp ==
  ASSUME Unknown \notin Nat, NEW results, Usages(results) \in Seq(Usage)
  PROVE  SumsUp(results)
<1> DEFINE us == Usages(results)
           n == Len(us)
           by == ByModel(results)
           sum == AggregateTokenUsage(results)
           known == \A model \in DOMAIN by : by[model].cost # Unknown
           Of(model) == {k \in DOMAIN us : us[k].model = model}
<1>1. by \in ByModels /\ SumsTo(by, us, n)
  <2> HIDE DEF us
  <2>1. by = FoldLeft(WithUsage, <<>>, us)
    BY DEF ByModel, us
  <2>2. us \in Seq(Usage)
    BY DEF us
  <2> HIDE DEF by
  <2> QED
    BY <2>1, <2>2, SumsToAll
<1>2. n \in Nat /\ DOMAIN us = 1..n
  BY UsesType
<1>3. /\ DOMAIN by = {us[j].model : j \in 1..n}
      /\ SumFunctionOnSet(InputsBy(by), DOMAIN by) = SumFunctionOnSet(Inputs(us), 1..n)
      /\ SumFunctionOnSet(OutputsBy(by), DOMAIN by) = SumFunctionOnSet(Outputs(us), 1..n)
      /\ \A model \in DOMAIN by : by[model].cost = CostOf(us, UsesOf(us, model, n))
      /\ Known(us, 1..n) =>
           SumFunctionOnSet(CostsBy(by), DOMAIN by) = SumFunctionOnSet(Costs(us), 1..n)
  BY <1>1 DEF SumsTo
<1>4. /\ sum.input = SumFunction(InputsBy(by)) /\ sum.output = SumFunction(OutputsBy(by))
      /\ sum.cost = IF known THEN Rounded(SumFunction(CostsBy(by))) ELSE Unknown
      /\ sum.by_model = by
  <2> HIDE DEF by
  <2> QED
    BY DEF AggregateTokenUsage, InputsBy, OutputsBy, CostsBy, by
<1>5. /\ DOMAIN InputsBy(by) = DOMAIN by /\ DOMAIN OutputsBy(by) = DOMAIN by
      /\ DOMAIN CostsBy(by) = DOMAIN by
      /\ DOMAIN Inputs(us) = 1..n /\ DOMAIN Outputs(us) = 1..n
  <2> HIDE DEF by, us
  <2> QED
    BY <1>2 DEF InputsBy, OutputsBy, CostsBy, Inputs, Outputs
<1> HIDE DEF us, by, sum
<1>6. sum.input = SumFunction(Inputs(us)) /\ sum.output = SumFunction(Outputs(us))
  BY <1>3, <1>4, <1>5 DEF SumFunction
<1>7. \A model \in DOMAIN by :
        /\ Of(model) = UsesOf(us, model, n)
        /\ Of(model) \subseteq 1..n
  BY <1>2 DEF UsesOf
<1>8. us \in Seq(Usage)
  BY DEF us
<1>9. known <=> Known(us, 1..n)
  <2>1. ASSUME known, NEW j \in 1..n PROVE us[j].cost # Unknown
    <3> DEFINE model == us[j].model
    <3>1. model \in DOMAIN by /\ j \in UsesOf(us, model, n)
      BY <1>3 DEF UsesOf
    <3> HIDE DEF model
    <3>2. CostOf(us, UsesOf(us, model, n)) # Unknown
      BY <1>3, <2>1, <3>1
    <3>3. Known(us, UsesOf(us, model, n))
      BY <3>2 DEF CostOf
    <3> QED
      BY <3>1, <3>3 DEF Known
  <2>2. ASSUME Known(us, 1..n), NEW model \in DOMAIN by PROVE by[model].cost # Unknown
    <3>1. UsesOf(us, model, n) \subseteq 1..Len(us) /\ Known(us, UsesOf(us, model, n))
      BY <2>2 DEF UsesOf, Known
    <3>2. CostOf(us, UsesOf(us, model, n)) \in Nat
      BY <1>8, <3>1, CostType
    <3> QED
      BY <1>3, <3>2
  <2> QED
    BY <2>1, <2>2 DEF Known
<1> HIDE DEF known
<1>10. IF Known(us, 1..n)
         THEN 10 * sum.cost - SumFunctionOnSet(Costs(us), 1..n) \in -5..5
         ELSE sum.cost = Unknown
  <2>1. CASE Known(us, 1..n)
    <3> DEFINE c == SumFunctionOnSet(Costs(us), 1..n)
    <3>1. sum.cost = Rounded(c)
      BY <1>3, <1>4, <1>5, <1>9, <2>1 DEF SumFunction
    <3>2. c \in Nat
      <4>1. CostOf(us, 1..n) \in Nat
        BY <1>2, <1>8, <2>1, CostType
      <4> QED
        BY <2>1, <4>1 DEF CostOf
    <3> HIDE DEF c
    <3>3. 10 * Rounded(c) - c \in -5..5
      BY <3>2, RoundedOnce
    <3> QED
      BY <2>1, <3>1, <3>3 DEF c
  <2>2. CASE ~Known(us, 1..n)
    BY <1>4, <1>9, <2>2
  <2> QED
    BY <2>1, <2>2
<1>11. ASSUME NEW model \in DOMAIN by
       PROVE  by[model].cost = IF Known(us, Of(model))
                               THEN SumFunctionOnSet(Costs(us), Of(model)) ELSE Unknown
  <2>1. Of(model) = UsesOf(us, model, n)
    BY <1>7
  <2> HIDE DEF Of
  <2> QED
    BY <1>3, <2>1 DEF CostOf
<1> QED
  BY <1>2, <1>3, <1>4, <1>6, <1>10, <1>11
     DEF SumsUp, us, sum, Inputs, Outputs, Costs, Known

-----------------------------------------------------------------------------
(* The theorems                                                            *)

\* The parts of the type invariant.
LEMMA TypeParts ==
  TypeOK <=> /\ batch \in Batches /\ stage \in {"none", "qk", "dk"} /\ i \in 0..NumProblems
             /\ step \in {"summary", "gate", "next", "package", "clear", "run", "poll",
                          "probe", "remove", "end", "image", "build", "logs", "untag",
                          "row", "over", "left"}
             /\ DaemonTypes /\ ResultTypes
  BY DEF TypeOK, DaemonTypes, ResultTypes, Box, Works, Res, Rec

\* At most one old container is there at first, and nothing of this batch.
LEMMA InitIInv == Init => IInv
<1> SUFFICES ASSUME Init PROVE IInv
  OBVIOUS
<1>1. PICK n \in Name, old \in OldBoxes \cup {Gone} :
        box = [[m \in Name |-> Gone] EXCEPT ![n] = old]
  BY DEF Init
<1>2. PICK tag \in {"none", "old"} : image = [p \in Problem |-> tag]
  BY DEF Init
<1>3. old \in Box /\ ~old.own /\ (~old.there => old = Gone)
  <2>1. CASE old = Gone
    BY <2>1 DEF Gone, Box
  <2>2. CASE old \in OldBoxes
    <3>1. PICK u \in BOOLEAN : old = [there |-> TRUE, up |-> u, log |-> TRUE, own |-> FALSE]
      BY <2>2 DEF OldBoxes
    <3> QED
      BY <3>1 DEF Box
  <2> QED
    BY <2>1, <2>2
<1>4. Gone \in Box /\ ~Gone.own /\ ~Gone.there
  BY DEF Gone, Box
<1>5. /\ box \in [Name -> Box]
      /\ \A m \in Name : ~box[m].own /\ (~box[m].there => box[m] = Gone)
  <2>1. \A m \in Name : box[m] \in {old, Gone}
    BY <1>1
  <2> QED
    BY <1>1, <1>3, <1>4, <2>1
<1>6. /\ image \in [Problem -> {"none", "old", "new"}]
      /\ \A p \in Problem : image[p] # "new"
  BY <1>2
<1>7. /\ batch \in Batches /\ step = "summary" /\ stage = "none" /\ i = 0 /\ rows = <<>>
      /\ rec = NoRec /\ res = NoRes /\ raised = "no" /\ exit = Unknown
      /\ late = {} /\ mishaps = 0 /\ fresh = {} /\ abandoned = {}
  BY DEF Init
<1>8. DaemonTypes
  BY <1>5, <1>6, <1>7, BenchmarkAssumption DEF DaemonTypes
<1>9. ResultTypes
  BY <1>7, Constants DEF ResultTypes
<1>10. TypeOK
  BY <1>7, <1>8, <1>9, TypeParts, BenchmarkAssumption
<1>11. Control /\ Boxes /\ Images /\ Lateness
  BY <1>5, <1>6, <1>7 DEF Control, InStage, Boxes, Images, Lateness
<1>12. Found /\ CellsAreOwn
  BY <1>7 DEF Found, InStage, CellsAreOwn
<1> QED
  BY <1>10, <1>11, <1>12 DEF IInv

\* Every step keeps the invariant.
LEMMA StepIInv == IInv /\ [Next]_vars => IInv'
<1> SUFFICES ASSUME IInv, [Next]_vars PROVE IInv'
  OBVIOUS
<1>1. /\ TypeOK /\ Control /\ Boxes /\ Images /\ Lateness /\ Found /\ CellsAreOwn
      /\ DaemonTypes /\ ResultTypes /\ batch \in Batches
  BY TypeParts DEF IInv
<1>2. Control' /\ DaemonTypes' /\ Lateness' /\ Boxes' /\ Images'
  BY <1>1, ControlStep, DaemonStep, LatenessStep, BoxesStep, ImagesStep
<1>3. ResultTypes' /\ Found' /\ CellsAreOwn'
  BY <1>1, FoundStep
<1>4. batch' = batch
  BY DEF Next, Main, WriteSummary, Gate, NextProject, WriteRow, WriteTable, Package, Clear,
         Run, Poll, ProbeStep, TearDown, EndStage, ClearImage, Build, ReadLogs, Untag,
         Interrupt, LateDone, vars
<1>5. TypeOK'
  <2>1. /\ i' \in 0..NumProblems /\ stage' \in {"none", "qk", "dk"}
        /\ step' \in {"summary", "gate", "next", "package", "clear", "run", "poll", "probe",
                     "remove", "end", "image", "build", "logs", "untag", "row", "over",
                     "left"}
    BY <1>1, ControlStep
  <2> QED
    BY <1>1, <1>2, <1>3, <1>4, <2>1
       DEF TypeOK, DaemonTypes, ResultTypes, Box, Works, Res, Rec
<1> QED
  BY <1>1, <1>2, <1>3, <1>5 DEF IInv

\* The invariant holds in every state.
THEOREM Invariant == Spec => []IInv
<1>1. Init => IInv
  BY InitIInv
<1>2. IInv /\ [Next]_vars => IInv'
  BY StepIInv
<1> QED
  BY <1>1, <1>2, PTL DEF Spec

\* The variables of run_batch and evaluate_project have their types.
THEOREM TypeCorrect == Spec => []TypeOK
<1>1. IInv => TypeOK
  BY DEF IInv
<1> QED
  BY <1>1, Invariant, PTL

\* What is left of a batch when its stages are over is what docker was cut short on
\* or refused, and nothing else has the port when a container is run.
THEOREM NothingElseIsLeft == Spec => []LeftoversAreAbandoned
<1>1. IInv => LeftoversAreAbandoned
  <2> SUFFICES ASSUME IInv PROVE LeftoversAreAbandoned
    OBVIOUS
  <2>1. Boxes /\ Images
    BY DEF IInv
  <2>2. step \in {"next", "row", "over", "left"} =>
          /\ \A n \in Name : box[n].own => n \in abandoned
          /\ \A p \in Problem : image[p] = "new" => <<"dk", p>> \in abandoned
    BY <2>1 DEF Boxes, Images
  <2>3. step = "run" => \A n \in Name : box[n].up => n \in abandoned
    BY <2>1 DEF Boxes
  <2> QED
    BY <2>2, <2>3 DEF LeftoversAreAbandoned
<1> QED
  BY <1>1, Invariant, PTL

\* No cell of the table is about a container of somebody else, unless docker
\* refused to remove it.
THEOREM OwnCells == Spec => []CellsAreOwn
<1>1. IInv => CellsAreOwn
  BY DEF IInv
<1> QED
  BY <1>1, Invariant, PTL

\* What a batch hands over.
LEMMA BatchType ==
  ASSUME TypeOK
  PROVE  /\ Unknown \notin Nat
         /\ Usages(batch.results) \in Seq(Usage)
         /\ \A p \in Problem : /\ batch.endpoints[p] \in Seq(Endpoint)
                              /\ IsInjective(batch.endpoints[p])
<1> DEFINE results == batch.results
           usages == [k \in DOMAIN results |-> results[k].usages]
<1>1. batch \in Batches
  BY DEF TypeOK
<1>2. /\ Unknown \notin Nat /\ results \in Seq(Result)
      /\ batch.endpoints \in [Problem -> Seq(Endpoint)]
      /\ \A p \in Problem : IsInjective(batch.endpoints[p])
  BY <1>1, BenchmarkAssumption
<1> HIDE DEF results
<1>3. /\ Len(results) \in Nat /\ DOMAIN results = 1..Len(results)
      /\ \A k \in 1..Len(results) : results[k].usages \in Seq(Usage)
  <2>1. \A r \in Result : r.usages \in Seq(Usage)
    BY DEF Result
  <2> QED
    BY <1>2, <2>1, LenProperties
<1>4. usages \in Seq(Seq(Usage))
  BY <1>3
<1>5. Usages(results) = FlattenSeq(usages)
  BY DEF Usages
<1> HIDE DEF usages
<1>6. Usages(results) \in Seq(Usage)
  BY <1>4, <1>5, Flattened
<1> QED
  BY <1>2, <1>6 DEF results

\* Every batch's totals add up (aggregate_token_usage), whatever its results are.
THEOREM TotalsAddUp == Spec => []TotalsAreSums
<1>1. TypeOK => TotalsAreSums
  BY BatchType, AddedUp DEF TotalsAreSums
<1> QED
  BY <1>1, TypeCorrect, PTL

\* Every project is probed in a round trip (probe_endpoints), whatever endpoints it
\* has and whatever they answer: the problem gets to the solve request and to all
\* others with a body, the job to those with a parameter, and no job is stopped
\* before the others were asked.
THEOREM ProbesAreRoundTrips == Spec => []ProbeIsARoundTrip
<1>1. TypeOK => ProbeIsARoundTrip
  BY BatchType, EveryRoundTrip DEF ProbeIsARoundTrip
<1> QED
  BY <1>1, TypeCorrect, PTL

-----------------------------------------------------------------------------
(* The report comes out, in a bounded number of steps                      *)

\* The steps that are left of a project at step s of stage t.
Rank(s, t) ==
    CASE s = "package" -> 17 [] s = "clear" /\ t = "qk" -> 16 [] s = "run" /\ t = "qk" -> 15
      [] s = "poll" /\ t = "qk" -> 14 [] s = "probe" -> 13 [] s = "remove" /\ t = "qk" -> 12
      [] s = "end" /\ t = "qk" -> 11 [] s = "image" -> 10 [] s = "build" -> 9
      [] s = "clear" /\ t # "qk" -> 8 [] s = "run" /\ t # "qk" -> 7
      [] s = "poll" /\ t # "qk" -> 6 [] s = "logs" -> 5 [] s = "remove" /\ t # "qk" -> 4
      [] s = "untag" -> 3 [] s = "end" /\ t # "qk" -> 2 [] s = "row" -> 1 [] OTHER -> 0

\* A project to come is 18 steps.
ProjectsLeft == 18 * (NumProblems - i)

AllProjects == 18 * NumProblems

\* The steps that are left of the main thread.
StepsLeft ==
    IF step \in {"over", "left"} THEN 0
    ELSE IF step = "summary" THEN 3 + AllProjects
    ELSE IF step = "gate" THEN 2 + AllProjects
    ELSE 1 + Rank(step, stage) + ProjectsLeft

\* The loop over the projects.
InLoop(s) == s \notin {"over", "left", "summary", "gate"}

\* The ranks are numbers.
LEMMA RankType == \A s, t : Rank(s, t) \in 0..17
BY DEF Rank

\* A probe leaves the project and its stage.
LEMMA ProbeMoves ==
  ASSUME ProbeStep
  PROVE  step = "probe" /\ step' = "remove" /\ UNCHANGED <<stage, i, rows>>
<1>1. step = "probe" /\ step' = "remove"
  BY DEF ProbeStep
<1>2. UNCHANGED <<stage, i, rows, exit, batch, daemon, history>>
  BY DEF ProbeStep
<1> QED
  BY <1>1, <1>2

\* The main thread makes one of five kinds of moves.
LEMMA MainMoves ==
  ASSUME TypeOK, Control, Main \/ Interrupt
  PROVE  /\ step \notin {"over", "left"}
         /\ \/ step' \in {"over", "left"}
            \/ step = "summary" /\ step' = "gate"
            \/ step = "gate" /\ step' = "next" /\ i' = i
            \/ /\ step = "next" /\ i' = i + 1 /\ i < NumProblems
               /\ step' = "package" \/ step' = "next"
            \/ /\ InLoop(step) /\ InLoop(step') /\ i' = i
               /\ Rank(step', stage') < Rank(step, stage)
<1>1. stage \in {"none", "qk", "dk"} /\ (InStage => stage \in {"qk", "dk"})
  BY DEF TypeOK, Control
<1>2. CASE WriteSummary \/ Gate \/ WriteTable
  BY <1>2 DEF WriteSummary, Gate, WriteTable, Goto, End, Raise
<1>3. CASE NextProject
  BY <1>3 DEF NextProject
<1>4. CASE WriteRow
  BY <1>4 DEF WriteRow, InLoop, Rank
<1>5. CASE Package \/ Clear \/ Run \/ ProbeStep
  <2>1. /\ i' = i /\ stage' = stage
        /\ \/ step = "package" /\ step' \in {"clear", "end"}
           \/ step = "clear" /\ step' = "run"
           \/ step = "run" /\ step' \in {"poll", "end"}
           \/ step = "probe" /\ step' = "remove"
    <3>1. CASE Package \/ Clear
      BY <3>1 DEF Package, Clear, Goto
    <3>2. CASE Run
      BY <3>2 DEF Run, Goto, Raise
    <3>3. CASE ProbeStep
      BY <3>3, ProbeMoves
    <3> QED
      BY <1>5, <3>1, <3>2, <3>3
  <2>2. step \in {"package", "probe"} => stage = "qk"
    BY DEF Control
  <2>3. CASE stage = "qk"
    BY <2>1, <2>3 DEF InLoop, Rank
  <2>4. CASE stage = "dk"
    BY <2>1, <2>2, <2>4 DEF InLoop, Rank
  <2> QED
    BY <1>1, <2>1, <2>3, <2>4 DEF InStage
<1>6. CASE Poll \/ TearDown \/ EndStage
  <2>1. /\ i' = i
        /\ \/ step = "poll" /\ stage' = stage
              /\ step' = IF stage = "qk" THEN "probe" ELSE "logs"
           \/ step = "poll" /\ stage' = stage
              /\ step' = IF stage = "qk" THEN "remove" ELSE "logs"
           \/ step = "remove" /\ stage' = stage
              /\ step' = IF stage = "qk" THEN "end" ELSE "untag"
           \/ step = "end" /\ step' = "left"
           \/ step = "end" /\ stage = "qk" /\ step' = "image"
           \/ step = "end" /\ stage # "qk" /\ step' = "row"
    BY <1>6 DEF Poll, TearDown, EndStage, Goto
  <2>2. CASE stage = "qk"
    BY <2>1, <2>2 DEF InLoop, Rank
  <2>3. CASE stage # "qk"
    BY <2>1, <2>3 DEF InLoop, Rank
  <2> QED
    BY <2>2, <2>3
<1>7. CASE ClearImage \/ Build \/ ReadLogs \/ Untag
  <2>1. /\ i' = i /\ stage' = stage
        /\ \/ step = "image" /\ step' \in {"end", "build"}
           \/ step = "build" /\ step' \in {"clear", "end"}
           \/ step = "logs" /\ step' = "remove"
           \/ step = "untag" /\ step' = "end"
    BY <1>7 DEF ClearImage, Build, ReadLogs, Untag, Goto, Raise
  <2>2. stage = "dk"
    BY <2>1 DEF Control
  <2> QED
    BY <2>1, <2>2 DEF InLoop, Rank
<1>8. CASE Interrupt
  <2>1. /\ i' = i /\ stage' = stage /\ step \notin {"over", "left"}
        /\ step' = IF step \in {"summary", "gate", "next", "row"} THEN "left"
                   ELSE Handler(step)
    BY <1>8 DEF Interrupt
  <2>2. CASE step \in {"summary", "gate", "next", "row"}
    BY <2>1, <2>2
  <2>3. CASE InStage /\ stage = "qk"
    <3>1. step \notin {"image", "build", "logs", "untag"}
      BY <2>3 DEF Control
    <3> QED
      BY <2>1, <2>3, <3>1 DEF InStage, Handler, InLoop, Rank
  <2>4. CASE InStage /\ stage = "dk"
    <3>1. step \notin {"package", "probe"}
      BY <2>4 DEF Control
    <3> QED
      BY <2>1, <2>4, <3>1 DEF InStage, Handler, InLoop, Rank
  <2> QED
    BY <1>1, <2>1, <2>2, <2>3, <2>4 DEF TypeOK, InStage
<1> QED
  BY <1>2, <1>3, <1>4, <1>5, <1>6, <1>7, <1>8 DEF Main

\* Each of them leaves fewer steps.
LEMMA MainShortens ==
  ASSUME TypeOK, Control, TypeOK', Main \/ Interrupt
  PROVE  StepsLeft' \in Nat /\ StepsLeft' < StepsLeft
<1> DEFINE a == AllProjects  p == ProjectsLeft  q == ProjectsLeft'
           r == Rank(step, stage)  s == Rank(step', stage')
<1>1. /\ a \in Nat /\ p \in Nat /\ q \in Nat /\ p <= a /\ q <= a
      /\ i' = i => q = p
      /\ i' = i + 1 => q = p - 18
  <2>1. NumProblems \in Nat /\ i \in 0..NumProblems /\ i' \in 0..NumProblems
    BY BenchmarkAssumption DEF TypeOK
  <2>2. a = 18 * NumProblems /\ p = 18 * (NumProblems - i) /\ q = 18 * (NumProblems - i')
    BY DEF AllProjects, ProjectsLeft
  <2>3. \A n \in Nat : \A j, k \in 0..n :
          /\ 18 * (n - j) \in Nat /\ 18 * (n - j) <= 18 * n
          /\ k = j + 1 => 18 * (n - k) = 18 * (n - j) - 18
    OBVIOUS
  <2>4. 18 * NumProblems \in Nat
    BY <2>1
  <2> HIDE DEF a, p, q
  <2> QED
    BY <2>1, <2>2, <2>3, <2>4
<1>2. r \in 0..17 /\ s \in 0..17
  BY RankType
<1>3. /\ step = "summary" => StepsLeft = 3 + a
      /\ step = "gate" => StepsLeft = 2 + a
      /\ InLoop(step) => StepsLeft = 1 + r + p
  BY DEF StepsLeft, InLoop
<1>4. /\ step' \in {"over", "left"} => StepsLeft' = 0
      /\ step' = "gate" => StepsLeft' = 2 + a
      /\ InLoop(step') => StepsLeft' = 1 + s + q
  BY DEF StepsLeft, InLoop, AllProjects
<1>5. /\ step = "next" => r = 0 /\ InLoop(step)
      /\ step' = "next" => s = 0 /\ InLoop(step')
      /\ step' = "package" => s = 17 /\ InLoop(step')
      /\ step \notin {"over", "left"} => step = "summary" \/ step = "gate" \/ InLoop(step)
  BY DEF Rank, InLoop
<1> HIDE DEF a, p, q, r, s
<1>6. step \notin {"over", "left"}
  BY MainMoves
<1>7. CASE step' \in {"over", "left"}
  BY <1>1, <1>2, <1>3, <1>4, <1>5, <1>6, <1>7
<1>8. CASE step = "summary" /\ step' = "gate"
  BY <1>1, <1>3, <1>4, <1>8
<1>9. CASE step = "gate" /\ step' = "next" /\ i' = i
  BY <1>1, <1>3, <1>4, <1>5, <1>9
<1>10. CASE /\ step = "next" /\ i' = i + 1
            /\ step' = "package" \/ step' = "next"
  BY <1>1, <1>3, <1>4, <1>5, <1>10
<1>11. CASE InLoop(step) /\ InLoop(step') /\ i' = i /\ s < r
  BY <1>1, <1>2, <1>3, <1>4, <1>11
<1> QED
  BY <1>7, <1>8, <1>9, <1>10, <1>11, MainMoves DEF r, s

\* However its commands fail and whenever the user interrupts, the benchmark comes
\* to its end after 18 steps of the main thread for each project and 3 more at most:
\* each leaves fewer, and what the daemon and the containers do adds none
\* (run_batch, evaluate_project).
THEOREM BenchmarkIsBounded ==
    /\ Init => StepsLeft = 3 + 18 * NumProblems
    /\ Spec => [][IF Main \/ Interrupt THEN StepsLeft' \in Nat /\ StepsLeft' < StepsLeft
                                       ELSE StepsLeft' = StepsLeft]_vars
<1> DEFINE Fewer == IF Main \/ Interrupt THEN StepsLeft' \in Nat /\ StepsLeft' < StepsLeft
                                         ELSE StepsLeft' = StepsLeft
<1>1. Init => StepsLeft = 3 + 18 * NumProblems
  BY DEF Init, StepsLeft, AllProjects
<1>2. ASSUME IInv, IInv', Next PROVE Fewer
  <2>1. CASE Main \/ Interrupt
    BY <1>2, <2>1, MainShortens DEF IInv
  <2>2. CASE ~(Main \/ Interrupt)
    <3>1. UNCHANGED <<step, stage, i>>
      BY <1>2, <2>2 DEF Next, LateDone, thread
    <3> QED
      BY <2>2, <3>1 DEF StepsLeft, ProjectsLeft, AllProjects
  <2> QED
    BY <2>1, <2>2
<1>3. IInv /\ IInv' /\ [Next]_vars => [Fewer]_vars
  BY <1>2
<1> QED
  BY <1>1, <1>3, Invariant, PTL DEF Spec

-----------------------------------------------------------------------------
(* What the report says                                                    *)

\* The program ends with the exit code and a table of all projects, or was
\* interrupted or failed before there was a table.
Reported ==
    /\ step = "left" => raised = "interrupt" \/ rows = <<>>
    /\ step = "over" => /\ exit = (IF Failures > 0 THEN 1 ELSE 0)
                        /\ \A p \in DOMAIN rows : rows[p].evaluated
                        /\ rows # <<>> => Totals(rows).quarkus_runs \in 0..NumProblems

\* Before the loop there is no row; in it those of the projects behind are filled.
Filled ==
    /\ step \in {"summary", "gate"} => i = 0 /\ rows = <<>>
    /\ InLoop(step) => \A p \in Problem : p < i => rows[p].evaluated
    /\ step = "next" /\ i > 0 => rows[i].evaluated
    /\ step = "left" => raised = "interrupt" \/ rows = <<>>
    /\ step = "over" => /\ exit = (IF Failures > 0 THEN 1 ELSE 0)
                        /\ \A p \in DOMAIN rows : rows[p].evaluated

\* A filled row is filled.
LEMMA EvaluatedRowIs ==
  ASSUME NEW row \in Row, NEW r PROVE EvaluatedRow(row, r).evaluated
BY DEF EvaluatedRow, Row

\* Every step keeps the rows behind filled.
LEMMA FilledStep ==
  ASSUME IInv, Filled, Next
  PROVE  Filled'
<1>1. /\ TypeOK /\ Control /\ i \in 0..NumProblems /\ NumProblems \in Nat
      /\ Problem = 1..NumProblems
      /\ InLoop(step) => rows \in [Problem -> Row]
  <2>1. TypeOK /\ Control /\ (InLoop(step) => rows \in [Problem -> Row])
    BY DEF IInv, Found, InLoop
  <2> QED
    BY <2>1, BenchmarkAssumption DEF TypeOK, Problem
<1>2. batch' = batch /\ Failures' = Failures
  <2>1. batch' = batch
    BY DEF Next, Main, WriteSummary, Gate, NextProject, WriteRow, WriteTable, Package, Clear,
           Run, Poll, ProbeStep, TearDown, EndStage, ClearImage, Build, ReadLogs, Untag,
           Interrupt, LateDone
  <2> QED
    BY <2>1 DEF Failures
<1>3. CASE LateDone \/ ((\E n \in Name : Boot(n) \/ Stop(n))
                        /\ UNCHANGED <<batch, thread, image, late, history>>)
  <2>1. UNCHANGED <<step, i, rows, raised, exit>>
    BY <1>3 DEF LateDone, thread
  <2> QED
    BY <1>2, <2>1 DEF Filled, InLoop
<1>4. CASE WriteSummary
  <2>1. step = "summary" /\ UNCHANGED <<i, rows>>
        /\ \/ step' = "gate"
           \/ step' = "over" /\ exit' = (IF Failures > 0 THEN 1 ELSE 0)
           \/ step' = "left"
    BY <1>4 DEF WriteSummary, Goto, End, Raise
  <2> QED
    BY <1>2, <2>1 DEF Filled, InLoop
<1>5. CASE Gate
  <2>1. /\ step = "gate" /\ i' = i
        /\ \/ step' = "over" /\ exit' = (IF Failures > 0 THEN 1 ELSE 0) /\ rows' = rows
           \/ /\ step' = "next"
              /\ rows' = [p \in Problem |-> BenchmarkFromResult(ResultOf(p))]
    BY <1>5 DEF Gate, End
  <2> QED
    BY <1>1, <1>2, <2>1 DEF Filled, InLoop
<1>6. CASE NextProject
  <2>1. /\ step = "next" /\ i < NumProblems /\ i' = i + 1 /\ i' \in Problem
        /\ rows \in [Problem -> Row]
    BY <1>1, <1>6 DEF NextProject, InLoop
  <2>2. \A p \in Problem : p < i' => rows[p].evaluated
    BY <1>1, <2>1 DEF Filled, InLoop
  <2>3. CASE step' = "package" /\ rows' = rows
    BY <2>2, <2>3 DEF Filled, InLoop
  <2>4. CASE step' = step /\ rows' = [rows EXCEPT ![i'] = EvaluatedRow(@, NoRec)]
    <3>1. rows'[i'].evaluated /\ \A p \in Problem : p < i' => rows'[p] = rows[p]
      BY <1>1, <2>1, <2>4, EvaluatedRowIs
    <3> QED
      BY <2>1, <2>2, <2>4, <3>1 DEF Filled, InLoop
  <2> QED
    BY <1>6, <2>3, <2>4 DEF NextProject
<1>7. CASE WriteRow
  <2>1. /\ step = "row" /\ step' = "next" /\ i' = i /\ i \in Problem
        /\ rows \in [Problem -> Row] /\ rows' = [rows EXCEPT ![i] = EvaluatedRow(@, rec)]
    BY <1>1, <1>7 DEF WriteRow, InLoop, Control
  <2>2. rows'[i].evaluated /\ \A p \in Problem : p < i => rows'[p] = rows[p]
    BY <1>1, <2>1, EvaluatedRowIs
  <2> QED
    BY <2>1, <2>2 DEF Filled, InLoop
<1>8. CASE WriteTable
  <2>1. /\ step = "next" /\ i = NumProblems /\ step' = "over" /\ rows' = rows
        /\ exit' = (IF Failures > 0 THEN 1 ELSE 0)
    BY <1>8 DEF WriteTable, End
  <2>2. \A p \in DOMAIN rows : rows[p].evaluated
    BY <1>1, <2>1 DEF Filled, InLoop
  <2> QED
    BY <1>2, <2>1, <2>2 DEF Filled, InLoop
<1>9. CASE Package \/ Clear \/ Run \/ Poll \/ ProbeStep \/ TearDown \/ EndStage
           \/ ClearImage \/ Build \/ ReadLogs \/ Untag
  <2>1. /\ UNCHANGED <<i, rows>> /\ InLoop(step)
        /\ \/ InLoop(step') /\ step' # "next"
           \/ step' = "left" /\ raised' = "interrupt"
    <3>1. CASE Package \/ Clear \/ Run
      BY <3>1 DEF Package, Clear, Run, Goto, Raise, InLoop
    <3>2. CASE Poll \/ ProbeStep \/ TearDown
      BY <3>2, ProbeMoves DEF Poll, TearDown, Goto, InLoop
    <3>3. CASE EndStage
      BY <3>3 DEF EndStage, Propagates, InLoop
    <3>4. CASE ClearImage \/ Build \/ ReadLogs \/ Untag
      BY <3>4 DEF ClearImage, Build, ReadLogs, Untag, Goto, Raise, InLoop
    <3> QED
      BY <1>9, <3>1, <3>2, <3>3, <3>4
  <2> QED
    BY <2>1 DEF Filled, InLoop
<1>10. CASE Interrupt
  <2>1. UNCHANGED <<i, rows>> /\ raised' = "interrupt"
        /\ \/ step' = "left"
           \/ InLoop(step) /\ InLoop(step') /\ step' # "next"
    BY <1>10 DEF Interrupt, Handler, InLoop
  <2> QED
    BY <2>1 DEF Filled, InLoop
<1> QED
  BY <1>3, <1>4, <1>5, <1>6, <1>7, <1>8, <1>9, <1>10 DEF Next, Main

\* The cells of a column that are filled in are at most the projects.
LEMMA ColumnType ==
  ASSUME rows \in [Problem -> Row], \E p \in DOMAIN rows : rows[p].evaluated
  PROVE  Totals(rows).quarkus_runs \in 0..NumProblems
<1> DEFINE Up == {p \in DOMAIN rows : rows[p].quarkus_runs = TRUE}
<1>1. Totals(rows).quarkus_runs = Cardinality(Up)
  BY DEF Totals
<1>2. IsFiniteSet(Problem) /\ Cardinality(Problem) = NumProblems /\ NumProblems \in Nat
  BY BenchmarkAssumption, FS_Interval DEF Problem
<1>3. Up \subseteq Problem
  OBVIOUS
<1>4. IsFiniteSet(Up) /\ Cardinality(Up) <= NumProblems
  BY <1>2, <1>3, FS_Subset
<1>5. Cardinality(Up) \in Nat
  BY <1>4, FS_CardinalityType
<1> QED
  BY <1>1, <1>2, <1>4, <1>5

\* Nothing that fails keeps the table and the exit code from coming out, once there
\* are rows: only an interrupt does (ReportIsOut says that they do come; "one
\* project must never abort the benchmark", evaluate_project).
THEOREM ReportIsWhole == Spec => []Reported
<1>1. Init => Filled
  BY DEF Init, Filled, InLoop
<1>2. IInv /\ Filled /\ [Next]_vars => Filled'
  <2>1. ASSUME Filled, UNCHANGED vars PROVE Filled'
    <3>1. UNCHANGED <<batch, step, i, rows, raised, exit>>
      BY <2>1 DEF vars, thread
    <3>2. Failures' = Failures
      BY <3>1 DEF Failures
    <3> QED
      BY <2>1, <3>1, <3>2 DEF Filled, InLoop
  <2> QED
    BY <2>1, FilledStep
<1>3. IInv /\ Filled => Reported
  <2> SUFFICES ASSUME IInv, Filled PROVE Reported
    OBVIOUS
  <2>1. ASSUME step = "over", rows # <<>> PROVE Totals(rows).quarkus_runs \in 0..NumProblems
    <3>1. rows \in [Problem -> Row]
      BY <2>1 DEF IInv, TypeOK
    <3>2. 1 \in Problem
      BY BenchmarkAssumption DEF Problem
    <3>3. \E p \in DOMAIN rows : rows[p].evaluated
      BY <2>1, <3>1, <3>2 DEF Filled
    <3> QED
      BY <3>1, <3>3, ColumnType
  <2> QED
    BY <2>1 DEF Filled, Reported
<1> QED
  BY <1>1, <1>2, <1>3, Invariant, PTL DEF Spec
=============================================================================

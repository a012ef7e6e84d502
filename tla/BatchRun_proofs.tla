--------------------------- MODULE BatchRun_proofs ---------------------------
(***************************************************************************)
(* Proofs about BatchRun, for any number of workers, containers, problems, *)
(* revisions, mishaps and interrupts.  One inductive invariant, IInv, in   *)
(* named parts; one lemma per part says that a step preserves it.  After   *)
(* the invariants: a batch is a bounded number of steps, it is never stuck *)
(* before its end, and the comments of validate hold while nothing goes    *)
(* wrong.                                                                  *)
(*                                                                         *)
(* First, of DockerValidator: what one docker command does, for any        *)
(* clients and containers.  It touches its own call and its own container  *)
(* only, keeps their types, and keeps a local invariant between the two    *)
(* from which the isolation of validations in a batch is proved.           *)
(***************************************************************************)
EXTENDS BatchRun, FoldLemmas, FunctionTheorems

-----------------------------------------------------------------------------
(* One docker command                                                      *)

BeforeExec == {"probe", "exists", "restart", "remove", "create", "clear", "mkdir", "copy"}

\* Of a call r of validate, its container b and those lingering in it, l: what
\* is in /project and what the call has seen of it.
Isolated(r, b, l) ==
    /\ b.orphans \subseteq l
    /\ r.step # "idle" => r.verdict = "pending"
    /\ r.step \in BeforeExec => r.saw = {}
    /\ r.step \in {"mkdir", "copy"} => b.tree \subseteq l
    /\ r.step \in ExecStep =>
          /\ b.tree \subseteq {r.manifest} \cup l
          /\ b.status # "absent" => r.manifest \in b.tree
    /\ r.saw \subseteq {r.manifest} \cup l
    /\ r.verdict = "none" => r.manifest \in r.saw

-----------------------------------------------------------------------------
\* An absent container and a new one are containers.
LEMMA BoxConstantsType == Gone \in Box /\ Fresh \in Box
  BY DEF Gone, Fresh, Box, Status

\* A command keeps the types.

\* What the commands make of a call is a call.
LEMMA CallUpdates ==
  ASSUME NEW r \in Call, NEW s \in Step, NEW v \in Verdict, NEW S \in SUBSET Manifest
  PROVE  /\ [r EXCEPT !.step = s] \in Call
         /\ [r EXCEPT !.step = s, !.verdict = v] \in Call
         /\ [r EXCEPT !.step = s, !.saw = S, !.verdict = v] \in Call
  BY DEF Call

\* The finite sets of steps and verdicts, spelled out.
LEMMA Words ==
  /\ \A s \in BeforeExec \cup ExecStep \cup {"idle"} : s \in Step
  /\ ErrorPhase \cup {"none", "raised", "started", "not_started", "pending"} \subseteq Verdict
  /\ BeforeExec = {"probe", "exists", "restart", "remove", "create", "clear", "mkdir", "copy"}
  /\ ExecStep = {"compile", "execute", "test"}
  /\ ErrorPhase = {"compilation", "runtime", "test"}
  /\ \A s \in ExecStep : AfterSuccess(s) \in Step /\ PhaseOf(s) \in ErrorPhase
  BY DEF BeforeExec, ExecStep, Step, Verdict, ErrorPhase, AfterSuccess, PhaseOf

\* What the commands make of a container is a container.
LEMMA BoxUpdates ==
  ASSUME NEW b \in Box, NEW m \in Manifest
  PROVE  /\ [b EXCEPT !.status = "running"] \in Box
         /\ [b EXCEPT !.status = "stopped", !.orphans = {}] \in Box
         /\ [b EXCEPT !.dir = TRUE] \in Box
         /\ [b EXCEPT !.tree = @ \cup {m}] \in Box
         /\ [b EXCEPT !.tree = @ \cup {m}, !.dir = TRUE] \in Box
         /\ [b EXCEPT !.orphans = @ \cup {m}] \in Box
         /\ [b EXCEPT !.orphans = @ \ {m}] \in Box
         /\ Emptied(b) \in Box
  BY DEF Box, Status, Emptied

\* x's call became r, or x's container b, and nothing else changed.
CallBecame(x, r) == r \in Call /\ call' = [call EXCEPT ![x] = r]
BoxBecame(c, b) == b \in Box /\ box' = [box EXCEPT ![c] = b]
LingeringBecame(c, l) ==
    l \in SUBSET Manifest /\ lingering' = [lingering EXCEPT ![c] = l]

\* GoTo and Finish change one call.
LEMMA CallMoves ==
  ASSUME DockerTypeOK, NEW x \in Client
  PROVE  /\ \A s \in Step : GoTo(x, s) => CallBecame(x, [call[x] EXCEPT !.step = s])
         /\ \A v \in Verdict : Finish(x, v) =>
               CallBecame(x, [call[x] EXCEPT !.step = "idle", !.verdict = v])
PROOF
<1>1. call[x] \in Call /\ call \in [Client -> Call]
  BY DEF DockerTypeOK
<1>2. "idle" \in Step /\ "pending" \in Verdict
  BY Words
<1>3. ASSUME NEW s \in Step, GoTo(x, s)
      PROVE  CallBecame(x, [call[x] EXCEPT !.step = s])
  BY <1>3, <1>1, <1>2, CallUpdates DEF GoTo, CallBecame
<1>4. ASSUME NEW v \in Verdict, Finish(x, v)
      PROVE  CallBecame(x, [call[x] EXCEPT !.step = "idle", !.verdict = v])
  BY <1>4, <1>1, <1>2, CallUpdates DEF Finish, CallBecame
<1> QED
  BY <1>3, <1>4

\* A call that became r is r.
LEMMA CallBecoming ==
  ASSUME DockerTypeOK, NEW x \in Client, NEW r, CallBecame(x, r)
  PROVE  CallBecame(x, call'[x]) /\ call'[x] = r
  BY DEF DockerTypeOK, CallBecame

\* A container that became b, or stayed it, is b.
LEMMA BoxBecoming ==
  ASSUME DockerTypeOK, NEW c \in Container, NEW b, BoxBecame(c, b) \/ (UNCHANGED box /\ b = box[c])
  PROVE  BoxBecame(c, box'[c]) /\ box'[c] = b
  BY DEF DockerTypeOK, BoxBecame

\* The same for what lingers in a container.
LEMMA LingeringBecoming ==
  ASSUME DockerTypeOK, NEW c \in Container, NEW l,
         LingeringBecame(c, l) \/ (UNCHANGED lingering /\ l = lingering[c])
  PROVE  LingeringBecame(c, lingering'[c]) /\ lingering'[c] = l
  BY DEF DockerTypeOK, LingeringBecame

\* The call x is in is of its container, and of a manifest once there is
\* something to copy or to run.
CallMakesSense(x) ==
    /\ call[x].name \in Container
    /\ call[x].step \in {"copy"} \cup ExecStep => call[x].manifest \in Manifest

\* A command changes its own call, its own container and what is remembered of
\* that container, and leaves every other call and container alone.
LEMMA CallStepShape ==
  ASSUME DockerTypeOK, NEW x \in Client, CallMakesSense(x), CallStep(x)
  PROVE  /\ CallBecame(x, call'[x])
         /\ BoxBecame(call[x].name, box'[call[x].name])
         /\ LingeringBecame(call[x].name, lingering'[call[x].name])
         /\ mishaps' \in 0..MaxMishaps
         /\ image' = image
PROOF
<1> DEFINE c == call[x].name
           m == call[x].manifest
           Shape == /\ CallBecame(x, call'[x])
                    /\ BoxBecame(c, box'[c])
                    /\ LingeringBecame(c, lingering'[c])
                    /\ mishaps' \in 0..MaxMishaps
                    /\ image' = image
<1>1. /\ call[x] \in Call /\ c \in Container /\ box[c] \in Box
      /\ mishaps \in 0..MaxMishaps
      /\ box \in [Container -> Box] /\ call \in [Client -> Call]
  BY DEF DockerTypeOK, CallMakesSense
<1>2. /\ box[c].orphans \in SUBSET Manifest /\ box[c].tree \in SUBSET Manifest
      /\ call[x].saw \in SUBSET Manifest /\ call[x].step \in Step
      /\ call[x].verdict \in Verdict
  BY <1>1 DEF Box, Call
<1>3. /\ \A s \in Step : GoTo(x, s) => CallBecame(x, call'[x])
      /\ \A v \in Verdict : Finish(x, v) => CallBecame(x, call'[x])
  <2>1. ASSUME NEW s \in Step, GoTo(x, s) PROVE CallBecame(x, call'[x])
    BY <2>1, CallMoves, CallBecoming
  <2>2. ASSUME NEW v \in Verdict, Finish(x, v) PROVE CallBecame(x, call'[x])
    BY <2>2, CallMoves, CallBecoming
  <2> QED
    BY <2>1, <2>2
<1>4. Started(x) \/ NotStarted(x) => CallBecame(x, call'[x])
  BY <1>3, Words DEF Started, NotStarted
<1>5. \A b \in Box : box' = [box EXCEPT ![c] = b] => BoxBecame(c, box'[c])
  BY BoxBecoming, <1>1 DEF BoxBecame
<1>l. UNCHANGED lingering => LingeringBecame(c, lingering'[c])
  BY LingeringBecoming, <1>1
<1>b. UNCHANGED box => BoxBecame(c, box'[c])
  BY BoxBecoming, <1>1
<1> SUFFICES Shape
  OBVIOUS
<1>6. UNCHANGED <<image, box, lingering, mishaps>> /\ CallBecame(x, call'[x]) => Shape
  BY <1>1, <1>l, <1>b
<1>7. /\ UNCHANGED <<image, lingering, mishaps>>
      /\ CallBecame(x, call'[x])
      /\ BoxBecame(c, box'[c])
      => Shape
  BY <1>1, <1>l
<1> HIDE DEF Shape
<1>10. CASE Probe(x)
  BY <1>10, <1>3, <1>4, <1>6, Words DEF Probe
<1>11. CASE CheckExists(x)
  BY <1>11, <1>3, <1>6, Words DEF CheckExists
<1>12. CASE RestartSucceeds(x)
  <2>1. box' = [box EXCEPT ![c] = [box[c] EXCEPT !.status = "running"]]
    BY <1>12, <1>1 DEF RestartSucceeds
  <2>2. [box[c] EXCEPT !.status = "running"] \in Box
    BY <1>1 DEF Box, Status
  <2>3. BoxBecame(c, box'[c])
    BY <2>1, <2>2, <1>5
  <2> QED
    BY <2>3, <1>12, <1>4, <1>7 DEF RestartSucceeds
<1>13. CASE RestartFails(x)
  BY <1>13, <1>3, <1>6, Words DEF RestartFails
<1>14. CASE RemoveOld(x)
  BY <1>14, <1>3, <1>5, <1>7, Words, BoxConstantsType DEF RemoveOld
<1>15. CASE CreateSucceeds(x)
  BY <1>15, <1>4, <1>5, <1>7, BoxConstantsType DEF CreateSucceeds
<1>16. CASE CreateFails(x)
  BY <1>16, <1>4, <1>6 DEF CreateFails
<1>17. CASE Clear(x)
  <2>1. Emptied(box[c]) \in Box
    BY <1>1 DEF Box, Emptied
  <2>2. BoxBecame(c, box'[c])
    BY <2>1, <1>5, <1>17 DEF Clear
  <2>3. LingeringBecame(c, lingering'[c])
    BY <1>1, <1>2, <1>17, LingeringBecoming DEF Clear, LingeringBecame
  <2>4. CallBecame(x, call'[x])
    BY <1>17, <1>3, Words DEF Clear
  <2> QED
    BY <2>2, <2>3, <2>4, <1>1, <1>17 DEF Clear, Shape
<1>18. CASE MakeDir(x)
  <2>1. box' = [box EXCEPT ![c] = [box[c] EXCEPT !.dir = TRUE]]
    BY <1>18, <1>1 DEF MakeDir
  <2>2. [box[c] EXCEPT !.dir = TRUE] \in Box
    BY <1>1 DEF Box
  <2>3. CallBecame(x, call'[x])
    BY <1>18, <1>3, Words DEF MakeDir
  <2> QED
    BY <2>1, <2>2, <2>3, <1>18, <1>5, <1>7 DEF MakeDir
<1>a. m \in Manifest /\ box' = [box EXCEPT ![c].tree = @ \cup {m}] => BoxBecame(c, box'[c])
  <2>1. [box EXCEPT ![c].tree = @ \cup {m}] = [box EXCEPT ![c] = [box[c] EXCEPT !.tree = @ \cup {m}]]
    BY <1>1
  <2> QED
    BY <2>1, <1>1, <1>5, BoxUpdates
<1>19. CASE Copy(x)
  <2>1. m \in Manifest
    BY <1>19 DEF Copy, CallMakesSense
  <2>2. CallBecame(x, call'[x])
    BY <1>19, <1>3, Words DEF Copy
  <2> QED
    BY <2>1, <2>2, <1>19, <1>a, <1>7 DEF Copy
<1>20. CASE CopyFails(x)
  <2>1. CallBecame(x, call'[x])
    BY <1>20, <1>3, Words DEF CopyFails
  <2>2. BoxBecame(c, box'[c])
    <3>1. CASE box[c].dir /\ call[x].step = "copy"
      <4>1. m \in Manifest
        BY <3>1 DEF CallMakesSense
      <4>2. UNCHANGED box \/ box' = [box EXCEPT ![c].tree = @ \cup {m}]
        BY <3>1, <1>20 DEF CopyFails
      <4> QED
        BY <4>1, <4>2, <1>a, <1>b
    <3>2. CASE ~(box[c].dir /\ call[x].step = "copy")
      <4>1. UNCHANGED box \/ box' = [box EXCEPT ![c].tree = @]
        BY <3>2, <1>20 DEF CopyFails
      <4>2. [box EXCEPT ![c].tree = @] = [box EXCEPT ![c] = [box[c] EXCEPT !.tree = box[c].tree]]
        BY <1>1
      <4>3. [box[c] EXCEPT !.tree = box[c].tree] \in Box
        BY <1>1 DEF Box
      <4> QED
        BY <4>1, <4>2, <4>3, <1>5, <1>b
    <3> QED
      BY <3>1, <3>2
  <2> QED
    BY <2>1, <2>2, <1>20, <1>7 DEF CopyFails
<1>21. CASE CopyTimesOut(x)
  <2>1. m \in Manifest
    BY <1>21 DEF CopyTimesOut, CallMakesSense
  <2>2. CallBecame(x, call'[x])
    BY <1>21, <1>3, Words DEF CopyTimesOut
  <2>3. UNCHANGED box \/ box' = [box EXCEPT ![c].tree = @ \cup {m}]
    BY <1>21 DEF CopyTimesOut
  <2> QED
    BY <2>1, <2>2, <2>3, <1>21, <1>a, <1>b, <1>7 DEF CopyTimesOut
<1>c. ASSUME NEW s \in Step, NEW S \in SUBSET Manifest, NEW v \in Verdict,
             call' = [call EXCEPT ![x].step = s, ![x].saw = S, ![x].verdict = v]
      PROVE  CallBecame(x, call'[x])
  <2>1. call' = [call EXCEPT ![x] = [call[x] EXCEPT !.step = s, !.saw = S, !.verdict = v]]
    BY <1>c, <1>1
  <2>2. [call[x] EXCEPT !.step = s, !.saw = S, !.verdict = v] \in Call
    BY CallUpdates, <1>1
  <2> QED
    BY <2>1, <2>2, <1>1, CallBecoming DEF CallBecame
<1>d. Seen(x) \in SUBSET Manifest
  BY <1>2 DEF Seen
<1>22. CASE Succeeds(x)
  <2>1. call[x].step \in ExecStep /\ AfterSuccess(call[x].step) \in Step
    BY <1>22, Words DEF Succeeds, Running
  <2>2. CallBecame(x, call'[x])
    BY <2>1, <1>c, <1>d, <1>1, <1>2, <1>22, Words DEF Succeeds
  <2> QED
    BY <2>2, <1>22, <1>6 DEF Succeeds
<1>23. CASE Fails(x)
  <2>1. PhaseOf(call[x].step) \in Verdict /\ "idle" \in Step
    BY <1>23, Words DEF Fails
  <2>2. CallBecame(x, call'[x])
    BY <2>1, <1>c, <1>d, <1>1, <1>2, <1>23 DEF Fails
  <2> QED
    BY <2>2, <1>23, <1>6 DEF Fails
<1>24. CASE TimesOut(x)
  <2>1. PhaseOf(call[x].step) \in Verdict /\ "idle" \in Step /\ m \in Manifest
    BY <1>24, Words DEF TimesOut, Running, CallMakesSense
  <2>2. CallBecame(x, call'[x])
    BY <2>1, <1>c, <1>d, <1>24 DEF TimesOut
  <2>3. box' = [box EXCEPT ![c] = [box[c] EXCEPT !.orphans = @ \cup {m}]]
    BY <1>24, <1>1 DEF TimesOut
  <2>4. BoxBecame(c, box'[c])
    BY <2>1, <2>3, <1>1, <1>5, BoxUpdates
  <2>5. lingering[c] \cup {m} \in SUBSET Manifest
    BY <2>1, <1>1 DEF DockerTypeOK
  <2>6. LingeringBecame(c, lingering'[c])
    BY <2>5, <1>1, <1>24, LingeringBecoming DEF TimesOut, LingeringBecame
  <2>7. mishaps' \in 0..MaxMishaps /\ image' = image
    BY <1>24, <1>1, DockerAssumption DEF TimesOut, Mishap
  <2> QED
    BY <2>2, <2>4, <2>6, <2>7 DEF Shape
<1> QED
  BY <1>10, <1>11, <1>12, <1>13, <1>14, <1>15, <1>16, <1>17, <1>18, <1>19, <1>20,
     <1>21, <1>22, <1>23, <1>24 DEF CallStep

-----------------------------------------------------------------------------
\* What a command makes of the fields of its call.
CallIs(x, s, S, v) ==
    /\ call'[x].step = s /\ call'[x].saw = S /\ call'[x].verdict = v
    /\ call'[x].name = call[x].name /\ call'[x].manifest = call[x].manifest

\* The fields of a call after GoTo, Finish and a command that has seen files.
LEMMA CallFields ==
  ASSUME DockerTypeOK, NEW x \in Client
  PROVE  /\ \A s : GoTo(x, s) => CallIs(x, s, call[x].saw, call[x].verdict)
         /\ \A v : Finish(x, v) => CallIs(x, "idle", call[x].saw, v)
         /\ \A s, S, v :
               call' = [call EXCEPT ![x].step = s, ![x].saw = S, ![x].verdict = v]
               => CallIs(x, s, S, v)
PROOF
<1>1. call[x] \in Call /\ call \in [Client -> Call]
  BY DEF DockerTypeOK
<1> DEFINE r == call[x]
<1>2. ASSUME NEW s, GoTo(x, s) PROVE CallIs(x, s, r.saw, r.verdict)
  <2>1. call'[x] = [r EXCEPT !.step = s]
    BY <1>1, <1>2 DEF GoTo
  <2> QED
    BY <2>1, <1>1 DEF CallIs, Call
<1>3. ASSUME NEW v, Finish(x, v) PROVE CallIs(x, "idle", r.saw, v)
  <2>1. call'[x] = [r EXCEPT !.step = "idle", !.verdict = v]
    BY <1>1, <1>3 DEF Finish
  <2> QED
    BY <2>1, <1>1 DEF CallIs, Call
<1>4. ASSUME NEW s, NEW S, NEW v,
             call' = [call EXCEPT ![x].step = s, ![x].saw = S, ![x].verdict = v]
      PROVE  CallIs(x, s, S, v)
  <2>1. call'[x] = [r EXCEPT !.step = s, !.saw = S, !.verdict = v]
    BY <1>1, <1>4
  <2> QED
    BY <2>1, <1>1 DEF CallIs, Call
<1> QED
  BY <1>2, <1>3, <1>4

\* What a command makes of the fields of its container.
BoxIs(c, status, tree, orphans) ==
    /\ box'[c].status = status /\ box'[c].tree = tree /\ box'[c].orphans = orphans

\* A container no command has touched.
LEMMA BoxSame ==
  ASSUME NEW c, UNCHANGED box
  PROVE  BoxIs(c, box[c].status, box[c].tree, box[c].orphans)
  BY DEF BoxIs

\* A command of validate keeps its container to the manifest of the call and to
\* those that linger.
LEMMA CallStepIsolates ==
  ASSUME DockerTypeOK, NEW x \in Client, CallMakesSense(x),
         call[x].manifest \in Manifest,
         Isolated(call[x], box[call[x].name], lingering[call[x].name]),
         CallStep(x)
  PROVE  /\ Isolated(call'[x], box'[call[x].name], lingering'[call[x].name])
         /\ call'[x].name = call[x].name /\ call'[x].manifest = call[x].manifest
PROOF
<1> DEFINE r == call[x]
           c == r.name
           m == r.manifest
           b == box[c]
           l == lingering[c]
           Kept == /\ Isolated(call'[x], box'[c], lingering'[c])
                   /\ call'[x].name = r.name /\ call'[x].manifest = r.manifest
<1>1. /\ c \in Container /\ b \in Box /\ r \in Call /\ m # None
      /\ box \in [Container -> Box] /\ lingering \in [Container -> SUBSET Manifest]
  BY DockerAssumption DEF DockerTypeOK, CallMakesSense
<1>2. Isolated(r, b, l)
  OBVIOUS
<1>3. r.step # "idle"
  BY Words DEF CallStep, Probe, CheckExists, RestartSucceeds, RestartFails, RemoveOld,
     CreateSucceeds, CreateFails, Clear, MakeDir, Copy, CopyFails, CopyTimesOut,
     Succeeds, Fails, TimesOut, Running
<1>4. r.verdict = "pending"
  BY <1>2, <1>3 DEF Isolated
<1> HIDE DEF c, m, b, l, r
<1> SUFFICES Kept
  BY DEF c, r, m
<1>5. /\ \A s : GoTo(x, s) => CallIs(x, s, r.saw, "pending")
      /\ \A v : Finish(x, v) => CallIs(x, "idle", r.saw, v)
      /\ Started(x) => CallIs(x, "clear", r.saw, "pending")
      /\ NotStarted(x) => CallIs(x, "idle", r.saw, "compilation")
  <2>1. /\ \A s : GoTo(x, s) => CallIs(x, s, r.saw, "pending")
        /\ \A v : Finish(x, v) => CallIs(x, "idle", r.saw, v)
    BY CallFields, <1>4 DEF r
  <2> QED
    BY <2>1, <1>1 DEF Started, NotStarted, m, r
<1>e. /\ r.step \in BeforeExec => r.saw = {}
      /\ b.orphans \subseteq l
      /\ r.step \in {"mkdir", "copy"} => b.tree \subseteq l
      /\ r.saw \subseteq {m} \cup l
  BY <1>2 DEF Isolated, m
\* A step up to the copy that goes on with the next.
<1>6. ASSUME NEW s \in {"exists", "restart", "remove", "create", "clear"},
             NEW st, NEW T, NEW O \in SUBSET l,
             CallIs(x, s, {}, "pending"), BoxIs(c, st, T, O), lingering' = lingering
      PROVE  Kept
  BY <1>6, Words DEF Isolated, CallIs, BoxIs, m, l, r, c
\* The call ends without having run anything.
<1>7. ASSUME NEW v \in {"compilation", "raised"},
             NEW st, NEW T, NEW O \in SUBSET l,
             CallIs(x, "idle", {}, v), BoxIs(c, st, T, O), lingering' = lingering
      PROVE  Kept
  BY <1>7, Words DEF Isolated, CallIs, BoxIs, m, l, r, c
<1>s. UNCHANGED box => BoxIs(c, b.status, b.tree, b.orphans)
  BY BoxSame DEF b
<1> HIDE DEF Kept
<1>10. CASE Probe(x)
  <2>1. r.saw = {}
    BY <1>10, <1>e, Words DEF Probe, r
  <2> QED
    BY <2>1, <1>10, <1>5, <1>6, <1>s, <1>e DEF Probe
<1>11. CASE CheckExists(x)
  <2>1. r.saw = {}
    BY <1>11, <1>e, Words DEF CheckExists, r
  <2> QED
    BY <2>1, <1>11, <1>5, <1>6, <1>s, <1>e DEF CheckExists
<1>12. CASE RestartSucceeds(x)
  <2>1. r.saw = {}
    BY <1>12, <1>e, Words DEF RestartSucceeds, r
  <2>2. BoxIs(c, "running", b.tree, b.orphans)
    <3>1. box'[c] = [b EXCEPT !.status = "running"]
      BY <1>12, <1>1 DEF RestartSucceeds, c, r, b
    <3> QED
      BY <3>1, <1>1 DEF BoxIs, Box
  <2> QED
    BY <2>1, <2>2, <1>12, <1>5, <1>6, <1>e DEF RestartSucceeds
<1>13. CASE RestartFails(x)
  <2>1. r.saw = {}
    BY <1>13, <1>e, Words DEF RestartFails, r
  <2> QED
    BY <2>1, <1>13, <1>5, <1>6, <1>s, <1>e DEF RestartFails
<1>14. CASE RemoveOld(x)
  <2>1. r.saw = {}
    BY <1>14, <1>e, Words DEF RemoveOld, r
  <2>2. BoxIs(c, "absent", {}, {})
    BY <1>14, <1>1 DEF RemoveOld, c, r, Gone, BoxIs
  <2> QED
    BY <2>1, <2>2, <1>14, <1>5, <1>6, <1>e DEF RemoveOld
<1>15. CASE CreateSucceeds(x)
  <2>1. r.saw = {}
    BY <1>15, <1>e, Words DEF CreateSucceeds, r
  <2>2. BoxIs(c, "running", {}, {})
    BY <1>15, <1>1 DEF CreateSucceeds, c, r, Fresh, BoxIs
  <2> QED
    BY <2>1, <2>2, <1>15, <1>5, <1>6, <1>e DEF CreateSucceeds
<1>16. CASE CreateFails(x)
  <2>1. r.saw = {}
    BY <1>16, <1>e, Words DEF CreateFails, r
  <2> QED
    BY <2>1, <1>16, <1>5, <1>7, <1>s, <1>e DEF CreateFails
<1>17. CASE Clear(x)
  <2>1. r.saw = {}
    BY <1>17, <1>e, Words DEF Clear, r
  <2>2. box'[c].tree = {} /\ box'[c].orphans = b.orphans
    <3>1. box'[c] = Emptied(b)
      BY <1>17, <1>1 DEF Clear, c, r, b
    <3> QED
      BY <3>1, <1>1 DEF Emptied, Box
  <2>3. lingering'[c] = b.orphans
    BY <1>17, <1>1 DEF Clear, c, r, b
  <2>4. CallIs(x, "mkdir", {}, "pending")
    BY <2>1, <1>17, <1>5 DEF Clear
  <2> QED
    BY <2>2, <2>3, <2>4, Words DEF Kept, Isolated, CallIs, r, m, c
<1>18. CASE MakeDir(x)
  <2>1. r.saw = {} /\ b.tree \subseteq l
    BY <1>18, <1>e, Words DEF MakeDir, r
  <2>2. box'[c].tree = b.tree /\ box'[c].orphans = b.orphans
    <3>1. box'[c] = [b EXCEPT !.dir = TRUE]
      BY <1>18, <1>1 DEF MakeDir, c, r, b
    <3> QED
      BY <3>1, <1>1 DEF Box
  <2>3. lingering'[c] = l
    BY <1>18 DEF MakeDir, l
  <2>4. CallIs(x, "copy", {}, "pending")
    BY <2>1, <1>18, <1>5 DEF MakeDir
  <2> QED
    BY <2>1, <2>2, <2>3, <2>4, <1>e, Words DEF Kept, Isolated, CallIs, r, m, c
<1>c. ASSUME box' = [box EXCEPT ![c].tree = @ \cup {m}]
      PROVE  BoxIs(c, b.status, b.tree \cup {m}, b.orphans)
  <2>1. box'[c] = [b EXCEPT !.tree = @ \cup {m}]
    BY <1>c, <1>1 DEF b
  <2> QED
    BY <2>1, <1>1 DEF Box, BoxIs
<1>19. CASE Copy(x)
  <2>1. r.saw = {} /\ b.tree \subseteq l
    BY <1>19, <1>e, Words DEF Copy, r
  <2>2. BoxIs(c, b.status, b.tree \cup {m}, b.orphans)
    BY <1>19, <1>c DEF Copy, c, m, r
  <2>3. lingering'[c] = l
    BY <1>19 DEF Copy, l
  <2>4. CallIs(x, "compile", {}, "pending")
    BY <2>1, <1>19, <1>5 DEF Copy
  <2> QED
    BY <2>1, <2>2, <2>3, <2>4, <1>e, Words DEF Kept, Isolated, CallIs, BoxIs, r, m, c
<1>20. CASE CopyFails(x)
  <2>1. r.saw = {}
    BY <1>20, <1>e, Words DEF CopyFails, r
  <2>2. PICK T : BoxIs(c, b.status, T, b.orphans)
    <3>1. \/ UNCHANGED box
          \/ box' = [box EXCEPT ![c].tree = @ \cup {m}]
          \/ box' = [box EXCEPT ![c].tree = @]
      BY <1>20 DEF CopyFails, c, m, r
    <3>2. CASE box' = [box EXCEPT ![c].tree = @]
      <4>1. box'[c] = [b EXCEPT !.tree = @]
        BY <3>2, <1>1 DEF b
      <4> QED
        BY <4>1, <1>1 DEF Box, BoxIs
    <3> QED
      BY <3>1, <3>2, <1>s, <1>c
  <2>3. CallIs(x, "idle", {}, "compilation")
    BY <2>1, <1>20, <1>5 DEF CopyFails
  <2> QED
    BY <2>2, <2>3, <1>20, <1>7, <1>e DEF CopyFails
<1>21. CASE CopyTimesOut(x)
  <2>1. r.saw = {}
    BY <1>21, <1>e, Words DEF CopyTimesOut, r
  <2>2. PICK T : BoxIs(c, b.status, T, b.orphans)
    BY <1>21, <1>s, <1>c DEF CopyTimesOut, c, m, r
  <2>3. CallIs(x, "idle", {}, "raised")
    BY <2>1, <1>21, <1>5 DEF CopyTimesOut
  <2> QED
    BY <2>2, <2>3, <1>21, <1>7, <1>e DEF CopyTimesOut
<1>w. ASSUME r.step \in ExecStep
      PROVE  /\ b.tree \subseteq {m} \cup l
             /\ b.status # "absent" => m \in b.tree
             /\ Seen(x) \subseteq {m} \cup l
  <2>1. /\ b.tree \subseteq {m} \cup l
        /\ b.status # "absent" => m \in b.tree
    BY <1>w, <1>2 DEF Isolated, m
  <2> QED
    BY <2>1, <1>e DEF Seen, r, b, c
<1>22. CASE Succeeds(x)
  <2>1. r.step \in ExecStep /\ b.status = "running"
    BY <1>22 DEF Succeeds, Running, r, b, c
  <2>2. m \in Seen(x) /\ Seen(x) \subseteq {m} \cup l
    BY <2>1, <1>w DEF Seen, r, b, c
  <2>3. PICK v \in {"none", "pending"} :
           /\ CallIs(x, AfterSuccess(r.step), Seen(x), v)
           /\ r.step # "test" => v = "pending"
    <3>1. CASE r.step = "test"
      <4>1. call' = [call EXCEPT ![x].step = AfterSuccess(r.step), ![x].saw = Seen(x),
                                 ![x].verdict = "none"]
        BY <1>22, <3>1, <1>1 DEF Succeeds, r
      <4> QED
        BY <4>1, <3>1, CallFields DEF r
    <3>2. CASE r.step # "test"
      <4>1. call' = [call EXCEPT ![x].step = AfterSuccess(r.step), ![x].saw = Seen(x),
                                 ![x].verdict = r.verdict]
        BY <1>22, <3>2, <1>1 DEF Succeeds, r
      <4> QED
        BY <4>1, <3>2, <1>4, CallFields DEF r
    <3> QED
      BY <3>1, <3>2
  <2>4. box' = box /\ lingering'[c] = l
    BY <1>22 DEF Succeeds, l
  <2>5. \/ AfterSuccess(r.step) = "idle" /\ r.step = "test"
        \/ AfterSuccess(r.step) \in ExecStep /\ v = "pending"
    BY <2>1, <2>3 DEF AfterSuccess, ExecStep
  <2> QED
    BY <2>2, <2>3, <2>4, <2>5, <2>1, <1>w, <1>e, Words
    DEF Kept, Isolated, CallIs, r, m, c, b
<1>v. ASSUME r.step \in ExecStep
      PROVE  PhaseOf(r.step) \in ErrorPhase /\ PhaseOf(r.step) # "none"
  BY <1>v, Words DEF PhaseOf, ExecStep
<1>23. CASE Fails(x)
  <2>1. r.step \in ExecStep
    BY <1>23 DEF Fails, r
  <2>2. PICK S : CallIs(x, "idle", S, PhaseOf(r.step)) /\ S \subseteq {m} \cup l
    <3>1. call' = [call EXCEPT ![x].step = "idle",
                               ![x].saw = IF Running(x) THEN Seen(x) ELSE r.saw,
                               ![x].verdict = PhaseOf(r.step)]
      BY <1>23, <1>1 DEF Fails, r
    <3> QED
      BY <3>1, CallFields, <1>w, <2>1, <1>e
  <2>3. box' = box /\ lingering'[c] = l
    BY <1>23 DEF Fails, l
  <2> QED
    BY <2>1, <2>2, <2>3, <1>v, <1>e, Words DEF Kept, Isolated, CallIs, r, m, c, b
<1>24. CASE TimesOut(x)
  <2>1. r.step \in ExecStep
    BY <1>24 DEF TimesOut, Running, r
  <2>2. CallIs(x, "idle", Seen(x), PhaseOf(r.step))
    BY <1>24, CallFields DEF TimesOut, r
  <2>3. box'[c].orphans = b.orphans \cup {m}
    <3>1. box'[c] = [b EXCEPT !.orphans = @ \cup {m}]
      BY <1>24, <1>1 DEF TimesOut, b, c, r, m
    <3> QED
      BY <3>1, <1>1 DEF Box
  <2>4. lingering'[c] = l \cup {m}
    BY <1>24, <1>1 DEF TimesOut, l, c, r, m
  <2> QED
    BY <2>1, <2>2, <2>3, <2>4, <1>v, <1>w, <1>e, Words DEF Kept, Isolated, CallIs, r, m, c
<1> QED
  BY <1>10, <1>11, <1>12, <1>13, <1>14, <1>15, <1>16, <1>17, <1>18, <1>19, <1>20,
     <1>21, <1>22, <1>23, <1>24 DEF CallStep

-----------------------------------------------------------------------------
\* start_persistent_container alone stays within its own steps.
StartStep == {"probe", "exists", "restart", "remove", "create"}

\* A start never comes to the copy or a command of a validation.
LEMMA StartStepStays ==
  ASSUME DockerTypeOK, NEW x \in Client, call[x].name \in Container,
         call[x].manifest = None, call[x].step \in StartStep, CallStep(x),
         box[call[x].name].orphans \subseteq lingering[call[x].name]
  PROVE  /\ call'[x].step \in StartStep \cup {"idle"}
         /\ call'[x].name = call[x].name /\ call'[x].manifest = None
         /\ box'[call[x].name].orphans \subseteq lingering'[call[x].name]
PROOF
<1> DEFINE c == call[x].name
           Kept == /\ call'[x].step \in StartStep \cup {"idle"}
                   /\ call'[x].name = call[x].name /\ call'[x].manifest = None
                   /\ box'[c].orphans \subseteq lingering'[c]
<1>1. /\ box \in [Container -> Box] /\ c \in Container /\ box[c] \in Box
  BY DEF DockerTypeOK
<1>2. /\ \A s : GoTo(x, s) => CallIs(x, s, call[x].saw, call[x].verdict)
      /\ \A v : Finish(x, v) => CallIs(x, "idle", call[x].saw, v)
  BY CallFields
<1>3. ASSUME NEW s \in StartStep \cup {"idle"}, NEW S, NEW v, CallIs(x, s, S, v),
             box'[c].orphans \subseteq lingering'[c]
      PROVE  Kept
  BY <1>3 DEF CallIs
<1>4. UNCHANGED <<box, lingering>> => box'[c].orphans \subseteq lingering'[c]
  OBVIOUS
<1> SUFFICES Kept
  OBVIOUS
<1> HIDE DEF Kept
<1>10. CASE Probe(x)
  BY <1>10, <1>2, <1>3, <1>4 DEF Probe, Started, StartStep
<1>11. CASE CheckExists(x)
  BY <1>11, <1>2, <1>3, <1>4 DEF CheckExists, StartStep
<1>12. CASE RestartSucceeds(x)
  <2>1. box'[c].orphans = box[c].orphans
    <3>1. box'[c] = [box[c] EXCEPT !.status = "running"]
      BY <1>12, <1>1 DEF RestartSucceeds
    <3> QED
      BY <3>1, <1>1 DEF Box
  <2> QED
    BY <2>1, <1>12, <1>2, <1>3 DEF RestartSucceeds, Started
<1>13. CASE RestartFails(x)
  BY <1>13, <1>2, <1>3, <1>4 DEF RestartFails, StartStep
<1>14. CASE RemoveOld(x)
  BY <1>14, <1>1, <1>2, <1>3 DEF RemoveOld, StartStep, Gone
<1>15. CASE CreateSucceeds(x)
  BY <1>15, <1>1, <1>2, <1>3 DEF CreateSucceeds, Started, Fresh
<1>16. CASE CreateFails(x)
  BY <1>16, <1>2, <1>3, <1>4 DEF CreateFails, NotStarted
<1> QED
  BY <1>10, <1>11, <1>12, <1>13, <1>14, <1>15, <1>16
  DEF CallStep, StartStep, ExecStep, Clear, MakeDir, Copy, CopyFails, CopyTimesOut,
      Succeeds, Fails, TimesOut, Running

\* The daemon and the orphans keep the types, know only orphans that linger, and
\* undo no isolation.
LEMMA DockerStepIsolates ==
  ASSUME DockerTypeOK, DockerStep,
         \A c \in Container : box[c].orphans \subseteq lingering[c]
  PROVE  /\ DockerTypeOK' /\ UNCHANGED call
         /\ \A c \in Container :
               /\ box'[c].orphans \subseteq lingering'[c]
               /\ box[c].status = "absent" => box'[c].status = "absent"
               /\ \A r : Isolated(r, box[c], lingering[c])
                         => Isolated(r, box'[c], lingering'[c])
PROOF
<1>1. box \in [Container -> Box] /\ lingering \in [Container -> SUBSET Manifest]
  BY DEF DockerTypeOK
<1>2. PICK d \in Container : \/ ContainerStops(d)
                             \/ \E m \in Manifest : OrphanWrites(d, m) \/ OrphanEnds(d, m)
  BY DEF DockerStep
<1>3. box[d] \in Box /\ box[d].orphans \subseteq lingering[d]
  BY <1>1
<1> DEFINE b == box[d]
           New(e) == /\ e \in Box
                     /\ e.orphans \subseteq b.orphans
                     /\ b.tree \subseteq e.tree /\ e.tree \subseteq b.tree \cup b.orphans
                     /\ b.status = "absent" <=> e.status = "absent"
<1>4. /\ UNCHANGED <<image, call, lingering>> /\ mishaps' \in 0..MaxMishaps
      /\ \E e : New(e) /\ box' = [box EXCEPT ![d] = e]
  <2>1. CASE ContainerStops(d)
    <3>1. box' = [box EXCEPT ![d] = [b EXCEPT !.status = "stopped", !.orphans = {}]]
      BY <2>1, <1>1 DEF ContainerStops
    <3>2. New([b EXCEPT !.status = "stopped", !.orphans = {}])
      BY <2>1, <1>3 DEF ContainerStops, Box, Status
    <3>3. mishaps' \in 0..MaxMishaps
      BY <2>1, DockerAssumption DEF ContainerStops, Mishap, DockerTypeOK
    <3> QED
      BY <3>1, <3>2, <3>3, <2>1 DEF ContainerStops
  <2>2. ASSUME NEW m \in Manifest, OrphanWrites(d, m)
        PROVE  <1>4!1 /\ <1>4!2
    <3>1. box' = [box EXCEPT ![d] = [b EXCEPT !.tree = @ \cup {m}, !.dir = TRUE]]
      BY <2>2, <1>1 DEF OrphanWrites
    <3>2. New([b EXCEPT !.tree = @ \cup {m}, !.dir = TRUE])
      BY <2>2, <1>3 DEF OrphanWrites, Box
    <3> QED
      BY <3>1, <3>2, <2>2 DEF OrphanWrites, DockerTypeOK
  <2>3. ASSUME NEW m \in Manifest, OrphanEnds(d, m)
        PROVE  <1>4!1 /\ <1>4!2
    <3>1. box' = [box EXCEPT ![d] = [b EXCEPT !.orphans = @ \ {m}]]
      BY <2>3, <1>1 DEF OrphanEnds
    <3>2. New([b EXCEPT !.orphans = @ \ {m}])
      BY <2>3, <1>3 DEF OrphanEnds, Box
    <3> QED
      BY <3>1, <3>2, <2>3 DEF OrphanEnds, DockerTypeOK
  <2> QED
    BY <1>2, <2>1, <2>2, <2>3
<1>5. PICK e : New(e) /\ box' = [box EXCEPT ![d] = e]
  BY <1>4
<1>6. DockerTypeOK'
  BY <1>1, <1>4, <1>5 DEF DockerTypeOK
<1>7. ASSUME NEW c \in Container
      PROVE  /\ box'[c].orphans \subseteq lingering'[c]
             /\ box[c].status = "absent" => box'[c].status = "absent"
             /\ \A r : Isolated(r, box[c], lingering[c])
                       => Isolated(r, box'[c], lingering'[c])
  <2>1. CASE c # d
    BY <2>1, <1>1, <1>4, <1>5
  <2>2. CASE c = d
    <3>1. box'[c] = e /\ lingering'[c] = lingering[d]
      BY <2>2, <1>1, <1>4, <1>5
    <3>2. ASSUME NEW r, Isolated(r, b, lingering[d])
          PROVE  Isolated(r, e, lingering[d])
      BY <3>2, <1>3, <1>5 DEF Isolated
    <3> QED
      BY <2>2, <3>1, <3>2, <1>3, <1>5
  <2> QED
    BY <2>1, <2>2
<1> QED
  BY <1>4, <1>6, <1>7

-----------------------------------------------------------------------------
(* Queues without duplicates.                                              *)

Elems(s) == {s[i] : i \in 1..Len(s)}
Distinct(s) == \A i, j \in 1..Len(s) : s[i] = s[j] => i = j

\* A queue with e put at its end.
LEMMA Appending ==
  ASSUME NEW S, NEW s \in Seq(S), NEW e \in S
  PROVE  /\ Append(s, e) \in Seq(S)
         /\ Elems(Append(s, e)) = Elems(s) \cup {e}
         /\ Distinct(s) /\ e \notin Elems(s) => Distinct(Append(s, e))
PROOF
<1> DEFINE t == Append(s, e)
<1>1. /\ t \in Seq(S) /\ Len(t) = Len(s) + 1 /\ Len(s) \in Nat
      /\ \A i \in 1..Len(s) : t[i] = s[i]
      /\ t[Len(s) + 1] = e
  BY AppendProperties, LenProperties
<1> HIDE DEF t
<1>2. Elems(t) = Elems(s) \cup {e}
  BY <1>1 DEF Elems
<1>3. ASSUME Distinct(s), e \notin Elems(s) PROVE Distinct(t)
  <2> SUFFICES ASSUME NEW i \in 1..Len(t), NEW j \in 1..Len(t), t[i] = t[j] PROVE i = j
    BY DEF Distinct
  <2>1. CASE i \in 1..Len(s) /\ j \in 1..Len(s)
    BY <2>1, <1>1, <1>3 DEF Distinct
  <2>2. CASE i = Len(s) + 1 /\ j \in 1..Len(s)
    BY <2>2, <1>1, <1>3 DEF Elems
  <2>3. CASE j = Len(s) + 1 /\ i \in 1..Len(s)
    BY <2>3, <1>1, <1>3 DEF Elems
  <2> QED
    BY <2>1, <2>2, <2>3, <1>1
<1> QED
  BY <1>1, <1>2, <1>3 DEF t

\* A queue with its head taken.
LEMMA Taking ==
  ASSUME NEW S, NEW s \in Seq(S), s # <<>>
  PROVE  /\ Tail(s) \in Seq(S) /\ Head(s) \in S
         /\ Head(s) \in Elems(s)
         /\ Elems(s) = Elems(Tail(s)) \cup {Head(s)}
         /\ Distinct(s) => Distinct(Tail(s)) /\ Head(s) \notin Elems(Tail(s))
PROOF
<1> DEFINE t == Tail(s)
<1>1. /\ t \in Seq(S) /\ Len(t) = Len(s) - 1 /\ Len(s) \in Nat /\ Len(s) > 0
      /\ \A i \in 1..Len(t) : t[i] = s[i + 1]
      /\ Head(s) = s[1] /\ Head(s) \in S
  BY HeadTailProperties, LenProperties, EmptySeq
<1> HIDE DEF t
<1>2. Head(s) \in Elems(s)
  BY <1>1 DEF Elems
<1>3. Elems(s) = Elems(t) \cup {Head(s)}
  <2>1. ASSUME NEW i \in 1..Len(s), i # 1 PROVE s[i] \in Elems(t)
    <3>1. i - 1 \in 1..Len(t) /\ t[i - 1] = s[i]
      BY <2>1, <1>1
    <3> QED
      BY <3>1 DEF Elems
  <2>2. ASSUME NEW i \in 1..Len(t) PROVE t[i] \in Elems(s)
    <3>1. i + 1 \in 1..Len(s)
      BY <1>1
    <3> QED
      BY <3>1, <1>1 DEF Elems
  <2>3. Elems(s) \subseteq Elems(t) \cup {Head(s)}
    BY <2>1, <1>1 DEF Elems
  <2>4. Elems(t) \subseteq Elems(s)
    BY <2>2 DEF Elems
  <2> QED
    BY <2>3, <2>4, <1>2
<1>4. ASSUME Distinct(s) PROVE Distinct(t) /\ Head(s) \notin Elems(t)
  <2>1. ASSUME NEW i \in 1..Len(t), NEW j \in 1..Len(t), t[i] = t[j] PROVE i = j
    <3>1. i + 1 \in 1..Len(s) /\ j + 1 \in 1..Len(s)
      BY <1>1
    <3>2. i + 1 = j + 1
      BY <2>1, <3>1, <1>1, <1>4 DEF Distinct
    <3> QED
      BY <3>2
  <2>2. ASSUME NEW i \in 1..Len(t) PROVE t[i] # Head(s)
    <3>1. i + 1 \in 1..Len(s) /\ 1 \in 1..Len(s) /\ i + 1 # 1
      BY <1>1
    <3> QED
      BY <3>1, <1>1, <1>4 DEF Distinct
  <2> QED
    BY <2>1, <2>2 DEF Distinct, Elems
<1> QED
  BY <1>1, <1>2, <1>3, <1>4 DEF t
-----------------------------------------------------------------------------
(* The constants.                                                          *)

\* What the steps need to know of the constants, in one place.
LEMMA Constants ==
  /\ Worker \subseteq Client /\ Main \in Client /\ Main \notin Worker
  /\ \A x \in Client : x = Main \/ x \in Worker
  /\ PoolSize \in Nat
  /\ \A i \in 1..PoolSize : Names[i] \in PoolName /\ Names[i] \in Container
  /\ \A i, j \in 1..PoolSize : Names[i] = Names[j] => i = j
  /\ \A c \in PoolName : c \in Container /\ c # None
  /\ None \notin Container /\ None \notin Manifest
  /\ NumJobs \in Nat /\ MaxRevs \in Nat /\ MaxInterrupts \in Nat
  /\ \A j \in Job, k \in 1..MaxRevs : <<j, k>> \in Manifest
PROOF
<1>1. PoolSize \in Nat /\ \A i \in 1..PoolSize : Names[i] \in Container
  BY BatchAssumption, LenProperties, ElementOfSeq DEF PoolSize
<1>2. \A j \in Job, k \in 1..MaxRevs : <<j, k>> \in Manifest
  BY BatchAssumption
<1> QED
  BY <1>1, <1>2, BatchAssumption, DockerAssumption DEF PoolName
-----------------------------------------------------------------------------
(* The invariant.                                                          *)

\* A container is at most once in the queue or with one worker; a worker that
\* holds one has a problem.
Leases ==
    /\ Distinct(free)
    /\ \A v, w \in Worker : thread[v].lease # None /\ thread[v].lease = thread[w].lease => v = w
    /\ \A w \in Worker : thread[w].lease \notin Elems(free)
    /\ \A w \in Worker : thread[w].lease # None =>
          thread[w].job # 0 /\ thread[w].lease \in PoolName

\* Once problems are submitted no container of the pool is lost.
NothingLost ==
    submitted # 0 =>
        \A c \in PoolName : c \in Elems(free) \/ \E w \in Worker : thread[w].lease = c

\* While the pool is filled the queue holds the names already gone through, and
\* the workers wait.
Filling ==
    /\ main \in {"init", "starting"} =>
          submitted = 0 /\ Elems(free) = {Names[i] : i \in 1..(next - 1)}
    /\ main = "starting" => next <= PoolSize
    /\ submitted = 0 => \A w \in Worker : thread[w] = Waiting

\* A call is of the container its worker holds; the main thread makes calls
\* only while it fills the pool, and these only start a container.
Calls ==
    /\ \A w \in Worker :
          /\ call[w].name # None =>
                call[w].name = thread[w].lease /\ call[w].manifest \in Manifest
          /\ call[w].step # "idle" => call[w].name # None
    /\ call[Main].step # "idle" =>
          /\ main = "starting"
          /\ call[Main].name = Names[next] /\ call[Main].manifest = None
          /\ call[Main].step \in StartStep

\* What a call has seen, and what is in its container.
Isolation ==
    /\ \A c \in Container : box[c].orphans \subseteq lingering[c]
    /\ \A w \in Worker : call[w].name # None =>
          Isolated(call[w], box[call[w].name], lingering[call[w].name])

\* A future is pending exactly while its problem is queued or with one worker.
Futures ==
    /\ \A j \in Job : j > taken => outcome[j] = "pending"
    /\ \A w \in Worker : thread[w].job # 0 =>
          thread[w].job <= taken /\ outcome[thread[w].job] = "pending"
    /\ \A v, w \in Worker : thread[v].job # 0 /\ thread[v].job = thread[w].job => v = w

\* The containers the shutdown has gone through are gone.
Shutdown ==
    main \in {"shutdown", "exited"} /\ submitted # 0 /\ ~forced =>
        AllDone /\ \A i \in 1..(next - 1) : box[Names[i]].status = "absent"

IInv == TypeOK /\ Leases /\ NothingLost /\ Filling /\ Calls /\ Isolation /\ Futures /\ Shutdown

-----------------------------------------------------------------------------
\* The program starts in the invariant.
LEMMA InitIInv == Init => IInv
PROOF
<1> SUFFICES ASSUME Init PROVE IInv
  OBVIOUS
<1> USE DEF Init
<1>1. DockerTypeOK
  <2>1. NoCall \in Call
    BY Words DEF NoCall, Call, Step
  <2>2. box \in [Container -> Box]
    BY DockerAssumption DEF DockerInit
  <2>3. \A c \in Container : box[c].orphans \in SUBSET Manifest
    BY <2>2 DEF Box
  <2>4. 0 \in 0..MaxMishaps
    BY DockerAssumption
  <2> QED
    BY <2>1, <2>2, <2>3, <2>4 DEF DockerInit, DockerTypeOK
<1>2. Waiting \in Thread
  BY Constants DEF Waiting, Thread
<1>3. free \in Seq(PoolName) /\ Len(free) = 0
  BY EmptySeq
<1>4. TypeOK
  <2>1. thread \in [Worker -> Thread] /\ outcome \in [Job -> {"pending", "result", "raised"}]
    BY <1>2
  <2>2. next \in 1..(PoolSize + 1) /\ taken \in 0..submitted /\ interrupts \in 0..MaxInterrupts
    BY Constants
  <2> QED
    BY <1>1, <1>3, <2>1, <2>2 DEF TypeOK
<1>5. \A w \in Worker : thread[w].lease = None /\ thread[w].job = 0
  BY DEF Waiting
<1>6. Elems(free) = {} /\ Distinct(free)
  BY <1>3 DEF Elems, Distinct
<1>7. \A x \in Client : call[x].name = None /\ call[x].step = "idle"
  BY DEF DockerInit, NoCall
<1>8. \A c \in Container : box[c].orphans \subseteq lingering[c]
  BY DEF DockerInit
<1>9. Leases /\ NothingLost /\ Filling
  BY <1>5, <1>6, Constants DEF Leases, NothingLost, Filling
<1>10. Calls /\ Isolation
  BY <1>7, <1>8, Constants DEF Calls, Isolation
<1>11. Futures /\ Shutdown
  BY <1>5 DEF Futures, Shutdown
<1> QED
  BY <1>4, <1>9, <1>10, <1>11 DEF IInv
-----------------------------------------------------------------------------
\* Whoever is inside a call is inside one of a container of the pool.
LEMMA CallStepSense ==
  ASSUME IInv, NEW x \in Client, CallStep(x)
  PROVE  /\ CallMakesSense(x)
         /\ call[x].step # "idle"
         /\ x \in Worker => call[x].manifest \in Manifest /\ call[x].name = thread[x].lease
         /\ x = Main => /\ call[x].name = Names[next] /\ next \in 1..PoolSize
                        /\ call[x].manifest = None /\ call[x].step \in StartStep
PROOF
<1>1. call[x].step # "idle"
  BY Words DEF CallStep, Probe, CheckExists, RestartSucceeds, RestartFails, RemoveOld,
     CreateSucceeds, CreateFails, Clear, MakeDir, Copy, CopyFails, CopyTimesOut,
     Succeeds, Fails, TimesOut, Running
<1>2. CASE x \in Worker
  <2>1. call[x].name # None /\ call[x].name = thread[x].lease /\ call[x].manifest \in Manifest
    BY <1>1, <1>2 DEF IInv, Calls
  <2>2. call[x].name \in Container
    BY <2>1, <1>2, Constants DEF IInv, Leases
  <2> QED
    BY <2>1, <2>2, <1>1, <1>2, Constants DEF CallMakesSense
<1>3. CASE x = Main
  <2>1. /\ main = "starting" /\ call[x].name = Names[next] /\ call[x].manifest = None
        /\ call[x].step \in StartStep
    BY <1>1, <1>3 DEF IInv, Calls
  <2>2. next \in 1..PoolSize
    BY <2>1, Constants DEF IInv, Filling, TypeOK
  <2> QED
    BY <2>1, <2>2, <1>1, <1>3, Constants DEF CallMakesSense, StartStep, ExecStep
<1> QED
  BY <1>2, <1>3, Constants
-----------------------------------------------------------------------------
(* A step keeps the types.                                                 *)

\* No step leaves the types.
LEMMA TypeStep == IInv /\ [Next]_vars => TypeOK'
PROOF
<1> SUFFICES ASSUME IInv, [Next]_vars PROVE TypeOK'
  OBVIOUS
<1> USE DEF IInv
<1>t. /\ DockerTypeOK
      /\ main \in {"init", "starting", "collect", "join", "shutdown", "exited"}
      /\ next \in 1..(PoolSize + 1)
      /\ free \in Seq(PoolName)
      /\ submitted \in {0, NumJobs}
      /\ taken \in 0..submitted
      /\ thread \in [Worker -> Thread]
      /\ outcome \in [Job -> {"pending", "result", "raised"}]
      /\ collected \subseteq Job
      /\ forced \in BOOLEAN
      /\ interrupts \in 0..MaxInterrupts
  BY DEF TypeOK
<1>d. /\ image \in BOOLEAN
      /\ box \in [Container -> Box]
      /\ call \in [Client -> Call]
      /\ lingering \in [Container -> SUBSET Manifest]
      /\ mishaps \in 0..MaxMishaps
  BY <1>t DEF DockerTypeOK
<1>n. NoCall \in Call
  BY Words DEF NoCall, Call, Step
<1>w. Waiting \in Thread
  BY Constants DEF Waiting, Thread
<1>m. ASSUME UNCHANGED workVars, DockerTypeOK',
             main' \in {"init", "starting", "collect", "join", "shutdown", "exited"},
             next' \in 1..(PoolSize + 1), submitted' \in {submitted, NumJobs},
             collected' \subseteq Job, forced' \in BOOLEAN, interrupts' \in 0..MaxInterrupts
      PROVE  TypeOK'
  <2>1. taken' \in 0..submitted' /\ submitted' \in {0, NumJobs}
    BY <1>m, <1>t, Constants DEF workVars
  <2> QED
    BY <1>m, <1>t, <2>1 DEF TypeOK, workVars
<1>k. ASSUME UNCHANGED mainVars, DockerTypeOK',
             free' \in Seq(PoolName), taken' \in 0..submitted,
             thread' \in [Worker -> Thread],
             outcome' \in [Job -> {"pending", "result", "raised"}]
      PROVE  TypeOK'
  BY <1>k, <1>t DEF TypeOK, mainVars
<1>b. ASSUME NEW x \in Client, NEW c \in Container, NEW mm \in Manifest \cup {None},
             Begin(x, c, mm)
      PROVE  call' \in [Client -> Call]
  <2>1. [step |-> "probe", name |-> c, manifest |-> mm, saw |-> {}, verdict |-> "pending"]
        \in Call
    BY Words DEF Call, Step
  <2> QED
    BY <2>1, <1>b, <1>d DEF Begin
<1>f. \A x \in Client : Forget(x) => call' \in [Client -> Call]
  BY <1>d, <1>n DEF Forget
<1>v. UNCHANGED dockerVars => DockerTypeOK'
  BY <1>t DEF dockerVars, DockerTypeOK
<1>1. CASE StartContainer
  <2>1. Names[next] \in Container /\ Main \in Client
    BY <1>1, <1>t, Constants DEF StartContainer
  <2>2. DockerTypeOK'
    BY <1>1, <1>d, <1>b, <2>1 DEF StartContainer, DockerTypeOK
  <2> QED
    BY <2>2, <1>1, <1>t, <1>m DEF StartContainer
<1>2. CASE Enqueue
  <2>1. next \in 1..PoolSize
    BY <1>2, <1>t, Constants DEF Enqueue, Filling
  <2>2. free' \in Seq(PoolName) /\ next' \in 1..(PoolSize + 1)
    BY <2>1, <1>2, <1>t, Constants, Appending DEF Enqueue, Pooled
  <2>3. DockerTypeOK'
    BY <1>2, <1>d, <1>f, Constants DEF Enqueue, DockerTypeOK
  <2> QED
    BY <2>2, <2>3, <1>2, <1>t DEF Enqueue, TypeOK
<1>3. CASE Submit
  BY <1>3, <1>t, <1>v, <1>m DEF Submit
<1>4. ASSUME NEW j \in Job, Collect(j) PROVE TypeOK'
  BY <1>4, <1>t, <1>v, <1>m DEF Collect
<1>5. CASE LeaveLoop
  BY <1>5, <1>t, <1>v, <1>m DEF LeaveLoop
<1>6. CASE BeginShutdown
  BY <1>6, <1>t, <1>v, <1>m, Constants DEF BeginShutdown
<1>7. CASE RemoveContainer
  <2>1. DockerTypeOK'
    BY <1>7, <1>d, BoxConstantsType DEF RemoveContainer, DockerTypeOK
  <2> QED
    BY <2>1, <1>7, <1>t, <1>m, Constants DEF RemoveContainer
<1>8. CASE Exit
  BY <1>8, <1>t, <1>v, <1>m DEF Exit
<1>9. CASE Interrupt
  <2>1. DockerTypeOK'
    BY <1>9, <1>d, <1>f, Constants DEF Interrupt, DockerTypeOK
  <2>2. main' \in {"join", "shutdown", "exited"}
    BY <1>9 DEF Interrupt
  <2>3. forced' \in BOOLEAN
    BY <1>9, <1>t DEF Interrupt
  <2>4. next' \in 1..(PoolSize + 1) /\ interrupts' \in 0..MaxInterrupts
    BY <1>9, <1>t, Constants DEF Interrupt
  <2> QED
    BY <2>1, <2>2, <2>3, <2>4, <1>9, <1>t, <1>m DEF Interrupt
<1>10. ASSUME NEW w \in Worker, WorkerStep(w) PROVE TypeOK'
  <2>1. /\ thread[w] \in Thread /\ w \in Client
        /\ thread[w].job \in 0..NumJobs /\ thread[w].revs \in 0..MaxRevs
        /\ thread[w].lease \in Container \cup {None}
    BY <1>t, Constants DEF Thread
  <2>2. CASE TakeJob(w)
    <3>1. taken + 1 \in 0..NumJobs /\ taken + 1 \in 0..submitted
      BY <2>2, <1>t, Constants DEF TakeJob
    <3>2. thread' \in [Worker -> Thread]
      BY <2>2, <3>1, <1>t DEF TakeJob, Thread
    <3> QED
      BY <3>1, <3>2, <2>2, <1>t, <1>v, <1>k DEF TakeJob
  <2>3. CASE Acquire(w)
    <3>1. Head(free) \in Container /\ Tail(free) \in Seq(PoolName)
      BY <2>3, <1>t, Taking, Constants DEF Acquire
    <3>2. thread' \in [Worker -> Thread]
      BY <2>3, <3>1, <1>t DEF Acquire, Thread
    <3> QED
      BY <3>1, <3>2, <2>3, <1>t, <1>v, <1>k DEF Acquire, Dequeued
  <2>4. CASE BuildImage(w)
    BY <2>4, <1>t, <1>d, <1>k DEF BuildImage, ImageBuilt, DockerTypeOK, workVars
  <2>5. CASE Validate(w)
    <3>1. /\ thread[w].lease \in Container /\ thread[w].job \in Job
          /\ thread[w].revs + 1 \in 1..MaxRevs
      <4>1. thread[w].lease # None /\ thread[w].revs < MaxRevs
        BY <2>5 DEF Validate, Between, MayValidate
      <4>2. thread[w].job # 0
        BY <4>1 DEF Leases
      <4> QED
        BY <4>1, <4>2, <2>1, Constants DEF Job
    <3>2. thread' \in [Worker -> Thread]
      <4>1. thread[w].revs + 1 \in 0..MaxRevs
        BY <3>1, Constants
      <4> QED
        BY <4>1, <2>5, <1>t DEF Validate, Thread
    <3>3. call' \in [Client -> Call]
      BY <3>1, <2>1, <2>5, <1>b, Constants DEF Validate
    <3> QED
      BY <3>2, <3>3, <2>5, <1>t, <1>d, <1>k DEF Validate, DockerTypeOK
  <2>6. ASSUME NEW how \in {"result", "raised"}, EndJob(w, how) PROVE TypeOK'
    <3>1. thread[w].lease \in PoolName
      BY <2>6, <2>1 DEF EndJob, Between, Leases
    <3>2. free' \in Seq(PoolName)
      BY <3>1, <2>6, <1>t, Appending DEF EndJob, Release
    <3>3. call' \in [Client -> Call]
      BY <2>6, <2>1, <1>f DEF EndJob
    <3>4. thread' \in [Worker -> Thread]
      BY <2>6, <1>t, <1>w DEF EndJob
    <3>5. outcome' \in [Job -> {"pending", "result", "raised"}]
      BY <2>6, <1>t DEF EndJob
    <3> QED
      BY <3>2, <3>3, <3>4, <3>5, <2>6, <1>t, <1>d, <1>k DEF EndJob, DockerTypeOK
  <2> QED
    BY <1>10, <2>2, <2>3, <2>4, <2>5, <2>6 DEF WorkerStep
<1>11. ASSUME NEW x \in Client, CallStep(x), UNCHANGED <<mainVars, workVars>> PROVE TypeOK'
  <2>1. CallMakesSense(x)
    BY <1>11, CallStepSense
  <2>2. /\ CallBecame(x, call'[x])
        /\ BoxBecame(call[x].name, box'[call[x].name])
        /\ LingeringBecame(call[x].name, lingering'[call[x].name])
        /\ mishaps' \in 0..MaxMishaps
        /\ image' = image
    BY <2>1, <1>11, <1>t, CallStepShape
  <2>3. DockerTypeOK'
    BY <2>2, <1>d DEF CallBecame, BoxBecame, LingeringBecame, DockerTypeOK
  <2> QED
    BY <2>3, <1>11, <1>t, <1>k DEF workVars
<1>12. CASE DockerStep /\ UNCHANGED <<mainVars, workVars>>
  <2>1. DockerTypeOK'
    BY <1>12, <1>t, DockerStepIsolates DEF Isolation
  <2> QED
    BY <2>1, <1>12, <1>t, <1>k DEF workVars
<1>13. CASE UNCHANGED vars
  BY <1>13, <1>t, <1>v, <1>k DEF vars, workVars
<1> QED
  BY <1>1, <1>2, <1>3, <1>4, <1>5, <1>6, <1>7, <1>8, <1>9, <1>10, <1>11, <1>12, <1>13
  DEF Next, MainStep, MainProceeds
-----------------------------------------------------------------------------
(* A step keeps the leases exclusive.                                      *)

\* Taking, giving back and starting containers keep leases exclusive.
LEMMA LeasesStep == IInv /\ [Next]_vars => Leases' /\ Filling'
PROOF
<1> SUFFICES ASSUME IInv, [Next]_vars PROVE Leases' /\ Filling'
  OBVIOUS
<1>t. /\ next \in 1..(PoolSize + 1) /\ free \in Seq(PoolName)
      /\ thread \in [Worker -> Thread]
      /\ \A w \in Worker : /\ thread[w] \in Thread
                           /\ thread[w].job \in 0..NumJobs /\ thread[w].revs \in 0..MaxRevs
                           /\ thread[w].lease \in Container \cup {None}
  BY DEF IInv, TypeOK, Thread
<1>i. Leases /\ Filling
  BY DEF IInv
<1>l. UNCHANGED <<free, thread>> => Leases'
  BY <1>i DEF Leases
<1>f. ASSUME UNCHANGED <<free, thread, submitted>>,
             main' \in {"collect", "join", "shutdown", "exited"}
      PROVE  Leases' /\ Filling'
  BY <1>f, <1>i, <1>l DEF Filling
<1>u. UNCHANGED <<free, thread, submitted, main, next>> => Leases' /\ Filling'
  BY <1>i, <1>l DEF Filling
<1>s. ASSUME NEW w \in Worker, thread[w].job # 0 \/ submitted # 0, UNCHANGED <<submitted, main>>
      PROVE  Filling'
  <2>1. submitted # 0
    BY <1>s, <1>i DEF Filling, Waiting
  <2> QED
    BY <2>1, <1>s, <1>i DEF Filling
<1>1. CASE StartContainer
  <2>1. Filling'
    BY <1>1, <1>i DEF StartContainer, Filling, workVars
  <2> QED
    BY <2>1, <1>1, <1>l DEF StartContainer, workVars
<1>2. CASE Enqueue
  <2>1. /\ next \in 1..PoolSize /\ next' = next + 1 /\ main' = "init"
        /\ thread' = thread /\ submitted' = submitted /\ submitted = 0
        /\ free' = Append(free, Names[next])
        /\ Elems(free) = {Names[i] : i \in 1..(next - 1)}
    BY <1>2, <1>t, <1>i, Constants DEF Enqueue, Filling, Pooled
  <2>2. Names[next] \notin Elems(free) /\ Names[next] # None
    BY <2>1, <1>t, Constants
  <2>3. /\ Elems(free') = Elems(free) \cup {Names[next]}
        /\ Distinct(free')
    BY <2>1, <2>2, <1>t, <1>i, Appending, Constants DEF Leases
  <2>4. \A w \in Worker : thread'[w].lease = None
    BY <2>1, <1>i DEF Filling, Waiting
  <2>5. None \notin Elems(free')
    BY <2>1, <2>2, <2>3, Constants
  <2>6. Leases'
    BY <2>3, <2>4, <2>5 DEF Leases
  <2>7. Elems(free') = {Names[i] : i \in 1..(next' - 1)}
    BY <2>1, <2>3
  <2> QED
    BY <2>1, <2>6, <2>7, <1>i DEF Filling
<1>3. CASE Submit
  <2>1. submitted = 0 /\ main' = "collect" /\ UNCHANGED <<free, thread>>
    BY <1>3, <1>i DEF Submit, Filling, workVars
  <2> QED
    BY <2>1, <1>l, <1>i DEF Filling
<1>4. ASSUME NEW j \in Job, Collect(j) PROVE Leases' /\ Filling'
  BY <1>4, <1>u DEF Collect, workVars
<1>5. CASE LeaveLoop
  BY <1>5, <1>f DEF LeaveLoop, workVars
<1>6. CASE BeginShutdown
  BY <1>6, <1>f DEF BeginShutdown, workVars
<1>7. CASE RemoveContainer
  BY <1>7, <1>f DEF RemoveContainer, workVars
<1>8. CASE Exit
  BY <1>8, <1>f DEF Exit, workVars
<1>9. CASE Interrupt
  BY <1>9, <1>f DEF Interrupt, workVars
<1>10. ASSUME NEW w \in Worker, WorkerStep(w) PROVE Leases' /\ Filling'
  <2>1. CASE TakeJob(w)
    <3>1. submitted # 0 /\ taken + 1 # 0
      BY <2>1 DEF TakeJob, IInv, TypeOK
    <3>2. /\ \A v \in Worker : thread'[v].lease = thread[v].lease
          /\ \A v \in Worker : thread[v].job # 0 => thread'[v].job # 0
          /\ free' = free
      BY <2>1, <3>1, <1>t DEF TakeJob, Thread
    <3>3. Leases'
      BY <3>2, <1>i DEF Leases
    <3> QED
      BY <3>1, <3>3, <2>1, <1>s DEF TakeJob, mainVars
  <2>2. CASE Acquire(w)
    <3> DEFINE h == Head(free)
    <3>1. thread[w].job # 0 /\ thread[w].lease = None /\ free # <<>> /\ free' = Tail(free)
      BY <2>2 DEF Acquire, Dequeued
    <3>2. /\ h \in PoolName /\ h \in Elems(free) /\ Elems(free) = Elems(free') \cup {h}
          /\ Distinct(free') /\ h \notin Elems(free')
      BY <3>1, <1>t, <1>i, Taking DEF Leases
    <3> HIDE DEF h
    <3>3. /\ thread'[w].lease = h /\ thread'[w].job = thread[w].job
          /\ \A v \in Worker \ {w} : thread'[v] = thread[v]
      BY <2>2, <1>t DEF Acquire, Thread, h
    <3>4. \A v \in Worker : thread[v].lease # h
      BY <3>2, <1>i DEF Leases
    <3>5. \A u, v \in Worker : thread'[v].lease # None /\ thread'[v].lease = thread'[u].lease => u = v
      BY <3>3, <3>4, <1>i DEF Leases
    <3>6. \A v \in Worker : thread'[v].lease \notin Elems(free')
      BY <3>2, <3>3, <1>i DEF Leases
    <3>7. \A v \in Worker : thread'[v].lease # None =>
             thread'[v].job # 0 /\ thread'[v].lease \in PoolName
      BY <3>1, <3>2, <3>3, <1>i DEF Leases
    <3>8. Leases'
      BY <3>2, <3>5, <3>6, <3>7 DEF Leases
    <3> QED
      BY <3>1, <3>8, <2>2, <1>s DEF Acquire, mainVars
  <2>3. CASE BuildImage(w)
    BY <2>3, <1>u DEF BuildImage, workVars, mainVars
  <2>4. CASE Validate(w)
    <3>1. /\ \A v \in Worker : thread'[v].lease = thread[v].lease /\ thread'[v].job = thread[v].job
          /\ free' = free /\ thread[w].lease # None
      BY <2>4, <1>t DEF Validate, Thread, Between
    <3>2. Leases' /\ thread[w].job # 0
      BY <3>1, <1>i DEF Leases
    <3> QED
      BY <3>2, <2>4, <1>s DEF Validate, mainVars
  <2>5. ASSUME NEW how \in {"result", "raised"}, EndJob(w, how) PROVE Leases' /\ Filling'
    <3> DEFINE h == thread[w].lease
    <3>1. /\ h # None /\ h \in PoolName /\ thread[w].job # 0 /\ h \notin Elems(free)
          /\ free' = Append(free, h)
      BY <2>5, <1>i DEF EndJob, Between, Release, Leases
    <3>2. Elems(free') = Elems(free) \cup {h} /\ Distinct(free')
      BY <3>1, <1>t, <1>i, Appending DEF Leases
    <3>3. /\ thread'[w] = Waiting /\ thread'[w].lease = None
          /\ \A v \in Worker \ {w} : thread'[v] = thread[v]
      BY <2>5, <1>t DEF EndJob, Waiting
    <3>4. \A v \in Worker \ {w} : thread[v].lease # h
      BY <3>1, <1>i DEF Leases
    <3> HIDE DEF h
    <3>5. \A u, v \in Worker : thread'[v].lease # None /\ thread'[v].lease = thread'[u].lease => u = v
      BY <3>3, <1>i DEF Leases
    <3>6. None \notin Elems(free')
      <4>1. free' \in Seq(PoolName)
        BY <3>1, <1>t, Appending
      <4> QED
        BY <4>1, Constants, ElementOfSeq DEF Elems
    <3>7. \A v \in Worker : thread'[v].lease \notin Elems(free')
      BY <3>2, <3>3, <3>4, <3>6, <1>i DEF Leases
    <3>8. \A v \in Worker : thread'[v].lease # None =>
             thread'[v].job # 0 /\ thread'[v].lease \in PoolName
      BY <3>3, <1>i DEF Leases
    <3>9. Leases'
      BY <3>2, <3>5, <3>7, <3>8 DEF Leases
    <3> QED
      BY <3>1, <3>9, <2>5, <1>s DEF EndJob, mainVars
  <2> QED
    BY <1>10, <2>1, <2>2, <2>3, <2>4, <2>5 DEF WorkerStep
<1>11. CASE UNCHANGED <<mainVars, workVars>>
  BY <1>11, <1>u DEF mainVars, workVars
<1>12. CASE UNCHANGED vars
  BY <1>12, <1>11 DEF vars
<1> QED
  BY <1>1, <1>2, <1>3, <1>4, <1>5, <1>6, <1>7, <1>8, <1>9, <1>10, <1>11, <1>12
  DEF Next, MainStep, MainProceeds
-----------------------------------------------------------------------------
(* A step keeps the calls to the containers that are held, and isolated.   *)

\* A call stays on its worker's container, and its verdict its own.
LEMMA CallsStep == IInv /\ [Next]_vars => Calls' /\ Isolation'
PROOF
<1> SUFFICES ASSUME IInv, [Next]_vars PROVE Calls' /\ Isolation'
  OBVIOUS
<1>d. /\ DockerTypeOK /\ box \in [Container -> Box] /\ call \in [Client -> Call]
      /\ lingering \in [Container -> SUBSET Manifest]
      /\ thread \in [Worker -> Thread]
  BY DEF IInv, TypeOK, DockerTypeOK
<1>i. Calls /\ Isolation /\ Leases /\ Filling
  BY DEF IInv
\* Nothing of the calls or of the containers changes.
<1>u. ASSUME UNCHANGED <<call, box, lingering>>,
             \A w \in Worker : call[w].name # None => thread'[w].lease = thread[w].lease,
             main = "starting" => main' = "starting" /\ next' = next
      PROVE  Calls' /\ Isolation'
  BY <1>u, <1>i DEF Calls, Isolation
\* The main thread gives its call up.
<1>m. ASSUME Forget(Main), UNCHANGED <<box, lingering, thread>>
      PROVE  Calls' /\ Isolation'
  <2>1. /\ call'[Main].step = "idle"
        /\ \A w \in Worker : call'[w] = call[w]
    BY <1>m, <1>d, Constants DEF Forget, NoCall
  <2>2. Calls'
    BY <2>1, <1>m, <1>i DEF Calls
  <2>3. Isolation'
    BY <2>1, <1>m, <1>i DEF Isolation
  <2> QED
    BY <2>2, <2>3
<1>1. CASE StartContainer
  <2>1. /\ call'[Main].step = "probe" /\ call'[Main].name = Names[next]
        /\ call'[Main].manifest = None
        /\ \A w \in Worker : call'[w] = call[w]
        /\ main' = "starting" /\ UNCHANGED <<box, lingering, thread, next>>
    BY <1>1, <1>d, Constants DEF StartContainer, Begin, workVars
  <2>2. Calls'
    BY <2>1, <1>i DEF Calls, StartStep
  <2>3. Isolation'
    BY <2>1, <1>i DEF Isolation
  <2> QED
    BY <2>2, <2>3
<1>2. CASE Enqueue
  BY <1>2, <1>m DEF Enqueue
<1>3. CASE Submit
  BY <1>3, <1>u DEF Submit, dockerVars, workVars
<1>4. ASSUME NEW j \in Job, Collect(j) PROVE Calls' /\ Isolation'
  BY <1>4, <1>u DEF Collect, dockerVars, workVars
<1>5. CASE LeaveLoop
  BY <1>5, <1>u DEF LeaveLoop, dockerVars, workVars
<1>6. CASE BeginShutdown
  BY <1>6, <1>u DEF BeginShutdown, Joined, dockerVars, workVars
<1>7. CASE RemoveContainer
  <2>1. /\ UNCHANGED <<call, lingering, thread>> /\ main = "shutdown" /\ main' = main
        /\ box' = [box EXCEPT ![Names[next]] = Gone]
    BY <1>7 DEF RemoveContainer, workVars
  <2>2. Calls'
    BY <2>1, <1>i DEF Calls
  <2>3. ASSUME NEW c \in Container
        PROVE  /\ box'[c].orphans \subseteq lingering'[c]
               /\ \A r : Isolated(r, box[c], lingering[c]) => Isolated(r, box'[c], lingering'[c])
    <3>1. box'[c] = box[c] \/ box'[c] = Gone
      BY <2>1, <1>d
    <3>2. \A r : Isolated(r, box[c], lingering[c]) => Isolated(r, Gone, lingering[c])
      BY DEF Isolated, Gone
    <3> QED
      BY <3>1, <3>2, <2>1, <1>i DEF Isolation, Gone
  <2>4. \A w \in Worker : call[w].name # None => call[w].name \in Container
    BY <1>i, Constants DEF Calls, Leases
  <2>5. Isolation'
    BY <2>1, <2>3, <2>4, <1>i DEF Isolation
  <2> QED
    BY <2>2, <2>5
<1>8. CASE Exit
  BY <1>8, <1>u DEF Exit, dockerVars, workVars
<1>9. CASE Interrupt
  BY <1>9, <1>m DEF Interrupt, workVars
<1>10. ASSUME NEW w \in Worker, WorkerStep(w) PROVE Calls' /\ Isolation'
  <2>0. w \in Client /\ w # Main
    BY Constants
  <2>1. CASE TakeJob(w)
    <3>1. \A v \in Worker : thread'[v].lease = thread[v].lease
      BY <2>1, <1>d DEF TakeJob, Thread
    <3> QED
      BY <3>1, <2>1, <1>u DEF TakeJob, dockerVars, mainVars
  <2>2. CASE Acquire(w)
    <3>1. call[w].name = None
      BY <2>2, <1>i DEF Acquire, Calls
    <3>2. \A v \in Worker \ {w} : thread'[v] = thread[v]
      BY <2>2, <1>d DEF Acquire
    <3> QED
      BY <3>1, <3>2, <2>2, <1>u DEF Acquire, dockerVars, mainVars
  <2>3. CASE BuildImage(w)
    BY <2>3, <1>u DEF BuildImage, ImageBuilt, workVars, mainVars
  <2>4. CASE Validate(w)
    <3> DEFINE c == thread[w].lease
               mm == <<thread[w].job, thread[w].revs + 1>>
    <3>1. /\ c \in Container /\ c # None
          /\ call' = [call EXCEPT ![w] = [step |-> "probe", name |-> c, manifest |-> mm,
                                          saw |-> {}, verdict |-> "pending"]]
          /\ thread[w].revs < MaxRevs
      BY <2>4, <1>i, Constants DEF Validate, Between, Begin, Leases, MayValidate
    <3>2. mm \in Manifest
      <4>1. thread[w].job \in 0..NumJobs /\ thread[w].revs \in 0..MaxRevs
        BY <1>d DEF Thread
      <4>2. thread[w].job \in Job /\ thread[w].revs + 1 \in 1..MaxRevs
        BY <4>1, <3>1, <1>i, Constants DEF Leases, Job
      <4> QED
        BY <4>2, Constants
    <3> HIDE DEF mm
    <3>3. /\ call'[w].step = "probe" /\ call'[w].name = c /\ call'[w].manifest = mm
          /\ call'[w].saw = {} /\ call'[w].verdict = "pending"
          /\ \A x \in Client \ {w} : call'[x] = call[x]
      BY <3>1, <2>0, <1>d
    <3>4. \A v \in Worker : thread'[v].lease = thread[v].lease
      BY <2>4, <1>d DEF Validate, Thread
    <3>5. UNCHANGED <<box, lingering, main, next>>
      BY <2>4 DEF Validate, mainVars
    <3>6. Calls'
      BY <3>1, <3>2, <3>3, <3>4, <3>5, <2>0, <1>i, Constants DEF Calls
    <3>7. Isolated(call'[w], box[c], lingering[c])
      BY <3>1, <3>3, <1>i, Words DEF Isolated, Isolation
    <3>8. Isolation'
      BY <3>3, <3>5, <3>7, <1>i, Constants DEF Isolation
    <3> QED
      BY <3>6, <3>8
  <2>5. ASSUME NEW how \in {"result", "raised"}, EndJob(w, how) PROVE Calls' /\ Isolation'
    <3>1. /\ call'[w].step = "idle" /\ call'[w].name = None
          /\ \A x \in Client \ {w} : call'[x] = call[x]
          /\ \A v \in Worker \ {w} : thread'[v] = thread[v]
          /\ UNCHANGED <<box, lingering, main, next>>
      BY <2>5, <2>0, <1>d DEF EndJob, Forget, NoCall, mainVars
    <3>2. Calls'
      BY <3>1, <2>0, <1>i, Constants DEF Calls
    <3>3. Isolation'
      BY <3>1, <2>0, <1>i, Constants DEF Isolation
    <3> QED
      BY <3>2, <3>3
  <2> QED
    BY <1>10, <2>1, <2>2, <2>3, <2>4, <2>5 DEF WorkerStep
<1>11. ASSUME NEW x \in Client, CallStep(x), UNCHANGED <<mainVars, workVars>>
       PROVE  Calls' /\ Isolation'
  <2> DEFINE c == call[x].name
  <2>1. CallMakesSense(x) /\ c \in Container /\ call[x].step # "idle"
    BY <1>11, CallStepSense DEF CallMakesSense
  <2>2. /\ \A y \in Client \ {x} : call'[y] = call[y]
        /\ \A e \in Container \ {c} : box'[e] = box[e] /\ lingering'[e] = lingering[e]
    BY <2>1, <1>11, <1>d, CallStepShape DEF CallBecame, BoxBecame, LingeringBecame
  <2>3. UNCHANGED <<main, next, thread>>
    BY <1>11 DEF mainVars, workVars
  <2>4. box[c].orphans \subseteq lingering[c]
    BY <2>1, <1>i DEF Isolation
  <2>5. CASE x \in Worker
    <3>1. call[x].manifest \in Manifest /\ c = thread[x].lease /\ c # None
      BY <2>5, <1>11, CallStepSense, <2>1, Constants
    <3>2. Isolated(call[x], box[c], lingering[c])
      BY <2>5, <3>1, <1>i DEF Isolation
    <3>3. /\ Isolated(call'[x], box'[c], lingering'[c])
          /\ call'[x].name = c /\ call'[x].manifest = call[x].manifest
      BY <2>1, <3>1, <3>2, <1>11, <1>d, CallStepIsolates
    <3>4. \A v \in Worker : v # x /\ call[v].name # None =>
             call[v].name # c /\ call[v].name \in Container
      BY <3>1, <2>5, <1>i, Constants DEF Calls, Leases
    <3>5. Calls'
      BY <3>1, <3>3, <2>2, <2>3, <2>5, <1>i, Constants DEF Calls
    <3>6. \A e \in Container : box'[e].orphans \subseteq lingering'[e]
      BY <2>2, <3>3, <1>i DEF Isolation, Isolated
    <3>7. \A v \in Worker : call'[v].name # None =>
             Isolated(call'[v], box'[call'[v].name], lingering'[call'[v].name])
      <4> SUFFICES ASSUME NEW v \in Worker, call'[v].name # None
                   PROVE  Isolated(call'[v], box'[call'[v].name], lingering'[call'[v].name])
        OBVIOUS
      <4>1. CASE v = x
        BY <4>1, <3>3
      <4>2. CASE v # x
        <5>1. call'[v] = call[v]
          BY <4>2, <2>2, Constants
        <5>2. call[v].name # c /\ call[v].name \in Container
          BY <4>2, <5>1, <3>4
        <5>3. Isolated(call[v], box[call[v].name], lingering[call[v].name])
          BY <5>1, <1>i DEF Isolation
        <5> QED
          BY <5>1, <5>2, <5>3, <2>2
      <4> QED
        BY <4>1, <4>2
    <3> QED
      BY <3>5, <3>6, <3>7 DEF Isolation
  <2>6. CASE x = Main
    <3>1. /\ call[x].manifest = None /\ call[x].step \in StartStep /\ c = Names[next]
          /\ main = "starting"
      BY <2>6, <2>1, <1>11, CallStepSense, <1>i DEF Calls
    <3>2. /\ call'[x].step \in StartStep \cup {"idle"}
          /\ call'[x].name = c /\ call'[x].manifest = None
          /\ box'[c].orphans \subseteq lingering'[c]
      BY <2>1, <2>4, <3>1, <1>11, <1>d, StartStepStays
    <3>3. \A w \in Worker : call'[w] = call[w] /\ call[w].name = None
      <4>1. \A w \in Worker : thread[w] = Waiting
        BY <3>1, <1>i DEF Filling
      <4> QED
        BY <4>1, <2>2, <2>6, <1>i, Constants DEF Calls, Waiting
    <3>4. Calls'
      BY <3>1, <3>2, <3>3, <2>3, <2>6, <1>i DEF Calls
    <3>5. Isolation'
      BY <3>2, <3>3, <2>2, <1>i DEF Isolation
    <3> QED
      BY <3>4, <3>5
  <2> QED
    BY <2>5, <2>6, Constants
<1>12. CASE DockerStep /\ UNCHANGED <<mainVars, workVars>>
  <2>1. UNCHANGED call
        /\ \A c \in Container :
               /\ box'[c].orphans \subseteq lingering'[c]
               /\ \A r : Isolated(r, box[c], lingering[c])
                         => Isolated(r, box'[c], lingering'[c])
    BY <1>12, <1>d, <1>i, DockerStepIsolates DEF Isolation
  <2>2. UNCHANGED <<main, next, thread>>
    BY <1>12 DEF mainVars, workVars
  <2>3. \A w \in Worker : call[w].name # None => call[w].name \in Container
    BY <1>i, Constants DEF Calls, Leases
  <2>4. Calls'
    BY <2>1, <2>2, <1>i DEF Calls
  <2>5. Isolation'
    BY <2>1, <2>3, <1>i DEF Isolation
  <2> QED
    BY <2>4, <2>5
<1>13. CASE UNCHANGED vars
  BY <1>13, <1>u DEF vars, dockerVars, mainVars, workVars
<1> QED
  BY <1>1, <1>2, <1>3, <1>4, <1>5, <1>6, <1>7, <1>8, <1>9, <1>10, <1>11, <1>12, <1>13
  DEF Next, MainStep, MainProceeds
-----------------------------------------------------------------------------
(* A step loses no container.                                              *)

\* No step drops a name or makes up one.
LEMMA NothingLostStep == IInv /\ [Next]_vars => NothingLost'
PROOF
<1> SUFFICES ASSUME IInv, [Next]_vars PROVE NothingLost'
  OBVIOUS
<1>t. free \in Seq(PoolName) /\ thread \in [Worker -> Thread] /\ next \in 1..(PoolSize + 1)
  BY DEF IInv, TypeOK
<1>i. NothingLost /\ Filling /\ Leases
  BY DEF IInv
<1>u. ASSUME UNCHANGED <<free, submitted>>,
             \A w \in Worker : thread'[w].lease = thread[w].lease
      PROVE  NothingLost'
  BY <1>u, <1>i DEF NothingLost
<1>1. CASE StartContainer
  BY <1>1, <1>u DEF StartContainer, workVars
<1>2. CASE Enqueue
  BY <1>2, <1>i DEF Enqueue, Filling, NothingLost
<1>3. CASE Submit
  <2>1. Elems(free) = {Names[i] : i \in 1..PoolSize} /\ free' = free
    <3>1. next - 1 = PoolSize
      BY <1>3, <1>t, Constants DEF Submit
    <3> QED
      BY <3>1, <1>3, <1>i DEF Submit, Filling, workVars
  <2> QED
    BY <2>1 DEF NothingLost, PoolName
<1>4. ASSUME NEW j \in Job, Collect(j) PROVE NothingLost'
  BY <1>4, <1>u DEF Collect, workVars
<1>5. CASE LeaveLoop
  BY <1>5, <1>u DEF LeaveLoop, workVars
<1>6. CASE BeginShutdown
  BY <1>6, <1>u DEF BeginShutdown, workVars
<1>7. CASE RemoveContainer
  BY <1>7, <1>u DEF RemoveContainer, workVars
<1>8. CASE Exit
  BY <1>8, <1>u DEF Exit, workVars
<1>9. CASE Interrupt
  BY <1>9, <1>u DEF Interrupt, workVars
<1>10. ASSUME NEW w \in Worker, WorkerStep(w) PROVE NothingLost'
  <2>1. CASE TakeJob(w)
    <3>1. \A v \in Worker : thread'[v].lease = thread[v].lease
      BY <2>1, <1>t DEF TakeJob, Thread
    <3> QED
      BY <3>1, <2>1, <1>u DEF TakeJob, mainVars
  <2>2. CASE Acquire(w)
    <3>1. free' = Tail(free) /\ free # <<>> /\ thread[w].lease = None /\ submitted' = submitted
      BY <2>2 DEF Acquire, Dequeued, mainVars
    <3>2. Elems(free) = Elems(free') \cup {Head(free)}
      BY <3>1, <1>t, Taking
    <3>3. /\ thread'[w].lease = Head(free)
          /\ \A v \in Worker \ {w} : thread'[v] = thread[v]
      BY <2>2, <1>t DEF Acquire, Thread
    <3> QED
      BY <3>1, <3>2, <3>3, <1>i, Constants DEF NothingLost
  <2>3. CASE BuildImage(w)
    BY <2>3, <1>u DEF BuildImage, workVars, mainVars
  <2>4. CASE Validate(w)
    <3>1. \A v \in Worker : thread'[v].lease = thread[v].lease
      BY <2>4, <1>t DEF Validate, Thread
    <3> QED
      BY <3>1, <2>4, <1>u DEF Validate, mainVars
  <2>5. ASSUME NEW how \in {"result", "raised"}, EndJob(w, how) PROVE NothingLost'
    <3>1. /\ thread[w].lease \in PoolName /\ submitted' = submitted
          /\ free' = Append(free, thread[w].lease)
      BY <2>5, <1>i DEF EndJob, Between, Release, Leases, mainVars
    <3>2. Elems(free') = Elems(free) \cup {thread[w].lease}
      BY <3>1, <1>t, Appending
    <3>3. \A v \in Worker \ {w} : thread'[v] = thread[v]
      BY <2>5, <1>t DEF EndJob
    <3> QED
      BY <3>1, <3>2, <3>3, <1>i DEF NothingLost
  <2> QED
    BY <1>10, <2>1, <2>2, <2>3, <2>4, <2>5 DEF WorkerStep
<1>11. CASE UNCHANGED <<mainVars, workVars>>
  BY <1>11, <1>u DEF mainVars, workVars
<1>12. CASE UNCHANGED vars
  BY <1>12, <1>11 DEF vars
<1> QED
  BY <1>1, <1>2, <1>3, <1>4, <1>5, <1>6, <1>7, <1>8, <1>9, <1>10, <1>11, <1>12
  DEF Next, MainStep, MainProceeds

\* As many containers as workers, none lost and none lent twice: a worker that
\* holds none finds one in the queue.
LEMMA NobodyWaits == IInv => AcquireNeverWaits
PROOF
<1> SUFFICES ASSUME IInv, NEW w \in Worker, thread[w].job # 0, thread[w].lease = None,
                    free = <<>>
             PROVE  FALSE
  BY DEF AcquireNeverWaits
<1> DEFINE H == {v \in Worker : thread[v].lease # None}
           f == [v \in H |-> thread[v].lease]
           g == [i \in 1..PoolSize |-> Names[i]]
<1>1. submitted # 0
  BY DEF IInv, Filling, Waiting
<1>2. Elems(free) = {}
  BY EmptySeq DEF Elems
<1>3. \A c \in PoolName : \E v \in Worker : thread[v].lease = c
  BY <1>1, <1>2 DEF IInv, NothingLost
<1>4. f \in Surjection(H, PoolName)
  <2>1. f \in [H -> PoolName]
    BY DEF IInv, Leases
  <2>2. \A c \in PoolName : \E v \in H : f[v] = c
    BY <1>3, Constants
  <2> QED
    BY <2>1, <2>2, Fun_IsSurj
<1>5. IsFiniteSet(Worker) /\ Cardinality(Worker) = PoolSize
  BY PoolSizeAssumption
<1>6. IsFiniteSet(H) /\ Cardinality(H) <= PoolSize - 1
  <2>1. H \subseteq Worker \ {w}
    OBVIOUS
  <2>2. IsFiniteSet(Worker \ {w}) /\ Cardinality(Worker \ {w}) = PoolSize - 1
    BY <1>5, FS_RemoveElement
  <2> QED
    BY <2>1, <2>2, FS_Subset
<1>7. Cardinality(PoolName) <= Cardinality(H) /\ IsFiniteSet(PoolName)
  BY <1>4, <1>6, FS_Surjection
<1>8. Cardinality(PoolName) = PoolSize
  <2>1. g \in Bijection(1..PoolSize, PoolName)
    <3>1. g \in [1..PoolSize -> PoolName]
      BY Constants
    <3>2. \A i, j \in 1..PoolSize : g[i] = g[j] => i = j
      BY Constants
    <3>3. \A c \in PoolName : \E i \in 1..PoolSize : g[i] = c
      BY DEF PoolName
    <3> QED
      BY <3>1, <3>2, <3>3, Fun_IsInj, Fun_IsSurj DEF Bijection
  <2>2. IsFiniteSet(1..PoolSize) /\ Cardinality(1..PoolSize) = PoolSize
    BY Constants, FS_Interval
  <2> QED
    BY <2>1, <2>2, FS_Bijection DEF ExistsBijection
<1> QED
  <2>1. Cardinality(H) \in Nat /\ PoolSize \in Nat
    BY <1>6, FS_CardinalityType, Constants
  <2> QED
    BY <2>1, <1>6, <1>7, <1>8
-----------------------------------------------------------------------------
(* A step keeps the futures and the shutdown in order.                     *)

\* A problem goes to one worker at a time, and is done when it is given up.
LEMMA FuturesStep == IInv /\ [Next]_vars => Futures'
PROOF
<1> SUFFICES ASSUME IInv, [Next]_vars PROVE Futures'
  OBVIOUS
<1>t. /\ taken \in 0..submitted /\ submitted \in {0, NumJobs} /\ taken \in 0..NumJobs
      /\ NumJobs \in Nat
      /\ thread \in [Worker -> Thread]
      /\ outcome \in [Job -> {"pending", "result", "raised"}]
      /\ \A w \in Worker : thread[w].job \in 0..NumJobs
  BY Constants DEF IInv, TypeOK, Thread
<1>i. Futures
  BY DEF IInv
<1>u. ASSUME UNCHANGED <<taken, outcome>>,
             \A w \in Worker : thread'[w].job = thread[w].job
      PROVE  Futures'
  BY <1>u, <1>i DEF Futures
<1>1. CASE UNCHANGED workVars
  BY <1>1, <1>u DEF workVars
<1>2. CASE Enqueue
  BY <1>2, <1>u DEF Enqueue
<1>3. CASE MainStep
  BY <1>1, <1>2, <1>3 DEF MainStep, MainProceeds, StartContainer, Submit, Collect, LeaveLoop,
     BeginShutdown, RemoveContainer, Exit, Interrupt
<1>4. ASSUME NEW w \in Worker, WorkerStep(w) PROVE Futures'
  <2>1. CASE TakeJob(w)
    <3> DEFINE j == taken + 1
    <3>1. /\ taken < submitted /\ taken' = j /\ outcome' = outcome
          /\ thread' = [thread EXCEPT ![w].job = j]
      BY <2>1 DEF TakeJob
    <3>2. j \in Job /\ outcome[j] = "pending"
      <4>1. j \in Job
        BY <3>1, <1>t DEF Job
      <4> QED
        BY <4>1, <1>t, <1>i DEF Futures
    <3>3. /\ thread'[w].job = j
          /\ \A v \in Worker \ {w} : thread'[v].job = thread[v].job
      BY <3>1, <1>t DEF Thread
    <3>4. \A v \in Worker : thread[v].job # 0 => thread[v].job <= taken /\ thread[v].job # j
      BY <1>t, <1>i DEF Futures
    <3>5. \A i \in Job : i > taken' => outcome'[i] = "pending"
      BY <3>1, <1>t, <1>i DEF Futures, Job
    <3>6. \A v \in Worker : thread'[v].job # 0 =>
             thread'[v].job <= taken' /\ outcome'[thread'[v].job] = "pending"
      BY <3>1, <3>2, <3>3, <3>4, <1>t, <1>i DEF Futures
    <3>7. \A u, v \in Worker : thread'[v].job # 0 /\ thread'[v].job = thread'[u].job => u = v
      BY <3>3, <3>4, <1>i DEF Futures
    <3> QED
      BY <3>5, <3>6, <3>7 DEF Futures
  <2>2. CASE Acquire(w)
    <3>1. \A v \in Worker : thread'[v].job = thread[v].job
      BY <2>2, <1>t DEF Acquire, Thread
    <3> QED
      BY <3>1, <2>2, <1>u DEF Acquire
  <2>3. CASE BuildImage(w)
    BY <2>3, <1>1 DEF BuildImage
  <2>4. CASE Validate(w)
    <3>1. \A v \in Worker : thread'[v].job = thread[v].job
      BY <2>4, <1>t DEF Validate, Thread
    <3> QED
      BY <3>1, <2>4, <1>u DEF Validate
  <2>5. ASSUME NEW how \in {"result", "raised"}, EndJob(w, how) PROVE Futures'
    <3> DEFINE j == thread[w].job
    <3>1. /\ taken' = taken /\ outcome' = [outcome EXCEPT ![j] = how]
          /\ thread' = [thread EXCEPT ![w] = Waiting] /\ thread[w].lease # None
      BY <2>5 DEF EndJob, mainVars, Between
    <3>2. j # 0 /\ j \in Job /\ j <= taken
      <4>1. j # 0
        BY <3>1 DEF IInv, Leases
      <4> QED
        BY <4>1, <1>t, <1>i DEF Futures, Job
    <3>3. /\ thread'[w].job = 0
          /\ \A v \in Worker \ {w} : thread'[v] = thread[v]
      BY <3>1, <1>t DEF Waiting
    <3>4. /\ outcome'[j] = how
          /\ \A i \in Job \ {j} : outcome'[i] = outcome[i]
      BY <3>1, <3>2, <1>t
    <3>5. \A v \in Worker \ {w} : thread[v].job # 0 => thread[v].job \in Job \ {j}
      BY <3>2, <1>t, <1>i DEF Futures, Job
    <3>6. \A i \in Job : i > taken' => outcome'[i] = "pending"
      <4>1. \A i \in Job : i > taken => i # j
        BY <3>2, <1>t DEF Job
      <4> QED
        BY <4>1, <3>1, <3>4, <1>i DEF Futures
    <3>7. \A v \in Worker : thread'[v].job # 0 =>
             thread'[v].job <= taken' /\ outcome'[thread'[v].job] = "pending"
      BY <3>1, <3>3, <3>4, <3>5, <1>i DEF Futures
    <3>8. \A u, v \in Worker : thread'[v].job # 0 /\ thread'[v].job = thread'[u].job => u = v
      BY <3>3, <1>i DEF Futures
    <3> QED
      BY <3>6, <3>7, <3>8 DEF Futures
  <2> QED
    BY <1>4, <2>1, <2>2, <2>3, <2>4, <2>5 DEF WorkerStep
<1>5. CASE UNCHANGED vars
  BY <1>5, <1>1 DEF vars
<1> QED
  BY <1>1, <1>3, <1>4, <1>5 DEF Next

\* Once every problem is done no worker has one, none can take one, and no
\* command is under way.
LEMMA DoneIsQuiet ==
  ASSUME IInv, AllDone, main \notin {"init", "starting"}
  PROVE  /\ taken = NumJobs
         /\ \A w \in Worker : thread[w].job = 0 /\ thread[w].lease = None
         /\ \A x \in Client : ~ CallStep(x)
         /\ \A w \in Worker : ~ WorkerStep(w)
PROOF
<1>t. /\ taken \in 0..NumJobs /\ NumJobs \in Nat /\ submitted \in {0, NumJobs}
      /\ \A w \in Worker : thread[w].job \in 0..NumJobs
  BY Constants DEF IInv, TypeOK, Thread
<1>1. taken = NumJobs
  <2>1. ASSUME taken # NumJobs PROVE FALSE
    <3>1. taken + 1 \in Job /\ taken + 1 > taken
      BY <2>1, <1>t DEF Job
    <3> QED
      BY <3>1 DEF IInv, Futures, AllDone
  <2> QED
    BY <2>1
<1>2. \A w \in Worker : thread[w].job = 0
  BY <1>t DEF IInv, Futures, AllDone, Job
<1>3. \A w \in Worker : thread[w].lease = None
  BY <1>2 DEF IInv, Leases
<1>4. ASSUME NEW x \in Client, CallStep(x) PROVE FALSE
  <2>1. x \in Worker => thread[x].lease \in Container
    BY <1>4, CallStepSense DEF CallMakesSense
  <2>2. x = Main => main = "starting"
    BY <1>4, CallStepSense DEF IInv, Calls
  <2> QED
    BY <2>1, <2>2, <1>3, Constants
<1>5. ASSUME NEW w \in Worker, WorkerStep(w) PROVE FALSE
  <2>1. ~ TakeJob(w)
    BY <1>1, <1>t DEF TakeJob
  <2> QED
    BY <2>1, <1>2, <1>3, <1>5
    DEF WorkerStep, Acquire, BuildImage, Validate, EndJob, Between
<1> QED
  BY <1>1, <1>2, <1>3, <1>4, <1>5

\* The containers are removed when nobody works.
LEMMA ShutdownStep == IInv /\ [Next]_vars => Shutdown'
PROOF
<1> DEFINE Past == main \in {"shutdown", "exited"} /\ submitted # 0 /\ ~forced
           Clean == \A i \in 1..(next - 1) : box[Names[i]].status = "absent"
<1> SUFFICES ASSUME IInv, [Next]_vars, Past' PROVE AllDone' /\ Clean'
  BY DEF Shutdown
<1>t. /\ next \in 1..(PoolSize + 1) /\ box \in [Container -> Box]
      /\ DockerTypeOK
  BY DEF IInv, TypeOK, DockerTypeOK
<1>i. Past => AllDone /\ Clean
  BY DEF IInv, Shutdown
<1>u. ASSUME Past, UNCHANGED <<outcome, box, next>> PROVE AllDone' /\ Clean'
  BY <1>u, <1>i DEF AllDone
<1>1. CASE StartContainer
  BY <1>1 DEF StartContainer
<1>2. CASE Enqueue
  BY <1>2 DEF Enqueue
<1>3. CASE Submit
  BY <1>3 DEF Submit
<1>4. ASSUME NEW j \in Job, Collect(j) PROVE FALSE
  BY <1>4 DEF Collect
<1>5. CASE LeaveLoop
  BY <1>5 DEF LeaveLoop
<1>6. CASE BeginShutdown
  BY <1>6 DEF BeginShutdown, Joined, AllDone, workVars
<1>7. CASE RemoveContainer
  <2>1. Past /\ next \in 1..PoolSize /\ next' = next + 1 /\ outcome' = outcome
        /\ box' = [box EXCEPT ![Names[next]] = Gone]
    BY <1>7, <1>t, Constants DEF RemoveContainer, workVars
  <2>2. ASSUME NEW i \in 1..next PROVE box'[Names[i]].status = "absent"
    <3>1. Names[i] \in Container /\ Names[next] \in Container
      BY <2>1, <1>t, Constants
    <3>2. CASE i = next
      BY <3>1, <3>2, <2>1, <1>t DEF Gone
    <3>3. CASE i # next
      <4>1. i \in 1..(next - 1)
        BY <3>3, <1>t
      <4>2. box[Names[i]].status = "absent"
        BY <4>1, <2>1, <1>i
      <4> QED
        BY <4>2, <3>1, <2>1, <1>t DEF Gone
    <3> QED
      BY <3>2, <3>3
  <2>3. Clean'
    BY <2>1, <2>2, <1>t
  <2> QED
    BY <2>1, <2>3, <1>i DEF AllDone
<1>8. CASE Exit
  BY <1>8, <1>u DEF Exit, dockerVars, workVars
<1>9. CASE Interrupt
  <2>1. main = "shutdown"
    <3>1. main \notin {"init", "starting"}
      BY <1>9 DEF Interrupt, IInv, Filling
    <3>2. main \notin {"join", "collect", "exited"}
      BY <1>9 DEF Interrupt
    <3> QED
      BY <3>1, <3>2 DEF IInv, TypeOK
  <2>2. Past
    BY <2>1, <1>9 DEF Interrupt
  <2> QED
    BY <2>2, <1>9, <1>i DEF Interrupt, AllDone, workVars
<1>10. ASSUME NEW w \in Worker, WorkerStep(w) PROVE FALSE
  <2>1. Past
    BY <1>10 DEF WorkerStep, TakeJob, Acquire, BuildImage, Validate, EndJob, mainVars
  <2> QED
    BY <2>1, <1>10, <1>i, DoneIsQuiet
<1>11. ASSUME NEW x \in Client, CallStep(x), UNCHANGED <<mainVars, workVars>> PROVE FALSE
  BY <1>11, <1>i, DoneIsQuiet DEF mainVars
<1>12. CASE DockerStep /\ UNCHANGED <<mainVars, workVars>>
  <2>1. \A c \in Container : box[c].status = "absent" => box'[c].status = "absent"
    BY <1>12, <1>t, DockerStepIsolates DEF IInv, Isolation
  <2>2. Past /\ UNCHANGED <<outcome, next>>
    BY <1>12 DEF mainVars, workVars
  <2>3. Clean'
    BY <2>1, <2>2, <1>i, <1>t, Constants
  <2> QED
    BY <2>2, <2>3, <1>i DEF AllDone
<1>13. CASE UNCHANGED vars
  BY <1>13, <1>u DEF vars, dockerVars, mainVars, workVars
<1> QED
  BY <1>1, <1>2, <1>3, <1>4, <1>5, <1>6, <1>7, <1>8, <1>9, <1>10, <1>11, <1>12, <1>13
  DEF Next, MainStep, MainProceeds
-----------------------------------------------------------------------------
(* The theorems.                                                           *)

\* The invariant holds of every batch.
THEOREM Invariance == Spec => []IInv
PROOF
<1>1. IInv /\ [Next]_vars => IInv'
  BY TypeStep, LeasesStep, NothingLostStep, CallsStep, FuturesStep, ShutdownStep DEF IInv
<1> QED
  BY InitIInv, <1>1, PTL DEF Spec

\* Every variable of the batch, of its pool and of the validator keeps its type
\* (run_batch.py, container_pool.py, docker_validator.py).
THEOREM TypeCorrect == Spec => []TypeOK
PROOF
<1>1. IInv => TypeOK
  BY DEF IInv
<1> QED
  BY <1>1, Invariance, PTL

\* A container is never lent to two workers, and never lent while it is in the
\* queue (DockerContainerPool.acquire, release and acquire_context).
THEOREM LeasesExclusive == Spec => []LeasesAreExclusive
PROOF
<1>1. IInv => LeasesAreExclusive
  BY Constants DEF IInv, Leases, LeasesAreExclusive, Holder, InQueue, Distinct, Elems
<1> QED
  BY <1>1, Invariance, PTL

\* queue.get never blocks a worker: as many containers as threads, all of them
\* in the queue before the first problem, whether they were started or not.
THEOREM AcquireImmediate == Spec => []AcquireNeverWaits
PROOF
<1> QED
  BY NobodyWaits, Invariance, PTL

\* What a validation saw is of its own manifest or of one whose command was
\* abandoned in the same container, and what passed was seen (validate and the
\* clearing of /project in copy_files_to_container).
THEOREM VerdictsIsolated == Spec => []VerdictsAreOwn
PROOF
<1>1. IInv => VerdictsAreOwn
  BY DEF IInv, Isolation, Isolated, VerdictsAreOwn
<1> QED
  BY <1>1, Invariance, PTL

\* Unless a second interrupt cuts the wait short, the pool is shut down after
\* the last problem, nobody holds a container then, and none comes back (the
\* executor's with block and the finally of run_batch).
THEOREM CleanShutdown == Spec => []ShutdownIsClean
PROOF
<1>1. IInv => ShutdownIsClean
  <2>1. ASSUME IInv, main \in {"shutdown", "exited"}, submitted # 0, ~forced
        PROVE  /\ AllDone
               /\ \A w \in Worker : thread[w].lease = None
               /\ \A i \in 1..(next - 1) : box[Names[i]].status = "absent"
    BY <2>1, DoneIsQuiet DEF IInv, Shutdown
  <2> QED
    BY <2>1 DEF ShutdownIsClean
<1> QED
  BY <1>1, Invariance, PTL
-----------------------------------------------------------------------------
(* A batch is a bounded number of steps.                                   *)

\* How many commands a call may still make, the one it is at included.
CommandsLeft(s) ==
    CASE s = "probe" -> 11 [] s = "exists" -> 10 [] s = "restart" -> 9
      [] s = "remove" -> 8 [] s = "create" -> 7 [] s = "clear" -> 6 [] s = "mkdir" -> 5
      [] s = "copy" -> 4 [] s = "compile" -> 3 [] s = "execute" -> 2 [] s = "test" -> 1
      [] OTHER -> 0

CallLeft(x) == CommandsLeft(call[x].step)

\* The steps that are left of the problem w has, and those of one nobody has.
JobLeft(w) ==
    IF thread[w].job = 0 THEN 0
    ELSE (IF thread[w].lease = None THEN 2 ELSE 1)
         + 12 * (MaxRevs - thread[w].revs) + CallLeft(w)

PerJob == 3 + 12 * MaxRevs

\* The steps that are left of the main thread.
MainLeft ==
    CASE main = "exited" -> 0
      [] main = "shutdown" -> 1 + (PoolSize + 1 - next)
      [] main = "join" -> PoolSize + 3
      [] main = "collect" -> PoolSize + 4 + (NumJobs - Cardinality(collected))
      [] main = "init" -> PoolSize + 5 + NumJobs + 13 * (PoolSize + 1 - next)
      [] main = "starting" ->
           PoolSize + 5 + NumJobs + 13 * (PoolSize - next) + 1 + CallLeft(Main)

JobsLeft == SumFunction([w \in Worker |-> JobLeft(w)])
ImageLeft == IF image THEN 0 ELSE 1
StepsLeft == ImageLeft + MainLeft + (NumJobs - taken) * PerJob + JobsLeft

\* A command brings its call nearer to its end, and no other.
LEMMA CommandShortens ==
  ASSUME DockerTypeOK, NEW x \in Client, CallMakesSense(x), CallStep(x)
  PROVE  /\ CallLeft(x) \in 1..11 /\ CallLeft(x)' \in 0..10 /\ CallLeft(x)' < CallLeft(x)
         /\ \A y \in Client : y # x => call'[y] = call[y]
         /\ image' = image
<1>1. call[x] \in Call /\ call \in [Client -> Call] /\ call[x].step \in Step
  BY DEF DockerTypeOK, Call
<1>a. \A s : GoTo(x, s) => call'[x].step = s
  <2>1. ASSUME NEW s, GoTo(x, s) PROVE CallIs(x, s, call[x].saw, call[x].verdict)
    BY <2>1, CallFields
  <2> QED
    BY <2>1 DEF CallIs
<1>b. \A v : Finish(x, v) => call'[x].step = "idle"
  <2>1. ASSUME NEW v, Finish(x, v) PROVE CallIs(x, "idle", call[x].saw, v)
    BY <2>1, CallFields
  <2> QED
    BY <2>1 DEF CallIs
<1>3. /\ \A y \in Client : y # x => call'[y] = call[y]
      /\ image' = image
  BY CallStepShape, <1>1 DEF CallBecame
<1> DEFINE Shorter == /\ CallLeft(x) \in 1..11 /\ CallLeft(x)' \in 0..10
                      /\ CallLeft(x)' < CallLeft(x)
<1> SUFFICES Shorter
  BY <1>3
<1>4. Started(x) \/ NotStarted(x) => call'[x].step \in {"clear", "idle"}
  BY <1>a, <1>b DEF Started, NotStarted
<1>5. /\ CommandsLeft("probe") = 11 /\ CommandsLeft("exists") = 10
      /\ CommandsLeft("restart") = 9 /\ CommandsLeft("remove") = 8
      /\ CommandsLeft("create") = 7 /\ CommandsLeft("clear") = 6
      /\ CommandsLeft("mkdir") = 5 /\ CommandsLeft("copy") = 4
      /\ CommandsLeft("compile") = 3 /\ CommandsLeft("execute") = 2
      /\ CommandsLeft("test") = 1 /\ CommandsLeft("idle") = 0
  BY DEF CommandsLeft
<1>10. CASE call[x].step \in {"probe", "exists", "restart", "remove", "create"}
  <2>1. \/ call[x].step = "probe" /\ call'[x].step \in {"exists", "clear", "idle"}
        \/ call[x].step = "exists" /\ call'[x].step \in {"restart", "create"}
        \/ call[x].step = "restart" /\ call'[x].step \in {"remove", "clear", "idle"}
        \/ call[x].step = "remove" /\ call'[x].step = "create"
        \/ call[x].step = "create" /\ call'[x].step \in {"clear", "idle"}
    BY <1>a, <1>b, <1>4, <1>10 DEF CallStep, Probe, CheckExists, RestartSucceeds, RestartFails,
         RemoveOld, CreateSucceeds, CreateFails, Clear, MakeDir, Copy, CopyFails,
         CopyTimesOut, Succeeds, Fails, TimesOut, Running, ExecStep
  <2> QED
    BY <2>1, <1>5 DEF CallLeft
<1>11. CASE call[x].step \in {"clear", "mkdir", "copy"}
  <2>1. \/ call[x].step = "clear" /\ call'[x].step \in {"mkdir", "idle"}
        \/ call[x].step = "mkdir" /\ call'[x].step \in {"copy", "idle"}
        \/ call[x].step = "copy" /\ call'[x].step \in {"compile", "idle"}
    BY <1>a, <1>b, <1>11 DEF CallStep, Probe, CheckExists, RestartSucceeds, RestartFails,
         RemoveOld, CreateSucceeds, CreateFails, Clear, MakeDir, Copy, CopyFails,
         CopyTimesOut, Succeeds, Fails, TimesOut, Running, ExecStep
  <2> QED
    BY <2>1, <1>5 DEF CallLeft
<1>12. CASE call[x].step \in ExecStep
  <2>1. Succeeds(x) => call'[x].step = AfterSuccess(call[x].step)
    BY <1>1 DEF Succeeds, Call
  <2>2. Fails(x) \/ TimesOut(x) => call'[x].step = "idle"
    BY <1>1 DEF Fails, TimesOut, Call
  <2>3. Succeeds(x) \/ Fails(x) \/ TimesOut(x)
    BY <1>12 DEF CallStep, Probe, CheckExists, RestartSucceeds, RestartFails, RemoveOld,
         CreateSucceeds, CreateFails, Clear, MakeDir, Copy, CopyFails, CopyTimesOut,
         ExecStep
  <2>4. call'[x].step \in {"idle", AfterSuccess(call[x].step)}
    BY <2>1, <2>2, <2>3
  <2> QED
    BY <2>4, <1>5, <1>12 DEF CallLeft, ExecStep, AfterSuccess
<1>13. call[x].step # "idle"
  BY DEF CallStep, Probe, CheckExists, RestartSucceeds, RestartFails, RemoveOld,
     CreateSucceeds, CreateFails, Clear, MakeDir, Copy, CopyFails, CopyTimesOut,
     Succeeds, Fails, TimesOut, Running, ExecStep
<1> QED
  BY <1>1, <1>3, <1>10, <1>11, <1>12, <1>13 DEF Step, ExecStep

\* What is left of a problem is a number, and nothing of none.
LEMMA JobLeftType ==
  ASSUME IInv, NEW w \in Worker
  PROVE  /\ JobLeft(w) \in Nat /\ CallLeft(w) \in Nat
         /\ thread[w].lease = None => CallLeft(w) = 0
         /\ thread[w].job = 0 => thread[w].lease = None
<1>1. /\ thread[w].job \in Nat /\ thread[w].revs \in 0..MaxRevs /\ MaxRevs \in Nat
      /\ call[w].step \in Step
  BY Constants DEF IInv, TypeOK, DockerTypeOK, Thread, Call
<1>2. CallLeft(w) \in Nat
  BY <1>1 DEF CallLeft, CommandsLeft, Step, ExecStep
<1>3. thread[w].lease = None => call[w].step = "idle"
  BY DEF IInv, Calls
<1>4. call[w].step = "idle" => CallLeft(w) = 0
  BY DEF CallLeft, CommandsLeft
<1>5. thread[w].job = 0 => thread[w].lease = None
  BY DEF IInv, Leases
<1>6. JobLeft(w) \in Nat
  BY <1>1, <1>2 DEF JobLeft
<1> QED
  BY <1>2, <1>3, <1>4, <1>5, <1>6

\* The same of the next state.
LEMMA JobLeftTypeNext == IInv' => (\A w \in Worker : JobLeft(w) \in Nat)'
<1>1. IInv => \A w \in Worker : JobLeft(w) \in Nat
  BY JobLeftType
<1> QED
  BY <1>1, PTL

\* What is left of the main thread and of all is a number.
LEMMA StepsLeftType ==
  ASSUME IInv
  PROVE  /\ MainLeft \in Nat /\ ImageLeft \in {0, 1} /\ JobsLeft \in Nat
         /\ PerJob \in Nat /\ NumJobs - taken \in Nat
         /\ (NumJobs - taken) * PerJob \in Nat
         /\ CallLeft(Main) \in Nat
         /\ Cardinality(collected) \in 0..NumJobs /\ IsFiniteSet(collected)
<1>1. /\ PoolSize \in Nat /\ NumJobs \in Nat /\ MaxRevs \in Nat
      /\ next \in 1..(PoolSize + 1) /\ taken \in 0..NumJobs
      /\ main \in {"init", "starting", "collect", "join", "shutdown", "exited"}
      /\ main = "starting" => next <= PoolSize
      /\ collected \subseteq Job /\ call[Main].step \in Step
  BY Constants DEF IInv, TypeOK, DockerTypeOK, Filling, Call
<1>2. CallLeft(Main) \in Nat
  BY <1>1 DEF CallLeft, CommandsLeft, Step, ExecStep
<1>3. Cardinality(collected) \in 0..NumJobs /\ IsFiniteSet(collected)
  <2>1. IsFiniteSet(Job) /\ Cardinality(Job) = NumJobs
    BY <1>1, FS_Interval DEF Job
  <2>2. /\ IsFiniteSet(collected) /\ Cardinality(collected) <= Cardinality(Job)
        /\ Cardinality(collected) \in Nat
    BY <2>1, <1>1, FS_Subset, FS_CardinalityType
  <2> QED
    BY <1>1, <2>1, <2>2
<1>4. MainLeft \in Nat
  BY <1>1, <1>2, <1>3 DEF MainLeft
<1>5. ImageLeft \in {0, 1}
  BY DEF ImageLeft
<1>6. JobsLeft \in Nat
  <2> DEFINE f == [w \in Worker |-> JobLeft(w)]
  <2>1. \A w \in Worker : f[w] \in Nat
    BY JobLeftType
  <2>2. DOMAIN f = Worker
    OBVIOUS
  <2> HIDE DEF f
  <2>3. SumFunctionOnSet(f, Worker) \in Nat
    BY <2>1, PoolSizeAssumption, SumType
  <2> QED
    BY <2>2, <2>3 DEF JobsLeft, SumFunction, f
<1>7. PerJob \in Nat /\ NumJobs - taken \in Nat
  BY <1>1 DEF PerJob
<1>8. \A a, b \in Nat : a * b \in Nat
  OBVIOUS
<1> QED
  BY <1>2, <1>3, <1>4, <1>5, <1>6, <1>7, <1>8

\* The sum over the workers changes by what changes of one of them.
LEMMA OneJobMoves ==
  ASSUME IInv, IInv', NEW w \in Worker,
         \A v \in Worker : v # w => JobLeft(v)' = JobLeft(v)
  PROVE  JobsLeft' = JobsLeft + JobLeft(w)' - JobLeft(w)
<1> DEFINE f == [v \in Worker |-> JobLeft(v)]
           h == [v \in Worker |-> JobLeft(v)']
<1>1. \A v \in Worker : f[v] \in Int /\ f[v] = JobLeft(v)
  BY JobLeftType
<1>2. \A v \in Worker : h[v] \in Int /\ h[v] = JobLeft(v)'
  BY JobLeftTypeNext
<1>3. DOMAIN f = Worker /\ DOMAIN h = Worker
  OBVIOUS
<1>4. JobsLeft = SumFunctionOnSet(f, Worker)
  BY <1>3 DEF JobsLeft, SumFunction
<1>5. JobsLeft' = SumFunctionOnSet(h, Worker)
  BY <1>3 DEF JobsLeft, SumFunction
<1> HIDE DEF f, h
<1>6. SumFunctionOnSet(h, Worker) = SumFunctionOnSet(f, Worker) + h[w] - f[w]
  BY <1>1, <1>2, PoolSizeAssumption, SumWithOneChanged
<1> QED
  BY <1>1, <1>2, <1>4, <1>5, <1>6

\* And not at all when none of them does.
LEMMA NoJobMoves ==
  ASSUME IInv, IInv', \A v \in Worker : JobLeft(v)' = JobLeft(v)
  PROVE  JobsLeft' = JobsLeft
<1> DEFINE f == [v \in Worker |-> JobLeft(v)]
           h == [v \in Worker |-> JobLeft(v)']
<1>1. f = h
  OBVIOUS
<1> QED
  BY <1>1 DEF JobsLeft, SumFunction

\* Their sum is one.
LEMMA Numbers == IInv => StepsLeft \in Nat
<1> SUFFICES ASSUME IInv PROVE StepsLeft \in Nat
  OBVIOUS
<1> DEFINE jobs == (NumJobs - taken) * PerJob
<1>1. jobs \in Nat /\ ImageLeft \in Nat /\ MainLeft \in Nat /\ JobsLeft \in Nat
  BY StepsLeftType
<1>2. StepsLeft = ImageLeft + MainLeft + jobs + JobsLeft
  BY DEF StepsLeft
<1> HIDE DEF jobs
<1> QED
  BY <1>1, <1>2

\* The same of the next state.
LEMMA NumbersNext == IInv' => (StepsLeft \in Nat /\ MainLeft \in Nat /\ JobsLeft \in Nat)'
<1>1. IInv => StepsLeft \in Nat /\ MainLeft \in Nat /\ JobsLeft \in Nat
  BY Numbers, StepsLeftType
<1> QED
  BY <1>1, PTL

\* A step of the main thread brings it nearer to its end, and is nothing to the
\* workers.
LEMMA MainShortens ==
  ASSUME IInv, IInv', MainStep
  PROVE  /\ MainLeft' < MainLeft /\ JobsLeft' = JobsLeft
         /\ ImageLeft' = ImageLeft /\ taken' = taken
<1>1. /\ PoolSize \in Nat /\ NumJobs \in Nat
      /\ next \in 1..(PoolSize + 1) /\ call \in [Client -> Call]
      /\ main \in {"init", "starting", "collect", "join", "shutdown", "exited"}
      /\ main = "starting" => next <= PoolSize
      /\ collected \subseteq Job
      /\ Main \in Client /\ Main \notin Worker /\ Worker \subseteq Client
  BY Constants DEF IInv, TypeOK, DockerTypeOK, Filling
<1>2. /\ CallLeft(Main) \in Nat /\ Cardinality(collected) \in 0..NumJobs
      /\ IsFiniteSet(collected)
  BY StepsLeftType
<1>3. /\ main = "exited" => MainLeft = 0
      /\ main = "shutdown" => MainLeft = 1 + (PoolSize + 1 - next)
      /\ main = "join" => MainLeft = PoolSize + 3
      /\ main = "collect" => MainLeft = PoolSize + 4 + (NumJobs - Cardinality(collected))
      /\ main = "init" => MainLeft = PoolSize + 5 + NumJobs + 13 * (PoolSize + 1 - next)
      /\ main = "starting" =>
           MainLeft = PoolSize + 5 + NumJobs + 13 * (PoolSize - next) + 1 + CallLeft(Main)
  BY DEF MainLeft
<1>4. /\ main' = "exited" => MainLeft' = 0
      /\ main' = "shutdown" => MainLeft' = 1 + (PoolSize + 1 - next')
      /\ main' = "join" => MainLeft' = PoolSize + 3
      /\ main' = "collect" => MainLeft' = PoolSize + 4 + (NumJobs - Cardinality(collected'))
      /\ main' = "init" => MainLeft' = PoolSize + 5 + NumJobs + 13 * (PoolSize + 1 - next')
      /\ main' = "starting" =>
           MainLeft' = PoolSize + 5 + NumJobs + 13 * (PoolSize - next') + 1 + CallLeft(Main)'
  BY DEF MainLeft
<1>5. ASSUME \A w \in Worker : call'[w] = call[w] /\ thread'[w] = thread[w]
      PROVE  JobsLeft' = JobsLeft
  <2>1. \A w \in Worker : JobLeft(w)' = JobLeft(w)
    BY <1>5 DEF JobLeft, CallLeft
  <2> QED
    BY <2>1, NoJobMoves
<1>6. image' = image => ImageLeft' = ImageLeft
  BY DEF ImageLeft
<1>7. Forget(Main) => \A w \in Worker : call'[w] = call[w]
  BY <1>1 DEF Forget
<1> DEFINE Shortened == /\ MainLeft' < MainLeft /\ JobsLeft' = JobsLeft
                        /\ ImageLeft' = ImageLeft /\ taken' = taken
<1> SUFFICES Shortened
  OBVIOUS
<1> HIDE DEF Shortened
<1>8. ASSUME UNCHANGED <<image, taken, thread>>, \A w \in Worker : call'[w] = call[w],
             MainLeft' < MainLeft
      PROVE  Shortened
  BY <1>5, <1>6, <1>8 DEF Shortened
<1>9. ASSUME UNCHANGED dockerVars, UNCHANGED workVars, MainLeft' < MainLeft
      PROVE  Shortened
  BY <1>8, <1>9 DEF dockerVars, workVars
<1>10. CASE StartContainer
  <2>1. /\ call'[Main].step = "probe"
        /\ \A w \in Worker : call'[w] = call[w]
    BY <1>1, <1>10 DEF StartContainer, Begin
  <2>2. CallLeft(Main)' = 11
    BY <2>1 DEF CallLeft, CommandsLeft
  <2>3. main = "init" /\ main' = "starting" /\ next' = next
    BY <1>10 DEF StartContainer
  <2>4. MainLeft' < MainLeft
    BY <1>1, <1>3, <1>4, <2>2, <2>3
  <2> QED
    BY <1>8, <1>10, <2>1, <2>4 DEF StartContainer, workVars
<1>11. CASE Enqueue
  <2>1. main = "starting" /\ main' = "init" /\ next' = next + 1
    BY <1>11 DEF Enqueue
  <2>2. MainLeft' < MainLeft
    BY <1>1, <1>2, <1>3, <1>4, <2>1
  <2> QED
    BY <1>7, <1>8, <1>11, <2>2 DEF Enqueue
<1>12. CASE Submit
  <2>1. main = "init" /\ main' = "collect" /\ next > PoolSize /\ collected' = collected
    BY <1>12 DEF Submit
  <2>2. MainLeft' < MainLeft
    BY <1>1, <1>2, <1>3, <1>4, <2>1
  <2> QED
    BY <1>9, <1>12, <2>2 DEF Submit
<1>13. ASSUME NEW j \in Job, Collect(j) PROVE Shortened
  <2>1. main = "collect" /\ main' = "collect" /\ collected' = collected \cup {j}
        /\ j \notin collected
    BY <1>13 DEF Collect
  <2>2. Cardinality(collected') = Cardinality(collected) + 1
    BY <1>2, <2>1, FS_AddElement
  <2>3. MainLeft' < MainLeft
    BY <1>1, <1>2, <1>3, <1>4, <2>1, <2>2
  <2> QED
    BY <1>9, <1>13, <2>3 DEF Collect
<1>14. CASE LeaveLoop
  <2>1. main = "collect" /\ main' = "join"
    BY <1>14 DEF LeaveLoop
  <2>2. MainLeft' < MainLeft
    BY <1>1, <1>2, <1>3, <1>4, <2>1
  <2> QED
    BY <1>9, <1>14, <2>2 DEF LeaveLoop
<1>15. CASE BeginShutdown
  <2>1. main = "join" /\ main' = "shutdown" /\ next' = 1
    BY <1>15 DEF BeginShutdown, Joined
  <2>2. MainLeft' < MainLeft
    BY <1>1, <1>3, <1>4, <2>1
  <2> QED
    BY <1>9, <1>15, <2>2 DEF BeginShutdown
<1>16. CASE RemoveContainer
  <2>1. main = "shutdown" /\ main' = "shutdown" /\ next' = next + 1 /\ next <= PoolSize
    BY <1>16 DEF RemoveContainer
  <2>2. MainLeft' < MainLeft
    BY <1>1, <1>3, <1>4, <2>1
  <2> QED
    BY <1>8, <1>16, <2>2 DEF RemoveContainer, workVars
<1>17. CASE Exit
  <2>1. main = "shutdown" /\ main' = "exited"
    BY <1>17 DEF Exit
  <2>2. MainLeft' < MainLeft
    BY <1>1, <1>3, <1>4, <2>1
  <2> QED
    BY <1>9, <1>17, <2>2 DEF Exit
<1>18. CASE Interrupt
  <2>1. /\ \/ main = "collect" /\ main' = "join"
           \/ main = "join" /\ main' = "shutdown"
           \/ main \in {"init", "starting", "shutdown"} /\ main' = "exited"
        /\ next' = 1
    BY <1>1, <1>18 DEF Interrupt
  <2>2. MainLeft' < MainLeft
    BY <1>1, <1>2, <1>3, <1>4, <2>1
  <2> QED
    BY <1>7, <1>8, <1>18, <2>2 DEF Interrupt, workVars
<1> QED
  BY <1>10, <1>11, <1>12, <1>13, <1>14, <1>15, <1>16, <1>17, <1>18 DEF MainStep, MainProceeds

\* A step of a worker brings its problem nearer to its end, takes one that
\* nobody has had, or builds the image.
LEMMA WorkerShortens ==
  ASSUME IInv, IInv', NEW w \in Worker, WorkerStep(w), vars' # vars
  PROVE  /\ MainLeft' = MainLeft
         /\ \/ JobsLeft' < JobsLeft /\ ImageLeft' = ImageLeft /\ taken' = taken
            \/ JobsLeft' = JobsLeft /\ ImageLeft' < ImageLeft /\ taken' = taken
            \/ /\ JobsLeft' < JobsLeft + PerJob /\ ImageLeft' = ImageLeft
               /\ taken' = taken + 1
<1>1. /\ thread \in [Worker -> Thread] /\ call \in [Client -> Call]
      /\ thread[w].revs \in 0..MaxRevs /\ MaxRevs \in Nat
      /\ w \in Client /\ Main \in Client /\ Main # w
      /\ thread[w].job \in Nat /\ taken \in Nat
      /\ Worker \subseteq Client /\ image \in BOOLEAN
  BY Constants DEF IInv, TypeOK, DockerTypeOK, Thread
<1>2. /\ CallLeft(w) \in Nat /\ JobLeft(w) \in Nat
      /\ thread[w].lease = None => CallLeft(w) = 0
      /\ thread[w].job = 0 => thread[w].lease = None
  BY JobLeftType
<1>3. JobLeft(w)' \in Nat
  BY JobLeftTypeNext
<1>4. ASSUME \A x \in Client : x # w => call'[x] = call[x],
             \A v \in Worker : v # w => thread'[v] = thread[v],
             UNCHANGED mainVars
      PROVE  MainLeft' = MainLeft /\ JobsLeft' = JobsLeft + JobLeft(w)' - JobLeft(w)
  <2>1. \A v \in Worker : v # w => JobLeft(v)' = JobLeft(v)
    BY <1>1, <1>4 DEF JobLeft, CallLeft
  <2>2. CallLeft(Main)' = CallLeft(Main)
    BY <1>1, <1>4 DEF CallLeft
  <2>3. MainLeft' = MainLeft
    BY <1>4, <2>2 DEF MainLeft, mainVars
  <2> QED
    BY <2>1, <2>3, OneJobMoves
<1>5. JobsLeft \in Nat
  BY StepsLeftType
<1>6. image' = image => ImageLeft' = ImageLeft
  BY DEF ImageLeft
<1>10. CASE TakeJob(w)
  <2>1. /\ \A x \in Client : call'[x] = call[x]
        /\ \A v \in Worker : v # w => thread'[v] = thread[v]
        /\ thread[w].job = 0 /\ thread'[w].job = taken + 1
        /\ thread'[w].revs = thread[w].revs /\ thread'[w].lease = thread[w].lease
        /\ UNCHANGED <<mainVars, image>> /\ taken' = taken + 1
    BY <1>1, <1>10 DEF TakeJob, Thread, dockerVars
  <2>2. JobLeft(w) = 0 /\ CallLeft(w)' = 0
    BY <1>1, <1>2, <2>1 DEF JobLeft, CallLeft
  <2>3. JobLeft(w)' < PerJob
    BY <1>1, <2>1, <2>2 DEF JobLeft, PerJob
  <2>4. MainLeft' = MainLeft /\ JobsLeft' = JobsLeft + JobLeft(w)' - JobLeft(w)
    BY <1>4, <2>1
  <2>5. PerJob \in Nat
    BY StepsLeftType
  <2> QED
    BY <1>3, <1>5, <1>6, <2>1, <2>2, <2>3, <2>4, <2>5
<1>7. ASSUME JobLeft(w)' < JobLeft(w), UNCHANGED <<mainVars, image, taken>>,
             \A x \in Client : x # w => call'[x] = call[x],
             \A v \in Worker : v # w => thread'[v] = thread[v]
      PROVE  /\ MainLeft' = MainLeft /\ JobsLeft' < JobsLeft
             /\ ImageLeft' = ImageLeft /\ taken' = taken
  BY <1>2, <1>3, <1>4, <1>5, <1>6, <1>7
<1>11. CASE Acquire(w)
  <2>1. /\ \A x \in Client : call'[x] = call[x]
        /\ \A v \in Worker : v # w => thread'[v] = thread[v]
        /\ thread[w].job # 0 /\ thread'[w].job = thread[w].job
        /\ thread[w].lease = None /\ thread'[w].lease = Head(free)
        /\ thread'[w].revs = thread[w].revs
        /\ UNCHANGED <<mainVars, image, taken>>
    BY <1>1, <1>11 DEF Acquire, Thread, dockerVars
  <2>2. Head(free) # None
    BY <1>11, Taking, Constants DEF Acquire, IInv, TypeOK
  <2>3. CallLeft(w)' = CallLeft(w)
    BY <1>1, <2>1 DEF CallLeft
  <2>4. JobLeft(w)' < JobLeft(w)
    BY <1>1, <1>2, <2>1, <2>2, <2>3 DEF JobLeft
  <2> QED
    BY <1>7, <2>1, <2>4
<1>12. CASE BuildImage(w)
  <2>1. UNCHANGED <<mainVars, thread, call, taken>> /\ image' = TRUE
    BY <1>12 DEF BuildImage, ImageBuilt, workVars
  <2>2. image = FALSE
    BY <1>1, <1>12 DEF BuildImage, ImageBuilt, vars, dockerVars
  <2>3. ImageLeft' < ImageLeft
    BY <2>1, <2>2 DEF ImageLeft
  <2>4. JobLeft(w)' = JobLeft(w)
    BY <2>1 DEF JobLeft, CallLeft
  <2> QED
    BY <1>2, <1>4, <1>5, <2>1, <2>3, <2>4
<1>13. CASE Validate(w)
  <2>1. /\ \A x \in Client : x # w => call'[x] = call[x]
        /\ \A v \in Worker : v # w => thread'[v] = thread[v]
        /\ thread'[w].job = thread[w].job /\ thread'[w].lease = thread[w].lease
        /\ thread'[w].revs = thread[w].revs + 1 /\ call'[w].step = "probe"
        /\ UNCHANGED <<mainVars, image, taken>>
    BY <1>1, <1>13 DEF Validate, Begin, Thread
  <2>2. thread[w].job # 0 /\ thread[w].revs < MaxRevs
    BY <1>2, <1>13 DEF Validate, Between, MayValidate
  <2>3. CallLeft(w)' = 11
    BY <2>1 DEF CallLeft, CommandsLeft
  <2>4. JobLeft(w)' < JobLeft(w)
    BY <1>1, <1>2, <2>1, <2>2, <2>3 DEF JobLeft
  <2> QED
    BY <1>7, <2>1, <2>4
<1>14. ASSUME NEW how \in {"result", "raised"}, EndJob(w, how)
       PROVE  /\ MainLeft' = MainLeft /\ JobsLeft' < JobsLeft
              /\ ImageLeft' = ImageLeft /\ taken' = taken
  <2>1. /\ \A x \in Client : x # w => call'[x] = call[x]
        /\ \A v \in Worker : v # w => thread'[v] = thread[v]
        /\ thread'[w].job = 0
        /\ UNCHANGED <<mainVars, image, taken>>
    BY <1>1, <1>14 DEF EndJob, Forget, Waiting
  <2>2. thread[w].job # 0
    BY <1>2, <1>14 DEF EndJob, Between
  <2>3. JobLeft(w)' < JobLeft(w)
    BY <1>1, <1>2, <2>1, <2>2 DEF JobLeft
  <2> QED
    BY <1>7, <2>1, <2>3
<1> QED
  BY <1>10, <1>11, <1>12, <1>13, <1>14 DEF WorkerStep

\* A docker command brings the problem it is for nearer to its end, or the start
\* of the pool.
LEMMA CommandCounts ==
  ASSUME IInv, IInv', NEW x \in Client, CallStep(x), UNCHANGED <<mainVars, workVars>>
  PROVE  /\ ImageLeft' = ImageLeft /\ taken' = taken
         /\ \/ MainLeft' = MainLeft /\ JobsLeft' < JobsLeft
            \/ MainLeft' < MainLeft /\ JobsLeft' = JobsLeft
<1>1. /\ CallMakesSense(x) /\ DockerTypeOK
      /\ x \in Worker => call[x].name # None /\ call[x].name = thread[x].lease
  BY CallStepSense, Constants DEF IInv, TypeOK, CallMakesSense
<1>2. /\ CallLeft(x) \in 1..11 /\ CallLeft(x)' \in 0..10 /\ CallLeft(x)' < CallLeft(x)
      /\ \A y \in Client : y # x => call'[y] = call[y]
      /\ image' = image
  BY <1>1, CommandShortens
<1>3. ImageLeft' = ImageLeft /\ taken' = taken
  BY <1>2 DEF ImageLeft, workVars
<1>4. CASE x = Main
  <2>1. \A w \in Worker : JobLeft(w)' = JobLeft(w)
    BY <1>2, <1>4, Constants DEF JobLeft, CallLeft, workVars
  <2>2. main = "starting" /\ main' = "starting" /\ next' = next
    <3>1. call[Main].step # "idle"
      BY <1>4, CallStepSense
    <3> QED
      BY <3>1 DEF IInv, Calls, mainVars
  <2>3. /\ MainLeft = PoolSize + 5 + NumJobs + 13 * (PoolSize - next) + 1 + CallLeft(Main)
        /\ MainLeft' = PoolSize + 5 + NumJobs + 13 * (PoolSize - next) + 1 + CallLeft(Main)'
    BY <2>2 DEF MainLeft
  <2>4. PoolSize \in Nat /\ NumJobs \in Nat /\ next \in Nat
    BY Constants DEF IInv, TypeOK
  <2>5. MainLeft' < MainLeft
    BY <1>2, <1>4, <2>3, <2>4
  <2> QED
    BY <1>3, <2>1, <2>5, NoJobMoves
<1>5. CASE x \in Worker
  <2>1. \A w \in Worker : w # x => JobLeft(w)' = JobLeft(w)
    BY <1>2, Constants DEF JobLeft, CallLeft, workVars
  <2>2. /\ thread[x].job # 0 /\ thread' = thread
        /\ thread[x].revs \in 0..MaxRevs /\ MaxRevs \in Nat
    BY <1>1, <1>5, Constants DEF IInv, Leases, TypeOK, Thread, workVars
  <2>3. JobLeft(x)' < JobLeft(x)
    BY <1>2, <2>2 DEF JobLeft
  <2>4. JobLeft(x) \in Nat /\ JobLeft(x)' \in Nat /\ JobsLeft \in Nat
    BY <1>5, JobLeftType, JobLeftTypeNext, StepsLeftType
  <2>5. JobsLeft' = JobsLeft + JobLeft(x)' - JobLeft(x)
    BY <1>5, <2>1, OneJobMoves
  <2>6. CallLeft(Main)' = CallLeft(Main)
    BY <1>2, <1>5, Constants DEF CallLeft
  <2>7. MainLeft' = MainLeft
    BY <2>6 DEF MainLeft, mainVars
  <2> QED
    BY <1>3, <2>3, <2>4, <2>5, <2>7
<1> QED
  BY <1>4, <1>5, Constants

\* Neither the problems, nor their revisions, nor the calls and commands can go
\* on for ever: each step of the main thread, of a worker or of a docker command
\* leaves fewer of them, and what the daemon and the abandoned commands do gives
\* none back.  It is what BatchEnds needs besides its fairness and AcquireNeverWaits.
THEOREM BatchIsBounded ==
    /\ Init => StepsLeft <= 14 * PoolSize + NumJobs * PerJob + NumJobs + 6
    /\ Spec => [][/\ StepsLeft' \in Nat
                  /\ \/ StepsLeft' < StepsLeft
                     \/ DockerStep /\ StepsLeft' = StepsLeft]_vars
<1> DEFINE Fewer == /\ StepsLeft' \in Nat
                    /\ \/ StepsLeft' < StepsLeft
                       \/ DockerStep /\ StepsLeft' = StepsLeft
<1>1. ASSUME Init PROVE StepsLeft <= 14 * PoolSize + NumJobs * PerJob + NumJobs + 6
  <2>1. \A w \in Worker : JobLeft(w) = 0
    BY <1>1 DEF Init, JobLeft, Waiting
  <2> DEFINE f == [w \in Worker |-> JobLeft(w)]
  <2>2. DOMAIN f = Worker /\ \A w \in Worker : f[w] = 0
    BY <2>1
  <2>3. JobsLeft = SumFunctionOnSet(f, Worker)
    BY <2>2 DEF JobsLeft, SumFunction
  <2> HIDE DEF f
  <2>4. JobsLeft = 0
    BY <2>2, <2>3, PoolSizeAssumption, SumOfZeros
  <2>5. PoolSize \in Nat /\ NumJobs \in Nat /\ main = "init" /\ next = 1 /\ taken = 0
    BY <1>1, Constants DEF Init
  <2>6. MainLeft = PoolSize + 5 + NumJobs + 13 * (PoolSize + 1 - next)
    BY <2>5 DEF MainLeft
  <2>7. ImageLeft \in {0, 1}
    BY DEF ImageLeft
  <2> DEFINE jobs == NumJobs * PerJob
  <2>8. PerJob \in Nat
    BY Constants DEF PerJob
  <2>9. jobs \in Nat /\ (NumJobs - taken) * PerJob = jobs
    BY <2>5, <2>8
  <2>10. StepsLeft = ImageLeft + MainLeft + jobs + JobsLeft
    BY <2>9 DEF StepsLeft
  <2> HIDE DEF jobs
  <2>11. StepsLeft <= 14 * PoolSize + jobs + NumJobs + 6
    BY <2>4, <2>5, <2>6, <2>7, <2>9, <2>10
  <2> QED
    BY <2>11 DEF jobs
<1>2. ASSUME IInv, IInv', Next, vars' # vars PROVE Fewer
  <2> DEFINE jobs == (NumJobs - taken) * PerJob
  <2>1. /\ MainLeft \in Nat /\ ImageLeft \in {0, 1} /\ JobsLeft \in Nat
        /\ PerJob \in Nat /\ NumJobs - taken \in Nat /\ jobs \in Nat
    BY <1>2, StepsLeftType
  <2>2. StepsLeft = ImageLeft + MainLeft + jobs + JobsLeft
    BY DEF StepsLeft
  <2>3. StepsLeft' = ImageLeft' + MainLeft' + (NumJobs - taken') * PerJob + JobsLeft'
    BY DEF StepsLeft, PerJob
  <2>4. StepsLeft' \in Nat /\ MainLeft' \in Nat /\ JobsLeft' \in Nat
    BY <1>2, NumbersNext
  <2>5. ImageLeft' \in {0, 1}
    BY DEF ImageLeft
  <2>6. taken' = taken => (NumJobs - taken') * PerJob = jobs
    OBVIOUS
  <2>7. taken' = taken + 1 => (NumJobs - taken') * PerJob = jobs - PerJob
    <3>1. NumJobs \in Nat /\ taken \in Nat
      BY <1>2, Constants DEF IInv, TypeOK
    <3>2. \A a, b, c \in Nat : (a - (b + 1)) * c = (a - b) * c - c
      OBVIOUS
    <3> QED
      BY <2>1, <3>1, <3>2
  <2> HIDE DEF jobs
  <2>8. CASE MainStep
    <3>1. /\ MainLeft' < MainLeft /\ JobsLeft' = JobsLeft
          /\ ImageLeft' = ImageLeft /\ taken' = taken
      BY <1>2, <2>8, MainShortens
    <3> QED
      BY <2>1, <2>2, <2>3, <2>4, <2>6, <3>1
  <2>9. ASSUME NEW w \in Worker, WorkerStep(w) PROVE Fewer
    <3>1. /\ MainLeft' = MainLeft
          /\ \/ JobsLeft' < JobsLeft /\ ImageLeft' = ImageLeft /\ taken' = taken
             \/ JobsLeft' = JobsLeft /\ ImageLeft' < ImageLeft /\ taken' = taken
             \/ /\ JobsLeft' < JobsLeft + PerJob /\ ImageLeft' = ImageLeft
                /\ taken' = taken + 1
      BY <1>2, <2>9, WorkerShortens
    <3> QED
      BY <2>1, <2>2, <2>3, <2>4, <2>5, <2>6, <2>7, <3>1
  <2>10. ASSUME NEW x \in Client, CallStep(x), UNCHANGED <<mainVars, workVars>>
         PROVE  Fewer
    <3>1. /\ ImageLeft' = ImageLeft /\ taken' = taken
          /\ \/ MainLeft' = MainLeft /\ JobsLeft' < JobsLeft
             \/ MainLeft' < MainLeft /\ JobsLeft' = JobsLeft
      BY <1>2, <2>10, CommandCounts
    <3> QED
      BY <2>1, <2>2, <2>3, <2>4, <2>6, <3>1
  <2>11. CASE DockerStep /\ UNCHANGED <<mainVars, workVars>>
    <3>1. UNCHANGED <<image, call>>
      BY <2>11 DEF DockerStep, ContainerStops, OrphanWrites, OrphanEnds
    <3>2. /\ MainLeft' = MainLeft /\ ImageLeft' = ImageLeft /\ taken' = taken
          /\ \A w \in Worker : JobLeft(w)' = JobLeft(w)
      BY <2>11, <3>1
      DEF MainLeft, ImageLeft, JobLeft, CallLeft, mainVars, workVars
    <3>3. JobsLeft' = JobsLeft
      BY <1>2, <3>2, NoJobMoves
    <3>4. StepsLeft' = StepsLeft
      BY <2>2, <2>3, <2>6, <3>2, <3>3
    <3> QED
      BY <2>4, <2>11, <3>4
  <2> HIDE DEF Fewer
  <2> QED
    BY <1>2, <2>8, <2>9, <2>10, <2>11 DEF Next
<1>3. IInv /\ IInv' /\ [Next]_vars => [Fewer]_vars
  BY <1>2
<1>4. IInv /\ [Next]_vars => IInv'
  BY TypeStep, LeasesStep, NothingLostStep, CallsStep, FuturesStep, ShutdownStep DEF IInv
<1> QED
  BY <1>1, <1>3, <1>4, Invariance, PTL DEF Spec

-----------------------------------------------------------------------------
(* What the comments of validate promise, while nothing goes wrong.        *)

\* A command leaves its call with its container.
LEMMA CommandKeepsName ==
  ASSUME DockerTypeOK, NEW x \in Client, CallStep(x)
  PROVE  call'[x].name = call[x].name
<1>1. call[x] \in Call /\ call \in [Client -> Call]
  BY DEF DockerTypeOK
<1>a. \A s : GoTo(x, s) => call'[x].name = call[x].name
  <2>1. ASSUME NEW s, GoTo(x, s) PROVE CallIs(x, s, call[x].saw, call[x].verdict)
    BY <2>1, CallFields
  <2> QED
    BY <2>1 DEF CallIs
<1>b. \A v : Finish(x, v) => call'[x].name = call[x].name
  <2>1. ASSUME NEW v, Finish(x, v) PROVE CallIs(x, "idle", call[x].saw, v)
    BY <2>1, CallFields
  <2> QED
    BY <2>1 DEF CallIs
<1>2. Started(x) \/ NotStarted(x) => call'[x].name = call[x].name
  BY <1>a, <1>b DEF Started, NotStarted
<1>3. Succeeds(x) \/ Fails(x) \/ TimesOut(x) => call'[x].name = call[x].name
  BY <1>1 DEF Succeeds, Fails, TimesOut, Call
<1> QED
  BY <1>a, <1>b, <1>2, <1>3
  DEF CallStep, Probe, CheckExists, RestartSucceeds, RestartFails, RemoveOld,
      CreateSucceeds, CreateFails, Clear, MakeDir, Copy, CopyFails, CopyTimesOut

\* Without a mishap a command ends in the state its own answer tells of: a call
\* that goes on to the copy has a container that runs, if the filter of docker ps
\* lists that one only, and nothing lingers that was not there.
LEMMA SmoothCommand ==
  ASSUME DockerTypeOK, NEW x \in Client, CallMakesSense(x), CallStep(x), mishaps' = 0
  PROVE  /\ mishaps = 0
         /\ Alike[call[x].name] = {call[x].name} /\ call'[x].step = "clear"
              => box'[call[x].name].status = "running"
         /\ \/ lingering' = lingering
            \/ lingering' = [lingering EXCEPT ![call[x].name] = box[call[x].name].orphans]
<1> DEFINE c == call[x].name
<1>1. /\ call[x] \in Call /\ call \in [Client -> Call] /\ mishaps \in Nat
      /\ c \in Container /\ box \in [Container -> Box] /\ box[c] \in Box
  BY DockerAssumption DEF DockerTypeOK, CallMakesSense
<1>2. ~ TimesOut(x)
  BY <1>1 DEF TimesOut, Mishap
<1>3. mishaps = 0
  BY <1>2 DEF CallStep, Probe, CheckExists, RestartSucceeds, RestartFails, RemoveOld,
     CreateSucceeds, CreateFails, Clear, MakeDir, Copy, CopyFails, CopyTimesOut,
     Succeeds, Fails
<1>4. \/ lingering' = lingering
      \/ lingering' = [lingering EXCEPT ![c] = box[c].orphans]
  BY <1>2 DEF CallStep, Probe, CheckExists, RestartSucceeds, RestartFails, RemoveOld,
     CreateSucceeds, CreateFails, Clear, MakeDir, Copy, CopyFails, CopyTimesOut,
     Succeeds, Fails
<1>a. \A s : GoTo(x, s) => call'[x].step = s
  <2>1. ASSUME NEW s, GoTo(x, s) PROVE CallIs(x, s, call[x].saw, call[x].verdict)
    BY <2>1, CallFields
  <2> QED
    BY <2>1 DEF CallIs
<1>b. \A v : Finish(x, v) => call'[x].step = "idle"
  <2>1. ASSUME NEW v, Finish(x, v) PROVE CallIs(x, "idle", call[x].saw, v)
    BY <2>1, CallFields
  <2> QED
    BY <2>1 DEF CallIs
<1>c. NotStarted(x) => call'[x].step = "idle"
  BY <1>b DEF NotStarted
<1>5. Succeeds(x) \/ Fails(x) =>
        call'[x].step \in {"idle", AfterSuccess(call[x].step)} /\ call[x].step \in ExecStep
  BY <1>1 DEF Succeeds, Fails, Running, Call
<1>7. ASSUME Alike[c] = {c}, call'[x].step = "clear" PROVE box'[c].status = "running"
  <2>1. CASE Probe(x)
    <3>1. IsContainerRunning(c)
      BY <1>a, <1>7, <2>1 DEF Probe
    <3> QED
      BY <1>7, <2>1, <3>1 DEF Probe, IsContainerRunning
  <2>2. CASE RestartSucceeds(x)
    BY <1>1, <2>2 DEF RestartSucceeds, Box
  <2>3. CASE CreateSucceeds(x)
    BY <1>1, <2>3 DEF CreateSucceeds, Fresh
  <2>4. ~ (Succeeds(x) \/ Fails(x))
    BY <1>5, <1>7 DEF ExecStep, AfterSuccess
  <2> QED
    BY <1>2, <1>7, <1>a, <1>b, <1>c, <2>1, <2>2, <2>3, <2>4
    DEF CallStep, CheckExists, RestartFails, RemoveOld, CreateFails, Clear, MakeDir, Copy,
        CopyFails, CopyTimesOut
<1> QED
  BY <1>3, <1>4, <1>7

\* Nothing takes back a mishap, or that the wait for the workers was cut short.
LEMMA Smooth ==
  ASSUME IInv, [Next]_vars
  PROVE  (mishaps' = 0 => mishaps = 0) /\ (~forced' => ~forced)
<1>1. mishaps \in Nat /\ DockerTypeOK /\ forced \in BOOLEAN
  BY DockerAssumption DEF IInv, TypeOK, DockerTypeOK
<1>2. CASE MainStep
  BY <1>1, <1>2 DEF MainStep, MainProceeds, StartContainer, Enqueue, Submit, Collect, LeaveLoop,
     BeginShutdown, RemoveContainer, Exit, Interrupt, dockerVars
<1>3. ASSUME NEW w \in Worker, WorkerStep(w)
      PROVE  (mishaps' = 0 => mishaps = 0) /\ (~forced' => ~forced)
  BY <1>3 DEF WorkerStep, TakeJob, Acquire, BuildImage, ImageBuilt, Validate, EndJob,
     dockerVars, mainVars
<1>4. ASSUME NEW x \in Client, CallStep(x), UNCHANGED mainVars
      PROVE  (mishaps' = 0 => mishaps = 0) /\ (~forced' => ~forced)
  BY <1>1, <1>4, CallStepSense, SmoothCommand DEF mainVars
<1>5. CASE DockerStep /\ UNCHANGED mainVars
  <2>1. mishaps' = mishaps \/ mishaps' = mishaps + 1
    BY <1>5 DEF DockerStep, ContainerStops, OrphanWrites, OrphanEnds, Mishap
  <2> QED
    BY <1>1, <1>5, <2>1 DEF mainVars
<1>6. CASE UNCHANGED vars
  BY <1>6 DEF vars, dockerVars, mainVars
<1> QED
  BY <1>2, <1>3, <1>4, <1>5, <1>6 DEF Next

\* A worker whose call is to clear the container is the one that has it, at work on
\* a problem, and the pool is filled and not yet shut down.
LEMMA BusyPool ==
  ASSUME IInv, NEW w \in Worker, call[w].step # "idle"
  PROVE  /\ call[w].name \in Container /\ call[w].name = thread[w].lease
         /\ main \notin {"init", "starting"}
         /\ main = "shutdown" => forced
         /\ \A x \in Client : CallStep(x) /\ x # w => call[x].name # call[w].name
<1>1. call[w].name # None /\ call[w].name = thread[w].lease
  BY DEF IInv, Calls
<1>2. call[w].name \in Container /\ submitted # 0
  BY <1>1, Constants DEF IInv, Leases, Filling, Waiting
<1>3. main \notin {"init", "starting"}
  BY <1>2 DEF IInv, Filling
<1>4. main = "shutdown" => forced
  <2>1. ASSUME main = "shutdown", ~forced PROVE FALSE
    <3>1. AllDone
      BY <1>2, <2>1 DEF IInv, Shutdown
    <3>2. thread[w].lease = None
      BY <1>3, <3>1, DoneIsQuiet
    <3> QED
      BY <1>1, <3>2
  <2> QED
    BY <2>1, Constants DEF IInv, TypeOK
<1>5. ASSUME NEW x \in Client, CallStep(x), x # w PROVE call[x].name # call[w].name
  <2>1. x \in Worker
    <3>1. x = Main => main = "starting"
      BY <1>5, CallStepSense DEF IInv, Calls
    <3> QED
      BY <1>3, <3>1, Constants
  <2>2. call[x].name = thread[x].lease
    BY <1>5, <2>1, CallStepSense
  <2> QED
    BY <1>1, <1>5, <2>1, <2>2 DEF IInv, Leases
<1> QED
  BY <1>1, <1>2, <1>3, <1>4, <1>5

\* "Ensure container is running" (validate): when the filter of docker ps lists the
\* container asked for and no other, a validation that begins to copy has a
\* container that runs, as long as none has stopped by itself, no command was
\* abandoned and no interrupt has cut the wait for the workers short.  The run
\* name_filter shows that the first condition is needed.
THEOREM StartedRuns ==
  ASSUME \A c \in Container : Alike[c] = {c}
  PROVE  Spec => [](mishaps = 0 /\ ~forced => StartedIsRunning)
<1> DEFINE Inv == mishaps = 0 /\ ~forced => StartedIsRunning
<1>1. Init => Inv
  BY Constants DEF Init, DockerInit, NoCall, StartedIsRunning
<1>2. ASSUME IInv, Inv, [Next]_vars, mishaps' = 0, ~forced',
             NEW w \in Worker, call'[w].step = "clear"
      PROVE  box'[call'[w].name].status = "running"
  <2>1. mishaps = 0 /\ ~forced
    BY <1>2, Smooth
  <2>2. /\ w \in Client /\ w # Main /\ DockerTypeOK /\ call \in [Client -> Call]
        /\ box \in [Container -> Box]
    BY <1>2, Constants DEF IInv, TypeOK, DockerTypeOK
  <2> DEFINE c == call[w].name
  <2>3. call[w].step = "clear" =>
          /\ box[c].status = "running" /\ c \in Container
          /\ main # "shutdown" /\ \A x \in Client : CallStep(x) /\ x # w => call[x].name # c
    BY <1>2, <2>1, BusyPool DEF StartedIsRunning
  <2>4. ASSUME call'[w] = call[w], UNCHANGED box PROVE box'[call'[w].name].status = "running"
    BY <1>2, <2>3, <2>4
  <2>5. CASE MainStep
    <3>1. Forget(Main) => call'[w] = call[w]
      BY <2>2 DEF Forget
    <3>2. StartContainer => call'[w] = call[w]
      BY <2>2 DEF StartContainer, Begin
    <3>3. call'[w] = call[w]
      BY <2>5, <3>1, <3>2 DEF MainStep, MainProceeds, Enqueue, Submit, Collect, LeaveLoop, BeginShutdown,
         RemoveContainer, Exit, Interrupt, dockerVars
    <3>4. ~ RemoveContainer
      BY <1>2, <2>3, <3>3 DEF RemoveContainer
    <3>5. UNCHANGED box
      BY <2>5, <3>4 DEF MainStep, MainProceeds, StartContainer, Enqueue, Submit, Collect, LeaveLoop,
         BeginShutdown, Exit, Interrupt, dockerVars
    <3> QED
      BY <2>4, <3>3, <3>5
  <2>6. ASSUME NEW v \in Worker, WorkerStep(v)
        PROVE  box'[call'[w].name].status = "running"
    <3>1. UNCHANGED box
      BY <2>6 DEF WorkerStep, TakeJob, Acquire, BuildImage, ImageBuilt, Validate, EndJob,
         dockerVars
    <3>2. call'[w] = call[w] \/ call'[w].step \in {"probe", "idle"}
      BY <2>2, <2>6, Constants DEF WorkerStep, TakeJob, Acquire, BuildImage, ImageBuilt,
         Validate, Begin, EndJob, Forget, NoCall, dockerVars
    <3> QED
      BY <1>2, <2>4, <3>1, <3>2
  <2>7. ASSUME NEW x \in Client, CallStep(x) PROVE box'[call'[w].name].status = "running"
    <3>1. CallMakesSense(x)
      BY <1>2, <2>7, CallStepSense
    <3>2. CASE x = w
      <4>1. c \in Container
        BY <3>1, <3>2 DEF CallMakesSense
      <4> QED
        BY <1>2, <2>2, <2>7, <3>1, <3>2, <4>1, SmoothCommand, CommandKeepsName
    <3>3. CASE x # w
      <4>1. /\ CallBecame(x, call'[x])
            /\ BoxBecame(call[x].name, box'[call[x].name])
        BY <2>2, <2>7, <3>1, CallStepShape
      <4>2. call'[w] = call[w]
        BY <2>2, <3>3, <4>1 DEF CallBecame
      <4>3. box'[c] = box[c]
        BY <1>2, <2>2, <2>3, <2>7, <3>3, <4>1, <4>2 DEF BoxBecame
      <4> QED
        BY <1>2, <2>3, <4>2, <4>3
    <3> QED
      BY <3>2, <3>3
  <2>8. CASE DockerStep
    <3>1. call'[w] = call[w]
      BY <2>8 DEF DockerStep, ContainerStops, OrphanWrites, OrphanEnds
    <3>2. PICK d \in Container, m \in Manifest : OrphanWrites(d, m) \/ OrphanEnds(d, m)
      BY <1>2, <2>1, <2>8 DEF DockerStep, ContainerStops, Mishap
    <3>3. box'[c].status = box[c].status
      BY <1>2, <2>2, <2>3, <3>1, <3>2 DEF OrphanWrites, OrphanEnds, Box
    <3> QED
      BY <1>2, <2>3, <3>1, <3>3
  <2>9. CASE UNCHANGED vars
    BY <2>4, <2>9 DEF vars, dockerVars
  <2> QED
    BY <1>2, <2>5, <2>6, <2>7, <2>8, <2>9 DEF Next
<1>3. IInv /\ Inv /\ [Next]_vars => Inv'
  BY <1>2 DEF StartedIsRunning
<1> QED
  BY <1>1, <1>3, Invariance, PTL DEF Spec

\* "Clear old project files first" (copy_files_to_container): what a validation
\* compiles, runs and tests is its own manifest and no other, as long as no command
\* was abandoned and the batch found none at work.  The run timed_out shows what
\* one abandoned command does.
THEOREM OnlyOwnIfNoneAbandoned ==
  ASSUME \A b \in Leftovers : b.orphans = {}
  PROVE  Spec => [](mishaps = 0 => VerdictsAreOnlyOwn)
<1> DEFINE Still == mishaps = 0 => \A c \in Container : lingering[c] = {}
           Blank == \A w \in Worker : call[w].name = None => call[w].saw = {}
<1>1. Init => Still /\ Blank
  BY Constants DEF Init, DockerInit, NoCall
<1>2. ASSUME IInv, Still, [Next]_vars, mishaps' = 0, NEW c \in Container
      PROVE  lingering'[c] = {}
  <2>1. /\ lingering \in [Container -> SUBSET Manifest] /\ lingering[c] = {}
        /\ DockerTypeOK
    BY <1>2, Smooth DEF IInv, TypeOK, DockerTypeOK
  <2>2. CASE UNCHANGED lingering
    BY <2>1, <2>2
  <2>3. ASSUME NEW x \in Client, CallStep(x) PROVE lingering'[c] = {}
    <3>1. CallMakesSense(x)
      BY <1>2, <2>3, CallStepSense
    <3>2. /\ call[x].name \in Container
          /\ \/ lingering' = lingering
             \/ lingering' = [lingering EXCEPT ![call[x].name] = box[call[x].name].orphans]
      BY <1>2, <2>1, <2>3, <3>1, SmoothCommand DEF CallMakesSense
    <3>3. box[call[x].name].orphans \subseteq lingering[call[x].name]
      BY <1>2, <3>2 DEF IInv, Isolation
    <3> QED
      BY <2>1, <3>2, <3>3, <1>2, Smooth
  <2>4. \/ \E x \in Client : CallStep(x)
        \/ UNCHANGED lingering
    BY <1>2 DEF Next, MainStep, MainProceeds, StartContainer, Enqueue, Submit, Collect, LeaveLoop,
       BeginShutdown, RemoveContainer, Exit, Interrupt, WorkerStep, TakeJob, Acquire,
       BuildImage, ImageBuilt, Validate, EndJob, DockerStep, ContainerStops, OrphanWrites,
       OrphanEnds, dockerVars, vars
  <2> QED
    BY <2>2, <2>3, <2>4
<1>3. ASSUME IInv, Blank, [Next]_vars, NEW w \in Worker, call'[w].name = None
      PROVE  call'[w].saw = {}
  <2>1. /\ w \in Client /\ w # Main /\ Main \in Client /\ call \in [Client -> Call]
        /\ DockerTypeOK
    BY <1>3, Constants DEF IInv, TypeOK, DockerTypeOK
  <2>2. CASE call'[w] = call[w]
    BY <1>3, <2>2
  <2>3. ASSUME NEW x \in Client, CallStep(x) PROVE call'[w].saw = {}
    <3>1. CallMakesSense(x)
      BY <1>3, <2>3, CallStepSense
    <3>2. CallBecame(x, call'[x])
      BY <2>1, <2>3, <3>1, CallStepShape
    <3>3. CASE x # w
      <4>1. call'[w] = call[w]
        BY <2>1, <3>2, <3>3 DEF CallBecame
      <4> QED
        BY <2>2, <4>1
    <3>4. call'[x].name = call[x].name
      BY <2>1, <2>3, <3>1, CommandKeepsName
    <3> QED
      BY <1>3, <3>1, <3>3, <3>4, Constants DEF CallMakesSense
  <2>4. ASSUME NEW v \in Worker, WorkerStep(v) PROVE call'[w].saw = {}
    <3>1. CASE v # w
      <4>1. call'[w] = call[w]
        BY <2>1, <2>4, <3>1, Constants DEF WorkerStep, TakeJob, Acquire, BuildImage,
           ImageBuilt, Validate, Begin, EndJob, Forget, dockerVars
      <4> QED
        BY <2>2, <4>1
    <3>2. CASE v = w
      <4>1. call'[w] = call[w] \/ call'[w].saw = {}
        BY <2>1, <2>4, <3>2 DEF WorkerStep, TakeJob, Acquire, BuildImage, ImageBuilt,
           Validate, Begin, EndJob, Forget, NoCall, dockerVars
      <4> QED
        BY <2>2, <4>1
    <3> QED
      BY <3>1, <3>2
  <2>5. CASE MainStep
    <3>1. call'[w] = call[w]
      BY <2>1, <2>5 DEF MainStep, MainProceeds, StartContainer, Begin, Enqueue, Submit, Collect, LeaveLoop,
         BeginShutdown, RemoveContainer, Exit, Interrupt, Forget, dockerVars
    <3> QED
      BY <2>2, <3>1
  <2>6. CASE DockerStep \/ UNCHANGED vars
    <3>1. call' = call
      BY <2>6 DEF DockerStep, ContainerStops, OrphanWrites, OrphanEnds, vars, dockerVars
    <3> QED
      BY <2>2, <3>1
  <2> QED
    BY <1>3, <2>3, <2>4, <2>5, <2>6 DEF Next
<1>4. IInv /\ Still /\ Blank => (mishaps = 0 => VerdictsAreOnlyOwn)
  <2> SUFFICES ASSUME IInv, Still, Blank, mishaps = 0, NEW w \in Worker
               PROVE  call[w].saw \subseteq {call[w].manifest}
    BY DEF VerdictsAreOnlyOwn
  <2>1. CASE call[w].name = None
    BY <2>1
  <2>2. CASE call[w].name # None
    <3>1. call[w].name \in Container
      BY <2>2, Constants DEF IInv, Calls, Leases
    <3>2. lingering[call[w].name] = {}
      BY <3>1
    <3>3. call[w].saw \subseteq {call[w].manifest} \cup lingering[call[w].name]
      BY <2>2 DEF IInv, Isolation, Isolated
    <3> QED
      BY <3>2, <3>3
  <2> QED
    BY <2>1, <2>2
<1>5. IInv /\ Still /\ Blank /\ [Next]_vars => Still' /\ Blank'
  BY <1>2, <1>3
<1> QED
  BY <1>1, <1>4, <1>5, Invariance, PTL DEF Spec

-----------------------------------------------------------------------------
(* A batch is never stuck.                                                 *)

\* Over: what BatchEnds waits for.  The others: the guards of the main thread's
\* actions but Interrupt, of a worker's, and of the commands of a call.
Over == main = "exited" /\ (submitted = 0 \/ AllDone)

MainIsDue ==
    \/ main \in {"init", "shutdown"}
    \/ main = "starting" /\ Idle(Main)
    \/ main = "collect" /\ \/ \E j \in Job : outcome[j] = "result" /\ j \notin collected
                           \/ collected = Job
                           \/ \E j \in Job : outcome[j] = "raised"
    \/ main = "join" /\ AllDone

WorkerIsDue(w) ==
    \/ thread[w].job = 0 /\ taken < submitted
    \/ thread[w].job # 0 /\ thread[w].lease = None /\ free # <<>>
    \/ Between(w)

SomeoneIsDue ==
    \/ MainIsDue
    \/ \E w \in Worker : WorkerIsDue(w)
    \/ \E x \in Client : ~ Idle(x)

\* A problem that is taken and not done is with a worker, and nobody waits for
\* problems that were not submitted.
Held ==
    /\ main \in {"collect", "join"} => submitted = NumJobs
    /\ \A j \in Job : j <= taken /\ outcome[j] = "pending" => \E w \in Worker : thread[w].job = j

\* A step keeps hold of the problems that are taken.
LEMMA HeldStep ==
  ASSUME IInv, Held, [Next]_vars
  PROVE  Held'
<1>t. /\ taken \in Nat /\ taken <= NumJobs /\ NumJobs \in Nat /\ submitted \in {0, NumJobs}
      /\ thread \in [Worker -> Thread]
      /\ outcome \in [Job -> {"pending", "result", "raised"}]
      /\ main \in {"init", "starting", "collect", "join", "shutdown", "exited"}
  BY Constants DEF IInv, TypeOK
<1>j. /\ \A w \in Worker : thread[w].job # 0 => thread[w].job \in Job /\ thread[w].job <= taken
      /\ \A v, w \in Worker : thread[v].job # 0 /\ thread[v].job = thread[w].job => v = w
  BY <1>t DEF IInv, Futures, Thread, Job
<1>i. /\ \A j \in Job : j <= taken /\ outcome[j] = "pending" => \E w \in Worker : thread[w].job = j
      /\ main \in {"collect", "join"} => submitted = NumJobs
  BY DEF Held
<1>u. ASSUME UNCHANGED <<taken, outcome>>, submitted' \in {submitted, NumJobs},
             \A w \in Worker : thread'[w].job = thread[w].job,
             main' \in {"collect", "join"} => main \in {"collect", "join"} \/ submitted' = NumJobs
      PROVE  Held'
  BY <1>u, <1>i DEF Held
<1>1. CASE MainStep
  <2>1. main' \in {"collect", "join"} => main \in {"collect", "join"} \/ submitted' = NumJobs
    BY <1>1, <1>t DEF MainStep, MainProceeds, StartContainer, Enqueue, Submit, Collect, LeaveLoop,
       BeginShutdown, RemoveContainer, Exit, Interrupt
  <2>2. UNCHANGED <<taken, outcome, thread>> /\ submitted' \in {submitted, NumJobs}
    BY <1>1 DEF MainStep, MainProceeds, StartContainer, Enqueue, Submit, Collect, LeaveLoop, BeginShutdown,
       RemoveContainer, Exit, Interrupt, workVars
  <2> QED
    BY <2>1, <2>2, <1>u
<1>2. ASSUME NEW w \in Worker, WorkerStep(w) PROVE Held'
  <2>1. UNCHANGED <<main, submitted>>
    BY <1>2 DEF WorkerStep, TakeJob, Acquire, BuildImage, Validate, EndJob, mainVars
  <2>2. CASE TakeJob(w)
    <3>1. /\ taken' = taken + 1 /\ outcome' = outcome /\ thread[w].job = 0
          /\ thread' = [thread EXCEPT ![w].job = taken + 1]
      BY <2>2 DEF TakeJob
    <3>2. /\ thread'[w].job = taken + 1
          /\ \A v \in Worker \ {w} : thread'[v] = thread[v]
      BY <3>1, <1>t DEF Thread
    <3>3. ASSUME NEW j \in Job, j <= taken', outcome'[j] = "pending"
          PROVE  \E v \in Worker : thread'[v].job = j
      <4>1. CASE j = taken + 1
        BY <4>1, <3>2
      <4>2. CASE j # taken + 1
        <5>1. j <= taken /\ j # 0
          BY <4>2, <3>1, <3>3, <1>t DEF Job
        <5>2. PICK v \in Worker : thread[v].job = j
          BY <5>1, <3>1, <3>3, <1>i
        <5> QED
          BY <5>1, <5>2, <3>1, <3>2
      <4> QED
        BY <4>1, <4>2
    <3> QED
      BY <3>3, <2>1, <1>i DEF Held
  <2>3. CASE Acquire(w)
    <3>1. \A v \in Worker : thread'[v].job = thread[v].job
      BY <2>3, <1>t DEF Acquire, Thread
    <3> QED
      BY <3>1, <2>1, <2>3, <1>u DEF Acquire
  <2>4. CASE BuildImage(w)
    BY <2>1, <2>4, <1>u DEF BuildImage, workVars
  <2>5. CASE Validate(w)
    <3>1. \A v \in Worker : thread'[v].job = thread[v].job
      BY <2>5, <1>t DEF Validate, Thread
    <3> QED
      BY <3>1, <2>1, <2>5, <1>u DEF Validate
  <2>6. ASSUME NEW how \in {"result", "raised"}, EndJob(w, how) PROVE Held'
    <3> DEFINE k == thread[w].job
    <3>1. /\ taken' = taken /\ outcome' = [outcome EXCEPT ![k] = how]
          /\ thread' = [thread EXCEPT ![w] = Waiting] /\ thread[w].lease # None
      BY <2>6 DEF EndJob, Between
    <3>2. k # 0 /\ k \in Job
      BY <3>1, <1>j DEF IInv, Leases
    <3>3. \A v \in Worker \ {w} : thread'[v] = thread[v]
      BY <3>1, <1>t
    <3>4. outcome'[k] = how /\ \A j \in Job \ {k} : outcome'[j] = outcome[j]
      BY <3>1, <3>2, <1>t
    <3>5. ASSUME NEW j \in Job, j <= taken', outcome'[j] = "pending"
          PROVE  \E v \in Worker : thread'[v].job = j
      <4>1. j # k /\ outcome[j] = "pending" /\ j <= taken
        BY <3>1, <3>4, <3>5
      <4>2. PICK v \in Worker : thread[v].job = j
        BY <4>1, <1>i
      <4> QED
        BY <4>1, <4>2, <3>3
    <3> QED
      BY <3>5, <2>1, <1>i DEF Held
  <2> QED
    BY <1>2, <2>2, <2>3, <2>4, <2>5, <2>6 DEF WorkerStep
<1>3. CASE UNCHANGED <<mainVars, workVars>>
  BY <1>3, <1>u DEF mainVars, workVars
<1>4. CASE UNCHANGED vars
  BY <1>4, <1>3 DEF vars
<1> QED
  BY <1>1, <1>2, <1>3, <1>4 DEF Next

\* A problem that is not done has a worker that can go on, or a command.
LEMMA WorkGoesOn ==
  ASSUME IInv, Held, PoolSize # 0, submitted # 0, ~ AllDone
  PROVE  \E w \in Worker : WorkerIsDue(w) \/ ~ Idle(w)
<1>t. /\ taken \in 0..submitted /\ submitted = NumJobs /\ NumJobs \in Nat
      /\ \A w \in Worker : thread[w].job \in 0..NumJobs
  BY Constants DEF IInv, TypeOK, Thread
<1>1. PICK j \in Job : outcome[j] = "pending"
  BY DEF AllDone
<1>2. Worker # {}
  BY PoolSizeAssumption, FS_EmptySet
<1>3. ASSUME NEW w \in Worker, thread[w].job # 0 PROVE WorkerIsDue(w) \/ ~ Idle(w)
  <2>1. CASE thread[w].lease = None
    BY <1>3, <2>1, NobodyWaits DEF AcquireNeverWaits, WorkerIsDue
  <2>2. CASE thread[w].lease # None
    BY <2>2 DEF WorkerIsDue, Between
  <2> QED
    BY <2>1, <2>2
<1>4. CASE j <= taken
  <2>1. PICK w \in Worker : thread[w].job = j
    BY <1>1, <1>4 DEF Held
  <2>2. thread[w].job # 0
    BY <2>1 DEF Job
  <2> QED
    BY <2>2, <1>3
<1>5. CASE ~ (j <= taken)
  <2>1. taken < submitted
    BY <1>5, <1>t DEF Job
  <2>2. PICK w \in Worker : TRUE
    BY <1>2
  <2>3. thread[w].job = 0 => WorkerIsDue(w)
    BY <2>1 DEF WorkerIsDue
  <2> QED
    BY <2>2, <2>3, <1>3
<1> QED
  BY <1>4, <1>5

\* A batch that is not over has somebody who can go on: the main thread, a worker or
\* a docker command.  With BatchIsBounded it is what BatchEnds needs besides its
\* fairness.  There is a worker: the executor refuses to be made without one.
THEOREM BatchIsNeverStuck ==
  ASSUME PoolSize # 0
  PROVE  Spec => [](Over \/ SomeoneIsDue)
<1>1. Init => Held
  BY Constants DEF Init, Held, Job
<1>2. IInv /\ Held /\ [Next]_vars => Held'
  BY HeldStep
<1>3. ASSUME IInv, Held, ~ Over PROVE SomeoneIsDue
  <2>1. /\ main \in {"init", "starting", "collect", "join", "shutdown", "exited"}
        /\ outcome \in [Job -> {"pending", "result", "raised"}] /\ collected \subseteq Job
        /\ submitted \in {0, NumJobs} /\ NumJobs \in Nat /\ Main \in Client
        /\ Worker \subseteq Client
    BY <1>3, Constants DEF IInv, TypeOK
  <2>2. submitted # 0 /\ ~ AllDone => SomeoneIsDue
    BY <1>3, <2>1, WorkGoesOn DEF SomeoneIsDue
  <2>3. CASE main \in {"init", "starting", "shutdown"}
    BY <2>1, <2>3 DEF SomeoneIsDue, MainIsDue
  <2>4. CASE main = "exited"
    BY <1>3, <2>2, <2>4 DEF Over
  <2>5. CASE main \in {"collect", "join"}
    <3>1. submitted = 0 => AllDone
      BY <1>3, <2>5, <2>1 DEF Held, AllDone, Job
    <3>2. CASE ~ AllDone
      BY <2>2, <3>1, <3>2
    <3>3. CASE AllDone
      <4>1. \A j \in Job : outcome[j] \in {"result", "raised"}
        BY <3>3, <2>1 DEF AllDone
      <4>2. collected = Job \/ \E j \in Job : j \notin collected
        BY <2>1
      <4>3. MainIsDue
        BY <4>1, <4>2, <3>3, <2>5 DEF MainIsDue
      <4> QED
        BY <4>3 DEF SomeoneIsDue
    <3> QED
      BY <3>2, <3>3
  <2> QED
    BY <2>1, <2>3, <2>4, <2>5
<1>4. Spec => []Held
  BY <1>1, <1>2, Invariance, PTL DEF Spec
<1> QED
  BY <1>3, <1>4, Invariance, PTL

=============================================================================

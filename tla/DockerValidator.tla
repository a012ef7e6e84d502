--------------------------- MODULE DockerValidator ---------------------------
(***************************************************************************)
(* DockerValidator (validation/docker_validator.py) and the containers it  *)
(* drives.  A client is a thread inside one call of the validator: either  *)
(* start_persistent_container alone, or validate, which starts with it.    *)
(* Each step is one docker command.                                        *)
(*                                                                         *)
(* A container is the daemon's: whether it exists and runs, whether it has *)
(* a /project directory, and whose files and build output are in there     *)
(* (tree, a set of manifests).  A command that outlives its docker exec    *)
(* client (subprocess.run kills the client on a time-out, not the process  *)
(* in the container) goes on as an orphan and may still write.             *)
(***************************************************************************)
EXTENDS Integers, FiniteSets

CONSTANTS
    Client,     \* the threads that call a validator
    Container,  \* container names
    Alike,      \* Alike[c]: the names the filter name=c lists
    Manifest,   \* the manifests that are validated, and older ones
    None,
    Leftovers,  \* the containers an earlier run may have left, by state
    MaxMishaps  \* bound: containers that stop by themselves and commands abandoned

Status == {"absent", "stopped", "running"}

Box == [status : Status, dir : BOOLEAN, tree : SUBSET Manifest, orphans : SUBSET Manifest]

Gone == [status |-> "absent", dir |-> FALSE, tree |-> {}, orphans |-> {}]

\* WORKDIR of docker/Dockerfile: a new container has an empty /project.
Fresh == [status |-> "running", dir |-> TRUE, tree |-> {}, orphans |-> {}]

ASSUME DockerAssumption ==
    /\ Alike \in [Container -> SUBSET Container]
    /\ \A c \in Container : c \in Alike[c]
    /\ None \notin Container \cup Manifest
    /\ Gone \in Leftovers /\ Leftovers \subseteq Box
    /\ MaxMishaps \in Nat

ExecStep == {"compile", "execute", "test"}
Step == {"idle", "probe", "exists", "restart", "remove", "create",
         "clear", "mkdir", "copy"} \cup ExecStep

\* What a call came to: an error_phase, an exception, or the answer of
\* start_persistent_container.
ErrorPhase == {"compilation", "runtime", "test"}
Verdict == ErrorPhase \cup {"none", "raised", "started", "not_started", "pending"}

Call == [step : Step, name : Container \cup {None}, manifest : Manifest \cup {None},
         saw : SUBSET Manifest, verdict : Verdict]

NoCall == [step |-> "idle", name |-> None, manifest |-> None, saw |-> {}, verdict |-> "pending"]

VARIABLES
    image,      \* the image timefold-validator exists
    box,        \* the daemon's containers
    call,       \* the call each client is in, or its last one
    lingering,  \* per container, whose orphans were alive since the last clearing
    mishaps     \* commands abandoned and containers that stopped by themselves

dockerVars == <<image, box, call, lingering, mishaps>>

DockerTypeOK ==
    /\ image \in BOOLEAN
    /\ box \in [Container -> Box]
    /\ call \in [Client -> Call]
    /\ lingering \in [Container -> SUBSET Manifest]
    /\ mishaps \in 0..MaxMishaps

DockerInit ==
    /\ image \in BOOLEAN
    /\ box \in [Container -> Leftovers]
    /\ call = [x \in Client |-> NoCall]
    /\ lingering = [c \in Container |-> box[c].orphans]
    /\ mishaps = 0

Idle(x) == call[x].step = "idle"

Mishap == mishaps < MaxMishaps /\ mishaps' = mishaps + 1

\* A call of start_persistent_container when m is None, of validate(m) else.
Begin(x, c, m) ==
    /\ Idle(x)
    /\ call' = [call EXCEPT ![x] = [step |-> "probe", name |-> c, manifest |-> m,
                                    saw |-> {}, verdict |-> "pending"]]

GoTo(x, step) == call' = [call EXCEPT ![x].step = step]

Finish(x, verdict) ==
    call' = [call EXCEPT ![x].step = "idle", ![x].verdict = verdict]

-----------------------------------------------------------------------------
(* start_persistent_container                                              *)

Started(x) == IF call[x].manifest = None THEN Finish(x, "started") ELSE GoTo(x, "clear")

NotStarted(x) ==
    Finish(x, IF call[x].manifest = None THEN "not_started" ELSE "compilation")

\* is_container_running: docker ps -q -f name=..., any line of output will do.
IsContainerRunning(c) == \E d \in Alike[c] : box[d].status = "running"

Probe(x) ==
    /\ call[x].step = "probe"
    /\ IF IsContainerRunning(call[x].name) THEN Started(x) ELSE GoTo(x, "exists")
    /\ UNCHANGED <<image, box, lingering, mishaps>>

\* docker ps -aq -f name=...
CheckExists(x) ==
    /\ call[x].step = "exists"
    /\ GoTo(x, IF \E d \in Alike[call[x].name] : box[d].status # "absent"
               THEN "restart" ELSE "create")
    /\ UNCHANGED <<image, box, lingering, mishaps>>

RestartSucceeds(x) ==
    LET c == call[x].name IN
    /\ call[x].step = "restart"
    /\ box[c].status # "absent"
    /\ box' = [box EXCEPT ![c].status = "running"]
    /\ Started(x)
    /\ UNCHANGED <<image, lingering, mishaps>>

RestartFails(x) ==
    /\ call[x].step = "restart"
    /\ GoTo(x, "remove")
    /\ UNCHANGED <<image, box, lingering, mishaps>>

\* docker rm -f, its result unused.
RemoveOld(x) ==
    /\ call[x].step = "remove"
    /\ box' = [box EXCEPT ![call[x].name] = Gone]
    /\ GoTo(x, "create")
    /\ UNCHANGED <<image, lingering, mishaps>>

CreateSucceeds(x) ==
    LET c == call[x].name IN
    /\ call[x].step = "create"
    /\ image
    /\ box[c].status = "absent"
    /\ box' = [box EXCEPT ![c] = Fresh]
    /\ Started(x)
    /\ UNCHANGED <<image, lingering, mishaps>>

CreateFails(x) ==
    /\ call[x].step = "create"
    /\ NotStarted(x)
    /\ UNCHANGED <<image, box, lingering, mishaps>>

-----------------------------------------------------------------------------
(* copy_files_to_container                                                 *)

\* Mutated: the old project files are left where they are.
Emptied_Kept(b) == [b EXCEPT !.dir = FALSE]

Emptied(b) == [b EXCEPT !.dir = FALSE, !.tree = {}]

\* docker exec rm -rf /project
Clear(x) ==
    LET c == call[x].name IN
    /\ call[x].step = "clear"
    /\ box[c].status = "running"
    /\ box' = [box EXCEPT ![c] = Emptied(box[c])]
    /\ lingering' = [lingering EXCEPT ![c] = box[c].orphans]
    /\ GoTo(x, "mkdir")
    /\ UNCHANGED <<image, mishaps>>

\* docker exec mkdir -p /project
MakeDir(x) ==
    LET c == call[x].name IN
    /\ call[x].step = "mkdir"
    /\ box[c].status = "running"
    /\ box' = [box EXCEPT ![c].dir = TRUE]
    /\ GoTo(x, "copy")
    /\ UNCHANGED <<image, lingering, mishaps>>

\* docker cp works on a stopped container too.
Copy(x) ==
    LET c == call[x].name IN
    /\ call[x].step = "copy"
    /\ box[c].dir
    /\ box' = [box EXCEPT ![c].tree = @ \cup {call[x].manifest}]
    /\ GoTo(x, "compile")
    /\ UNCHANGED <<image, lingering, mishaps>>

\* Any of the three fails (the container stopped, an orphan wrote behind rm's
\* back, ...), part of its work done or not: a failed compilation, the code says.
CopyFails(x) ==
    LET c == call[x].name IN
    /\ call[x].step \in {"clear", "mkdir", "copy"}
    /\ box' \in {box, [box EXCEPT ![c].tree = IF box[c].dir /\ call[x].step = "copy"
                                              THEN @ \cup {call[x].manifest} ELSE @]}
    /\ Finish(x, "compilation")
    /\ UNCHANGED <<image, lingering, mishaps>>

\* The docker cp of one minute: TimeoutExpired is nobody's to catch here.
CopyTimesOut(x) ==
    LET c == call[x].name IN
    /\ call[x].step = "copy"
    /\ box[c].dir
    /\ box' \in {box, [box EXCEPT ![c].tree = @ \cup {call[x].manifest}]}
    /\ Finish(x, "raised")
    /\ UNCHANGED <<image, lingering, mishaps>>

-----------------------------------------------------------------------------
(* exec_in_container, for each of the three phases of validate             *)

PhaseOf(step) == CASE step = "compile" -> "compilation"
                   [] step = "execute" -> "runtime"
                   [] step = "test"    -> "test"

AfterSuccess(step) == CASE step = "compile" -> "execute"
                        [] step = "execute" -> "test"
                        [] step = "test"    -> "idle"

\* The command runs on what is in /project.
Running(x) ==
    LET b == box[call[x].name]
    IN  call[x].step \in ExecStep /\ b.status = "running" /\ b.dir

Seen(x) == call[x].saw \cup box[call[x].name].tree

Succeeds(x) ==
    /\ Running(x)
    /\ call' = [call EXCEPT ![x].step = AfterSuccess(@),
                            ![x].saw = Seen(x),
                            ![x].verdict = IF call[x].step = "test" THEN "none" ELSE @]
    /\ UNCHANGED <<image, box, lingering, mishaps>>

\* A non-zero exit code: the project's, or docker's when nothing can run.
Fails(x) ==
    /\ call[x].step \in ExecStep
    /\ call' = [call EXCEPT ![x].step = "idle",
                            ![x].saw = IF Running(x) THEN Seen(x) ELSE @,
                            ![x].verdict = PhaseOf(call[x].step)]
    /\ UNCHANGED <<image, box, lingering, mishaps>>

\* The docker exec client is killed at the time limit (a Ctrl-C in the terminal
\* does as much), the command is not.
TimesOut(x) ==
    LET c == call[x].name IN
    /\ Running(x)
    /\ Mishap
    /\ box' = [box EXCEPT ![c].orphans = @ \cup {call[x].manifest}]
    /\ lingering' = [lingering EXCEPT ![c] = @ \cup {call[x].manifest}]
    /\ call' = [call EXCEPT ![x].step = "idle", ![x].saw = Seen(x),
                            ![x].verdict = PhaseOf(call[x].step)]
    /\ UNCHANGED image

-----------------------------------------------------------------------------
(* The daemon and what runs in the containers.                             *)

\* Out of memory, a daemon restart, a docker stop from elsewhere.
ContainerStops(c) ==
    /\ box[c].status = "running"
    /\ Mishap
    /\ box' = [box EXCEPT ![c].status = "stopped", ![c].orphans = {}]
    /\ UNCHANGED <<image, call, lingering>>

\* Maven writes through absolute paths: a cleared /project comes back.
OrphanWrites(c, m) ==
    /\ m \in box[c].orphans
    /\ box' = [box EXCEPT ![c].tree = @ \cup {m}, ![c].dir = TRUE]
    /\ UNCHANGED <<image, call, lingering, mishaps>>

OrphanEnds(c, m) ==
    /\ m \in box[c].orphans
    /\ box' = [box EXCEPT ![c].orphans = @ \ {m}]
    /\ UNCHANGED <<image, call, lingering, mishaps>>

\* build_image_if_needed, by the controller of any client.
ImageBuilt ==
    /\ image' = TRUE
    /\ UNCHANGED <<box, call, lingering, mishaps>>

CallStep(x) ==
    \/ Probe(x) \/ CheckExists(x)
    \/ RestartSucceeds(x) \/ RestartFails(x) \/ RemoveOld(x)
    \/ CreateSucceeds(x) \/ CreateFails(x)
    \/ Clear(x) \/ MakeDir(x) \/ Copy(x) \/ CopyFails(x) \/ CopyTimesOut(x)
    \/ Succeeds(x) \/ Fails(x) \/ TimesOut(x)

DockerStep ==
    \/ \E c \in Container : ContainerStops(c)
    \/ \E c \in Container, m \in Manifest : OrphanWrites(c, m) \/ OrphanEnds(c, m)

=============================================================================

------------------------------ MODULE Installer ------------------------------
(***************************************************************************)
(* ensure_pi_worker (agents/pi_install.py) in several processes at once,   *)
(* over one cache directory.  A process that finds no usable installation  *)
(* makes one in a directory of its own, which takes npm minutes, and       *)
(* publishes it under the name all of them look at.  A process may be      *)
(* killed at any point.                                                    *)
(*                                                                         *)
(* A directory is the set of the parts it has; the key of the cache is the *)
(* hash of the assets, so all processes here want the same content.        *)
(***************************************************************************)
CONSTANTS
    Process,  \* the processes that need a worker
    Found,    \* what may lie under the target's name when they start
    None      \* no such directory

\* "assets" are the package's own files, "package" the package.json that
\* _installed looks at, "modules" the rest of node_modules, "ready" is .ready.
Part == {"assets", "package", "modules", "ready"}

Has(d, part) == d # None /\ part \in d

\* The test for an installation that can be used.
Usable(d) == Has(d, "package") /\ Has(d, "ready")

\* What was there before may be damaged, but not so that the test misses it.
ASSUME InstallerAssumption ==
    /\ \A d \in SUBSET Part : d # None
    /\ Found \subseteq (SUBSET Part) \cup {None}
    /\ \A d \in Found : Usable(d) => d = Part

VARIABLES
    pc,       \* where each process is, or how its call has ended
    staging,  \* the directory each process is making, its candidate
    target,   \* the directory that all of them look at
    found     \* history: what was there at the start

vars == <<pc, staging, target, found>>

Ended == {"returned", "own", "failed", "refused", "dead"}

Init ==
    /\ pc = [p \in Process |-> "start"]
    /\ staging = [p \in Process |-> None]
    /\ target \in Found /\ found = target

Goes(p, from, to) == pc[p] = from /\ pc' = [pc EXCEPT ![p] = to]

\* node is missing or too old, or the package has its own node_modules, or the
\* cache has to be asked.
Begin(p) ==
    /\ \E to \in {"failed", "own", "check"} : Goes(p, "start", to)
    /\ UNCHANGED <<staging, target, found>>

\* _installed(target), and then .ready: two looks at one directory.
Check(p) ==
    /\ \/ Has(target, "package") /\ Goes(p, "check", "check_ready")
       \/ ~Has(target, "package") /\ Goes(p, "check", "make")
    /\ UNCHANGED <<staging, target, found>>

CheckReady(p) ==
    /\ \/ Has(target, "ready") /\ Goes(p, "check_ready", "returned")
       \/ ~Has(target, "ready") /\ Goes(p, "check_ready", "make")
    /\ UNCHANGED <<staging, target, found>>

\* A temporary directory next to the target, and the assets in it.
Make(p) ==
    /\ Goes(p, "make", "npm")
    /\ staging' = [staging EXCEPT ![p] = {"assets"}]
    /\ UNCHANGED <<target, found>>

\* npm ci, which writes node_modules in its own order ...
Install(p, part) ==
    /\ pc[p] = "npm" /\ part \in {"package", "modules"} \ staging[p]
    /\ staging' = [staging EXCEPT ![p] = @ \cup {part}]
    /\ UNCHANGED <<pc, target, found>>

\* ... and when it is done .ready is written.
MarkReady(p) ==
    /\ Goes(p, "npm", "publish") /\ {"package", "modules"} \subseteq staging[p]
    /\ staging' = [staging EXCEPT ![p] = @ \cup {"ready"}]
    /\ UNCHANGED <<target, found>>

\* npm is missing, fails or takes too long, or a file cannot be written: the
\* temporary directory is removed.
Fail(p) ==
    /\ pc[p] \in {"make", "npm"}
    /\ pc' = [pc EXCEPT ![p] = "failed"]
    /\ staging' = [staging EXCEPT ![p] = None]
    /\ UNCHANGED <<target, found>>

\* Mutated: the candidate is copied to the target, file by file.
Publish_Copies(p) ==
    \/ /\ pc[p] = "publish" /\ target # Part
       /\ \E part \in Part : target' = {part} \cup (IF target = None THEN {} ELSE target)
       /\ UNCHANGED <<pc, staging, found>>
    \/ /\ target = Part /\ Goes(p, "publish", "returned")
       /\ staging' = [staging EXCEPT ![p] = None]
       /\ UNCHANGED <<target, found>>

\* candidate.rename(target): the whole directory at once, and only onto no
\* directory or an empty one.
Publish(p) ==
    \/ /\ target \in {None, {}} /\ Goes(p, "publish", "returned")
       /\ target' = staging[p]
       /\ staging' = [staging EXCEPT ![p] = None]
       /\ UNCHANGED found
    \/ /\ target \notin {None, {}} /\ Goes(p, "publish", "lost")
       /\ UNCHANGED <<staging, target, found>>

\* Mutated: whoever loses raises.
Outcome_Raise(d) == "refused"

Outcome(d) == IF Usable(d) THEN "returned" ELSE "refused"

\* except OSError: another process was first, or something else is in the way.
Lose(p) ==
    /\ Goes(p, "lost", Outcome(target))
    /\ staging' = [staging EXCEPT ![p] = None]
    /\ UNCHANGED <<target, found>>

\* The process is killed; its temporary directory stays.
Crash(p) ==
    /\ pc[p] \notin Ended
    /\ pc' = [pc EXCEPT ![p] = "dead"]
    /\ UNCHANGED <<staging, target, found>>

Next ==
    \E p \in Process :
        \/ Begin(p) \/ Check(p) \/ CheckReady(p) \/ Make(p) \/ MarkReady(p)
        \/ \E part \in Part : Install(p, part)
        \/ Fail(p) \/ Publish(p) \/ Lose(p) \/ Crash(p)

Spec == Init /\ [][Next]_vars

-----------------------------------------------------------------------------
\* Types of all variables, and what is in a candidate at each step.
TypeOK ==
    /\ pc \in [Process -> Ended \cup {"start", "check", "check_ready", "make", "npm",
                                      "publish", "lost"}]
    /\ staging \in [Process -> (SUBSET Part) \cup {None}]
    /\ target \in (SUBSET Part) \cup {None} /\ found \in Found

\* A process that was given the cache directory has a complete installation
\* there, now and from then on: whoever published it, whoever was killed before
\* or after, and whatever the others are still doing (ensure_pi_worker).
ReturnedIsComplete == \A p \in Process : pc[p] = "returned" => target = Part

\* Losing the race is no failure: a process whose own installation succeeded is
\* refused only when something unusable has been under that name from the start
\* ("Another process may have atomically published the identical cache").
LosersAreServed ==
    \A p \in Process : pc[p] = "refused" => target = found /\ ~Usable(found)

\* The target is published once at most, and then left alone.
PublishedOnce ==
    [][target' # target => target \in {None, {}} /\ target' = Part]_vars
=============================================================================

--------------------------- MODULE WorkerContract ---------------------------
(***************************************************************************)
(* What PiWorker (agents/pi_process.py) is to its one caller, without its  *)
(* process, pipes and threads: a call brings at most one usage event and   *)
(* then its result, and a call that fails leaves the worker closed.        *)
(***************************************************************************)

VARIABLE state  \* none (not started), idle, called, metered (the usage of the
                \* call has been counted) or closed

Init == state \in {"none", "idle"}

Step(from, to) == state \in from /\ state' = to

\* __init__, call, on_usage, and the ways in which call and close end.
Start  == Step({"none"}, "idle")
Call   == Step({"idle"}, "called")
Usage  == Step({"called"}, "metered")
Answer == Step({"called", "metered"}, "idle")
Fail   == Step({"called", "metered"}, "closed")
Close  == Step({"idle"}, "closed")

Next == Start \/ Call \/ Usage \/ Answer \/ Fail \/ Close

Spec == Init /\ [][Next]_state
=============================================================================

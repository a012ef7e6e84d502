---------------------------- MODULE RepairPolicy ----------------------------
(***************************************************************************)
(* What FeedbackController.run promises its caller, without how: a         *)
(* candidate manifest is tested, a failed one may be repaired on a budget, *)
(* and an answer is given once, about the candidate as it was last tested. *)
(***************************************************************************)
EXTENDS Integers

CONSTANTS Candidate,  \* the manifests
          Budget,     \* how many repairs may be attempted
          None

VARIABLES candidate,  \* the manifest under repair
          verdict,    \* draft (never tested), untested, failed, repairing, passed
          spent,      \* repairs attempted
          answer      \* None, or what was answered

vars == <<candidate, verdict, spent, answer>>

Answer == [manifest : Candidate, success : BOOLEAN]

Init ==
    /\ candidate \in Candidate
    /\ verdict = "draft"
    /\ spent = 0
    /\ answer = None

\* One improvement before the first test.
Review ==
    /\ verdict = "draft" /\ answer = None
    /\ candidate' \in Candidate
    /\ UNCHANGED <<verdict, spent, answer>>

\* The caller gets its draft back when nothing can be tested.
Decline ==
    /\ verdict = "draft" /\ answer = None
    /\ answer' = [manifest |-> candidate, success |-> FALSE]
    /\ UNCHANGED <<candidate, verdict, spent>>

Fail ==
    /\ verdict \in {"draft", "untested"} /\ answer = None
    /\ verdict' = "failed"
    /\ UNCHANGED <<candidate, spent, answer>>

Accept ==
    /\ verdict \in {"draft", "untested"} /\ answer = None
    /\ verdict' = "passed"
    /\ answer' = [manifest |-> candidate, success |-> TRUE]
    /\ UNCHANGED <<candidate, spent>>

Attempt ==
    /\ verdict = "failed" /\ answer = None
    /\ spent < Budget
    /\ spent' = spent + 1
    /\ verdict' = "repairing"
    /\ UNCHANGED <<candidate, answer>>

Repaired ==
    /\ verdict = "repairing" /\ answer = None
    /\ candidate' \in Candidate \ {candidate}
    /\ verdict' = "untested"
    /\ UNCHANGED <<spent, answer>>

NotRepaired ==
    /\ verdict = "repairing" /\ answer = None
    /\ verdict' = "failed"
    /\ UNCHANGED <<candidate, spent, answer>>

\* Out of budget, or the repair could not be made.
GiveUp ==
    /\ answer = None
    /\ \/ verdict = "failed" /\ spent = Budget
       \/ verdict = "repairing"
    /\ answer' = [manifest |-> candidate, success |-> FALSE]
    /\ verdict' = "failed"
    /\ UNCHANGED <<candidate, spent>>

Next ==
    \/ Review \/ Decline \/ Fail \/ Accept
    \/ Attempt \/ Repaired \/ NotRepaired \/ GiveUp

Spec == Init /\ [][Next]_vars
=============================================================================

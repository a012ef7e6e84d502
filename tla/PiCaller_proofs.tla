--------------------------- MODULE PiCaller_proofs ---------------------------
(***************************************************************************)
(* Proofs about PiCaller, for any roles, budgets, costs and number of      *)
(* calls: whichever worker is the current one, it accepts the next id; no  *)
(* worker is left open but those refused a request; every budget holds;    *)
(* what the workers have spent is accounted for to the token; and each     *)
(* worker is used as its contract says.                                    *)
(***************************************************************************)
EXTENDS PiCaller, FoldLemmas

-----------------------------------------------------------------------------
(* The inductive invariant                                                 *)

\* Workers are numbered as they are started, at most one for each call.
Numbered ==
    /\ started \in Nat /\ calls \in Nat /\ started <= calls /\ calls <= MaxCalls
    /\ worker \in 0..started
    /\ pc # "idle" => worker # None /\ ~closed
    /\ process \in [Worker -> [open : BOOLEAN, lastId : Nat, spent : [Resource -> Nat]]]

\* A worker has seen no id that the sequence has not passed.
Behind == sequence \in Nat /\ \A w \in Worker : process[w].lastId <= sequence

\* Numbers not given yet are not of open workers.
Future == \A w \in Worker : w > started => ~process[w].open

IInv == Numbered /\ Behind /\ Future /\ OnlyUnsentLeftOpen

-----------------------------------------------------------------------------
\* A new caller is in the invariant.
LEMMA InitIInv == Init => IInv
<1> SUFFICES ASSUME Init PROVE IInv
  OBVIOUS
<1>1. Unused \in [open : BOOLEAN, lastId : Nat, spent : [Resource -> Nat]]
  BY DEF Unused
<1>2. Numbered
  BY <1>1, PiCallerAssumption DEF Init, Numbered, None
<1>3. \A w \in Worker : ~process[w].open /\ process[w].lastId = 0
  BY DEF Init, Unused
<1> QED
  BY <1>2, <1>3 DEF Init, IInv, Behind, Future, OnlyUnsentLeftOpen

\* What the steps that leave the processes alone change.
LEMMA QuietStep ==
  ASSUME IInv, UNCHANGED <<started, calls, process, sequence, closed, unsent>>,
         worker' = worker, pc' # "idle" => pc # "idle"
  PROVE  IInv'
  BY DEF IInv, Numbered, Behind, Future, OnlyUnsentLeftOpen, None

\* A step that touches one process, that of the current worker, which is then
\* open as before or closed.
LEMMA ProcessStep ==
  ASSUME IInv, worker # None, NEW p,
         process' = [process EXCEPT ![worker] = p],
         p \in [open : BOOLEAN, lastId : Nat, spent : [Resource -> Nat]],
         p.lastId <= sequence', p.open => process[worker].open /\ worker' = worker,
         sequence' \in Nat, sequence' >= sequence,
         UNCHANGED <<started, calls, closed, unsent>>,
         worker' \in {None, worker}, worker' # worker => ~p.open,
         pc' # "idle" => worker' = worker /\ ~closed
  PROVE  IInv'
<1>1. worker \in Worker /\ worker \in Nat /\ started \in Nat
  BY PiCallerAssumption DEF IInv, Numbered, Worker, None
<1>2. Numbered'
  BY <1>1 DEF IInv, Numbered, None
<1>3. /\ process'[worker] = p
      /\ \A w \in Worker : w # worker => process'[w] = process[w]
  BY <1>1 DEF IInv, Numbered
<1>4. Behind'
  <2>1. \A w \in Worker : process[w].lastId \in Nat
    BY DEF IInv, Numbered
  <2> QED
    BY <1>1, <1>3, <2>1 DEF IInv, Behind
<1>5. Future'
  BY <1>1, <1>3 DEF IInv, Future
<1>6. OnlyUnsentLeftOpen'
  BY <1>1, <1>3 DEF IInv, OnlyUnsentLeftOpen
<1> QED
  BY <1>2, <1>4, <1>5, <1>6 DEF IInv

\* Every step keeps it.
LEMMA Step == IInv /\ [Next]_vars => IInv'
<1> SUFFICES ASSUME IInv, [Next]_vars PROVE IInv'
  OBVIOUS
<1> DEFINE P == [open : BOOLEAN, lastId : Nat, spent : [Resource -> Nat]]
<1>0. /\ worker \in Nat /\ started \in Nat /\ calls \in Nat /\ MaxCalls \in Nat
      /\ started <= calls /\ calls <= MaxCalls
      /\ worker # None => worker \in Worker /\ process[worker] \in P
      /\ process \in [Worker -> P] /\ sequence \in Nat
      /\ pc # "idle" => worker # None /\ ~closed
  BY PiCallerAssumption DEF IInv, Numbered, Behind, Worker, None
<1>1. ASSUME NEW a \in Agent, BeginCall(a) PROVE IInv'
  <2>1. CASE worker = None
    <3>1. /\ started' = started + 1 /\ worker' = started' /\ calls' = calls + 1
          /\ process' = [process EXCEPT ![started'].open = TRUE]
          /\ ~closed /\ calls < MaxCalls /\ UNCHANGED <<sequence, closed, unsent>>
      BY <1>1, <2>1 DEF BeginCall
    <3>2. started' \in Worker /\ started' \in Nat /\ started' > started /\ started' # None
      BY <1>0, <3>1 DEF Worker, None
    <3>3. /\ process' \in [Worker -> P]
          /\ \A w \in Worker : w # started' => process'[w] = process[w]
          /\ \A w \in Worker : process'[w].lastId = process[w].lastId
      BY <1>0, <3>1, <3>2
    <3>4. Numbered'
      BY <1>0, <3>1, <3>2, <3>3 DEF Numbered
    <3>5. Behind'
      BY <3>1, <3>3 DEF IInv, Behind
    <3>6. Future' /\ OnlyUnsentLeftOpen'
      <4>1. \A w \in Worker : w \in Nat /\ w # None
        BY DEF Worker, None
      <4>2. Future'
        BY <1>0, <3>1, <3>2, <3>3, <4>1 DEF IInv, Future
      <4>3. \A w \in Worker : process[w].open => w \in unsent
        BY <2>1, <4>1 DEF IInv, OnlyUnsentLeftOpen
      <4>4. OnlyUnsentLeftOpen'
        BY <3>1, <3>3, <4>3 DEF OnlyUnsentLeftOpen
      <4> QED
        BY <4>2, <4>4
    <3> QED
      BY <3>4, <3>5, <3>6 DEF IInv
  <2>2. CASE worker # None
    <3>1. /\ calls' = calls + 1 /\ ~closed /\ calls < MaxCalls
          /\ UNCHANGED <<started, worker, process, sequence, closed, unsent>>
      BY <1>1, <2>2 DEF BeginCall
    <3> QED
      BY <1>0, <2>2, <3>1 DEF IInv, Numbered, Behind, Future, OnlyUnsentLeftOpen
  <2> QED
    BY <2>1, <2>2
<1>2. ASSUME \/ GiveUp \/ Count
             \/ \E d \in Delays : Return(d) \/ Retry(d) \/ StageFails(d)
      PROVE  IInv'
  <2>1. /\ UNCHANGED <<started, calls, process, sequence, closed, unsent>>
        /\ worker' = worker /\ (pc' # "idle" => pc # "idle")
    BY <1>2 DEF GiveUp, Count, Return, Retry, StageFails, AfterFailedStage, EndCall, history
  <2> QED
    BY <2>1, QuietStep
<1>3. CASE Send
  <2>1. /\ pc = "choosing" /\ process[worker].open /\ sequence' = sequence + 1
        /\ process' = [process EXCEPT ![worker].lastId = sequence + 1]
        /\ UNCHANGED <<started, calls, worker, closed, unsent>>
    BY <1>3 DEF Send, NextId, history
  <2> DEFINE p == [process[worker] EXCEPT !.lastId = sequence + 1]
  <2>2. sequence' \in Nat /\ sequence' >= sequence /\ sequence + 1 \in Nat
    BY <1>0, <2>1
  <2>3. process[worker] \in P /\ worker # None /\ ~closed
    BY <1>0, <2>1
  <2>4. p \in P /\ p.lastId = sequence + 1 /\ p.open = process[worker].open
    BY <2>2, <2>3
  <2>5. process' = [process EXCEPT ![worker] = p] /\ p.lastId <= sequence'
    BY <2>1, <2>2, <2>4
  <2> HIDE DEF p
  <2> QED
    BY <2>1, <2>2, <2>3, <2>4, <2>5, ProcessStep
<1>4. CASE SendFails
  <2>1. /\ pc = "choosing" /\ sequence' = sequence + 1 /\ worker' = None /\ pc' = "idle"
        /\ unsent' = IF process[worker].open THEN unsent \cup {worker} ELSE unsent
        /\ UNCHANGED <<started, calls, process, closed>>
    BY <1>4 DEF SendFails, NextId, EndCall
  <2>2. Numbered' /\ Future'
    BY <1>0, <2>1 DEF IInv, Numbered, Future, None
  <2>3. Behind'
    <3>1. \A w \in Worker : process[w].lastId \in Nat
      BY <1>0
    <3> QED
      BY <1>0, <2>1, <3>1 DEF IInv, Behind
  <2>4. OnlyUnsentLeftOpen'
    BY <2>1 DEF IInv, OnlyUnsentLeftOpen
  <2> QED
    BY <2>2, <2>3, <2>4 DEF IInv
<1>5. ASSUME worker # None, process' = [process EXCEPT ![worker].open = FALSE],
             worker' \in {None, worker}, pc' = "idle",
             UNCHANGED <<started, calls, sequence, closed, unsent>>
      PROVE  IInv'
  <2> DEFINE p == [process[worker] EXCEPT !.open = FALSE]
  <2>1. /\ p \in P /\ ~p.open /\ p.lastId = process[worker].lastId
        /\ process' = [process EXCEPT ![worker] = p]
    BY <1>0, <1>5
  <2>2. p.lastId <= sequence' /\ sequence' \in Nat /\ sequence' >= sequence
    BY <1>0, <1>5, <2>1 DEF IInv, Behind
  <2> HIDE DEF p
  <2> QED
    BY <1>5, <2>1, <2>2, ProcessStep
<1>6. ASSUME NEW d \in Delays, CountRaises(d) PROVE IInv'
  BY <1>0, <1>5, <1>6 DEF CountRaises, EndCall, history
<1>7. ASSUME NEW d \in Delays, TransportFails(d) PROVE IInv'
  BY <1>0, <1>5, <1>7 DEF TransportFails, EndCall
<1>8. CASE Close
  <2>1. /\ pc = "idle" /\ ~closed /\ closed' = TRUE
        /\ process' = IF worker = None THEN process
                      ELSE [process EXCEPT ![worker].open = FALSE]
        /\ UNCHANGED <<pc, worker, sequence, started, calls, unsent>>
    BY <1>8 DEF Close, history
  <2>2. /\ process' \in [Worker -> P]
        /\ \A w \in Worker : /\ process'[w].lastId = process[w].lastId
                             /\ process'[w].open => process[w].open /\ w # worker
    <3>1. CASE worker = None
      BY <1>0, <2>1, <3>1 DEF Worker, None
    <3>2. CASE worker # None
      <4>1. process' = [process EXCEPT ![worker].open = FALSE] /\ worker \in Worker
        BY <1>0, <2>1, <3>2
      <4> QED
        BY <1>0, <4>1
    <3> QED
      BY <3>1, <3>2
  <2> QED
    BY <1>0, <2>1, <2>2 DEF IInv, Numbered, Behind, Future, OnlyUnsentLeftOpen
<1>9. ASSUME NEW f \in [Resource -> Nat], worker # None,
             process' = [process EXCEPT ![worker].spent = f], worker' = worker,
             UNCHANGED <<started, calls, sequence, closed, unsent>>, ~closed
      PROVE  IInv'
  <2> DEFINE p == [process[worker] EXCEPT !.spent = f]
  <2>1. /\ p \in P /\ p.open = process[worker].open /\ p.lastId = process[worker].lastId
        /\ process' = [process EXCEPT ![worker] = p]
    BY <1>0, <1>9
  <2>2. p.lastId <= sequence' /\ sequence' \in Nat /\ sequence' >= sequence
    BY <1>0, <1>9, <2>1 DEF IInv, Behind
  <2> HIDE DEF p
  <2> QED
    BY <1>9, <2>1, <2>2, ProcessStep
<1>10. ASSUME NEW u \in Usages, NEW d \in Delays, NEW e \in Delays, Complete(u, d, e)
       PROVE  IInv'
  <2>1. d \in Nat /\ u \in [Token -> Nat] /\ worker # None /\ ~closed
    BY <1>0, <1>10, PiCallerAssumption DEF Complete
  <2> DEFINE s == process[worker].spent
             f == [r \in Resource |-> IF r \in Token THEN s[r] + u[r]
                                      ELSE IF r = "responses" THEN s[r] + 1
                                      ELSE s[r] + d]
  <2>2. s \in [Resource -> Nat]
    BY <1>0, <2>1
  <2>3. f \in [Resource -> Nat]
    BY <2>1, <2>2
  <2>4. /\ process' = [process EXCEPT ![worker].spent = f] /\ worker' = worker
        /\ UNCHANGED <<started, calls, sequence, closed, unsent>>
    BY <1>10 DEF Complete, history
  <2> HIDE DEF f
  <2> QED
    BY <1>9, <2>1, <2>3, <2>4
<1>11. ASSUME NEW d \in Delays, NEW e \in Delays, CompletionFails(d, e) PROVE IInv'
  <2>1. d \in Nat /\ worker # None /\ ~closed
    BY <1>0, <1>11, PiCallerAssumption DEF CompletionFails
  <2> DEFINE s == process[worker].spent
             f == [s EXCEPT !["seconds"] = s["seconds"] + d]
  <2>2. s \in [Resource -> Nat] /\ s["seconds"] \in Nat
    BY <1>0, <2>1 DEF Resource
  <2>3. f \in [Resource -> Nat]
    <3>1. s["seconds"] + d \in Nat
      BY <2>1, <2>2
    <3> QED
      BY <2>2, <3>1
  <2>4. process' = [process EXCEPT ![worker].spent = f] /\ worker' = worker
    BY <1>0, <1>11, <2>1 DEF CompletionFails, AfterFailedStage
  <2>5. UNCHANGED <<started, calls, sequence, closed, unsent>>
    BY <1>11 DEF CompletionFails, history
  <2> HIDE DEF f
  <2> QED
    BY <1>9, <2>1, <2>3, <2>4, <2>5
<1>12. CASE UNCHANGED vars
  BY <1>12, QuietStep DEF vars, code, history
<1> QED
  BY <1>1, <1>2, <1>3, <1>4, <1>6, <1>7, <1>8, <1>10, <1>11, <1>12 DEF Next

-----------------------------------------------------------------------------
(* Types                                                                   *)

Call == [agent : Agent, attempt : 0..Attempts, used : [Token -> Nat],
         elapsed : Nat, deadline : Nat]
Tally == [Token -> Nat]

\* The types of what a call works with; those of the workers are in Numbered.
Types ==
    /\ pc \in {"idle", "choosing", "awaiting", "metered", "counted"}
    /\ closed \in BOOLEAN /\ unsent \subseteq Worker
    /\ call \in Call
    /\ tokens \in [Agent -> Tally] /\ times \in [Agent -> Nat]
    /\ inflight \in Tally /\ since \in Tally /\ lost \in Tally

\* Tallies are added to tallies.
LEMMA PlusType == Nothing \in Tally /\ \A f, g \in Tally : Plus(f, g) \in Tally
<1>1. \A m, n \in Nat : m + n \in Nat
  OBVIOUS
<1> QED
  BY <1>1, Zenon DEF Nothing, Plus, Tally

\* What the end of a call leaves.
LEMMA EndCallEffect ==
  ASSUME Types, NEW e \in Nat, EndCall(e)
  PROVE  /\ pc' = "idle" /\ call' \in Call /\ call'.elapsed = e
         /\ times' \in [Agent -> Nat]
         /\ \A a \in Agent : times'[a] = times[a] \/ times'[a] = times[a] + e
<1>1. call \in Call /\ call.agent \in Agent /\ times \in [Agent -> Nat]
  BY DEF Types, Call
<1>2. call' \in Call /\ call'.elapsed = e
  <2>1. call' = [agent |-> call.agent, attempt |-> 0, used |-> Nothing, elapsed |-> e,
                 deadline |-> 0]
    BY <1>1 DEF EndCall, Call
  <2>2. 0 \in 0..Attempts /\ Nothing \in [Token -> Nat]
    BY PlusType DEF Attempts, Tally
  <2> QED
    BY <1>1, <2>1, <2>2 DEF Call
<1>3. times' = [times EXCEPT ![call.agent] = times[call.agent] + e]
  BY DEF EndCall
<1>4. times[call.agent] + e \in Nat
  BY <1>1
<1> QED
  BY <1>1, <1>2, <1>3, <1>4 DEF EndCall

-----------------------------------------------------------------------------
(* Budgets                                                                 *)

\* Where a request is with a worker, there is an attempt to it and an open worker.
Serving ==
    pc \in {"awaiting", "metered", "counted"} =>
      call.attempt < Attempts /\ process[worker].open

\* What has been spent since the call began is what it has counted and what is
\* on its way; a request goes out below the limit.
Metering ==
    /\ pc # "metered" => inflight = Nothing
    /\ pc # "idle" => \A k \in Token : since[k] = call.used[k] + inflight[k]
    /\ pc = "awaiting" => \A k \in Token : call.used[k] < CallLimit[k]
    /\ \A k \in Token : since[k] < CallLimit[k] + Dearest[k]

\* A call is within its seconds and the grace as long as it goes on, since all its
\* requests have the same deadline, and only the close of the worker can come on top;
\* a call that is not over has not been added to the times.
Timing ==
    /\ pc # "idle" => call.elapsed <= CallSeconds + Grace /\ calls > 0
    /\ pc \in {"awaiting", "metered", "counted"} => call.deadline = CallSeconds + Grace
    /\ call.elapsed <= WholeCall
    /\ \A a \in Agent : /\ times[a] <= calls * WholeCall
                        /\ pc # "idle" => times[a] <= (calls - 1) * WholeCall

\* No worker has crossed a limit of the problem by more than one response.
Ceilings ==
    \A w \in Worker :
      /\ \A k \in Token : process[w].spent[k] < ProblemLimit[k] + Dearest[k]
      /\ process[w].spent["responses"] <= ProblemLimit["responses"]
      /\ process[w].spent["seconds"] < ProblemLimit["seconds"] + Longest

Budgets == Types /\ Serving /\ Metering /\ Timing /\ Ceilings

\* A new caller has spent nothing.
LEMMA InitBudgets == Init => Budgets
<1> SUFFICES ASSUME Init PROVE Budgets
  OBVIOUS
<1>1. /\ CallLimit \in [Token -> Nat \ {0}] /\ ProblemLimit \in [Resource -> Nat \ {0}]
      /\ Dearest \in [Token -> Nat] /\ Longest \in Nat /\ Grace \in Nat
      /\ CallSeconds \in Nat /\ CloseSeconds \in Nat
  BY PiCallerAssumption
<1>2. call \in Call /\ call.elapsed = 0
  BY PlusType DEF Init, Call, Tally, Attempts
<1>3. tokens \in [Agent -> Tally] /\ times \in [Agent -> Nat]
  BY PlusType DEF Init
<1>4. Types
  BY <1>2, <1>3, PlusType DEF Init, Types
<1>5. \A k \in Token : Nothing[k] = 0 /\ k \in Resource
  BY DEF Nothing, Resource
<1>6. Metering
  BY <1>1, <1>5 DEF Init, Metering
<1>7. Timing
  <2>1. 0 <= WholeCall /\ calls * WholeCall = 0
    BY <1>1 DEF Init, WholeCall
  <2> QED
    BY <1>2, <2>1 DEF Init, Timing
<1>8. Ceilings
  <2>1. \A w \in Worker : process[w].spent = [r \in Resource |-> 0]
    BY DEF Init, Unused
  <2>2. \A w \in Worker, r \in Resource : process[w].spent[r] = 0
    BY <2>1
  <2>3. "responses" \in Resource /\ "seconds" \in Resource
    BY DEF Resource
  <2>4. \A r \in Resource : ProblemLimit[r] \in Nat /\ ProblemLimit[r] > 0
    BY <1>1
  <2>5. \A k \in Token : Dearest[k] \in Nat
    BY <1>1
  <2> QED
    BY <1>1, <1>5, <2>2, <2>3, <2>4, <2>5 DEF Ceilings
<1> QED
  BY <1>4, <1>6, <1>7, <1>8 DEF Init, Budgets, Serving

\* One more call has one more whole time.
LEMMA NextWhole ==
  ASSUME NEW n \in Nat
  PROVE  /\ WholeCall \in Nat /\ n * WholeCall \in Nat
         /\ (n + 1) * WholeCall = n * WholeCall + WholeCall
         /\ (n - 1) * WholeCall = n * WholeCall - WholeCall
  BY PiCallerAssumption DEF WholeCall

\* Every way a call ends keeps the budgets, if the workers' ceilings are kept.
LEMMA EndStep ==
  ASSUME IInv, Budgets, NEW e \in Nat, e <= WholeCall, pc # "idle", EndCall(e),
         inflight' = Nothing, UNCHANGED <<since, calls, closed>>,
         tokens' \in [Agent -> Tally], lost' \in Tally, unsent' \subseteq Worker, Ceilings'
  PROVE  Budgets'
<1>1. /\ pc' = "idle" /\ call' \in Call /\ call'.elapsed = e /\ times' \in [Agent -> Nat]
      /\ \A a \in Agent : times'[a] = times[a] \/ times'[a] = times[a] + e
  BY EndCallEffect DEF Budgets
<1>2. Types'
  BY <1>1, PlusType DEF Budgets, Types
<1>3. Metering'
  BY <1>1 DEF Budgets, Metering
<1>4. Timing'
  <2>1. calls \in Nat /\ calls' = calls
    BY DEF IInv, Numbered
  <2>2. \A a \in Agent : times[a] \in Nat /\ times[a] <= (calls - 1) * WholeCall
    BY DEF Budgets, Types, Timing
  <2>3. \A a \in Agent : times'[a] <= (calls - 1) * WholeCall + WholeCall
    <3>1. WholeCall \in Nat /\ (calls - 1) * WholeCall \in Int
      BY <2>1, NextWhole
    <3> QED
      BY <1>1, <2>2, <3>1
  <2>4. (calls - 1) * WholeCall + WholeCall = calls * WholeCall
    BY <2>1, NextWhole
  <2>5. \A a \in Agent : times'[a] <= calls' * WholeCall
    BY <2>1, <2>3, <2>4
  <2> QED
    BY <1>1, <2>5 DEF Timing
<1> QED
  BY <1>1, <1>2, <1>3, <1>4 DEF Budgets, Serving

\* What a worker has spent is not touched by a step that leaves it alone.
LEMMA SameCeilings ==
  ASSUME Ceilings, \A w \in Worker : process'[w].spent = process[w].spent
  PROVE  Ceilings'
  BY DEF Ceilings

\* Every step keeps the budgets.
LEMMA BudgetStep ==
  ASSUME IInv, Budgets, [Next]_vars
  PROVE  Budgets'
<1> DEFINE P == [open : BOOLEAN, lastId : Nat, spent : [Resource -> Nat]]
<1>0. /\ worker \in Nat /\ calls \in Nat /\ sequence \in Nat
      /\ worker # None => worker \in Worker /\ process[worker] \in P
      /\ pc # "idle" => worker # None
      /\ process \in [Worker -> P]
  BY PiCallerAssumption DEF IInv, Numbered, Behind, Worker, None
<1>a. /\ CallLimit \in [Token -> Nat \ {0}] /\ ProblemLimit \in [Resource -> Nat \ {0}]
      /\ Dearest \in [Token -> Nat] /\ Longest \in Nat /\ Grace \in Nat
      /\ CallSeconds \in Nat /\ CloseSeconds \in Nat /\ WholeCall \in Nat
      /\ WholeCall = CallSeconds + Grace + CloseSeconds
  BY PiCallerAssumption DEF WholeCall
<1>b. call \in Call /\ call.elapsed \in Nat /\ call.attempt \in 0..Attempts
      /\ call.used \in Tally /\ inflight \in Tally /\ since \in Tally /\ lost \in Tally
      /\ call.agent \in Agent /\ tokens \in [Agent -> Tally] /\ call.deadline \in Nat
  BY DEF Budgets, Types, Call, Tally
<1>c. ASSUME NEW w \in Worker, NEW x, process' = [process EXCEPT ![w].open = x]
      PROVE  \A v \in Worker : process'[v].spent = process[v].spent
  BY <1>0, <1>c
<1>1. ASSUME NEW a \in Agent, BeginCall(a) PROVE Budgets'
  <2>1. /\ pc = "idle" /\ pc' \in {"choosing", "idle"} /\ calls' = calls + 1
        /\ call' = [agent |-> a, attempt |-> 0, used |-> Nothing, elapsed |-> 0,
                    deadline |-> 0]
        /\ since' = Nothing /\ UNCHANGED <<closed, unsent, tokens, times, inflight, lost>>
    BY <1>1 DEF BeginCall
  <2>2. Types'
    <3>1. 0 \in 0..Attempts
      BY DEF Attempts
    <3>2. call' \in Call
      BY <2>1, <3>1, PlusType DEF Call, Tally
    <3> QED
      BY <2>1, <3>2, PlusType DEF Budgets, Types
  <2>3. \A k \in Token : Nothing[k] = 0
    BY DEF Nothing
  <2>4. Metering'
    <3>1. \A k \in Token : CallLimit[k] \in Nat \ {0} /\ Dearest[k] \in Nat
      BY <1>a
    <3>2. inflight = Nothing /\ call'.used = Nothing
      BY <2>1 DEF Budgets, Metering
    <3> QED
      BY <2>1, <2>3, <3>1, <3>2 DEF Metering
  <2>5. Timing'
    <3>1. calls' > 0 /\ call'.elapsed = 0 /\ calls' - 1 = calls
      BY <1>0, <2>1
    <3>2. calls' * WholeCall = calls * WholeCall + WholeCall /\ calls * WholeCall \in Nat
      BY <1>0, <2>1, NextWhole
    <3>3. \A b \in Agent : times[b] \in Nat /\ times[b] <= calls * WholeCall
      BY DEF Budgets, Types, Timing
    <3>4. \A b \in Agent : times'[b] <= calls' * WholeCall
                        /\ times'[b] <= (calls' - 1) * WholeCall
      BY <1>a, <2>1, <3>1, <3>2, <3>3
    <3> QED
      BY <1>a, <2>1, <3>1, <3>4 DEF Timing
  <2>6. Ceilings'
    <3>1. CASE worker = None
      <4>1. process' = [process EXCEPT ![started'].open = TRUE] /\ started' \in Worker
        BY <1>1, <3>1, PiCallerAssumption DEF BeginCall, IInv, Numbered, Worker
      <4> QED
        BY <1>c, <4>1, SameCeilings DEF Budgets
    <3>2. CASE worker # None
      BY <1>1, <3>2, SameCeilings DEF BeginCall, Budgets
    <3> QED
      BY <3>1, <3>2
  <2> QED
    BY <2>1, <2>2, <2>4, <2>5, <2>6 DEF Budgets, Serving
<1>2. ASSUME pc # "idle"
      PROVE  call.elapsed <= CallSeconds + Grace /\ call.elapsed <= WholeCall
  BY <1>2, <1>a, <1>b DEF Budgets, Timing
<1>t. ASSUME NEW d \in Delays, InTime(d), pc \in {"awaiting", "metered", "counted"}
      PROVE  /\ d \in Nat /\ call.elapsed + d \in Nat
             /\ call.elapsed + d <= CallSeconds + Grace /\ call.elapsed + d <= WholeCall
  <2>1. d \in Nat /\ call.elapsed + d <= call.deadline
        /\ call.deadline = CallSeconds + Grace
    BY <1>t, PiCallerAssumption DEF InTime, Budgets, Timing
  <2> QED
    BY <1>a, <1>b, <2>1
<1>3. ASSUME NEW e \in Nat, e <= WholeCall, EndCall(e), pc \in {"choosing", "counted"},
             UNCHANGED <<since, calls, closed, tokens, lost, unsent, process, inflight>>
      PROVE  Budgets'
  <2>1. Ceilings'
    BY <1>3, SameCeilings DEF Budgets
  <2> QED
    BY <1>3, <1>b, <2>1, EndStep DEF Budgets, Types, Metering
<1>g. CASE GiveUp
  BY <1>2, <1>3, <1>b, <1>g DEF GiveUp, history
<1>r. ASSUME NEW d \in Delays, Return(d) \/ StageFails(d) PROVE Budgets'
  <2>1. /\ EndCall(call.elapsed + d) /\ pc = "counted" /\ InTime(d)
        /\ UNCHANGED <<since, calls, closed, tokens, lost, unsent, process, inflight>>
    BY <1>r DEF Return, StageFails, history
  <2>2. call.elapsed + d \in Nat /\ call.elapsed + d <= WholeCall
    BY <1>t, <2>1
  <2> QED
    BY <1>3, <2>1, <2>2
<1>4. CASE SendFails
  <2>1. /\ EndCall(call.elapsed) /\ pc = "choosing"
        /\ UNCHANGED <<since, calls, closed, tokens, lost, process, inflight>>
        /\ unsent' = IF process[worker].open THEN unsent \cup {worker} ELSE unsent
    BY <1>4 DEF SendFails
  <2>2. Ceilings' /\ unsent' \subseteq Worker
    BY <1>0, <2>1, SameCeilings DEF Budgets, Types
  <2> QED
    BY <1>2, <1>b, <2>1, <2>2, EndStep DEF Budgets, Metering
<1>5. ASSUME CountUsage
      PROVE  tokens' \in [Agent -> Tally] /\ inflight' = Nothing
  <2>1. Totals(call.agent) \in Tally
    BY <1>b, PlusType DEF Totals
  <2> QED
    BY <1>5, <1>b, <2>1 DEF CountUsage
<1>6. ASSUME NEW d \in Delays, CountRaises(d) PROVE Budgets'
  <2>1. /\ EndCall(call.elapsed + d) /\ d <= CloseSeconds /\ pc = "metered" /\ CountUsage
        /\ process' = [process EXCEPT ![worker].open = FALSE] /\ worker \in Worker
        /\ UNCHANGED <<since, calls, closed, lost, unsent>>
    BY <1>0, <1>6 DEF CountRaises, history
  <2>2. Ceilings'
    BY <1>c, <2>1, SameCeilings DEF Budgets
  <2>3. call.elapsed + d \in Nat /\ call.elapsed + d <= WholeCall
    BY <1>2, <1>a, <1>b, <2>1, PiCallerAssumption
  <2> QED
    BY <1>5, <1>b, <2>1, <2>2, <2>3, EndStep DEF Budgets, Types
<1>7. ASSUME NEW d \in Delays, TransportFails(d) PROVE Budgets'
  <2>1. /\ EndCall(call.elapsed + d) /\ pc \in {"awaiting", "metered", "counted"}
        /\ call.elapsed + d <= call.deadline + CloseSeconds
        /\ process' = [process EXCEPT ![worker].open = FALSE] /\ worker \in Worker
        /\ lost' = Plus(lost, inflight) /\ inflight' = Nothing
        /\ UNCHANGED <<since, calls, closed, tokens, unsent>>
    BY <1>0, <1>7 DEF TransportFails
  <2>2. Ceilings'
    BY <1>c, <2>1, SameCeilings DEF Budgets
  <2>3. call.elapsed + d \in Nat /\ call.elapsed + d <= WholeCall
    BY <1>a, <1>b, <2>1, PiCallerAssumption DEF Budgets, Timing
  <2> QED
    BY <1>b, <2>1, <2>2, <2>3, PlusType, EndStep DEF Budgets, Types
<1>8. ASSUME NEW f \in [Resource -> Nat], worker \in Worker,
             process' = [process EXCEPT ![worker].spent = f],
             \A k \in Token : f[k] < ProblemLimit[k] + Dearest[k],
             f["responses"] <= ProblemLimit["responses"],
             f["seconds"] < ProblemLimit["seconds"] + Longest
      PROVE  Ceilings'
  <2>1. process'[worker].spent = f
        /\ \A w \in Worker : w # worker => process'[w] = process[w]
    BY <1>0, <1>8
  <2> QED
    BY <1>8, <2>1 DEF Budgets, Ceilings
<1>9. ASSUME WithinBudget, worker \in Worker
      PROVE  \A r \in Resource : process[worker].spent[r] < ProblemLimit[r]
  BY <1>9 DEF WithinBudget
<1>10. /\ \A k \in Token : k \in Resource
       /\ "responses" \in Resource /\ "seconds" \in Resource
       /\ "responses" \notin Token /\ "seconds" \notin Token
  BY DEF Resource, Token
<1>11. ASSUME NEW d \in Delays, NEW e \in Delays, CompletionFails(d, e) PROVE Budgets'
  <2> DEFINE s == process[worker].spent
             f == [s EXCEPT !["seconds"] = s["seconds"] + d]
  <2>1. /\ EndCall(call.elapsed + e) /\ pc = "awaiting"
        /\ InTime(e) /\ (~WithinBudget => d = 0)
        /\ process' = [process EXCEPT ![worker].spent["seconds"] = s["seconds"] + d]
        /\ UNCHANGED <<since, calls, closed, tokens, lost, unsent, inflight>>
    BY <1>11 DEF CompletionFails, history
  <2>2. d \in Nat /\ d <= Longest
    BY PiCallerAssumption
  <2>3. worker \in Worker /\ s \in [Resource -> Nat] /\ s["seconds"] \in Nat
    BY <1>0, <1>10, <2>1
  <2>4. s["seconds"] + d \in Nat
    BY <2>2, <2>3
  <2>5. /\ f \in [Resource -> Nat] /\ f["seconds"] = s["seconds"] + d
        /\ f["responses"] = s["responses"] /\ \A k \in Token : f[k] = s[k]
    BY <1>10, <2>3, <2>4
  <2>6. s["seconds"] + d < ProblemLimit["seconds"] + Longest
    <3>1. s["seconds"] < ProblemLimit["seconds"] + Longest
      BY <2>3 DEF Budgets, Ceilings
    <3>2. WithinBudget => s["seconds"] < ProblemLimit["seconds"]
      BY <1>9, <1>10, <2>3
    <3>3. ProblemLimit["seconds"] \in Nat /\ Longest \in Nat
      BY <1>10, <1>a
    <3> QED
      BY <2>1, <2>2, <2>3, <3>1, <3>2, <3>3
  <2>7. process' = [process EXCEPT ![worker].spent = f]
    BY <2>1
  <2>8. /\ \A k \in Token : f[k] < ProblemLimit[k] + Dearest[k]
        /\ f["responses"] <= ProblemLimit["responses"]
    BY <2>3, <2>5 DEF Budgets, Ceilings
  <2> HIDE DEF f
  <2>9. Ceilings'
    BY <1>8, <2>3, <2>5, <2>6, <2>7, <2>8
  <2>10. call.elapsed + e \in Nat /\ call.elapsed + e <= WholeCall
    BY <1>t, <2>1
  <2> QED
    BY <1>b, <2>1, <2>9, <2>10, EndStep DEF Budgets, Types, Metering
<1>12. CASE Send
  <2>1. /\ pc = "choosing" /\ pc' = "awaiting" /\ process[worker].open /\ worker' = worker
        /\ AttemptsLeft /\ ~Exhausted
        /\ process' = [process EXCEPT ![worker].lastId = NextId]
        /\ call' = [call EXCEPT !.deadline = call.elapsed + SecondsLeft + Grace]
        /\ UNCHANGED <<closed, unsent, tokens, times, inflight, since, lost, calls>>
    BY <1>12 DEF Send, history
  <2>2. /\ worker \in Worker /\ process'[worker].open
        /\ \A w \in Worker : process'[w].spent = process[w].spent
    BY <1>0, <2>1
  <2>3. call.elapsed + SecondsLeft + Grace = CallSeconds + Grace
    BY <1>a, <1>b DEF SecondsLeft
  <2>4. /\ call' \in Call /\ call'.deadline = CallSeconds + Grace /\ call'.used = call.used
        /\ call'.attempt = call.attempt /\ call'.elapsed = call.elapsed
    BY <1>a, <1>b, <2>1, <2>3 DEF Call
  <2>5. Types'
    BY <2>1, <2>4 DEF Budgets, Types
  <2>6. Metering'
    <3>1. \A k \in Token : call.used[k] \in Nat /\ CallLimit[k] \in Nat
      BY <1>a, <1>b DEF Tally
    <3>2. \A k \in Token : call.used[k] < CallLimit[k]
      BY <2>1, <3>1 DEF Exhausted
    <3> QED
      BY <2>1, <2>4, <3>2 DEF Budgets, Metering
  <2>7. Timing'
    BY <2>1, <2>4 DEF Budgets, Timing
  <2>8. Ceilings'
    BY <2>2, SameCeilings DEF Budgets
  <2> QED
    BY <2>1, <2>2, <2>4, <2>5, <2>6, <2>7, <2>8 DEF Budgets, Serving, AttemptsLeft
<1>13. CASE Count
  <2>1. /\ pc = "metered" /\ pc' = "counted" /\ CountUsage
        /\ call' = [call EXCEPT !.used = Plus(call.used, inflight)]
        /\ UNCHANGED <<worker, closed, unsent, times, since, lost, calls, process>>
    BY <1>13 DEF Count, history
  <2>2. /\ call' \in Call /\ call'.used = Plus(call.used, inflight)
        /\ call'.deadline = call.deadline
        /\ call'.attempt = call.attempt /\ call'.elapsed = call.elapsed
    <3>1. Plus(call.used, inflight) \in [Token -> Nat]
      BY <1>b, PlusType DEF Tally
    <3> QED
      BY <1>b, <2>1, <3>1 DEF Call
  <2>3. Types'
    BY <1>5, <2>1, <2>2, PlusType DEF Budgets, Types
  <2>4. Metering'
    <3>1. \A k \in Token : since[k] = call.used[k] + inflight[k]
      BY <2>1 DEF Budgets, Metering
    <3>2. \A k \in Token : /\ since[k] \in Nat /\ Nothing[k] = 0
                           /\ call'.used[k] = call.used[k] + inflight[k]
      BY <1>b, <2>2 DEF Plus, Nothing, Tally
    <3>3. \A k \in Token : since'[k] = call'.used[k] + inflight'[k]
      BY <1>5, <2>1, <3>1, <3>2
    <3> QED
      BY <1>5, <2>1, <3>3 DEF Budgets, Metering
  <2>5. Timing' /\ Serving' /\ Ceilings'
    BY <2>1, <2>2, SameCeilings DEF Budgets, Timing, Serving
  <2> QED
    BY <2>3, <2>4, <2>5 DEF Budgets
<1>14. ASSUME NEW d \in Delays, Retry(d) PROVE Budgets'
  <2>1. /\ pc = "counted" /\ pc' = "choosing" /\ InTime(d)
        /\ call' = [call EXCEPT !.attempt = call.attempt + 1, !.elapsed = call.elapsed + d]
        /\ UNCHANGED <<closed, unsent, tokens, times, inflight, since, lost, calls,
                       process>>
    BY <1>14 DEF Retry, history
  <2>2. call.attempt < Attempts /\ Attempts \in Nat
    BY <2>1 DEF Budgets, Serving, Attempts
  <2>3. call.attempt + 1 \in 0..Attempts
    BY <1>b, <2>2
  <2>4. /\ call.elapsed + d \in Nat /\ call.elapsed + d <= CallSeconds + Grace
        /\ call.elapsed + d <= WholeCall
    BY <1>t, <2>1
  <2>5. /\ call' \in Call /\ call'.used = call.used /\ call'.elapsed = call.elapsed + d
    BY <1>b, <2>1, <2>3, <2>4 DEF Call
  <2>6. Types' /\ Metering' /\ Timing'
    BY <2>1, <2>4, <2>5 DEF Budgets, Types, Metering, Timing
  <2>7. Serving' /\ Ceilings'
    BY <2>1, SameCeilings DEF Budgets, Serving
  <2> QED
    BY <2>6, <2>7 DEF Budgets
<1>15. CASE Close
  <2>1. /\ pc = "idle" /\ closed' = TRUE
        /\ process' = IF worker = None THEN process
                      ELSE [process EXCEPT ![worker].open = FALSE]
        /\ UNCHANGED <<pc, call, unsent, tokens, times, inflight, since, lost, calls>>
    BY <1>15 DEF Close, history
  <2>2. Ceilings'
    <3>1. CASE worker = None
      BY <2>1, <3>1, SameCeilings DEF Budgets
    <3>2. CASE worker # None
      BY <1>0, <1>c, <2>1, <3>2, SameCeilings DEF Budgets
    <3> QED
      BY <3>1, <3>2
  <2> QED
    BY <2>1, <2>2 DEF Budgets, Types, Serving, Metering, Timing
<1>16. ASSUME NEW u \in Usages, NEW d \in Delays, NEW e \in Delays, Complete(u, d, e)
       PROVE  Budgets'
  <2> DEFINE s == process[worker].spent
             f == [r \in Resource |-> IF r \in Token THEN s[r] + u[r]
                                      ELSE IF r = "responses" THEN s[r] + 1
                                      ELSE s[r] + d]
  <2>1. /\ pc = "awaiting" /\ pc' = "metered" /\ WithinBudget /\ worker' = worker
        /\ InTime(e)
        /\ process' = [process EXCEPT ![worker].spent = f]
        /\ inflight' = u /\ since' = Plus(since, u)
        /\ call' = [call EXCEPT !.elapsed = call.elapsed + e]
        /\ UNCHANGED <<closed, unsent, tokens, times, lost, calls>>
    BY <1>16 DEF Complete
  <2>2. /\ d \in Nat /\ d <= Longest /\ u \in Tally
        /\ \A k \in Token : u[k] \in Nat /\ u[k] <= Dearest[k]
    BY PiCallerAssumption DEF Tally
  <2>3. worker \in Worker /\ s \in [Resource -> Nat]
    BY <1>0, <2>1
  <2>4. f \in [Resource -> Nat]
    BY <2>2, <2>3
  <2>5. /\ f["seconds"] = s["seconds"] + d /\ f["responses"] = s["responses"] + 1
        /\ \A k \in Token : f[k] = s[k] + u[k]
    BY <1>10
  <2> HIDE DEF f
  <2>6. \A r \in Resource : /\ s[r] < ProblemLimit[r] /\ s[r] \in Nat
                            /\ ProblemLimit[r] \in Nat
    BY <1>9, <1>a, <2>1, <2>3
  <2>7. \A k \in Token : f[k] < ProblemLimit[k] + Dearest[k]
    <3>1. \A k \in Token : Dearest[k] \in Nat
      BY <1>a
    <3> QED
      BY <1>10, <2>2, <2>5, <2>6, <3>1
  <2>8. /\ f["responses"] <= ProblemLimit["responses"]
        /\ f["seconds"] < ProblemLimit["seconds"] + Longest
    BY <1>10, <1>a, <2>2, <2>5, <2>6
  <2>9. Ceilings'
    BY <1>8, <2>1, <2>3, <2>4, <2>7, <2>8
  <2>e. /\ call.elapsed + e \in Nat /\ call.elapsed + e <= CallSeconds + Grace
        /\ call.elapsed + e <= WholeCall
    BY <1>t, <2>1
  <2>10. /\ call' \in Call /\ call'.elapsed = call.elapsed + e /\ call'.used = call.used
         /\ call'.attempt = call.attempt /\ call'.deadline = call.deadline
    BY <1>b, <2>1, <2>e DEF Call
  <2>11. Types'
    BY <1>b, <2>1, <2>2, <2>10, PlusType DEF Budgets, Types
  <2>12. Metering'
    <3>1. /\ inflight = Nothing
          /\ \A k \in Token : /\ since[k] = call.used[k] + inflight[k]
                              /\ call.used[k] < CallLimit[k]
      BY <2>1 DEF Budgets, Metering
    <3>2. \A k \in Token : /\ since'[k] = since[k] + u[k] /\ Nothing[k] = 0
                           /\ call.used[k] \in Nat /\ CallLimit[k] \in Nat
                           /\ Dearest[k] \in Nat
      BY <1>a, <1>b, <2>1 DEF Plus, Nothing, Tally
    <3>3. \A k \in Token : /\ since'[k] = call.used[k] + u[k]
                           /\ since'[k] < CallLimit[k] + Dearest[k]
      BY <2>2, <3>1, <3>2
    <3> QED
      BY <2>1, <2>10, <3>3 DEF Metering
  <2>13. Timing'
    <3>1. call.deadline = CallSeconds + Grace /\ calls > 0
      BY <2>1 DEF Budgets, Timing
    <3>2. call'.elapsed <= CallSeconds + Grace /\ call'.elapsed <= WholeCall
      BY <2>e, <2>10
    <3> QED
      BY <2>1, <2>10, <3>1, <3>2 DEF Budgets, Timing
  <2>14. Serving'
    <3>1. process'[worker].open = process[worker].open
      BY <1>0, <2>1, <2>3
    <3> QED
      BY <2>1, <2>10, <3>1 DEF Budgets, Serving
  <2> QED
    BY <2>9, <2>11, <2>12, <2>13, <2>14 DEF Budgets
<1>17. CASE UNCHANGED vars
  BY <1>17 DEF vars, code, history, Budgets, Types, Serving, Metering, Timing, Ceilings
<1> QED
  BY <1>1, <1>g, <1>r, <1>4, <1>6, <1>7, <1>11, <1>12, <1>13, <1>14,
     <1>15, <1>16, <1>17 DEF Next

-----------------------------------------------------------------------------
(* The theorems                                                            *)

\* So it always holds.
LEMMA Invariant == Spec => [](IInv /\ Budgets)
<1>1. IInv /\ Budgets /\ [Next]_vars => Budgets'
  BY BudgetStep
<1> QED
  BY InitIInv, Step, InitBudgets, <1>1, PTL DEF Spec

\* A worker never refuses a request for its id: ids are monotone over all calls
\* and workers (receive in worker.mjs; _sequence in call_typed).
THEOREM IdsAreAccepted == Spec => []RequestsAreAccepted
<1>1. IInv => RequestsAreAccepted
  <2> SUFFICES ASSUME IInv, pc = "choosing"
               PROVE  sequence + 1 > process[worker].lastId
    BY DEF RequestsAreAccepted, NextId
  <2>1. worker \in Worker /\ sequence \in Nat
    BY PiCallerAssumption DEF IInv, Numbered, Behind, Worker, None
  <2>2. process[worker].lastId \in Nat /\ process[worker].lastId <= sequence
    BY <2>1 DEF IInv, Numbered, Behind
  <2> QED
    BY <2>1, <2>2
<1> QED
  BY Invariant, <1>1, PTL

\* The caller keeps at most the one worker in use open, none after close, but
\* for those whose request was over the size limit (call_typed, close).
THEOREM OthersAreClosed == Spec => []OnlyUnsentLeftOpen
<1>1. IInv => OnlyUnsentLeftOpen
  BY DEF IInv
<1> QED
  BY Invariant, <1>1, PTL

\* Every variable keeps its type, and a call has at most three attempts, for any
\* number of calls and any budgets (PiAgentCaller).
THEOREM TypeCorrect == Spec => []TypeOK
<1>1. IInv /\ Budgets => TypeOK
  BY PiCallerAssumption DEF IInv, Numbered, Behind, Budgets, Types, Call, Tally, TypeOK,
                            Worker, None
<1> QED
  BY Invariant, <1>1, PTL

\* Whatever fails in between, a call spends less than its limits before its last
\* response and takes no longer than its seconds, the grace and one close of a
\* worker, and a worker spends less than the limits of the problem before its last
\* response (call_typed, PiWorker.call and close, PiRuntime.run).
THEOREM BudgetsAreKept == Spec => []BudgetsHold
<1>1. IInv /\ Budgets => BudgetsHold
  BY DEF Budgets, Metering, Timing, Ceilings, WholeCall, BudgetsHold
<1> QED
  BY Invariant, <1>1, PTL

-----------------------------------------------------------------------------
(* Usage                                                                   *)

Process == [open : BOOLEAN, lastId : Nat, spent : [Resource -> Nat]]

\* What all processes have spent changes by what one of them spends.
LEMMA SpentChanges ==
  ASSUME process \in [Worker -> Process], NEW w \in Worker, NEW p \in Process,
         process' = [process EXCEPT ![w] = p], NEW r \in Resource
  PROVE  Spent(r)' = Spent(r) + p.spent[r] - process[w].spent[r]
<1> DEFINE f == [v \in Worker |-> process[v].spent[r]]
           h == [v \in Worker |-> process'[v].spent[r]]
<1>1. IsFiniteSet(Worker)
  BY FS_Interval, PiCallerAssumption DEF Worker
<1>2. /\ \A v \in Worker : f[v] \in Int /\ h[v] \in Int
      /\ \A v \in Worker : v # w => h[v] = f[v]
      /\ h[w] = p.spent[r] /\ f[w] = process[w].spent[r]
  BY DEF Process
<1>3. /\ Spent(r) = SumFunctionOnSet(f, Worker)
      /\ Spent(r)' = SumFunctionOnSet(h, Worker)
  BY DEF Spent, SumFunction
<1>4. SumFunctionOnSet(h, Worker) = SumFunctionOnSet(f, Worker) + h[w] - f[w]
  <2> HIDE DEF f, h
  <2> QED
    BY <1>1, <1>2, SumWithOneChanged
<1> QED
  BY <1>2, <1>3, <1>4

\* What the agents' totals add up to changes by what one of them gets.
LEMMA CountedChanges ==
  ASSUME tokens \in [Agent -> Tally], NEW a \in Agent, NEW t \in Tally,
         tokens' = [tokens EXCEPT ![a] = t], NEW k \in Token
  PROVE  Counted(k)' = Counted(k) + t[k] - tokens[a][k]
<1> DEFINE f == [b \in Agent |-> tokens[b][k]]
           h == [b \in Agent |-> tokens'[b][k]]
<1>1. IsFiniteSet(Agent)
  BY PiCallerAssumption
<1>2. /\ \A b \in Agent : f[b] \in Int /\ h[b] \in Int
      /\ \A b \in Agent : b # a => h[b] = f[b]
      /\ h[a] = t[k] /\ f[a] = tokens[a][k]
  BY DEF Tally
<1>3. /\ Counted(k) = SumFunctionOnSet(f, Agent)
      /\ Counted(k)' = SumFunctionOnSet(h, Agent)
  BY DEF Counted, SumFunction
<1>4. SumFunctionOnSet(h, Agent) = SumFunctionOnSet(f, Agent) + h[a] - f[a]
  <2> HIDE DEF f, h
  <2> QED
    BY <1>1, <1>2, SumWithOneChanged
<1> QED
  BY <1>2, <1>3, <1>4

\* Both sums are integers.
LEMMA SumsType ==
  ASSUME process \in [Worker -> Process], tokens \in [Agent -> Tally], NEW k \in Token
  PROVE  Spent(k) \in Int /\ Counted(k) \in Int
<1> DEFINE f == [v \in Worker |-> process[v].spent[k]]
           h == [b \in Agent |-> tokens[b][k]]
<1>1. IsFiniteSet(Worker) /\ IsFiniteSet(Agent)
  BY FS_Interval, PiCallerAssumption DEF Worker
<1>2. (\A v \in Worker : f[v] \in Int) /\ \A b \in Agent : h[b] \in Int
  BY DEF Process, Tally, Resource
<1>3. Spent(k) = SumFunctionOnSet(f, Worker) /\ Counted(k) = SumFunctionOnSet(h, Agent)
  BY DEF Spent, Counted, SumFunction
<1> HIDE DEF f, h
<1> QED
  BY <1>1, <1>2, <1>3, SumType

\* Nothing is spent and nothing counted to begin with.
LEMMA InitUsage == Init => UsageIsAccounted
<1> SUFFICES ASSUME Init, NEW k \in Token
             PROVE  Counted(k) + inflight[k] + lost[k] = Spent(k)
  BY DEF UsageIsAccounted
<1> DEFINE f == [v \in Worker |-> process[v].spent[k]]
           h == [b \in Agent |-> tokens[b][k]]
<1>1. IsFiniteSet(Worker) /\ IsFiniteSet(Agent)
  BY FS_Interval, PiCallerAssumption DEF Worker
<1>2. (\A v \in Worker : f[v] = 0) /\ \A b \in Agent : h[b] = 0
  BY DEF Init, Unused, Nothing, Resource
<1>3. Spent(k) = SumFunctionOnSet(f, Worker) /\ Counted(k) = SumFunctionOnSet(h, Agent)
  BY DEF Spent, Counted, SumFunction
<1>4. Spent(k) = 0 /\ Counted(k) = 0
  <2> HIDE DEF f, h
  <2> QED
    BY <1>1, <1>2, <1>3, SumOfZeros
<1> QED
  BY <1>4 DEF Init, Nothing

\* Steps that spend and count nothing.
LEMMA NothingSpent ==
  ASSUME UsageIsAccounted, UNCHANGED <<tokens, inflight, lost>>,
         \A w \in Worker : process'[w].spent = process[w].spent
  PROVE  UsageIsAccounted'
<1> SUFFICES ASSUME NEW k \in Token
             PROVE  Spent(k)' = Spent(k) /\ Counted(k)' = Counted(k)
  BY DEF UsageIsAccounted
<1>1. [w \in Worker |-> process'[w].spent[k]] = [w \in Worker |-> process[w].spent[k]]
  OBVIOUS
<1> QED
  BY <1>1 DEF Spent, Counted

\* Steps that touch one process, whose expenses grow by what is on its way.
LEMMA NothingCounted ==
  ASSUME process \in [Worker -> Process], tokens \in [Agent -> Tally],
         inflight \in Tally, lost \in Tally, inflight' \in Tally, lost' \in Tally,
         NEW w \in Worker, NEW p \in Process,
         process' = [process EXCEPT ![w] = p], tokens' = tokens, UsageIsAccounted,
         \A k \in Token : p.spent[k] - process[w].spent[k]
                            = (inflight'[k] + lost'[k]) - (inflight[k] + lost[k])
  PROVE  UsageIsAccounted'
<1> SUFFICES ASSUME NEW k \in Token
             PROVE  Counted(k)' + inflight'[k] + lost'[k] = Spent(k)'
  BY DEF UsageIsAccounted
<1>1. Counted(k)' = Counted(k)
  BY DEF Counted
<1>2. Spent(k)' = Spent(k) + p.spent[k] - process[w].spent[k]
  BY SpentChanges DEF Resource
<1>3. /\ p.spent[k] \in Nat /\ process[w].spent[k] \in Nat
      /\ inflight[k] \in Nat /\ lost[k] \in Nat /\ inflight'[k] \in Nat /\ lost'[k] \in Nat
  BY DEF Process, Tally, Resource
<1>4. /\ Spent(k) \in Int /\ Counted(k) \in Int
      /\ Counted(k) + inflight[k] + lost[k] = Spent(k)
      /\ p.spent[k] - process[w].spent[k]
           = (inflight'[k] + lost'[k]) - (inflight[k] + lost[k])
  BY SumsType DEF UsageIsAccounted
<1> QED
  BY <1>1, <1>2, <1>3, <1>4

\* What has arrived is counted for the agent of the call.
LEMMA UsageCounted ==
  ASSUME IInv, Budgets, CountUsage, lost' = lost, UsageIsAccounted,
         \A w \in Worker : process'[w].spent = process[w].spent
  PROVE  UsageIsAccounted'
<1> SUFFICES ASSUME NEW k \in Token
             PROVE  Counted(k)' + inflight'[k] + lost'[k] = Spent(k)'
  BY DEF UsageIsAccounted
<1>1. /\ process \in [Worker -> Process] /\ call.agent \in Agent
      /\ tokens \in [Agent -> Tally] /\ inflight \in Tally /\ lost \in Tally
  BY DEF IInv, Numbered, Process, Budgets, Types, Call
<1>2. Totals(call.agent) \in Tally
  BY <1>1, PlusType DEF Totals
<1>3. Counted(k)' = Counted(k) + Totals(call.agent)[k] - tokens[call.agent][k]
  BY <1>1, <1>2, CountedChanges DEF CountUsage
<1>4. Totals(call.agent)[k] = tokens[call.agent][k] + inflight[k] /\ inflight'[k] = 0
  BY DEF Totals, Plus, CountUsage, Nothing
<1>5. Spent(k)' = Spent(k)
  <2>1. [w \in Worker |-> process'[w].spent[k]] = [w \in Worker |-> process[w].spent[k]]
    OBVIOUS
  <2> QED
    BY <2>1 DEF Spent
<1>6. tokens[call.agent][k] \in Nat /\ inflight[k] \in Nat /\ lost[k] \in Nat
  BY <1>1 DEF Tally
<1>7. /\ Spent(k) \in Int /\ Counted(k) \in Int
      /\ Counted(k) + inflight[k] + lost[k] = Spent(k)
  BY <1>1, SumsType DEF UsageIsAccounted
<1> QED
  BY <1>3, <1>4, <1>5, <1>6, <1>7

\* No step spends what it does not account for.
LEMMA UsageStep ==
  IInv /\ Budgets /\ IInv' /\ Budgets' /\ UsageIsAccounted /\ [Next]_vars
    => UsageIsAccounted'
<1> SUFFICES ASSUME IInv, Budgets, IInv', Budgets', UsageIsAccounted, [Next]_vars
             PROVE  UsageIsAccounted'
  OBVIOUS
<1>0. /\ process \in [Worker -> Process] /\ process' \in [Worker -> Process]
      /\ pc # "idle" => worker \in Worker
      /\ tokens \in [Agent -> Tally] /\ inflight \in Tally /\ lost \in Tally
      /\ inflight' \in Tally /\ lost' \in Tally
      /\ pc = "awaiting" => inflight = Nothing
  <2>1. process \in [Worker -> Process] /\ process' \in [Worker -> Process]
    BY DEF IInv, Numbered, Process
  <2>2. pc # "idle" => worker \in Worker
    BY PiCallerAssumption DEF IInv, Numbered, Worker, None
  <2> QED
    BY <2>1, <2>2 DEF Budgets, Types, Metering
<1>1. ASSUME NEW a \in Agent, BeginCall(a) PROVE UsageIsAccounted'
  <2>1. ASSUME NEW w \in Worker PROVE process'[w].spent = process[w].spent
    <3>1. CASE worker = None
      <4>1. process' = [process EXCEPT ![started'].open = TRUE]
        BY <1>1, <3>1 DEF BeginCall
      <4> QED
        BY <1>0, <4>1 DEF Process
    <3>2. CASE worker # None
      BY <1>1, <3>2 DEF BeginCall
    <3> QED
      BY <3>1, <3>2
  <2> QED
    BY <1>1, <2>1, NothingSpent DEF BeginCall
<1>2. ASSUME \/ GiveUp \/ SendFails
             \/ \E d \in Delays : Return(d) \/ Retry(d) \/ StageFails(d)
      PROVE  UsageIsAccounted'
  BY <1>2, NothingSpent DEF GiveUp, SendFails, Return, Retry, StageFails, history
<1>3. CASE Send \/ Close
  <2>1. \A w \in Worker : process'[w].spent = process[w].spent
    BY <1>0, <1>3 DEF Send, Close, Process
  <2> QED
    BY <1>3, <2>1, NothingSpent DEF Send, Close, history
<1>4. CASE Count
  BY <1>4, UsageCounted DEF Count, history
<1>5. ASSUME NEW d \in Delays, CountRaises(d) PROVE UsageIsAccounted'
  <2>1. \A w \in Worker : process'[w].spent = process[w].spent
    BY <1>0, <1>5 DEF CountRaises, Process
  <2> QED
    BY <1>5, <2>1, UsageCounted DEF CountRaises, history
<1>6. ASSUME NEW d \in Delays, TransportFails(d) PROVE UsageIsAccounted'
  <2> DEFINE p == [process[worker] EXCEPT !.open = FALSE]
  <2>1. worker \in Worker /\ p \in Process /\ p.spent = process[worker].spent
    BY <1>0, <1>6 DEF TransportFails, Process
  <2>2. /\ process' = [process EXCEPT ![worker] = p] /\ tokens' = tokens
        /\ lost' = Plus(lost, inflight) /\ inflight' = Nothing
    BY <1>6 DEF TransportFails
  <2>3. ASSUME NEW k \in Token
        PROVE  p.spent[k] - process[worker].spent[k]
                 = (inflight'[k] + lost'[k]) - (inflight[k] + lost[k])
    <3>1. inflight'[k] = 0 /\ lost'[k] = lost[k] + inflight[k]
      BY <2>2 DEF Plus, Nothing
    <3>2. /\ lost[k] \in Nat /\ inflight[k] \in Nat /\ process[worker].spent[k] \in Nat
          /\ p.spent[k] = process[worker].spent[k]
      BY <1>0, <2>1 DEF Tally, Process, Resource
    <3> QED
      BY <3>1, <3>2
  <2> HIDE DEF p
  <2> QED
    BY <1>0, <2>1, <2>2, <2>3, NothingCounted
<1>7. ASSUME NEW u \in Usages, NEW d \in Delays, NEW e \in Delays, Complete(u, d, e)
      PROVE  UsageIsAccounted'
  <2> DEFINE spent == [r \in Resource |->
                         IF r \in Token THEN process[worker].spent[r] + u[r]
                         ELSE IF r = "responses" THEN process[worker].spent[r] + 1
                         ELSE process[worker].spent[r] + d]
             p == [process[worker] EXCEPT !.spent = spent]
  <2>1. /\ pc = "awaiting" /\ worker \in Worker /\ tokens' = tokens /\ lost' = lost
        /\ inflight' = u /\ u \in Tally
        /\ process' = [process EXCEPT ![worker] = p]
    BY <1>0, <1>7, PiCallerAssumption DEF Complete, Tally
  <2>2. process'[worker] = p /\ p \in Process /\ p.spent = spent
    BY <1>0, <2>1 DEF Process
  <2>3. ASSUME NEW k \in Token
        PROVE  p.spent[k] - process[worker].spent[k]
                 = (inflight'[k] + lost'[k]) - (inflight[k] + lost[k])
    <3>1. p.spent[k] = process[worker].spent[k] + u[k]
      BY <2>2 DEF Resource
    <3>2. /\ lost[k] \in Nat /\ inflight[k] = 0 /\ process[worker].spent[k] \in Nat
          /\ u[k] \in Nat
      BY <1>0, <2>1 DEF Tally, Process, Resource, Nothing
    <3> QED
      BY <2>1, <3>1, <3>2
  <2> HIDE DEF p
  <2> QED
    BY <1>0, <2>1, <2>2, <2>3, NothingCounted
<1>8. ASSUME NEW d \in Delays, NEW e \in Delays, CompletionFails(d, e)
      PROVE  UsageIsAccounted'
  <2> DEFINE p == [process[worker] EXCEPT !.spent["seconds"] = @ + d]
  <2>1. /\ worker \in Worker /\ UNCHANGED <<tokens, inflight, lost>>
        /\ process' = [process EXCEPT ![worker] = p]
    BY <1>0, <1>8 DEF CompletionFails, history
  <2>2. process'[worker] = p /\ p \in Process
    BY <1>0, <2>1
  <2>3. \A k \in Token : p.spent[k] = process[worker].spent[k] /\ p.spent[k] \in Nat
    BY <1>0, <2>1, <2>2 DEF Process, Token, Resource
  <2>4. ASSUME NEW k \in Token
        PROVE  p.spent[k] - process[worker].spent[k]
                 = (inflight'[k] + lost'[k]) - (inflight[k] + lost[k])
    BY <1>0, <2>1, <2>3 DEF Tally
  <2> HIDE DEF p
  <2> QED
    BY <1>0, <2>1, <2>2, <2>4, NothingCounted
<1>9. CASE UNCHANGED vars
  BY <1>9, NothingSpent DEF vars, code, history
<1> QED
  BY <1>1, <1>2, <1>3, <1>4, <1>5, <1>6, <1>7, <1>8, <1>9 DEF Next

\* However the calls, the workers and the log fail, whatever the processes have
\* spent is in the totals of exactly one agent, once, but for what was on its way
\* when a worker failed (usage in call_typed, base.py).
THEOREM UsageAccounted == Spec => []UsageIsAccounted
<1>1. IInv /\ Budgets /\ UsageIsAccounted /\ [Next]_vars /\ (IInv /\ Budgets)'
        => UsageIsAccounted'
  BY UsageStep
<1> QED
  BY InitUsage, Invariant, <1>1, PTL DEF Spec

\* Every step of the caller is a step of the contract of worker w or none of its
\* business.
LEMMA ContractStep ==
  ASSUME NEW w \in Worker, IInv, IInv', Budgets, Next
  PROVE  [Contract(w)!Next]_(WorkerState(w))
<1>0. /\ w \in Nat /\ worker \in Nat /\ started \in Nat /\ started' \in Nat
      /\ worker <= started /\ (pc # "idle" => worker # None)
      /\ worker # None => worker \in Worker
      /\ process \in [Worker -> [open : BOOLEAN, lastId : Nat, spent : [Resource -> Nat]]]
      /\ \A v \in Worker : v > started => ~process[v].open
  BY PiCallerAssumption DEF IInv, Numbered, Future, Worker, None
<1> USE DEF Contract!Step, WorkerState
<1>1. ASSUME NEW a \in Agent, BeginCall(a) PROVE [Contract(w)!Next]_(WorkerState(w))
  <2>1. pc = "idle" /\ pc' \in {"choosing", "idle"}
    BY <1>1 DEF BeginCall
  <2>2. CASE worker = None
    <3>1. /\ started' = started + 1 /\ worker' = started'
          /\ process' = [process EXCEPT ![started'].open = TRUE]
      BY <1>1, <2>2 DEF BeginCall
    <3>2. CASE w = started'
      <4>1. process'[w].open /\ w > started
        BY <1>0, <3>1, <3>2
      <4> QED
        BY <1>0, <2>1, <3>1, <3>2, <4>1 DEF Contract!Start, Contract!Next
    <3>3. CASE w # started'
      <4>1. process'[w] = process[w] /\ (w > started' <=> w > started)
        BY <1>0, <3>1, <3>3
      <4> QED
        BY <2>1, <4>1
    <3> QED
      BY <3>2, <3>3
  <2>3. CASE worker # None
    BY <1>1, <2>1, <2>3 DEF BeginCall
  <2> QED
    BY <2>2, <2>3
<1>2. CASE GiveUp \/ SendFails
  BY <1>2 DEF GiveUp, SendFails, EndCall, history
<1>3. CASE Send
  <2>1. /\ pc = "choosing" /\ pc' = "awaiting" /\ process[worker].open
        /\ UNCHANGED <<worker, started>> /\ worker \in Worker
        /\ process'[w].open = process[w].open
    BY <1>0, <1>3 DEF Send, history
  <2> QED
    BY <1>0, <2>1 DEF Contract!Call, Contract!Next
<1>4. ASSUME UNCHANGED <<worker, started>>, process'[w].open = process[w].open,
             pc \in {"awaiting", "metered"}, pc' \in {"metered", "counted"}
      PROVE  [Contract(w)!Next]_(WorkerState(w))
  BY <1>4 DEF Contract!Usage, Contract!Next
<1>5. CASE Count
  BY <1>4, <1>5 DEF Count, history
<1>6. ASSUME NEW u \in Usages, NEW d \in Delays, NEW e \in Delays, Complete(u, d, e)
      PROVE  [Contract(w)!Next]_(WorkerState(w))
  <2>1. process'[w].open = process[w].open
    BY <1>0, <1>6 DEF Complete
  <2> QED
    BY <1>4, <1>6, <2>1 DEF Complete
<1>7. ASSUME UNCHANGED <<worker, started>>, process'[w].open = process[w].open,
             pc \in {"awaiting", "metered", "counted"}, pc' \in {"idle", "choosing"}
      PROVE  [Contract(w)!Next]_(WorkerState(w))
  BY <1>7 DEF Contract!Answer, Contract!Next
<1>8. ASSUME NEW d \in Delays, Return(d) \/ Retry(d) \/ StageFails(d)
      PROVE  [Contract(w)!Next]_(WorkerState(w))
  BY <1>7, <1>8 DEF Return, Retry, StageFails, AfterFailedStage, EndCall, history
<1>9. ASSUME NEW d \in Delays, NEW e \in Delays, CompletionFails(d, e)
      PROVE  [Contract(w)!Next]_(WorkerState(w))
  <2>1. process'[w].open = process[w].open
    BY <1>0, <1>9 DEF CompletionFails
  <2> QED
    BY <1>7, <1>9, <2>1 DEF CompletionFails, AfterFailedStage, EndCall, history
<1>10. ASSUME UNCHANGED started, process' = [process EXCEPT ![worker].open = FALSE],
              pc \in {"awaiting", "metered", "counted"}, pc' = "idle"
       PROVE  [Contract(w)!Next]_(WorkerState(w))
  <2>1. worker \in Worker /\ process[worker].open
    BY <1>0, <1>10 DEF Budgets, Serving
  <2>2. IF w = worker THEN ~process'[w].open ELSE process'[w] = process[w]
    BY <1>0, <1>10, <2>1
  <2>3. CASE w = worker
    BY <1>0, <1>10, <2>1, <2>2, <2>3 DEF Contract!Fail, Contract!Next
  <2>4. CASE w # worker
    BY <1>10, <2>2, <2>4
  <2> QED
    BY <2>3, <2>4
<1>11. ASSUME NEW d \in Delays, CountRaises(d)
       PROVE  [Contract(w)!Next]_(WorkerState(w))
  BY <1>10, <1>11 DEF CountRaises, EndCall, history
<1>12. ASSUME NEW d \in Delays, TransportFails(d)
       PROVE  [Contract(w)!Next]_(WorkerState(w))
  BY <1>10, <1>12 DEF TransportFails, EndCall
<1>13. CASE Close
  <2>1. /\ pc = "idle" /\ UNCHANGED <<pc, worker, started>>
        /\ process' = IF worker = None THEN process
                      ELSE [process EXCEPT ![worker].open = FALSE]
    BY <1>13 DEF Close, history
  <2>2. CASE w = worker /\ process[w].open
    <3>1. ~process'[w].open /\ ~(w > started)
      BY <1>0, <2>1, <2>2 DEF Worker, None
    <3> QED
      BY <2>1, <2>2, <3>1 DEF Contract!Close, Contract!Next
  <2>3. CASE ~(w = worker /\ process[w].open)
    <3>1. process'[w].open = process[w].open
      BY <1>0, <2>1, <2>3
    <3> QED
      BY <2>1, <3>1
  <2> QED
    BY <2>2, <2>3
<1> QED
  BY <1>1, <1>2, <1>3, <1>5, <1>6, <1>8, <1>9, <1>11, <1>12, <1>13 DEF Next

\* However many workers the caller starts, it uses each of them as the contract
\* says that PiWorker keeps: one call at a time, and none after one that failed
\* (call_typed, close).
THEOREM CallerKeepsContracts ==
  ASSUME NEW w \in Worker
  PROVE  Spec => CallsByContract(w)
<1>1. Init => Contract(w)!Init
  BY PiCallerAssumption DEF Init, Contract!Init, WorkerState, Worker
<1>2. IInv /\ Budgets /\ IInv' /\ [Next]_vars => [Contract(w)!Next]_(WorkerState(w))
  <2>1. ASSUME UNCHANGED vars PROVE UNCHANGED WorkerState(w)
    BY <2>1 DEF vars, code, history, WorkerState
  <2> QED
    BY <2>1, ContractStep
<1> QED
  BY <1>1, <1>2, Invariant, PTL DEF Spec, CallsByContract, Contract!Spec
=============================================================================

--------------------------- MODULE PiWorker_proofs ---------------------------
(***************************************************************************)
(* Proofs about PiWorker, for any number of calls and any capacity of the  *)
(* queue.  The heart is Traffic: while a worker is open, what is on its    *)
(* way belongs to the current request, a usage event before the result,    *)
(* and nothing is on its way, or still to come, once the result is taken.  *)
(* Last, a worker is a bounded number of steps, and one that is closed is  *)
(* never stuck before its end.                                             *)
(***************************************************************************)
EXTENDS PiWorker, TLAPS

-----------------------------------------------------------------------------
(* Type correctness                                                        *)

\* A new worker has its types.
LEMMA InitType == Init => TypeOK
<1> SUFFICES ASSUME Init PROVE TypeOK
  OBVIOUS
<1> USE PiWorkerAssumption DEF Init
<1>1. queue \in Seq(Message) /\ held \in Seq(Message) /\ stdout \in Seq(Line)
  OBVIOUS
<1>2. Len(queue) <= QueueSize
  OBVIOUS
<1>3. id \in 0..MaxCalls /\ job \in 0..MaxCalls
  OBVIOUS
<1>4. outcome \in [Request -> {"none", "answered", "failed", "refused"}]
  OBVIOUS
<1>5. counted \in [Request -> Nat] /\ reported \in [Request -> {0, 1}]
  OBVIOUS
<1> QED
  BY <1>1, <1>2, <1>3, <1>4, <1>5 DEF TypeOK

\* Enqueue keeps the queue within its capacity.
LEMMA EnqueueType ==
  ASSUME TypeOK, NEW m \in Message, Enqueue(m)
  PROVE  queue' \in Seq(Message) /\ Len(queue') <= QueueSize
<1>1. queue \in Seq(Message) /\ Len(queue) <= QueueSize /\ QueueSize \in Nat
  BY PiWorkerAssumption DEF TypeOK
<1>2. CASE queue' = queue
  BY <1>1, <1>2
<1>3. CASE Len(queue) < QueueSize /\ queue' = Append(queue, m)
  <2>1. queue' \in Seq(Message)
    BY <1>1, <1>3
  <2>2. Len(queue') = Len(queue) + 1
    BY <1>1, <1>3
  <2> QED
    BY <2>1, <2>2, <1>1, <1>3
<1> QED
  BY <1>2, <1>3 DEF Enqueue

\* Taking the head of the queue.
LEMMA DequeueType ==
  ASSUME TypeOK, queue # <<>>, queue' = Tail(queue)
  PROVE  queue' \in Seq(Message) /\ Len(queue') <= QueueSize
<1>1. queue \in Seq(Message) /\ Len(queue) <= QueueSize /\ QueueSize \in Nat
  BY PiWorkerAssumption DEF TypeOK
<1>2. queue' \in Seq(Message) /\ Len(queue') = Len(queue) - 1 /\ Len(queue) \in Nat
  BY <1>1
<1> QED
  BY <1>1, <1>2

\* No step leaves the types.
LEMMA TypeStep ==
  ASSUME TypeOK, [Next]_vars
  PROVE  TypeOK'
<1> DEFINE Control == /\ pc \in {"idle", "waiting", "terminating", "killing", "joining"}
                      /\ closed \in BOOLEAN /\ streams \in BOOLEAN
                      /\ writer \in {"done", "writing", "failing"}
                      /\ reader \in {"reading", "ending"}
                      /\ proc \in {"running", "terminated", "killed", "dead"}
<1> DEFINE Ids == id \in 0..MaxCalls /\ job \in 0..MaxCalls
<1> DEFINE Pipes == /\ queue \in Seq(Message) /\ Len(queue) <= QueueSize
                    /\ held \in Seq(Message) /\ stdout \in Seq(Line)
<1> DEFINE Outcomes == {"none", "answered", "failed", "refused"}
<1> DEFINE Histories == /\ outcome \in [Request -> Outcomes]
                        /\ counted \in [Request -> Nat]
                        /\ reported \in [Request -> {0, 1}]
<1>0. Control /\ Ids /\ Pipes /\ Histories
  BY DEF TypeOK
<1>1. Control'
  BY <1>0 DEF Next, vars, caller, threads, process, StartClose, Fail, Call, Refuse,
         RefuseOversized, Close, TimeOut, ReceiveUsage, ReceiveResult, ReceiveFailure,
         AwaitTermination, AwaitKill, CloseStreams, Write, WriteFails, WriterReports,
         ReadLine, ReadFails, ReadEndOfFile, ReaderEnqueues, Report, Answer, Exit
<1>2. Ids'
  BY <1>0, PiWorkerAssumption DEF Next, vars, caller, threads, process, StartClose, Fail,
         Call, Refuse, RefuseOversized, Close, TimeOut, ReceiveUsage, ReceiveResult,
         ReceiveFailure, AwaitTermination, AwaitKill, CloseStreams, Write, WriteFails,
         WriterReports, ReadLine, ReadFails, ReadEndOfFile, ReaderEnqueues, Report, Answer,
         Exit
<1>3. Pipes'
  <2>1. CASE ReceiveUsage \/ ReceiveResult \/ ReceiveFailure
    BY <1>0, <2>1, DequeueType DEF ReceiveUsage, ReceiveResult, ReceiveFailure, process
  <2>2. CASE WriterReports
    <3>1. Error \in Message
      BY DEF Error, Message
    <3> QED
      BY <1>0, <2>2, <3>1, EnqueueType DEF WriterReports, process
  <2>3. CASE ReadLine
    <3>1. Head(stdout) \in Line /\ Head(stdout) # Partial /\ Tail(stdout) \in Seq(Line)
      BY <1>0, <2>3 DEF ReadLine
    <3>2. Head(stdout) \in Message
      BY <3>1 DEF Line, Message, Partial
    <3> QED
      BY <1>0, <2>3, <3>1, <3>2 DEF ReadLine
  <2>4. CASE ReadFails \/ ReadEndOfFile
    <3>1. Error \in Message /\ End \in Message
      BY DEF Error, End, Message
    <3>2. <<Error, End>> \in Seq(Message) /\ <<End>> \in Seq(Message)
      BY <3>1
    <3>3. UNCHANGED <<queue, stdout>> /\ held' \in Seq(Message)
      BY <2>4, <3>2 DEF ReadFails, ReadEndOfFile, process
    <3> QED
      BY <1>0, <3>3
  <2>5. CASE ReaderEnqueues
    <3>1. Head(held) \in Message /\ Tail(held) \in Seq(Message)
      BY <1>0, <2>5 DEF ReaderEnqueues
    <3> QED
      BY <1>0, <2>5, <3>1, EnqueueType DEF ReaderEnqueues, process
  <2>6. CASE Report \/ Answer
    <3>1. /\ [kind |-> "usage", id |-> job] \in Line
          /\ [kind |-> "result", id |-> job] \in Line
      BY <1>0, <2>6, PiWorkerAssumption DEF Report, Answer, Line, Request
    <3>2. stdout' \in Seq(Line)
      <4>1. CASE Report
        BY <1>0, <3>1, <4>1 DEF Report
      <4>2. CASE Answer
        BY <1>0, <3>1, <4>2 DEF Answer
      <4> QED
        BY <2>6, <4>1, <4>2
    <3>3. UNCHANGED <<queue, held>>
      BY <2>6 DEF Report, Answer, threads
    <3> QED
      BY <1>0, <3>2, <3>3
  <2>7. CASE Exit
    <3>1. Partial \in Line
      BY DEF Partial, Line
    <3>2. stdout' \in Seq(Line)
      <4>1. CASE stdout' = stdout
        BY <1>0, <4>1
      <4>2. CASE stdout' = Append(stdout, Partial)
        BY <1>0, <3>1, <4>2
      <4> QED
        BY <2>7, <4>1, <4>2 DEF Exit
    <3>3. UNCHANGED <<queue, held>>
      BY <2>7 DEF Exit, threads
    <3> QED
      BY <1>0, <3>2, <3>3
  <2>8. CASE UNCHANGED <<queue, held, stdout>>
    BY <1>0, <2>8
  <2> QED
    BY <2>1, <2>2, <2>3, <2>4, <2>5, <2>6, <2>7, <2>8 DEF Next, vars, caller, threads,
       process, Call, Refuse, RefuseOversized, Close, TimeOut, AwaitTermination, AwaitKill,
       CloseStreams, Write, WriteFails
<1>4. outcome' \in [Request -> Outcomes]
  <2>1. CASE UNCHANGED outcome
    BY <1>0, <2>1
  <2>2. CASE Refuse \/ RefuseOversized
    BY <1>0, <2>2 DEF Refuse, RefuseOversized
  <2>3. CASE outcome' = [outcome EXCEPT ![id] = "failed"]
    BY <1>0, <2>3
  <2>4. CASE ReceiveResult
    BY <1>0, <2>4 DEF ReceiveResult
  <2> QED
    BY <2>1, <2>2, <2>3, <2>4 DEF Next, vars, caller, Call, Close, TimeOut,
       ReceiveUsage, ReceiveFailure, Fail, AwaitTermination, AwaitKill, CloseStreams,
       Write, WriteFails, WriterReports, ReadLine, ReadFails, ReadEndOfFile,
       ReaderEnqueues, Report, Answer, Exit
<1>5. counted' \in [Request -> Nat]
  <2>1. CASE UNCHANGED counted
    BY <1>0, <2>1
  <2>2. CASE ReceiveUsage
    <3>1. counted' = [counted EXCEPT ![id] = counted[id] + 1]
      BY <2>2 DEF ReceiveUsage
    <3>2. \A n \in Nat : n + 1 \in Nat
      OBVIOUS
    <3> QED
      BY <1>0, <3>1, <3>2, Zenon
  <2> QED
    BY <2>1, <2>2 DEF Next, vars, caller, Call, Refuse, RefuseOversized, Close, TimeOut,
       ReceiveResult, ReceiveFailure, AwaitTermination, AwaitKill, CloseStreams, Write,
       WriteFails, WriterReports, ReadLine, ReadFails, ReadEndOfFile, ReaderEnqueues,
       Report, Answer, Exit
<1>6. reported' \in [Request -> {0, 1}]
  <2>1. CASE UNCHANGED reported
    BY <1>0, <2>1
  <2>2. CASE Report
    BY <1>0, <2>2 DEF Report
  <2> QED
    BY <2>1, <2>2 DEF Next, vars, process, Call, Refuse, RefuseOversized, Close, TimeOut,
       ReceiveUsage, ReceiveResult, ReceiveFailure, AwaitTermination, AwaitKill,
       CloseStreams, Write, WriteFails, WriterReports, ReadLine, ReadFails, ReadEndOfFile,
       ReaderEnqueues, Answer, Exit
<1> QED
  BY <1>1, <1>2, <1>3, <1>4, <1>5, <1>6 DEF TypeOK

-----------------------------------------------------------------------------
(* Closing                                                                 *)

\* What each stage of close has done to the process and the pipes.
Closing ==
    /\ pc = "waiting" => ~closed
    /\ pc \in {"terminating", "killing", "joining"} => closed
    /\ pc = "killing" => proc \in {"killed", "dead"}
    /\ pc = "joining" => proc = "dead"
    /\ closed => proc # "running"
    /\ ~streams => closed /\ proc = "dead"
    /\ ClosedMeansEnded

\* Every step keeps Closing.
LEMMA ClosingStep ==
  ASSUME TypeOK, Closing, [Next]_vars
  PROVE  Closing'
<1> USE DEF TypeOK, Closing, ClosedMeansEnded, caller, threads, process, StartClose, Fail
<1>1. CASE Call \/ Refuse \/ RefuseOversized \/ Close \/ TimeOut
  BY <1>1 DEF Call, Refuse, RefuseOversized, Close, TimeOut
<1>2. CASE ReceiveUsage \/ ReceiveResult \/ ReceiveFailure
  BY <1>2 DEF ReceiveUsage, ReceiveResult, ReceiveFailure
<1>3. CASE AwaitTermination \/ AwaitKill \/ CloseStreams
  BY <1>3 DEF AwaitTermination, AwaitKill, CloseStreams
<1>4. CASE Write \/ WriteFails \/ WriterReports
  BY <1>4 DEF Write, WriteFails, WriterReports
<1>5. CASE ReadLine \/ ReadFails \/ ReadEndOfFile \/ ReaderEnqueues
  BY <1>5 DEF ReadLine, ReadFails, ReadEndOfFile, ReaderEnqueues
<1>6. CASE Report \/ Answer \/ Exit
  BY <1>6 DEF Report, Answer, Exit
<1>7. CASE UNCHANGED vars
  BY <1>7 DEF vars
<1> QED
  BY <1>1, <1>2, <1>3, <1>4, <1>5, <1>6, <1>7 DEF Next

-----------------------------------------------------------------------------
(* What is under way                                                       *)

IsEvent(m) == m.kind \in {"usage", "result"}

Has(s, kind) == \E k \in 1..Len(s) : s[k].kind = kind
Empty(s)     == ~Has(s, "usage") /\ ~Has(s, "result")

\* The events of s are of request r, with at most one usage event and at most
\* one result after it.
InOrder(s, r) ==
    /\ \A k \in 1..Len(s) : IsEvent(s[k]) => s[k].id = r
    /\ \A k, l \in 1..Len(s) :
         k < l /\ IsEvent(s[k]) /\ IsEvent(s[l]) =>
            s[k].kind = "usage" /\ s[l].kind = "result"

\* The events of s and those of t, which are behind them, are still in order.
Before(s, t) ==
    /\ Has(s, "result") => Empty(t)
    /\ Has(t, "usage") => Empty(s)

\* What a sequence has with m at its end.
LEMMA AppendHas ==
  ASSUME NEW S, NEW s \in Seq(S), NEW m \in S, NEW kind
  PROVE  Has(Append(s, m), kind) <=> Has(s, kind) \/ m.kind = kind
<1>1. Len(s) \in Nat /\ Len(Append(s, m)) = Len(s) + 1
  OBVIOUS
<1>2. \A k \in 1..Len(s) : Append(s, m)[k] = s[k]
  OBVIOUS
<1>3. Append(s, m)[Len(s) + 1] = m
  OBVIOUS
<1>4. \A k : k \in 1..(Len(s) + 1) <=> k \in 1..Len(s) \/ k = Len(s) + 1
  BY <1>1
<1> QED
  BY <1>1, <1>2, <1>3, <1>4 DEF Has

\* When m may be put behind s without disturbing the order.
LEMMA AppendInOrder ==
  ASSUME NEW S, NEW s \in Seq(S), NEW m \in S, NEW r, InOrder(s, r),
         IsEvent(m) => m.id = r /\ ~Has(s, "result"),
         m.kind = "usage" => Empty(s)
  PROVE  InOrder(Append(s, m), r)
<1> DEFINE t == Append(s, m)
<1>1. Len(s) \in Nat /\ Len(t) = Len(s) + 1
  OBVIOUS
<1>2. \A k \in 1..Len(s) : t[k] = s[k]
  OBVIOUS
<1>3. t[Len(s) + 1] = m
  OBVIOUS
<1>4. \A k : k \in 1..Len(t) <=> k \in 1..Len(s) \/ k = Len(s) + 1
  BY <1>1
<1> HIDE DEF t
<1>5. \A k \in 1..Len(t) : IsEvent(t[k]) => t[k].id = r
  BY <1>2, <1>3, <1>4 DEF InOrder
<1>6. ASSUME NEW k \in 1..Len(t), NEW l \in 1..Len(t), k < l, IsEvent(t[k]), IsEvent(t[l])
      PROVE  t[k].kind = "usage" /\ t[l].kind = "result"
  <2>1. k \in 1..Len(s) /\ t[k] = s[k]
    BY <1>1, <1>2, <1>4, <1>6
  <2>2. CASE l \in 1..Len(s)
    BY <1>2, <1>6, <2>1, <2>2 DEF InOrder
  <2>3. CASE t[l] = m
    BY <1>6, <2>1, <2>3 DEF Has, Empty, IsEvent
  <2> QED
    BY <1>3, <1>4, <2>2, <2>3
<1> QED
  BY <1>5, <1>6 DEF t, InOrder

\* What a sequence has beside its head.
LEMMA TailHas ==
  ASSUME NEW S, NEW s \in Seq(S), s # <<>>, NEW kind
  PROVE  Has(s, kind) <=> Head(s).kind = kind \/ Has(Tail(s), kind)
<1>1. Len(s) \in Nat \ {0} /\ Len(Tail(s)) = Len(s) - 1 /\ Head(s) = s[1]
  OBVIOUS
<1>2. \A k \in 1..(Len(s) - 1) : Tail(s)[k] = s[k + 1]
  OBVIOUS
<1>3. \A k \in 1..Len(s) : k = 1 \/ (k - 1 \in 1..(Len(s) - 1) /\ (k - 1) + 1 = k)
  BY <1>1
<1>4. 1 \in 1..Len(s) /\ \A k \in 1..(Len(s) - 1) : k + 1 \in 1..Len(s)
  BY <1>1
<1> QED
  BY <1>1, <1>2, <1>3, <1>4 DEF Has

\* What the order says of a head and of what is behind it.
LEMMA TailInOrder ==
  ASSUME NEW S, NEW s \in Seq(S), s # <<>>, NEW r, InOrder(s, r)
  PROVE  /\ InOrder(Tail(s), r)
         /\ IsEvent(Head(s)) => Head(s).id = r
         /\ Head(s).kind = "result" => Empty(Tail(s))
         /\ Head(s).kind = "usage" => ~Has(Tail(s), "usage")
<1>1. Len(s) \in Nat \ {0} /\ Len(Tail(s)) = Len(s) - 1 /\ Head(s) = s[1]
  OBVIOUS
<1>2. \A k \in 1..(Len(s) - 1) : Tail(s)[k] = s[k + 1]
  OBVIOUS
<1>3. 1 \in 1..Len(s) /\ \A k \in 1..(Len(s) - 1) : k + 1 \in 1..Len(s) /\ 1 < k + 1
  BY <1>1
<1>4. \A k, l \in 1..(Len(s) - 1) : k < l => k + 1 < l + 1
  BY <1>1
<1>5. InOrder(Tail(s), r)
  BY <1>1, <1>2, <1>3, <1>4 DEF InOrder
<1>6. IsEvent(Head(s)) => Head(s).id = r
  BY <1>1, <1>3 DEF InOrder
<1>7. ASSUME IsEvent(Head(s)), NEW k \in 1..Len(Tail(s)), IsEvent(Tail(s)[k])
      PROVE  Head(s).kind = "usage" /\ Tail(s)[k].kind = "result"
  BY <1>1, <1>2, <1>3, <1>7 DEF InOrder
<1> QED
  BY <1>5, <1>6, <1>7 DEF IsEvent, Has, Empty

Row(s, t, u) == s \o t \o u

\* An element of three sequences in a row is one of one of them.
LEMMA RowElement ==
  ASSUME NEW S, NEW s \in Seq(S), NEW t \in Seq(S), NEW u \in Seq(S),
         NEW i \in DOMAIN Row(s, t, u)
  PROVE  \/ \E k \in 1..Len(s) : Row(s, t, u)[i] = s[k]
         \/ \E k \in 1..Len(t) : Row(s, t, u)[i] = t[k]
         \/ \E k \in 1..Len(u) : Row(s, t, u)[i] = u[k]
<1> DEFINE v == s \o t
<1> DEFINE w == Row(s, t, u)
<1>0. w = v \o u
  BY DEF Row
<1>1. v \in Seq(S) /\ Len(s) \in Nat /\ Len(t) \in Nat /\ Len(u) \in Nat
  OBVIOUS
<1>2. /\ Len(v) = Len(s) + Len(t)
      /\ \A k \in 1..Len(v) : v[k] = IF k <= Len(s) THEN s[k] ELSE t[k - Len(s)]
  OBVIOUS
<1>3. /\ i \in 1..(Len(v) + Len(u))
      /\ \A k \in 1..(Len(v) + Len(u)) :
           w[k] = IF k <= Len(v) THEN v[k] ELSE u[k - Len(v)]
  BY <1>0, <1>1
<1> HIDE DEF v, w
<1>4. CASE i <= Len(s)
  <2>1. i \in 1..Len(s) /\ i <= Len(v)
    BY <1>1, <1>2, <1>3, <1>4
  <2>2. w[i] = s[i]
    BY <1>1, <1>2, <1>3, <1>4, <2>1
  <2> QED
    BY <2>1, <2>2 DEF w
<1>5. CASE i > Len(s) /\ i <= Len(v)
  <2>1. i - Len(s) \in 1..Len(t)
    BY <1>1, <1>2, <1>3, <1>5
  <2>2. w[i] = t[i - Len(s)]
    BY <1>1, <1>2, <1>3, <1>5
  <2> QED
    BY <2>1, <2>2 DEF w
<1>6. CASE i > Len(v)
  <2>1. i - Len(v) \in 1..Len(u)
    BY <1>1, <1>2, <1>3, <1>6
  <2>2. w[i] = u[i - Len(v)]
    BY <1>1, <1>2, <1>3, <1>6
  <2> QED
    BY <2>1, <2>2 DEF w
<1> QED
  BY <1>1, <1>2, <1>3, <1>4, <1>5, <1>6

\* Moving the oldest line of t behind those of s.
LEMMA Move ==
  ASSUME NEW S, NEW s \in Seq(S), NEW t \in Seq(S), t # <<>>, NEW r,
         InOrder(s, r), InOrder(t, r), Before(s, t)
  PROVE  /\ InOrder(Append(s, Head(t)), r) /\ InOrder(Tail(t), r)
         /\ Before(Append(s, Head(t)), Tail(t))
         /\ \A kind : Has(Append(s, Head(t)), kind) \/ Has(Tail(t), kind)
                        <=> Has(s, kind) \/ Has(t, kind)
<1>1. Head(t) \in S
  OBVIOUS
<1>2. /\ \A kind : Has(Append(s, Head(t)), kind) <=> Has(s, kind) \/ Head(t).kind = kind
      /\ \A kind : Has(t, kind) <=> Head(t).kind = kind \/ Has(Tail(t), kind)
  BY <1>1, AppendHas, TailHas
<1>3. /\ InOrder(Tail(t), r)
      /\ IsEvent(Head(t)) => Head(t).id = r
      /\ Head(t).kind = "result" => Empty(Tail(t))
      /\ Head(t).kind = "usage" => ~Has(Tail(t), "usage")
  BY TailInOrder
<1>4. InOrder(Append(s, Head(t)), r)
  BY <1>1, <1>2, <1>3, AppendInOrder DEF Before, Empty, IsEvent
<1> QED
  BY <1>2, <1>3, <1>4 DEF Before, Empty

-----------------------------------------------------------------------------
(* The invariant of an open worker                                         *)

Ordered ==
    /\ InOrder(queue, id) /\ InOrder(held, id) /\ InOrder(stdout, id)
    /\ Before(queue, held) /\ Before(queue, stdout) /\ Before(held, stdout)

Somewhere(kind) == Has(queue, kind) \/ Has(held, kind) \/ Has(stdout, kind)
Nowhere         == ~Somewhere("usage") /\ ~Somewhere("result")

\* What is under way while the worker is open.
Traffic ==
    /\ Ordered
    /\ pc = "idle" => Nowhere /\ job = 0 /\ writer = "done"
    /\ pc = "waiting" => id # 0 /\ outcome[id] = "none"
    /\ writer # "done" => Nowhere /\ job = 0 /\ reported[id] = 0
    /\ Somewhere("result") => job = 0
    /\ job # 0 => job = id
    /\ pc = "waiting" /\ reported[id] = 1 /\ counted[id] = 0 => Somewhere("usage")
    /\ Somewhere("usage") => reported[id] = 1 /\ counted[id] = 0

\* The histories, of a closed worker too.
Books ==
    /\ \A r \in Request : r > id => /\ reported[r] = 0 /\ counted[r] = 0
                                    /\ outcome[r] = "none"
    /\ job # 0 => job <= id /\ outcome[job] # "answered"
    /\ UsageIsCounted

IInv == TypeOK /\ Closing /\ (~closed => Traffic) /\ Books

\* Every step of a worker that stays open keeps Traffic.
LEMMA TrafficStep ==
  ASSUME TypeOK, Closing, Traffic, Books, Next, ~closed, ~closed'
  PROVE  Traffic'
<1>0. /\ queue \in Seq(Message) /\ held \in Seq(Message) /\ stdout \in Seq(Line)
      /\ pc \in {"idle", "waiting"} /\ streams
      /\ id \in 0..MaxCalls /\ id \in Int /\ MaxCalls \in Nat /\ job \in Int
  BY PiWorkerAssumption DEF TypeOK, Closing
<1> USE DEF Traffic
<1>1. CASE Call
  <2>1. id' = id + 1 /\ id' \in Request
    BY <1>0, <1>1 DEF Call, Request
  <2>2. reported[id'] = 0 /\ counted[id'] = 0 /\ outcome[id'] = "none"
    BY <1>0, <2>1 DEF Books, Request
  <2>3. InOrder(queue, id') /\ InOrder(held, id') /\ InOrder(stdout, id')
    BY <1>1 DEF Call, Nowhere, Somewhere, Has, InOrder, IsEvent
  <2>4. UNCHANGED <<queue, held, stdout, job, reported, counted, outcome>>
    BY <1>1 DEF Call, process
  <2>5. Ordered' /\ Nowhere'
    BY <1>1, <2>3, <2>4 DEF Call, Ordered, Nowhere, Somewhere, Before, Empty
  <2> QED
    BY <1>0, <1>1, <2>1, <2>2, <2>4, <2>5 DEF Call, Nowhere
<1>2. CASE RefuseOversized
  <2>1. InOrder(queue, id') /\ InOrder(held, id') /\ InOrder(stdout, id')
    BY <1>2 DEF RefuseOversized, Nowhere, Somewhere, Has, InOrder, IsEvent
  <2>2. UNCHANGED <<queue, held, stdout, job, pc, writer>> /\ pc = "idle"
    BY <1>2 DEF RefuseOversized, threads, process
  <2> QED
    BY <2>1, <2>2 DEF Ordered, Nowhere, Somewhere, Before, Empty
<1>3. ASSUME queue # <<>>, queue' = Tail(queue)
      PROVE  /\ InOrder(queue', id)
             /\ \A kind : Has(queue, kind) <=> Head(queue).kind = kind \/ Has(queue', kind)
             /\ Head(queue).kind = "result" => Empty(queue')
             /\ Head(queue).kind = "usage" => ~Has(queue', "usage")
  BY <1>0, <1>3, TailHas, TailInOrder DEF Ordered
<1>4. CASE ReceiveUsage
  <2>1. queue' = Tail(queue) /\ queue # <<>> /\ Head(queue).kind = "usage"
    BY <1>4 DEF ReceiveUsage
  <2>2. ~Somewhere("usage")'
    BY <1>3, <1>4, <2>1 DEF ReceiveUsage, Ordered, Before, Empty, Somewhere, process
  <2>3. /\ UNCHANGED <<held, stdout, pc, id, reported, outcome, job, writer>>
        /\ counted' = [counted EXCEPT ![id] = counted[id] + 1]
        /\ id \in Request /\ pc = "waiting"
    BY <1>0, <1>4 DEF ReceiveUsage, Fail, StartClose, Request
  <2>4. counted[id] = 0
    BY <1>3, <2>1 DEF Somewhere
  <2>5. counted'[id] = 1
    BY <2>3, <2>4 DEF TypeOK
  <2>6. Ordered' /\ (Nowhere => Nowhere') /\ (Somewhere("result")' => Somewhere("result"))
    BY <1>3, <2>1, <2>3 DEF Ordered, Nowhere, Somewhere, Before, Empty
  <2> QED
    BY <2>2, <2>3, <2>5, <2>6
<1>5. CASE ReceiveResult
  <2>1. queue' = Tail(queue) /\ queue # <<>> /\ Head(queue).kind = "result"
    BY <1>5 DEF ReceiveResult
  <2>2. Nowhere'
    BY <1>3, <1>5, <2>1 DEF ReceiveResult, Ordered, Before, Empty, Nowhere, Somewhere,
       process
  <2>3. Has(queue, "result")
    BY <1>3, <2>1
  <2>4. writer = "done" /\ job = 0
    BY <2>3 DEF Nowhere, Somewhere
  <2> QED
    BY <1>3, <1>5, <2>1, <2>2, <2>4 DEF ReceiveResult, Ordered, Before, Empty, Nowhere,
       Somewhere, process
<1>6. CASE ReceiveFailure \/ TimeOut \/ Close \/ Refuse
  BY <1>6 DEF ReceiveFailure, TimeOut, Close, Refuse, Fail, StartClose
<1>7. CASE AwaitTermination \/ AwaitKill \/ CloseStreams
  BY <1>0, <1>7 DEF AwaitTermination, AwaitKill, CloseStreams
<1>8. CASE Write
  <2>1. UNCHANGED <<queue, held, stdout, pc, id, counted, reported, outcome>>
    BY <1>8 DEF Write, caller
  <2> QED
    BY <1>0, <1>8, <2>1 DEF Write, Ordered, Nowhere, Somewhere
<1>9. CASE WriteFails
  <2>1. /\ UNCHANGED <<queue, held, stdout, pc, id, counted, reported, outcome, job>>
        /\ pc = "waiting" /\ writer # "done"
    BY <1>0, <1>9 DEF WriteFails, caller, process
  <2> QED
    BY <2>1 DEF Ordered, Nowhere, Somewhere
<1>10. CASE WriterReports
  <2>1. Error \in Message /\ ~IsEvent(Error)
    BY DEF Error, Message, IsEvent
  <2>2. queue' = Append(queue, Error)
    BY <1>10 DEF WriterReports, Enqueue
  <2>3. /\ InOrder(queue', id)
        /\ Has(queue', "usage") <=> Has(queue, "usage")
        /\ Has(queue', "result") <=> Has(queue, "result")
    BY <1>0, <2>1, <2>2, AppendHas, AppendInOrder DEF Ordered, IsEvent
  <2>4. /\ UNCHANGED <<held, stdout, pc, id, counted, reported, outcome, job>>
        /\ pc = "waiting" /\ writer # "done" /\ writer' = "done"
    BY <1>0, <1>10 DEF WriterReports, caller, process
  <2> QED
    BY <2>3, <2>4 DEF Ordered, Nowhere, Somewhere, Before, Empty
<1>11. CASE ReadLine
  <2>1. /\ held = <<>> /\ stdout # <<>> /\ Head(stdout) \in Line
        /\ held' = <<Head(stdout)>> /\ stdout' = Tail(stdout)
        /\ UNCHANGED <<queue, pc, id, counted, reported, outcome, job, writer>>
    BY <1>0, <1>11 DEF ReadLine, caller
  <2>2. held \in Seq(Line) /\ held' = Append(held, Head(stdout))
    BY <2>1
  <2> DEFINE h == Append(held, Head(stdout))
  <2>3. /\ InOrder(h, id) /\ InOrder(Tail(stdout), id) /\ Before(h, Tail(stdout))
        /\ \A kind : Has(h, kind) \/ Has(Tail(stdout), kind)
                       <=> Has(held, kind) \/ Has(stdout, kind)
    <3>1. /\ stdout \in Seq(Line) /\ held \in Seq(Line) /\ stdout # <<>>
          /\ InOrder(held, id) /\ InOrder(stdout, id) /\ Before(held, stdout)
      BY <1>0, <2>1, <2>2 DEF Ordered
    <3> HIDE DEF Traffic
    <3> QED
      BY ONLY <3>1, Move
  <2>4. /\ InOrder(held', id) /\ InOrder(stdout', id) /\ Before(held', stdout')
        /\ \A kind : Has(held', kind) \/ Has(stdout', kind)
                       <=> Has(held, kind) \/ Has(stdout, kind)
    BY <2>1, <2>2, <2>3, Zenon
  <2> QED
    BY <2>1, <2>4 DEF Ordered, Nowhere, Somewhere, Before, Empty
<1>12. CASE ReadFails \/ ReadEndOfFile
  <2>1. /\ held = <<>> /\ (held' = <<Error, End>> \/ held' = <<End>>)
        /\ UNCHANGED <<queue, stdout, pc, id, counted, reported, outcome, job, writer>>
    BY <1>0, <1>12 DEF ReadFails, ReadEndOfFile, caller, process
  <2>2. InOrder(held', id) /\ Empty(held') /\ Empty(held)
    BY <2>1 DEF Error, End, InOrder, IsEvent, Empty, Has
  <2> QED
    BY <2>1, <2>2 DEF Ordered, Nowhere, Somewhere, Before, Empty
<1>13. CASE ReaderEnqueues
  <2>1. /\ held # <<>> /\ queue' = Append(queue, Head(held)) /\ held' = Tail(held)
        /\ UNCHANGED <<stdout, pc, id, counted, reported, outcome, job, writer>>
    BY <1>0, <1>13 DEF ReaderEnqueues, Enqueue, caller, process
  <2>2. /\ InOrder(queue', id) /\ InOrder(held', id) /\ Before(queue', held')
        /\ \A kind : Has(queue', kind) \/ Has(held', kind)
                       <=> Has(queue, kind) \/ Has(held, kind)
    BY <1>0, <2>1, Move DEF Ordered
  <2> QED
    BY <2>1, <2>2 DEF Ordered, Nowhere, Somewhere, Before, Empty
<1>14. CASE Report
  <2>1. /\ job = id /\ job # 0 /\ reported[id] = 0 /\ id \in Request
        /\ stdout' = Append(stdout, [kind |-> "usage", id |-> id])
        /\ reported' = [reported EXCEPT ![id] = 1]
        /\ UNCHANGED <<queue, held, pc, id, counted, outcome, job, writer>>
    BY <1>0, <1>14 DEF Report, caller, threads, Request
  <2>2. [kind |-> "usage", id |-> id] \in Line
    BY <2>1 DEF Line
  <2>3. Nowhere /\ writer = "done" /\ pc = "waiting"
    BY <1>0, <2>1 DEF Nowhere
  <2>4. InOrder(stdout', id) /\ Has(stdout', "usage") /\ ~Has(stdout', "result")
    BY <1>0, <2>1, <2>2, <2>3, AppendHas, AppendInOrder
       DEF Ordered, Nowhere, Somewhere, Empty
  <2>5. reported'[id] = 1 /\ counted[id] = 0
    BY <2>1 DEF TypeOK, Books, UsageIsCounted
  <2> QED
    BY <2>1, <2>3, <2>4, <2>5 DEF Ordered, Nowhere, Somewhere, Before, Empty
<1>15. CASE Answer
  <2>1. /\ job = id /\ job # 0 /\ id \in Request /\ job' = 0
        /\ stdout' = Append(stdout, [kind |-> "result", id |-> id])
        /\ UNCHANGED <<queue, held, pc, id, counted, reported, outcome, writer>>
    BY <1>0, <1>15 DEF Answer, caller, threads, Request
  <2>2. [kind |-> "result", id |-> id] \in Line
    BY <2>1 DEF Line
  <2>3. ~Somewhere("result") /\ writer = "done" /\ pc = "waiting"
    BY <1>0, <2>1
  <2>4. /\ InOrder(stdout', id)
        /\ Has(stdout', "usage") <=> Has(stdout, "usage")
    BY <1>0, <2>1, <2>2, <2>3, AppendHas, AppendInOrder DEF Ordered, Somewhere
  <2> QED
    BY <2>1, <2>3, <2>4 DEF Ordered, Somewhere, Before, Empty
<1>16. CASE Exit
  <2>1. Partial \in Line /\ ~IsEvent(Partial)
    BY DEF Partial, Line, IsEvent
  <2>2. /\ InOrder(stdout', id)
        /\ Has(stdout', "usage") <=> Has(stdout, "usage")
        /\ Has(stdout', "result") <=> Has(stdout, "result")
    <3>1. CASE stdout' = stdout
      BY <3>1 DEF Ordered
    <3>2. CASE stdout' = Append(stdout, Partial)
      BY <1>0, <2>1, <3>2, AppendHas, AppendInOrder DEF Ordered, IsEvent
    <3> QED
      BY <1>16, <3>1, <3>2 DEF Exit
  <2>3. UNCHANGED <<queue, held, pc, id, counted, reported, outcome, writer>> /\ job' = 0
    BY <1>16 DEF Exit, caller, threads
  <2> QED
    BY <2>2, <2>3 DEF Ordered, Nowhere, Somewhere, Before, Empty
<1> QED
  BY <1>1, <1>2, <1>4, <1>5, <1>6, <1>7, <1>8, <1>9, <1>10, <1>11, <1>12, <1>13, <1>14,
     <1>15, <1>16 DEF Next

\* Usage is booked once: a call that takes its result has counted what was
\* reported, since the usage was ahead of the result.
LEMMA BooksStep ==
  ASSUME TypeOK, Closing, ~closed => Traffic, Books, [Next]_vars
  PROVE  Books'
<1>0. /\ id \in 0..MaxCalls /\ id \in Int /\ MaxCalls \in Nat /\ job \in Int /\ job >= 0
      /\ \A r \in Request : r \in Int /\ r >= 1
      /\ queue \in Seq(Message)
      /\ outcome \in [Request -> {"none", "answered", "failed", "refused"}]
      /\ counted \in [Request -> Nat] /\ reported \in [Request -> {0, 1}]
  BY PiWorkerAssumption DEF TypeOK, Request
<1>1. CASE Call
  <2>1. id' = id + 1 /\ UNCHANGED <<job, outcome, counted, reported>>
    BY <1>1 DEF Call, process
  <2> QED
    BY <1>0, <2>1 DEF Books, UsageIsCounted
<1>2. CASE Refuse \/ RefuseOversized
  <2>1. /\ id' = id + 1 /\ UNCHANGED <<job, counted, reported>>
        /\ outcome' = [outcome EXCEPT ![id'] = "refused"]
    BY <1>2 DEF Refuse, RefuseOversized, process
  <2>2. \A r \in Request : r # id' => outcome'[r] = outcome[r]
    BY <1>0, <2>1
  <2>3. \A r \in Request : outcome'[r] = "answered" => outcome[r] = "answered"
    BY <1>0, <2>1
  <2>4. job # 0 => job \in Request /\ outcome'[job] # "answered"
    BY <1>0, <2>3 DEF Books, Request
  <2> QED
    BY <1>0, <2>1, <2>2, <2>3, <2>4 DEF Books, UsageIsCounted
<1>3. ASSUME Fail \/ UNCHANGED outcome, UNCHANGED <<id, counted, reported>>,
             job' \in {job, 0}
      PROVE  Books'
  <2>1. outcome' = [outcome EXCEPT ![id] = "failed"] \/ outcome' = outcome
    BY <1>3 DEF Fail
  <2>2. \A r \in Request : /\ outcome'[r] \in {outcome[r], "failed"}
                           /\ r > id => outcome'[r] = outcome[r]
    BY <1>0, <2>1
  <2>3. job # 0 => job \in Request
    BY <1>0 DEF Books, Request
  <2>4. id' = id /\ counted' = counted /\ reported' = reported
    BY <1>3
  <2>5. \A r \in Request : r > id' => /\ reported'[r] = 0 /\ counted'[r] = 0
                                      /\ outcome'[r] = "none"
    BY <1>0, <2>2, <2>4 DEF Books
  <2>6. job' # 0 => job' <= id' /\ outcome'[job'] # "answered"
    BY <1>0, <1>3, <2>2, <2>3, <2>4 DEF Books
  <2>7. UsageIsCounted'
    BY <1>0, <2>2, <2>4 DEF Books, UsageIsCounted
  <2> QED
    BY <2>5, <2>6, <2>7 DEF Books
<1>4. CASE ReceiveFailure \/ TimeOut \/ Close \/ AwaitTermination \/ AwaitKill
           \/ CloseStreams \/ WriteFails \/ WriterReports \/ ReadLine \/ ReadFails
           \/ ReadEndOfFile \/ ReaderEnqueues \/ Answer \/ Exit \/ UNCHANGED vars
  BY <1>3, <1>4 DEF ReceiveFailure, TimeOut, Close, AwaitTermination, AwaitKill,
     CloseStreams, WriteFails, WriterReports, ReadLine, ReadFails, ReadEndOfFile,
     ReaderEnqueues, Answer, Exit, vars, caller, threads, process
<1>5. CASE ReceiveUsage
  <2>1. /\ Fail \/ UNCHANGED outcome
        /\ counted' = [counted EXCEPT ![id] = counted[id] + 1]
        /\ UNCHANGED <<id, job, reported>>
        /\ pc = "waiting" /\ queue # <<>> /\ Head(queue).kind = "usage"
    BY <1>5 DEF ReceiveUsage
  <2>2. Traffic /\ Somewhere("usage")
    BY <1>0, <2>1, TailHas DEF Closing, Somewhere
  <2>3. id \in Request /\ counted[id] = 0 /\ reported[id] = 1 /\ outcome[id] = "none"
    BY <1>0, <2>1, <2>2 DEF Traffic, Request
  <2>4. outcome' = [outcome EXCEPT ![id] = "failed"] \/ outcome' = outcome
    BY <2>1 DEF Fail
  <2>5. /\ outcome'[id] # "answered" /\ counted'[id] = 1
        /\ \A r \in Request : r # id => outcome'[r] = outcome[r] /\ counted'[r] = counted[r]
    BY <1>0, <2>1, <2>3, <2>4
  <2>6. job # 0 => job \in Request
    BY <1>0 DEF Books, Request
  <2> QED
    BY <1>0, <2>1, <2>3, <2>5, <2>6 DEF Books, UsageIsCounted
<1>6. CASE ReceiveResult
  <2>1. /\ outcome' = [outcome EXCEPT ![id] = "answered"]
        /\ UNCHANGED <<id, job, counted, reported>>
        /\ pc = "waiting" /\ queue # <<>> /\ Head(queue).kind = "result"
    BY <1>6 DEF ReceiveResult, process
  <2>2. Traffic /\ id \in Request /\ InOrder(queue, id)
    BY <1>0, <2>1 DEF Closing, Traffic, Request, Ordered
  <2>3. Has(queue, "result") /\ ~Has(queue, "usage")
    BY <1>0, <2>1, <2>2, TailHas, TailInOrder DEF Empty
  <2>4. ~Somewhere("usage") /\ job = 0
    BY <2>2, <2>3 DEF Traffic, Ordered, Before, Empty, Somewhere
  <2>5. counted[id] = reported[id]
    <3>1. reported[id] = 1 => counted[id] # 0
      BY <2>1, <2>2, <2>4 DEF Traffic
    <3> QED
      BY <1>0, <2>2, <3>1 DEF Books, UsageIsCounted
  <2>6. \A r \in Request : r # id => outcome'[r] = outcome[r]
    BY <1>0, <2>1
  <2> QED
    BY <1>0, <2>1, <2>4, <2>5, <2>6 DEF Books, UsageIsCounted
<1>7. CASE Write
  <2>1. /\ job' = id /\ UNCHANGED <<id, outcome, counted, reported>>
        /\ writer # "done" /\ ~closed
    BY <1>7 DEF Write, caller, Closing
  <2>2. pc = "waiting"
    BY <2>1 DEF Traffic, Closing, TypeOK
  <2> QED
    BY <1>0, <2>1, <2>2 DEF Books, UsageIsCounted, Traffic
<1>8. CASE Report
  <2>1. /\ reported' = [reported EXCEPT ![job] = 1] /\ reported[job] = 0 /\ job # 0
        /\ UNCHANGED <<id, job, outcome, counted>>
    BY <1>8 DEF Report, caller, threads
  <2>2. job \in Request /\ job <= id /\ outcome[job] # "answered" /\ counted[job] <= 0
    BY <1>0, <2>1 DEF Books, UsageIsCounted, Request
  <2>3. reported'[job] = 1 /\ \A r \in Request : r # job => reported'[r] = reported[r]
    BY <1>0, <2>1, <2>2
  <2> QED
    BY <1>0, <2>1, <2>2, <2>3 DEF Books, UsageIsCounted
<1> QED
  BY <1>1, <1>2, <1>4, <1>5, <1>6, <1>7, <1>8 DEF Next

-----------------------------------------------------------------------------
(* The theorems                                                            *)

\* A new worker is in the invariant.
LEMMA InitIInv == Init => IInv
<1> SUFFICES ASSUME Init PROVE IInv
  OBVIOUS
<1>1. TypeOK
  BY InitType
<1>2. Closing /\ Books
  BY DEF Init, Closing, ClosedMeansEnded, Books, UsageIsCounted
<1>3. Traffic
  BY DEF Init, Traffic, Ordered, Nowhere, Somewhere, InOrder, Before, Empty, Has
<1> QED
  BY <1>1, <1>2, <1>3 DEF IInv

\* Every step keeps it, so it always holds.
LEMMA Invariant == Spec => []IInv
<1>1. IInv /\ [Next]_vars => IInv'
  <2> SUFFICES ASSUME IInv, [Next]_vars PROVE IInv'
    OBVIOUS
  <2>1. TypeOK' /\ Closing' /\ Books'
    BY TypeStep, ClosingStep, BooksStep DEF IInv
  <2>2. ASSUME ~closed' PROVE Traffic'
    <3>1. CASE Next
      <4>1. ~closed
        BY <2>2, <3>1 DEF Next, caller, StartClose, Fail, Call, Refuse, RefuseOversized,
           Close, TimeOut, ReceiveUsage, ReceiveResult, ReceiveFailure, AwaitTermination,
           AwaitKill, CloseStreams, Write, WriteFails, WriterReports, ReadLine, ReadFails,
           ReadEndOfFile, ReaderEnqueues, Report, Answer, Exit
      <4> QED
        BY <2>2, <3>1, <4>1, TrafficStep DEF IInv
    <3>2. CASE UNCHANGED vars
      BY <2>2, <3>2 DEF IInv, vars, caller, threads, process, Traffic, Ordered, Nowhere,
         Somewhere
    <3> QED
      BY <3>1, <3>2
  <2> QED
    BY <2>1, <2>2 DEF IInv
<1> QED
  BY InitIInv, <1>1, PTL DEF Spec

\* Every variable of the worker keeps its type and the queue its capacity, for
\* any number of calls and any capacity (PiProcess).
THEOREM TypeCorrect == Spec => []TypeOK
<1>1. IInv => TypeOK
  BY DEF IInv
<1> QED
  BY Invariant, <1>1, PTL

\* A call never meets an answer to another request (call: "belongs to a
\* different stage").
THEOREM AnswersAreOwn == Spec => []AnswersOwnQuestion
<1>1. IInv => AnswersOwnQuestion
  <2> SUFFICES ASSUME IInv, pc = "waiting", NEW i \in DOMAIN InFlight,
                      IsEvent(InFlight[i])
               PROVE  InFlight[i].id = id
    BY DEF AnswersOwnQuestion, IsEvent
  <2>1. InOrder(queue, id) /\ InOrder(held, id) /\ InOrder(stdout, id)
    BY DEF IInv, Closing, Traffic, Ordered
  <2>2. queue \in Seq(Message) /\ held \in Seq(Message) /\ stdout \in Seq(Line)
    BY DEF IInv, TypeOK
  <2>3. \/ \E k \in 1..Len(queue) : InFlight[i] = queue[k]
        \/ \E k \in 1..Len(held) : InFlight[i] = held[k]
        \/ \E k \in 1..Len(stdout) : InFlight[i] = stdout[k]
    <3> DEFINE Item == Message \cup Line
    <3>1. queue \in Seq(Item) /\ held \in Seq(Item) /\ stdout \in Seq(Item)
      BY <2>2
    <3> HIDE DEF Item
    <3>2. InFlight = Row(queue, held, stdout)
      BY DEF InFlight, Row
    <3> QED
      BY <3>1, <3>2, RowElement
  <2>4. CASE \E k \in 1..Len(queue) : InFlight[i] = queue[k]
    BY <2>1, <2>4 DEF InOrder
  <2>5. CASE \E k \in 1..Len(held) : InFlight[i] = held[k]
    BY <2>1, <2>5 DEF InOrder
  <2>6. CASE \E k \in 1..Len(stdout) : InFlight[i] = stdout[k]
    BY <2>1, <2>6 DEF InOrder
  <2> QED
    BY <2>3, <2>4, <2>5, <2>6
<1> QED
  BY Invariant, <1>1, PTL

\* Usage is counted once, and wholly when a call has answered (call: "Count
\* usage even if the next message fails").
THEOREM UsageIsBookedOnce == Spec => []UsageIsCounted
<1>1. IInv => UsageIsCounted
  BY DEF IInv, Books
<1> QED
  BY Invariant, <1>1, PTL

\* A close that is over has ended the process, or at least killed it (close).
THEOREM CloseEndsProcess == Spec => []ClosedMeansEnded
<1>1. IInv => ClosedMeansEnded
  BY DEF IInv, Closing
<1> QED
  BY Invariant, <1>1, PTL

-----------------------------------------------------------------------------
(* The contract                                                            *)

\* No call of an open worker has failed.
Unbroken == ~closed => \A r \in Request : outcome[r] # "failed"

\* A step that fails a call closes the worker, and none opens it again.
LEMMA UnbrokenStep ==
  ASSUME IInv, Unbroken, [Next]_vars
  PROVE  Unbroken'
<1> SUFFICES ASSUME ~closed' PROVE \A r \in Request : outcome'[r] # "failed"
  BY DEF Unbroken
<1>1. outcome \in [Request -> {"none", "answered", "failed", "refused"}]
  BY DEF IInv, TypeOK
<1>2. /\ ~closed
      /\ \/ UNCHANGED outcome
         \/ outcome' = [outcome EXCEPT ![id'] = "refused"]
         \/ outcome' = [outcome EXCEPT ![id] = "answered"]
  BY DEF Next, vars, caller, StartClose, Fail, Call, Refuse, RefuseOversized, Close,
     TimeOut, ReceiveUsage, ReceiveResult, ReceiveFailure, AwaitTermination, AwaitKill,
     CloseStreams, Write, WriteFails, WriterReports, ReadLine, ReadFails, ReadEndOfFile,
     ReaderEnqueues, Report, Answer, Exit
<1> QED
  BY <1>1, <1>2 DEF Unbroken

\* What the worker is to its caller, without the cases that do not happen.
Phase == IF closed THEN "closed" ELSE IF pc # "waiting" THEN "idle"
         ELSE IF counted[id] = 0 THEN "called" ELSE "metered"

\* They do not: usage has been counted at most once.
LEMMA Phases == IInv /\ Unbroken => WorkerState = Phase
<1> SUFFICES ASSUME IInv, Unbroken PROVE WorkerState = Phase
  OBVIOUS
<1>1. ASSUME ~closed, pc = "waiting" PROVE counted[id] \in {0, 1}
  <2>1. id \in Request
    BY <1>1, PiWorkerAssumption DEF IInv, Traffic, TypeOK, Request
  <2>2. counted[id] \in Nat /\ reported[id] \in {0, 1} /\ counted[id] <= reported[id]
    BY <2>1 DEF IInv, TypeOK, Books, UsageIsCounted
  <2> QED
    BY <2>2
<1> QED
  BY <1>1 DEF WorkerState, Phase, Unbroken

\* Every step of the worker is one of the contract or none of its business.
LEMMA ContractStep ==
  ASSUME IInv, WorkerState = Phase, (WorkerState = Phase)', Next
  PROVE  [Contract!Next]_WorkerState
<1>1. WorkerState = Phase /\ WorkerState' = Phase'
  OBVIOUS
<1> USE DEF Contract!Step, Phase
<1> USE DEF Contract!Step
<1>2. CASE Call
  <2>1. id' = id + 1 /\ ~closed /\ ~closed' /\ pc = "idle" /\ pc' = "waiting"
        /\ counted' = counted
    BY <1>2 DEF Call
  <2>2. counted'[id'] = 0
    <3>1. id' \in Request /\ id' > id
      BY <1>2, <2>1, PiWorkerAssumption DEF Call, IInv, TypeOK, Request
    <3> QED
      BY <2>1, <3>1 DEF IInv, Books
  <2> QED
    BY <1>1, <2>1, <2>2 DEF Contract!Call, Contract!Next
<1>3. CASE Refuse \/ RefuseOversized
  BY <1>1, <1>3 DEF Refuse, RefuseOversized
<1>4. CASE Close
  BY <1>1, <1>4 DEF Close, StartClose, Contract!Close, Contract!Next
<1>5. CASE ReceiveFailure \/ TimeOut
  BY <1>1, <1>5 DEF ReceiveFailure, TimeOut, Fail, StartClose, IInv, Closing,
                    Contract!Fail, Contract!Next
<1>6. CASE ReceiveUsage
  <2>1. ~closed /\ Traffic
    BY <1>6 DEF ReceiveUsage, IInv, Closing
  <2>2. id \in Request /\ Somewhere("usage")
    <3>1. Has(queue, "usage")
      BY <1>6, TailHas DEF ReceiveUsage, IInv, TypeOK
    <3>2. id \in Request
      BY <1>6, <2>1, PiWorkerAssumption DEF ReceiveUsage, Traffic, IInv, TypeOK, Request
    <3> QED
      BY <3>1, <3>2 DEF Somewhere
  <2>3. counted[id] = 0
    BY <2>1, <2>2 DEF Traffic
  <2>4. id' = id /\ counted'[id] = 1
    BY <1>6, <2>2, <2>3 DEF ReceiveUsage, IInv, TypeOK
  <2>5. CASE Fail
    BY <1>1, <1>6, <2>1, <2>3, <2>5 DEF ReceiveUsage, Fail, StartClose, Contract!Fail,
                                         Contract!Next
  <2>6. CASE UNCHANGED <<pc, closed, outcome, proc>>
    BY <1>1, <1>6, <2>1, <2>3, <2>4, <2>6 DEF ReceiveUsage, Contract!Usage, Contract!Next
  <2> QED
    BY <1>6, <2>5, <2>6 DEF ReceiveUsage
<1>7. CASE ReceiveResult
  BY <1>1, <1>7 DEF ReceiveResult, IInv, Closing, Contract!Answer, Contract!Next
<1>8. CASE AwaitTermination \/ AwaitKill \/ CloseStreams
  BY <1>1, <1>8 DEF AwaitTermination, AwaitKill, CloseStreams, IInv, Closing
<1>9. CASE Write \/ WriteFails \/ WriterReports \/ ReadLine \/ ReadFails \/ ReadEndOfFile
           \/ ReaderEnqueues \/ Report \/ Answer \/ Exit
  <2>1. UNCHANGED <<closed, pc, counted, id>>
    BY <1>9 DEF Write, WriteFails, WriterReports, ReadLine, ReadFails, ReadEndOfFile,
                ReaderEnqueues, Report, Answer, Exit, caller
  <2> QED
    BY <1>1, <2>1
<1> QED
  BY <1>2, <1>3, <1>4, <1>5, <1>6, <1>7, <1>8, <1>9 DEF Next

\* A worker, whatever its process and its threads do, is to its caller what the
\* contract says: usage at most once and before the result, and no call after one
\* that failed (call, close).
THEOREM WorkerKeepsContract == Spec => KeepsContract
<1>1. Init => Unbroken
  BY DEF Init, Unbroken
<1>2. IInv /\ Unbroken /\ [Next]_vars => Unbroken'
  BY UnbrokenStep
<1>3. Init => Contract!Init
  BY DEF Init, Contract!Init, WorkerState
<1>4. IInv /\ WorkerState = Phase /\ (WorkerState = Phase)' /\ [Next]_vars
        => [Contract!Next]_WorkerState
  <2>1. ASSUME UNCHANGED vars PROVE UNCHANGED WorkerState
    BY <2>1 DEF vars, caller, WorkerState
  <2> QED
    BY <2>1, ContractStep
<1> QED
  BY <1>1, <1>2, <1>3, <1>4, Invariant, Phases, PTL DEF Spec, KeepsContract, Contract!Spec

-----------------------------------------------------------------------------
(* A worker is a bounded number of steps                                   *)

\* The steps that are left of the call or the close the caller is in, and of a
\* close to come.
CallerLeft ==
    (IF closed THEN 0 ELSE 4)
    + (CASE pc = "waiting" -> 4 [] pc = "terminating" -> 3 [] pc = "killing" -> 2
         [] pc = "joining" -> 1 [] OTHER -> 0)

\* Of the process: a line written is three steps, to be read, enqueued, received.
ProcessLeft ==
    (IF proc = "dead" THEN 0 ELSE 4)
    + (IF job = 0 THEN 0 ELSE IF reported[job] = 0 THEN 8 ELSE 4)

\* Of the two threads, before what they have in hand.
WriterLeft == CASE writer = "writing" -> 9 [] writer = "failing" -> 2 [] OTHER -> 0
ReaderLeft == IF reader = "reading" THEN 5 ELSE 0

LinesLeft == Len(queue) + 2 * Len(held) + 3 * Len(stdout)

\* A call to come is 14 steps.
CallsLeft == 14 * (MaxCalls - id)

\* The steps that are left of a worker.
StepsLeft == CallsLeft + CallerLeft + ProcessLeft + WriterLeft + ReaderLeft + LinesLeft

\* The parts, now and after a step.
LEMMA Parts ==
  /\ StepsLeft = CallsLeft + CallerLeft + ProcessLeft + WriterLeft + ReaderLeft + LinesLeft
  /\ StepsLeft' = CallsLeft' + CallerLeft' + ProcessLeft' + WriterLeft' + ReaderLeft'
                   + LinesLeft'
BY DEF StepsLeft

\* The same of the lines, which change their number with the three places.
LEMMA Lines ==
  /\ LinesLeft = Len(queue) + 2 * Len(held) + 3 * Len(stdout)
  /\ LinesLeft' = Len(queue') + 2 * Len(held') + 3 * Len(stdout')
BY DEF LinesLeft

\* Each part is a number, and small.
LEMMA PartsLeft ==
  ASSUME TypeOK
  PROVE  /\ CallerLeft \in Nat /\ ProcessLeft \in Nat /\ WriterLeft \in 0..9
         /\ ReaderLeft \in {0, 5}
         /\ Len(queue) \in Nat /\ Len(held) \in Nat /\ Len(stdout) \in Nat
         /\ LinesLeft \in Nat /\ id \in Nat /\ CallsLeft \in Nat
         /\ id' = id => CallsLeft' = CallsLeft
         /\ id' = id + 1 => CallsLeft' = CallsLeft - 14
<1>1. /\ MaxCalls \in Nat /\ id \in 0..MaxCalls
      /\ Len(queue) \in Nat /\ Len(held) \in Nat /\ Len(stdout) \in Nat
  BY PiWorkerAssumption DEF TypeOK
<1>2. CallerLeft \in Nat /\ WriterLeft \in 0..9 /\ ReaderLeft \in {0, 5}
  BY DEF TypeOK, CallerLeft, WriterLeft, ReaderLeft
<1>3. ProcessLeft \in Nat
  BY DEF ProcessLeft
<1>4. LinesLeft \in Nat
  BY <1>1, Lines
<1>5. /\ CallsLeft \in Nat
      /\ id' = id => CallsLeft' = CallsLeft
      /\ id' = id + 1 => CallsLeft' = CallsLeft - 14
  BY <1>1 DEF CallsLeft
<1> QED
  BY <1>1, <1>2, <1>3, <1>4, <1>5

\* The same of the next state.
LEMMA PartsLeftNext ==
  TypeOK' => (/\ CallerLeft \in Nat /\ ProcessLeft \in Nat /\ WriterLeft \in 0..9
              /\ ReaderLeft \in {0, 5} /\ LinesLeft \in Nat /\ CallsLeft \in Nat)'
<1>1. TypeOK => /\ CallerLeft \in Nat /\ ProcessLeft \in Nat /\ WriterLeft \in 0..9
                /\ ReaderLeft \in {0, 5} /\ LinesLeft \in Nat /\ CallsLeft \in Nat
  BY PartsLeft
<1> QED
  BY <1>1, PTL

\* A message put into the queue is one more there at most.
LEMMA EnqueueLengthens ==
  ASSUME queue \in Seq(Message), NEW m \in Message, Enqueue(m)
  PROVE  Len(queue') \in Nat /\ Len(queue') <= Len(queue) + 1
BY DEF Enqueue

\* Each step of the caller leaves less.  (k, c, p, w, r and l are the parts after the
\* step, here and in the next two lemmas.)
LEMMA CallerShortens ==
  ASSUME TypeOK, TypeOK', Closing,
         \/ Call \/ Refuse \/ RefuseOversized \/ Close
         \/ ReceiveUsage \/ ReceiveResult \/ ReceiveFailure \/ TimeOut
         \/ AwaitTermination \/ AwaitKill \/ CloseStreams
  PROVE  StepsLeft' < StepsLeft
<1> DEFINE k == CallsLeft'  c == CallerLeft'  p == ProcessLeft'
           w == WriterLeft' r == ReaderLeft' l == LinesLeft'
<1>0. /\ k \in Nat /\ c \in Nat /\ p \in Nat /\ w \in Nat /\ r \in Nat /\ l \in Nat
      /\ StepsLeft' = k + c + p + w + r + l
  BY PartsLeftNext, Parts
<1> HIDE DEF k, c, p, w, r, l
<1>1. /\ CallerLeft \in Nat /\ ProcessLeft \in Nat /\ WriterLeft \in 0..9 /\ LinesLeft \in Nat
      /\ ReaderLeft \in Nat /\ CallsLeft \in Nat
      /\ w \in 0..9 /\ id \in Nat
  BY PartsLeft, PartsLeftNext DEF w
<1>2. UNCHANGED <<reader, held, job, stdout, reported>> /\ r = ReaderLeft
  BY DEF Call, Refuse, RefuseOversized, Close, ReceiveUsage, ReceiveResult, ReceiveFailure,
         TimeOut, AwaitTermination, AwaitKill, CloseStreams, caller, threads, process,
         Fail, StartClose, ReaderLeft, r
<1>3. p = ProcessLeft
  <2>1. proc = "dead" <=> proc' = "dead"
    BY DEF Call, Refuse, RefuseOversized, Close, ReceiveUsage, ReceiveResult, ReceiveFailure,
           TimeOut, AwaitTermination, AwaitKill, CloseStreams, process, Fail, StartClose
  <2> QED
    BY <1>2, <2>1 DEF ProcessLeft, p
<1>4. CASE Call
  <2>1. /\ id' = id + 1 /\ queue' = queue /\ pc = "idle" /\ pc' = "waiting"
        /\ closed' = closed
    BY <1>1, <1>4 DEF Call
  <2>2. c = CallerLeft + 4 /\ l = LinesLeft
    BY <1>2, <2>1 DEF CallerLeft, LinesLeft, TypeOK, c, l
  <2>3. k = CallsLeft - 14
    BY <2>1, PartsLeft DEF k
  <2> QED
    BY <1>0, <1>1, <1>2, <1>3, <2>2, <2>3, Parts
<1>5. CASE Refuse \/ RefuseOversized
  <2>1. /\ id' = id + 1 /\ UNCHANGED <<pc, closed, queue, writer>>
    BY <1>5 DEF Refuse, RefuseOversized, threads
  <2>2. c = CallerLeft /\ l = LinesLeft /\ w = WriterLeft
    BY <1>2, <2>1 DEF CallerLeft, LinesLeft, WriterLeft, c, w, l
  <2>3. k = CallsLeft - 14
    BY <2>1, PartsLeft DEF k
  <2> QED
    BY <1>0, <1>1, <1>2, <1>3, <2>2, <2>3, Parts
<1>6. CASE Close \/ TimeOut \/ AwaitTermination \/ AwaitKill \/ CloseStreams
  <2>1. UNCHANGED <<id, queue, writer>>
    BY <1>6 DEF Close, TimeOut, AwaitTermination, AwaitKill, CloseStreams, threads, Fail,
                StartClose
  <2>2. l = LinesLeft /\ w = WriterLeft
    BY <1>2, <2>1 DEF LinesLeft, WriterLeft, w, l
  <2>3. c < CallerLeft
    BY <1>6 DEF Close, TimeOut, AwaitTermination, AwaitKill, CloseStreams, Fail, StartClose,
                CallerLeft, TypeOK, Closing, c
  <2>4. k = CallsLeft
    BY <2>1, PartsLeft DEF k
  <2> QED
    BY <1>0, <1>1, <1>2, <1>3, <2>1, <2>2, <2>3, <2>4, Parts
<1>7. CASE ReceiveUsage \/ ReceiveResult \/ ReceiveFailure
  <2>1. /\ UNCHANGED <<id, writer>> /\ queue # <<>> /\ queue' = Tail(queue)
        /\ queue \in Seq(Message)
    BY <1>7 DEF ReceiveUsage, ReceiveResult, ReceiveFailure, TypeOK
  <2>2. w = WriterLeft /\ Len(held') = Len(held) /\ Len(stdout') = Len(stdout)
    BY <1>2, <2>1, PartsLeft DEF WriterLeft, w
  <2>3. Len(queue') = Len(queue) - 1
    BY <2>1
  <2>4. l = LinesLeft - 1
    BY <2>2, <2>3, PartsLeft, Lines DEF l
  <2>5. c <= CallerLeft
    <3>1. /\ pc = "waiting" /\ closed = FALSE /\ closed' \in BOOLEAN
          /\ pc' = "waiting" => closed' = closed
      BY <1>7 DEF ReceiveUsage, ReceiveResult, ReceiveFailure, Fail, StartClose,
                  TypeOK, Closing
    <3> QED
      BY <3>1 DEF CallerLeft, TypeOK, c
  <2>6. k = CallsLeft
    BY <2>1, PartsLeft DEF k
  <2> QED
    BY <1>0, <1>1, <1>2, <1>3, <2>1, <2>2, <2>4, <2>5, <2>6, Parts
<1> QED
  BY <1>4, <1>5, <1>6, <1>7

\* Each step of the two threads leaves less.
LEMMA ThreadsShorten ==
  ASSUME TypeOK, TypeOK',
         \/ Write \/ WriteFails \/ WriterReports
         \/ ReadLine \/ ReadFails \/ ReadEndOfFile \/ ReaderEnqueues
  PROVE  StepsLeft' < StepsLeft
<1> DEFINE k == CallsLeft'  c == CallerLeft'  p == ProcessLeft'
           w == WriterLeft' r == ReaderLeft' l == LinesLeft'
<1>0. /\ k \in Nat /\ c \in Nat /\ p \in Nat /\ w \in Nat /\ r \in Nat /\ l \in Nat
      /\ StepsLeft' = k + c + p + w + r + l
  BY PartsLeftNext, Parts
<1> HIDE DEF k, c, p, w, r, l
<1>1. /\ CallerLeft \in Nat /\ ProcessLeft \in Nat /\ WriterLeft \in Nat /\ LinesLeft \in Nat
      /\ ReaderLeft \in Nat /\ CallsLeft \in Nat
      /\ Len(queue) \in Nat /\ Len(held) \in Nat /\ Len(stdout) \in Nat
  BY PartsLeft
<1>2. k = CallsLeft /\ c = CallerLeft
  BY PartsLeft DEF Write, WriteFails, WriterReports, ReadLine, ReadFails, ReadEndOfFile,
                   ReaderEnqueues, caller, CallerLeft, c, k
<1>3. queue \in Seq(Message) /\ held \in Seq(Message) /\ stdout \in Seq(Line)
  BY DEF TypeOK
<1>4. CASE Write
  <2>1. /\ writer = "writing" /\ writer' = "done" /\ job = 0 /\ proc' = proc
        /\ UNCHANGED <<queue, reader, held, stdout, reported>>
    BY <1>4 DEF Write
  <2>2. WriterLeft = 9 /\ w = 0 /\ r = ReaderLeft /\ l = LinesLeft
    BY <2>1 DEF WriterLeft, ReaderLeft, LinesLeft, w, r, l
  <2>3. p <= ProcessLeft + 8 /\ p \in Nat
    BY <2>1 DEF ProcessLeft, p
  <2> QED
    BY <1>0, <1>1, <1>2, <2>2, <2>3, Parts
<1>5. CASE WriteFails
  <2>1. /\ writer = "writing" /\ writer' = "failing"
        /\ UNCHANGED <<queue, reader, held, stdout, reported, proc, job>>
    BY <1>5 DEF WriteFails, process
  <2>2. /\ WriterLeft = 9 /\ w = 2 /\ r = ReaderLeft
        /\ l = LinesLeft /\ p = ProcessLeft
    BY <2>1 DEF WriterLeft, ReaderLeft, LinesLeft, ProcessLeft, p, w, r, l
  <2> QED
    BY <1>0, <1>1, <1>2, <2>2, Parts
<1>6. CASE WriterReports
  <2>1. /\ writer = "failing" /\ writer' = "done" /\ Enqueue(Error) /\ Error \in Message
        /\ UNCHANGED <<reader, held, stdout, reported, proc, job>>
    BY <1>6 DEF WriterReports, process, Error, Message
  <2>2. /\ WriterLeft = 2 /\ w = 0 /\ r = ReaderLeft
        /\ p = ProcessLeft
    BY <2>1 DEF WriterLeft, ReaderLeft, ProcessLeft, p, w, r
  <2>3. l <= LinesLeft + 1 /\ l \in Nat
    <3>1. Len(queue') \in Nat /\ Len(queue') <= Len(queue) + 1
      BY <1>3, <2>1, EnqueueLengthens
    <3> QED
      BY <1>1, <2>1, <3>1, Lines DEF l
  <2> QED
    BY <1>0, <1>1, <1>2, <2>2, <2>3, Parts
<1>7. CASE ReadLine \/ ReadFails \/ ReadEndOfFile
  <2>1. /\ UNCHANGED <<writer, queue, proc, job, reported>>
        /\ held = <<>> /\ reader = "reading"
        /\ \/ reader' = reader /\ Len(held') = 1 /\ stdout # <<>> /\ stdout' = Tail(stdout)
           \/ reader' = "ending" /\ Len(held') \in {1, 2} /\ stdout' = stdout
    BY <1>7 DEF ReadLine, ReadFails, ReadEndOfFile, process
  <2>2. w = WriterLeft /\ p = ProcessLeft /\ ReaderLeft = 5
    BY <2>1 DEF WriterLeft, ProcessLeft, ReaderLeft, p, w, r
  <2>3. r + l < ReaderLeft + LinesLeft
        /\ r \in Nat /\ l \in Nat
    <3>1. CASE reader' = reader /\ Len(held') = 1 /\ stdout # <<>> /\ stdout' = Tail(stdout)
      <4>1. Len(stdout') = Len(stdout) - 1 /\ Len(held) = 0 /\ r = ReaderLeft
        BY <1>3, <2>1, <3>1 DEF ReaderLeft, r
      <4>2. LinesLeft = Len(queue) + 3 * Len(stdout)
            /\ l = Len(queue) + 2 * 1 + 3 * (Len(stdout) - 1)
        BY <1>1, <2>1, <3>1, <4>1, Lines DEF l
      <4>3. Len(stdout) >= 1
        BY <1>3, <3>1
      <4> QED
        BY <1>1, <2>2, <4>1, <4>2, <4>3
    <3>2. CASE reader' = "ending" /\ Len(held') \in {1, 2} /\ stdout' = stdout
      <4>1. r = 0 /\ Len(held) = 0
        BY <2>1, <3>2 DEF ReaderLeft, r
      <4>2. LinesLeft = Len(queue) + 3 * Len(stdout)
        BY <1>1, <4>1, Lines
      <4>3. \/ l = Len(queue) + 2 * 1 + 3 * Len(stdout)
            \/ l = Len(queue) + 2 * 2 + 3 * Len(stdout)
        BY <2>1, <3>2, Lines DEF l
      <4> QED
        BY <1>1, <2>1, <2>2, <3>2, <4>1, <4>2, <4>3
    <3> QED
      BY <2>1, <3>1, <3>2
  <2> QED
    BY <1>0, <1>1, <1>2, <2>2, <2>3, Parts
<1>8. CASE ReaderEnqueues
  <2>1. /\ held # <<>> /\ held' = Tail(held) /\ Enqueue(Head(held))
        /\ UNCHANGED <<writer, reader, stdout, reported, proc, job>>
    BY <1>8 DEF ReaderEnqueues, process
  <2>2. /\ w = WriterLeft /\ r = ReaderLeft /\ p = ProcessLeft
    BY <2>1 DEF WriterLeft, ReaderLeft, ProcessLeft, p, w, r
  <2>3. l < LinesLeft /\ l \in Nat
    <3>1. Head(held) \in Message /\ Len(held') = Len(held) - 1 /\ Len(held) >= 1
      BY <1>3, <2>1
    <3>2. Len(queue') \in Nat /\ Len(queue') <= Len(queue) + 1
      BY <1>3, <2>1, <3>1, EnqueueLengthens
    <3> QED
      BY <1>1, <2>1, <3>1, <3>2, Lines DEF l
  <2> QED
    BY <1>0, <1>1, <1>2, <2>2, <2>3, Parts
<1> QED
  BY <1>4, <1>5, <1>6, <1>7, <1>8

\* Each step of the process leaves less.
LEMMA ProcessShortens ==
  ASSUME TypeOK, TypeOK', Report \/ Answer \/ Exit
  PROVE  StepsLeft' < StepsLeft
<1> DEFINE k == CallsLeft'  c == CallerLeft'  p == ProcessLeft'
           w == WriterLeft' r == ReaderLeft' l == LinesLeft'
<1>0. /\ k \in Nat /\ c \in Nat /\ p \in Nat /\ w \in Nat /\ r \in Nat /\ l \in Nat
      /\ StepsLeft' = k + c + p + w + r + l
  BY PartsLeftNext, Parts
<1> HIDE DEF k, c, p, w, r, l
<1>1. /\ CallerLeft \in Nat /\ ProcessLeft \in Nat /\ WriterLeft \in Nat /\ LinesLeft \in Nat
      /\ ReaderLeft \in Nat /\ CallsLeft \in Nat
      /\ Len(queue) \in Nat /\ Len(held) \in Nat /\ Len(stdout) \in Nat
  BY PartsLeft
<1>2. /\ k = CallsLeft /\ c = CallerLeft /\ w = WriterLeft
      /\ r = ReaderLeft /\ queue' = queue /\ held' = held
  BY PartsLeft DEF Report, Answer, Exit, caller, threads, CallerLeft, WriterLeft,
                   ReaderLeft, c, w, r, k
<1>3. /\ stdout \in Seq(Line) /\ reported \in [Request -> {0, 1}]
      /\ job # 0 => job \in Request
  BY PiWorkerAssumption DEF TypeOK, Request
<1>4. l <= LinesLeft + 3 /\ l \in Nat
  <2>1. Len(stdout') \in Nat /\ Len(stdout') <= Len(stdout) + 1
    <3>1. \A m \in Line : Len(Append(stdout, m)) = Len(stdout) + 1
      BY <1>3
    <3>2. \E m \in Line : stdout' \in {stdout, Append(stdout, m)}
      BY <1>3 DEF Report, Answer, Exit, Line, Partial
    <3> QED
      BY <1>1, <3>1, <3>2
  <2> QED
    BY <1>1, <1>2, <2>1, Lines DEF l
<1>5. p + 4 <= ProcessLeft /\ p \in Nat
  <2>1. CASE Report
    BY <1>3, <2>1 DEF Report, ProcessLeft, p
  <2>2. CASE Answer
    BY <1>3, <2>2 DEF Answer, ProcessLeft, p
  <2>3. CASE Exit
    BY <1>3, <2>3 DEF Exit, ProcessLeft, p
  <2> QED
    BY <2>1, <2>2, <2>3
<1> QED
  BY <1>0, <1>1, <1>2, <1>4, <1>5, Parts

\* A worker cannot go on for ever, whatever its process writes and however full its
\* queue is: each step of anyone leaves fewer, and there are 14 * MaxCalls + 13 at
\* most (the loops of call, _enqueue, _read and close).
THEOREM WorkerIsBounded ==
    /\ Init => StepsLeft = 14 * MaxCalls + 13
    /\ Spec => [][StepsLeft' \in Nat /\ StepsLeft' < StepsLeft]_vars
<1> DEFINE Fewer == StepsLeft' \in Nat /\ StepsLeft' < StepsLeft
<1>1. Init => StepsLeft = 14 * MaxCalls + 13
  BY PiWorkerAssumption
     DEF Init, StepsLeft, CallsLeft, CallerLeft, ProcessLeft, WriterLeft, ReaderLeft, LinesLeft
<1>2. ASSUME IInv, IInv', Next PROVE Fewer
  <2>1. TypeOK /\ Closing /\ TypeOK'
    BY <1>2 DEF IInv
  <2>2. StepsLeft' < StepsLeft
    BY <1>2, <2>1, CallerShortens, ThreadsShorten, ProcessShortens DEF Next
  <2>3. StepsLeft' \in Nat
    <3>1. /\ CallerLeft' \in Nat /\ ProcessLeft' \in Nat /\ WriterLeft' \in Nat
          /\ ReaderLeft' \in Nat /\ LinesLeft' \in Nat /\ CallsLeft' \in Nat
      BY <2>1, PartsLeftNext
    <3>2. \A k, c, p, w, r, l \in Nat : k + c + p + w + r + l \in Nat
      OBVIOUS
    <3> QED
      BY <3>1, <3>2, Parts
  <2> QED
    BY <2>2, <2>3
<1>3. IInv /\ IInv' /\ [Next]_vars => [Fewer]_vars
  BY <1>2
<1> QED
  BY <1>1, <1>3, Invariant, PTL DEF Spec

\* Who has something to do that Fairness says is done: the guards of those actions.
CloserIsDue == pc \in {"terminating", "killing", "joining"}
HasRoom == Len(queue) < QueueSize \/ closed
WriterIsDue == (writer = "writing" /\ proc = "dead") \/ (writer = "failing" /\ HasRoom)
ReaderIsDue ==
    \/ held # <<>> /\ HasRoom
    \/ /\ reader = "reading" /\ held = <<>>
       /\ stdout # <<>> \/ ~streams \/ proc = "dead"
KillIsDue == proc = "killed"

\* What CloseEndsThreads says comes in the end.
Ended == proc = "dead" /\ writer = "done" /\ reader = "ending" /\ held = <<>>

\* Nobody waits for another for ever: while a worker that is closed has a process
\* or a thread that is not at its end (CloseEndsThreads), the closing thread, one of
\* the two others or a killed process can go on, however full the queue is (close,
\* _enqueue, _read, _send).
THEOREM CloseIsNeverStuck ==
    Spec => [](closed => Ended \/ CloserIsDue \/ WriterIsDue \/ ReaderIsDue \/ KillIsDue)
<1>1. IInv => (closed => Ended \/ CloserIsDue \/ WriterIsDue \/ ReaderIsDue \/ KillIsDue)
  BY DEF IInv, TypeOK, Closing, ClosedMeansEnded, CloserIsDue, WriterIsDue, ReaderIsDue,
         KillIsDue, HasRoom, Ended
<1> QED
  BY <1>1, Invariant, PTL
=============================================================================

-------------------------------- MODULE Probe --------------------------------
(***************************************************************************)
(* probe_endpoints (benchmarking/evaluator.py): one request to each        *)
(* endpoint of a running project, in an order that gets a real problem and *)
(* a real job id to the calls that need them.  A path is what the regular  *)
(* expressions tell of it: the words it matches and whether it has a       *)
(* parameter; n tells two such paths apart.                                *)
(***************************************************************************)
EXTENDS Integers, Sequences, SequencesExt

Method == {"GET", "POST", "PUT", "DELETE"}  \* and PATCH, which is asked like PUT
Endpoint == [method : Method, words : SUBSET {"generate", "solve", "stop", "list"},
             param : BOOLEAN, n : Nat]

\* What an answer is to the probe: not 2xx, 2xx, or 2xx with a text in it, which
\* is a problem or a job id.
Answer == {"refused", "ok", "text"}

IsGenerate(e) == e.method = "GET" /\ "generate" \in e.words
IsSolve(e) == e.method = "POST" /\ "solve" \in e.words
IsStop(e) == e.method = "DELETE" \/ "stop" \in e.words

\* The first endpoint that is in fit, as a sequence of at most one.
First(endpoints, fit) ==
    LET hits == {k \in DOMAIN endpoints : endpoints[k] \in fit}
    IN IF hits = {} THEN <<>> ELSE <<endpoints[Min(hits)]>>

\* Those that are in fit, in their order.
Only(endpoints, fit) ==
    FoldLeft(LAMBDA kept, e : IF e \in fit THEN Append(kept, e) ELSE kept, <<>>, endpoints)

FindGenerate(endpoints) ==
    LET listed == ToSet(endpoints)
        named == First(endpoints, {e \in listed : IsGenerate(e)})
    IN IF named # <<>> THEN named
       ELSE First(endpoints, {e \in listed : /\ e.method = "GET" /\ ~e.param
                                             /\ "list" \notin e.words})

FindSolve(endpoints) ==
    LET listed == ToSet(endpoints)
        named == First(endpoints, {e \in listed : IsSolve(e) /\ ~e.param})
    IN IF named # <<>> THEN named
       ELSE First(endpoints, {e \in listed : e.method = "POST" /\ ~e.param})

\* Mutated: the solver is asked before there is a problem to send.
Ordered_SolveFirst(endpoints) ==
    LET first == FindSolve(endpoints) \o FindGenerate(endpoints)
        others == ToSet(endpoints) \ ToSet(first)
        stops == {e \in others : IsStop(e)}
    IN first \o Only(endpoints, others \ stops) \o Only(endpoints, stops)

\* generate, solve, the rest, and the stops last.
Ordered(endpoints) ==
    LET first == FindGenerate(endpoints) \o FindSolve(endpoints)
        others == ToSet(endpoints) \ ToSet(first)
        stops == {e \in others : IsStop(e)}
    IN first \o Only(endpoints, others \ stops) \o Only(endpoints, stops)

\* The body of a request, which is {} for want of a problem, and none for a GET
\* or a DELETE; the job id in its path, which is 1 for want of a job.
Asked(e, problem, job) ==
    [endpoint |-> e,
     body |-> IF e.method \notin {"POST", "PUT"} THEN "none"
              ELSE IF problem THEN "problem" ELSE "{}",
     job |-> IF ~e.param THEN "none" ELSE IF job THEN "job" ELSE "1"]

\* One more request, after those s tells of: what its answer gives is there for
\* the next ones.
AskNext(s, e, generate, solve, answer) ==
    [asked |-> Append(s.asked, Asked(e, s.problem, s.job)),
     ok |-> IF answer = "refused" THEN s.ok ELSE s.ok + 1,
     problem |-> s.problem \/ (<<e>> = generate /\ answer = "text"),
     job |-> s.job \/ (<<e>> = solve /\ answer = "text")]

NothingAsked == [asked |-> <<>>, ok |-> 0, problem |-> FALSE, job |-> FALSE]

\* The requests in order, and how many of them were answered with 2xx.
ProbeEndpoints(endpoints, answers) ==
    LET generate == FindGenerate(endpoints)
        solve == FindSolve(endpoints)
    IN FoldLeft(LAMBDA s, e : AskNext(s, e, generate, solve, answers[e]),
                NothingAsked, Ordered(endpoints))

\* The solve call was answered with 2xx.
SolveOk(endpoints, answers) ==
    LET solve == FindSolve(endpoints)
    IN solve # <<>> /\ answers[Head(solve)] # "refused"

\* In halves: all of them, some, none; and none when there are no endpoints.
Score(ok, total) ==
    IF total = 0 \/ ok = 0 THEN 0 ELSE IF ok = total THEN 2 ELSE 1

\* A round trip asks every endpoint once.  When there is a problem to be had, no
\* request with a body goes without it, the one to solve first of all; when there
\* is a job, no request with a parameter goes without it but the one that got the
\* problem; and once a job is stopped nothing but stops is left to ask.
RoundTrip(endpoints, answers) ==
    LET asked == ProbeEndpoints(endpoints, answers).asked
        generate == FindGenerate(endpoints)
        solve == FindSolve(endpoints)
        Gave(found) == found # <<>> /\ answers[Head(found)] = "text"
    IN /\ Len(asked) = Len(endpoints)
       /\ {asked[k].endpoint : k \in DOMAIN asked} = ToSet(endpoints)
       /\ \A k \in DOMAIN asked :
            LET e == asked[k].endpoint IN
            /\ Gave(generate) => asked[k].body # "{}"
            /\ Gave(solve) => asked[k].job # "1" \/ <<e>> = generate
            /\ IsStop(e) => \/ <<e>> \in {generate, solve}
                           \/ \A j \in k .. Len(asked) : IsStop(asked[j].endpoint)
=============================================================================

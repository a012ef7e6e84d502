----------------------------- MODULE MCBenchmark -----------------------------
(* Two problems.  The batches that stop after the summary vary in what was     *)
(* used and paid and in the endpoints of the projects, those that go on in how *)
(* the problems ended.                                                         *)
EXTENDS Benchmark

Use(m, c) == [model |-> m, input |-> 1, output |-> 2, cost |-> c]
UsageLists == {<<>>, <<Use("io", 4)>>, <<Use("io", Unknown)>>, <<Use("fixer", 13)>>,
               <<Use("io", 4), Use("fixer", 4)>>, <<Use("io", Unknown), Use("fixer", 13)>>}

Ended(p, phase, us) ==
    [problem |-> p, success |-> phase = "none", phase |-> phase,
     phases |-> IF phase \in {"none", "crash"} THEN <<>> ELSE <<phase, phase>>,
     iterations |-> IF phase = "none" THEN 0 ELSE 2, usages |-> us]

E(m, w, p) == [method |-> m, words |-> w, param |-> p, n |-> 1]
Paths == {E("GET", {"generate"}, FALSE), E("GET", {}, FALSE), E("GET", {"stop"}, FALSE),
          E("POST", {"solve"}, FALSE), E("POST", {}, FALSE), E("PUT", {}, TRUE),
          E("DELETE", {"stop"}, TRUE)}
Usual == {E("GET", {"generate"}, FALSE), E("POST", {"solve"}, FALSE), E("PUT", {}, TRUE),
          E("DELETE", {"stop"}, TRUE)}
Lists(paths, k) == {s \in [1..k -> paths] : \A a, b \in 1..k : s[a] = s[b] => a = b}
EndpointLists == Lists(Usual, 4) \cup UNION {Lists(Paths, k) : k \in 0..3}

Batch(docker, results, endpoints) ==
    [docker |-> docker, results |-> results, endpoints |-> <<endpoints, endpoints>>]
Paid == {Batch(FALSE, <<Ended(2, "none", us), Ended(1, "runtime", vs)>>, <<>>) :
            us \in UsageLists, vs \in UsageLists}
Served == {Batch(FALSE, <<Ended(2, "none", <<>>), Ended(1, "none", <<>>)>>, es) :
            es \in EndpointLists}
Judged == {Batch(TRUE, <<Ended(2, x, <<>>), Ended(1, y, <<>>)>>, <<E("POST", {}, FALSE)>>) :
            x \in {"none", "crash"}, y \in {"none"}}
MCBatches == Paid \cup Served \cup Judged
=============================================================================

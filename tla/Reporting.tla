------------------------------ MODULE Reporting ------------------------------
(***************************************************************************)
(* What a batch adds up: aggregate_results and aggregate_token_usage       *)
(* (reporting/kpi_tracker.py) and the rows and totals of the benchmark     *)
(* table (benchmarking/table.py).  A result is [problem, success, phase,   *)
(* phases, iterations, usages], with the last validation's phase, those of *)
(* all failed validations, and one usage [model, input, output, cost] for  *)
(* each agent.  Tokens in and out of the cache are added like the others   *)
(* and are left out; a cost is in tenths of the last digit reported.       *)
(***************************************************************************)
EXTENDS Integers, Sequences, FiniteSets, SequencesExt, FiniteSetsExt

CONSTANT Unknown  \* a cost that was not estimated, a cell that was not measured

Usage == [model : STRING, input : Nat, output : Nat, cost : Nat \cup {Unknown}]

Usages(results) == FlattenSeq([k \in DOMAIN results |-> results[k].usages])

Zero == [input |-> 0, output |-> 0, cost |-> 0]

\* Mutated: a cost that is not known is no cost.
PlusCost_Skips(a, b) == IF b = Unknown THEN a ELSE a + b

\* One unknown cost makes the sum unknown.
PlusCost(a, b) == IF a # Unknown /\ b # Unknown THEN a + b ELSE Unknown

Plus(sum, u) == [input |-> sum.input + u.input, output |-> sum.output + u.output,
                 cost |-> PlusCost(sum.cost, u.cost)]

\* The sums by model with one more usage.
WithUsage(by, u) ==
    [model \in DOMAIN by \cup {u.model} |->
       IF model # u.model THEN by[model]
       ELSE Plus(IF model \in DOMAIN by THEN by[model] ELSE Zero, u)]

\* One sum for each model that was used.
ByModel(results) == FoldLeft(WithUsage, <<>>, Usages(results))

Rounded(cost) == (cost + 5) \div 10

AggregateTokenUsage(results) ==
    LET by == ByModel(results)
        known == \A model \in DOMAIN by : by[model].cost # Unknown
    IN [input |-> SumFunction([model \in DOMAIN by |-> by[model].input]),
        output |-> SumFunction([model \in DOMAIN by |-> by[model].output]),
        cost |-> IF known THEN Rounded(SumFunction([model \in DOMAIN by |-> by[model].cost]))
                 ELSE Unknown,
        by_model |-> by]

AggregateResults(results) ==
    LET successes == SelectSeq(results, LAMBDA r : r.success)
        phases == FlattenSeq([k \in DOMAIN results |-> results[k].phases])
    IN [success_count |-> Len(successes),
        failure_count |-> Len(results) - Len(successes),
        zero_iteration_successes |->
          Len(SelectSeq(successes, LAMBDA r : r.iterations = 0)),
        phase_failure_counts |->
          [phase \in ToSet(phases) |-> Len(SelectSeq(phases, LAMBDA p : p = phase))],
        tokens |-> AggregateTokenUsage(results)]

\* Which gates a project is known to have passed; a phase that is not one of a
\* validation proves neither.
DeriveLightColumns(r) ==
    LET judged == r.phase \in {"compilation", "runtime", "test"}
    IN [compiles |-> r.success \/ (judged /\ r.phase # "compilation"),
        solver_runs |-> r.success \/ (judged /\ r.phase \notin {"compilation", "runtime"})]

BenchmarkFromResult(r) ==
    [evaluated |-> FALSE, compiles |-> DeriveLightColumns(r).compiles,
     solver_runs |-> DeriveLightColumns(r).solver_runs,
     quarkus_runs |-> Unknown, score |-> Unknown, docker_works |-> Unknown]

\* The table's one row.
Totals(rows) ==
    LET Count(Cell(_)) == Cardinality({p \in DOMAIN rows : Cell(rows[p]) = TRUE})
        full == \E p \in DOMAIN rows : rows[p].evaluated
    IN [compiles |-> Count(LAMBDA row : row.compiles),
        solver_runs |-> Count(LAMBDA row : row.solver_runs),
        quarkus_runs |-> IF full THEN Count(LAMBDA row : row.quarkus_runs) ELSE Unknown,
        docker_works |-> IF full THEN Count(LAMBDA row : row.docker_works) ELSE Unknown,
        score |-> IF ~full THEN Unknown
                  ELSE MapThenSumSet(LAMBDA p : IF rows[p].score = Unknown THEN 0
                                                ELSE rows[p].score, DOMAIN rows)]

-----------------------------------------------------------------------------
\* The totals are those of the single usages, however these are spread over
\* problems and models, and are rounded once; the total cost is unknown exactly
\* when one of the costs is.
SumsUp(results) ==
    LET us == Usages(results)
        sum == AggregateTokenUsage(results)
        Of(model) == {k \in DOMAIN us : us[k].model = model}
        known(of) == \A k \in of : us[k].cost # Unknown
        Cost(of) == SumFunctionOnSet([k \in DOMAIN us |-> us[k].cost], of)
    IN /\ sum.input = SumFunction([k \in DOMAIN us |-> us[k].input])
       /\ sum.output = SumFunction([k \in DOMAIN us |-> us[k].output])
       /\ IF known(DOMAIN us) THEN 10 * sum.cost - Cost(DOMAIN us) \in -5..5
          ELSE sum.cost = Unknown
       /\ DOMAIN sum.by_model = {us[k].model : k \in DOMAIN us}
       /\ \A model \in DOMAIN sum.by_model :
            sum.by_model[model].cost =
              IF known(Of(model)) THEN Cost(Of(model)) ELSE Unknown
=============================================================================

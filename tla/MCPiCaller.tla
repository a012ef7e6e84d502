----------------------------- MODULE MCPiCaller -----------------------------
(* A small instance of PiCaller: two completions cross a call's ceilings   *)
(* and three those of a worker.                                            *)
EXTENDS PiCaller, TLC

MCSymmetry == Permutations(Agent)

MCUsages == {[input |-> 1, output |-> 0], [input |-> 2, output |-> 2]}
MCDearest == [input |-> 2, output |-> 2]
MCCallLimit == [input |-> 4, output |-> 3]
MCProblemLimit == [input |-> 5, output |-> 4, responses |-> 4, seconds |-> 3]
=============================================================================

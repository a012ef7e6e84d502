----------------------------- MODULE FoldLemmas -----------------------------
(***************************************************************************)
(* What a fold computes.  A fold of the community modules is a recursive   *)
(* function on the subsets of a set.  It exists (FoldExists); along a      *)
(* sequence it takes one step for each element (Trace); and a sum does not *)
(* depend on the order of its terms (SumWithout).  All of this rests on    *)
(* induction over the naturals as a statement about a set of numbers,      *)
(* which has no operator for a parameter (Induction).                      *)
(***************************************************************************)
EXTENDS SequencesExt, FiniteSetTheorems, SequenceTheorems, WellFoundedInduction, TLAPS

-----------------------------------------------------------------------------
(* Induction                                                               *)

\* The naturals, as they are ordered.
Below == {p \in Nat \X Nat : p[1] < p[2]}

\* A set of numbers with 0 in it, and with each number the next one, has them all.
LEMMA Induction ==
  ASSUME NEW T, 0 \in T, \A n \in Nat : n \in T => n + 1 \in T
  PROVE  Nat \subseteq T
<1> DEFINE Rest == Nat \ T
<1> SUFFICES ASSUME Rest # {} PROVE FALSE
  OBVIOUS
<1>1. IsWellFoundedOn(Below, Nat)
  BY NatLessThanWellFounded DEF OpToRel, Below
<1>2. PICK n \in Rest : \A m \in Rest : <<m, n>> \notin Below
  <2> Rest \subseteq Nat
    OBVIOUS
  <2> HIDE DEF Rest
  <2> QED
    BY <1>1, WFMin
<1>3. n \in Nat /\ n # 0 /\ n - 1 \in Nat /\ n - 1 < n
  BY <1>2
<1>4. n - 1 \in T
  <2>1. <<n - 1, n>> \in Below
    BY <1>3 DEF Below
  <2> QED
    BY <1>2, <1>3, <2>1
<1>5. n - 1 + 1 \in T
  BY <1>3, <1>4
<1> QED
  BY <1>2, <1>3, <1>5

\* Subsets of a finite set, one element at a time.
LEMMA SubsetInduction ==
  ASSUME NEW S, IsFiniteSet(S), NEW T, {} \in T,
         \A s \in SUBSET S : s # {} /\ (\A x \in s : s \ {x} \in T) => s \in T
  PROVE  SUBSET S \subseteq T
<1> DEFINE Upto(n) == \A s \in SUBSET S : Cardinality(s) <= n => s \in T
           N == {n \in Nat : Upto(n)}
<1>1. \A s \in SUBSET S : /\ IsFiniteSet(s) /\ Cardinality(s) \in Nat
                          /\ Cardinality(s) <= Cardinality(S)
                          /\ Cardinality(s) = 0 <=> s = {}
  BY FS_Subset, FS_CardinalityType, FS_EmptySet
<1>2. Upto(0)
  <2>1. \A s \in SUBSET S : Cardinality(s) <= 0 => s = {}
    BY <1>1
  <2> QED
    BY <2>1
<1>3. ASSUME NEW n \in Nat, Upto(n) PROVE Upto(n + 1)
  <2>1. ASSUME NEW s \in SUBSET S, Cardinality(s) <= n + 1, s # {} PROVE s \in T
    <3>1. ASSUME NEW x \in s PROVE s \ {x} \in T
      <4>1. s \ {x} \in SUBSET S /\ Cardinality(s \ {x}) = Cardinality(s) - 1
        BY <1>1, FS_RemoveElement
      <4>2. Cardinality(s) - 1 <= n
        BY <1>1, <2>1
      <4> QED
        BY <1>3, <4>1, <4>2
    <3> QED
      BY <2>1, <3>1
  <2> QED
    BY <2>1
<1>4. Cardinality(S) \in N
  <2>1. 0 \in N /\ \A n \in Nat : n \in N => n + 1 \in N
    <3> HIDE DEF Upto
    <3> QED
      BY <1>2, <1>3
  <2> HIDE DEF N
  <2> QED
    BY <1>1, <2>1, Induction
<1> QED
  BY <1>1, <1>4

-----------------------------------------------------------------------------
(* Folds                                                                   *)

\* c chooses an element of each subset of S.
Chooses(c, S) == \A s \in SUBSET S : s # {} => c[s] \in s

\* g is the fold of op over the subsets of S, their elements taken as c has it.
Folding(g, S, A, base, op, c) ==
    /\ g \in [SUBSET S -> A]
    /\ \A s \in SUBSET S : g[s] = IF s = {} THEN base ELSE op[<<c[s], g[s \ {c[s]}]>>]

\* There is a function that folds.
LEMMA FoldExists ==
  ASSUME NEW S, IsFiniteSet(S), NEW A, NEW base, base \in A, NEW op, op \in [S \X A -> A],
         NEW c, Chooses(c, S)
  PROVE  \E g : Folding(g, S, A, base, op, c)
<1> DEFINE Body(g, s) == IF s = {} THEN base ELSE op[<<c[s], g[s \ {c[s]}]>>]
           Upto(n) == \E g \in [SUBSET S -> A] : \A s \in SUBSET S :
                        Cardinality(s) <= n => g[s] = Body(g, s)
           T == {n \in Nat : Upto(n)}
<1>1. \A s \in SUBSET S : /\ IsFiniteSet(s) /\ Cardinality(s) \in Nat
                          /\ Cardinality(s) <= Cardinality(S)
                          /\ Cardinality(s) = 0 <=> s = {}
  BY FS_Subset, FS_CardinalityType, FS_EmptySet
<1>2. \A s \in SUBSET S : s # {} => /\ s \ {c[s]} \in SUBSET S
                                    /\ Cardinality(s \ {c[s]}) = Cardinality(s) - 1
  BY <1>1, FS_RemoveElement DEF Chooses
<1>3. ASSUME NEW g \in [SUBSET S -> A], NEW s \in SUBSET S PROVE Body(g, s) \in A
  <2>1. CASE s = {}
    BY <2>1
  <2>2. CASE s # {}
    <3>1. c[s] \in S /\ g[s \ {c[s]}] \in A
      BY <1>2, <2>2 DEF Chooses
    <3>2. <<c[s], g[s \ {c[s]}]>> \in S \X A
      BY <3>1
    <3> QED
      BY <2>2, <3>2
  <2> QED
    BY <2>1, <2>2
<1>4. 0 \in T
  <2> DEFINE g0 == [s \in SUBSET S |-> base]
  <2>1. g0 \in [SUBSET S -> A]
    OBVIOUS
  <2>2. \A s \in SUBSET S : Cardinality(s) <= 0 => g0[s] = Body(g0, s)
    BY <1>1
  <2> QED
    BY <2>1, <2>2
<1>5. ASSUME NEW n \in Nat, n \in T PROVE n + 1 \in T
  <2>1. PICK g \in [SUBSET S -> A] : \A s \in SUBSET S :
               Cardinality(s) <= n => g[s] = Body(g, s)
    BY <1>5
  <2> DEFINE h == [s \in SUBSET S |-> Body(g, s)]
  <2>2. h \in [SUBSET S -> A]
    BY <1>3
  <2>3. ASSUME NEW s \in SUBSET S, Cardinality(s) <= n + 1 PROVE h[s] = Body(h, s)
    <3>1. CASE s = {}
      BY <3>1
    <3>2. CASE s # {}
      <4>1. s \ {c[s]} \in SUBSET S /\ Cardinality(s \ {c[s]}) <= n
        BY <1>1, <1>2, <2>3, <3>2
      <4>2. h[s \ {c[s]}] = g[s \ {c[s]}]
        BY <2>1, <4>1
      <4> QED
        BY <3>2, <4>2
    <3> QED
      BY <3>1, <3>2
  <2>4. Upto(n + 1)
    <3> HIDE DEF h, Body
    <3> QED
      BY <2>2, <2>3
  <2> HIDE DEF Upto
  <2> QED
    BY <2>4
<1>6. Cardinality(S) \in T
  <2> HIDE DEF T
  <2> QED
    BY <1>1, <1>4, <1>5, Induction
<1> QED
  BY <1>1, <1>6 DEF Folding

-----------------------------------------------------------------------------
(* Folds along a sequence                                                  *)

\* A set of numbers has a greatest one.
LEMMA MaxOfSome ==
  ASSUME NEW n \in Nat, NEW s, s \subseteq 1..n, s # {}
  PROVE  Max(s) \in s /\ \A m \in s : m <= Max(s)
<1> DEFINE HasMax(r) == \E x \in r : \A y \in r : x >= y
           T == {r \in SUBSET (1..n) : r # {} => HasMax(r)}
<1>1. {} \in T
  OBVIOUS
<1>2. ASSUME NEW r \in SUBSET (1..n), r # {}, \A x \in r : r \ {x} \in T PROVE r \in T
  <2>1. PICK x : x \in r
    BY <1>2
  <2>2. CASE r = {x}
    BY <2>2
  <2>3. CASE r # {x}
    <3>1. r \ {x} # {} /\ r \ {x} \in T
      BY <1>2, <2>1, <2>3
    <3>2. PICK y \in r \ {x} : \A z \in r \ {x} : y >= z
      BY <3>1
    <3>3. \A z \in r : z \in Int
      OBVIOUS
    <3>4. HasMax(r)
      BY <2>1, <3>2, <3>3
    <3> HIDE DEF HasMax
    <3> QED
      BY <3>4
  <2> QED
    BY <2>2, <2>3
<1>3. IsFiniteSet(1..n)
  BY FS_Interval
<1>4. s \in T
  <2> DEFINE S == 1..n
  <2>1. \A r \in SUBSET S : r # {} /\ (\A x \in r : r \ {x} \in T) => r \in T
    BY <1>2
  <2>2. IsFiniteSet(S) /\ s \in SUBSET S
    BY <1>3
  <2> HIDE DEF S, T
  <2> QED
    BY <1>1, <2>1, <2>2, SubsetInduction
<1>5. HasMax(s)
  BY <1>4
<1> QED
  BY <1>5 DEF Max

\* The last of the first k numbers, and the others.
LEMMA MaxOfFirst ==
  ASSUME NEW k \in Nat, k # 0
  PROVE  Max(1..k) = k /\ (1..k) \ {k} = 1..(k - 1)
<1>1. Max(1..k) \in 1..k /\ \A m \in 1..k : m <= Max(1..k)
  <2>1. 1..k # {} /\ 1..k \subseteq 1..k
    OBVIOUS
  <2> QED
    BY <2>1, MaxOfSome
<1>2. Max(1..k) = k
  BY <1>1
<1>3. (1..k) \ {k} = 1..(k - 1)
  OBVIOUS
<1> QED
  BY <1>2, <1>3

\* The steps of a fold along a sequence of n elements, from the first to the last.
IsTrace(t, g, n, A, base, step) ==
    /\ t \in [0..n -> A]
    /\ t[0] = base /\ t[n] = g[1..n]
    /\ \A k \in 1..n : t[k] = step[<<k, t[k - 1]>>]

\* g solves the equation of the fold, as long as that stays in A.
Solves(g, n, A, base, step) ==
    /\ g[{}] = base
    /\ \A s \in SUBSET (1..n) : s # {} /\ g[s \ {Max(s)}] \in A
                                => g[s] = step[<<Max(s), g[s \ {Max(s)}]>>]

\* Whatever solves the equation has a trace.
LEMMA Trace ==
  ASSUME NEW n \in Nat, NEW A, NEW base, base \in A, NEW step,
         step \in [(1..n) \X A -> A], NEW g, Solves(g, n, A, base, step)
  PROVE  \E t : IsTrace(t, g, n, A, base, step)
<1> DEFINE t == [k \in 0..n |-> g[1..k]]
           T == {k \in Nat : k <= n => t[k] \in A}
<1>1. t[0] = base
  <2>1. 1..0 = {}
    OBVIOUS
  <2> QED
    BY <2>1 DEF Solves
<1>2. ASSUME NEW k \in 1..n, t[k - 1] \in A
      PROVE  t[k] = step[<<k, t[k - 1]>>] /\ t[k] \in A
  <2>1. k \in Nat /\ k # 0 /\ k - 1 \in 0..n /\ 1..k \in SUBSET (1..n) /\ 1..k # {}
    OBVIOUS
  <2>2. Max(1..k) = k /\ (1..k) \ {k} = 1..(k - 1)
    BY <2>1, MaxOfFirst
  <2>3. t[k] = g[1..k] /\ t[k - 1] = g[1..(k - 1)]
    BY <2>1
  <2>4. t[k] = step[<<k, t[k - 1]>>]
    <3>1. g[(1..k) \ {Max(1..k)}] = t[k - 1] /\ t[k - 1] \in A
      BY <1>2, <2>2, <2>3
    <3> HIDE DEF t
    <3> QED
      BY <2>1, <2>2, <2>3, <3>1 DEF Solves
  <2>5. <<k, t[k - 1]>> \in (1..n) \X A
    <3> HIDE DEF t
    <3> QED
      BY <1>2
  <2> HIDE DEF t
  <2> QED
    BY <2>4, <2>5
<1>3. 0 \in T
  BY <1>1
<1>4. ASSUME NEW k \in Nat, k \in T PROVE k + 1 \in T
  <2> SUFFICES ASSUME k + 1 <= n PROVE t[k + 1] \in A
    OBVIOUS
  <2> DEFINE m == k + 1
  <2>1. m \in 1..n /\ m - 1 = k /\ t[k] \in A
    BY <1>4
  <2> HIDE DEF m, t
  <2>2. t[m - 1] \in A
    BY <2>1
  <2>3. t[m] \in A
    BY <1>2, <2>1, <2>2
  <2> QED
    BY <2>3 DEF m
<1>5. \A k \in 0..n : t[k] \in A
  <2>1. Nat \subseteq T
    <3> HIDE DEF T
    <3> QED
      BY <1>3, <1>4, Induction
  <2> HIDE DEF t
  <2> QED
    BY <2>1
<1>6. \A k \in 1..n : t[k] = step[<<k, t[k - 1]>>]
  <2> SUFFICES ASSUME NEW k \in 1..n PROVE t[k] = step[<<k, t[k - 1]>>]
    OBVIOUS
  <2>1. k - 1 \in 0..n
    OBVIOUS
  <2> HIDE DEF t
  <2> QED
    BY <1>2, <1>5, <2>1
<1>7. t \in [0..n -> A] /\ t[n] = g[1..n]
  BY <1>5
<1> HIDE DEF t
<1> QED
  BY <1>1, <1>6, <1>7 DEF IsTrace

\* g folds by step along a sequence of n elements.
FoldsAlong(g, n, A, base, step) ==
    /\ g \in [SUBSET (1..n) -> A]
    /\ \A s \in SUBSET (1..n) :
         g[s] = IF s = {} THEN base ELSE step[<<Max(s), g[s \ {Max(s)}]>>]

\* There is such a g.
LEMMA FoldAlongExists ==
  ASSUME NEW n \in Nat, NEW A, NEW base, base \in A, NEW step,
         step \in [(1..n) \X A -> A]
  PROVE  \E g : FoldsAlong(g, n, A, base, step)
<1> DEFINE c == [s \in SUBSET (1..n) |-> Max(s)]
<1>1. IsFiniteSet(1..n)
  BY FS_Interval
<1>2. \A s \in SUBSET (1..n) : c[s] = Max(s)
  OBVIOUS
<1>3. Chooses(c, 1..n)
  <2>1. \A s \in SUBSET (1..n) : s # {} => Max(s) \in s
    BY MaxOfSome
  <2> HIDE DEF c
  <2> QED
    BY <1>2, <2>1 DEF Chooses
<1>4. PICK g : Folding(g, 1..n, A, base, step, c)
  <2> HIDE DEF c
  <2> QED
    BY <1>1, <1>3, FoldExists
<1> HIDE DEF c
<1> QED
  BY <1>2, <1>4 DEF Folding, FoldsAlong

-----------------------------------------------------------------------------
(* Sums                                                                    *)

Pick(s) == CHOOSE x \in s : TRUE

\* The equation of a sum of f.
Sums(g, f, S) ==
    /\ g \in [SUBSET S -> Int]
    /\ \A s \in SUBSET S : g[s] = IF s = {} THEN 0 ELSE f[Pick(s)] + g[s \ {Pick(s)}]

\* There is such a function, and it is the sum of the library.
LEMMA SumsExist ==
  ASSUME NEW S, IsFiniteSet(S), NEW f, \A x \in S : f[x] \in Int
  PROVE  \E g : Sums(g, f, S)
<1> DEFINE op == [p \in S \X Int |-> f[p[1]] + p[2]]
           c == [s \in SUBSET S |-> Pick(s)]
<1>1. op \in [S \X Int -> Int]
  OBVIOUS
<1>2. \A s \in SUBSET S : s # {} => c[s] \in s
  BY DEF Pick
<1>3. PICK g \in [SUBSET S -> Int] : \A s \in SUBSET S :
            g[s] = IF s = {} THEN 0 ELSE op[<<c[s], g[s \ {c[s]}]>>]
  <2> DEFINE A == Int
             zero == 0
  <2>1. zero \in A /\ op \in [S \X A -> A]
    BY <1>1
  <2>2. Chooses(c, S)
    BY <1>2 DEF Chooses
  <2> HIDE DEF op, c, A, zero
  <2>3. \E g : Folding(g, S, A, zero, op, c)
    BY <2>1, <2>2, FoldExists
  <2> QED
    BY <2>3 DEF Folding, A, zero
<1>4. ASSUME NEW s \in SUBSET S
      PROVE  g[s] = IF s = {} THEN 0 ELSE f[Pick(s)] + g[s \ {Pick(s)}]
  BY <1>2, <1>3
<1> QED
  BY <1>4 DEF Sums

\* It is the sum of the library, of every subset.
LEMMA SumIsOne ==
  ASSUME NEW S, IsFiniteSet(S), NEW f, \A x \in S : f[x] \in Int
  PROVE  \E g : Sums(g, f, S) /\ \A s \in SUBSET S : SumFunctionOnSet(f, s) = g[s]
<1>1. PICK g : Sums(g, f, S)
  BY SumsExist
<1>2. ASSUME NEW s \in SUBSET S PROVE SumFunctionOnSet(f, s) = g[s]
  <2> DEFINE Equation(h) ==
               h = [r \in SUBSET s |-> IF r = {} THEN 0 ELSE f[Pick(r)] + h[r \ {Pick(r)}]]
             sum == CHOOSE h : Equation(h)
             part == [r \in SUBSET s |-> g[r]]
             T == {r \in SUBSET s : sum[r] = g[r]}
  <2>1. Equation(part)
    <3>1. ASSUME NEW r \in SUBSET s
          PROVE  g[r] = IF r = {} THEN 0 ELSE f[Pick(r)] + part[r \ {Pick(r)}]
      BY <1>1 DEF Sums
    <3> QED
      BY <3>1
  <2>2. Equation(sum)
    BY <2>1
  <2>3. SumFunctionOnSet(f, s) = sum[s]
    BY DEF SumFunctionOnSet, FoldFunctionOnSet, MapThenFoldSet, Pick
  <2>4. {} \in T
    BY <1>1, <2>2 DEF Sums
  <2>5. ASSUME NEW r \in SUBSET s, r # {}, \A x \in r : r \ {x} \in T PROVE r \in T
    <3>1. Pick(r) \in r /\ r \in SUBSET S
      BY <2>5 DEF Pick
    <3>2. g[r] = f[Pick(r)] + g[r \ {Pick(r)}]
      BY <1>1, <2>5, <3>1 DEF Sums
    <3>3. sum[r] = f[Pick(r)] + sum[r \ {Pick(r)}]
      <4> HIDE DEF sum
      <4> QED
        BY <2>2, <2>5
    <3>4. sum[r \ {Pick(r)}] = g[r \ {Pick(r)}]
      <4> HIDE DEF sum
      <4> QED
        BY <2>5, <3>1
    <3> QED
      BY <3>2, <3>3, <3>4
  <2>6. IsFiniteSet(s)
    BY FS_Subset
  <2>7. s \in T
    <3> HIDE DEF T
    <3> QED
      BY <2>4, <2>5, <2>6, SubsetInduction
  <2> QED
    BY <2>3, <2>7
<1> QED
  BY <1>1, <1>2

\* A sum of integers is an integer, one of naturals a natural.
LEMMA SumType ==
  ASSUME NEW S, IsFiniteSet(S), NEW f, \A x \in S : f[x] \in Int
  PROVE  /\ SumFunctionOnSet(f, S) \in Int
         /\ (\A x \in S : f[x] \in Nat) => SumFunctionOnSet(f, S) \in Nat
<1>1. PICK g : Sums(g, f, S) /\ \A s \in SUBSET S : SumFunctionOnSet(f, s) = g[s]
  BY SumIsOne
<1>2. SumFunctionOnSet(f, S) \in Int
  BY <1>1 DEF Sums
<1>3. ASSUME \A x \in S : f[x] \in Nat PROVE g[S] \in Nat
  <2> DEFINE T == {s \in SUBSET S : g[s] \in Nat}
  <2>1. {} \in T
    <3>1. {} \in SUBSET S /\ g[{}] = 0
      BY <1>1 DEF Sums
    <3> QED
      BY <3>1
  <2>2. ASSUME NEW s \in SUBSET S, s # {}, \A x \in s : s \ {x} \in T PROVE s \in T
    <3>1. Pick(s) \in s /\ g[s] = f[Pick(s)] + g[s \ {Pick(s)}]
      BY <1>1, <2>2 DEF Sums, Pick
    <3>2. f[Pick(s)] \in Nat /\ g[s \ {Pick(s)}] \in Nat
      BY <1>3, <2>2, <3>1
    <3> QED
      BY <3>1, <3>2
  <2> HIDE DEF T
  <2>3. S \in T
    BY <2>1, <2>2, SubsetInduction
  <2> QED
    BY <2>3 DEF T
<1> QED
  BY <1>1, <1>2, <1>3

\* A sum of zeros is zero.
LEMMA SumOfZeros ==
  ASSUME NEW S, IsFiniteSet(S), NEW f, \A x \in S : f[x] = 0
  PROVE  SumFunctionOnSet(f, S) = 0
<1>1. PICK g : Sums(g, f, S) /\ \A s \in SUBSET S : SumFunctionOnSet(f, s) = g[s]
  BY SumIsOne
<1> DEFINE T == {s \in SUBSET S : g[s] = 0}
<1>2. {} \in T
  BY <1>1 DEF Sums
<1>3. ASSUME NEW s \in SUBSET S, s # {}, \A x \in s : s \ {x} \in T PROVE s \in T
  <2>1. Pick(s) \in s /\ g[s] = f[Pick(s)] + g[s \ {Pick(s)}]
    BY <1>1, <1>3 DEF Sums, Pick
  <2>2. f[Pick(s)] = 0 /\ g[s \ {Pick(s)}] = 0
    BY <1>3, <2>1
  <2> QED
    BY <2>1, <2>2
<1>4. S \in T
  <2> HIDE DEF T
  <2> QED
    BY <1>2, <1>3, SubsetInduction
<1> QED
  BY <1>1, <1>4

\* A sum changes by what one term of it changes.
LEMMA SumWithOneChanged ==
  ASSUME NEW S, IsFiniteSet(S), NEW f, \A y \in S : f[y] \in Int,
         NEW h, \A y \in S : h[y] \in Int,
         NEW x, x \in S, \A y \in S : y # x => h[y] = f[y]
  PROVE  SumFunctionOnSet(h, S) = SumFunctionOnSet(f, S) + h[x] - f[x]
<1>1. PICK g : Sums(g, f, S) /\ \A s \in SUBSET S : SumFunctionOnSet(f, s) = g[s]
  BY SumIsOne
<1>2. PICK k : Sums(k, h, S) /\ \A s \in SUBSET S : SumFunctionOnSet(h, s) = k[s]
  BY SumIsOne
<1> DEFINE Changed(s) == k[s] = IF x \in s THEN g[s] + h[x] - f[x] ELSE g[s]
           T == {s \in SUBSET S : Changed(s)}
<1>3. {} \in T
  BY <1>1, <1>2 DEF Sums
<1>4. ASSUME NEW s \in SUBSET S, s # {}, \A y \in s : Changed(s \ {y})
      PROVE  Changed(s)
  <2> DEFINE p == Pick(s)
             r == s \ {p}
  <2>1. p \in s /\ p \in S /\ r \in SUBSET S
    BY <1>4 DEF Pick
  <2>2. g[s] = f[p] + g[r] /\ k[s] = h[p] + k[r]
    BY <1>1, <1>2, <1>4 DEF Sums
  <2>3. f[p] \in Int /\ h[p] \in Int /\ g[r] \in Int /\ k[r] \in Int
    BY <1>1, <1>2, <2>1 DEF Sums
  <2>4. Changed(r)
    BY <1>4, <2>1
  <2>5. p # x => h[p] = f[p]
    BY <2>1
  <2>6. f[x] \in Int /\ h[x] \in Int
    OBVIOUS
  <2>7. x \in r <=> x \in s /\ x # p
    OBVIOUS
  <2> HIDE DEF p, r
  <2>8. CASE x = p
    BY <2>1, <2>2, <2>3, <2>4, <2>7, <2>8
  <2>9. CASE x # p
    BY <2>1, <2>2, <2>3, <2>4, <2>5, <2>6, <2>7, <2>9
  <2> QED
    BY <2>8, <2>9
<1>5. \A s \in SUBSET S : s # {} /\ (\A y \in s : s \ {y} \in T) => s \in T
  <2> HIDE DEF Changed
  <2> QED
    BY <1>4
<1>6. S \in T
  <2> HIDE DEF T
  <2> QED
    BY <1>3, <1>5, SubsetInduction
<1> QED
  BY <1>1, <1>2, <1>6

\* A sum is made of its terms.
LEMMA SumOfTheSame ==
  ASSUME NEW S, IsFiniteSet(S), NEW f, \A y \in S : f[y] \in Int,
         NEW h, \A y \in S : h[y] = f[y]
  PROVE  SumFunctionOnSet(h, S) = SumFunctionOnSet(f, S)
<1>1. CASE S = {}
  BY <1>1, SumOfZeros
<1>2. CASE S # {}
  <2>1. PICK x : x \in S
    BY <1>2
  <2>2. SumFunctionOnSet(h, S) = SumFunctionOnSet(f, S) + h[x] - f[x]
    BY <2>1, SumWithOneChanged
  <2>3. SumFunctionOnSet(f, S) \in Int /\ f[x] \in Int /\ h[x] = f[x]
    BY <2>1, SumType
  <2> QED
    BY <2>2, <2>3
<1> QED
  BY <1>1, <1>2

\* A sum is any term of it and the sum of the others, whichever comes first.
LEMMA SumWithout ==
  ASSUME NEW S, IsFiniteSet(S), NEW f, \A y \in S : f[y] \in Int, NEW x, x \in S
  PROVE  SumFunctionOnSet(f, S) = f[x] + SumFunctionOnSet(f, S \ {x})
<1>1. PICK g : Sums(g, f, S) /\ \A s \in SUBSET S : SumFunctionOnSet(f, s) = g[s]
  BY SumIsOne
<1> DEFINE Whichever(s) == \A y \in s : g[s] = f[y] + g[s \ {y}]
           T == {s \in SUBSET S : Whichever(s)}
<1>2. ASSUME NEW s \in SUBSET S, s # {}, \A y \in s : Whichever(s \ {y}) PROVE Whichever(s)
  <2> SUFFICES ASSUME NEW y \in s PROVE g[s] = f[y] + g[s \ {y}]
    OBVIOUS
  <2> DEFINE p == Pick(s)
             r == s \ {p, y}
  <2>1. p \in s /\ g[s] = f[p] + g[s \ {p}]
    BY <1>1, <1>2 DEF Sums, Pick
  <2>2. CASE p = y
    BY <2>1, <2>2
  <2>3. CASE p # y
    <3>1. y \in s \ {p} /\ p \in s \ {y}
      BY <2>1, <2>3
    <3>2. (s \ {p}) \ {y} = r /\ (s \ {y}) \ {p} = r
      <4> HIDE DEF p
      <4> QED
        OBVIOUS
    <3>3. g[s \ {p}] = f[y] + g[r] /\ g[s \ {y}] = f[p] + g[r]
      <4> HIDE DEF p, r
      <4> QED
        BY <1>2, <2>1, <3>1, <3>2
    <3>4. f[p] \in Int /\ f[y] \in Int /\ g[r] \in Int
      BY <1>1, <2>1 DEF Sums
    <3> HIDE DEF p, r
    <3> QED
      BY <2>1, <3>3, <3>4
  <2> QED
    BY <2>2, <2>3
<1>3. {} \in T
  OBVIOUS
<1>4. \A s \in SUBSET S : s # {} /\ (\A y \in s : s \ {y} \in T) => s \in T
  <2> HIDE DEF Whichever
  <2> QED
    BY <1>2
<1>5. S \in T
  <2> HIDE DEF T
  <2> QED
    BY <1>3, <1>4, SubsetInduction
<1>6. g[S] = f[x] + g[S \ {x}]
  BY <1>5
<1> QED
  BY <1>1, <1>6

\* One amount goes to the place m of a sum, which may be new.
LEMMA SumWithMore ==
  ASSUME NEW D, IsFiniteSet(D), NEW f, \A x \in D : f[x] \in Int,
         NEW m, NEW a \in Int, NEW h,
         \A x \in D : x # m => h[x] = f[x],
         h[m] = (IF m \in D THEN f[m] ELSE 0) + a
  PROVE  SumFunctionOnSet(h, D \cup {m}) = SumFunctionOnSet(f, D) + a
<1>0. SumFunctionOnSet(f, D) \in Int
  BY SumType
<1>1. CASE m \in D
  <2>1. D \cup {m} = D /\ \A x \in D : h[x] \in Int
    BY <1>1
  <2>2. SumFunctionOnSet(h, D) = SumFunctionOnSet(f, D) + h[m] - f[m]
    BY <1>1, <2>1, SumWithOneChanged
  <2> DEFINE was == SumFunctionOnSet(f, D)
             here == f[m]
             now == h[m]
  <2>3. now = here + a /\ here \in Int /\ was \in Int
    BY <1>0, <1>1
  <2>4. SumFunctionOnSet(h, D) = was + now - here
    BY <2>2
  <2> HIDE DEF was, here, now
  <2>5. SumFunctionOnSet(h, D) = was + a
    BY <2>3, <2>4
  <2> QED
    BY <2>1, <2>5 DEF was
<1>2. CASE m \notin D
  <2> DEFINE E == D \cup {m}
  <2>1. /\ IsFiniteSet(E) /\ m \in E /\ E \ {m} = D
        /\ \A x \in E : h[x] \in Int
        /\ \A x \in D : h[x] = f[x]
        /\ h[m] = a
    BY <1>2, FS_AddElement
  <2> HIDE DEF E
  <2>2. SumFunctionOnSet(h, E) = h[m] + SumFunctionOnSet(h, E \ {m})
    BY <2>1, SumWithout
  <2>3. SumFunctionOnSet(h, D) = SumFunctionOnSet(f, D)
    BY <2>1, SumOfTheSame
  <2>4. SumFunctionOnSet(h, E) = SumFunctionOnSet(f, D) + a
    <3> DEFINE was == SumFunctionOnSet(f, D)
    <3>1. SumFunctionOnSet(h, E) = a + was /\ was \in Int
      BY <1>0, <2>1, <2>2, <2>3
    <3> HIDE DEF was
    <3>2. SumFunctionOnSet(h, E) = was + a
      BY <3>1
    <3> QED
      BY <3>2 DEF was
  <2> QED
    BY <2>4 DEF E
<1> QED
  BY <1>1, <1>2

\* A set of places with one more, k.
LEMMA SumOneFurther ==
  ASSUME NEW D, IsFiniteSet(D), NEW f, NEW k, k \notin D, \A x \in D \cup {k} : f[x] \in Int
  PROVE  SumFunctionOnSet(f, D \cup {k}) = SumFunctionOnSet(f, D) + f[k]
<1>1. /\ \A x \in D : f[x] \in Int
      /\ f[k] = (IF k \in D THEN f[k] ELSE 0) + f[k] /\ f[k] \in Int
  OBVIOUS
<1> DEFINE a == f[k]
<1>2. a \in Int /\ f[k] = (IF k \in D THEN f[k] ELSE 0) + a
  BY <1>1
<1> HIDE DEF a
<1>3. SumFunctionOnSet(f, D \cup {k}) = SumFunctionOnSet(f, D) + a
  BY <1>1, <1>2, SumWithMore
<1> QED
  BY <1>3 DEF a

\* A sum along a sequence, up to k.
LEMMA SumOfFirst ==
  ASSUME NEW k \in Nat, k # 0, NEW f, \A j \in 1..k : f[j] \in Int
  PROVE  SumFunctionOnSet(f, 1..k) = SumFunctionOnSet(f, 1..(k - 1)) + f[k]
<1> DEFINE first == 1..(k - 1)
<1>1. k \notin first /\ first \cup {k} = 1..k
  OBVIOUS
<1>2. IsFiniteSet(first)
  <2>1. k - 1 \in Int /\ 1 \in Int
    OBVIOUS
  <2> QED
    BY <2>1, FS_Interval
<1> HIDE DEF first
<1>3. \A x \in first \cup {k} : f[x] \in Int
  BY <1>1
<1>4. SumFunctionOnSet(f, first \cup {k}) = SumFunctionOnSet(f, first) + f[k]
  BY <1>1, <1>2, <1>3, SumOneFurther
<1> QED
  BY <1>1, <1>4 DEF first

-----------------------------------------------------------------------------
(* Sequences                                                               *)

\* What is in a sequence that two were made into.
LEMMA ConcatSet ==
  ASSUME NEW S, NEW s \in Seq(S), NEW t \in Seq(S)
  PROVE  /\ ToSet(s \o t) = ToSet(s) \cup ToSet(t)
         /\ \A k \in 1..Len(s) : s[k] \in ToSet(s)
<1> DEFINE m == Len(s)
           n == Len(t)
           c == s \o t
<1>1. m \in Nat /\ n \in Nat /\ DOMAIN s = 1..m /\ DOMAIN t = 1..n
  BY LenProperties
<1>2. /\ c \in Seq(S) /\ Len(c) = m + n
      /\ \A k \in 1..(m + n) : c[k] = IF k <= m THEN s[k] ELSE t[k - m]
  BY ConcatProperties
<1>3. DOMAIN c = 1..(m + n)
  <2> HIDE DEF c, m, n
  <2> QED
    BY <1>2, LenProperties
<1> HIDE DEF c, m, n
<1>4. ToSet(c) \subseteq ToSet(s) \cup ToSet(t)
  <2> SUFFICES ASSUME NEW k \in 1..(m + n) PROVE c[k] \in ToSet(s) \cup ToSet(t)
    BY <1>3 DEF ToSet
  <2>1. CASE k <= m
    <3>1. k \in 1..m /\ c[k] = s[k]
      BY <1>1, <1>2, <2>1
    <3> QED
      BY <1>1, <3>1 DEF ToSet
  <2>2. CASE k > m
    <3>1. k - m \in 1..n /\ c[k] = t[k - m]
      BY <1>1, <1>2, <2>2
    <3> QED
      BY <1>1, <3>1 DEF ToSet
  <2> QED
    BY <1>1, <2>1, <2>2
<1>5. ASSUME NEW x \in ToSet(s) PROVE x \in ToSet(c)
  <2>1. PICK k \in 1..m : x = s[k]
    BY <1>1 DEF ToSet
  <2>2. k \in 1..(m + n) /\ c[k] = x
    BY <1>1, <1>2, <2>1
  <2> QED
    BY <1>3, <2>2 DEF ToSet
<1>6. ASSUME NEW x \in ToSet(t) PROVE x \in ToSet(c)
  <2>1. PICK k \in 1..n : x = t[k]
    BY <1>1 DEF ToSet
  <2>2. m + k \in 1..(m + n) /\ c[m + k] = x
    BY <1>1, <1>2, <2>1
  <2> QED
    BY <1>3, <2>2 DEF ToSet
<1>7. \A k \in 1..m : s[k] \in ToSet(s)
  BY <1>1 DEF ToSet
<1> QED
  BY <1>4, <1>5, <1>6, <1>7 DEF c, m

\* t takes its steps along seqs: each appends one of them.
Joining(t, seqs, S) ==
    /\ t \in [0..Len(seqs) -> Seq(S)] /\ t[0] = <<>>
    /\ \A k \in 1..Len(seqs) : t[k] = t[k - 1] \o seqs[k]

\* There are such steps.
LEMMA JoinExists ==
  ASSUME NEW S, NEW seqs \in Seq(Seq(S))
  PROVE  \E t : Joining(t, seqs, S)
<1> DEFINE n == Len(seqs)
           A == Seq(S)
           base == <<>>
           op == [p \in (1..n) \X A |-> p[2] \o seqs[p[1]]]
<1>1. n \in Nat /\ \A k \in 1..n : seqs[k] \in A
  BY LenProperties
<1>2. base \in A
  BY EmptySeq
<1>3. \A k \in 1..n, a \in A : a \o seqs[k] \in A
  BY <1>1, ConcatProperties
<1>4. op \in [(1..n) \X A -> A]
  <2> HIDE DEF n, A
  <2> QED
    BY <1>3
<1>5. \A k \in 1..n, a \in A : op[<<k, a>>] = a \o seqs[k]
  <2> HIDE DEF n, A
  <2> QED
    OBVIOUS
<1> HIDE DEF op, A, base, n
<1>6. PICK g : FoldsAlong(g, n, A, base, op)
  BY <1>1, <1>2, <1>4, FoldAlongExists
<1>7. Solves(g, n, A, base, op)
  BY <1>6 DEF Solves, FoldsAlong
<1>8. PICK t : IsTrace(t, g, n, A, base, op)
  BY <1>1, <1>2, <1>4, <1>7, Trace
<1>9. t \in [0..n -> A] /\ t[0] = base /\ \A k \in 1..n : t[k] = op[<<k, t[k - 1]>>]
  BY <1>8 DEF IsTrace
<1>10. ASSUME NEW k \in 1..n PROVE t[k] = t[k - 1] \o seqs[k]
  <2>1. k - 1 \in 0..n
    BY <1>1
  <2> QED
    BY <1>5, <1>9, <2>1
<1> QED
  BY <1>9, <1>10 DEF Joining, n, A, base

\* Sequences of elements of S make one such.
LEMMA Flattened ==
  ASSUME NEW S, NEW seqs \in Seq(Seq(S))
  PROVE  FlattenSeq(seqs) \in Seq(S)
<1> DEFINE n == Len(seqs)
           Equation(g) == g = [k \in 1..n |-> IF k = 1 THEN seqs[k] ELSE g[k - 1] \o seqs[k]]
           flat == CHOOSE g : Equation(g)
<1>1. n \in Nat /\ \A k \in 1..n : seqs[k] \in Seq(S)
  BY LenProperties
<1>2. CASE n = 0
  <2>1. seqs = <<>>
    BY <1>2, EmptySeq
  <2> QED
    BY <2>1, EmptySeq DEF FlattenSeq
<1>3. CASE n # 0
  <2>1. PICK t : Joining(t, seqs, S)
    BY JoinExists
  <2>2. /\ t \in [0..n -> Seq(S)] /\ t[0] = <<>>
        /\ \A k \in 1..n : t[k] = t[k - 1] \o seqs[k]
    BY <2>1 DEF Joining
  <2> DEFINE joined == [k \in 1..n |-> t[k]]
  <2>3. Equation(joined)
    <3>1. ASSUME NEW k \in 1..n
          PROVE  t[k] = IF k = 1 THEN seqs[k] ELSE joined[k - 1] \o seqs[k]
      <4>1. CASE k = 1
        <5>1. t[1] = t[0] \o seqs[1] /\ seqs[1] \in Seq(S)
          <6>1. 1 \in 1..n /\ 1 - 1 = 0
            BY <1>1, <1>3
          <6> QED
            BY <1>1, <2>2, <6>1
        <5>2. <<>> \o seqs[1] = seqs[1]
          BY <5>1, ConcatEmptySeq
        <5> QED
          BY <2>2, <4>1, <5>1, <5>2
      <4>2. CASE k # 1
        <5>1. k - 1 \in 1..n
          BY <1>1, <4>2
        <5> QED
          BY <2>2, <4>2, <5>1
      <4> QED
        BY <4>1, <4>2
    <3> QED
      BY <3>1
  <2>4. Equation(flat)
    <3> HIDE DEF joined, Equation
    <3> QED
      BY <2>3
  <2>5. FlattenSeq(seqs) = flat[n]
    BY <1>3 DEF FlattenSeq
  <2> DEFINE T == {k \in Nat : k \in 1..n => flat[k] \in Seq(S)}
  <2>6. ASSUME NEW k \in 1..n, k # 1 => flat[k - 1] \in Seq(S)
        PROVE  flat[k] \in Seq(S)
    <3>1. flat[k] = IF k = 1 THEN seqs[k] ELSE flat[k - 1] \o seqs[k]
      <4> HIDE DEF flat
      <4> QED
        BY <2>4
    <3> HIDE DEF flat
    <3> QED
      BY <1>1, <2>6, <3>1, ConcatProperties
  <2>7. 0 \in T
    OBVIOUS
  <2>8. ASSUME NEW k \in Nat, k \in T PROVE k + 1 \in T
    <3> SUFFICES ASSUME k + 1 \in 1..n PROVE flat[k + 1] \in Seq(S)
      OBVIOUS
    <3> DEFINE m == k + 1
    <3>1. m \in 1..n /\ (m # 1 => k \in 1..n) /\ m - 1 = k
      BY <1>1
    <3> HIDE DEF flat, m
    <3>2. m # 1 => flat[m - 1] \in Seq(S)
      BY <2>8, <3>1
    <3>3. flat[m] \in Seq(S)
      BY <2>6, <3>1, <3>2
    <3> QED
      BY <3>3 DEF m
  <2>9. n \in T
    <3> HIDE DEF T
    <3>1. Nat \subseteq T
      BY <2>7, <2>8, Induction
    <3> QED
      BY <1>1, <3>1
  <2> HIDE DEF flat
  <2> QED
    BY <1>1, <1>3, <2>5, <2>9
<1> QED
  BY <1>2, <1>3
=============================================================================

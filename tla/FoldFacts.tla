------------------------------ MODULE FoldFacts ------------------------------
(***************************************************************************)
(* What the proofs about folds need.  The models read lists of the code -   *)
(* users of a replacement, channels of a ranking, slices of a text - with   *)
(* FoldLeft, which the community modules define by a function on the        *)
(* subsets of the places of a sequence.  Here: numbers up to a bound by     *)
(* their least counterexample, extremes of finite sets, and the path of     *)
(* values a fold goes through, one place after the other.                   *)
(***************************************************************************)
EXTENDS Integers, FiniteSets, SequencesExt, FiniteSetTheorems, WellFoundedInduction, TLAPS

---------------------------------------------------------------------------
(* Numbers                                                                  *)

\* The order of the natural numbers has no infinite descent.
LEMMA LessIsWellFounded == IsWellFoundedOn({r \in Nat \X Nat : r[1] < r[2]}, Nat)
  BY NatLessThanWellFounded, Zenon DEF OpToRel

\* A set of natural numbers that is not empty has a least member.
LEMMA LeastNumber ==
    ASSUME NEW T \in SUBSET Nat, T # {}
    PROVE  \E x \in T : \A y \in T : x <= y
  <1> DEFINE R == {r \in Nat \X Nat : r[1] < r[2]}
  <1>1. PICK x \in T : \A y \in T : ~ (<<y, x>> \in R)
    <2> HIDE DEF R
    <2>1. IsWellFoundedOn(R, Nat)
      BY LessIsWellFounded DEF R
    <2> QED
     BY <2>1, WFMin, Zenon
  <1>2. \A y \in T : ~ (y < x)
    BY <1>1
  <1> QED BY <1>2

\* A set that holds 0 and with each number the next one, up to n, holds them all.
LEMMA UpTo ==
    ASSUME NEW n \in Nat, NEW T, 0 \in T, \A k \in 1 .. n : k - 1 \in T => k \in T
    PROVE  \A k \in 0 .. n : k \in T
  <1> DEFINE Missing == {k \in 0 .. n : k \notin T}
  <1> SUFFICES ASSUME Missing # {} PROVE FALSE
    OBVIOUS
  <1>1. PICK x \in Missing : \A y \in Missing : x <= y
    <2>1. Missing \in SUBSET Nat
      OBVIOUS
    <2> QED BY <2>1, LeastNumber, Zenon
  <1>2. x \in 1 .. n /\ x - 1 \in 0 .. n /\ ~ (x <= x - 1)
    BY <1>1
  <1>3. x - 1 \in T
    BY <1>1, <1>2
  <1> QED
    BY <1>1, <1>2, <1>3

\* A set of numbers up to n that is not empty has a greatest member.
LEMMA MaxUpTo ==
    ASSUME NEW n \in Nat, NEW s \in SUBSET (1 .. n), s # {}
    PROVE  Max(s) \in s /\ \A y \in s : Max(s) >= y
  <1> DEFINE T == {n - k : k \in s}
  <1>1. PICK x \in T : \A y \in T : x <= y
    <2>1. \A k \in s : n - k \in Nat
      OBVIOUS
    <2>2. T \subseteq Nat
      BY <2>1
    <2>3. T # {}
      OBVIOUS
    <2> HIDE DEF T
    <2> QED
      BY <2>2, <2>3, LeastNumber
  <1>2. PICK k \in s : x = n - k
    BY <1>1
  <1>3. \A y \in s : k >= y
    <2> TAKE y \in s
    <2>1. x <= n - y
      BY <1>1
    <2> QED BY <2>1, <1>2
  <1> QED
    BY <1>3, Zenon DEF Max

\* The greatest number up to n is n, and without it those up to n - 1 are left.
LEMMA MaxOfRange ==
    ASSUME NEW n \in Nat, n > 0
    PROVE  Max(1 .. n) = n /\ (1 .. n) \ {Max(1 .. n)} = 1 .. n - 1
  <1>1. Max(1 .. n) \in 1 .. n /\ \A y \in 1 .. n : Max(1 .. n) >= y
    <2>1. 1 .. n \in SUBSET (1 .. n) /\ 1 .. n # {}
      OBVIOUS
    <2> QED BY <2>1, MaxUpTo, Zenon
  <1>2. n \in 1 .. n
    OBVIOUS
  <1>3. Max(1 .. n) = n
    BY <1>1, <1>2
  <1> QED BY <1>3

\* A finite set of integers that is not empty has a greatest and a least member.
LEMMA Extremes ==
    ASSUME NEW S \in SUBSET Int, IsFiniteSet(S), S # {}
    PROVE  /\ Max(S) \in S /\ \A y \in S : y <= Max(S)
           /\ Min(S) \in S /\ \A y \in S : Min(S) <= y
  <1>1. PICK n \in Nat : ExistsSurjection(1 .. n, S)
    BY FS_NatSurjection
  <1>2. PICK f \in [1 .. n -> S] : \A y \in S : \E k \in 1 .. n : f[k] = y
    BY <1>1 DEF ExistsSurjection, Surjection
  <1>3. n > 0
    <2>1. PICK y \in S : TRUE
      OBVIOUS
    <2>2. PICK k \in 1 .. n : f[k] = y
      BY <1>2, <2>1
    <2> QED BY <2>2
  <1>0. \A k \in 1 .. n : f[k] \in S /\ f[k] \in Int
    OBVIOUS
  <1> DEFINE T == {k \in 0 .. n : k > 0 => \E g, l \in S : \A i \in 1 .. k : l <= f[i] /\ f[i] <= g}
  <1>4. 0 \in T
    OBVIOUS
  <1>5. ASSUME NEW k \in 1 .. n, k - 1 \in T PROVE k \in T
    <2>1. CASE k = 1
      <3>1. f[1] \in S /\ f[1] \in Int
        <4>1. 1 \in 1 .. n
          BY <1>3
        <4> QED BY <1>0, <4>1
      <3>2. \A i \in 1 .. k : f[1] <= f[i] /\ f[i] <= f[1]
        BY <2>1, <3>1
      <3>3. \E g, l \in S : \A i \in 1 .. k : l <= f[i] /\ f[i] <= g
        BY <3>1, <3>2
      <3> QED BY <3>3
    <2>2. CASE k > 1
      <3>1. PICK g \in S, l \in S : \A i \in 1 .. k - 1 : l <= f[i] /\ f[i] <= g
        BY <1>5, <2>2
      <3> DEFINE g2 == IF g <= f[k] THEN f[k] ELSE g
                 l2 == IF f[k] <= l THEN f[k] ELSE l
      <3>2. f[k] \in S /\ f[k] \in Int /\ g \in Int /\ l \in Int
        BY <1>0
      <3>3. g2 \in S /\ l2 \in S
        BY <3>2
      <3>4. \A i \in 1 .. k : l2 <= f[i] /\ f[i] <= g2
        <4> TAKE i \in 1 .. k
        <4>1. CASE i = k
          BY <4>1, <3>2
        <4>2. CASE i # k
          <5>1. i \in 1 .. k - 1 /\ f[i] \in Int
            <6>1. i \in 1 .. n /\ i \in 1 .. k - 1
              BY <4>2
            <6> QED BY <6>1, <1>0
          <5>2. l <= f[i] /\ f[i] <= g
            BY <5>1, <3>1
          <5> QED BY <5>1, <5>2, <3>2
        <4> QED BY <4>1, <4>2
      <3> HIDE DEF g2, l2
      <3>5. \E a, b \in S : \A i \in 1 .. k : b <= f[i] /\ f[i] <= a
        BY <3>3, <3>4
      <3> QED BY <3>5
    <2> QED BY <2>1, <2>2
  <1>6. \A k \in 0 .. n : k \in T
    <2> HIDE DEF T
    <2> QED BY <1>4, <1>5, UpTo, Zenon
  <1>7. n \in T
    <2> HIDE DEF T
    <2>1. n \in 0 .. n
      OBVIOUS
    <2> QED BY <1>6, <2>1
  <1>8. PICK g \in S, l \in S : \A i \in 1 .. n : l <= f[i] /\ f[i] <= g
    BY <1>3, <1>7
  <1>9. \A y \in S : l <= y /\ y <= g
    BY <1>2, <1>8
  <1>10. Max(S) \in S /\ \A y \in S : Max(S) >= y
    <2>1. \A y \in S : g >= y
      BY <1>9
    <2> QED BY <2>1, Zenon DEF Max
  <1>11. Min(S) \in S /\ \A y \in S : Min(S) <= y
    BY <1>9, Zenon DEF Min
  <1> QED BY <1>10, <1>11

---------------------------------------------------------------------------
(* Folds                                                                    *)

\* it solves the recursion of a fold of op over the first m members of seq,
\* from b.
FoldTable(b, op, seq, it, m) ==
    it = [s \in SUBSET (1 .. m) |-> IF s = {} THEN b ELSE op[it[s \ {Max(s)}]][seq[Max(s)]]]

\* The recursion of a fold over the members of seq has a solution, whose
\* values are where its operation leads from b.
LEMMA FoldTableExists ==
    ASSUME NEW A, NEW I, NEW op \in [A -> [I -> A]], NEW b \in A, NEW n \in Nat,
           NEW seq \in [1 .. n -> I]
    PROVE  \E it \in [SUBSET (1 .. n) -> A] : FoldTable(b, op, seq, it, n)
  <1> DEFINE T == {m \in 0 .. n : \E it \in [SUBSET (1 .. m) -> A] : FoldTable(b, op, seq, it, m)}
  <1>1. 0 \in T
    <2>1. SUBSET (1 .. 0) = {{}}
      OBVIOUS
    <2>2. [s \in SUBSET (1 .. 0) |-> b] \in [SUBSET (1 .. 0) -> A]
      OBVIOUS
    <2>3. FoldTable(b, op, seq, [s \in SUBSET (1 .. 0) |-> b], 0)
      BY <2>1 DEF FoldTable
    <2>4. \E it \in [SUBSET (1 .. 0) -> A] : FoldTable(b, op, seq, it, 0)
      BY <2>2, <2>3, Zenon
    <2>5. 0 \in 0 .. n
      OBVIOUS
    <2> QED BY <2>4, <2>5, Zenon
  <1>2. \A m \in 1 .. n : m - 1 \in T => m \in T
    <2> SUFFICES ASSUME NEW m \in 1 .. n, m - 1 \in T PROVE m \in T
      OBVIOUS
    <2>1. PICK it \in [SUBSET (1 .. m - 1) -> A] : FoldTable(b, op, seq, it, m - 1)
      <3> HIDE DEF FoldTable
      <3> QED BY Zenon
    <2> DEFINE up == [s \in SUBSET (1 .. m) |->
                         IF m \in s THEN op[it[s \ {m}]][seq[m]] ELSE it[s]]
    <2>2. \A s \in SUBSET (1 .. m) : m \notin s => s \in SUBSET (1 .. m - 1)
      <3>1. \A k \in 1 .. m : k # m => k \in 1 .. m - 1
        OBVIOUS
      <3> QED BY <3>1
    <2>3. \A s \in SUBSET (1 .. m) : s \ {m} \in SUBSET (1 .. m - 1)
      OBVIOUS
    <2>4. up \in [SUBSET (1 .. m) -> A]
      BY <2>2, <2>3
    <2>5. \A s \in SUBSET (1 .. m) : m \in s => Max(s) = m
      <3> SUFFICES ASSUME NEW s \in SUBSET (1 .. m), m \in s PROVE Max(s) = m
        OBVIOUS
      <3>1. Max(s) \in s /\ \A y \in s : Max(s) >= y
        <4>1. m \in Nat /\ s # {}
          OBVIOUS
        <4> QED BY <4>1, MaxUpTo, Zenon
      <3>2. Max(s) \in 1 .. m /\ Max(s) >= m
        BY <3>1
      <3> QED BY <3>2
    <2>6. \A s \in SUBSET (1 .. m) :
             up[s] = IF s = {} THEN b ELSE op[up[s \ {Max(s)}]][seq[Max(s)]]
      <3> TAKE s \in SUBSET (1 .. m)
      <3>1. CASE m \in s
        <4>1. Max(s) = m /\ s # {} /\ up[s] = op[it[s \ {m}]][seq[m]]
          BY <3>1, <2>5
        <4>2. up[s \ {m}] = it[s \ {m}]
          OBVIOUS
        <4> QED BY <4>1, <4>2
      <3>2. CASE m \notin s
        <4>1. up[s] = it[s] /\ s \in SUBSET (1 .. m - 1)
          BY <3>2, <2>2
        <4>2. it[s] = IF s = {} THEN b ELSE op[it[s \ {Max(s)}]][seq[Max(s)]]
          BY <2>1, <4>1 DEF FoldTable
        <4>3. s \ {Max(s)} \in SUBSET (1 .. m) /\ m \notin s \ {Max(s)}
          BY <3>2
        <4>4. up[s \ {Max(s)}] = it[s \ {Max(s)}]
          BY <4>3
        <4> QED BY <4>1, <4>2, <4>4
      <3> QED BY <3>1, <3>2
    <2>7. FoldTable(b, op, seq, up, m)
      BY <2>6 DEF FoldTable
    <2>8. \E f \in [SUBSET (1 .. m) -> A] : FoldTable(b, op, seq, f, m)
      <3> HIDE DEF up
      <3> QED BY <2>4, <2>7, Zenon
    <2> QED BY <2>8
  <1>3. \A k \in 0 .. n : k \in T
    <2> HIDE DEF T
    <2> QED BY <1>1, <1>2, UpTo, Zenon
  <1>4. n \in 0 .. n
    OBVIOUS
  <1> QED BY <1>3, <1>4, Zenon

\* From a value of A, it takes the step of op.
FoldSteps(A, op, seq, it, n) ==
    \A k \in 1 .. n : it[1 .. k - 1] \in A => it[1 .. k] = op[it[1 .. k - 1]][seq[k]]

\* h is the path of a fold: from b to the value for the whole sequence.
FoldRun(b, op, seq, it, h, n) ==
    h[0] = b /\ h[n] = it[1 .. n] /\ \A k \in 1 .. n : h[k] = op[h[k - 1]][seq[k]]

\* Along the segments 1 .. k the solution takes one step at a time.
LEMMA FoldPath ==
    ASSUME NEW A, NEW I, NEW op \in [A -> [I -> A]], NEW b \in A, NEW n \in Nat,
           NEW seq \in [1 .. n -> I], NEW it, it[{}] = b,
           FoldSteps(A, op, seq, it, n)
    PROVE  \E h \in [0 .. n -> A] : FoldRun(b, op, seq, it, h, n)
  <1> DEFINE T == {k \in 0 .. n : it[1 .. k] \in A}
             h == [k \in 0 .. n |-> it[1 .. k]]
  <1>1. 0 \in T
    <2>1. 1 .. 0 = {}
      OBVIOUS
    <2> QED BY <2>1
  <1>2. \A k \in 1 .. n : k - 1 \in T => k \in T
    BY DEF FoldSteps
  <1>3. \A k \in 0 .. n : k \in T
    <2> HIDE DEF T
    <2> QED BY <1>1, <1>2, UpTo, Zenon
  <1>4. h \in [0 .. n -> A]
    BY <1>3
  <1>5. h[0] = b
    <2>1. 1 .. 0 = {}
      OBVIOUS
    <2> QED BY <2>1
  <1>6. h[n] = it[1 .. n]
    OBVIOUS
  <1>7. \A k \in 1 .. n : h[k] = op[h[k - 1]][seq[k]]
    BY <1>3 DEF FoldSteps
  <1> HIDE DEF h
  <1>8. FoldRun(b, op, seq, it, h, n)
    BY <1>5, <1>6, <1>7 DEF FoldRun
  <1> QED BY <1>4, <1>8, Zenon

\* From a value of A, next is the step of op.
NextIs(A, op, seq, it, next, n) ==
    \A s \in SUBSET (1 .. n) : s # {} /\ it[s \ {Max(s)}] \in A =>
        next[s] = op[it[s \ {Max(s)}]][seq[Max(s)]]

\* A solution whose step is op where op is defined has a path.
LEMMA FoldSolved ==
    ASSUME NEW A, NEW I, NEW op \in [A -> [I -> A]], NEW b \in A, NEW n \in Nat,
           NEW seq \in [1 .. n -> I], NEW it, NEW next,
           it = [s \in SUBSET (1 .. n) |-> IF s = {} THEN b ELSE next[s]],
           NextIs(A, op, seq, it, next, n)
    PROVE  \E h \in [0 .. n -> A] : FoldRun(b, op, seq, it, h, n)
  <1>1. it[{}] = b
    OBVIOUS
  <1>2. ASSUME NEW k \in 1 .. n, it[1 .. k - 1] \in A
        PROVE  it[1 .. k] = op[it[1 .. k - 1]][seq[k]]
    <2>1. k \in Nat /\ k > 0
      OBVIOUS
    <2>2. Max(1 .. k) = k /\ (1 .. k) \ {Max(1 .. k)} = 1 .. k - 1
      BY <2>1, MaxOfRange
    <2>3. 1 .. k \in SUBSET (1 .. n) /\ 1 .. k # {}
      <3>1. \A i \in 1 .. k : i \in 1 .. n
        OBVIOUS
      <3>2. k \in 1 .. k
        BY <2>1
      <3> QED BY <3>1, <3>2
    <2>4. next[1 .. k] = op[it[1 .. k - 1]][seq[k]]
      <3>1. LET s == 1 .. k IN s # {} /\ it[s \ {Max(s)}] \in A =>
               next[s] = op[it[s \ {Max(s)}]][seq[Max(s)]]
        BY <2>3, Zenon DEF NextIs
      <3> QED BY <1>2, <2>2, <2>3, <3>1
    <2> QED BY <2>3, <2>4
  <1>3. FoldSteps(A, op, seq, it, n)
    BY <1>2 DEF FoldSteps
  <1> QED BY <1>1, <1>3, FoldPath, Zenon

\* The recursion of a solution with values in A, place by place.
FoldUnfolded(A, I, b, op, seq, it, n) ==
    /\ it = [s \in SUBSET (1 .. n) |-> it[s]] /\ it[{}] = b
    /\ \A s \in SUBSET (1 .. n) : s # {} =>
         /\ Max(s) \in 1 .. n /\ seq[Max(s)] \in I /\ it[s \ {Max(s)}] \in A
         /\ it[s] = op[it[s \ {Max(s)}]][seq[Max(s)]]

\* The recursion of a fold has a solution.
LEMMA FoldSolution ==
    ASSUME NEW A, NEW I, NEW op \in [A -> [I -> A]], NEW b \in A, NEW n \in Nat,
           NEW seq \in [1 .. n -> I]
    PROVE  \E it : FoldUnfolded(A, I, b, op, seq, it, n)
  <1>1. PICK it \in [SUBSET (1 .. n) -> A] : FoldTable(b, op, seq, it, n)
    BY FoldTableExists
  <1>2. ASSUME NEW s \in SUBSET (1 .. n), s # {}
        PROVE  Max(s) \in 1 .. n /\ seq[Max(s)] \in I /\ it[s \ {Max(s)}] \in A
    <2>1. Max(s) \in s
      BY <1>2, MaxUpTo
    <2> QED BY <2>1
  <1>3. FoldUnfolded(A, I, b, op, seq, it, n)
    BY <1>1, <1>2 DEF FoldTable, FoldUnfolded
  <1> QED BY <1>3, Zenon

\* h goes from b by op, one member of seq after the other.
Path(b, op, seq, h, n) == h[0] = b /\ \A k \in 1 .. n : h[k] = op[h[k - 1]][seq[k]]

\* The same for recursion over the places of a sequence instead of sets of places.
LEMMA PathExists ==
    ASSUME NEW A, NEW I, NEW op \in [A -> [I -> A]], NEW b \in A, NEW n \in Nat,
           NEW seq \in [1 .. n -> I]
    PROVE  \E h \in [0 .. n -> A] : Path(b, op, seq, h, n)
  <1>1. PICK it \in [SUBSET (1 .. n) -> A] : FoldTable(b, op, seq, it, n)
    BY FoldTableExists
  <1> DEFINE h == [k \in 0 .. n |-> it[1 .. k]]
  <1>2. \A k \in 0 .. n : 1 .. k \in SUBSET (1 .. n)
    <2> TAKE k \in 0 .. n
    <2>1. \A i \in 1 .. k : i \in 1 .. n
      OBVIOUS
    <2> QED
      BY <2>1
  <1>3. h \in [0 .. n -> A]
    BY <1>2
  <1>4. h[0] = b
    <2>1. 1 .. 0 = {}
      OBVIOUS
    <2> QED
      BY <1>1, <2>1 DEF FoldTable
  <1>5. ASSUME NEW k \in 1 .. n PROVE h[k] = op[h[k - 1]][seq[k]]
    <2>1. k \in Nat /\ k > 0
      OBVIOUS
    <2>2. Max(1 .. k) = k /\ (1 .. k) \ {Max(1 .. k)} = 1 .. k - 1
      BY <2>1, MaxOfRange
    <2>3. k \in 1 .. k /\ 1 .. k \in SUBSET (1 .. n)
      BY <1>2, <2>1
    <2>4. it[1 .. k] = op[it[1 .. k - 1]][seq[k]]
      BY <1>1, <2>2, <2>3 DEF FoldTable
    <2> QED
      BY <2>4
  <1> HIDE DEF h
  <1>6. Path(b, op, seq, h, n)
    BY <1>4, <1>5 DEF Path
  <1> QED
    BY <1>3, <1>6, Zenon

\* FlattenSeq joins one sequence after the other.
LEMMA FlattenPath ==
    ASSUME NEW S, NEW ss \in Seq(Seq(S))
    PROVE  \E h \in [0 .. Len(ss) -> Seq(S)] :
              /\ h[0] = <<>> /\ h[Len(ss)] = FlattenSeq(ss)
              /\ \A k \in 1 .. Len(ss) : h[k] = h[k - 1] \o ss[k]
  <1> DEFINE n == Len(ss)
             A == Seq(S)
             op == [acc \in A |-> [x \in A |-> acc \o x]]
             Q(f) == f = [i \in 1 .. Len(ss) |-> IF i = 1 THEN ss[i] ELSE f[i - 1] \o ss[i]]
             flat == CHOOSE f : Q(f)
  <1>1. n \in Nat /\ ss \in [1 .. n -> A] /\ <<>> \in A
    OBVIOUS
  <1>2. \A acc, x \in A : acc \o x \in A
    OBVIOUS
  <1>3. op \in [A -> [A -> A]]
    <2> HIDE DEF A
    <2> QED
      BY <1>2
  <1>4. PICK h \in [0 .. n -> A] : Path(<<>>, op, ss, h, n)
    <2> HIDE DEF A, op, n
    <2> QED
      BY <1>1, <1>3, PathExists
  <1>5. h[0] = <<>> /\ \A k \in 1 .. n : h[k] = h[k - 1] \o ss[k]
    <2>1. h[0] = <<>> /\ \A k \in 1 .. n : h[k] = op[h[k - 1]][ss[k]]
      BY <1>4, Zenon DEF Path
    <2>2. \A k \in 1 .. n : h[k - 1] \in A /\ ss[k] \in A
      <3> HIDE DEF A, n, op
      <3> TAKE k \in 1 .. n
      <3>1. k - 1 \in 0 .. n
        BY <1>1
      <3> QED
        BY <1>1, <1>4, <3>1
    <2> HIDE DEF A
    <2> QED
      BY <2>1, <2>2
  <1>6. CASE n = 0
    <2>1. FlattenSeq(ss) = ss /\ ss = <<>>
      BY <1>6 DEF FlattenSeq
    <2> QED
      BY <1>4, <1>5, <1>6, <2>1
  <1>7. CASE n # 0
    <2>1. FlattenSeq(ss) = flat[n]
      BY <1>7, Zenon DEF FlattenSeq
    <2>2. Q([i \in 1 .. n |-> h[i]])
      <3>1. n \in Nat
        BY <1>1
      <3>2. h[1] = ss[1]
        <4>1. 1 \in 1 .. n /\ ss[1] \in Seq(S)
          BY <1>1, <1>7
        <4>2. h[1] = h[1 - 1] \o ss[1]
          BY <1>5, <4>1, Zenon
        <4>4. 1 - 1 = 0
          OBVIOUS
        <4>3. <<>> \o ss[1] = ss[1]
          BY <4>1
        <4> QED
          BY <1>5, <4>2, <4>3, <4>4
      <3>3. \A i \in 1 .. n : i # 1 => i - 1 \in 1 .. n
        BY <3>1
      <3>4. \A i \in 1 .. n : h[i] = IF i = 1 THEN ss[i] ELSE h[i - 1] \o ss[i]
        BY <1>5, <3>2
      <3> QED
        BY <3>3, <3>4
    <2>3. Q(flat)
      <3> HIDE DEF Q
      <3> QED
        BY <2>2, Zenon
    <2> DEFINE T == {k \in 0 .. n : k > 0 => flat[k] = h[k]}
    <2>4. flat = [i \in 1 .. n |-> IF i = 1 THEN ss[i] ELSE flat[i - 1] \o ss[i]]
      BY <2>3
    <2> HIDE DEF flat, A, op
    <2>5. 0 \in T
      BY <1>1
    <2>6. ASSUME NEW k \in 1 .. n, k - 1 \in T PROVE k \in T
      <3>1. n \in Nat
        BY <1>1
      <3>2. CASE k = 1
        <4>1. 1 \in 1 .. n /\ ss[1] \in Seq(S)
          BY <3>1, <3>2
        <4>2. h[1] = h[1 - 1] \o ss[1]
          BY <1>5, <4>1, Zenon
        <4>4. flat[1] = ss[1]
          BY <2>4, <4>1
        <4>5. 1 - 1 = 0
          OBVIOUS
        <4>3. <<>> \o ss[1] = ss[1]
          BY <4>1
        <4>6. flat[1] = h[1]
          BY <1>5, <4>2, <4>3, <4>4, <4>5, Zenon
        <4> QED
          BY <3>1, <3>2, <4>6
      <3>3. CASE k # 1
        <4>1. flat[k - 1] = h[k - 1]
          BY <2>6, <3>1, <3>3
        <4>2. h[k] = h[k - 1] \o ss[k]
          BY <1>5, Zenon
        <4>3. flat[k] = IF k = 1 THEN ss[k] ELSE flat[k - 1] \o ss[k]
          BY <2>4
        <4>4. flat[k] = h[k]
          BY <3>3, <4>1, <4>2, <4>3, Zenon
        <4> QED
          BY <3>1, <4>4
      <3> QED
        BY <3>2, <3>3
    <2>7. \A k \in 0 .. n : k \in T
      <3> HIDE DEF T, n
      <3> QED
        BY <1>1, <2>5, <2>6, UpTo, Zenon
    <2>8. flat[n] = h[n]
      BY <1>1, <1>7, <2>7
    <2> QED
      BY <1>4, <1>5, <2>1, <2>8 DEF A
  <1> QED
    BY <1>6, <1>7

\* A flattened sequence, and the same with one more member.
LEMMA FlattenIs ==
    ASSUME NEW S, NEW ss \in Seq(Seq(S))
    PROVE  /\ FlattenSeq(ss) \in Seq(S)
           /\ \A s \in Seq(S) : FlattenSeq(Append(ss, s)) = FlattenSeq(ss) \o s
  <1> DEFINE n == Len(ss)
  <1>0. n \in Nat /\ n \in 0 .. n
    OBVIOUS
  <1>1. \E e \in [0 .. n -> Seq(S)] : /\ e[0] = <<>> /\ e[n] = FlattenSeq(ss)
                                      /\ \A k \in 1 .. n : e[k] = e[k - 1] \o ss[k]
    BY FlattenPath
  <1>2. FlattenSeq(ss) \in Seq(S)
    <2> HIDE DEF n
    <2> QED
      BY <1>0, <1>1
  <1>3. ASSUME NEW s \in Seq(S) PROVE FlattenSeq(Append(ss, s)) = FlattenSeq(ss) \o s
    <2> DEFINE st == Append(ss, s)
    <2>1. /\ st \in Seq(Seq(S)) /\ Len(st) = n + 1 /\ st[n + 1] = s
          /\ \A k \in 1 .. n : st[k] = ss[k]
      OBVIOUS
    <2>2. \E f \in [0 .. Len(st) -> Seq(S)] : /\ f[0] = <<>> /\ f[Len(st)] = FlattenSeq(st)
                                              /\ \A k \in 1 .. Len(st) : f[k] = f[k - 1] \o st[k]
      <3> HIDE DEF st
      <3> QED
        BY <2>1, FlattenPath
    <2>3. PICK e \in [0 .. n -> Seq(S)] : /\ e[0] = <<>> /\ e[n] = FlattenSeq(ss)
                                          /\ \A k \in 1 .. n : e[k] = e[k - 1] \o ss[k]
      BY <1>1
    <2>4. PICK f \in [0 .. Len(st) -> Seq(S)] : /\ f[0] = <<>> /\ f[Len(st)] = FlattenSeq(st)
                                                /\ \A k \in 1 .. Len(st) : f[k] = f[k - 1] \o st[k]
      BY <2>2
    <2> DEFINE T == {k \in 0 .. n : e[k] = f[k]}
    <2> HIDE DEF st, n
    <2>5. 0 \in T
      BY <1>0, <2>3, <2>4
    <2>6. ASSUME NEW k \in 1 .. n, k - 1 \in T PROVE k \in T
      <3>1. k \in 1 .. Len(st) /\ k \in 0 .. n
        BY <1>0, <2>1
      <3>2. e[k] = e[k - 1] \o ss[k] /\ f[k] = f[k - 1] \o st[k] /\ st[k] = ss[k]
        BY <2>1, <2>3, <2>4, <3>1, Zenon
      <3>3. e[k - 1] = f[k - 1]
        BY <2>6
      <3> QED
        BY <3>1, <3>2, <3>3
    <2>7. \A k \in 0 .. n : k \in T
      <3> HIDE DEF T
      <3> QED
        BY <1>0, <2>5, <2>6, UpTo, Zenon
    <2>8. f[n] = FlattenSeq(ss)
      BY <1>0, <2>3, <2>7
    <2>9. PICK k \in 1 .. Len(st) : k = n + 1 /\ k - 1 = n
      BY <1>0, <2>1
    <2>10. f[k] = f[k - 1] \o st[k]
      BY <2>4, Zenon
    <2> QED
      BY <2>1, <2>4, <2>8, <2>9, <2>10, Zenon DEF st
  <1> QED
    BY <1>2, <1>3

---------------------------------------------------------------------------
(* Folds over sets                                                          *)

\* The recursion of a fold over the members of S in the order of ch.
SetUnfolded(A, S, b, op, ch, it) ==
    /\ it = [s \in SUBSET S |-> it[s]] /\ it[{}] = b
    /\ \A s \in SUBSET S : s # {} =>
         /\ ch[s] \in s /\ it[s \ {ch[s]}] \in A
         /\ it[s] = op[it[s \ {ch[s]}]][ch[s]]

LEMMA OneLess ==
    ASSUME NEW S, IsFiniteSet(S), NEW s \in SUBSET S
    PROVE  /\ Cardinality(s) \in 0 .. Cardinality(S) /\ Cardinality(S) \in Nat
           /\ (s = {} <=> Cardinality(s) = 0)
           /\ \A x \in s : Cardinality(s \ {x}) = Cardinality(s) - 1
  <1>1. IsFiniteSet(s) /\ Cardinality(s) <= Cardinality(S)
    BY FS_Subset
  <1>2. Cardinality(s) \in Nat /\ Cardinality(S) \in Nat
    BY <1>1, FS_CardinalityType
  <1>3. s = {} <=> Cardinality(s) = 0
    BY <1>1, FS_EmptySet
  <1>4. \A x \in s : Cardinality(s \ {x}) = Cardinality(s) - 1
    BY <1>1, FS_RemoveElement
  <1> QED
    BY <1>1, <1>2, <1>3, <1>4

\* The recursion of a fold over a finite set has a solution.
LEMMA SetFoldSolution ==
    ASSUME NEW A, NEW S, IsFiniteSet(S), NEW op \in [A -> [S -> A]], NEW b \in A, NEW ch,
           \A s \in SUBSET S : s # {} => ch[s] \in s
    PROVE  \E it : SetUnfolded(A, S, b, op, ch, it)
  <1> DEFINE Solves(f, m) == \A s \in SUBSET S : Cardinality(s) <= m =>
                               f[s] = IF s = {} THEN b ELSE op[f[s \ {ch[s]}]][ch[s]]
             n == Cardinality(S)
             T == {m \in 0 .. n : \E f \in [SUBSET S -> A] : Solves(f, m)}
  <1>1. n \in Nat
    BY OneLess
  <1>2. \A s \in SUBSET S : /\ Cardinality(s) \in 0 .. n /\ (s = {} <=> Cardinality(s) = 0)
                            /\ \A x \in s : Cardinality(s \ {x}) = Cardinality(s) - 1
    BY OneLess
  <1>3. 0 \in T
    <2>1. [s \in SUBSET S |-> b] \in [SUBSET S -> A]
      OBVIOUS
    <2>2. Solves([s \in SUBSET S |-> b], 0)
      <3>1. \A s \in SUBSET S : Cardinality(s) <= 0 => s = {}
        <4> HIDE DEF n
        <4> QED
          BY <1>1, <1>2
      <3> QED
        BY <3>1
    <2>3. 0 \in 0 .. n
      BY <1>1
    <2> HIDE DEF Solves, n
    <2> QED
      BY <2>1, <2>2, <2>3, Zenon
  <1>4. ASSUME NEW m \in 1 .. n, m - 1 \in T PROVE m \in T
    <2>1. PICK f \in [SUBSET S -> A] : Solves(f, m - 1)
      <3> HIDE DEF Solves
      <3> QED
        BY <1>4, Zenon
    <2> DEFINE up == [s \in SUBSET S |-> IF Cardinality(s) <= m - 1 THEN f[s]
                                         ELSE IF s = {} THEN b ELSE op[f[s \ {ch[s]}]][ch[s]]]
    <2> HIDE DEF n
    <2>2. \A s \in SUBSET S : s # {} => ch[s] \in S /\ s \ {ch[s]} \in SUBSET S
      OBVIOUS
    <2>3. up \in [SUBSET S -> A]
      <3>1. \A s \in SUBSET S : f[s] \in A
        OBVIOUS
      <3>2. \A s \in SUBSET S : s # {} => op[f[s \ {ch[s]}]][ch[s]] \in A
        <4> TAKE s \in SUBSET S
        <4> HAVE s # {}
        <4>1. ch[s] \in S /\ f[s \ {ch[s]}] \in A
          BY <2>2, <3>1
        <4>2. op[f[s \ {ch[s]}]] \in [S -> A]
          BY <4>1
        <4> QED
          BY <4>1, <4>2
      <3> QED
        BY <3>1, <3>2
    <2>4. ASSUME NEW s \in SUBSET S, Cardinality(s) <= m
          PROVE  up[s] = IF s = {} THEN b ELSE op[up[s \ {ch[s]}]][ch[s]]
      <3>1. Cardinality(s) \in Int /\ m \in Int
        BY <1>1, <1>2
      <3>2. s # {} => /\ s \ {ch[s]} \in SUBSET S /\ Cardinality(s \ {ch[s]}) <= m - 1
                      /\ up[s \ {ch[s]}] = f[s \ {ch[s]}]
        <4> SUFFICES ASSUME s # {} PROVE /\ s \ {ch[s]} \in SUBSET S /\ Cardinality(s \ {ch[s]}) <= m - 1
                                         /\ up[s \ {ch[s]}] = f[s \ {ch[s]}]
          OBVIOUS
        <4>1. Cardinality(s \ {ch[s]}) = Cardinality(s) - 1
          BY <1>2
        <4>2. Cardinality(s \ {ch[s]}) <= m - 1
          BY <2>4, <3>1, <4>1
        <4> QED
          BY <2>2, <4>2
      <3>3. CASE Cardinality(s) <= m - 1
        <4>1. up[s] = f[s]
          BY <3>3
        <4>2. f[s] = IF s = {} THEN b ELSE op[f[s \ {ch[s]}]][ch[s]]
          BY <2>1, <3>3
        <4> HIDE DEF up
        <4> QED
          BY <3>2, <4>1, <4>2
      <3>4. CASE ~ (Cardinality(s) <= m - 1)
        <4>1. up[s] = IF s = {} THEN b ELSE op[f[s \ {ch[s]}]][ch[s]]
          BY <3>4
        <4> HIDE DEF up
        <4> QED
          BY <3>2, <4>1
      <3> QED
        BY <3>3, <3>4
    <2>5. Solves(up, m)
      BY <2>4
    <2>6. m \in 0 .. n
      BY <1>1
    <2> HIDE DEF up, Solves
    <2> QED
      BY <2>3, <2>5, <2>6, Zenon
  <1>5. \A m \in 0 .. n : m \in T
    <2> HIDE DEF T, n
    <2> QED
      BY <1>1, <1>3, <1>4, UpTo, Zenon
  <1>6. PICK f \in [SUBSET S -> A] : Solves(f, n)
    <2>1. n \in 0 .. n
      BY <1>1
    <2> HIDE DEF Solves, n
    <2> QED
      BY <1>5, <2>1, Zenon
  <1>7. \A s \in SUBSET S : f[s] = IF s = {} THEN b ELSE op[f[s \ {ch[s]}]][ch[s]]
    <2> TAKE s \in SUBSET S
    <2>1. Cardinality(s) <= n
      BY <1>1, <1>2
    <2> HIDE DEF n
    <2> QED
      BY <1>6, <2>1
  <1>8. SetUnfolded(A, S, b, op, ch, f)
    <2>1. \A s \in SUBSET S : s # {} => ch[s] \in s /\ f[s \ {ch[s]}] \in A
      OBVIOUS
    <2>2. f = [s \in SUBSET S |-> f[s]] /\ f[{}] = b
      BY <1>7
    <2> QED
      BY <1>7, <2>1, <2>2 DEF SetUnfolded
  <1> QED
    BY <1>8, Zenon

\* From a value of A, next is the step of op.
SetNextIs(A, S, op, ch, it, next) ==
    \A s \in SUBSET S : s # {} /\ it[s \ {ch[s]}] \in A => next[s] = op[it[s \ {ch[s]}]][ch[s]]

\* ch picks a member, and the value of the fold is in A.
Picks(S, ch) == \A s \in SUBSET S : s # {} => ch[s] \in s
EndsIn(A, S, it) == it[S] \in A

\* The values of a solution whose step is op, where op is defined, are in A.
LEMMA SetFoldSolved ==
    ASSUME NEW A, NEW S, IsFiniteSet(S), NEW op \in [A -> [S -> A]], NEW b \in A, NEW ch,
           Picks(S, ch), NEW it, NEW next, it = [s \in SUBSET S |-> IF s = {} THEN b ELSE next[s]],
           SetNextIs(A, S, op, ch, it, next)
    PROVE  EndsIn(A, S, it)
  <1> DEFINE n == Cardinality(S)
             T == {m \in 0 .. n : \A s \in SUBSET S : Cardinality(s) <= m => it[s] \in A}
  <1>1. n \in Nat
    BY OneLess
  <1>2. \A s \in SUBSET S : /\ Cardinality(s) \in 0 .. n /\ (s = {} <=> Cardinality(s) = 0)
                            /\ \A x \in s : Cardinality(s \ {x}) = Cardinality(s) - 1
    BY OneLess
  <1> HIDE DEF n
  <1>3. 0 \in T
    <2>1. \A s \in SUBSET S : Cardinality(s) <= 0 => s = {}
      <3> TAKE s \in SUBSET S
      <3>1. Cardinality(s) \in 0 .. n /\ (s = {} <=> Cardinality(s) = 0)
        BY <1>2, Zenon
      <3> QED
        BY <1>1, <3>1
    <2>2. it[{}] \in A
      OBVIOUS
    <2>3. \A s \in SUBSET S : Cardinality(s) <= 0 => it[s] \in A
      BY <2>1, <2>2
    <2>4. 0 \in 0 .. n
      BY <1>1
    <2> QED
      BY <2>3, <2>4
  <1>4. ASSUME NEW m \in 1 .. n, m - 1 \in T PROVE m \in T
    <2>1. ASSUME NEW s \in SUBSET S, Cardinality(s) <= m PROVE it[s] \in A
      <3>1. CASE s = {}
        BY <3>1
      <3>2. CASE s # {}
        <4>1. ch[s] \in s /\ ch[s] \in S
          BY <3>2 DEF Picks
        <4>2. Cardinality(s \ {ch[s]}) = Cardinality(s) - 1 /\ Cardinality(s) \in Int
          <5>1. /\ Cardinality(s) \in 0 .. n
                /\ \A x \in s : Cardinality(s \ {x}) = Cardinality(s) - 1
            BY <1>2, Zenon
          <5>2. Cardinality(s \ {ch[s]}) = Cardinality(s) - 1
            BY <4>1, <5>1, Zenon
          <5> QED
            BY <1>1, <5>1, <5>2
        <4>5. Cardinality(s \ {ch[s]}) <= m - 1 /\ s \ {ch[s]} \in SUBSET S
          BY <2>1, <4>2
        <4>3. it[s \ {ch[s]}] \in A
          BY <1>4, <4>5
        <4>6. op[it[s \ {ch[s]}]] \in [S -> A]
          BY <4>3
        <4>4. it[s] = op[it[s \ {ch[s]}]][ch[s]]
          BY <3>2, <4>3 DEF SetNextIs
        <4> QED
          BY <4>1, <4>4, <4>6
      <3> QED
        BY <3>1, <3>2
    <2>2. m \in 0 .. n
      BY <1>1
    <2> QED
      BY <2>1, <2>2
  <1>5. \A m \in 0 .. n : m \in T
    <2> HIDE DEF T
    <2> QED
      BY <1>1, <1>3, <1>4, UpTo, Zenon
  <1>6. n \in 0 .. n /\ Cardinality(S) <= n
    BY <1>1 DEF n
  <1> QED
    BY <1>5, <1>6 DEF EndsIn
=============================================================================

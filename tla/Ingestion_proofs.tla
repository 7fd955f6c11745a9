--------------------------- MODULE Ingestion_proofs ---------------------------
(***************************************************************************)
(* Proofs about the ingestion worker.                                       *)
(*                                                                         *)
(* Chunking, for any texts, any answers of the model and any sizes: what    *)
(* packing, snapping, covering, stripping and searching do to a text (the   *)
(* lemmas), the invariant, and its three properties.                        *)
(*                                                                         *)
(* IngestionJobs, for any sets of corpora, jobs, workers and callers and    *)
(* any number of sources and faults: types, the inductive invariant, the    *)
(* safety properties, and the refinement of the abstract job lifecycle.     *)
(***************************************************************************)
EXTENDS IngestionJobs, Chunking, FoldFacts, FiniteSetTheorems, SequenceTheorems, TLAPS

---------------------------------------------------------------------------
(* Texts and slices of texts                                                *)

\* What the assumption on the sources says of a parsed block.
Block == [doc : STRING, text : Seq(Char)]

\* A function on 1 .. n is a sequence.
LEMMA TypedSeq ==
    ASSUME NEW S, NEW n \in Nat, NEW s \in [1 .. n -> S]
    PROVE  s \in Seq(S)
  OBVIOUS

\* The slices of a text of n characters.
Slices(n) == {r \in (0 .. n) \X (0 .. n) : r[1] <= r[2]}

\* The least and the greatest member of a set of numbers up to n.
LEMMA Ends ==
    ASSUME NEW n \in Nat, NEW S \in SUBSET (0 .. n), S # {}
    PROVE  /\ Least(S) \in S /\ \A y \in S : Least(S) <= y
           /\ Greatest(S) \in S /\ \A y \in S : y <= Greatest(S)
  <1>1. IsFiniteSet(S)
    <2>1. 0 \in Int
      OBVIOUS
    <2>2. IsFiniteSet(0 .. n)
      BY <2>1, FS_Interval
    <2> QED
      BY <2>2, FS_Subset
  <1>2. S \in SUBSET Int
    OBVIOUS
  <1>3. /\ Max(S) \in S /\ \A y \in S : y <= Max(S)
        /\ Min(S) \in S /\ \A y \in S : Min(S) <= y
    BY <1>1, <1>2, Extremes
  <1>4. Least(S) \in S /\ \A y \in S : Least(S) <= y
    BY <1>3, Zenon DEF Least
  <1>5. Greatest(S) \in S /\ \A y \in S : y <= Greatest(S)
    BY <1>3, Zenon DEF Greatest
  <1> QED
    BY <1>4, <1>5

\* A slice of a text is a text.
LEMMA SliceIs ==
    ASSUME NEW t \in Seq(Char), NEW lo \in 0 .. Len(t), NEW hi \in lo .. Len(t)
    PROVE  /\ Slice(t, lo, hi) \in Seq(Char)
           /\ Len(Slice(t, lo, hi)) = hi - lo
           /\ \A i \in 1 .. hi - lo : Slice(t, lo, hi)[i] = t[lo + i]
  <1>1. Len(t) \in Nat /\ \A i \in 1 .. Len(t) : t[i] \in Char
    OBVIOUS
  <1>2. \A i \in lo + 1 .. hi : t[i] \in Char
    BY <1>1
  <1>3. lo + 1 \in Int /\ hi \in Int
    BY <1>1
  <1>4. /\ SubSeq(t, lo + 1, hi) \in Seq(Char)
        /\ Len(SubSeq(t, lo + 1, hi)) = IF lo + 1 <= hi THEN hi - (lo + 1) + 1 ELSE 0
        /\ \A i \in 1 .. hi - (lo + 1) + 1 : SubSeq(t, lo + 1, hi)[i] = t[lo + 1 + i - 1]
    BY <1>2, <1>3, SubSeqProperties
  <1>5. \A i \in 1 .. hi - lo : lo + 1 + i - 1 = lo + i
    BY <1>1
  <1>6. hi - (lo + 1) + 1 = hi - lo /\ (~ (lo + 1 <= hi) => hi - lo = 0)
    BY <1>1
  <1> QED
    BY <1>1, <1>4, <1>5, <1>6 DEF Slice

\* The slice of all of a text is the text.
LEMMA WholeSlice ==
    ASSUME NEW t \in Seq(Char)
    PROVE  Slice(t, 0, Len(t)) = t
  <1>1. 0 + 1 = 1
    OBVIOUS
  <1> QED
    BY <1>1, SubSeqFull DEF Slice

\* The places of a text that hold no white space.
LEMMA SolidIs ==
    ASSUME NEW t \in Seq(Char)
    PROVE  /\ Len(t) \in Nat
           /\ Solid(t) \subseteq 0 .. Len(t)
           /\ \A i \in Solid(t) : i \in 0 .. Len(t) - 1 /\ t[i + 1] # " "
           /\ \A i \in 0 .. Len(t) - 1 : t[i + 1] # " " => i \in Solid(t)
  <1>1. Len(t) \in Nat
    OBVIOUS
  <1>2. \A i : i \in Solid(t) <=> i \in 0 .. Len(t) - 1 /\ t[i + 1] # " "
    BY Zenon DEF Solid, Blank
  <1>3. \A i \in 0 .. Len(t) - 1 : i \in 0 .. Len(t)
    BY <1>1
  <1> QED
    BY <1>1, <1>2, <1>3, Zenon

\* What Trim leaves of a slice: all that is solid, from a solid place to a
\* solid place.
LEMMA TrimIs ==
    ASSUME NEW t \in Seq(Char), NEW r \in Slices(Len(t))
    PROVE  /\ Trim(t, r) \in Slices(Len(t))
           /\ Solid(t) \cap (r[1] .. r[2] - 1) = {} => Trim(t, r) = <<r[1], r[1]>>
           /\ Solid(t) \cap (r[1] .. r[2] - 1) # {} =>
                /\ r[1] <= Trim(t, r)[1] /\ Trim(t, r)[1] < Trim(t, r)[2] /\ Trim(t, r)[2] <= r[2]
                /\ Trim(t, r)[1] \in Solid(t) /\ Trim(t, r)[2] - 1 \in Solid(t)
                /\ \A i \in Solid(t) : r[1] <= i /\ i < r[2] =>
                      Trim(t, r)[1] <= i /\ i < Trim(t, r)[2]
  <1> DEFINE inside == Solid(t) \cap (r[1] .. r[2] - 1)
  <1>1. /\ Len(t) \in Nat /\ r \in (0 .. Len(t)) \X (0 .. Len(t)) /\ r[1] <= r[2]
        /\ r[1] \in 0 .. Len(t) /\ r[2] \in 0 .. Len(t)
    BY SolidIs DEF Slices
  <1>0. \A i \in Solid(t) : i \in 0 .. Len(t) - 1
    BY SolidIs, Zenon
  <1>2. CASE inside = {}
    <2>1. Trim(t, r) = <<r[1], r[1]>>
      BY <1>2 DEF Trim
    <2>2. <<r[1], r[1]>> \in Slices(Len(t))
      BY <1>1 DEF Slices
    <2> QED
      BY <1>2, <2>1, <2>2
  <1>3. CASE inside # {}
    <2>1. Trim(t, r) = <<Least(inside), Greatest(inside) + 1>>
      BY <1>3 DEF Trim
    <2>2. inside \in SUBSET (0 .. Len(t))
      BY SolidIs
    <2>3. /\ Least(inside) \in inside /\ \A y \in inside : Least(inside) <= y
          /\ Greatest(inside) \in inside /\ \A y \in inside : y <= Greatest(inside)
      <3> HIDE DEF inside
      <3> QED
        BY <1>1, <1>3, <2>2, Ends
    <2>4. \A i \in inside : i \in Solid(t) /\ r[1] <= i /\ i < r[2] /\ i \in 0 .. Len(t) - 1
      <3> TAKE i \in inside
      <3>1. i \in Solid(t) /\ i \in r[1] .. r[2] - 1
        OBVIOUS
      <3> QED
        BY <1>0, <1>1, <3>1
    <2>5. \A i \in Solid(t) : r[1] <= i /\ i < r[2] => i \in inside
      BY <1>0, <1>1
    <2> DEFINE a == Least(inside)
               b == Greatest(inside)
    <2>6. /\ a \in Solid(t) /\ b \in Solid(t) /\ r[1] <= a /\ a <= b /\ b < r[2]
          /\ a \in 0 .. Len(t) - 1 /\ b \in 0 .. Len(t) - 1
          /\ \A i \in Solid(t) : r[1] <= i /\ i < r[2] => a <= i /\ i <= b
      <3> HIDE DEF inside
      <3> QED
        BY <2>3, <2>4, <2>5
    <2>7. Trim(t, r) = <<a, b + 1>> /\ Trim(t, r)[1] = a /\ Trim(t, r)[2] = b + 1
      BY <2>1
    <2> HIDE DEF a, b
    <2>8. <<a, b + 1>> \in Slices(Len(t))
      BY <1>1, <2>6 DEF Slices
    <2>9. \A i \in Solid(t) : r[1] <= i /\ i < r[2] => a <= i /\ i < b + 1
      <3> TAKE i \in Solid(t)
      <3>1. i \in Int
        BY <1>0, <1>1
      <3> QED
        BY <2>6, <3>1
    <2>10. b + 1 - 1 = b /\ a < b + 1 /\ b + 1 <= r[2]
      BY <1>1, <2>6
    <2> QED
      BY <1>3, <2>6, <2>7, <2>8, <2>9, <2>10
  <1> QED
    BY <1>2, <1>3

\* strip() makes a text of a text.
LEMMA StripIs ==
    ASSUME NEW t \in Seq(Char)
    PROVE  Strip(t) \in Seq(Char) /\ Len(Strip(t)) \in Nat /\ (Strip(t) = <<>> <=> Len(Strip(t)) = 0)
  <1>0. Len(t) \in Nat
    BY SolidIs, Zenon
  <1>1. <<0, Len(t)>> \in Slices(Len(t))
    BY <1>0 DEF Slices
  <1> DEFINE r == Trim(t, <<0, Len(t)>>)
  <1>2. r \in Slices(Len(t))
    BY <1>1, TrimIs
  <1>3. r[1] \in 0 .. Len(t) /\ r[2] \in r[1] .. Len(t)
    <2> HIDE DEF r
    <2> QED
      BY <1>0, <1>2 DEF Slices
  <1>4. Strip(t) \in Seq(Char)
    BY <1>3, SliceIs DEF Strip
  <1> HIDE DEF r
  <1> QED
    BY <1>4

---------------------------------------------------------------------------
(* Packing                                                                  *)

\* The stripped text of a block.
LEMMA BlockIs ==
    ASSUME NEW b \in Block
    PROVE  Strip(b.text) \in Seq(Char) /\ Len(Strip(b.text)) \in Nat /\ (Strip(b.text) = <<>> <=> Len(Strip(b.text)) = 0)
  <1>1. b.text \in Seq(Char)
    BY DEF Block
  <1> QED
    BY <1>1, StripIs

\* Two equal elements, and three sequences in a row.
LEMMA Twice ==
    ASSUME NEW C, NEW x \in C
    PROVE  <<x, x>> \in Seq(C) /\ Len(<<x, x>>) = 2
  OBVIOUS

LEMMA ThreeInRow ==
    ASSUME NEW C, NEW x \in Seq(C), NEW y \in Seq(C), NEW z \in Seq(C)
    PROVE  x \o y \o z \in Seq(C) /\ Len(x \o y \o z) = Len(x) + Len(y) + Len(z)
  <1>1. x \o y \in Seq(C) /\ Len(x \o y) = Len(x) + Len(y)
    BY ConcatProperties
  <1> DEFINE xy == x \o y
  <1>2. xy \in Seq(C)
    BY <1>1
  <1>3. xy \o z \in Seq(C) /\ Len(xy \o z) = Len(xy) + Len(z)
    <2> HIDE DEF xy
    <2> QED
      BY <1>2, ConcatProperties
  <1> QED
    BY <1>1, <1>3

\* A text goes on after the text before it.
With(acc, b) == IF acc = <<>> THEN Strip(b.text) ELSE acc \o <<" ", " ">> \o Strip(b.text)

\* What joining one more block makes of a text.
LEMMA WithIs ==
    ASSUME NEW acc \in Seq(Char), NEW b \in Block
    PROVE  /\ With(acc, b) \in Seq(Char)
           /\ Len(With(acc, b)) = IF acc = <<>> THEN Len(Strip(b.text)) ELSE Len(acc) + 2 + Len(Strip(b.text))
  <1>1. Strip(b.text) \in Seq(Char)
    BY BlockIs
  <1> DEFINE gap == <<" ", " ">>
             rest == Strip(b.text)
  <1>2. gap \in Seq(Char) /\ Len(gap) = 2
    <2>1. " " \in Char
      BY DEF Char
    <2> QED
      BY <2>1, Twice
  <1>3. acc \in Seq(Char) /\ rest \in Seq(Char)
    BY <1>1
  <1>4. acc \o gap \o rest \in Seq(Char) /\ Len(acc \o gap \o rest) = Len(acc) + 2 + Len(rest)
    <2> HIDE DEF gap, rest
    <2>1. acc \o gap \o rest \in Seq(Char) /\ Len(acc \o gap \o rest) = Len(acc) + Len(gap) + Len(rest)
      <3>1. gap \in Seq(Char)
        BY <1>2
      <3> QED
        BY <1>3, <3>1, ThreeInRow
    <2> QED
      BY <1>2, <2>1
  <1> QED
    BY <1>1, <1>4 DEF With

\* The text of a group grows block by block.
LEMMA JoinedPath ==
    ASSUME NEW g \in Seq(Block)
    PROVE  \E h \in [0 .. Len(g) -> Seq(Char)] :
              /\ h[0] = <<>> /\ h[Len(g)] = Joined(g)
              /\ \A k \in 1 .. Len(g) : h[k] = With(h[k - 1], g[k])
  <1> DEFINE A == Seq(Char)
             I == Block
             op == [acc \in A |-> [x \in I |-> With(acc, x)]]
             Q(it) == it = [s \in SUBSET DOMAIN g |->
                              IF s = {} THEN <<>>
                              ELSE With(it[s \ {Max(s)}], g[Max(s)])]
             it == CHOOSE f : Q(f)
             next == [s \in SUBSET (1 .. Len(g)) |-> With(it[s \ {Max(s)}], g[Max(s)])]
  <1>1. Len(g) \in Nat /\ DOMAIN g = 1 .. Len(g) /\ g \in [1 .. Len(g) -> I] /\ <<>> \in A
    BY LenProperties, EmptySeq
  <1>2. \A acc \in A, x \in I : With(acc, x) \in A
    BY WithIs
  <1>3. op \in [A -> [I -> A]]
    <2> HIDE DEF A, I
    <2> QED
      BY <1>2
  <1>4. \E f : Q(f)
    <2>1. PICK f : FoldUnfolded(A, I, <<>>, op, g, f, Len(g))
      <3> HIDE DEF op, A, I
      <3> QED
        BY <1>1, <1>3, FoldSolution
    <2>2. /\ f = [s \in SUBSET (1 .. Len(g)) |-> f[s]] /\ f[{}] = <<>>
          /\ \A s \in SUBSET (1 .. Len(g)) : s # {} =>
                /\ Max(s) \in 1 .. Len(g) /\ g[Max(s)] \in I /\ f[s \ {Max(s)}] \in A
                /\ f[s] = op[f[s \ {Max(s)}]][g[Max(s)]]
      BY <2>1, Zenon DEF FoldUnfolded
    <2>3. \A s \in SUBSET (1 .. Len(g)) :
             f[s] = IF s = {} THEN <<>> ELSE With(f[s \ {Max(s)}], g[Max(s)])
      <3> HIDE DEF A, I
      <3> QED
        BY <2>2
    <2>4. Q(f)
      BY <1>1, <2>2, <2>3
    <2> QED
      BY <2>4
  <1>5. Q(it)
    <2> HIDE DEF Q
    <2> QED
      BY <1>4, Zenon
  <1>6. Joined(g) = it[1 .. Len(g)]
    <2>1. Joined(g) = it[DOMAIN g]
      BY Zenon DEF Joined, With, FoldLeft, MapThenFoldSet
    <2> QED
      BY <1>1, <2>1, Zenon
  <1>7. it = [s \in SUBSET (1 .. Len(g)) |-> IF s = {} THEN <<>> ELSE next[s]]
    <2> HIDE DEF it
    <2> QED
      BY <1>1, <1>5
  <1>8. NextIs(A, op, g, it, next, Len(g))
    <2> HIDE DEF it
    <2> SUFFICES ASSUME NEW s \in SUBSET (1 .. Len(g)), s # {}, it[s \ {Max(s)}] \in A
                 PROVE  next[s] = op[it[s \ {Max(s)}]][g[Max(s)]]
      BY DEF NextIs
    <2>1. Max(s) \in 1 .. Len(g)
      BY <1>1, MaxUpTo
    <2>2. g[Max(s)] \in I
      BY <1>1, <2>1
    <2> HIDE DEF A, I
    <2> QED
      BY <2>2
  <1>9. PICK h \in [0 .. Len(g) -> A] : FoldRun(<<>>, op, g, it, h, Len(g))
    <2> HIDE DEF A, I, op, it, next
    <2> QED
      BY <1>1, <1>3, <1>7, <1>8, FoldSolved
  <1>10. /\ h[0] = <<>> /\ h[Len(g)] = it[1 .. Len(g)]
         /\ \A k \in 1 .. Len(g) : h[k] = op[h[k - 1]][g[k]]
    BY <1>9, Zenon DEF FoldRun
  <1>11. \A k \in 1 .. Len(g) : h[k] = With(h[k - 1], g[k])
    <2> TAKE k \in 1 .. Len(g)
    <2> HIDE DEF A, I, it
    <2>1. k - 1 \in 0 .. Len(g)
      BY <1>1
    <2>2. h[k - 1] \in A /\ g[k] \in I
      BY <1>1, <1>9, <2>1
    <2> QED
      BY <1>10, <2>2
  <1> HIDE DEF it
  <1> QED
    BY <1>6, <1>9, <1>10, <1>11

\* The text of a group, and of the group with one more block.
LEMMA JoinedIs ==
    ASSUME NEW g \in Seq(Block)
    PROVE  /\ Joined(g) \in Seq(Char) /\ Joined(<<>>) = <<>>
           /\ \A b \in Block : Joined(Append(g, b)) = With(Joined(g), b)
  <1>0. Len(g) \in Nat /\ Len(g) \in 0 .. Len(g)
    BY LenProperties
  <1>1. Joined(g) \in Seq(Char)
    <2>1. \E f \in [0 .. Len(g) -> Seq(Char)] : /\ f[0] = <<>> /\ f[Len(g)] = Joined(g)
                                           /\ \A k \in 1 .. Len(g) : f[k] = With(f[k - 1], g[k])
      BY JoinedPath
    <2> QED
      BY <1>0, <2>1
  <1>2. Joined(<<>>) = <<>>
    <2>1. <<>> \in Seq(Block) /\ Len(<<>>) = 0
      BY EmptySeq
    <2>2. \E f \in [0 .. Len(<<>>) -> Seq(Char)] : f[0] = <<>> /\ f[Len(<<>>)] = Joined(<<>>)
      BY <2>1, JoinedPath
    <2> QED
      BY <2>1, <2>2
  <1>3. ASSUME NEW b \in Block PROVE Joined(Append(g, b)) = With(Joined(g), b)
    <2> DEFINE gb == Append(g, b)
               n == Len(g)
    <2>1. /\ gb \in Seq(Block) /\ Len(gb) = n + 1 /\ gb[n + 1] = b
          /\ \A k \in 1 .. n : gb[k] = g[k]
      BY AppendProperties
    <2>2. \E e \in [0 .. n -> Seq(Char)] : /\ e[0] = <<>> /\ e[n] = Joined(g)
                                      /\ \A k \in 1 .. n : e[k] = With(e[k - 1], g[k])
      BY JoinedPath
    <2>3. \E f \in [0 .. Len(gb) -> Seq(Char)] : /\ f[0] = <<>> /\ f[Len(gb)] = Joined(gb)
                                            /\ \A k \in 1 .. Len(gb) : f[k] = With(f[k - 1], gb[k])
      <3> HIDE DEF gb
      <3> QED
        BY <2>1, JoinedPath
    <2>4. PICK e \in [0 .. n -> Seq(Char)] : /\ e[0] = <<>> /\ e[n] = Joined(g)
                                        /\ \A k \in 1 .. n : e[k] = With(e[k - 1], g[k])
      BY <2>2
    <2>5. PICK f \in [0 .. Len(gb) -> Seq(Char)] : /\ f[0] = <<>> /\ f[Len(gb)] = Joined(gb)
                                              /\ \A k \in 1 .. Len(gb) : f[k] = With(f[k - 1], gb[k])
      BY <2>3
    <2> DEFINE T == {k \in 0 .. n : e[k] = f[k]}
    <2> HIDE DEF gb
    <2>6. 0 \in T
      BY <1>0, <2>4, <2>5
    <2>7. \A k \in 1 .. n : k - 1 \in T => k \in T
      BY <1>0, <2>1, <2>4, <2>5
    <2>8. \A k \in 0 .. n : k \in T
      <3> HIDE DEF T
      <3> QED
        BY <1>0, <2>6, <2>7, UpTo, Zenon
    <2>9. f[n] = Joined(g)
      BY <1>0, <2>4, <2>8
    <2>10. n + 1 \in 1 .. Len(gb) /\ n + 1 - 1 = n
      BY <1>0, <2>1
    <2>11. f[n + 1] = With(f[n + 1 - 1], gb[n + 1])
      BY <2>5, <2>10
    <2> QED
      BY <2>1, <2>5, <2>9, <2>10, <2>11 DEF gb
  <1> QED
    BY <1>1, <1>2, <1>3

\* A packed group: of one document, and within the target unless it is one block.
WellPacked(g) ==
    /\ g # <<>>
    /\ \A i \in 1 .. Len(g) : g[i].doc = g[1].doc
    /\ Len(g) > 1 => Len(Joined(g)) <= Target

\* The open group is counted rightly and may still grow.
Open(acc) ==
    IF acc.open = <<>> THEN acc.size = 0
    ELSE WellPacked(acc.open) /\ acc.size = Len(Joined(acc.open)) /\ acc.size > 0 /\ acc.size <= Target

\* The states of packing.
Filling == {acc \in [packed : Seq(Seq(Block)), open : Seq(Block), size : Nat] :
              Open(acc) /\ \A k \in 1 .. Len(acc.packed) : WellPacked(acc.packed[k])}

\* How a state of packing is put together.
LEMMA FillingIs ==
    ASSUME NEW p \in Seq(Seq(Block)), NEW o \in Seq(Block), NEW n \in Nat,
           Open([packed |-> p, open |-> o, size |-> n]),
           \A k \in 1 .. Len(p) : WellPacked(p[k])
    PROVE  [packed |-> p, open |-> o, size |-> n] \in Filling
  BY DEF Filling

\* One more packed group.
LEMMA OneMorePacked ==
    ASSUME NEW p \in Seq(Seq(Block)), \A k \in 1 .. Len(p) : WellPacked(p[k]),
           NEW g \in Seq(Block), WellPacked(g)
    PROVE  Append(p, g) \in Seq(Seq(Block)) /\ \A k \in 1 .. Len(Append(p, g)) : WellPacked(Append(p, g)[k])
  <1> DEFINE q == Append(p, g)
             n == Len(p)
  <1>1. /\ q \in Seq(Seq(Block)) /\ Len(q) = n + 1 /\ q[n + 1] = g /\ n \in Nat
        /\ \A k \in 1 .. n : q[k] = p[k]
    BY AppendProperties, LenProperties
  <1> HIDE DEF q
  <1>2. ASSUME NEW k \in 1 .. Len(q) PROVE WellPacked(q[k])
    <2>1. CASE k = n + 1
      BY <1>1, <2>1
    <2>2. CASE k # n + 1
      <3>1. k \in 1 .. n
        BY <1>1, <2>2
      <3> QED
        BY <1>1, <3>1
    <2> QED
      BY <2>1, <2>2
  <1> QED
    BY <1>1, <1>2 DEF q

\* Flush keeps the blocks and leaves nothing open.
LEMMA FlushKeeps ==
    ASSUME NEW acc \in Filling
    PROVE  \E p \in Seq(Seq(Block)) :
              /\ Flush(acc) = [packed |-> p, open |-> <<>>, size |-> 0]
              /\ \A k \in 1 .. Len(p) : WellPacked(p[k])
              /\ FlattenSeq(p) = FlattenSeq(acc.packed) \o acc.open
  <1>1. PICK q \in Seq(Seq(Block)), o \in Seq(Block), n \in Nat : acc = [packed |-> q, open |-> o, size |-> n]
    BY DEF Filling
  <1>2. \A k \in 1 .. Len(q) : WellPacked(q[k])
    BY <1>1 DEF Filling
  <1>3. acc.open = o /\ acc.packed = q /\ acc.size = n /\ Open(acc)
    BY <1>1 DEF Filling
  <1>4. FlattenSeq(q) \in Seq(Block) /\ FlattenSeq(Append(q, o)) = FlattenSeq(q) \o o
    BY FlattenIs
  <1>5. CASE o = <<>>
    <2>1. n = 0
      BY <1>3, <1>5 DEF Open
    <2>2. Flush(acc) = [packed |-> q, open |-> <<>>, size |-> 0]
      BY <1>1, <1>3, <1>5, <2>1 DEF Flush
    <2>3. FlattenSeq(q) = FlattenSeq(q) \o o
      BY <1>4, <1>5, ConcatEmptySeq
    <2> QED
      BY <1>2, <1>3, <2>2, <2>3
  <1>6. CASE o # <<>>
    <2>1. WellPacked(o)
      BY <1>3, <1>6 DEF Open
    <2>2. Flush(acc) = [packed |-> Append(q, o), open |-> <<>>, size |-> 0]
      BY <1>3, <1>6 DEF Flush
    <2>3. Append(q, o) \in Seq(Seq(Block)) /\ \A k \in 1 .. Len(Append(q, o)) : WellPacked(Append(q, o)[k])
      BY <1>2, <2>1, OneMorePacked
    <2> QED
      BY <1>3, <1>4, <2>2, <2>3
  <1> QED
    BY <1>5, <1>6

\* A group of one block, and a group with one more block of its document.
LEMMA GroupIs ==
    ASSUME NEW b \in Block
    PROVE  /\ <<b>> \in Seq(Block) /\ WellPacked(<<b>>) /\ Joined(<<b>>) = Strip(b.text)
           /\ \A g \in Seq(Block) :
                 /\ WellPacked(g) /\ Last(g).doc = b.doc /\ Len(Joined(g)) > 0
                 /\ Len(Joined(g)) + 2 + Len(Strip(b.text)) <= Target
                 => /\ WellPacked(Append(g, b))
                    /\ Len(Joined(Append(g, b))) = Len(Joined(g)) + 2 + Len(Strip(b.text))
  <1>1. <<b>> \in Seq(Block) /\ Len(<<b>>) = 1 /\ <<b>>[1] = b
    OBVIOUS
  <1>2. WellPacked(<<b>>)
    <2>1. \A i \in 1 .. 1 : i = 1
      OBVIOUS
    <2> QED
      BY <1>1, <2>1 DEF WellPacked
  <1>3. Joined(<<b>>) = Strip(b.text)
    <2>1. <<>> \in Seq(Block) /\ Append(<<>>, b) = <<b>>
      OBVIOUS
    <2>2. Joined(Append(<<>>, b)) = With(Joined(<<>>), b) /\ Joined(<<>>) = <<>>
      BY <2>1, JoinedIs
    <2> QED
      BY <2>1, <2>2 DEF With
  <1>4. ASSUME NEW g \in Seq(Block), WellPacked(g), Last(g).doc = b.doc, Len(Joined(g)) > 0,
               Len(Joined(g)) + 2 + Len(Strip(b.text)) <= Target
        PROVE  /\ WellPacked(Append(g, b))
               /\ Len(Joined(Append(g, b))) = Len(Joined(g)) + 2 + Len(Strip(b.text))
    <2> DEFINE gb == Append(g, b)
               n == Len(g)
    <2>1. /\ gb \in Seq(Block) /\ Len(gb) = n + 1 /\ gb[n + 1] = b /\ n \in Nat /\ gb # <<>>
          /\ \A k \in 1 .. n : gb[k] = g[k]
      BY AppendProperties, LenProperties
    <2>2. n > 0
      BY <1>4, <2>1 DEF WellPacked
    <2>3. Joined(gb) = With(Joined(g), b) /\ Joined(g) \in Seq(Char)
      BY JoinedIs
    <2>4. Joined(g) # <<>>
      BY <1>4, <2>3
    <2>5. Len(Joined(gb)) = Len(Joined(g)) + 2 + Len(Strip(b.text))
      BY <2>3, <2>4, WithIs
    <2> HIDE DEF gb
    <2>6. ASSUME NEW i \in 1 .. Len(gb) PROVE gb[i].doc = gb[1].doc
      <3>1. 1 \in 1 .. n /\ n \in 1 .. n
        BY <2>1, <2>2
      <3>2. gb[1].doc = g[1].doc
        BY <2>1, <3>1
      <3>3. b.doc = g[1].doc
        BY <1>4, <3>1 DEF Last, WellPacked
      <3>4. CASE i = n + 1
        BY <2>1, <3>2, <3>3, <3>4
      <3>5. CASE i # n + 1
        <4>1. i \in 1 .. n
          BY <2>1, <3>5
        <4>2. g[i].doc = g[1].doc
          BY <1>4, <4>1 DEF WellPacked
        <4> QED
          BY <2>1, <3>2, <4>1, <4>2
      <3> QED
        BY <3>4, <3>5
    <2>7. WellPacked(gb)
      BY <1>4, <2>1, <2>5, <2>6 DEF WellPacked
    <2> QED
      BY <2>5, <2>7 DEF gb
  <1> QED
    BY <1>1, <1>2, <1>3, <1>4

\* The blocks that were packed so far, and the blocks that have text.
SoFar(acc) == FlattenSeq(acc.packed) \o acc.open
AddWithText(acc, b) == IF Strip(b.text) = <<>> THEN acc ELSE Append(acc, b)
WithText(bs) == FoldLeft(LAMBDA acc, b : IF Strip(b.text) = <<>> THEN acc ELSE Append(acc, b), <<>>, bs)
Filled(bs) == FoldLeft(AddBlock, [packed |-> <<>>, open |-> <<>>, size |-> 0], bs)

\* A block that is added comes last.
LEMMA AddBlockKeeps ==
    ASSUME NEW acc \in Filling, NEW b \in Block
    PROVE  AddBlock(acc, b) \in Filling /\ SoFar(AddBlock(acc, b)) = AddWithText(SoFar(acc), b)
  <1> DEFINE len == Len(Strip(b.text))
             F == Flush(acc)
             one == <<b>>
  <1>0. len \in Nat /\ (Strip(b.text) = <<>> <=> len = 0)
    BY BlockIs
  <1>1. PICK q \in Seq(Seq(Block)), o \in Seq(Block), n \in Nat : acc = [packed |-> q, open |-> o, size |-> n]
    BY DEF Filling
  <1>2. /\ acc.packed = q /\ acc.open = o /\ acc.size = n /\ Open(acc)
        /\ \A k \in 1 .. Len(q) : WellPacked(q[k])
    BY <1>1 DEF Filling
  <1>3. one \in Seq(Block) /\ WellPacked(one) /\ Joined(one) = Strip(b.text) /\ one # <<>>
    BY GroupIs
  <1>4. PICK p \in Seq(Seq(Block)) :
              /\ F = [packed |-> p, open |-> <<>>, size |-> 0]
              /\ \A k \in 1 .. Len(p) : WellPacked(p[k])
              /\ FlattenSeq(p) = SoFar(acc)
    BY FlushKeeps DEF SoFar
  <1>5. /\ FlattenSeq(p) \in Seq(Block) /\ FlattenSeq(Append(p, one)) = FlattenSeq(p) \o one
        /\ FlattenSeq(q) \in Seq(Block)
    BY <1>3, FlattenIs
  <1> DEFINE all == SoFar(acc)
  <1>6. all \in Seq(Block) /\ all \o one = Append(all, b)
    <2>1. all \in Seq(Block)
      BY <1>4, <1>5
    <2> HIDE DEF all
    <2> QED
      BY <2>1, AppendIsConcat
  <1>7. CASE len = 0
    <2>1. AddBlock(acc, b) = acc
      BY <1>7 DEF AddBlock
    <2> QED
      BY <1>0, <1>7, <2>1 DEF AddWithText
  <1>8. CASE len # 0 /\ len > Target
    <2> DEFINE q2 == Append(p, one)
    <2>1. AddBlock(acc, b) = [packed |-> q2, open |-> <<>>, size |-> 0]
      <3>1. AddBlock(acc, b) = [F EXCEPT !.packed = Append(@, one)]
        BY <1>8, Zenon DEF AddBlock
      <3> HIDE DEF F, one
      <3> QED
        BY <1>4, <3>1
    <2>2. q2 \in Seq(Seq(Block)) /\ \A k \in 1 .. Len(q2) : WellPacked(q2[k])
      <3> HIDE DEF one
      <3> QED
        BY <1>3, <1>4, OneMorePacked
    <2>3. FlattenSeq(q2) = Append(all, b) /\ FlattenSeq(q2) \in Seq(Block)
      <3> HIDE DEF all, one
      <3> QED
        BY <1>4, <1>5, <1>6, AppendProperties DEF all
    <2> HIDE DEF q2
    <2>4. [packed |-> q2, open |-> <<>>, size |-> 0] \in Filling
      <3>1. Open([packed |-> q2, open |-> <<>>, size |-> 0])
        BY DEF Open
      <3> QED
        BY <2>2, <3>1, FillingIs, EmptySeq
    <2>5. SoFar([packed |-> q2, open |-> <<>>, size |-> 0]) = FlattenSeq(q2)
      BY <2>3, ConcatEmptySeq DEF SoFar
    <2> QED
      BY <1>0, <1>8, <2>1, <2>3, <2>4, <2>5 DEF AddWithText
  <1>9. CASE len # 0 /\ ~ (len > Target) /\ o # <<>> /\ ~ Fits(n, o, b)
    <2>1. AddBlock(acc, b) = [packed |-> p, open |-> one, size |-> len]
      <3>1. AddBlock(acc, b) = [F EXCEPT !.open = one, !.size = len]
        BY <1>2, <1>9, Zenon DEF AddBlock
      <3> HIDE DEF F, one, len
      <3> QED
        BY <1>4, <3>1
    <2>2. [packed |-> p, open |-> one, size |-> len] \in Filling
      <3>1. Open([packed |-> p, open |-> one, size |-> len])
        <4> HIDE DEF one
        <4> QED
          BY <1>0, <1>3, <1>9, SizesAssumption DEF Open
      <3> HIDE DEF one, len
      <3> QED
        BY <1>0, <1>3, <1>4, <3>1, FillingIs
    <2>3. SoFar([packed |-> p, open |-> one, size |-> len]) = Append(all, b)
      <3> HIDE DEF all, one
      <3> QED
        BY <1>4, <1>6 DEF SoFar, all
    <2> QED
      BY <1>0, <1>9, <2>1, <2>2, <2>3 DEF AddWithText
  <1>10. CASE len # 0 /\ ~ (len > Target) /\ ~ (o # <<>> /\ ~ Fits(n, o, b))
    <2> DEFINE o2 == Append(o, b)
               n2 == n + (IF o = <<>> THEN 0 ELSE 2) + len
    <2>1. AddBlock(acc, b) = [packed |-> q, open |-> o2, size |-> n2]
      <3>1. AddBlock(acc, b) = [acc EXCEPT !.open = Append(@, b), !.size = @ + (IF acc.open = <<>> THEN 0 ELSE 2) + len]
        BY <1>2, <1>10, Zenon DEF AddBlock
      <3> HIDE DEF len
      <3> QED
        BY <1>1, <3>1
    <2>2. o2 \in Seq(Block) /\ o2 # <<>> /\ n2 \in Nat
      BY <1>0, AppendProperties
    <2>3. WellPacked(o2) /\ n2 = Len(Joined(o2)) /\ n2 > 0 /\ n2 <= Target
      <3>1. CASE o = <<>>
        <4>1. o2 = one /\ n = 0
          BY <1>2, <3>1 DEF Open
        <4>2. n2 = len
          BY <1>0, <3>1, <4>1
        <4> HIDE DEF o2, n2, one
        <4> QED
          BY <1>0, <1>3, <1>10, <4>1, <4>2, SizesAssumption
      <3>2. CASE o # <<>>
        <4>1. Last(o).doc = b.doc /\ n + 2 + len <= Target
          BY <1>10, <3>2 DEF Fits
        <4>2. WellPacked(o) /\ n = Len(Joined(o)) /\ n > 0
          BY <1>2, <3>2 DEF Open
        <4>3. WellPacked(o2) /\ Len(Joined(o2)) = n + 2 + len
          BY <4>1, <4>2, GroupIs
        <4>4. n2 = n + 2 + len
          BY <3>2
        <4> HIDE DEF o2, n2, len
        <4> QED
          BY <1>0, <4>1, <4>3, <4>4
      <3> QED
        BY <3>1, <3>2
    <2> HIDE DEF o2, n2
    <2>4. [packed |-> q, open |-> o2, size |-> n2] \in Filling
      <3>1. Open([packed |-> q, open |-> o2, size |-> n2])
        BY <2>2, <2>3 DEF Open
      <3> QED
        BY <1>2, <2>2, <3>1, FillingIs
    <2>5. SoFar([packed |-> q, open |-> o2, size |-> n2]) = Append(all, b)
      <3>1. FlattenSeq(q) \o o2 = Append(FlattenSeq(q) \o o, b)
        <4> DEFINE f == FlattenSeq(q)
        <4>1. f \in Seq(Block)
          BY <1>5
        <4> HIDE DEF f
        <4>2. f \o Append(o, b) = Append(f \o o, b)
          BY <4>1
        <4> QED
          BY <4>2 DEF f, o2
      <3> QED
        BY <1>2, <3>1 DEF SoFar
    <2> QED
      BY <1>0, <1>10, <2>1, <2>4, <2>5 DEF AddWithText
  <1> QED
    BY <1>7, <1>8, <1>9, <1>10

\* Packing starts empty.
LEMMA StartFilling == [packed |-> <<>>, open |-> <<>>, size |-> 0] \in Filling
  <1>1. <<>> \in Seq(Seq(Block)) /\ <<>> \in Seq(Block) /\ Len(<<>>) = 0
    OBVIOUS
  <1>2. Open([packed |-> <<>>, open |-> <<>>, size |-> 0])
    BY DEF Open
  <1>3. \A k \in 1 .. Len(<<>>) : WellPacked(<<>>[k])
    BY <1>1
  <1> QED
    BY <1>1, <1>2, <1>3, FillingIs

\* The packing goes from block to block.
LEMMA FilledPath ==
    ASSUME NEW bs \in Seq(Block)
    PROVE  \E h \in [0 .. Len(bs) -> Filling] :
              /\ h[0] = [packed |-> <<>>, open |-> <<>>, size |-> 0] /\ h[Len(bs)] = Filled(bs)
              /\ \A k \in 1 .. Len(bs) : h[k] = AddBlock(h[k - 1], bs[k])
  <1> DEFINE A == Filling
             I == Block
             op == [acc \in A |-> [x \in I |-> AddBlock(acc, x)]]
             Q(it) == it = [s \in SUBSET DOMAIN bs |->
                              IF s = {} THEN [packed |-> <<>>, open |-> <<>>, size |-> 0]
                              ELSE AddBlock(it[s \ {Max(s)}], bs[Max(s)])]
             it == CHOOSE f : Q(f)
             next == [s \in SUBSET (1 .. Len(bs)) |-> AddBlock(it[s \ {Max(s)}], bs[Max(s)])]
  <1>1. Len(bs) \in Nat /\ DOMAIN bs = 1 .. Len(bs) /\ bs \in [1 .. Len(bs) -> I] /\ [packed |-> <<>>, open |-> <<>>, size |-> 0] \in A
    BY LenProperties, StartFilling
  <1>2. \A acc \in A, x \in I : AddBlock(acc, x) \in A
    BY AddBlockKeeps
  <1>3. op \in [A -> [I -> A]]
    <2> HIDE DEF A, I
    <2> QED
      BY <1>2
  <1>4. \E f : Q(f)
    <2>1. PICK f : FoldUnfolded(A, I, [packed |-> <<>>, open |-> <<>>, size |-> 0], op, bs, f, Len(bs))
      <3> HIDE DEF op, A, I
      <3> QED
        BY <1>1, <1>3, FoldSolution
    <2>2. /\ f = [s \in SUBSET (1 .. Len(bs)) |-> f[s]] /\ f[{}] = [packed |-> <<>>, open |-> <<>>, size |-> 0]
          /\ \A s \in SUBSET (1 .. Len(bs)) : s # {} =>
                /\ Max(s) \in 1 .. Len(bs) /\ bs[Max(s)] \in I /\ f[s \ {Max(s)}] \in A
                /\ f[s] = op[f[s \ {Max(s)}]][bs[Max(s)]]
      BY <2>1, Zenon DEF FoldUnfolded
    <2>3. \A s \in SUBSET (1 .. Len(bs)) :
             f[s] = IF s = {} THEN [packed |-> <<>>, open |-> <<>>, size |-> 0] ELSE AddBlock(f[s \ {Max(s)}], bs[Max(s)])
      <3> HIDE DEF A, I
      <3> QED
        BY <2>2
    <2>4. Q(f)
      BY <1>1, <2>2, <2>3
    <2> QED
      BY <2>4
  <1>5. Q(it)
    <2> HIDE DEF Q
    <2> QED
      BY <1>4, Zenon
  <1>6. Filled(bs) = it[1 .. Len(bs)]
    <2>1. Filled(bs) = it[DOMAIN bs]
      BY Zenon DEF Filled, FoldLeft, MapThenFoldSet
    <2> QED
      BY <1>1, <2>1, Zenon
  <1>7. it = [s \in SUBSET (1 .. Len(bs)) |-> IF s = {} THEN [packed |-> <<>>, open |-> <<>>, size |-> 0] ELSE next[s]]
    <2> HIDE DEF it
    <2> QED
      BY <1>1, <1>5
  <1>8. NextIs(A, op, bs, it, next, Len(bs))
    <2> HIDE DEF it
    <2> SUFFICES ASSUME NEW s \in SUBSET (1 .. Len(bs)), s # {}, it[s \ {Max(s)}] \in A
                 PROVE  next[s] = op[it[s \ {Max(s)}]][bs[Max(s)]]
      BY DEF NextIs
    <2>1. Max(s) \in 1 .. Len(bs)
      BY <1>1, MaxUpTo
    <2>2. bs[Max(s)] \in I
      BY <1>1, <2>1
    <2> HIDE DEF A, I
    <2> QED
      BY <2>2
  <1>9. PICK h \in [0 .. Len(bs) -> A] : FoldRun([packed |-> <<>>, open |-> <<>>, size |-> 0], op, bs, it, h, Len(bs))
    <2> HIDE DEF A, I, op, it, next
    <2> QED
      BY <1>1, <1>3, <1>7, <1>8, FoldSolved
  <1>10. /\ h[0] = [packed |-> <<>>, open |-> <<>>, size |-> 0] /\ h[Len(bs)] = it[1 .. Len(bs)]
         /\ \A k \in 1 .. Len(bs) : h[k] = op[h[k - 1]][bs[k]]
    BY <1>9, Zenon DEF FoldRun
  <1>11. \A k \in 1 .. Len(bs) : h[k] = AddBlock(h[k - 1], bs[k])
    <2> TAKE k \in 1 .. Len(bs)
    <2> HIDE DEF A, I, it
    <2>1. k - 1 \in 0 .. Len(bs)
      BY <1>1
    <2>2. h[k - 1] \in A /\ bs[k] \in I
      BY <1>1, <1>9, <2>1
    <2> QED
      BY <1>10, <2>2
  <1> HIDE DEF it
  <1> QED
    BY <1>6, <1>9, <1>10, <1>11

\* So does the choice of the blocks that have text.
LEMMA WithTextPath ==
    ASSUME NEW bs \in Seq(Block)
    PROVE  \E h \in [0 .. Len(bs) -> Seq(Block)] :
              /\ h[0] = <<>> /\ h[Len(bs)] = WithText(bs)
              /\ \A k \in 1 .. Len(bs) : h[k] = AddWithText(h[k - 1], bs[k])
  <1> DEFINE A == Seq(Block)
             I == Block
             op == [acc \in A |-> [x \in I |-> AddWithText(acc, x)]]
             Q(it) == it = [s \in SUBSET DOMAIN bs |->
                              IF s = {} THEN <<>>
                              ELSE AddWithText(it[s \ {Max(s)}], bs[Max(s)])]
             it == CHOOSE f : Q(f)
             next == [s \in SUBSET (1 .. Len(bs)) |-> AddWithText(it[s \ {Max(s)}], bs[Max(s)])]
  <1>1. Len(bs) \in Nat /\ DOMAIN bs = 1 .. Len(bs) /\ bs \in [1 .. Len(bs) -> I] /\ <<>> \in A
    BY LenProperties, EmptySeq
  <1>2. \A acc \in A, x \in I : AddWithText(acc, x) \in A
    BY AppendProperties DEF AddWithText
  <1>3. op \in [A -> [I -> A]]
    <2> HIDE DEF A, I
    <2> QED
      BY <1>2
  <1>4. \E f : Q(f)
    <2>1. PICK f : FoldUnfolded(A, I, <<>>, op, bs, f, Len(bs))
      <3> HIDE DEF op, A, I
      <3> QED
        BY <1>1, <1>3, FoldSolution
    <2>2. /\ f = [s \in SUBSET (1 .. Len(bs)) |-> f[s]] /\ f[{}] = <<>>
          /\ \A s \in SUBSET (1 .. Len(bs)) : s # {} =>
                /\ Max(s) \in 1 .. Len(bs) /\ bs[Max(s)] \in I /\ f[s \ {Max(s)}] \in A
                /\ f[s] = op[f[s \ {Max(s)}]][bs[Max(s)]]
      BY <2>1, Zenon DEF FoldUnfolded
    <2>3. \A s \in SUBSET (1 .. Len(bs)) :
             f[s] = IF s = {} THEN <<>> ELSE AddWithText(f[s \ {Max(s)}], bs[Max(s)])
      <3> HIDE DEF A, I
      <3> QED
        BY <2>2
    <2>4. Q(f)
      BY <1>1, <2>2, <2>3
    <2> QED
      BY <2>4
  <1>5. Q(it)
    <2> HIDE DEF Q
    <2> QED
      BY <1>4, Zenon
  <1>6. WithText(bs) = it[1 .. Len(bs)]
    <2>1. WithText(bs) = it[DOMAIN bs]
      BY Zenon DEF WithText, AddWithText, FoldLeft, MapThenFoldSet
    <2> QED
      BY <1>1, <2>1, Zenon
  <1>7. it = [s \in SUBSET (1 .. Len(bs)) |-> IF s = {} THEN <<>> ELSE next[s]]
    <2> HIDE DEF it
    <2> QED
      BY <1>1, <1>5
  <1>8. NextIs(A, op, bs, it, next, Len(bs))
    <2> HIDE DEF it
    <2> SUFFICES ASSUME NEW s \in SUBSET (1 .. Len(bs)), s # {}, it[s \ {Max(s)}] \in A
                 PROVE  next[s] = op[it[s \ {Max(s)}]][bs[Max(s)]]
      BY DEF NextIs
    <2>1. Max(s) \in 1 .. Len(bs)
      BY <1>1, MaxUpTo
    <2>2. bs[Max(s)] \in I
      BY <1>1, <2>1
    <2> HIDE DEF A, I
    <2> QED
      BY <2>2
  <1>9. PICK h \in [0 .. Len(bs) -> A] : FoldRun(<<>>, op, bs, it, h, Len(bs))
    <2> HIDE DEF A, I, op, it, next
    <2> QED
      BY <1>1, <1>3, <1>7, <1>8, FoldSolved
  <1>10. /\ h[0] = <<>> /\ h[Len(bs)] = it[1 .. Len(bs)]
         /\ \A k \in 1 .. Len(bs) : h[k] = op[h[k - 1]][bs[k]]
    BY <1>9, Zenon DEF FoldRun
  <1>11. \A k \in 1 .. Len(bs) : h[k] = AddWithText(h[k - 1], bs[k])
    <2> TAKE k \in 1 .. Len(bs)
    <2> HIDE DEF A, I, it
    <2>1. k - 1 \in 0 .. Len(bs)
      BY <1>1
    <2>2. h[k - 1] \in A /\ bs[k] \in I
      BY <1>1, <1>9, <2>1
    <2> QED
      BY <1>10, <2>2
  <1> HIDE DEF it
  <1> QED
    BY <1>6, <1>9, <1>10, <1>11

\* What packing makes of any blocks.
LEMMA PackedIs ==
    ASSUME NEW bs \in Seq(Block)
    PROVE  /\ Packed(bs) \in Seq(Seq(Block) \ {<<>>})
           /\ \A k \in 1 .. Len(Packed(bs)) : WellPacked(Packed(bs)[k])
           /\ FlattenSeq(Packed(bs)) = WithText(bs)
  <1> DEFINE n == Len(bs)
  <1>0. n \in Nat /\ n \in 0 .. n /\ 0 \in 0 .. n
    BY LenProperties
  <1>1. \E e \in [0 .. n -> Seq(Block)] : /\ e[0] = <<>> /\ e[n] = WithText(bs)
                                          /\ \A k \in 1 .. n : e[k] = AddWithText(e[k - 1], bs[k])
    BY WithTextPath
  <1>2. PICK f \in [0 .. n -> Filling] : /\ f[0] = [packed |-> <<>>, open |-> <<>>, size |-> 0]
                                         /\ f[n] = Filled(bs)
                                         /\ \A k \in 1 .. n : f[k] = AddBlock(f[k - 1], bs[k])
    BY FilledPath
  <1>3. PICK e \in [0 .. n -> Seq(Block)] : /\ e[0] = <<>> /\ e[n] = WithText(bs)
                                            /\ \A k \in 1 .. n : e[k] = AddWithText(e[k - 1], bs[k])
    BY <1>1
  <1> DEFINE T == {k \in 0 .. n : SoFar(f[k]) = e[k]}
  <1>4. 0 \in T
    <2>1. FlattenSeq(<<>>) = <<>>
      BY DEF FlattenSeq
    <2>2. SoFar([packed |-> <<>>, open |-> <<>>, size |-> 0]) = <<>>
      BY <2>1 DEF SoFar
    <2> QED
      BY <1>0, <1>2, <1>3, <2>2
  <1>5. ASSUME NEW k \in 1 .. n, k - 1 \in T PROVE k \in T
    <2>1. k - 1 \in 0 .. n /\ k \in 0 .. n
      BY <1>0
    <2>2. f[k - 1] \in Filling /\ bs[k] \in Block
      BY <1>0, <2>1, ElementOfSeq
    <2>3. SoFar(f[k]) = AddWithText(SoFar(f[k - 1]), bs[k])
      BY <1>2, <2>2, AddBlockKeeps
    <2>4. e[k] = AddWithText(e[k - 1], bs[k]) /\ SoFar(f[k - 1]) = e[k - 1]
      BY <1>3, <1>5
    <2> QED
      BY <2>1, <2>3, <2>4
  <1>6. \A k \in 0 .. n : k \in T
    <2> HIDE DEF T, n
    <2> QED
      BY <1>0, <1>4, <1>5, UpTo, Zenon
  <1>7. SoFar(Filled(bs)) = WithText(bs) /\ Filled(bs) \in Filling
    BY <1>0, <1>2, <1>3, <1>6
  <1>8. PICK p \in Seq(Seq(Block)) :
              /\ Flush(Filled(bs)) = [packed |-> p, open |-> <<>>, size |-> 0]
              /\ \A k \in 1 .. Len(p) : WellPacked(p[k])
              /\ FlattenSeq(p) = SoFar(Filled(bs))
    BY <1>7, FlushKeeps DEF SoFar
  <1>9. Packed(bs) = p
    BY <1>8 DEF Packed, Filled
  <1>10. p \in Seq(Seq(Block) \ {<<>>})
    <2>1. \A k \in 1 .. Len(p) : p[k] \in Seq(Block) \ {<<>>}
      BY <1>8 DEF WellPacked
    <2> DEFINE G == Seq(Block) \ {<<>>}
    <2>2. p \in [1 .. Len(p) -> G] /\ Len(p) \in Nat
      <3> HIDE DEF G
      <3> QED
        BY <2>1, LenProperties DEF G
    <2> HIDE DEF G
    <2>3. p \in Seq(G)
      BY <2>2, TypedSeq
    <2> QED
      BY <2>3 DEF G
  <1> QED
    BY <1>7, <1>8, <1>9, <1>10

---------------------------------------------------------------------------
(* Cuts of a window                                                         *)

\* A cut at p is not between two letters, or the word is longer than a snap.
WordSafe(t, p) ==
    LET before == {i \in 0 .. p : i = 0 \/ Blank(t[i])}
        after == {i \in p .. Len(t) : i = Len(t) \/ Blank(t[i + 1])}
    IN  p > 0 /\ ~ EndsWord(t[p]) /\ ~ EndsWord(t[p + 1])
          => Least(after) - Greatest(before) > MaxMove

\* A place of a text where a window may be cut.
Safe(t, p) == p \in 0 .. Len(t) /\ (p < Len(t) => WordSafe(t, p))

\* The ends of the word around a place.
LEMMA WordAround ==
    ASSUME NEW t \in Seq(Char), NEW p \in 0 .. Len(t)
    PROVE  LET before == {i \in 0 .. p : i = 0 \/ Blank(t[i])}
               after == {i \in p .. Len(t) : i = Len(t) \/ Blank(t[i + 1])}
           IN  /\ Greatest(before) \in before /\ \A i \in before : i <= Greatest(before)
               /\ Least(after) \in after /\ \A i \in after : Least(after) <= i
               /\ Greatest(before) \in 0 .. p /\ Least(after) \in p .. Len(t)
  <1> DEFINE before == {i \in 0 .. p : i = 0 \/ Blank(t[i])}
             after == {i \in p .. Len(t) : i = Len(t) \/ Blank(t[i + 1])}
  <1>1. Len(t) \in Nat
    BY SolidIs
  <1>2. before \in SUBSET (0 .. Len(t)) /\ 0 \in before
    BY <1>1
  <1>3. after \in SUBSET (0 .. Len(t)) /\ Len(t) \in after
    BY <1>1
  <1>4. before \subseteq 0 .. p /\ after \subseteq p .. Len(t)
    OBVIOUS
  <1> HIDE DEF before, after
  <1>5. Greatest(before) \in before /\ \A i \in before : i <= Greatest(before)
    BY <1>1, <1>2, Ends
  <1>6. Least(after) \in after /\ \A i \in after : Least(after) <= i
    BY <1>1, <1>3, Ends
  <1> QED
    BY <1>4, <1>5, <1>6 DEF before, after

\* A snap backward ends at a safe place.
LEMMA SnapBackIs ==
    ASSUME NEW t \in Seq(Char), NEW pos \in 0 .. Len(t)
    PROVE  SnapBack(t, pos) \in 0 .. pos /\ Safe(t, SnapBack(t, pos))
  <1> DEFINE stops == {0} \cup {i \in 1 .. pos : EndsWord(t[i])}
             stop == Greatest(stops)
             p == SnapBack(t, pos)
             before == {i \in 0 .. p : i = 0 \/ Blank(t[i])}
             after == {i \in p .. Len(t) : i = Len(t) \/ Blank(t[i + 1])}
  <1>1. Len(t) \in Nat
    BY SolidIs
  <1>2. stops \in SUBSET (0 .. pos) /\ 0 \in stops
    BY <1>1
  <1>3. stop \in stops /\ \A i \in stops : i <= stop
    <2> HIDE DEF stops
    <2>1. pos \in Nat
      BY <1>1
    <2> QED
      BY <1>2, <2>1, Ends
  <1>4. p = IF pos <= 0 \/ pos >= Len(t) \/ pos - stop > MaxMove THEN pos ELSE stop
    BY Zenon DEF SnapBack
  <1>5. stop \in 0 .. pos /\ (stop > 0 => EndsWord(t[stop]))
    <2> HIDE DEF stop
    <2> QED
      BY <1>2, <1>3
  <1> HIDE DEF stop
  <1>6. p \in 0 .. pos /\ p \in 0 .. Len(t)
    BY <1>1, <1>4, <1>5
  <1>7. ASSUME p < Len(t), p > 0, ~ EndsWord(t[p]) PROVE Least(after) - Greatest(before) > MaxMove
    <2>1. p # stop
      BY <1>5, <1>7
    <2>2. p = pos /\ pos - stop > MaxMove
      BY <1>1, <1>4, <1>7, <2>1
    <2>3. /\ Greatest(before) \in before /\ Greatest(before) \in 0 .. p
          /\ Least(after) \in p .. Len(t)
      BY <1>6, WordAround
    <2>4. before \subseteq stops
      <3> HIDE DEF p
      <3> SUFFICES ASSUME NEW i \in before PROVE i \in stops
        OBVIOUS
      <3>1. i \in 0 .. pos /\ (i = 0 \/ Blank(t[i]))
        BY <2>2
      <3>2. i # 0 => i \in 1 .. pos /\ EndsWord(t[i])
        <4>1. Blank(t[i]) => EndsWord(t[i])
          BY Zenon DEF Blank, EndsWord
        <4> QED
          BY <1>1, <3>1, <4>1
      <3> QED
        BY <3>2
    <2>5. Greatest(before) <= stop
      <3> HIDE DEF before, stops, p
      <3> QED
        BY <1>3, <2>3, <2>4
    <2> HIDE DEF before, after, p
    <2> QED
      BY <1>1, <1>5, <2>2, <2>3, <2>5, SizesAssumption
  <1>8. Safe(t, p)
    <2>1. WordSafe(t, p) \/ ~ (p < Len(t))
      BY <1>7 DEF WordSafe
    <2> HIDE DEF p
    <2> QED
      BY <1>6, <2>1 DEF Safe
  <1> QED
    BY <1>6, <1>8

\* So does a snap forward.
LEMMA SnapForwardIs ==
    ASSUME NEW t \in Seq(Char), NEW pos \in 0 .. Len(t)
    PROVE  SnapForward(t, pos) \in pos .. Len(t) /\ Safe(t, SnapForward(t, pos))
  <1> DEFINE stops == {Len(t)} \cup {i \in pos .. Len(t) - 1 : Blank(t[i + 1])}
             stop == Least(stops)
             p == SnapForward(t, pos)
             before == {i \in 0 .. p : i = 0 \/ Blank(t[i])}
             after == {i \in p .. Len(t) : i = Len(t) \/ Blank(t[i + 1])}
  <1>1. Len(t) \in Nat
    BY SolidIs
  <1>2. stops \in SUBSET (0 .. Len(t)) /\ Len(t) \in stops /\ stops \subseteq pos .. Len(t)
    BY <1>1
  <1>3. stop \in stops /\ \A i \in stops : stop <= i
    <2> HIDE DEF stops
    <2> QED
      BY <1>1, <1>2, Ends
  <1>4. p = IF pos <= 0 \/ pos >= Len(t) \/ stop - pos > MaxMove THEN pos ELSE stop
    BY Zenon DEF SnapForward
  <1>5. stop \in pos .. Len(t) /\ (stop < Len(t) => Blank(t[stop + 1]))
    <2> HIDE DEF stop
    <2> QED
      BY <1>1, <1>2, <1>3
  <1> HIDE DEF stop
  <1>6. p \in pos .. Len(t) /\ p \in 0 .. Len(t)
    BY <1>1, <1>4, <1>5
  <1>7. ASSUME p < Len(t), p > 0, ~ EndsWord(t[p + 1]) PROVE Least(after) - Greatest(before) > MaxMove
    <2>1. p # stop
      BY <1>5, <1>7 DEF Blank, EndsWord
    <2>2. p = pos /\ stop - pos > MaxMove
      BY <1>1, <1>4, <1>6, <1>7, <2>1
    <2>3. /\ Least(after) \in after /\ Least(after) \in p .. Len(t)
          /\ Greatest(before) \in 0 .. p
      BY <1>6, WordAround
    <2>4. after \subseteq stops
      BY <1>1, <2>2
    <2>5. stop <= Least(after)
      <3> HIDE DEF after, stops, p
      <3> QED
        BY <1>3, <2>3, <2>4
    <2> HIDE DEF before, after, p
    <2> QED
      BY <1>1, <1>5, <2>2, <2>3, <2>5, SizesAssumption
  <1>8. Safe(t, p)
    <2>1. WordSafe(t, p) \/ ~ (p < Len(t))
      BY <1>7 DEF WordSafe
    <2> HIDE DEF p
    <2> QED
      BY <1>6, <2>1 DEF Safe
  <1> QED
    BY <1>6, <1>8

\* The pairs of an answer that are used.
LEMMA SnappedIs ==
    ASSUME NEW t \in Seq(Char), NEW answer \in SUBSET (Int \X Int)
    PROVE  /\ Snapped(t, answer) \subseteq (0 .. Len(t)) \X (0 .. Len(t))
           /\ IsFiniteSet(Snapped(t, answer))
           /\ \A s \in Snapped(t, answer) : s[1] < s[2] /\ Safe(t, s[1]) /\ Safe(t, s[2])
  <1> DEFINE n == Len(t)
  <1>0. n \in Nat
    BY SolidIs
  <1>1. ASSUME NEW s \in Snapped(t, answer)
        PROVE  s \in (0 .. n) \X (0 .. n) /\ s[1] < s[2] /\ Safe(t, s[1]) /\ Safe(t, s[2])
    <2>1. PICK o \in answer : /\ o[1] >= 0 /\ o[1] < o[2] /\ o[1] <= n /\ s[1] < s[2]
                              /\ s = <<SnapBack(t, o[1]), SnapForward(t, MinOf(o[2], n))>>
      BY DEF Snapped
    <2>2. o[1] \in 0 .. n /\ MinOf(o[2], n) \in 0 .. n
      BY <1>0, <2>1 DEF MinOf
    <2>3. SnapBack(t, o[1]) \in 0 .. o[1] /\ Safe(t, SnapBack(t, o[1]))
      BY <2>2, SnapBackIs
    <2>4. SnapForward(t, MinOf(o[2], n)) \in MinOf(o[2], n) .. n /\ Safe(t, SnapForward(t, MinOf(o[2], n)))
      BY <2>2, SnapForwardIs
    <2>5. SnapBack(t, o[1]) \in 0 .. n /\ SnapForward(t, MinOf(o[2], n)) \in 0 .. n
      BY <2>3, <2>4 DEF Safe
    <2> QED
      BY <2>1, <2>3, <2>4, <2>5
  <1>2. IsFiniteSet((0 .. n) \X (0 .. n))
    <2>1. 0 \in Int /\ n \in Int
      BY <1>0
    <2>2. IsFiniteSet(0 .. n)
      BY <2>1, FS_Interval, Zenon
    <2> QED
      BY <2>2, FS_Product
  <1>3. Snapped(t, answer) \subseteq (0 .. n) \X (0 .. n)
    BY <1>1
  <1> QED
    BY <1>1, <1>2, <1>3, FS_Subset

\* Of pairs there is a last one.
LEMMA LastPair ==
    ASSUME NEW n \in Nat, NEW S \in SUBSET ((0 .. n) \X (0 .. n)), S # {}
    PROVE  \E s \in S : \A o \in S : Before(o, s)
  <1> DEFINE X == {s[1] : s \in S}
             x == Greatest(X)
             Y == {s[2] : s \in {o \in S : o[1] = x}}
             y == Greatest(Y)
  <1>0. \A s \in S : s = <<s[1], s[2]>> /\ s[1] \in 0 .. n /\ s[2] \in 0 .. n
    OBVIOUS
  <1>1. X \in SUBSET (0 .. n) /\ X # {}
    BY <1>0
  <1>2. x \in X /\ \A z \in X : z <= x
    <2> HIDE DEF X
    <2> QED
      BY <1>1, Ends
  <1>3. Y \in SUBSET (0 .. n) /\ Y # {}
    <2> HIDE DEF x
    <2> QED
      BY <1>0, <1>2
  <1>4. y \in Y /\ \A z \in Y : z <= y
    <2> HIDE DEF Y
    <2> QED
      BY <1>3, Ends
  <1> HIDE DEF x, y
  <1>5. PICK s \in S : s[1] = x /\ s[2] = y
    BY <1>4
  <1>6. ASSUME NEW o \in S PROVE Before(o, s)
    <2>1. o[1] <= x /\ (o[1] = x => o[2] <= y)
      BY <1>2, <1>4
    <2>2. o[1] \in 0 .. n /\ s[1] \in 0 .. n
      BY <1>0
    <2> QED
      BY <1>5, <2>1, <2>2 DEF Before
  <1> QED
    BY <1>6

---------------------------------------------------------------------------
(* The plan of a window                                                     *)

\* Where the slice before slice k ends.
EndBefore(ps, k) == IF k = 1 THEN 0 ELSE ps[k - 1][2]

\* Each slice starts where the one before it ends, up to cur.
Follows(ps, cur) ==
    /\ \A k \in 1 .. Len(ps) : ps[k][1] = EndBefore(ps, k)
    /\ cur = EndBefore(ps, Len(ps) + 1)

\* Every slice begins at a safe place.
SafeStarts(t, ps) == \A k \in 1 .. Len(ps) : Safe(t, ps[k][1])

\* The states of covering a window.
Coverings(t) ==
    {acc \in [cursor : 0 .. Len(t), plan : Seq(Slices(Len(t)))] :
       Follows(acc.plan, acc.cursor) /\ Safe(t, acc.cursor) /\ SafeStarts(t, acc.plan)}

\* One more slice at the end.
LEMMA OneMoreSlice ==
    ASSUME NEW t \in Seq(Char), NEW ps \in Seq(Slices(Len(t))), NEW cur \in 0 .. Len(t), NEW e \in cur .. Len(t),
           Follows(ps, cur), Safe(t, cur), SafeStarts(t, ps)
    PROVE  /\ Append(ps, <<cur, e>>) \in Seq(Slices(Len(t)))
           /\ Follows(Append(ps, <<cur, e>>), e) /\ SafeStarts(t, Append(ps, <<cur, e>>))
  <1> DEFINE q == Append(ps, <<cur, e>>)
             n == Len(ps)
             x == <<cur, e>>
  <1>0. Len(t) \in Nat /\ n \in Nat
    BY SolidIs, LenProperties
  <1>1. x \in Slices(Len(t)) /\ x[1] = cur /\ x[2] = e
    BY <1>0 DEF Slices
  <1>2. /\ q \in Seq(Slices(Len(t))) /\ Len(q) = n + 1 /\ q[n + 1] = x
        /\ \A k \in 1 .. n : q[k] = ps[k]
    <2> HIDE DEF x
    <2>1. q = Append(ps, x)
      BY DEF x
    <2> HIDE DEF q
    <2> QED
      BY <1>1, <2>1, AppendProperties
  <1> HIDE DEF q, x
  <1>3. ASSUME NEW k \in 1 .. n + 1 PROVE EndBefore(q, k) = EndBefore(ps, k)
    <2>1. CASE k = 1
      BY <2>1 DEF EndBefore
    <2>2. CASE k # 1
      <3>1. k - 1 \in 1 .. n
        BY <1>0, <2>2
      <3> QED
        BY <1>2, <2>2, <3>1 DEF EndBefore
    <2> QED
      BY <2>1, <2>2
  <1>4. ASSUME NEW k \in 1 .. Len(q) PROVE q[k][1] = EndBefore(q, k) /\ Safe(t, q[k][1])
    <2>1. k \in 1 .. n + 1
      BY <1>2
    <2>2. CASE k = n + 1
      BY <1>1, <1>2, <1>3, <2>1, <2>2 DEF Follows
    <2>3. CASE k # n + 1
      <3>1. k \in 1 .. n
        BY <1>0, <2>1, <2>3
      <3> QED
        BY <1>2, <1>3, <2>1, <3>1 DEF Follows, SafeStarts
    <2> QED
      BY <2>2, <2>3
  <1>5. e = EndBefore(q, Len(q) + 1)
    <2>1. Len(q) + 1 # 1 /\ Len(q) + 1 - 1 = n + 1
      BY <1>0, <1>2
    <2> QED
      BY <1>1, <1>2, <2>1 DEF EndBefore
  <1> QED
    BY <1>2, <1>4, <1>5 DEF Follows, SafeStarts, q, x

\* A pair that is covered leaves no gap and no overlap.
LEMMA CoverIs ==
    ASSUME NEW t \in Seq(Char), NEW acc \in Coverings(t), NEW s \in (0 .. Len(t)) \X (0 .. Len(t)),
           s[1] < s[2], Safe(t, s[1]), Safe(t, s[2])
    PROVE  Cover(acc, s) \in Coverings(t)
  <1> DEFINE n == Len(t)
  <1>0. n \in Nat /\ s[1] \in 0 .. n /\ s[2] \in 0 .. n
    BY SolidIs
  <1>1. PICK cur \in 0 .. n, ps \in Seq(Slices(n)) : acc = [cursor |-> cur, plan |-> ps]
    BY DEF Coverings
  <1>2. /\ acc.cursor = cur /\ acc.plan = ps
        /\ Follows(ps, cur) /\ Safe(t, cur) /\ SafeStarts(t, ps)
    BY <1>1 DEF Coverings
  <1>3. CASE s[2] <= cur
    BY <1>2, <1>3 DEF Cover
  <1>4. CASE ~ (s[2] <= cur) /\ s[1] > cur
    <2> DEFINE q == Append(ps, <<cur, s[1]>>)
               r == Append(q, <<s[1], s[2]>>)
    <2>1. s[1] \in cur .. n /\ s[2] \in s[1] .. n
      BY <1>0, <1>4
    <2>2. q \in Seq(Slices(n)) /\ Follows(q, s[1]) /\ SafeStarts(t, q)
      BY <1>2, <2>1, OneMoreSlice
    <2>3. r \in Seq(Slices(n)) /\ Follows(r, s[2]) /\ SafeStarts(t, r)
      <3> HIDE DEF q
      <3> QED
        BY <1>0, <2>1, <2>2, OneMoreSlice
    <2>4. Cover(acc, s) = [cursor |-> s[2], plan |-> r]
      <3>1. MaxOf(s[1], cur) = s[1]
        BY <1>0, <1>4 DEF MaxOf
      <3>2. Cover(acc, s) = [cursor |-> s[2], plan |-> (ps \o <<<<cur, s[1]>>>>) \o <<<<s[1], s[2]>>>>]
        BY <1>2, <1>4, <3>1 DEF Cover
      <3> DEFINE x == <<cur, s[1]>>
                 y == <<s[1], s[2]>>
      <3>3. x \in Slices(n) /\ y \in Slices(n)
        BY <1>0, <1>4 DEF Slices
      <3> HIDE DEF x, y
      <3>4. ps \o <<x>> = Append(ps, x)
        BY <3>3, AppendIsConcat
      <3>5. Append(ps, x) \o <<y>> = Append(Append(ps, x), y)
        BY <3>3, AppendProperties, AppendIsConcat
      <3> QED
        BY <3>2, <3>4, <3>5 DEF x, y
    <2> HIDE DEF r
    <2> QED
      BY <1>0, <2>3, <2>4 DEF Coverings
  <1>5. CASE ~ (s[2] <= cur) /\ ~ (s[1] > cur)
    <2> DEFINE r == Append(ps, <<cur, s[2]>>)
    <2>1. s[2] \in cur .. n
      BY <1>0, <1>5
    <2>2. r \in Seq(Slices(n)) /\ Follows(r, s[2]) /\ SafeStarts(t, r)
      BY <1>2, <2>1, OneMoreSlice
    <2>3. Cover(acc, s) = [cursor |-> s[2], plan |-> r]
      <3>1. MaxOf(s[1], cur) = cur
        BY <1>0, <1>5 DEF MaxOf
      <3>2. Cover(acc, s) = [cursor |-> s[2], plan |-> (ps \o <<>>) \o <<<<cur, s[2]>>>>]
        BY <1>2, <1>5, <3>1 DEF Cover
      <3> DEFINE x == <<cur, s[2]>>
      <3>3. x \in Slices(n)
        BY <1>0, <1>5 DEF Slices
      <3> HIDE DEF x
      <3>4. ps \o <<>> = ps /\ ps \o <<x>> = Append(ps, x)
        BY <3>3, AppendIsConcat, ConcatEmptySeq
      <3> QED
        BY <3>2, <3>4 DEF x
    <2> HIDE DEF r
    <2> QED
      BY <1>0, <2>2, <2>3 DEF Coverings
  <1> QED
    BY <1>3, <1>4, <1>5

\* The pair that comes last, and the cover of all of them.
Chosen(S) == CHOOSE s \in S : \A o \in S : Before(o, s)
Covered(t, answer) ==
    MapThenFoldSet(LAMBDA s, acc : Cover(acc, s), [cursor |-> 0, plan |-> <<>>], LAMBDA s : s,
                   LAMBDA S : CHOOSE s \in S : \A o \in S : Before(o, s), Snapped(t, answer))

\* The usable pairs are covered one after the other, from the last to the first.
LEMMA CoveredIs ==
    ASSUME NEW t \in Seq(Char), NEW answer \in SUBSET (Int \X Int)
    PROVE  Covered(t, answer) \in Coverings(t)
  <1> DEFINE A == Coverings(t)
             S == Snapped(t, answer)
             b == [cursor |-> 0, plan |-> <<>>]
             op == [acc \in A |-> [s \in S |-> Cover(acc, s)]]
             ch == [s \in SUBSET S |-> Chosen(s)]
             Q(f) == f = [s \in SUBSET S |-> IF s = {} THEN b ELSE Cover(f[s \ {Chosen(s)}], Chosen(s))]
             it == CHOOSE f : Q(f)
             next == [s \in SUBSET S |-> Cover(it[s \ {Chosen(s)}], Chosen(s))]
  <1>0. Len(t) \in Nat
    BY SolidIs
  <1>1. b \in A
    <2>1. <<>> \in Seq(Slices(Len(t))) /\ Len(<<>>) = 0
      OBVIOUS
    <2>2. Follows(<<>>, 0) /\ SafeStarts(t, <<>>)
      BY <2>1 DEF Follows, SafeStarts, EndBefore
    <2>3. Safe(t, 0)
      BY <1>0 DEF Safe, WordSafe
    <2> QED
      BY <1>0, <2>1, <2>2, <2>3 DEF Coverings
  <1>2. IsFiniteSet(S) /\ \A acc \in A, s \in S : Cover(acc, s) \in A
    BY SnappedIs, CoverIs
  <1>3. op \in [A -> [S -> A]]
    <2> HIDE DEF A, S
    <2> QED
      BY <1>2
  <1>4. \A s \in SUBSET S : s # {} => Chosen(s) \in s
    <2> TAKE s \in SUBSET S
    <2> HAVE s # {}
    <2>1. s \in SUBSET ((0 .. Len(t)) \X (0 .. Len(t)))
      BY SnappedIs
    <2>2. \E x \in s : \A o \in s : Before(o, x)
      <3> HIDE DEF S
      <3> QED
        BY <1>0, <2>1, LastPair
    <2> QED
      BY <2>2, Zenon DEF Chosen
  <1>5. \A s \in SUBSET S : s # {} => ch[s] \in s
    BY <1>4
  <1>6. \E f : Q(f)
    <2>1. PICK f : SetUnfolded(A, S, b, op, ch, f)
      <3> HIDE DEF A, S, b, op, ch
      <3> QED
        BY <1>1, <1>2, <1>3, <1>5, SetFoldSolution
    <2>2. /\ f = [s \in SUBSET S |-> f[s]] /\ f[{}] = b
          /\ \A s \in SUBSET S : s # {} =>
               /\ ch[s] \in s /\ f[s \ {ch[s]}] \in A
               /\ f[s] = op[f[s \ {ch[s]}]][ch[s]]
      BY <2>1, Zenon DEF SetUnfolded
    <2>3. \A s \in SUBSET S : f[s] = IF s = {} THEN b ELSE Cover(f[s \ {Chosen(s)}], Chosen(s))
      <3> HIDE DEF A, S, b
      <3> TAKE s \in SUBSET S
      <3>1. CASE s = {}
        BY <2>2, <3>1
      <3>2. CASE s # {}
        <4>1. ch[s] = Chosen(s) /\ Chosen(s) \in S /\ f[s \ {Chosen(s)}] \in A
          BY <1>4, <2>2, <3>2
        <4>2. f[s] = op[f[s \ {ch[s]}]][ch[s]]
          BY <2>2, <3>2
        <4> QED
          BY <3>2, <4>1, <4>2
      <3> QED
        BY <3>1, <3>2
    <2>4. Q(f)
      <3> HIDE DEF S, b
      <3> QED
        BY <2>2, <2>3
    <2> QED
      BY <2>4
  <1>7. Q(it)
    <2> HIDE DEF Q
    <2> QED
      BY <1>6, Zenon
  <1>8. Covered(t, answer) = it[S]
    BY Zenon DEF Covered, MapThenFoldSet, Chosen
  <1>9. it = [s \in SUBSET S |-> IF s = {} THEN b ELSE next[s]]
    <2> HIDE DEF it, S, b
    <2> QED
      BY <1>7
  <1>10. SetNextIs(A, S, op, ch, it, next)
    <2> HIDE DEF it
    <2> SUFFICES ASSUME NEW s \in SUBSET S, s # {}, it[s \ {ch[s]}] \in A
                 PROVE  next[s] = op[it[s \ {ch[s]}]][ch[s]]
      BY DEF SetNextIs
    <2>1. ch[s] = Chosen(s) /\ Chosen(s) \in S
      BY <1>4
    <2> HIDE DEF A, S
    <2> QED
      BY <2>1
  <1> HIDE DEF A, S, b, op, ch, it, next
  <1>11. it[S] \in A
    <2>1. IsFiniteSet(S) /\ Picks(S, ch)
      BY <1>2, <1>5 DEF Picks
    <2>2. EndsIn(A, S, it)
      BY <1>1, <1>3, <1>9, <1>10, <2>1, SetFoldSolved
    <2> QED
      BY <2>2 DEF EndsIn
  <1> QED
    BY <1>8, <1>11 DEF A

\* A plan covers its window, slice after slice.
LEMMA PlanIs ==
    ASSUME NEW t \in Seq(Char), NEW answer \in SUBSET (Int \X Int)
    PROVE  /\ Plan(t, answer) \in Seq(Slices(Len(t)))
           /\ Follows(Plan(t, answer), Len(t)) /\ SafeStarts(t, Plan(t, answer))
  <1> DEFINE c == Covered(t, answer)
  <1>1. /\ c.cursor \in 0 .. Len(t) /\ c.plan \in Seq(Slices(Len(t)))
        /\ Follows(c.plan, c.cursor) /\ Safe(t, c.cursor) /\ SafeStarts(t, c.plan)
    BY CoveredIs DEF Coverings
  <1>2. Plan(t, answer) = IF c.cursor < Len(t) THEN Append(c.plan, <<c.cursor, Len(t)>>) ELSE c.plan
    BY Zenon DEF Plan, Covered
  <1> HIDE DEF c
  <1>3. Len(t) \in Nat
    BY SolidIs
  <1>4. CASE c.cursor < Len(t)
    <2>1. Len(t) \in c.cursor .. Len(t)
      BY <1>1, <1>3
    <2> QED
      BY <1>1, <1>2, <1>4, <2>1, OneMoreSlice
  <1>5. CASE ~ (c.cursor < Len(t))
    <2>1. c.cursor = Len(t)
      BY <1>1, <1>3, <1>5
    <2> QED
      BY <1>1, <1>2, <1>5, <2>1
  <1> QED
    BY <1>4, <1>5

---------------------------------------------------------------------------
(* The pieces of a window                                                   *)

\* Slices that may be cut from a text: from a solid place to a solid place, at
\* a safe place.
PieceSet(t) ==
    {r \in Slices(Len(t)) : r[1] < r[2] /\ r[1] \in Solid(t) /\ r[2] - 1 \in Solid(t) /\ Safe(t, r[1])}

\* The pieces are in order, end at cur at the latest, and hold all that is
\* solid up to there.
Tiles(t, ps, cur) ==
    /\ \A k \in 1 .. Len(ps) : ps[k][2] <= cur
    /\ \A j, k \in 1 .. Len(ps) : j < k => ps[j][2] <= ps[k][1]
    /\ \A i \in Solid(t) : i < cur => \E k \in 1 .. Len(ps) : ps[k][1] <= i /\ i < ps[k][2]

\* Slices from a safe place, and the piece of one more of them.
SafeSlices(t) == {r \in Slices(Len(t)) : Safe(t, r[1])}
AddPiece(t, acc, r) == IF Solid(t) \cap (r[1] .. r[2] - 1) = {} THEN acc ELSE Append(acc, Trim(t, r))

\* What is left of a slice is a piece.
LEMMA TrimIsPiece ==
    ASSUME NEW t \in Seq(Char), NEW r \in SafeSlices(t), Solid(t) \cap (r[1] .. r[2] - 1) # {}
    PROVE  Trim(t, r) \in PieceSet(t)
  <1> DEFINE p == Trim(t, r)
  <1>0. Len(t) \in Nat
    BY SolidIs
  <1>1. r \in Slices(Len(t)) /\ Safe(t, r[1]) /\ r[1] \in 0 .. Len(t) /\ r[2] \in 0 .. Len(t)
    BY DEF SafeSlices, Slices
  <1>2. /\ p \in Slices(Len(t)) /\ r[1] <= p[1] /\ p[1] < p[2] /\ p[2] <= r[2]
        /\ p[1] \in Solid(t) /\ p[2] - 1 \in Solid(t)
        /\ \A i \in Solid(t) : r[1] <= i /\ i < r[2] => p[1] <= i /\ i < p[2]
    BY <1>1, TrimIs
  <1> HIDE DEF p
  <1>3. p[1] \in 0 .. Len(t) /\ p[2] \in 0 .. Len(t)
    BY <1>2 DEF Slices
  <1>4. CASE p[1] = r[1]
    BY <1>1, <1>2, <1>4 DEF PieceSet, p
  <1>5. CASE p[1] # r[1]
    <2> DEFINE i == p[1] - 1
    <2>1. i \in 0 .. Len(t) - 1 /\ r[1] <= i /\ i < r[2] /\ i + 1 = p[1]
      BY <1>0, <1>1, <1>2, <1>3, <1>5
    <2>2. i \notin Solid(t)
      <3>1. ~ (p[1] <= i)
        BY <1>3
      <3> HIDE DEF i
      <3> QED
        BY <1>2, <2>1, <3>1
    <2>3. t[i + 1] = " "
      <3> HIDE DEF i
      <3> QED
        BY <2>1, <2>2, SolidIs
    <2>4. EndsWord(t[p[1]])
      <3>1. t[p[1]] = " "
        BY <2>1, <2>3
      <3> QED
        BY <3>1 DEF EndsWord
    <2>5. WordSafe(t, p[1])
      BY <2>4, Zenon DEF WordSafe
    <2> QED
      BY <1>2, <1>3, <2>5 DEF PieceSet, Safe, p
  <1> QED
    BY <1>4, <1>5

\* The piece of the next slice keeps the order and leaves nothing out.
LEMMA TileOn ==
    ASSUME NEW t \in Seq(Char), NEW ps \in Seq(PieceSet(t)), NEW r \in SafeSlices(t)
    PROVE  /\ AddPiece(t, ps, r) \in Seq(PieceSet(t))
           /\ Tiles(t, ps, r[1]) => Tiles(t, AddPiece(t, ps, r), r[2])
  <1> DEFINE inside == Solid(t) \cap (r[1] .. r[2] - 1)
             p == Trim(t, r)
             n == Len(ps)
             q == Append(ps, p)
  <1>0. Len(t) \in Nat /\ n \in Nat
    BY SolidIs, LenProperties
  <1>1. r \in Slices(Len(t)) /\ Safe(t, r[1]) /\ r[1] \in 0 .. Len(t) /\ r[2] \in 0 .. Len(t) /\ r[1] <= r[2]
    BY DEF SafeSlices, Slices
  <1>2. \A i \in Solid(t) : i \in 0 .. Len(t) - 1
    BY SolidIs
  <1>3. \A k \in 1 .. n : ps[k][1] \in 0 .. Len(t) /\ ps[k][2] \in 0 .. Len(t) /\ ps[k][1] < ps[k][2]
    <2> TAKE k \in 1 .. n
    <2>1. ps[k] \in PieceSet(t)
      BY ElementOfSeq
    <2> QED
      BY <2>1 DEF PieceSet, Slices
  <1>4. CASE inside = {}
    <2>1. AddPiece(t, ps, r) = ps
      BY <1>4 DEF AddPiece
    <2>2. ASSUME Tiles(t, ps, r[1]) PROVE Tiles(t, ps, r[2])
      <3>1. \A k \in 1 .. n : ps[k][2] <= r[2]
        <4> TAKE k \in 1 .. n
        <4>1. ps[k][2] <= r[1]
          BY <2>2, Zenon DEF Tiles
        <4> QED
          BY <1>1, <1>3, <4>1
      <3>2. ASSUME NEW i \in Solid(t), i < r[2] PROVE \E k \in 1 .. n : ps[k][1] <= i /\ i < ps[k][2]
        <4>1. i \notin r[1] .. r[2] - 1
          BY <1>4
        <4>2. i < r[1]
          BY <1>1, <1>2, <3>2, <4>1
        <4> QED
          BY <2>2, <4>2, Zenon DEF Tiles
      <3> QED
        BY <2>2, <3>1, <3>2, Zenon DEF Tiles
    <2> QED
      BY <2>1, <2>2
  <1>5. CASE inside # {}
    <2>1. AddPiece(t, ps, r) = q
      BY <1>5 DEF AddPiece
    <2>2. p \in PieceSet(t)
      BY <1>5, TrimIsPiece
    <2>3. /\ q \in Seq(PieceSet(t)) /\ Len(q) = n + 1 /\ q[n + 1] = p
          /\ \A k \in 1 .. n : q[k] = ps[k]
      <3> HIDE DEF p
      <3> QED
        BY <2>2, AppendProperties
    <2>4. /\ r[1] <= p[1] /\ p[1] < p[2] /\ p[2] <= r[2]
          /\ \A i \in Solid(t) : r[1] <= i /\ i < r[2] => p[1] <= i /\ i < p[2]
          /\ p[1] \in 0 .. Len(t) /\ p[2] \in 0 .. Len(t)
      <3>1. p \in Slices(Len(t))
        BY <1>1, TrimIs
      <3>2. p[1] \in 0 .. Len(t) /\ p[2] \in 0 .. Len(t)
        <4> HIDE DEF p
        <4> QED
          BY <3>1 DEF Slices
      <3> QED
        BY <1>1, <1>5, <3>2, TrimIs
    <2> HIDE DEF p, q
    <2>5. ASSUME Tiles(t, ps, r[1]) PROVE Tiles(t, q, r[2])
      <3>1. /\ \A k \in 1 .. n : ps[k][2] <= r[1]
            /\ \A j, k \in 1 .. n : j < k => ps[j][2] <= ps[k][1]
            /\ \A i \in Solid(t) : i < r[1] => \E k \in 1 .. n : ps[k][1] <= i /\ i < ps[k][2]
        BY <2>5, Zenon DEF Tiles
      <3>0. \A k \in 1 .. Len(q) : k # n + 1 => k \in 1 .. n
        BY <1>0, <2>3
      <3>2. ASSUME NEW k \in 1 .. Len(q) PROVE q[k][2] <= r[2]
        <4>1. CASE k = n + 1
          BY <2>3, <2>4, <4>1
        <4>2. CASE k # n + 1
          <5>1. k \in 1 .. n
            BY <3>0, <4>2
          <5>2. q[k] = ps[k] /\ ps[k][2] <= r[1] /\ ps[k][2] \in 0 .. Len(t)
            BY <1>3, <2>3, <3>1, <5>1, Zenon
          <5> QED
            BY <1>1, <5>2
        <4> QED
          BY <4>1, <4>2
      <3>3. ASSUME NEW j \in 1 .. Len(q), NEW k \in 1 .. Len(q), j < k PROVE q[j][2] <= q[k][1]
        <4>1. j \in 1 .. n
          BY <1>0, <2>3, <3>3
        <4>2. q[j] = ps[j] /\ ps[j][2] <= r[1] /\ ps[j][2] \in 0 .. Len(t)
          BY <1>3, <2>3, <3>1, <4>1, Zenon
        <4>3. CASE k = n + 1
          BY <1>1, <2>3, <2>4, <4>2, <4>3
        <4>4. CASE k # n + 1
          <5>1. k \in 1 .. n
            BY <3>0, <4>4
          <5>2. q[k] = ps[k] /\ ps[j][2] <= ps[k][1]
            BY <2>3, <3>1, <3>3, <4>1, <5>1, Zenon
          <5> QED
            BY <4>2, <5>2
        <4> QED
          BY <4>3, <4>4
      <3>4. ASSUME NEW i \in Solid(t), i < r[2] PROVE \E k \in 1 .. Len(q) : q[k][1] <= i /\ i < q[k][2]
        <4>1. CASE i < r[1]
          <5>1. PICK k \in 1 .. n : ps[k][1] <= i /\ i < ps[k][2]
            BY <3>1, <4>1, Zenon
          <5>2. k \in 1 .. Len(q) /\ q[k] = ps[k]
            BY <1>0, <2>3
          <5> QED
            BY <5>1, <5>2
        <4>2. CASE ~ (i < r[1])
          <5>1. p[1] <= i /\ i < p[2]
            BY <1>1, <1>2, <2>4, <3>4, <4>2
          <5>2. n + 1 \in 1 .. Len(q)
            BY <1>0, <2>3
          <5> QED
            BY <2>3, <5>1, <5>2
        <4> QED
          BY <4>1, <4>2
      <3> QED
        BY <3>2, <3>3, <3>4, Zenon DEF Tiles
    <2> QED
      BY <2>1, <2>3, <2>5
  <1> QED
    BY <1>4, <1>5

\* The pieces of a plan, slice by slice.
LEMMA PlanPiecesPath ==
    ASSUME NEW t \in Seq(Char), NEW answer, Plan(t, answer) \in Seq(SafeSlices(t))
    PROVE  \E h \in [0 .. Len(Plan(t, answer)) -> Seq(PieceSet(t))] :
              /\ h[0] = <<>> /\ h[Len(Plan(t, answer))] = PlanPieces(t, answer)
              /\ \A k \in 1 .. Len(Plan(t, answer)) : h[k] = AddPiece(t, h[k - 1], Plan(t, answer)[k])
  <1> DEFINE A == Seq(PieceSet(t))
             I == SafeSlices(t)
             op == [acc \in A |-> [x \in I |-> AddPiece(t, acc, x)]]
             Q(it) == it = [s \in SUBSET DOMAIN Plan(t, answer) |->
                              IF s = {} THEN <<>>
                              ELSE AddPiece(t, it[s \ {Max(s)}], Plan(t, answer)[Max(s)])]
             it == CHOOSE f : Q(f)
             next == [s \in SUBSET (1 .. Len(Plan(t, answer))) |-> AddPiece(t, it[s \ {Max(s)}], Plan(t, answer)[Max(s)])]
  <1>1. Len(Plan(t, answer)) \in Nat /\ DOMAIN Plan(t, answer) = 1 .. Len(Plan(t, answer)) /\ Plan(t, answer) \in [1 .. Len(Plan(t, answer)) -> I] /\ <<>> \in A
    BY LenProperties, EmptySeq
  <1>2. \A acc \in A, x \in I : AddPiece(t, acc, x) \in A
    BY TileOn
  <1>3. op \in [A -> [I -> A]]
    <2> HIDE DEF A, I
    <2> QED
      BY <1>2
  <1>4. \E f : Q(f)
    <2>1. PICK f : FoldUnfolded(A, I, <<>>, op, Plan(t, answer), f, Len(Plan(t, answer)))
      <3> HIDE DEF op, A, I
      <3> QED
        BY <1>1, <1>3, FoldSolution
    <2>2. /\ f = [s \in SUBSET (1 .. Len(Plan(t, answer))) |-> f[s]] /\ f[{}] = <<>>
          /\ \A s \in SUBSET (1 .. Len(Plan(t, answer))) : s # {} =>
                /\ Max(s) \in 1 .. Len(Plan(t, answer)) /\ Plan(t, answer)[Max(s)] \in I /\ f[s \ {Max(s)}] \in A
                /\ f[s] = op[f[s \ {Max(s)}]][Plan(t, answer)[Max(s)]]
      BY <2>1, Zenon DEF FoldUnfolded
    <2>3. \A s \in SUBSET (1 .. Len(Plan(t, answer))) :
             f[s] = IF s = {} THEN <<>> ELSE AddPiece(t, f[s \ {Max(s)}], Plan(t, answer)[Max(s)])
      <3> HIDE DEF A, I
      <3> QED
        BY <2>2
    <2>4. Q(f)
      BY <1>1, <2>2, <2>3
    <2> QED
      BY <2>4
  <1>5. Q(it)
    <2> HIDE DEF Q
    <2> QED
      BY <1>4, Zenon
  <1>6. PlanPieces(t, answer) = it[1 .. Len(Plan(t, answer))]
    <2>1. PlanPieces(t, answer) = it[DOMAIN Plan(t, answer)]
      BY Zenon DEF PlanPieces, AddPiece, FoldLeft, MapThenFoldSet
    <2> QED
      BY <1>1, <2>1, Zenon
  <1>7. it = [s \in SUBSET (1 .. Len(Plan(t, answer))) |-> IF s = {} THEN <<>> ELSE next[s]]
    <2> HIDE DEF it
    <2> QED
      BY <1>1, <1>5
  <1>8. NextIs(A, op, Plan(t, answer), it, next, Len(Plan(t, answer)))
    <2> HIDE DEF it
    <2> SUFFICES ASSUME NEW s \in SUBSET (1 .. Len(Plan(t, answer))), s # {}, it[s \ {Max(s)}] \in A
                 PROVE  next[s] = op[it[s \ {Max(s)}]][Plan(t, answer)[Max(s)]]
      BY DEF NextIs
    <2>1. Max(s) \in 1 .. Len(Plan(t, answer))
      BY <1>1, MaxUpTo
    <2>2. Plan(t, answer)[Max(s)] \in I
      BY <1>1, <2>1
    <2> HIDE DEF A, I
    <2> QED
      BY <2>2
  <1>9. PICK h \in [0 .. Len(Plan(t, answer)) -> A] : FoldRun(<<>>, op, Plan(t, answer), it, h, Len(Plan(t, answer)))
    <2> HIDE DEF A, I, op, it, next
    <2> QED
      BY <1>1, <1>3, <1>7, <1>8, FoldSolved
  <1>10. /\ h[0] = <<>> /\ h[Len(Plan(t, answer))] = it[1 .. Len(Plan(t, answer))]
         /\ \A k \in 1 .. Len(Plan(t, answer)) : h[k] = op[h[k - 1]][Plan(t, answer)[k]]
    BY <1>9, Zenon DEF FoldRun
  <1>11. \A k \in 1 .. Len(Plan(t, answer)) : h[k] = AddPiece(t, h[k - 1], Plan(t, answer)[k])
    <2> TAKE k \in 1 .. Len(Plan(t, answer))
    <2> HIDE DEF A, I, it
    <2>1. k - 1 \in 0 .. Len(Plan(t, answer))
      BY <1>1
    <2>2. h[k - 1] \in A /\ Plan(t, answer)[k] \in I
      BY <1>1, <1>9, <2>1
    <2> QED
      BY <1>10, <2>2
  <1> HIDE DEF it
  <1> QED
    BY <1>6, <1>9, <1>10, <1>11

\* The pieces of a plan hold all that is solid, in order.
LEMMA PlanPiecesAre ==
    ASSUME NEW t \in Seq(Char), NEW answer \in SUBSET (Int \X Int)
    PROVE  PlanPieces(t, answer) \in Seq(PieceSet(t)) /\ Tiles(t, PlanPieces(t, answer), Len(t))
  <1> DEFINE plan == Plan(t, answer)
             n == Len(plan)
  <1>1. plan \in Seq(Slices(Len(t))) /\ Follows(plan, Len(t)) /\ SafeStarts(t, plan)
    BY PlanIs
  <1> HIDE DEF plan
  <1>2. plan \in Seq(SafeSlices(t))
    <2>1. n \in Nat /\ plan \in [1 .. n -> Slices(Len(t))]
      BY <1>1, LenProperties
    <2>2. \A k \in 1 .. n : plan[k] \in SafeSlices(t)
      BY <1>1, <2>1 DEF SafeStarts, SafeSlices
    <2>3. plan \in [1 .. n -> SafeSlices(t)]
      BY <2>1, <2>2
    <2> QED
      BY <2>1, <2>3, TypedSeq
  <1>0. n \in Nat /\ Len(t) \in Nat /\ \A i \in Solid(t) : i \in 0 .. Len(t) - 1
    BY <1>1, SolidIs, LenProperties
  <1>3. PICK h \in [0 .. n -> Seq(PieceSet(t))] : /\ h[0] = <<>> /\ h[n] = PlanPieces(t, answer)
                                                  /\ \A k \in 1 .. n : h[k] = AddPiece(t, h[k - 1], plan[k])
    BY <1>2, PlanPiecesPath DEF plan
  <1> DEFINE T == {k \in 0 .. n : Tiles(t, h[k], EndBefore(plan, k + 1))}
  <1>4. 0 \in T
    <2>1. EndBefore(plan, 0 + 1) = 0
      BY DEF EndBefore
    <2>2. Tiles(t, <<>>, 0)
      BY <1>0 DEF Tiles
    <2> QED
      BY <1>0, <1>3, <2>1, <2>2
  <1>5. ASSUME NEW k \in 1 .. n, k - 1 \in T PROVE k \in T
    <2>1. k - 1 \in 0 .. n /\ k \in 0 .. n /\ k - 1 + 1 = k /\ k + 1 # 1 /\ k + 1 - 1 = k
      BY <1>0
    <2>2. Tiles(t, h[k - 1], plan[k][1])
      <3>1. Tiles(t, h[k - 1], EndBefore(plan, k))
        BY <1>5, <2>1
      <3> QED
        BY <1>1, <3>1 DEF Follows
    <2>3. plan[k] \in SafeSlices(t) /\ h[k - 1] \in Seq(PieceSet(t)) /\ h[k] = AddPiece(t, h[k - 1], plan[k])
      BY <1>2, <1>3, <2>1, ElementOfSeq
    <2>4. Tiles(t, h[k], plan[k][2])
      BY <2>2, <2>3, TileOn
    <2>5. EndBefore(plan, k + 1) = plan[k][2]
      BY <2>1 DEF EndBefore
    <2> QED
      BY <2>1, <2>4, <2>5
  <1>6. \A k \in 0 .. n : k \in T
    <2> HIDE DEF T
    <2> QED
      BY <1>0, <1>4, <1>5, UpTo, Zenon
  <1>7. n \in T
    <2>1. n \in 0 .. n
      BY <1>0
    <2> HIDE DEF T, n
    <2> QED
      BY <1>6, <2>1, Zenon
  <1>8. Tiles(t, h[n], Len(t)) /\ h[n] \in Seq(PieceSet(t))
    <2>1. EndBefore(plan, n + 1) = Len(t)
      BY <1>1 DEF Follows
    <2>2. n \in 0 .. n
      BY <1>0
    <2> QED
      BY <1>3, <1>7, <2>1, <2>2
  <1> QED
    BY <1>3, <1>8

---------------------------------------------------------------------------
(* The byte ranges of the chunks                                            *)

\* What find finds of a slice of the text: nothing, or a place in the text; the
\* slice itself is found when it is ahead.
LEMMA FindIs ==
    ASSUME NEW t \in Seq(Char), NEW s \in Slices(Len(t)), NEW from \in 0 .. Len(t)
    PROVE  LET piece == Slice(t, s[1], s[2])
               len == s[2] - s[1]
               f == Find(t, piece, from)
           IN  /\ f = -1 \/ (f \in from .. Len(t) - len /\ Slice(t, f, f + len) = piece)
               /\ from <= s[1] => f # -1 /\ f <= s[1]
  <1> DEFINE piece == Slice(t, s[1], s[2])
             len == s[2] - s[1]
             places == {i \in from .. Len(t) - len : Slice(t, i, i + len) = piece}
  <1>len. Len(t) \in Nat
    BY SolidIs, Zenon
  <1>0. Len(t) \in Nat /\ s[1] \in 0 .. Len(t) /\ s[2] \in s[1] .. Len(t) /\ s[1] + len = s[2]
    BY <1>len DEF Slices
  <1>1. Len(piece) = len
    BY <1>0, SliceIs
  <1>2. Find(t, piece, from) = IF places = {} THEN -1 ELSE Least(places)
    BY <1>1 DEF Find
  <1>3. places \in SUBSET (0 .. Len(t))
    <2>1. \A i \in from .. Len(t) - len : i \in 0 .. Len(t)
      BY <1>0
    <2> QED
      BY <2>1
  <1>4. places # {} => Least(places) \in places /\ \A y \in places : Least(places) <= y
    <2> HIDE DEF places
    <2> QED
      BY <1>0, <1>3, Ends
  <1>5. \A y \in places : y \in from .. Len(t) - len /\ y \in 0 .. Len(t) /\ Slice(t, y, y + len) = piece
    BY <1>3
  <1>6. from <= s[1] => s[1] \in places
    <2>1. from <= s[1] => s[1] \in from .. Len(t) - len
      BY <1>0
    <2> QED
      BY <1>0, <2>1
  <1>7. \A y \in places : y # -1
    BY <1>3
  <1> HIDE DEF places, piece, len
  <1>8. CASE places = {}
    BY <1>2, <1>6, <1>8 DEF piece, len
  <1>9. CASE places # {}
    <2> DEFINE f == Least(places)
    <2>1. f \in places /\ Find(t, piece, from) = f
      BY <1>2, <1>4, <1>9
    <2>2. from <= s[1] => f <= s[1]
      BY <1>4, <1>6, <1>9
    <2> HIDE DEF f
    <2> QED
      BY <1>5, <1>7, <2>1, <2>2, Zenon DEF piece, len
  <1> QED
    BY <1>8, <1>9

\* The range of a slice of the text lies in the text.
LEMMA RangeIs ==
    ASSUME NEW t \in Seq(Char), NEW s \in Slices(Len(t)), NEW cursor \in 0 .. Len(t)
    PROVE  RangeOf(t, Slice(t, s[1], s[2]), cursor) \in (0 .. Len(t)) \X (0 .. Len(t))
  <1> DEFINE piece == Slice(t, s[1], s[2])
             len == s[2] - s[1]
             f == Find(t, piece, cursor)
             g == Find(t, piece, 0)
             start == IF f = -1 THEN g ELSE f
  <1>len. Len(t) \in Nat
    BY SolidIs, Zenon
  <1>0. Len(t) \in Nat /\ s[1] \in 0 .. Len(t) /\ s[2] \in s[1] .. Len(t) /\ len \in Nat
    BY <1>len DEF Slices
  <1>1. f = -1 \/ f \in cursor .. Len(t) - len
    BY FindIs
  <1>2. g # -1 /\ g \in 0 .. Len(t) - len
    <2>1. 0 \in 0 .. Len(t) /\ 0 <= s[1]
      BY <1>0
    <2>2. /\ g = -1 \/ g \in 0 .. Len(t) - len
          /\ 0 <= s[1] => g # -1
      BY <2>1, FindIs
    <2> QED
      BY <2>1, <2>2
  <1>3. Len(piece) = len
    BY <1>0, SliceIs
  <1>4. RangeOf(t, piece, cursor) = <<start, start + len>>
    BY <1>3 DEF RangeOf
  <1> HIDE DEF f, g, piece, len
  <1>5. start \in 0 .. Len(t) - len
    BY <1>0, <1>1, <1>2
  <1> HIDE DEF start
  <1>6. start \in 0 .. Len(t) /\ start + len \in 0 .. Len(t)
    BY <1>0, <1>5
  <1> QED
    BY <1>4, <1>6 DEF piece

\* The state after some chunks, the chunk of one more slice, and all of them.
Parted(g, t) == [cursor : 0 .. Len(t), parts : Seq([doc : {g[1].doc}, piece : Seq(Char), at : Nat \X Nat])]

NextPart(g, t, acc, s) ==
    LET at == RangeOf(t, Slice(t, s[1], s[2]), acc.cursor) IN
    [cursor |-> at[2], parts |-> Append(acc.parts, MakeChunk(g, Slice(t, s[1], s[2]), at))]

AllParts(g, t, slices) ==
    FoldLeft(LAMBDA acc, s :
               LET at == RangeOf(t, Slice(t, s[1], s[2]), acc.cursor) IN
               [cursor |-> at[2],
                parts |-> Append(acc.parts, MakeChunk(g, Slice(t, s[1], s[2]), at))],
             [cursor |-> 0, parts |-> <<>>], slices)

\* What one more chunk adds.
OneMorePart(t, acc, s, next) ==
    /\ next.cursor = RangeOf(t, Slice(t, s[1], s[2]), acc.cursor)[2]
    /\ Len(next.parts) = Len(acc.parts) + 1
    /\ next.parts[Len(acc.parts) + 1].at = RangeOf(t, Slice(t, s[1], s[2]), acc.cursor)
    /\ \A k \in 1 .. Len(acc.parts) : next.parts[k] = acc.parts[k]

\* h runs over the slices from the first to the last.
PartsRun(g, t, slices, h, n) ==
    /\ h[0] = [cursor |-> 0, parts |-> <<>>] /\ h[n] = AllParts(g, t, slices)
    /\ \A k \in 1 .. n : h[k] = NextPart(g, t, h[k - 1], slices[k])

\* One more chunk.
LEMMA NextPartIs ==
    ASSUME NEW G, NEW g \in G, NEW t \in Seq(Char), NEW acc \in Parted(g, t), NEW s \in Slices(Len(t))
    PROVE  NextPart(g, t, acc, s) \in Parted(g, t) /\ OneMorePart(t, acc, s, NextPart(g, t, acc, s))
  <1> DEFINE C == [doc : {g[1].doc}, piece : Seq(Char), at : Nat \X Nat]
             piece == Slice(t, s[1], s[2])
             at == RangeOf(t, piece, acc.cursor)
             c == MakeChunk(g, piece, at)
             ps == acc.parts
             q == Append(ps, c)
  <1>len. Len(t) \in Nat
    BY SolidIs, Zenon
  <1>0. Len(t) \in Nat /\ s[1] \in 0 .. Len(t) /\ s[2] \in s[1] .. Len(t)
    BY <1>len DEF Slices
  <1>1. acc.cursor \in 0 .. Len(t) /\ ps \in Seq(C)
    BY DEF Parted
  <1>2. piece \in Seq(Char)
    BY <1>0, SliceIs
  <1>3. at \in (0 .. Len(t)) \X (0 .. Len(t))
    BY <1>1, RangeIs
  <1>4. at \in Nat \X Nat /\ at[2] \in 0 .. Len(t)
    <2> HIDE DEF at
    <2> QED
      BY <1>0, <1>3
  <1>5. c \in C /\ c.at = at
    <2> HIDE DEF at, piece
    <2> QED
      BY <1>2, <1>4 DEF MakeChunk
  <1>6. NextPart(g, t, acc, s) = [cursor |-> at[2], parts |-> q]
    BY DEF NextPart
  <1> HIDE DEF at, c, C, ps
  <1>7. /\ q \in Seq(C) /\ Len(q) = Len(ps) + 1 /\ q[Len(ps) + 1] = c
        /\ \A k \in 1 .. Len(ps) : q[k] = ps[k]
    BY <1>1, <1>5, AppendProperties
  <1> HIDE DEF q
  <1>8. NextPart(g, t, acc, s).cursor = at[2] /\ NextPart(g, t, acc, s).parts = q
    BY <1>6
  <1>9. NextPart(g, t, acc, s) \in Parted(g, t)
    BY <1>4, <1>6, <1>7 DEF Parted, C
  <1> QED
    BY <1>5, <1>7, <1>8, <1>9 DEF OneMorePart, at, ps, piece

\* Before the first chunk.
LEMMA StartParted ==
    ASSUME NEW G, NEW g \in G, NEW t \in Seq(Char)
    PROVE  [cursor |-> 0, parts |-> <<>>] \in Parted(g, t)
  <1>0. Len(t) \in Nat
    BY SolidIs, Zenon
  <1>1. 0 \in 0 .. Len(t) /\ <<>> \in Seq([doc : {g[1].doc}, piece : Seq(Char), at : Nat \X Nat])
    BY <1>0, EmptySeq
  <1> QED
    BY <1>1 DEF Parted

\* The chunks of a block, slice by slice.
LEMMA PartsPath ==
    ASSUME NEW G, NEW g \in G, NEW t \in Seq(Char), NEW slices \in Seq(Slices(Len(t)))
    PROVE  \E h \in [0 .. Len(slices) -> Parted(g, t)] : PartsRun(g, t, slices, h, Len(slices))
  <1> DEFINE A == Parted(g, t)
             I == Slices(Len(t))
             op == [acc \in A |-> [x \in I |-> NextPart(g, t, acc, x)]]
             Q(it) == it = [s \in SUBSET DOMAIN slices |->
                              IF s = {} THEN [cursor |-> 0, parts |-> <<>>]
                              ELSE NextPart(g, t, it[s \ {Max(s)}], slices[Max(s)])]
             it == CHOOSE f : Q(f)
             next == [s \in SUBSET (1 .. Len(slices)) |-> NextPart(g, t, it[s \ {Max(s)}], slices[Max(s)])]
  <1>1. Len(slices) \in Nat /\ DOMAIN slices = 1 .. Len(slices) /\ slices \in [1 .. Len(slices) -> I] /\ [cursor |-> 0, parts |-> <<>>] \in A
    BY LenProperties, StartParted
  <1>2. \A acc \in A, x \in I : NextPart(g, t, acc, x) \in A
    BY NextPartIs
  <1>3. op \in [A -> [I -> A]]
    <2> HIDE DEF A, I
    <2> QED
      BY <1>2
  <1>4. \E f : Q(f)
    <2>1. PICK f : FoldUnfolded(A, I, [cursor |-> 0, parts |-> <<>>], op, slices, f, Len(slices))
      <3> HIDE DEF op, A, I
      <3> QED
        BY <1>1, <1>3, FoldSolution
    <2>2. /\ f = [s \in SUBSET (1 .. Len(slices)) |-> f[s]] /\ f[{}] = [cursor |-> 0, parts |-> <<>>]
          /\ \A s \in SUBSET (1 .. Len(slices)) : s # {} =>
                /\ Max(s) \in 1 .. Len(slices) /\ slices[Max(s)] \in I /\ f[s \ {Max(s)}] \in A
                /\ f[s] = op[f[s \ {Max(s)}]][slices[Max(s)]]
      BY <2>1, Zenon DEF FoldUnfolded
    <2>3. \A s \in SUBSET (1 .. Len(slices)) :
             f[s] = IF s = {} THEN [cursor |-> 0, parts |-> <<>>] ELSE NextPart(g, t, f[s \ {Max(s)}], slices[Max(s)])
      <3> HIDE DEF A, I
      <3> QED
        BY <2>2
    <2>4. Q(f)
      BY <1>1, <2>2, <2>3
    <2> QED
      BY <2>4
  <1>5. Q(it)
    <2> HIDE DEF Q
    <2> QED
      BY <1>4, Zenon
  <1>6. AllParts(g, t, slices) = it[1 .. Len(slices)]
    <2>1. AllParts(g, t, slices) = it[DOMAIN slices]
      BY Zenon DEF AllParts, NextPart, FoldLeft, MapThenFoldSet
    <2> QED
      BY <1>1, <2>1, Zenon
  <1>7. it = [s \in SUBSET (1 .. Len(slices)) |-> IF s = {} THEN [cursor |-> 0, parts |-> <<>>] ELSE next[s]]
    <2> HIDE DEF it
    <2> QED
      BY <1>1, <1>5
  <1>8. NextIs(A, op, slices, it, next, Len(slices))
    <2> HIDE DEF it
    <2> SUFFICES ASSUME NEW s \in SUBSET (1 .. Len(slices)), s # {}, it[s \ {Max(s)}] \in A
                 PROVE  next[s] = op[it[s \ {Max(s)}]][slices[Max(s)]]
      BY DEF NextIs
    <2>1. Max(s) \in 1 .. Len(slices)
      BY <1>1, MaxUpTo
    <2>2. slices[Max(s)] \in I
      BY <1>1, <2>1
    <2> HIDE DEF A, I
    <2> QED
      BY <2>2
  <1>9. PICK h \in [0 .. Len(slices) -> A] : FoldRun([cursor |-> 0, parts |-> <<>>], op, slices, it, h, Len(slices))
    <2> HIDE DEF A, I, op, it, next
    <2> QED
      BY <1>1, <1>3, <1>7, <1>8, FoldSolved
  <1>10. /\ h[0] = [cursor |-> 0, parts |-> <<>>] /\ h[Len(slices)] = it[1 .. Len(slices)]
         /\ \A k \in 1 .. Len(slices) : h[k] = op[h[k - 1]][slices[k]]
    BY <1>9, Zenon DEF FoldRun
  <1>11. \A k \in 1 .. Len(slices) : h[k] = NextPart(g, t, h[k - 1], slices[k])
    <2> TAKE k \in 1 .. Len(slices)
    <2> HIDE DEF A, I, it
    <2>1. k - 1 \in 0 .. Len(slices)
      BY <1>1
    <2>2. h[k - 1] \in A /\ slices[k] \in I
      BY <1>1, <1>9, <2>1
    <2> QED
      BY <1>10, <2>2
  <1>12. PartsRun(g, t, slices, h, Len(slices))
    <2> HIDE DEF it
    <2> QED
      BY <1>6, <1>10, <1>11, Zenon DEF PartsRun
  <1> QED
    BY <1>9, <1>12

\* The chunks of a block.
LEMMA PartsAre ==
    ASSUME NEW G, NEW g \in G, NEW t \in Seq(Char), NEW slices \in Seq(Slices(Len(t)))
    PROVE  Parts(g, t, slices) \in Seq([doc : {g[1].doc}, piece : Seq(Char), at : Nat \X Nat])
  <1> DEFINE n == Len(slices)
  <1>1. n \in 0 .. n
    BY LenProperties
  <1>2. PICK h \in [0 .. n -> Parted(g, t)] : h[n] = AllParts(g, t, slices)
    BY PartsPath, Zenon DEF PartsRun
  <1>3. AllParts(g, t, slices) \in Parted(g, t)
    <2> HIDE DEF n
    <2> QED
      BY <1>1, <1>2
  <1>4. Parts(g, t, slices) = AllParts(g, t, slices).parts
    BY Zenon DEF Parts, AllParts
  <1> QED
    BY <1>3, <1>4 DEF Parted

\* A piece with nothing solid between the search and itself is found where it was cut.
LEMMA FoundWhereCut ==
    ASSUME NEW t \in Seq(Char), NEW s \in PieceSet(t), NEW cursor \in 0 .. Len(t), cursor <= s[1],
           \A i \in Solid(t) : ~ (cursor <= i /\ i < s[1])
    PROVE  RangeOf(t, Slice(t, s[1], s[2]), cursor) = s
  <1> DEFINE piece == Slice(t, s[1], s[2])
             len == s[2] - s[1]
             f == Find(t, piece, cursor)
  <1>0. /\ Len(t) \in Nat /\ s[1] \in 0 .. Len(t) /\ s[2] \in s[1] .. Len(t) /\ s[1] < s[2]
        /\ s = <<s[1], s[2]>> /\ s \in Slices(Len(t)) /\ s[1] \in Solid(t)
    <2>1. Len(t) \in Nat
      BY SolidIs, Zenon
    <2> QED
      BY <2>1 DEF PieceSet, Slices
  <1>1. f # -1 /\ f <= s[1] /\ f \in cursor .. Len(t) - len /\ Slice(t, f, f + len) = piece
    BY <1>0, FindIs
  <1>2. /\ Len(piece) = len
        /\ \A i \in 1 .. len : piece[i] = t[s[1] + i]
    BY <1>0, SliceIs
  <1>3. RangeOf(t, piece, cursor) = <<f, f + len>>
    BY <1>1, <1>2 DEF RangeOf
  <1> HIDE DEF f, piece
  <1>4. f \in 0 .. Len(t) /\ f + len \in f .. Len(t) /\ f + len - f = len /\ 1 \in 1 .. len
    BY <1>0, <1>1
  <1>5. PICK e \in f .. Len(t) : e = f + len
    BY <1>4
  <1>6. t[f + 1] = t[s[1] + 1]
    <2>1. \A i \in 1 .. e - f : Slice(t, f, e)[i] = t[f + i]
      BY <1>4, SliceIs
    <2>2. e - f = len /\ Slice(t, f, e) = piece
      BY <1>0, <1>1, <1>4, <1>5
    <2>3. piece[1] = t[f + 1]
      BY <1>4, <2>1, <2>2, Zenon
    <2>4. piece[1] = t[s[1] + 1]
      BY <1>2, <1>4, Zenon
    <2> QED
      BY <2>3, <2>4
  <1>7. t[s[1] + 1] # " "
    BY <1>0, SolidIs
  <1>8. f \in 0 .. Len(t) - 1
    BY <1>0, <1>1
  <1>9. f \in Solid(t)
    BY <1>6, <1>7, <1>8, SolidIs
  <1>10. f = s[1]
    BY <1>0, <1>1, <1>9
  <1>11. f + len = s[2]
    BY <1>0, <1>10
  <1> QED
    BY <1>0, <1>3, <1>10, <1>11 DEF piece

\* The chunks of a block of one window are where they were cut.
LEMMA TrueRanges ==
    ASSUME NEW G, NEW g \in G, NEW t \in Seq(Char), NEW ps \in Seq(PieceSet(t)), Tiles(t, ps, Len(t))
    PROVE  \A k \in 1 .. Len(ps) : Parts(g, t, ps)[k].at = ps[k]
  <1> DEFINE n == Len(ps)
  <1>0. n \in Nat /\ Len(t) \in Nat /\ \A i \in Solid(t) : i \in 0 .. Len(t) - 1
    BY SolidIs, LenProperties
  <1>1. /\ \A j, k \in 1 .. n : j < k => ps[j][2] <= ps[k][1]
        /\ \A i \in Solid(t) : i < Len(t) => \E k \in 1 .. n : ps[k][1] <= i /\ i < ps[k][2]
    BY Zenon DEF Tiles
  <1>2. \A k \in 1 .. n : /\ ps[k] \in PieceSet(t) /\ ps[k] \in Slices(Len(t)) /\ ps[k][1] < ps[k][2]
                          /\ ps[k][1] \in 0 .. Len(t) /\ ps[k][2] \in 0 .. Len(t)
    <2> TAKE k \in 1 .. n
    <2>1. ps[k] \in PieceSet(t)
      BY ElementOfSeq
    <2> QED
      BY <2>1 DEF PieceSet, Slices
  <1>3. ps \in Seq(Slices(Len(t)))
    <2>1. ps \in [1 .. n -> Slices(Len(t))]
      <3>1. ps \in [1 .. n -> PieceSet(t)]
        BY LenProperties
      <3> QED
        BY <1>2, <3>1
    <2> QED
      BY <1>0, <2>1, TypedSeq
  <1>4. PICK h \in [0 .. n -> Parted(g, t)] :
            /\ h[0] = [cursor |-> 0, parts |-> <<>>] /\ h[n] = AllParts(g, t, ps)
            /\ \A k \in 1 .. n : h[k] = NextPart(g, t, h[k - 1], ps[k])
    <2>1. \E r \in [0 .. Len(ps) -> Parted(g, t)] : PartsRun(g, t, ps, r, Len(ps))
      BY <1>3, PartsPath, Zenon
    <2> QED
      BY <2>1, Zenon DEF PartsRun
  <1>5. ASSUME NEW k \in 1 .. n
        PROVE  /\ EndBefore(ps, k) \in 0 .. Len(t) /\ EndBefore(ps, k) <= ps[k][1]
               /\ \A i \in Solid(t) : ~ (EndBefore(ps, k) <= i /\ i < ps[k][1])
    <2> DEFINE e == EndBefore(ps, k)
    <2>1. e \in 0 .. Len(t) /\ e <= ps[k][1] /\ \A j \in 1 .. n : j < k => ps[j][2] <= e
      <3>1. CASE k = 1
        BY <1>0, <1>2, <3>1 DEF EndBefore
      <3>2. CASE k # 1
        <4>1. k - 1 \in 1 .. n /\ k - 1 < k /\ e = ps[k - 1][2]
          BY <1>0, <3>2 DEF EndBefore
        <4>2. e \in 0 .. Len(t) /\ e <= ps[k][1]
          BY <1>1, <1>2, <4>1, Zenon
        <4>3. ASSUME NEW j \in 1 .. n, j < k PROVE ps[j][2] <= e
          <5>1. CASE j = k - 1
            BY <1>2, <4>1, <4>2, <5>1
          <5>2. CASE j # k - 1
            <6>1. j < k - 1
              BY <1>0, <4>3, <5>2
            <6>2. ps[j][2] <= ps[k - 1][1]
              BY <1>1, <4>1, <6>1
            <6> QED
              BY <1>2, <4>1, <6>2
          <5> QED
            BY <5>1, <5>2
        <4> QED
          BY <4>2, <4>3
      <3> QED
        BY <3>1, <3>2
    <2> HIDE DEF e
    <2>2. ASSUME NEW i \in Solid(t), e <= i, i < ps[k][1] PROVE FALSE
      <3>1. i < Len(t) /\ i \in Int
        BY <1>0
      <3>2. PICK j \in 1 .. n : ps[j][1] <= i /\ i < ps[j][2]
        BY <1>1, <3>1
      <3>3. /\ ps[j][1] \in Int /\ ps[j][2] \in Int /\ ps[k][1] \in Int /\ ps[k][2] \in Int /\ e \in Int
            /\ ps[j][1] < ps[j][2] /\ ps[k][1] < ps[k][2]
        BY <1>2, <2>1
      <3>4. CASE j < k
        BY <2>1, <2>2, <3>1, <3>2, <3>3, <3>4
      <3>5. CASE j = k
        BY <2>2, <3>1, <3>2, <3>3, <3>5
      <3>6. CASE j > k
        <4>1. ps[k][2] <= ps[j][1]
          BY <1>1, <3>6
        <4> QED
          BY <2>2, <3>1, <3>2, <3>3, <4>1
      <3> QED
        BY <1>0, <3>4, <3>5, <3>6
    <2> QED
      BY <2>1, <2>2 DEF e
  <1> DEFINE T == {k \in 0 .. n : /\ h[k].cursor = EndBefore(ps, k + 1) /\ Len(h[k].parts) = k
                                  /\ \A j \in 1 .. k : h[k].parts[j].at = ps[j]}
  <1>6. 0 \in T
    <2>1. EndBefore(ps, 0 + 1) = 0
      BY DEF EndBefore
    <2>2. h[0].cursor = 0 /\ Len(h[0].parts) = 0
      BY <1>4
    <2> QED
      BY <1>0, <2>1, <2>2
  <1>7. ASSUME NEW k \in 1 .. n, k - 1 \in T PROVE k \in T
    <2>1. k - 1 \in 0 .. n /\ k \in 0 .. n /\ k - 1 + 1 = k /\ k + 1 # 1 /\ k + 1 - 1 = k
      BY <1>0
    <2>2. h[k - 1] \in Parted(g, t) /\ h[k] = NextPart(g, t, h[k - 1], ps[k])
      BY <1>4, <2>1
    <2>3. /\ h[k - 1].cursor = EndBefore(ps, k) /\ Len(h[k - 1].parts) = k - 1
          /\ \A j \in 1 .. k - 1 : h[k - 1].parts[j].at = ps[j]
      BY <1>7, <2>1
    <2>4. RangeOf(t, Slice(t, ps[k][1], ps[k][2]), h[k - 1].cursor) = ps[k]
      BY <1>2, <1>5, <2>3, FoundWhereCut
    <2>5. /\ h[k].cursor = ps[k][2] /\ Len(h[k].parts) = k - 1 + 1 /\ h[k].parts[k - 1 + 1].at = ps[k]
          /\ \A j \in 1 .. k - 1 : h[k].parts[j] = h[k - 1].parts[j]
      <3>1. ps[k] \in Slices(Len(t))
        BY <1>2
      <3>2. /\ h[k].cursor = RangeOf(t, Slice(t, ps[k][1], ps[k][2]), h[k - 1].cursor)[2]
            /\ Len(h[k].parts) = Len(h[k - 1].parts) + 1
            /\ h[k].parts[Len(h[k - 1].parts) + 1].at = RangeOf(t, Slice(t, ps[k][1], ps[k][2]), h[k - 1].cursor)
            /\ \A j \in 1 .. Len(h[k - 1].parts) : h[k].parts[j] = h[k - 1].parts[j]
        <4>1. OneMorePart(t, h[k - 1], ps[k], NextPart(g, t, h[k - 1], ps[k]))
          BY <2>2, <3>1, NextPartIs, Zenon
        <4> QED
          BY <2>2, <4>1, Zenon DEF OneMorePart
      <3> QED
        BY <2>3, <2>4, <3>2, Zenon
    <2>6. EndBefore(ps, k + 1) = ps[k][2]
      BY <2>1 DEF EndBefore
    <2>7. ASSUME NEW j \in 1 .. k PROVE h[k].parts[j].at = ps[j]
      <3>1. CASE j = k
        BY <2>1, <2>5, <3>1
      <3>2. CASE j # k
        <4>1. j \in 1 .. k - 1
          BY <1>0, <3>2
        <4> QED
          BY <2>3, <2>5, <4>1, Zenon
      <3> QED
        BY <3>1, <3>2
    <2> QED
      BY <2>1, <2>5, <2>6, <2>7
  <1>8. \A k \in 0 .. n : k \in T
    <2> HIDE DEF T
    <2> QED
      BY <1>0, <1>6, <1>7, UpTo, Zenon
  <1>9. n \in T
    <2>1. n \in 0 .. n
      BY <1>0
    <2> HIDE DEF T, n
    <2> QED
      BY <1>8, <2>1, Zenon
  <1>10. \A j \in 1 .. n : AllParts(g, t, ps).parts[j].at = ps[j]
    BY <1>4, <1>9
  <1>11. Parts(g, t, ps) = AllParts(g, t, ps).parts
    BY Zenon DEF Parts, AllParts
  <1> QED
    BY <1>10, <1>11

---------------------------------------------------------------------------
(* The pieces of several windows                                            *)

\* A piece of a window as a slice of the text, and the text of a slice.
Shift(w, r) == <<w[1] + r[1], w[1] + r[2]>>
Norm(t, s) == Normal(Slice(t, s[1], s[2]))

\* Every text that has been seen is that of a piece.
Keepings(t) ==
    {acc \in [pieces : Seq(Slices(Len(t))), seen : SUBSET {Norm(t, s) : s \in Slices(Len(t))}] :
       \A v \in acc.seen : \E p \in 1 .. Len(acc.pieces) : Norm(t, acc.pieces[p]) = v}

\* One more piece of a window.
AddOne(t, w, windowed, acc, r) ==
    IF windowed /\ Norm(t, Shift(w, r)) \in acc.seen THEN acc
    ELSE [pieces |-> Append(acc.pieces, Shift(w, r)), seen |-> acc.seen \cup {Norm(t, Shift(w, r))}]

\* Pieces are never taken back, and the text of s is that of one of them.
Takes(t, new, old, s) ==
    /\ Len(old.pieces) <= Len(new.pieces)
    /\ \A p \in 1 .. Len(old.pieces) : new.pieces[p] = old.pieces[p]
    /\ \E p \in 1 .. Len(new.pieces) : Norm(t, new.pieces[p]) = Norm(t, s)

\* A piece of a window is a slice of the text.
LEMMA ShiftIs ==
    ASSUME NEW t \in Seq(Char), NEW w \in Slices(Len(t)), NEW r \in Slices(w[2] - w[1])
    PROVE  Shift(w, r) \in Slices(Len(t))
  <1>0. Len(t) \in Nat
    BY SolidIs, Zenon
  <1>1. w[1] \in 0 .. Len(t) /\ w[2] \in 0 .. Len(t) /\ w[1] <= w[2]
    BY <1>0 DEF Slices
  <1>2. r[1] \in 0 .. w[2] - w[1] /\ r[2] \in 0 .. w[2] - w[1] /\ r[1] <= r[2]
    BY <1>1 DEF Slices
  <1>3. w[1] + r[1] \in 0 .. Len(t) /\ w[1] + r[2] \in 0 .. Len(t) /\ w[1] + r[1] <= w[1] + r[2]
    BY <1>0, <1>1, <1>2
  <1> QED
    BY <1>3 DEF Shift, Slices

\* One more piece.
LEMMA AddOneIs ==
    ASSUME NEW t \in Seq(Char), NEW w \in Slices(Len(t)), NEW windowed,
           NEW acc \in Keepings(t), NEW r \in Slices(w[2] - w[1])
    PROVE  AddOne(t, w, windowed, acc, r) \in Keepings(t) /\ Takes(t, AddOne(t, w, windowed, acc, r), acc, Shift(w, r))
  <1> DEFINE s == Shift(w, r)
             S == Slices(Len(t))
             ps == acc.pieces
             q == Append(ps, s)
             norms == {Norm(t, x) : x \in S}
             new == AddOne(t, w, windowed, acc, r)
  <1>1. s \in S
    BY ShiftIs
  <1>2. /\ ps \in Seq(S) /\ acc.seen \in SUBSET norms /\ acc \in Keepings(t)
        /\ \A v \in acc.seen : \E p \in 1 .. Len(ps) : Norm(t, ps[p]) = v
    BY DEF Keepings
  <1>3. Len(ps) \in Nat
    BY <1>2, LenProperties
  <1> HIDE DEF s, S, ps, norms
  <1>4. CASE windowed /\ Norm(t, s) \in acc.seen
    <2>1. new = acc
      BY <1>4 DEF AddOne, s
    <2>2. \E p \in 1 .. Len(ps) : Norm(t, ps[p]) = Norm(t, s)
      BY <1>2, <1>4, Zenon
    <2> HIDE DEF new
    <2>3. Takes(t, new, acc, s)
      BY <1>3, <2>1, <2>2 DEF Takes, ps
    <2> QED
      BY <1>2, <2>1, <2>3 DEF new, s
  <1>5. CASE ~ (windowed /\ Norm(t, s) \in acc.seen)
    <2>1. new = [pieces |-> q, seen |-> acc.seen \cup {Norm(t, s)}]
      BY <1>5, Zenon DEF AddOne, s, q, ps
    <2>2. /\ q \in Seq(S) /\ Len(q) = Len(ps) + 1 /\ q[Len(ps) + 1] = s
          /\ \A k \in 1 .. Len(ps) : q[k] = ps[k]
      BY <1>1, <1>2, AppendProperties
    <2>3. Norm(t, s) \in norms
      BY <1>1, Zenon DEF norms
    <2> HIDE DEF new, q
    <2>4. \A p \in 1 .. Len(ps) : p \in 1 .. Len(q)
      BY <1>3, <2>2
    <2>5. Len(ps) + 1 \in 1 .. Len(q) /\ Len(ps) <= Len(q)
      BY <1>3, <2>2
    <2>6. \E p \in 1 .. Len(q) : Norm(t, q[p]) = Norm(t, s)
      BY <2>2, <2>5, Zenon
    <2>7. ASSUME NEW v \in acc.seen \cup {Norm(t, s)}
          PROVE  \E p \in 1 .. Len(q) : Norm(t, q[p]) = v
      <3>1. CASE v \in acc.seen
        <4>1. PICK p \in 1 .. Len(ps) : Norm(t, ps[p]) = v
          BY <1>2, <3>1, Zenon
        <4> QED
          BY <2>2, <2>4, <4>1, Zenon
      <3>2. CASE v \notin acc.seen
        <4>1. v = Norm(t, s)
          BY <2>7, <3>2, Zenon
        <4> QED
          BY <2>6, <4>1
      <3> QED
        BY <3>1, <3>2
    <2>8. new.pieces = q /\ new.seen = acc.seen \cup {Norm(t, s)}
      BY <2>1
    <2>9. new \in Keepings(t)
      <3>1. acc.seen \cup {Norm(t, s)} \in SUBSET norms
        BY <1>2, <2>3, Zenon
      <3>2. new \in [pieces : Seq(S), seen : SUBSET norms]
        BY <2>1, <2>2, <3>1
      <3>3. \A v \in new.seen : \E p \in 1 .. Len(new.pieces) : Norm(t, new.pieces[p]) = v
        BY <2>7, <2>8, Zenon
      <3> QED
        BY <3>2, <3>3, Zenon DEF Keepings, S, norms
    <2>10. Takes(t, new, acc, s)
      BY <2>2, <2>5, <2>6, <2>8, Zenon DEF Takes, ps
    <2> QED
      BY <2>9, <2>10 DEF new, s
  <1> QED
    BY <1>4, <1>5

\* h adds the pieces of a window, one after the other.
AddRun(w, fresh, windowed, h, n) ==
    /\ h[0] = [pieces |-> pieces, seen |-> seen] /\ h[n] = AddPieces(w, fresh, windowed)
    /\ \A k \in 1 .. n : h[k] = AddOne(text, w, windowed, h[k - 1], fresh[k])

LEMMA AddPiecesPath ==
    ASSUME text \in Seq(Char), NEW w \in Slices(Len(text)), NEW windowed, NEW fresh \in Seq(Slices(w[2] - w[1])),
           [pieces |-> pieces, seen |-> seen] \in Keepings(text)
    PROVE  \E h \in [0 .. Len(fresh) -> Keepings(text)] : AddRun(w, fresh, windowed, h, Len(fresh))
  <1> DEFINE A == Keepings(text)
             I == Slices(w[2] - w[1])
             op == [acc \in A |-> [x \in I |-> AddOne(text, w, windowed, acc, x)]]
             Q(it) == it = [s \in SUBSET DOMAIN fresh |->
                              IF s = {} THEN [pieces |-> pieces, seen |-> seen]
                              ELSE AddOne(text, w, windowed, it[s \ {Max(s)}], fresh[Max(s)])]
             it == CHOOSE f : Q(f)
             next == [s \in SUBSET (1 .. Len(fresh)) |-> AddOne(text, w, windowed, it[s \ {Max(s)}], fresh[Max(s)])]
  <1>1. Len(fresh) \in Nat /\ DOMAIN fresh = 1 .. Len(fresh) /\ fresh \in [1 .. Len(fresh) -> I] /\ [pieces |-> pieces, seen |-> seen] \in A
    BY LenProperties
  <1>2. \A acc \in A, x \in I : AddOne(text, w, windowed, acc, x) \in A
    BY AddOneIs
  <1>3. op \in [A -> [I -> A]]
    <2> HIDE DEF A, I
    <2> QED
      BY <1>2
  <1>4. \E f : Q(f)
    <2>1. PICK f : FoldUnfolded(A, I, [pieces |-> pieces, seen |-> seen], op, fresh, f, Len(fresh))
      <3> HIDE DEF op, A, I
      <3> QED
        BY <1>1, <1>3, FoldSolution
    <2>2. /\ f = [s \in SUBSET (1 .. Len(fresh)) |-> f[s]] /\ f[{}] = [pieces |-> pieces, seen |-> seen]
          /\ \A s \in SUBSET (1 .. Len(fresh)) : s # {} =>
                /\ Max(s) \in 1 .. Len(fresh) /\ fresh[Max(s)] \in I /\ f[s \ {Max(s)}] \in A
                /\ f[s] = op[f[s \ {Max(s)}]][fresh[Max(s)]]
      BY <2>1, Zenon DEF FoldUnfolded
    <2>3. \A s \in SUBSET (1 .. Len(fresh)) :
             f[s] = IF s = {} THEN [pieces |-> pieces, seen |-> seen] ELSE AddOne(text, w, windowed, f[s \ {Max(s)}], fresh[Max(s)])
      <3> HIDE DEF A, I
      <3> QED
        BY <2>2
    <2>4. Q(f)
      BY <1>1, <2>2, <2>3
    <2> QED
      BY <2>4
  <1>5. Q(it)
    <2> HIDE DEF Q
    <2> QED
      BY <1>4, Zenon
  <1>6. AddPieces(w, fresh, windowed) = it[1 .. Len(fresh)]
    <2>1. AddPieces(w, fresh, windowed) = it[DOMAIN fresh]
      BY Zenon DEF AddPieces, AddOne, Norm, Shift, FoldLeft, MapThenFoldSet
    <2> QED
      BY <1>1, <2>1, Zenon
  <1>7. it = [s \in SUBSET (1 .. Len(fresh)) |-> IF s = {} THEN [pieces |-> pieces, seen |-> seen] ELSE next[s]]
    <2> HIDE DEF it
    <2> QED
      BY <1>1, <1>5
  <1>8. NextIs(A, op, fresh, it, next, Len(fresh))
    <2> HIDE DEF it
    <2> SUFFICES ASSUME NEW s \in SUBSET (1 .. Len(fresh)), s # {}, it[s \ {Max(s)}] \in A
                 PROVE  next[s] = op[it[s \ {Max(s)}]][fresh[Max(s)]]
      BY DEF NextIs
    <2>1. Max(s) \in 1 .. Len(fresh)
      BY <1>1, MaxUpTo
    <2>2. fresh[Max(s)] \in I
      BY <1>1, <2>1
    <2> HIDE DEF A, I
    <2> QED
      BY <2>2
  <1>9. PICK h \in [0 .. Len(fresh) -> A] : FoldRun([pieces |-> pieces, seen |-> seen], op, fresh, it, h, Len(fresh))
    <2> HIDE DEF A, I, op, it, next
    <2> QED
      BY <1>1, <1>3, <1>7, <1>8, FoldSolved
  <1>10. /\ h[0] = [pieces |-> pieces, seen |-> seen] /\ h[Len(fresh)] = it[1 .. Len(fresh)]
         /\ \A k \in 1 .. Len(fresh) : h[k] = op[h[k - 1]][fresh[k]]
    BY <1>9, Zenon DEF FoldRun
  <1>11. \A k \in 1 .. Len(fresh) : h[k] = AddOne(text, w, windowed, h[k - 1], fresh[k])
    <2> TAKE k \in 1 .. Len(fresh)
    <2> HIDE DEF A, I, it
    <2>1. k - 1 \in 0 .. Len(fresh)
      BY <1>1
    <2>2. h[k - 1] \in A /\ fresh[k] \in I
      BY <1>1, <1>9, <2>1
    <2> QED
      BY <1>10, <2>2
  <1>12. AddRun(w, fresh, windowed, h, Len(fresh))
    <2> HIDE DEF it
    <2> QED
      BY <1>6, <1>10, <1>11, Zenon DEF AddRun
  <1> QED
    BY <1>9, <1>12

\* Nothing is taken back, and each of the first n pieces of a window is there or
\* reads like one that is.
Extends(t, new, old, w, fresh, n) ==
    /\ Len(old.pieces) <= Len(new.pieces)
    /\ \A p \in 1 .. Len(old.pieces) : new.pieces[p] = old.pieces[p]
    /\ \A j \in 1 .. n : \E p \in 1 .. Len(new.pieces) : Norm(t, new.pieces[p]) = Norm(t, Shift(w, fresh[j]))

\* What all pieces of a window add.
Grown(t, new, old, w, fresh) == Extends(t, new, old, w, fresh, Len(fresh))

\* One piece after the other.
LEMMA ExtendsOn ==
    ASSUME NEW t, NEW new \in Keepings(t), NEW mid \in Keepings(t), NEW old \in Keepings(t), NEW w, NEW fresh,
           NEW n \in Nat, Extends(t, mid, old, w, fresh, n), Takes(t, new, mid, Shift(w, fresh[n + 1]))
    PROVE  Extends(t, new, old, w, fresh, n + 1)
  <1>1. Len(old.pieces) \in Nat /\ Len(mid.pieces) \in Nat /\ Len(new.pieces) \in Nat
    <2>1. old.pieces \in Seq(Slices(Len(t))) /\ mid.pieces \in Seq(Slices(Len(t))) /\ new.pieces \in Seq(Slices(Len(t)))
      BY Zenon DEF Keepings
    <2> QED
      BY <2>1, LenProperties
  <1>2. /\ Len(old.pieces) <= Len(mid.pieces)
        /\ \A p \in 1 .. Len(old.pieces) : mid.pieces[p] = old.pieces[p]
        /\ \A j \in 1 .. n : \E p \in 1 .. Len(mid.pieces) : Norm(t, mid.pieces[p]) = Norm(t, Shift(w, fresh[j]))
    BY Zenon DEF Extends
  <1>3. /\ Len(mid.pieces) <= Len(new.pieces)
        /\ \A p \in 1 .. Len(mid.pieces) : new.pieces[p] = mid.pieces[p]
        /\ \E p \in 1 .. Len(new.pieces) : Norm(t, new.pieces[p]) = Norm(t, Shift(w, fresh[n + 1]))
    BY Zenon DEF Takes
  <1>4. /\ \A p \in 1 .. Len(old.pieces) : p \in 1 .. Len(mid.pieces)
        /\ \A p \in 1 .. Len(mid.pieces) : p \in 1 .. Len(new.pieces)
        /\ Len(old.pieces) <= Len(new.pieces)
    BY <1>1, <1>2, <1>3
  <1>5. \A p \in 1 .. Len(old.pieces) : new.pieces[p] = old.pieces[p]
    BY <1>2, <1>3, <1>4, Zenon
  <1>6. ASSUME NEW j \in 1 .. n + 1
        PROVE  \E p \in 1 .. Len(new.pieces) : Norm(t, new.pieces[p]) = Norm(t, Shift(w, fresh[j]))
    <2>1. CASE j = n + 1
      BY <1>3, <2>1, Zenon
    <2>2. CASE j # n + 1
      <3>1. j \in 1 .. n
        BY <2>2
      <3>2. PICK p \in 1 .. Len(mid.pieces) : Norm(t, mid.pieces[p]) = Norm(t, Shift(w, fresh[j]))
        BY <1>2, <3>1, Zenon
      <3>3. p \in 1 .. Len(new.pieces) /\ new.pieces[p] = mid.pieces[p]
        BY <1>3, <1>4, Zenon
      <3>4. Norm(t, new.pieces[p]) = Norm(t, Shift(w, fresh[j]))
        BY <3>2, <3>3, Zenon
      <3> QED
        BY <3>3, <3>4, Zenon
    <2> QED
      BY <2>1, <2>2
  <1> QED
    BY <1>4, <1>5, <1>6 DEF Extends

\* What AddPieces makes of the pieces of a window.
LEMMA AddPiecesAre ==
    ASSUME text \in Seq(Char), NEW w \in Slices(Len(text)), NEW windowed, NEW fresh \in Seq(Slices(w[2] - w[1])),
           [pieces |-> pieces, seen |-> seen] \in Keepings(text)
    PROVE  /\ AddPieces(w, fresh, windowed) \in Keepings(text)
           /\ Grown(text, AddPieces(w, fresh, windowed), [pieces |-> pieces, seen |-> seen], w, fresh)
           /\ ~ windowed /\ pieces = <<>> =>
                /\ Len(AddPieces(w, fresh, windowed).pieces) = Len(fresh)
                /\ \A j \in 1 .. Len(fresh) : AddPieces(w, fresh, windowed).pieces[j] = Shift(w, fresh[j])
  <1> DEFINE n == Len(fresh)
             old == [pieces |-> pieces, seen |-> seen]
  <1>0. n \in Nat /\ n \in 0 .. n /\ 0 \in 0 .. n
    BY LenProperties
  <1>1. PICK h \in [0 .. n -> Keepings(text)] :
           /\ h[0] = old /\ h[n] = AddPieces(w, fresh, windowed)
           /\ \A k \in 1 .. n : h[k] = AddOne(text, w, windowed, h[k - 1], fresh[k])
    <2>1. \E r \in [0 .. Len(fresh) -> Keepings(text)] : AddRun(w, fresh, windowed, r, Len(fresh))
      BY AddPiecesPath, Zenon
    <2> QED
      BY <2>1, Zenon DEF AddRun
  <1>2. old \in Keepings(text) /\ old.pieces = pieces /\ Len(pieces) \in Nat
    <2>1. old.pieces = pieces
      OBVIOUS
    <2>2. old.pieces \in Seq(Slices(Len(text)))
      BY DEF Keepings
    <2> QED
      BY <2>1, <2>2, LenProperties
  <1> HIDE DEF old
  <1> DEFINE T == {k \in 0 .. n : Extends(text, h[k], old, w, fresh, k)}
  <1>4. 0 \in T
    <2>1. Extends(text, old, old, w, fresh, 0)
      BY <1>2 DEF Extends
    <2> QED
      BY <1>0, <1>1, <2>1
  <1>5. ASSUME NEW k \in 1 .. n, k - 1 \in T PROVE k \in T
    <2>1. k - 1 \in 0 .. n /\ k \in 0 .. n /\ k - 1 \in Nat /\ k - 1 + 1 = k
      BY <1>0
    <2>2. /\ Extends(text, h[k - 1], old, w, fresh, k - 1)
          /\ h[k - 1] \in Keepings(text) /\ h[k] \in Keepings(text) /\ fresh[k] \in Slices(w[2] - w[1])
      BY <1>1, <1>5, <2>1, ElementOfSeq
    <2>3. Takes(text, h[k], h[k - 1], Shift(w, fresh[k]))
      BY <1>1, <2>2, AddOneIs
    <2>4. Extends(text, h[k], old, w, fresh, k - 1 + 1)
      <3>1. Takes(text, h[k], h[k - 1], Shift(w, fresh[k - 1 + 1]))
        BY <2>1, <2>3
      <3> QED
        BY <1>2, <2>1, <2>2, <3>1, ExtendsOn
    <2> QED
      BY <2>1, <2>4
  <1>6. \A k \in 0 .. n : k \in T
    <2> HIDE DEF T
    <2> QED
      BY <1>0, <1>4, <1>5, UpTo, Zenon
  <1>7. Extends(text, AddPieces(w, fresh, windowed), old, w, fresh, n)
    <2>1. n \in T
      <3> HIDE DEF T, n
      <3> QED
        BY <1>0, <1>6, Zenon
    <2> QED
      BY <1>1, <2>1
  <1>8. Grown(text, AddPieces(w, fresh, windowed), old, w, fresh)
    BY <1>7, Zenon DEF Grown
  <1>9. ASSUME ~ windowed, pieces = <<>>
        PROVE  /\ Len(AddPieces(w, fresh, windowed).pieces) = Len(fresh)
               /\ \A j \in 1 .. Len(fresh) : AddPieces(w, fresh, windowed).pieces[j] = Shift(w, fresh[j])
    <2> DEFINE U == {k \in 0 .. n : Len(h[k].pieces) = k /\ \A j \in 1 .. k : h[k].pieces[j] = Shift(w, fresh[j])}
    <2>1. 0 \in U
      BY <1>0, <1>1, <1>2, <1>9
    <2>2. ASSUME NEW k \in 1 .. n, k - 1 \in U PROVE k \in U
      <3>1. k - 1 \in 0 .. n /\ k \in 0 .. n /\ k - 1 \in Nat /\ k - 1 + 1 = k
        BY <1>0
      <3> DEFINE ps == h[k - 1].pieces
                 s == Shift(w, fresh[k])
                 q == Append(ps, s)
      <3>2. /\ ps \in Seq(Slices(Len(text))) /\ Len(ps) = k - 1
            /\ \A j \in 1 .. k - 1 : ps[j] = Shift(w, fresh[j])
        <4>1. h[k - 1] \in Keepings(text)
          BY <1>1, <3>1
        <4> QED
          BY <2>2, <4>1 DEF Keepings
      <3>3. h[k].pieces = q
        <4>1. h[k] = [pieces |-> q, seen |-> h[k - 1].seen \cup {Norm(text, s)}]
          BY <1>1, <1>9, Zenon DEF AddOne
        <4> QED
          BY <4>1
      <3>4. s \in Slices(Len(text))
        <4>1. fresh[k] \in Slices(w[2] - w[1])
          BY ElementOfSeq
        <4> QED
          BY <4>1, ShiftIs
      <3> HIDE DEF s, ps, q
      <3>5. Len(q) = Len(ps) + 1 /\ q[Len(ps) + 1] = s /\ \A j \in 1 .. Len(ps) : q[j] = ps[j]
        BY <3>2, <3>4, AppendProperties DEF q
      <3>6. Len(q) = k /\ q[k] = s /\ \A j \in 1 .. k - 1 : q[j] = Shift(w, fresh[j])
        BY <3>1, <3>2, <3>5
      <3>7. \A j \in 1 .. k : q[j] = Shift(w, fresh[j])
        <4> TAKE j \in 1 .. k
        <4>1. CASE j = k
          BY <3>6, <4>1 DEF s
        <4>2. CASE j # k
          <5>1. j \in 1 .. k - 1
            BY <4>2
          <5> QED
            BY <3>6, <5>1
        <4> QED
          BY <4>1, <4>2
      <3> QED
        BY <3>1, <3>3, <3>6, <3>7
    <2>3. \A k \in 0 .. n : k \in U
      <3> HIDE DEF U
      <3> QED
        BY <1>0, <2>1, <2>2, UpTo, Zenon
    <2>4. n \in U
      <3> HIDE DEF U, n
      <3> QED
        BY <1>0, <2>3, Zenon
    <2> QED
      BY <1>1, <2>4
  <1>10. AddPieces(w, fresh, windowed) \in Keepings(text)
    BY <1>0, <1>1
  <1> QED
    BY <1>8, <1>9, <1>10 DEF old

---------------------------------------------------------------------------
(* Windows                                                                  *)

\* Multiples of a number.
LEMMA Multiples ==
    ASSUME NEW k \in Nat, NEW m \in Nat
    PROVE  k * m \in Nat /\ (k + 1) * m = k * m + m
  OBVIOUS

\* A number is no greater than its multiple.
LEMMA GrowingMultiples ==
    ASSUME NEW n \in Nat, NEW m \in Nat, m >= 1
    PROVE  n <= n * m
  <1> DEFINE T == {k \in 0 .. n : k <= k * m}
  <1>1. 0 \in T
    OBVIOUS
  <1>2. ASSUME NEW k \in 1 .. n, k - 1 \in T PROVE k \in T
    <2>1. k - 1 \in Nat /\ k - 1 + 1 = k /\ k - 1 <= (k - 1) * m
      BY <1>2
    <2>2. (k - 1) * m \in Nat /\ (k - 1 + 1) * m = (k - 1) * m + m
      BY <2>1, Multiples
    <2>3. k <= k * m
      BY <2>1, <2>2
    <2> QED
      BY <2>3
  <1>3. \A k \in 0 .. n : k \in T
    <2> HIDE DEF T
    <2> QED
      BY <1>1, <1>2, UpTo, Zenon
  <1> QED
    BY <1>3

\* A window is longer than the step to the next one.
LEMMA WindowSizes == Window \in Nat /\ Step \in Nat /\ 1 <= Step /\ Step <= Window
  <1>1. Target \in Nat /\ Target >= 1 /\ WindowChars \in Nat /\ OverlapChars \in Nat
    BY SizesAssumption
  <1>2. Window \in Nat /\ Window >= 1
    BY <1>1 DEF Window, MaxOf
  <1> QED
    BY <1>1, <1>2 DEF Step, MaxOf

\* Which slices hold a place.
Holding(ws, i) == \E k \in 1 .. Len(ws) : ws[k][1] <= i /\ i < ws[k][2]

\* The windows hold every place of a text.
LEMMA WindowsAre ==
    ASSUME NEW t \in Seq(Char)
    PROVE  /\ WindowsOf(t) \in Seq(Slices(Len(t))) /\ WindowsOf(t) # <<>>
           /\ \A i \in 0 .. Len(t) - 1 : Holding(WindowsOf(t), i)
           /\ Len(t) <= Window => WindowsOf(t) = <<<<0, Len(t)>>>>
           /\ Len(WindowsOf(t)) > 1 => Len(t) > Window
  <1> DEFINE n == Len(t)
  <1>0. n \in Nat
    BY SolidIs
  <1>1. Window \in Nat /\ Step \in Nat /\ 1 <= Step /\ Step <= Window
    BY WindowSizes
  <1> HIDE DEF n
  <1>2. CASE n <= Window
    <2>1. WindowsOf(t) = <<<<0, n>>>>
      BY <1>2 DEF WindowsOf, n
    <2>2. <<0, n>> \in Slices(n)
      BY <1>0 DEF Slices
    <2>3. <<<<0, n>>>> \in Seq(Slices(n)) /\ <<<<0, n>>>> # <<>> /\ Len(<<<<0, n>>>>) = 1
      BY <2>2
    <2>4. \A i \in 0 .. n - 1 : <<<<0, n>>>>[1][1] <= i /\ i < <<<<0, n>>>>[1][2]
      BY <1>0
    <2>5. \A i \in 0 .. n - 1 : Holding(<<<<0, n>>>>, i)
      <3>1. 1 \in 1 .. Len(<<<<0, n>>>>)
        BY <2>3
      <3> QED
        BY <2>4, <3>1, Zenon DEF Holding
    <2>6. ~ (Len(<<<<0, n>>>>) > 1)
      BY <2>3
    <2> QED
      BY <2>1, <2>3, <2>5, <2>6, Zenon DEF n
  <1>3. CASE ~ (n <= Window)
    <2> DEFINE K == {k \in 0 .. n : k * Step + Window >= n}
               last == Least(K)
               ws == [k \in 1 .. last + 1 |-> <<(k - 1) * Step, MinOf((k - 1) * Step + Window, n)>>]
    <2>1. last \in K /\ \A y \in K : last <= y
      <3>1. n * Step \in Nat /\ n <= n * Step
        BY <1>0, <1>1, Multiples, GrowingMultiples
      <3>2. n * Step + Window >= n
        BY <1>0, <1>1, <3>1
      <3>3. n \in K /\ K \in SUBSET (0 .. n)
        BY <1>0, <3>2
      <3> HIDE DEF K
      <3> QED
        BY <1>0, <3>3, Ends
    <2>2. last \in 0 .. n /\ last * Step + Window >= n
      <3> HIDE DEF last
      <3> QED
        BY <2>1
    <2>3. WindowsOf(t) = ws
      BY <1>3, Zenon DEF WindowsOf, n
    <2> HIDE DEF last
    <2>4. ASSUME NEW k \in 0 .. last PROVE k * Step \in 0 .. n
      <3>1. CASE k = 0
        BY <1>0, <1>1, <3>1
      <3>2. CASE k # 0
        <4> DEFINE j == k - 1
        <4>1. j \in Nat /\ j + 1 = k /\ j < last /\ j \in 0 .. n
          BY <1>0, <2>2, <3>2
        <4>2. j \notin K
          <5> HIDE DEF K, j
          <5> QED
            BY <2>1, <2>2, <4>1
        <4>3. ~ (j * Step + Window >= n)
          BY <4>1, <4>2
        <4>4. j * Step \in Nat /\ (j + 1) * Step = j * Step + Step
          <5> HIDE DEF j
          <5> QED
            BY <1>1, <4>1, Multiples
        <4> HIDE DEF j
        <4>5. k * Step = j * Step + Step
          BY <4>1, <4>4
        <4> QED
          BY <1>0, <1>1, <4>3, <4>4, <4>5
      <3> QED
        BY <3>1, <3>2
    <2>5. ASSUME NEW k \in 1 .. last + 1
          PROVE  /\ ws[k] = <<(k - 1) * Step, MinOf((k - 1) * Step + Window, n)>>
                 /\ ws[k] \in Slices(n)
                 /\ ws[k][1] = (k - 1) * Step /\ (ws[k][2] = (k - 1) * Step + Window \/ ws[k][2] = n)
      <3> DEFINE lo == (k - 1) * Step
      <3>1. k - 1 \in 0 .. last
        BY <2>2
      <3>2. lo \in 0 .. n
        BY <2>4, <3>1
      <3>3. ws[k] = <<lo, MinOf(lo + Window, n)>>
        OBVIOUS
      <3> HIDE DEF lo, ws
      <3>4. MinOf(lo + Window, n) \in lo .. n /\ (MinOf(lo + Window, n) = lo + Window \/ MinOf(lo + Window, n) = n)
        BY <1>0, <1>1, <3>2 DEF MinOf
      <3>5. ws[k][1] = lo /\ ws[k][2] = MinOf(lo + Window, n)
        BY <3>3
      <3>6. ws[k] \in Slices(n)
        <4>1. lo \in 0 .. n /\ MinOf(lo + Window, n) \in 0 .. n /\ lo <= MinOf(lo + Window, n)
          BY <1>0, <3>2, <3>4
        <4> HIDE DEF lo
        <4> QED
          BY <3>3, <4>1 DEF Slices
      <3> QED
        BY <3>3, <3>4, <3>5, <3>6 DEF lo
    <2>6. last + 1 \in Nat /\ ws \in [1 .. last + 1 -> Slices(n)] /\ Len(ws) = last + 1
      <3>1. \A k \in 1 .. last + 1 : ws[k] \in Slices(n)
        BY <2>5
      <3>2. ws = [k \in 1 .. last + 1 |-> ws[k]]
        OBVIOUS
      <3>3. last + 1 \in Nat
        BY <2>2
      <3> HIDE DEF ws
      <3>4. ws \in [1 .. last + 1 -> Slices(n)]
        BY <3>1, <3>2
      <3> QED
        BY <3>3, <3>4, LenProperties
    <2> HIDE DEF ws
    <2>7. ws \in Seq(Slices(n)) /\ ws # <<>>
      <3>1. ws \in Seq(Slices(n))
        BY <2>6, TypedSeq
      <3>2. Len(ws) # 0
        BY <2>2, <2>6
      <3> QED
        BY <3>1, <3>2
    <2>8. ASSUME NEW i \in 0 .. n - 1 PROVE Holding(ws, i)
      <3> DEFINE M == {k \in 0 .. last : i < k * Step + Window}
                 m == Least(M)
      <3>1. last \in 0 .. last /\ last * Step \in Nat
        <4>1. last \in 0 .. last /\ last \in Nat
          BY <2>2
        <4> QED
          BY <1>1, <4>1, Multiples
      <3>2. i < last * Step + Window
        BY <1>0, <1>1, <2>2, <3>1
      <3>3. M \in SUBSET (0 .. last) /\ last \in M /\ last \in Nat
        BY <2>2, <3>1, <3>2
      <3>4. m \in M /\ \A y \in M : m <= y
        <4> HIDE DEF M
        <4> QED
          BY <3>3, Ends
      <3> HIDE DEF m
      <3>5. m \in 0 .. last /\ i < m * Step + Window
        BY <3>4
      <3>6. m * Step <= i
        <4>1. CASE m = 0
          BY <1>1, <4>1
        <4>2. CASE m # 0
          <5> DEFINE j == m - 1
          <5>1. j \in Nat /\ j + 1 = m /\ j < m /\ j \in 0 .. last /\ ~ (m <= j)
            BY <2>2, <3>5, <4>2
          <5>2. j \notin M
            <6> HIDE DEF M, j
            <6> QED
              BY <3>4, <5>1
          <5>3. ~ (i < j * Step + Window)
            BY <5>1, <5>2
          <5>4. j * Step \in Nat /\ (j + 1) * Step = j * Step + Step
            <6> HIDE DEF j
            <6> QED
              BY <1>1, <5>1, Multiples
          <5> HIDE DEF j
          <5>5. m * Step = j * Step + Step
            BY <5>1, <5>4
          <5> QED
            BY <1>0, <1>1, <5>3, <5>4, <5>5
        <4> QED
          BY <4>1, <4>2
      <3> DEFINE k == m + 1
      <3>7. k \in 1 .. last + 1 /\ k - 1 = m
        BY <2>2, <3>5
      <3> HIDE DEF k
      <3>8. ws[k][1] = m * Step /\ (ws[k][2] = m * Step + Window \/ ws[k][2] = n)
        BY <2>5, <3>7
      <3>9. ws[k][1] <= i /\ i < ws[k][2]
        BY <1>0, <3>5, <3>6, <3>8
      <3> QED
        BY <2>6, <3>7, <3>9 DEF Holding
    <2> QED
      BY <1>0, <1>1, <1>3, <2>3, <2>7, <2>8 DEF n
  <1> QED
    BY <1>2, <1>3

---------------------------------------------------------------------------
(* Batches of texts                                                         *)

\* Where the k-th slice of a queue begins.
Begins(q, from, k) == IF k = 1 THEN from ELSE q[k - 1][2]

\* The slices that are still to be embedded: none is empty, and they follow each
\* other without gaps.
IsQueue(q, from, to) ==
    /\ q \in Seq(Nat \X Nat)
    /\ \A k \in 1 .. Len(q) : q[k][1] = Begins(q, from, k) /\ q[k][1] < q[k][2] /\ q[k][2] <= to
    /\ Begins(q, from, Len(q) + 1) = to

\* The rest of a division is smaller than the divisor.
LEMMA Quotient ==
    ASSUME NEW a \in Nat, NEW b \in Nat, b >= 1
    PROVE  a \div b \in Nat /\ (a \div b) * b <= a /\ a < (a \div b) * b + b
  OBVIOUS

\* The batches are a queue of all texts.
LEMMA BatchesAre ==
    ASSUME NEW n \in Nat
    PROVE  IsQueue(Batches(n), 0, n)
  <1> DEFINE B == BatchSize
             m == (n + B - 1) \div B
             q == [k \in 1 .. m |-> <<(k - 1) * B, MinOf(k * B, n)>>]
  <1>1. B \in Nat /\ B >= 1
    BY SizesAssumption
  <1>2. m \in Nat /\ m * B <= n + B - 1 /\ n + B - 1 < m * B + B
    <2> DEFINE a == n + B - 1
    <2>1. a \in Nat
      BY <1>1
    <2> HIDE DEF a, B
    <2>2. a \div B \in Nat /\ (a \div B) * B <= a /\ a < (a \div B) * B + B
      BY <1>1, <2>1, Quotient
    <2> QED
      BY <2>2 DEF a
  <1>3. Batches(n) = q
    BY DEF Batches
  <1> HIDE DEF m, B
  <1>4. ASSUME NEW k \in 1 .. m
        PROVE  (k - 1) * B \in Nat /\ k * B = (k - 1) * B + B /\ k * B \in Nat /\ (k - 1) * B < n
    <2> DEFINE j == k - 1
    <2>1. j \in Nat /\ j + 1 = k /\ m - k \in Nat
      BY <1>2
    <2> HIDE DEF j
    <2>2. j * B \in Nat /\ k * B = j * B + B
      BY <1>1, <2>1, Multiples
    <2>3. m * B = k * B + (m - k) * B /\ (m - k) * B \in Nat
      <3> DEFINE d == m - k
      <3>1. d \in Nat /\ m = k + d /\ k \in Nat
        BY <1>2, <2>1
      <3> HIDE DEF d
      <3>2. (k + d) * B = k * B + d * B /\ d * B \in Nat
        BY <1>1, <3>1
      <3> QED
        BY <3>1, <3>2 DEF d
    <2> DEFINE x == (m - k) * B
               y == m * B
               z == k * B
               v == j * B
    <2>4. x \in Nat /\ y = z + x /\ z = v + B /\ v \in Nat
      BY <2>2, <2>3
    <2>5. y <= n + B - 1
      BY <1>2
    <2> HIDE DEF x, y, z, v
    <2>6. v < n /\ z \in Nat
      BY <1>1, <2>4, <2>5
    <2> QED
      BY <2>2, <2>6 DEF v, z, j
  <1>5. n <= m * B
    <2> DEFINE y == m * B
    <2>1. y \in Nat
      BY <1>1, <1>2, Multiples
    <2>2. n + B - 1 < y + B
      BY <1>2
    <2> HIDE DEF y
    <2>3. n <= y
      BY <1>1, <2>1, <2>2
    <2> QED
      BY <2>3 DEF y
  <1>6. ASSUME NEW k \in 1 .. m
        PROVE  /\ q[k] \in Nat \X Nat /\ q[k][1] = (k - 1) * B /\ q[k][1] < q[k][2] /\ q[k][2] <= n
               /\ q[k][2] = MinOf(k * B, n)
    <2> DEFINE v == (k - 1) * B
               z == k * B
    <2>1. q[k] = <<v, MinOf(z, n)>>
      OBVIOUS
    <2>2. v \in Nat /\ z = v + B /\ z \in Nat /\ v < n
      BY <1>4
    <2> HIDE DEF v, z, q
    <2>3. MinOf(z, n) \in Nat /\ v < MinOf(z, n) /\ MinOf(z, n) <= n
      BY <1>1, <2>2 DEF MinOf
    <2>4. q[k][1] = v /\ q[k][2] = MinOf(z, n) /\ q[k] \in Nat \X Nat
      BY <2>1, <2>2, <2>3
    <2> QED
      BY <2>3, <2>4 DEF v, z
  <1>7. q \in Seq(Nat \X Nat) /\ Len(q) = m
    <2>1. q = [k \in 1 .. m |-> q[k]]
      OBVIOUS
    <2> HIDE DEF q
    <2>2. q \in [1 .. m -> Nat \X Nat]
      BY <1>6, <2>1
    <2>3. q \in Seq(Nat \X Nat)
      BY <1>2, <2>2, TypedSeq
    <2> QED
      BY <1>2, <2>2, <2>3, LenProperties
  <1> HIDE DEF q
  <1>8. ASSUME NEW k \in 1 .. m PROVE q[k][1] = Begins(q, 0, k)
    <2>1. CASE k = 1
      <3>1. (k - 1) * B = 0
        BY <1>1, <2>1
      <3> QED
        BY <1>6, <2>1, <3>1 DEF Begins
    <2>2. CASE k # 1
      <3> DEFINE j == k - 1
      <3>1. j \in 1 .. m /\ Begins(q, 0, k) = q[j][2]
        BY <1>2, <2>2 DEF Begins
      <3>2. q[k][1] = j * B /\ j * B < n
        BY <1>4, <1>6
      <3> HIDE DEF j
      <3>3. q[j][2] = MinOf(j * B, n) /\ j * B \in Nat
        BY <1>4, <1>6, <3>1
      <3> QED
        BY <3>1, <3>2, <3>3 DEF MinOf
    <2> QED
      BY <2>1, <2>2
  <1>9. Begins(q, 0, m + 1) = n
    <2>1. CASE m = 0
      <3>1. m * B = 0
        BY <1>1, <2>1
      <3>2. n = 0
        BY <1>5, <3>1
      <3> QED
        BY <2>1, <3>2 DEF Begins
    <2>2. CASE m # 0
      <3>1. m \in 1 .. m /\ Begins(q, 0, m + 1) = q[m][2]
        BY <1>2, <2>2 DEF Begins
      <3>2. q[m][2] = MinOf(m * B, n) /\ m * B \in Nat
        BY <1>4, <1>6, <3>1
      <3> QED
        BY <1>5, <3>1, <3>2 DEF MinOf
    <2> QED
      BY <2>1, <2>2
  <1> QED
    BY <1>3, <1>6, <1>7, <1>8, <1>9 DEF IsQueue

\* The first batch is done.
LEMMA QueueTail ==
    ASSUME NEW q, NEW from \in Nat, NEW to \in Nat, IsQueue(q, from, to), q # <<>>
    PROVE  /\ Head(q) \in Nat \X Nat /\ Head(q)[1] = from /\ from < Head(q)[2] /\ Head(q)[2] <= to
           /\ IsQueue(Tail(q), Head(q)[2], to)
  <1> DEFINE r == Tail(q)
             n == Len(q)
  <1>1. /\ q \in Seq(Nat \X Nat)
        /\ \A k \in 1 .. Len(q) : q[k][1] = Begins(q, from, k) /\ q[k][1] < q[k][2] /\ q[k][2] <= to
        /\ Begins(q, from, Len(q) + 1) = to
    BY Zenon DEF IsQueue
  <1>2. n \in Nat /\ n >= 1 /\ 1 \in 1 .. n
    BY <1>1
  <1>3. /\ Head(q) = q[1] /\ r \in Seq(Nat \X Nat) /\ Len(r) = n - 1
        /\ \A i \in 1 .. n - 1 : r[i] = q[i + 1]
    BY <1>1, HeadTailProperties
  <1> HIDE DEF r, n
  <1>4. q[1] \in Nat \X Nat /\ q[1][1] = from /\ from < q[1][2] /\ q[1][2] <= to
    <2>1. Begins(q, from, 1) = from
      BY DEF Begins
    <2>2. q[1] \in Nat \X Nat
      BY <1>1, <1>2, ElementOfSeq DEF n
    <2> QED
      BY <1>1, <1>2, <2>1, <2>2 DEF n
  <1>5. ASSUME NEW k \in 1 .. n - 1
        PROVE  r[k][1] = Begins(r, q[1][2], k) /\ r[k][1] < r[k][2] /\ r[k][2] <= to
    <2>1. k + 1 \in 1 .. n /\ k + 1 # 1 /\ k + 1 - 1 = k /\ r[k] = q[k + 1]
      BY <1>2, <1>3
    <2>2. q[k + 1][1] = Begins(q, from, k + 1) /\ q[k + 1][1] < q[k + 1][2] /\ q[k + 1][2] <= to
      BY <1>1, <2>1, Zenon DEF n
    <2>3. Begins(q, from, k + 1) = q[k][2]
      BY <2>1 DEF Begins
    <2>4. Begins(r, q[1][2], k) = q[k][2]
      <3>1. CASE k = 1
        BY <3>1 DEF Begins
      <3>2. CASE k # 1
        <4>1. k - 1 \in 1 .. n - 1 /\ k - 1 + 1 = k
          BY <1>2, <3>2
        <4>2. r[k - 1] = q[k]
          BY <1>3, <4>1
        <4> QED
          BY <3>2, <4>2 DEF Begins
      <3> QED
        BY <3>1, <3>2
    <2> QED
      BY <2>1, <2>2, <2>3, <2>4
  <1>6. Begins(r, q[1][2], Len(r) + 1) = to
    <2>1. Len(r) + 1 = n /\ Begins(q, from, n + 1) = q[n][2]
      BY <1>2, <1>3 DEF Begins
    <2>2. Begins(r, q[1][2], n) = q[n][2]
      <3>1. CASE n = 1
        BY <3>1 DEF Begins
      <3>2. CASE n # 1
        <4>1. n - 1 \in 1 .. n - 1 /\ n - 1 + 1 = n
          BY <1>2, <3>2
        <4>2. r[n - 1] = q[n]
          BY <1>3, <4>1
        <4> QED
          BY <3>2, <4>2 DEF Begins
      <3> QED
        BY <3>1, <3>2
    <2> QED
      BY <1>1, <2>1, <2>2 DEF n
  <1>7. IsQueue(r, q[1][2], to)
    BY <1>3, <1>5, <1>6 DEF IsQueue
  <1> QED
    BY <1>3, <1>4, <1>7 DEF r

\* A batch that is too large becomes two.
LEMMA QueueHalved ==
    ASSUME NEW q, NEW from \in Nat, NEW to \in Nat, IsQueue(q, from, to), q # <<>>, Size(Head(q)) > 1
    PROVE  IsQueue(Halve(Head(q), Tail(q)), from, to)
  <1> DEFINE b == Head(q)
             r == Tail(q)
             n == Len(r)
             mid == Half(b)
             p == Halve(b, r)
             two == <<<<b[1], mid>>, <<mid, b[2]>>>>
  <1>1. b \in Nat \X Nat /\ b[1] = from /\ from < b[2] /\ b[2] <= to /\ IsQueue(r, b[2], to)
    BY QueueTail
  <1>2. /\ r \in Seq(Nat \X Nat)
        /\ \A k \in 1 .. n : r[k][1] = Begins(r, b[2], k) /\ r[k][1] < r[k][2] /\ r[k][2] <= to
        /\ Begins(r, b[2], n + 1) = to
    BY <1>1, Zenon DEF IsQueue
  <1>3. n \in Nat
    BY <1>2, LenProperties
  <1> HIDE DEF r, n
  <1>4. mid \in Nat /\ b[1] < mid /\ mid < b[2]
    <2>1. b[2] - b[1] \in Nat /\ b[2] - b[1] > 1
      BY <1>1 DEF Size
    <2> DEFINE d == b[2] - b[1]
    <2> HIDE DEF d
    <2>2. d \div 2 \in Nat /\ d \div 2 < d
      BY <2>1 DEF d
    <2>3. MaxOf(1, d \div 2) \in Nat /\ MaxOf(1, d \div 2) >= 1 /\ MaxOf(1, d \div 2) < d
      BY <2>1, <2>2 DEF MaxOf, d
    <2>4. mid = b[1] + MaxOf(1, d \div 2)
      BY DEF Half, Size, d
    <2> DEFINE e == MaxOf(1, d \div 2)
    <2>5. e \in Nat /\ e >= 1 /\ e < b[2] - b[1] /\ mid = b[1] + e
      BY <2>3, <2>4 DEF d
    <2> HIDE DEF e, b, mid
    <2>6. b[1] \in Nat /\ b[2] \in Nat
      BY <1>1
    <2> QED
      BY <2>5, <2>6
  <1>5. p = two \o r
    BY Zenon DEF Halve
  <1> HIDE DEF b, mid
  <1>6. two \in Seq(Nat \X Nat) /\ Len(two) = 2 /\ two[1] = <<b[1], mid>> /\ two[2] = <<mid, b[2]>>
    BY <1>1, <1>4
  <1> HIDE DEF two, p
  <1>7. /\ p \in Seq(Nat \X Nat) /\ Len(p) = n + 2 /\ p[1] = <<b[1], mid>> /\ p[2] = <<mid, b[2]>>
        /\ \A i \in 1 .. n : p[i + 2] = r[i]
    <2>1. /\ two \o r \in Seq(Nat \X Nat) /\ Len(two \o r) = Len(two) + Len(r)
          /\ \A i \in 1 .. Len(two) + Len(r) : (two \o r)[i] = IF i <= Len(two) THEN two[i] ELSE r[i - Len(two)]
      <3>1. two \in Seq(Nat \X Nat)
        BY <1>6
      <3> QED
        BY <1>2, <3>1, ConcatProperties
    <2>2. \A i \in 1 .. 2 + n : p[i] = IF i <= 2 THEN two[i] ELSE r[i - 2]
      BY <1>5, <1>6, <2>1 DEF n
    <2>3. p[1] = two[1] /\ p[2] = two[2]
      BY <1>3, <2>2
    <2>4. \A i \in 1 .. n : p[i + 2] = r[i]
      <3> TAKE i \in 1 .. n
      <3>1. i + 2 \in 1 .. 2 + n /\ ~ (i + 2 <= 2) /\ i + 2 - 2 = i
        BY <1>3
      <3> QED
        BY <2>2, <3>1
    <2>5. Len(p) = n + 2
      BY <1>3, <1>5, <1>6, <2>1 DEF n
    <2> QED
      BY <1>5, <1>6, <2>1, <2>3, <2>4, <2>5
  <1>8. p[1][1] = b[1] /\ p[1][2] = mid /\ p[2][1] = mid /\ p[2][2] = b[2]
    BY <1>7
  <1>9. ASSUME NEW k \in 1 .. n + 2
        PROVE  p[k][1] = Begins(p, from, k) /\ p[k][1] < p[k][2] /\ p[k][2] <= to
    <2>1. CASE k = 1
      <3>1. b[1] \in Nat /\ b[2] \in Nat
        BY <1>1
      <3> QED
        BY <1>1, <1>4, <1>8, <2>1, <3>1 DEF Begins
    <2>2. CASE k = 2
      <3>1. Begins(p, from, 2) = p[1][2]
        BY DEF Begins
      <3> QED
        BY <1>1, <1>4, <1>8, <2>2, <3>1
    <2>3. CASE k # 1 /\ k # 2
      <3> DEFINE j == k - 2
      <3>1. j \in 1 .. n /\ j + 2 = k /\ k - 1 = j + 1
        BY <1>3, <2>3
      <3> HIDE DEF j
      <3>2. p[k] = r[j] /\ r[j][1] = Begins(r, b[2], j) /\ r[j][1] < r[j][2] /\ r[j][2] <= to
        BY <1>2, <1>7, <3>1
      <3>3. Begins(p, from, k) = Begins(r, b[2], j)
        <4>1. CASE j = 1
          <5>1. k - 1 = 2
            BY <3>1, <4>1
          <5> QED
            BY <1>8, <2>3, <4>1, <5>1 DEF Begins
        <4>2. CASE j # 1
          <5>1. j - 1 \in 1 .. n /\ j - 1 + 2 = k - 1
            BY <1>3, <3>1, <4>2
          <5>2. p[k - 1] = r[j - 1]
            BY <1>7, <5>1
          <5> QED
            BY <2>3, <4>2, <5>2 DEF Begins
        <4> QED
          BY <4>1, <4>2
      <3> QED
        BY <3>2, <3>3
    <2> QED
      BY <2>1, <2>2, <2>3
  <1>10. Begins(p, from, n + 2 + 1) = to
    <2>1. Begins(p, from, n + 2 + 1) = p[n + 2][2]
      BY <1>3 DEF Begins
    <2>2. CASE n = 0
      <3>1. b[2] = to
        BY <1>2, <2>2 DEF Begins
      <3> QED
        BY <1>8, <2>1, <2>2, <3>1
    <2>3. CASE n # 0
      <3>1. n \in 1 .. n
        BY <1>3, <2>3
      <3>2. p[n + 2] = r[n]
        BY <1>7, <3>1
      <3>3. r[n][2] = to
        BY <1>2, <1>3, <2>3 DEF Begins
      <3> QED
        BY <2>1, <3>2, <3>3
    <2> QED
      BY <2>2, <2>3
  <1> QED
    BY <1>7, <1>9, <1>10 DEF IsQueue, p, b, r

---------------------------------------------------------------------------
(* The invariant                                                            *)

\* The records of chunks.
Chunk == [doc : STRING, piece : Seq(Char), at : Nat \X Nat]

\* An entry of the cache holds slices of its text.
Entry == {e \in [key : Seq(Char), val : Seq(Nat \X Nat)] : e.val \in Seq(Slices(Len(e.key)))}

\* The types of what the run computes with.
ChunkingTypes ==
    /\ blocks \in Sources
    /\ groups \in Seq(Seq(Block) \ {<<>>})
    /\ text \in Seq(Char)
    /\ windows \in Seq(Slices(Len(text)))
    /\ [pieces |-> pieces, seen |-> seen] \in Keepings(text)
    /\ cache \in Seq(Entry)
    /\ out \in Seq(Chunk)

\* While a block is being chunked there is a window to ask about; the block of
\* one window has no pieces before its answer.
Asking ==
    pc = "ask" =>
      /\ groups # <<>> /\ windows # <<>>
      /\ OneWindow => windows = <<<<0, Len(text)>>>> /\ pieces = <<>>

\* The passage around a place reads like a piece.
Reads(t, ps, i) ==
    \E p \in 1 .. Len(ps), lo \in 0 .. i, hi \in i + 1 .. Len(t) : Normal(Slice(t, lo, hi)) = Norm(t, ps[p])

\* What is solid reads like a piece or waits for its window.
Covering == \A i \in Solid(text) : Reads(text, pieces, i) \/ Holding(windows, i)

\* The pieces of a block of one window are where they were cut.
Whole ==
    windows = <<>> /\ pieces # <<>> /\ OneWindow =>
      pieces \in Seq(PieceSet(text)) /\ Tiles(text, pieces, Len(text))

\* The vectors are those of the first chunks, and the rest waits in order.
Embedding ==
    /\ vectors \in Seq(Seq(Char))
    /\ Len(vectors) <= Len(out)
    /\ \A k \in 1 .. Len(vectors) : vectors[k] = out[k].piece
    /\ pc \in {"pack", "next", "ask"} => vectors = <<>>
    /\ pc = "embed" => IsQueue(todo, Len(vectors), Len(out))
    /\ pc = "done" => Len(vectors) = Len(out)

\* The invariant.
ChunkingInv == ChunkingTypes /\ Asking /\ Covering /\ Whole /\ Embedding

\* How an entry of the cache is put together.
LEMMA EntryIs ==
    ASSUME NEW t \in Seq(Char), NEW ps \in Seq(Slices(Len(t)))
    PROVE  [key |-> t, val |-> ps] \in Entry
  <1>0. Len(t) \in Nat
    BY SolidIs, Zenon
  <1>1. Slices(Len(t)) \subseteq Nat \X Nat
    BY <1>0 DEF Slices
  <1>2. ps \in Seq(Nat \X Nat)
    <2> DEFINE S == Slices(Len(t))
    <2>1. ps \in Seq(S) /\ S \subseteq Nat \X Nat
      BY <1>1
    <2> HIDE DEF S
    <2> QED
      BY <2>1, SeqMonotonic
  <1> DEFINE e == [key |-> t, val |-> ps]
  <1>3. e.key = t /\ e.val = ps /\ e \in [key : Seq(Char), val : Seq(Nat \X Nat)]
    BY <1>2
  <1> HIDE DEF e
  <1>4. e.val \in Seq(Slices(Len(e.key)))
    BY <1>3
  <1> QED
    BY <1>3, <1>4 DEF Entry, e

\* An entry is taken out of the cache.
LEMMA Removed ==
    ASSUME NEW S, NEW c \in Seq(S), NEW i \in 1 .. Len(c)
    PROVE  RemoveAt(c, i) \in Seq(S)
  <1>1. Len(c) \in Nat /\ \A k \in 1 .. Len(c) : c[k] \in S
    BY LenProperties, ElementOfSeq
  <1>2. SubSeq(c, 1, i - 1) \in Seq(S)
    <2>1. \A k \in 1 .. i - 1 : c[k] \in S
      BY <1>1
    <2>2. 1 \in Int /\ i - 1 \in Int
      BY <1>1
    <2> QED
      BY <2>1, <2>2, SubSeqProperties
  <1>3. SubSeq(c, i + 1, Len(c)) \in Seq(S)
    <2>1. \A k \in i + 1 .. Len(c) : c[k] \in S
      BY <1>1
    <2>2. i + 1 \in Int /\ Len(c) \in Int
      BY <1>1
    <2> QED
      BY <2>1, <2>2, SubSeqProperties
  <1> QED
    BY <1>2, <1>3, ConcatProperties DEF RemoveAt

\* An entry is stored, and the oldest one may leave.
LEMMA StoredIs ==
    ASSUME cache \in Seq(Entry), NEW key \in Seq(Char), NEW val \in Seq(Slices(Len(key)))
    PROVE  Stored(key, val) \in Seq(Entry)
  <1> DEFINE others == IF Hit(key) = {} THEN cache ELSE RemoveAt(cache, Least(Hit(key)))
             e == [key |-> key, val |-> val]
             longer == Append(others, e)
  <1>1. others \in Seq(Entry)
    <2>1. CASE Hit(key) = {}
      BY <2>1
    <2>2. CASE Hit(key) # {}
      <3>1. Len(cache) \in Nat /\ DOMAIN cache = 1 .. Len(cache)
        BY LenProperties
      <3>2. Hit(key) \in SUBSET (0 .. Len(cache)) /\ \A i \in Hit(key) : i \in 1 .. Len(cache)
        BY <3>1 DEF Hit
      <3>3. Least(Hit(key)) \in 1 .. Len(cache)
        BY <2>2, <3>1, <3>2, Ends
      <3>4. RemoveAt(cache, Least(Hit(key))) \in Seq(Entry)
        BY <3>3, Removed
      <3> QED
        BY <2>2, <3>4
    <2> QED
      BY <2>1, <2>2
  <1>2. e \in Entry
    BY EntryIs
  <1>3. Stored(key, val) = IF Len(longer) > CacheMax THEN Tail(longer) ELSE longer
    BY Zenon DEF Stored
  <1> HIDE DEF others, e
  <1>4. longer \in Seq(Entry) /\ longer # <<>>
    BY <1>1, <1>2, AppendProperties
  <1> HIDE DEF longer
  <1>5. Tail(longer) \in Seq(Entry)
    BY <1>4, HeadTailProperties
  <1> QED
    BY <1>3, <1>4, <1>5

\* More pieces read as well.
LEMMA ReadsOn ==
    ASSUME NEW t, NEW old, NEW new, NEW m \in Nat, NEW n \in Nat, m = Len(old), n = Len(new),
           m <= n, \A p \in 1 .. m : new[p] = old[p], NEW i, Reads(t, old, i)
    PROVE  Reads(t, new, i)
  <1>1. PICK p \in 1 .. m, lo \in 0 .. i, hi \in i + 1 .. Len(t) : Normal(Slice(t, lo, hi)) = Norm(t, old[p])
    BY Zenon DEF Reads
  <1>2. p \in 1 .. Len(new)
    BY <1>1
  <1>3. new[p] = old[p]
    BY <1>1
  <1>4. Normal(Slice(t, lo, hi)) = Norm(t, new[p])
    BY <1>1, <1>3, Zenon
  <1> QED
    BY <1>2, <1>4, Zenon DEF Reads

\* What a window holds is read by the pieces that were added for it.
LEMMA FreshReads ==
    ASSUME NEW t \in Seq(Char), NEW n \in Nat, n = Len(t), NEW a \in 0 .. n, NEW b \in a .. n,
           NEW sl, sl = Slice(t, a, b),
           NEW fresh \in Seq(PieceSet(sl)), Tiles(sl, fresh, Len(sl)),
           NEW new, NEW old, Grown(t, new, old, <<a, b>>, fresh),
           NEW i \in Solid(t), a <= i, i < b
    PROVE  Reads(t, new.pieces, i)
  <1> DEFINE w == <<a, b>>
  <1>1. a \in Nat /\ b \in Nat /\ b <= n
    OBVIOUS
  <1>2. i \in 0 .. n - 1
    BY SolidIs
  <1>solid. t[i + 1] # " "
    BY SolidIs
  <1>3. sl \in Seq(Char) /\ Len(sl) = b - a /\ \A k \in 1 .. b - a : sl[k] = t[a + k]
    BY SliceIs
  <1> DEFINE j == i - a
  <1>4. j \in Nat /\ i = a + j /\ j < b - a /\ j + 1 \in 1 .. b - a /\ a + (j + 1) = i + 1 /\ j \in 0 .. b - a - 1
    <2>1. i \in Nat /\ a \in Nat /\ b \in Nat /\ a <= i /\ i < b
      BY <1>1, <1>2
    <2>2. j \in Nat /\ i = a + j /\ j < b - a
      BY <2>1
    <2> HIDE DEF j
    <2> QED
      BY <2>1, <2>2
  <1> HIDE DEF j
  <1>5. j \in Solid(sl) /\ j < Len(sl)
    <2>1. sl[j + 1] # " "
      BY <1>3, <1>4, <1>solid, Zenon
    <2>2. j \in 0 .. Len(sl) - 1
      BY <1>3, <1>4
    <2>3. j \in Solid(sl)
      BY <1>3, <2>1, <2>2, SolidIs, Zenon
    <2> QED
      BY <1>3, <1>4, <2>3
  <1>6. PICK k \in 1 .. Len(fresh) : fresh[k][1] <= j /\ j < fresh[k][2]
    BY <1>5, Zenon DEF Tiles
  <1>7. PICK c \in Nat, d \in Nat : c <= d /\ d <= b - a /\ fresh[k][1] = c /\ fresh[k][2] = d
    <2>1. fresh[k] \in PieceSet(sl)
      BY ElementOfSeq
    <2>2. fresh[k] \in Slices(b - a)
      BY <1>3, <2>1 DEF PieceSet
    <2>3. b - a \in Nat
      BY <1>1
    <2> QED
      BY <2>2, <2>3 DEF Slices
  <1> DEFINE s == Shift(w, fresh[k])
  <1>8. s[1] = a + c /\ s[2] = a + d
    BY <1>1, <1>7 DEF Shift
  <1>9. s[1] \in 0 .. i /\ s[2] \in i + 1 .. Len(t)
    <2>1. c <= j /\ j < d /\ c \in Nat /\ d \in Nat /\ d <= b - a
      BY <1>6, <1>7
    <2>2. a + c \in 0 .. i /\ a + d \in i + 1 .. n
      BY <1>1, <1>4, <2>1
    <2> HIDE DEF s
    <2> QED
      BY <1>1, <1>8, <2>2
  <1>10. PICK p \in 1 .. Len(new.pieces) : Norm(t, new.pieces[p]) = Norm(t, s)
    BY Zenon DEF Grown, Extends
  <1>11. Normal(Slice(t, s[1], s[2])) = Norm(t, new.pieces[p])
    BY <1>10, Zenon DEF Norm
  <1> QED
    BY <1>9, <1>11, Zenon DEF Reads

---------------------------------------------------------------------------
(* The invariant is kept                                                    *)

\* How a chunk is put together.
LEMMA ChunkIs ==
    ASSUME NEW g \in Seq(Block) \ {<<>>}, NEW t \in Seq(Char), NEW at \in Nat \X Nat
    PROVE  g[1].doc \in STRING /\ MakeChunk(g, t, at) \in Chunk
  <1>1. 1 \in 1 .. Len(g) /\ g \in Seq(Block)
    <2>1. g \in Seq(Block) /\ g # <<>>
      OBVIOUS
    <2>2. Len(g) \in Nat \ {0}
      BY <2>1, EmptySeq
    <2> QED
      BY <2>1, <2>2
  <1>2. g[1] \in Block
    BY <1>1, ElementOfSeq
  <1> QED
    BY <1>2 DEF Block, MakeChunk, Chunk

\* The chunks of a group are chunks.
LEMMA PartsChunks ==
    ASSUME NEW g \in Seq(Block) \ {<<>>}, NEW t \in Seq(Char), NEW slices \in Seq(Slices(Len(t)))
    PROVE  Parts(g, t, slices) \in Seq(Chunk)
  <1> DEFINE C == [doc : {g[1].doc}, piece : Seq(Char), at : Nat \X Nat]
  <1>1. Parts(g, t, slices) \in Seq(C)
    BY PartsAre
  <1>2. g[1].doc \in STRING
    <2>1. <<0, 0>> \in Nat \X Nat
      OBVIOUS
    <2> QED
      BY <2>1, ChunkIs
  <1>3. C \subseteq Chunk
    BY <1>2 DEF Chunk
  <1> HIDE DEF C
  <1> QED
    BY <1>1, <1>3, SeqMonotonic

\* Actions that leave the block and its pieces alone.
LEMMA Untouched ==
    ASSUME UNCHANGED <<text, windows, pieces, seen>>
    PROVE  /\ Covering => Covering'
           /\ Whole => Whole'
           /\ text \in Seq(Char) => text' \in Seq(Char)
           /\ windows \in Seq(Slices(Len(text))) => windows' \in Seq(Slices(Len(text')))
           /\ [pieces |-> pieces, seen |-> seen] \in Keepings(text) =>
                [pieces |-> pieces', seen |-> seen'] \in Keepings(text')
  <1>1. text' = text /\ windows' = windows /\ pieces' = pieces /\ seen' = seen
    OBVIOUS
  <1>2. Covering => Covering'
    BY <1>1 DEF Covering
  <1>3. Whole => Whole'
    BY <1>1 DEF Whole, OneWindow
  <1> QED
    BY <1>1, <1>2, <1>3

\* More chunks while there are no vectors.
LEMMA NoVectorsYet ==
    ASSUME Embedding, pc \in {"pack", "next", "ask"}, pc' \in {"pack", "next", "ask", "failed"},
           UNCHANGED vectors, out' \in Seq(Chunk)
    PROVE  Embedding'
  <1>1. vectors = <<>> /\ vectors' = <<>>
    BY DEF Embedding
  <1>2. Len(out') \in Nat
    BY LenProperties
  <1>3. vectors' \in Seq(Seq(Char)) /\ Len(vectors') = 0
    BY <1>1
  <1>4. Len(vectors') <= Len(out') /\ \A k \in 1 .. Len(vectors') : vectors'[k] = out'[k].piece
    BY <1>2, <1>3
  <1> QED
    BY <1>1, <1>3, <1>4 DEF Embedding

\* It holds in the beginning.
LEMMA ChunkingStarts == ChunkingInit => ChunkingInv
  <1> SUFFICES ASSUME ChunkingInit PROVE ChunkingInv
    OBVIOUS
  <1>1. /\ pc = "pack" /\ blocks \in Sources
        /\ groups = <<>> /\ text = <<>> /\ windows = <<>> /\ pieces = <<>>
        /\ seen = {} /\ cache = <<>> /\ out = <<>> /\ todo = <<>> /\ vectors = <<>>
    BY DEF ChunkingInit
  <1>2. Len(<<>>) = 0 /\ <<>> \in Seq(Char)
    OBVIOUS
  <1>3. Solid(text) = {}
    <2>1. text \in Seq(Char) /\ Len(text) = 0
      BY <1>1, <1>2
    <2>2. \A i \in Solid(text) : i \in 0 .. Len(text) - 1
      BY <2>1, SolidIs, Zenon
    <2> QED
      BY <2>1, <2>2
  <1>4. [pieces |-> pieces, seen |-> seen] \in Keepings(text)
    <2> DEFINE S == Slices(Len(text))
               N == {Norm(text, s) : s \in S}
               acc == [pieces |-> pieces, seen |-> seen]
    <2>1. acc.pieces = <<>> /\ acc.seen = {} /\ acc \in [pieces : Seq(S), seen : SUBSET N]
      BY <1>1
    <2> HIDE DEF acc, S, N
    <2> QED
      BY <2>1, Zenon DEF Keepings, acc, S, N
  <1>5. ChunkingTypes
    BY <1>1, <1>4 DEF ChunkingTypes
  <1>6. Asking /\ Covering /\ Whole
    BY <1>1, <1>3 DEF Asking, Covering, Whole
  <1>7. Embedding
    BY <1>1 DEF Embedding
  <1> QED
    BY <1>5, <1>6, <1>7 DEF ChunkingInv

\* Packing.
LEMMA PackKeeps == ChunkingInv /\ Pack => ChunkingInv'
  <1> SUFFICES ASSUME ChunkingInv, Pack PROVE ChunkingInv'
    OBVIOUS
  <1>1. ChunkingTypes /\ Asking /\ Covering /\ Whole /\ Embedding
    BY DEF ChunkingInv
  <1>2. /\ pc = "pack" /\ pc' = "next" /\ groups' = Packed(blocks)
        /\ UNCHANGED <<blocks, text, windows, pieces, seen, cache, out, todo, vectors>>
    BY DEF Pack
  <1>3. blocks \in Seq(Block)
    BY <1>1, SourcesAssumption DEF ChunkingTypes, Block
  <1>4. groups' \in Seq(Seq(Block) \ {<<>>})
    BY <1>2, <1>3, PackedIs
  <1>5. ChunkingTypes'
    BY <1>1, <1>2, <1>4, Untouched DEF ChunkingTypes
  <1>6. Asking' /\ Covering' /\ Whole'
    BY <1>1, <1>2, Untouched DEF Asking
  <1>7. Embedding'
    BY <1>1, <1>2, NoVectorsYet DEF ChunkingTypes
  <1> QED
    BY <1>5, <1>6, <1>7 DEF ChunkingInv

\* A group within the target becomes one chunk.
LEMMA TakeWholeKeeps == ChunkingInv /\ TakeWhole => ChunkingInv'
  <1> SUFFICES ASSUME ChunkingInv, TakeWhole PROVE ChunkingInv'
    OBVIOUS
  <1>1. ChunkingTypes /\ Asking /\ Covering /\ Whole /\ Embedding
    BY DEF ChunkingInv
  <1> DEFINE g == Head(groups)
             c == MakeChunk(g, Joined(g), <<0, Len(Joined(g))>>)
  <1>2. /\ pc = "next" /\ groups # <<>> /\ out' = Append(out, c) /\ groups' = Tail(groups)
        /\ UNCHANGED <<pc, blocks, text, windows, pieces, seen, cache, todo, vectors>>
    BY DEF TakeWhole
  <1>3. g \in Seq(Block) \ {<<>>} /\ groups' \in Seq(Seq(Block) \ {<<>>})
    <2> DEFINE G == Seq(Block) \ {<<>>}
    <2>1. groups \in Seq(G) /\ groups # <<>>
      BY <1>1, <1>2 DEF ChunkingTypes
    <2> HIDE DEF G
    <2>2. Head(groups) \in G /\ Tail(groups) \in Seq(G)
      BY <2>1, HeadTailProperties
    <2> QED
      BY <1>2, <2>2 DEF G
  <1> HIDE DEF g
  <1>4. Joined(g) \in Seq(Char)
    BY <1>3, JoinedIs
  <1>5. <<0, Len(Joined(g))>> \in Nat \X Nat
    <2>1. Len(Joined(g)) \in Nat
      BY <1>4, LenProperties
    <2> QED
      BY <2>1
  <1>6. c \in Chunk
    BY <1>3, <1>4, <1>5, ChunkIs
  <1>7. out' \in Seq(Chunk)
    <2> HIDE DEF c
    <2> QED
      BY <1>1, <1>2, <1>6, AppendProperties DEF ChunkingTypes
  <1> HIDE DEF c
  <1>8. ChunkingTypes'
    BY <1>1, <1>2, <1>3, <1>7, Untouched DEF ChunkingTypes
  <1>9. Asking' /\ Covering' /\ Whole'
    BY <1>1, <1>2, Untouched DEF Asking
  <1>10. Embedding'
    BY <1>1, <1>2, <1>7, NoVectorsYet
  <1> QED
    BY <1>8, <1>9, <1>10 DEF ChunkingInv

\* A block whose text is in the cache.
LEMMA TakeCachedKeeps == ChunkingInv /\ TakeCached => ChunkingInv'
  <1> SUFFICES ASSUME ChunkingInv, TakeCached PROVE ChunkingInv'
    OBVIOUS
  <1>1. ChunkingTypes /\ Asking /\ Covering /\ Whole /\ Embedding
    BY DEF ChunkingInv
  <1> DEFINE g == Head(groups)
             t == Joined(g)
  <1>2. /\ pc = "next" /\ groups # <<>> /\ groups' = Tail(groups)
        /\ UNCHANGED <<pc, blocks, text, windows, pieces, seen, todo, vectors>>
    BY DEF TakeCached, TooLong
  <1>3. PICK i \in Hit(t) : /\ cache' = Append(RemoveAt(cache, i), cache[i])
                            /\ out' = out \o Parts(g, t, cache[i].val)
    BY DEF TakeCached
  <1>4. g \in Seq(Block) \ {<<>>} /\ groups' \in Seq(Seq(Block) \ {<<>>})
    <2> DEFINE G == Seq(Block) \ {<<>>}
    <2>1. groups \in Seq(G) /\ groups # <<>>
      BY <1>1, <1>2 DEF ChunkingTypes
    <2> HIDE DEF G
    <2>2. Head(groups) \in G /\ Tail(groups) \in Seq(G)
      BY <2>1, HeadTailProperties
    <2> QED
      BY <1>2, <2>2 DEF G
  <1> HIDE DEF g
  <1>5. t \in Seq(Char)
    BY <1>4, JoinedIs
  <1> HIDE DEF t
  <1>6. i \in 1 .. Len(cache) /\ cache[i].key = t /\ cache \in Seq(Entry) /\ cache[i] \in Entry
    <2>1. cache \in Seq(Entry)
      BY <1>1 DEF ChunkingTypes
    <2>2. i \in DOMAIN cache /\ cache[i].key = t
      BY DEF Hit
    <2>3. i \in 1 .. Len(cache)
      BY <2>1, <2>2
    <2> QED
      BY <2>1, <2>2, <2>3, ElementOfSeq
  <1>7. cache[i].val \in Seq(Slices(Len(t)))
    BY <1>6 DEF Entry
  <1>8. cache' \in Seq(Entry)
    <2>1. RemoveAt(cache, i) \in Seq(Entry)
      BY <1>6, Removed
    <2> QED
      BY <1>3, <1>6, <2>1, AppendProperties
  <1>9. out' \in Seq(Chunk)
    <2>1. Parts(g, t, cache[i].val) \in Seq(Chunk)
      BY <1>4, <1>5, <1>7, PartsChunks
    <2> QED
      BY <1>1, <1>3, <2>1, ConcatProperties DEF ChunkingTypes
  <1>10. ChunkingTypes'
    BY <1>1, <1>2, <1>4, <1>8, <1>9, Untouched DEF ChunkingTypes
  <1>11. Asking' /\ Covering' /\ Whole'
    BY <1>1, <1>2, Untouched DEF Asking
  <1>12. Embedding'
    BY <1>1, <1>2, <1>9, NoVectorsYet
  <1> QED
    BY <1>10, <1>11, <1>12 DEF ChunkingInv

\* A long block is cut into windows.
LEMMA BeginPlanKeeps == ChunkingInv /\ BeginPlan => ChunkingInv'
  <1> SUFFICES ASSUME ChunkingInv, BeginPlan PROVE ChunkingInv'
    OBVIOUS
  <1>1. ChunkingTypes /\ Asking /\ Covering /\ Whole /\ Embedding
    BY DEF ChunkingInv
  <1> DEFINE g == Head(groups)
             t == Joined(g)
  <1>2. /\ pc = "next" /\ pc' = "ask" /\ groups # <<>> /\ text' = t /\ windows' = WindowsOf(t)
        /\ pieces' = <<>> /\ seen' = {}
        /\ UNCHANGED <<blocks, groups, cache, out, todo, vectors>>
    BY DEF BeginPlan, TooLong
  <1>3. g \in Seq(Block) \ {<<>>}
    <2> DEFINE G == Seq(Block) \ {<<>>}
    <2>1. groups \in Seq(G) /\ groups # <<>>
      BY <1>1, <1>2 DEF ChunkingTypes
    <2> HIDE DEF G
    <2>2. Head(groups) \in G
      BY <2>1, HeadTailProperties
    <2> QED
      BY <2>2 DEF G
  <1> HIDE DEF g
  <1>4. t \in Seq(Char)
    BY <1>3, JoinedIs
  <1> HIDE DEF t
  <1>5. /\ WindowsOf(t) \in Seq(Slices(Len(t))) /\ WindowsOf(t) # <<>>
        /\ \A i \in 0 .. Len(t) - 1 : Holding(WindowsOf(t), i)
        /\ Len(t) <= Window => WindowsOf(t) = <<<<0, Len(t)>>>>
    BY <1>4, WindowsAre
  <1>6. [pieces |-> <<>>, seen |-> {}] \in Keepings(t)
    <2> DEFINE S == Slices(Len(t))
               N == {Norm(t, s) : s \in S}
               acc == [pieces |-> <<>>, seen |-> {}]
    <2>1. acc.pieces = <<>> /\ acc.seen = {} /\ acc \in [pieces : Seq(S), seen : SUBSET N]
      OBVIOUS
    <2> HIDE DEF acc, S, N
    <2> QED
      BY <2>1, Zenon DEF Keepings, acc, S, N
  <1>7. ChunkingTypes'
    BY <1>1, <1>2, <1>4, <1>5, <1>6 DEF ChunkingTypes
  <1>8. Asking'
    BY <1>2, <1>5 DEF Asking, OneWindow
  <1>9. Covering'
    <2>1. \A i \in Solid(t) : Holding(WindowsOf(t), i)
      BY <1>4, <1>5, SolidIs, Zenon
    <2> QED
      BY <1>2, <2>1 DEF Covering
  <1>10. Whole'
    BY <1>2 DEF Whole
  <1>11. Embedding'
    BY <1>1, <1>2, NoVectorsYet DEF ChunkingTypes
  <1> QED
    BY <1>7, <1>8, <1>9, <1>10, <1>11 DEF ChunkingInv

\* A failed call, the first or the last.
LEMMA AskKeeps == ChunkingInv /\ (AskAgain \/ AskFails) => ChunkingInv'
  <1> SUFFICES ASSUME ChunkingInv, AskAgain \/ AskFails PROVE ChunkingInv'
    OBVIOUS
  <1>1. ChunkingTypes /\ Asking /\ Covering /\ Whole /\ Embedding
    BY DEF ChunkingInv
  <1>2. /\ pc = "ask" /\ pc' \in {"ask", "failed"}
        /\ UNCHANGED <<blocks, groups, text, windows, pieces, seen, cache, out, todo, vectors>>
    BY DEF AskAgain, AskFails
  <1>3. ChunkingTypes'
    BY <1>1, <1>2, Untouched DEF ChunkingTypes
  <1>4. Asking'
    BY <1>1, <1>2 DEF Asking, OneWindow
  <1>5. Covering' /\ Whole'
    BY <1>1, <1>2, Untouched
  <1>6. Embedding'
    BY <1>1, <1>2, NoVectorsYet DEF ChunkingTypes
  <1> QED
    BY <1>3, <1>4, <1>5, <1>6 DEF ChunkingInv

\* Batches are made, sent, halved, and done.
LEMMA EmbedKeeps == ChunkingInv /\ (BeginEmbed \/ EmbedBatch \/ Embedded) => ChunkingInv'
  <1> SUFFICES ASSUME ChunkingInv, BeginEmbed \/ EmbedBatch \/ Embedded PROVE ChunkingInv'
    OBVIOUS
  <1>1. ChunkingTypes /\ Asking /\ Covering /\ Whole /\ Embedding
    BY DEF ChunkingInv
  <1>2. /\ pc' # "ask"
        /\ UNCHANGED <<blocks, groups, text, windows, pieces, seen, cache, out>>
    BY DEF BeginEmbed, EmbedBatch, Embedded
  <1>3. ChunkingTypes'
    BY <1>1, <1>2, Untouched DEF ChunkingTypes
  <1>4. Asking' /\ Covering' /\ Whole'
    BY <1>1, <1>2, Untouched DEF Asking
  <1>5. out \in Seq(Chunk) /\ Len(out) \in Nat
    <2>1. out \in Seq(Chunk)
      BY <1>1 DEF ChunkingTypes
    <2> QED
      BY <2>1, LenProperties
  <1>6. /\ vectors \in Seq(Seq(Char)) /\ Len(vectors) <= Len(out) /\ Len(vectors) \in Nat
        /\ \A k \in 1 .. Len(vectors) : vectors[k] = out[k].piece
        /\ pc \in {"pack", "next", "ask"} => vectors = <<>>
        /\ pc = "embed" => IsQueue(todo, Len(vectors), Len(out))
    BY <1>1, LenProperties DEF Embedding
  <1>7. CASE BeginEmbed
    <2>1. pc = "next" /\ pc' = "embed" /\ todo' = Batches(Len(out)) /\ vectors' = vectors /\ out' = out
      BY <1>7 DEF BeginEmbed
    <2>2. vectors = <<>> /\ Len(vectors) = 0
      BY <1>6, <2>1
    <2>3. IsQueue(todo', Len(vectors'), Len(out'))
      BY <1>5, <2>1, <2>2, BatchesAre
    <2>4. Embedding'
      BY <1>6, <2>1, <2>2, <2>3 DEF Embedding
    <2> QED
      BY <1>3, <1>4, <2>4 DEF ChunkingInv
  <1>8. CASE Embedded
    <2>1. pc = "embed" /\ pc' = "done" /\ todo = <<>> /\ vectors' = vectors /\ out' = out
      BY <1>8 DEF Embedded
    <2>2. Len(vectors) = Len(out)
      <3>1. IsQueue(<<>>, Len(vectors), Len(out))
        BY <1>6, <2>1
      <3>2. Begins(<<>>, Len(vectors), 0 + 1) = Len(out)
        <4>1. Len(<<>>) = 0
          OBVIOUS
        <4> QED
          BY <3>1, <4>1 DEF IsQueue
      <3> QED
        BY <3>2 DEF Begins
    <2>3. Embedding'
      BY <1>6, <2>1, <2>2 DEF Embedding
    <2> QED
      BY <1>3, <1>4, <2>3 DEF ChunkingInv
  <1>9. CASE EmbedBatch
    <2> DEFINE b == Head(todo)
               n == Len(vectors)
               m == Len(out)
               batch == [i \in 1 .. Size(b) |-> out[b[1] + i].piece]
    <2>1. pc = "embed" /\ todo # <<>> /\ out' = out /\ IsQueue(todo, n, m)
      BY <1>6, <1>9 DEF EmbedBatch
    <2>2. b \in Nat \X Nat /\ b[1] = n /\ n < b[2] /\ b[2] <= m /\ IsQueue(Tail(todo), b[2], m)
      BY <1>5, <1>6, <2>1, QueueTail
    <2>3. CASE vectors' = vectors \o batch /\ todo' = Tail(todo) /\ pc' = pc
      <3>1. Size(b) \in Nat /\ n + Size(b) = b[2] /\ n \in Nat /\ m \in Nat
        <4>1. b[2] \in Nat /\ n \in Nat /\ m \in Nat
          BY <1>5, <1>6, <2>2
        <4> HIDE DEF b, n, m
        <4> QED
          BY <2>2, <4>1 DEF Size
      <3> HIDE DEF b, n, m
      <3>2. \A i \in 1 .. Size(b) : batch[i] = out[n + i].piece /\ n + i \in 1 .. m
        BY <2>2, <3>1
      <3>3. batch \in Seq(Seq(Char)) /\ Len(batch) = Size(b)
        <4>1. \A i \in 1 .. Size(b) : batch[i] \in Seq(Char)
          <5> TAKE i \in 1 .. Size(b)
          <5>1. out[n + i] \in Chunk
            BY <1>5, <3>2, ElementOfSeq DEF m
          <5> QED
            BY <3>2, <5>1 DEF Chunk
        <4>2. batch = [i \in 1 .. Size(b) |-> batch[i]]
          OBVIOUS
        <4> HIDE DEF batch
        <4>3. batch \in [1 .. Size(b) -> Seq(Char)]
          BY <4>1, <4>2
        <4>4. batch \in Seq(Seq(Char))
          BY <3>1, <4>3, TypedSeq
        <4> QED
          BY <3>1, <4>3, <4>4, LenProperties
      <3> HIDE DEF batch
      <3>4. /\ vectors' \in Seq(Seq(Char)) /\ Len(vectors') = n + Size(b)
            /\ \A i \in 1 .. n + Size(b) : vectors'[i] = IF i <= n THEN vectors[i] ELSE batch[i - n]
        <4> DEFINE S == Seq(Char)
        <4>1. vectors \in Seq(S) /\ batch \in Seq(S)
          BY <1>6, <3>3
        <4> HIDE DEF S
        <4>2. /\ vectors \o batch \in Seq(S) /\ Len(vectors \o batch) = Len(vectors) + Len(batch)
              /\ \A i \in 1 .. Len(vectors) + Len(batch) :
                   (vectors \o batch)[i] = IF i <= Len(vectors) THEN vectors[i] ELSE batch[i - Len(vectors)]
          BY <4>1, ConcatProperties
        <4> QED
          BY <2>3, <3>3, <4>2 DEF n, S
      <3>5. ASSUME NEW k \in 1 .. b[2] PROVE vectors'[k] = out[k].piece
        <4>1. CASE k <= n
          <5>1. k \in 1 .. n
            BY <3>1, <4>1
          <5> QED
            BY <1>6, <3>1, <3>4, <4>1, <5>1 DEF n
        <4>2. CASE ~ (k <= n)
          <5>1. k - n \in 1 .. Size(b) /\ n + (k - n) = k /\ k \in 1 .. n + Size(b)
            BY <3>1, <4>2
          <5>2. batch[k - n] = out[k].piece
            BY <3>2, <5>1
          <5> QED
            BY <3>4, <4>2, <5>1, <5>2
        <4> QED
          BY <4>1, <4>2
      <3>6. Len(vectors') = b[2] /\ Len(out') = m
        BY <2>1, <3>1, <3>4 DEF m
      <3>7. Embedding'
        BY <2>1, <2>2, <2>3, <3>4, <3>5, <3>6 DEF Embedding
      <3> QED
        BY <1>3, <1>4, <3>7 DEF ChunkingInv
    <2>4. CASE Size(b) > 1 /\ todo' = Halve(b, Tail(todo)) /\ UNCHANGED <<pc, vectors>>
      <3>1. IsQueue(todo', n, m)
        BY <1>5, <1>6, <2>1, <2>4, QueueHalved
      <3>2. Embedding'
        BY <1>6, <2>1, <2>4, <3>1 DEF Embedding
      <3> QED
        BY <1>3, <1>4, <3>2 DEF ChunkingInv
    <2>5. CASE pc' = "failed" /\ UNCHANGED <<todo, vectors>>
      <3>1. Embedding'
        BY <1>6, <2>1, <2>5 DEF Embedding
      <3> QED
        BY <1>3, <1>4, <3>1 DEF ChunkingInv
    <2> QED
      BY <1>9, <2>3, <2>4, <2>5 DEF EmbedBatch
  <1> QED
    BY <1>7, <1>8, <1>9

\* An answer with offsets, for a window that is the last or not.
LEMMA AnswerKeeps ==
    ASSUME NEW a \in Answers
    PROVE  ChunkingInv /\ Answer(a) => ChunkingInv'
  <1> SUFFICES ASSUME ChunkingInv, Answer(a) PROVE ChunkingInv'
    OBVIOUS
  <1>1. ChunkingTypes /\ Asking /\ Covering /\ Whole /\ Embedding
    BY DEF ChunkingInv
  <1> DEFINE w == Head(windows)
             sl == Slice(text, w[1], w[2])
             fresh == PlanPieces(sl, a)
             windowed == Len(WindowsOf(text)) > 1
             added == AddPieces(w, fresh, windowed)
             old == [pieces |-> pieces, seen |-> seen]
             n == Len(text)
  <1>2. pc = "ask" /\ UNCHANGED <<blocks, text, todo, vectors>> /\ groups # <<>> /\ windows # <<>>
    BY <1>1 DEF Answer, Asking
  <1>3. CASE fresh = <<>>
    <2>1. pc' = "failed" /\ UNCHANGED <<groups, windows, pieces, seen, cache, out>>
      BY <1>3 DEF Answer
    <2>2. ChunkingTypes'
      BY <1>1, <1>2, <2>1, Untouched DEF ChunkingTypes
    <2>3. Asking' /\ Covering' /\ Whole'
      BY <1>1, <1>2, <2>1, Untouched DEF Asking
    <2>4. Embedding'
      BY <1>1, <1>2, <2>1, NoVectorsYet DEF ChunkingTypes
    <2> QED
      BY <2>2, <2>3, <2>4 DEF ChunkingInv
  <1>4. CASE fresh # <<>>
    <2>1. /\ pieces' = added.pieces /\ seen' = added.seen /\ windows' = Tail(windows)
          /\ \/ Tail(windows) # <<>> /\ UNCHANGED <<pc, groups, cache, out>>
             \/ /\ Tail(windows) = <<>> /\ pc' = "next"
                /\ cache' = Stored(text, added.pieces)
                /\ out' = out \o Parts(Head(groups), text, added.pieces)
                /\ groups' = Tail(groups)
      BY <1>4 DEF Answer
    <2>2. n \in Nat /\ text \in Seq(Char) /\ windows \in Seq(Slices(n)) /\ old \in Keepings(text)
      BY <1>1, LenProperties DEF ChunkingTypes
    <2>3. /\ w \in Slices(n) /\ Tail(windows) \in Seq(Slices(n)) /\ Len(Tail(windows)) = Len(windows) - 1
          /\ w = windows[1] /\ \A i \in 1 .. Len(windows) - 1 : Tail(windows)[i] = windows[i + 1]
      <3> DEFINE S == Slices(n)
      <3>1. windows \in Seq(S) /\ windows # <<>>
        BY <1>2, <2>2
      <3> HIDE DEF S
      <3>2. /\ Head(windows) \in S /\ Tail(windows) \in Seq(S) /\ Len(Tail(windows)) = Len(windows) - 1
            /\ Head(windows) = windows[1] /\ \A i \in 1 .. Len(Tail(windows)) : Tail(windows)[i] = windows[i + 1]
        BY <3>1, HeadTailProperties
      <3> QED
        BY <3>2 DEF S
    <2> HIDE DEF w, n
    <2>4. w[1] \in 0 .. n /\ w[2] \in w[1] .. n /\ w = <<w[1], w[2]>>
      BY <2>2, <2>3 DEF Slices
    <2>5. sl \in Seq(Char) /\ Len(sl) = w[2] - w[1]
      BY <2>2, <2>4, SliceIs DEF n
    <2>6. fresh \in Seq(PieceSet(sl)) /\ Tiles(sl, fresh, Len(sl))
      <3>1. a \in SUBSET (Int \X Int)
        BY AnswersAssumption
      <3> HIDE DEF sl
      <3> QED
        BY <2>5, <3>1, PlanPiecesAre
    <2>7. fresh \in Seq(Slices(w[2] - w[1]))
      <3>1. PieceSet(sl) \subseteq Slices(Len(sl))
        BY DEF PieceSet
      <3> HIDE DEF sl, fresh
      <3> DEFINE P == PieceSet(sl)
                 S == Slices(Len(sl))
      <3>2. fresh \in Seq(P) /\ P \subseteq S
        BY <2>6, <3>1
      <3> HIDE DEF P, S
      <3>3. fresh \in Seq(S)
        BY <3>2, SeqMonotonic
      <3> QED
        BY <2>5, <3>3 DEF S
    <2> HIDE DEF sl, fresh, windowed, old
    <2>8. /\ added \in Keepings(text) /\ Grown(text, added, old, w, fresh)
          /\ ~ windowed /\ pieces = <<>> =>
               /\ Len(added.pieces) = Len(fresh)
               /\ \A j \in 1 .. Len(fresh) : added.pieces[j] = Shift(w, fresh[j])
      BY <2>2, <2>3, <2>7, AddPiecesAre DEF old, n
    <2> HIDE DEF added
    <2>9. added = [pieces |-> added.pieces, seen |-> added.seen] /\ added.pieces \in Seq(Slices(n))
      BY <2>8 DEF Keepings, n
    <2>10. ASSUME Tail(windows) = <<>>
           PROVE  cache' \in Seq(Entry) /\ out' \in Seq(Chunk) /\ groups' \in Seq(Seq(Block) \ {<<>>})
      <3> DEFINE G == Seq(Block) \ {<<>>}
      <3>1. /\ cache' = Stored(text, added.pieces)
            /\ out' = out \o Parts(Head(groups), text, added.pieces) /\ groups' = Tail(groups)
        BY <2>1, <2>10
      <3>2. groups \in Seq(G) /\ groups # <<>> /\ cache \in Seq(Entry) /\ out \in Seq(Chunk)
        BY <1>1, <1>2 DEF ChunkingTypes
      <3> HIDE DEF G
      <3>3. Head(groups) \in G /\ Tail(groups) \in Seq(G)
        BY <3>2, HeadTailProperties
      <3>4. cache' \in Seq(Entry)
        BY <2>2, <2>9, <3>1, <3>2, StoredIs DEF n
      <3>5. Parts(Head(groups), text, added.pieces) \in Seq(Chunk)
        BY <2>2, <2>9, <3>3, PartsChunks DEF n, G
      <3>6. out' \in Seq(Chunk)
        BY <3>1, <3>2, <3>5, ConcatProperties
      <3> QED
        BY <3>1, <3>3, <3>4, <3>6 DEF G
    <2>11. ChunkingTypes'
      <3>1. /\ text' \in Seq(Char) /\ windows' \in Seq(Slices(Len(text')))
            /\ [pieces |-> pieces', seen |-> seen'] \in Keepings(text')
        <4>1. [pieces |-> pieces', seen |-> seen'] = added
          BY <2>1, <2>9
        <4> QED
          BY <1>2, <2>1, <2>2, <2>3, <2>8, <4>1 DEF n
      <3>2. cache' \in Seq(Entry) /\ out' \in Seq(Chunk) /\ groups' \in Seq(Seq(Block) \ {<<>>})
        BY <1>1, <2>1, <2>10 DEF ChunkingTypes
      <3> QED
        BY <1>1, <1>2, <3>1, <3>2 DEF ChunkingTypes
    <2>12. OneWindow => windows = <<<<0, n>>>> /\ pieces = <<>> /\ Tail(windows) = <<>> /\ ~ windowed
      <3> SUFFICES ASSUME OneWindow PROVE windows = <<<<0, n>>>> /\ pieces = <<>> /\ Tail(windows) = <<>> /\ ~ windowed
        OBVIOUS
      <3>1. windows = <<<<0, n>>>> /\ pieces = <<>>
        BY <1>1, <1>2 DEF Asking, n
      <3>2. Tail(windows) = <<>>
        BY <3>1
      <3>3. ~ windowed
        <4>1. Len(WindowsOf(text)) > 1 => Len(text) > Window
          BY <2>2, WindowsAre
        <4>2. Len(text) <= Window /\ Len(text) \in Nat /\ Window \in Nat
          BY <2>2, WindowSizes DEF OneWindow, n
        <4>3. ~ (Len(text) > Window)
          BY <4>2
        <4> QED
          BY <4>1, <4>3, Zenon DEF windowed
      <3> QED
        BY <3>1, <3>2, <3>3
    <2>13. Asking'
      <3>1. ASSUME pc' = "ask" PROVE groups' # <<>> /\ windows' # <<>> /\ ~ OneWindow'
        <4>1. Tail(windows) # <<>> /\ groups' = groups
          BY <2>1, <3>1
        <4>2. OneWindow' = OneWindow
          BY <1>2 DEF OneWindow
        <4> QED
          BY <1>2, <2>1, <2>12, <4>1, <4>2
      <3> QED
        BY <3>1 DEF Asking
    <2>14. Covering'
      <3> SUFFICES ASSUME NEW i \in Solid(text)
                   PROVE  Reads(text, added.pieces, i) \/ Holding(Tail(windows), i)
        BY <1>2, <2>1 DEF Covering
      <3>1. CASE Reads(text, pieces, i)
        <4>1. old.pieces = pieces /\ Len(pieces) \in Nat /\ Len(added.pieces) \in Nat
          <5>1. old.pieces = pieces
            BY DEF old
          <5>2. old.pieces \in Seq(Slices(n))
            BY <2>2 DEF Keepings, n
          <5> QED
            BY <2>9, <5>1, <5>2, LenProperties
        <4>2. Len(pieces) <= Len(added.pieces) /\ \A p \in 1 .. Len(pieces) : added.pieces[p] = pieces[p]
          BY <2>8, <4>1 DEF Grown, Extends
        <4> QED
          BY <3>1, <4>1, <4>2, ReadsOn
      <3>2. CASE Holding(windows, i)
        <4>1. PICK k \in 1 .. Len(windows) : windows[k][1] <= i /\ i < windows[k][2]
          BY <3>2, Zenon DEF Holding
        <4>2. CASE k = 1
          <5>1. w[1] <= i /\ i < w[2] /\ Len(text) = n /\ sl = Slice(text, w[1], w[2])
            BY <2>3, <4>1, <4>2 DEF n, sl
          <5>2. Grown(text, added, old, <<w[1], w[2]>>, fresh)
            BY <2>4, <2>8
          <5> QED
            BY <2>2, <2>4, <2>6, <5>1, <5>2, FreshReads
        <4>3. CASE k # 1
          <5>1. k - 1 \in 1 .. Len(windows) - 1 /\ k - 1 + 1 = k
            <6>1. Len(windows) \in Nat
              BY <2>2, LenProperties
            <6> QED
              BY <4>3, <6>1
          <5>2. Tail(windows)[k - 1] = windows[k] /\ k - 1 \in 1 .. Len(Tail(windows))
            BY <2>3, <5>1
          <5>3. Holding(Tail(windows), i)
            <6>1. Tail(windows)[k - 1][1] <= i /\ i < Tail(windows)[k - 1][2]
              BY <4>1, <5>2
            <6> QED
              BY <5>2, <6>1, Zenon DEF Holding
          <5> QED
            BY <5>3
        <4> QED
          BY <4>2, <4>3
      <3> QED
        BY <1>1, <3>1, <3>2 DEF Covering
    <2>15. Whole'
      <3> SUFFICES ASSUME OneWindow PROVE added.pieces \in Seq(PieceSet(text)) /\ Tiles(text, added.pieces, Len(text))
        BY <1>2, <2>1 DEF Whole, OneWindow
      <3>1. w = <<0, n>> /\ ~ windowed /\ pieces = <<>>
        BY <2>3, <2>12
      <3>2. sl = text
        <4>1. w[1] = 0 /\ w[2] = Len(text)
          BY <3>1 DEF n
        <4> QED
          BY <2>2, <4>1, WholeSlice DEF sl
      <3>3. added.pieces = fresh
        <4>1. Len(added.pieces) = Len(fresh) /\ \A j \in 1 .. Len(fresh) : added.pieces[j] = Shift(w, fresh[j])
          BY <2>8, <3>1
        <4> DEFINE S == Slices(n)
        <4>2. fresh \in Seq(S)
          <5>1. w[2] - w[1] = n
            BY <2>2, <3>1
          <5> QED
            BY <2>7, <5>1
        <4>3. ASSUME NEW j \in 1 .. Len(fresh) PROVE added.pieces[j] = fresh[j]
          <5>1. fresh[j] \in S
            <6> HIDE DEF S
            <6> QED
              BY <4>2, ElementOfSeq
          <5>2. fresh[j] = <<fresh[j][1], fresh[j][2]>> /\ fresh[j][1] \in 0 .. n /\ fresh[j][2] \in 0 .. n
            BY <5>1 DEF Slices
          <5>3. Shift(w, fresh[j]) = <<0 + fresh[j][1], 0 + fresh[j][2]>>
            BY <3>1 DEF Shift
          <5>4. 0 + fresh[j][1] = fresh[j][1] /\ 0 + fresh[j][2] = fresh[j][2]
            BY <2>2, <5>2
          <5> QED
            BY <4>1, <5>2, <5>3, <5>4
        <4>4. added.pieces \in Seq(S)
          BY <2>9
        <4> HIDE DEF S
        <4> QED
          BY <4>1, <4>2, <4>3, <4>4, SeqEqual
      <3> QED
        BY <2>6, <3>2, <3>3
    <2>16. Embedding'
      BY <1>1, <1>2, <2>1, <2>11, NoVectorsYet DEF ChunkingTypes
    <2> QED
      BY <2>11, <2>13, <2>14, <2>15, <2>16 DEF ChunkingInv
  <1> QED
    BY <1>3, <1>4

\* The invariant holds in every reachable state.
LEMMA ChunkingAlways == ChunkingSpec => []ChunkingInv
  <1>1. ChunkingInv /\ [ChunkingNext]_chunkingVars => ChunkingInv'
    <2> SUFFICES ASSUME ChunkingInv, [ChunkingNext]_chunkingVars PROVE ChunkingInv'
      OBVIOUS
    <2>1. CASE UNCHANGED chunkingVars
      <3>1. /\ UNCHANGED <<pc, blocks, groups, text, windows, pieces, seen, cache, out, todo, vectors>>
            /\ ChunkingTypes /\ Asking /\ Covering /\ Whole /\ Embedding
        BY <2>1 DEF chunkingVars, ChunkingInv
      <3>2. ChunkingTypes' /\ Asking' /\ Covering' /\ Whole'
        BY <3>1, Untouched DEF ChunkingTypes, Asking, OneWindow
      <3>3. Embedding'
        BY <3>1 DEF Embedding
      <3> QED
        BY <3>2, <3>3 DEF ChunkingInv
    <2> QED
      BY <2>1, PackKeeps, TakeWholeKeeps, TakeCachedKeeps, BeginPlanKeeps, AskKeeps, AnswerKeeps, EmbedKeeps
         DEF ChunkingNext
  <1> QED
    BY <1>1, ChunkingStarts, PTL DEF ChunkingSpec

\* Whatever the model answers and however long the texts, windows and words are:
\* every character of a long block that is not white space lies in a passage
\* that reads like one of its chunks, and no word is cut that a snap can keep
\* (chunk_text, _normalize_chunk_plan, _snap_to_word_boundary).
THEOREM PlanAlwaysHolds == ChunkingSpec => []PlanHolds
  <1>1. ChunkingInv => PlanHolds
    <2> SUFFICES ASSUME ChunkingInv PROVE PlanHolds
      OBVIOUS
    <2>1. ChunkingTypes /\ Covering /\ Whole
      BY DEF ChunkingInv
    <2>2. text \in Seq(Char) /\ pieces \in Seq(Slices(Len(text))) /\ Len(pieces) \in Nat /\ DOMAIN pieces = 1 .. Len(pieces)
      <3> DEFINE acc == [pieces |-> pieces, seen |-> seen]
      <3>1. acc \in Keepings(text) /\ acc.pieces = pieces /\ text \in Seq(Char)
        BY <2>1 DEF ChunkingTypes
      <3> HIDE DEF acc
      <3>2. pieces \in Seq(Slices(Len(text)))
        BY <3>1 DEF Keepings
      <3> QED
        BY <3>1, <3>2, LenProperties
    <2>3. NothingLost
      <3> SUFFICES ASSUME PlanEnded, NEW i \in Solid(text)
                   PROVE  \E s \in ToSet(pieces), lo \in 0 .. i, hi \in i + 1 .. Len(text) :
                            Normal(Slice(text, lo, hi)) = Normal(Slice(text, s[1], s[2]))
        BY DEF NothingLost
      <3>1. ~ Holding(windows, i)
        <4>1. windows = <<>>
          BY DEF PlanEnded
        <4>2. 1 .. Len(windows) = {}
          BY <4>1
        <4> QED
          BY <4>2, Zenon DEF Holding
      <3>2. Reads(text, pieces, i)
        BY <2>1, <3>1, Zenon DEF Covering
      <3>3. PICK p \in 1 .. Len(pieces), lo \in 0 .. i, hi \in i + 1 .. Len(text) :
               Normal(Slice(text, lo, hi)) = Norm(text, pieces[p])
        BY <3>2, Zenon DEF Reads
      <3>4. pieces[p] \in ToSet(pieces)
        BY <2>2, Zenon DEF ToSet
      <3>5. Normal(Slice(text, lo, hi)) = Normal(Slice(text, pieces[p][1], pieces[p][2]))
        BY <3>3, Zenon DEF Norm
      <3> QED
        BY <3>4, <3>5, Zenon
    <2>4. WordsKept
      <3>1. ASSUME PlanEnded /\ OneWindow, NEW k \in DOMAIN pieces
            PROVE  WordSafe(text, pieces[k][1])
        <4>1. pieces \in Seq(PieceSet(text))
          BY <2>1, <3>1 DEF Whole, PlanEnded
        <4>2. pieces[k] \in PieceSet(text)
          BY <2>2, <4>1, ElementOfSeq
        <4>3. pieces[k][1] \in Solid(text) /\ Safe(text, pieces[k][1])
          BY <4>2 DEF PieceSet
        <4>4. pieces[k][1] < Len(text)
          <5>1. pieces[k][1] \in 0 .. Len(text) - 1 /\ Len(text) \in Nat
            BY <2>2, <4>3, SolidIs
          <5> QED
            BY <5>1
        <4> QED
          BY <4>3, <4>4, Zenon DEF Safe
      <3> QED
        BY <3>1, Zenon DEF WordsKept, WordSafe
    <2> QED
      BY <2>3, <2>4 DEF PlanHolds
  <1> QED
    BY <1>1, ChunkingAlways, PTL

\* Whatever is parsed: the byte ranges of a block of one window are the places
\* where its chunks were cut, and packing keeps the blocks, their order, their
\* documents and the target (_pack_blocks, _find_byte_range in normalize.py).
THEOREM ChunksAlwaysHold == ChunkingSpec => []ChunksHold
  <1>1. ChunkingInv => ChunksHold
    <2> SUFFICES ASSUME ChunkingInv PROVE ChunksHold
      OBVIOUS
    <2>1. ChunkingTypes /\ Whole
      BY DEF ChunkingInv
    <2>2. text \in Seq(Char) /\ blocks \in Seq(Block)
      BY <2>1, SourcesAssumption DEF ChunkingTypes, Block
    <2>3. RangesAreTrue
      <3>1. ASSUME PlanEnded /\ OneWindow, NEW k \in DOMAIN pieces
            PROVE  Parts(<<[doc |-> "", text |-> text]>>, text, pieces)[k].at = pieces[k]
        <4>1. pieces \in Seq(PieceSet(text)) /\ Tiles(text, pieces, Len(text))
          BY <2>1, <3>1 DEF Whole, PlanEnded
        <4>2. k \in 1 .. Len(pieces)
          BY <4>1, LenProperties
        <4> DEFINE g == <<[doc |-> "", text |-> text]>>
                   G == {g}
        <4>3. g \in G
          BY Zenon
        <4> HIDE DEF g, G
        <4>4. \A j \in 1 .. Len(pieces) : Parts(g, text, pieces)[j].at = pieces[j]
          BY <2>2, <4>1, <4>3, TrueRanges
        <4> QED
          BY <4>2, <4>4, Zenon DEF g
      <3> QED
        BY <3>1, Zenon DEF RangesAreTrue
    <2>4. PackedWell
      <3> DEFINE P == Packed(blocks)
                 G == Seq(Block) \ {<<>>}
      <3>1. P \in Seq(G) /\ (\A k \in 1 .. Len(P) : WellPacked(P[k])) /\ FlattenSeq(P) = WithText(blocks)
        BY <2>2, PackedIs
      <3> HIDE DEF P
      <3>2. ASSUME NEW g \in ToSet(P)
            PROVE  (\A b \in ToSet(g) : b.doc = g[1].doc) /\ (Len(g) > 1 => Len(Joined(g)) <= Target)
        <4>1. PICK k \in DOMAIN P : g = P[k]
          BY Zenon DEF ToSet
        <4> HIDE DEF G
        <4>2. k \in 1 .. Len(P) /\ P[k] \in G
          BY <3>1, LenProperties, ElementOfSeq
        <4>3. g \in Seq(Block) /\ WellPacked(g)
          BY <3>1, <4>1, <4>2 DEF G
        <4>4. DOMAIN g = 1 .. Len(g)
          BY <4>3, LenProperties
        <4>5. \A b \in ToSet(g) : b.doc = g[1].doc
          <5> TAKE b \in ToSet(g)
          <5>1. PICK i \in DOMAIN g : b = g[i]
            BY Zenon DEF ToSet
          <5> QED
            BY <4>3, <4>4, <5>1 DEF WellPacked
        <4> QED
          BY <4>3, <4>5 DEF WellPacked
      <3> QED
        BY <3>1, <3>2, Zenon DEF PackedWell, WithText, P
    <2> QED
      BY <2>3, <2>4 DEF ChunksHold
  <1> QED
    BY <1>1, ChunkingAlways, PTL

\* However many chunks there are and however their batches are refused and
\* halved: the vectors are those of the chunks, in their order, and none is
\* missing in the end (embed_texts, _embed_batch).
THEOREM VectorsAlwaysInOrder == ChunkingSpec => []VectorsInOrder
  <1>1. ChunkingInv => VectorsInOrder
    <2> SUFFICES ASSUME ChunkingInv PROVE VectorsInOrder
      OBVIOUS
    <2> DEFINE texts == [i \in DOMAIN out |-> out[i].piece]
               n == Len(vectors)
    <2>1. ChunkingTypes /\ Embedding
      BY DEF ChunkingInv
    <2>2. out \in Seq(Chunk) /\ Len(out) \in Nat /\ DOMAIN out = 1 .. Len(out)
      BY <2>1, LenProperties DEF ChunkingTypes
    <2>3. texts \in Seq(Seq(Char)) /\ Len(texts) = Len(out) /\ \A i \in 1 .. Len(out) : texts[i] = out[i].piece
      <3>1. \A i \in 1 .. Len(out) : texts[i] = out[i].piece
        BY <2>2
      <3>2. \A i \in 1 .. Len(out) : texts[i] \in Seq(Char)
        <4> TAKE i \in 1 .. Len(out)
        <4>1. out[i] \in Chunk
          BY <2>2, ElementOfSeq
        <4> QED
          BY <3>1, <4>1 DEF Chunk
      <3>3. texts = [i \in 1 .. Len(out) |-> texts[i]]
        BY <2>2
      <3> HIDE DEF texts
      <3>4. texts \in [1 .. Len(out) -> Seq(Char)]
        BY <3>2, <3>3
      <3>5. texts \in Seq(Seq(Char))
        BY <2>2, <3>4, TypedSeq
      <3> QED
        BY <2>2, <3>1, <3>4, <3>5, LenProperties
    <2>4. vectors \in Seq(Seq(Char)) /\ n \in Nat /\ n <= Len(out) /\ \A k \in 1 .. n : vectors[k] = out[k].piece
      BY <2>1, LenProperties DEF Embedding
    <2> HIDE DEF texts
    <2>5. IsPrefix(vectors, texts)
      <3> DEFINE S == Seq(Char)
                 a == SubSeq(vectors, 1, n)
                 b == SubSeq(texts, 1, n)
      <3>1. a = vectors
        <4>1. vectors \in Seq(S)
          BY <2>4
        <4> HIDE DEF S
        <4> QED
          BY <4>1, SubSeqFull
      <3>2. b \in Seq(S) /\ Len(b) = n /\ \A i \in 1 .. n : b[i] = texts[i]
        <4>1. \A i \in 1 .. n : texts[i] \in S
          <5> TAKE i \in 1 .. n
          <5>1. i \in 1 .. Len(texts) /\ texts \in Seq(S)
            BY <2>2, <2>3, <2>4
          <5> HIDE DEF S
          <5> QED
            BY <5>1, ElementOfSeq
        <4>2. 1 \in Int /\ n \in Int
          BY <2>4
        <4> HIDE DEF S, n
        <4>3. /\ b \in Seq(S) /\ Len(b) = IF 1 <= n THEN n - 1 + 1 ELSE 0
              /\ \A i \in 1 .. n - 1 + 1 : b[i] = texts[1 + i - 1]
          BY <4>1, <4>2, SubSeqProperties
        <4> QED
          BY <2>4, <4>3
      <3>3. \A i \in 1 .. n : vectors[i] = b[i]
        BY <2>2, <2>3, <2>4, <3>2
      <3>4. vectors = b
        <4>1. vectors \in Seq(S) /\ b \in Seq(S) /\ Len(vectors) = Len(b) /\ \A i \in 1 .. Len(vectors) : vectors[i] = b[i]
          BY <2>4, <3>2, <3>3
        <4> HIDE DEF S, b, n
        <4> QED
          BY <4>1, SeqEqual
      <3> QED
        BY <2>3, <2>4, <3>1, <3>4, Zenon DEF IsPrefix
    <2>6. ASSUME pc = "done" PROVE vectors = texts
      <3>1. n = Len(out)
        BY <2>1, <2>6 DEF Embedding
      <3> DEFINE S == Seq(Char)
      <3>2. vectors \in Seq(S) /\ texts \in Seq(S) /\ Len(vectors) = Len(texts)
            /\ \A i \in 1 .. Len(vectors) : vectors[i] = texts[i]
        BY <2>3, <2>4, <3>1
      <3> HIDE DEF S, n
      <3> QED
        BY <3>2, SeqEqual
    <2> QED
      BY <2>5, <2>6 DEF VectorsInOrder, texts
  <1> QED
    BY <1>1, ChunkingAlways, PTL

---------------------------------------------------------------------------
(* The registry of jobs                                                     *)

USE NoneAssumption, BoundsAssumption DEF Goes, Rests, At

\* The values of the data that every step below computes with.
LEMMA Vocabulary ==
    /\ Row \subseteq JobState
    /\ Patch \subseteq Row
    /\ "pending" \in Row /\ "cancelled" \in Row
    /\ NoCall \in Call
    /\ \A js \in SUBSET Jobs :
          /\ Resting(js) \in WorkerState
          /\ Resting(js).pc \notin Busy
          /\ Resting(js).job = None
          /\ Resting(js).todo = js
  BY DEF Row, JobState, Patch, Active, Finished, NoCall, Call, Resting, WorkerState,
         WorkerPC, Busy, RunPC

\* A write to a row keeps the type of the table and touches no other job.
LEMMA WrittenType ==
    ASSUME NEW j, NEW s \in Row, status \in [Jobs -> JobState]
    PROVE  /\ Written(j, s) \in [Jobs -> JobState]
           /\ \A k \in Jobs : Written(j, s)[k] = IF k = j /\ status[k] \in Row THEN s ELSE status[k]
  BY DEF Written, Row, JobState, Active, Finished

\* A cascade keeps the type of the table and removes exactly the rows of c.
LEMMA CascadeType ==
    ASSUME NEW c, status \in [Jobs -> JobState]
    PROVE  /\ Cascade(c) \in [Jobs -> JobState]
           /\ \A k \in Jobs : Cascade(c)[k] = IF corpusOf[k] = c /\ status[k] \in Row THEN "gone" ELSE status[k]
  BY DEF Cascade, Rows, JobState

-----------------------------------------------------------------------------
(* Type correctness *)

\* The registry starts well typed.
LEMMA InitType == Init => TypeOK
  BY Vocabulary DEF Init, TypeOK, JobState

\* Every management call, worker step, fault and late request keeps the types.
LEMMA NextType == TypeOK /\ [Next]_vars => TypeOK'
<1> SUFFICES ASSUME TypeOK, [Next]_vars PROVE TypeOK'
  OBVIOUS
<1> USE Vocabulary DEF TypeOK
<1>0. ASSUME NEW w \in Workers
      PROVE  /\ worker[w] \in WorkerState
             /\ worker[w].pc \in WorkerPC
             /\ worker[w].todo \in SUBSET Jobs
             /\ worker[w].left \in 0..MaxSources
             /\ worker[w].pc \in Busy => worker[w].job \in Jobs
  BY DEF WorkerState
<1>1. ASSUME NEW c \in Corpora, CreateCorpus(c) PROVE TypeOK'
  BY <1>1 DEF CreateCorpus
<1>2. ASSUME NEW c \in Corpora, ReplaceCorpus(c) PROVE TypeOK'
  BY <1>2, CascadeType DEF ReplaceCorpus
<1>3. ASSUME NEW c \in Corpora, NEW j \in Jobs, CreateJob(c, j) PROVE TypeOK'
  BY <1>3 DEF CreateJob
<1>4. ASSUME NEW a \in Callers, NEW j \in Jobs, BeginCancel(a, j) PROVE TypeOK'
  BY <1>4 DEF BeginCancel, Call
<1>5. ASSUME NEW a \in Callers, NEW c \in Corpora, BeginDelete(a, c) PROVE TypeOK'
  BY <1>5 DEF BeginDelete, Call
<1>6. ASSUME NEW a \in Callers, FinishCancel(a) PROVE TypeOK'
  BY <1>6, WrittenType DEF FinishCancel
<1>7. ASSUME NEW a \in Callers, FinishDelete(a) PROVE TypeOK'
  BY <1>7, CascadeType DEF FinishDelete
<1>8. ASSUME NEW w \in Workers, Proceed(w) PROVE TypeOK'
  <2>1. CASE Poll(w)
    BY <2>1 DEF Poll
  <2>2. ASSUME NEW j \in Jobs, Claim(w, j) PROVE TypeOK'
    BY <2>2 DEF Claim, Claimable, WorkerState, WorkerPC, Busy, RunPC, JobState, Row, Active
  <2>3. ASSUME NEW j \in Jobs, ClaimRefused(w, j) PROVE TypeOK'
    BY <2>3 DEF ClaimRefused, WorkerState
  <2>4. CASE Load(w)
    BY <1>0, <2>4 DEF Load, WorkerState, WorkerPC, Busy, RunPC
  <2>5. CASE NextSource(w)
    BY <1>0, <2>5 DEF NextSource, WorkerState, WorkerPC, Busy, RunPC
  <2>6. CASE Check(w)
    BY <2>6 DEF Check, AfterCheck, WorkerState, WorkerPC, Busy, RunPC
  <2>7. CASE Report(w)
    <3>1. Written(worker[w].job, "running") \in [Jobs -> JobState]
      BY WrittenType DEF Row, Active
    <3>2. QED
      BY <2>7, <3>1 DEF Report, AfterReport, WorkerState, WorkerPC, Busy, RunPC
  <2>8. CASE Return(w)
    <3>1. worker[w].job \in Jobs \cup {None}
      BY DEF WorkerState
    <3>2. QED
      BY <2>8, <3>1 DEF Return, WorkerState, WorkerPC, Busy, RunPC
  <2>9. CASE Raise(w)
    BY <2>9 DEF Raise, WorkerState, WorkerPC, Busy, RunPC
  <2>10. CASE Complete(w)
    <3>1. Written(worker[w].job, "completed") \in [Jobs -> JobState]
      BY WrittenType DEF Row, Finished
    <3>2. QED
      BY <2>10, <3>1 DEF Complete, WorkerState, WorkerPC, Busy, RunPC
  <2>11. CASE Fail(w)
    <3>1. Written(worker[w].job, "failed") \in [Jobs -> JobState]
      BY WrittenType DEF Row, Finished
    <3>2. QED
      BY <2>11, <3>1 DEF Fail, WorkerState
  <2>12. QED
    BY <1>8, <2>1, <2>2, <2>3, <2>4, <2>5, <2>6, <2>7, <2>8, <2>9, <2>10, <2>11 DEF Proceed
<1>9. ASSUME NEW w \in Workers, Fault(w) PROVE TypeOK'
  <2> USE DEF TimesOut, Request, Patch
  <2>1. ASSUME NEW j \in Jobs, ClaimTimesOut(w, j) PROVE TypeOK'
    BY <2>1 DEF ClaimTimesOut, WorkerState
  <2>2. CASE CheckFails(w)
    BY <2>2 DEF CheckFails, AfterCheck, WorkerState, WorkerPC, Busy, RunPC
  <2>3. CASE ReportTimesOut(w)
    BY <2>3 DEF ReportTimesOut, AfterReport, WorkerState, WorkerPC, Busy, RunPC
  <2>4. CASE CompleteTimesOut(w)
    BY <2>4 DEF CompleteTimesOut, WorkerState, WorkerPC, Busy, RunPC
  <2>5. CASE FailTimesOut(w)
    <3>1. worker[w].job \in Jobs
      BY <1>0, <2>5 DEF FailTimesOut, Busy
    <3>2. [job |-> worker[w].job, what |-> "failed"] \in Request
      BY <3>1
    <3>3. QED
      BY <1>0, <2>5, <3>2 DEF FailTimesOut
  <2>6. CASE Crash(w)
    BY <2>6 DEF Crash
  <2>7. QED
    BY <1>9, <2>1, <2>2, <2>3, <2>4, <2>5, <2>6 DEF Fault
<1>10. ASSUME NEW r \in Request, Arrive(r) PROVE TypeOK'
  <2>1. CASE r.what = "claim"
    BY <1>10, <2>1 DEF Arrive, Request, JobState, Row, Active
  <2>2. CASE r.what # "claim"
    <3>1. Written(r.job, r.what) \in [Jobs -> JobState]
      BY <2>2, WrittenType DEF Request
    <3>2. QED
      BY <1>10, <2>2, <3>1 DEF Arrive
  <2>3. QED
    BY <2>1, <2>2
<1>11. ASSUME NEW r \in Request, Vanish(r) PROVE TypeOK'
  BY <1>11 DEF Vanish
<1>12. CASE UNCHANGED vars
  BY <1>12 DEF vars
<1>13. QED
  BY <1>1, <1>2, <1>3, <1>4, <1>5, <1>6, <1>7, <1>8, <1>9, <1>10, <1>11, <1>12
     DEF Next, Management, Network

\* Every variable keeps its type in every reachable state.
THEOREM TypeCorrect == Spec => []TypeOK
<1>1. Init => TypeOK
  BY InitType
<1>2. TypeOK /\ [Next]_vars => TypeOK'
  BY NextType
<1>3. QED
  BY <1>1, <1>2, PTL DEF Spec

-----------------------------------------------------------------------------
(* The inductive invariant *)

\* The inductive invariant holds of the empty registry.
LEMMA InitInductive == Init => Inductive
<1> SUFFICES ASSUME Init PROVE Inductive
  OBVIOUS
<1>1. TypeOK
  BY InitType
<1>2. \A w \in Workers : worker[w].pc = "idle" /\ worker[w].job = None
  BY DEF Init, Resting
<1>3. \A j \in Jobs : status[j] = "unused"
  BY DEF Init
<1>4. QED
  BY <1>1, <1>2, <1>3
     DEF Init, Inductive, HeldIsStarted, StartedLeftPending, ReturnedOnce, LateIsTrue, ExclusiveRun,
         CompletedIsTrue, RunningIsServed, JobsHaveCorpus, Holds, Row, Active, Finished, Busy, RunPC

\* The inductive invariant is kept by every step: one step of the proof per
\* action that touches a row, a worker or a late request.
LEMMA NextInductive == Inductive /\ [Next]_vars => Inductive'
<1> SUFFICES ASSUME Inductive, [Next]_vars PROVE Inductive'
  OBVIOUS
<1> USE Vocabulary
<1>t. TypeOK /\ TypeOK'
  BY NextType DEF Inductive
<1>w. ASSUME NEW w \in Workers
      PROVE  /\ worker[w] \in WorkerState
             /\ worker[w].pc \in WorkerPC
             /\ worker[w].todo \in SUBSET Jobs
             /\ worker[w].job \in Jobs \cup {None}
             /\ worker[w].pc \in Busy => worker[w].job \in Jobs
  BY <1>t DEF TypeOK, WorkerState
<1> USE <1>t DEF Inductive, HeldIsStarted, StartedLeftPending, ReturnedOnce, LateIsTrue, ExclusiveRun,
         CompletedIsTrue, RunningIsServed, JobsHaveCorpus, Holds
<1>1. ASSUME NEW c \in Corpora, CreateCorpus(c) PROVE Inductive'
  BY <1>1 DEF CreateCorpus
<1>2. ASSUME NEW c \in Corpora, ReplaceCorpus(c) PROVE Inductive'
  BY <1>2, CascadeType DEF ReplaceCorpus, TypeOK, Row, Active, Finished
<1>3. ASSUME NEW c \in Corpora, NEW j \in Jobs, CreateJob(c, j) PROVE Inductive'
  BY <1>3 DEF CreateJob, TypeOK, Row, Active, Finished
<1>4. ASSUME NEW a \in Callers, NEW j \in Jobs, BeginCancel(a, j) PROVE Inductive'
  BY <1>4 DEF BeginCancel
<1>5. ASSUME NEW a \in Callers, NEW c \in Corpora, BeginDelete(a, c) PROVE Inductive'
  BY <1>5 DEF BeginDelete
<1>6. ASSUME NEW a \in Callers, FinishCancel(a) PROVE Inductive'
  BY <1>6, WrittenType DEF FinishCancel, TypeOK, Row, Active, Finished
<1>7. ASSUME NEW a \in Callers, FinishDelete(a) PROVE Inductive'
  BY <1>7, CascadeType DEF FinishDelete, TypeOK, Row, Active, Finished
<1>8. ASSUME NEW w \in Workers, Proceed(w) PROVE Inductive'
  <2>1. CASE Poll(w)
    BY <1>w, <2>1 DEF Poll, TypeOK, Busy, RunPC
  <2>2. ASSUME NEW j \in Jobs, Claim(w, j) PROVE Inductive'
    BY <1>w, <2>2 DEF Claim, Claimable, TypeOK, Busy, RunPC, Row, Active, Finished
  <2>3. ASSUME NEW j \in Jobs, ClaimRefused(w, j) PROVE Inductive'
    BY <1>w, <2>3 DEF ClaimRefused, TypeOK, Busy, RunPC
  <2>4. CASE Load(w)
    BY <1>w, <2>4 DEF Load, TypeOK, Busy, RunPC
  <2>5. CASE NextSource(w)
    BY <1>w, <2>5 DEF NextSource, TypeOK, Busy, RunPC
  <2>6. CASE Check(w)
    BY <1>w, <2>6 DEF Check, AfterCheck, TypeOK, Busy, RunPC
  <2>7. CASE Report(w)
    BY <1>w, <2>7, WrittenType DEF Report, AfterReport, TypeOK, Busy, RunPC, Row, Active, Finished
  <2>8. CASE Return(w)
    BY <1>w, <2>8 DEF Return, TypeOK, Busy, RunPC
  <2>9. CASE Raise(w)
    BY <1>w, <2>9 DEF Raise, TypeOK, Busy, RunPC
  <2>10. CASE Complete(w)
    <3>0. worker[w].job \in Jobs
      BY <1>w, <2>10 DEF Complete, Busy
    <3>1. CASE status[worker[w].job] \in Row
      <4>1. status' = [status EXCEPT ![worker[w].job] = "completed"] /\ Rests(w)
        BY <2>10, <3>1 DEF Complete, Written
      <4>2. UNCHANGED <<corpora, corpusOf, call, late, started, returned, faults>> /\ worker[w].pc = "complete"
        BY <2>10 DEF Complete
      <4>3. HeldIsStarted' /\ ReturnedOnce' /\ LateIsTrue'
        BY <1>w, <4>1, <4>2 DEF TypeOK, Busy, RunPC
      <4>4. StartedLeftPending' /\ CompletedIsTrue' /\ JobsHaveCorpus'
        BY <1>w, <3>0, <3>1, <4>1, <4>2 DEF TypeOK, Row, Active, Finished
      <4>5. ExclusiveRun'
        BY <1>w, <4>1, <4>2 DEF TypeOK, Busy, RunPC
      <4>6. RunningIsServed'
        BY <1>w, <3>0, <3>1, <4>1, <4>2 DEF TypeOK, Busy, RunPC
      <4>7. QED
        BY <4>2, <4>3, <4>4, <4>5, <4>6
    <3>2. CASE status[worker[w].job] \notin Row
      <4>1. status' = status /\ Goes(w, "fail")
        BY <2>10, <3>2 DEF Complete, Written
      <4>2. QED
        BY <1>w, <2>10, <3>0, <3>2, <4>1 DEF Complete, TypeOK, Busy, RunPC
    <3>3. QED
      BY <3>1, <3>2
  <2>11. CASE Fail(w)
    <3>0. worker[w].job \in Jobs
      BY <1>w, <2>11 DEF Fail, Busy
    <3>1. UNCHANGED <<corpora, corpusOf, call, late, started, returned, faults>> /\ worker[w].pc = "fail" /\ Rests(w)
      BY <2>11 DEF Fail
    <3>2. \/ status' = status /\ status[worker[w].job] \notin Row
          \/ status' = [status EXCEPT ![worker[w].job] = "failed"] /\ status[worker[w].job] \in Row
      BY <2>11 DEF Fail, Written
    <3>3. HeldIsStarted' /\ ReturnedOnce' /\ LateIsTrue'
      BY <1>w, <3>1 DEF TypeOK, Busy, RunPC
    <3>4. StartedLeftPending' /\ CompletedIsTrue' /\ JobsHaveCorpus'
      BY <3>0, <3>1, <3>2 DEF TypeOK, Row, Active, Finished
    <3>5. ExclusiveRun'
      BY <1>w, <3>1 DEF TypeOK, Busy, RunPC
    <3>6. RunningIsServed'
      BY <1>w, <3>0, <3>1, <3>2 DEF TypeOK, Busy, RunPC, Row, Active
    <3>7. QED
      BY <3>1, <3>3, <3>4, <3>5, <3>6
  <2>12. QED
    BY <1>8, <2>1, <2>2, <2>3, <2>4, <2>5, <2>6, <2>7, <2>8, <2>9, <2>10, <2>11 DEF Proceed
<1>9. ASSUME NEW w \in Workers, Fault(w) PROVE Inductive'
  <2>0. faults' # 0
    <3>1. faults' = faults + 1
      BY <1>9 DEF Fault, ClaimTimesOut, CheckFails, ReportTimesOut, CompleteTimesOut, FailTimesOut,
           Crash, TimesOut
    <3>2. faults \in Nat
      BY DEF TypeOK
    <3>3. QED
      BY <3>1, <3>2
  <2> USE DEF TimesOut, Request, Patch
  <2>1. ASSUME NEW j \in Jobs, ClaimTimesOut(w, j) PROVE Inductive'
    BY <1>w, <2>0, <2>1 DEF ClaimTimesOut, TypeOK, Busy, RunPC
  <2>2. CASE CheckFails(w)
    BY <1>w, <2>0, <2>2 DEF CheckFails, AfterCheck, TypeOK, Busy, RunPC
  <2>3. CASE ReportTimesOut(w)
    BY <1>w, <2>0, <2>3 DEF ReportTimesOut, AfterReport, TypeOK, Busy, RunPC
  <2>4. CASE CompleteTimesOut(w)
    BY <1>w, <2>0, <2>4 DEF CompleteTimesOut, TypeOK, Busy, RunPC
  <2>5. CASE FailTimesOut(w)
    BY <1>w, <2>0, <2>5, SMTT(20) DEF FailTimesOut, TypeOK, Busy, RunPC
  <2>6. CASE Crash(w)
    BY <1>w, <2>0, <2>6 DEF Crash, TypeOK, Busy, RunPC
  <2>7. QED
    BY <1>9, <2>1, <2>2, <2>3, <2>4, <2>5, <2>6 DEF Fault
<1>10. ASSUME NEW r \in Request, Arrive(r) PROVE Inductive'
  <2>1. CASE r.what = "claim"
    BY <1>10, <2>1 DEF Arrive, Claimable, Request, TypeOK, Row, Active, Finished
  <2>2. CASE r.what # "claim"
    BY <1>10, <2>2, WrittenType DEF Arrive, Request, Patch, TypeOK, Row, Active, Finished
  <2>3. QED
    BY <2>1, <2>2
<1>11. ASSUME NEW r \in Request, Vanish(r) PROVE Inductive'
  BY <1>11 DEF Vanish
<1>12. CASE UNCHANGED vars
  BY <1>12 DEF vars, TypeOK
<1>13. QED
  BY <1>1, <1>2, <1>3, <1>4, <1>5, <1>6, <1>7, <1>8, <1>9, <1>10, <1>11, <1>12
     DEF Next, Management, Network

\* The conjunction of the safety properties and their strengthening holds in
\* every reachable state.
THEOREM InductiveHolds == Spec => []Inductive
<1>1. QED
  BY InitInductive, NextInductive, PTL DEF Spec

\* No two workers ever run the same job.
THEOREM ExclusiveRunHolds == Spec => []ExclusiveRun
<1>1. Inductive => ExclusiveRun
  BY DEF Inductive
<1>2. QED
  BY <1>1, InductiveHolds, PTL

\* A completed job is one whose work returned.
THEOREM CompletedIsTrueHolds == Spec => []CompletedIsTrue
<1>1. Inductive => CompletedIsTrue
  BY DEF Inductive
<1>2. QED
  BY <1>1, InductiveHolds, PTL

\* Until the first fault every running row has its worker.
THEOREM RunningIsServedHolds == Spec => []RunningIsServed
<1>1. Inductive => RunningIsServed
  BY DEF Inductive
<1>2. QED
  BY <1>1, InductiveHolds, PTL

\* No job row outlives its corpus row.
THEOREM JobsHaveCorpusHolds == Spec => []JobsHaveCorpus
<1>1. Inductive => JobsHaveCorpus
  BY DEF Inductive
<1>2. QED
  BY <1>1, InductiveHolds, PTL

-----------------------------------------------------------------------------
(* A cancelled job without worker and late request stays cancelled *)

\* No single step of the system revives a cancelled job that is quiet.
LEMMA CancelHoldsStep ==
    ASSUME Inductive, [Next]_vars, NEW j \in Jobs, status[j] = "cancelled", Quiet(j)
    PROVE  status'[j] \in {"cancelled", "gone"}
<1> USE DEF Quiet, Holds
<1>t. TypeOK
  BY DEF Inductive
<1>w. ASSUME NEW w \in Workers, worker[w].pc \in Busy PROVE worker[w].job # j
  BY <1>w
<1>1. CASE Management
  BY <1>1, <1>t, CascadeType, WrittenType
     DEF Management, CreateCorpus, ReplaceCorpus, CreateJob, BeginCancel, BeginDelete, FinishCancel,
         FinishDelete, TypeOK, Row, Finished
<1>2. ASSUME NEW w \in Workers, Proceed(w) PROVE status'[j] \in {"cancelled", "gone"}
  <2>1. ASSUME NEW k \in Jobs, Claim(w, k) PROVE status'[j] = status[j]
    BY <2>1, <1>t DEF Claim, Claimable, TypeOK
  <2>2. CASE Report(w) \/ Complete(w) \/ Fail(w)
    <3>1. worker[w].pc \in Busy
      BY <2>2 DEF Report, Complete, Fail, Busy, RunPC
    <3>2. QED
      BY <2>2, <3>1, <1>w, <1>t, WrittenType DEF Report, Complete, Fail, TypeOK, Row, Active, Finished
  <2>3. CASE UNCHANGED status
    BY <2>3
  <2>4. QED
    BY <1>2, <2>1, <2>2, <2>3 DEF Proceed, Poll, ClaimRefused, Load, NextSource, Check, Return, Raise
<1>3. ASSUME NEW w \in Workers, Fault(w) PROVE status' = status
  BY <1>3 DEF Fault, ClaimTimesOut, CheckFails, ReportTimesOut, CompleteTimesOut, FailTimesOut, Crash
<1>4. CASE Network
  <2>1. PICK r \in Request : r \in late /\ (Arrive(r) \/ Vanish(r))
    BY <1>4 DEF Network, Arrive, Vanish
  <2>2. r.job # j
    BY <2>1
  <2>3. CASE r.what = "claim"
    BY <2>1, <2>2, <2>3, <1>t DEF Arrive, Vanish, TypeOK
  <2>4. CASE r.what # "claim"
    BY <2>1, <2>2, <2>4, <1>t, WrittenType DEF Arrive, Vanish, Request, Patch, Row, Active, Finished, TypeOK
  <2>5. QED
    BY <2>3, <2>4
<1>5. CASE UNCHANGED vars
  BY <1>5 DEF vars
<1>6. QED
  BY <1>1, <1>2, <1>3, <1>4, <1>5 DEF Next

\* A job that was cancelled and that neither a worker nor a late request
\* refers to is never brought back.
THEOREM CancelHoldsAlways == Spec => CancelHolds
<1>1. Inductive /\ [Next]_vars =>
        [\A j \in Jobs : status[j] = "cancelled" /\ Quiet(j) => status'[j] \in {"cancelled", "gone"}]_vars
  BY CancelHoldsStep
<1>2. QED
  BY <1>1, InductiveHolds, PTL DEF Spec, CancelHolds

-----------------------------------------------------------------------------
(* The detailed system implements the lifecycle *)

\* The empty registry is the empty lifecycle.
LEMMA LifecycleInit == Init => Lifecycle!Init
  BY DEF Init, Lifecycle!Init

\* A job has a row in the lifecycle exactly when it has one in the table.
LEMMA LifecycleRow ==
    ASSUME TypeOK, NEW j \in Jobs
    PROVE  Lifecycle!HasRow(j) <=> status[j] \in Row
  BY DEF TypeOK, JobState, Row, Active, Finished, Lifecycle!HasRow

\* ON DELETE CASCADE is a Remove of the lifecycle.
LEMMA LifecycleCascade ==
    ASSUME TypeOK, NEW c, status' = Cascade(c), UNCHANGED <<started, returned>>
    PROVE  Lifecycle!Next
<1>1. Lifecycle!Remove(Rows(c))
  BY LifecycleRow DEF Lifecycle!Remove, Cascade, Rows
<1>2. Rows(c) \in SUBSET Jobs
  BY DEF Rows
<1>3. QED
  BY <1>1, <1>2 DEF Lifecycle!Next

\* A worker's PATCH on a started job is a Tell, or nothing when the row is gone.
LEMMA LifecycleTell ==
    ASSUME TypeOK, NEW j \in Jobs, NEW s \in Patch, j \in started, s = "completed" => j \in returned,
           status' = Written(j, s), UNCHANGED <<started, returned>>
    PROVE  [Lifecycle!Next]_(Lifecycle!lifecycle)
<1>1. CASE status[j] \in Row
  <2>1. Lifecycle!Tell(j, s)
    BY <1>1, LifecycleRow DEF Lifecycle!Tell, Written
  <2>2. QED
    BY <2>1 DEF Lifecycle!Next, Patch
<1>2. CASE status[j] \notin Row
  BY <1>2 DEF Written, Lifecycle!lifecycle
<1>3. QED
  BY <1>1, <1>2

\* Every step of the system is a step of the lifecycle or leaves it alone.
LEMMA LifecycleNext ==
    ASSUME Inductive, [Next]_vars
    PROVE  [Lifecycle!Next]_(Lifecycle!lifecycle)
<1>t. TypeOK
  BY DEF Inductive
<1>1. CASE Management
  <2>1. ASSUME NEW c \in Corpora, NEW j \in Jobs, CreateJob(c, j) PROVE Lifecycle!Create(j)
    BY <2>1 DEF CreateJob, Lifecycle!Create
  <2>2. ASSUME NEW c \in Corpora, ReplaceCorpus(c) PROVE Lifecycle!Next
    BY <2>2, <1>t, LifecycleCascade DEF ReplaceCorpus
  <2>3. ASSUME NEW a \in Callers, FinishDelete(a) PROVE Lifecycle!Next
    BY <2>3, <1>t, LifecycleCascade DEF FinishDelete
  <2>4. ASSUME NEW a \in Callers, FinishCancel(a) PROVE [Lifecycle!Next]_(Lifecycle!lifecycle)
    <3> DEFINE j == call[a].target
    <3>1. CASE j \in Jobs /\ status[j] \in Row
      <4>1. Lifecycle!Cancel(j)
        BY <2>4, <3>1, <1>t, LifecycleRow DEF FinishCancel, Written, Lifecycle!Cancel
      <4>2. QED
        BY <3>1, <4>1 DEF Lifecycle!Next
    <3>2. CASE j \notin Jobs \/ status[j] \notin Row
      <4>1. status' = status
        BY <2>4, <3>2, <1>t DEF FinishCancel, Written, TypeOK
      <4>2. QED
        BY <2>4, <4>1 DEF FinishCancel, Lifecycle!lifecycle
    <3>3. QED
      BY <3>1, <3>2
  <2>5. CASE UNCHANGED <<status, started, returned>>
    BY <2>5 DEF Lifecycle!lifecycle
  <2>6. QED
    BY <1>1, <2>1, <2>2, <2>3, <2>4, <2>5
       DEF Management, CreateCorpus, BeginCancel, BeginDelete, Lifecycle!Next
<1>2. ASSUME NEW w \in Workers, Proceed(w) PROVE [Lifecycle!Next]_(Lifecycle!lifecycle)
  <2>0. worker[w].pc \in Busy => worker[w].job \in Jobs
    BY <1>t DEF TypeOK, WorkerState
  <2>1. ASSUME NEW j \in Jobs, Claim(w, j) PROVE Lifecycle!Start(j)
    BY <2>1 DEF Claim, Claimable, Lifecycle!Start, Inductive, StartedLeftPending
  <2>2. CASE Report(w) \/ Complete(w) \/ Fail(w)
    <3>1. worker[w].job \in Jobs /\ worker[w].job \in started
      BY <2>0, <2>2 DEF Report, Complete, Fail, Busy, RunPC, Inductive, HeldIsStarted
    <3>2. Complete(w) => worker[w].job \in returned
      BY DEF Complete, Inductive, ReturnedOnce
    <3>3. QED
      BY <2>2, <3>1, <3>2, <1>t, LifecycleTell DEF Report, Complete, Fail, Patch
  <2>3. CASE Return(w)
    <3>1. worker[w].job \in Jobs /\ worker[w].job \in started /\ worker[w].job \notin returned
      BY <2>0, <2>3 DEF Return, Busy, RunPC, Inductive, HeldIsStarted, ReturnedOnce
    <3>2. Lifecycle!Finish(worker[w].job)
      BY <2>3, <3>1 DEF Return, Lifecycle!Finish
    <3>3. QED
      BY <3>1, <3>2 DEF Lifecycle!Next
  <2>4. CASE UNCHANGED <<status, started, returned>>
    BY <2>4 DEF Lifecycle!lifecycle
  <2>5. QED
    BY <1>2, <2>1, <2>2, <2>3, <2>4
       DEF Proceed, Poll, ClaimRefused, Load, NextSource, Check, Raise, Lifecycle!Next
<1>3. ASSUME NEW w \in Workers, Fault(w) PROVE UNCHANGED <<status, started, returned>>
  BY <1>3 DEF Fault, ClaimTimesOut, CheckFails, ReportTimesOut, CompleteTimesOut, FailTimesOut, Crash
<1>4. ASSUME NEW r \in Request, Arrive(r) PROVE [Lifecycle!Next]_(Lifecycle!lifecycle)
  <2>1. CASE r.what = "claim" /\ Claimable(r.job)
    <3>1. r.job \in Jobs
      BY DEF Request
    <3>2. Lifecycle!Start(r.job)
      BY <1>4, <2>1, <3>1 DEF Arrive, Claimable, Lifecycle!Start, Inductive, StartedLeftPending
    <3>3. QED
      BY <3>1, <3>2 DEF Lifecycle!Next
  <2>2. CASE r.what = "claim" /\ ~Claimable(r.job)
    BY <1>4, <2>2 DEF Arrive, Lifecycle!lifecycle
  <2>3. CASE r.what # "claim"
    <3>1. r.job \in Jobs /\ r.what \in Patch
      BY <2>3 DEF Request
    <3>2. r.job \in started /\ (r.what = "completed" => r.job \in returned)
      BY <1>4, <3>1 DEF Arrive, Inductive, LateIsTrue
    <3>3. QED
      BY <1>4, <2>3, <3>1, <3>2, <1>t, LifecycleTell DEF Arrive
  <2>4. QED
    BY <2>1, <2>2, <2>3
<1>5. ASSUME NEW r \in Request, Vanish(r) PROVE UNCHANGED <<status, started, returned>>
  BY <1>5 DEF Vanish
<1>6. CASE UNCHANGED vars
  BY <1>6 DEF vars, Lifecycle!lifecycle
<1>7. QED
  BY <1>1, <1>2, <1>3, <1>4, <1>5, <1>6 DEF Next, Network, Lifecycle!lifecycle

\* Every behaviour of the registry and its workers is a behaviour of the job
\* lifecycle: one start, one return, and only true reports.
THEOREM Refinement == Spec => ImplementsLifecycle
<1>1. Inductive /\ [Next]_vars => [Lifecycle!Next]_(Lifecycle!lifecycle)
  BY LifecycleNext
<1>2. QED
  BY <1>1, LifecycleInit, InductiveHolds, PTL DEF Spec, ImplementsLifecycle, Lifecycle!Spec
=============================================================================

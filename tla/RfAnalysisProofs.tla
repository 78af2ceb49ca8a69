-------------------------- MODULE RfAnalysisProofs --------------------------
(***************************************************************************)
(* What TLAPS proves of RfAnalysis, for all bundles, any number of runs    *)
(* and of failing sections: what the run cites is there, what it says is   *)
(* warranted and no section is silent; the receivers are placed in every   *)
(* device table; the three files of a run that ended are whole and its     *)
(* own, the rows of other analyzers are safe but for a crash, and the      *)
(* advice to the owner of a network holds.                                 *)
(*                                                                         *)
(* What a recursive definition gives is proved through the least number    *)
(* at which it would fail (Induction), once the definition is known to     *)
(* have a value (Flattened, Repetition).                                   *)
(***************************************************************************)
EXTENDS RfAnalysis, FiniteSetTheorems, SequenceTheorems, WellFoundedInduction, TLAPS

-----------------------------------------------------------------------------
(* Numbers, recursion and lists.                                           *)

\* A non-empty set of naturals has a least element.
LEMMA MinimumOfNaturals ==
  ASSUME NEW S \in SUBSET Nat, S # {}
  PROVE  \E x \in S : \A y \in S : x <= y
<1>1. PICK x \in S : \A y \in S : ~ (<<y, x>> \in OpToRel(<, Nat))
  BY NatLessThanWellFounded, WFMin
<1>2. ASSUME NEW y \in S PROVE x <= y
  <2>1. <<y, x>> \in Nat \X Nat
    OBVIOUS
  <2>2. ~ (y < x)
    BY <1>1, <2>1 DEF OpToRel
  <2> QED
    BY <2>2
<1> QED
  BY <1>2

\* What holds of the first number and is handed on holds of all, to any end.
LEMMA Induction ==
  ASSUME NEW n \in Nat, NEW S, 0 \in S,
         \A i \in 0 .. n - 1 : i \in S => i + 1 \in S
  PROVE  n \in S
<1> DEFINE Bad == (0 .. n) \ S
<1> SUFFICES ASSUME Bad # {} PROVE FALSE
  OBVIOUS
<1>0. Bad \in SUBSET Nat
  OBVIOUS
<1>1. PICK x \in Bad : \A y \in Bad : x <= y
  <2> HIDE DEF Bad
  <2> QED
    BY <1>0, MinimumOfNaturals
<1>2. x # 0 /\ x \in 0 .. n
  OBVIOUS
<1>3. x - 1 \in 0 .. n - 1 /\ ~ (x <= x - 1)
  BY <1>2
<1>4. x - 1 \in S
  BY <1>1, <1>3
<1> QED
  BY <1>3, <1>4

\* f starts from a and applies step once more at each number up to N.
Repeats(f, N, S, a, step) ==
  /\ f \in [0 .. N -> S]
  /\ f[0] = a
  /\ \A n \in 1 .. N : f[n] = step[f[n - 1]]

\* There is such a function: this is what a recursive definition over a bound needs to have a
\* value.
LEMMA Repetition ==
  ASSUME NEW N \in Nat, NEW S, NEW a \in S, NEW step \in [S -> S]
  PROVE  \E f : Repeats(f, N, S, a, step)
<1> DEFINE Good(f, m) == f[0] = a /\ \A n \in 1 .. m : f[n] = step[f[n - 1]]
           Reached == {m \in 0 .. N : \E f \in [0 .. N -> S] : Good(f, m)}
<1>1. 0 \in Reached
  <2>1. [n \in 0 .. N |-> a] \in [0 .. N -> S] /\ Good([n \in 0 .. N |-> a], 0) /\ 0 \in 0 .. N
    OBVIOUS
  <2> HIDE DEF Good
  <2> QED
    BY <2>1
<1>2. ASSUME NEW m \in 0 .. N - 1, m \in Reached PROVE m + 1 \in Reached
  <2>1. PICK f \in [0 .. N -> S] : Good(f, m)
    BY <1>2
  <2> DEFINE g == [f EXCEPT ![m + 1] = step[f[m]]]
  <2>2. m + 1 \in 0 .. N /\ m \in 0 .. N /\ m + 1 - 1 = m /\ 0 # m + 1 /\ 0 \in 0 .. N
    OBVIOUS
  <2>3. g \in [0 .. N -> S]
    BY <2>2
  <2>4. g[m + 1] = step[f[m]] /\ \A n \in 0 .. m : g[n] = f[n]
    BY <2>2
  <2> HIDE DEF g
  <2>5. ASSUME NEW n \in 1 .. m + 1 PROVE g[n] = step[g[n - 1]]
    <3>1. CASE n = m + 1
      BY <2>2, <2>4, <3>1
    <3>2. CASE n # m + 1
      <4>1. n \in 1 .. m /\ n \in 0 .. m /\ n - 1 \in 0 .. m
        BY <3>2
      <4> QED
        BY <2>1, <2>4, <4>1
    <3> QED
      BY <3>1, <3>2
  <2>6. g[0] = a
    BY <2>1, <2>4
  <2> QED
    BY <2>2, <2>3, <2>5, <2>6
<1>3. N \in Reached
  <2> HIDE DEF Reached
  <2> QED
    BY <1>1, <1>2, Induction
<1> QED
  BY <1>3 DEF Repeats

\* s is the blocks of seqs in order: every element is one of a block, after those before it in that
\* block, and every element of a block is there.
Blocks(s, seqs, n) ==
  /\ \A k \in 1 .. Len(s) : \E b \in 1 .. n : \E j \in 1 .. Len(seqs[b]) :
       /\ j <= k
       /\ \A l \in 1 .. j : s[k - j + l] = seqs[b][l]
  /\ \A b \in 1 .. n : \A j \in 1 .. Len(seqs[b]) :
       \E k \in 1 .. Len(s) : s[k] = seqs[b][j]

\* A block more.
LEMMA BlocksStep ==
  ASSUME NEW S, NEW s \in Seq(S), NEW seqs \in Seq(Seq(S)), NEW n \in 0 .. Len(seqs) - 1,
         Blocks(s, seqs, n)
  PROVE  Blocks(s \o seqs[n + 1], seqs, n + 1)
<1> DEFINE t == seqs[n + 1]
           u == s \o t
<1>1. t \in Seq(S) /\ Len(seqs) \in Nat /\ n \in Nat
  OBVIOUS
<1> HIDE DEF t
<1>2. /\ u \in Seq(S) /\ Len(u) = Len(s) + Len(t)
      /\ \A i \in 1 .. Len(s) + Len(t) : u[i] = IF i <= Len(s) THEN s[i] ELSE t[i - Len(s)]
  BY <1>1, ConcatProperties
<1>3. Len(s) \in Nat /\ Len(t) \in Nat
  BY <1>1
<1> HIDE DEF u
<1>4. ASSUME NEW k \in 1 .. Len(u)
      PROVE  \E b \in 1 .. n + 1 : \E j \in 1 .. Len(seqs[b]) :
               /\ j <= k
               /\ \A l \in 1 .. j : u[k - j + l] = seqs[b][l]
  <2>1. CASE k <= Len(s)
    <3>1. k \in 1 .. Len(s)
      BY <1>2, <1>3, <2>1
    <3>2. PICK b \in 1 .. n : \E j \in 1 .. Len(seqs[b]) : j <= k /\ \A l \in 1 .. j : s[k - j + l] = seqs[b][l]
      BY <3>1 DEF Blocks
    <3>3. PICK j \in 1 .. Len(seqs[b]) : j <= k /\ \A l \in 1 .. j : s[k - j + l] = seqs[b][l]
      BY <3>2
    <3>4. Len(seqs[b]) \in Nat
      BY <1>1
    <3>5. ASSUME NEW l \in 1 .. j PROVE u[k - j + l] = seqs[b][l]
      <4>1. j \in Nat /\ k \in Nat /\ l \in Nat /\ 1 <= l /\ l <= j /\ j <= k /\ k <= Len(s)
        BY <3>1, <3>3, <3>4
      <4>2. k - j + l \in 1 .. Len(s)
        BY <1>3, <4>1
      <4>3. \A q \in 1 .. Len(s) : u[q] = s[q]
        BY <1>2, <1>3
      <4> QED
        BY <3>3, <4>2, <4>3
    <3> QED
      BY <1>1, <3>3, <3>5
  <2>2. CASE ~ (k <= Len(s))
    <3> DEFINE j == k - Len(s)
    <3>1. j \in 1 .. Len(t) /\ j <= k
      BY <1>2, <1>3, <2>2
    <3>2. ASSUME NEW l \in 1 .. j PROVE u[k - j + l] = t[l]
      <4>1. k - j + l = Len(s) + l /\ Len(s) + l \in 1 .. Len(s) + Len(t)
            /\ ~ (Len(s) + l <= Len(s)) /\ Len(s) + l - Len(s) = l
        BY <1>2, <1>3, <2>2, <3>1
      <4> QED
        BY <1>2, <4>1
    <3>3. n + 1 \in 1 .. n + 1 /\ t = seqs[n + 1]
      BY <1>1 DEF t
    <3> HIDE DEF j
    <3> QED
      BY <3>1, <3>2, <3>3
  <2> QED
    BY <2>1, <2>2
<1>5. ASSUME NEW b \in 1 .. n + 1, NEW j \in 1 .. Len(seqs[b])
      PROVE  \E k \in 1 .. Len(u) : u[k] = seqs[b][j]
  <2>1. CASE b = n + 1
    <3>1. j \in 1 .. Len(t) /\ seqs[b][j] = t[j]
      BY <2>1 DEF t
    <3>2. Len(s) + j \in 1 .. Len(u) /\ u[Len(s) + j] = t[j]
      <4>1. Len(s) + j \in 1 .. Len(s) + Len(t) /\ ~ (Len(s) + j <= Len(s)) /\ Len(s) + j - Len(s) = j
        BY <1>3, <3>1
      <4> QED
        BY <1>2, <4>1
    <3> QED
      BY <3>1, <3>2
  <2>2. CASE b # n + 1
    <3>1. b \in 1 .. n
      BY <1>1, <2>2
    <3>2. PICK k \in 1 .. Len(s) : s[k] = seqs[b][j]
      BY <3>1 DEF Blocks
    <3>3. k \in 1 .. Len(u) /\ u[k] = s[k]
      BY <1>2, <1>3, <3>2
    <3> QED
      BY <3>2, <3>3
  <2> QED
    BY <2>1, <2>2
<1> QED
  BY <1>4, <1>5 DEF Blocks, u, t

\* The recursive definition of FlattenSeq has a solution, made of blocks.
LEMMA Flattened ==
  ASSUME NEW S, NEW seqs \in Seq(Seq(S))
  PROVE  FlattenSeq(seqs) \in Seq(S) /\ Blocks(FlattenSeq(seqs), seqs, Len(seqs))
<1> DEFINE N == Len(seqs)
           Is(g) == g = [i \in 1 .. N |-> IF i = 1 THEN seqs[i] ELSE g[i - 1] \o seqs[i]]
           Good(g, m) == /\ g \in [1 .. N -> Seq(S)]
                         /\ \A i \in 1 .. m : g[i] = IF i = 1 THEN seqs[i] ELSE g[i - 1] \o seqs[i]
                         /\ \A i \in 1 .. m : Blocks(g[i], seqs, i)
           Reached == {m \in 0 .. N : \E g \in [1 .. N -> Seq(S)] : Good(g, m)}
<1>1. N \in Nat /\ DOMAIN seqs = 1 .. N /\ \A i \in 1 .. N : seqs[i] \in Seq(S)
  OBVIOUS
<1>2. CASE N = 0
  <2>1. seqs = << >>
    BY <1>2
  <2>2. FlattenSeq(seqs) = << >>
    BY <2>1 DEF FlattenSeq
  <2> QED
    BY <1>2, <2>2 DEF Blocks
<1>3. CASE N # 0
  <2>1. 0 \in Reached
    <3>1. [i \in 1 .. N |-> << >>] \in [1 .. N -> Seq(S)]
      OBVIOUS
    <3>2. Good([i \in 1 .. N |-> << >>], 0)
      BY <1>1, <3>1
    <3> QED
      BY <1>1, <3>1, <3>2
  <2>2. ASSUME NEW m \in 0 .. N - 1, m \in Reached PROVE m + 1 \in Reached
    <3>1. PICK g \in [1 .. N -> Seq(S)] : Good(g, m)
      BY <2>2
    <3> DEFINE e == IF m = 0 THEN seqs[1] ELSE g[m] \o seqs[m + 1]
               h == [g EXCEPT ![m + 1] = e]
    <3>2. e \in Seq(S) /\ Blocks(e, seqs, m + 1)
      <4>1. CASE m = 0
        <5>1. seqs[1] \in Seq(S)
          BY <1>1, <1>3
        <5>2. Blocks(seqs[1], seqs, 1)
          BY <5>1 DEF Blocks
        <5> QED
          BY <4>1, <5>1, <5>2
      <4>2. CASE m # 0
        <5>1. m \in 1 .. N /\ m + 1 \in 1 .. N
          BY <1>1, <4>2
        <5>2. g[m] \in Seq(S) /\ Blocks(g[m], seqs, m) /\ seqs[m + 1] \in Seq(S)
          BY <1>1, <3>1, <5>1
        <5>3. Blocks(g[m] \o seqs[m + 1], seqs, m + 1)
          BY <1>1, <5>1, <5>2, BlocksStep
        <5>4. g[m] \o seqs[m + 1] \in Seq(S)
          BY <5>2
        <5> QED
          BY <4>2, <5>3, <5>4
      <4> QED
        BY <4>1, <4>2
    <3> HIDE DEF e
    <3>3. h \in [1 .. N -> Seq(S)]
      BY <3>2
    <3>4. m + 1 \in 1 .. N /\ h[m + 1] = e /\ \A i \in 1 .. m : h[i] = g[i] /\ i \in 1 .. N
      BY <1>1
    <3> HIDE DEF h
    <3>5. ASSUME NEW i \in 1 .. m + 1
          PROVE  /\ h[i] = IF i = 1 THEN seqs[i] ELSE h[i - 1] \o seqs[i]
                 /\ Blocks(h[i], seqs, i)
      <4>1. CASE i = m + 1
        <5>1. i # 1 => i - 1 \in 1 .. m
          BY <4>1
        <5>2. i = 1 => m = 0
          BY <4>1
        <5> QED
          BY <3>2, <3>4, <4>1, <5>1, <5>2 DEF e
      <4>2. CASE i # m + 1
        <5>1. i \in 1 .. m /\ (i # 1 => i - 1 \in 1 .. m)
          BY <4>2
        <5> QED
          BY <3>1, <3>4, <5>1
      <4> QED
        BY <4>1, <4>2
    <3>6. Good(h, m + 1)
      BY <3>3, <3>5
    <3>7. m + 1 \in 0 .. N
      BY <1>1
    <3> QED
      BY <3>3, <3>6, <3>7
  <2>3. N \in Reached
    <3> HIDE DEF Reached, N
    <3> QED
      BY <1>1, <2>1, <2>2, Induction
  <2>4. PICK g \in [1 .. N -> Seq(S)] : Good(g, N)
    BY <2>3
  <2>5. Is(g)
    BY <2>4
  <2> DEFINE flatten == CHOOSE f : Is(f)
  <2>6. Is(flatten)
    BY <2>5, Zenon
  <2>7. FlattenSeq(seqs) = flatten[N]
    BY <1>3, Zenon DEF FlattenSeq
  <2> DEFINE Same == {m \in 0 .. N : m = 0 \/ flatten[m] = g[m]}
  <2>8. ASSUME NEW i \in 1 .. N
        PROVE  flatten[i] = IF i = 1 THEN seqs[i] ELSE flatten[i - 1] \o seqs[i]
    <3> HIDE DEF flatten
    <3> QED
      BY <2>6
  <2>9. \A i \in 1 .. N : g[i] = IF i = 1 THEN seqs[i] ELSE g[i - 1] \o seqs[i]
    BY <2>4
  <2>10. ASSUME NEW i \in 1 .. N, i = 1 \/ flatten[i - 1] = g[i - 1] PROVE flatten[i] = g[i]
    <3> HIDE DEF flatten
    <3> QED
      BY <2>8, <2>9, <2>10
  <2>11. ASSUME NEW m \in 0 .. N - 1, m \in Same PROVE m + 1 \in Same
    <3> HIDE DEF flatten
    <3>1. m + 1 \in 1 .. N /\ m + 1 - 1 = m
      BY <1>1
    <3>2. m + 1 = 1 \/ flatten[m + 1 - 1] = g[m + 1 - 1]
      BY <2>11, <3>1
    <3>3. flatten[m + 1] = g[m + 1]
      BY <2>10, <3>1, <3>2
    <3> QED
      BY <3>1, <3>3
  <2>12. N \in Same
    <3> HIDE DEF flatten
    <3>1. 0 \in Same
      BY <1>1
    <3> HIDE DEF Same, N
    <3> QED
      BY <1>1, <2>11, <3>1, Induction
  <2>13. flatten[N] = g[N]
    BY <1>3, <2>12
  <2>14. g[N] \in Seq(S) /\ Blocks(g[N], seqs, N)
    BY <1>1, <1>3, <2>4
  <2> QED
    BY <2>7, <2>13, <2>14
<1> QED
  BY <1>2, <1>3

\* The elements of a list but for the first, by their places.
LEMMA TailIs ==
  ASSUME NEW S, NEW s \in Seq(S), s # << >>
  PROVE  /\ Tail(s) \in Seq(S) /\ Len(s) \in Nat /\ Len(s) >= 1 /\ Len(Tail(s)) = Len(s) - 1
         /\ \A i \in 1 .. Len(s) - 1 : Tail(s)[i] = s[i + 1]
         /\ \A x : x \in Range(Tail(s)) <=> \E i \in 2 .. Len(s) : s[i] = x
         /\ Last(s) = s[Len(s)] /\ Last(s) \in S
<1>1. /\ Tail(s) \in Seq(S) /\ Len(Tail(s)) = Len(s) - 1
      /\ \A k \in 1 .. Len(Tail(s)) : Tail(s)[k] = s[k + 1]
  BY HeadTailProperties
<1>2. Len(s) \in Nat /\ Len(s) >= 1
  BY EmptySeq
<1>3. DOMAIN Tail(s) = 1 .. Len(s) - 1
  BY <1>1
<1>4. ASSUME NEW x, x \in Range(Tail(s)) PROVE \E i \in 2 .. Len(s) : s[i] = x
  <2>1. PICK k \in 1 .. Len(s) - 1 : x = Tail(s)[k]
    BY <1>3, <1>4 DEF Range
  <2>2. k + 1 \in 2 .. Len(s) /\ s[k + 1] = x
    BY <1>1, <1>2, <2>1
  <2> QED
    BY <2>2
<1>5. ASSUME NEW i \in 2 .. Len(s) PROVE s[i] \in Range(Tail(s))
  <2>1. i - 1 \in 1 .. Len(s) - 1 /\ i - 1 + 1 = i
    BY <1>2
  <2>2. Tail(s)[i - 1] = s[i]
    BY <1>1, <2>1
  <2> QED
    BY <1>3, <2>1, <2>2 DEF Range
<1>6. Last(s) = s[Len(s)] /\ Last(s) \in S
  BY <1>2 DEF Last
<1> QED
  BY <1>1, <1>2, <1>4, <1>5, <1>6

\* What a list has is its first element or in the rest.
LEMMA RangeTail ==
  ASSUME NEW S, NEW s \in Seq(S), s # << >>, NEW x, x # Head(s), x \notin Range(Tail(s))
  PROVE  x \notin Range(s)
<1> SUFFICES ASSUME NEW i \in 1 .. Len(s), s[i] = x PROVE FALSE
  BY DEF Range
<1>1. /\ Tail(s) \in Seq(S) /\ Len(Tail(s)) = Len(s) - 1 /\ Head(s) = s[1]
      /\ \A k \in 1 .. Len(Tail(s)) : Tail(s)[k] = s[k + 1]
  BY HeadTailProperties
<1>2. i # 1 /\ i - 1 \in 1 .. Len(s) - 1 /\ i - 1 + 1 = i
  BY <1>1
<1>3. Tail(s)[i - 1] = s[i]
  BY <1>1, <1>2
<1>4. DOMAIN Tail(s) = 1 .. Len(s) - 1
  BY <1>1
<1> QED
  BY <1>2, <1>3, <1>4 DEF Range

-----------------------------------------------------------------------------
(* The advice on a channel, for every scan and every owner.                *)

\* A set of percentages has a greatest.
LEMMA MaxPercent ==
  ASSUME NEW S \in SUBSET (0 .. 100), S # {}
  PROVE  Max(S) \in S
<1> DEFINE M == {100 - x : x \in S}
<1>1. M \in SUBSET Nat /\ M # {}
  <2>1. \A x \in S : 100 - x \in Nat
    OBVIOUS
  <2> QED
    BY <2>1
<1>2. PICK m \in M : \A y \in M : m <= y
  BY <1>1, MinimumOfNaturals
<1>3. PICK x \in S : m = 100 - x
  OBVIOUS
<1>4. ASSUME NEW y \in S PROVE x >= y
  <2>1. 100 - y \in M
    OBVIOUS
  <2>2. 100 - x <= 100 - y
    BY <1>2, <1>3, <2>1
  <2> QED
    BY <2>2
<1> QED
  BY <1>4 DEF Max

\* A load: how many access points, and the strongest signal.
LoadType == [count : Nat, signal : Nat]

\* The loads of a scan are numbers.
LEMMA LoadsType ==
  ASSUME NEW aps, NEW owner, IsScan(aps)
  PROVE  Loads(aps, owner) \in [Candidates -> LoadType]
<1> SUFFICES ASSUME NEW c \in Candidates PROVE Load(aps, owner, c) \in LoadType
  BY DEF Loads
<1> DEFINE O == Overlap(aps, owner, c)
<1>1. O \subseteq aps
  BY DEF Overlap, In24
<1>2. Cardinality(O) \in Nat
  BY <1>1, FS_Subset, FS_CardinalityType DEF IsScan
<1> DEFINE signals == {a.signal : a \in O} \ {None}
<1>3. signals \subseteq 0 .. 100
  BY <1>1 DEF IsScan
<1>4. signals = {} \/ Max(signals) \in 0 .. 100
  BY <1>3, MaxPercent
<1>5. None \notin 0 .. 100
  BY NoneAssumption
<1>6. (IF Strongest(O) = None THEN SignalUnknown ELSE Strongest(O)) \in Nat
  <2>1. CASE signals = {}
    BY <2>1 DEF Strongest, SignalUnknown
  <2>2. CASE signals # {}
    BY <1>4, <2>2 DEF Strongest, SignalUnknown
  <2> QED
    BY <2>1, <2>2
<1> QED
  BY <1>2, <1>6 DEF Load, LoadType

\* One of the three candidates is the lightest.
LEMMA LightestIs ==
  ASSUME NEW load \in [Candidates -> LoadType]
  PROVE  /\ Lightest(load) \in Candidates
         /\ \A d \in Candidates :
              \/ Lighter(load[Lightest(load)], load[d])
              \/ load[Lightest(load)] = load[d] /\ Lightest(load) <= d
<1> DEFINE Wins(c, d) == Lighter(load[c], load[d]) \/ (load[c] = load[d] /\ c <= d)
<1>1. \A c \in Candidates : load[c] \in LoadType
  OBVIOUS
<1>2. \A c, d \in Candidates : load[c] = load[d] <=> load[c].count = load[d].count /\ load[c].signal = load[d].signal
  BY <1>1 DEF LoadType
<1>3. \A c \in Candidates : load[c].count \in Nat /\ load[c].signal \in Nat
  BY <1>1 DEF LoadType
<1>4. \E c \in Candidates : \A d \in Candidates : Wins(c, d)
  <2>1. \A c, d \in {1, 6, 11} : Wins(c, d) \/ Wins(d, c)
    BY <1>2, <1>3 DEF Lighter, Candidates
  <2>2. \A c, d, e \in {1, 6, 11} : Wins(c, d) /\ Wins(d, e) => Wins(c, e)
    BY <1>2, <1>3 DEF Lighter, Candidates
  <2> HIDE DEF Wins
  <2>3. \E c \in {1, 6, 11} : Wins(c, 1) /\ Wins(c, 6) /\ Wins(c, 11)
    BY <2>1, <2>2
  <2> QED
    BY <2>3 DEF Candidates
<1> QED
  BY <1>4 DEF Lightest

\* The advised candidate is one of them, and no candidate is lighter.
LEMMA BestIs ==
  ASSUME NEW aps, NEW owner, IsScan(aps)
  PROVE  /\ Best(aps, owner) \in Candidates
         /\ \A d \in Candidates :
              ~Lighter(Loads(aps, owner)[d], Loads(aps, owner)[Best(aps, owner)])
<1> DEFINE load == Loads(aps, owner)
<1>1. load \in [Candidates -> LoadType]
  BY LoadsType
<1>2. \A c \in Candidates : load[c].count \in Nat /\ load[c].signal \in Nat
  BY <1>1 DEF LoadType
<1> HIDE DEF load
<1>3. /\ Lightest(load) \in Candidates
      /\ \A d \in Candidates :
           \/ Lighter(load[Lightest(load)], load[d])
           \/ load[Lightest(load)] = load[d] /\ Lightest(load) <= d
  BY <1>1, LightestIs
<1>4. \A d \in Candidates : ~Lighter(load[d], load[Lightest(load)])
  BY <1>2, <1>3 DEF Lighter
<1> QED
  BY <1>3, <1>4 DEF Best, load

\* Moving the owner's access points leaves what loads the channels as it is.
LEMMA MovedLoads ==
  ASSUME NEW aps, NEW owner, NEW c \in Int, IsScan(aps)
  PROVE  Loads(Moved(aps, owner, c), owner) = Loads(aps, owner)
<1> DEFINE new == Moved(aps, owner, c)
           mine == In24(Own(aps, owner))
           moved(a) == [id |-> a.id, ssid |-> a.ssid, band |-> 2, channel |-> c, signal |-> a.signal]
<1>1. \A b \in new : (b \in aps /\ b \notin mine) \/ \E a \in mine : b = moved(a)
  BY DEF Moved
<1>2. \A a \in aps : IF a \in mine THEN moved(a) \in new ELSE a \in new
  BY DEF Moved
<1>3. mine \subseteq Own(aps, owner) /\ Own(aps, owner) \subseteq aps
  BY DEF In24, Own
<1>4. \A a \in mine : moved(a).id = a.id /\ moved(a).ssid = a.ssid
  OBVIOUS
<1> HIDE DEF new, moved
<1>5. Ids(Own(new, owner)) = Ids(Own(aps, owner))
  <2>1. ASSUME NEW b \in Own(new, owner) PROVE b.id \in Ids(Own(aps, owner))
    <3>1. b \in new /\ owner # None /\ b.ssid = owner
      BY DEF Own
    <3>2. CASE b \in aps /\ b \notin mine
      BY <3>1, <3>2 DEF Own, Ids
    <3>3. CASE \E a \in mine : b = moved(a)
      BY <1>3, <1>4, <3>3 DEF Ids
    <3> QED
      BY <1>1, <3>1, <3>2, <3>3
  <2>2. ASSUME NEW a \in Own(aps, owner) PROVE a.id \in Ids(Own(new, owner))
    <3>1. a \in aps /\ owner # None /\ a.ssid = owner
      BY DEF Own
    <3>2. CASE a \in mine
      BY <1>2, <1>4, <3>1, <3>2 DEF Own, Ids
    <3>3. CASE a \notin mine
      BY <1>2, <3>1, <3>3 DEF Own, Ids
    <3> QED
      BY <3>2, <3>3
  <2> QED
    BY <2>1, <2>2 DEF Ids
<1>6. ASSUME NEW x PROVE Overlap(new, owner, x) = Overlap(aps, owner, x)
  <2>1. \A b \in new : b.id \notin Ids(Own(aps, owner)) => b \in aps
    BY <1>1, <1>3, <1>4 DEF Ids
  <2>2. \A a \in aps : a.id \notin Ids(Own(aps, owner)) => a \in new
    BY <1>2, <1>3 DEF Ids
  <2> QED
    BY <1>5, <2>1, <2>2 DEF Overlap, In24
<1> QED
  BY <1>6 DEF Loads, Load, new

\* The owner's channels after the move.
LEMMA MovedChannels ==
  ASSUME NEW aps, NEW owner, NEW c \in Int, OwnChannels(aps, owner) # {}
  PROVE  /\ OwnChannels(Moved(aps, owner, c), owner) = {c}
         /\ Own(Moved(aps, owner, c), owner) # {}
         /\ In24(Moved(aps, owner, c)) # {}
<1> DEFINE new == Moved(aps, owner, c)
           mine == In24(Own(aps, owner))
           moved(a) == [id |-> a.id, ssid |-> a.ssid, band |-> 2, channel |-> c, signal |-> a.signal]
<1>1. \A b \in new : (b \in aps /\ b \notin mine) \/ \E a \in mine : b = moved(a)
  BY DEF Moved
<1>2. \A a \in aps : a \in mine => moved(a) \in new
  BY DEF Moved
<1>3. \A a \in mine : moved(a).channel = c /\ moved(a).ssid = a.ssid /\ moved(a).band = 2
  OBVIOUS
<1>4. c # None
  BY NoneAssumption
<1>5. PICK a \in mine : TRUE
  BY DEF OwnChannels
<1> HIDE DEF new, moved
<1>6. a \in aps /\ owner # None /\ a.ssid = owner
  BY DEF In24, Own
<1>7. moved(a) \in In24(Own(new, owner)) /\ moved(a) \in In24(new) /\ moved(a) \in Own(new, owner)
  BY <1>2, <1>3, <1>4, <1>5, <1>6 DEF In24, Own
<1>8. \A b \in In24(Own(new, owner)) : b.channel = c
  <2> SUFFICES ASSUME NEW b \in In24(Own(new, owner)) PROVE b.channel = c
    OBVIOUS
  <2>1. b \in new /\ b.ssid = owner /\ b.band = 2 /\ b.channel # None
    BY DEF In24, Own
  <2>2. CASE b \in aps /\ b \notin mine
    BY <1>6, <2>1, <2>2 DEF In24, Own
  <2>3. CASE \E x \in mine : b = moved(x)
    BY <1>3, <2>3
  <2> QED
    BY <1>1, <2>1, <2>2, <2>3
<1>9. OwnChannels(new, owner) = {c}
  <2>1. moved(a).channel = c
    BY <1>3, <1>5
  <2> QED
    BY <1>7, <1>8, <2>1 DEF OwnChannels
<1> QED
  BY <1>7, <1>9 DEF new

\* The advice settles, on every scan and for every owner.
LEMMA Settling ==
  ASSUME NEW aps, NEW owner, IsScan(aps)
  PROVE  AdviceSettlesOn(aps, owner)
<1> DEFINE c == Best(aps, owner)
           new == Moved(aps, owner, c)
           load == Loads(aps, owner)
<1> SUFFICES ASSUME Advice(aps, owner) = "move"
             PROVE  Advice(new, owner) = "keep" /\ OwnChannels(new, owner) = {c}
  BY DEF AdviceSettlesOn
<1>1. c \in Candidates /\ \A d \in Candidates : ~Lighter(load[d], load[c])
  BY BestIs
<1>2. c \in Int
  BY <1>1 DEF Candidates
<1>3. OwnChannels(aps, owner) # {}
  BY DEF Advice
<1> HIDE DEF c
<1>4. Loads(new, owner) = load
  BY <1>2, MovedLoads
<1>5. Best(new, owner) = c
  BY <1>4 DEF Best, c
<1>6. OwnChannels(new, owner) = {c} /\ Own(new, owner) # {} /\ In24(new) # {}
  BY <1>2, <1>3, MovedChannels
<1> HIDE DEF new, load
<1>7. KeepsChannel(new, owner)
  BY <1>1, <1>4, <1>5, <1>6 DEF KeepsChannel
<1> QED
  BY <1>6, <1>7 DEF Advice

\* Nothing is lighter than what is advised, on every scan and for every owner.
LEMMA Lightness ==
  ASSUME NEW aps, NEW owner, IsScan(aps)
  PROVE  AdviceIsLightestOn(aps, owner)
<1> DEFINE others(c) == {a \in aps \ Own(aps, owner) : a.band = 2 /\ a.channel \in c - 4 .. c + 4}
           load == Loads(aps, owner)
           best == Best(aps, owner)
           advised == IF Advice(aps, owner) = "keep" THEN OwnChannels(aps, owner) ELSE {best}
<1>1. best \in Candidates /\ \A d \in Candidates : ~Lighter(load[d], load[best])
  BY BestIs
<1>2. \A c \in Candidates : load[c].count \in Nat /\ load[c].signal \in Nat
  BY LoadsType DEF LoadType
<1>3. ASSUME NEW c \in Candidates PROVE load[c].count = Cardinality(others(c))
  <2>1. c \in Int
    BY DEF Candidates
  <2>2. others(c) \subseteq Overlap(aps, owner, c)
    <3> SUFFICES ASSUME NEW a \in others(c) PROVE a \in Overlap(aps, owner, c)
      OBVIOUS
    <3>1. a.channel \in Int /\ a.channel # None
      BY <2>1, NoneAssumption
    <3>2. a.id \notin Ids(Own(aps, owner))
      BY DEF Ids, IsScan, Own
    <3> QED
      BY <2>1, <3>1, <3>2 DEF Overlap, In24, OverlapDistance
  <2>3. Overlap(aps, owner, c) \subseteq others(c)
    <3> SUFFICES ASSUME NEW a \in Overlap(aps, owner, c) PROVE a \in others(c)
      OBVIOUS
    <3>1. a \in aps /\ a.band = 2 /\ a.channel # None /\ a.id \notin Ids(Own(aps, owner))
      BY DEF Overlap, In24
    <3>2. a \notin Own(aps, owner)
      BY <3>1 DEF Ids
    <3>3. a.channel \in Int
      BY <3>1 DEF IsScan
    <3> QED
      BY <2>1, <3>1, <3>2, <3>3 DEF Overlap, OverlapDistance
  <2>4. Overlap(aps, owner, c) = others(c)
    BY <2>2, <2>3
  <2> HIDE DEF others
  <2> QED
    BY <2>4 DEF Loads, Load
<1>4. ASSUME Advice(aps, owner) \in {"keep", "move"},
             NEW c \in advised, NEW d \in Candidates
      PROVE  Cardinality(others(c)) <= Cardinality(others(d))
  <2>1. c \in Candidates /\ ~Lighter(load[d], load[c])
    <3>1. CASE Advice(aps, owner) = "keep"
      <4>1. KeepsChannel(aps, owner)
        BY <3>1 DEF Advice
      <4>2. c \in Candidates /\ ~Lighter(load[best], load[c])
        BY <1>4, <3>1, <4>1 DEF KeepsChannel
      <4> HIDE DEF load, best
      <4> QED
        BY <1>1, <1>2, <4>2 DEF Lighter
    <3>2. CASE Advice(aps, owner) # "keep"
      BY <1>1, <1>4, <3>2
    <3> QED
      BY <3>1, <3>2
  <2>2. load[c].count <= load[d].count
    <3> HIDE DEF load
    <3> QED
      BY <1>2, <2>1 DEF Lighter
  <2> HIDE DEF others
  <2> QED
    BY <1>3, <2>1, <2>2
<1> QED
  BY <1>4 DEF AdviceIsLightestOn

-----------------------------------------------------------------------------
(* The device tree, for every tree, its parents in circles or not.         *)

\* A walk goes from a device to its parent, and comes to no ancestor twice.
IsWalk(tree, d, s) ==
  /\ s \in Seq(DOMAIN tree) /\ s # << >> /\ s[1] = d
  /\ \A i \in 1 .. Len(s) - 1 : tree[s[i]].parent = s[i + 1]
  /\ \A i, j \in 2 .. Len(s) : s[i] = s[j] => i = j

\* A walk goes one device further, if it may.
Further(tree, s) ==
  LET parent == tree[Last(s)].parent
  IN  IF parent \in DOMAIN tree /\ parent \notin Range(Tail(s)) THEN Append(s, parent) ELSE s

\* A walk that goes on is a walk, one device longer or the same.
LEMMA FurtherIs ==
  ASSUME NEW tree, NEW d, NEW s, IsWalk(tree, d, s)
  PROVE  /\ IsWalk(tree, d, Further(tree, s))
         /\ Further(tree, s) = s \/ Len(Further(tree, s)) = Len(s) + 1
<1> DEFINE D == DOMAIN tree
           x == tree[Last(s)].parent
           n == Len(s)
           t == Append(s, x)
<1>1. s \in Seq(D) /\ s # << >>
  BY DEF IsWalk
<1>2. /\ n \in Nat /\ n >= 1 /\ Last(s) = s[n]
      /\ \A y : y \in Range(Tail(s)) <=> \E i \in 2 .. n : s[i] = y
  BY <1>1, TailIs
<1>3. CASE Further(tree, s) = s
  BY <1>3
<1>4. CASE Further(tree, s) # s
  <2>1. Further(tree, s) = t /\ x \in D /\ x \notin Range(Tail(s))
    BY <1>4 DEF Further
  <2>2. t \in Seq(D) /\ Len(t) = n + 1 /\ t[n + 1] = x /\ \A i \in 1 .. n : t[i] = s[i]
    BY <1>1, <2>1, AppendProperties
  <2>3. x = tree[s[n]].parent
    BY <1>2
  <2> HIDE DEF x, t
  <2>4. \A i \in 1 .. Len(t) - 1 : tree[t[i]].parent = t[i + 1]
    <3> SUFFICES ASSUME NEW i \in 1 .. n PROVE tree[t[i]].parent = t[i + 1]
      BY <1>2, <2>2
    <3>1. CASE i = n
      BY <1>2, <2>2, <2>3, <3>1
    <3>2. CASE i # n
      <4>1. i \in 1 .. n - 1 /\ i + 1 \in 1 .. n
        BY <1>2, <3>2
      <4>2. tree[s[i]].parent = s[i + 1]
        BY <4>1 DEF IsWalk
      <4> QED
        BY <2>2, <4>1, <4>2
    <3> QED
      BY <3>1, <3>2
  <2>5. ASSUME NEW i \in 2 .. Len(t), NEW j \in 2 .. Len(t), t[i] = t[j] PROVE i = j
    <3>1. \A k \in 2 .. n : t[k] = s[k] /\ t[k] # x
      BY <1>2, <2>1, <2>2
    <3>2. i \in 2 .. n \/ i = n + 1
      BY <1>2, <2>2
    <3>3. j \in 2 .. n \/ j = n + 1
      BY <1>2, <2>2
    <3> QED
      BY <2>2, <2>5, <3>1, <3>2, <3>3 DEF IsWalk
  <2>6. t # << >> /\ t[1] = d
    <3>1. 1 \in 1 .. n
      BY <1>2
    <3>2. s[1] = d
      BY DEF IsWalk
    <3>3. Len(t) # 0
      BY <1>2, <2>2
    <3> QED
      BY <2>2, <3>1, <3>2, <3>3
  <2> QED
    BY <2>1, <2>2, <2>4, <2>5, <2>6 DEF IsWalk
<1> QED
  BY <1>3, <1>4

\* A walk has at most as many ancestors as there are devices, and with as many it has all.
LEMMA WalkBound ==
  ASSUME NEW tree, IsTree(tree), NEW d, NEW s, IsWalk(tree, d, s)
  PROVE  /\ Len(s) - 1 <= Cardinality(DOMAIN tree)
         /\ Len(s) - 1 = Cardinality(DOMAIN tree) => Range(Tail(s)) = DOMAIN tree
<1> DEFINE D == DOMAIN tree
           n == Len(s) - 1
           c == [i \in 1 .. n |-> s[i + 1]]
<1>1. /\ s \in Seq(D) /\ n \in Nat
      /\ \A x : x \in Range(Tail(s)) <=> \E i \in 2 .. Len(s) : s[i] = x
  BY TailIs DEF IsWalk
<1>2. \A i \in 1 .. n : i + 1 \in 1 .. Len(s) /\ i + 1 \in 2 .. Len(s)
  BY <1>1
<1>3. c \in [1 .. n -> D]
  BY <1>1, <1>2
<1>4. \A i, j \in 1 .. n : c[i] = c[j] => i = j
  <2> SUFFICES ASSUME NEW i \in 1 .. n, NEW j \in 1 .. n, s[i + 1] = s[j + 1] PROVE i = j
    OBVIOUS
  <2>1. i + 1 = j + 1
    BY <1>2 DEF IsWalk
  <2> QED
    BY <1>1, <2>1
<1>5. c \in Injection(1 .. n, D)
  BY <1>3, <1>4 DEF Injection, IsInjective
<1>6. Cardinality(1 .. n) = n /\ IsFiniteSet(D)
  <2>1. Cardinality(1 .. n) = IF 1 > n THEN 0 ELSE n - 1 + 1
    BY <1>1, FS_Interval
  <2> QED
    BY <1>1, <2>1 DEF IsTree
<1>7. n <= Cardinality(D) /\ (n = Cardinality(D) => c \in Surjection(1 .. n, D))
  <2> HIDE DEF c, D, n
  <2> QED
    BY <1>5, <1>6, FS_Injection
<1>8. ASSUME c \in Surjection(1 .. n, D) PROVE Range(Tail(s)) = D
  <2>1. ASSUME NEW x \in D PROVE x \in Range(Tail(s))
    <3>1. PICK i \in 1 .. n : c[i] = x
      BY <1>8 DEF Surjection
    <3> QED
      BY <1>1, <1>2, <3>1
  <2>2. \A x \in Range(Tail(s)) : x \in D
    <3>1. \A i \in 2 .. Len(s) : i \in 1 .. Len(s)
      BY <1>1
    <3> QED
      BY <1>1, <3>1
  <2> QED
    BY <2>1, <2>2
<1> QED
  BY <1>7, <1>8

\* The chain is what a walk finds that cannot go further.
LEMMA ChainIsWalk ==
  ASSUME NEW tree, IsTree(tree), NEW d \in DOMAIN tree
  PROVE  \E s : IsWalk(tree, d, s) /\ Further(tree, s) = s /\ HubChain(tree, d) = Tail(s)
<1> DEFINE D == DOMAIN tree
           N == Cardinality(D)
           W == {s \in Seq(D) : IsWalk(tree, d, s)}
           go == [s \in W |-> Further(tree, s)]
           Is(g) == g = [n \in 0 .. N |->
                           IF n = 0 THEN <<d>>
                           ELSE LET sofar == g[n - 1]
                                    parent == tree[Last(sofar)].parent
                                IN  IF parent \in D /\ parent \notin Range(Tail(sofar))
                                    THEN Append(sofar, parent) ELSE sofar]
<1>1. N \in Nat
  BY FS_CardinalityType DEF IsTree
<1>2. <<d>> \in W
  <2>1. <<d>> \in Seq(D) /\ <<d>> # << >> /\ <<d>>[1] = d /\ Len(<<d>>) = 1
    OBVIOUS
  <2> HIDE DEF D
  <2> QED
    BY <2>1 DEF IsWalk, D
<1>3. go \in [W -> W]
  <2> SUFFICES ASSUME NEW s \in W PROVE Further(tree, s) \in W
    OBVIOUS
  <2>1. IsWalk(tree, d, Further(tree, s))
    BY FurtherIs
  <2> QED
    BY <2>1 DEF IsWalk
<1>4. PICK f \in [0 .. N -> W] : f[0] = <<d>> /\ \A n \in 1 .. N : f[n] = go[f[n - 1]]
  <2> HIDE DEF N, W, go
  <2>1. \E f : Repeats(f, N, W, <<d>>, go)
    BY <1>1, <1>2, <1>3, Repetition
  <2> QED
    BY <2>1 DEF Repeats
<1>5. ASSUME NEW n \in 1 .. N PROVE n - 1 \in 0 .. N /\ n \in 0 .. N /\ f[n] = Further(tree, f[n - 1]) /\ f[n - 1] \in W
  <2>1. n - 1 \in 0 .. N /\ n \in 0 .. N
    BY <1>1
  <2> QED
    BY <1>4, <2>1
<1>6. Is(f)
  <2>1. \A n \in 0 .. N : f[n] = IF n = 0 THEN <<d>> ELSE Further(tree, f[n - 1])
    <3> SUFFICES ASSUME NEW n \in 0 .. N, n # 0 PROVE f[n] = Further(tree, f[n - 1])
      BY <1>4
    <3>1. n \in 1 .. N
      BY <1>1
    <3> QED
      BY <1>5, <3>1
  <2>2. f = [n \in 0 .. N |-> IF n = 0 THEN <<d>> ELSE Further(tree, f[n - 1])]
    <3>1. DOMAIN f = 0 .. N
      BY <1>4
    <3> HIDE DEF N
    <3> QED
      BY <1>4, <2>1, <3>1
  <2> QED
    BY <2>2, Zenon DEF Further
<1> DEFINE walk == CHOOSE g : Is(g)
<1>7. Is(walk)
  BY <1>6, Zenon
<1>8. HubChain(tree, d) = Tail(walk[N])
  BY Zenon DEF HubChain
<1>9. walk[0] = <<d>> /\ \A n \in 1 .. N : walk[n] = Further(tree, walk[n - 1])
  <2>1. walk = [n \in 0 .. N |-> IF n = 0 THEN <<d>> ELSE Further(tree, walk[n - 1])]
    BY <1>7, Zenon DEF Further
  <2> HIDE DEF walk, N
  <2>2. 0 \in 0 .. N /\ \A n \in 1 .. N : n \in 0 .. N /\ n # 0
    BY <1>1
  <2> QED
    BY <2>1, <2>2
<1> HIDE DEF walk, Is
<1> DEFINE Done == {n \in 0 .. N : /\ IsWalk(tree, d, walk[n])
                                   /\ Len(walk[n]) = n + 1 \/ Further(tree, walk[n]) = walk[n]}
<1>10. 0 \in Done
  <2>1. IsWalk(tree, d, walk[0]) /\ Len(walk[0]) = 0 + 1 /\ 0 \in 0 .. N
    BY <1>1, <1>2, <1>9
  <2> QED
    BY <2>1
<1>11. ASSUME NEW n \in 0 .. N - 1, n \in Done PROVE n + 1 \in Done
  <2>1. n + 1 \in 1 .. N /\ n + 1 \in 0 .. N /\ n + 1 - 1 = n
    BY <1>1
  <2>2. walk[n + 1] = Further(tree, walk[n])
    <3>1. walk[n + 1] = Further(tree, walk[n + 1 - 1])
      BY <1>9, <2>1
    <3> QED
      BY <2>1, <3>1
  <2>3. IsWalk(tree, d, walk[n + 1]) /\ (walk[n + 1] = walk[n] \/ Len(walk[n + 1]) = Len(walk[n]) + 1)
    BY <1>11, <2>2, FurtherIs
  <2>4. CASE Further(tree, walk[n]) = walk[n]
    BY <2>1, <2>2, <2>3, <2>4
  <2>5. CASE Further(tree, walk[n]) # walk[n]
    <3>1. Len(walk[n + 1]) = n + 1 + 1
      BY <1>11, <2>2, <2>3, <2>5
    <3> QED
      BY <2>1, <2>3, <3>1
  <2> QED
    BY <2>4, <2>5
<1>12. N \in Done
  <2> HIDE DEF Done, N
  <2> QED
    BY <1>1, <1>10, <1>11, Induction
<1>13. Further(tree, walk[N]) = walk[N]
  <2> SUFFICES ASSUME Len(walk[N]) = N + 1 PROVE Further(tree, walk[N]) = walk[N]
    BY <1>12
  <2>1. IsWalk(tree, d, walk[N]) /\ Len(walk[N]) - 1 = N
    BY <1>1, <1>12
  <2>2. Range(Tail(walk[N])) = D
    BY <2>1, WalkBound
  <2> QED
    BY <2>2 DEF Further
<1> QED
  BY <1>8, <1>12, <1>13

\* The ancestors a device has.
Ancestors(tree, d) == Range(HubChain(tree, d))

\* The chain goes from parent to parent, without an ancestor twice, and what it has is
\* closed: the parent of the device, and of every ancestor, is an ancestor, if known.
LEMMA ChainIs ==
  ASSUME NEW tree, IsTree(tree), NEW d \in DOMAIN tree,
         NEW c, c = HubChain(tree, d)
  PROVE  /\ c \in Seq(DOMAIN tree) /\ Len(c) \in Nat /\ Len(c) <= Cardinality(DOMAIN tree)
         /\ c # << >> => c[1] = tree[d].parent
         /\ \A i \in 1 .. Len(c) - 1 : tree[c[i]].parent = c[i + 1]
         /\ \A i, j \in 1 .. Len(c) : c[i] = c[j] => i = j
         /\ \A x \in {d} \union Ancestors(tree, d) :
              tree[x].parent \in DOMAIN tree => tree[x].parent \in Ancestors(tree, d)
<1> DEFINE D == DOMAIN tree
           n == Len(c)
<1>1. PICK s : IsWalk(tree, d, s) /\ Further(tree, s) = s /\ c = Tail(s)
  BY ChainIsWalk
<1>2. s \in Seq(D) /\ s # << >> /\ s[1] = d
  BY <1>1 DEF IsWalk
<1>3. /\ c \in Seq(D) /\ Len(s) \in Nat /\ Len(s) >= 1 /\ n = Len(s) - 1
      /\ \A i \in 1 .. Len(s) - 1 : c[i] = s[i + 1]
      /\ Last(s) = s[Len(s)]
  BY <1>1, <1>2, TailIs
<1>4. n \in Nat /\ n <= Cardinality(D)
  BY <1>1, <1>3, WalkBound
<1> HIDE DEF n
<1>5. \A i \in 1 .. n : c[i] = s[i + 1] /\ i + 1 \in 2 .. Len(s) /\ i \in 1 .. Len(s) - 1
  BY <1>3
<1>6. c # << >> => c[1] = tree[d].parent
  <2> SUFFICES ASSUME c # << >> PROVE c[1] = tree[d].parent
    OBVIOUS
  <2>1. 1 \in 1 .. n /\ 1 \in 1 .. Len(s) - 1 /\ 1 + 1 = 2
    BY <1>3, <1>4 DEF n
  <2>2. tree[s[1]].parent = s[2]
    BY <1>1, <2>1 DEF IsWalk
  <2> QED
    BY <1>2, <1>5, <2>1, <2>2
<1>7. ASSUME NEW i \in 1 .. n - 1 PROVE tree[c[i]].parent = c[i + 1]
  <2>1. i \in 1 .. n /\ i + 1 \in 1 .. n /\ i + 1 \in 1 .. Len(s) - 1
    BY <1>3, <1>4
  <2>2. c[i] = s[i + 1] /\ c[i + 1] = s[i + 1 + 1]
    BY <1>5, <2>1
  <2>3. tree[s[i + 1]].parent = s[i + 1 + 1]
    BY <1>1, <2>1 DEF IsWalk
  <2> QED
    BY <2>2, <2>3
<1>8. ASSUME NEW i \in 1 .. n, NEW j \in 1 .. n, c[i] = c[j] PROVE i = j
  <2>1. s[i + 1] = s[j + 1] /\ i + 1 \in 2 .. Len(s) /\ j + 1 \in 2 .. Len(s)
    BY <1>5, <1>8
  <2>2. i + 1 = j + 1
    BY <1>1, <2>1 DEF IsWalk
  <2> QED
    BY <2>2
<1>9. Ancestors(tree, d) = {c[i] : i \in 1 .. n}
  BY <1>3 DEF Ancestors, Range, n
<1>10. tree[Last(s)].parent \in D => tree[Last(s)].parent \in Ancestors(tree, d)
  <2> SUFFICES ASSUME tree[Last(s)].parent \in D, tree[Last(s)].parent \notin Range(c) PROVE FALSE
    BY DEF Ancestors
  <2>1. Append(s, tree[Last(s)].parent) = s
    BY <1>1 DEF Further
  <2>2. Len(Append(s, tree[Last(s)].parent)) = Len(s) + 1
    BY <1>2, AppendProperties
  <2> QED
    BY <1>3, <2>1, <2>2
<1>11. ASSUME NEW x \in {d} \union Ancestors(tree, d), tree[x].parent \in D
       PROVE  tree[x].parent \in Ancestors(tree, d)
  <2>1. CASE x = Last(s)
    BY <1>10, <1>11, <2>1
  <2>2. CASE x = d /\ x # Last(s)
    <3>1. 1 \in 1 .. n /\ c # << >>
      BY <1>2, <1>3, <1>4, <2>2 DEF n
    <3> QED
      BY <1>6, <1>9, <2>2, <3>1
  <2>3. CASE x # d /\ x # Last(s)
    <3>1. PICK i \in 1 .. n : x = c[i]
      BY <1>9, <2>3
    <3>2. i # n
      BY <1>3, <1>5, <2>3, <3>1 DEF n
    <3>3. i \in 1 .. n - 1 /\ i + 1 \in 1 .. n
      BY <1>4, <3>2
    <3> QED
      BY <1>7, <1>9, <3>1, <3>3
  <2> QED
    BY <2>1, <2>2, <2>3
<1> QED
  BY <1>3, <1>4, <1>6, <1>7, <1>8, <1>11 DEF n

\* What is closed and has the device's parent has everything along a path of parents.
LEMMA PathsEnd ==
  ASSUME NEW tree, NEW S, NEW n \in Nat, NEW path, n >= 1,
         path[1] \in S,
         \A i \in 1 .. n : path[i] \in DOMAIN tree,
         \A i \in 1 .. n - 1 : tree[path[i]].parent = path[i + 1],
         \A x \in S : tree[x].parent \in DOMAIN tree => tree[x].parent \in S
  PROVE  \A i \in 1 .. n : path[i] \in S
<1> DEFINE T == {i \in 0 .. n - 1 : path[i + 1] \in S}
<1>1. ASSUME NEW m \in 0 .. n - 1 PROVE m \in T
  <2>1. 0 \in T
    BY DEF T
  <2>2. ASSUME NEW i \in 0 .. m - 1, i \in T PROVE i + 1 \in T
    <3>1. i + 1 \in 1 .. n - 1 /\ i + 1 + 1 \in 1 .. n /\ i + 1 \in 0 .. n - 1
      OBVIOUS
    <3>2. tree[path[i + 1]].parent = path[i + 1 + 1] /\ path[i + 1 + 1] \in DOMAIN tree
      BY <3>1
    <3>3. path[i + 1] \in S
      BY <2>2
    <3> QED
      BY <3>1, <3>2, <3>3
  <2>3. m \in Nat
    OBVIOUS
  <2> HIDE DEF T
  <2> QED
    BY <2>1, <2>2, <2>3, Induction
<1>2. ASSUME NEW i \in 1 .. n PROVE path[i] \in S
  <2>1. i - 1 \in 0 .. n - 1 /\ i - 1 + 1 = i
    OBVIOUS
  <2>2. i - 1 \in T
    BY <1>1, <2>1
  <2> QED
    BY <2>1, <2>2
<1> QED
  BY <1>2

\* The ancestors of the chain are the devices above.
LEMMA AncestorsAreAbove ==
  ASSUME NEW tree, IsTree(tree), NEW d \in DOMAIN tree, NEW p
  PROVE  Above(tree, p, d) <=> p \in Ancestors(tree, d)
<1> DEFINE D == DOMAIN tree
           N == Cardinality(D)
           c == HubChain(tree, d)
           A == Ancestors(tree, d)
<1>1. /\ c \in Seq(D) /\ Len(c) \in Nat /\ Len(c) <= N
      /\ c # << >> => c[1] = tree[d].parent
      /\ \A i \in 1 .. Len(c) - 1 : tree[c[i]].parent = c[i + 1]
      /\ \A x \in {d} \union A : tree[x].parent \in D => tree[x].parent \in A
  BY ChainIs
<1>2. N \in Nat
  BY FS_CardinalityType DEF IsTree
<1>3. A = {c[i] : i \in 1 .. Len(c)}
  BY <1>1 DEF Ancestors, Range
<1> HIDE DEF c, N, A
<1>4. ASSUME NEW i \in 1 .. Len(c), p = c[i] PROVE Above(tree, p, d)
  <2> DEFINE path == [k \in 1 .. i + 1 |-> IF k = 1 THEN d ELSE c[k - 1]]
  <2>1. i + 1 \in 2 .. N + 1 /\ i \in Nat
    BY <1>1, <1>2
  <2>2. path \in [1 .. i + 1 -> D]
    <3> SUFFICES ASSUME NEW k \in 1 .. i + 1, k # 1 PROVE c[k - 1] \in D
      OBVIOUS
    <3>1. k - 1 \in 1 .. Len(c)
      BY <1>1, <2>1
    <3> QED
      BY <1>1, <3>1
  <2>3. Len(path) = i + 1
    <3>1. i + 1 \in Nat
      BY <2>1
    <3> HIDE DEF D
    <3> QED
      BY <2>2, <3>1
  <2>4. path[1] = d /\ path[i + 1] = p
    <3>1. 1 \in 1 .. i + 1 /\ i + 1 \in 1 .. i + 1 /\ i + 1 # 1 /\ i + 1 - 1 = i
      BY <2>1
    <3> QED
      BY <1>4, <3>1
  <2>5. ASSUME NEW k \in 1 .. i PROVE tree[path[k]].parent = path[k + 1]
    <3>1. k \in 1 .. i + 1 /\ k + 1 \in 1 .. i + 1 /\ k + 1 # 1 /\ k + 1 - 1 = k
      BY <2>1
    <3>2. path[k + 1] = c[k]
      BY <3>1
    <3>3. CASE k = 1
      <4>1. c # << >>
        BY <1>1, <2>1
      <4> QED
        BY <1>1, <2>4, <3>2, <3>3, <4>1
    <3>4. CASE k # 1
      <4>1. path[k] = c[k - 1] /\ k - 1 \in 1 .. Len(c) - 1 /\ k - 1 + 1 = k
        BY <1>1, <2>1, <3>1, <3>4
      <4>2. tree[c[k - 1]].parent = c[k - 1 + 1]
        BY <1>1, <4>1
      <4> QED
        BY <3>2, <4>1, <4>2
    <3> QED
      BY <3>3, <3>4
  <2> HIDE DEF path
  <2>6. path \in UNION {[1 .. n -> D] : n \in 2 .. N + 1}
    BY <2>1, <2>2
  <2>7. Len(path) - 1 = i
    BY <2>1, <2>3
  <2> QED
    BY <2>3, <2>4, <2>5, <2>6, <2>7 DEF Above, N
<1>5. ASSUME Above(tree, p, d) PROVE p \in A
  <2>1. PICK path \in UNION {[1 .. n -> D] : n \in 2 .. N + 1} :
            /\ path[1] = d /\ path[Len(path)] = p
            /\ \A i \in 1 .. Len(path) - 1 : tree[path[i]].parent = path[i + 1]
    BY <1>5 DEF Above, N
  <2>2. PICK n \in 2 .. N + 1 : path \in [1 .. n -> D]
    BY <2>1
  <2>3. Len(path) = n
    <3>1. n \in Nat
      BY <1>2
    <3> HIDE DEF D
    <3> QED
      BY <2>2, <3>1
  <2>4. /\ path \in [1 .. n -> D] /\ path[1] = d /\ path[n] = p
        /\ \A i \in 1 .. n - 1 : tree[path[i]].parent = path[i + 1]
    BY <2>1, <2>2, <2>3
  <2>5. n \in Nat /\ n >= 2 /\ 1 \in 1 .. n - 1 /\ 2 \in 1 .. n /\ n \in 2 .. n
    BY <1>2
  <2> DEFINE rest == [i \in 1 .. n - 1 |-> path[i + 1]]
  <2>6. path[2] \in A
    <3>1. tree[d].parent = path[2] /\ path[2] \in D
      BY <2>4, <2>5
    <3> QED
      BY <1>1, <3>1
  <2>7. /\ rest[1] \in A
        /\ \A i \in 1 .. n - 1 : rest[i] \in D
        /\ \A i \in 1 .. n - 1 - 1 : tree[rest[i]].parent = rest[i + 1]
    <3>1. \A i \in 1 .. n - 1 : i + 1 \in 1 .. n /\ rest[i] = path[i + 1]
      BY <2>5
    <3>2. \A i \in 1 .. n - 1 - 1 : i \in 1 .. n - 1 /\ i + 1 \in 1 .. n - 1 /\ i + 1 + 1 \in 1 .. n
      BY <2>5
    <3>3. rest[1] = path[2]
      BY <2>5, <3>1
    <3>4. ASSUME NEW i \in 1 .. n - 1 - 1 PROVE tree[rest[i]].parent = rest[i + 1]
      <4>1. rest[i] = path[i + 1] /\ rest[i + 1] = path[i + 1 + 1]
        BY <3>1, <3>2
      <4>2. tree[path[i + 1]].parent = path[i + 1 + 1]
        BY <2>4, <3>2
      <4> QED
        BY <4>1, <4>2
    <3> HIDE DEF rest
    <3> QED
      BY <2>4, <2>6, <3>1, <3>3, <3>4
  <2>8. n - 1 \in Nat /\ n - 1 >= 1
    BY <2>5
  <2>9. \A x \in A : tree[x].parent \in D => tree[x].parent \in A
    BY <1>1
  <2> HIDE DEF rest
  <2>10. \A i \in 1 .. n - 1 : rest[i] \in A
    BY <2>7, <2>8, <2>9, PathsEnd
  <2>11. rest[n - 1] = path[n] /\ n - 1 \in 1 .. n - 1
    <3>1. n - 1 \in 1 .. n - 1 /\ n - 1 + 1 = n
      BY <2>5
    <3> QED
      BY <3>1 DEF rest
  <2> QED
    BY <2>4, <2>10, <2>11
<1> QED
  BY <1>3, <1>4, <1>5 DEF A

\* The ancestors of an ancestor are the device's too.
LEMMA AncestorsNest ==
  ASSUME NEW tree, IsTree(tree), NEW d \in DOMAIN tree,
         NEW p \in DOMAIN tree, p \in {d} \union Ancestors(tree, d)
  PROVE  Ancestors(tree, p) \subseteq Ancestors(tree, d)
<1> DEFINE D == DOMAIN tree
           c == HubChain(tree, p)
           A == Ancestors(tree, d)
<1>1. /\ c \in Seq(D) /\ Len(c) \in Nat
      /\ c # << >> => c[1] = tree[p].parent
      /\ \A i \in 1 .. Len(c) - 1 : tree[c[i]].parent = c[i + 1]
  BY ChainIs
<1>2. \A x \in {d} \union A : tree[x].parent \in D => tree[x].parent \in A
  BY ChainIs
<1>3. Ancestors(tree, p) = {c[i] : i \in 1 .. Len(c)}
  BY <1>1 DEF Ancestors, Range
<1> HIDE DEF c, A
<1>4. CASE c = << >>
  BY <1>1, <1>3, <1>4
<1>5. CASE c # << >>
  <2>1. Len(c) >= 1 /\ 1 \in 1 .. Len(c) /\ \A i \in 1 .. Len(c) : c[i] \in D
    BY <1>1, <1>5
  <2>2. c[1] \in A
    BY <1>1, <1>2, <1>5, <2>1 DEF A
  <2>3. \A i \in 1 .. Len(c) : c[i] \in A
    BY <1>1, <1>2, <2>1, <2>2, PathsEnd
  <2> QED
    BY <1>3, <2>3 DEF A
<1> QED
  BY <1>4, <1>5 DEF A

\* A chain's later ancestors are above its earlier ones.
LEMMA ChainIsNested ==
  ASSUME NEW tree, IsTree(tree), NEW d \in DOMAIN tree, NEW c, c = HubChain(tree, d),
         NEW i \in 1 .. Len(c), NEW j \in 1 .. Len(c), i < j
  PROVE  c[j] \in Ancestors(tree, c[i])
<1> DEFINE D == DOMAIN tree
           A == Ancestors(tree, c[i])
           m == j - i
           path == [k \in 1 .. m |-> c[i + k]]
<1>1. /\ c \in Seq(D) /\ Len(c) \in Nat
      /\ \A k \in 1 .. Len(c) - 1 : tree[c[k]].parent = c[k + 1]
  BY ChainIs
<1>2. c[i] \in D
  BY <1>1
<1>3. \A x \in {c[i]} \union A : tree[x].parent \in D => tree[x].parent \in A
  BY <1>2, ChainIs
<1>4. m \in Nat /\ m >= 1 /\ i + m = j
  BY <1>1
<1> HIDE DEF A
<1>5. \A k \in 1 .. m : path[k] = c[i + k] /\ i + k \in 1 .. Len(c)
  BY <1>1, <1>4
<1>6. path[1] \in A
  <2>1. 1 \in 1 .. m /\ i \in 1 .. Len(c) - 1 /\ i + 1 \in 1 .. Len(c)
    BY <1>1, <1>4
  <2>2. path[1] = c[i + 1] /\ c[i + 1] \in D /\ tree[c[i]].parent = c[i + 1]
    BY <1>1, <1>5, <2>1
  <2> QED
    BY <1>3, <2>2
<1>7. \A k \in 1 .. m : path[k] \in D
  BY <1>1, <1>5
<1>8. ASSUME NEW k \in 1 .. m - 1 PROVE tree[path[k]].parent = path[k + 1]
  <2>1. k \in 1 .. m /\ k + 1 \in 1 .. m /\ i + k \in 1 .. Len(c) - 1 /\ i + (k + 1) = i + k + 1
    BY <1>1, <1>4
  <2>2. tree[c[i + k]].parent = c[i + k + 1]
    BY <1>1, <2>1
  <2> QED
    BY <1>5, <2>1, <2>2
<1> HIDE DEF path, m
<1>9. \A k \in 1 .. m : path[k] \in A
  BY <1>3, <1>4, <1>6, <1>7, <1>8, PathsEnd
<1>10. m \in 1 .. m /\ path[m] = c[j]
  BY <1>4, <1>5
<1> QED
  BY <1>9, <1>10 DEF A

\* Every device is given the nearest controller above it, in every tree.
LEMMA Nearest ==
  ASSUME NEW tree, IsTree(tree)
  PROVE  NearestControllerOn(tree)
<1> SUFFICES ASSUME NEW d \in DOMAIN tree
             PROVE  LET c == Controller(tree, d)
                        above == {p \in DOMAIN tree : IsController(tree, p) /\ Above(tree, p, d)}
                    IN  IF above = {}
                        THEN c = IF tree[d].driver \in KnownDrivers THEN d ELSE NoDevice
                        ELSE c \in above /\ \A p \in above : p = c \/ Above(tree, p, c)
  BY DEF NearestControllerOn
<1> DEFINE chain == HubChain(tree, d)
           up == {i \in DOMAIN chain : IsController(tree, chain[i])}
           above == {p \in DOMAIN tree : IsController(tree, p) /\ Above(tree, p, d)}
<1>1. chain \in Seq(DOMAIN tree) /\ Len(chain) \in Nat
  BY ChainIs
<1>2. \A p : p \in above <=> \E i \in up : p = chain[i]
  <2>1. \A p : Above(tree, p, d) <=> p \in Range(chain)
    BY AncestorsAreAbove DEF Ancestors
  <2>2. \A p : p \in Range(chain) <=> \E i \in DOMAIN chain : p = chain[i]
    BY DEF Range
  <2>3. \A i \in DOMAIN chain : chain[i] \in DOMAIN tree
    BY <1>1
  <2> HIDE DEF chain
  <2> QED
    BY <2>1, <2>2, <2>3
<1>3. up \in SUBSET Nat /\ up \subseteq 1 .. Len(chain)
  BY <1>1
<1>4. Controller(tree, d) = IF up # {} THEN chain[Min(up)]
                            ELSE IF tree[d].driver \in KnownDrivers THEN d ELSE NoDevice
  BY DEF Controller
<1> HIDE DEF up, above
<1>5. CASE up = {}
  BY <1>2, <1>4, <1>5 DEF above
<1>6. CASE up # {}
  <2>1. \E x \in up : \A y \in up : x <= y
    BY <1>3, <1>6, MinimumOfNaturals
  <2>2. Min(up) \in up /\ \A y \in up : Min(up) <= y
    BY <2>1 DEF Min
  <2> DEFINE m == Min(up)
             c == chain[m]
  <2>3. Controller(tree, d) = c /\ c \in above /\ c \in DOMAIN tree
    <3>1. c \in above
      BY <1>2, <2>2
    <3> QED
      BY <1>4, <1>6, <3>1 DEF above
  <2>4. ASSUME NEW p \in above, p # c PROVE Above(tree, p, c)
    <3>1. PICK i \in up : p = chain[i]
      BY <1>2
    <3>2. m < i /\ m \in 1 .. Len(chain) /\ i \in 1 .. Len(chain)
      <4>1. m <= i /\ m # i
        BY <2>2, <2>4, <3>1
      <4>2. m \in 1 .. Len(chain) /\ i \in 1 .. Len(chain)
        BY <1>3, <2>2
      <4> HIDE DEF m
      <4> QED
        BY <1>1, <4>1, <4>2
    <3>3. p \in Ancestors(tree, c)
      <4> HIDE DEF m
      <4> QED
        BY <3>1, <3>2, ChainIsNested
    <3> QED
      BY <2>3, <3>3, AncestorsAreAbove
  <2>5. above # {}
    BY <2>3
  <2> QED
    BY <2>3, <2>4, <2>5 DEF above
<1> QED
  BY <1>5, <1>6

\* Of a receiver and the receivers above it, the topmost is reported, in every tree.
LEMMA OneReport ==
  ASSUME NEW tree, IsTree(tree)
  PROVE  OneReportPerReceiverOn(tree)
<1> DEFINE R == ReceiverNames(tree)
<1> SUFFICES ASSUME NEW d \in R
             PROVE  LET family == {d} \union {p \in R : Above(tree, p, d)}
                        top == {p \in family : ~\E q \in family : Above(tree, q, p)}
                    IN  family \intersect Receivers(tree) = {p \in top : tree[p].parent # NoDevice}
  BY DEF OneReportPerReceiverOn
<1> DEFINE family == {d} \union {p \in R : Above(tree, p, d)}
<1>1. d \in DOMAIN tree /\ family \subseteq R /\ R \subseteq DOMAIN tree
  BY DEF ReceiverNames
<1>2. family = {d} \union {p \in R : p \in Ancestors(tree, d)}
  BY <1>1, AncestorsAreAbove
<1> HIDE DEF family
<1>3. ASSUME NEW p \in family
      PROVE  (Ancestors(tree, p) \intersect R = {}) <=> ~\E q \in family : Above(tree, q, p)
  <2>1. p \in DOMAIN tree /\ p \in {d} \union Ancestors(tree, d)
    BY <1>1, <1>2
  <2>2. \A q : Above(tree, q, p) <=> q \in Ancestors(tree, p)
    BY <2>1, AncestorsAreAbove
  <2>3. \A q \in R : q \in Ancestors(tree, p) => q \in family
    BY <1>1, <1>2, <2>1, AncestorsNest
  <2> QED
    BY <1>1, <2>2, <2>3
<1>4. \A p \in family : p \in Receivers(tree) <=> tree[p].parent # NoDevice /\ ~\E q \in family : Above(tree, q, p)
  BY <1>1, <1>3 DEF Receivers, Ancestors
<1> QED
  BY <1>4 DEF family

-----------------------------------------------------------------------------
(* What a section gives may stand behind base rows.                        *)

\* All signals.
Signal == UNION {SectionSignals[s] : s \in DOMAIN SectionSignals}

\* An evidence row.
RowType == [signal : Signal, links : SUBSET Nat]

\* Which section gives which signals.
LEMMA SectionSignalsIs ==
  /\ SectionSignals["traffic"] = {"traffic_default_route", "default_route_absent"}
  /\ SectionSignals["airspace"] = {"bss_count", "overlap_load", "own_network", "recommendation", "high_band", "move_off"}
  /\ SectionSignals["receivers"] = {"host_controllers", "receiver", "relocation", "usb3_device"}
  /\ SectionSignals["radios"] = {"wifi_adapter", "wifi_off", "bluetooth", "bluetooth_off"}
  /\ SectionSignals["events"] = {"event_count"}
BY DEF SectionSignals

\* The evidence row i of a section may stand where base rows come before the section's.
Founded(s, base, rows, i) ==
  /\ rows[i].signal \in SectionSignals[s]
  /\ \A l \in rows[i].links : \E j \in 1 .. i - 1 :
       l = base + j /\ (rows[i].signal \in DOMAIN Basis => rows[j].signal \in Basis[rows[i].signal])
  /\ rows[i].signal \in DOMAIN Basis =>
       \A x \in Basis[rows[i].signal] : \E j \in 1 .. i - 1 : base + j \in rows[i].links /\ rows[j].signal = x

\* What a section gives may stand there: its rows rest on earlier ones of its own, its findings
\* cite only these.
FoundedOut(s, base, out) ==
  /\ out.rows \in Seq(RowType)
  /\ \A i \in 1 .. Len(out.rows) : Founded(s, base, out.rows, i)
  /\ \A f \in out.findings : f.section = s /\ \A r \in f.rows : \E j \in 1 .. Len(out.rows) : r = base + j

\* The rows of a list of signals, one by one.
LEMMA RowsAre ==
  ASSUME NEW S \in SUBSET Signal, NEW sig \in Seq(S), NEW links \in [DOMAIN sig -> SUBSET Nat]
  PROVE  /\ Rows(sig, links) \in Seq(RowType)
         /\ Len(Rows(sig, links)) = Len(sig)
         /\ \A i \in 1 .. Len(sig) : Rows(sig, links)[i].signal = sig[i] /\ Rows(sig, links)[i].links = links[i]
<1>1. Len(sig) \in Nat /\ DOMAIN sig = 1 .. Len(sig)
  OBVIOUS
<1>2. Rows(sig, links) = [i \in 1 .. Len(sig) |-> [signal |-> sig[i], links |-> links[i]]]
  BY <1>1 DEF Rows
<1>3. \A i \in 1 .. Len(sig) : [signal |-> sig[i], links |-> links[i]] \in RowType
  BY <1>1 DEF RowType
<1> QED
  BY <1>1, <1>2, <1>3

\* A place given by a signal is a row of the section with that signal, ...
LEMMA AtIs ==
  ASSUME NEW base, NEW S, NEW sig \in Seq(S), NEW wanted, NEW r \in At(base, sig, wanted)
  PROVE  \E j \in 1 .. Len(sig) : r = base + j /\ sig[j] \in wanted
BY DEF At

\* ... and every such row has its place.
LEMMA IsAt ==
  ASSUME NEW base, NEW S, NEW sig \in Seq(S), NEW wanted, NEW j \in 1 .. Len(sig), sig[j] \in wanted
  PROVE  base + j \in At(base, sig, wanted)
BY DEF At

\* Rows that each rest on earlier ones of their kinds.
LEMMA RowsFounded ==
  ASSUME NEW s \in DOMAIN SectionSignals, NEW base \in Nat, NEW sig \in Seq(SectionSignals[s]), NEW links \in [DOMAIN sig -> SUBSET Nat],
         \A i \in 1 .. Len(sig) :
           /\ \A l \in links[i] : \E j \in 1 .. i - 1 :
                l = base + j /\ (sig[i] \in DOMAIN Basis => sig[j] \in Basis[sig[i]])
           /\ sig[i] \in DOMAIN Basis =>
                \A x \in Basis[sig[i]] : \E j \in 1 .. i - 1 : base + j \in links[i] /\ sig[j] = x
  PROVE  /\ Rows(sig, links) \in Seq(RowType)
         /\ Len(Rows(sig, links)) = Len(sig)
         /\ \A i \in 1 .. Len(sig) : Founded(s, base, Rows(sig, links), i)
<1> DEFINE rows == Rows(sig, links)
<1>1. /\ rows \in Seq(RowType) /\ Len(rows) = Len(sig) /\ Len(sig) \in Nat
      /\ \A i \in 1 .. Len(sig) : rows[i].signal = sig[i] /\ rows[i].links = links[i]
  <2>1. SectionSignals[s] \in SUBSET Signal
    BY DEF Signal
  <2> QED
    BY <2>1, RowsAre
<1> HIDE DEF rows
<1>2. ASSUME NEW i \in 1 .. Len(sig) PROVE Founded(s, base, rows, i)
  <2>1. rows[i].signal = sig[i] /\ rows[i].links = links[i] /\ sig[i] \in SectionSignals[s]
    BY <1>1
  <2>2. \A j \in 1 .. i - 1 : j \in 1 .. Len(sig) /\ rows[j].signal = sig[j]
    BY <1>1
  <2>3. \A l \in rows[i].links : \E j \in 1 .. i - 1 :
           l = base + j /\ (rows[i].signal \in DOMAIN Basis => rows[j].signal \in Basis[rows[i].signal])
    <3> SUFFICES ASSUME NEW l \in links[i]
                 PROVE  \E j \in 1 .. i - 1 :
                          l = base + j /\ (sig[i] \in DOMAIN Basis => rows[j].signal \in Basis[sig[i]])
      BY <2>1
    <3>1. PICK j \in 1 .. i - 1 : l = base + j /\ (sig[i] \in DOMAIN Basis => sig[j] \in Basis[sig[i]])
      OBVIOUS
    <3> QED
      BY <2>2, <3>1
  <2>4. rows[i].signal \in DOMAIN Basis =>
          \A x \in Basis[rows[i].signal] : \E j \in 1 .. i - 1 : base + j \in rows[i].links /\ rows[j].signal = x
    <3> SUFFICES ASSUME sig[i] \in DOMAIN Basis, NEW x \in Basis[sig[i]]
                 PROVE  \E j \in 1 .. i - 1 : base + j \in links[i] /\ rows[j].signal = x
      BY <2>1
    <3>1. PICK j \in 1 .. i - 1 : base + j \in links[i] /\ sig[j] = x
      OBVIOUS
    <3> QED
      BY <2>2, <3>1
  <2> QED
    BY <2>1, <2>3, <2>4 DEF Founded
<1> QED
  BY <1>1, <1>2 DEF rows

\* Rows that state what was read, and rest on none.
LEMMA PlainFounded ==
  ASSUME NEW s \in DOMAIN SectionSignals, NEW base \in Nat, NEW sig \in Seq(SectionSignals[s]), NEW links,
         links = [i \in DOMAIN sig |-> {}],
         \A i \in 1 .. Len(sig) : sig[i] \notin DOMAIN Basis
  PROVE  /\ Rows(sig, links) \in Seq(RowType)
         /\ Len(Rows(sig, links)) = Len(sig)
         /\ \A i \in 1 .. Len(sig) : Founded(s, base, Rows(sig, links), i)
<1>1. links \in [DOMAIN sig -> SUBSET Nat] /\ \A i \in 1 .. Len(sig) : links[i] = {}
  OBVIOUS
<1> QED
  BY <1>1, RowsFounded

\* The traffic section: one row at most, which rests on none.
LEMMA TrafficFounded ==
  ASSUME NEW b, NEW base \in Nat
  PROVE  FoundedOut("traffic", base, Traffic(b, base))
<1> DEFINE routes == b.routes.rows
           sig == IF ~Read(b.routes) \/ ~Read(b.adapters) THEN << >>
                  ELSE IF Defaults(routes) # {} THEN <<"traffic_default_route">>
                  ELSE IF routes # << >> THEN <<"default_route_absent">> ELSE << >>
           links == [i \in DOMAIN sig |-> {}]
           id == IF sig = <<"traffic_default_route">> /\ SplitFamilies(routes)
                 THEN "traffic_split" ELSE "traffic_path"
           out == Traffic(b, base)
           Sig == {"traffic_default_route", "default_route_absent"}
<1>1. /\ out.rows = Rows(sig, links)
      /\ out.findings = {Finding("traffic", id, sig # << >>, At(base, sig, Range(sig)))}
  BY DEF Traffic
<1>2. sig \in Seq(Sig)
  <2>1. << >> \in Seq(Sig) /\ <<"traffic_default_route">> \in Seq(Sig) /\ <<"default_route_absent">> \in Seq(Sig)
    OBVIOUS
  <2> HIDE DEF Sig
  <2> QED
    BY <2>1
<1> HIDE DEF sig, out, id
<1>3. SectionSignals["traffic"] = Sig /\ "traffic" \in DOMAIN SectionSignals
      /\ \A i \in 1 .. Len(sig) : sig[i] \notin DOMAIN Basis
  <2>1. \A x \in Sig : x \notin DOMAIN Basis
    BY DEF Basis
  <2> QED
    BY <1>2, <2>1 DEF SectionSignals
<1>4. \A f \in out.findings : f.section = "traffic" /\ \A r \in f.rows : \E j \in 1 .. Len(sig) : r = base + j
  BY <1>1, <1>2, AtIs DEF Finding
<1>5. /\ Rows(sig, links) \in Seq(RowType)
      /\ Len(Rows(sig, links)) = Len(sig)
      /\ \A i \in 1 .. Len(sig) : Founded("traffic", base, Rows(sig, links), i)
  BY <1>2, <1>3, PlainFounded
<1> HIDE DEF links
<1> QED
  BY <1>1, <1>4, <1>5 DEF FoundedOut, out

\* The events section: a row for each id, none resting on another.
LEMMA EventsFounded ==
  ASSUME NEW b, NEW base \in Nat, IsBundle(b)
  PROVE  FoundedOut("events", base, EventSection(b, base))
<1> DEFINE known == b.events.entry \in Observed /\ Read(b.events)
           sig == IF known THEN [i \in 1 .. b.events.ids |-> "event_count"] ELSE << >>
           links == [i \in DOMAIN sig |-> {}]
           out == EventSection(b, base)
<1>1. /\ out.rows = Rows(sig, links)
      /\ out.findings = IF b.events.entry = None THEN {}
                        ELSE {Finding("events", "events", known, At(base, sig, {"event_count"}))}
  BY DEF EventSection
<1>2. sig \in Seq({"event_count"})
  <2>1. b.events.ids \in Nat
    BY DEF IsBundle
  <2>2. \A n \in Nat : [i \in 1 .. n |-> "event_count"] \in Seq({"event_count"})
    OBVIOUS
  <2> QED
    BY <2>1, <2>2
<1> HIDE DEF sig, out, known
<1>3. SectionSignals["events"] = {"event_count"} /\ "events" \in DOMAIN SectionSignals
      /\ \A i \in 1 .. Len(sig) : sig[i] \notin DOMAIN Basis
  BY <1>2 DEF SectionSignals, Basis
<1>4. \A f \in out.findings : f.section = "events" /\ \A r \in f.rows : \E j \in 1 .. Len(sig) : r = base + j
  BY <1>1, <1>2, AtIs DEF Finding
<1>5. /\ Rows(sig, links) \in Seq(RowType)
      /\ Len(Rows(sig, links)) = Len(sig)
      /\ \A i \in 1 .. Len(sig) : Founded("events", base, Rows(sig, links), i)
  BY <1>2, <1>3, PlainFounded
<1> HIDE DEF links
<1> QED
  BY <1>1, <1>4, <1>5 DEF FoundedOut, out

\* The receivers section: a receiver's relocation rests on the controllers, the first row, and on
\* the receiver, the row before it.
LEMMA ReceiversFounded ==
  ASSUME NEW b, NEW base \in Nat, IsBundle(b)
  PROVE  FoundedOut("receivers", base, ReceiverSection(b, base))
<1> DEFINE tree == b.devices.rows
           known == Read(b.devices) /\ DOMAIN tree # {}
           n == Cardinality(Receivers(tree))
           noisy == IF n = 0 THEN 0 ELSE Cardinality(Noisy(tree))
           all == [i \in 1 .. 1 + 2 * n + noisy |->
                     IF i = 1 THEN "host_controllers"
                     ELSE IF i > 1 + 2 * n THEN "usb3_device"
                     ELSE IF \E r \in 1 .. n : i = 2 * r THEN "receiver" ELSE "relocation"]
           sig == IF ~known THEN << >> ELSE all
           links == [i \in DOMAIN sig |-> IF sig[i] = "relocation" THEN {base + 1, base + i - 1} ELSE {}]
           out == ReceiverSection(b, base)
           Sig == {"host_controllers", "receiver", "relocation", "usb3_device"}
<1>1. /\ out.rows = Rows(sig, links)
      /\ out.findings =
           IF ~known THEN {Finding("receivers", "usb_receivers", FALSE, {})}
           ELSE IF n = 0 THEN {Finding("receivers", "unrecognised", TRUE, {base + 1})}
           ELSE {Finding("receivers", "receiver", TRUE, {base + 1, base + 2 * r, base + 2 * r + 1}) : r \in 1 .. n}
                \union (IF noisy = 0 THEN {}
                        ELSE {Finding("receivers", "noise", TRUE, At(base, sig, {"usb3_device"}))})
  BY DEF ReceiverSection
<1>2. n \in Nat /\ noisy \in Nat
  <2>1. IsFiniteSet(DOMAIN tree)
    BY DEF IsBundle, IsTree
  <2>2. Receivers(tree) \subseteq DOMAIN tree /\ Noisy(tree) \subseteq DOMAIN tree
    BY DEF Receivers, ReceiverNames, Noisy
  <2> QED
    BY <2>1, <2>2, FS_Subset, FS_CardinalityType
<1> HIDE DEF n, noisy, out, known
<1>3. /\ all \in Seq(Sig) /\ Len(all) = 1 + 2 * n + noisy
      /\ \A i \in 1 .. Len(all) :
           /\ i = 1 => all[i] = "host_controllers"
           /\ i > 1 + 2 * n => all[i] = "usb3_device"
           /\ 1 < i /\ i <= 1 + 2 * n =>
                all[i] = IF \E r \in 1 .. n : i = 2 * r THEN "receiver" ELSE "relocation"
  <2> DEFINE N == 1 + 2 * n + noisy
  <2>1. N \in Nat
    BY <1>2
  <2>2. all \in [1 .. N -> Sig]
    OBVIOUS
  <2>3. \A i \in 1 .. N :
           /\ i = 1 => all[i] = "host_controllers"
           /\ i > 1 + 2 * n => all[i] = "usb3_device"
           /\ 1 < i /\ i <= 1 + 2 * n =>
                all[i] = IF \E r \in 1 .. n : i = 2 * r THEN "receiver" ELSE "relocation"
    BY <1>2
  <2> HIDE DEF all, N, Sig
  <2>4. all \in Seq(Sig) /\ Len(all) = N
    BY <2>1, <2>2
  <2> QED
    BY <2>3, <2>4 DEF N
<1> HIDE DEF all
<1>4. \A r \in 1 .. n : all[2 * r] = "receiver" /\ 2 * r \in 1 .. Len(all) /\ 2 * r + 1 \in 1 .. Len(all)
  BY <1>2, <1>3
<1>5. sig \in Seq(Sig) /\ links \in [DOMAIN sig -> SUBSET Nat]
  <2>1. sig \in Seq(Sig)
    <3> HIDE DEF Sig
    <3> QED
      BY <1>3
  <2> HIDE DEF sig
  <2>2. DOMAIN sig \subseteq Nat /\ \A i \in DOMAIN sig : base + 1 \in Nat /\ (i >= 1 /\ i \in Nat /\ base + i - 1 \in Nat)
    BY <2>1
  <2> QED
    BY <2>1, <2>2
<1>6. ASSUME NEW i \in 1 .. Len(sig)
      PROVE  /\ \A l \in links[i] : \E j \in 1 .. i - 1 :
                  l = base + j /\ (sig[i] \in DOMAIN Basis => sig[j] \in Basis[sig[i]])
             /\ sig[i] \in DOMAIN Basis =>
                  \A x \in Basis[sig[i]] : \E j \in 1 .. i - 1 : base + j \in links[i] /\ sig[j] = x
  <2>1. sig = all /\ i \in 1 .. Len(all) /\ i \in Nat
    BY <1>3
  <2>2. sig[i] \in Sig
    <3> HIDE DEF Sig
    <3> QED
      BY <1>5
  <2>3. CASE sig[i] # "relocation"
    <3>1. links[i] = {} /\ sig[i] \notin DOMAIN Basis
      BY <2>1, <2>2, <2>3 DEF Basis
    <3> QED
      BY <3>1
  <2>4. CASE sig[i] = "relocation"
    <3>1. 1 < i /\ i <= 1 + 2 * n /\ \A r \in 1 .. n : i # 2 * r
      <4>1. all[i] = "relocation"
        BY <2>1, <2>4
      <4>2. i # 1
        BY <1>3, <2>1, <4>1
      <4>3. ~ (i > 1 + 2 * n)
        BY <1>3, <2>1, <4>1
      <4>4. ~ \E r \in 1 .. n : i = 2 * r
        BY <1>2, <1>3, <2>1, <4>1, <4>2, <4>3
      <4> QED
        BY <1>2, <2>1, <4>2, <4>3, <4>4
    <3>2. PICK r \in 1 .. n : i = 2 * r + 1
      <4>1. \E r \in Nat : i = 2 * r \/ i = 2 * r + 1
        <5> WITNESS i \div 2 \in Nat
        <5> QED
          BY <2>1
      <4>2. PICK r \in Nat : i = 2 * r \/ i = 2 * r + 1
        BY <4>1
      <4>3. r \in 1 .. n
        BY <1>2, <2>1, <3>1, <4>2
      <4> QED
        BY <3>1, <4>2, <4>3
    <3>3. sig[1] = "host_controllers" /\ sig[i - 1] = "receiver" /\ 1 \in 1 .. i - 1 /\ i - 1 \in 1 .. i - 1
      <4>1. i - 1 = 2 * r
        BY <1>2, <3>2
      <4>2. all[1] = "host_controllers"
        BY <1>2, <1>3
      <4> QED
        BY <1>4, <2>1, <3>1, <4>1, <4>2
    <3>4. links[i] = {base + 1, base + (i - 1)}
      BY <2>1, <2>4
    <3>5. sig[i] \in DOMAIN Basis /\ Basis[sig[i]] = {"host_controllers", "receiver"}
      BY <2>4 DEF Basis
    <3> HIDE DEF links, sig
    <3> QED
      BY <3>3, <3>4, <3>5
  <2> QED
    BY <2>3, <2>4
<1>7. \A f \in out.findings : f.section = "receivers" /\ \A r \in f.rows : \E j \in 1 .. Len(sig) : r = base + j
  <2> SUFFICES ASSUME NEW f \in out.findings
               PROVE  f.section = "receivers" /\ \A r \in f.rows : \E j \in 1 .. Len(sig) : r = base + j
    OBVIOUS
  <2>1. CASE f = Finding("receivers", "usb_receivers", FALSE, {})
    BY <2>1 DEF Finding
  <2>2. CASE f = Finding("receivers", "unrecognised", TRUE, {base + 1}) /\ known
    <3>1. 1 \in 1 .. Len(sig)
      BY <1>2, <1>3, <2>2
    <3> QED
      BY <2>2, <3>1 DEF Finding
  <2>3. CASE known /\ \E r \in 1 .. n : f = Finding("receivers", "receiver", TRUE, {base + 1, base + 2 * r, base + 2 * r + 1})
    <3>1. PICK r \in 1 .. n : f = Finding("receivers", "receiver", TRUE, {base + 1, base + 2 * r, base + 2 * r + 1})
      BY <2>3
    <3>2. f.section = "receivers" /\ f.rows = {base + 1, base + 2 * r, base + (2 * r + 1)}
      BY <3>1 DEF Finding
    <3>3. 1 \in 1 .. Len(sig) /\ 2 * r \in 1 .. Len(sig) /\ 2 * r + 1 \in 1 .. Len(sig)
      BY <1>2, <1>3, <1>4, <2>3
    <3> QED
      BY <3>2, <3>3
  <2>4. CASE f = Finding("receivers", "noise", TRUE, At(base, sig, {"usb3_device"}))
    <3> HIDE DEF sig, Sig
    <3> QED
      BY <1>5, <2>4, AtIs DEF Finding
  <2> QED
    BY <1>1, <2>1, <2>2, <2>3, <2>4
<1>8. SectionSignals["receivers"] = Sig /\ "receivers" \in DOMAIN SectionSignals
  BY DEF SectionSignals
<1> HIDE DEF sig, links, Sig
<1>9. /\ Rows(sig, links) \in Seq(RowType)
      /\ Len(Rows(sig, links)) = Len(sig)
      /\ \A i \in 1 .. Len(sig) : Founded("receivers", base, Rows(sig, links), i)
  BY <1>5, <1>6, <1>8, RowsFounded
<1> QED
  BY <1>1, <1>7, <1>9 DEF FoundedOut, out

\* The channels' rows: loads and counts, and a load there is.
LEMMA ChannelRowsAre ==
  ASSUME NEW aps
  PROVE  /\ ChannelRows(aps) \in Seq({"bss_count", "overlap_load"})
         /\ \E k \in 1 .. Len(ChannelRows(aps)) : ChannelRows(aps)[k] = "overlap_load"
<1> DEFINE S == {"bss_count", "overlap_load"}
           count(c) == IF \E a \in In24(aps) : a.channel = c THEN <<"bss_count">> ELSE << >>
           load(c) == IF c \in Candidates THEN <<"overlap_load">> ELSE << >>
           seqs == [c \in 1 .. 14 |-> count(c) \o load(c)]
<1>1. \A c : count(c) \in Seq(S) /\ load(c) \in Seq(S)
  <2>1. << >> \in Seq(S) /\ <<"bss_count">> \in Seq(S) /\ <<"overlap_load">> \in Seq(S)
    OBVIOUS
  <2> HIDE DEF S
  <2> QED
    BY <2>1
<1>2. load(1) = <<"overlap_load">>
  BY DEF Candidates
<1> HIDE DEF count, load, S
<1>3. \A c : count(c) \o load(c) \in Seq(S)
  BY <1>1
<1>4. seqs \in Seq(Seq(S)) /\ Len(seqs) = 14 /\ seqs[1] = count(1) \o load(1)
  BY <1>3
<1>5. ChannelRows(aps) = FlattenSeq(seqs)
  BY DEF ChannelRows, count, load
<1> HIDE DEF seqs
<1>6. FlattenSeq(seqs) \in Seq(S) /\ Blocks(FlattenSeq(seqs), seqs, 14)
  BY <1>4, Flattened
<1>7. \E j \in 1 .. Len(seqs[1]) : seqs[1][j] = "overlap_load"
  <2>1. count(1) \in Seq(S) /\ load(1) \in Seq(S)
    BY <1>1
  <2>2. Len(load(1)) = 1 /\ load(1)[1] = "overlap_load"
    BY <1>2
  <2>3. /\ Len(seqs[1]) = Len(count(1)) + 1
        /\ \A i \in 1 .. Len(count(1)) + 1 :
             seqs[1][i] = IF i <= Len(count(1)) THEN count(1)[i] ELSE load(1)[i - Len(count(1))]
    <3>1. /\ Len(count(1) \o load(1)) = Len(count(1)) + Len(load(1))
          /\ \A i \in 1 .. Len(count(1)) + Len(load(1)) :
               (count(1) \o load(1))[i] = IF i <= Len(count(1)) THEN count(1)[i] ELSE load(1)[i - Len(count(1))]
      BY <2>1, ConcatProperties
    <3> QED
      BY <1>4, <2>2, <3>1
  <2> DEFINE j == Len(count(1)) + 1
  <2>4. Len(count(1)) \in Nat
    BY <2>1
  <2>5. j \in 1 .. Len(seqs[1]) /\ ~ (j <= Len(count(1))) /\ j - Len(count(1)) = 1
    BY <2>3, <2>4
  <2> QED
    BY <2>2, <2>3, <2>5
<1>8. \E k \in 1 .. Len(FlattenSeq(seqs)) : FlattenSeq(seqs)[k] = "overlap_load"
  <2>1. 1 \in 1 .. 14
    OBVIOUS
  <2>2. PICK j \in 1 .. Len(seqs[1]) : seqs[1][j] = "overlap_load"
    BY <1>7
  <2> QED
    BY <1>6, <2>1, <2>2 DEF Blocks
<1> QED
  BY <1>5, <1>6, <1>8 DEF S

\* The signals of the rows on the owner's network.
OwnSignals == {"own_network", "recommendation", "high_band", "move_off"}

\* The owner's rows: the network, the advice on the channel, the higher bands and the
\* advice to move there.
LEMMA OwnRowsAre ==
  ASSUME NEW aps, NEW owner, IsScan(aps), Own(aps, owner) # {},
         NEW own, own = OwnRows(aps, owner)
  PROVE  /\ own \in Seq(OwnSignals)
         /\ Len(own) = 2 \/ (Len(own) >= 4 /\ own[Len(own)] = "move_off")
         /\ own[1] = "own_network" /\ own[2] = "recommendation"
         /\ \A i \in 3 .. Len(own) : i # Len(own) => own[i] = "high_band"
<1> DEFINE h == Cardinality(High(Own(aps, owner)))
           two == <<"own_network", "recommendation">>
           bands == [i \in 1 .. h |-> "high_band"]
           high == bands \o <<"move_off">>
<1>1. h \in Nat /\ (High(Own(aps, owner)) # {} => h # 0)
  <2>1. High(Own(aps, owner)) \subseteq aps /\ IsFiniteSet(aps)
    BY DEF High, Own, IsScan
  <2> QED
    BY <2>1, FS_Subset, FS_CardinalityType, FS_EmptySet
<1>2. two \in Seq(OwnSignals) /\ Len(two) = 2 /\ two[1] = "own_network" /\ two[2] = "recommendation"
      /\ <<"move_off">> \in Seq(OwnSignals) /\ Len(<<"move_off">>) = 1 /\ <<"move_off">>[1] = "move_off"
  BY DEF OwnSignals
<1>3. own = IF High(Own(aps, owner)) = {} THEN two \o << >> ELSE two \o high
  BY DEF OwnRows
<1> HIDE DEF h, two
<1>4. bands \in Seq(OwnSignals) /\ Len(bands) = h /\ \A i \in 1 .. h : bands[i] = "high_band"
  BY <1>1 DEF OwnSignals
<1> HIDE DEF bands
<1>5. /\ high \in Seq(OwnSignals) /\ Len(high) = h + 1
      /\ \A i \in 1 .. h + 1 : high[i] = IF i <= h THEN bands[i] ELSE <<"move_off">>[i - h]
  BY <1>2, <1>4, ConcatProperties
<1>6. high[h + 1] = "move_off" /\ \A i \in 1 .. h : high[i] = "high_band"
  <2>1. h + 1 \in 1 .. h + 1 /\ ~ (h + 1 <= h) /\ h + 1 - h = 1
    BY <1>1
  <2>2. high[h + 1] = "move_off"
    BY <1>2, <1>5, <2>1
  <2>3. \A i \in 1 .. h : i \in 1 .. h + 1 /\ i <= h
    BY <1>1
  <2> QED
    BY <1>4, <1>5, <2>2, <2>3
<1> HIDE DEF high
<1>7. CASE High(Own(aps, owner)) = {}
  <2>1. own = two
    BY <1>2, <1>3, <1>7, ConcatEmptySeq
  <2>2. ~ \E i \in 3 .. 2 : TRUE
    OBVIOUS
  <2>3. own \in Seq(OwnSignals) /\ Len(own) = 2 /\ own[1] = "own_network" /\ own[2] = "recommendation"
    BY <1>2, <2>1
  <2> QED
    BY <2>2, <2>3
<1>8. CASE High(Own(aps, owner)) # {}
  <2>1. /\ own \in Seq(OwnSignals) /\ Len(own) = h + 3
        /\ \A i \in 1 .. h + 3 : own[i] = IF i <= 2 THEN two[i] ELSE high[i - 2]
    <3>1. Len(two) + Len(high) = h + 3
      BY <1>1, <1>2, <1>5
    <3>2. /\ two \o high \in Seq(OwnSignals) /\ Len(two \o high) = Len(two) + Len(high)
          /\ \A i \in 1 .. Len(two) + Len(high) :
               (two \o high)[i] = IF i <= Len(two) THEN two[i] ELSE high[i - Len(two)]
      BY <1>2, <1>5, ConcatProperties
    <3> QED
      BY <1>2, <1>3, <1>8, <3>1, <3>2
  <2>2. own[1] = "own_network" /\ own[2] = "recommendation"
    BY <1>1, <1>2, <2>1
  <2>6. ASSUME NEW i \in 3 .. h + 3 PROVE own[i] = high[i - 2]
    <3>1. i \in 1 .. h + 3 /\ ~ (i <= 2)
      BY <1>1
    <3> QED
      BY <2>1, <3>1
  <2>3. ASSUME NEW i \in 3 .. h + 3, i = h + 3 PROVE own[i] = "move_off"
    <3>1. i - 2 = h + 1
      BY <1>1, <2>3
    <3>2. own[i] = high[i - 2]
      BY <2>6
    <3> QED
      BY <1>6, <3>1, <3>2
  <2>4. ASSUME NEW i \in 3 .. h + 3, i # h + 3 PROVE own[i] = "high_band"
    <3>1. i - 2 \in 1 .. h
      BY <1>1, <2>4
    <3> QED
      BY <1>6, <2>6, <3>1
  <2>5. h + 3 >= 4 /\ h + 3 \in 3 .. h + 3
    BY <1>1, <1>8
  <2> QED
    BY <2>1, <2>2, <2>3, <2>4, <2>5
<1> QED
  BY <1>7, <1>8

\* The airspace section: the advice on the channel rests on the owner's network and on the loads,
\* the advice to move to a higher band on the network and what it has there.
LEMMA AirspaceFounded ==
  ASSUME NEW b, NEW base \in Nat, IsBundle(b)
  PROVE  FoundedOut("airspace", base, AirspaceSection(b, base))
<1> DEFINE aps == b.scan.rows
           owner == b.owner
           channels == ChannelRows(aps)
           own == OwnRows(aps, owner)
           all == channels \o own
           sig == IF ~Read(b.scan) THEN << >>
                  ELSE IF In24(aps) = {} THEN IF aps = {} THEN << >> ELSE <<"bss_count">>
                  ELSE all
           links == [i \in DOMAIN sig |->
                       IF sig[i] = "recommendation" THEN At(base, sig, {"own_network", "overlap_load"})
                       ELSE IF sig[i] = "move_off" THEN At(base, sig, {"own_network", "high_band"})
                       ELSE {}]
           out == AirspaceSection(b, base)
           m == Len(channels)
           Sig == {"bss_count", "overlap_load", "own_network", "recommendation", "high_band", "move_off"}
<1>1. /\ out.rows = Rows(sig, links)
      /\ out.findings = IF ~Read(b.scan) THEN {Finding("airspace", "scan", FALSE, {})}
                        ELSE IF In24(aps) = {}
                        THEN {Finding("airspace", "empty", TRUE, At(base, sig, {"bss_count"}))}
                        ELSE AirspaceFindings(b, base, sig)
  BY DEF AirspaceSection
<1>2. /\ channels \in Seq({"bss_count", "overlap_load"}) /\ m \in Nat
      /\ \E k \in 1 .. m : channels[k] = "overlap_load"
  BY ChannelRowsAre
<1>3. own = << >> \/ ( /\ own \in Seq(OwnSignals)
                       /\ Len(own) = 2 \/ (Len(own) >= 4 /\ own[Len(own)] = "move_off")
                       /\ own[1] = "own_network" /\ own[2] = "recommendation"
                       /\ \A i \in 3 .. Len(own) : i # Len(own) => own[i] = "high_band")
  <2>1. IsScan(aps)
    BY DEF IsBundle
  <2>2. CASE Own(aps, owner) = {}
    BY <2>2 DEF OwnRows
  <2>3. CASE Own(aps, owner) # {}
    BY <2>1, <2>3, OwnRowsAre
  <2> QED
    BY <2>2, <2>3
<1> HIDE DEF channels, own, out
<1>4. channels \in Seq(Sig) /\ own \in Seq(Sig) /\ Len(own) \in Nat
  <2>1. {"bss_count", "overlap_load"} \subseteq Sig /\ OwnSignals \subseteq Sig
    BY DEF OwnSignals
  <2> HIDE DEF Sig
  <2>2. << >> \in Seq(Sig)
    OBVIOUS
  <2>3. channels \in Seq(Sig)
    BY <1>2, <2>1, SeqMonotonic
  <2>4. own \in Seq(Sig)
    BY <1>3, <2>1, <2>2, SeqMonotonic
  <2> QED
    BY <2>3, <2>4
<1>5. /\ all \in Seq(Sig) /\ Len(all) = m + Len(own)
      /\ \A i \in 1 .. m + Len(own) : all[i] = IF i <= m THEN channels[i] ELSE own[i - m]
  <2> HIDE DEF Sig
  <2> QED
    BY <1>4, ConcatProperties
\* The kinds of the rows by their places.
<1>6. /\ \A i \in 1 .. m : all[i] \in {"bss_count", "overlap_load"}
      /\ \A i \in 1 .. Len(own) : m + i \in 1 .. Len(all) /\ all[m + i] = own[i]
      /\ \E k \in 1 .. m : all[k] = "overlap_load"
  <2>1. \A i \in 1 .. m : i \in 1 .. m + Len(own) /\ all[i] = channels[i]
    BY <1>2, <1>4, <1>5
  <2>2. \A i \in 1 .. Len(own) : m + i \in 1 .. m + Len(own) /\ ~ (m + i <= m) /\ m + i - m = i
    BY <1>2, <1>4
  <2>3. ASSUME NEW i \in 1 .. Len(own) PROVE all[m + i] = own[i]
    <3> HIDE DEF all
    <3>1. m + i \in 1 .. m + Len(own) /\ ~ (m + i <= m) /\ m + i - m = i
      BY <2>2
    <3> QED
      BY <1>5, <3>1
  <2> HIDE DEF all
  <2> QED
    BY <1>2, <1>5, <2>1, <2>2, <2>3
<1> HIDE DEF all, m
<1>7. sig \in Seq(Sig) /\ (sig = all \/ sig \in {<< >>, <<"bss_count">>})
  <2>1. << >> \in Seq(Sig) /\ <<"bss_count">> \in Seq(Sig)
    OBVIOUS
  <2> HIDE DEF Sig
  <2> QED
    BY <1>5, <2>1
<1>8. links \in [DOMAIN sig -> SUBSET Nat]
  <2>1. \A w : At(base, sig, w) \in SUBSET Nat
    <3>1. DOMAIN sig \subseteq Nat
      BY <1>7
    <3> QED
      BY <3>1 DEF At
  <2> HIDE DEF sig
  <2> QED
    BY <2>1
<1>9. \A i \in 1 .. Len(sig) :
        /\ sig[i] = "recommendation" => links[i] = At(base, sig, {"own_network", "overlap_load"})
        /\ sig[i] = "move_off" => links[i] = At(base, sig, {"own_network", "high_band"})
        /\ sig[i] \notin {"recommendation", "move_off"} => links[i] = {}
  <2> HIDE DEF sig
  <2> QED
    BY <1>7
<1> HIDE DEF sig, links, Sig
<1>10. ASSUME NEW i \in 1 .. Len(sig)
       PROVE  /\ \A l \in links[i] : \E j \in 1 .. i - 1 :
                   l = base + j /\ (sig[i] \in DOMAIN Basis => sig[j] \in Basis[sig[i]])
              /\ sig[i] \in DOMAIN Basis =>
                   \A x \in Basis[sig[i]] : \E j \in 1 .. i - 1 : base + j \in links[i] /\ sig[j] = x
  <2>1. CASE sig[i] \notin {"recommendation", "move_off"}
    <3>1. sig[i] \notin DOMAIN Basis
      BY <1>7, <2>1 DEF Sig, Basis
    <3> QED
      BY <1>9, <2>1, <3>1
  <2>2. CASE sig[i] \in {"recommendation", "move_off"}
    <3>1. sig = all /\ i \in 1 .. Len(all) /\ i \in Nat
      <4>1. sig # << >> /\ sig # <<"bss_count">>
        BY <2>2
      <4> QED
        BY <1>7, <4>1
    <3>2. i > m /\ own # << >>
      <4>1. ~ (i <= m)
        BY <1>2, <1>6, <2>2, <3>1
      <4>2. Len(own) # 0
        BY <1>2, <1>4, <1>5, <3>1, <4>1
      <4> QED
        BY <1>2, <3>1, <4>1, <4>2
    <3>3. PICK o \in 1 .. Len(own) : i = m + o
      <4>1. i - m \in 1 .. Len(own) /\ i = m + (i - m)
        BY <1>2, <1>4, <1>5, <3>1, <3>2
      <4> QED
        BY <4>1
    <3>4. own[o] = sig[i]
      BY <1>6, <3>1, <3>3
    <3>5. CASE sig[i] = "recommendation"
      <4>1. o = 2
        BY <1>3, <1>4, <2>2, <3>2, <3>4, <3>5
      <4>2. Basis[sig[i]] = {"own_network", "overlap_load"}
        BY <3>5 DEF Basis
      <4>3. links[i] = At(base, sig, {"own_network", "overlap_load"})
        BY <1>9, <3>5
      <4>4. all[m + 1] = "own_network" /\ m + 1 \in 1 .. i - 1
        <5>1. 1 \in 1 .. Len(own) /\ m + 1 \in 1 .. i - 1
          BY <1>2, <1>4, <3>3, <4>1
        <5>2. all[m + 1] = own[1] /\ own[1] = "own_network"
          BY <1>3, <1>6, <3>2, <5>1
        <5> QED
          BY <5>1, <5>2
      <4>5. PICK k \in 1 .. m : all[k] = "overlap_load"
        BY <1>6
      <4>6. base + k \in links[i] /\ base + (m + 1) \in links[i] /\ k \in 1 .. i - 1
        <5>1. k \in 1 .. i - 1 /\ k \in 1 .. Len(sig)
          BY <1>2, <1>4, <1>5, <3>1, <3>3, <4>1, <4>5
        <5>2. m + 1 \in 1 .. Len(sig)
          BY <1>2, <1>4, <1>5, <3>1, <3>3, <4>1
        <5>3. sig[k] \in {"own_network", "overlap_load"} /\ sig[m + 1] \in {"own_network", "overlap_load"}
          BY <3>1, <4>4, <4>5
        <5>4. base + k \in At(base, sig, {"own_network", "overlap_load"})
          BY <1>7, <5>1, <5>3, IsAt
        <5>5. base + (m + 1) \in At(base, sig, {"own_network", "overlap_load"})
          BY <1>7, <5>2, <5>3, IsAt
        <5> QED
          BY <4>3, <5>1, <5>4, <5>5
      <4>7. ASSUME NEW l \in links[i]
            PROVE  \E j \in 1 .. i - 1 : l = base + j /\ sig[j] \in Basis[sig[i]]
        <5>1. PICK j \in 1 .. Len(sig) : l = base + j /\ sig[j] \in {"own_network", "overlap_load"}
          BY <1>7, <4>3, <4>7, AtIs
        <5>2. j < i
          <6>1. SUFFICES ASSUME ~ (j < i) PROVE FALSE
            OBVIOUS
          <6>2. j - m \in 2 .. Len(own) /\ j = m + (j - m)
            BY <1>2, <1>4, <1>5, <3>1, <3>3, <4>1, <6>1
          <6>3. own[j - m] = all[j]
            BY <1>6, <6>2
          <6>4. own[j - m] \notin {"own_network", "overlap_load"}
            BY <1>3, <1>4, <3>2, <6>2
          <6> QED
            BY <3>1, <5>1, <6>3, <6>4
        <5> QED
          BY <3>1, <4>2, <5>1, <5>2
      <4> QED
        BY <3>1, <4>2, <4>4, <4>5, <4>6, <4>7
    <3>6. CASE sig[i] = "move_off"
      <4>1. o = Len(own) /\ Len(own) >= 4
        BY <1>3, <1>4, <2>2, <3>2, <3>4, <3>6
      <4>2. Basis[sig[i]] = {"own_network", "high_band"}
        BY <3>6 DEF Basis
      <4>3. links[i] = At(base, sig, {"own_network", "high_band"})
        BY <1>9, <3>6
      <4>4. /\ all[m + 1] = "own_network" /\ m + 1 \in 1 .. i - 1 /\ m + 1 \in 1 .. Len(sig)
            /\ all[m + 3] = "high_band" /\ m + 3 \in 1 .. i - 1 /\ m + 3 \in 1 .. Len(sig)
        <5>1. 1 \in 1 .. Len(own) /\ 3 \in 3 .. Len(own) /\ 3 \in 1 .. Len(own) /\ 3 # Len(own)
          BY <1>4, <4>1
        <5>2. own[1] = "own_network" /\ own[3] = "high_band"
          BY <1>3, <3>2, <5>1
        <5>3. all[m + 1] = own[1] /\ all[m + 3] = own[3]
          BY <1>6, <5>1
        <5>4. /\ m + 1 \in 1 .. i - 1 /\ m + 1 \in 1 .. Len(sig)
              /\ m + 3 \in 1 .. i - 1 /\ m + 3 \in 1 .. Len(sig)
          BY <1>2, <1>4, <1>5, <3>1, <3>3, <4>1
        <5> QED
          BY <5>2, <5>3, <5>4
      <4>5. base + (m + 3) \in links[i] /\ base + (m + 1) \in links[i]
        <5>1. sig[m + 1] \in {"own_network", "high_band"} /\ sig[m + 3] \in {"own_network", "high_band"}
          BY <3>1, <4>4
        <5> QED
          BY <1>7, <4>3, <4>4, <5>1, IsAt
      <4>6. ASSUME NEW l \in links[i]
            PROVE  \E j \in 1 .. i - 1 : l = base + j /\ sig[j] \in Basis[sig[i]]
        <5>1. PICK j \in 1 .. Len(sig) : l = base + j /\ sig[j] \in {"own_network", "high_band"}
          BY <1>7, <4>3, <4>6, AtIs
        <5>2. j <= i
          BY <1>2, <1>4, <1>5, <3>1, <3>3, <4>1
        <5>3. j # i
          BY <3>6, <5>1
        <5> QED
          BY <3>1, <4>2, <5>1, <5>2, <5>3
      <4> QED
        BY <3>1, <4>2, <4>4, <4>5, <4>6
    <3> QED
      BY <2>2, <3>5, <3>6
  <2> QED
    BY <2>1, <2>2
<1>11. \A f \in out.findings : f.section = "airspace" /\ \A r \in f.rows : \E j \in 1 .. Len(sig) : r = base + j
  <2> SUFFICES ASSUME NEW f \in out.findings
               PROVE  f.section = "airspace" /\ \A r \in f.rows : \E j \in 1 .. Len(sig) : r = base + j
    OBVIOUS
  <2>1. f.section = "airspace" /\ (f.rows = {} \/ \E w : f.rows = At(base, sig, w))
    BY <1>1 DEF AirspaceFindings, Finding
  <2> QED
    BY <1>7, <2>1, AtIs
<1>12. SectionSignals["airspace"] = Sig /\ "airspace" \in DOMAIN SectionSignals
  BY DEF SectionSignals, Sig
<1>13. /\ Rows(sig, links) \in Seq(RowType)
       /\ Len(Rows(sig, links)) = Len(sig)
       /\ \A i \in 1 .. Len(sig) : Founded("airspace", base, Rows(sig, links), i)
  BY <1>7, <1>8, <1>10, <1>12, RowsFounded
<1> QED
  BY <1>1, <1>11, <1>13 DEF FoundedOut, out

\* What the radios section makes its rows from: a signal, and the interface it is of.
RadioRows == [signal : {"wifi_adapter", "wifi_off", "bluetooth", "bluetooth_off"}, of : Nat \union {None}]

\* A radio's advice stands right behind the radio, and an adapter is called unused only
\* when the interface of the default route is known, and another.
LEMMA RadiosFounded ==
  ASSUME NEW b, NEW base \in Nat, IsBundle(b)
  PROVE  /\ FoundedOut("radios", base, RadioSection(b, base))
         /\ \A f \in RadioSection(b, base).findings :
              f.id = "wifi_unused" => Read(b.adapters) /\ iface # None /\ f.of # iface
<1> DEFINE row(signal, of) == [signal |-> signal, of |-> of]
           one(a) == IF ~a.wifi THEN << >>
                     ELSE IF a.enabled /\ Unused(a, iface)
                     THEN <<row("wifi_adapter", a.index), row("wifi_off", a.index)>>
                     ELSE <<row("wifi_adapter", a.index)>>
           adapters == IF Read(b.adapters) THEN b.adapters.rows ELSE << >>
           seqs == [k \in DOMAIN adapters |-> one(adapters[k])]
           flat == FlattenSeq(seqs)
           blue == IF ~Read(b.devices) \/ b.bluetooth.status # "observed" \/ b.bluetooth.radio = "none"
                   THEN << >>
                   ELSE IF b.bluetooth.radio = "disabled" THEN <<row("bluetooth", None)>>
                   ELSE <<row("bluetooth", None), row("bluetooth_off", None)>>
           all == flat \o blue
           sig == [i \in DOMAIN all |-> all[i].signal]
           links == [i \in DOMAIN sig |->
                       IF sig[i] \in {"wifi_off", "bluetooth_off"} THEN {base + i - 1} ELSE {}]
           unused == {[Finding("radios", "wifi_unused", TRUE, {base + i - 1, base + i}) EXCEPT !.of = all[i].of] :
                        i \in {j \in DOMAIN sig : sig[j] = "wifi_off"}}
           bluetooth == IF blue # << >>
                        THEN {Finding("radios", "bluetooth", TRUE, At(base, sig, {"bluetooth", "bluetooth_off"}))}
                        ELSE IF b.bluetooth.status = "observed_zero"
                        THEN {Finding("radios", "bluetooth_absent", TRUE, {})}
                        ELSE IF b.bluetooth.status \notin Observed
                        THEN {Finding("radios", "bluetooth_unread", FALSE, {})}
                        ELSE {}
           out == RadioSection(b, base)
           Sig == {"wifi_adapter", "wifi_off", "bluetooth", "bluetooth_off"}
<1>1. out.rows = Rows(sig, links) /\ out.findings = unused \union bluetooth
  BY DEF RadioSection
<1>2. /\ DOMAIN adapters = 1 .. Len(adapters) /\ Len(adapters) \in Nat
      /\ \A k \in DOMAIN adapters : adapters[k].index \in Nat \union {None} /\ Read(b.adapters)
  <2> DEFINE A == [index : Nat \union {None}, wifi : BOOLEAN, enabled : BOOLEAN]
  <2>1. b.adapters.rows \in Seq(A)
    BY DEF IsBundle, IsAdapters
  <2>2. \A a \in A : a.index \in Nat \union {None}
    OBVIOUS
  <2> HIDE DEF A
  <2>3. CASE Read(b.adapters)
    BY <2>1, <2>2, <2>3
  <2>4. CASE ~ Read(b.adapters)
    BY <2>4
  <2> QED
    BY <2>3, <2>4
<1> HIDE DEF adapters, out
\* The rows of an adapter, and of the Bluetooth radio.
<1>3. ASSUME NEW a, a.index \in Nat \union {None}
      PROVE  /\ one(a) \in Seq(RadioRows)
             /\ \A j \in 1 .. Len(one(a)) :
                  /\ one(a)[j].signal \in {"wifi_adapter", "wifi_off"}
                  /\ one(a)[j].signal = "wifi_off" =>
                       /\ j = 2 /\ one(a)[1].signal = "wifi_adapter"
                       /\ iface # None /\ one(a)[j].of # iface
  <2>1. row("wifi_adapter", a.index) \in RadioRows /\ row("wifi_off", a.index) \in RadioRows
    BY <1>3 DEF RadioRows
  <2>2. CASE one(a) = << >>
    BY <2>2
  <2>3. CASE one(a) = <<row("wifi_adapter", a.index)>>
    <3>1. one(a)[1].signal = "wifi_adapter" /\ Len(one(a)) = 1
      BY <2>3
    <3> QED
      BY <2>1, <2>3, <3>1
  <2>4. CASE one(a) = <<row("wifi_adapter", a.index), row("wifi_off", a.index)>> /\ Unused(a, iface)
    <3>1. /\ one(a)[1].signal = "wifi_adapter" /\ one(a)[2].signal = "wifi_off" /\ one(a)[2].of = a.index
          /\ Len(one(a)) = 2
      BY <2>4
    <3>2. iface # None /\ a.index # iface
      BY <2>4 DEF Unused
    <3>3. one(a) \in Seq(RadioRows)
      <4> DEFINE x == row("wifi_adapter", a.index)
                 y == row("wifi_off", a.index)
      <4>1. <<x, y>> \in Seq(RadioRows)
        <5> HIDE DEF x, y
        <5> QED
          BY <2>1 DEF x, y
      <4> QED
        BY <2>4, <4>1
    <3>4. \A j \in 1 .. 2 : j = 1 \/ j = 2
      OBVIOUS
    <3> HIDE DEF one
    <3> QED
      BY <3>1, <3>2, <3>3, <3>4
  <2> QED
    BY <2>2, <2>3, <2>4
<1>4. /\ blue \in Seq(RadioRows)
      /\ \A j \in 1 .. Len(blue) :
           /\ blue[j].signal \in {"bluetooth", "bluetooth_off"}
           /\ blue[j].signal = "bluetooth_off" => j = 2 /\ blue[1].signal = "bluetooth"
  <2> DEFINE x == row("bluetooth", None)
             y == row("bluetooth_off", None)
  <2>1. x \in RadioRows /\ y \in RadioRows /\ x.signal = "bluetooth" /\ y.signal = "bluetooth_off"
    BY DEF RadioRows
  <2>2. blue = << >> \/ blue = <<x>> \/ blue = <<x, y>>
    OBVIOUS
  <2> HIDE DEF blue, x, y
  <2>3. CASE blue = << >>
    BY <2>3
  <2>4. CASE blue = <<x>>
    BY <2>1, <2>4
  <2>5. CASE blue = <<x, y>>
    <3>1. blue[1] = x /\ blue[2] = y /\ Len(blue) = 2 /\ \A j \in 1 .. 2 : j = 1 \/ j = 2
      BY <2>5
    <3>2. blue \in Seq(RadioRows)
      BY <2>1, <2>5
    <3> QED
      BY <2>1, <3>1, <3>2
  <2> QED
    BY <2>2, <2>3, <2>4, <2>5
<1> HIDE DEF one, blue, row
<1>5. seqs \in Seq(Seq(RadioRows)) /\ \A k \in 1 .. Len(seqs) : k \in DOMAIN adapters /\ seqs[k] = one(adapters[k])
  <2>1. \A k \in DOMAIN adapters : one(adapters[k]) \in Seq(RadioRows)
    BY <1>2, <1>3
  <2> QED
    BY <1>2, <2>1
<1>6. flat \in Seq(RadioRows) /\ Blocks(flat, seqs, Len(seqs))
  BY <1>5, Flattened
<1> HIDE DEF seqs, flat
<1>7. ASSUME NEW i \in 1 .. Len(flat)
      PROVE  /\ flat[i].signal \in {"wifi_adapter", "wifi_off"}
             /\ Read(b.adapters)
             /\ flat[i].signal = "wifi_off" =>
                  /\ i - 1 \in 1 .. Len(flat) /\ flat[i - 1].signal = "wifi_adapter"
                  /\ iface # None /\ flat[i].of # iface
  <2>1. PICK k \in 1 .. Len(seqs) : \E j \in 1 .. Len(seqs[k]) :
               j <= i /\ \A l \in 1 .. j : flat[i - j + l] = seqs[k][l]
    BY <1>6 DEF Blocks
  <2>2. PICK j \in 1 .. Len(seqs[k]) : j <= i /\ \A l \in 1 .. j : flat[i - j + l] = seqs[k][l]
    BY <2>1
  <2> DEFINE a == adapters[k]
  <2>3. k \in DOMAIN adapters /\ a.index \in Nat \union {None} /\ seqs[k] = one(a) /\ Read(b.adapters)
    <3>1. k \in DOMAIN adapters /\ seqs[k] = one(a)
      BY <1>5
    <3> QED
      BY <1>2, <3>1
  <2>4. i - j + j = i /\ j \in 1 .. j /\ 1 \in 1 .. j /\ i \in Nat /\ j \in Nat /\ Len(flat) \in Nat
    <3>1. Len(seqs[k]) \in Nat
      BY <1>5
    <3> QED
      BY <1>6, <3>1
  <2>5. flat[i] = one(a)[j] /\ flat[i - j + 1] = one(a)[1]
    <3>1. flat[i - j + j] = seqs[k][j] /\ flat[i - j + 1] = seqs[k][1]
      BY <2>2, <2>4
    <3> QED
      BY <2>3, <2>4, <3>1
  <2>6. j \in 1 .. Len(one(a))
    BY <2>3
  <2> HIDE DEF a
  <2>7. /\ one(a)[j].signal \in {"wifi_adapter", "wifi_off"}
        /\ one(a)[j].signal = "wifi_off" =>
             j = 2 /\ one(a)[1].signal = "wifi_adapter" /\ iface # None /\ one(a)[j].of # iface
    BY <1>3, <2>3, <2>6
  <2>8. j = 2 => i - j + 1 = i - 1 /\ i - 1 \in 1 .. Len(flat)
    BY <2>2, <2>4
  <2> QED
    BY <2>3, <2>5, <2>7, <2>8
<1> DEFINE m == Len(flat)
<1>8. /\ all \in Seq(RadioRows) /\ m \in Nat /\ Len(blue) \in Nat /\ Len(all) = m + Len(blue)
      /\ \A i \in 1 .. m + Len(blue) : all[i] = IF i <= m THEN flat[i] ELSE blue[i - m]
  BY <1>4, <1>6, ConcatProperties
<1> HIDE DEF all, m
<1>9. sig \in Seq(Sig) /\ Len(sig) = Len(all) /\ Len(sig) \in Nat /\ \A i \in 1 .. Len(sig) : sig[i] = all[i].signal
  <2>1. DOMAIN all = 1 .. Len(all) /\ Len(all) \in Nat
    BY <1>8
  <2>2. ASSUME NEW i \in 1 .. Len(all) PROVE all[i].signal \in Sig
    <3>1. all[i] \in RadioRows
      BY <1>8
    <3> QED
      BY <3>1 DEF RadioRows
  <2> HIDE DEF Sig
  <2> QED
    BY <2>1, <2>2
<1>10. ASSUME NEW i \in 1 .. Len(sig)
       PROVE  /\ sig[i] = "wifi_off" =>
                   /\ i - 1 \in 1 .. Len(sig) /\ sig[i - 1] = "wifi_adapter"
                   /\ Read(b.adapters) /\ iface # None /\ all[i].of # iface
              /\ sig[i] = "bluetooth_off" => i - 1 \in 1 .. Len(sig) /\ sig[i - 1] = "bluetooth"
  <2>1. i \in 1 .. m + Len(blue) /\ Len(sig) = m + Len(blue)
    BY <1>8, <1>9
  <2>2. CASE i <= m
    <3>1. i \in 1 .. Len(flat) /\ sig[i] = flat[i].signal /\ all[i] = flat[i]
      BY <1>8, <1>9, <2>1, <2>2 DEF m
    <3>2. ASSUME i - 1 \in 1 .. Len(flat) PROVE i - 1 \in 1 .. Len(sig) /\ sig[i - 1] = flat[i - 1].signal
      <4>1. i - 1 \in 1 .. m + Len(blue) /\ i - 1 <= m
        BY <1>8, <2>1, <2>2, <3>2
      <4> QED
        BY <1>8, <1>9, <2>1, <4>1
    <3> QED
      BY <1>7, <3>1, <3>2
  <2>3. CASE ~ (i <= m)
    <3>1. i - m \in 1 .. Len(blue) /\ sig[i] = blue[i - m].signal
      BY <1>8, <1>9, <2>1, <2>3
    <3>2. /\ blue[i - m].signal \in {"bluetooth", "bluetooth_off"}
          /\ blue[i - m].signal = "bluetooth_off" => i - m = 2 /\ blue[1].signal = "bluetooth"
      BY <1>4, <3>1
    <3>3. ASSUME i - m = 2 PROVE i - 1 \in 1 .. Len(sig) /\ sig[i - 1] = blue[1].signal
      <4>1. i - 1 \in 1 .. m + Len(blue) /\ ~ (i - 1 <= m) /\ i - 1 - m = 1
        BY <1>8, <2>1, <3>3
      <4> QED
        BY <1>8, <1>9, <2>1, <4>1
    <3> QED
      BY <3>1, <3>2, <3>3
  <2> QED
    BY <2>2, <2>3
<1> HIDE DEF sig, Sig
<1>11. DOMAIN sig = 1 .. Len(sig)
  BY <1>9
<1>12. \A i \in 1 .. Len(sig) : /\ i \in Nat /\ i \in DOMAIN sig
                                /\ i - 1 \in 1 .. Len(sig) => base + i - 1 = base + (i - 1) /\ base + (i - 1) \in Nat /\ i - 1 \in 1 .. i - 1
  BY <1>9, <1>11
<1>13. links \in [DOMAIN sig -> SUBSET Nat]
  <2> SUFFICES ASSUME NEW i \in DOMAIN sig, sig[i] \in {"wifi_off", "bluetooth_off"} PROVE base + i - 1 \in Nat
    OBVIOUS
  <2>1. i - 1 \in 1 .. Len(sig)
    BY <1>10, <1>11
  <2> QED
    BY <1>11, <1>12, <2>1
<1>14. \A i \in 1 .. Len(sig) : links[i] = IF sig[i] \in {"wifi_off", "bluetooth_off"} THEN {base + i - 1} ELSE {}
  BY <1>11
<1> HIDE DEF links
<1>15. ASSUME NEW i \in 1 .. Len(sig)
       PROVE  /\ \A l \in links[i] : \E j \in 1 .. i - 1 :
                   l = base + j /\ (sig[i] \in DOMAIN Basis => sig[j] \in Basis[sig[i]])
              /\ sig[i] \in DOMAIN Basis =>
                   \A x \in Basis[sig[i]] : \E j \in 1 .. i - 1 : base + j \in links[i] /\ sig[j] = x
  <2>1. CASE sig[i] \notin {"wifi_off", "bluetooth_off"}
    <3>1. sig[i] \notin DOMAIN Basis
      BY <1>9, <2>1 DEF Sig, Basis
    <3> QED
      BY <1>14, <2>1, <3>1
  <2>2. CASE sig[i] \in {"wifi_off", "bluetooth_off"}
    <3>1. links[i] = {base + (i - 1)} /\ i - 1 \in 1 .. i - 1
      BY <1>10, <1>12, <1>14, <2>2
    <3>2. Basis[sig[i]] = {sig[i - 1]}
      BY <1>10, <2>2 DEF Basis
    <3> QED
      BY <3>1, <3>2
  <2> QED
    BY <2>1, <2>2
<1>16. \A f \in unused :
         /\ f.section = "radios" /\ f.id = "wifi_unused"
         /\ \A r \in f.rows : \E j \in 1 .. Len(sig) : r = base + j
         /\ Read(b.adapters) /\ iface # None /\ f.of # iface
  <2> SUFFICES ASSUME NEW i \in DOMAIN sig, sig[i] = "wifi_off",
                      NEW f, f = [Finding("radios", "wifi_unused", TRUE, {base + i - 1, base + i}) EXCEPT !.of = all[i].of]
               PROVE  /\ f.section = "radios" /\ f.id = "wifi_unused"
                      /\ \A r \in f.rows : \E j \in 1 .. Len(sig) : r = base + j
                      /\ Read(b.adapters) /\ iface # None /\ f.of # iface
    OBVIOUS
  <2>1. f.section = "radios" /\ f.id = "wifi_unused" /\ f.rows = {base + i - 1, base + i} /\ f.of = all[i].of
    BY DEF Finding
  <2>2. i \in 1 .. Len(sig) /\ i - 1 \in 1 .. Len(sig) /\ base + i - 1 = base + (i - 1)
    BY <1>10, <1>11, <1>12
  <2> QED
    BY <1>10, <2>1, <2>2
<1>17. \A f \in bluetooth :
         /\ f.section = "radios" /\ f.id # "wifi_unused"
         /\ \A r \in f.rows : \E j \in 1 .. Len(sig) : r = base + j
  <2> SUFFICES ASSUME NEW f \in bluetooth
               PROVE  /\ f.section = "radios" /\ f.id # "wifi_unused"
                      /\ \A r \in f.rows : \E j \in 1 .. Len(sig) : r = base + j
    OBVIOUS
  <2>1. /\ f.section = "radios" /\ f.id # "wifi_unused"
        /\ f.rows = {} \/ f.rows = At(base, sig, {"bluetooth", "bluetooth_off"})
    BY DEF Finding
  <2> QED
    BY <1>9, <2>1, AtIs
<1> HIDE DEF unused, bluetooth
<1>18. SectionSignals["radios"] = Sig /\ "radios" \in DOMAIN SectionSignals
  BY DEF SectionSignals, Sig
<1>19. /\ Rows(sig, links) \in Seq(RowType)
       /\ Len(Rows(sig, links)) = Len(sig)
       /\ \A i \in 1 .. Len(sig) : Founded("radios", base, Rows(sig, links), i)
  BY <1>9, <1>13, <1>15, <1>18, RowsFounded
<1>20. \A f \in out.findings : f \in unused \/ f \in bluetooth
  BY <1>1
<1>21. FoundedOut("radios", base, out)
  BY <1>1, <1>16, <1>17, <1>19, <1>20 DEF FoundedOut
<1>22. \A f \in out.findings : f.id = "wifi_unused" => Read(b.adapters) /\ iface # None /\ f.of # iface
  BY <1>16, <1>17, <1>20
<1> QED
  BY <1>21, <1>22 DEF out

\* Whatever the section: its rows rest on earlier ones of theirs, its findings on its own.
LEMMA OutcomeFounded ==
  ASSUME NEW b, NEW base \in Nat, IsBundle(b), NEW s \in Range(Sections)
  PROVE  FoundedOut(s, base, Outcome(s, b, base))
<1>1. s \in {"traffic", "airspace", "receivers", "radios", "events"}
  BY DEF Sections, Range
<1>2. CASE s = "traffic"
  BY <1>2, TrafficFounded DEF Outcome
<1>3. CASE s = "airspace"
  BY <1>3, AirspaceFounded DEF Outcome
<1>4. CASE s = "receivers"
  BY <1>4, ReceiversFounded DEF Outcome
<1>5. CASE s = "radios"
  BY <1>5, RadiosFounded DEF Outcome
<1>6. CASE s = "events"
  BY <1>6, EventsFounded DEF Outcome
<1> QED
  BY <1>1, <1>2, <1>3, <1>4, <1>5, <1>6

-----------------------------------------------------------------------------
(* What a section says is warranted by the bundle.                         *)

\* The default routes of a table.
LEMMA RouteIs ==
  ASSUME NEW routes, IsRoutes(routes), NEW k \in Defaults(routes)
  PROVE  /\ k \in Nat
         /\ routes[k].metric \in 0 .. MaxMetric \union {None}
         /\ (IF routes[k].metric = None THEN 65536 ELSE routes[k].metric) \in Nat
         /\ (IF routes[k].family = None THEN 99 ELSE routes[k].family) \in Nat
<1>1. k \in Nat /\ routes[k] \in DecodedRoute
  BY DEF Defaults, IsRoutes
<1>2. routes[k].metric \in 0 .. MaxMetric \union {None} /\ routes[k].family \in {2, 23, None}
  BY <1>1 DEF DecodedRoute
<1>3. MaxMetric \in Nat
  BY DEF MaxMetric
<1> QED
  BY <1>1, <1>2, <1>3

\* Of any default routes one comes before the others.
LEMMA FirstRoute ==
  ASSUME NEW routes, IsRoutes(routes), NEW D \in SUBSET Defaults(routes), D # {}
  PROVE  \E i \in D : \A j \in D : Before(routes, i, j)
<1> DEFINE metric(k) == IF routes[k].metric = None THEN 65536 ELSE routes[k].metric
           family(k) == IF routes[k].family = None THEN 99 ELSE routes[k].family
<1>1. \A k \in D : k \in Nat /\ metric(k) \in Nat /\ family(k) \in Nat
  BY RouteIs
<1>2. \A i, j \in D : Before(routes, i, j) <=>
                        \/ metric(i) < metric(j)
                        \/ metric(i) = metric(j) /\ family(i) < family(j)
                        \/ metric(i) = metric(j) /\ family(i) = family(j) /\ i <= j
  BY DEF Before
<1> HIDE DEF metric, family
<1>3. PICK m \in {metric(k) : k \in D} : \A x \in {metric(k) : k \in D} : m <= x
  <2>1. {metric(k) : k \in D} \in SUBSET Nat /\ {metric(k) : k \in D} # {}
    BY <1>1
  <2> QED
    BY <2>1, MinimumOfNaturals
<1> DEFINE E == {k \in D : metric(k) = m}
<1>4. PICK f \in {family(k) : k \in E} : \A x \in {family(k) : k \in E} : f <= x
  <2>1. {family(k) : k \in E} \in SUBSET Nat /\ {family(k) : k \in E} # {}
    BY <1>1, <1>3
  <2> QED
    BY <2>1, MinimumOfNaturals
<1> DEFINE F == {k \in E : family(k) = f}
<1>5. PICK i \in F : \A x \in F : i <= x
  <2>1. F \in SUBSET Nat /\ F # {}
    BY <1>1, <1>4
  <2> QED
    BY <2>1, MinimumOfNaturals
<1>6. ASSUME NEW j \in D PROVE Before(routes, i, j)
  <2>1. m <= metric(j) /\ metric(i) = m /\ metric(j) \in Nat /\ metric(i) \in Nat
    BY <1>1, <1>3
  <2>2. metric(j) = m => f <= family(j) /\ family(i) = f /\ family(j) \in Nat /\ family(i) \in Nat
    BY <1>1, <1>4
  <2>3. metric(j) = m /\ family(j) = f => i <= j
    BY <1>5
  <2> QED
    BY <1>2, <2>1, <2>2, <2>3
<1> QED
  BY <1>6

\* The best of the default routes is one of them, and comes before every other.
LEMMA BestRouteIs ==
  ASSUME NEW routes, IsRoutes(routes), Defaults(routes) # {}
  PROVE  /\ BestRoute(routes) \in Defaults(routes)
         /\ \A j \in Defaults(routes) : Before(routes, BestRoute(routes), j)
<1>1. \E i \in Defaults(routes) : \A j \in Defaults(routes) : Before(routes, i, j)
  BY FirstRoute
<1> QED
  BY <1>1 DEF BestRoute

\* The default routes of an interface.
On(routes, x) == {k \in Defaults(routes) : routes[k].index = x}

\* An interface carries a family by itself when it has the better route of it.
Better(routes, i, j) ==
  /\ routes[i].metric # None
  /\ routes[j].metric # None => routes[i].metric < routes[j].metric

Carries(routes, x) ==
  \E i \in On(routes, x) : \A j \in Defaults(routes) \ On(routes, x) :
    routes[j].family = routes[i].family => Better(routes, i, j)

\* The first route of a family that an interface carries is a route of that interface.
LEMMA CarriedLead ==
  ASSUME NEW routes, IsRoutes(routes), NEW x, Carries(routes, x)
  PROVE  \E m \in Leads(routes) : routes[m].index = x
<1>1. PICK i \in On(routes, x) : \A j \in Defaults(routes) \ On(routes, x) :
        routes[j].family = routes[i].family => Better(routes, i, j)
  BY DEF Carries
<1> DEFINE D == {k \in Defaults(routes) : routes[k].family = routes[i].family}
<1>2. i \in Defaults(routes) /\ routes[i].index = x /\ i \in D
  BY DEF On
<1>3. PICK m \in D : \A j \in D : Before(routes, m, j)
  BY <1>2, FirstRoute
<1>4. m \in Leads(routes)
  BY <1>3 DEF Leads
<1>5. ASSUME routes[m].index # x PROVE FALSE
  <2>1. Better(routes, i, m) /\ Before(routes, m, i)
    BY <1>1, <1>2, <1>3, <1>5 DEF On
  <2>2. /\ routes[m].metric \in 0 .. MaxMetric \union {None}
        /\ routes[i].metric \in 0 .. MaxMetric \union {None}
    BY <1>2, RouteIs
  <2>3. routes[i].metric # None /\ routes[i].metric \in 0 .. MaxMetric
    BY <2>1, <2>2 DEF Better
  <2>4. MaxMetric \in Nat /\ MaxMetric < 65536
    BY DEF MaxMetric
  <2>5. LET mm == IF routes[m].metric = None THEN 65536 ELSE routes[m].metric
        IN  mm < routes[i].metric \/ mm = routes[i].metric
    BY <2>1, <2>3 DEF Before
  <2>6. CASE routes[m].metric = None
    BY <2>3, <2>4, <2>5, <2>6
  <2>7. CASE routes[m].metric # None
    <3>1. routes[i].metric < routes[m].metric
      BY <2>1, <2>7 DEF Better
    <3> QED
      BY <2>2, <2>3, <2>4, <2>5, <2>7, <3>1
  <2> QED
    BY <2>6, <2>7
<1> QED
  BY <1>4, <1>5

\* The interface that is told apart from the others is the one of the best default route,
\* which was read.
OnBestRoute(b, x) ==
  /\ Read(b.routes) /\ Read(b.adapters)
  /\ \E i \in Defaults(b.routes.rows) :
       /\ b.routes.rows[i].index = x
       /\ \A j \in Defaults(b.routes.rows) : Before(b.routes.rows, i, j)

\* The interface the traffic section hands on is one of a best default route.
LEMMA TrafficIface ==
  ASSUME NEW b, NEW base, IsBundle(b), Traffic(b, base).iface # None
  PROVE  OnBestRoute(b, Traffic(b, base).iface)
<1> DEFINE routes == b.routes.rows
           sig == IF ~Read(b.routes) \/ ~Read(b.adapters) THEN << >>
                  ELSE IF Defaults(routes) # {} THEN <<"traffic_default_route">>
                  ELSE IF routes # << >> THEN <<"default_route_absent">> ELSE << >>
<1>1. Traffic(b, base).iface = IF sig = <<"traffic_default_route">> THEN routes[BestRoute(routes)].index ELSE None
  BY DEF Traffic
<1>2. sig = <<"traffic_default_route">>
  BY <1>1
<1>3. Read(b.routes) /\ Read(b.adapters) /\ Defaults(routes) # {}
  BY <1>2
<1>4. IsRoutes(routes)
  BY DEF IsBundle
<1> QED
  BY <1>1, <1>2, <1>3, <1>4, BestRouteIs DEF OnBestRoute

\* Where the families are split, the traffic section says so.
LEMMA TrafficSplit ==
  ASSUME NEW b, NEW base, Traffic(b, base).iface # None, SplitFamilies(b.routes.rows)
  PROVE  \E g \in Traffic(b, base).findings : g.id = "traffic_split"
<1> DEFINE routes == b.routes.rows
           sig == IF ~Read(b.routes) \/ ~Read(b.adapters) THEN << >>
                  ELSE IF Defaults(routes) # {} THEN <<"traffic_default_route">>
                  ELSE IF routes # << >> THEN <<"default_route_absent">> ELSE << >>
           id == IF sig = <<"traffic_default_route">> /\ SplitFamilies(routes)
                 THEN "traffic_split" ELSE "traffic_path"
<1>1. Traffic(b, base).iface = IF sig = <<"traffic_default_route">> THEN routes[BestRoute(routes)].index ELSE None
  BY DEF Traffic
<1>2. Traffic(b, base).findings = {Finding("traffic", id, sig # << >>, At(base, sig, Range(sig)))}
  BY DEF Traffic
<1>3. id = "traffic_split"
  BY <1>1
<1> HIDE DEF id, sig
<1> QED
  BY <1>2, <1>3 DEF Finding

\* A finding called measured rests on tables that were read.
MeasuredIsRead(b, f) ==
  LET wasRead(t) == b[t].status \in {"observed", "observed_zero"}
  IN  f.measured =>
        CASE f.section = "traffic" -> wasRead("routes") /\ wasRead("adapters")
          [] f.section = "airspace" -> wasRead("scan")
          [] f.section = "receivers" -> wasRead("devices")
          [] f.section = "events" -> wasRead("events")
          [] f.id = "wifi_unused" -> wasRead("adapters") /\ wasRead("routes")
          [] f.id = "bluetooth" -> wasRead("devices")
          [] OTHER -> b.bluetooth.status = "observed_zero"

\* A default route that is not of interface x is at least as good as those of x.
OffThePath(b, x) ==
  LET routes == b.routes.rows
      on == {k \in Defaults(routes) : routes[k].index = x}
  IN  \E k \in Defaults(routes) \ on : \A j \in on :
        routes[j].metric # None => routes[k].metric # None /\ routes[k].metric <= routes[j].metric

\* Both: what FindingsWarranted says of one finding.
Warranted(b, f) == MeasuredIsRead(b, f) /\ (f.id = "wifi_unused" => OffThePath(b, f.of))

\* A finding that rests on one table, and calls no adapter unused.
RestsOn(b, section, table, f) ==
  \E id, measured, rows :
    /\ f = Finding(section, id, measured, rows) /\ id # "wifi_unused" /\ id # "bluetooth"
    /\ measured => Read(b[table])

\* Such findings are warranted.
LEMMA RestingWarranted ==
  ASSUME NEW b, NEW f,
         \/ RestsOn(b, "airspace", "scan", f)
         \/ RestsOn(b, "receivers", "devices", f)
         \/ RestsOn(b, "events", "events", f)
  PROVE  Warranted(b, f) /\ f.id # "wifi_unused"
<1>1. CASE RestsOn(b, "airspace", "scan", f)
  <2>1. /\ f.section = "airspace" /\ f.id # "wifi_unused" /\ f.id # "bluetooth"
        /\ f.measured => Read(b.scan)
    BY <1>1 DEF RestsOn, Finding
  <2> QED
    BY <2>1 DEF Warranted, MeasuredIsRead, Read, Observed
<1>2. CASE RestsOn(b, "receivers", "devices", f)
  <2>1. /\ f.section = "receivers" /\ f.id # "wifi_unused" /\ f.id # "bluetooth"
        /\ f.measured => Read(b.devices)
    BY <1>2 DEF RestsOn, Finding
  <2> QED
    BY <2>1 DEF Warranted, MeasuredIsRead, Read, Observed
<1>3. CASE RestsOn(b, "events", "events", f)
  <2>1. /\ f.section = "events" /\ f.id # "wifi_unused" /\ f.id # "bluetooth"
        /\ f.measured => Read(b.events)
    BY <1>3 DEF RestsOn, Finding
  <2> QED
    BY <2>1 DEF Warranted, MeasuredIsRead, Read, Observed
<1> QED
  BY <1>1, <1>2, <1>3

\* An interface other than that of the best default route is off the path.
LEMMA UnusedWarranted ==
  ASSUME NEW b, IsBundle(b), NEW x, OnBestRoute(b, x), NEW of, of # x
  PROVE  OffThePath(b, of)
<1> DEFINE routes == b.routes.rows
<1>1. PICK i \in Defaults(routes) : routes[i].index = x /\ \A j \in Defaults(routes) : Before(routes, i, j)
  BY DEF OnBestRoute
<1>2. \A k \in Defaults(routes) : routes[k].metric \in 0 .. MaxMetric \union {None}
  BY RouteIs DEF IsBundle
<1>3. ASSUME NEW j \in Defaults(routes), routes[j].metric # None
      PROVE  routes[i].metric # None /\ routes[i].metric <= routes[j].metric
  <2>1. routes[j].metric \in 0 .. MaxMetric
    BY <1>2, <1>3
  <2>2. LET m == IF routes[i].metric = None THEN 65536 ELSE routes[i].metric
        IN  m < routes[j].metric \/ m = routes[j].metric
    BY <1>1, <1>3 DEF Before
  <2>3. MaxMetric \in Nat /\ MaxMetric < 65536
    BY DEF MaxMetric
  <2> QED
    BY <1>1, <1>2, <2>1, <2>2, <2>3
<1> QED
  BY <1>1, <1>3 DEF OffThePath

\* If that interface carries a family all the same, the families are split.
LEMMA UnusedSplit ==
  ASSUME NEW b, IsBundle(b), NEW x, OnBestRoute(b, x), NEW of, of # x,
         Carries(b.routes.rows, of)
  PROVE  SplitFamilies(b.routes.rows)
<1> DEFINE routes == b.routes.rows
<1>1. PICK i \in Defaults(routes) : routes[i].index = x /\ \A j \in Defaults(routes) : Before(routes, i, j)
  BY DEF OnBestRoute
<1>2. i \in Leads(routes)
  BY <1>1 DEF Leads
<1>3. PICK m \in Leads(routes) : routes[m].index = of
  BY CarriedLead DEF IsBundle
<1> QED
  BY <1>1, <1>2, <1>3 DEF SplitFamilies

\* The receivers section always has findings, which rest on the device table, ...
LEMMA ReceiverFindings ==
  ASSUME NEW b, NEW base, IsBundle(b)
  PROVE  /\ ReceiverSection(b, base).findings # {}
         /\ \A f \in ReceiverSection(b, base).findings : RestsOn(b, "receivers", "devices", f)
<1> DEFINE tree == b.devices.rows
           known == Read(b.devices) /\ DOMAIN tree # {}
           n == Cardinality(Receivers(tree))
           noisy == IF n = 0 THEN 0 ELSE Cardinality(Noisy(tree))
           out == ReceiverSection(b, base)
<1>1. PICK places :
        out.findings = IF ~known THEN {Finding("receivers", "usb_receivers", FALSE, {})}
                       ELSE IF n = 0 THEN {Finding("receivers", "unrecognised", TRUE, {base + 1})}
                       ELSE {Finding("receivers", "receiver", TRUE, {base + 1, base + 2 * r, base + 2 * r + 1}) : r \in 1 .. n}
                            \union (IF noisy = 0 THEN {} ELSE {Finding("receivers", "noise", TRUE, places)})
  BY DEF ReceiverSection
<1>2. n = 0 \/ 1 \in 1 .. n
  <2>1. IsFiniteSet(DOMAIN tree) /\ Receivers(tree) \subseteq DOMAIN tree
    BY DEF IsBundle, IsTree, Receivers, ReceiverNames
  <2>2. n \in Nat
    BY <2>1, FS_Subset, FS_CardinalityType
  <2> QED
    BY <2>2
<1>3. known => Read(b.devices)
  OBVIOUS
<1> HIDE DEF known, n, noisy, out
<1>4. out.findings # {}
  BY <1>1, <1>2
<1>5. \A f \in out.findings : RestsOn(b, "receivers", "devices", f)
  <2> SUFFICES ASSUME NEW f \in out.findings PROVE RestsOn(b, "receivers", "devices", f)
    OBVIOUS
  <2>1. CASE ~known
    <3>1. f = Finding("receivers", "usb_receivers", FALSE, {})
      BY <1>1, <2>1
    <3> QED
      BY <3>1 DEF RestsOn
  <2>2. CASE known /\ n = 0
    <3>1. f = Finding("receivers", "unrecognised", TRUE, {base + 1})
      BY <1>1, <2>2
    <3> QED
      BY <1>3, <2>2, <3>1 DEF RestsOn
  <2>3. CASE known /\ n # 0
    <3>1. \E id, rows : f = Finding("receivers", id, TRUE, rows) /\ id \in {"receiver", "noise"}
      BY <1>1, <2>3
    <3> QED
      BY <1>3, <2>3, <3>1 DEF RestsOn
  <2> QED
    BY <2>1, <2>2, <2>3
<1> QED
  BY <1>4, <1>5 DEF out

\* ... and those of the radios on theirs, but for the adapters called unused.
LEMMA RadioFindings ==
  ASSUME NEW b, NEW base, NEW f \in RadioSection(b, base).findings
  PROVE  \/ f.id = "wifi_unused" /\ f.section = "radios"
         \/ \E id, measured, rows :
               /\ f = Finding("radios", id, measured, rows) /\ id # "wifi_unused"
               /\ measured => \/ id = "bluetooth" /\ Read(b.devices)
                              \/ id = "bluetooth_absent" /\ b.bluetooth.status = "observed_zero"
BY DEF RadioSection, Finding

\* Every section's findings are warranted; all sections but the radios give one, but for
\* the events the manifest does not name.
LEMMA OutcomeWarranted ==
  ASSUME NEW b, NEW base \in Nat, IsBundle(b), NEW s \in Range(Sections),
         iface # None => OnBestRoute(b, iface)
  PROVE  /\ \A f \in Outcome(s, b, base).findings :
              Warranted(b, f) /\ (f.id = "wifi_unused" => iface # None /\ f.of # iface)
         /\ \/ s = "radios" \/ Outcome(s, b, base).findings # {}
            \/ s = "events" /\ b.events.entry = None
<1> DEFINE out == Outcome(s, b, base)
<1>1. s \in {"traffic", "airspace", "receivers", "radios", "events"}
  BY DEF Sections, Range
<1>2. CASE s = "traffic"
  <2>1. PICK id, measured, rows :
          /\ out.findings = {Finding("traffic", id, measured, rows)}
          /\ id # "wifi_unused" /\ id # "bluetooth"
          /\ measured => Read(b.routes) /\ Read(b.adapters)
    <3> DEFINE routes == b.routes.rows
               sig == IF ~Read(b.routes) \/ ~Read(b.adapters) THEN << >>
                      ELSE IF Defaults(routes) # {} THEN <<"traffic_default_route">>
                      ELSE IF routes # << >> THEN <<"default_route_absent">> ELSE << >>
               way == IF sig = <<"traffic_default_route">> /\ SplitFamilies(routes)
                      THEN "traffic_split" ELSE "traffic_path"
    <3>1. out.findings = {Finding("traffic", way, sig # << >>, At(base, sig, Range(sig)))}
      BY <1>2 DEF Outcome, Traffic
    <3> QED
      BY <3>1
  <2>2. ASSUME NEW f \in out.findings PROVE Warranted(b, f) /\ f.id # "wifi_unused"
    <3>1. /\ f.section = "traffic" /\ f.id # "wifi_unused" /\ f.id # "bluetooth"
          /\ f.measured => Read(b.routes) /\ Read(b.adapters)
      BY <2>1 DEF Finding
    <3> QED
      BY <3>1 DEF Warranted, MeasuredIsRead, Read, Observed
  <2> QED
    BY <2>1, <2>2
<1>3. CASE s = "airspace"
  <2>1. out.findings = AirspaceSection(b, base).findings
    BY <1>3 DEF Outcome
  <2>2. out.findings # {} /\ \A f \in out.findings : RestsOn(b, "airspace", "scan", f)
    BY <2>1 DEF AirspaceSection, AirspaceFindings, RestsOn
  <2> QED
    BY <2>2, RestingWarranted
<1>4. CASE s = "receivers"
  <2>1. out.findings = ReceiverSection(b, base).findings
    BY <1>4 DEF Outcome
  <2>2. out.findings # {} /\ \A f \in out.findings : RestsOn(b, "receivers", "devices", f)
    BY <2>1, ReceiverFindings
  <2> QED
    BY <2>2, RestingWarranted
<1>5. CASE s = "radios"
  <2>1. \A f \in out.findings :
          \/ f.id = "wifi_unused" /\ f.section = "radios"
          \/ \E id, measured, rows :
               /\ f = Finding("radios", id, measured, rows) /\ id # "wifi_unused"
               /\ measured => \/ id = "bluetooth" /\ Read(b.devices)
                              \/ id = "bluetooth_absent" /\ b.bluetooth.status = "observed_zero"
    BY <1>5, RadioFindings DEF Outcome
  <2>2. \A f \in out.findings : f.id = "wifi_unused" => Read(b.adapters) /\ iface # None /\ f.of # iface
    BY <1>5, RadiosFounded DEF Outcome
  <2> HIDE DEF out
  <2>3. ASSUME NEW f \in out.findings PROVE Warranted(b, f)
    <3>1. CASE f.id = "wifi_unused" /\ f.section = "radios"
      <4>1. Read(b.adapters) /\ Read(b.routes) /\ OffThePath(b, f.of)
        BY <2>2, <3>1, UnusedWarranted DEF OnBestRoute
      <4> QED
        BY <3>1, <4>1 DEF Warranted, MeasuredIsRead, Read, Observed
    <3>2. CASE ~ (f.id = "wifi_unused" /\ f.section = "radios")
      <4>1. PICK id, measured, rows :
               /\ f = Finding("radios", id, measured, rows) /\ id # "wifi_unused"
               /\ measured => \/ id = "bluetooth" /\ Read(b.devices)
                              \/ id = "bluetooth_absent" /\ b.bluetooth.status = "observed_zero"
        BY <2>1, <3>2
      <4>2. /\ f.section = "radios" /\ f.id # "wifi_unused"
            /\ f.measured => \/ f.id = "bluetooth" /\ Read(b.devices)
                             \/ f.id = "bluetooth_absent" /\ b.bluetooth.status = "observed_zero"
        BY <4>1 DEF Finding
      <4> QED
        BY <4>2 DEF Warranted, MeasuredIsRead, Read, Observed
    <3> QED
      BY <3>1, <3>2
  <2> QED
    BY <1>5, <2>2, <2>3 DEF out
<1>6. CASE s = "events"
  <2>1. out.findings = EventSection(b, base).findings
    BY <1>6 DEF Outcome
  <2>2. \A f \in out.findings : RestsOn(b, "events", "events", f)
    BY <2>1 DEF EventSection, RestsOn
  <2>3. out.findings # {} \/ b.events.entry = None
    BY <2>1 DEF EventSection
  <2> QED
    BY <1>6, <2>2, <2>3, RestingWarranted
<1> QED
  BY <1>1, <1>2, <1>3, <1>4, <1>5, <1>6

-----------------------------------------------------------------------------
(* The list of rows grows.                                                 *)

\* EvidenceGrounded of any list and any findings.
Grounded(e, fs) ==
  /\ \A i \in DOMAIN e :
       /\ e[i].links \subseteq 1 .. i - 1
       /\ e[i].signal \in DOMAIN Basis => {e[j].signal : j \in e[i].links} = Basis[e[i].signal]
  /\ \A f \in fs :
       /\ f.rows \subseteq DOMAIN e
       /\ {e[j].signal : j \in f.rows} \subseteq SectionSignals[f.section]

\* It is what EvidenceGrounded says of the run's.
LEMMA GroundedIs == EvidenceGrounded <=> Grounded(ev, findings)
  BY DEF EvidenceGrounded, Grounded, Signals

\* Rows that may stand behind a list, and findings on them, leave it grounded.
LEMMA Grow ==
  ASSUME NEW e \in Seq(RowType), NEW fs, Grounded(e, fs),
         NEW s, NEW rows \in Seq(RowType), NEW gs,
         \A i \in 1 .. Len(rows) : Founded(s, Len(e), rows, i),
         \A f \in gs : f.section = s /\ \A r \in f.rows : \E j \in 1 .. Len(rows) : r = Len(e) + j
  PROVE  e \o rows \in Seq(RowType) /\ Grounded(e \o rows, fs \union gs)
<1> DEFINE u == e \o rows
           m == Len(e)
           n == Len(rows)
<1>1. /\ u \in Seq(RowType) /\ Len(u) = m + n
      /\ \A i \in 1 .. m + n : u[i] = IF i <= m THEN e[i] ELSE rows[i - m]
  BY ConcatProperties
<1>2. m \in Nat /\ n \in Nat /\ DOMAIN e = 1 .. m /\ DOMAIN rows = 1 .. n
  OBVIOUS
<1>3. DOMAIN u = 1 .. m + n
  BY <1>1
<1> HIDE DEF u, m, n
<1>4. \A i \in 1 .. m : i \in 1 .. m + n /\ u[i] = e[i]
  BY <1>1, <1>2
<1>5. ASSUME NEW j \in 1 .. n PROVE m + j \in 1 .. m + n /\ u[m + j] = rows[j]
  <2>1. PICK i \in 1 .. m + n : i = m + j /\ ~ (i <= m) /\ i - m = j
    <3>1. m + j \in 1 .. m + n /\ ~ (m + j <= m) /\ m + j - m = j
      BY <1>2
    <3> QED
      BY <1>2, <3>1
  <2>2. u[i] = rows[i - m]
    BY <1>1, <2>1
  <2> QED
    BY <2>1, <2>2
<1>6. ASSUME NEW i \in 1 .. m + n
      PROVE  /\ u[i].links \subseteq 1 .. i - 1
             /\ u[i].signal \in DOMAIN Basis => {u[j].signal : j \in u[i].links} = Basis[u[i].signal]
  <2>1. CASE i \in 1 .. m
    <3>1. /\ u[i] = e[i] /\ e[i].links \subseteq 1 .. i - 1
          /\ e[i].signal \in DOMAIN Basis => {e[j].signal : j \in e[i].links} = Basis[e[i].signal]
      BY <1>2, <1>4, <2>1 DEF Grounded
    <3>2. \A j \in e[i].links : u[j] = e[j]
      <4>1. \A j \in 1 .. i - 1 : j \in 1 .. m
        BY <1>2, <2>1
      <4> QED
        BY <1>4, <3>1, <4>1
    <3>3. {u[j].signal : j \in e[i].links} = {e[j].signal : j \in e[i].links}
      BY <3>2
    <3> QED
      BY <3>1, <3>3
  <2>2. CASE i \notin 1 .. m
    <3>1. PICK k \in 1 .. n : i = m + k
      <4>1. i - m \in 1 .. n /\ i = m + (i - m)
        BY <1>2, <2>2
      <4> QED
        BY <4>1
    <3>2. u[i] = rows[k] /\ Founded(s, m, rows, k)
      BY <1>5, <3>1 DEF m, n
    <3>3. \A j \in 1 .. k - 1 : j \in 1 .. n /\ m + j \in 1 .. i - 1 /\ u[m + j] = rows[j]
      <4>1. \A j \in 1 .. k - 1 : j \in 1 .. n /\ m + j \in 1 .. i - 1
        BY <1>2, <3>1
      <4> QED
        BY <1>5, <4>1
    <3>4. \A l \in rows[k].links : \E j \in 1 .. k - 1 :
             l = m + j /\ (rows[k].signal \in DOMAIN Basis => rows[j].signal \in Basis[rows[k].signal])
      BY <3>2 DEF Founded
    <3>5. rows[k].links \subseteq 1 .. i - 1
      BY <3>3, <3>4
    <3>6. ASSUME rows[k].signal \in DOMAIN Basis
          PROVE  {u[l].signal : l \in rows[k].links} = Basis[rows[k].signal]
      <4>1. ASSUME NEW l \in rows[k].links PROVE u[l].signal \in Basis[rows[k].signal]
        BY <3>3, <3>4, <3>6
      <4>2. ASSUME NEW x \in Basis[rows[k].signal] PROVE \E l \in rows[k].links : u[l].signal = x
        <5>1. PICK j \in 1 .. k - 1 : m + j \in rows[k].links /\ rows[j].signal = x
          BY <3>2, <3>6, <4>2 DEF Founded
        <5> QED
          BY <3>3, <5>1
      <4> QED
        BY <4>1, <4>2
    <3> QED
      BY <3>2, <3>5, <3>6
  <2> QED
    BY <2>1, <2>2
<1>7. ASSUME NEW f \in fs \union gs
      PROVE  f.rows \subseteq 1 .. m + n /\ {u[j].signal : j \in f.rows} \subseteq SectionSignals[f.section]
  <2>1. CASE f \in fs
    <3>1. f.rows \subseteq 1 .. m /\ {e[j].signal : j \in f.rows} \subseteq SectionSignals[f.section]
      BY <1>2, <2>1 DEF Grounded
    <3> QED
      BY <1>4, <3>1
  <2>2. CASE f \in gs
    <3>1. \A r \in f.rows : \E j \in 1 .. n : r = m + j
      BY <2>2 DEF m, n
    <3>2. \A j \in 1 .. n : rows[j].signal \in SectionSignals[f.section]
      BY <2>2 DEF Founded, n
    <3> QED
      BY <1>5, <3>1, <3>2
  <2> QED
    BY <2>1, <2>2
<1>8. Grounded(u, fs \union gs)
  BY <1>3, <1>6, <1>7 DEF Grounded
<1> QED
  BY <1>1, <1>8 DEF u

\* So do the first of such rows.
LEMMA FirstRows ==
  ASSUME NEW s, NEW base, NEW rows \in Seq(RowType), NEW n \in 0 .. Len(rows),
         \A i \in 1 .. Len(rows) : Founded(s, base, rows, i)
  PROVE  /\ SubSeq(rows, 1, n) \in Seq(RowType)
         /\ \A i \in 1 .. Len(SubSeq(rows, 1, n)) : Founded(s, base, SubSeq(rows, 1, n), i)
<1> DEFINE first == SubSeq(rows, 1, n)
<1>1. Len(rows) \in Nat /\ n \in Nat
  OBVIOUS
<1>2. /\ first \in Seq(RowType) /\ Len(first) = n - 1 + 1
      /\ \A i \in 1 .. n - 1 + 1 : first[i] = rows[1 + i - 1]
  <2>1. 1 \in 1 .. Len(rows) + 1 /\ n \in 1 - 1 .. Len(rows)
    BY <1>1
  <2> QED
    BY <2>1, SubSeqProperties
<1>3. Len(first) = n
  BY <1>1, <1>2
<1>4. \A i \in 1 .. n : first[i] = rows[i] /\ i \in 1 .. Len(rows) /\ \A j \in 1 .. i - 1 : j \in 1 .. n
  <2>1. \A i \in 1 .. n : i \in 1 .. n - 1 + 1 /\ 1 + i - 1 = i
    BY <1>1
  <2> QED
    BY <1>1, <1>2, <2>1
<1> HIDE DEF first
<1>5. ASSUME NEW i \in 1 .. n PROVE Founded(s, base, first, i)
  <2>1. first[i] = rows[i] /\ Founded(s, base, rows, i) /\ \A j \in 1 .. i - 1 : first[j] = rows[j]
    BY <1>4
  <2>2. \A l \in rows[i].links : \E j \in 1 .. i - 1 :
           l = base + j /\ (rows[i].signal \in DOMAIN Basis => first[j].signal \in Basis[rows[i].signal])
    BY <2>1 DEF Founded
  <2>3. ASSUME rows[i].signal \in DOMAIN Basis, NEW x \in Basis[rows[i].signal]
        PROVE  \E j \in 1 .. i - 1 : base + j \in rows[i].links /\ first[j].signal = x
    <3>1. PICK j \in 1 .. i - 1 : base + j \in rows[i].links /\ rows[j].signal = x
      BY <2>1, <2>3 DEF Founded
    <3> QED
      BY <2>1, <3>1
  <2>4. rows[i].signal \in SectionSignals[s]
    BY <2>1 DEF Founded
  <2> QED
    BY <2>1, <2>2, <2>3, <2>4 DEF Founded
<1> QED
  BY <1>2, <1>3, <1>5 DEF first

-----------------------------------------------------------------------------
(* The three files.                                                        *)

\* The three files of the last run to begin writing are whole, and its own.
OfOneRun ==
  /\ report.run = result.run /\ result.run = evidence.run
  /\ ~report.torn /\ ~result.torn /\ ~evidence.torn

\* How far the three writes have come.
Written ==
  /\ stage \in {"open result", "read evidence", "open evidence", "close evidence"} =>
       ~whole /\ report.run = run
  /\ stage \in {"read evidence", "open evidence", "close evidence"} =>
       ~report.torn /\ result.run = run
  /\ stage \in {"open evidence", "close evidence"} => ~result.torn
  /\ stage = "close evidence" => evidence.run = run

\* The inductive invariant of the three files.
IInv ==
  /\ bundle \in Bundles
  /\ Written
  /\ whole => report = None \/ OfOneRun

\* It holds at first, ...
LEMMA InitInv == Init => IInv
  BY DEF Init, IInv, Written, OfOneRun

\* Before the first write, the files are left alone and no write is under way.
LEMMA BeforeWriting ==
  ASSUME IInv, stage' \in {"idle", "section", "validate", "open report"},
         UNCHANGED <<bundle, report, result, evidence, whole>>
  PROVE  IInv'
  BY DEF IInv, Written, OfOneRun

\* ... every step keeps it, ...
LEMMA NextInv == IInv /\ [Next]_vars => IInv'
<1> SUFFICES ASSUME IInv, [Next]_vars PROVE IInv'
  OBVIOUS
<1>1. CASE Start
  BY <1>1, BeforeWriting DEF Start
<1>2. CASE RunSection
  <2>1. GoOn
    BY <1>2 DEF RunSection
  <2> QED
    BY <2>1, BeforeWriting DEF GoOn
<1>3. CASE FailSection
  <2>1. GoOn
    BY <1>3 DEF FailSection
  <2> QED
    BY <2>1, BeforeWriting DEF GoOn
<1>4. CASE Validate
  BY <1>4, BeforeWriting DEF Validate
<1>5. CASE OpenReport
  BY <1>5 DEF OpenReport, IInv, Written, OfOneRun
<1>6. CASE OpenResult
  BY <1>6 DEF OpenResult, IInv, Written, OfOneRun
<1>7. CASE ReadEvidence
  BY <1>7 DEF ReadEvidence, IInv, Written, OfOneRun
<1>8. CASE OpenEvidence
  BY <1>8 DEF OpenEvidence, IInv, Written, OfOneRun
<1>9. CASE CloseEvidence
  BY <1>9 DEF CloseEvidence, IInv, Written, OfOneRun
<1>10. CASE Crash
  BY <1>10 DEF Crash, IInv, Written, OfOneRun
<1>11. CASE UNCHANGED vars
  BY <1>11 DEF vars, IInv, Written, OfOneRun
<1> QED
  BY <1>1, <1>2, <1>3, <1>4, <1>5, <1>6, <1>7, <1>8, <1>9, <1>10, <1>11 DEF Next

\* ... and so it holds always.
LEMMA Invariance == Spec => []IInv
<1>1. Init => IInv
  BY InitInv
<1>2. IInv /\ [Next]_vars => IInv'
  BY NextInv
<1> QED
  BY <1>1, <1>2, PTL DEF Spec

-----------------------------------------------------------------------------
(* The shapes of the variables.                                            *)

\* The sections are a list of sections.
LEMMA SectionsType == Sections \in Seq(Range(Sections)) /\ Sections # << >>
  BY DEF Sections, Range

\* A section that ends is the first of those left.
LEMMA GoOnType ==
  ASSUME TypeOK, GoOn, stage = "section", failures' \in {failures, failures \union {Head(todo)}}
  PROVE  TypeOK'
<1>1. /\ todo \in Seq(Range(Sections)) /\ todo # << >>
      /\ todo' = Tail(todo) /\ stage' = IF Len(todo) = 1 THEN "validate" ELSE "section"
  BY DEF TypeOK, GoOn
<1>2. Head(todo) \in Range(Sections) /\ todo' \in Seq(Range(Sections))
  BY <1>1
<1>3. todo' = << >> <=> Len(todo) = 1
  <2>1. Len(Tail(todo)) = Len(todo) - 1 /\ Len(todo) \in Nat
    BY <1>1, HeadTailProperties, LenProperties
  <2>2. todo' = << >> <=> Len(todo') = 0
    BY <1>2, EmptySeq
  <2> QED
    BY <1>1, <2>1, <2>2
<1>4. stage' = "section" <=> todo' # << >>
  BY <1>1, <1>3
<1>5. failures' \subseteq Range(Sections)
  BY <1>2 DEF TypeOK
<1>6. UNCHANGED <<bundle, run, status, evidence, whole>>
  BY DEF GoOn
<1> QED
  BY <1>2, <1>4, <1>5, <1>6 DEF TypeOK

\* The steps that write keep the shapes of what they write.
LEMMA WriteType ==
  ASSUME TypeOK, bundle \in Bundles,
         Validate \/ OpenReport \/ OpenResult \/ ReadEvidence \/ OpenEvidence \/ CloseEvidence
  PROVE  TypeOK'
<1>1. stage # "section" /\ stage' # "section" /\ UNCHANGED <<bundle, run, todo, failures>>
  BY DEF Validate, OpenReport, OpenResult, ReadEvidence, OpenEvidence, CloseEvidence
<1>2. status' \in {"not_collected", "observed", "observed_zero", "analyzer_failed"}
  BY DEF TypeOK, Validate, OpenReport, OpenResult, ReadEvidence, OpenEvidence, CloseEvidence
<1>3. run \in 0 .. run
  BY RunsAssumption DEF TypeOK
<1>4. evidence'.run \in {run, evidence.run} /\ {evidence'.others, evidence'.torn} \subseteq BOOLEAN
  <2>1. CASE UNCHANGED evidence
    BY <2>1 DEF TypeOK
  <2>2. CASE OpenEvidence
    BY <2>2 DEF TypeOK, OpenEvidence
  <2>3. CASE CloseEvidence
    BY <2>3 DEF TypeOK, CloseEvidence
  <2> QED
    BY <2>1, <2>2, <2>3 DEF Validate, OpenReport, OpenResult, ReadEvidence
<1>5. whole' \in BOOLEAN
  BY Zenon DEF TypeOK, Validate, OpenReport, OpenResult, ReadEvidence, OpenEvidence, CloseEvidence
<1> QED
  BY <1>1, <1>2, <1>3, <1>4, <1>5 DEF TypeOK

\* Every step keeps the shapes.
LEMMA NextType ==
  ASSUME TypeOK, bundle \in Bundles, [Next]_vars
  PROVE  TypeOK'
<1>1. CASE Start
  <2>1. todo' \in Seq(Range(Sections)) /\ (stage' = "section" <=> todo' # << >>)
    BY <1>1, SectionsType DEF Start
  <2>2. /\ run' \in 0 .. MaxRuns[bundle] /\ run' >= run /\ run \in Nat /\ run' \in Nat
    BY <1>1, RunsAssumption DEF Start, TypeOK
  <2>3. failures' = {} /\ status' = "not_collected" /\ UNCHANGED <<bundle, evidence, whole>>
    BY <1>1 DEF Start
  <2>4. evidence'.run \in 0 .. run'
    BY <2>2, <2>3 DEF TypeOK
  <2> QED
    BY <2>1, <2>2, <2>3, <2>4 DEF TypeOK
<1>2. CASE RunSection
  BY <1>2, GoOnType DEF RunSection
<1>3. CASE FailSection
  BY <1>3, GoOnType DEF FailSection
<1>4. CASE Validate \/ OpenReport \/ OpenResult \/ ReadEvidence \/ OpenEvidence \/ CloseEvidence
  BY <1>4, WriteType
<1>5. CASE Crash
  <2>1. /\ stage' = "idle" /\ todo' = << >> /\ failures' = {} /\ status' = "not_collected"
        /\ UNCHANGED <<bundle, run, whole>>
    BY <1>5 DEF Crash
  <2>2. evidence'.run = evidence.run /\ evidence'.torn = evidence.torn
        /\ evidence'.others = (evidence.others /\ ~evidence.torn)
    BY <1>5 DEF Crash
  <2>3. {evidence'.others, evidence'.torn} \subseteq BOOLEAN
    BY <2>2 DEF TypeOK
  <2> QED
    BY <2>1, <2>2, <2>3 DEF TypeOK
<1>6. CASE UNCHANGED vars
  BY <1>6 DEF vars, TypeOK
<1> QED
  BY <1>1, <1>2, <1>3, <1>4, <1>5, <1>6 DEF Next

\* The shapes hold at first.
LEMMA InitType == Init => TypeOK
<1> SUFFICES ASSUME Init PROVE TypeOK
  OBVIOUS
<1>1. run \in 0 .. MaxRuns[bundle] /\ evidence.run \in 0 .. run
  BY RunsAssumption DEF Init
<1>2. {evidence.others, evidence.torn} \subseteq BOOLEAN /\ whole \in BOOLEAN
  BY DEF Init
<1> QED
  BY <1>1, <1>2 DEF Init, TypeOK

-----------------------------------------------------------------------------
(* What a run has said so far.                                             *)

\* The rows are grounded; only a run over tables that were read has any.
Listed ==
  /\ ev \in Seq(RowType)
  /\ EvidenceGrounded
  /\ stage = "section" \/ ev # << >> => Readable(bundle)

\* Among the findings is the one that says the families are split.
SaysSplit(fs) == \E g \in fs : g.id = "traffic_split"

\* What the run says is warranted, the interface it knows is that of the best route,
\* and once it knows one it has said whether the families are split.
Told ==
  /\ iface # None => OnBestRoute(bundle, iface)
  /\ stage = "section" /\ iface # None /\ SplitFamilies(bundle.routes.rows) => SaysSplit(findings)
  /\ FindingsWarranted

\* Each section that is done has said something.
Spoken ==
  stage \in {"section", "validate"} /\ Readable(bundle) =>
    \A s \in Range(Sections) \ {"radios"} :
      \/ s \in Range(todo)
      \/ \E f \in findings : f.section = s
      \/ s = "events" /\ bundle.events.entry = None

\* What the files were given is what the run holds.
Recorded ==
  /\ stage \in {"open report", "open result", "read evidence", "open evidence", "close evidence"} =>
       (status # "observed" => ev = << >>)
  /\ stage \in {"read evidence", "open evidence", "close evidence"} =>
       result.used = Used /\ result.status = status
  /\ stage = "close evidence" => evidence.rows = Len(ev)
  /\ CitedRowsKept

\* The inductive invariant of a run: the files, the shapes, and the four of them.
RunInv == IInv /\ TypeOK /\ Listed /\ Told /\ Spoken /\ Recorded

\* What FindingsWarranted says is said of each finding.
LEMMA WarrantedIs ==
  FindingsWarranted <=>
    \A f \in findings : /\ Warranted(bundle, f)
                        /\ f.id = "wifi_unused" /\ Carries(bundle.routes.rows, f.of) => SaysSplit(findings)
<1>1. MeasuredWasRead <=> \A f \in findings : MeasuredIsRead(bundle, f)
  BY Zenon DEF MeasuredWasRead, MeasuredIsRead
<1>2. UnusedIsOffThePath <=> \A f \in findings : f.id = "wifi_unused" => OffThePath(bundle, f.of)
  BY Zenon DEF UnusedIsOffThePath, OffThePath
<1>3. SplitIsTold <=> \A f \in findings :
        f.id = "wifi_unused" /\ Carries(bundle.routes.rows, f.of) => SaysSplit(findings)
  BY Zenon DEF SplitIsTold, Carries, On, Better, SaysSplit
<1> QED
  BY <1>1, <1>2, <1>3 DEF FindingsWarranted, Warranted

\* It holds at first.
LEMMA InitRunInv == Init => RunInv
<1> SUFFICES ASSUME Init PROVE RunInv
  OBVIOUS
<1>1. IInv /\ TypeOK
  BY InitInv, InitType
<1>2. ev = << >> /\ findings = {} /\ iface = None /\ stage = "idle" /\ report = None
  BY DEF Init
<1>3. Listed
  BY <1>2 DEF Listed, EvidenceGrounded
<1>4. Told
  BY <1>2, WarrantedIs DEF Told
<1>5. Spoken /\ Recorded
  BY <1>2 DEF Spoken, Recorded, CitedRowsKept
<1> QED
  BY <1>1, <1>3, <1>4, <1>5 DEF RunInv

\* What a section adds, whether it ends or fails.
LEMMA SectionStep ==
  ASSUME IInv, TypeOK, Listed, Told, RunSection \/ FailSection
  PROVE  \E rows, gs :
           /\ rows \in Seq(RowType)
           /\ ev' = ev \o rows /\ findings' = findings \union gs
           /\ \A i \in 1 .. Len(rows) : Founded(Head(todo), Len(ev), rows, i)
           /\ \A f \in gs : /\ f.section = Head(todo) /\ Warranted(bundle, f)
                            /\ \A r \in f.rows : \E j \in 1 .. Len(rows) : r = Len(ev) + j
           /\ gs # {} \/ Head(todo) = "radios" \/ (Head(todo) = "events" /\ bundle.events.entry = None)
           /\ \A f \in gs : f.id = "wifi_unused" /\ Carries(bundle.routes.rows, f.of) => SaysSplit(findings)
           /\ iface' # None => OnBestRoute(bundle, iface')
           /\ iface' # None /\ SplitFamilies(bundle.routes.rows) => SaysSplit(findings')
<1> DEFINE s == Head(todo)
           base == Len(ev)
           out == Outcome(s, bundle, base)
<1>1. stage = "section" /\ IsBundle(bundle) /\ base \in Nat
  <2>1. stage = "section"
    BY DEF RunSection, FailSection
  <2>2. IsBundle(bundle)
    BY BundlesAssumption DEF IInv
  <2>3. base \in Nat
    BY DEF Listed
  <2> QED
    BY <2>1, <2>2, <2>3
<1>2. s \in Range(Sections)
  BY <1>1 DEF TypeOK
<1>3. FoundedOut(s, base, out)
  BY <1>1, <1>2, OutcomeFounded
<1>4. /\ out.rows \in Seq(RowType)
      /\ \A i \in 1 .. Len(out.rows) : Founded(s, base, out.rows, i)
      /\ \A f \in out.findings : f.section = s /\ \A r \in f.rows : \E j \in 1 .. Len(out.rows) : r = base + j
  BY <1>3 DEF FoundedOut
<1>5. CASE RunSection
  <2>1. /\ ev' = ev \o out.rows /\ findings' = findings \union out.findings
        /\ iface' = IF s = "traffic" THEN out.iface ELSE iface
    BY <1>5 DEF RunSection
  <2>2. /\ \A f \in out.findings :
             Warranted(bundle, f) /\ (f.id = "wifi_unused" => iface # None /\ f.of # iface)
        /\ out.findings # {} \/ s = "radios" \/ (s = "events" /\ bundle.events.entry = None)
    BY <1>1, <1>2, OutcomeWarranted DEF Told
  <2>3. iface' # None => OnBestRoute(bundle, iface')
    <3>1. CASE s = "traffic"
      BY <1>1, <2>1, <3>1, TrafficIface DEF Outcome
    <3>2. CASE s # "traffic"
      BY <2>1, <3>2 DEF Told
    <3> QED
      BY <3>1, <3>2
  <2>7. ASSUME NEW f \in out.findings, f.id = "wifi_unused", Carries(bundle.routes.rows, f.of)
        PROVE  SaysSplit(findings)
    <3>1. iface # None /\ f.of # iface /\ OnBestRoute(bundle, iface)
      BY <2>2, <2>7 DEF Told
    <3>2. SplitFamilies(bundle.routes.rows)
      BY <1>1, <2>7, <3>1, UnusedSplit
    <3> QED
      BY <1>1, <3>1, <3>2 DEF Told
  <2>8. ASSUME iface' # None, SplitFamilies(bundle.routes.rows)
        PROVE  SaysSplit(findings')
    <3>1. CASE s = "traffic"
      <4>1. out = Traffic(bundle, base)
        BY <3>1 DEF Outcome
      <4>2. \E g \in out.findings : g.id = "traffic_split"
        BY <2>1, <2>8, <3>1, <4>1, TrafficSplit
      <4> QED
        BY <2>1, <4>2 DEF SaysSplit
    <3>2. CASE s # "traffic"
      <4>1. SaysSplit(findings)
        BY <1>1, <2>1, <2>8, <3>2 DEF Told
      <4> QED
        BY <2>1, <4>1 DEF SaysSplit
    <3> QED
      BY <3>1, <3>2
  <2> DEFINE rows == out.rows
             gs == out.findings
  <2>4. /\ rows \in Seq(RowType) /\ \A i \in 1 .. Len(rows) : Founded(s, base, rows, i)
        /\ \A f \in gs : f.section = s /\ \A r \in f.rows : \E j \in 1 .. Len(rows) : r = base + j
    BY <1>4
  <2>5. ev' = ev \o rows /\ findings' = findings \union gs
    BY <2>1
  <2>6. /\ \A f \in gs : Warranted(bundle, f)
        /\ \A f \in gs : f.id = "wifi_unused" /\ Carries(bundle.routes.rows, f.of) => SaysSplit(findings)
        /\ gs # {} \/ s = "radios" \/ (s = "events" /\ bundle.events.entry = None)
    BY <2>2, <2>7
  <2> HIDE DEF rows, gs, out
  <2> QED
    BY <2>3, <2>4, <2>5, <2>6, <2>8
<1>6. CASE FailSection
  <2>1. PICK n \in 0 .. Len(out.rows) : ev' = ev \o SubSeq(out.rows, 1, n)
    BY <1>6 DEF FailSection
  <2>2. findings' = findings \union {Finding(s, "failed", FALSE, {})} /\ iface' = iface
    BY <1>6 DEF FailSection
  <2> DEFINE rows == SubSeq(out.rows, 1, n)
             gs == {Finding(s, "failed", FALSE, {})}
  <2>3. rows \in Seq(RowType) /\ \A i \in 1 .. Len(rows) : Founded(s, base, rows, i)
    BY <1>4, FirstRows
  <2>4. \A f \in gs : f.section = s /\ f.rows = {} /\ f.id = "failed" /\ f.measured = FALSE
    BY DEF Finding
  <2>5. \A f \in gs : Warranted(bundle, f)
    BY <2>4 DEF Warranted, MeasuredIsRead
  <2>6. gs # {}
    OBVIOUS
  <2>7. iface' # None => OnBestRoute(bundle, iface')
    BY <2>2 DEF Told
  <2>8. ev' = ev \o rows /\ findings' = findings \union gs
    BY <2>1, <2>2
  <2>9. ASSUME iface' # None, SplitFamilies(bundle.routes.rows)
        PROVE  SaysSplit(findings')
    <3>1. SaysSplit(findings)
      BY <1>1, <2>2, <2>9 DEF Told
    <3> QED
      BY <2>2, <3>1 DEF SaysSplit
  <2> HIDE DEF rows, gs
  <2> QED
    BY <2>3, <2>4, <2>5, <2>6, <2>7, <2>8, <2>9
<1> QED
  BY <1>5, <1>6

\* A section keeps it, whether it ends or fails: what it adds may stand behind what is there.
LEMMA SectionInv ==
  ASSUME RunInv, IInv', TypeOK', RunSection \/ FailSection
  PROVE  RunInv'
<1>1. PICK rows, gs :
           /\ rows \in Seq(RowType)
           /\ ev' = ev \o rows /\ findings' = findings \union gs
           /\ \A i \in 1 .. Len(rows) : Founded(Head(todo), Len(ev), rows, i)
           /\ \A f \in gs : /\ f.section = Head(todo) /\ Warranted(bundle, f)
                            /\ \A r \in f.rows : \E j \in 1 .. Len(rows) : r = Len(ev) + j
           /\ gs # {} \/ Head(todo) = "radios" \/ (Head(todo) = "events" /\ bundle.events.entry = None)
           /\ \A f \in gs : f.id = "wifi_unused" /\ Carries(bundle.routes.rows, f.of) => SaysSplit(findings)
           /\ iface' # None => OnBestRoute(bundle, iface')
           /\ iface' # None /\ SplitFamilies(bundle.routes.rows) => SaysSplit(findings')
  BY SectionStep DEF RunInv
<1>2. /\ stage = "section" /\ todo # << >> /\ todo' = Tail(todo)
      /\ stage' \in {"section", "validate"}
      /\ UNCHANGED <<bundle, run, status, report, result, evidence, whole>>
  BY DEF RunSection, FailSection, GoOn, RunInv, TypeOK
<1>3. Listed'
  <2>1. ev' \in Seq(RowType) /\ Grounded(ev', findings')
    BY <1>1, GroundedIs, Grow DEF RunInv, Listed
  <2>2. EvidenceGrounded'
    BY <2>1 DEF EvidenceGrounded, Grounded, Signals
  <2>3. Readable(bundle)'
    BY <1>2 DEF RunInv, Listed, Readable, Read
  <2> QED
    BY <2>1, <2>2, <2>3 DEF Listed
<1>4. Told'
  <2>1. \A f \in findings' : Warranted(bundle, f)
    BY <1>1, WarrantedIs DEF RunInv, Told
  <2>2. bundle' = bundle
    BY <1>2
  <2>3. \A f \in findings' : MeasuredIsRead(bundle, f) /\ (f.id = "wifi_unused" => OffThePath(bundle, f.of))
    BY <2>1 DEF Warranted
  <2>4. MeasuredWasRead'
    BY <2>2, <2>3, Zenon DEF MeasuredWasRead, MeasuredIsRead
  <2>5. UnusedIsOffThePath'
    <3>1. \A f \in findings' : f.id = "wifi_unused" => OffThePath(bundle', f.of)
      BY <2>2, <2>3
    <3> QED
      BY <3>1, Zenon DEF UnusedIsOffThePath, OffThePath
  <2>6. (iface # None => OnBestRoute(bundle, iface))'
    BY <1>1, <2>2 DEF OnBestRoute, Read
  <2>7. \A f \in findings' : f.id = "wifi_unused" /\ Carries(bundle.routes.rows, f.of) => SaysSplit(findings')
    <3>1. SaysSplit(findings) => SaysSplit(findings')
      BY <1>1 DEF SaysSplit
    <3> QED
      BY <1>1, <3>1, WarrantedIs DEF RunInv, Told
  <2>8. SplitIsTold'
    <3>1. \A f \in findings' : f.id = "wifi_unused" /\ Carries(bundle'.routes.rows, f.of) => SaysSplit(findings')
      BY <2>2, <2>7
    <3> QED
      BY <3>1, Zenon DEF SplitIsTold, Carries, On, Better, SaysSplit
  <2>9. (iface # None /\ SplitFamilies(bundle.routes.rows) => SaysSplit(findings))'
    <3>1. iface' # None /\ SplitFamilies(bundle'.routes.rows) => SaysSplit(findings')
      BY <1>1, <2>2
    <3> QED
      BY <3>1 DEF SplitFamilies, Leads, Defaults, Before, SaysSplit
  <2> QED
    BY <2>4, <2>5, <2>6, <2>8, <2>9 DEF Told, FindingsWarranted
<1>5. Spoken'
  <2> SUFFICES ASSUME Readable(bundle), NEW s \in Range(Sections) \ {"radios"}, s \notin Range(Tail(todo))
               PROVE  \/ \E f \in findings' : f.section = s
                      \/ s = "events" /\ bundle.events.entry = None
    BY <1>2 DEF Spoken, Readable, Read
  <2>1. CASE s = Head(todo)
    BY <1>1, <2>1
  <2>2. CASE s # Head(todo)
    <3>1. s \notin Range(todo)
      BY <1>2, <2>2, RangeTail DEF RunInv, TypeOK
    <3> QED
      BY <1>1, <1>2, <3>1 DEF RunInv, Spoken
  <2> QED
    BY <2>1, <2>2
<1>6. Recorded'
  <2>1. CitedRowsKept'
    BY <1>2 DEF RunInv, Recorded, CitedRowsKept
  <2> QED
    BY <1>2, <2>1 DEF Recorded
<1> QED
  BY <1>3, <1>4, <1>5, <1>6 DEF RunInv

\* A run without rows and findings, before it writes.
LEMMA EmptyRun ==
  ASSUME RunInv, IInv', TypeOK', ev' = << >>, findings' = {}, iface' = None,
         stage' = "idle" \/ (stage' = "section" /\ Readable(bundle) /\ todo' = Sections)
           \/ (stage' = "validate" /\ ~Readable(bundle)),
         evidence'.rows = evidence.rows, UNCHANGED <<bundle, report, result, whole>>
  PROVE  RunInv'
<1>1. Listed'
  <2>1. ev' \in Seq(RowType) /\ EvidenceGrounded'
    BY DEF EvidenceGrounded
  <2>2. stage' = "section" => Readable(bundle')
    OBVIOUS
  <2> QED
    BY <2>1, <2>2 DEF Listed, Readable, Read
<1>2. Told'
  BY DEF Told, FindingsWarranted, MeasuredWasRead, UnusedIsOffThePath, SplitIsTold
<1>3. Spoken'
  BY DEF Spoken, Readable, Read
<1>4. Recorded'
  BY DEF RunInv, Recorded, CitedRowsKept
<1> QED
  BY <1>1, <1>2, <1>3, <1>4 DEF RunInv

\* The rows and the findings are checked, or thrown away.
LEMMA ValidateInv ==
  ASSUME RunInv, IInv', TypeOK', Validate
  PROVE  RunInv'
<1>1. /\ stage = "validate" /\ stage' = "open report"
      /\ UNCHANGED <<bundle, iface, report, result, evidence, whole>>
  BY DEF Validate
<1>2. Spoken'
  BY <1>1 DEF Spoken
<1>3. CASE UNCHANGED <<ev, findings>>
  <2>1. Listed'
    BY <1>1, <1>3 DEF RunInv, Listed, EvidenceGrounded, Signals, Readable, Read
  <2>2. Told'
    <3>1. (iface # None => OnBestRoute(bundle, iface))'
      BY <1>1 DEF RunInv, Told, OnBestRoute, Read
    <3>2. MeasuredWasRead' /\ UnusedIsOffThePath' /\ SplitIsTold'
      <4>1. UNCHANGED <<bundle, findings>>
        BY <1>1, <1>3
      <4> QED
        BY <4>1 DEF RunInv, Told, FindingsWarranted, MeasuredWasRead, UnusedIsOffThePath, SplitIsTold
    <3> QED
      BY <1>1, <3>1, <3>2 DEF Told, FindingsWarranted
  <2>3. Recorded'
    <3>1. status' # "observed" => ev' = << >>
      BY <1>3 DEF Validate, RunInv, Listed
    <3> QED
      BY <1>1, <3>1 DEF RunInv, Recorded, CitedRowsKept
  <2> QED
    BY <1>2, <2>1, <2>2, <2>3 DEF RunInv
<1>4. CASE ev' = << >> /\ findings' = {}
  <2>1. Listed'
    <3>1. ev' \in Seq(RowType) /\ EvidenceGrounded'
      BY <1>4 DEF EvidenceGrounded
    <3> QED
      BY <1>1, <1>4, <3>1 DEF Listed
  <2>2. Told'
    <3>1. MeasuredWasRead' /\ UnusedIsOffThePath' /\ SplitIsTold'
      BY <1>4 DEF MeasuredWasRead, UnusedIsOffThePath, SplitIsTold
    <3>2. (iface # None => OnBestRoute(bundle, iface))'
      BY <1>1 DEF RunInv, Told, OnBestRoute, Read
    <3> QED
      BY <1>1, <3>1, <3>2 DEF Told, FindingsWarranted
  <2>3. Recorded'
    BY <1>1, <1>4 DEF RunInv, Recorded, CitedRowsKept
  <2> QED
    BY <1>2, <2>1, <2>2, <2>3 DEF RunInv
<1> QED
  BY <1>3, <1>4 DEF Validate

\* The three writes leave what the run holds alone.
LEMMA WriteInv ==
  ASSUME RunInv, IInv', TypeOK',
         OpenReport \/ OpenResult \/ ReadEvidence \/ OpenEvidence \/ CloseEvidence \/ UNCHANGED vars
  PROVE  RunInv'
<1>1. UNCHANGED <<bundle, todo, ev, findings, iface, status>>
  BY DEF OpenReport, OpenResult, ReadEvidence, OpenEvidence, CloseEvidence, vars
<1>2. stage' \in {"section", "validate"} => stage' = stage
  BY DEF OpenReport, OpenResult, ReadEvidence, OpenEvidence, CloseEvidence, vars
<1>3. Listed'
  BY <1>1, <1>2 DEF RunInv, Listed, EvidenceGrounded, Signals, Readable, Read
<1>4. Told'
  <2>1. MeasuredWasRead' /\ UnusedIsOffThePath' /\ SplitIsTold'
    BY <1>1 DEF RunInv, Told, FindingsWarranted, MeasuredWasRead, UnusedIsOffThePath, SplitIsTold
  <2>2. (iface # None => OnBestRoute(bundle, iface))'
    BY <1>1 DEF RunInv, Told, OnBestRoute, Read
  <2>3. (stage = "section" /\ iface # None /\ SplitFamilies(bundle.routes.rows) => SaysSplit(findings))'
    BY <1>1, <1>2 DEF RunInv, Told, SplitFamilies, Leads, Defaults, Before, SaysSplit
  <2> QED
    BY <2>1, <2>2, <2>3 DEF Told, FindingsWarranted
<1>5. Spoken'
  BY <1>1, <1>2 DEF RunInv, Spoken, Readable, Read
<1>6. Recorded'
  <2>1. CASE OpenReport
    BY <1>1, <2>1 DEF OpenReport, RunInv, Recorded, CitedRowsKept
  <2>2. CASE OpenResult
    BY <1>1, <2>2 DEF OpenResult, RunInv, Recorded, CitedRowsKept, Used, IInv, Written
  <2>3. CASE ReadEvidence
    BY <1>1, <2>3 DEF ReadEvidence, RunInv, Recorded, CitedRowsKept, Used, IInv, Written
  <2>4. CASE OpenEvidence
    BY <1>1, <2>4 DEF OpenEvidence, RunInv, Recorded, CitedRowsKept, Used, IInv, Written
  <2>5. CASE CloseEvidence
    <3>1. /\ result' = result /\ result.used = Used /\ result.status = status
          /\ evidence'.rows = Len(ev) /\ (status # "observed" => ev = << >>)
      BY <2>5 DEF CloseEvidence, RunInv, Recorded
    <3>2. Used \subseteq DOMAIN ev /\ DOMAIN ev = 1 .. Len(ev)
      BY DEF RunInv, Listed, EvidenceGrounded, Used
    <3>3. CitedRowsKept'
      <4>1. result'.used \subseteq 1 .. evidence'.rows
        BY <3>1, <3>2
      <4>2. ASSUME result'.status # "observed" PROVE result'.used = {} /\ evidence'.rows = 0
        <5>1. ev = << >>
          BY <3>1, <4>2
        <5> QED
          BY <3>1, <3>2, <5>1
      <4> QED
        BY <4>1, <4>2 DEF CitedRowsKept
    <3> QED
      BY <2>5, <3>3 DEF CloseEvidence, Recorded
  <2>6. CASE UNCHANGED vars
    BY <2>6 DEF vars, RunInv, Recorded, CitedRowsKept, Used
  <2> QED
    BY <2>1, <2>2, <2>3, <2>4, <2>5, <2>6
<1> QED
  BY <1>3, <1>4, <1>5, <1>6 DEF RunInv

\* Every step keeps it, ...
LEMMA NextRunInv == RunInv /\ [Next]_vars => RunInv'
<1> SUFFICES ASSUME RunInv, [Next]_vars PROVE RunInv'
  OBVIOUS
<1>1. IInv' /\ TypeOK'
  BY NextInv, NextType DEF RunInv, IInv
<1>2. CASE Start
  <2>1. Readable(bundle) \/ ~Readable(bundle)
    OBVIOUS
  <2> QED
    BY <1>1, <1>2, EmptyRun DEF Start
<1>3. CASE RunSection \/ FailSection
  BY <1>1, <1>3, SectionInv
<1>4. CASE Validate
  BY <1>1, <1>4, ValidateInv
<1>5. CASE OpenReport \/ OpenResult \/ ReadEvidence \/ OpenEvidence \/ CloseEvidence \/ UNCHANGED vars
  BY <1>1, <1>5, WriteInv
<1>6. CASE Crash
  BY <1>1, <1>6, EmptyRun DEF Crash
<1> QED
  BY <1>2, <1>3, <1>4, <1>5, <1>6 DEF Next

\* ... and so it holds always.
LEMMA RunInvariance == Spec => []RunInv
<1>1. Init => RunInv
  BY InitRunInv
<1>2. RunInv /\ [Next]_vars => RunInv'
  BY NextRunInv
<1> QED
  BY <1>1, <1>2, PTL DEF Spec

-----------------------------------------------------------------------------
(* What follows, for all behaviours.                                       *)

\* Places, sections and files keep to their shapes.
THEOREM TypeCorrect == Spec => []TypeOK
<1>1. Init => TypeOK
  BY InitType
<1>2. IInv /\ TypeOK /\ [Next]_vars => TypeOK'
  BY NextType DEF IInv
<1> QED
  BY <1>1, <1>2, Invariance, PTL DEF Spec

\* However often the analysis is stopped and run again, a run that ends leaves three
\* whole files that are its own.
THEOREM RunEndsWhole == Spec => []FilesOfOneRun
<1>1. IInv => FilesOfOneRun
  BY DEF IInv, OfOneRun, FilesOfOneRun
<1> QED
  BY <1>1, Invariance, PTL

\* Only a stop while the evidence file is open loses the rows of other analyzers.
THEOREM OthersOnlyLostTorn == Spec => OthersKept
<1>1. [Next]_vars => [evidence.others /\ ~evidence'.others => evidence.torn /\ stage' = "idle"]_vars
  <2> SUFFICES ASSUME Next, evidence.others, ~evidence'.others
               PROVE  evidence.torn /\ stage' = "idle"
    BY DEF vars
  <2>1. CASE Crash
    BY <2>1 DEF Crash
  <2>2. ASSUME UNCHANGED evidence PROVE FALSE
    BY <2>2
  <2>3. CASE OpenEvidence
    BY <2>3 DEF OpenEvidence
  <2>4. CASE CloseEvidence
    BY <2>4 DEF CloseEvidence
  <2>5. Start \/ RunSection \/ FailSection \/ Validate \/ OpenReport \/ OpenResult \/ ReadEvidence
          => UNCHANGED evidence
    BY DEF Start, RunSection, FailSection, GoOn, Validate, OpenReport, OpenResult, ReadEvidence
  <2> QED
    BY <2>1, <2>2, <2>3, <2>4, <2>5 DEF Next
<1> QED
  BY <1>1, PTL DEF Spec, OthersKept

\* For all bundles, and however sections fail and runs are stopped: what the run cites is
\* among its rows, of its kind and before it, and what a finished result cites is in the
\* evidence file.
THEOREM CitedIsThere == Spec => []CitationsHold
<1>1. RunInv => CitationsHold
  BY DEF RunInv, Listed, Recorded, CitationsHold
<1> QED
  BY <1>1, RunInvariance, PTL

\* For all bundles: what is called measured was read; of an adapter that is called unused
\* another has a default route at least as good, and when it carries an address family by
\* itself the report says that the families are split.
THEOREM FindingsAreWarranted == Spec => []FindingsWarranted
<1>1. RunInv => FindingsWarranted
  BY DEF RunInv, Told
<1> QED
  BY <1>1, RunInvariance, PTL

\* For all bundles: no section but the radios ends, or fails, without a finding.
THEOREM NoSectionIsSilent == Spec => []EverySectionSpeaks
<1>1. RunInv => EverySectionSpeaks
  <2> SUFFICES ASSUME RunInv, stage = "validate", Readable(bundle),
                      NEW s \in Range(Sections) \ {"radios"}
               PROVE  \/ \E f \in findings : f.section = s
                      \/ s = "events" /\ bundle.events.entry = None
    BY DEF EverySectionSpeaks
  <2>1. s \notin Range(todo)
    BY DEF RunInv, TypeOK, Range
  <2> QED
    BY <2>1 DEF RunInv, Spoken
<1> QED
  BY <1>1, RunInvariance, PTL

\* In every device table, whole or damaged: each receiver is reported once, on the
\* controller nearest above it.
THEOREM ReceiversArePlaced == Spec => []ReceiversPlaced
<1>1. IInv => ReceiversPlaced
  <2> SUFFICES ASSUME IInv
               PROVE  OneReportPerReceiverOn(bundle.devices.rows) /\ NearestControllerOn(bundle.devices.rows)
    BY DEF ReceiversPlaced, OneReportPerReceiver, NearestController
  <2>1. IsTree(bundle.devices.rows)
    BY BundlesAssumption DEF IInv, IsBundle
  <2> QED
    BY <2>1, Nearest, OneReport
<1> QED
  BY <1>1, Invariance, PTL

\* On every scan, the owner who follows the advice is told to stay.
THEOREM AdviceIsStable == Spec => []AdviceSettles
<1>1. IInv => AdviceSettles
  <2> SUFFICES ASSUME IInv PROVE AdviceSettlesOn(bundle.scan.rows, bundle.owner)
    BY DEF AdviceSettles
  <2>1. IsScan(bundle.scan.rows)
    BY BundlesAssumption DEF IInv, IsBundle
  <2> QED
    BY <2>1, Settling
<1> QED
  BY <1>1, Invariance, PTL

\* On every scan, no candidate channel has fewer access points of others than the one
\* the owner is told to use.
THEOREM AdviceIsBest == Spec => []AdviceIsLightest
<1>1. IInv => AdviceIsLightest
  <2> SUFFICES ASSUME IInv PROVE AdviceIsLightestOn(bundle.scan.rows, bundle.owner)
    BY DEF AdviceIsLightest
  <2>1. IsScan(bundle.scan.rows)
    BY BundlesAssumption DEF IInv, IsBundle
  <2> QED
    BY <2>1, Lightness
<1> QED
  BY <1>1, Invariance, PTL

\* Both together: the advice is the best there is, and settles.
THEOREM AdviceTheorem == Spec => []AdviceSound
BY AdviceIsStable, AdviceIsBest, PTL DEF AdviceSound
=============================================================================

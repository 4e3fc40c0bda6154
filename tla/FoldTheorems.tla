---------------------------- MODULE FoldTheorems ----------------------------
(***************************************************************************)
(* What a fold over a sequence computes, for every sequence.  The library  *)
(* of the prover states induction with an operator as parameter, which the *)
(* backends cannot instantiate; here it is stated with a set (the numbers  *)
(* for which a formula holds), and proved from the well-foundedness of <.  *)
(***************************************************************************)
EXTENDS Integers, Sequences, FiniteSets, SequencesExt, FiniteSetTheorems, SequenceTheorems,
        NaturalsInduction, WellFoundedInduction, TLAPS

-----------------------------------------------------------------------------
(* Induction *)

Less == OpToRel(<, Nat)

\* The least of a set of numbers.
LEMMA LeastNumber ==
  ASSUME NEW T \in SUBSET Nat, T # {}
  PROVE  \E n \in T : \A m \in T : n <= m
  <1>1. Less = {p \in Nat \X Nat : p[1] < p[2]}
    BY Zenon DEF Less, OpToRel
  <1>2. IsWellFoundedOn(Less, Nat)
    BY NatLessThanWellFounded, Zenon DEF Less
  <1>3. PICK n \in T : \A m \in T : ~(<<m, n>> \in Less)
    BY <1>2, WFMin
  <1>4. ASSUME NEW m \in T
        PROVE  n <= m
    <2>1. n \in Nat /\ m \in Nat /\ <<m, n>> \in Nat \X Nat
      OBVIOUS
    <2>2. ~(m < n)
      BY <1>1, <1>3, <2>1
    <2>. QED
      BY <2>1, <2>2
  <1>. QED
    BY <1>4

\* Induction up to n over the set T of the numbers for which it holds.
LEMMA InductionTo ==
  ASSUME NEW n \in Nat, NEW T, 0 \in T, \A k \in 0 .. n : k \in T /\ k < n => k + 1 \in T
  PROVE  0 .. n \subseteq T
  <1> DEFINE missing == {k \in 0 .. n : k \notin T}
  <1>1. SUFFICES ASSUME missing # {}
                 PROVE  FALSE
    OBVIOUS
  <1>2. missing \in SUBSET Nat
    OBVIOUS
  <1>3. PICK k \in missing : \A m \in missing : k <= m
    BY <1>1, <1>2, LeastNumber
  <1>4. k # 0 /\ k \in 0 .. n
    OBVIOUS
  <1>5. k - 1 \in 0 .. n /\ k - 1 < n /\ k - 1 \notin missing
    BY <1>3, <1>4
  <1>6. (k - 1) + 1 \in T
    BY <1>5
  <1>. QED
    BY <1>4, <1>6

-----------------------------------------------------------------------------
(* The recursive function inside MapThenFoldSet, when it takes the largest *)
(* index of a set first, as FoldLeft does.                                 *)

\* The largest of the numbers up to n.
LEMMA MaxUpTo ==
  ASSUME NEW n \in Nat, NEW t \in SUBSET (1 .. n), t # {}
  PROVE  Max(t) \in t /\ \A k \in t : k <= Max(t)
  <1> DEFINE above == {m \in Nat : \A k \in t : k <= m}
  <1>1. above \in SUBSET Nat /\ n \in above
    OBVIOUS
  <1>2. PICK m \in above : \A k \in above : m <= k
    BY <1>1, LeastNumber
  <1>3. m \in t
    <2>1. SUFFICES ASSUME m \notin t
                   PROVE  FALSE
      OBVIOUS
    <2>2. \A k \in t : k <= m /\ k # m /\ k \in Nat /\ k >= 1
      BY <1>2, <2>1
    <2>3. m \in Nat /\ m # 0
      <3>1. PICK k \in t : TRUE
        OBVIOUS
      <3>. QED
        BY <2>2, <3>1
    <2>4. m - 1 \in Nat /\ \A k \in t : k <= m - 1
      BY <2>2, <2>3
    <2>5. m - 1 \in above
      BY <2>4
    <2>. QED
      BY <1>2, <2>3, <2>5
  <1>4. \E x \in t : \A y \in t : x >= y
    BY <1>2, <1>3
  <1>. QED
    BY <1>4 DEF Max

\* The greatest number of an interval from one.
LEMMA MaxOfInterval ==
  ASSUME NEW k \in Nat, k # 0
  PROVE  Max(1 .. k) = k /\ (1 .. k) \ {k} = 1 .. (k - 1)
  <1>1. 1 .. k \in SUBSET (1 .. k) /\ 1 .. k # {}
    OBVIOUS
  <1>2. Max(1 .. k) \in 1 .. k /\ \A m \in 1 .. k : m <= Max(1 .. k)
    BY <1>1, MaxUpTo
  <1>. QED
    BY <1>2

\* it follows op down to the empty set, where it is base.
Recurses(it, A, base, op, n) ==
  /\ it \in [SUBSET (1 .. n) -> A]
  /\ it[{}] = base
  /\ \A t \in SUBSET (1 .. n) : t # {} => it[t] = op[<<it[t \ {Max(t)}], Max(t)>>]

\* Such a function exists, so the CHOOSE behind a recursive definition finds it.
LEMMA FoldExists ==
  ASSUME NEW n \in Nat, NEW A, NEW base \in A, NEW op \in [A \X (1 .. n) -> A]
  PROVE  \E it : Recurses(it, A, base, op, n)
  <1> DEFINE T == {m \in 0 .. n : \E it : Recurses(it, A, base, op, m)}
  <1>1. 0 \in T
    <2>1. SUBSET (1 .. 0) = {{}}
      OBVIOUS
    <2>2. Recurses([t \in SUBSET (1 .. 0) |-> base], A, base, op, 0)
      BY <2>1 DEF Recurses
    <2>. QED
      BY <2>2
  <1>2. ASSUME NEW k \in 0 .. n, k \in T, k < n
        PROVE  k + 1 \in T
    <2>1. PICK it : Recurses(it, A, base, op, k)
      BY <1>2
    <2> DEFINE lower(t) == t \ {k + 1}
               next == [t \in SUBSET (1 .. k + 1) |->
                          IF k + 1 \in t THEN op[<<it[lower(t)], k + 1>>] ELSE it[t]]
    <2>2. ASSUME NEW t \in SUBSET (1 .. k + 1)
          PROVE  /\ lower(t) \in SUBSET (1 .. k)
                 /\ k + 1 \notin t => t \in SUBSET (1 .. k)
      OBVIOUS
    <2>3. it \in [SUBSET (1 .. k) -> A] /\ k + 1 \in 1 .. n
      BY <2>1, <1>2 DEF Recurses
    <2> HIDE DEF lower
    <2>4. next \in [SUBSET (1 .. k + 1) -> A]
      BY <2>2, <2>3
    <2>5. next[{}] = base
      BY <2>1 DEF Recurses
    <2>6. ASSUME NEW t \in SUBSET (1 .. k + 1), t # {}
          PROVE  next[t] = op[<<next[t \ {Max(t)}], Max(t)>>]
      <3>0. k + 1 \in Nat /\ k \in Nat
        OBVIOUS
      <3>1. Max(t) \in t /\ \A m \in t : m <= Max(t)
        BY <3>0, <2>6, MaxUpTo
      <3>2. CASE k + 1 \in t
        <4>0. PICK m : m = Max(t)
          OBVIOUS
        <4>1. Max(t) = k + 1
          <5>1. m \in 1 .. k + 1 /\ k + 1 <= m
            BY <3>1, <3>2, <4>0
          <5>. QED
            BY <3>0, <4>0, <5>1
        <4>2. t \ {Max(t)} = lower(t) /\ k + 1 \notin lower(t) /\ lower(t) \in SUBSET (1 .. k + 1)
          BY <4>1, <2>2 DEF lower
        <4>3. next[lower(t)] = it[lower(t)]
          BY <4>2
        <4>. QED
          BY <3>2, <4>1, <4>2, <4>3
      <3>3. CASE k + 1 \notin t
        <4>1. t \in SUBSET (1 .. k) /\ t \ {Max(t)} \in SUBSET (1 .. k) /\ k + 1 \notin t \ {Max(t)}
          BY <2>2, <3>3
        <4>2. next[t] = it[t] /\ next[t \ {Max(t)}] = it[t \ {Max(t)}]
          BY <3>3, <4>1
        <4>3. it[t] = op[<<it[t \ {Max(t)}], Max(t)>>]
          BY <2>1, <2>6, <4>1 DEF Recurses
        <4>. QED
          BY <4>2, <4>3
      <3>. QED
        BY <3>2, <3>3
    <2> HIDE DEF next
    <2>7. Recurses(next, A, base, op, k + 1)
      BY <2>4, <2>5, <2>6 DEF Recurses
    <2>. QED
      BY <2>7, <1>2
  <1>3. 0 .. n \subseteq T
    <2> HIDE DEF T
    <2>. QED
      BY <1>1, <1>2, InductionTo
  <1>. QED
    BY <1>3

\* it follows op as long as it stays in A.
Follows(it, A, base, op, n) ==
  /\ it[{}] = base
  /\ \A t \in SUBSET (1 .. n) :
       t # {} /\ it[t \ {Max(t)}] \in A => it[t] = op[<<it[t \ {Max(t)}], Max(t)>>]

\* One step of op after another, from base.
Runs(run, A, base, op, n) ==
  /\ run \in [0 .. n -> A]
  /\ run[0] = base
  /\ \A k \in 1 .. n : run[k] = op[<<run[k - 1], k>>]

HasRun(it, A, base, op, n) == \E run : Runs(run, A, base, op, n) /\ run[n] = it[1 .. n]

\* The values it takes on the intervals from 1 are a run.
LEMMA FoldRun ==
  ASSUME NEW n \in Nat, NEW A, NEW base \in A, NEW op \in [A \X (1 .. n) -> A],
         NEW it, Follows(it, A, base, op, n)
  PROVE  HasRun(it, A, base, op, n)
  <1> DEFINE run == [k \in 0 .. n |-> it[1 .. k]]
             T == {k \in 0 .. n : it[1 .. k] \in A}
  <1>1. 1 .. 0 = {} /\ 0 \in T
    BY DEF Follows
  <1>2. ASSUME NEW k \in 1 .. n, k - 1 \in T
        PROVE  it[1 .. k] = op[<<it[1 .. (k - 1)], k>>] /\ k \in T
    <2>1. /\ 1 .. k \in SUBSET (1 .. n) /\ 1 .. k # {}
          /\ Max(1 .. k) = k /\ (1 .. k) \ {k} = 1 .. (k - 1)
      BY MaxOfInterval
    <2>2. it[1 .. k] = op[<<it[1 .. (k - 1)], k>>]
      BY <2>1, <1>2 DEF Follows
    <2>. QED
      BY <2>2, <1>2
  <1>3. \A k \in 0 .. n : k \in T /\ k < n => k + 1 \in T
    <2>1. ASSUME NEW k \in 0 .. n, k \in T, k < n
          PROVE  k + 1 \in T
      <3>1. k + 1 \in 1 .. n /\ (k + 1) - 1 = k
        BY <2>1
      <3> HIDE DEF T
      <3>. QED
        BY <2>1, <3>1, <1>2
    <2>. QED
      BY <2>1
  <1>4. 0 .. n \subseteq T
    <2> HIDE DEF T
    <2>. QED
      BY <1>1, <1>3, InductionTo
  <1>5. run \in [0 .. n -> A]
    BY <1>4
  <1>6. run[0] = base
    BY <1>1 DEF Follows
  <1>7. ASSUME NEW k \in 1 .. n
        PROVE  run[k] = op[<<run[k - 1], k>>]
    <2>1. k - 1 \in 0 .. n
      OBVIOUS
    <2>. QED
      BY <2>1, <1>2, <1>4
  <1>8. run[n] = it[1 .. n]
    OBVIOUS
  <1> HIDE DEF run
  <1>. QED
    BY <1>5, <1>6, <1>7, <1>8 DEF Runs, HasRun

-----------------------------------------------------------------------------
(* The elements of a sequence that are in a set *)

Filtered(s, S) ==
  FoldLeft(LAMBDA kept, x : IF x \in S THEN Append(kept, x) ELSE kept, <<>>, s)

\* One element after another is kept or dropped.
Keeps(run, X, s, S) ==
  /\ run \in [0 .. Len(s) -> Seq(X)]
  /\ run[0] = <<>>
  /\ \A k \in 1 .. Len(s) :
       run[k] = IF s[k] \in S THEN Append(run[k - 1], s[k]) ELSE run[k - 1]
  /\ run[Len(s)] = Filtered(s, S)

\* Filtering is such a run.
LEMMA FilterRun ==
  ASSUME NEW X, NEW s \in Seq(X), NEW S
  PROVE  \E run : Keeps(run, X, s, S)
  <1> DEFINE n == Len(s)
             A == Seq(X)
             op == [p \in A \X (1 .. n) |->
                      IF s[p[2]] \in S THEN Append(p[1], s[p[2]]) ELSE p[1]]
             Iter(f) == f = [t \in SUBSET DOMAIN s |->
                               IF t = {} THEN <<>>
                               ELSE IF s[Max(t)] \in S THEN Append(f[t \ {Max(t)}], s[Max(t)])
                                    ELSE f[t \ {Max(t)}]]
             it == CHOOSE f : Iter(f)
  <1>1. n \in Nat /\ DOMAIN s = 1 .. n /\ \A i \in 1 .. n : s[i] \in X
    OBVIOUS
  <1>2. op \in [A \X (1 .. n) -> A] /\ <<>> \in A
    BY <1>1
  <1>4. Filtered(s, S) = it[1 .. n]
    BY <1>1, Zenon DEF Filtered, FoldLeft, MapThenFoldSet
  <1> HIDE DEF n, it
  <1>3. ASSUME NEW a \in A, NEW i \in 1 .. n
        PROVE  op[<<a, i>>] = IF s[i] \in S THEN Append(a, s[i]) ELSE a
    <2>1. <<a, i>> \in A \X (1 .. n)
      OBVIOUS
    <2>. QED
      BY <2>1
  <1> HIDE DEF op, A
  <1>5. ASSUME NEW t \in SUBSET (1 .. n), t # {}
        PROVE  Max(t) \in 1 .. n /\ t \ {Max(t)} \in SUBSET (1 .. n)
    BY <1>1, <1>5, MaxUpTo
  <1>6. Iter(it)
    <2>1. PICK f : Recurses(f, A, <<>>, op, n)
      BY <1>1, <1>2, FoldExists
    <2>2. ASSUME NEW t \in SUBSET (1 .. n)
          PROVE  f[t] = IF t = {} THEN <<>>
                        ELSE IF s[Max(t)] \in S THEN Append(f[t \ {Max(t)}], s[Max(t)])
                             ELSE f[t \ {Max(t)}]
      <3>1. CASE t = {}
        BY <2>1, <3>1 DEF Recurses
      <3>2. CASE t # {}
        <4>1. f[t \ {Max(t)}] \in A /\ f[t] = op[<<f[t \ {Max(t)}], Max(t)>>]
          BY <2>1, <1>5, <3>2 DEF Recurses
        <4>. QED
          BY <3>2, <4>1, <1>3, <1>5
      <3>. QED
        BY <3>1, <3>2
    <2>3. f = [t \in SUBSET (1 .. n) |-> f[t]]
      BY <2>1 DEF Recurses
    <2>4. Iter(f)
      BY <1>1, <2>2, <2>3
    <2> HIDE DEF Iter
    <2>. QED
      BY <2>4 DEF it
  <1>7. it[{}] = <<>>
    BY <1>6
  <1>8. \A t \in SUBSET (1 .. n) :
          t # {} /\ it[t \ {Max(t)}] \in A => it[t] = op[<<it[t \ {Max(t)}], Max(t)>>]
    BY <1>1, <1>3, <1>5, <1>6
  <1>9. Follows(it, A, <<>>, op, n)
    BY <1>7, <1>8 DEF Follows
  <1>10. PICK run : Runs(run, A, <<>>, op, n) /\ run[n] = it[1 .. n]
    <2>1. HasRun(it, A, <<>>, op, n)
      BY <1>1, <1>2, <1>9, FoldRun
    <2>. QED
      BY <2>1 DEF HasRun
  <1>11. ASSUME NEW k \in 1 .. n
         PROVE  run[k] = IF s[k] \in S THEN Append(run[k - 1], s[k]) ELSE run[k - 1]
    <2>1. k - 1 \in 0 .. n
      BY <1>1
    <2>. QED
      BY <1>10, <1>3, <2>1 DEF Runs
  <1>. QED
    BY <1>4, <1>10, <1>11 DEF n, A, Runs, Keeps

\* Where the elements of kept come from in the first k elements of s.
Indexes(g, kept, s, S, k) ==
  /\ g \in [1 .. Len(kept) -> 1 .. k]
  /\ \A i \in 1 .. Len(kept) : kept[i] = s[g[i]] /\ s[g[i]] \in S
  /\ \A i, j \in 1 .. Len(kept) : i < j => g[i] < g[j]
  /\ \A m \in 1 .. k : s[m] \in S => \E i \in 1 .. Len(kept) : g[i] = m

\* It keeps exactly the elements of S, in their order.
LEMMA FilterFacts ==
  ASSUME NEW X, NEW s \in Seq(X), NEW S
  PROVE  /\ Filtered(s, S) \in Seq(X)
         /\ ToSet(Filtered(s, S)) = ToSet(s) \cap S
         /\ \E g : Indexes(g, Filtered(s, S), s, S, Len(s))
  <1> DEFINE n == Len(s)
  <1>1. n \in Nat /\ \A i \in 1 .. n : s[i] \in X
    OBVIOUS
  <1>0. PICK run : Keeps(run, X, s, S)
    BY FilterRun
  <1>2. /\ run \in [0 .. n -> Seq(X)]
        /\ run[0] = <<>>
        /\ \A k \in 1 .. n :
             run[k] = IF s[k] \in S THEN Append(run[k - 1], s[k]) ELSE run[k - 1]
        /\ run[n] = Filtered(s, S)
    BY <1>0 DEF Keeps
  <1> DEFINE T == {k \in 0 .. n : \E g : Indexes(g, run[k], s, S, k)}
  <1> HIDE DEF n
  <1>3. 0 \in T
    <2>1. Indexes([i \in 1 .. 0 |-> 1], run[0], s, S, 0)
      BY <1>2 DEF Indexes
    <2>. QED
      BY <1>1, <2>1
  <1>4. ASSUME NEW k \in 0 .. n, k \in T, k < n
        PROVE  k + 1 \in T
    <2>1. k + 1 \in 1 .. n /\ (k + 1) - 1 = k /\ k + 1 \in 0 .. n /\ k \in Nat
      BY <1>1, <1>4
    <2>2. PICK g : Indexes(g, run[k], s, S, k)
      BY <1>4
    <2>3. CASE s[k + 1] \notin S
      <3>1. run[k + 1] = run[k]
        BY <1>2, <2>1, <2>3
      <3>2. Indexes(g, run[k + 1], s, S, k + 1)
        BY <2>1, <2>2, <2>3, <3>1 DEF Indexes
      <3>. QED
        BY <2>1, <3>2
    <2>4. CASE s[k + 1] \in S
      <3>1. run[k] \in Seq(X) /\ s[k + 1] \in X /\ run[k + 1] = Append(run[k], s[k + 1])
        BY <1>1, <1>2, <2>1, <2>4
      <3> DEFINE len == Len(run[k])
                 h == [i \in 1 .. len + 1 |-> IF i = len + 1 THEN k + 1 ELSE g[i]]
      <3>2. /\ len \in Nat /\ Len(run[k + 1]) = len + 1
            /\ run[k + 1][len + 1] = s[k + 1]
            /\ \A i \in 1 .. len : run[k + 1][i] = run[k][i]
        BY <3>1
      <3> HIDE DEF len
      <3>3. /\ g \in [1 .. len -> 1 .. k]
            /\ \A i \in 1 .. len : run[k][i] = s[g[i]] /\ s[g[i]] \in S
            /\ \A i, j \in 1 .. len : i < j => g[i] < g[j]
            /\ \A m \in 1 .. k : s[m] \in S => \E i \in 1 .. len : g[i] = m
        BY <2>2 DEF Indexes, len
      <3>4. h \in [1 .. len + 1 -> 1 .. k + 1]
        BY <2>1, <3>2, <3>3
      <3>5. h[len + 1] = k + 1 /\ \A i \in 1 .. len : h[i] = g[i]
        BY <3>2
      <3> HIDE DEF h
      <3>6. \A i \in 1 .. len + 1 : run[k + 1][i] = s[h[i]] /\ s[h[i]] \in S
        BY <2>4, <3>2, <3>3, <3>5
      <3>7. \A i, j \in 1 .. len + 1 : i < j => h[i] < h[j]
        <4>1. ASSUME NEW i \in 1 .. len + 1, NEW j \in 1 .. len + 1, i < j
              PROVE  h[i] < h[j]
          <5>1. i \in 1 .. len /\ h[i] = g[i] /\ g[i] \in 1 .. k
            BY <3>2, <3>3, <3>5, <4>1
          <5>2. CASE j = len + 1
            BY <2>1, <3>5, <5>1, <5>2
          <5>3. CASE j # len + 1
            BY <3>2, <3>3, <3>5, <4>1, <5>1, <5>3
          <5>. QED
            BY <5>2, <5>3
        <4>. QED
          BY <4>1
      <3>8. \A m \in 1 .. k + 1 : s[m] \in S => \E i \in 1 .. len + 1 : h[i] = m
        <4>1. ASSUME NEW m \in 1 .. k + 1, s[m] \in S
              PROVE  \E i \in 1 .. len + 1 : h[i] = m
          <5>1. CASE m = k + 1
            BY <3>2, <3>5, <5>1
          <5>2. CASE m # k + 1
            <6>1. m \in 1 .. k
              BY <2>1, <5>2
            <6>2. PICK i \in 1 .. len : g[i] = m
              BY <3>3, <4>1, <6>1
            <6>. QED
              BY <3>2, <3>5, <6>2
          <5>. QED
            BY <5>1, <5>2
        <4>. QED
          BY <4>1
      <3>9. Indexes(h, run[k + 1], s, S, k + 1)
        BY <3>2, <3>4, <3>6, <3>7, <3>8 DEF Indexes
      <3>. QED
        BY <2>1, <3>9
    <2>. QED
      BY <2>3, <2>4
  <1>5. 0 .. n \subseteq T
    <2> HIDE DEF T
    <2>. QED
      BY <1>1, <1>3, <1>4, InductionTo
  <1>6. PICK g : Indexes(g, Filtered(s, S), s, S, n)
    BY <1>1, <1>2, <1>5
  <1>7. Filtered(s, S) \in Seq(X)
    BY <1>1, <1>2
  <1>8. ToSet(Filtered(s, S)) = ToSet(s) \cap S
    <2> DEFINE kept == Filtered(s, S)
    <2>1. DOMAIN kept = 1 .. Len(kept) /\ DOMAIN s = 1 .. n
      BY <1>7 DEF n
    <2>2. ASSUME NEW i \in DOMAIN kept
          PROVE  kept[i] \in ToSet(s) \cap S
      BY <1>6, <2>1 DEF Indexes, ToSet
    <2>3. ASSUME NEW m \in DOMAIN s, s[m] \in S
          PROVE  s[m] \in ToSet(kept)
      <3>1. PICK i \in 1 .. Len(kept) : g[i] = m
        BY <1>6, <2>1, <2>3 DEF Indexes
      <3>. QED
        BY <1>6, <2>1, <3>1 DEF Indexes, ToSet
    <2>. QED
      BY <2>2, <2>3 DEF ToSet
  <1>. QED
    BY <1>6, <1>7, <1>8 DEF n

-----------------------------------------------------------------------------
(* Sums *)

Summed(s) == FoldLeft(LAMBDA a, b : a + b, 0, s)

\* The partial sums of a sequence.
LEMMA SumRun ==
  ASSUME NEW s \in Seq(Int)
  PROVE  \E run \in [0 .. Len(s) -> Int] :
           /\ run[0] = 0
           /\ \A k \in 1 .. Len(s) : run[k] = run[k - 1] + s[k]
           /\ run[Len(s)] = Summed(s)
  <1> DEFINE n == Len(s)
             op == [p \in Int \X (1 .. n) |-> p[1] + s[p[2]]]
             Iter(f) == f = [t \in SUBSET DOMAIN s |->
                               IF t = {} THEN 0 ELSE f[t \ {Max(t)}] + s[Max(t)]]
             it == CHOOSE f : Iter(f)
  <1>1. n \in Nat /\ DOMAIN s = 1 .. n /\ \A i \in 1 .. n : s[i] \in Int
    OBVIOUS
  <1>2. op \in [Int \X (1 .. n) -> Int] /\ 0 \in Int
    BY <1>1
  <1>3. ASSUME NEW a \in Int, NEW i \in 1 .. n
        PROVE  op[<<a, i>>] = a + s[i]
    <2> HIDE DEF n, it
    <2>1. <<a, i>> \in Int \X (1 .. n)
      OBVIOUS
    <2>. QED
      BY <2>1
  <1>4. Summed(s) = it[1 .. n]
    BY <1>1, Zenon DEF Summed, FoldLeft, MapThenFoldSet
  <1> HIDE DEF op, n, it
  <1>5. ASSUME NEW t \in SUBSET (1 .. n), t # {}
        PROVE  Max(t) \in 1 .. n /\ t \ {Max(t)} \in SUBSET (1 .. n)
    BY <1>1, <1>5, MaxUpTo
  <1>6. Iter(it)
    <2>1. PICK f : Recurses(f, Int, 0, op, n)
      BY <1>1, <1>2, FoldExists
    <2>2. ASSUME NEW t \in SUBSET (1 .. n)
          PROVE  f[t] = IF t = {} THEN 0 ELSE f[t \ {Max(t)}] + s[Max(t)]
      <3>1. CASE t = {}
        BY <2>1, <3>1 DEF Recurses
      <3>2. CASE t # {}
        <4>1. f[t \ {Max(t)}] \in Int /\ f[t] = op[<<f[t \ {Max(t)}], Max(t)>>]
          BY <2>1, <1>5, <3>2 DEF Recurses
        <4>. QED
          BY <3>2, <4>1, <1>3, <1>5
      <3>. QED
        BY <3>1, <3>2
    <2>3. f = [t \in SUBSET (1 .. n) |-> f[t]]
      BY <2>1 DEF Recurses
    <2>4. Iter(f)
      BY <1>1, <2>2, <2>3
    <2> HIDE DEF Iter
    <2>. QED
      BY <2>4 DEF it
  <1>7. it[{}] = 0
    BY <1>6
  <1>8. \A t \in SUBSET (1 .. n) :
          t # {} /\ it[t \ {Max(t)}] \in Int => it[t] = op[<<it[t \ {Max(t)}], Max(t)>>]
    BY <1>1, <1>3, <1>5, <1>6
  <1>9. Follows(it, Int, 0, op, n)
    BY <1>7, <1>8 DEF Follows
  <1>10. PICK run : Runs(run, Int, 0, op, n) /\ run[n] = it[1 .. n]
    <2>1. HasRun(it, Int, 0, op, n)
      BY <1>1, <1>2, <1>9, FoldRun
    <2>. QED
      BY <2>1 DEF HasRun
  <1>11. ASSUME NEW k \in 1 .. n
         PROVE  run[k] = run[k - 1] + s[k]
    <2>1. k - 1 \in 0 .. n
      BY <1>1
    <2>. QED
      BY <1>10, <1>3, <2>1 DEF Runs
  <1>. QED
    BY <1>4, <1>10, <1>11 DEF n, Runs

\* Nothing sums to nothing.
LEMMA SumEmpty == Summed(<<>>) = 0
  <1>1. <<>> \in Seq(Int) /\ Len(<<>>) = 0
    OBVIOUS
  <1>. QED
    BY <1>1, SumRun

\* One more number adds to the sum.
LEMMA SumAppend ==
  ASSUME NEW s \in Seq(Int), NEW x \in Int
  PROVE  Summed(Append(s, x)) = Summed(s) + x
  <1> DEFINE n == Len(s)
             longer == Append(s, x)
  <1>1. /\ longer \in Seq(Int) /\ n \in Nat /\ Len(longer) = n + 1
        /\ longer[n + 1] = x /\ \A k \in 1 .. n : longer[k] = s[k]
    OBVIOUS
  <1> HIDE DEF n, longer
  <1>2. PICK short \in [0 .. n -> Int] :
          /\ short[0] = 0
          /\ \A k \in 1 .. n : short[k] = short[k - 1] + s[k]
          /\ short[n] = Summed(s)
    BY SumRun DEF n
  <1>3. PICK long \in [0 .. n + 1 -> Int] :
          /\ long[0] = 0
          /\ \A k \in 1 .. n + 1 : long[k] = long[k - 1] + longer[k]
          /\ long[n + 1] = Summed(longer)
    BY <1>1, SumRun
  <1> DEFINE T == {k \in 0 .. n : long[k] = short[k]}
  <1>4. 0 \in T
    BY <1>1, <1>2, <1>3
  <1>5. ASSUME NEW k \in 0 .. n, k \in T, k < n
        PROVE  k + 1 \in T
    <2>1. k + 1 \in 1 .. n /\ (k + 1) - 1 = k /\ k + 1 \in 1 .. n + 1
      BY <1>1, <1>5
    <2>2. long[k + 1] = long[k] + s[k + 1] /\ short[k + 1] = short[k] + s[k + 1]
      BY <1>1, <1>2, <1>3, <2>1
    <2>. QED
      BY <1>5, <2>1, <2>2
  <1>6. 0 .. n \subseteq T
    <2> HIDE DEF T
    <2>. QED
      BY <1>1, <1>4, <1>5, InductionTo
  <1>7. n \in T /\ n + 1 \in 1 .. n + 1 /\ (n + 1) - 1 = n
    BY <1>1, <1>6
  <1>8. long[n + 1] = long[n] + x /\ long[n] = Summed(s)
    BY <1>1, <1>2, <1>3, <1>7
  <1>. QED
    BY <1>3, <1>8 DEF longer

\* Larger terms, larger sum.
LEMMA SumMonotone ==
  ASSUME NEW s \in Seq(Int), NEW t \in Seq(Int), Len(s) = Len(t),
         \A i \in 1 .. Len(s) : s[i] <= t[i]
  PROVE  Summed(s) <= Summed(t) /\ Summed(s) \in Int /\ Summed(t) \in Int
  <1> DEFINE n == Len(s)
  <1>1. n \in Nat /\ \A i \in 1 .. n : s[i] \in Int /\ t[i] \in Int /\ s[i] <= t[i]
    OBVIOUS
  <1>2. n = Len(t)
    OBVIOUS
  <1> HIDE DEF n
  <1>3. PICK lower \in [0 .. n -> Int] :
          /\ lower[0] = 0
          /\ \A k \in 1 .. n : lower[k] = lower[k - 1] + s[k]
          /\ lower[n] = Summed(s)
    BY SumRun DEF n
  <1>4. PICK upper \in [0 .. n -> Int] :
          /\ upper[0] = 0
          /\ \A k \in 1 .. n : upper[k] = upper[k - 1] + t[k]
          /\ upper[n] = Summed(t)
    BY <1>2, SumRun
  <1> DEFINE T == {k \in 0 .. n : lower[k] <= upper[k]}
  <1>5. 0 \in T
    BY <1>1, <1>3, <1>4
  <1>6. ASSUME NEW k \in 0 .. n, k \in T, k < n
        PROVE  k + 1 \in T
    <2>1. k + 1 \in 1 .. n /\ (k + 1) - 1 = k
      BY <1>1, <1>6
    <2>2. lower[k + 1] = lower[k] + s[k + 1] /\ upper[k + 1] = upper[k] + t[k + 1]
      BY <1>3, <1>4, <2>1
    <2>3. s[k + 1] <= t[k + 1] /\ lower[k] <= upper[k] /\ s[k + 1] \in Int /\ t[k + 1] \in Int
          /\ lower[k] \in Int /\ upper[k] \in Int
      BY <1>1, <1>3, <1>4, <1>6, <2>1
    <2>4. lower[k + 1] <= upper[k + 1] /\ k + 1 \in 0 .. n
      BY <2>1, <2>2, <2>3
    <2>. QED
      BY <2>4
  <1>7. 0 .. n \subseteq T
    <2> HIDE DEF T
    <2>. QED
      BY <1>1, <1>5, <1>6, InductionTo
  <1>8. n \in T /\ n \in 0 .. n
    BY <1>1, <1>7
  <1>. QED
    BY <1>3, <1>4, <1>8

\* Zeros sum to zero.
LEMMA SumZero ==
  ASSUME NEW s \in Seq(Int), \A i \in 1 .. Len(s) : s[i] = 0
  PROVE  Summed(s) = 0
  <1> DEFINE n == Len(s)
  <1>1. n \in Nat
    OBVIOUS
  <1>2. PICK run \in [0 .. n -> Int] :
          /\ run[0] = 0
          /\ \A k \in 1 .. n : run[k] = run[k - 1] + s[k]
          /\ run[n] = Summed(s)
    BY SumRun DEF n
  <1>3. \A i \in 1 .. n : s[i] = 0
    OBVIOUS
  <1> HIDE DEF n
  <1> DEFINE T == {k \in 0 .. n : run[k] = 0}
  <1>4. 0 \in T
    BY <1>1, <1>2
  <1>5. ASSUME NEW k \in 0 .. n, k \in T, k < n
        PROVE  k + 1 \in T
    <2>1. k + 1 \in 1 .. n /\ (k + 1) - 1 = k /\ k + 1 \in 0 .. n
      BY <1>1, <1>5
    <2>2. run[k + 1] = run[k] + s[k + 1]
      BY <1>2, <2>1
    <2>. QED
      BY <1>3, <1>5, <2>1, <2>2
  <1>6. 0 .. n \subseteq T
    <2> HIDE DEF T
    <2>. QED
      BY <1>1, <1>4, <1>5, InductionTo
  <1>. QED
    BY <1>1, <1>2, <1>6

-----------------------------------------------------------------------------
(* Sums of what a sequence's elements weigh *)

Weights(w, s) == [i \in DOMAIN s |-> w[s[i]]]

LEMMA WeightsType ==
  ASSUME NEW X, NEW s \in Seq(X), NEW w \in [X -> Int]
  PROVE  /\ Weights(w, s) \in Seq(Int)
         /\ Len(Weights(w, s)) = Len(s)
         /\ \A i \in 1 .. Len(s) : Weights(w, s)[i] = w[s[i]]
  <1>1. Len(s) \in Nat /\ DOMAIN s = 1 .. Len(s) /\ \A i \in 1 .. Len(s) : s[i] \in X
    OBVIOUS
  <1>. QED
    BY <1>1 DEF Weights

\* One more element adds what it weighs.
LEMMA WeightsAppend ==
  ASSUME NEW X, NEW s \in Seq(X), NEW x \in X, NEW w \in [X -> Int]
  PROVE  Summed(Weights(w, Append(s, x))) = Summed(Weights(w, s)) + w[x]
  <1>1. Append(s, x) \in Seq(X) /\ w[x] \in Int
    OBVIOUS
  <1>2. /\ Len(Append(s, x)) = Len(s) + 1 /\ Len(s) \in Nat
        /\ Append(s, x)[Len(s) + 1] = x
        /\ \A i \in 1 .. Len(s) : Append(s, x)[i] = s[i]
    OBVIOUS
  <1>3. /\ Weights(w, s) \in Seq(Int) /\ Len(Weights(w, s)) = Len(s)
        /\ \A i \in 1 .. Len(s) : Weights(w, s)[i] = w[s[i]]
    BY WeightsType
  <1>4. /\ Weights(w, Append(s, x)) \in Seq(Int)
        /\ Len(Weights(w, Append(s, x))) = Len(Append(s, x))
        /\ \A i \in 1 .. Len(Append(s, x)) : Weights(w, Append(s, x))[i] = w[Append(s, x)[i]]
    BY <1>1, WeightsType
  <1> DEFINE short == Weights(w, s)
             long == Weights(w, Append(s, x))
             n == Len(s)
  <1>5. /\ short \in Seq(Int) /\ long \in Seq(Int) /\ n \in Nat
        /\ Len(short) = n /\ Len(long) = n + 1
        /\ long[n + 1] = w[x] /\ \A i \in 1 .. n : long[i] = short[i]
    <2>1. short \in Seq(Int) /\ n \in Nat /\ Len(short) = n /\ long \in Seq(Int) /\ Len(long) = n + 1
      BY <1>2, <1>3, <1>4
    <2>2. n + 1 \in 1 .. Len(Append(s, x)) /\ 1 .. n \subseteq 1 .. Len(Append(s, x))
      BY <1>2
    <2>3. long[n + 1] = w[Append(s, x)[n + 1]]
      BY <1>4, <2>2
    <2>4. \A i \in 1 .. n : long[i] = w[Append(s, x)[i]]
      BY <1>4, <2>2
    <2>. QED
      BY <1>2, <1>3, <2>1, <2>3, <2>4
  <1> HIDE DEF short, long, n
  <1>6. long = Append(short, w[x])
    BY <1>1, <1>5
  <1>7. Summed(long) = Summed(short) + w[x]
    BY <1>1, <1>5, <1>6, SumAppend
  <1>. QED
    BY <1>7 DEF short, long

\* What is in S and what is not weigh together what the sequence weighs.
LEMMA FilteredSums ==
  ASSUME NEW X, NEW s \in Seq(X), NEW w \in [X -> Int], NEW S
  PROVE  Summed(Weights(w, s)) = Summed(Weights(w, Filtered(s, S)))
                                 + Summed(Weights(w, Filtered(s, X \ S)))
  <1> DEFINE n == Len(s)
  <1>1. n \in Nat /\ \A i \in 1 .. n : s[i] \in X
    OBVIOUS
  <1>2. /\ Weights(w, s) \in Seq(Int) /\ Len(Weights(w, s)) = n
        /\ \A i \in 1 .. n : Weights(w, s)[i] = w[s[i]]
    BY WeightsType
  <1> HIDE DEF n
  <1>3. PICK sum \in [0 .. n -> Int] :
          /\ sum[0] = 0
          /\ \A k \in 1 .. n : sum[k] = sum[k - 1] + Weights(w, s)[k]
          /\ sum[n] = Summed(Weights(w, s))
    BY <1>2, SumRun
  <1>4. PICK in : Keeps(in, X, s, S)
    BY FilterRun
  <1>5. PICK out : Keeps(out, X, s, X \ S)
    BY FilterRun
  <1>6. /\ in \in [0 .. n -> Seq(X)] /\ in[0] = <<>> /\ in[n] = Filtered(s, S)
        /\ \A k \in 1 .. n : in[k] = IF s[k] \in S THEN Append(in[k - 1], s[k]) ELSE in[k - 1]
    BY <1>4 DEF Keeps, n
  <1>7. /\ out \in [0 .. n -> Seq(X)] /\ out[0] = <<>> /\ out[n] = Filtered(s, X \ S)
        /\ \A k \in 1 .. n :
             out[k] = IF s[k] \in X \ S THEN Append(out[k - 1], s[k]) ELSE out[k - 1]
    BY <1>5 DEF Keeps, n
  <1> DEFINE weight(q) == Summed(Weights(w, q))
             T == {k \in 0 .. n : sum[k] = weight(in[k]) + weight(out[k])}
  <1>8. ASSUME NEW q \in Seq(X)
        PROVE  /\ weight(q) \in Int
               /\ \A x \in X : weight(Append(q, x)) = weight(q) + w[x]
    <2>1. Weights(w, q) \in Seq(Int)
      BY WeightsType
    <2>2. Summed(Weights(w, q)) \in Int
      <3> DEFINE r == Weights(w, q)
      <3>1. r \in Seq(Int)
        BY <2>1
      <3> HIDE DEF r
      <3>2. Summed(r) \in Int
        <4>1. \A i \in 1 .. Len(r) : r[i] <= r[i]
          BY <3>1
        <4>. QED
          BY <3>1, <4>1, SumMonotone
      <3>. QED
        BY <3>2 DEF r
    <2>. QED
      BY <2>2, WeightsAppend
  <1>9. weight(<<>>) = 0
    <2>1. Weights(w, <<>>) = <<>>
      BY DEF Weights
    <2>. QED
      BY <2>1, SumEmpty
  <1> HIDE DEF weight
  <1>10. 0 \in T
    BY <1>1, <1>3, <1>6, <1>7, <1>9
  <1>11. ASSUME NEW k \in 0 .. n, k \in T, k < n
         PROVE  k + 1 \in T
    <2>1. k + 1 \in 1 .. n /\ (k + 1) - 1 = k /\ k + 1 \in 0 .. n
      BY <1>1, <1>11
    <2>2. s[k + 1] \in X /\ w[s[k + 1]] \in Int /\ in[k] \in Seq(X) /\ out[k] \in Seq(X)
      BY <1>1, <1>6, <1>7, <2>1
    <2>3. sum[k + 1] = sum[k] + w[s[k + 1]] /\ sum[k] = weight(in[k]) + weight(out[k])
      BY <1>2, <1>3, <1>11, <2>1
    <2>4. CASE s[k + 1] \in S
      <3>1. in[k + 1] = Append(in[k], s[k + 1]) /\ out[k + 1] = out[k]
        BY <1>6, <1>7, <2>1, <2>4
      <3>2. weight(in[k + 1]) = weight(in[k]) + w[s[k + 1]]
        BY <1>8, <2>2, <3>1
      <3>3. weight(in[k]) \in Int /\ weight(out[k]) \in Int /\ weight(out[k + 1]) = weight(out[k])
        BY <1>8, <2>2, <3>1
      <3>4. sum[k + 1] = weight(in[k + 1]) + weight(out[k + 1])
        BY <2>2, <2>3, <3>2, <3>3
      <3>. QED
        BY <2>1, <3>4
    <2>5. CASE s[k + 1] \notin S
      <3>1. out[k + 1] = Append(out[k], s[k + 1]) /\ in[k + 1] = in[k]
        BY <1>6, <1>7, <2>1, <2>2, <2>5
      <3>2. weight(out[k + 1]) = weight(out[k]) + w[s[k + 1]]
        BY <1>8, <2>2, <3>1
      <3>3. weight(in[k]) \in Int /\ weight(out[k]) \in Int /\ weight(in[k + 1]) = weight(in[k])
        BY <1>8, <2>2, <3>1
      <3>4. sum[k + 1] = weight(in[k + 1]) + weight(out[k + 1])
        BY <2>2, <2>3, <3>2, <3>3
      <3>. QED
        BY <2>1, <3>4
    <2>. QED
      BY <2>4, <2>5
  <1>12. 0 .. n \subseteq T
    <2> HIDE DEF T
    <2>. QED
      BY <1>1, <1>10, <1>11, InductionTo
  <1>13. sum[n] = weight(in[n]) + weight(out[n])
    BY <1>1, <1>12
  <1>. QED
    BY <1>3, <1>6, <1>7, <1>13 DEF weight

\* Terms of one sign sum to that sign.
LEMMA SumSigns ==
  ASSUME NEW s \in Seq(Int)
  PROVE  /\ (\A i \in 1 .. Len(s) : s[i] >= 1) => Summed(s) >= Len(s)
         /\ (\A i \in 1 .. Len(s) : s[i] <= -1) => Summed(s) <= -Len(s)
  <1> DEFINE n == Len(s)
  <1>1. n \in Nat /\ \A i \in 1 .. n : s[i] \in Int
    OBVIOUS
  <1>2. PICK run \in [0 .. n -> Int] :
          /\ run[0] = 0
          /\ \A k \in 1 .. n : run[k] = run[k - 1] + s[k]
          /\ run[n] = Summed(s)
    BY SumRun DEF n
  <1> HIDE DEF n
  <1>3. ASSUME \A i \in 1 .. n : s[i] >= 1
        PROVE  Summed(s) >= n
    <2> DEFINE T == {k \in 0 .. n : run[k] >= k}
    <2>1. 0 \in T
      BY <1>1, <1>2
    <2>2. ASSUME NEW k \in 0 .. n, k \in T, k < n
          PROVE  k + 1 \in T
      <3>2. k + 1 \in 1 .. n /\ (k + 1) - 1 = k /\ k + 1 \in 0 .. n
        BY <1>1, <2>2
      <3>3. run[k + 1] = run[k] + s[k + 1] /\ s[k + 1] >= 1 /\ s[k + 1] \in Int
        BY <1>1, <1>2, <1>3, <3>2
      <3>4. run[k] \in Int /\ run[k] >= k
        BY <1>2, <2>2
      <3>5. run[k + 1] >= k + 1
        BY <3>3, <3>4
      <3>. QED
        BY <3>2, <3>5
    <2>3. 0 .. n \subseteq T
      <3> HIDE DEF T
      <3>. QED
        BY <1>1, <2>1, <2>2, InductionTo
    <2>4. run[n] >= n
      BY <1>1, <2>3
    <2>. QED
      BY <1>2, <2>4
  <1>4. ASSUME \A i \in 1 .. n : s[i] <= -1
        PROVE  Summed(s) <= -n
    <2> DEFINE T == {k \in 0 .. n : run[k] <= -k}
    <2>1. 0 \in T
      BY <1>1, <1>2
    <2>2. ASSUME NEW k \in 0 .. n, k \in T, k < n
          PROVE  k + 1 \in T
      <3>2. k + 1 \in 1 .. n /\ (k + 1) - 1 = k /\ k + 1 \in 0 .. n
        BY <1>1, <2>2
      <3>3. run[k + 1] = run[k] + s[k + 1] /\ s[k + 1] <= -1 /\ s[k + 1] \in Int
        BY <1>1, <1>2, <1>4, <3>2
      <3>4. run[k] \in Int /\ run[k] <= -k
        BY <1>2, <2>2
      <3>5. run[k + 1] <= -(k + 1)
        BY <3>3, <3>4
      <3>. QED
        BY <3>2, <3>5
    <2>3. 0 .. n \subseteq T
      <3> HIDE DEF T
      <3>. QED
        BY <1>1, <2>1, <2>2, InductionTo
    <2>4. run[n] <= -n
      BY <1>1, <2>3
    <2>. QED
      BY <1>2, <2>4
  <1>. QED
    BY <1>3, <1>4 DEF n

\* An element that occurs once is all that a filter on it keeps.
LEMMA FilterOne ==
  ASSUME NEW X, NEW s \in Seq(X), NEW x, x \in ToSet(s),
         \A i, j \in 1 .. Len(s) : s[i] = s[j] => i = j
  PROVE  Filtered(s, {x}) = <<x>>
  <1> DEFINE kept == Filtered(s, {x})
             n == Len(s)
  <1>1. kept \in Seq(X) /\ ToSet(kept) = ToSet(s) \cap {x} /\ \E g : Indexes(g, kept, s, {x}, n)
    BY FilterFacts
  <1> HIDE DEF kept
  <1>2. PICK g : Indexes(g, kept, s, {x}, n)
    BY <1>1
  <1>3. Len(kept) \in Nat /\ DOMAIN kept = 1 .. Len(kept) /\ n \in Nat
    BY <1>1
  <1> HIDE DEF n
  <1>4. \A i \in 1 .. Len(kept) : kept[i] = x /\ s[g[i]] = x /\ g[i] \in 1 .. n
    BY <1>2 DEF Indexes
  <1>5. \A i, j \in 1 .. Len(kept) : g[i] = g[j]
    BY <1>4 DEF n
  <1>6. ~(Len(kept) >= 2)
    <2>1. SUFFICES ASSUME Len(kept) >= 2
                   PROVE  FALSE
      OBVIOUS
    <2>2. 1 \in 1 .. Len(kept) /\ 2 \in 1 .. Len(kept) /\ 1 < 2
      BY <1>3, <2>1
    <2>3. g[1] < g[2] /\ g[1] = g[2] /\ g[1] \in 1 .. n
      BY <1>2, <1>4, <1>5, <2>2 DEF Indexes
    <2>. QED
      BY <1>3, <2>3
  <1>7. Len(kept) # 0
    <2>1. x \in ToSet(kept)
      BY <1>1
    <2>. QED
      BY <1>3, <2>1 DEF ToSet
  <1>8. Len(kept) = 1 /\ 1 \in 1 .. Len(kept)
    BY <1>3, <1>6, <1>7
  <1>9. kept = <<x>>
    <2>1. kept[1] = x
      BY <1>4, <1>8
    <2>. QED
      BY <1>1, <1>8, <2>1
  <1>. QED
    BY <1>9 DEF kept

\* A filter repeats nothing that the sequence does not repeat.
LEMMA FilterInjective ==
  ASSUME NEW X, NEW s \in Seq(X), NEW S,
         \A i, j \in 1 .. Len(s) : s[i] = s[j] => i = j
  PROVE  \A i, j \in 1 .. Len(Filtered(s, S)) : Filtered(s, S)[i] = Filtered(s, S)[j] => i = j
  <1> DEFINE kept == Filtered(s, S)
             n == Len(s)
  <1>1. kept \in Seq(X) /\ \E g : Indexes(g, kept, s, S, n)
    BY FilterFacts
  <1> HIDE DEF kept
  <1>2. PICK g : Indexes(g, kept, s, S, n)
    BY <1>1
  <1>3. Len(kept) \in Nat /\ n \in Nat
    BY <1>1
  <1> HIDE DEF n
  <1>4. /\ \A i \in 1 .. Len(kept) : kept[i] = s[g[i]] /\ g[i] \in 1 .. n
        /\ \A i, j \in 1 .. Len(kept) : i < j => g[i] < g[j]
    BY <1>2 DEF Indexes
  <1>5. ASSUME NEW i \in 1 .. Len(kept), NEW j \in 1 .. Len(kept), kept[i] = kept[j]
        PROVE  i = j
    <2>1. g[i] = g[j]
      BY <1>4, <1>5 DEF n
    <2>2. ~(i < j) /\ ~(j < i)
      BY <1>3, <1>4, <2>1
    <2>. QED
      BY <1>3, <2>2
  <1>. QED
    BY <1>5 DEF kept

-----------------------------------------------------------------------------
(* Sums of weights, added and multiplied, and sums that count *)

\* A sum of sums, term by term.
LEMMA SumAdded ==
  ASSUME NEW s \in Seq(Int), NEW t \in Seq(Int), NEW u \in Seq(Int),
         Len(s) = Len(u), Len(t) = Len(u), \A i \in 1 .. Len(u) : u[i] = s[i] + t[i]
  PROVE  Summed(u) = Summed(s) + Summed(t)
  <1> DEFINE n == Len(u)
  <1>1. n \in Nat /\ \A i \in 1 .. n : s[i] \in Int /\ t[i] \in Int /\ u[i] = s[i] + t[i]
    OBVIOUS
  <1>2. PICK f \in [0 .. n -> Int] :
          f[0] = 0 /\ (\A k \in 1 .. n : f[k] = f[k - 1] + s[k]) /\ f[n] = Summed(s)
    BY SumRun
  <1>3. PICK g \in [0 .. n -> Int] :
          g[0] = 0 /\ (\A k \in 1 .. n : g[k] = g[k - 1] + t[k]) /\ g[n] = Summed(t)
    BY SumRun
  <1>4. PICK h \in [0 .. n -> Int] :
          h[0] = 0 /\ (\A k \in 1 .. n : h[k] = h[k - 1] + u[k]) /\ h[n] = Summed(u)
    BY SumRun
  <1> HIDE DEF n
  <1> DEFINE T == {k \in 0 .. n : h[k] = f[k] + g[k]}
  <1>5. 0 \in T
    BY <1>1, <1>2, <1>3, <1>4
  <1>6. ASSUME NEW k \in 0 .. n, k \in T, k < n
        PROVE  k + 1 \in T
    <2>1. k + 1 \in 1 .. n /\ k + 1 \in 0 .. n /\ (k + 1) - 1 = k
      BY <1>1, <1>6
    <2>2. /\ f[k] \in Int /\ g[k] \in Int /\ h[k] = f[k] + g[k]
          /\ f[k + 1] = f[k] + s[k + 1] /\ g[k + 1] = g[k] + t[k + 1]
          /\ h[k + 1] = h[k] + u[k + 1]
      BY <1>2, <1>3, <1>4, <1>6, <2>1
    <2>3. s[k + 1] \in Int /\ t[k + 1] \in Int /\ u[k + 1] = s[k + 1] + t[k + 1]
      BY <1>1, <2>1
    <2>4. h[k + 1] = f[k + 1] + g[k + 1]
      BY <2>2, <2>3
    <2>. QED
      BY <2>1, <2>4
  <1>7. 0 .. n \subseteq T
    <2> HIDE DEF T
    <2>. QED
      BY <1>1, <1>5, <1>6, InductionTo
  <1>8. n \in T
    BY <1>1, <1>7
  <1>. QED
    BY <1>2, <1>3, <1>4, <1>8

LEMMA Distributes == \A a, b, c \in Int : c * (a + b) = c * a + c * b
  OBVIOUS

\* A sum of multiples is a multiple of the sum.
LEMMA SumScaled ==
  ASSUME NEW s \in Seq(Int), NEW u \in Seq(Int), NEW c \in Int,
         Len(s) = Len(u), \A i \in 1 .. Len(u) : u[i] = c * s[i]
  PROVE  Summed(u) = c * Summed(s)
  <1> DEFINE n == Len(u)
  <1>1. n \in Nat /\ \A i \in 1 .. n : s[i] \in Int /\ u[i] = c * s[i]
    OBVIOUS
  <1>2. PICK f \in [0 .. n -> Int] :
          f[0] = 0 /\ (\A k \in 1 .. n : f[k] = f[k - 1] + s[k]) /\ f[n] = Summed(s)
    BY SumRun
  <1>3. PICK h \in [0 .. n -> Int] :
          h[0] = 0 /\ (\A k \in 1 .. n : h[k] = h[k - 1] + u[k]) /\ h[n] = Summed(u)
    BY SumRun
  <1> HIDE DEF n
  <1> DEFINE T == {k \in 0 .. n : h[k] = c * f[k]}
  <1>4. 0 \in T
    BY <1>1, <1>2, <1>3
  <1>5. ASSUME NEW k \in 0 .. n, k \in T, k < n
        PROVE  k + 1 \in T
    <2>1. k + 1 \in 1 .. n /\ k + 1 \in 0 .. n /\ (k + 1) - 1 = k
      BY <1>1, <1>5
    <2>2. /\ f[k] \in Int /\ h[k] = c * f[k]
          /\ f[k + 1] = f[k] + s[k + 1] /\ h[k + 1] = h[k] + u[k + 1]
      BY <1>2, <1>3, <1>5, <2>1
    <2>3. s[k + 1] \in Int /\ u[k + 1] = c * s[k + 1]
      BY <1>1, <2>1
    <2>4. c * (f[k] + s[k + 1]) = c * f[k] + c * s[k + 1]
      BY <2>2, <2>3, Distributes
    <2>5. h[k + 1] = c * f[k + 1]
      BY <2>2, <2>3, <2>4
    <2>. QED
      BY <2>1, <2>5
  <1>6. 0 .. n \subseteq T
    <2> HIDE DEF T
    <2>. QED
      BY <1>1, <1>4, <1>5, InductionTo
  <1>7. n \in T
    BY <1>1, <1>6
  <1>. QED
    BY <1>2, <1>3, <1>7

\* Ones, added over the indices of a sequence, count those of a set.
LEMMA SumCounts ==
  ASSUME NEW u \in Seq(Int), NEW P \in SUBSET (1 .. Len(u)),
         \A i \in 1 .. Len(u) : u[i] = IF i \in P THEN 1 ELSE 0
  PROVE  Summed(u) = Cardinality(P)
  <1> DEFINE n == Len(u)
             Upto(k) == P \cap (1 .. k)
  <1>1. n \in Nat /\ \A i \in 1 .. n : u[i] = IF i \in P THEN 1 ELSE 0
    OBVIOUS
  <1>2. PICK h \in [0 .. n -> Int] :
          h[0] = 0 /\ (\A k \in 1 .. n : h[k] = h[k - 1] + u[k]) /\ h[n] = Summed(u)
    BY SumRun
  <1>3. IsFiniteSet(1 .. n)
    <2>1. 1 \in Int /\ n \in Int
      BY <1>1
    <2>. QED
      BY <2>1, FS_Interval
  <1>4. P \in SUBSET (1 .. n)
    OBVIOUS
  <1> HIDE DEF n
  <1> DEFINE T == {k \in 0 .. n : h[k] = Cardinality(Upto(k))}
  <1>5. 0 \in T
    <2>1. Upto(0) = {}
      OBVIOUS
    <2>. QED
      BY <1>1, <1>2, <2>1, FS_EmptySet
  <1>6. ASSUME NEW k \in 0 .. n, k \in T, k < n
        PROVE  k + 1 \in T
    <2>1. k \in Nat /\ k + 1 \in 1 .. n /\ k + 1 \in 0 .. n /\ (k + 1) - 1 = k
      BY <1>1, <1>6
    <2>2. /\ h[k] = Cardinality(Upto(k)) /\ h[k] \in Int /\ h[k + 1] = h[k] + u[k + 1]
      BY <1>2, <1>6, <2>1
    <2>3. IsFiniteSet(Upto(k))
      <3>1. Upto(k) \in SUBSET (1 .. n)
        BY <1>4
      <3>. QED
        BY <1>3, <3>1, FS_Subset
    <2>4. CASE k + 1 \in P
      <3>1. Upto(k + 1) = Upto(k) \cup {k + 1} /\ k + 1 \notin Upto(k)
        BY <1>4, <2>1, <2>4
      <3>2. Cardinality(Upto(k) \cup {k + 1}) = Cardinality(Upto(k)) + 1
        BY <2>3, <3>1, FS_AddElement
      <3>. QED
        BY <1>1, <2>1, <2>2, <2>4, <3>1, <3>2
    <2>5. CASE k + 1 \notin P
      <3>1. Upto(k + 1) = Upto(k)
        BY <1>4, <2>1, <2>5
      <3>2. u[k + 1] = 0
        BY <1>1, <2>1, <2>5
      <3> HIDE DEF Upto
      <3>3. h[k + 1] = Cardinality(Upto(k + 1))
        BY <2>2, <3>1, <3>2
      <3>. QED
        BY <2>1, <3>3
    <2>. QED
      BY <2>4, <2>5
  <1>7. 0 .. n \subseteq T
    <2> HIDE DEF T
    <2>. QED
      BY <1>1, <1>5, <1>6, InductionTo
  <1>8. n \in T
    BY <1>1, <1>7
  <1>9. Upto(n) = P
    BY <1>4
  <1>. QED
    BY <1>2, <1>8, <1>9

-----------------------------------------------------------------------------
(* Sums over a finite set, in whatever order it is enumerated *)

\* One term changed changes the sum by as much.
LEMMA SumPoint ==
  ASSUME NEW s \in Seq(Int), NEW u \in Seq(Int), Len(s) = Len(u), NEW j \in 1 .. Len(s),
         \A i \in 1 .. Len(s) : i # j => u[i] = s[i]
  PROVE  Summed(u) = Summed(s) + u[j] - s[j]
  <1> DEFINE n == Len(s)
             d == u[j] - s[j]
  <1>1. /\ n \in Nat /\ Len(u) = n /\ j \in 1 .. n /\ d \in Int
        /\ \A i \in 1 .. n : s[i] \in Int /\ u[i] \in Int
        /\ \A i \in 1 .. n : u[i] = IF i = j THEN s[i] + d ELSE s[i]
    OBVIOUS
  <1> HIDE DEF n, d
  <1>2. PICK f \in [0 .. n -> Int] :
          f[0] = 0 /\ (\A k \in 1 .. n : f[k] = f[k - 1] + s[k]) /\ f[n] = Summed(s)
    BY SumRun DEF n
  <1>3. PICK h \in [0 .. n -> Int] :
          h[0] = 0 /\ (\A k \in 1 .. n : h[k] = h[k - 1] + u[k]) /\ h[n] = Summed(u)
    BY <1>1, SumRun
  <1> DEFINE T == {k \in 0 .. n : h[k] = IF k < j THEN f[k] ELSE f[k] + d}
  <1>4. 0 \in T
    BY <1>1, <1>2, <1>3
  <1>5. ASSUME NEW k \in 0 .. n, k \in T, k < n
        PROVE  k + 1 \in T
    <2>1. k + 1 \in 1 .. n /\ k + 1 \in 0 .. n /\ (k + 1) - 1 = k
      BY <1>1, <1>5
    <2>2. /\ f[k] \in Int /\ h[k] = IF k < j THEN f[k] ELSE f[k] + d
          /\ f[k + 1] = f[k] + s[k + 1] /\ h[k + 1] = h[k] + u[k + 1]
          /\ s[k + 1] \in Int /\ u[k + 1] = IF k + 1 = j THEN s[k + 1] + d ELSE s[k + 1]
      BY <1>1, <1>2, <1>3, <1>5, <2>1
    <2>3. h[k + 1] = IF k + 1 < j THEN f[k + 1] ELSE f[k + 1] + d
      <3>1. k \in Int /\ j \in Int /\ d \in Int
        BY <1>1
      <3>2. CASE k + 1 < j
        BY <2>2, <3>1, <3>2
      <3>3. CASE k + 1 = j
        BY <2>2, <3>1, <3>3
      <3>4. CASE k + 1 > j
        BY <2>2, <3>1, <3>4
      <3>. QED
        BY <3>1, <3>2, <3>3, <3>4
    <2>. QED
      BY <2>1, <2>3
  <1>6. 0 .. n \subseteq T
    <2> HIDE DEF T
    <2>. QED
      BY <1>1, <1>4, <1>5, InductionTo
  <1>7. n \in T
    BY <1>1, <1>6
  <1>8. h[n] = f[n] + d /\ f[n] \in Int
    BY <1>1, <1>2, <1>7
  <1>. QED
    BY <1>1, <1>2, <1>3, <1>8 DEF d

\* The elements of S, each once.
Enumerates(s, n, S) ==
  /\ s \in [1 .. n -> S]
  /\ \A i, j \in 1 .. n : s[i] = s[j] => i = j
  /\ \A x \in S : \E i \in 1 .. n : s[i] = x

\* One element exchanged for another.
Exchanged(X, w, s, u, j) ==
  /\ w \in [X -> Int] /\ s \in Seq(X) /\ u \in Seq(X) /\ Len(s) = Len(u)
  /\ j \in 1 .. Len(s) /\ \A i \in 1 .. Len(s) : i # j => u[i] = s[i]

LEMMA WeightsPoint ==
  ASSUME NEW X, NEW w, NEW s, NEW u, NEW j, Exchanged(X, w, s, u, j)
  PROVE  Summed(Weights(w, u)) = Summed(Weights(w, s)) + w[u[j]] - w[s[j]]
  <1> USE DEF Exchanged
  <1> DEFINE a == Weights(w, s)
             b == Weights(w, u)
  <1>1. a \in Seq(Int) /\ Len(a) = Len(s) /\ \A i \in 1 .. Len(s) : a[i] = w[s[i]]
    <2>1. s \in Seq(X) /\ w \in [X -> Int]
      OBVIOUS
    <2>. QED
      BY <2>1, WeightsType
  <1>2. b \in Seq(Int) /\ Len(b) = Len(u) /\ \A i \in 1 .. Len(u) : b[i] = w[u[i]]
    <2>1. u \in Seq(X) /\ w \in [X -> Int]
      OBVIOUS
    <2>. QED
      BY <2>1, WeightsType
  <1> HIDE DEF a, b
  <1>3. Len(a) = Len(b) /\ j \in 1 .. Len(a) /\ \A i \in 1 .. Len(a) : i # j => b[i] = a[i]
    BY <1>1, <1>2, SMTT(30)
  <1>4. Summed(b) = Summed(a) + b[j] - a[j]
    BY <1>1, <1>2, <1>3, SumPoint
  <1>5. a[j] = w[s[j]] /\ b[j] = w[u[j]]
    BY <1>1, <1>2
  <1>. QED
    BY <1>4, <1>5 DEF a, b

\* Without its last element a sequence enumerates the rest.
FrontOf(front, x, q, k, R) ==
  /\ k \in Nat /\ Enumerates(q, k + 1, R) /\ x = q[k + 1]
  /\ front \in [1 .. k -> R] /\ \A i \in 1 .. k : front[i] = q[i]

FrontEnumerates(front, x, q, k, R) ==
  /\ Enumerates(front, k, R \ {x}) /\ x \in R
  /\ front \in Seq(R) /\ Len(front) = k /\ q = Append(front, x)

LEMMA EnumerateFront ==
  ASSUME NEW R, NEW k, NEW q, NEW x, NEW front, FrontOf(front, x, q, k, R)
  PROVE  FrontEnumerates(front, x, q, k, R)
  <1> USE DEF FrontOf
  <1>0. Enumerates(q, k + 1, R) /\ x = q[k + 1] /\ k \in Nat
    OBVIOUS
  <1>1. /\ k + 1 \in 1 .. k + 1 /\ k + 1 \notin 1 .. k
        /\ \A i \in 1 .. k : i \in 1 .. k + 1
        /\ \A i \in 1 .. k + 1 : i = k + 1 \/ i \in 1 .. k
    BY <1>0
  <1>2. /\ q \in [1 .. k + 1 -> R]
        /\ \A i, j \in 1 .. k + 1 : q[i] = q[j] => i = j
        /\ \A y \in R : \E i \in 1 .. k + 1 : q[i] = y
    BY <1>0 DEF Enumerates
  <1>3. x \in R /\ \A i \in 1 .. k : front[i] = q[i] /\ q[i] \in R /\ q[i] # x
    BY <1>0, <1>1, <1>2
  <1>4. front \in [1 .. k -> R \ {x}] /\ front \in [1 .. k -> R]
    BY <1>3
  <1>5. \A i, j \in 1 .. k : front[i] = front[j] => i = j
    BY <1>1, <1>2, <1>3
  <1>6. \A y \in R \ {x} : \E i \in 1 .. k : front[i] = y
    <2>1. ASSUME NEW y \in R \ {x}
          PROVE  \E i \in 1 .. k : front[i] = y
      <3>1. PICK i \in 1 .. k + 1 : q[i] = y
        BY <1>2
      <3>2. i \in 1 .. k
        BY <1>1, <3>1
      <3>. QED
        BY <1>3, <3>1, <3>2
    <2>. QED
      BY <2>1
  <1>7. front \in Seq(R) /\ Len(front) = k /\ q \in Seq(R) /\ Len(q) = k + 1
    BY <1>2, <1>4
  <1>8. q = Append(front, x)
    BY <1>1, <1>3, <1>7
  <1>. QED
    BY <1>3, <1>4, <1>5, <1>6, <1>7, <1>8 DEF Enumerates, FrontEnumerates

\* An element taken out of an enumeration, and the last one put in its place.
Leaves(w, p, k, R, x) ==
  \E pp : /\ Enumerates(pp, k, R \ {x})
          /\ Summed(Weights(w, p)) = Summed(Weights(w, pp)) + w[x]

LEMMA EnumerateWithout ==
  ASSUME NEW X, NEW w \in [X -> Int], NEW R \in SUBSET X, NEW k \in Nat, NEW p,
         Enumerates(p, k + 1, R), NEW x \in R
  PROVE  Leaves(w, p, k, R, x)
  <1> USE DEF Leaves
  <1>0. PICK front \in [1 .. k -> R] : \A i \in 1 .. k : front[i] = p[i]
    <2>1. [i \in 1 .. k |-> p[i]] \in [1 .. k -> R]
      BY DEF Enumerates
    <2>. QED
      BY <2>1
  <1>y. PICK y : y = p[k + 1]
    OBVIOUS
  <1>1. /\ Enumerates(front, k, R \ {y}) /\ y \in R
        /\ front \in Seq(R) /\ Len(front) = k /\ p = Append(front, y)
    <2>1. FrontOf(front, y, p, k, R)
      BY <1>0, <1>y DEF FrontOf
    <2>. QED
      <3>1. FrontEnumerates(front, y, p, k, R)
        BY <2>1, EnumerateFront
      <3>. QED
        BY <3>1 DEF FrontEnumerates
  <1>2. /\ front \in Seq(X) /\ x \in X /\ y \in X /\ w[x] \in Int /\ w[y] \in Int
    BY <1>1
  <1>3. Summed(Weights(w, p)) = Summed(Weights(w, front)) + w[y]
    BY <1>1, <1>2, WeightsAppend
  <1>4. CASE x = y
    BY <1>1, <1>3, <1>4
  <1>5. CASE x # y
    <2>1. PICK j \in 1 .. k : front[j] = x
      BY <1>1, <1>5 DEF Enumerates
    <2> DEFINE pp == [i \in 1 .. k |-> IF i = j THEN y ELSE front[i]]
    <2>2. /\ \A i \in 1 .. k : front[i] \in R \ {y}
          /\ \A i, m \in 1 .. k : front[i] = front[m] => i = m
          /\ \A z \in R \ {y} : \E i \in 1 .. k : front[i] = z
      BY <1>1 DEF Enumerates
    <2>3. pp[j] = y /\ \A i \in 1 .. k : i # j => pp[i] = front[i]
      OBVIOUS
    <2>4. pp \in [1 .. k -> R \ {x}] /\ pp \in Seq(X) /\ Len(pp) = k
      <3>1. \A i \in 1 .. k : pp[i] \in R \ {x}
        BY <1>1, <1>5, <2>1, <2>2
      <3>. QED
        BY <3>1
    <2> HIDE DEF pp
    <2>5. \A i, m \in 1 .. k : pp[i] = pp[m] => i = m
      <3>1. ASSUME NEW i \in 1 .. k, NEW m \in 1 .. k, pp[i] = pp[m]
            PROVE  i = m
        BY <2>2, <2>3, <3>1
      <3>. QED
        BY <3>1
    <2>6. \A z \in R \ {x} : \E i \in 1 .. k : pp[i] = z
      <3>1. ASSUME NEW z \in R \ {x}
            PROVE  \E i \in 1 .. k : pp[i] = z
        <4>1. CASE z = y
          BY <2>3, <4>1
        <4>2. CASE z # y
          <5>1. PICK i \in 1 .. k : front[i] = z
            BY <2>2, <4>2
          <5>. QED
            BY <2>1, <2>3, <5>1
        <4>. QED
          BY <4>1, <4>2
      <3>. QED
        BY <3>1
    <2>7. Enumerates(pp, k, R \ {x})
      BY <2>4, <2>5, <2>6 DEF Enumerates
    <2>8. Summed(Weights(w, pp)) = Summed(Weights(w, front)) + w[pp[j]] - w[front[j]]
      <3>1. Exchanged(X, w, front, pp, j)
        BY <1>1, <1>2, <2>3, <2>4 DEF Exchanged
      <3>. QED
        BY <3>1, WeightsPoint
    <2>9. Summed(Weights(w, front)) \in Int
      <3>1. Weights(w, front) \in Seq(Int)
        BY <1>2, WeightsType
      <3>. QED
        BY <3>1, SumMonotone
    <2>10. Summed(Weights(w, p)) = Summed(Weights(w, pp)) + w[x]
      BY <1>2, <1>3, <2>1, <2>3, <2>8, <2>9
    <2>. QED
      BY <2>7, <2>10
  <1>. QED
    BY <1>4, <1>5

\* Two enumerations of a set weigh the same.
LEMMA SumReordered ==
  ASSUME NEW X, NEW w \in [X -> Int], NEW n \in Nat,
         NEW S \in SUBSET X, NEW s, NEW t, Enumerates(s, n, S), Enumerates(t, n, S)
  PROVE  Summed(Weights(w, s)) = Summed(Weights(w, t))
  <1> DEFINE Same(k) == \A R \in SUBSET X : \A p, q \in [1 .. k -> R] :
               Enumerates(p, k, R) /\ Enumerates(q, k, R) =>
                 Summed(Weights(w, p)) = Summed(Weights(w, q))
             T == {k \in 0 .. n : Same(k)}
  <1>1. 0 \in T
    <2>1. ASSUME NEW R \in SUBSET X, NEW p \in [1 .. 0 -> R], NEW q \in [1 .. 0 -> R]
          PROVE  p = q
      OBVIOUS
    <2>2. Same(0)
      BY <2>1
    <2>. QED
      BY <2>2
  <1>2. ASSUME NEW k \in 0 .. n, Same(k), k < n
        PROVE  Same(k + 1)
    <2>1. SUFFICES ASSUME NEW R \in SUBSET X,
                          NEW p \in [1 .. k + 1 -> R], NEW q \in [1 .. k + 1 -> R],
                          Enumerates(p, k + 1, R), Enumerates(q, k + 1, R)
                   PROVE  Summed(Weights(w, p)) = Summed(Weights(w, q))
      OBVIOUS
    <2> DEFINE x == q[k + 1]
               rest == R \ {x}
    <2>2. k \in Nat /\ x \in R /\ rest \in SUBSET X
      OBVIOUS
    <2> HIDE DEF x
    <2>3. PICK pp :
            Enumerates(pp, k, R \ {x}) /\ Summed(Weights(w, p)) = Summed(Weights(w, pp)) + w[x]
      <3>1. Leaves(w, p, k, R, x)
        BY <2>1, <2>2, EnumerateWithout
      <3>. QED
        BY <3>1 DEF Leaves
    <2>4. PICK qq :
            Enumerates(qq, k, R \ {x}) /\ Summed(Weights(w, q)) = Summed(Weights(w, qq)) + w[x]
      <3>1. Leaves(w, q, k, R, x)
        BY <2>1, <2>2, EnumerateWithout
      <3>. QED
        BY <3>1 DEF Leaves
    <2> HIDE DEF rest
    <2>5. pp \in [1 .. k -> rest] /\ qq \in [1 .. k -> rest]
      BY <2>3, <2>4 DEF Enumerates, rest
    <2>6. Summed(Weights(w, pp)) = Summed(Weights(w, qq))
      BY <1>2, <2>2, <2>3, <2>4, <2>5 DEF rest
    <2>. QED
      BY <2>3, <2>4, <2>6
  <1>3. 0 .. n \subseteq T
    <2>1. \A k \in 0 .. n : k \in T /\ k < n => k + 1 \in T
      <3>1. ASSUME NEW k \in 0 .. n, k \in T, k < n
            PROVE  k + 1 \in T
        <4>1. Same(k + 1)
          BY <1>2, <3>1
        <4>2. k + 1 \in 0 .. n
          BY <3>1
        <4> HIDE DEF Same
        <4>. QED
          BY <4>1, <4>2
      <3>. QED
        BY <3>1
    <2> HIDE DEF T
    <2>. QED
      BY <1>1, <2>1, InductionTo
  <1>4. Same(n)
    BY <1>3
  <1>5. s \in [1 .. n -> S] /\ t \in [1 .. n -> S]
    BY DEF Enumerates
  <1>. QED
    BY <1>4, <1>5

\* The sum of a function over its domain.
SetTotal(f) ==
  LET keys == SetToSeq(DOMAIN f) IN Summed([i \in DOMAIN keys |-> f[keys[i]]])

\* A finite set is enumerated.
LEMMA SetEnumerated ==
  ASSUME NEW S, IsFiniteSet(S)
  PROVE  Cardinality(S) \in Nat /\ Enumerates(SetToSeq(S), Cardinality(S), S)
  <1> DEFINE n == Cardinality(S)
             s == SetToSeq(S)
  <1>1. n \in Nat /\ ExistsBijection(1 .. n, S)
    BY FS_CardinalityType
  <1>2. PICK b \in Bijection(1 .. n, S) : TRUE
    BY <1>1 DEF ExistsBijection
  <1>3. b \in [1 .. n -> S] /\ IsInjective(b)
    BY <1>2 DEF Bijection, Injection, Surjection
  <1>4. s \in [1 .. n -> S] /\ IsInjective(s)
    BY <1>3 DEF SetToSeq
  <1>5. IsFiniteSet(1 .. n) /\ Cardinality(1 .. n) = n
    <2>1. 1 \in Int /\ n \in Int
      BY <1>1
    <2>. QED
      BY <1>1, <2>1, FS_Interval
  <1> HIDE DEF n, s
  <1>6. s \in Injection(1 .. n, S)
    BY <1>4 DEF Injection
  <1>7. s \in Surjection(1 .. n, S)
    BY <1>5, <1>6, FS_Injection DEF n
  <1>8. Enumerates(s, n, S)
    BY <1>4, <1>7 DEF Enumerates, Surjection, IsInjective
  <1>. QED
    BY <1>1, <1>8 DEF s, n

\* In any enumeration, the sum is the same.
LEMMA TotalOf ==
  ASSUME NEW S, IsFiniteSet(S), NEW f \in [S -> Int], NEW s, Enumerates(s, Cardinality(S), S)
  PROVE  SetTotal(f) = Summed(Weights(f, s)) /\ SetTotal(f) \in Int
  <1>1. DOMAIN f = S
    OBVIOUS
  <1>2. SetTotal(f) = Summed(Weights(f, SetToSeq(S)))
    BY <1>1, Zenon DEF SetTotal, Weights
  <1>3. Cardinality(S) \in Nat /\ Enumerates(SetToSeq(S), Cardinality(S), S)
    BY SetEnumerated
  <1>4. SetTotal(f) = Summed(Weights(f, s))
    BY <1>2, <1>3, SumReordered
  <1>5. s \in Seq(S)
    BY <1>3 DEF Enumerates
  <1>6. Weights(f, s) \in Seq(Int)
    BY <1>5, WeightsType
  <1>. QED
    BY <1>4, <1>6, SumMonotone

LEMMA TotalEmpty ==
  ASSUME NEW f, f \in [{} -> Int]
  PROVE  SetTotal(f) = 0
  <1>1. IsFiniteSet({}) /\ Cardinality({}) = 0
    BY FS_EmptySet
  <1>2. Enumerates(<<>>, 0, {})
    BY DEF Enumerates
  <1>3. Weights(f, <<>>) = <<>>
    BY DEF Weights
  <1>4. SetTotal(f) = Summed(Weights(f, <<>>))
    BY <1>1, <1>2, TotalOf
  <1>. QED
    BY <1>3, <1>4, SumEmpty

\* One key more.
KeyAdded(S, x, f, g) ==
  /\ IsFiniteSet(S) /\ x \notin S /\ f \in [S -> Int] /\ g \in [S \cup {x} -> Int]
  /\ \A y \in S : g[y] = f[y]

LEMMA TotalWith ==
  ASSUME NEW S, NEW x, NEW f, NEW g, KeyAdded(S, x, f, g)
  PROVE  SetTotal(g) = SetTotal(f) + g[x] /\ SetTotal(f) \in Int
  <1> USE DEF KeyAdded
  <1> DEFINE s == SetToSeq(S)
             n == Cardinality(S)
             R == S \cup {x}
             t == Append(s, x)
  <1>1. n \in Nat /\ Enumerates(s, n, S)
    BY SetEnumerated
  <1>2. IsFiniteSet(R) /\ Cardinality(R) = n + 1
    BY FS_AddElement
  <1> HIDE DEF s, n
  <1>3. s \in Seq(R) /\ Len(s) = n /\ s \in Seq(S) /\ \A i \in 1 .. n : s[i] \in S
    BY <1>1 DEF Enumerates
  <1>4. Enumerates(t, n + 1, R)
    <2>1. /\ t \in [1 .. n + 1 -> R] /\ t[n + 1] = x /\ \A i \in 1 .. n : t[i] = s[i]
      <3>1. x \in R /\ n \in Nat
        BY <1>1
      <3> HIDE DEF R
      <3>2. t \in Seq(R) /\ Len(t) = n + 1
        BY <1>3, <3>1
      <3>3. t[n + 1] = x /\ \A i \in 1 .. n : t[i] = s[i]
        BY <1>3, <3>1
      <3> HIDE DEF t
      <3>. QED
        BY <3>2, <3>3
    <2> HIDE DEF t
    <2>2. \A i, j \in 1 .. n + 1 : t[i] = t[j] => i = j
      <3>1. \A i \in 1 .. n + 1 : i = n + 1 \/ i \in 1 .. n
        BY <1>1
      <3>2. \A i, j \in 1 .. n : s[i] = s[j] => i = j
        BY <1>1 DEF Enumerates
      <3>. QED
        BY <1>3, <2>1, <3>1, <3>2
    <2>3. \A y \in R : \E i \in 1 .. n + 1 : t[i] = y
      <3>1. n + 1 \in 1 .. n + 1 /\ \A i \in 1 .. n : i \in 1 .. n + 1
        BY <1>1
      <3>2. \A y \in S : \E i \in 1 .. n : s[i] = y
        BY <1>1 DEF Enumerates
      <3>. QED
        BY <2>1, <3>1, <3>2
    <2>. QED
      BY <2>1, <2>2, <2>3 DEF Enumerates
  <1>5. SetTotal(g) = Summed(Weights(g, t))
    <2> HIDE DEF t, R
    <2>1. g \in [R -> Int]
      BY DEF R
    <2>. QED
      BY <1>2, <1>4, <2>1, TotalOf
  <1>6. SetTotal(f) = Summed(Weights(f, s)) /\ SetTotal(f) \in Int
    BY <1>1, TotalOf DEF n
  <1>7. Summed(Weights(g, t)) = Summed(Weights(g, s)) + g[x]
    BY <1>3, WeightsAppend
  <1>8. Weights(g, s) = Weights(f, s)
    BY <1>3 DEF Weights
  <1>. QED
    BY <1>5, <1>6, <1>7, <1>8

\* One value changed.
LEMMA TotalChanged ==
  ASSUME NEW S, IsFiniteSet(S), NEW x \in S, NEW f \in [S -> Int], NEW g \in [S -> Int],
         \A y \in S : y # x => g[y] = f[y]
  PROVE  SetTotal(g) = SetTotal(f) + g[x] - f[x] /\ SetTotal(f) \in Int
  <1> DEFINE R == S \ {x}
             h == [y \in R |-> f[y]]
  <1>1. IsFiniteSet(R) /\ x \notin R /\ R \cup {x} = S /\ h \in [R -> Int]
        /\ (\A y \in R : f[y] = h[y]) /\ (\A y \in R : g[y] = h[y])
    BY FS_RemoveElement
  <1> HIDE DEF R, h
  <1>2. SetTotal(f) = SetTotal(h) + f[x] /\ SetTotal(h) \in Int
    <2>1. KeyAdded(R, x, h, f)
      BY <1>1 DEF KeyAdded
    <2>. QED
      BY <2>1, TotalWith
  <1>3. SetTotal(g) = SetTotal(h) + g[x]
    <2>1. KeyAdded(R, x, h, g)
      BY <1>1 DEF KeyAdded
    <2>. QED
      BY <2>1, TotalWith
  <1>4. f[x] \in Int /\ g[x] \in Int
    OBVIOUS
  <1>. QED
    BY <1>2, <1>3, <1>4

\* What is never negative adds up to no less than nothing.
LEMMA TotalNatural ==
  ASSUME NEW S, IsFiniteSet(S), NEW f \in [S -> Nat]
  PROVE  SetTotal(f) >= 0 /\ SetTotal(f) \in Int
  <1> DEFINE s == SetToSeq(S)
             zeros == [i \in 1 .. Len(s) |-> 0]
  <1>1. Enumerates(s, Cardinality(S), S) /\ f \in [S -> Int]
    BY SetEnumerated
  <1> HIDE DEF s
  <1>2. s \in Seq(S)
    BY <1>1, SetEnumerated DEF Enumerates
  <1>3. Weights(f, s) \in Seq(Int) /\ Len(Weights(f, s)) = Len(s)
    BY <1>1, <1>2, WeightsType
  <1>4. zeros \in Seq(Int) /\ Len(zeros) = Len(s) /\ \A i \in 1 .. Len(zeros) : zeros[i] = 0
    BY <1>2
  <1> HIDE DEF zeros
  <1>5. \A i \in 1 .. Len(zeros) : zeros[i] <= Weights(f, s)[i]
    BY <1>2, <1>4 DEF Weights
  <1>6. Summed(zeros) = 0 /\ Summed(zeros) <= Summed(Weights(f, s))
    BY <1>3, <1>4, <1>5, SumZero, SumMonotone
  <1>7. SetTotal(f) = Summed(Weights(f, s)) /\ SetTotal(f) \in Int
    BY <1>1, TotalOf
  <1>. QED
    BY <1>6, <1>7

\* What holds of the empty set, and of each subset with one element more, holds of the set.
LEMMA SubsetInduction ==
  ASSUME NEW S, IsFiniteSet(S), NEW U, {} \in U,
         \A Q \in SUBSET S : Q \in U => \A x \in S \ Q : Q \cup {x} \in U
  PROVE  S \in U
  <1> DEFINE n == Cardinality(S)
             T == {k \in 0 .. n : \A Q \in SUBSET S : Cardinality(Q) = k => Q \in U}
  <1>1. n \in Nat
    BY FS_CardinalityType
  <1>2. \A Q \in SUBSET S : IsFiniteSet(Q) /\ Cardinality(Q) \in Nat
    BY FS_Subset, FS_CardinalityType
  <1>3. 0 \in T
    <2>1. \A Q \in SUBSET S : Cardinality(Q) = 0 => Q = {}
      BY <1>2, FS_EmptySet
    <2>2. \A Q \in SUBSET S : Cardinality(Q) = 0 => Q \in U
      BY <2>1, Zenon
    <2>3. 0 \in 0 .. n
      BY <1>1
    <2>. QED
      BY <2>2, <2>3
  <1>4. ASSUME NEW k \in 0 .. n, k \in T, k < n
        PROVE  k + 1 \in T
    <2>1. ASSUME NEW Q \in SUBSET S, Cardinality(Q) = k + 1
          PROVE  Q \in U
      <3>1. IsFiniteSet(Q) /\ Q # {}
        BY <1>2, <2>1, FS_EmptySet
      <3>2. PICK x \in Q : TRUE
        BY <3>1
      <3>3. IsFiniteSet(Q \ {x}) /\ Cardinality(Q \ {x}) = Cardinality(Q) - 1
        BY <3>1, <3>2, FS_RemoveElement
      <3>4. Q \ {x} \in SUBSET S /\ Cardinality(Q \ {x}) = k
        BY <2>1, <3>3
      <3>5. Q \ {x} \in U
        BY <1>4, <3>4
      <3>6. (Q \ {x}) \cup {x} \in U
        BY <3>2, <3>4, <3>5
      <3>7. (Q \ {x}) \cup {x} = Q
        BY <3>2
      <3>. QED
        BY <3>6, <3>7
    <2>2. k + 1 \in 0 .. n
      BY <1>1, <1>4
    <2>. QED
      BY <2>1, <2>2
  <1> HIDE DEF T
  <1>5. 0 .. n \subseteq T
    BY <1>1, <1>3, <1>4, InductionTo
  <1>6. n \in T
    BY <1>1, <1>5
  <1>. QED
    BY <1>6 DEF T

\* A function on a part of its domain.
Part(f, Q) == [x \in Q |-> f[x]]

LEMMA PartWith ==
  ASSUME NEW S, IsFiniteSet(S), NEW f \in [S -> Int], NEW Q \in SUBSET S, NEW x \in S \ Q
  PROVE  /\ SetTotal(Part(f, Q \cup {x})) = SetTotal(Part(f, Q)) + f[x]
         /\ SetTotal(Part(f, Q)) \in Int
  <1>1. IsFiniteSet(Q)
    BY FS_Subset
  <1>2. KeyAdded(Q, x, Part(f, Q), Part(f, Q \cup {x})) /\ Part(f, Q \cup {x})[x] = f[x]
    BY <1>1 DEF KeyAdded, Part
  <1>. QED
    BY <1>2, TotalWith

LEMMA PartEmpty ==
  ASSUME NEW f
  PROVE  SetTotal(Part(f, {})) = 0
  <1>1. Part(f, {}) \in [{} -> Int]
    BY DEF Part
  <1>. QED
    BY <1>1, TotalEmpty

LEMMA TotalInt ==
  ASSUME NEW S, IsFiniteSet(S), NEW f \in [S -> Int]
  PROVE  SetTotal(f) \in Int
  BY SetEnumerated, TotalOf

LEMMA PartWhole ==
  ASSUME NEW S, NEW f \in [S -> Int]
  PROVE  Part(f, S) = f
  BY DEF Part

\* Sums of sums.
LEMMA TotalAdded ==
  ASSUME NEW S, IsFiniteSet(S), NEW f \in [S -> Int], NEW g \in [S -> Int],
         NEW h \in [S -> Int], \A x \in S : h[x] = f[x] + g[x]
  PROVE  SetTotal(h) = SetTotal(f) + SetTotal(g)
  <1> DEFINE U == {Q \in SUBSET S :
                     SetTotal(Part(h, Q)) = SetTotal(Part(f, Q)) + SetTotal(Part(g, Q))}
  <1>1. {} \in U
    BY PartEmpty
  <1>2. ASSUME NEW Q \in SUBSET S, Q \in U, NEW x \in S \ Q
        PROVE  Q \cup {x} \in U
    <2>1. /\ SetTotal(Part(f, Q \cup {x})) = SetTotal(Part(f, Q)) + f[x]
          /\ SetTotal(Part(g, Q \cup {x})) = SetTotal(Part(g, Q)) + g[x]
          /\ SetTotal(Part(h, Q \cup {x})) = SetTotal(Part(h, Q)) + h[x]
          /\ SetTotal(Part(f, Q)) \in Int /\ SetTotal(Part(g, Q)) \in Int
      BY PartWith
    <2>2. f[x] \in Int /\ g[x] \in Int /\ h[x] = f[x] + g[x]
      OBVIOUS
    <2>3. SetTotal(Part(h, Q)) = SetTotal(Part(f, Q)) + SetTotal(Part(g, Q))
      BY <1>2
    <2>4. SetTotal(Part(h, Q \cup {x}))
          = SetTotal(Part(f, Q \cup {x})) + SetTotal(Part(g, Q \cup {x}))
      BY <2>1, <2>2, <2>3
    <2>. QED
      BY <2>4
  <1> HIDE DEF U
  <1>3. S \in U
    BY <1>1, <1>2, SubsetInduction
  <1>. QED
    BY <1>3, PartWhole DEF U

LEMMA TotalZero ==
  ASSUME NEW S, IsFiniteSet(S), NEW f \in [S -> Int], \A x \in S : f[x] = 0
  PROVE  SetTotal(f) = 0
  <1> DEFINE U == {Q \in SUBSET S : SetTotal(Part(f, Q)) = 0}
  <1>1. {} \in U
    BY PartEmpty
  <1>2. ASSUME NEW Q \in SUBSET S, Q \in U, NEW x \in S \ Q
        PROVE  Q \cup {x} \in U
    BY <1>2, PartWith
  <1> HIDE DEF U
  <1>3. S \in U
    BY <1>1, <1>2, SubsetInduction
  <1>. QED
    BY <1>3, PartWhole DEF U

\* What is zero elsewhere adds up to the sum of a part.
LEMMA TotalPart ==
  ASSUME NEW S, IsFiniteSet(S), NEW f \in [S -> Int], NEW P \in SUBSET S,
         \A x \in S \ P : f[x] = 0
  PROVE  SetTotal(f) = SetTotal(Part(f, P))
  <1> DEFINE R == S \ P
             U == {Q \in SUBSET R : SetTotal(Part(f, P \cup Q)) = SetTotal(Part(f, P))}
  <1>1. {} \in U
    <2>1. P \cup {} = P
      OBVIOUS
    <2>. QED
      BY <2>1
  <1>2. ASSUME NEW Q \in SUBSET R, Q \in U, NEW x \in R \ Q
        PROVE  Q \cup {x} \in U
    <2>1. P \cup Q \in SUBSET S /\ x \in S \ (P \cup Q)
      OBVIOUS
    <2>2. /\ SetTotal(Part(f, (P \cup Q) \cup {x})) = SetTotal(Part(f, P \cup Q)) + f[x]
          /\ SetTotal(Part(f, P \cup Q)) \in Int
      BY <2>1, PartWith
    <2>3. f[x] = 0 /\ Q \cup {x} \in SUBSET R
      OBVIOUS
    <2>4. SetTotal(Part(f, P \cup Q)) = SetTotal(Part(f, P))
      BY <1>2
    <2> HIDE DEF R, U
    <2>5. SetTotal(Part(f, (P \cup Q) \cup {x})) = SetTotal(Part(f, P))
      BY <2>2, <2>3, <2>4
    <2>6. (P \cup Q) \cup {x} = P \cup (Q \cup {x})
      OBVIOUS
    <2>7. SetTotal(Part(f, P \cup (Q \cup {x}))) = SetTotal(Part(f, P))
      BY <2>5, <2>6, Zenon
    <2>. QED
      BY <2>3, <2>7 DEF U
  <1>3. IsFiniteSet(R)
    BY FS_Subset
  <1> HIDE DEF U
  <1>4. R \in U
    BY <1>1, <1>2, <1>3, SubsetInduction
  <1>5. P \cup R = S
    OBVIOUS
  <1>. QED
    BY <1>4, <1>5, PartWhole DEF U

\* Naturals add up to more than nothing when one of them is.
LEMMA TotalPositive ==
  ASSUME NEW S, IsFiniteSet(S), NEW f \in [S -> Nat]
  PROVE  /\ SetTotal(f) \in Nat
         /\ SetTotal(f) > 0 <=> \E x \in S : f[x] > 0
  <1>1. f \in [S -> Int] /\ SetTotal(f) \in Nat
    BY TotalNatural
  <1>2. ASSUME NEW x \in S, f[x] > 0
        PROVE  SetTotal(f) > 0
    <2> DEFINE R == S \ {x}
               h == Part(f, R)
    <2>1. IsFiniteSet(R) /\ h \in [R -> Nat] /\ x \notin R /\ R \cup {x} = S
      BY FS_Subset DEF Part
    <2>2. SetTotal(h) >= 0 /\ SetTotal(h) \in Int
      BY <2>1, TotalNatural
    <2>3. KeyAdded(R, x, h, f)
      BY <1>1, <2>1 DEF KeyAdded, Part
    <2>4. SetTotal(f) = SetTotal(h) + f[x]
      BY <2>3, TotalWith
    <2>. QED
      BY <1>2, <2>2, <2>4
  <1>3. ASSUME \A x \in S : ~(f[x] > 0)
        PROVE  SetTotal(f) = 0
    BY <1>1, <1>3, TotalZero
  <1>. QED
    BY <1>1, <1>2, <1>3

-----------------------------------------------------------------------------
(* A strict order of a finite set, best first: the first k are k. *)

StrictOrder(before, S) ==
  /\ before \in SUBSET (S \X S)
  /\ \A x \in S : <<x, x>> \notin before
  /\ \A x, y, z \in S : <<x, y>> \in before /\ <<y, z>> \in before => <<x, z>> \in before
  /\ \A x, y \in S : x = y \/ <<x, y>> \in before \/ <<y, x>> \in before

Outranking(before, S, x) == {y \in S : <<y, x>> \in before}
FirstOf(before, S, k) == {x \in S : Cardinality(Outranking(before, S, x)) < k}

\* The numbers of those ahead are 0 .. n - 1, each once.
EachRankOnce(before, S) ==
  /\ \A x \in S : Cardinality(Outranking(before, S, x)) \in 0 .. Cardinality(S) - 1
  /\ \A r \in 0 .. Cardinality(S) - 1 : \E x \in S : Cardinality(Outranking(before, S, x)) = r
  /\ \A x, y \in S : <<x, y>> \in before =>
       Cardinality(Outranking(before, S, x)) < Cardinality(Outranking(before, S, y))
  /\ \A x, y \in S :
       Cardinality(Outranking(before, S, x)) = Cardinality(Outranking(before, S, y)) => x = y

LEMMA RanksOnce ==
  ASSUME NEW S, IsFiniteSet(S), NEW before, StrictOrder(before, S)
  PROVE  EachRankOnce(before, S)
  <1> DEFINE n == Cardinality(S)
             rank == [x \in S |-> Cardinality(Outranking(before, S, x))]
  <1>1. n \in Nat
    BY FS_CardinalityType
  <1>2. ASSUME NEW x \in S
        PROVE  IsFiniteSet(Outranking(before, S, x)) /\ rank[x] \in 0 .. n - 1
    <2>1. Outranking(before, S, x) \in SUBSET (S \ {x})
      BY DEF Outranking, StrictOrder
    <2>2. IsFiniteSet(S \ {x}) /\ Cardinality(S \ {x}) = n - 1
      BY FS_RemoveElement
    <2>3. IsFiniteSet(Outranking(before, S, x)) /\ Cardinality(Outranking(before, S, x)) <= n - 1
      BY <2>1, <2>2, FS_Subset
    <2>4. Cardinality(Outranking(before, S, x)) \in Nat
      BY <2>3, FS_CardinalityType
    <2>. QED
      BY <1>1, <2>3, <2>4
  <1>3. ASSUME NEW x \in S, NEW y \in S, <<x, y>> \in before
        PROVE  rank[x] < rank[y]
    <2>1. Outranking(before, S, x) \in SUBSET Outranking(before, S, y) /\ x \in Outranking(before, S, y)
          /\ x \notin Outranking(before, S, x)
      BY <1>3 DEF Outranking, StrictOrder
    <2>2. /\ rank[x] <= rank[y]
          /\ rank[x] = rank[y] => Outranking(before, S, x) = Outranking(before, S, y)
      BY <1>2, <2>1, FS_Subset
    <2>. QED
      BY <1>2, <2>1, <2>2
  <1>4. \A x, y \in S : rank[x] = rank[y] => x = y
    <2>1. SUFFICES ASSUME NEW x \in S, NEW y \in S, rank[x] = rank[y], x # y
                   PROVE  FALSE
      OBVIOUS
    <2>2. <<x, y>> \in before \/ <<y, x>> \in before
      BY <2>1 DEF StrictOrder
    <2>. QED
      BY <1>1, <1>2, <1>3, <2>1, <2>2
  <1>5. rank \in Injection(S, 0 .. n - 1)
    <2>1. rank \in [S -> 0 .. n - 1]
      BY <1>2
    <2>. QED
      BY <1>4, <2>1 DEF Injection, IsInjective
  <1>6. IsFiniteSet(0 .. n - 1) /\ Cardinality(0 .. n - 1) = n
    <2>1. 0 \in Int /\ n - 1 \in Int
      BY <1>1
    <2>2. Cardinality(0 .. n - 1) = IF 0 > n - 1 THEN 0 ELSE (n - 1) - 0 + 1
      BY <2>1, FS_Interval
    <2>. QED
      BY <1>1, <2>1, <2>2, FS_Interval
  <1>7. rank \in Surjection(S, 0 .. n - 1)
    BY <1>5, <1>6, FS_Injection
  <1>8. \A r \in 0 .. n - 1 : \E x \in S : rank[x] = r
    BY <1>7 DEF Surjection
  <1>. QED
    BY <1>2, <1>3, <1>4, <1>8 DEF EachRankOnce

LEMMA Ranking ==
  ASSUME NEW S, IsFiniteSet(S), NEW before, StrictOrder(before, S),
         NEW k \in 0 .. Cardinality(S)
  PROVE  Cardinality(FirstOf(before, S, k)) = k
  <1> DEFINE n == Cardinality(S)
             rank == [x \in S |-> Cardinality(Outranking(before, S, x))]
             first == FirstOf(before, S, k)
             top == [x \in first |-> rank[x]]
  <1>1. n \in Nat
    BY FS_CardinalityType
  <1>2. EachRankOnce(before, S) /\ \A x \in S : rank[x] \in 0 .. n - 1
    BY RanksOnce DEF EachRankOnce
  <1>3. \A r \in 0 .. n - 1 : \E x \in S : rank[x] = r
    <2>1. \A r \in 0 .. n - 1 : \E x \in S : Cardinality(Outranking(before, S, x)) = r
      BY <1>2 DEF EachRankOnce
    <2>. QED
      BY <2>1
  <1>4. \A x, y \in S : rank[x] = rank[y] => x = y
    <2>1. \A x, y \in S :
            Cardinality(Outranking(before, S, x)) = Cardinality(Outranking(before, S, y)) => x = y
      BY <1>2 DEF EachRankOnce
    <2>. QED
      BY <2>1
  <1>5. \A x \in S : x \in first <=> rank[x] < k
    BY DEF FirstOf
  <1>6. IsFiniteSet(0 .. k - 1) /\ Cardinality(0 .. k - 1) = k
    <2>1. 0 \in Int /\ k - 1 \in Int
      BY <1>1
    <2>2. Cardinality(0 .. k - 1) = IF 0 > k - 1 THEN 0 ELSE (k - 1) - 0 + 1
      BY <2>1, FS_Interval
    <2>. QED
      BY <1>1, <2>1, <2>2, FS_Interval
  <1>7. first \in SUBSET S
    BY DEF FirstOf
  <1> HIDE DEF rank, first, n
  <1>8. top \in [first -> 0 .. k - 1]
    BY <1>1, <1>2, <1>5, <1>7
  <1>9. \A x, y \in first : top[x] = top[y] => x = y
    BY <1>4, <1>7
  <1>10. \A r \in 0 .. k - 1 : \E x \in first : top[x] = r
    <2>1. ASSUME NEW r \in 0 .. k - 1
          PROVE  \E x \in first : top[x] = r
      <3>1. r \in 0 .. n - 1 /\ r < k
        BY <1>1 DEF n
      <3>2. PICK x \in S : rank[x] = r
        BY <1>3, <3>1
      <3>. QED
        BY <1>5, <3>1, <3>2
    <2>. QED
      BY <2>1
  <1>11. top \in Injection(first, 0 .. k - 1) /\ top \in Surjection(first, 0 .. k - 1)
    BY <1>8, <1>9, <1>10 DEF Injection, Surjection, IsInjective
  <1>12. Cardinality(first) = k
    BY <1>6, <1>11, FS_Injection
  <1>. QED
    BY <1>12 DEF first

\* A sequence of S in which before says what comes first.
InRankOrder(s, before, S) ==
  /\ s \in Seq(S) /\ Len(s) = Cardinality(S)
  /\ \A x \in S : \E k \in 1 .. Len(s) : s[k] = x
  /\ \A i, j \in 1 .. Len(s) : i < j => <<s[i], s[j]>> \in before

\* Whoever has k - 1 ahead comes k-th.
RankedBy(s, before, S) ==
  s = [k \in 1 .. Cardinality(S) |->
         CHOOSE x \in S : Cardinality(Outranking(before, S, x)) = k - 1]

LEMMA RankedInOrder ==
  ASSUME NEW S, IsFiniteSet(S), NEW before, StrictOrder(before, S), NEW s, RankedBy(s, before, S)
  PROVE  InRankOrder(s, before, S)
  <1> DEFINE n == Cardinality(S)
             rank(x) == Cardinality(Outranking(before, S, x))
  <1>1. n \in Nat
    BY FS_CardinalityType
  <1>2. EachRankOnce(before, S)
    BY RanksOnce
  <1>3. ASSUME NEW k \in 1 .. n
        PROVE  s[k] \in S /\ rank(s[k]) = k - 1
    <2>1. k - 1 \in 0 .. n - 1
      BY <1>1
    <2>2. \E x \in S : rank(x) = k - 1
      BY <1>2, <2>1 DEF EachRankOnce
    <2>3. s[k] = CHOOSE x \in S : rank(x) = k - 1
      BY DEF RankedBy
    <2> HIDE DEF rank, n
    <2>. QED
      BY <2>2, <2>3, Zenon
  <1>4. DOMAIN s = 1 .. n /\ s = [k \in 1 .. n |-> s[k]]
    BY DEF RankedBy
  <1> HIDE DEF rank
  <1>5. s \in Seq(S) /\ Len(s) = n
    <2> HIDE DEF n
    <2>2. s \in [1 .. n -> S]
      BY <1>3, <1>4
    <2>. QED
      BY <1>1, <2>2
  <1> HIDE DEF n
  <1>6. ASSUME NEW x \in S
        PROVE  \E k \in 1 .. n : s[k] = x
    <2>1. rank(x) \in 0 .. n - 1
      BY <1>2 DEF EachRankOnce, rank, n
    <2>2. rank(x) + 1 \in 1 .. n /\ (rank(x) + 1) - 1 = rank(x)
      BY <1>1, <2>1
    <2>3. s[rank(x) + 1] \in S /\ rank(s[rank(x) + 1]) = rank(x)
      BY <1>3, <2>2
    <2>4. s[rank(x) + 1] = x
      BY <1>2, <2>3 DEF EachRankOnce, rank
    <2>. QED
      BY <2>2, <2>4
  <1>7. ASSUME NEW i \in 1 .. n, NEW j \in 1 .. n, i < j
        PROVE  <<s[i], s[j]>> \in before
    <2>1. s[i] \in S /\ s[j] \in S /\ rank(s[i]) = i - 1 /\ rank(s[j]) = j - 1
      BY <1>3
    <2>2. ~(<<s[j], s[i]>> \in before)
      <3>1. <<s[j], s[i]>> \in before => rank(s[j]) < rank(s[i])
        BY <1>2, <2>1 DEF EachRankOnce, rank
      <3>. QED
        BY <1>1, <1>7, <2>1, <3>1
    <2>3. s[i] # s[j]
      BY <1>1, <1>7, <2>1
    <2>. QED
      BY <2>1, <2>2, <2>3 DEF StrictOrder
  <1>. QED
    BY <1>5, <1>6, <1>7 DEF InRankOrder, n
=============================================================================

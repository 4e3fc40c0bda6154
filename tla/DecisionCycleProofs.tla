------------------------- MODULE DecisionCycleProofs -------------------------
(***************************************************************************)
(* Proofs about DecisionCycle for every set of strategies, symbols, books  *)
(* and markets: of its invariants ReversalNotMasked, LimitsTogether,       *)
(* StrongestWin and TrailComplete.                                         *)
(*                                                                         *)
(* First come the folds the cycle is built from, each as a run from its    *)
(* base to its result; then what the arbitrator's ranking and selection,   *)
(* the sizing of signals and the grading of intents give for any input;    *)
(* then an inductive invariant for each property:                          *)
(*   MemoryInv  what a look leaves in the memory (ReversalNotMasked);      *)
(*   CycleType  the types, and the shape of the queue;                     *)
(*   LimitsInv  the book an accepted entry is graded against weighs at     *)
(*              least as much as the book with the grants, in stop risk,   *)
(*              positions and units alike (LimitsTogether);                *)
(*   WinsInv    what was opened and what is accepted share no leg, and     *)
(*              each rejected entry lost to one of them (StrongestWin);    *)
(*   TrailInv   what the memory has used up is in the trail or on its way  *)
(*              there, and a close before its entry (TrailComplete).       *)
(***************************************************************************)
EXTENDS DecisionCycle, FoldTheorems, TLAPS

-----------------------------------------------------------------------------
(* The folds the cycle is built from, each as a run from its base.         *)

\* Among keeps the elements of S, one element of the sequence after another.
LEMMA AmongIsFiltered == \A s, S : Among(s, S) = Filtered(s, S)
  BY DEF Among, Filtered

LEMMA AmongFacts ==
  ASSUME NEW X, NEW s \in Seq(X), NEW S
  PROVE  /\ Among(s, S) \in Seq(X)
         /\ ToSet(Among(s, S)) = ToSet(s) \cap S
         /\ \E g : Indexes(g, Among(s, S), s, S, Len(s))
  BY FilterFacts, AmongIsFiltered

\* What _to_exposures puts into a book.
Exposures == [symbol: DOMAIN Base, units: Int, stop: Nat]

\* A turn of the arbitrator's loop over candidates of C.
Reasons == {"REJECTED_REDUNDANT_FACTOR_EXPOSURE", "REJECTED_TRIANGLE_CAP"}
Judgements(C) ==
  [claimed: SUBSET UNION {Claims(c) : c \in C}, book: Seq(Exposures),
   accepted: Seq([candidate: C, book_before: Seq(Exposures)]),
   rejected: Seq([candidate: C, reason: Reasons])]

\* A turn of the loop gives a state of the loop.
LEMMA JudgeType ==
  ASSUME NEW C, NEW c \in C, c.exposure \in Exposures, NEW state \in Judgements(C), NEW known
  PROVE  Judge(state, c, known) \in Judgements(C)
  <1> DEFINE Rejection == [candidate: C, reason: Reasons]
             Acceptance == [candidate: C, book_before: Seq(Exposures)]
  <1>1. /\ state.rejected \in Seq(Rejection) /\ state.accepted \in Seq(Acceptance)
        /\ state.book \in Seq(Exposures)
        /\ state.claimed \in SUBSET UNION {Claims(d) : d \in C}
    BY DEF Judgements
  <1>2. ASSUME NEW reason \in Reasons
        PROVE  [state EXCEPT !.rejected = Append(@, [candidate |-> c, reason |-> reason])]
                 \in Judgements(C)
    <2>1. Append(state.rejected, [candidate |-> c, reason |-> reason]) \in Seq(Rejection)
      BY <1>1
    <2>. QED
      BY <2>1 DEF Judgements
  <1>3. CASE Claims(c) \cap state.claimed # {}
    <2>1. Judge(state, c, known) =
            [state EXCEPT !.rejected =
               Append(@, [candidate |-> c, reason |-> "REJECTED_REDUNDANT_FACTOR_EXPOSURE"])]
      BY <1>3 DEF Judge
    <2>. QED
      BY <1>2, <2>1 DEF Reasons
  <1>4. CASE Claims(c) \cap state.claimed = {} /\ Capped(c, state.book, known)
    <2>1. Judge(state, c, known) =
            [state EXCEPT !.rejected =
               Append(@, [candidate |-> c, reason |-> "REJECTED_TRIANGLE_CAP"])]
      BY <1>4 DEF Judge
    <2>. QED
      BY <1>2, <2>1 DEF Reasons
  <1>5. CASE Claims(c) \cap state.claimed = {} /\ ~Capped(c, state.book, known)
    <2>1. Judge(state, c, known) =
            [claimed |-> state.claimed \cup Claims(c),
             book |-> Append(state.book, c.exposure),
             accepted |-> Append(state.accepted,
                                 [candidate |-> c, book_before |-> state.book]),
             rejected |-> state.rejected]
      BY <1>5 DEF Judge
    <2>2. state.claimed \cup Claims(c) \in SUBSET UNION {Claims(d) : d \in C}
      BY <1>1
    <2>3. Append(state.book, c.exposure) \in Seq(Exposures)
      BY <1>1
    <2>4. Append(state.accepted, [candidate |-> c, book_before |-> state.book])
            \in Seq(Acceptance)
      BY <1>1
    <2>. QED
      BY <1>1, <2>1, <2>2, <2>3, <2>4 DEF Judgements
  <1>. QED
    BY <1>3, <1>4, <1>5

JudgeAll(start, ranked, known) ==
  FoldLeft(LAMBDA state, c : Judge(state, c, known), start, ranked)

\* The loop of the arbitrator, turn by turn.
Judges(run, C, start, ranked, known) ==
  /\ run \in [0 .. Len(ranked) -> Judgements(C)]
  /\ run[0] = start
  /\ \A k \in 1 .. Len(ranked) : run[k] = Judge(run[k - 1], ranked[k], known)
  /\ run[Len(ranked)] = JudgeAll(start, ranked, known)

\* The loop is such a run.
LEMMA JudgeRun ==
  ASSUME NEW C, \A c \in C : c.exposure \in Exposures, NEW start \in Judgements(C),
         NEW ranked \in Seq(C), NEW known
  PROVE  \E run : Judges(run, C, start, ranked, known)
  <1> DEFINE n == Len(ranked)
             A == Judgements(C)
             op == [p \in A \X (1 .. n) |-> Judge(p[1], ranked[p[2]], known)]
             Iter(f) == f = [t \in SUBSET DOMAIN ranked |->
                               IF t = {} THEN start
                               ELSE Judge(f[t \ {Max(t)}], ranked[Max(t)], known)]
             it == CHOOSE f : Iter(f)
  <1>1. n \in Nat /\ DOMAIN ranked = 1 .. n
    OBVIOUS
  <1>2. op \in [A \X (1 .. n) -> A] /\ start \in A
    <2>1. ASSUME NEW p \in A \X (1 .. n)
          PROVE  Judge(p[1], ranked[p[2]], known) \in A
      <3>1. p[1] \in A /\ p[2] \in 1 .. n /\ ranked[p[2]] \in C
        BY <1>1
      <3> HIDE DEF n, A
      <3>. QED
        BY <3>1, JudgeType DEF A
    <2>. QED
      BY <2>1
  <1>4. JudgeAll(start, ranked, known) = it[1 .. n]
    BY <1>1, Zenon DEF JudgeAll, FoldLeft, MapThenFoldSet
  <1> HIDE DEF n, it
  <1>3. ASSUME NEW a \in A, NEW i \in 1 .. n
        PROVE  op[<<a, i>>] = Judge(a, ranked[i], known)
    <2>1. <<a, i>> \in A \X (1 .. n)
      OBVIOUS
    <2>. QED
      BY <2>1
  <1> HIDE DEF op, A
  <1>5. ASSUME NEW t \in SUBSET (1 .. n), t # {}
        PROVE  Max(t) \in 1 .. n /\ t \ {Max(t)} \in SUBSET (1 .. n)
    BY <1>1, <1>5, MaxUpTo
  <1>6. Iter(it)
    <2>1. PICK f : Recurses(f, A, start, op, n)
      BY <1>1, <1>2, FoldExists
    <2>2. ASSUME NEW t \in SUBSET (1 .. n)
          PROVE  f[t] = IF t = {} THEN start ELSE Judge(f[t \ {Max(t)}], ranked[Max(t)], known)
      <3>1. CASE t = {}
        BY <2>1, <3>1 DEF Recurses
      <3>2. CASE t # {}
        <4>1. f[t \ {Max(t)}] \in A /\ f[t] = op[<<f[t \ {Max(t)}], Max(t)>>]
          BY <2>1, <1>5, <3>2 DEF Recurses
        <4>. QED
          BY <3>2, <4>1, <1>3, <1>5
      <3>. QED
        BY <3>1, <3>2
    <2>3. f = [t \in SUBSET (1 .. n) |-> f[t]]
      BY <2>1 DEF Recurses
    <2>4. Iter(f)
      BY <1>1, <2>2, <2>3
    <2> HIDE DEF Iter
    <2>. QED
      BY <2>4 DEF it
  <1>7. it[{}] = start
    BY <1>6
  <1>8. \A t \in SUBSET (1 .. n) :
          t # {} /\ it[t \ {Max(t)}] \in A => it[t] = op[<<it[t \ {Max(t)}], Max(t)>>]
    BY <1>1, <1>3, <1>5, <1>6
  <1>9. Follows(it, A, start, op, n)
    BY <1>7, <1>8 DEF Follows
  <1>10. PICK run : Runs(run, A, start, op, n) /\ run[n] = it[1 .. n]
    <2>1. HasRun(it, A, start, op, n)
      BY <1>1, <1>2, <1>9, FoldRun
    <2>. QED
      BY <2>1 DEF HasRun
  <1>11. ASSUME NEW k \in 1 .. n
         PROVE  run[k] = Judge(run[k - 1], ranked[k], known)
    <2>1. k - 1 \in 0 .. n
      BY <1>1
    <2>. QED
      BY <1>10, <1>3, <2>1 DEF Runs
  <1>. QED
    BY <1>4, <1>10, <1>11 DEF n, A, Runs, Judges

\* An element inserted at i moves those from i on.
LEMMA InsertAtFacts ==
  ASSUME NEW C, NEW s \in Seq(C), NEW c \in C, NEW i \in 1 .. Len(s) + 1
  PROVE  /\ InsertAt(s, i, c) \in Seq(C)
         /\ Len(InsertAt(s, i, c)) = Len(s) + 1
         /\ \A j \in 1 .. Len(s) + 1 :
              InsertAt(s, i, c)[j] = IF j < i THEN s[j] ELSE IF j = i THEN c ELSE s[j - 1]
  <1> DEFINE front == SubSeq(s, 1, i - 1)
             back == SubSeq(s, i, Len(s))
  <1>0. Len(s) \in Nat /\ i \in Nat /\ \A j \in 1 .. Len(s) : s[j] \in C
    OBVIOUS
  <1>1. /\ front \in Seq(C) /\ Len(front) = i - 1
        /\ \A j \in 1 .. i - 1 : front[j] = s[j]
    BY <1>0
  <1>2. /\ back \in Seq(C) /\ Len(back) = Len(s) - i + 1
        /\ \A j \in 1 .. Len(s) - i + 1 : back[j] = s[i + j - 1]
    BY <1>0
  <1>3. InsertAt(s, i, c) = (front \o <<c>>) \o back
    BY DEF InsertAt
  <1> HIDE DEF front, back
  <1>4. /\ front \o <<c>> \in Seq(C) /\ Len(front \o <<c>>) = i
        /\ \A j \in 1 .. i : (front \o <<c>>)[j] = IF j < i THEN s[j] ELSE c
    BY <1>0, <1>1
  <1> DEFINE head == front \o <<c>>
  <1> HIDE DEF head
  <1>5. /\ head \in Seq(C) /\ Len(head) = i
        /\ \A j \in 1 .. i : head[j] = IF j < i THEN s[j] ELSE c
    BY <1>4 DEF head
  <1>6. head \o back \in Seq(C) /\ Len(head \o back) = Len(s) + 1
    <2>1. Len(head \o back) = Len(head) + Len(back)
      BY <1>2, <1>5
    <2>2. head \o back \in Seq(C)
      BY <1>2, <1>5
    <2>3. Len(head) + Len(back) = Len(s) + 1
      BY <1>0, <1>2, <1>5
    <2>. QED
      BY <2>1, <2>2, <2>3
  <1>7. ASSUME NEW j \in 1 .. Len(s) + 1
        PROVE  (head \o back)[j] = IF j < i THEN s[j] ELSE IF j = i THEN c ELSE s[j - 1]
    <2>1. CASE j <= i
      <3>1. (head \o back)[j] = head[j]
        BY <1>0, <1>2, <1>5, <2>1
      <3>. QED
        BY <1>0, <1>5, <2>1, <3>1
    <2>2. CASE j > i
      <3>1. (head \o back)[j] = back[j - i]
        BY <1>0, <1>2, <1>5, <2>2
      <3>2. j - i \in 1 .. Len(s) - i + 1 /\ i + (j - i) - 1 = j - 1
        BY <1>0, <2>2
      <3>3. back[j - i] = s[j - 1]
        BY <1>2, <3>2
      <3>. QED
        BY <1>0, <2>2, <3>1, <3>3
    <2>3. j <= i \/ j > i
      BY <1>0
    <2>. QED
      BY <2>1, <2>2, <2>3, Zenon
  <1>. QED
    BY <1>3, <1>6, <1>7 DEF head

\* The place a candidate takes in a ranking.
PlaceIn(ranked, c, book) ==
  Cardinality({i \in DOMAIN ranked : Before(ranked[i], c, book)}) + 1

\* Where a candidate is inserted.
LEMMA PlaceFacts ==
  ASSUME NEW C, NEW ranked \in Seq(C), NEW c, NEW book
  PROVE  PlaceIn(ranked, c, book) \in 1 .. Len(ranked) + 1
  <1> DEFINE ahead == {i \in DOMAIN ranked : Before(ranked[i], c, book)}
  <1>1. /\ IsFiniteSet(1 .. Len(ranked)) /\ Cardinality(1 .. Len(ranked)) = Len(ranked)
        /\ Len(ranked) \in Nat
    <2>1. PICK len : len = Len(ranked)
      OBVIOUS
    <2>2. len \in Nat /\ 1 \in Int /\ len \in Int
      BY <2>1
    <2>3. IsFiniteSet(1 .. len) /\ Cardinality(1 .. len) = len
      BY <2>2, FS_Interval
    <2>. QED
      BY <2>1, <2>2, <2>3
  <1>2. ahead \subseteq 1 .. Len(ranked)
    OBVIOUS
  <1>3. IsFiniteSet(ahead) /\ Cardinality(ahead) <= Len(ranked) /\ Cardinality(ahead) \in Nat
    BY <1>1, <1>2, FS_Subset, FS_CardinalityType
  <1>. QED
    BY <1>1, <1>3 DEF PlaceIn

\* Insert puts the candidate there and moves those behind it.
LEMMA InsertFacts ==
  ASSUME NEW C, NEW ranked \in Seq(C), NEW c \in C, NEW book
  PROVE  /\ Insert(ranked, c, book) \in Seq(C)
         /\ Len(Insert(ranked, c, book)) = Len(ranked) + 1
         /\ \A j \in 1 .. Len(ranked) + 1 :
              Insert(ranked, c, book)[j] =
                IF j < PlaceIn(ranked, c, book) THEN ranked[j]
                ELSE IF j = PlaceIn(ranked, c, book) THEN c ELSE ranked[j - 1]
  <1> DEFINE place == PlaceIn(ranked, c, book)
  <1>1. place \in 1 .. Len(ranked) + 1
    BY PlaceFacts
  <1>2. Insert(ranked, c, book) = InsertAt(ranked, place, c)
    BY DEF Insert, PlaceIn
  <1> HIDE DEF place
  <1>3. /\ InsertAt(ranked, place, c) \in Seq(C)
        /\ Len(InsertAt(ranked, place, c)) = Len(ranked) + 1
        /\ \A j \in 1 .. Len(ranked) + 1 :
              InsertAt(ranked, place, c)[j] =
                IF j < place THEN ranked[j] ELSE IF j = place THEN c ELSE ranked[j - 1]
    BY <1>1, InsertAtFacts
  <1>. QED
    BY <1>2, <1>3 DEF place

\* The ranking of the candidates, one insertion after another.
Ranks(run, C, candidates, book) ==
  /\ run \in [0 .. Len(candidates) -> Seq(C)]
  /\ run[0] = <<>>
  /\ \A k \in 1 .. Len(candidates) : run[k] = IF Valid(candidates[k]) THEN Insert(run[k - 1], candidates[k], book) ELSE run[k - 1]
  /\ run[Len(candidates)] = Ranked(candidates, book)

\* Ranked inserts one candidate after another.
LEMMA RankRun ==
  ASSUME NEW C, NEW candidates \in Seq(C), NEW book
  PROVE  \E run : Ranks(run, C, candidates, book)
  <1> DEFINE n == Len(candidates)
             A == Seq(C)
             op == [p \in A \X (1 .. n) |-> IF Valid(candidates[p[2]]) THEN Insert(p[1], candidates[p[2]], book) ELSE p[1]]
             Iter(f) == f = [t \in SUBSET DOMAIN candidates |->
                               IF t = {} THEN <<>>
                               ELSE IF Valid(candidates[Max(t)]) THEN Insert(f[t \ {Max(t)}], candidates[Max(t)], book) ELSE f[t \ {Max(t)}]]
             it == CHOOSE f : Iter(f)
  <1>1. n \in Nat /\ DOMAIN candidates = 1 .. n
    OBVIOUS
  <1>2. op \in [A \X (1 .. n) -> A] /\ <<>> \in A
    <2>1. ASSUME NEW p \in A \X (1 .. n)
          PROVE  (IF Valid(candidates[p[2]]) THEN Insert(p[1], candidates[p[2]], book)
                  ELSE p[1]) \in A
      <3>1. p[1] \in A /\ p[2] \in 1 .. n /\ candidates[p[2]] \in C
        BY <1>1
      <3>. QED
        BY <3>1, InsertFacts
    <2>. QED
      BY <2>1
  <1>4. Ranked(candidates, book) = it[1 .. n]
    BY <1>1, Zenon DEF Ranked, FoldLeft, MapThenFoldSet
  <1> HIDE DEF n, it
  <1>3. ASSUME NEW a \in A, NEW i \in 1 .. n
        PROVE  op[<<a, i>>] = IF Valid(candidates[i]) THEN Insert(a, candidates[i], book) ELSE a
    <2>1. <<a, i>> \in A \X (1 .. n)
      OBVIOUS
    <2>. QED
      BY <2>1
  <1> HIDE DEF op, A
  <1>5. ASSUME NEW t \in SUBSET (1 .. n), t # {}
        PROVE  Max(t) \in 1 .. n /\ t \ {Max(t)} \in SUBSET (1 .. n)
    BY <1>1, <1>5, MaxUpTo
  <1>6. Iter(it)
    <2>1. PICK f : Recurses(f, A, <<>>, op, n)
      BY <1>1, <1>2, FoldExists
    <2>2. ASSUME NEW t \in SUBSET (1 .. n)
          PROVE  f[t] = IF t = {} THEN <<>> ELSE IF Valid(candidates[Max(t)]) THEN Insert(f[t \ {Max(t)}], candidates[Max(t)], book) ELSE f[t \ {Max(t)}]
      <3>1. CASE t = {}
        BY <2>1, <3>1 DEF Recurses
      <3>2. CASE t # {}
        <4>1. f[t \ {Max(t)}] \in A /\ f[t] = op[<<f[t \ {Max(t)}], Max(t)>>]
          BY <2>1, <1>5, <3>2 DEF Recurses
        <4>. QED
          BY <3>2, <4>1, <1>3, <1>5
      <3>. QED
        BY <3>1, <3>2
    <2>3. f = [t \in SUBSET (1 .. n) |-> f[t]]
      BY <2>1 DEF Recurses
    <2>4. Iter(f)
      BY <1>1, <2>2, <2>3
    <2> HIDE DEF Iter
    <2>. QED
      BY <2>4 DEF it
  <1>7. it[{}] = <<>>
    BY <1>6
  <1>8. \A t \in SUBSET (1 .. n) :
          t # {} /\ it[t \ {Max(t)}] \in A => it[t] = op[<<it[t \ {Max(t)}], Max(t)>>]
    BY <1>1, <1>3, <1>5, <1>6
  <1>9. Follows(it, A, <<>>, op, n)
    BY <1>7, <1>8 DEF Follows
  <1>10. PICK run : Runs(run, A, <<>>, op, n) /\ run[n] = it[1 .. n]
    <2>1. HasRun(it, A, <<>>, op, n)
      BY <1>1, <1>2, <1>9, FoldRun
    <2>. QED
      BY <2>1 DEF HasRun
  <1>11. ASSUME NEW k \in 1 .. n
         PROVE  run[k] = IF Valid(candidates[k]) THEN Insert(run[k - 1], candidates[k], book) ELSE run[k - 1]
    <2>1. k - 1 \in 0 .. n
      BY <1>1
    <2>. QED
      BY <1>10, <1>3, <2>1 DEF Runs
  <1>. QED
    BY <1>4, <1>10, <1>11 DEF n, A, Runs, Ranks

-----------------------------------------------------------------------------
(* The ranking: Before is a strict order in which two candidates of        *)
(* different strategy or symbol are never tied, and insertion sorts by it. *)

Rankable(c) ==
  c.value \in Int /\ c.strategy \in ToSet(Strategies) /\ c.symbol \in ToSet(Symbols)

\* A priority is a number.
LEMMA PriorityType ==
  ASSUME NEW c, Rankable(c), NEW book
  PROVE  Priority(c, book) \in Int
  <1> DEFINE legs == Legs(c.symbol, c.direction)
             overlap == legs \cap BookLegs(book)
  <1>1. PICK l, m : l = <<Base[c.symbol], c.direction>>
                    /\ m = <<Quote[c.symbol], Opposite(c.direction)>>
    OBVIOUS
  <1>2. IsFiniteSet(legs)
    <2>1. legs = ({} \cup {l}) \cup {m}
      BY <1>1 DEF Legs
    <2>2. IsFiniteSet({} \cup {l})
      BY FS_EmptySet, FS_AddElement
    <2>. QED
      BY <2>1, <2>2, FS_AddElement
  <1>3. Cardinality(overlap) \in Nat
    BY <1>2, FS_Subset, FS_CardinalityType
  <1> HIDE DEF overlap, legs
  <1>4. PICK n : n = Cardinality(overlap)
    OBVIOUS
  <1>5. OverlapPenalty * n \in Int
    BY <1>3, <1>4, ArbitrationAssumption
  <1>. QED
    BY <1>4, <1>5 DEF Priority, Rankable, overlap, legs

\* The place of an element in a list without repetitions.
LEMMA PositionFacts ==
  ASSUME NEW S, NEW s \in Seq(S), NEW x \in ToSet(s)
  PROVE  Position(s, x) \in Nat /\ Position(s, x) \in DOMAIN s /\ s[Position(s, x)] = x
  <1>1. \E i \in DOMAIN s : s[i] = x
    BY DEF ToSet
  <1>2. Position(s, x) \in DOMAIN s /\ s[Position(s, x)] = x
    BY <1>1 DEF Position
  <1>. QED
    BY <1>2

\* Before is a strict total order of candidates of different strategies or symbols.
LEMMA BeforeIsOrder ==
  ASSUME NEW c, NEW d, NEW book, Rankable(c), Rankable(d)
  PROVE  /\ ~(Before(c, d, book) /\ Before(d, c, book))
         /\ Before(c, d, book) \/ Before(d, c, book)
            \/ (c.strategy = d.strategy /\ c.symbol = d.symbol)
         /\ \A e : Rankable(e) /\ Before(c, d, book) /\ Before(d, e, book) => Before(c, e, book)
  <1> DEFINE p(x) == Priority(x, book)
             st(x) == Position(Strategies, x.strategy)
             sy(x) == Position(Symbols, x.symbol)
  <1>1. ASSUME NEW x, Rankable(x)
        PROVE  /\ p(x) \in Int /\ st(x) \in Nat /\ sy(x) \in Nat
               /\ Strategies[st(x)] = x.strategy /\ Symbols[sy(x)] = x.symbol
    BY <1>1, PriorityType, PositionFacts, ArbitrationAssumption DEF Rankable
  <1>2. ASSUME NEW x, NEW y
        PROVE  Before(x, y, book) <=>
                 \/ p(x) > p(y)
                 \/ p(x) = p(y) /\ (st(x) < st(y) \/ (x.strategy = y.strategy /\ sy(x) < sy(y)))
    BY DEF Before
  <1>3. ASSUME NEW x, NEW y, x.strategy = y.strategy
        PROVE  st(x) = st(y)
    BY <1>3
  <1> HIDE DEF p, st, sy
  <1>4. ~(Before(c, d, book) /\ Before(d, c, book))
    BY <1>1, <1>2, <1>3
  <1>5. Before(c, d, book) \/ Before(d, c, book)
            \/ (c.strategy = d.strategy /\ c.symbol = d.symbol)
    BY <1>1, <1>2
  <1>6. ASSUME NEW e, Rankable(e), Before(c, d, book), Before(d, e, book)
        PROVE  Before(c, e, book)
    <2>1. /\ p(c) \in Int /\ p(d) \in Int /\ p(e) \in Int
          /\ st(c) \in Nat /\ st(d) \in Nat /\ st(e) \in Nat
          /\ sy(c) \in Nat /\ sy(d) \in Nat /\ sy(e) \in Nat
      BY <1>1, <1>6
    <2>2. /\ c.strategy = d.strategy => st(c) = st(d)
          /\ d.strategy = e.strategy => st(d) = st(e)
      BY <1>3
    <2>3. /\ p(c) > p(d) \/ (p(c) = p(d) /\ (st(c) < st(d) \/ (c.strategy = d.strategy /\ sy(c) < sy(d))))
          /\ p(d) > p(e) \/ (p(d) = p(e) /\ (st(d) < st(e) \/ (d.strategy = e.strategy /\ sy(d) < sy(e))))
      BY <1>2, <1>6
    <2>4. p(c) > p(e) \/ (p(c) = p(e) /\ (st(c) < st(e) \/ (c.strategy = e.strategy /\ sy(c) < sy(e))))
      BY <2>1, <2>2, <2>3
    <2>. QED
      BY <1>2, <2>4
  <1>. QED
    BY <1>4, <1>5, <1>6

\* A set of numbers from 1 that holds every smaller one is an interval.
LEMMA PrefixSet ==
  ASSUME NEW n \in Nat, NEW S \in SUBSET (1 .. n),
         \A i \in S : \A j \in 1 .. n : j < i => j \in S
  PROVE  Cardinality(S) \in 0 .. n /\ S = 1 .. Cardinality(S)
  <1>1. CASE S = {}
    <2>1. Cardinality(S) = 0
      BY <1>1, FS_EmptySet
    <2>. QED
      BY <1>1, <2>1
  <1>2. CASE S # {}
    <2>1. PICK m : m = Max(S)
      OBVIOUS
    <2>2. m \in S /\ \A k \in S : k <= m
      BY <1>2, <2>1, MaxUpTo
    <2>3. m \in 1 .. n /\ S = 1 .. m
      <3>1. m \in 1 .. n /\ m \in S
        BY <2>2
      <3>2. ASSUME NEW k \in S
            PROVE  k \in 1 .. m
        BY <2>2
      <3>3. ASSUME NEW k \in 1 .. m
            PROVE  k \in S
        <4>1. k \in 1 .. n /\ (k < m \/ k = m)
          BY <3>1
        <4>. QED
          BY <3>1, <4>1
      <3>. QED
        BY <3>1, <3>2, <3>3
    <2>4. Cardinality(1 .. m) = m
      BY <2>3, FS_Interval
    <2>. QED
      BY <2>3, <2>4
  <1>. QED
    BY <1>1, <1>2

\* The first k candidates, sorted.
Sorts(r, candidates, k, book) ==
  /\ Len(r) = k
  /\ ToSet(r) = {candidates[i] : i \in 1 .. k}
  /\ \A i, j \in 1 .. k : i < j => Before(r[i], r[j], book)

\* An insertion keeps a ranking sorted.
LEMMA InsertSorts ==
  ASSUME NEW C, \A c \in C : Rankable(c), NEW candidates \in Seq(C), NEW book,
         NEW k \in 0 .. Len(candidates), k < Len(candidates),
         \A i, j \in DOMAIN candidates : i # j =>
           <<candidates[i].strategy, candidates[i].symbol>>
             # <<candidates[j].strategy, candidates[j].symbol>>,
         NEW r \in Seq(C), Sorts(r, candidates, k, book)
  PROVE  Sorts(Insert(r, candidates[k + 1], book), candidates, k + 1, book)
  <1> DEFINE c == candidates[k + 1]
             ahead == {i \in 1 .. k : Before(r[i], c, book)}
             place == PlaceIn(r, c, book)
             longer == Insert(r, c, book)
  <1>1. /\ k \in Nat /\ k + 1 \in DOMAIN candidates /\ DOMAIN r = 1 .. k
        /\ 1 .. k \subseteq DOMAIN candidates /\ \A i \in 1 .. k : i # k + 1
    BY DEF Sorts
  <1>2. c \in C /\ \A i \in 1 .. k : r[i] \in C
    BY <1>1
  <1>3. ASSUME NEW i \in 1 .. k
        PROVE  Before(r[i], c, book) \/ Before(c, r[i], book)
    <2>1. PICK m \in 1 .. k : r[i] = candidates[m]
      <3>1. r[i] \in ToSet(r)
        BY <1>1 DEF ToSet
      <3>. QED
        BY <3>1 DEF Sorts
    <2>2. <<candidates[m].strategy, candidates[m].symbol>>
            # <<candidates[k + 1].strategy, candidates[k + 1].symbol>>
      BY <1>1, <2>1
    <2>3. Rankable(r[i]) /\ Rankable(c)
      BY <1>2
    <2> HIDE DEF c
    <2>4. ~(r[i].strategy = c.strategy /\ r[i].symbol = c.symbol)
      BY <2>1, <2>2 DEF c
    <2>. QED
      BY <2>3, <2>4, BeforeIsOrder
  <1>4. place \in 1 .. k + 1 /\ ahead = 1 .. (place - 1)
    <2>1. place = Cardinality(ahead) + 1
      BY <1>1 DEF PlaceIn
    <2>2. ASSUME NEW i \in ahead, NEW j \in 1 .. k, j < i
          PROVE  j \in ahead
      <3>1. Before(r[j], r[i], book) /\ Before(r[i], c, book)
        BY <2>2 DEF Sorts
      <3>2. Rankable(r[j]) /\ Rankable(r[i]) /\ Rankable(c)
        BY <1>2
      <3>3. Before(r[j], c, book)
        BY <3>1, <3>2, BeforeIsOrder
      <3>. QED
        BY <3>3
    <2>3. ahead \in SUBSET (1 .. k)
      OBVIOUS
    <2> HIDE DEF ahead, place, c
    <2>4. Cardinality(ahead) \in 0 .. k /\ ahead = 1 .. Cardinality(ahead)
      BY <1>1, <2>2, <2>3, PrefixSet
    <2>. QED
      BY <1>1, <2>1, <2>4
  <1>5. /\ longer \in Seq(C) /\ Len(longer) = k + 1
        /\ \A j \in 1 .. k + 1 :
             longer[j] = IF j < place THEN r[j] ELSE IF j = place THEN c ELSE r[j - 1]
    <2>1. Len(r) = k
      BY DEF Sorts
    <2> HIDE DEF c
    <2>. QED
      BY <1>2, <2>1, InsertFacts DEF longer, place
  <1>6. \A i \in 1 .. k : i < place => Before(r[i], c, book)
    BY <1>4
  <1>7. \A i \in 1 .. k : i >= place => Before(c, r[i], book)
    <2>1. ASSUME NEW i \in 1 .. k, i >= place
          PROVE  Before(c, r[i], book)
      <3>1. i \notin ahead
        <4> HIDE DEF ahead, place
        <4>. QED
          BY <1>4, <2>1
      <3>. QED
        BY <1>3, <3>1
    <2>. QED
      BY <2>1
  <1>8. \A i, j \in 1 .. k : i < j => Before(r[i], r[j], book)
    BY DEF Sorts
  <1> HIDE DEF c, ahead, place, longer
  <1>9. ASSUME NEW i \in 1 .. k + 1, NEW j \in 1 .. k + 1, i < j
        PROVE  Before(longer[i], longer[j], book)
    <2>1. CASE j < place
      BY <1>1, <1>4, <1>5, <1>8, <1>9, <2>1
    <2>2. CASE j = place
      <3>1. longer[j] = c /\ longer[i] = r[i] /\ i \in 1 .. k /\ i < place
        BY <1>1, <1>4, <1>5, <1>9, <2>2
      <3>. QED
        BY <1>6, <3>1
    <2>3. CASE i = place
      <3>1. longer[i] = c /\ longer[j] = r[j - 1] /\ j - 1 \in 1 .. k /\ j - 1 >= place
        BY <1>1, <1>4, <1>5, <1>9, <2>3
      <3>. QED
        BY <1>7, <3>1
    <2>4. CASE i < place /\ place < j
      <3>1. /\ longer[i] = r[i] /\ longer[j] = r[j - 1]
            /\ i \in 1 .. k /\ j - 1 \in 1 .. k /\ i < j - 1
        BY <1>1, <1>4, <1>5, <1>9, <2>4
      <3>. QED
        BY <1>8, <3>1
    <2>5. CASE place < i
      <3>1. /\ longer[i] = r[i - 1] /\ longer[j] = r[j - 1]
            /\ i - 1 \in 1 .. k /\ j - 1 \in 1 .. k /\ i - 1 < j - 1
        BY <1>1, <1>4, <1>5, <1>9, <2>5
      <3>. QED
        BY <1>8, <3>1
    <2>6. j < place \/ j = place \/ i = place \/ (i < place /\ place < j) \/ place < i
      BY <1>1, <1>4, <1>9
    <2>. QED
      BY <2>1, <2>2, <2>3, <2>4, <2>5, <2>6
  <1>10. ToSet(longer) = {candidates[i] : i \in 1 .. k + 1}
    <2>1. DOMAIN longer = 1 .. k + 1
      BY <1>5
    <2>2. ToSet(longer) = ToSet(r) \cup {c}
      <3>1. ASSUME NEW j \in 1 .. k + 1
            PROVE  longer[j] \in ToSet(r) \cup {c}
        <4>1. CASE j < place
          <5>1. longer[j] = r[j] /\ j \in 1 .. k
            BY <1>1, <1>4, <1>5, <4>1
          <5>. QED
            BY <1>1, <5>1 DEF ToSet
        <4>2. CASE j = place
          <5>1. longer[j] = c
            BY <1>1, <1>4, <1>5, <4>2
          <5>. QED
            BY <5>1
        <4>3. CASE j > place
          <5>1. longer[j] = r[j - 1] /\ j - 1 \in 1 .. k
            BY <1>1, <1>4, <1>5, <4>3
          <5>. QED
            BY <1>1, <5>1 DEF ToSet
        <4>4. j < place \/ j = place \/ j > place
          BY <1>1, <1>4
        <4>. QED
          BY <4>1, <4>2, <4>3, <4>4
      <3>2. ASSUME NEW i \in 1 .. k
            PROVE  r[i] \in ToSet(longer)
        <4>1. CASE i < place
          <5>1. longer[i] = r[i] /\ i \in 1 .. k + 1
            BY <1>1, <1>4, <1>5, <4>1
          <5>. QED
            BY <2>1, <5>1 DEF ToSet
        <4>2. CASE i >= place
          <5>1. longer[i + 1] = r[i] /\ i + 1 \in 1 .. k + 1
            <6>1. i + 1 \in 1 .. k + 1 /\ ~(i + 1 < place) /\ i + 1 # place /\ (i + 1) - 1 = i
              BY <1>1, <1>4, <4>2
            <6>. QED
              BY <1>5, <6>1
          <5>. QED
            BY <2>1, <5>1 DEF ToSet
        <4>3. i < place \/ i >= place
          BY <1>4
        <4>. QED
          BY <4>1, <4>2, <4>3
      <3>3. c \in ToSet(longer)
        <4>1. longer[place] = c /\ place \in 1 .. k + 1
          BY <1>4, <1>5
        <4>. QED
          BY <2>1, <4>1 DEF ToSet
      <3>4. ToSet(longer) \subseteq ToSet(r) \cup {c}
        BY <2>1, <3>1 DEF ToSet
      <3>5. ToSet(r) \subseteq ToSet(longer)
        BY <1>1, <3>2 DEF ToSet
      <3>. QED
        BY <3>3, <3>4, <3>5
    <2>3. {candidates[i] : i \in 1 .. k + 1} = {candidates[i] : i \in 1 .. k} \cup {c}
      <3>1. \A i \in 1 .. k + 1 : i \in 1 .. k \/ i = k + 1
        BY <1>1
      <3>2. 1 .. k \subseteq 1 .. k + 1 /\ k + 1 \in 1 .. k + 1
        BY <1>1
      <3>. QED
        BY <3>1, <3>2 DEF c
    <2>. QED
      BY <2>2, <2>3 DEF Sorts
  <1>. QED
    BY <1>5, <1>9, <1>10 DEF Sorts, longer, c

\* Ranked holds every candidate once, in the order of Before.
LEMMA RankedFacts ==
  ASSUME NEW C, \A c \in C : Rankable(c) /\ Valid(c), NEW candidates \in Seq(C), NEW book,
         \A i, j \in DOMAIN candidates : i # j =>
           <<candidates[i].strategy, candidates[i].symbol>>
             # <<candidates[j].strategy, candidates[j].symbol>>
  PROVE  /\ Ranked(candidates, book) \in Seq(C)
         /\ Sorts(Ranked(candidates, book), candidates, Len(candidates), book)
  <1> DEFINE n == Len(candidates)
  <1>1. n \in Nat /\ \A i \in 1 .. n : candidates[i] \in C
    OBVIOUS
  <1>2. PICK run : Ranks(run, C, candidates, book)
    BY RankRun
  <1>3. /\ run \in [0 .. n -> Seq(C)] /\ run[0] = <<>>
        /\ \A k \in 1 .. n : run[k] = Insert(run[k - 1], candidates[k], book)
        /\ run[n] = Ranked(candidates, book)
    BY <1>1, <1>2 DEF Ranks
  <1> HIDE DEF n
  <1> DEFINE T == {k \in 0 .. n : Sorts(run[k], candidates, k, book)}
  <1>4. 0 \in T
    <2>1. ToSet(<<>>) = {} /\ Len(<<>>) = 0 /\ 1 .. 0 = {}
      BY DEF ToSet
    <2>2. Sorts(run[0], candidates, 0, book)
      BY <1>3, <2>1 DEF Sorts
    <2>. QED
      BY <1>1, <2>2
  <1>5. ASSUME NEW k \in 0 .. n, k \in T, k < n
        PROVE  k + 1 \in T
    <2>1. k + 1 \in 1 .. n /\ (k + 1) - 1 = k /\ k + 1 \in 0 .. n
      BY <1>1, <1>5
    <2>2. run[k + 1] = Insert(run[k], candidates[k + 1], book) /\ run[k] \in Seq(C)
      BY <1>3, <2>1
    <2>3. Sorts(Insert(run[k], candidates[k + 1], book), candidates, k + 1, book)
      BY <1>5, <2>2, InsertSorts DEF n
    <2>. QED
      BY <2>1, <2>2, <2>3
  <1>6. 0 .. n \subseteq T
    <2> HIDE DEF T
    <2>. QED
      BY <1>1, <1>4, <1>5, InductionTo
  <1>. QED
    BY <1>1, <1>3, <1>6 DEF n

-----------------------------------------------------------------------------
(* ReversalNotMasked: what a look leaves in the memory *)

\* Two directions, and the one that reverses what is held.
LEMMA HeldSides ==
  ASSUME NEW book, NEW b
  PROVE  HeldSide(book, b) \in Side \cup {"none"}
  BY DEF HeldSide, Side

\* The signal of a look says what the look has used up.
Tells(signal, before, after) ==
  /\ signal # NoSignal => /\ signal.direction \in Side /\ signal.exit_only \in BOOLEAN
                          /\ signal.setup \in SetupId \cup {"horizon"}
  /\ \A slot \in Side \X BOOLEAN : after[slot] # "none" =>
       \/ after[slot] = before[slot]
       \/ signal # NoSignal /\ <<signal.direction, signal.exit_only>> = slot
          /\ signal.setup = after[slot]

GoodLook(strategy, memo, watch, sight, open, side, asOf, t) ==
  LET after == Look(strategy, memo, watch, sight, open, side, asOf, t)
  IN  /\ after.memo \in [Side \X BOOLEAN -> SetupId \cup {"none"}]
      /\ after.watch \in Watch
      /\ Tells(after.signal, memo, after.memo)
      /\ after.watch.fired => watch.fired \/ after.signal.setup = "horizon"
      /\ ~open /\ side # "none" /\ sight[Opposite(side)] # "none" =>
           \/ after.memo[<<Opposite(side), TRUE>>] = sight[Opposite(side)]
           \/ after.watch.fired

\* A look at one symbol keeps the memo typed and, while the gate is closed, does
\* not leave the reversal of what is held unused: it is in its slot of the memo,
\* or the holding has just reached its horizon.
LEMMA LookUsesReversal ==
  ASSUME NEW strategy \in DOMAIN FirstLook,
         NEW memo \in [Side \X BOOLEAN -> SetupId \cup {"none"}], NEW watch \in Watch,
         NEW sight \in [Side -> SetupId \cup {"none"}], NEW open \in BOOLEAN,
         NEW side \in Side \cup {"none"}, NEW asOf \in Int, NEW t
  PROVE  GoodLook(strategy, memo, watch, sight, open, side, asOf, t)
  <1> DEFINE horizon == HorizonExit(strategy, watch, side, asOf, t)
             taken == TakenSide(strategy, sight, open, side)
             setup == SetupSignal(strategy, memo, sight, open, side)
             after == Look(strategy, memo, watch, sight, open, side, asOf, t)
             Memos == [Side \X BOOLEAN -> SetupId \cup {"none"}]
  <1>0. Watched(watch, side, asOf) \in Watch
    BY DEF Watched, Watch, NotWatching
  <1>1. /\ horizon.watch \in Watch
        /\ horizon.signal # NoSignal => side # "none" /\ horizon.watch.fired
    <2>1. CASE side # "none" /\ strategy \in HorizonExits
               /\ ~Watched(watch, side, asOf).fired
               /\ t - Watched(watch, side, asOf).since >= HoldingLimit
      <3>1. horizon.watch = [Watched(watch, side, asOf) EXCEPT !.fired = TRUE]
        BY <2>1 DEF HorizonExit
      <3>. QED
        BY <1>0, <2>1, <3>1 DEF Watch
    <2>2. CASE ~(side # "none" /\ strategy \in HorizonExits
               /\ ~Watched(watch, side, asOf).fired
               /\ t - Watched(watch, side, asOf).since >= HoldingLimit)
      BY <1>0, <2>2 DEF HorizonExit
    <2>. QED
      BY <2>1, <2>2
  <1>2. setup.memo \in Memos
    <2>1. taken \in Side \cup {"none"}
      BY SetupAssumption DEF TakenSide, OtherSide, Side
    <2>2. taken # "none" => /\ <<taken, ExitSlot(open)>> \in Side \X BOOLEAN
                            /\ sight[taken] \in SetupId \cup {"none"}
      BY <2>1 DEF ExitSlot, Side
    <2>. QED
      BY <2>2 DEF SetupSignal
  <1>3. after.memo \in Memos /\ after.watch \in Watch
    BY <1>1, <1>2 DEF Look
  <1>4. ASSUME ~open, side # "none", sight[Opposite(side)] # "none"
        PROVE  setup.memo[<<Opposite(side), TRUE>>] = sight[Opposite(side)]
    <2>1. taken = Opposite(side) /\ taken \in Side
      <3>1. {d \in Side : sight[d] # "none" /\ PermitsSetup(open, side, d)} = {Opposite(side)}
        BY <1>4 DEF PermitsSetup, Opposite, Side
      <3>2. FirstLook[strategy] \in Side /\ Opposite(side) \in Side
        BY <1>4, SetupAssumption DEF Opposite, Side
      <3>3. FirstLook[strategy] # Opposite(side) => OtherSide(FirstLook[strategy]) = Opposite(side)
        BY <1>4, <3>2 DEF Opposite, OtherSide, Side
      <3>. QED
        BY <3>1, <3>2, <3>3 DEF TakenSide
    <2>2. PermitsSetup(open, side, taken) /\ taken # "none" /\ ExitSlot(open) = TRUE
      BY <1>4, <2>1 DEF PermitsSetup, ExitSlot, Opposite, Side
    <2>3. <<taken, TRUE>> \in Side \X BOOLEAN
      BY <2>1
    <2>4. CASE memo[<<taken, TRUE>>] = sight[taken]
      <3>1. setup.memo = memo
        BY <2>2, <2>4 DEF SetupSignal
      <3>. QED
        BY <2>1, <2>4, <3>1
    <2>5. CASE memo[<<taken, TRUE>>] # sight[taken]
      <3>1. setup.memo = [memo EXCEPT ![<<taken, TRUE>>] = sight[taken]]
        BY <2>2, <2>5 DEF SetupSignal
      <3>. QED
        BY <2>1, <2>3, <3>1
    <2>. QED
      BY <2>4, <2>5
  <1>5. ASSUME ~open, side # "none", sight[Opposite(side)] # "none"
        PROVE  \/ after.memo[<<Opposite(side), TRUE>>] = sight[Opposite(side)]
               \/ after.watch.fired
    <2>1. CASE horizon.signal = NoSignal
      <3>1. after.memo = setup.memo
        BY <1>5, <2>1 DEF Look
      <3>. QED
        BY <1>4, <1>5, <3>1
    <2>2. CASE horizon.signal # NoSignal
      BY <1>1, <2>2 DEF Look
    <2>. QED
      BY <2>1, <2>2
  <1>6. taken # "none" => taken \in Side /\ sight[taken] \in SetupId
    <2> DEFINE ready == {d \in Side : sight[d] # "none" /\ PermitsSetup(open, side, d)}
    <2>1. FirstLook[strategy] \in Side
      BY SetupAssumption
    <2>2. ready # {} /\ FirstLook[strategy] \notin ready => OtherSide(FirstLook[strategy]) \in ready
      BY <2>1 DEF OtherSide, Side
    <2>3. taken # "none" => taken \in ready
      BY <2>2 DEF TakenSide
    <2>. QED
      BY <2>3
  <1>7. setup.signal # NoSignal =>
          /\ setup.signal.direction \in Side /\ setup.signal.exit_only \in BOOLEAN
          /\ setup.signal.setup \in SetupId
    <2>1. CASE setup.signal = NoSignal
      BY <2>1
    <2>2. CASE setup.signal # NoSignal
      <3>1. taken # "none"
            /\ setup.signal = [direction |-> taken, setup |-> sight[taken], exit_only |-> ~open]
        BY <2>2 DEF SetupSignal
      <3>. QED
        BY <1>6, <3>1
    <2>. QED
      BY <2>1, <2>2
  <1>8. ASSUME NEW slot \in Side \X BOOLEAN, setup.memo[slot] # memo[slot]
        PROVE  /\ setup.signal # NoSignal
               /\ <<setup.signal.direction, setup.signal.exit_only>> = slot
               /\ setup.signal.setup = setup.memo[slot]
    <2>1. /\ taken # "none"
          /\ setup.signal = [direction |-> taken, setup |-> sight[taken], exit_only |-> ~open]
          /\ setup.memo = [memo EXCEPT ![<<taken, ExitSlot(open)>>] = sight[taken]]
      BY <1>8 DEF SetupSignal
    <2>2. slot = <<taken, ~open>> /\ setup.memo[slot] = sight[taken]
      BY <1>8, <2>1 DEF ExitSlot
    <2>. QED
      BY <1>6, <2>1, <2>2 DEF NoSignal, Side
  <1>9. horizon.signal # NoSignal =>
          /\ horizon.signal.direction \in Side /\ horizon.signal.exit_only \in BOOLEAN
          /\ horizon.signal.setup = "horizon"
    <2>1. CASE horizon.signal = NoSignal
      BY <2>1
    <2>2. CASE horizon.signal # NoSignal
      <3>1. horizon.signal = [direction |-> OtherSide(side), setup |-> "horizon", exit_only |-> TRUE]
        BY <2>2 DEF HorizonExit
      <3>. QED
        BY <3>1 DEF OtherSide, Side
    <2>. QED
      BY <2>1, <2>2
  <1>10. Tells(after.signal, memo, after.memo)
    <2>1. CASE horizon.signal # NoSignal
      <3>1. after.signal = horizon.signal /\ after.memo = memo
        BY <2>1 DEF Look
      <3>. QED
        BY <1>9, <2>1, <3>1 DEF Tells
    <2>2. CASE horizon.signal = NoSignal /\ (open \/ side # "none")
      <3>1. after.signal = setup.signal /\ after.memo = setup.memo
        BY <2>2 DEF Look
      <3>2. Tells(setup.signal, memo, setup.memo)
        <4> HIDE DEF setup
        <4>. QED
          BY <1>7, <1>8 DEF Tells
      <3>. QED
        BY <3>1, <3>2
    <2>3. CASE horizon.signal = NoSignal /\ ~(open \/ side # "none")
      <3>1. after.signal = NoSignal /\ after.memo = memo
        BY <2>3 DEF Look
      <3>. QED
        BY <3>1 DEF Tells
    <2>. QED
      BY <2>1, <2>2, <2>3
  <1>11. after.watch.fired => watch.fired \/ after.signal.setup = "horizon"
    <2>1. horizon.watch.fired => watch.fired \/ horizon.signal # NoSignal
      BY DEF HorizonExit, Watched, NotWatching, NoSignal
    <2>2. after.watch = horizon.watch
      BY DEF Look
    <2>3. horizon.signal # NoSignal => after.signal = horizon.signal
      BY DEF Look
    <2>. QED
      BY <1>9, <2>1, <2>2, <2>3
  <1>. QED
    BY <1>3, <1>5, <1>10, <1>11 DEF GoodLook

\* What the last cycle's look has used up, in every phase.
LookUsed ==
  /\ DOMAIN look \subseteq ToSet(Bound)
  /\ \A b \in DOMAIN look :
       LET seen == look[b]
           reversal == IF seen.held = "none" THEN "none" ELSE seen.found[Opposite(seen.held)]
       IN  ~seen.open /\ reversal # "none" =>
             \/ signaled[b][<<Opposite(seen.held), TRUE>>] = reversal
             \/ watched[b].fired

MemoryInv ==
  /\ now \in Nat
  /\ signaled \in [ToSet(Bound) -> [Side \X BOOLEAN -> SetupId \cup {"none"}]]
  /\ watched \in [ToSet(Bound) -> Watch]
  /\ LookUsed

\* A new process has seen nothing.
LEMMA MemoryInit == Init => MemoryInv
  <1> SUFFICES ASSUME Init
               PROVE  MemoryInv
    OBVIOUS
  <1>1. EmptyMemo \in [Side \X BOOLEAN -> SetupId \cup {"none"}] /\ NotWatching \in Watch
    BY DEF EmptyMemo, NotWatching, Watch
  <1>2. signaled = [b \in ToSet(Bound) |-> EmptyMemo] /\ watched = [b \in ToSet(Bound) |-> NotWatching]
    BY DEF Init
  <1>3. DOMAIN look = {} /\ now \in Nat
    BY DEF Init
  <1>4. LookUsed
    BY <1>3 DEF LookUsed
  <1>. QED
    BY <1>1, <1>2, <1>3, <1>4 DEF MemoryInv

\* LookUsesReversal for what a strategy sees of a bound symbol.
SeenWell(found, open, b) ==
  LET side == HeldSide(ledger, b)
      after == Looked(found, open, b)
  IN  /\ after.memo \in [Side \X BOOLEAN -> SetupId \cup {"none"}]
      /\ after.watch \in Watch
      /\ Tells(after.signal, signaled[b], after.memo)
      /\ after.watch.fired => watched[b].fired \/ after.signal.setup = "horizon"
      /\ b[2] \notin open /\ side # "none" /\ found[b][Opposite(side)] # "none" =>
           \/ after.memo[<<Opposite(side), TRUE>>] = found[b][Opposite(side)]
           \/ after.watch.fired

LEMMA LookedFacts ==
  ASSUME MemoryInv, NEW found \in Sights, NEW open, NEW b \in ToSet(Bound)
  PROVE  SeenWell(found, open, b)
  <1>1. /\ b[1] \in DOMAIN FirstLook
        /\ found[b] \in [Side -> SetupId \cup {"none"}]
        /\ signaled[b] \in [Side \X BOOLEAN -> SetupId \cup {"none"}]
        /\ watched[b] \in Watch
    BY CycleAssumption DEF MemoryInv
  <1> DEFINE side == HeldSide(ledger, b)
             isOpen == b[2] \in open
             after == Looked(found, open, b)
  <1>2. side \in Side \cup {"none"} /\ isOpen \in BOOLEAN /\ 0 \in Int
    BY HeldSides
  <1>3. after = Look(b[1], signaled[b], watched[b], found[b], isOpen, side, 0, now')
    BY DEF Looked
  <1> HIDE DEF side, isOpen, after
  <1>4. GoodLook(b[1], signaled[b], watched[b], found[b], isOpen, side, 0, now')
    BY <1>1, <1>2, LookUsesReversal
  <1>5. /\ after.memo \in [Side \X BOOLEAN -> SetupId \cup {"none"}]
        /\ after.watch \in Watch
        /\ Tells(after.signal, signaled[b], after.memo)
        /\ after.watch.fired => watched[b].fired \/ after.signal.setup = "horizon"
        /\ ~isOpen /\ side # "none" /\ found[b][Opposite(side)] # "none" =>
             \/ after.memo[<<Opposite(side), TRUE>>] = found[b][Opposite(side)]
             \/ after.watch.fired
    BY <1>3, <1>4 DEF GoodLook
  <1>. QED
    BY <1>5 DEF SeenWell, side, isOpen, after

\* A cycle in which the strategies looked: LookUsesReversal for every bound symbol.
LEMMA DispatchMemory ==
  ASSUME MemoryInv, NEW seen, NEW snapshot, NEW found \in Sights, NEW open, NEW stop,
         Dispatch(seen, snapshot, found, open, stop)
  PROVE  MemoryInv'
  <1> DEFINE after(b) == Looked(found, open, b)
  <1>1. now' \in Nat
    BY DEF MemoryInv, Dispatch, Begin
  <1>2. ASSUME NEW b \in ToSet(Bound)
        PROVE  /\ after(b).memo \in [Side \X BOOLEAN -> SetupId \cup {"none"}]
               /\ after(b).watch \in Watch
               /\ LET side == HeldSide(ledger, b)
                  IN  b[2] \notin open /\ side # "none" /\ found[b][Opposite(side)] # "none" =>
                        \/ after(b).memo[<<Opposite(side), TRUE>>] = found[b][Opposite(side)]
                        \/ after(b).watch.fired
    <2>1. SeenWell(found, open, b)
      BY LookedFacts
    <2>. QED
      BY <2>1 DEF SeenWell
  <1>3. /\ look' = [b \in ToSet(Bound) |-> [found |-> found[b], open |-> b[2] \in open,
                                           held |-> HeldSide(ledger, b)]]
        /\ signaled' = [b \in ToSet(Bound) |-> after(b).memo]
        /\ watched' = [b \in ToSet(Bound) |-> after(b).watch]
    BY DEF Dispatch
  <1> HIDE DEF after
  <1>4. signaled' \in [ToSet(Bound) -> [Side \X BOOLEAN -> SetupId \cup {"none"}]]
    BY <1>2, <1>3
  <1>5. watched' \in [ToSet(Bound) -> Watch]
    BY <1>2, <1>3
  <1>6. LookUsed'
    BY <1>2, <1>3 DEF LookUsed
  <1>. QED
    BY <1>1, <1>4, <1>5, <1>6 DEF MemoryInv

\* Every step keeps the memory as ReversalNotMasked needs it.
LEMMA MemoryStep == MemoryInv /\ [Next]_vars => MemoryInv'
  <1> SUFFICES ASSUME MemoryInv, [Next]_vars
               PROVE  MemoryInv'
    OBVIOUS
  <1>1. ASSUME NEW seen \in Markets, NEW snapshot \in Accounts, BlockedCycle(seen, snapshot)
        PROVE  MemoryInv'
    <2>1. UNCHANGED <<signaled, watched>> /\ now' \in Nat /\ DOMAIN look' = {}
      BY <1>1 DEF MemoryInv, BlockedCycle, Begin, memory
    <2>2. LookUsed'
      BY <2>1 DEF LookUsed
    <2>. QED
      BY <2>1, <2>2 DEF MemoryInv
  <1>2. ASSUME NEW seen \in Markets, NEW snapshot \in Accounts, NEW found \in Sights,
               NEW open \in Gates, NEW stop \in Stops,
               Dispatch(seen, snapshot, found, open, stop)
        PROVE  MemoryInv'
    BY <1>2, DispatchMemory
  <1>3. CASE MarkRaises \/ Plan \/ Grade \/ GradeRaises \/ RecordRejected
    <2>1. UNCHANGED <<now, signaled, watched, look>>
      BY <1>3 DEF MarkRaises, Plan, Grade, GradeRaises, RecordRejected, memory
    <2>. QED
      BY <2>1 DEF MemoryInv, LookUsed
  <1>4. CASE Restart
    BY <1>4 DEF MemoryInv, LookUsed, Restart, EmptyMemo, NotWatching, Watch
  <1>5. CASE UNCHANGED vars
    BY <1>5 DEF MemoryInv, LookUsed, vars, memory
  <1>. QED
    BY <1>1, <1>2, <1>3, <1>4, <1>5 DEF Next

\* While the gate is closed the reversal of what is held is never masked: by the
\* other direction's set-up, the entry's slot or the order of the branches
\* (strategy/*/*.py on_event, base.py _setup_signal and _horizon_exit).
THEOREM ReversalsComeThrough == Spec => []ReversalNotMasked
  <1>1. MemoryInv => ReversalNotMasked
    BY DEF MemoryInv, LookUsed, ReversalNotMasked
  <1>. QED
    BY <1>1, MemoryInit, MemoryStep, PTL DEF Spec

-----------------------------------------------------------------------------
(* Weighing a book: stop risk, positions and units are sums over its        *)
(* exposures of a weight that grows with the units.                        *)

Weightings ==
  {w \in [Exposures -> Nat] :
     \A e, f \in Exposures :
       e.symbol = f.symbol /\ e.stop = f.stop /\ Abs(e.units) <= Abs(f.units) => w[e] <= w[f]}
Weighed(w, book) == SumOf([i \in DOMAIN book |-> w[book[i]]])

\* SumOf is the fold the sum lemmas are about.
LEMMA SumOfSummed ==
  ASSUME NEW s
  PROVE  SumOf(s) = Summed(s)
  BY Zenon DEF SumOf, Summed, FoldLeft, MapThenFoldSet

\* One more exposure adds its weight.
LEMMA WeighedAppend ==
  ASSUME NEW w \in [Exposures -> Nat], NEW book \in Seq(Exposures), NEW e \in Exposures
  PROVE  /\ Weighed(w, book) \in Int
         /\ Weighed(w, Append(book, e)) = Weighed(w, book) + w[e]
  <1> DEFINE s == [i \in DOMAIN book |-> w[book[i]]]
             longer == Append(book, e)
             t == [i \in DOMAIN longer |-> w[longer[i]]]
  <1>1. s \in Seq(Int) /\ w[e] \in Int /\ Len(s) = Len(book)
    OBVIOUS
  <1>2. t = Append(s, w[e])
    <2>1. longer \in Seq(Exposures) /\ DOMAIN longer = 1 .. Len(book) + 1
      OBVIOUS
    <2>2. DOMAIN Append(s, w[e]) = 1 .. Len(book) + 1
      BY <1>1
    <2>3. ASSUME NEW i \in 1 .. Len(book) + 1
          PROVE  t[i] = Append(s, w[e])[i]
      OBVIOUS
    <2>4. t \in Seq(Int) /\ Append(s, w[e]) \in Seq(Int)
      BY <1>1, <2>1
    <2>. QED
      BY <2>1, <2>2, <2>3, <2>4
  <1>3. Summed(s) \in Int
    BY <1>1, SumMonotone
  <1>4. Summed(t) = Summed(s) + w[e]
    BY <1>1, <1>2, SumAppend
  <1>. QED
    BY <1>3, <1>4, SumOfSummed DEF Weighed

\* A weight is a number.
LEMMA WeighedType ==
  ASSUME NEW w \in [Exposures -> Nat], NEW book \in Seq(Exposures)
  PROVE  Weighed(w, book) \in Int
  <1>1. [i \in DOMAIN book |-> w[book[i]]] \in Seq(Int)
    OBVIOUS
  <1>. QED
    BY <1>1, SumMonotone, SumOfSummed DEF Weighed

-----------------------------------------------------------------------------
(* The book of the ledger *)

LedgerType ==
  /\ IsFiniteSet(DOMAIN ledger) /\ DOMAIN ledger \subseteq ToSet(Strategies) \X DOMAIN Base
  /\ ledger \in [DOMAIN ledger -> Int]

\* SetToSeq lists every element of a finite set.
LEMMA SetToSeqFacts ==
  ASSUME NEW S, IsFiniteSet(S)
  PROVE  SetToSeq(S) \in Seq(S)
  <1>1. PICK n : n = Cardinality(S)
    OBVIOUS
  <1>2. n \in Nat /\ ExistsBijection(1 .. n, S)
    BY <1>1, FS_CardinalityType
  <1>3. PICK f \in Bijection(1 .. n, S) : TRUE
    BY <1>2 DEF ExistsBijection
  <1>4. f \in [1 .. n -> S] /\ IsInjective(f)
    BY <1>3 DEF Bijection, Injection, IsInjective
  <1>5. SetToSeq(S) \in [1 .. n -> S]
    BY <1>1, <1>4 DEF SetToSeq
  <1>. QED
    BY <1>2, <1>5

\* The book of the ledger is a book without stops.
LEMMA LedgerBookType ==
  ASSUME LedgerType
  PROVE  /\ LedgerBook \in Seq(Exposures)
         /\ \A i \in DOMAIN LedgerBook : LedgerBook[i].stop = 0
  <1> DEFINE held == {b \in DOMAIN ledger : ledger[b] # 0}
             s == SetToSeq(held)
  <1>1. IsFiniteSet(held)
    BY FS_Subset DEF LedgerType
  <1>2. s \in Seq(held)
    <2> HIDE DEF held
    <2>. QED
      BY <1>1, SetToSeqFacts
  <1>3. LedgerBook = [i \in DOMAIN s |-> [symbol |-> s[i][2], units |-> ledger[s[i]], stop |-> 0]]
    BY DEF LedgerBook
  <1>4. ASSUME NEW i \in DOMAIN s
        PROVE  s[i][2] \in DOMAIN Base /\ ledger[s[i]] \in Int
    <2>1. s[i] \in held
      BY <1>2
    <2>. QED
      BY <2>1 DEF LedgerType
  <1> HIDE DEF s
  <1>5. DOMAIN s = 1 .. Len(s) /\ Len(s) \in Nat
    BY <1>2
  <1>. QED
    BY <1>3, <1>4, <1>5 DEF Exposures

-----------------------------------------------------------------------------
(* What holds of the arbitrator's loop after k turns *)

Declines(state, new, c, known) ==
  /\ Claims(c) \cap state.claimed # {} \/ Capped(c, state.book, known)
  /\ new.claimed = state.claimed /\ new.book = state.book /\ new.accepted = state.accepted
  /\ Len(new.rejected) = Len(state.rejected) + 1
  /\ \A i \in 1 .. Len(state.rejected) : new.rejected[i] = state.rejected[i]
  /\ new.rejected[Len(state.rejected) + 1].candidate = c

Admits(state, new, c, known) ==
  /\ Claims(c) \cap state.claimed = {} /\ ~Capped(c, state.book, known)
  /\ new.claimed = state.claimed \cup Claims(c) /\ new.book = Append(state.book, c.exposure)
  /\ new.rejected = state.rejected
  /\ Len(new.accepted) = Len(state.accepted) + 1
  /\ \A i \in 1 .. Len(state.accepted) : new.accepted[i] = state.accepted[i]
  /\ new.accepted[Len(state.accepted) + 1] = [candidate |-> c, book_before |-> state.book]

\* A turn of the loop rejects or admits.
LEMMA JudgeCases ==
  ASSUME NEW C, NEW c \in C, NEW state \in Judgements(C), NEW known
  PROVE  \/ Declines(state, Judge(state, c, known), c, known)
         \/ Admits(state, Judge(state, c, known), c, known)
  <1> DEFINE new == Judge(state, c, known)
  <1>1. /\ state.rejected \in Seq([candidate: C, reason: Reasons])
        /\ state.accepted \in Seq([candidate: C, book_before: Seq(Exposures)])
    BY DEF Judgements
  <1>2. ASSUME NEW reason
        PROVE  /\ Len(Append(state.rejected, [candidate |-> c, reason |-> reason]))
                    = Len(state.rejected) + 1
               /\ \A i \in 1 .. Len(state.rejected) :
                    Append(state.rejected, [candidate |-> c, reason |-> reason])[i]
                      = state.rejected[i]
               /\ Append(state.rejected, [candidate |-> c, reason |-> reason])
                    [Len(state.rejected) + 1].candidate = c
    BY <1>1
  <1>3. CASE Claims(c) \cap state.claimed # {}
    <2>1. new = [state EXCEPT !.rejected =
               Append(@, [candidate |-> c, reason |-> "REJECTED_REDUNDANT_FACTOR_EXPOSURE"])]
      BY <1>3 DEF Judge
    <2>2. /\ new.claimed = state.claimed /\ new.book = state.book /\ new.accepted = state.accepted
          /\ new.rejected = Append(state.rejected,
               [candidate |-> c, reason |-> "REJECTED_REDUNDANT_FACTOR_EXPOSURE"])
      BY <2>1 DEF Judgements
    <2>. QED
      BY <1>2, <1>3, <2>2 DEF Declines
  <1>4. CASE Claims(c) \cap state.claimed = {} /\ Capped(c, state.book, known)
    <2>1. new = [state EXCEPT !.rejected =
               Append(@, [candidate |-> c, reason |-> "REJECTED_TRIANGLE_CAP"])]
      BY <1>4 DEF Judge
    <2>2. /\ new.claimed = state.claimed /\ new.book = state.book /\ new.accepted = state.accepted
          /\ new.rejected = Append(state.rejected,
               [candidate |-> c, reason |-> "REJECTED_TRIANGLE_CAP"])
      BY <2>1 DEF Judgements
    <2>. QED
      BY <1>2, <1>4, <2>2 DEF Declines
  <1>5. CASE Claims(c) \cap state.claimed = {} /\ ~Capped(c, state.book, known)
    <2>1. new = [claimed |-> state.claimed \cup Claims(c),
             book |-> Append(state.book, c.exposure),
             accepted |-> Append(state.accepted,
                                 [candidate |-> c, book_before |-> state.book]),
             rejected |-> state.rejected]
      BY <1>5 DEF Judge
    <2>. QED
      BY <1>1, <1>5, <2>1 DEF Admits
  <1>. QED
    BY <1>3, <1>4, <1>5

\* Every candidate of the first k has its verdict, and nothing else has one.
Covered(state, ranked, k) ==
  /\ \A m \in 1 .. k :
       \/ \E i \in 1 .. Len(state.accepted) : state.accepted[i].candidate = ranked[m]
       \/ \E i \in 1 .. Len(state.rejected) : state.rejected[i].candidate = ranked[m]
  /\ \A i \in 1 .. Len(state.accepted) : \E m \in 1 .. k : state.accepted[i].candidate = ranked[m]
  /\ \A i \in 1 .. Len(state.rejected) : \E m \in 1 .. k : state.rejected[i].candidate = ranked[m]

\* The legs claimed are those of the accepted, no two of which share one.
Disjoint(state) ==
  /\ state.claimed = UNION {Claims(state.accepted[i].candidate) : i \in 1 .. Len(state.accepted)}
  /\ \A i, j \in 1 .. Len(state.accepted) :
       i # j => Claims(state.accepted[i].candidate) \cap Claims(state.accepted[j].candidate) = {}

\* The book holds what it began with and the accepted, and of a triangle no more
\* than is allowed or was there to begin with.
Untriangled(state, start, known) ==
  /\ SymbolsOf(state.book) = SymbolsOf(start)
       \cup {state.accepted[i].candidate.symbol : i \in 1 .. Len(state.accepted)}
  /\ \A t \in Triangles(known) :
       \/ Cardinality(t \cap SymbolsOf(state.book)) <= MaxPairs
       \/ t \cap SymbolsOf(state.book) \subseteq SymbolsOf(start)

\* A rejected candidate lost to an accepted one before it, or to the book.
LosesTo(a, r, start, known) ==
  /\ Before(a, r, start)
  /\ Claims(a) \cap Claims(r) # {} \/ \E t \in Triangles(known) : {a.symbol, r.symbol} \subseteq t
Explained(state, start, known) ==
  \A i \in 1 .. Len(state.rejected) :
    \/ \E j \in 1 .. Len(state.accepted) :
         LosesTo(state.accepted[j].candidate, state.rejected[i].candidate, start, known)
    \/ Capped(state.rejected[i].candidate, start, known)

\* The book before an accepted entry holds those accepted earlier.
Nested(state, start) ==
  \A w \in Weightings :
    /\ Weighed(w, start) <= Weighed(w, state.book)
    /\ \A i \in 1 .. Len(state.accepted) :
         LET a == state.accepted[i]
         IN  /\ Weighed(w, start) <= Weighed(w, a.book_before)
             /\ Weighed(w, a.book_before) + w[a.candidate.exposure] <= Weighed(w, state.book)
             /\ \A j \in 1 .. Len(state.accepted) :
                  i < j => Weighed(w, a.book_before) + w[a.candidate.exposure]
                             <= Weighed(w, state.accepted[j].book_before)

\* A turn of the loop covers one candidate more.
LEMMA CoveredStep ==
  ASSUME NEW C, NEW state \in Judgements(C), NEW new \in Judgements(C), NEW known,
         NEW k \in Nat, NEW ranked,
         Declines(state, new, ranked[k + 1], known) \/ Admits(state, new, ranked[k + 1], known),
         Covered(state, ranked, k)
  PROVE  Covered(new, ranked, k + 1)
  <1>1. /\ Len(state.rejected) \in Nat /\ Len(state.accepted) \in Nat
    BY DEF Judgements
  <1>2. CASE Declines(state, new, ranked[k + 1], known)
    <2>1. \A i \in 1 .. Len(new.rejected) :
             i \in 1 .. Len(state.rejected) \/ i = Len(state.rejected) + 1
      BY <1>1, <1>2 DEF Declines
    <2>2. \A m \in 1 .. k + 1 : m \in 1 .. k \/ m = k + 1
      OBVIOUS
    <2>3. 1 .. Len(state.rejected) \subseteq 1 .. Len(new.rejected)
          /\ Len(state.rejected) + 1 \in 1 .. Len(new.rejected)
          /\ 1 .. k \subseteq 1 .. k + 1 /\ k + 1 \in 1 .. k + 1
      BY <1>1, <1>2 DEF Declines
    <2>4. /\ \A i \in 1 .. Len(state.rejected) : new.rejected[i] = state.rejected[i]
          /\ new.rejected[Len(state.rejected) + 1].candidate = ranked[k + 1]
          /\ new.accepted = state.accepted
      BY <1>2 DEF Declines
    <2>5. ASSUME NEW m \in 1 .. k + 1
          PROVE  \/ \E i \in 1 .. Len(new.accepted) : new.accepted[i].candidate = ranked[m]
                 \/ \E i \in 1 .. Len(new.rejected) : new.rejected[i].candidate = ranked[m]
      <3>1. CASE m = k + 1
        BY <2>3, <2>4, <3>1
      <3>2. CASE m \in 1 .. k
        <4>1. CASE \E i \in 1 .. Len(state.rejected) : state.rejected[i].candidate = ranked[m]
          BY <2>3, <2>4, <4>1
        <4>2. CASE \E i \in 1 .. Len(state.accepted) : state.accepted[i].candidate = ranked[m]
          BY <2>4, <4>2
        <4>. QED
          BY <3>2, <4>1, <4>2 DEF Covered
      <3>. QED
        BY <2>2, <3>1, <3>2
    <2>6. ASSUME NEW i \in 1 .. Len(new.rejected)
          PROVE  \E m \in 1 .. k + 1 : new.rejected[i].candidate = ranked[m]
      <3>1. CASE i = Len(state.rejected) + 1
        BY <2>3, <2>4, <3>1
      <3>2. CASE i \in 1 .. Len(state.rejected)
        <4>1. PICK m \in 1 .. k : state.rejected[i].candidate = ranked[m]
          BY <3>2 DEF Covered
        <4>. QED
          BY <2>3, <2>4, <3>2, <4>1
      <3>. QED
        BY <2>1, <3>1, <3>2
    <2>7. ASSUME NEW i \in 1 .. Len(new.accepted)
          PROVE  \E m \in 1 .. k + 1 : new.accepted[i].candidate = ranked[m]
      <3>1. PICK m \in 1 .. k : state.accepted[i].candidate = ranked[m]
        BY <2>4 DEF Covered
      <3>. QED
        BY <2>3, <2>4, <3>1
    <2>. QED
      BY <2>5, <2>6, <2>7 DEF Covered
  <1>3. CASE Admits(state, new, ranked[k + 1], known)
    <2>1. \A i \in 1 .. Len(new.accepted) :
             i \in 1 .. Len(state.accepted) \/ i = Len(state.accepted) + 1
      BY <1>1, <1>3 DEF Admits
    <2>2. \A m \in 1 .. k + 1 : m \in 1 .. k \/ m = k + 1
      OBVIOUS
    <2>3. 1 .. Len(state.accepted) \subseteq 1 .. Len(new.accepted)
          /\ Len(state.accepted) + 1 \in 1 .. Len(new.accepted)
          /\ 1 .. k \subseteq 1 .. k + 1 /\ k + 1 \in 1 .. k + 1
      BY <1>1, <1>3 DEF Admits
    <2>4. /\ \A i \in 1 .. Len(state.accepted) : new.accepted[i] = state.accepted[i]
          /\ new.accepted[Len(state.accepted) + 1].candidate = ranked[k + 1]
          /\ new.rejected = state.rejected
      BY <1>3 DEF Admits
    <2>5. ASSUME NEW m \in 1 .. k + 1
          PROVE  \/ \E i \in 1 .. Len(new.accepted) : new.accepted[i].candidate = ranked[m]
                 \/ \E i \in 1 .. Len(new.rejected) : new.rejected[i].candidate = ranked[m]
      <3>1. CASE m = k + 1
        BY <2>3, <2>4, <3>1
      <3>2. CASE m \in 1 .. k
        <4>1. CASE \E i \in 1 .. Len(state.accepted) : state.accepted[i].candidate = ranked[m]
          BY <2>3, <2>4, <4>1
        <4>2. CASE \E i \in 1 .. Len(state.rejected) : state.rejected[i].candidate = ranked[m]
          BY <2>4, <4>2
        <4>. QED
          BY <3>2, <4>1, <4>2 DEF Covered
      <3>. QED
        BY <2>2, <3>1, <3>2
    <2>6. ASSUME NEW i \in 1 .. Len(new.accepted)
          PROVE  \E m \in 1 .. k + 1 : new.accepted[i].candidate = ranked[m]
      <3>1. CASE i = Len(state.accepted) + 1
        BY <2>3, <2>4, <3>1
      <3>2. CASE i \in 1 .. Len(state.accepted)
        <4>1. PICK m \in 1 .. k : state.accepted[i].candidate = ranked[m]
          BY <3>2 DEF Covered
        <4>. QED
          BY <2>3, <2>4, <3>2, <4>1
      <3>. QED
        BY <2>1, <3>1, <3>2
    <2>7. ASSUME NEW i \in 1 .. Len(new.rejected)
          PROVE  \E m \in 1 .. k + 1 : new.rejected[i].candidate = ranked[m]
      <3>1. PICK m \in 1 .. k : state.rejected[i].candidate = ranked[m]
        BY <2>4 DEF Covered
      <3>. QED
        BY <2>3, <2>4, <3>1
    <2>. QED
      BY <2>5, <2>6, <2>7 DEF Covered
  <1>. QED
    BY <1>2, <1>3

\* Admitted candidates stay without a common leg.
LEMMA DisjointStep ==
  ASSUME NEW C, NEW state \in Judgements(C), NEW new, NEW known, NEW c,
         Declines(state, new, c, known) \/ Admits(state, new, c, known), Disjoint(state)
  PROVE  Disjoint(new)
  <1>1. Len(state.accepted) \in Nat
    BY DEF Judgements
  <1>2. CASE Declines(state, new, c, known)
    BY <1>2 DEF Declines, Disjoint
  <1>3. CASE Admits(state, new, c, known)
    <2> DEFINE n == Len(state.accepted)
               taken(i) == Claims(state.accepted[i].candidate)
               now_taken(i) == Claims(new.accepted[i].candidate)
    <2>1. /\ n \in Nat /\ Len(new.accepted) = n + 1
          /\ \A i \in 1 .. n : now_taken(i) = taken(i)
          /\ now_taken(n + 1) = Claims(c)
          /\ Claims(c) \cap state.claimed = {} /\ new.claimed = state.claimed \cup Claims(c)
      BY <1>1, <1>3 DEF Admits
    <2>2. /\ state.claimed = UNION {taken(i) : i \in 1 .. n}
          /\ \A i, j \in 1 .. n : i # j => taken(i) \cap taken(j) = {}
      BY DEF Disjoint
    <2> HIDE DEF n, taken, now_taken
    <2>3. \A i \in 1 .. n + 1 : i \in 1 .. n \/ i = n + 1
      BY <2>1
    <2>4. new.claimed = UNION {now_taken(i) : i \in 1 .. n + 1}
      <3>1. 1 .. n \subseteq 1 .. n + 1 /\ n + 1 \in 1 .. n + 1
        BY <2>1
      <3>2. ASSUME NEW l
            PROVE  l \in new.claimed <=> \E i \in 1 .. n + 1 : l \in now_taken(i)
        <4>1. l \in state.claimed <=> \E i \in 1 .. n : l \in taken(i)
          BY <2>2
        <4>. QED
          BY <2>1, <2>3, <3>1, <4>1
      <3>. QED
        BY <3>2
    <2>5. ASSUME NEW i \in 1 .. n + 1, NEW j \in 1 .. n + 1, i # j
          PROVE  now_taken(i) \cap now_taken(j) = {}
      <3>1. \A m \in 1 .. n : taken(m) \cap Claims(c) = {}
        BY <2>1, <2>2
      <3>. QED
        BY <2>1, <2>2, <2>3, <2>5, <3>1
    <2>6. /\ new.claimed = UNION {now_taken(i) : i \in 1 .. Len(new.accepted)}
          /\ \A i, j \in 1 .. Len(new.accepted) : i # j => now_taken(i) \cap now_taken(j) = {}
      BY <2>1, <2>4, <2>5
    <2>. QED
      BY <2>6 DEF Disjoint, now_taken
  <1>. QED
    BY <1>2, <1>3

\* The symbols of a book to which an exposure is added.
LEMMA SymbolsAppend ==
  ASSUME NEW book \in Seq(Exposures), NEW e \in Exposures
  PROVE  SymbolsOf(Append(book, e)) = SymbolsOf(book) \cup {e.symbol}
  <1> DEFINE longer == Append(book, e)
             n == Len(book)
  <1>1. /\ n \in Nat /\ DOMAIN book = 1 .. n /\ DOMAIN longer = 1 .. n + 1
        /\ longer[n + 1] = e /\ \A i \in 1 .. n : longer[i] = book[i]
    OBVIOUS
  <1> HIDE DEF n, longer
  <1>2. 1 .. n \subseteq 1 .. n + 1 /\ n + 1 \in 1 .. n + 1
        /\ \A i \in 1 .. n + 1 : i \in 1 .. n \/ i = n + 1
    BY <1>1
  <1>3. SymbolsOf(longer) = SymbolsOf(book) \cup {e.symbol}
    BY <1>1, <1>2 DEF SymbolsOf
  <1>. QED
    BY <1>3 DEF longer

\* Admitted candidates complete no triangle beyond the cap.
LEMMA UntriangledStep ==
  ASSUME NEW C, NEW c \in C, c.exposure \in Exposures, c.exposure.symbol = c.symbol,
         NEW state \in Judgements(C), NEW new, NEW known, IsFiniteSet(known), NEW start,
         Declines(state, new, c, known) \/ Admits(state, new, c, known),
         Untriangled(state, start, known)
  PROVE  Untriangled(new, start, known)
  <1>1. Len(state.accepted) \in Nat /\ state.book \in Seq(Exposures)
    BY DEF Judgements
  <1>2. CASE Declines(state, new, c, known)
    BY <1>2 DEF Declines, Untriangled
  <1>3. CASE Admits(state, new, c, known)
    <2> DEFINE n == Len(state.accepted)
    <2>1. /\ n \in Nat /\ Len(new.accepted) = n + 1
          /\ \A i \in 1 .. n : new.accepted[i] = state.accepted[i]
          /\ new.accepted[n + 1].candidate = c
      BY <1>1, <1>3 DEF Admits
    <2>2. SymbolsOf(new.book) = SymbolsOf(state.book) \cup {c.symbol}
      BY <1>1, <1>3, SymbolsAppend DEF Admits
    <2>3. SymbolsOf(state.book) = SymbolsOf(start)
            \cup {state.accepted[i].candidate.symbol : i \in 1 .. n}
      BY DEF Untriangled
    <2> HIDE DEF n
    <2>4. {new.accepted[i].candidate.symbol : i \in 1 .. n + 1} =
            {state.accepted[i].candidate.symbol : i \in 1 .. n} \cup {c.symbol}
      <3>1. 1 .. n \subseteq 1 .. n + 1 /\ n + 1 \in 1 .. n + 1
            /\ \A i \in 1 .. n + 1 : i \in 1 .. n \/ i = n + 1
        BY <2>1
      <3>. QED
        BY <2>1, <3>1
    <2>5. ASSUME NEW t \in Triangles(known)
          PROVE  \/ Cardinality(t \cap SymbolsOf(new.book)) <= MaxPairs
                 \/ t \cap SymbolsOf(new.book) \subseteq SymbolsOf(start)
      <3>1. CASE c.symbol \in t
        <4>1. t \cap SymbolsOf(new.book) = (t \cap SymbolsOf(state.book)) \cup {c.symbol}
          BY <2>2, <3>1
        <4>2. ~(Cardinality((t \cap SymbolsOf(state.book)) \cup {c.symbol}) > MaxPairs)
          BY <1>3, <3>1 DEF Admits, Capped
        <4>3. PICK m : m = Cardinality((t \cap SymbolsOf(state.book)) \cup {c.symbol})
          OBVIOUS
        <4>4. m \in Nat
          <5>1. IsFiniteSet(t)
            BY FS_Subset DEF Triangles
          <5>2. (t \cap SymbolsOf(state.book)) \cup {c.symbol} \subseteq t
            BY <3>1
          <5>. QED
            BY <4>3, <5>1, <5>2, FS_Subset, FS_CardinalityType
        <4>5. ~(m > MaxPairs) /\ Cardinality(t \cap SymbolsOf(new.book)) = m
          BY <4>1, <4>2, <4>3
        <4>6. Cardinality(t \cap SymbolsOf(new.book)) <= MaxPairs
          BY <4>4, <4>5, ArbitrationAssumption
        <4>. QED
          BY <4>6
      <3>2. CASE c.symbol \notin t
        <4>1. t \cap SymbolsOf(new.book) = t \cap SymbolsOf(state.book)
          BY <2>2, <3>2
        <4>. QED
          BY <4>1 DEF Untriangled
      <3>. QED
        BY <3>1, <3>2
    <2>. QED
      BY <2>1, <2>2, <2>3, <2>4, <2>5 DEF Untriangled
  <1>. QED
    BY <1>2, <1>3

\* A rejected candidate has lost to one admitted before it.
LEMMA ExplainedStep ==
  ASSUME NEW C, NEW c \in C, NEW state \in Judgements(C), NEW new, NEW known, NEW start,
         Declines(state, new, c, known) \/ Admits(state, new, c, known),
         \A i \in 1 .. Len(state.accepted) : Before(state.accepted[i].candidate, c, start),
         Disjoint(state), Untriangled(state, start, known), Explained(state, start, known)
  PROVE  Explained(new, start, known)
  <1>1. Len(state.rejected) \in Nat /\ Len(state.accepted) \in Nat
    BY DEF Judgements
  <1>2. CASE Declines(state, new, c, known)
    <2>1. /\ new.accepted = state.accepted /\ Len(new.rejected) = Len(state.rejected) + 1
          /\ \A i \in 1 .. Len(state.rejected) : new.rejected[i] = state.rejected[i]
          /\ new.rejected[Len(state.rejected) + 1].candidate = c
          /\ Claims(c) \cap state.claimed # {} \/ Capped(c, state.book, known)
      BY <1>2 DEF Declines
    <2>2. \/ \E j \in 1 .. Len(state.accepted) :
               LosesTo(state.accepted[j].candidate, c, start, known)
          \/ Capped(c, start, known)
      <3>1. CASE Claims(c) \cap state.claimed # {}
        <4>1. PICK j \in 1 .. Len(state.accepted) :
                Claims(c) \cap Claims(state.accepted[j].candidate) # {}
          BY <3>1 DEF Disjoint
        <4>2. LosesTo(state.accepted[j].candidate, c, start, known)
          BY <4>1 DEF LosesTo
        <4>. QED
          BY <4>2
      <3>2. CASE Capped(c, state.book, known)
        <4>1. PICK t \in Triangles(known) :
                 c.symbol \in t
                 /\ Cardinality((t \cap SymbolsOf(state.book)) \cup {c.symbol}) > MaxPairs
          BY <3>2 DEF Capped
        <4>2. CASE t \cap SymbolsOf(state.book) \subseteq SymbolsOf(start)
          <5>1. t \cap SymbolsOf(state.book) = t \cap SymbolsOf(start)
            BY <4>2 DEF Untriangled
          <5>2. Cardinality((t \cap SymbolsOf(start)) \cup {c.symbol}) > MaxPairs
            BY <4>1, <5>1
          <5>3. Capped(c, start, known)
            BY <4>1, <5>2 DEF Capped
          <5>. QED
            BY <5>3
        <4>3. CASE ~(t \cap SymbolsOf(state.book) \subseteq SymbolsOf(start))
          <5>1. PICK j \in 1 .. Len(state.accepted) : state.accepted[j].candidate.symbol \in t
            BY <4>3 DEF Untriangled
          <5>2. LosesTo(state.accepted[j].candidate, c, start, known)
            BY <4>1, <5>1 DEF LosesTo
          <5>. QED
            BY <5>2
        <4>. QED
          BY <4>2, <4>3
      <3>. QED
        BY <2>1, <3>1, <3>2
    <2>3. ASSUME NEW i \in 1 .. Len(new.rejected)
          PROVE  \/ \E j \in 1 .. Len(new.accepted) :
                      LosesTo(new.accepted[j].candidate, new.rejected[i].candidate, start, known)
                 \/ Capped(new.rejected[i].candidate, start, known)
      <3>1. i \in 1 .. Len(state.rejected) \/ i = Len(state.rejected) + 1
        BY <1>1, <2>1
      <3>2. CASE i \in 1 .. Len(state.rejected)
        BY <2>1, <3>2 DEF Explained
      <3>3. CASE i = Len(state.rejected) + 1
        BY <2>1, <2>2, <3>3
      <3>. QED
        BY <3>1, <3>2, <3>3
    <2>. QED
      BY <2>3 DEF Explained
  <1>3. CASE Admits(state, new, c, known)
    <2>1. /\ new.rejected = state.rejected /\ Len(new.accepted) = Len(state.accepted) + 1
          /\ \A i \in 1 .. Len(state.accepted) : new.accepted[i] = state.accepted[i]
      BY <1>3 DEF Admits
    <2>2. 1 .. Len(state.accepted) \subseteq 1 .. Len(new.accepted)
      BY <1>1, <2>1
    <2>3. ASSUME NEW i \in 1 .. Len(new.rejected)
          PROVE  \/ \E j \in 1 .. Len(new.accepted) :
                      LosesTo(new.accepted[j].candidate, new.rejected[i].candidate, start, known)
                 \/ Capped(new.rejected[i].candidate, start, known)
      <3>1. CASE \E j \in 1 .. Len(state.accepted) :
                   LosesTo(state.accepted[j].candidate, state.rejected[i].candidate, start, known)
        BY <2>1, <2>2, <3>1
      <3>2. CASE Capped(state.rejected[i].candidate, start, known)
        BY <2>1, <3>2
      <3>. QED
        BY <2>1, <3>1, <3>2 DEF Explained
    <2>. QED
      BY <2>3 DEF Explained
  <1>. QED
    BY <1>2, <1>3

\* The book before an admitted candidate holds those before it.
LEMMA NestedStep ==
  ASSUME NEW C, NEW c \in C, c.exposure \in Exposures,
         NEW state \in Judgements(C), \A d \in C : d.exposure \in Exposures,
         NEW new, NEW known, NEW start \in Seq(Exposures),
         Declines(state, new, c, known) \/ Admits(state, new, c, known),
         Nested(state, start)
  PROVE  Nested(new, start)
  <1>1. /\ Len(state.accepted) \in Nat /\ state.book \in Seq(Exposures)
        /\ \A i \in 1 .. Len(state.accepted) :
             /\ state.accepted[i].candidate \in C
             /\ state.accepted[i].book_before \in Seq(Exposures)
    <2> DEFINE A == [candidate: C, book_before: Seq(Exposures)]
               accepted == state.accepted
    <2>1. accepted \in Seq(A) /\ state.book \in Seq(Exposures)
      BY DEF Judgements
    <2> HIDE DEF A, accepted
    <2>2. Len(accepted) \in Nat /\ \A i \in 1 .. Len(accepted) : accepted[i] \in A
      BY <2>1
    <2>. QED
      BY <2>1, <2>2 DEF A, accepted
  <1>2. CASE Declines(state, new, c, known)
    BY <1>2 DEF Declines, Nested
  <1>3. CASE Admits(state, new, c, known)
    <2> DEFINE n == Len(state.accepted)
    <2>1. /\ n \in Nat /\ Len(new.accepted) = n + 1
          /\ \A i \in 1 .. n : new.accepted[i] = state.accepted[i]
          /\ new.accepted[n + 1] = [candidate |-> c, book_before |-> state.book]
          /\ new.book = Append(state.book, c.exposure)
      BY <1>1, <1>3 DEF Admits
    <2> HIDE DEF n
    <2>2. ASSUME NEW w \in Weightings
          PROVE  /\ Weighed(w, start) <= Weighed(w, new.book)
                 /\ \A i \in 1 .. n + 1 :
                      LET a == new.accepted[i]
                      IN  /\ Weighed(w, start) <= Weighed(w, a.book_before)
                          /\ Weighed(w, a.book_before) + w[a.candidate.exposure]
                               <= Weighed(w, new.book)
                          /\ \A j \in 1 .. n + 1 :
                               i < j => Weighed(w, a.book_before) + w[a.candidate.exposure]
                                          <= Weighed(w, new.accepted[j].book_before)
      <3>1. w \in [Exposures -> Nat]
        BY DEF Weightings
      <3>2. /\ Weighed(w, new.book) = Weighed(w, state.book) + w[c.exposure]
            /\ Weighed(w, state.book) \in Int /\ Weighed(w, start) \in Int
            /\ w[c.exposure] \in Nat
        BY <1>1, <2>1, <3>1, WeighedAppend, WeighedType
      <3>3. \A i \in 1 .. n : /\ Weighed(w, state.accepted[i].book_before) \in Int
                              /\ w[state.accepted[i].candidate.exposure] \in Nat
        BY <1>1, <3>1, WeighedType DEF n
      <3>4. /\ Weighed(w, start) <= Weighed(w, state.book)
            /\ \A i \in 1 .. n :
                 LET a == state.accepted[i]
                 IN  /\ Weighed(w, start) <= Weighed(w, a.book_before)
                     /\ Weighed(w, a.book_before) + w[a.candidate.exposure]
                          <= Weighed(w, state.book)
                     /\ \A j \in 1 .. n :
                          i < j => Weighed(w, a.book_before) + w[a.candidate.exposure]
                                     <= Weighed(w, state.accepted[j].book_before)
        BY DEF Nested, n
      <3>5. ASSUME NEW i \in 1 .. n + 1
            PROVE  LET a == new.accepted[i]
                   IN  /\ Weighed(w, start) <= Weighed(w, a.book_before)
                       /\ Weighed(w, a.book_before) + w[a.candidate.exposure]
                            <= Weighed(w, new.book)
                       /\ \A j \in 1 .. n + 1 :
                            i < j => Weighed(w, a.book_before) + w[a.candidate.exposure]
                                       <= Weighed(w, new.accepted[j].book_before)
        <4>1. CASE i = n + 1
          <5>1. /\ new.accepted[i].book_before = state.book
                /\ new.accepted[i].candidate = c
            BY <2>1, <4>1
          <5>2. \A j \in 1 .. n + 1 : ~(i < j)
            BY <2>1, <4>1
          <5>. QED
            BY <3>2, <3>4, <5>1, <5>2
        <4>2. CASE i \in 1 .. n
          <5>1. new.accepted[i] = state.accepted[i]
            BY <2>1, <4>2
          <5>2. /\ Weighed(w, start) <= Weighed(w, state.accepted[i].book_before)
                /\ Weighed(w, state.accepted[i].book_before)
                     + w[state.accepted[i].candidate.exposure] <= Weighed(w, state.book)
            BY <3>4, <4>2
          <5>3. Weighed(w, state.accepted[i].book_before)
                  + w[state.accepted[i].candidate.exposure] <= Weighed(w, new.book)
            BY <3>2, <3>3, <4>2, <5>2
          <5>4. ASSUME NEW j \in 1 .. n + 1, i < j
                PROVE  Weighed(w, state.accepted[i].book_before)
                         + w[state.accepted[i].candidate.exposure]
                           <= Weighed(w, new.accepted[j].book_before)
            <6>1. CASE j = n + 1
              <7>1. new.accepted[j].book_before = state.book
                BY <2>1, <6>1
              <7>. QED
                BY <5>2, <7>1
            <6>2. CASE j # n + 1
              <7>1. j \in 1 .. n /\ new.accepted[j] = state.accepted[j]
                BY <2>1, <6>2
              <7>. QED
                BY <3>4, <4>2, <5>4, <7>1
            <6>. QED
              BY <6>1, <6>2
          <5>. QED
            BY <5>1, <5>2, <5>3, <5>4
        <4>. QED
          BY <2>1, <4>1, <4>2
      <3>6. Weighed(w, start) <= Weighed(w, new.book)
        BY <3>2, <3>4
      <3>. QED
        BY <3>5, <3>6
    <2>. QED
      BY <2>1, <2>2 DEF Nested
  <1>. QED
    BY <1>2, <1>3

Judged(state, ranked, k, start, known) ==
  /\ Covered(state, ranked, k) /\ Disjoint(state) /\ Untriangled(state, start, known)
  /\ Explained(state, start, known) /\ Nested(state, start)

Unjudged(start) == [claimed |-> {}, book |-> start, accepted |-> <<>>, rejected |-> <<>>]

\* The whole loop, over candidates in their rank.
LEMMA JudgedFacts ==
  ASSUME NEW C, \A c \in C : c.exposure \in Exposures /\ c.exposure.symbol = c.symbol,
         NEW start \in Seq(Exposures), NEW known, IsFiniteSet(known), NEW ranked \in Seq(C),
         \A i, j \in 1 .. Len(ranked) : i < j => Before(ranked[i], ranked[j], start)
  PROVE  /\ JudgeAll(Unjudged(start), ranked, known) \in Judgements(C)
         /\ Judged(JudgeAll(Unjudged(start), ranked, known), ranked, Len(ranked), start, known)
  <1> DEFINE n == Len(ranked)
             base == Unjudged(start)
  <1>1. n \in Nat /\ \A i \in 1 .. n : ranked[i] \in C
    OBVIOUS
  <1>2. base \in Judgements(C)
    BY DEF Judgements, Unjudged
  <1>3. PICK run : Judges(run, C, base, ranked, known)
    <2> HIDE DEF base
    <2>. QED
      BY <1>2, JudgeRun
  <1>4. /\ run \in [0 .. n -> Judgements(C)] /\ run[0] = base
        /\ \A k \in 1 .. n : run[k] = Judge(run[k - 1], ranked[k], known)
        /\ run[n] = JudgeAll(base, ranked, known)
    BY <1>3 DEF Judges
  <1>5. \A i, j \in 1 .. n : i < j => Before(ranked[i], ranked[j], start)
    OBVIOUS
  <1> HIDE DEF n
  <1> DEFINE T == {k \in 0 .. n : Judged(run[k], ranked, k, start, known)}
  <1>6. 0 \in T
    <2>1. Len(base.accepted) = 0 /\ Len(base.rejected) = 0 /\ base.claimed = {} /\ base.book = start
      BY DEF Unjudged
    <2>2. 1 .. 0 = {}
      OBVIOUS
    <2> HIDE DEF base
    <2>3. Covered(base, ranked, 0) /\ Disjoint(base) /\ Explained(base, start, known)
      BY <2>1, <2>2 DEF Covered, Disjoint, Explained
    <2>4. Untriangled(base, start, known)
      BY <2>1, <2>2 DEF Untriangled
    <2>5. Nested(base, start)
      <3>1. ASSUME NEW w \in Weightings
            PROVE  Weighed(w, start) <= Weighed(w, start)
        BY WeighedType DEF Weightings
      <3>. QED
        BY <2>1, <2>2, <3>1 DEF Nested
    <2>. QED
      BY <1>1, <1>4, <2>3, <2>4, <2>5 DEF Judged
  <1> HIDE DEF T
  <1>7. ASSUME NEW k \in 0 .. n, k \in T, k < n
        PROVE  k + 1 \in T
    <2>1. k + 1 \in 1 .. n /\ (k + 1) - 1 = k /\ k + 1 \in 0 .. n /\ k \in Nat
      BY <1>1, <1>7
    <2> DEFINE state == run[k]
               new == run[k + 1]
               c == ranked[k + 1]
    <2>2. state \in Judgements(C) /\ new \in Judgements(C) /\ c \in C
      BY <1>1, <1>4, <2>1
    <2>3. new = Judge(state, c, known)
      BY <1>4, <2>1
    <2>4. /\ Covered(state, ranked, k) /\ Disjoint(state) /\ Untriangled(state, start, known)
          /\ Explained(state, start, known) /\ Nested(state, start)
      BY <1>7 DEF T, Judged
    <2>5. \A i \in 1 .. Len(state.accepted) : Before(state.accepted[i].candidate, c, start)
      <3>1. ASSUME NEW i \in 1 .. Len(state.accepted)
            PROVE  Before(state.accepted[i].candidate, c, start)
        <4>1. PICK m \in 1 .. k : state.accepted[i].candidate = ranked[m]
          BY <2>4 DEF Covered
        <4>2. m \in 1 .. n /\ m < k + 1
          BY <1>1, <1>7, <2>1
        <4>. QED
          BY <1>5, <2>1, <4>1, <4>2
      <3>. QED
        BY <3>1
    <2> HIDE DEF state, new
    <2>6. Declines(state, new, c, known) \/ Admits(state, new, c, known)
      <3> HIDE DEF c
      <3>. QED
        BY <2>2, <2>3, JudgeCases
    <2>7. Covered(new, ranked, k + 1)
      BY <2>1, <2>2, <2>4, <2>6, CoveredStep
    <2> HIDE DEF c
    <2>8. Disjoint(new)
      BY <2>2, <2>4, <2>6, DisjointStep
    <2>9. Untriangled(new, start, known)
      BY <2>2, <2>4, <2>6, UntriangledStep
    <2>10. Explained(new, start, known)
      BY <2>2, <2>4, <2>5, <2>6, ExplainedStep
    <2>11. Nested(new, start)
      BY <2>2, <2>4, <2>6, NestedStep
    <2>. QED
      BY <2>1, <2>7, <2>8, <2>9, <2>10, <2>11 DEF T, Judged, new
  <1>8. 0 .. n \subseteq T
    BY <1>1, <1>6, <1>7, InductionTo
  <1>. QED
    BY <1>1, <1>4, <1>8 DEF n, T

-----------------------------------------------------------------------------
(* What the arbitrator returns for candidates of different keys *)

\* A book has finitely many symbols.
LEMMA SymbolsFinite ==
  ASSUME NEW A, NEW s \in Seq(A)
  PROVE  IsFiniteSet({s[i].symbol : i \in DOMAIN s})
  <1> DEFINE S == {s[i].symbol : i \in DOMAIN s}
             f == [i \in DOMAIN s |-> s[i].symbol]
  <1>1. PICK n : n = Len(s)
    OBVIOUS
  <1>2. n \in Nat /\ DOMAIN s = 1 .. n /\ 1 \in Int /\ n \in Int
    BY <1>1
  <1>3. IsFiniteSet(DOMAIN s)
    BY <1>2, FS_Interval
  <1>4. f \in Surjection(DOMAIN s, S)
    BY DEF Surjection
  <1> HIDE DEF S, f
  <1>5. IsFiniteSet(S)
    BY <1>3, <1>4, FS_Surjection DEF ExistsSurjection
  <1>. QED
    BY <1>5 DEF S

Distinct(candidates) ==
  \A i, j \in DOMAIN candidates : i # j =>
    <<candidates[i].strategy, candidates[i].symbol>>
      # <<candidates[j].strategy, candidates[j].symbol>>

\* Every candidate is accepted or rejected, by a state the loop may end in.
Selects(sel, C, candidates, start) ==
  \E state \in Judgements(C) :
    LET known == SymbolsOf(start) \cup {candidates[i].symbol : i \in DOMAIN candidates}
    IN  /\ sel.accepted = state.accepted /\ sel.rejected = state.rejected
        /\ \A c \in ToSet(candidates) :
             \/ \E i \in 1 .. Len(state.accepted) : state.accepted[i].candidate = c
             \/ \E i \in 1 .. Len(state.rejected) : state.rejected[i].candidate = c
        /\ \A i \in 1 .. Len(state.accepted) : state.accepted[i].candidate \in ToSet(candidates)
        /\ \A i \in 1 .. Len(state.rejected) : state.rejected[i].candidate \in ToSet(candidates)
        /\ Disjoint(state) /\ Untriangled(state, start, known)
        /\ Explained(state, start, known) /\ Nested(state, start)

\* What Select returns, whatever the candidates and the book.
LEMMA SelectFacts ==
  ASSUME NEW C,
         \A c \in C : /\ c.exposure \in Exposures /\ c.exposure.symbol = c.symbol
                      /\ Rankable(c) /\ Valid(c),
         NEW candidates \in Seq(C), Distinct(candidates), NEW start \in Seq(Exposures)
  PROVE  Selects(Select(candidates, start), C, candidates, start)
  <1> DEFINE known == SymbolsOf(start) \cup {candidates[i].symbol : i \in DOMAIN candidates}
             ranked == Ranked(candidates, start)
             n == Len(candidates)
             state == JudgeAll(Unjudged(start), ranked, known)
             invalid == Among(candidates, {c \in ToSet(candidates) : ~Valid(c)})
             sel == Select(candidates, start)
  <1>1. ranked \in Seq(C) /\ Sorts(ranked, candidates, n, start)
    BY RankedFacts DEF Distinct
  <1>2. IsFiniteSet(known)
    <2> DEFINE held == SymbolsOf(start)
               asked == {candidates[i].symbol : i \in DOMAIN candidates}
    <2>1. IsFiniteSet(held) /\ IsFiniteSet(asked)
      BY SymbolsFinite DEF SymbolsOf
    <2> HIDE DEF held, asked
    <2>. QED
      BY <2>1, FS_Union DEF held, asked
  <1>3. n \in Nat /\ DOMAIN candidates = 1 .. n /\ Len(ranked) = n
    BY <1>1 DEF Sorts
  <1>4. \A i, j \in 1 .. Len(ranked) : i < j => Before(ranked[i], ranked[j], start)
    BY <1>1, <1>3 DEF Sorts
  <1>5. state \in Judgements(C) /\ Judged(state, ranked, Len(ranked), start, known)
    <2> HIDE DEF known, ranked
    <2>. QED
      BY <1>1, <1>2, <1>4, JudgedFacts
  <1>6. invalid = <<>>
    <2> DEFINE V == {c \in ToSet(candidates) : ~Valid(c)}
    <2>0. V = {}
      BY DEF ToSet
    <2> HIDE DEF V
    <2>1. invalid \in Seq(C) /\ ToSet(invalid) = ToSet(candidates) \cap V
      BY AmongFacts DEF V
    <2> HIDE DEF invalid
    <2>2. DOMAIN invalid = 1 .. Len(invalid) /\ Len(invalid) \in Nat
      BY <2>1
    <2>3. Len(invalid) = 0
      <3>1. 1 \notin DOMAIN invalid
        BY <2>0, <2>1 DEF ToSet
      <3>. QED
        BY <2>2, <3>1
    <2>. QED
      BY <2>1, <2>3
  <1>7. sel.accepted = state.accepted /\ sel.rejected = state.rejected
    <2>1. sel = [accepted |-> state.accepted,
                 rejected |-> state.rejected \o [i \in DOMAIN invalid |-> Invalid(invalid[i])]]
      BY Zenon DEF Select, JudgeAll, Unjudged
    <2> HIDE DEF invalid, state, sel
    <2>2. [i \in DOMAIN invalid |-> Invalid(invalid[i])] = <<>>
      BY <1>6
    <2>3. state.rejected \in Seq([candidate: C, reason: Reasons])
      BY <1>5 DEF Judgements
    <2>4. state.rejected \o <<>> = state.rejected
      BY <2>3
    <2>. QED
      BY <2>1, <2>2, <2>4
  <1>8. ToSet(candidates) = {ranked[m] : m \in 1 .. Len(ranked)}
    <2>1. ToSet(ranked) = {candidates[i] : i \in 1 .. n} /\ DOMAIN ranked = 1 .. Len(ranked)
      BY <1>1 DEF Sorts
    <2>. QED
      BY <1>3, <2>1 DEF ToSet
  <1> HIDE DEF state, ranked, known, sel, n
  <1>9. /\ Covered(state, ranked, Len(ranked)) /\ Disjoint(state)
        /\ Untriangled(state, start, known)
        /\ Explained(state, start, known) /\ Nested(state, start)
    BY <1>5 DEF Judged
  <1>10. /\ \A c \in ToSet(candidates) :
             \/ \E i \in 1 .. Len(state.accepted) : state.accepted[i].candidate = c
             \/ \E i \in 1 .. Len(state.rejected) : state.rejected[i].candidate = c
         /\ \A i \in 1 .. Len(state.accepted) : state.accepted[i].candidate \in ToSet(candidates)
         /\ \A i \in 1 .. Len(state.rejected) : state.rejected[i].candidate \in ToSet(candidates)
    <2>1. \A m \in 1 .. Len(ranked) : ranked[m] \in ToSet(candidates)
      BY <1>8
    <2>2. \A c \in ToSet(candidates) : \E m \in 1 .. Len(ranked) : c = ranked[m]
      BY <1>8
    <2>3. Covered(state, ranked, Len(ranked))
      BY <1>9
    <2>4. ASSUME NEW c \in ToSet(candidates)
          PROVE  \/ \E i \in 1 .. Len(state.accepted) : state.accepted[i].candidate = c
                 \/ \E i \in 1 .. Len(state.rejected) : state.rejected[i].candidate = c
      <3>1. PICK m \in 1 .. Len(ranked) : c = ranked[m]
        BY <2>2
      <3>. QED
        BY <2>3, <3>1 DEF Covered
    <2>5. ASSUME NEW i \in 1 .. Len(state.accepted)
          PROVE  state.accepted[i].candidate \in ToSet(candidates)
      BY <2>1, <2>3 DEF Covered
    <2>6. ASSUME NEW i \in 1 .. Len(state.rejected)
          PROVE  state.rejected[i].candidate \in ToSet(candidates)
      BY <2>1, <2>3 DEF Covered
    <2>. QED
      BY <2>4, <2>5, <2>6
  <1>. QED
    BY <1>5, <1>7, <1>9, <1>10 DEF Selects, known, sel

-----------------------------------------------------------------------------
(* What a signal is sized to *)

Intents == [signal: Signals, action: Actions, symbol: DOMAIN Base, direction: Direction, units: Nat]

\* An intent carries its signal; an entry has its direction and its size, which
\* is left open only for want of a rate.
Stems(x, c) ==
  /\ x \in Intents /\ x.signal = c /\ x.symbol = c.symbol
  /\ x.action \in Opening =>
       /\ x.direction = c.direction
       /\ x.units = 0 => ConversionError(market, Quote[c.symbol], "RISK_INCREASING") # "none"

\* A size is a number, and none without a rate.
LEMMA UnitsFacts ==
  ASSUME NEW c \in Signals, c.stop # 0
  PROVE  /\ ProposedUnits(c) \in Nat
         /\ ConversionError(market, Quote[c.symbol], "RISK_INCREASING") # "none"
              => ProposedUnits(c) = 0
  <1>1. PICK step : step = 100 * c.stop
    OBVIOUS
  <1>2. c.stop \in Nat \ {0} /\ step \in Nat \ {0}
    BY <1>1, CycleAssumption DEF Signals
  <1>3. TradeBudget \div step \in Nat
    BY <1>2, RiskAssumption
  <1>. QED
    BY <1>1, <1>3 DEF ProposedUnits

\* intents_from_signal: at most one entry, and no reversing one without its close.
SizedWell(s, c) ==
  /\ s \in Seq(Intents)
  /\ \A p \in 1 .. Len(s) : Stems(s[p], c)
  /\ \A p, q \in 1 .. Len(s) : s[p].action \in Opening /\ s[q].action \in Opening => p = q
  /\ (\E p \in 1 .. Len(s) : s[p].action = "OPEN")
       /\ HeldSide(ledger, <<c.strategy, c.symbol>>) = Opposite(c.direction) =>
         \E p \in 1 .. Len(s) : s[p].action = "CLOSE"

\* intents_from_signal gives what SizedWell says.
LEMMA IntentsFacts ==
  ASSUME NEW c \in Signals
  PROVE  SizedWell(IntentsFromSignal(c), c)
  <1> DEFINE held == HeldSide(ledger, <<c.strategy, c.symbol>>)
             reverses == held = Opposite(c.direction)
             close == Intent(c, "CLOSE", held, 0)
             entry == Intent(c, IF held = c.direction THEN "INCREASE" ELSE "OPEN",
                             c.direction, ProposedUnits(c))
             result == IntentsFromSignal(c)
  <1>1. c.direction \in Side /\ c.symbol \in DOMAIN Base /\ Side = Direction
    BY DEF Signals, Side, Direction
  <1>2. reverses => Stems(close, c) /\ close.action = "CLOSE" /\ close.action \notin Opening
    BY <1>1 DEF Stems, Intents, Intent, Opening, Opposite, Actions, Side
  <1>3. c.stop # 0 /\ (ProposedUnits(c) > 0
                      \/ ConversionError(market, Quote[c.symbol], "RISK_INCREASING") # "none")
          => Stems(entry, c) /\ entry.action \in Opening
    <2>1. ASSUME c.stop # 0,
                 ProposedUnits(c) > 0
                   \/ ConversionError(market, Quote[c.symbol], "RISK_INCREASING") # "none"
          PROVE  Stems(entry, c) /\ entry.action \in Opening
      <3>1. ProposedUnits(c) \in Nat
        BY <2>1, UnitsFacts
      <3>. QED
        BY <1>1, <2>1, <3>1 DEF Stems, Intents, Intent, Opening, Actions
    <2>. QED
      BY <2>1
  <1>4. \/ result = <<>>
        \/ reverses /\ result = <<close>>
        \/ /\ c.stop # 0
           /\ ProposedUnits(c) > 0
              \/ ConversionError(market, Quote[c.symbol], "RISK_INCREASING") # "none"
           /\ result = IF reverses THEN <<close, entry>> ELSE <<entry>>
    <2>1. ASSUME NEW x, NEW y
          PROVE  Append(<<x>>, y) = <<x, y>> /\ Append(<<>>, y) = <<y>>
      <3>1. <<x>> \in Seq({x, y}) /\ <<>> \in Seq({x, y}) /\ y \in {x, y}
        OBVIOUS
      <3>2. /\ Append(<<x>>, y) \in Seq({x, y}) /\ Len(Append(<<x>>, y)) = 2
            /\ Append(<<x>>, y)[1] = x /\ Append(<<x>>, y)[2] = y
        BY <3>1
      <3>3. /\ Append(<<>>, y) \in Seq({x, y}) /\ Len(Append(<<>>, y)) = 1
            /\ Append(<<>>, y)[1] = y
        BY <3>1
      <3>4. /\ <<x, y>> \in Seq({x, y}) /\ Len(<<x, y>>) = 2
            /\ <<y>> \in Seq({x, y}) /\ Len(<<y>>) = 1
        OBVIOUS
      <3>5. \A i \in 1 .. 2 : Append(<<x>>, y)[i] = <<x, y>>[i]
        BY <3>2
      <3>6. \A i \in 1 .. 1 : Append(<<>>, y)[i] = <<y>>[i]
        BY <3>3
      <3>7. Append(<<x>>, y) = <<x, y>>
        BY <3>2, <3>4, <3>5, SeqEqual
      <3>8. Append(<<>>, y) = <<y>>
        BY <3>3, <3>4, <3>6, SeqEqual
      <3>. QED
        BY <3>7, <3>8
    <2> DEFINE sizeable == ProposedUnits(c) > 0
                 \/ ConversionError(market, Quote[c.symbol], "RISK_INCREASING") # "none"
               first == IF reverses THEN <<close>> ELSE <<>>
    <2>2. result = CASE c.exit_only -> first
                     [] ~c.exit_only /\ (c.stop = 0 \/ ~sizeable) -> <<>>
                     [] OTHER -> Append(first, entry)
      BY Zenon DEF IntentsFromSignal
    <2> HIDE DEF result, sizeable, reverses, close, entry
    <2>3. c.exit_only \/ (~c.exit_only /\ (c.stop = 0 \/ ~sizeable))
          \/ (~c.exit_only /\ c.stop # 0 /\ sizeable)
      OBVIOUS
    <2>. QED
      BY <2>1, <2>2, <2>3 DEF sizeable
  <1>5. (\A x : Stems(x, c) => x \in Intents)
    BY DEF Stems
  <1> HIDE DEF held, reverses, close, entry, result
  <1>6. CASE result = <<>>
    BY <1>6 DEF SizedWell, result
  <1>7. CASE reverses /\ result = <<close>>
    BY <1>2, <1>5, <1>7 DEF SizedWell, result
  <1>8. CASE /\ c.stop # 0
             /\ ProposedUnits(c) > 0
                \/ ConversionError(market, Quote[c.symbol], "RISK_INCREASING") # "none"
             /\ result = IF reverses THEN <<close, entry>> ELSE <<entry>>
    <2>1. CASE reverses
      <3>1. result = <<close, entry>>
        BY <1>8, <2>1
      <3>. QED
        BY <1>2, <1>3, <1>5, <1>8, <2>1, <3>1 DEF SizedWell, result
    <2>2. CASE ~reverses
      <3>1. result = <<entry>>
        BY <1>8, <2>2
      <3>. QED
        BY <1>3, <1>5, <1>8, <2>2, <3>1 DEF SizedWell, result, reverses, held
    <2>. QED
      BY <2>1, <2>2
  <1>. QED
    BY <1>4, <1>6, <1>7, <1>8

\* The intents of the signals, one signal after another.
Sizes(run, signals) ==
  /\ run \in [0 .. Len(signals) -> Seq(Intents)]
  /\ run[0] = <<>>
  /\ \A k \in 1 .. Len(signals) : run[k] = run[k - 1] \o IntentsFromSignal(signals[k])
  /\ run[Len(signals)] = IntentsOf(signals)

\* IntentsOf takes one signal after another.
LEMMA IntentsRun ==
  ASSUME NEW signals \in Seq(Signals)
  PROVE  \E run : Sizes(run, signals)
  <1> DEFINE n == Len(signals)
             A == Seq(Intents)
             op == [p \in A \X (1 .. n) |-> p[1] \o IntentsFromSignal(signals[p[2]])]
             Iter(f) == f = [t \in SUBSET DOMAIN signals |->
                               IF t = {} THEN <<>>
                               ELSE f[t \ {Max(t)}] \o IntentsFromSignal(signals[Max(t)])]
             it == CHOOSE f : Iter(f)
  <1>1. n \in Nat /\ DOMAIN signals = 1 .. n
    OBVIOUS
  <1>2. op \in [A \X (1 .. n) -> A] /\ <<>> \in A
    <2>1. ASSUME NEW p \in A \X (1 .. n)
          PROVE  p[1] \o IntentsFromSignal(signals[p[2]]) \in A
      <3>1. p[1] \in A /\ p[2] \in 1 .. n /\ signals[p[2]] \in Signals
        BY <1>1
      <3>2. IntentsFromSignal(signals[p[2]]) \in Seq(Intents)
        BY <3>1, IntentsFacts DEF SizedWell
      <3>. QED
        BY <3>1, <3>2
    <2>. QED
      BY <2>1
  <1>4. IntentsOf(signals) = it[1 .. n]
    BY <1>1, Zenon DEF IntentsOf, FoldLeft, MapThenFoldSet
  <1> HIDE DEF n, it
  <1>3. ASSUME NEW a \in A, NEW i \in 1 .. n
        PROVE  op[<<a, i>>] = a \o IntentsFromSignal(signals[i])
    <2>1. <<a, i>> \in A \X (1 .. n)
      OBVIOUS
    <2>. QED
      BY <2>1
  <1> HIDE DEF op, A
  <1>5. ASSUME NEW t \in SUBSET (1 .. n), t # {}
        PROVE  Max(t) \in 1 .. n /\ t \ {Max(t)} \in SUBSET (1 .. n)
    BY <1>1, <1>5, MaxUpTo
  <1>6. Iter(it)
    <2>1. PICK f : Recurses(f, A, <<>>, op, n)
      BY <1>1, <1>2, FoldExists
    <2>2. ASSUME NEW t \in SUBSET (1 .. n)
          PROVE  f[t] = IF t = {} THEN <<>> ELSE f[t \ {Max(t)}] \o IntentsFromSignal(signals[Max(t)])
      <3>1. CASE t = {}
        BY <2>1, <3>1 DEF Recurses
      <3>2. CASE t # {}
        <4>1. f[t \ {Max(t)}] \in A /\ f[t] = op[<<f[t \ {Max(t)}], Max(t)>>]
          BY <2>1, <1>5, <3>2 DEF Recurses
        <4>. QED
          BY <3>2, <4>1, <1>3, <1>5
      <3>. QED
        BY <3>1, <3>2
    <2>3. f = [t \in SUBSET (1 .. n) |-> f[t]]
      BY <2>1 DEF Recurses
    <2>4. Iter(f)
      BY <1>1, <2>2, <2>3
    <2> HIDE DEF Iter
    <2>. QED
      BY <2>4 DEF it
  <1>7. it[{}] = <<>>
    BY <1>6
  <1>8. \A t \in SUBSET (1 .. n) :
          t # {} /\ it[t \ {Max(t)}] \in A => it[t] = op[<<it[t \ {Max(t)}], Max(t)>>]
    BY <1>1, <1>3, <1>5, <1>6
  <1>9. Follows(it, A, <<>>, op, n)
    BY <1>7, <1>8 DEF Follows
  <1>10. PICK run : Runs(run, A, <<>>, op, n) /\ run[n] = it[1 .. n]
    <2>1. HasRun(it, A, <<>>, op, n)
      BY <1>1, <1>2, <1>9, FoldRun
    <2>. QED
      BY <2>1 DEF HasRun
  <1>11. ASSUME NEW k \in 1 .. n
         PROVE  run[k] = run[k - 1] \o IntentsFromSignal(signals[k])
    <2>1. k - 1 \in 0 .. n
      BY <1>1
    <2>. QED
      BY <1>10, <1>3, <2>1 DEF Runs
  <1>. QED
    BY <1>4, <1>10, <1>11 DEF n, A, Runs, Sizes

\* The intents of the first k signals.
Reverses(x) ==
  x.action = "OPEN"
  /\ HeldSide(ledger, <<x.signal.strategy, x.signal.symbol>>) = Opposite(x.signal.direction)
SizedAll(s, signals, k) ==
  /\ \A p \in 1 .. Len(s) : \E m \in 1 .. k : Stems(s[p], signals[m])
  /\ \A p, q \in 1 .. Len(s) :
       p # q /\ s[p].action \in Opening /\ s[q].action \in Opening =>
         <<s[p].signal.strategy, s[p].symbol>> # <<s[q].signal.strategy, s[q].symbol>>
  /\ \A p \in 1 .. Len(s) : Reverses(s[p]) =>
       \E q \in 1 .. Len(s) : s[q].signal = s[p].signal /\ s[q].action = "CLOSE"
  /\ \A m \in 1 .. k : IntentsFromSignal(signals[m]) # <<>> =>
       \E p \in 1 .. Len(s) : s[p].signal = signals[m]

\* One more signal adds its intents.
LEMMA SizedStep ==
  ASSUME NEW signals \in Seq(Signals), Distinct(signals),
         NEW k \in Nat, k + 1 \in 1 .. Len(signals),
         NEW s \in Seq(Intents), SizedAll(s, signals, k)
  PROVE  SizedAll(s \o IntentsFromSignal(signals[k + 1]), signals, k + 1)
  <1> DEFINE c == signals[k + 1]
             piece == IntentsFromSignal(c)
             n == Len(s)
             l == Len(piece)
             both == s \o piece
  <1>1. c \in Signals
    OBVIOUS
  <1>2. SizedWell(piece, c)
    <2> HIDE DEF c
    <2>. QED
      BY <1>1, IntentsFacts
  <1>3. piece \in Seq(Intents) /\ n \in Nat /\ l \in Nat
    <2>1. piece \in Seq(Intents)
      BY <1>2 DEF SizedWell
    <2> HIDE DEF piece
    <2>. QED
      BY <2>1
  <1> HIDE DEF piece
  <1>4. /\ both \in Seq(Intents) /\ Len(both) = n + l
        /\ \A p \in 1 .. n : both[p] = s[p]
        /\ \A r \in 1 .. l : both[n + r] = piece[r]
    BY <1>3
  <1>5. ASSUME NEW p \in 1 .. n + l
        PROVE  p \in 1 .. n \/ (p - n \in 1 .. l /\ both[p] = piece[p - n])
    <2>1. CASE p <= n
      BY <1>3, <2>1
    <2>2. CASE p > n
      <3>1. p - n \in 1 .. l /\ n + (p - n) = p
        BY <1>3, <2>2
      <3>. QED
        BY <1>4, <3>1
    <2>. QED
      BY <1>3, <2>1, <2>2
  <1>6. /\ \A p \in 1 .. l : Stems(piece[p], c)
        /\ \A p, q \in 1 .. l : piece[p].action \in Opening /\ piece[q].action \in Opening => p = q
        /\ (\E p \in 1 .. l : piece[p].action = "OPEN")
             /\ HeldSide(ledger, <<c.strategy, c.symbol>>) = Opposite(c.direction) =>
               \E p \in 1 .. l : piece[p].action = "CLOSE"
    BY <1>2 DEF SizedWell
  <1>7. /\ \A p \in 1 .. n : \E m \in 1 .. k : Stems(s[p], signals[m])
        /\ \A p, q \in 1 .. n :
             p # q /\ s[p].action \in Opening /\ s[q].action \in Opening =>
               <<s[p].signal.strategy, s[p].symbol>> # <<s[q].signal.strategy, s[q].symbol>>
        /\ \A p \in 1 .. n : Reverses(s[p]) =>
             \E q \in 1 .. n : s[q].signal = s[p].signal /\ s[q].action = "CLOSE"
        /\ \A m \in 1 .. k : IntentsFromSignal(signals[m]) # <<>> =>
             \E p \in 1 .. n : s[p].signal = signals[m]
    BY DEF SizedAll
  <1>8. \A m \in 1 .. k : /\ m \in 1 .. k + 1
                          /\ <<signals[m].strategy, signals[m].symbol>> # <<c.strategy, c.symbol>>
    <2>1. ASSUME NEW m \in 1 .. k
          PROVE  m \in DOMAIN signals /\ k + 1 \in DOMAIN signals /\ m # k + 1
      OBVIOUS
    <2>. QED
      BY <2>1 DEF Distinct
  <1>9. /\ \A p \in 1 .. n : p \in 1 .. n + l
        /\ \A r \in 1 .. l : n + r \in 1 .. n + l
    BY <1>3
  <1>10. piece = IntentsFromSignal(signals[k + 1]) /\ c = signals[k + 1] /\ k + 1 \in 1 .. k + 1
    BY DEF piece
  <1> HIDE DEF c, both, n, l
  <1>11. ASSUME NEW p \in 1 .. n + l
         PROVE  \E m \in 1 .. k + 1 : Stems(both[p], signals[m])
    BY <1>4, <1>5, <1>6, <1>7, <1>8, <1>10
  <1>12. ASSUME NEW p \in 1 .. n, NEW q \in 1 .. l
         PROVE  <<s[p].signal.strategy, s[p].symbol>> # <<piece[q].signal.strategy, piece[q].symbol>>
    <2>1. PICK m \in 1 .. k : Stems(s[p], signals[m])
      BY <1>7
    <2>2. s[p].signal.strategy = signals[m].strategy /\ s[p].symbol = signals[m].symbol
      BY <2>1 DEF Stems
    <2>3. piece[q].signal.strategy = c.strategy /\ piece[q].symbol = c.symbol
      BY <1>6 DEF Stems
    <2>. QED
      BY <1>8, <2>2, <2>3
  <1>13. ASSUME NEW p \in 1 .. n + l, NEW q \in 1 .. n + l, p # q,
                both[p].action \in Opening, both[q].action \in Opening
         PROVE  <<both[p].signal.strategy, both[p].symbol>>
                  # <<both[q].signal.strategy, both[q].symbol>>
    <2>1. CASE p \in 1 .. n /\ q \in 1 .. n
      <3>1. both[p] = s[p] /\ both[q] = s[q]
        BY <1>4, <2>1
      <3>2. s[p].action \in Opening /\ s[q].action \in Opening
        BY <1>13, <3>1
      <3>3. <<s[p].signal.strategy, s[p].symbol>> # <<s[q].signal.strategy, s[q].symbol>>
        BY <1>7, <1>13, <2>1, <3>2, Zenon
      <3>. QED
        BY <3>1, <3>3
    <2>2. CASE p \in 1 .. n /\ q - n \in 1 .. l /\ both[q] = piece[q - n]
      BY <1>4, <1>12, <2>2
    <2>3. CASE q \in 1 .. n /\ p - n \in 1 .. l /\ both[p] = piece[p - n]
      BY <1>4, <1>12, <2>3
    <2>4. CASE /\ p - n \in 1 .. l /\ both[p] = piece[p - n]
               /\ q - n \in 1 .. l /\ both[q] = piece[q - n]
      <3>1. p - n = q - n
        BY <1>6, <1>13, <2>4
      <3>. QED
        BY <1>3, <1>13, <3>1
    <2>. QED
      BY <1>5, <2>1, <2>2, <2>3, <2>4
  <1>14. ASSUME NEW p \in 1 .. n + l, Reverses(both[p])
         PROVE  \E q \in 1 .. n + l : both[q].signal = both[p].signal /\ both[q].action = "CLOSE"
    <2>1. CASE p \in 1 .. n
      <3>1. PICK q \in 1 .. n : s[q].signal = s[p].signal /\ s[q].action = "CLOSE"
        BY <1>4, <1>7, <1>14, <2>1
      <3>. QED
        BY <1>4, <1>9, <2>1, <3>1
    <2>2. CASE p - n \in 1 .. l /\ both[p] = piece[p - n]
      <3>1. piece[p - n].signal = c /\ piece[p - n].action = "OPEN"
            /\ HeldSide(ledger, <<c.strategy, c.symbol>>) = Opposite(c.direction)
        BY <1>6, <1>14, <2>2 DEF Reverses, Stems
      <3>2. PICK q \in 1 .. l : piece[q].action = "CLOSE"
        BY <1>6, <2>2, <3>1
      <3>3. piece[q].signal = c
        BY <1>6 DEF Stems
      <3>4. both[n + q] = piece[q] /\ n + q \in 1 .. n + l
        BY <1>4, <1>9
      <3>. QED
        BY <2>2, <3>1, <3>2, <3>3, <3>4
    <2>. QED
      BY <1>5, <2>1, <2>2
  <1>15. ASSUME NEW m \in 1 .. k + 1, IntentsFromSignal(signals[m]) # <<>>
         PROVE  \E p \in 1 .. n + l : both[p].signal = signals[m]
    <2>1. CASE m \in 1 .. k
      <3>1. PICK p \in 1 .. n : s[p].signal = signals[m]
        BY <1>7, <1>15, <2>1
      <3>. QED
        BY <1>4, <1>9, <3>1
    <2>2. CASE m = k + 1
      <3>1. l # 0
        BY <1>3, <1>10, <1>15, <2>2 DEF l
      <3>2. 1 \in 1 .. l
        BY <1>3, <3>1
      <3>3. piece[1].signal = c /\ both[n + 1] = piece[1] /\ n + 1 \in 1 .. n + l
        BY <1>4, <1>6, <1>9, <3>2 DEF Stems
      <3>. QED
        BY <1>10, <2>2, <3>3
    <2>3. m \in 1 .. k \/ m = k + 1
      OBVIOUS
    <2>. QED
      BY <2>1, <2>2, <2>3
  <1>16. SizedAll(both, signals, k + 1)
    BY <1>4, <1>11, <1>13, <1>14, <1>15 DEF SizedAll
  <1>. QED
    BY <1>10, <1>16 DEF both

\* The intents of a sequence of signals of different strategies or symbols.
LEMMA IntentsOfFacts ==
  ASSUME NEW signals \in Seq(Signals), Distinct(signals)
  PROVE  IntentsOf(signals) \in Seq(Intents) /\ SizedAll(IntentsOf(signals), signals, Len(signals))
  <1> DEFINE n == Len(signals)
  <1>1. n \in Nat
    OBVIOUS
  <1>2. PICK run : Sizes(run, signals)
    BY IntentsRun
  <1>3. /\ run \in [0 .. n -> Seq(Intents)] /\ run[0] = <<>>
        /\ \A k \in 1 .. n : run[k] = run[k - 1] \o IntentsFromSignal(signals[k])
        /\ run[n] = IntentsOf(signals)
    BY <1>2 DEF Sizes
  <1> DEFINE T == {k \in 0 .. n : SizedAll(run[k], signals, k)}
  <1>4. 0 \in T
    <2>1. SizedAll(<<>>, signals, 0)
      BY DEF SizedAll
    <2>. QED
      BY <1>1, <1>3, <2>1
  <1> HIDE DEF T
  <1>5. ASSUME NEW k \in 0 .. n, k \in T, k < n
        PROVE  k + 1 \in T
    <2>1. k + 1 \in 1 .. n /\ (k + 1) - 1 = k /\ k + 1 \in 0 .. n /\ k \in Nat
      BY <1>1, <1>5
    <2>2. run[k + 1] = run[k] \o IntentsFromSignal(signals[k + 1]) /\ run[k] \in Seq(Intents)
      BY <1>3, <2>1
    <2>3. SizedAll(run[k], signals, k)
      BY <1>5 DEF T
    <2>4. SizedAll(run[k + 1], signals, k + 1)
      BY <2>1, <2>2, <2>3, SizedStep
    <2>. QED
      BY <2>1, <2>4 DEF T
  <1>6. 0 .. n \subseteq T
    BY <1>1, <1>4, <1>5, InductionTo
  <1>. QED
    BY <1>1, <1>3, <1>6 DEF T

-----------------------------------------------------------------------------
(* The queue of verdicts a plan makes *)

VerdictSet ==
  [kind: {"exit", "accepted", "rejected"}, item: Intents, book: Seq(Exposures)]
ExposureOf(x) ==
  [symbol |-> x.symbol, units |-> Signed(x.direction, x.units), stop |-> x.signal.stop]

\* The exposure of an intent belongs into a book.
LEMMA ExposureType ==
  ASSUME NEW x \in Intents
  PROVE  ExposureOf(x) \in Exposures
  <1>1. x.signal.stop \in Nat /\ x.symbol \in DOMAIN Base /\ x.units \in Nat
    BY CycleAssumption DEF Intents, Signals
  <1>. QED
    BY <1>1 DEF ExposureOf, Exposures, Signed

\* Three sequences in a row.
Joined(s, x, y, z) ==
  /\ Len(s) = Len(x) + Len(y) + Len(z)
  /\ \A i \in 1 .. Len(x) : s[i] = x[i]
  /\ \A i \in 1 .. Len(y) : s[Len(x) + i] = y[i]
  /\ \A i \in 1 .. Len(z) : s[Len(x) + Len(y) + i] = z[i]
  /\ \A i \in 1 .. Len(s) :
       \/ i \in 1 .. Len(x)
       \/ i - Len(x) \in 1 .. Len(y) /\ s[i] = y[i - Len(x)]
       \/ i - Len(x) - Len(y) \in 1 .. Len(z) /\ s[i] = z[i - Len(x) - Len(y)]

Follow(s, V, x, y) ==
  /\ s \in Seq(V) /\ Len(s) = Len(x) + Len(y)
  /\ \A i \in 1 .. Len(x) : s[i] = x[i]
  /\ \A i \in 1 .. Len(y) : s[Len(x) + i] = y[i]

\* Two sequences in a row.
LEMMA ConcatFacts ==
  ASSUME NEW V, NEW x \in Seq(V), NEW y \in Seq(V)
  PROVE  Follow(x \o y, V, x, y)
  BY DEF Follow

\* Concatenation of three sequences, by index.
LEMMA JoinedFacts ==
  ASSUME NEW V, NEW x \in Seq(V), NEW y \in Seq(V), NEW z \in Seq(V)
  PROVE  (x \o y) \o z \in Seq(V) /\ Joined((x \o y) \o z, x, y, z)
  <1> DEFINE a == Len(x)
             b == Len(y)
             c == Len(z)
             xy == x \o y
             s == xy \o z
  <1>1. a \in Nat /\ b \in Nat /\ c \in Nat
    OBVIOUS
  <1>2. /\ xy \in Seq(V) /\ Len(xy) = a + b
        /\ \A i \in 1 .. a : xy[i] = x[i]
        /\ \A i \in 1 .. b : xy[a + i] = y[i]
    OBVIOUS
  <1> HIDE DEF xy
  <1>3. /\ s \in Seq(V) /\ Len(s) = a + b + c
        /\ \A i \in 1 .. a + b : s[i] = xy[i]
        /\ \A i \in 1 .. c : s[a + b + i] = z[i]
    <2>1. /\ xy \o z \in Seq(V) /\ Len(xy \o z) = Len(xy) + Len(z)
          /\ \A i \in 1 .. Len(xy) : (xy \o z)[i] = xy[i]
          /\ \A i \in 1 .. Len(z) : (xy \o z)[Len(xy) + i] = z[i]
      <3>1. Follow(xy \o z, V, xy, z)
        BY <1>2, ConcatFacts
      <3>. QED
        BY <3>1 DEF Follow
    <2>2. Len(xy) = a + b /\ Len(z) = c
      BY <1>2
    <2>. QED
      BY <2>1, <2>2
  <1> HIDE DEF a, b, c, s
  <1>4. \A i \in 1 .. a : s[i] = x[i]
    BY <1>1, <1>2, <1>3
  <1>5. ASSUME NEW i \in 1 .. b
        PROVE  s[a + i] = y[i]
    <2>1. a + i \in 1 .. a + b
      BY <1>1
    <2>. QED
      BY <1>2, <1>3, <2>1
  <1>6. ASSUME NEW i \in 1 .. a + b + c
        PROVE  \/ i \in 1 .. a
               \/ i - a \in 1 .. b /\ s[i] = y[i - a]
               \/ i - a - b \in 1 .. c /\ s[i] = z[i - a - b]
    <2>1. CASE i <= a
      BY <1>1, <2>1
    <2>2. CASE i > a /\ i <= a + b
      <3>1. i - a \in 1 .. b /\ a + (i - a) = i
        BY <1>1, <2>2
      <3>2. s[a + (i - a)] = y[i - a]
        BY <1>5, <3>1
      <3>. QED
        BY <3>1, <3>2
    <2>3. CASE i > a + b
      <3>1. i - a - b \in 1 .. c /\ a + b + (i - a - b) = i
        BY <1>1, <2>3
      <3>2. s[a + b + (i - a - b)] = z[i - a - b]
        BY <1>3, <3>1
      <3>. QED
        BY <3>1, <3>2
    <2>. QED
      BY <1>1, <2>1, <2>2, <2>3
  <1>. QED
    BY <1>3, <1>4, <1>5, <1>6 DEF Joined, a, b, c, s, xy

\* The shape of a queue: exits, then accepted, then rejected, each verdict for an
\* intent of its kind.
Queued(q) ==
  /\ q \in Seq(VerdictSet)
  /\ \A i \in 1 .. Len(q) :
       /\ (q[i].kind = "exit") <=> q[i].item.action = "CLOSE"
       /\ Stems(q[i].item, q[i].item.signal)
       /\ q[i].item.symbol \in ToSet(Symbols)
  /\ \A i, j \in 1 .. Len(q) : i < j /\ q[j].kind = "exit" => q[i].kind = "exit"

\* The book before an accepted entry holds the accepted ones before it.
Nests(q) ==
  \A i, j \in 1 .. Len(q) :
    i < j /\ q[i].kind = "accepted" /\ q[j].kind = "accepted" =>
      \A w \in Weightings :
        Weighed(w, q[i].book) + w[ExposureOf(q[i].item)] <= Weighed(w, q[j].book)
HoldsBook(q, book) ==
  \A i \in 1 .. Len(q) : q[i].kind = "accepted" =>
    \A w \in Weightings : Weighed(w, book) <= Weighed(w, q[i].book)

\* The accepted entries share no leg, complete no triangle beyond the cap, and
\* every rejected one lost to one of them or to the book.
Strong(q, book) ==
  /\ \A i, j \in 1 .. Len(q) :
       i # j /\ q[i].kind = "accepted" /\ q[j].kind = "accepted" =>
         Legged(q[i].item) \cap Legged(q[j].item) = {}
  /\ \A i \in 1 .. Len(q) : q[i].kind = "rejected" =>
       \/ \E j \in 1 .. Len(q) :
            /\ q[j].kind = "accepted"
            /\ LosesTo(Candidate(q[j].item), Candidate(q[i].item), book, DOMAIN Base)
       \/ Capped(Candidate(q[i].item), book, DOMAIN Base)

\* Of no triangle over the book and the accepted symbols are too many pairs held
\* on account of the accepted ones.
Uncompleted(taken, book) ==
  \A t \in Triangles(taken \cup SymbolsOf(book)) :
    Cardinality(t) <= MaxPairs \/ t \subseteq SymbolsOf(book)
AcceptedSymbols(q) == {q[i].item.symbol : i \in {j \in 1 .. Len(q) : q[j].kind = "accepted"}}

\* What Plan puts in the queue.
Planned(q, sized, book) ==
  /\ Queued(q) /\ Nests(q) /\ HoldsBook(q, book)
  /\ Strong(q, book) /\ Uncompleted(AcceptedSymbols(q), book)
  /\ \A p \in 1 .. Len(sized) : \E i \in 1 .. Len(q) : q[i].item = sized[p]
  /\ \A i \in 1 .. Len(q) : \E p \in 1 .. Len(sized) : q[i].item = sized[p]

Entries(sized) == {x \in ToSet(sized) : x.action \in Opening}
Exits(sized) == {x \in ToSet(sized) : x.action = "CLOSE"}

\* The entries of a cycle as candidates.
EntrySet == {x \in Intents : x.action \in Opening /\ x.symbol \in ToSet(Symbols)}
CandidateSet == {Candidate(x) : x \in EntrySet}

\* An entry is a candidate that can be ranked.
LEMMA CandidateFacts ==
  ASSUME NEW c \in CandidateSet
  PROVE  /\ c.item \in EntrySet /\ c = Candidate(c.item)
         /\ c.exposure = ExposureOf(c.item) /\ c.exposure \in Exposures
         /\ c.exposure.symbol = c.symbol /\ c.symbol = c.item.symbol
         /\ c.strategy = c.item.signal.strategy
         /\ Claims(c) = Legged(c.item) /\ Rankable(c) /\ Valid(c)
  <1>1. PICK x \in EntrySet : c = Candidate(x)
    BY DEF CandidateSet
  <1>2. /\ c.item = x /\ c.exposure = ExposureOf(x) /\ c.symbol = x.symbol
        /\ c.direction = x.direction /\ c.strategy = x.signal.strategy
        /\ c.value = ValueOf[x.signal.strategy] /\ ~c.expired /\ c.enabled
    BY <1>1 DEF Candidate, ExposureOf
  <1>3. c.exposure \in Exposures /\ c.exposure.symbol = c.symbol
    <2>1. ExposureOf(x) \in Exposures /\ ExposureOf(x).symbol = x.symbol
      BY ExposureType DEF EntrySet, ExposureOf
    <2>. QED
      BY <1>2, <2>1
  <1>4. Rankable(c)
    <2>1. x.signal.strategy \in ToSet(Strategies) /\ x.symbol \in ToSet(Symbols)
      BY DEF EntrySet, Intents, Signals
    <2>. QED
      BY <1>2, <2>1, CycleAssumption DEF Rankable
  <1>5. Claims(c) = Legged(x)
    BY <1>2 DEF Claims, Legged
  <1>. QED
    BY <1>1, <1>2, <1>3, <1>4, <1>5 DEF Valid

\* The candidates the arbitrator is given.
Candidates(sized) ==
  LET entries == Among(sized, Entries(sized)) IN [i \in DOMAIN entries |-> Candidate(entries[i])]

\* The candidates of a plan are its entries, each once.
LEMMA CandidatesFacts ==
  ASSUME NEW signals, NEW k, NEW sized \in Seq(Intents), SizedAll(sized, signals, k),
         \A p \in 1 .. Len(sized) : sized[p].symbol \in ToSet(Symbols)
  PROVE  /\ Candidates(sized) \in Seq(CandidateSet) /\ Distinct(Candidates(sized))
         /\ ToSet(Candidates(sized)) = {Candidate(x) : x \in Entries(sized)}
  <1> DEFINE S == Entries(sized)
             entries == Among(sized, S)
             cands == Candidates(sized)
  <1>1. /\ entries \in Seq(Intents) /\ ToSet(entries) = ToSet(sized) \cap S
        /\ \E g : Indexes(g, entries, sized, S, Len(sized))
    <2> HIDE DEF S
    <2>. QED
      BY AmongFacts
  <1>2. PICK g : Indexes(g, entries, sized, S, Len(sized))
    BY <1>1
  <1>3. cands = [i \in DOMAIN entries |-> Candidate(entries[i])]
    BY DEF Candidates
  <1> HIDE DEF entries, cands
  <1>4. DOMAIN entries = 1 .. Len(entries) /\ Len(entries) \in Nat /\ DOMAIN sized = 1 .. Len(sized)
    BY <1>1
  <1>5. ToSet(entries) = S
    BY <1>1 DEF Entries
  <1>6. \A x \in S : x \in EntrySet
    <2>1. ASSUME NEW x \in S
          PROVE  x \in EntrySet
      <3>1. PICK p \in 1 .. Len(sized) : x = sized[p]
        BY <1>4 DEF Entries, ToSet
      <3>2. x.action \in Opening
        BY DEF Entries
      <3>. QED
        BY <3>1, <3>2 DEF EntrySet
    <2>. QED
      BY <2>1
  <1>7. \A i \in DOMAIN entries : entries[i] \in S
    BY <1>5 DEF ToSet
  <1>8. cands \in Seq(CandidateSet)
    <2>1. \A i \in DOMAIN entries : Candidate(entries[i]) \in CandidateSet
      BY <1>6, <1>7 DEF CandidateSet
    <2>. QED
      BY <1>3, <1>4, <2>1
  <1>9. ToSet(cands) = {Candidate(x) : x \in S}
    <2>1. ToSet(cands) = {Candidate(entries[i]) : i \in DOMAIN entries}
      BY <1>3 DEF ToSet
    <2>2. S = {entries[i] : i \in DOMAIN entries}
      BY <1>5 DEF ToSet
    <2>. QED
      BY <2>1, <2>2
  <1>10. Distinct(cands)
    <2>1. ASSUME NEW i \in DOMAIN cands, NEW j \in DOMAIN cands, i # j
          PROVE  <<cands[i].strategy, cands[i].symbol>> # <<cands[j].strategy, cands[j].symbol>>
      <3>1. i \in 1 .. Len(entries) /\ j \in 1 .. Len(entries)
            /\ cands[i] = Candidate(entries[i]) /\ cands[j] = Candidate(entries[j])
        BY <1>3, <1>4
      <3>2. /\ g[i] \in 1 .. Len(sized) /\ g[j] \in 1 .. Len(sized) /\ g[i] # g[j]
            /\ entries[i] = sized[g[i]] /\ entries[j] = sized[g[j]]
        BY <1>2, <1>4, <2>1, <3>1 DEF Indexes
      <3>3. sized[g[i]].action \in Opening /\ sized[g[j]].action \in Opening
        BY <1>4, <1>7, <3>1, <3>2 DEF Entries
      <3>4. <<sized[g[i]].signal.strategy, sized[g[i]].symbol>>
              # <<sized[g[j]].signal.strategy, sized[g[j]].symbol>>
        BY <3>2, <3>3 DEF SizedAll
      <3>5. /\ cands[i].strategy = entries[i].signal.strategy /\ cands[i].symbol = entries[i].symbol
            /\ cands[j].strategy = entries[j].signal.strategy /\ cands[j].symbol = entries[j].symbol
        BY <3>1 DEF Candidate
      <3>. QED
        BY <3>2, <3>4, <3>5
    <2>. QED
      BY <2>1 DEF Distinct
  <1>. QED
    BY <1>8, <1>9, <1>10 DEF cands

\* The verdicts on the intents of a cycle, by their place in the queue.
VerdictOf(q, i, kind, x, book) == q[i] = [kind |-> kind, item |-> x, book |-> book]
Arranged(q, exits, accepted, rejected) ==
  /\ q \in Seq(VerdictSet)
  /\ Len(q) = Len(exits) + Len(accepted) + Len(rejected)
  /\ \A i \in 1 .. Len(exits) : VerdictOf(q, i, "exit", exits[i], LedgerBook)
  /\ \A i \in 1 .. Len(accepted) :
       VerdictOf(q, Len(exits) + i, "accepted", accepted[i].candidate.item,
                 accepted[i].book_before)
  /\ \A i \in 1 .. Len(rejected) :
       VerdictOf(q, Len(exits) + Len(accepted) + i, "rejected", rejected[i].candidate.item, <<>>)
  /\ \A i \in 1 .. Len(q) :
       \/ i \in 1 .. Len(exits) /\ q[i].kind = "exit"
       \/ i - Len(exits) \in 1 .. Len(accepted) /\ q[i].kind = "accepted"
       \/ i - Len(exits) - Len(accepted) \in 1 .. Len(rejected) /\ q[i].kind = "rejected"

\* Verdicts puts exits, accepted and rejected in a row.
LEMMA ArrangedFacts ==
  ASSUME LedgerType, NEW exits \in Seq(Intents), NEW state \in Judgements(CandidateSet),
         NEW sel, sel.accepted = state.accepted, sel.rejected = state.rejected
  PROVE  Arranged(Verdicts(exits, sel), exits, state.accepted, state.rejected)
  <1> DEFINE A == [candidate: CandidateSet, book_before: Seq(Exposures)]
             R == [candidate: CandidateSet, reason: Reasons]
             accepted == state.accepted
             rejected == state.rejected
             x == [i \in DOMAIN exits |-> [kind |-> "exit", item |-> exits[i], book |-> LedgerBook]]
             y == [i \in DOMAIN accepted |-> [kind |-> "accepted", item |-> accepted[i].candidate.item,
                                               book |-> accepted[i].book_before]]
             z == [i \in DOMAIN rejected |-> [kind |-> "rejected", item |-> rejected[i].candidate.item,
                                               book |-> <<>>]]
             q == Verdicts(exits, sel)
  <1>1. accepted \in Seq(A) /\ rejected \in Seq(R)
    BY DEF Judgements
  <1>2. q = (x \o y) \o z
    BY DEF Verdicts
  <1> HIDE DEF accepted, rejected, A, R, q
  <1>3. /\ DOMAIN exits = 1 .. Len(exits) /\ Len(exits) \in Nat
        /\ DOMAIN accepted = 1 .. Len(accepted) /\ Len(accepted) \in Nat
        /\ DOMAIN rejected = 1 .. Len(rejected) /\ Len(rejected) \in Nat
    BY <1>1
  <1>4. \A c \in CandidateSet : c.item \in Intents
    BY CandidateFacts DEF EntrySet
  <1>5. x \in Seq(VerdictSet) /\ Len(x) = Len(exits)
    <2>1. \A i \in 1 .. Len(exits) :
             [kind |-> "exit", item |-> exits[i], book |-> LedgerBook] \in VerdictSet
      BY <1>3, LedgerBookType DEF VerdictSet
    <2> HIDE DEF VerdictSet
    <2>. QED
      BY <1>3, <2>1
  <1>6. y \in Seq(VerdictSet) /\ Len(y) = Len(accepted)
    <2>1. ASSUME NEW i \in 1 .. Len(accepted)
          PROVE  [kind |-> "accepted", item |-> accepted[i].candidate.item,
                  book |-> accepted[i].book_before] \in VerdictSet
      <3>1. accepted[i] \in A
        BY <1>1, <1>3
      <3>. QED
        BY <1>4, <3>1 DEF A, VerdictSet
    <2>. QED
      BY <1>3, <2>1
  <1>7. z \in Seq(VerdictSet) /\ Len(z) = Len(rejected)
    <2>1. ASSUME NEW i \in 1 .. Len(rejected)
          PROVE  [kind |-> "rejected", item |-> rejected[i].candidate.item,
                  book |-> <<>>] \in VerdictSet
      <3>1. rejected[i] \in R
        BY <1>1, <1>3
      <3>. QED
        BY <1>4, <3>1 DEF R, VerdictSet
    <2>. QED
      BY <1>3, <2>1
  <1>8. /\ \A i \in 1 .. Len(exits) :
             x[i] = [kind |-> "exit", item |-> exits[i], book |-> LedgerBook]
        /\ \A i \in 1 .. Len(accepted) :
             y[i] = [kind |-> "accepted", item |-> accepted[i].candidate.item,
                     book |-> accepted[i].book_before]
        /\ \A i \in 1 .. Len(rejected) :
             z[i] = [kind |-> "rejected", item |-> rejected[i].candidate.item, book |-> <<>>]
    BY <1>3
  <1> HIDE DEF x, y, z
  <1>9. q \in Seq(VerdictSet) /\ Joined(q, x, y, z)
    BY <1>2, <1>5, <1>6, <1>7, JoinedFacts
  <1>10. Len(q) = Len(exits) + Len(accepted) + Len(rejected)
    BY <1>5, <1>6, <1>7, <1>9 DEF Joined
  <1>11. \A i \in 1 .. Len(exits) : VerdictOf(q, i, "exit", exits[i], LedgerBook)
    BY <1>5, <1>8, <1>9 DEF Joined, VerdictOf
  <1>12. \A i \in 1 .. Len(accepted) :
           VerdictOf(q, Len(exits) + i, "accepted", accepted[i].candidate.item,
                     accepted[i].book_before)
    BY <1>5, <1>6, <1>8, <1>9 DEF Joined, VerdictOf
  <1>13. \A i \in 1 .. Len(rejected) :
           VerdictOf(q, Len(exits) + Len(accepted) + i, "rejected", rejected[i].candidate.item, <<>>)
    BY <1>5, <1>6, <1>7, <1>8, <1>9 DEF Joined, VerdictOf
  <1>14. ASSUME NEW i \in 1 .. Len(q)
         PROVE  \/ i \in 1 .. Len(exits) /\ q[i].kind = "exit"
                \/ i - Len(exits) \in 1 .. Len(accepted) /\ q[i].kind = "accepted"
                \/ i - Len(exits) - Len(accepted) \in 1 .. Len(rejected) /\ q[i].kind = "rejected"
    <2>1. \/ i \in 1 .. Len(exits)
          \/ i - Len(exits) \in 1 .. Len(accepted) /\ q[i] = y[i - Len(exits)]
          \/ i - Len(exits) - Len(accepted) \in 1 .. Len(rejected)
             /\ q[i] = z[i - Len(exits) - Len(accepted)]
      BY <1>5, <1>6, <1>7, <1>9 DEF Joined
    <2>2. CASE i \in 1 .. Len(exits)
      <3>1. q[i] = [kind |-> "exit", item |-> exits[i], book |-> LedgerBook]
        BY <1>11, <2>2 DEF VerdictOf
      <3>2. q[i].kind = "exit"
        BY <3>1
      <3>. QED
        BY <2>2, <3>2
    <2>3. CASE i - Len(exits) \in 1 .. Len(accepted) /\ q[i] = y[i - Len(exits)]
      <3>1. PICK m \in 1 .. Len(accepted) : m = i - Len(exits)
        BY <2>3
      <3>2. q[i] = [kind |-> "accepted", item |-> accepted[m].candidate.item, book |-> accepted[m].book_before]
        <4>1. q[i] = y[m]
          BY <2>3, <3>1
        <4>. QED
          BY <1>8, <4>1
      <3>3. q[i].kind = "accepted"
        BY <3>2
      <3>. QED
        BY <2>3, <3>3
    <2>4. CASE i - Len(exits) - Len(accepted) \in 1 .. Len(rejected)
               /\ q[i] = z[i - Len(exits) - Len(accepted)]
      <3>1. PICK m \in 1 .. Len(rejected) : m = i - Len(exits) - Len(accepted)
        BY <2>4
      <3>2. q[i] = [kind |-> "rejected", item |-> rejected[m].candidate.item, book |-> <<>>]
        <4>1. q[i] = z[m]
          BY <2>4, <3>1
        <4>. QED
          BY <1>8, <4>1
      <3>3. q[i].kind = "rejected"
        BY <3>2
      <3>. QED
        BY <2>4, <3>3
    <2>. QED
      BY <2>1, <2>2, <2>3, <2>4
  <1>. QED
    BY <1>9, <1>10, <1>11, <1>12, <1>13, <1>14 DEF Arranged, accepted, rejected, q

\* Where a verdict of each kind comes from.
Placed(q, i, exits, accepted, rejected) ==
  /\ q[i].kind \in {"exit", "accepted", "rejected"}
  /\ q[i].kind = "exit" => i \in 1 .. Len(exits) /\ q[i].item = exits[i]
  /\ q[i].kind = "accepted" => \E m \in 1 .. Len(accepted) :
       /\ i = Len(exits) + m /\ q[i].item = accepted[m].candidate.item
       /\ q[i].book = accepted[m].book_before
  /\ q[i].kind = "rejected" => \E m \in 1 .. Len(rejected) :
       /\ i = Len(exits) + Len(accepted) + m /\ q[i].item = rejected[m].candidate.item

\* Which verdict is found at an index of the queue.
LEMMA PlacedFacts ==
  ASSUME NEW q, NEW exits, NEW accepted, NEW rejected,
         Len(exits) \in Nat, Len(accepted) \in Nat, Len(rejected) \in Nat,
         Arranged(q, exits, accepted, rejected), NEW i \in 1 .. Len(q)
  PROVE  Placed(q, i, exits, accepted, rejected)
  <1>0. \/ i \in 1 .. Len(exits) /\ q[i].kind = "exit"
        \/ i - Len(exits) \in 1 .. Len(accepted) /\ q[i].kind = "accepted"
        \/ i - Len(exits) - Len(accepted) \in 1 .. Len(rejected) /\ q[i].kind = "rejected"
    BY DEF Arranged
  <1>i. i \in Int
    BY DEF Arranged
  <1>1. CASE i \in 1 .. Len(exits) /\ q[i].kind = "exit"
    <2>1. q[i] = [kind |-> "exit", item |-> exits[i], book |-> LedgerBook]
      BY <1>1 DEF Arranged, VerdictOf
    <2>2. q[i].item = exits[i]
      BY <2>1
    <2>. QED
      BY <1>1, <2>2 DEF Placed
  <1>2. CASE i - Len(exits) \in 1 .. Len(accepted) /\ q[i].kind = "accepted"
    <2>1. PICK m \in 1 .. Len(accepted) : m = i - Len(exits)
      BY <1>2
    <2>2. i = Len(exits) + m
      BY <1>i, <2>1
    <2>3. q[i] = [kind |-> "accepted", item |-> accepted[m].candidate.item,
                  book |-> accepted[m].book_before]
      BY <2>2 DEF Arranged, VerdictOf
    <2>4. q[i].item = accepted[m].candidate.item /\ q[i].book = accepted[m].book_before
      BY <2>3
    <2>. QED
      BY <1>2, <2>2, <2>4 DEF Placed
  <1>3. CASE i - Len(exits) - Len(accepted) \in 1 .. Len(rejected) /\ q[i].kind = "rejected"
    <2>1. PICK m \in 1 .. Len(rejected) : m = i - Len(exits) - Len(accepted)
      BY <1>3
    <2>2. i = Len(exits) + Len(accepted) + m
      BY <1>i, <2>1
    <2>3. q[i] = [kind |-> "rejected", item |-> rejected[m].candidate.item, book |-> <<>>]
      BY <2>2 DEF Arranged, VerdictOf
    <2>4. q[i].item = rejected[m].candidate.item
      BY <2>3
    <2>. QED
      BY <1>3, <2>2, <2>4 DEF Placed
  <1>. QED
    BY <1>0, <1>1, <1>2, <1>3

\* The queue a plan makes is as Planned says.
LEMMA PlanFacts ==
  ASSUME LedgerType, NEW signals, NEW k, NEW sized \in Seq(Intents), SizedAll(sized, signals, k),
         \A p \in 1 .. Len(sized) :
           sized[p].symbol \in ToSet(Symbols) /\ Stems(sized[p], sized[p].signal)
  PROVE  Planned(Verdicts(Among(sized, Exits(sized)), Select(Candidates(sized), LedgerBook)),
                 sized, LedgerBook)
  <1> DEFINE exits == Among(sized, Exits(sized))
             cands == Candidates(sized)
             sel == Select(cands, LedgerBook)
             known == SymbolsOf(LedgerBook) \cup {cands[i].symbol : i \in DOMAIN cands}
             q == Verdicts(exits, sel)
  <1>1. exits \in Seq(Intents) /\ ToSet(exits) = Exits(sized)
    <2> DEFINE S == Exits(sized)
    <2>1. S \subseteq ToSet(sized)
      BY DEF Exits
    <2> HIDE DEF S
    <2>2. Among(sized, S) \in Seq(Intents) /\ ToSet(Among(sized, S)) = ToSet(sized) \cap S
      BY AmongFacts
    <2>. QED
      BY <2>1, <2>2 DEF S
  <1>2. /\ cands \in Seq(CandidateSet) /\ Distinct(cands)
        /\ ToSet(cands) = {Candidate(x) : x \in Entries(sized)}
    BY CandidatesFacts
  <1>3. LedgerBook \in Seq(Exposures)
    BY LedgerBookType
  <1>4. Selects(sel, CandidateSet, cands, LedgerBook)
    <2> HIDE DEF cands
    <2>. QED
      BY <1>2, <1>3, CandidateFacts, SelectFacts
  <1> HIDE DEF exits, cands, sel
  <1>5. PICK state \in Judgements(CandidateSet) :
           /\ sel.accepted = state.accepted /\ sel.rejected = state.rejected
           /\ \A c \in ToSet(cands) :
                \/ \E i \in 1 .. Len(state.accepted) : state.accepted[i].candidate = c
                \/ \E i \in 1 .. Len(state.rejected) : state.rejected[i].candidate = c
           /\ \A i \in 1 .. Len(state.accepted) : state.accepted[i].candidate \in ToSet(cands)
           /\ \A i \in 1 .. Len(state.rejected) : state.rejected[i].candidate \in ToSet(cands)
           /\ Disjoint(state) /\ Untriangled(state, LedgerBook, known)
           /\ Explained(state, LedgerBook, known) /\ Nested(state, LedgerBook)
    BY <1>4 DEF Selects
  <1> DEFINE acc == state.accepted
             rej == state.rejected
             a == Len(exits)
             b == Len(acc)
             c == Len(rej)
  <1>6. a \in Nat /\ b \in Nat /\ c \in Nat
    BY <1>1 DEF Judgements
  <1>7. Arranged(q, exits, acc, rej)
    BY <1>1, <1>5, ArrangedFacts
  <1>8. \A i \in 1 .. Len(q) : Placed(q, i, exits, acc, rej)
    <2> HIDE DEF q, acc, rej
    <2>. QED
      BY <1>6, <1>7, PlacedFacts
  <1> HIDE DEF q
  <1>9. q \in Seq(VerdictSet) /\ Len(q) = a + b + c
    BY <1>7 DEF Arranged
  <1>10. \A d \in ToSet(cands) :
           /\ d \in CandidateSet /\ d.item \in EntrySet /\ d = Candidate(d.item)
           /\ d.exposure = ExposureOf(d.item) /\ d.symbol = d.item.symbol
           /\ Claims(d) = Legged(d.item) /\ d.item \in Entries(sized)
    <2>1. ASSUME NEW d \in ToSet(cands)
          PROVE  d \in CandidateSet /\ d.item \in Entries(sized)
      <3>1. PICK x \in Entries(sized) : d = Candidate(x)
        BY <1>2
      <3>2. d.item = x
        BY <3>1 DEF Candidate
      <3>. QED
        BY <1>2, <3>1, <3>2 DEF ToSet
    <2>. QED
      BY <2>1, CandidateFacts
  <1>11. \A i \in 1 .. b : acc[i].candidate \in ToSet(cands)
    BY <1>5
  <1>12. \A i \in 1 .. c : rej[i].candidate \in ToSet(cands)
    BY <1>5
  <1> HIDE DEF acc, rej
  <1>13. DOMAIN sized = 1 .. Len(sized)
    OBVIOUS
  <1>14. ASSUME NEW i \in 1 .. Len(q)
         PROVE  /\ q[i].item \in ToSet(sized)
                /\ q[i].kind = "exit" => q[i].item.action = "CLOSE"
                /\ q[i].kind # "exit" => q[i].item.action \in Opening
    <2>1. CASE q[i].kind = "exit"
      <3>1. i \in 1 .. a /\ q[i].item = exits[i]
        BY <1>8, <2>1 DEF Placed
      <3>2. exits[i] \in Exits(sized)
        BY <1>1, <3>1 DEF ToSet
      <3>. QED
        BY <2>1, <3>1, <3>2 DEF Exits
    <2>2. CASE q[i].kind # "exit"
      <3>1. \/ \E m \in 1 .. b : q[i].item = acc[m].candidate.item
            \/ \E m \in 1 .. c : q[i].item = rej[m].candidate.item
        BY <1>8, <2>2 DEF Placed
      <3>2. q[i].item \in Entries(sized)
        BY <1>10, <1>11, <1>12, <3>1
      <3>. QED
        BY <2>2, <3>2 DEF Entries
    <2>. QED
      BY <2>1, <2>2
  <1>15. \A i \in 1 .. Len(q) : \E p \in 1 .. Len(sized) : q[i].item = sized[p]
    BY <1>13, <1>14 DEF ToSet
  <1>16. Queued(q)
    <2>1. ASSUME NEW i \in 1 .. Len(q)
          PROVE  /\ (q[i].kind = "exit") <=> q[i].item.action = "CLOSE"
                 /\ Stems(q[i].item, q[i].item.signal)
                 /\ q[i].item.symbol \in ToSet(Symbols)
      BY <1>14, <1>15 DEF Opening
    <2>2. ASSUME NEW i \in 1 .. Len(q), NEW j \in 1 .. Len(q), i < j, q[j].kind = "exit"
          PROVE  q[i].kind = "exit"
      <3>1. j \in 1 .. a
        BY <1>8, <2>2 DEF Placed
      <3>2. Placed(q, i, exits, acc, rej)
        BY <1>8
      <3>3. ~(\E m \in 1 .. b : i = a + m) /\ ~(\E m \in 1 .. c : i = a + b + m)
        BY <1>6, <2>2, <3>1
      <3>. QED
        BY <3>2, <3>3 DEF Placed
    <2>. QED
      BY <1>9, <2>1, <2>2 DEF Queued
  <1>17. \A w \in Weightings : \A i \in 1 .. b :
           /\ Weighed(w, LedgerBook) <= Weighed(w, acc[i].book_before)
           /\ \A j \in 1 .. b :
                i < j => Weighed(w, acc[i].book_before) + w[acc[i].candidate.exposure]
                           <= Weighed(w, acc[j].book_before)
    BY <1>5 DEF Nested, acc
  <1>18. Nests(q)
    <2>1. ASSUME NEW i \in 1 .. Len(q), NEW j \in 1 .. Len(q), i < j,
                 q[i].kind = "accepted", q[j].kind = "accepted", NEW w \in Weightings
          PROVE  Weighed(w, q[i].book) + w[ExposureOf(q[i].item)] <= Weighed(w, q[j].book)
      <3>1. PICK m \in 1 .. b : i = a + m /\ q[i].item = acc[m].candidate.item
                               /\ q[i].book = acc[m].book_before
        BY <1>8, <2>1 DEF Placed
      <3>2. PICK l \in 1 .. b : j = a + l /\ q[j].book = acc[l].book_before
        BY <1>8, <2>1 DEF Placed
      <3>3. m < l
        BY <1>6, <2>1, <3>1, <3>2
      <3>4. acc[m].candidate.exposure = ExposureOf(q[i].item)
        BY <1>10, <1>11, <3>1
      <3>. QED
        BY <1>17, <3>1, <3>2, <3>3, <3>4
    <2>. QED
      BY <2>1 DEF Nests
  <1>19. HoldsBook(q, LedgerBook)
    <2>1. ASSUME NEW i \in 1 .. Len(q), q[i].kind = "accepted", NEW w \in Weightings
          PROVE  Weighed(w, LedgerBook) <= Weighed(w, q[i].book)
      <3>1. PICK m \in 1 .. b : q[i].book = acc[m].book_before
        BY <1>8, <2>1 DEF Placed
      <3>. QED
        BY <1>17, <3>1
    <2>. QED
      BY <2>1 DEF HoldsBook
  <1>20. known \subseteq DOMAIN Base
    <2>1. SymbolsOf(LedgerBook) \subseteq DOMAIN Base
      <3>1. ASSUME NEW i \in DOMAIN LedgerBook
            PROVE  LedgerBook[i].symbol \in DOMAIN Base
        <4>1. LedgerBook[i] \in Exposures
          BY <1>3
        <4>. QED
          BY <4>1 DEF Exposures
      <3>. QED
        BY <3>1 DEF SymbolsOf
    <2>2. ASSUME NEW i \in DOMAIN cands
          PROVE  cands[i].symbol \in DOMAIN Base
      <3>1. cands[i] \in ToSet(cands)
        BY DEF ToSet
      <3>2. cands[i].symbol = cands[i].item.symbol /\ cands[i].item \in EntrySet
        BY <1>10, <3>1
      <3>. QED
        BY <3>2 DEF EntrySet, Intents
    <2>. QED
      BY <2>1, <2>2
  <1>21. Triangles(known) \subseteq Triangles(DOMAIN Base)
    BY <1>20 DEF Triangles
  <1>22. \A m \in 1 .. b : \E j \in 1 .. Len(q) :
           q[j].kind = "accepted" /\ q[j].item = acc[m].candidate.item
    <2>1. ASSUME NEW m \in 1 .. b
          PROVE  \E j \in 1 .. Len(q) :
                   q[j].kind = "accepted" /\ q[j].item = acc[m].candidate.item
      <3>1. a + m \in 1 .. Len(q)
        BY <1>6, <1>9
      <3>2. q[a + m] = [kind |-> "accepted", item |-> acc[m].candidate.item,
                        book |-> acc[m].book_before]
        BY <1>7 DEF Arranged, VerdictOf, acc
      <3>3. q[a + m].kind = "accepted" /\ q[a + m].item = acc[m].candidate.item
        BY <3>2
      <3>. QED
        BY <3>1, <3>3
    <2>. QED
      BY <2>1
  <1>23. Strong(q, LedgerBook)
    <2>1. ASSUME NEW i \in 1 .. Len(q), NEW j \in 1 .. Len(q), i # j,
                 q[i].kind = "accepted", q[j].kind = "accepted"
          PROVE  Legged(q[i].item) \cap Legged(q[j].item) = {}
      <3>1. PICK m \in 1 .. b : i = a + m /\ q[i].item = acc[m].candidate.item
        BY <1>8, <2>1 DEF Placed
      <3>2. PICK l \in 1 .. b : j = a + l /\ q[j].item = acc[l].candidate.item
        BY <1>8, <2>1 DEF Placed
      <3>3. Claims(acc[m].candidate) \cap Claims(acc[l].candidate) = {}
        BY <1>5, <2>1, <3>1, <3>2 DEF Disjoint, acc
      <3>4. Claims(acc[m].candidate) = Legged(q[i].item)
            /\ Claims(acc[l].candidate) = Legged(q[j].item)
        BY <1>10, <1>11, <3>1, <3>2
      <3>. QED
        BY <3>3, <3>4
    <2>2. ASSUME NEW i \in 1 .. Len(q), q[i].kind = "rejected"
          PROVE  \/ \E j \in 1 .. Len(q) :
                      /\ q[j].kind = "accepted"
                      /\ LosesTo(Candidate(q[j].item), Candidate(q[i].item), LedgerBook, DOMAIN Base)
                 \/ Capped(Candidate(q[i].item), LedgerBook, DOMAIN Base)
      <3>1. PICK m \in 1 .. c : q[i].item = rej[m].candidate.item
        BY <1>8, <2>2 DEF Placed
      <3>2. rej[m].candidate = Candidate(q[i].item)
        BY <1>10, <1>12, <3>1
      <3>3. CASE \E l \in 1 .. b : LosesTo(acc[l].candidate, rej[m].candidate, LedgerBook, known)
        <4>1. PICK l \in 1 .. b : LosesTo(acc[l].candidate, rej[m].candidate, LedgerBook, known)
          BY <3>3
        <4>2. PICK j \in 1 .. Len(q) :
                q[j].kind = "accepted" /\ q[j].item = acc[l].candidate.item
          BY <1>22
        <4>3. acc[l].candidate = Candidate(q[j].item)
          BY <1>10, <1>11, <4>2
        <4>4. LosesTo(Candidate(q[j].item), Candidate(q[i].item), LedgerBook, DOMAIN Base)
          <5> HIDE DEF known
          <5>. QED
            BY <1>21, <3>2, <4>1, <4>3 DEF LosesTo
        <4>. QED
          BY <4>2, <4>4
      <3>4. CASE Capped(rej[m].candidate, LedgerBook, known)
        <4>1. Capped(Candidate(q[i].item), LedgerBook, DOMAIN Base)
          <5> HIDE DEF known
          <5>. QED
            BY <1>21, <3>2, <3>4 DEF Capped
        <4>. QED
          BY <4>1
      <3>5. \/ \E l \in 1 .. b : LosesTo(acc[l].candidate, rej[m].candidate, LedgerBook, known)
            \/ Capped(rej[m].candidate, LedgerBook, known)
        <4> HIDE DEF known
        <4>. QED
          BY <1>5 DEF Explained, acc, rej
      <3>. QED
        BY <3>3, <3>4, <3>5
    <2>. QED
      BY <2>1, <2>2 DEF Strong
  <1>24. Uncompleted(AcceptedSymbols(q), LedgerBook)
    <2>1. AcceptedSymbols(q) = {acc[m].candidate.symbol : m \in 1 .. b}
      <3>1. ASSUME NEW i \in 1 .. Len(q), q[i].kind = "accepted"
            PROVE  \E m \in 1 .. b : q[i].item.symbol = acc[m].candidate.symbol
        <4>1. PICK m \in 1 .. b : q[i].item = acc[m].candidate.item
          BY <1>8, <3>1 DEF Placed
        <4>. QED
          BY <1>10, <1>11, <4>1
      <3>2. ASSUME NEW m \in 1 .. b
            PROVE  \E j \in 1 .. Len(q) :
                     q[j].kind = "accepted" /\ q[j].item.symbol = acc[m].candidate.symbol
        BY <1>10, <1>11, <1>22
      <3>3. ASSUME NEW x \in AcceptedSymbols(q)
            PROVE  x \in {acc[m].candidate.symbol : m \in 1 .. b}
        <4> HIDE DEF q, acc, b
        <4>. QED
          BY <3>1, <3>3 DEF AcceptedSymbols
      <3>4. ASSUME NEW x \in {acc[m].candidate.symbol : m \in 1 .. b}
            PROVE  x \in AcceptedSymbols(q)
        <4> HIDE DEF q, acc, b
        <4>. QED
          BY <3>2, <3>4 DEF AcceptedSymbols
      <3>. QED
        BY <3>3, <3>4
    <2>2. AcceptedSymbols(q) \cup SymbolsOf(LedgerBook) = SymbolsOf(state.book)
      BY <1>5, <2>1 DEF Untriangled, acc
    <2>3. AcceptedSymbols(q) \cup SymbolsOf(LedgerBook) \subseteq known
      <3>1. ASSUME NEW m \in 1 .. b
            PROVE  acc[m].candidate.symbol \in {cands[i].symbol : i \in DOMAIN cands}
        BY <1>11 DEF ToSet
      <3>. QED
        BY <2>1, <3>1
    <2> DEFINE held == AcceptedSymbols(q) \cup SymbolsOf(LedgerBook)
    <2>4. ASSUME NEW t \in Triangles(held)
          PROVE  Cardinality(t) <= MaxPairs \/ t \subseteq SymbolsOf(LedgerBook)
      <3>1. t \in Triangles(known) /\ t \cap held = t
        BY <2>3 DEF Triangles
      <3>2. \/ Cardinality(t \cap SymbolsOf(state.book)) <= MaxPairs
            \/ t \cap SymbolsOf(state.book) \subseteq SymbolsOf(LedgerBook)
        BY <1>5, <3>1 DEF Untriangled
      <3>3. t \cap SymbolsOf(state.book) = t
        BY <2>2, <3>1
      <3>. QED
        BY <3>2, <3>3
    <2>. QED
      BY <2>4 DEF Uncompleted
  <1>25. ASSUME NEW p \in 1 .. Len(sized)
         PROVE  \E i \in 1 .. Len(q) : q[i].item = sized[p]
    <2>0. sized[p] \in ToSet(sized)
      BY <1>13 DEF ToSet
    <2>1. CASE sized[p].action = "CLOSE"
      <3>1. sized[p] \in ToSet(exits)
        BY <1>1, <2>0, <2>1 DEF Exits
      <3>2. PICK i \in 1 .. a : exits[i] = sized[p]
        BY <1>1, <3>1 DEF ToSet
      <3>3. q[i] = [kind |-> "exit", item |-> exits[i], book |-> LedgerBook] /\ i \in 1 .. Len(q)
        BY <1>6, <1>7, <1>9 DEF Arranged, VerdictOf
      <3>4. q[i].item = sized[p]
        BY <3>2, <3>3
      <3>. QED
        BY <3>3, <3>4
    <2>2. CASE sized[p].action \in Opening
      <3> DEFINE d == Candidate(sized[p])
      <3>1. d \in ToSet(cands) /\ d.item = sized[p]
        BY <1>2, <2>0, <2>2 DEF Entries, Candidate
      <3>2. CASE \E m \in 1 .. b : acc[m].candidate = d
        <4>1. PICK m \in 1 .. b : acc[m].candidate = d
          BY <3>2
        <4>. QED
          BY <1>22, <3>1, <4>1
      <3>3. CASE \E m \in 1 .. c : rej[m].candidate = d
        <4>1. PICK m \in 1 .. c : rej[m].candidate = d
          BY <3>3
        <4>2. a + b + m \in 1 .. Len(q)
          BY <1>6, <1>9
        <4>3. q[a + b + m] = [kind |-> "rejected", item |-> rej[m].candidate.item, book |-> <<>>]
          BY <1>7 DEF Arranged, VerdictOf, rej, acc
        <4>4. q[a + b + m].item = sized[p]
          BY <3>1, <4>1, <4>3
        <4>. QED
          BY <4>2, <4>4
      <3>. QED
        BY <1>5, <3>1, <3>2, <3>3 DEF acc, rej
    <2>3. sized[p].action \in Actions
      <3>1. sized[p] \in Intents
        OBVIOUS
      <3>. QED
        BY <3>1 DEF Intents
    <2>. QED
      BY <2>1, <2>2, <2>3 DEF Actions
  <1>. QED
    BY <1>15, <1>16, <1>18, <1>19, <1>23, <1>24, <1>25 DEF Planned, q, exits, sel, cands

-----------------------------------------------------------------------------
(* The measures the limits are about, as weights *)

StopWeight == [e \in Exposures |-> StopDistance(e)]
UnitWeight(s) == [e \in Exposures |-> IF e.symbol = s THEN Abs(e.units) ELSE 0]
CountWeight(s) == [e \in Exposures |-> IF e.symbol = s THEN 1 ELSE 0]
OneWeight == [e \in Exposures |-> 1]

\* Products of numbers.
LEMMA TimesMonotone ==
  ASSUME NEW k \in Nat, NEW a \in Nat, NEW b \in Nat, a <= b
  PROVE  k * a <= k * b /\ k * a \in Nat
  <1>1. b = a + (b - a) /\ b - a \in Nat
    OBVIOUS
  <1>2. k * b = k * a + k * (b - a)
    BY <1>1
  <1>3. k * (b - a) \in Nat /\ k * a \in Nat
    BY <1>1
  <1>4. PICK x, y, z : x = k * b /\ y = k * a /\ z = k * (b - a)
    OBVIOUS
  <1>. QED
    BY <1>2, <1>3, <1>4

\* The absolute value of a number.
LEMMA AbsType ==
  ASSUME NEW n \in Int
  PROVE  Abs(n) \in Nat
  BY DEF Abs

\* The measures of the limits are weights.
LEMMA MeasuresAreWeights ==
  ASSUME NEW s
  PROVE  /\ StopWeight \in Weightings /\ UnitWeight(s) \in Weightings
         /\ CountWeight(s) \in Weightings /\ OneWeight \in Weightings
  <1>1. \A e \in Exposures : e.stop \in Nat /\ e.units \in Int /\ Abs(e.units) \in Nat
    BY AbsType DEF Exposures
  <1>2. StopWeight \in Weightings
    <2>1. ASSUME NEW e \in Exposures
          PROVE  StopDistance(e) \in Nat
      <3>1. 100 * e.stop \in Nat
        BY <1>1
      <3>. QED
        BY <1>1, <3>1, TimesMonotone DEF StopDistance
    <2>2. ASSUME NEW e \in Exposures, NEW f \in Exposures,
                 e.stop = f.stop, Abs(e.units) <= Abs(f.units)
          PROVE  StopDistance(e) <= StopDistance(f)
      <3>1. 100 * e.stop \in Nat
        BY <1>1
      <3>2. (100 * e.stop) * Abs(e.units) <= (100 * e.stop) * Abs(f.units)
        BY <1>1, <2>2, <3>1, TimesMonotone
      <3>. QED
        BY <2>2, <3>2 DEF StopDistance
    <2>3. StopWeight \in [Exposures -> Nat]
      BY <2>1 DEF StopWeight
    <2>4. \A e, f \in Exposures :
            e.stop = f.stop /\ Abs(e.units) <= Abs(f.units) => StopWeight[e] <= StopWeight[f]
      BY <2>2 DEF StopWeight
    <2>. QED
      BY <2>3, <2>4 DEF Weightings
  <1>3. UnitWeight(s) \in Weightings
    BY <1>1 DEF UnitWeight, Weightings
  <1>4. CountWeight(s) \in Weightings /\ OneWeight \in Weightings
    BY DEF CountWeight, OneWeight, Weightings
  <1>. QED
    BY <1>2, <1>3, <1>4

\* Weighed one by one, a book has its length.
LEMMA LengthWeighed ==
  ASSUME NEW book \in Seq(Exposures)
  PROVE  Weighed(OneWeight, book) = Len(book)
  <1> DEFINE n == Len(book)
             s == [i \in DOMAIN book |-> OneWeight[book[i]]]
  <1>1. n \in Nat /\ s \in Seq(Int) /\ Len(s) = n /\ \A i \in 1 .. n : s[i] = 1
    BY DEF OneWeight
  <1>2. Weighed(OneWeight, book) = Summed(s)
    BY SumOfSummed DEF Weighed
  <1> HIDE DEF n, s
  <1>3. PICK run \in [0 .. n -> Int] :
          /\ run[0] = 0
          /\ \A k \in 1 .. n : run[k] = run[k - 1] + s[k]
          /\ run[n] = Summed(s)
    BY <1>1, SumRun
  <1> DEFINE T == {k \in 0 .. n : run[k] = k}
  <1>4. 0 \in T
    BY <1>1, <1>3
  <1>5. ASSUME NEW k \in 0 .. n, k \in T, k < n
        PROVE  k + 1 \in T
    <2>1. k + 1 \in 1 .. n /\ (k + 1) - 1 = k /\ k + 1 \in 0 .. n
      BY <1>1, <1>5
    <2>. QED
      BY <1>1, <1>3, <1>5, <2>1
  <1>6. 0 .. n \subseteq T
    <2> HIDE DEF T
    <2>. QED
      BY <1>1, <1>4, <1>5, InductionTo
  <1>. QED
    BY <1>1, <1>2, <1>3, <1>6 DEF n

\* The sums of the risk engine are weights of the book.
LEMMA SumsAreWeights ==
  ASSUME NEW book \in Seq(Exposures), NEW s
  PROVE  /\ Total(StopDistance, book) = Weighed(StopWeight, book)
         /\ Gross(book, s) = Weighed(UnitWeight(s), book)
         /\ AccountMode = "HEDGING" => /\ OpenCount(book, s) = Weighed(CountWeight(s), book)
                                       /\ PortfolioCount(book) = Weighed(OneWeight, book)
  <1>1. \A i \in DOMAIN book : book[i] \in Exposures
    OBVIOUS
  <1>2. Total(StopDistance, book) = Weighed(StopWeight, book)
    <2>1. [i \in DOMAIN book |-> StopDistance(book[i])] = [i \in DOMAIN book |-> StopWeight[book[i]]]
      BY <1>1 DEF StopWeight
    <2>. QED
      BY <2>1, Zenon DEF Total, Weighed
  <1>3. Gross(book, s) = Weighed(UnitWeight(s), book)
    <2>1. [i \in DOMAIN book |-> IF book[i].symbol = s THEN Abs(book[i].units) ELSE 0]
            = [i \in DOMAIN book |-> UnitWeight(s)[book[i]]]
      BY <1>1 DEF UnitWeight
    <2>. QED
      BY <2>1, Zenon DEF Gross, Total, Weighed
  <1>4. AccountMode = "HEDGING" => OpenCount(book, s) = Weighed(CountWeight(s), book)
    <2>1. [i \in DOMAIN book |-> IF book[i].symbol = s THEN 1 ELSE 0]
            = [i \in DOMAIN book |-> CountWeight(s)[book[i]]]
      BY <1>1 DEF CountWeight
    <2>2. AccountMode = "HEDGING" => AccountMode # "NETTING"
      OBVIOUS
    <2>. QED
      BY <2>1, <2>2, Zenon DEF OpenCount, Total, Weighed
  <1>5. AccountMode = "HEDGING" => PortfolioCount(book) = Weighed(OneWeight, book)
    BY LengthWeighed DEF PortfolioCount
  <1>. QED
    BY <1>2, <1>3, <1>4, <1>5

\* Valued at the rates a monitor uses, the stop risk of a book is no less than
\* its stop distances.
LEMMA StopRiskCovers ==
  ASSUME NEW book \in Seq(Exposures)
  PROVE  /\ Weighed(StopWeight, book) <= StopRisk(market, book)
         /\ StopRisk(market, book) \in Int
  <1> DEFINE risk(e) == Monitored(market, Quote[e.symbol], e.stop * Abs(e.units))
             s == [i \in DOMAIN book |-> StopWeight[book[i]]]
             t == [i \in DOMAIN book |-> risk(book[i])]
  <1>1. ASSUME NEW e \in Exposures
        PROVE  StopWeight[e] \in Nat /\ risk(e) \in Nat /\ StopWeight[e] <= risk(e)
    <2>1. e.stop \in Nat /\ Abs(e.units) \in Nat /\ Haircut \in Nat
      BY AbsType, RiskAssumption DEF Exposures
    <2>2. PICK rate : rate = 100 + IF Quote[e.symbol] # AccountCurrency
                                      /\ Rate(market, Quote[e.symbol]) = "stale"
                                   THEN Haircut ELSE 0
      OBVIOUS
    <2>3. rate \in Nat /\ 100 <= rate
      BY <2>1, <2>2
    <2>4. PICK amount : amount = e.stop * Abs(e.units)
      OBVIOUS
    <2>5. amount \in Nat
      BY <2>1, <2>4, TimesMonotone
    <2>6. risk(e) = amount * rate
      BY <2>2, <2>4 DEF Monitored
    <2>7. amount * 100 <= amount * rate /\ amount * rate \in Nat
      BY <2>3, <2>5, TimesMonotone
    <2>8. StopWeight[e] = amount * 100
      BY <2>1, <2>4 DEF StopWeight, StopDistance
    <2>. QED
      BY <2>5, <2>6, <2>7, <2>8
  <1>2. StopRisk(market, book) = SumOf(t)
    <2>1. t = [i \in DOMAIN book |-> Monitored(market, Quote[book[i].symbol],
                                              book[i].stop * Abs(book[i].units))]
      OBVIOUS
    <2> HIDE DEF t
    <2>. QED
      BY <2>1, Zenon DEF StopRisk, Total
  <1>3. \A i \in DOMAIN book : book[i] \in Exposures
    OBVIOUS
  <1> HIDE DEF risk
  <1>4. /\ s \in Seq(Int) /\ t \in Seq(Int) /\ Len(s) = Len(t)
        /\ \A i \in 1 .. Len(s) : s[i] <= t[i]
    <2>1. ASSUME NEW i \in DOMAIN book
          PROVE  /\ StopWeight[book[i]] \in Int /\ risk(book[i]) \in Int
                 /\ StopWeight[book[i]] <= risk(book[i])
      <3>1. book[i] \in Exposures
        BY <1>3
      <3>2. /\ StopWeight[book[i]] \in Nat /\ risk(book[i]) \in Nat
            /\ StopWeight[book[i]] <= risk(book[i])
        BY <1>1, <3>1
      <3>. QED
        BY <3>2
    <2>2. DOMAIN book = 1 .. Len(book) /\ Len(book) \in Nat
      OBVIOUS
    <2>3. s \in Seq(Int)
      BY <2>1, <2>2
    <2>4. t \in Seq(Int)
      BY <2>1, <2>2
    <2>. QED
      BY <2>1, <2>2, <2>3, <2>4
  <1> HIDE DEF s, t
  <1>5. Summed(s) <= Summed(t) /\ Summed(t) \in Int
    BY <1>4, SumMonotone
  <1>. QED
    BY <1>2, <1>5, SumOfSummed DEF Weighed, s

-----------------------------------------------------------------------------
(* What the risk engine's grade says *)

\* A net position is a number.
LEMMA NetType ==
  ASSUME NEW book \in Seq(Exposures), NEW s
  PROVE  Net(book, s) \in Int
  <1> DEFINE t == [i \in DOMAIN book |-> IF book[i].symbol = s THEN book[i].units ELSE 0]
  <1>1. Net(book, s) = SumOf(t)
    BY Zenon DEF Net, Total
  <1>2. \A i \in DOMAIN book : book[i] \in Exposures
    OBVIOUS
  <1>3. t \in Seq(Int)
    BY <1>2 DEF Exposures
  <1> HIDE DEF t
  <1>4. Summed(t) \in Int
    BY <1>3, SumMonotone
  <1>. QED
    BY <1>1, <1>4, SumOfSummed

\* The loss of a unit is at least its stop distance.
LEMMA PerUnitFacts ==
  ASSUME NEW stop \in Nat \ {0}, NEW s
  PROVE  LossPerUnit(s, stop) \in Nat \ {0} /\ 100 * stop <= LossPerUnit(s, stop)
  <1>1. PICK rate : rate = 100 + IF Quote[s] # AccountCurrency THEN Stress ELSE 0
    OBVIOUS
  <1>2. rate \in Nat /\ 100 <= rate
    BY <1>1, RiskAssumption
  <1>3. LossPerUnit(s, stop) = stop * rate
    BY <1>1 DEF LossPerUnit
  <1>4. stop * 100 <= stop * rate /\ stop * rate \in Nat
    BY <1>2, TimesMonotone
  <1>5. PICK m : m = stop * rate
    OBVIOUS
  <1>6. stop * 100 <= m /\ m \in Nat /\ LossPerUnit(s, stop) = m
    BY <1>3, <1>4, <1>5
  <1>. QED
    BY <1>6

\* The limits leave no more than was asked for and no more than there is room for.
LEMMA SizedFacts ==
  ASSUME NEW x \in Intents, NEW book \in Seq(Exposures), x.signal.stop > 0,
         x.symbol \in DOMAIN MaxUnits
  PROVE  LET size == Sized(x, Context(x, book))
         IN  /\ size \in Int
             /\ x.units > 0 => size <= x.units
             /\ size > 0 /\ AccountMode = "HEDGING" =>
                  Weighed(UnitWeight(x.symbol), book) + size <= MaxUnits[x.symbol]
  <1> DEFINE s == x.symbol
             byRisk == TradeBudget \div LossPerUnit(s, x.signal.stop)
             mode == EventMode(s, HorizonOf[x.signal.strategy], now)
             top == MaxUnits[s]
  <1>1. /\ Context(x, book).stop = x.signal.stop /\ Context(x, book).requested = x.units
        /\ Context(x, book).book = book
        /\ Context(x, book).event_mode = mode
    BY DEF Context
  <1>2. x.signal.stop \in Nat \ {0} /\ x.units \in Nat /\ top \in Nat
    BY CycleAssumption, RiskAssumption DEF Intents, Signals
  <1>3. byRisk \in Nat
    <2>1. PICK m : m = LossPerUnit(s, x.signal.stop)
      OBVIOUS
    <2>2. m \in Nat \ {0}
      BY <1>2, <2>1, PerUnitFacts
    <2>3. TradeBudget \div m \in Nat
      BY <2>2, RiskAssumption
    <2>. QED
      BY <2>1, <2>3
  <1>4. PICK gross : gross = Weighed(UnitWeight(s), book)
    OBVIOUS
  <1>5. gross = Gross(book, s) /\ gross \in Int
    <2>1. UnitWeight(s) \in [Exposures -> Nat]
      BY MeasuresAreWeights DEF Weightings
    <2>. QED
      BY <1>4, <2>1, SumsAreWeights, WeighedType
  <1>6. PICK room : room = Headroom(s, x.direction, book)
    OBVIOUS
  <1>7. room \in Int /\ (AccountMode = "HEDGING" => room = top - gross)
    <2>1. PICK net : net = Net(book, s)
      OBVIOUS
    <2>2. net \in Int
      BY <2>1, NetType
    <2>3. CASE AccountMode = "HEDGING"
      BY <1>2, <1>5, <1>6, <2>3 DEF Headroom
    <2>4. CASE AccountMode = "NETTING"
      <3>1. room = top \/ room = top - Signed(x.direction, net)
        BY <1>6, <2>1, <2>4 DEF Headroom
      <3>. QED
        BY <1>2, <2>2, <2>4, <3>1 DEF Signed
    <2>. QED
      BY <2>3, <2>4, RiskAssumption
  <1> DEFINE allowed == Lesser(byRisk, IF room > 0 THEN room ELSE 0)
             reduced == IF mode = "REDUCED" THEN allowed \div 2 ELSE allowed
  <1>8. Sized(x, Context(x, book)) = IF x.units > 0 THEN Lesser(x.units, reduced) ELSE reduced
    BY <1>1, <1>6, Zenon DEF Sized
  <1> HIDE DEF byRisk, mode
  <1>9. allowed \in Nat /\ (allowed > 0 => allowed <= room)
    BY <1>3, <1>7 DEF Lesser
  <1> HIDE DEF allowed
  <1>10. reduced \in Nat /\ reduced <= allowed
    BY <1>9
  <1> HIDE DEF reduced
  <1>11. PICK size : size = Sized(x, Context(x, book))
    OBVIOUS
  <1>12. size \in Int /\ (x.units > 0 => size <= x.units) /\ size <= reduced
    BY <1>2, <1>8, <1>10, <1>11 DEF Lesser
  <1>13. size > 0 /\ AccountMode = "HEDGING" => gross + size <= top
    BY <1>2, <1>5, <1>7, <1>9, <1>10, <1>12
  <1>. QED
    BY <1>4, <1>11, <1>12, <1>13

\* A grade is typed; when nothing but the unused order path is held against an
\* entry, it fits the limits with the book it was graded against.
Fits(x, book, quantity) ==
  /\ x.units > 0 => quantity <= x.units
  /\ ConversionError(market, Quote[x.symbol], "RISK_INCREASING") = "none"
  /\ x.symbol \in DOMAIN MaxUnits
  /\ Weighed(StopWeight, book) + 100 * x.signal.stop * quantity <= StopBudget
  /\ AccountMode = "HEDGING" =>
       /\ Weighed(CountWeight(x.symbol), book) < MaxPerSymbol
       /\ Weighed(OneWeight, book) < MaxPortfolio
       /\ Weighed(UnitWeight(x.symbol), book) + quantity <= MaxUnits[x.symbol]

\* The reject codes of the checks.
SystemCodes == {"BROKER_CONNECTED", "EXECUTION_ENABLED", "KILL_SWITCH_ALLOWS_ORDER"}
PositionCodes == {"MAX_OPEN_POSITIONS_PER_SYMBOL", "MAX_OPEN_POSITIONS_PORTFOLIO"}
EntryCodes ==
  {"TRADING_ENABLED", "INSTRUMENT_TRADING_ENABLED", "EVENT_MODE_ALLOWS_ENTRY",
   "ACCOUNT_RECONCILED", "NO_UNKNOWN_ORDERS", "NO_POSITION_MISMATCH", "NO_UNTRACKED_FILL",
   "QUOTE_FRESH", "SPREAD_ACCEPTABLE", "LOSS_WITHIN_LIMITS", "MARGIN_BUFFER"}
SizeCodes ==
  {"STOP_DISTANCE_KNOWN", "CONVERSION_RATE_UNAVAILABLE", "CONVERSION_RATE_STALE",
   "SYMBOL_LIMIT_CONFIGURED", "MINIMUM_BROKER_SIZE_EXCEEDS_RISK"}
PortfolioCodes == {"PORTFOLIO_RISK_LIMIT", "CURRENCY_EXPOSURE_LIMIT"}
Codes == SystemCodes \cup PositionCodes \cup EntryCodes \cup SizeCodes \cup PortfolioCodes

\* Each check rejects with its own codes.
LEMMA ChecksAndCodes ==
  ASSUME NEW x, NEW ctx, NEW opening, NEW quantity
  PROVE  /\ SystemChecks(opening, ctx) \subseteq SystemCodes
         /\ PositionChecks(x, ctx) \subseteq PositionCodes
         /\ EntryChecks(x, ctx) \subseteq EntryCodes \cup PositionCodes
         /\ PositionChecks(x, ctx) \subseteq EntryChecks(x, ctx)
         /\ PortfolioChecks(x, ctx, quantity) \subseteq PortfolioCodes
  <1>1. ASSUME NEW y \in SystemChecks(opening, ctx)
        PROVE  y \in SystemCodes
    BY <1>1 DEF SystemChecks, Failed, SystemCodes
  <1>2. ASSUME NEW y \in PositionChecks(x, ctx)
        PROVE  y \in PositionCodes
    BY <1>2 DEF PositionChecks, Failed, PositionCodes
  <1>3. ASSUME NEW y \in PortfolioChecks(x, ctx, quantity)
        PROVE  y \in PortfolioCodes
    BY <1>3 DEF PortfolioChecks, Failed, PortfolioCodes
  <1>4. ASSUME NEW y \in EntryChecks(x, ctx)
        PROVE  y \in PositionChecks(x, ctx) \/ y \in EntryCodes
    BY <1>4 DEF EntryChecks, Failed, EntryCodes
  <1>5. ASSUME NEW y \in PositionChecks(x, ctx)
        PROVE  y \in EntryChecks(x, ctx)
    BY <1>5 DEF EntryChecks
  <1>6. PositionChecks(x, ctx) \subseteq PositionCodes
    BY <1>2
  <1>7. EntryChecks(x, ctx) \subseteq EntryCodes \cup PositionCodes
    BY <1>4, <1>6
  <1>. QED
    BY <1>1, <1>3, <1>5, <1>6, <1>7

\* The size check refuses with a code or says the size.
Measured(x, ctx, check) ==
  /\ check.rejects \in SUBSET Codes /\ check.quantity \in Nat
  /\ check.rejects \subseteq Unexercised =>
       /\ x.signal.stop > 0 /\ x.symbol \in DOMAIN MaxUnits
       /\ ConversionError(market, Quote[x.symbol], "RISK_INCREASING") = "none"
       /\ check.quantity = Sized(x, ctx) /\ check.quantity >= MinUnits
       /\ "PORTFOLIO_RISK_LIMIT" \notin PortfolioChecks(x, ctx, check.quantity)

\* When no size code is given, the size fits the limits.
LEMMA SizeCheckFacts ==
  ASSUME NEW x \in Intents, NEW book \in Seq(Exposures)
  PROVE  Measured(x, Context(x, book), SizeCheck(x, Context(x, book)))
  <1> DEFINE ctx == Context(x, book)
             check == SizeCheck(x, ctx)
             size == Sized(x, ctx)
             error == ConversionError(market, Quote[x.symbol], "RISK_INCREASING")
  <1>1. ctx.stop = x.signal.stop /\ ctx.market = market
    BY DEF Context
  <1>2. error \in {"none", "CONVERSION_RATE_UNAVAILABLE", "CONVERSION_RATE_STALE"}
    BY DEF ConversionError
  <1>3. x.signal.stop \in Nat /\ MinUnits \in Nat \ {0}
    BY CycleAssumption, RiskAssumption DEF Intents, Signals
  <1>4. PortfolioChecks(x, ctx, size) \in SUBSET Codes
    BY ChecksAndCodes DEF Codes
  <1>5. x.signal.stop > 0 /\ x.symbol \in DOMAIN MaxUnits => size \in Int
    BY SizedFacts
  <1> HIDE DEF ctx, size, error
  <1>6. ASSUME x.signal.stop <= 0
        PROVE  Measured(x, ctx, check)
    <2>1. check = [rejects |-> {"STOP_DISTANCE_KNOWN"}, quantity |-> 0]
      BY <1>1, <1>3, <1>6 DEF SizeCheck
    <2>. QED
      BY <2>1 DEF Unexercised, Codes, SizeCodes, Measured
  <1>7. ASSUME x.signal.stop > 0 /\ error # "none"
        PROVE  Measured(x, ctx, check)
    <2>1. check = [rejects |-> {error}, quantity |-> 0]
      BY <1>1, <1>3, <1>7 DEF SizeCheck, error
    <2>. QED
      BY <1>2, <1>7, <2>1 DEF Unexercised, Codes, SizeCodes, Measured
  <1>8. ASSUME x.signal.stop > 0 /\ error = "none" /\ x.symbol \notin DOMAIN MaxUnits
        PROVE  Measured(x, ctx, check)
    <2>1. check = [rejects |-> {"SYMBOL_LIMIT_CONFIGURED"}, quantity |-> 0]
      BY <1>1, <1>3, <1>8 DEF SizeCheck, error, size
    <2>. QED
      BY <2>1 DEF Unexercised, Codes, SizeCodes, Measured
  <1>9. ASSUME x.signal.stop > 0 /\ error = "none" /\ x.symbol \in DOMAIN MaxUnits /\ size < MinUnits
        PROVE  Measured(x, ctx, check)
    <2>1. check = [rejects |-> {"MINIMUM_BROKER_SIZE_EXCEEDS_RISK"}, quantity |-> 0]
      BY <1>1, <1>3, <1>9 DEF SizeCheck, error, size
    <2>. QED
      BY <2>1 DEF Unexercised, Codes, SizeCodes, Measured
  <1>10. ASSUME x.signal.stop > 0 /\ error = "none" /\ x.symbol \in DOMAIN MaxUnits
              /\ ~(size < MinUnits)
        PROVE  Measured(x, ctx, check)
    <2>1. check = [rejects |-> PortfolioChecks(x, ctx, size), quantity |-> size]
      BY <1>1, <1>3, <1>10 DEF SizeCheck, error, size
    <2>2. check.rejects = PortfolioChecks(x, ctx, size) /\ check.quantity = size
      BY <2>1
    <2>3. size \in Nat /\ size >= MinUnits
      BY <1>3, <1>5, <1>10
    <2> HIDE DEF check
    <2>4. check.rejects \subseteq Unexercised =>
            "PORTFOLIO_RISK_LIMIT" \notin PortfolioChecks(x, ctx, check.quantity)
      BY <2>2 DEF Unexercised
    <2>5. check.rejects \in SUBSET Codes /\ check.quantity \in Nat
      BY <1>4, <2>2, <2>3
    <2>6. check.quantity = size /\ check.quantity >= MinUnits
      BY <2>2, <2>3
    <2>. QED
      BY <1>10, <2>4, <2>5, <2>6 DEF Measured, error, size
  <1>11. \/ x.signal.stop <= 0
         \/ x.signal.stop > 0 /\ error # "none"
         \/ x.signal.stop > 0 /\ error = "none" /\ x.symbol \notin DOMAIN MaxUnits
         \/ x.signal.stop > 0 /\ error = "none" /\ x.symbol \in DOMAIN MaxUnits
    BY <1>3
  <1>. QED
    BY <1>6, <1>7, <1>8, <1>9, <1>10, <1>11 DEF ctx, error, size

Graded(x, book, d) ==
  /\ d.rejects \in SUBSET Codes /\ d.quantity \in Nat
  /\ x.action \in Opening /\ d.rejects \subseteq Unexercised => Fits(x, book, d.quantity)

\* What the grade of an intent says of the book it was graded against.
LEMMA GradeFacts ==
  ASSUME NEW x \in Intents, NEW book \in Seq(Exposures)
  PROVE  Graded(x, book, Evaluate(x, Context(x, book)))
  <1> DEFINE ctx == Context(x, book)
             check == SizeCheck(x, ctx)
             d == Evaluate(x, ctx)
             s == x.symbol
             stop == x.signal.stop
             q == check.quantity
  <1>1. /\ check.rejects \in SUBSET Codes /\ q \in Nat
        /\ check.rejects \subseteq Unexercised =>
             /\ stop > 0 /\ s \in DOMAIN MaxUnits
             /\ ConversionError(market, Quote[s], "RISK_INCREASING") = "none"
             /\ q = Sized(x, ctx) /\ q >= MinUnits
             /\ "PORTFOLIO_RISK_LIMIT" \notin PortfolioChecks(x, ctx, q)
    BY SizeCheckFacts DEF Measured
  <1>2. ctx.book = book /\ ctx.market = market /\ ctx.stop = stop
    BY DEF Context
  <1>3. stop \in Nat /\ MinUnits \in Nat \ {0} /\ x.units \in Nat
    BY CycleAssumption, RiskAssumption DEF Intents, Signals
  <1> HIDE DEF ctx, check
  <1> DEFINE opening == x.action \in Opening
  <1>4. SystemChecks(opening, ctx) \in SUBSET Codes
    BY ChecksAndCodes DEF Codes
  <1>5. EntryChecks(x, ctx) \in SUBSET Codes /\ PositionChecks(x, ctx) \subseteq EntryChecks(x, ctx)
    BY ChecksAndCodes DEF Codes
  <1>6. /\ d.rejects = SystemChecks(opening, ctx)
             \cup (IF x.action \in Opening THEN EntryChecks(x, ctx) \cup check.rejects ELSE {})
        /\ d.quantity = IF x.action \in Opening THEN q ELSE 0
    BY DEF Evaluate, check
  <1> HIDE DEF d
  <1>7. d.rejects \in SUBSET Codes /\ d.quantity \in Nat
    BY <1>1, <1>4, <1>5, <1>6
  <1>8. ASSUME x.action \in Opening, d.rejects \subseteq Unexercised
        PROVE  Fits(x, book, d.quantity)
    <2>1. d.quantity = q /\ check.rejects \subseteq Unexercised
          /\ PositionChecks(x, ctx) \subseteq Unexercised
      BY <1>5, <1>6, <1>8
    <2>2. /\ stop > 0 /\ s \in DOMAIN MaxUnits
          /\ ConversionError(market, Quote[s], "RISK_INCREASING") = "none"
          /\ q = Sized(x, ctx) /\ q > 0
          /\ "PORTFOLIO_RISK_LIMIT" \notin PortfolioChecks(x, ctx, q)
      BY <1>1, <1>3, <2>1
    <2>3. /\ x.units > 0 => q <= x.units
          /\ AccountMode = "HEDGING" => Weighed(UnitWeight(s), book) + q <= MaxUnits[s]
      BY <2>2, SizedFacts DEF ctx
    <2>4. StopRisk(market, book) + CandidateRisk(x, ctx, q) <= StopBudget
      BY <1>2, <2>2 DEF PortfolioChecks, Failed
    <2>5. CandidateRisk(x, ctx, q) \in Int /\ 100 * stop * q <= CandidateRisk(x, ctx, q)
      <3>1. PICK more : more = IF x.action = "INCREASE" /\ AccountMode = "NETTING"
                               THEN Abs(Net(book, s)) ELSE 0
        OBVIOUS
      <3>2. more \in Nat
        BY <3>1, NetType, AbsType
      <3>3. PICK m : m = LossPerUnit(s, stop)
        OBVIOUS
      <3>4. m \in Nat /\ 100 * stop <= m /\ stop \in Nat \ {0}
        BY <1>3, <2>2, <3>3, PerUnitFacts
      <3>5. CandidateRisk(x, ctx, q) = m * (q + more)
        BY <1>2, <3>1, <3>3 DEF CandidateRisk
      <3>6. m * q <= m * (q + more) /\ m * (q + more) \in Nat
        BY <1>1, <3>2, <3>4, TimesMonotone
      <3>7. 100 * stop \in Nat /\ q * (100 * stop) <= q * m
        <4>1. 100 * stop \in Nat /\ q \in Nat
          BY <1>1, <3>4
        <4>. QED
          BY <3>4, <4>1, TimesMonotone
      <3>8. q * m = m * q /\ q * (100 * stop) = 100 * stop * q /\ m * q \in Int
            /\ 100 * stop * q \in Int
        <4>1. PICK p : p = 100 * stop
          OBVIOUS
        <4>2. q \in Nat /\ p \in Nat
          BY <1>1, <3>7, <4>1
        <4>3. q * p = p * q /\ p * q \in Int /\ q * m = m * q /\ m * q \in Int
          BY <3>4, <4>2
        <4>. QED
          BY <4>1, <4>3
      <3>9. PICK y, z, r : y = m * q /\ z = m * (q + more) /\ r = 100 * stop * q
        OBVIOUS
      <3>10. r <= y /\ y <= z /\ z \in Int /\ r \in Int /\ y \in Int
        BY <3>6, <3>7, <3>8, <3>9
      <3>. QED
        BY <3>5, <3>9, <3>10
    <2>6. Weighed(StopWeight, book) + 100 * stop * q <= StopBudget
      <3>1. Weighed(StopWeight, book) \in Int
        BY MeasuresAreWeights, WeighedType DEF Weightings
      <3>2. PICK r : r = 100 * stop * q
        OBVIOUS
      <3>3. r \in Int
        <4>1. q \in Nat /\ stop \in Nat
          BY <1>1, <1>3
        <4>. QED
          BY <3>2, <4>1
      <3>. QED
        BY <2>4, <2>5, <3>1, <3>2, <3>3, StopRiskCovers, RiskAssumption
    <2>7. AccountMode = "HEDGING" => OpenCount(book, s) < MaxPerSymbol
                                     /\ PortfolioCount(book) < MaxPortfolio
      <3>1. AccountMode = "HEDGING" => AddsBrokerPosition(x, ctx)
        BY DEF AddsBrokerPosition
      <3>. QED
        BY <1>2, <2>1, <3>1 DEF PositionChecks, Failed, Unexercised
    <2>. QED
      BY <2>1, <2>2, <2>3, <2>6, <2>7, SumsAreWeights DEF Fits
  <1>9. Graded(x, book, d)
    BY <1>7, <1>8 DEF Graded
  <1>. QED
    BY <1>9 DEF d, ctx

-----------------------------------------------------------------------------
(* The book with what is granted *)

\* An entry the risk engine has graded.
Grades == [item: Intents, book: Seq(Exposures), rejects: SUBSET Codes, quantity: Nat]

\* What is granted belongs into a book.
LEMMA GrantedType ==
  ASSUME NEW g \in Grades
  PROVE  Granted(g) \in Exposures
  <1>1. g.item \in Intents /\ g.quantity \in Nat
    BY DEF Grades
  <1>2. g.item.symbol \in DOMAIN Base /\ g.item.signal.stop \in Nat
    BY <1>1, CycleAssumption DEF Intents, Signals
  <1>. QED
    BY <1>1, <1>2 DEF Granted, Exposures, Signed

\* The book grows by every cleared grade.
Grants(run, s) ==
  /\ run \in [0 .. Len(s) -> Seq(Exposures)]
  /\ run[0] = LedgerBook
  /\ \A k \in 1 .. Len(s) : run[k] = IF Cleared(s[k]) THEN Append(run[k - 1], Granted(s[k])) ELSE run[k - 1]
  /\ run[Len(s)] = BookWith(s)

\* BookWith grows by one grade after another.
LEMMA GrantRun ==
  ASSUME LedgerType, NEW s \in Seq(Grades)
  PROVE  \E run : Grants(run, s)
  <1> DEFINE n == Len(s)
             A == Seq(Exposures)
             op == [p \in A \X (1 .. n) |-> IF Cleared(s[p[2]]) THEN Append(p[1], Granted(s[p[2]])) ELSE p[1]]
             Iter(f) == f = [t \in SUBSET DOMAIN s |->
                               IF t = {} THEN LedgerBook
                               ELSE IF Cleared(s[Max(t)]) THEN Append(f[t \ {Max(t)}], Granted(s[Max(t)])) ELSE f[t \ {Max(t)}]]
             it == CHOOSE f : Iter(f)
  <1>1. n \in Nat /\ DOMAIN s = 1 .. n
    OBVIOUS
  <1>0. \A i \in 1 .. n : s[i] \in Grades /\ Granted(s[i]) \in Exposures
    BY <1>1, GrantedType
  <1>2. op \in [A \X (1 .. n) -> A] /\ LedgerBook \in A
    <2>1. LedgerBook \in A
      BY LedgerBookType
    <2>2. ASSUME NEW p \in A \X (1 .. n)
          PROVE  (IF Cleared(s[p[2]]) THEN Append(p[1], Granted(s[p[2]])) ELSE p[1]) \in A
      <3>1. p[1] \in Seq(Exposures) /\ Granted(s[p[2]]) \in Exposures
        BY <1>0
      <3>2. Append(p[1], Granted(s[p[2]])) \in Seq(Exposures)
        BY <3>1
      <3>. QED
        BY <3>1, <3>2
    <2>. QED
      BY <2>1, <2>2
  <1>4. BookWith(s) = it[1 .. n]
    BY <1>1, Zenon DEF BookWith, FoldLeft, MapThenFoldSet
  <1> HIDE DEF n, it
  <1>3. ASSUME NEW a \in A, NEW i \in 1 .. n
        PROVE  op[<<a, i>>] = IF Cleared(s[i]) THEN Append(a, Granted(s[i])) ELSE a
    <2>1. <<a, i>> \in A \X (1 .. n)
      OBVIOUS
    <2>. QED
      BY <2>1
  <1> HIDE DEF op, A
  <1>5. ASSUME NEW t \in SUBSET (1 .. n), t # {}
        PROVE  Max(t) \in 1 .. n /\ t \ {Max(t)} \in SUBSET (1 .. n)
    BY <1>1, <1>5, MaxUpTo
  <1>6. Iter(it)
    <2>1. PICK f : Recurses(f, A, LedgerBook, op, n)
      BY <1>1, <1>2, FoldExists
    <2>2. ASSUME NEW t \in SUBSET (1 .. n)
          PROVE  f[t] = IF t = {} THEN LedgerBook ELSE IF Cleared(s[Max(t)]) THEN Append(f[t \ {Max(t)}], Granted(s[Max(t)])) ELSE f[t \ {Max(t)}]
      <3>1. CASE t = {}
        BY <2>1, <3>1 DEF Recurses
      <3>2. CASE t # {}
        <4>1. f[t \ {Max(t)}] \in A /\ f[t] = op[<<f[t \ {Max(t)}], Max(t)>>]
          BY <2>1, <1>5, <3>2 DEF Recurses
        <4>. QED
          BY <3>2, <4>1, <1>3, <1>5
      <3>. QED
        BY <3>1, <3>2
    <2>3. f = [t \in SUBSET (1 .. n) |-> f[t]]
      BY <2>1 DEF Recurses
    <2>4. Iter(f)
      BY <1>1, <2>2, <2>3
    <2> HIDE DEF Iter
    <2>. QED
      BY <2>4 DEF it
  <1>7. it[{}] = LedgerBook
    BY <1>6
  <1>8. \A t \in SUBSET (1 .. n) :
          t # {} /\ it[t \ {Max(t)}] \in A => it[t] = op[<<it[t \ {Max(t)}], Max(t)>>]
    BY <1>1, <1>3, <1>5, <1>6
  <1>9. Follows(it, A, LedgerBook, op, n)
    BY <1>7, <1>8 DEF Follows
  <1>10. PICK run : Runs(run, A, LedgerBook, op, n) /\ run[n] = it[1 .. n]
    <2>1. HasRun(it, A, LedgerBook, op, n)
      BY <1>1, <1>2, <1>9, FoldRun
    <2>. QED
      BY <2>1 DEF HasRun
  <1>11. ASSUME NEW k \in 1 .. n
         PROVE  run[k] = IF Cleared(s[k]) THEN Append(run[k - 1], Granted(s[k])) ELSE run[k - 1]
    <2>1. k - 1 \in 0 .. n
      BY <1>1
    <2>. QED
      BY <1>10, <1>3, <2>1 DEF Runs
  <1>. QED
    BY <1>4, <1>10, <1>11 DEF n, A, Runs, Grants

\* One more grade adds what it grants.
LEMMA BookWithAppend ==
  ASSUME LedgerType, NEW s \in Seq(Grades), NEW g \in Grades
  PROVE  /\ BookWith(s) \in Seq(Exposures)
         /\ BookWith(Append(s, g)) = IF Cleared(g) THEN Append(BookWith(s), Granted(g))
                                     ELSE BookWith(s)
  <1> DEFINE n == Len(s)
             longer == Append(s, g)
  <1>1. /\ longer \in Seq(Grades) /\ n \in Nat /\ Len(longer) = n + 1
        /\ longer[n + 1] = g /\ \A k \in 1 .. n : longer[k] = s[k]
    OBVIOUS
  <1> HIDE DEF n, longer
  <1>2. PICK short : Grants(short, s)
    BY GrantRun
  <1>3. PICK long : Grants(long, longer)
    BY <1>1, GrantRun
  <1>4. /\ short[0] = LedgerBook /\ short \in [0 .. n -> Seq(Exposures)]
        /\ \A k \in 1 .. n : short[k] = IF Cleared(s[k]) THEN Append(short[k - 1], Granted(s[k]))
                                       ELSE short[k - 1]
        /\ short[n] = BookWith(s)
    BY <1>2 DEF Grants, n
  <1>5. /\ long[0] = LedgerBook
        /\ \A k \in 1 .. n + 1 :
              long[k] = IF Cleared(longer[k]) THEN Append(long[k - 1], Granted(longer[k]))
                        ELSE long[k - 1]
        /\ long[n + 1] = BookWith(longer)
    BY <1>1, <1>3 DEF Grants
  <1> DEFINE T == {k \in 0 .. n : long[k] = short[k]}
  <1>6. 0 \in T
    BY <1>1, <1>4, <1>5
  <1>7. ASSUME NEW k \in 0 .. n, k \in T, k < n
        PROVE  k + 1 \in T
    <2>0. k + 1 \in 1 .. n /\ (k + 1) - 1 = k /\ k + 1 \in 1 .. n + 1
      BY <1>1, <1>7
    <2>1. longer[k + 1] = s[k + 1]
      BY <1>1, <2>0
    <2>2. long[k] = short[k]
      BY <1>7
    <2>3. /\ short[k + 1] = IF Cleared(s[k + 1]) THEN Append(short[k], Granted(s[k + 1]))
                            ELSE short[k]
          /\ long[k + 1] = IF Cleared(s[k + 1]) THEN Append(long[k], Granted(s[k + 1]))
                           ELSE long[k]
      BY <1>4, <1>5, <2>0, <2>1
    <2>. QED
      BY <2>0, <2>2, <2>3
  <1>8. 0 .. n \subseteq T
    <2> HIDE DEF T
    <2>. QED
      BY <1>1, <1>6, <1>7, InductionTo
  <1>9. long[n] = BookWith(s) /\ n + 1 \in 1 .. n + 1 /\ (n + 1) - 1 = n
    BY <1>1, <1>4, <1>8
  <1>10. BookWith(longer) = IF Cleared(g) THEN Append(BookWith(s), Granted(g)) ELSE BookWith(s)
    BY <1>1, <1>5, <1>9
  <1>. QED
    BY <1>1, <1>4, <1>10 DEF longer

\* Without grades the book is that of the ledger.
LEMMA BookWithNothing ==
  ASSUME LedgerType
  PROVE  BookWith(<<>>) = LedgerBook
  <1>1. <<>> \in Seq(Grades) /\ Len(<<>>) = 0
    OBVIOUS
  <1>2. PICK run : Grants(run, <<>>)
    BY <1>1, GrantRun
  <1>. QED
    BY <1>1, <1>2 DEF Grants

\* A book without stops has no stop risk.
LEMMA NoStopNoRisk ==
  ASSUME NEW book \in Seq(Exposures), \A i \in DOMAIN book : book[i].stop = 0
  PROVE  Weighed(StopWeight, book) = 0
  <1> DEFINE s == [i \in DOMAIN book |-> StopWeight[book[i]]]
  <1>1. ASSUME NEW i \in DOMAIN book
        PROVE  StopWeight[book[i]] = 0
    <2>1. book[i] \in Exposures /\ book[i].stop = 0
      OBVIOUS
    <2>2. Abs(book[i].units) \in Nat
      BY <2>1, AbsType DEF Exposures
    <2>3. StopDistance(book[i]) = 0
      BY <2>1, <2>2 DEF StopDistance
    <2>. QED
      BY <2>1, <2>3 DEF StopWeight
  <1>2. DOMAIN book = 1 .. Len(book) /\ Len(book) \in Nat
    OBVIOUS
  <1>3. s \in Seq(Int) /\ Len(s) = Len(book) /\ \A i \in 1 .. Len(book) : s[i] = 0
    BY <1>1, <1>2
  <1> HIDE DEF s
  <1>4. Summed(s) = 0
    BY <1>3, SumZero
  <1>. QED
    BY <1>4, SumOfSummed DEF Weighed, s

-----------------------------------------------------------------------------
(* What every state of the cycle is like *)

CycleType ==
  /\ MemoryInv /\ now \in 0 .. MaxCycles
  /\ market \in [AllSymbols -> QuoteAge] /\ account.age \in {"none", "stale", "fresh"}
  /\ LedgerType
  /\ phase \in {"idle", "collected", "grading", "raised"}
  /\ collected \in Seq(Signals) /\ Distinct(collected)
  /\ Queued(queue) /\ graded \in Seq(Grades)
  /\ phase = "idle" => queue = <<>>
  /\ phase = "grading" => queue # <<>>
  /\ phase = "collected" => queue = <<>> /\ graded = <<>>
  /\ phase # "collected" => collected = <<>>
  /\ \A r \in trail : r.signal \in Signals /\ r.action \in Actions \cup {"none"}

\* An empty queue is in order.
LEMMA NothingQueued == Queued(<<>>) /\ Distinct(<<>>)
  <1>1. <<>> \in Seq(VerdictSet) /\ Len(<<>>) = 0 /\ 1 .. 0 = {} /\ DOMAIN <<>> = {}
    OBVIOUS
  <1>2. Queued(<<>>)
    BY <1>1 DEF Queued
  <1>. QED
    BY <1>1, <1>2 DEF Distinct

\* The initial states are typed.
LEMMA CycleTypeInit == Init => CycleType
  <1> SUFFICES ASSUME Init
               PROVE  CycleType
    OBVIOUS
  <1>1. MemoryInv
    BY MemoryInit
  <1>2. /\ now = 0 /\ market = [s \in AllSymbols |-> "none"] /\ account.age = "none"
        /\ ledger \in Ledgers /\ phase = "idle"
        /\ collected = <<>> /\ queue = <<>> /\ graded = <<>> /\ trail = {}
    BY DEF Init
  <1>3. now \in 0 .. MaxCycles
    BY <1>2, CycleAssumption
  <1>4. market \in [AllSymbols -> QuoteAge]
    BY <1>2 DEF QuoteAge
  <1>5. LedgerType
    BY <1>2, CycleAssumption DEF LedgerType
  <1>6. collected \in Seq(Signals) /\ Distinct(collected) /\ Queued(queue) /\ graded \in Seq(Grades)
    BY <1>2, NothingQueued
  <1>. QED
    BY <1>1, <1>2, <1>3, <1>4, <1>5, <1>6 DEF CycleType

\* The signals a look at the market gives, in the order of the bindings: at most
\* one of a binding.
Firing(found, open) ==
  Among(Bound, {b \in ToSet(Bound) : Looked(found, open, b).signal # NoSignal})
SignalOf(b, signal, stop) ==
  [strategy |-> b[1], symbol |-> b[2], direction |-> signal.direction, setup |-> signal.setup,
   exit_only |-> signal.exit_only, stop |-> IF signal.setup = "horizon" THEN 0 ELSE stop]
Collects(found, open, stop, result) ==
  /\ result \in Seq(Signals) /\ Distinct(result)
  /\ \A b \in ToSet(Bound) : Looked(found, open, b).signal # NoSignal =>
       \E i \in DOMAIN result : result[i] = SignalOf(b, Looked(found, open, b).signal, stop)

\* The signals of a look are typed, and one per binding that gave one.
LEMMA FiringFacts ==
  ASSUME MemoryInv, NEW found \in Sights, NEW open, NEW stop \in Stops
  PROVE  LET firing == Firing(found, open)
         IN  Collects(found, open, stop,
                      [i \in DOMAIN firing |->
                         SignalOf(firing[i], Looked(found, open, firing[i]).signal, stop)])
  <1> DEFINE S == {b \in ToSet(Bound) : Looked(found, open, b).signal # NoSignal}
             B == ToSet(Strategies) \X DOMAIN Base
             firing == Firing(found, open)
             result == [i \in DOMAIN firing |->
                          SignalOf(firing[i], Looked(found, open, firing[i]).signal, stop)]
  <1>1. Bound \in Seq(B) /\ \A i, j \in DOMAIN Bound : Bound[i] = Bound[j] => i = j
    BY CycleAssumption DEF IsInjective
  <1>2. firing = Among(Bound, S) /\ S \subseteq ToSet(Bound)
    BY DEF Firing
  <1>0. \A b \in S : b \in ToSet(Bound) /\ Looked(found, open, b).signal # NoSignal
    OBVIOUS
  <1>9. \A b \in ToSet(Bound) : Looked(found, open, b).signal # NoSignal => b \in S
    OBVIOUS
  <1> HIDE DEF S, B, firing
  <1>3. /\ firing \in Seq(B) /\ ToSet(firing) = ToSet(Bound) \cap S
        /\ \E g : Indexes(g, firing, Bound, S, Len(Bound))
    BY <1>1, <1>2, AmongFacts
  <1>4. PICK g : Indexes(g, firing, Bound, S, Len(Bound))
    BY <1>3
  <1>5. DOMAIN firing = 1 .. Len(firing) /\ Len(firing) \in Nat /\ DOMAIN Bound = 1 .. Len(Bound)
    BY <1>1, <1>3
  <1>6. ASSUME NEW i \in DOMAIN firing
        PROVE  result[i] \in Signals
    <2>1. firing[i] \in B /\ firing[i] \in S
      BY <1>4, <1>5, <1>3 DEF Indexes
    <2>2. firing[i] \in ToSet(Bound) /\ Looked(found, open, firing[i]).signal # NoSignal
      BY <1>0, <2>1
    <2>3. SeenWell(found, open, firing[i])
      BY <2>2, LookedFacts
    <2>4. PICK signal : signal = Looked(found, open, firing[i]).signal
      OBVIOUS
    <2>5. /\ signal.direction \in Side /\ signal.exit_only \in BOOLEAN
          /\ signal.setup \in SetupId \cup {"horizon"}
      BY <2>2, <2>3, <2>4 DEF SeenWell, Tells
    <2>6. firing[i][1] \in ToSet(Strategies) /\ firing[i][2] \in DOMAIN Base
      BY <2>1 DEF B
    <2>7. SignalOf(firing[i], signal, stop) \in Signals
      BY <2>5, <2>6 DEF SignalOf, Signals
    <2>. QED
      BY <2>4, <2>7
  <1>7. ASSUME NEW i \in DOMAIN firing, NEW j \in DOMAIN firing, i # j
        PROVE  <<result[i].strategy, result[i].symbol>> # <<result[j].strategy, result[j].symbol>>
    <2>1. g[i] \in DOMAIN Bound /\ g[j] \in DOMAIN Bound /\ firing[i] = Bound[g[i]]
          /\ firing[j] = Bound[g[j]]
      BY <1>4, <1>5 DEF Indexes
    <2>2. g[i] # g[j]
      BY <1>4, <1>5, <1>7, <2>1 DEF Indexes
    <2>3. firing[i] # firing[j] /\ firing[i] \in B /\ firing[j] \in B
      BY <1>1, <1>3, <2>1, <2>2
    <2>4. firing[i] = <<firing[i][1], firing[i][2]>> /\ firing[j] = <<firing[j][1], firing[j][2]>>
      BY <2>3 DEF B
    <2>. QED
      BY <2>3, <2>4 DEF SignalOf
  <1>8. ASSUME NEW b \in ToSet(Bound), Looked(found, open, b).signal # NoSignal
        PROVE  \E i \in DOMAIN result :
                 result[i] = SignalOf(b, Looked(found, open, b).signal, stop)
    <2>1. b \in ToSet(firing)
      BY <1>3, <1>8, <1>9
    <2>2. PICK i \in DOMAIN firing : firing[i] = b
      BY <2>1 DEF ToSet
    <2>. QED
      BY <2>2
  <1>10. result \in Seq(Signals) /\ DOMAIN result = DOMAIN firing
    BY <1>5, <1>6
  <1>. QED
    BY <1>7, <1>8, <1>10 DEF Collects, Distinct, firing, result

\* A cycle in which the strategies looked leaves their signals to be sized.
LEMMA DispatchCollects ==
  ASSUME CycleType, NEW seen, NEW snapshot, NEW found \in Sights, NEW open, NEW stop \in Stops,
         Dispatch(seen, snapshot, found, open, stop)
  PROVE  /\ Collects(found, open, stop, collected')
         /\ phase' = IF collected' = <<>> THEN "idle" ELSE "collected"
         /\ signaled' = [b \in ToSet(Bound) |-> Looked(found, open, b).memo]
         /\ watched' = [b \in ToSet(Bound) |-> Looked(found, open, b).watch]
  <1> DEFINE seenBy == [b \in ToSet(Bound) |-> Looked(found, open, b)]
             firing == Among(Bound, {b \in ToSet(Bound) : seenBy[b].signal # NoSignal})
  <1>1. {b \in ToSet(Bound) : seenBy[b].signal # NoSignal}
          = {b \in ToSet(Bound) : Looked(found, open, b).signal # NoSignal}
    OBVIOUS
  <1>2. firing = Firing(found, open)
    BY <1>1 DEF Firing
  <1>3. /\ collected' = [i \in DOMAIN firing |->
              [strategy |-> firing[i][1], symbol |-> firing[i][2],
               direction |-> seenBy[firing[i]].signal.direction,
               setup |-> seenBy[firing[i]].signal.setup,
               exit_only |-> seenBy[firing[i]].signal.exit_only,
               stop |-> IF seenBy[firing[i]].signal.setup = "horizon" THEN 0 ELSE stop]]
        /\ phase' = IF firing = <<>> THEN "idle" ELSE "collected"
        /\ signaled' = [b \in ToSet(Bound) |-> seenBy[b].memo]
        /\ watched' = [b \in ToSet(Bound) |-> seenBy[b].watch]
    BY Zenon DEF Dispatch
  <1>4. signaled' = [b \in ToSet(Bound) |-> Looked(found, open, b).memo]
        /\ watched' = [b \in ToSet(Bound) |-> Looked(found, open, b).watch]
    BY <1>3
  <1>5. \A i \in DOMAIN firing : firing[i] \in ToSet(Bound)
    <2> DEFINE B == ToSet(Strategies) \X DOMAIN Base
               S == {b \in ToSet(Bound) : seenBy[b].signal # NoSignal}
    <2>1. Bound \in Seq(B)
      BY CycleAssumption
    <2> HIDE DEF B, S
    <2>2. Among(Bound, S) \in Seq(B) /\ ToSet(Among(Bound, S)) = ToSet(Bound) \cap S
      BY <2>1, AmongFacts
    <2>. QED
      BY <2>2 DEF ToSet, S
  <1> HIDE DEF firing
  <1>6. collected' = [i \in DOMAIN firing |->
                        SignalOf(firing[i], Looked(found, open, firing[i]).signal, stop)]
    BY <1>3, <1>5 DEF SignalOf
  <1>7. Collects(found, open, stop, collected')
    BY <1>2, <1>6, FiringFacts DEF CycleType
  <1>8. collected' = <<>> <=> firing = <<>>
    <2> DEFINE B == ToSet(Strategies) \X DOMAIN Base
               S == {b \in ToSet(Bound) : seenBy[b].signal # NoSignal}
    <2>1. Bound \in Seq(B)
      BY CycleAssumption
    <2> HIDE DEF B, S
    <2>2. Among(Bound, S) \in Seq(B)
      BY <2>1, AmongFacts
    <2>3. firing \in Seq(B)
      BY <2>2 DEF firing, S
    <2>4. collected' \in Seq(Signals) /\ DOMAIN collected' = DOMAIN firing
      BY <1>6, <1>7 DEF Collects
    <2>. QED
      BY <2>3, <2>4
  <1>. QED
    BY <1>3, <1>4, <1>7, <1>8

\* What is recorded of a cycle when the rest is sized and arbitrated.
Sizing(sized) ==
  /\ Sizeable \in Seq(Signals)
  /\ ToSet(Sizeable) = {c \in ToSet(collected) : c.symbol \in Quoted}
  /\ sized \in Seq(Intents) /\ SizedAll(sized, Sizeable, Len(Sizeable))
  /\ Planned(queue', sized, LedgerBook)

\* Plan sizes the signals of quoted symbols and queues their intents.
LEMMA PlanQueue ==
  ASSUME CycleType, Plan
  PROVE  Sizing(IntentsOf(Sizeable))
  <1> DEFINE S == {c \in ToSet(collected) : c.symbol \in Quoted}
             sized == IntentsOf(Sizeable)
  <1>1. collected \in Seq(Signals) /\ Distinct(collected) /\ LedgerType
    BY DEF CycleType
  <1>2. Sizeable = Among(collected, S) /\ S \subseteq ToSet(collected)
    BY DEF Sizeable
  <1>0. \A c \in S : c.symbol \in ToSet(Symbols)
    BY DEF Quoted
  <1> HIDE DEF S, sized
  <1>3. /\ Sizeable \in Seq(Signals) /\ ToSet(Sizeable) = ToSet(collected) \cap S
        /\ \E g : Indexes(g, Sizeable, collected, S, Len(collected))
    BY <1>1, <1>2, AmongFacts
  <1>4. PICK g : Indexes(g, Sizeable, collected, S, Len(collected))
    BY <1>3
  <1>5. DOMAIN Sizeable = 1 .. Len(Sizeable) /\ DOMAIN collected = 1 .. Len(collected)
    BY <1>1, <1>3
  <1>6. ASSUME NEW i \in DOMAIN Sizeable, NEW j \in DOMAIN Sizeable, i # j
        PROVE  <<Sizeable[i].strategy, Sizeable[i].symbol>>
                 # <<Sizeable[j].strategy, Sizeable[j].symbol>>
    <2>1. /\ g[i] \in DOMAIN collected /\ g[j] \in DOMAIN collected
          /\ Sizeable[i] = collected[g[i]] /\ Sizeable[j] = collected[g[j]]
      BY <1>4, <1>5 DEF Indexes
    <2>2. g[i] # g[j]
      <3>1. i \in 1 .. Len(Sizeable) /\ j \in 1 .. Len(Sizeable) /\ (i < j \/ j < i)
        BY <1>3, <1>5, <1>6
      <3>2. g[i] \in 1 .. Len(collected) /\ g[j] \in 1 .. Len(collected)
        BY <1>5, <2>1
      <3>3. g[i] < g[j] \/ g[j] < g[i]
        BY <1>4, <3>1 DEF Indexes
      <3>. QED
        BY <3>2, <3>3
    <2>. QED
      BY <1>1, <2>1, <2>2 DEF Distinct
  <1>7. Distinct(Sizeable)
    BY <1>6 DEF Distinct
  <1>8. sized \in Seq(Intents) /\ SizedAll(sized, Sizeable, Len(Sizeable))
    BY <1>3, <1>7, IntentsOfFacts DEF sized
  <1>9. ASSUME NEW p \in 1 .. Len(sized)
        PROVE  sized[p].symbol \in ToSet(Symbols) /\ Stems(sized[p], sized[p].signal)
    <2>1. PICK m \in 1 .. Len(Sizeable) : Stems(sized[p], Sizeable[m])
      BY <1>8 DEF SizedAll
    <2>2. sized[p].signal = Sizeable[m] /\ sized[p].symbol = Sizeable[m].symbol
      BY <2>1 DEF Stems
    <2>3. Sizeable[m] \in S
      BY <1>4, <1>5 DEF Indexes
    <2>. QED
      BY <1>0, <2>1, <2>2, <2>3
  <1>10. queue' = Verdicts(Among(sized, Exits(sized)), Select(Candidates(sized), LedgerBook))
    BY Zenon DEF Plan, Exits, Entries, Candidates, sized
  <1>11. Planned(queue', sized, LedgerBook)
    BY <1>1, <1>8, <1>9, <1>10, PlanFacts
  <1>12. ToSet(Sizeable) = {c \in ToSet(collected) : c.symbol \in Quoted}
    BY <1>2, <1>3 DEF S
  <1>. QED
    BY <1>3, <1>8, <1>11, <1>12 DEF Sizing, sized

\* What is left of the queue when its head is taken.
Shifted(q, rest) ==
  /\ rest \in Seq(VerdictSet) /\ Len(q) = Len(rest) + 1 /\ 1 \in 1 .. Len(q)
  /\ \A i \in 1 .. Len(rest) : rest[i] = q[i + 1] /\ i + 1 \in 1 .. Len(q)
  /\ \A i \in 1 .. Len(q) : i = 1 \/ (i - 1 \in 1 .. Len(rest) /\ rest[i - 1] = q[i])
  /\ Len(q) = 1 <=> rest = <<>>

\* The queue without its head.
LEMMA TailFacts ==
  ASSUME NEW q, Queued(q), q # <<>>
  PROVE  Shifted(q, Tail(q)) /\ Queued(Tail(q)) /\ Head(q) = q[1] /\ q[1] \in VerdictSet
  <1>1. q \in Seq(VerdictSet)
    BY DEF Queued
  <1>2. PICK rest : rest = Tail(q)
    OBVIOUS
  <1>3. /\ rest \in Seq(VerdictSet) /\ Len(q) = Len(rest) + 1 /\ Len(rest) \in Nat
        /\ \A i \in 1 .. Len(rest) : rest[i] = q[i + 1]
    BY <1>1, <1>2
  <1>4. /\ 1 \in 1 .. Len(q) /\ \A i \in 1 .. Len(rest) : i + 1 \in 1 .. Len(q)
        /\ \A i \in 1 .. Len(q) : i = 1 \/ i - 1 \in 1 .. Len(rest)
    BY <1>3
  <1>5. \A i \in 1 .. Len(q) : i = 1 \/ rest[i - 1] = q[i]
    <2>1. \A i \in 1 .. Len(q) : (i - 1) + 1 = i
      BY <1>3
    <2>. QED
      BY <1>3, <1>4, <2>1
  <1>6. Len(q) = 1 <=> rest = <<>>
    BY <1>3
  <1>7. Shifted(q, rest)
    BY <1>3, <1>4, <1>5, <1>6 DEF Shifted
  <1>8. Queued(rest)
    <2>1. ASSUME NEW i \in 1 .. Len(rest)
          PROVE  /\ (rest[i].kind = "exit") <=> rest[i].item.action = "CLOSE"
                 /\ Stems(rest[i].item, rest[i].item.signal)
                 /\ rest[i].item.symbol \in ToSet(Symbols)
      BY <1>3, <1>4 DEF Queued
    <2>2. ASSUME NEW i \in 1 .. Len(rest), NEW j \in 1 .. Len(rest), i < j, rest[j].kind = "exit"
          PROVE  rest[i].kind = "exit"
      <3>1. i + 1 \in 1 .. Len(q) /\ j + 1 \in 1 .. Len(q) /\ i + 1 < j + 1
            /\ rest[i] = q[i + 1] /\ rest[j] = q[j + 1]
        BY <1>3, <1>4, <2>2
      <3>. QED
        BY <2>2, <3>1 DEF Queued
    <2>. QED
      BY <1>3, <2>1, <2>2 DEF Queued
  <1>. QED
    BY <1>1, <1>2, <1>4, <1>7, <1>8

\* A queue stays in order while the market stands still.
LEMMA QueuedKept ==
  ASSUME NEW q, Queued(q), queue' = q, market' = market
  PROVE  Queued(queue)'
  BY DEF Queued, Stems

\* A graded entry and what it leaves.
TakesHead(g) ==
  /\ g \in Grades /\ g.item = queue[1].item /\ g.book = queue[1].book
  /\ Graded(g.item, g.book, g)
  /\ graded' = Append(graded, g)
  /\ trail' = trail \cup {Record("graded", g.item.signal, g.item.action)}

\* Grade takes the head of the queue and grades it.
LEMMA GradeTakes ==
  ASSUME CycleType, Grade
  PROVE  \E g : TakesHead(g)
  <1> DEFINE v == queue[1]
             d == Evaluate(v.item, Context(v.item, v.book))
             g == [item |-> v.item, book |-> v.book, rejects |-> d.rejects, quantity |-> d.quantity]
  <1>1. queue # <<>> /\ Queued(queue)
    BY DEF CycleType, Grade
  <1>2. Head(queue) = v /\ v \in VerdictSet
    BY <1>1, TailFacts
  <1>3. v.item \in Intents /\ v.book \in Seq(Exposures)
    BY <1>2 DEF VerdictSet
  <1>4. Graded(v.item, v.book, d)
    BY <1>3, GradeFacts
  <1>5. graded' = Append(graded, g) /\ trail' = trail \cup {Record("graded", v.item.signal, v.item.action)}
    BY <1>2, Zenon DEF Grade
  <1> HIDE DEF d
  <1>6. g \in Grades
    BY <1>3, <1>4 DEF Graded, Grades
  <1>7. g.item = v.item /\ g.book = v.book /\ g.rejects = d.rejects /\ g.quantity = d.quantity
    OBVIOUS
  <1>8. Graded(g.item, g.book, g)
    BY <1>4, <1>7 DEF Graded
  <1>9. trail' = trail \cup {Record("graded", g.item.signal, g.item.action)}
    BY <1>5, <1>7
  <1> HIDE DEF g
  <1>10. TakesHead(g)
    BY <1>5, <1>6, <1>7, <1>8, <1>9 DEF TakesHead
  <1>. QED
    BY <1>10

\* Every step keeps the types.
LEMMA CycleTypeStep == CycleType /\ [Next]_vars => CycleType'
  <1> SUFFICES ASSUME CycleType, [Next]_vars
               PROVE  CycleType'
    OBVIOUS
  <1>1. MemoryInv'
    BY MemoryStep DEF CycleType
  <1>2. ASSUME NEW seen \in Markets, NEW snapshot \in Accounts, Begin(seen, snapshot)
        PROVE  now' \in 0 .. MaxCycles /\ market' \in [AllSymbols -> QuoteAge]
               /\ account'.age \in {"none", "stale", "fresh"} /\ phase = "idle"
    BY <1>2, CycleAssumption DEF Begin, CycleType, AllSymbols
  <1>3. ASSUME NEW seen \in Markets, NEW snapshot \in Accounts, BlockedCycle(seen, snapshot)
        PROVE  CycleType'
    <2>1. Begin(seen, snapshot) /\ UNCHANGED <<ledger, phase, collected, queue, trail>>
          /\ graded' = <<>>
      BY <1>3 DEF BlockedCycle
    <2>2. queue' = <<>>
      BY <1>2, <2>1 DEF CycleType
    <2>3. Queued(queue)'
      BY <2>2, NothingQueued DEF Queued
    <2>. QED
      BY <1>1, <1>2, <2>1, <2>2, <2>3 DEF CycleType, LedgerType, Distinct
  <1>4. ASSUME NEW seen \in Markets, NEW snapshot \in Accounts, NEW found \in Sights,
               NEW open \in Gates, NEW stop \in Stops,
               Dispatch(seen, snapshot, found, open, stop)
        PROVE  CycleType'
    <2>1. Begin(seen, snapshot) /\ UNCHANGED <<ledger, queue, trail>> /\ graded' = <<>>
      BY <1>4 DEF Dispatch
    <2>2. queue' = <<>>
      BY <1>2, <2>1 DEF CycleType
    <2>3. Queued(queue)'
      BY <2>2, NothingQueued DEF Queued
    <2>4. Collects(found, open, stop, collected')
          /\ phase' = IF collected' = <<>> THEN "idle" ELSE "collected"
      BY <1>4, DispatchCollects
    <2>. QED
      BY <1>1, <1>2, <2>1, <2>2, <2>3, <2>4 DEF CycleType, LedgerType, Distinct, Collects
  <1>5. CASE MarkRaises
    <2>1. /\ UNCHANGED <<now, market, account, ledger, queue, graded>>
          /\ trail' = trail \cup {Record("signal", c, "none") : c \in Blind}
          /\ phase' = "raised" /\ collected' = <<>>
      BY <1>5 DEF MarkRaises
    <2>2. \A c \in Blind : c \in Signals
      BY DEF Blind, CycleType, ToSet
    <2>3. \A r \in trail' : r.signal \in Signals /\ r.action \in Actions \cup {"none"}
      BY <2>1, <2>2 DEF CycleType, Record
    <2>4. Queued(queue)' /\ Distinct(collected')
      BY <2>1, QueuedKept, NothingQueued DEF CycleType
    <2>. QED
      BY <1>1, <2>1, <2>3, <2>4 DEF CycleType, LedgerType, Distinct
  <1>6. CASE Plan
    <2>1. /\ UNCHANGED <<now, market, account, ledger, graded>>
          /\ trail' = trail \cup {Record("signal", c, "none") :
                                    c \in {d \in ToSet(collected) : RecordedAtOnce(d)}}
          /\ phase' = IF queue' = <<>> THEN "idle" ELSE "grading"
          /\ collected' = <<>>
      BY <1>6 DEF Plan
    <2>2. \A c \in ToSet(collected) : c \in Signals
      BY DEF CycleType, ToSet
    <2>3. \A r \in trail' : r.signal \in Signals /\ r.action \in Actions \cup {"none"}
      BY <2>1, <2>2 DEF CycleType, Record
    <2>4. Queued(queue')
      BY <1>6, PlanQueue DEF Sizing, Planned
    <2>5. Queued(queue)' /\ Distinct(collected')
      BY <2>1, <2>4, QueuedKept, NothingQueued
    <2>. QED
      BY <1>1, <2>1, <2>3, <2>5 DEF CycleType, LedgerType, Distinct
  <1>7. CASE Grade
    <2>1. PICK g : TakesHead(g)
      BY <1>7, GradeTakes
    <2>2. queue # <<>> /\ Queued(queue) /\ phase = "grading"
      BY <1>7 DEF CycleType, Grade
    <2>3. /\ Shifted(queue, Tail(queue)) /\ Queued(Tail(queue))
      BY <2>2, TailFacts
    <2>4. /\ UNCHANGED <<now, market, account, ledger, collected>> /\ queue' = Tail(queue)
          /\ phase' = IF Len(queue) = 1 THEN "idle" ELSE "grading"
      BY <1>7 DEF Grade
    <2>5. Queued(queue)' /\ (Len(queue) = 1 <=> queue' = <<>>)
      BY <2>3, <2>4, QueuedKept DEF Shifted
    <2>6. graded' \in Seq(Grades)
      BY <2>1 DEF TakesHead, CycleType
    <2>7. \A r \in trail' : r.signal \in Signals /\ r.action \in Actions \cup {"none"}
      <3>1. g.item \in Intents
        BY <2>1 DEF TakesHead, Grades
      <3>2. g.item.signal \in Signals /\ g.item.action \in Actions
        BY <3>1 DEF Intents
      <3>. QED
        BY <2>1, <3>2 DEF TakesHead, CycleType, Record
    <2>. QED
      BY <1>1, <2>2, <2>4, <2>5, <2>6, <2>7 DEF CycleType, LedgerType, Distinct
  <1>8. CASE GradeRaises
    <2>1. /\ phase' = "raised" /\ phase = "grading"
          /\ UNCHANGED <<now, market, account, ledger, collected, queue, graded, trail>>
      BY <1>8 DEF GradeRaises
    <2>2. Queued(queue)'
      BY <2>1, QueuedKept DEF CycleType
    <2>. QED
      BY <1>1, <2>1, <2>2 DEF CycleType, LedgerType, Distinct
  <1>9. CASE RecordRejected
    <2>1. queue # <<>> /\ Queued(queue) /\ phase = "grading"
      BY <1>9 DEF CycleType, RecordRejected
    <2>2. Shifted(queue, Tail(queue)) /\ Queued(Tail(queue)) /\ Head(queue) = queue[1]
          /\ queue[1] \in VerdictSet
      BY <2>1, TailFacts
    <2>3. /\ UNCHANGED <<now, market, account, ledger, collected, graded>> /\ queue' = Tail(queue)
          /\ phase' = IF Len(queue) = 1 THEN "idle" ELSE "grading"
          /\ trail' = trail \cup {Record("arbitrated", queue[1].item.signal, queue[1].item.action)}
      BY <1>9, <2>2 DEF RecordRejected
    <2>4. Queued(queue)' /\ (Len(queue) = 1 <=> queue' = <<>>)
      BY <2>2, <2>3, QueuedKept DEF Shifted
    <2>5. \A r \in trail' : r.signal \in Signals /\ r.action \in Actions \cup {"none"}
      <3>1. queue[1].item \in Intents
        BY <2>2 DEF VerdictSet
      <3>2. queue[1].item.signal \in Signals /\ queue[1].item.action \in Actions
        BY <3>1 DEF Intents
      <3>. QED
        BY <2>3, <3>2 DEF CycleType, Record
    <2>. QED
      BY <1>1, <2>1, <2>3, <2>4, <2>5 DEF CycleType, LedgerType, Distinct
  <1>10. CASE Restart
    <2>1. /\ phase = "raised" /\ phase' = "idle" /\ ledger' = [b \in {} |-> 0]
          /\ queue' = <<>> /\ graded' = <<>> /\ UNCHANGED <<now, market, account, collected, trail>>
      BY <1>10 DEF Restart
    <2>2. Queued(queue)'
      BY <2>1, NothingQueued DEF Queued
    <2>3. LedgerType'
      <3>1. IsFiniteSet(DOMAIN ledger')
        BY <2>1, FS_EmptySet
      <3>. QED
        BY <2>1, <3>1 DEF LedgerType
    <2>. QED
      BY <1>1, <2>1, <2>2, <2>3 DEF CycleType, Distinct
  <1>11. CASE UNCHANGED vars
    <2>1. Queued(queue)'
      BY <1>11, QueuedKept DEF CycleType, vars
    <2>. QED
      BY <1>1, <1>11, <2>1 DEF CycleType, vars, LedgerType, Distinct
  <1>. QED
    BY <1>3, <1>4, <1>5, <1>6, <1>7, <1>8, <1>9, <1>10, <1>11 DEF Next

-----------------------------------------------------------------------------
(* LimitsTogether *)

\* What the book with the grants is known to weigh, and what is graded next.
LimitsInv ==
  /\ CycleType /\ Nests(queue) /\ HoldsBook(queue, GrantedBook)
  /\ graded # <<>> => Weighed(StopWeight, GrantedBook) <= StopBudget
  /\ AccountMode = "HEDGING" =>
       \A i \in DOMAIN graded : Cleared(graded[i]) =>
         LET s == graded[i].item.symbol
         IN  /\ Weighed(OneWeight, GrantedBook) <= MaxPortfolio
             /\ Weighed(CountWeight(s), GrantedBook) <= MaxPerSymbol
             /\ Weighed(UnitWeight(s), GrantedBook) <= MaxUnits[s]

\* While the ledger is kept so is its book.
LEMMA LedgerBookKept ==
  ASSUME ledger' = ledger
  PROVE  LedgerBook' = LedgerBook /\ GrantedBook' = BookWith(graded')
  <1>1. LedgerBook' = LedgerBook
    BY DEF LedgerBook
  <1>2. GrantedBook' = BookWith(graded')
    BY <1>1, Zenon DEF GrantedBook, BookWith, FoldLeft, MapThenFoldSet
  <1>. QED
    BY <1>1, <1>2

\* What is granted of an entry weighs no more than what was asked for.
LEMMA GrantedWeighs ==
  ASSUME NEW g \in Grades, Stems(g.item, g.item.signal), Fits(g.item, g.book, g.quantity),
         g.item.action \in Opening, NEW w \in Weightings
  PROVE  w[Granted(g)] <= w[ExposureOf(g.item)] /\ w[Granted(g)] \in Nat
         /\ w[ExposureOf(g.item)] \in Nat
  <1>1. g.item \in Intents /\ g.quantity \in Nat /\ g.item.units \in Nat
    BY DEF Grades, Intents
  <1>2. g.quantity <= g.item.units
    BY <1>1 DEF Fits, Stems
  <1>3. Granted(g) \in Exposures /\ ExposureOf(g.item) \in Exposures
    BY <1>1, GrantedType, ExposureType
  <1>4. /\ Granted(g).symbol = ExposureOf(g.item).symbol
        /\ Granted(g).stop = ExposureOf(g.item).stop
        /\ Granted(g).units = Signed(g.item.direction, g.quantity)
        /\ ExposureOf(g.item).units = Signed(g.item.direction, g.item.units)
    BY DEF Granted, ExposureOf
  <1>5. Abs(Granted(g).units) <= Abs(ExposureOf(g.item).units)
    BY <1>1, <1>2, <1>4 DEF Abs, Signed
  <1>. QED
    BY <1>3, <1>4, <1>5 DEF Weightings

\* What a granted entry weighs in each measure.
LEMMA GrantedMeasures ==
  ASSUME NEW g \in Grades
  PROVE  /\ StopWeight[Granted(g)] = 100 * g.item.signal.stop * g.quantity
         /\ OneWeight[Granted(g)] = 1
         /\ \A s : /\ CountWeight(s)[Granted(g)] = IF g.item.symbol = s THEN 1 ELSE 0
                   /\ UnitWeight(s)[Granted(g)] = IF g.item.symbol = s THEN g.quantity ELSE 0
  <1>1. Granted(g) \in Exposures /\ g.quantity \in Nat
    BY GrantedType DEF Grades
  <1>2. /\ Granted(g).symbol = g.item.symbol /\ Granted(g).stop = g.item.signal.stop
        /\ Granted(g).units = Signed(g.item.direction, g.quantity)
    BY DEF Granted
  <1>3. Abs(Granted(g).units) = g.quantity
    BY <1>1, <1>2 DEF Abs, Signed
  <1>. QED
    BY <1>1, <1>2, <1>3 DEF StopWeight, StopDistance, OneWeight, CountWeight, UnitWeight

\* The queue without its head nests as before.
LEMMA NestsTail ==
  ASSUME NEW q, Queued(q), q # <<>>, Nests(q)
  PROVE  Nests(Tail(q))
  <1>1. PICK rest : rest = Tail(q)
    OBVIOUS
  <1>2. Shifted(q, rest)
    BY <1>1, TailFacts
  <1>3. ASSUME NEW i \in 1 .. Len(rest), NEW j \in 1 .. Len(rest), i < j,
               rest[i].kind = "accepted", rest[j].kind = "accepted", NEW w \in Weightings
        PROVE  Weighed(w, rest[i].book) + w[ExposureOf(rest[i].item)] <= Weighed(w, rest[j].book)
    <2>1. /\ rest[i] = q[i + 1] /\ rest[j] = q[j + 1] /\ i + 1 < j + 1
          /\ i + 1 \in 1 .. Len(q) /\ j + 1 \in 1 .. Len(q)
      BY <1>2, <1>3 DEF Shifted
    <2>. QED
      BY <1>3, <2>1 DEF Nests
  <1>. QED
    BY <1>1, <1>3 DEF Nests

\* One grade: what is granted was made room for in the book it was graded against.
LEMMA GradeWithin ==
  ASSUME LimitsInv, Grade
  PROVE  LimitsInv'
  <1>1. PICK g : TakesHead(g)
    BY GradeTakes DEF LimitsInv
  <1>2. /\ g \in Grades /\ g.item = queue[1].item /\ g.book = queue[1].book
        /\ Graded(g.item, g.book, g) /\ graded' = Append(graded, g)
    BY <1>1 DEF TakesHead
  <1>3. /\ queue # <<>> /\ Queued(queue) /\ Nests(queue) /\ HoldsBook(queue, GrantedBook)
        /\ LedgerType /\ graded \in Seq(Grades) /\ Head(queue).kind # "rejected"
        /\ ledger' = ledger /\ queue' = Tail(queue)
    BY DEF LimitsInv, CycleType, Grade
  <1>4. CycleType'
    BY CycleTypeStep DEF LimitsInv, Next
  <1>5. Shifted(queue, queue') /\ Head(queue) = queue[1] /\ queue[1] \in VerdictSet
    BY <1>3, TailFacts
  <1>6. Nests(queue')
    BY <1>3, NestsTail
  <1> DEFINE gb == GrantedBook
             new == BookWith(Append(graded, g))
  <1>7. /\ gb \in Seq(Exposures)
        /\ new = IF Cleared(g) THEN Append(gb, Granted(g)) ELSE gb
        /\ GrantedBook' = new
    BY <1>2, <1>3, BookWithAppend, LedgerBookKept DEF GrantedBook
  <1> HIDE DEF gb, new
  <1>8. Nests(queue)' /\ Granted(g) \in Exposures
    BY <1>2, <1>6, GrantedType DEF Nests
  <1>9. CASE ~Cleared(g)
    <2>1. GrantedBook' = GrantedBook
      BY <1>7, <1>9 DEF gb
    <2>2. HoldsBook(queue', GrantedBook)
      BY <1>3, <1>5 DEF HoldsBook, Shifted
    <2>3. HoldsBook(queue, GrantedBook)'
      BY <2>1, <2>2 DEF HoldsBook
    <2>4. Weighed(StopWeight, GrantedBook) <= StopBudget
      <3>1. CASE graded # <<>>
        BY <3>1 DEF LimitsInv
      <3>2. CASE graded = <<>>
        <4>1. GrantedBook = LedgerBook
          BY <1>3, <3>2, BookWithNothing DEF GrantedBook
        <4>2. Weighed(StopWeight, LedgerBook) = 0
          BY <1>3, LedgerBookType, NoStopNoRisk
        <4>. QED
          BY <4>1, <4>2, RiskAssumption
      <3>. QED
        BY <3>1, <3>2
    <2>5. ASSUME AccountMode = "HEDGING", NEW i \in DOMAIN graded', Cleared(graded'[i])
          PROVE  i \in DOMAIN graded /\ graded'[i] = graded[i]
      <3>1. i \in 1 .. Len(graded) + 1 /\ i # Len(graded) + 1
        BY <1>2, <1>3, <1>9, <2>5
      <3>. QED
        BY <1>2, <1>3, <3>1
    <2>6. ASSUME AccountMode = "HEDGING", NEW i \in DOMAIN graded', Cleared(graded'[i])
          PROVE  LET s == graded'[i].item.symbol
                 IN  /\ Weighed(OneWeight, GrantedBook) <= MaxPortfolio
                     /\ Weighed(CountWeight(s), GrantedBook) <= MaxPerSymbol
                     /\ Weighed(UnitWeight(s), GrantedBook) <= MaxUnits[s]
      BY <2>5, <2>6 DEF LimitsInv
    <2>. QED
      BY <1>4, <1>8, <2>1, <2>3, <2>4, <2>6 DEF LimitsInv, Weighed, Cleared
  <1>10. CASE Cleared(g)
    <2>1. g.item.action \in Opening /\ Fits(g.item, g.book, g.quantity)
      BY <1>2, <1>10 DEF Cleared, Graded
    <2>2. /\ queue[1].kind = "accepted" /\ Stems(g.item, g.item.signal)
          /\ 1 \in 1 .. Len(queue) /\ g.book \in Seq(Exposures)
      <3>1. queue[1].kind # "exit" /\ 1 \in 1 .. Len(queue) /\ Stems(g.item, g.item.signal)
        BY <1>2, <1>3, <1>5, <2>1 DEF Queued, Shifted, Opening
      <3>. QED
        BY <1>2, <1>3, <1>5, <3>1 DEF VerdictSet
    <2>3. ASSUME NEW w \in Weightings
          PROVE  /\ Weighed(w, new) = Weighed(w, gb) + w[Granted(g)]
                 /\ Weighed(w, gb) \in Int /\ w[Granted(g)] \in Nat
                 /\ Weighed(w, gb) <= Weighed(w, g.book) /\ Weighed(w, g.book) \in Int
                 /\ w[Granted(g)] <= w[ExposureOf(g.item)] /\ w[ExposureOf(g.item)] \in Nat
      <3>1. w \in [Exposures -> Nat]
        BY DEF Weightings
      <3>2. Weighed(w, Append(gb, Granted(g))) = Weighed(w, gb) + w[Granted(g)]
            /\ Weighed(w, gb) \in Int
        BY <1>7, <1>8, <3>1, WeighedAppend
      <3>3. Weighed(w, gb) <= Weighed(w, g.book)
        BY <1>2, <1>3, <2>2 DEF HoldsBook, gb
      <3>. QED
        BY <1>2, <1>7, <1>10, <2>1, <2>2, <3>1, <3>2, <3>3, GrantedWeighs, WeighedType
    <2>4. HoldsBook(queue', new)
      <3>1. ASSUME NEW i \in 1 .. Len(queue'), queue'[i].kind = "accepted", NEW w \in Weightings
            PROVE  Weighed(w, new) <= Weighed(w, queue'[i].book)
        <4>1. queue'[i] = queue[i + 1] /\ i + 1 \in 1 .. Len(queue) /\ 1 < i + 1
          BY <1>5, <3>1 DEF Shifted
        <4>2. Weighed(w, queue[1].book) + w[ExposureOf(queue[1].item)] <= Weighed(w, queue[i + 1].book)
          BY <1>3, <2>2, <3>1, <4>1 DEF Nests
        <4>3. queue[i + 1].book \in Seq(Exposures)
          <5>1. queue[i + 1] \in VerdictSet
            BY <1>3, <4>1 DEF Queued
          <5>. QED
            BY <5>1 DEF VerdictSet
        <4>4. Weighed(w, queue[i + 1].book) \in Int
          BY <4>3, WeighedType DEF Weightings
        <4>. QED
          BY <1>2, <2>3, <4>1, <4>2, <4>4, SMTT(30)
      <3>. QED
        BY <3>1 DEF HoldsBook
    <2>5. HoldsBook(queue, GrantedBook)'
      BY <1>7, <2>4 DEF HoldsBook
    <2>6. Weighed(StopWeight, new) <= StopBudget
      <3>1. PICK risk : risk = 100 * g.item.signal.stop * g.quantity
        OBVIOUS
      <3>2. Weighed(StopWeight, g.book) + risk <= StopBudget
        BY <2>1, <3>1 DEF Fits
      <3>3. StopWeight[Granted(g)] = risk
        BY <1>2, <3>1, GrantedMeasures
      <3>. QED
        BY <2>3, <3>2, <3>3, MeasuresAreWeights, RiskAssumption
    <2>7. ASSUME AccountMode = "HEDGING", NEW i \in DOMAIN graded', Cleared(graded'[i])
          PROVE  LET s == graded'[i].item.symbol
                 IN  /\ Weighed(OneWeight, new) <= MaxPortfolio
                     /\ Weighed(CountWeight(s), new) <= MaxPerSymbol
                     /\ Weighed(UnitWeight(s), new) <= MaxUnits[s]
      <3>1. PICK s : s = graded'[i].item.symbol
        OBVIOUS
      <3>2. /\ OneWeight \in Weightings /\ CountWeight(s) \in Weightings /\ UnitWeight(s) \in Weightings
            /\ MaxPortfolio \in Nat /\ MaxPerSymbol \in Nat /\ g.quantity \in Nat
        BY <1>2, MeasuresAreWeights, RiskAssumption DEF Grades
      <3>3. /\ OneWeight[Granted(g)] = 1
            /\ CountWeight(s)[Granted(g)] = IF g.item.symbol = s THEN 1 ELSE 0
            /\ UnitWeight(s)[Granted(g)] = IF g.item.symbol = s THEN g.quantity ELSE 0
        BY <1>2, GrantedMeasures
      <3>4. Weighed(OneWeight, new) <= MaxPortfolio
        <4>1. Weighed(OneWeight, g.book) < MaxPortfolio
          BY <2>1, <2>7 DEF Fits
        <4>. QED
          BY <2>3, <3>2, <3>3, <4>1
      <3>5. CASE g.item.symbol = s
        <4>1. /\ Weighed(CountWeight(s), g.book) < MaxPerSymbol
              /\ Weighed(UnitWeight(s), g.book) + g.quantity <= MaxUnits[s]
              /\ MaxUnits[s] \in Nat
          BY <2>1, <2>7, <3>5, RiskAssumption DEF Fits
        <4>2. Weighed(CountWeight(s), new) <= MaxPerSymbol
          BY <2>3, <3>2, <3>3, <3>5, <4>1
        <4>3. Weighed(UnitWeight(s), new) <= MaxUnits[s]
          BY <2>3, <3>2, <3>3, <3>5, <4>1
        <4>. QED
          BY <3>1, <3>4, <4>2, <4>3
      <3>6. CASE g.item.symbol # s
        <4>1. i \in DOMAIN graded /\ graded'[i] = graded[i]
          <5>1. i \in 1 .. Len(graded) + 1 /\ i # Len(graded) + 1
            BY <1>2, <1>3, <2>7, <3>1, <3>6
          <5>. QED
            BY <1>2, <1>3, <5>1
        <4>2. /\ Weighed(CountWeight(s), gb) <= MaxPerSymbol
              /\ Weighed(UnitWeight(s), gb) <= MaxUnits[s]
          BY <2>7, <3>1, <4>1 DEF LimitsInv, gb
        <4>3. /\ Weighed(CountWeight(s), new) = Weighed(CountWeight(s), gb)
              /\ Weighed(UnitWeight(s), new) = Weighed(UnitWeight(s), gb)
          BY <2>3, <3>2, <3>3, <3>6
        <4>. QED
          BY <3>1, <3>4, <4>2, <4>3
      <3>. QED
        BY <3>5, <3>6
    <2>. QED
      BY <1>4, <1>7, <1>8, <2>5, <2>6, <2>7 DEF LimitsInv, Weighed, Cleared
  <1>. QED
    BY <1>9, <1>10

\* With nothing queued and nothing graded there is nothing to keep.
LEMMA NothingGraded ==
  ASSUME CycleType', queue' = <<>>, graded' = <<>>
  PROVE  LimitsInv'
  <1>1. Len(queue') = 0 /\ 1 .. 0 = {} /\ DOMAIN graded' = {}
    OBVIOUS
  <1>2. Nests(queue)' /\ HoldsBook(queue, GrantedBook)'
    BY <1>1 DEF Nests, HoldsBook
  <1>. QED
    BY <1>1, <1>2 DEF LimitsInv

\* A step that keeps the ledger and the grades and takes nothing away keeps it.
LEMMA LimitsKept ==
  ASSUME LimitsInv, CycleType', ledger' = ledger, graded' = graded,
         Nests(queue'), HoldsBook(queue', GrantedBook)
  PROVE  LimitsInv'
  <1>1. GrantedBook' = GrantedBook
    BY LedgerBookKept DEF GrantedBook
  <1>2. Nests(queue)' /\ HoldsBook(queue, GrantedBook)'
    BY <1>1 DEF Nests, HoldsBook
  <1>3. graded' # <<>> => Weighed(StopWeight, GrantedBook') <= StopBudget
    BY <1>1 DEF LimitsInv
  <1>4. ASSUME AccountMode = "HEDGING", NEW i \in DOMAIN graded', Cleared(graded'[i])
        PROVE  LET s == graded'[i].item.symbol
               IN  /\ Weighed(OneWeight, GrantedBook') <= MaxPortfolio
                   /\ Weighed(CountWeight(s), GrantedBook') <= MaxPerSymbol
                   /\ Weighed(UnitWeight(s), GrantedBook') <= MaxUnits[s]
    BY <1>1, <1>4 DEF LimitsInv
  <1>. QED
    BY <1>2, <1>3, <1>4 DEF LimitsInv, Weighed, Cleared

\* The initial states keep the limits.
LEMMA LimitsInit == Init => LimitsInv
  <1> SUFFICES ASSUME Init
               PROVE  LimitsInv
    OBVIOUS
  <1>1. CycleType
    BY CycleTypeInit
  <1>2. queue = <<>> /\ graded = <<>> /\ Len(queue) = 0 /\ 1 .. 0 = {} /\ DOMAIN graded = {}
    BY DEF Init
  <1>3. Nests(queue) /\ HoldsBook(queue, GrantedBook)
    BY <1>2 DEF Nests, HoldsBook
  <1>. QED
    BY <1>1, <1>2, <1>3 DEF LimitsInv

\* Every step keeps the limits.
LEMMA LimitsStep == LimitsInv /\ [Next]_vars => LimitsInv'
  <1> SUFFICES ASSUME LimitsInv, [Next]_vars
               PROVE  LimitsInv'
    OBVIOUS
  <1>1. CycleType /\ Nests(queue) /\ HoldsBook(queue, GrantedBook)
    BY DEF LimitsInv
  <1>2. CycleType'
    BY <1>1, CycleTypeStep
  <1>3. ASSUME NEW seen \in Markets, NEW snapshot \in Accounts, BlockedCycle(seen, snapshot)
        PROVE  LimitsInv'
    <2>1. queue' = <<>> /\ graded' = <<>>
      BY <1>1, <1>3 DEF BlockedCycle, Begin, CycleType
    <2>. QED
      BY <1>2, <2>1, NothingGraded
  <1>4. ASSUME NEW seen \in Markets, NEW snapshot \in Accounts, NEW found \in Sights,
               NEW open \in Gates, NEW stop \in Stops, Dispatch(seen, snapshot, found, open, stop)
        PROVE  LimitsInv'
    <2>1. queue' = <<>> /\ graded' = <<>>
      BY <1>1, <1>4 DEF Dispatch, Begin, CycleType
    <2>. QED
      BY <1>2, <2>1, NothingGraded
  <1>5. CASE MarkRaises
    BY <1>1, <1>2, <1>5, LimitsKept DEF MarkRaises
  <1>6. CASE Plan
    <2>1. graded = <<>> /\ LedgerType
      BY <1>1, <1>6 DEF Plan, CycleType
    <2>2. GrantedBook = LedgerBook
      BY <2>1, BookWithNothing DEF GrantedBook
    <2>3. Sizing(IntentsOf(Sizeable))
      BY <1>1, <1>6, PlanQueue
    <2>4. Nests(queue') /\ HoldsBook(queue', LedgerBook)
      BY <2>3 DEF Sizing, Planned
    <2>. QED
      BY <1>2, <1>6, <2>2, <2>4, LimitsKept DEF Plan
  <1>7. CASE Grade
    BY <1>7, GradeWithin
  <1>8. CASE GradeRaises
    BY <1>1, <1>2, <1>8, LimitsKept DEF GradeRaises
  <1>9. CASE RecordRejected
    <2>1. queue # <<>> /\ Queued(queue) /\ queue' = Tail(queue)
      BY <1>1, <1>9 DEF RecordRejected, CycleType
    <2>2. Shifted(queue, Tail(queue)) /\ Nests(Tail(queue))
      BY <1>1, <2>1, TailFacts, NestsTail
    <2>3. Nests(queue') /\ HoldsBook(queue', GrantedBook)
      BY <1>1, <2>1, <2>2 DEF HoldsBook, Shifted
    <2>. QED
      BY <1>2, <1>9, <2>3, LimitsKept DEF RecordRejected
  <1>10. CASE Restart
    <2>1. queue' = <<>> /\ graded' = <<>>
      BY <1>10 DEF Restart
    <2>. QED
      BY <1>2, <2>1, NothingGraded
  <1>11. CASE UNCHANGED vars
    BY <1>1, <1>2, <1>11, LimitsKept DEF vars
  <1>. QED
    BY <1>3, <1>4, <1>5, <1>6, <1>7, <1>8, <1>9, <1>10, <1>11 DEF Next

\* The book with the grants is a book.
LEMMA GrantedBookType ==
  ASSUME CycleType
  PROVE  GrantedBook \in Seq(Exposures)
  <1>1. LedgerType /\ graded \in Seq(Grades)
    BY DEF CycleType
  <1>2. PICK run : Grants(run, graded)
    BY <1>1, GrantRun
  <1>3. Len(graded) \in 0 .. Len(graded)
    BY <1>1
  <1>. QED
    BY <1>2, <1>3 DEF Grants, GrantedBook

\* The budget holds in both modes, the caps in the hedging one.
BudgetKept == Total(StopDistance, GrantedBook) <= StopBudget

\* The inductive invariant gives the budget ...
LEMMA BudgetFollows == LimitsInv => BudgetKept
  <1> SUFFICES ASSUME LimitsInv
               PROVE  BudgetKept
    OBVIOUS
  <1>1. CycleType /\ LedgerType /\ GrantedBook \in Seq(Exposures)
    BY GrantedBookType DEF LimitsInv, CycleType
  <1>2. Total(StopDistance, GrantedBook) = Weighed(StopWeight, GrantedBook)
    BY <1>1, SumsAreWeights
  <1>3. CASE graded # <<>>
    BY <1>2, <1>3 DEF LimitsInv, BudgetKept
  <1>4. CASE graded = <<>>
    <2>1. GrantedBook = LedgerBook
      BY <1>1, <1>4, BookWithNothing DEF GrantedBook
    <2>2. Weighed(StopWeight, LedgerBook) = 0
      BY <1>1, LedgerBookType, NoStopNoRisk
    <2>. QED
      BY <1>2, <2>1, <2>2, RiskAssumption DEF BudgetKept
  <1>. QED
    BY <1>3, <1>4

\* ... and on a hedging account all the limits.
LEMMA LimitsFollow == AccountMode = "HEDGING" /\ LimitsInv => LimitsTogether
  <1> SUFFICES ASSUME AccountMode = "HEDGING", LimitsInv
               PROVE  LimitsTogether
    OBVIOUS
  <1>1. GrantedBook \in Seq(Exposures)
    BY GrantedBookType DEF LimitsInv
  <1>2. BudgetKept
    BY BudgetFollows
  <1>3. ASSUME NEW i \in DOMAIN graded, Cleared(graded[i])
        PROVE  PortfolioCount(GrantedBook) <= MaxPortfolio
    <2>1. Weighed(OneWeight, GrantedBook) <= MaxPortfolio
      BY <1>3 DEF LimitsInv
    <2>. QED
      BY <1>1, <2>1, SumsAreWeights
  <1>4. ASSUME NEW i \in DOMAIN graded, Cleared(graded[i]), NEW s, s = graded[i].item.symbol
        PROVE  /\ OpenCount(GrantedBook, s) <= MaxPerSymbol
               /\ Gross(GrantedBook, s) <= MaxUnits[s]
    <2>1. /\ Weighed(CountWeight(s), GrantedBook) <= MaxPerSymbol
          /\ Weighed(UnitWeight(s), GrantedBook) <= MaxUnits[s]
      BY <1>4 DEF LimitsInv
    <2>. QED
      BY <1>1, <2>1, SumsAreWeights
  <1>5. AccountMode # "NETTING"
    OBVIOUS
  <1>. QED
    BY <1>2, <1>3, <1>4, <1>5, Zenon DEF LimitsTogether, BudgetKept

\* Hedging: entries graded one by one keep the limits together (risk/engine.py,
\* evaluate; live/shadow.py, the loop over the accepted entries).
THEOREM LimitsHoldTogether ==
  ASSUME AccountMode = "HEDGING"
  PROVE  Spec => []LimitsTogether
  <1>1. LimitsInv => LimitsTogether
    BY LimitsFollow
  <1>. QED
    BY <1>1, LimitsInit, LimitsStep, PTL DEF Spec

\* In both modes the stop risk of what is granted stays in the portfolio's budget.
THEOREM BudgetIsKept == Spec => []BudgetKept
  BY LimitsInit, LimitsStep, BudgetFollows, PTL DEF Spec

-----------------------------------------------------------------------------
(* StrongestWin *)

Opens(g, i) == i \in 1 .. Len(g) /\ g[i].item.action \in Opening
Accepts(q, i) == i \in 1 .. Len(q) /\ q[i].kind = "accepted"

\* No leg is shared by what was graded and what is accepted.
Apart(g, q) ==
  /\ \A i, j : i # j /\ Opens(g, i) /\ Opens(g, j) => Legged(g[i].item) \cap Legged(g[j].item) = {}
  /\ \A i, j : Opens(g, i) /\ Accepts(q, j) => Legged(g[i].item) \cap Legged(q[j].item) = {}
  /\ \A i, j : i # j /\ Accepts(q, i) /\ Accepts(q, j) =>
       Legged(q[i].item) \cap Legged(q[j].item) = {}
OpenedItems(g) == {g[i].item : i \in {j \in 1 .. Len(g) : g[j].item.action \in Opening}}
AcceptedItems(q) == {q[i].item : i \in {j \in 1 .. Len(q) : q[j].kind = "accepted"}}
TakenItems(g, q) == OpenedItems(g) \cup AcceptedItems(q)
SymbolsIn(items) == {x.symbol : x \in items}

\* Each rejected entry has lost to one that is taken, or to the book.
Beaten(taken, q, book) ==
  \A i \in 1 .. Len(q) : q[i].kind = "rejected" =>
    \/ \E x \in taken : LosesTo(Candidate(x), Candidate(q[i].item), book, DOMAIN Base)
    \/ Capped(Candidate(q[i].item), book, DOMAIN Base)

WinsInv ==
  /\ CycleType /\ Apart(graded, queue)
  /\ Uncompleted(SymbolsIn(TakenItems(graded, queue)), LedgerBook)
  /\ Beaten(TakenItems(graded, queue), queue, LedgerBook)

\* With nothing graded and nothing queued there is nothing to compare.
LEMMA NothingTaken ==
  ASSUME NEW book
  PROVE  /\ Apart(<<>>, <<>>) /\ Uncompleted(SymbolsIn(TakenItems(<<>>, <<>>)), book)
         /\ Beaten(TakenItems(<<>>, <<>>), <<>>, book)
  <1>1. Len(<<>>) = 0 /\ 1 .. 0 = {}
    OBVIOUS
  <1>2. Apart(<<>>, <<>>) /\ Beaten(TakenItems(<<>>, <<>>), <<>>, book)
    BY <1>1 DEF Apart, Opens, Accepts, Beaten
  <1>3. SymbolsIn(TakenItems(<<>>, <<>>)) = {}
    BY <1>1 DEF SymbolsIn, TakenItems, OpenedItems, AcceptedItems
  <1>4. Triangles({} \cup SymbolsOf(book)) \subseteq SUBSET SymbolsOf(book)
    BY DEF Triangles
  <1>. QED
    BY <1>2, <1>3, <1>4 DEF Uncompleted

\* Nothing is taken or given up when the head is graded.
LEMMA TakenGraded ==
  ASSUME NEW q, Queued(q), q # <<>>, q[1].kind # "rejected",
         NEW g \in Seq(Grades), NEW e \in Grades, e.item = q[1].item, Apart(g, q)
  PROVE  /\ Apart(Append(g, e), Tail(q))
         /\ TakenItems(Append(g, e), Tail(q)) = TakenItems(g, q)
  <1>1. PICK rest : rest = Tail(q)
    OBVIOUS
  <1>2. Shifted(q, rest) /\ q[1] \in VerdictSet
    BY <1>1, TailFacts
  <1>3. PICK h : h = Append(g, e)
    OBVIOUS
  <1>4. /\ Len(g) \in Nat /\ Len(h) = Len(g) + 1 /\ h[Len(g) + 1] = e
        /\ \A i \in 1 .. Len(g) : h[i] = g[i]
    BY <1>3
  <1>5. Len(q) \in Nat /\ Len(rest) \in Nat /\ Len(q) = Len(rest) + 1
    BY <1>2 DEF Queued, Shifted
  <1>6. q[1].item.action \in Opening <=> q[1].kind = "accepted"
    <2>1. /\ (q[1].kind = "exit") <=> q[1].item.action = "CLOSE"
          /\ q[1].item.action \in Actions /\ q[1].kind \in {"exit", "accepted", "rejected"}
      <3>1. q[1].item \in Intents /\ q[1].kind \in {"exit", "accepted", "rejected"}
        BY <1>2 DEF VerdictSet
      <3>2. (q[1].kind = "exit") <=> q[1].item.action = "CLOSE"
        BY <1>2 DEF Queued, Shifted
      <3>. QED
        BY <3>1, <3>2 DEF Intents
    <2>. QED
      BY <2>1 DEF Actions, Opening
  <1>7. ASSUME NEW i, Opens(h, i)
        PROVE  \/ Opens(g, i) /\ h[i].item = g[i].item
               \/ i = Len(g) + 1 /\ Accepts(q, 1) /\ h[i].item = q[1].item
    <2>1. CASE i \in 1 .. Len(g)
      BY <1>4, <1>7, <2>1 DEF Opens
    <2>2. CASE i = Len(g) + 1
      BY <1>2, <1>4, <1>6, <1>7, <2>2 DEF Opens, Accepts, Shifted
    <2>. QED
      BY <1>4, <1>7, <2>1, <2>2 DEF Opens
  <1>8. ASSUME NEW i, Accepts(rest, i)
        PROVE  Accepts(q, i + 1) /\ rest[i].item = q[i + 1].item /\ i \in Nat /\ i >= 1
    BY <1>2, <1>5, <1>8 DEF Accepts, Shifted
  <1>9. Apart(h, rest)
    <2>1. ASSUME NEW i, NEW j, i # j, Opens(h, i), Opens(h, j)
          PROVE  Legged(h[i].item) \cap Legged(h[j].item) = {}
      <3>1. CASE Opens(g, i) /\ h[i].item = g[i].item /\ Opens(g, j) /\ h[j].item = g[j].item
        BY <2>1, <3>1 DEF Apart
      <3>2. CASE Opens(g, i) /\ h[i].item = g[i].item /\ Accepts(q, 1) /\ h[j].item = q[1].item
        BY <3>2 DEF Apart
      <3>3. CASE Opens(g, j) /\ h[j].item = g[j].item /\ Accepts(q, 1) /\ h[i].item = q[1].item
        BY <3>3 DEF Apart
      <3>. QED
        BY <1>7, <2>1, <3>1, <3>2, <3>3
    <2>2. ASSUME NEW i, NEW j, Opens(h, i), Accepts(rest, j)
          PROVE  Legged(h[i].item) \cap Legged(rest[j].item) = {}
      <3>1. Accepts(q, j + 1) /\ rest[j].item = q[j + 1].item /\ 1 # j + 1
        BY <1>8, <2>2
      <3>. QED
        BY <1>7, <2>2, <3>1 DEF Apart
    <2>3. ASSUME NEW i, NEW j, i # j, Accepts(rest, i), Accepts(rest, j)
          PROVE  Legged(rest[i].item) \cap Legged(rest[j].item) = {}
      <3>1. /\ Accepts(q, i + 1) /\ rest[i].item = q[i + 1].item
            /\ Accepts(q, j + 1) /\ rest[j].item = q[j + 1].item /\ i + 1 # j + 1
        BY <1>8, <2>3
      <3>. QED
        BY <3>1 DEF Apart
    <2>. QED
      BY <2>1, <2>2, <2>3 DEF Apart
  <1>10. TakenItems(h, rest) \subseteq TakenItems(g, q)
    <2>1. ASSUME NEW x \in TakenItems(h, rest)
          PROVE  x \in TakenItems(g, q)
      <3>1. (\E i : Opens(h, i) /\ x = h[i].item) \/ (\E i : Accepts(rest, i) /\ x = rest[i].item)
        BY <2>1 DEF TakenItems, OpenedItems, AcceptedItems, Opens, Accepts
      <3>2. (\E i : Opens(g, i) /\ x = g[i].item) \/ (\E i : Accepts(q, i) /\ x = q[i].item)
        BY <1>7, <1>8, <3>1
      <3>. QED
        BY <3>2 DEF TakenItems, OpenedItems, AcceptedItems, Opens, Accepts
    <2>. QED
      BY <2>1
  <1>11. TakenItems(g, q) \subseteq TakenItems(h, rest)
    <2>1. ASSUME NEW x \in TakenItems(g, q)
          PROVE  x \in TakenItems(h, rest)
      <3>1. (\E i : Opens(g, i) /\ x = g[i].item) \/ (\E i : Accepts(q, i) /\ x = q[i].item)
        BY <2>1 DEF TakenItems, OpenedItems, AcceptedItems, Opens, Accepts
      <3>2. ASSUME NEW i, Opens(g, i)
            PROVE  Opens(h, i) /\ h[i].item = g[i].item
        BY <1>4, <3>2 DEF Opens
      <3>3. ASSUME NEW i, Accepts(q, i)
            PROVE  \/ Opens(h, Len(g) + 1) /\ h[Len(g) + 1].item = q[i].item
                   \/ Accepts(rest, i - 1) /\ rest[i - 1].item = q[i].item
        <4>1. CASE i = 1
          BY <1>4, <1>6, <3>3, <4>1 DEF Opens, Accepts
        <4>2. CASE i # 1
          BY <1>2, <3>3, <4>2 DEF Accepts, Shifted
        <4>. QED
          BY <4>1, <4>2
      <3>4. (\E i : Opens(h, i) /\ x = h[i].item) \/ (\E i : Accepts(rest, i) /\ x = rest[i].item)
        BY <3>1, <3>2, <3>3
      <3>. QED
        BY <3>4 DEF TakenItems, OpenedItems, AcceptedItems, Opens, Accepts
    <2>. QED
      BY <2>1
  <1>. QED
    BY <1>1, <1>3, <1>9, <1>10, <1>11

\* Nor when it is recorded as rejected.
LEMMA TakenRecorded ==
  ASSUME NEW q, Queued(q), q # <<>>, q[1].kind = "rejected", NEW g, Apart(g, q)
  PROVE  Apart(g, Tail(q)) /\ TakenItems(g, Tail(q)) = TakenItems(g, q)
  <1>1. PICK rest : rest = Tail(q)
    OBVIOUS
  <1>2. Shifted(q, rest)
    BY <1>1, TailFacts
  <1>3. Len(q) \in Nat /\ Len(rest) \in Nat /\ Len(q) = Len(rest) + 1
    BY <1>2 DEF Queued, Shifted
  <1>4. ASSUME NEW i, Accepts(rest, i)
        PROVE  Accepts(q, i + 1) /\ rest[i].item = q[i + 1].item /\ i \in Nat
    BY <1>2, <1>3, <1>4 DEF Accepts, Shifted
  <1>5. ASSUME NEW i, Accepts(q, i)
        PROVE  Accepts(rest, i - 1) /\ rest[i - 1].item = q[i].item
    <2>1. i # 1
      BY <1>5 DEF Accepts
    <2>. QED
      BY <1>2, <1>5, <2>1 DEF Accepts, Shifted
  <1>6. Apart(g, rest)
    <2>1. ASSUME NEW i, NEW j, i # j, Accepts(rest, i), Accepts(rest, j)
          PROVE  Legged(rest[i].item) \cap Legged(rest[j].item) = {}
      <3>1. /\ Accepts(q, i + 1) /\ rest[i].item = q[i + 1].item
            /\ Accepts(q, j + 1) /\ rest[j].item = q[j + 1].item /\ i + 1 # j + 1
        BY <1>4, <2>1
      <3>. QED
        BY <3>1 DEF Apart
    <2>2. ASSUME NEW i, NEW j, Opens(g, i), Accepts(rest, j)
          PROVE  Legged(g[i].item) \cap Legged(rest[j].item) = {}
      <3>1. Accepts(q, j + 1) /\ rest[j].item = q[j + 1].item
        BY <1>4, <2>2
      <3>. QED
        BY <2>2, <3>1 DEF Apart
    <2>. QED
      BY <2>1, <2>2 DEF Apart
  <1>7. AcceptedItems(rest) = AcceptedItems(q)
    <2>1. \A x : x \in AcceptedItems(rest) <=> \E i : Accepts(rest, i) /\ x = rest[i].item
      BY DEF AcceptedItems, Accepts
    <2>2. \A x : x \in AcceptedItems(q) <=> \E i : Accepts(q, i) /\ x = q[i].item
      BY DEF AcceptedItems, Accepts
    <2>3. \A x : (\E i : Accepts(rest, i) /\ x = rest[i].item) => \E i : Accepts(q, i) /\ x = q[i].item
      BY <1>4
    <2>4. \A x : (\E i : Accepts(q, i) /\ x = q[i].item) => \E i : Accepts(rest, i) /\ x = rest[i].item
      BY <1>5
    <2>. QED
      BY <2>1, <2>2, <2>3, <2>4
  <1>. QED
    BY <1>1, <1>6, <1>7 DEF TakenItems

\* Rejected entries stay beaten when the head of the queue is taken.
LEMMA BeatenTail ==
  ASSUME NEW q, Queued(q), q # <<>>, NEW taken, NEW book, Beaten(taken, q, book)
  PROVE  Beaten(taken, Tail(q), book)
  <1>1. PICK rest : rest = Tail(q)
    OBVIOUS
  <1>2. Shifted(q, rest)
    BY <1>1, TailFacts
  <1>3. \A i \in 1 .. Len(rest) : rest[i] = q[i + 1] /\ i + 1 \in 1 .. Len(q)
    BY <1>2 DEF Shifted
  <1>4. Beaten(taken, rest, book)
    BY <1>3 DEF Beaten
  <1>. QED
    BY <1>1, <1>4

\* What a plan puts in the queue, nothing being graded yet.
LEMMA TakenPlanned ==
  ASSUME NEW q, NEW book, Queued(q), Strong(q, book), Uncompleted(AcceptedSymbols(q), book)
  PROVE  /\ Apart(<<>>, q) /\ Uncompleted(SymbolsIn(TakenItems(<<>>, q)), book)
         /\ Beaten(TakenItems(<<>>, q), q, book)
  <1>1. Len(<<>>) = 0 /\ 1 .. 0 = {}
    OBVIOUS
  <1>2. Apart(<<>>, q)
    BY <1>1 DEF Apart, Opens, Accepts, Strong
  <1>3. TakenItems(<<>>, q) = AcceptedItems(q)
    BY <1>1 DEF TakenItems, OpenedItems
  <1>4. SymbolsIn(AcceptedItems(q)) = AcceptedSymbols(q)
    BY DEF SymbolsIn, AcceptedItems, AcceptedSymbols
  <1>5. Beaten(AcceptedItems(q), q, book)
    <2>1. ASSUME NEW i \in 1 .. Len(q), q[i].kind = "rejected"
          PROVE  \/ \E x \in AcceptedItems(q) :
                      LosesTo(Candidate(x), Candidate(q[i].item), book, DOMAIN Base)
                 \/ Capped(Candidate(q[i].item), book, DOMAIN Base)
      <3>1. CASE Capped(Candidate(q[i].item), book, DOMAIN Base)
        BY <3>1
      <3>2. CASE ~Capped(Candidate(q[i].item), book, DOMAIN Base)
        <4>1. PICK j \in 1 .. Len(q) :
                /\ q[j].kind = "accepted"
                /\ LosesTo(Candidate(q[j].item), Candidate(q[i].item), book, DOMAIN Base)
          BY <2>1, <3>2 DEF Strong
        <4>2. q[j].item \in AcceptedItems(q)
          BY <4>1 DEF AcceptedItems
        <4>. QED
          BY <4>1, <4>2
      <3>. QED
        BY <3>1, <3>2
    <2>. QED
      BY <2>1 DEF Beaten
  <1>. QED
    BY <1>2, <1>3, <1>4, <1>5

\* Nothing is taken at first.
LEMMA WinsInit == Init => WinsInv
  <1> SUFFICES ASSUME Init
               PROVE  WinsInv
    OBVIOUS
  <1>1. queue = <<>> /\ graded = <<>>
    BY DEF Init
  <1>. QED
    BY <1>1, CycleTypeInit, NothingTaken DEF WinsInv

\* Every step keeps what is taken apart, and what is rejected beaten.
LEMMA WinsStep == WinsInv /\ [Next]_vars => WinsInv'
  <1> SUFFICES ASSUME WinsInv, [Next]_vars
               PROVE  WinsInv'
    OBVIOUS
  <1> DEFINE taken == TakenItems(graded, queue)
             Held(g, q, book) == /\ Apart(g, q) /\ Uncompleted(SymbolsIn(TakenItems(g, q)), book)
                                 /\ Beaten(TakenItems(g, q), q, book)
  <1>1. CycleType /\ Held(graded, queue, LedgerBook)
    BY DEF WinsInv
  <1>2. CycleType'
    BY <1>1, CycleTypeStep
  <1>0. Held(graded', queue', LedgerBook') => WinsInv'
    <2>1. ASSUME Held(graded', queue', LedgerBook')
          PROVE  Held(graded, queue, LedgerBook)'
      BY <2>1 DEF Apart, Opens, Accepts, Uncompleted, Beaten, TakenItems, OpenedItems, AcceptedItems
    <2>. QED
      BY <1>2, <2>1 DEF WinsInv
  <1>3. ASSUME queue' = <<>>, graded' = <<>>
        PROVE  WinsInv'
    BY <1>0, <1>3, NothingTaken
  <1>4. ASSUME ledger' = ledger, graded' = graded, queue' = queue
        PROVE  WinsInv'
    BY <1>0, <1>1, <1>4, LedgerBookKept
  <1>5. ASSUME NEW seen \in Markets, NEW snapshot \in Accounts, BlockedCycle(seen, snapshot)
        PROVE  WinsInv'
    BY <1>1, <1>3, <1>5 DEF BlockedCycle, Begin, CycleType
  <1>6. ASSUME NEW seen \in Markets, NEW snapshot \in Accounts, NEW found \in Sights,
               NEW open \in Gates, NEW stop \in Stops, Dispatch(seen, snapshot, found, open, stop)
        PROVE  WinsInv'
    BY <1>1, <1>3, <1>6 DEF Dispatch, Begin, CycleType
  <1>7. CASE MarkRaises
    BY <1>4, <1>7 DEF MarkRaises
  <1>8. CASE GradeRaises
    BY <1>4, <1>8 DEF GradeRaises
  <1>9. CASE UNCHANGED vars
    BY <1>4, <1>9 DEF vars
  <1>10. CASE Restart
    BY <1>3, <1>10 DEF Restart
  <1>11. CASE Plan
    <2>1. graded' = <<>> /\ LedgerBook' = LedgerBook
      BY <1>1, <1>11, LedgerBookKept DEF Plan, CycleType
    <2>2. Sizing(IntentsOf(Sizeable))
      BY <1>1, <1>11, PlanQueue
    <2>3. /\ Queued(queue') /\ Strong(queue', LedgerBook)
          /\ Uncompleted(AcceptedSymbols(queue'), LedgerBook)
      BY <2>2 DEF Sizing, Planned
    <2>. QED
      BY <1>0, <2>1, <2>3, TakenPlanned
  <1>12. CASE Grade
    <2>1. PICK g : TakesHead(g)
      BY <1>1, <1>12, GradeTakes
    <2>2. /\ queue # <<>> /\ Queued(queue) /\ graded \in Seq(Grades)
          /\ queue' = Tail(queue) /\ Head(queue).kind # "rejected" /\ ledger' = ledger
      BY <1>1, <1>12 DEF Grade, CycleType
    <2>3. Head(queue) = queue[1]
      BY <2>2, TailFacts
    <2>4. g \in Grades /\ g.item = queue[1].item /\ graded' = Append(graded, g)
      BY <2>1 DEF TakesHead
    <2>5. Apart(graded', queue') /\ TakenItems(graded', queue') = TakenItems(graded, queue)
      BY <1>1, <2>2, <2>3, <2>4, TakenGraded
    <2>6. Beaten(TakenItems(graded', queue'), queue', LedgerBook)
      BY <1>1, <2>2, <2>5, BeatenTail
    <2>. QED
      BY <1>0, <1>1, <2>2, <2>5, <2>6, LedgerBookKept
  <1>13. CASE RecordRejected
    <2>1. /\ queue # <<>> /\ Queued(queue) /\ graded' = graded
          /\ queue' = Tail(queue) /\ Head(queue).kind = "rejected" /\ ledger' = ledger
      BY <1>1, <1>13 DEF RecordRejected, CycleType
    <2>2. Head(queue) = queue[1]
      BY <2>1, TailFacts
    <2>3. Apart(graded', queue') /\ TakenItems(graded', queue') = TakenItems(graded, queue)
      BY <1>1, <2>1, <2>2, TakenRecorded
    <2>4. Beaten(TakenItems(graded', queue'), queue', LedgerBook)
      BY <1>1, <2>1, <2>3, BeatenTail
    <2>. QED
      BY <1>0, <1>1, <2>1, <2>3, <2>4, LedgerBookKept
  <1>. QED
    BY <1>5, <1>6, <1>7, <1>8, <1>9, <1>10, <1>11, <1>12, <1>13 DEF Next

\* Taken holds what was opened and what is accepted, each once.
LEMMA TakenFacts ==
  ASSUME CycleType, Apart(graded, queue)
  PROVE  /\ \A k \in DOMAIN Taken : Taken[k] \in TakenItems(graded, queue)
         /\ \A x \in TakenItems(graded, queue) : \E k \in DOMAIN Taken : Taken[k] = x
         /\ \A k, l \in DOMAIN Taken : k # l => Legged(Taken[k]) \cap Legged(Taken[l]) = {}
  <1> DEFINE S == {g \in ToSet(graded) : g.item.action \in Opening}
             W == {v \in ToSet(queue) : v.kind = "accepted"}
             e == Exposing
             a == Accepted
             x == [i \in DOMAIN e |-> e[i].item]
             y == [i \in DOMAIN a |-> a[i].item]
             n == Len(e)
             m == Len(a)
  <1>1. graded \in Seq(Grades) /\ queue \in Seq(VerdictSet)
    BY DEF CycleType, Queued
  <1>2. /\ e \in Seq(Grades) /\ \E g : Indexes(g, e, graded, S, Len(graded))
    BY <1>1, AmongFacts DEF Exposing
  <1>3. /\ a \in Seq(VerdictSet) /\ \E h : Indexes(h, a, queue, W, Len(queue))
    BY <1>1, AmongFacts DEF Accepted
  <1>4. PICK g : Indexes(g, e, graded, S, Len(graded))
    BY <1>2
  <1>5. PICK h : Indexes(h, a, queue, W, Len(queue))
    BY <1>3
  <1>6. /\ \A i \in DOMAIN graded : graded[i] \in S <=> graded[i].item.action \in Opening
        /\ \A i \in DOMAIN queue : queue[i] \in W <=> queue[i].kind = "accepted"
        /\ DOMAIN graded = 1 .. Len(graded) /\ DOMAIN queue = 1 .. Len(queue)
    BY <1>1 DEF ToSet
  <1>7. Taken = x \o y
    BY DEF Taken
  <1> HIDE DEF S, W, e, a
  <1>8. /\ \A i \in 1 .. n : Opens(graded, g[i]) /\ e[i] = graded[g[i]]
        /\ \A i, j \in 1 .. n : i # j => g[i] # g[j]
        /\ \A i : Opens(graded, i) => \E k \in 1 .. n : g[k] = i
    <2>1. ASSUME NEW i \in 1 .. n
          PROVE  Opens(graded, g[i]) /\ e[i] = graded[g[i]]
      BY <1>4, <1>6 DEF Indexes, Opens
    <2>2. ASSUME NEW i \in 1 .. n, NEW j \in 1 .. n, i # j
          PROVE  g[i] # g[j]
      <3>1. n \in Nat /\ (i < j \/ j < i) /\ g[i] \in Int /\ g[j] \in Int
        BY <1>2, <2>1, <2>2 DEF Opens
      <3>2. g[i] < g[j] \/ g[j] < g[i]
        BY <1>4, <3>1 DEF Indexes
      <3>. QED
        BY <3>1, <3>2
    <2>3. ASSUME NEW i, Opens(graded, i)
          PROVE  \E k \in 1 .. n : g[k] = i
      BY <1>4, <1>6, <2>3 DEF Indexes, Opens
    <2>. QED
      BY <2>1, <2>2, <2>3
  <1>9. /\ \A i \in 1 .. m : Accepts(queue, h[i]) /\ a[i] = queue[h[i]]
        /\ \A i, j \in 1 .. m : i # j => h[i] # h[j]
        /\ \A i : Accepts(queue, i) => \E k \in 1 .. m : h[k] = i
    <2>1. ASSUME NEW i \in 1 .. m
          PROVE  Accepts(queue, h[i]) /\ a[i] = queue[h[i]]
      BY <1>5, <1>6 DEF Indexes, Accepts
    <2>2. ASSUME NEW i \in 1 .. m, NEW j \in 1 .. m, i # j
          PROVE  h[i] # h[j]
      <3>1. m \in Nat /\ (i < j \/ j < i) /\ h[i] \in Int /\ h[j] \in Int
        BY <1>3, <2>1, <2>2 DEF Accepts
      <3>2. h[i] < h[j] \/ h[j] < h[i]
        BY <1>5, <3>1 DEF Indexes
      <3>. QED
        BY <3>1, <3>2
    <2>3. ASSUME NEW i, Accepts(queue, i)
          PROVE  \E k \in 1 .. m : h[k] = i
      BY <1>5, <1>6, <2>3 DEF Indexes, Accepts
    <2>. QED
      BY <2>1, <2>2, <2>3
  <1>10. /\ x \in Seq(Intents) /\ y \in Seq(Intents) /\ Len(x) = n /\ Len(y) = m
         /\ n \in Nat /\ m \in Nat /\ \A i \in 1 .. n : x[i] = e[i].item
         /\ \A i \in 1 .. m : y[i] = a[i].item
    <2>1. DOMAIN e = 1 .. n /\ DOMAIN a = 1 .. m /\ n \in Nat /\ m \in Nat
      BY <1>2, <1>3
    <2>2. \A i \in DOMAIN e : e[i].item \in Intents
      <3>1. \A i \in DOMAIN e : e[i] \in Grades
        BY <1>2
      <3>. QED
        BY <3>1 DEF Grades
    <2>3. \A i \in DOMAIN a : a[i].item \in Intents
      <3>1. \A i \in DOMAIN a : a[i] \in VerdictSet
        BY <1>3
      <3>. QED
        BY <3>1 DEF VerdictSet
    <2>. QED
      BY <2>1, <2>2, <2>3
  <1> HIDE DEF x, y, n, m
  <1>11. Follow(x \o y, Intents, x, y)
    BY <1>10, ConcatFacts
  <1>12. PICK t : t = Taken
    OBVIOUS
  <1>13. /\ t \in Seq(Intents) /\ Len(t) = n + m /\ DOMAIN t = 1 .. n + m
         /\ \A i \in 1 .. n : t[i] = graded[g[i]].item
         /\ \A i \in 1 .. m : t[n + i] = queue[h[i]].item
    <2>1. /\ t \in Seq(Intents) /\ Len(t) = n + m
          /\ \A i \in 1 .. n : t[i] = x[i]
          /\ \A i \in 1 .. m : t[n + i] = y[i]
      BY <1>7, <1>10, <1>11, <1>12 DEF Follow
    <2>2. ASSUME NEW i \in 1 .. n
          PROVE  t[i] = graded[g[i]].item
      <3>1. x[i] = e[i].item /\ e[i] = graded[g[i]]
        BY <1>8, <1>10, Zenon
      <3>2. t[i] = x[i]
        BY <2>1
      <3>. QED
        BY <3>1, <3>2
    <2>3. ASSUME NEW i \in 1 .. m
          PROVE  t[n + i] = queue[h[i]].item
      <3>1. y[i] = a[i].item /\ a[i] = queue[h[i]]
        BY <1>9, <1>10, Zenon
      <3>2. t[n + i] = y[i]
        BY <2>1
      <3>. QED
        BY <3>1, <3>2
    <2>4. DOMAIN t = 1 .. n + m
      BY <2>1
    <2>. QED
      BY <2>1, <2>2, <2>3, <2>4
  <1>14. ASSUME NEW k \in 1 .. n + m
         PROVE  \/ k \in 1 .. n /\ Opens(graded, g[k]) /\ t[k] = graded[g[k]].item
                \/ k - n \in 1 .. m /\ Accepts(queue, h[k - n]) /\ t[k] = queue[h[k - n]].item
    <2>1. CASE k <= n
      BY <1>8, <1>10, <1>13, <2>1
    <2>2. CASE k > n
      <3>1. k - n \in 1 .. m /\ n + (k - n) = k
        BY <1>10, <2>2
      <3>2. t[n + (k - n)] = queue[h[k - n]].item
        BY <1>13, <3>1
      <3>. QED
        BY <1>9, <3>1, <3>2
    <2>. QED
      BY <1>10, <2>1, <2>2
  <1>15. ASSUME NEW k \in 1 .. n + m
         PROVE  t[k] \in TakenItems(graded, queue)
    <2>1. CASE k \in 1 .. n /\ Opens(graded, g[k]) /\ t[k] = graded[g[k]].item
      BY <2>1 DEF TakenItems, OpenedItems, Opens
    <2>2. CASE k - n \in 1 .. m /\ Accepts(queue, h[k - n]) /\ t[k] = queue[h[k - n]].item
      BY <2>2 DEF TakenItems, AcceptedItems, Accepts
    <2>. QED
      BY <1>14, <2>1, <2>2
  <1>16. ASSUME NEW z \in TakenItems(graded, queue)
         PROVE  \E k \in 1 .. n + m : t[k] = z
    <2>1. CASE z \in OpenedItems(graded)
      <3>1. PICK i : Opens(graded, i) /\ z = graded[i].item
        BY <2>1 DEF OpenedItems, Opens
      <3>2. PICK k \in 1 .. n : g[k] = i
        BY <1>8, <3>1
      <3>. QED
        BY <1>10, <1>13, <3>1, <3>2
    <2>2. CASE z \in AcceptedItems(queue)
      <3>1. PICK i : Accepts(queue, i) /\ z = queue[i].item
        BY <2>2 DEF AcceptedItems, Accepts
      <3>2. PICK k \in 1 .. m : h[k] = i
        BY <1>9, <3>1
      <3>3. n + k \in 1 .. n + m /\ t[n + k] = z
        BY <1>10, <1>13, <3>1, <3>2
      <3>. QED
        BY <3>3
    <2>. QED
      BY <2>1, <2>2 DEF TakenItems
  <1>17. ASSUME NEW k \in 1 .. n + m, NEW l \in 1 .. n + m, k # l
         PROVE  Legged(t[k]) \cap Legged(t[l]) = {}
    <2>1. CASE /\ k \in 1 .. n /\ Opens(graded, g[k]) /\ t[k] = graded[g[k]].item
               /\ l \in 1 .. n /\ Opens(graded, g[l]) /\ t[l] = graded[g[l]].item
      <3>1. g[k] # g[l]
        BY <1>8, <1>17, <2>1
      <3>. QED
        BY <2>1, <3>1 DEF Apart
    <2>2. CASE /\ k \in 1 .. n /\ Opens(graded, g[k]) /\ t[k] = graded[g[k]].item
               /\ l - n \in 1 .. m /\ Accepts(queue, h[l - n]) /\ t[l] = queue[h[l - n]].item
      BY <2>2 DEF Apart
    <2>3. CASE /\ l \in 1 .. n /\ Opens(graded, g[l]) /\ t[l] = graded[g[l]].item
               /\ k - n \in 1 .. m /\ Accepts(queue, h[k - n]) /\ t[k] = queue[h[k - n]].item
      BY <2>3 DEF Apart
    <2>4. CASE /\ k - n \in 1 .. m /\ Accepts(queue, h[k - n]) /\ t[k] = queue[h[k - n]].item
               /\ l - n \in 1 .. m /\ Accepts(queue, h[l - n]) /\ t[l] = queue[h[l - n]].item
      <3>1. k - n # l - n
        BY <1>10, <1>17
      <3>2. h[k - n] # h[l - n]
        BY <1>9, <2>4, <3>1
      <3>. QED
        BY <2>4, <3>2 DEF Apart
    <2>. QED
      BY <1>14, <2>1, <2>2, <2>3, <2>4
  <1>. QED
    BY <1>12, <1>13, <1>15, <1>16, <1>17

\* The inductive invariant gives StrongestWin.
LEMMA WinsFollow == WinsInv => StrongestWin
  <1> SUFFICES ASSUME WinsInv
               PROVE  StrongestWin
    OBVIOUS
  <1> DEFINE items == TakenItems(graded, queue)
             all == {Taken[i].symbol : i \in DOMAIN Taken} \cup SymbolsOf(LedgerBook)
  <1>1. /\ CycleType /\ Apart(graded, queue)
        /\ Uncompleted(SymbolsIn(items), LedgerBook) /\ Beaten(items, queue, LedgerBook)
    BY DEF WinsInv
  <1>2. /\ \A k \in DOMAIN Taken : Taken[k] \in items
        /\ \A x \in items : \E k \in DOMAIN Taken : Taken[k] = x
        /\ \A k, l \in DOMAIN Taken : k # l => Legged(Taken[k]) \cap Legged(Taken[l]) = {}
    BY <1>1, TakenFacts
  <1> HIDE DEF items
  <1>3. all = SymbolsIn(items) \cup SymbolsOf(LedgerBook)
    <2>1. {Taken[i].symbol : i \in DOMAIN Taken} = SymbolsIn(items)
      BY <1>2 DEF SymbolsIn
    <2>. QED
      BY <2>1
  <1>4. \A t \in Triangles(all) : Cardinality(t) <= MaxPairs \/ t \subseteq SymbolsOf(LedgerBook)
    BY <1>1, <1>3 DEF Uncompleted
  <1>5. DOMAIN queue = 1 .. Len(queue)
    BY <1>1 DEF CycleType, Queued
  <1>6. ASSUME NEW i \in DOMAIN queue, queue[i].kind = "rejected",
               ~Capped(Candidate(queue[i].item), LedgerBook, DOMAIN Base)
        PROVE  \E j \in DOMAIN Taken :
                 /\ Before(Candidate(Taken[j]), Candidate(queue[i].item), LedgerBook)
                 /\ \/ Legged(Taken[j]) \cap Legged(queue[i].item) # {}
                    \/ \E t \in Triangles(DOMAIN Base) :
                         {Taken[j].symbol, queue[i].item.symbol} \subseteq t
    <2>1. PICK x \in items : LosesTo(Candidate(x), Candidate(queue[i].item), LedgerBook, DOMAIN Base)
      BY <1>1, <1>5, <1>6 DEF Beaten
    <2>2. PICK j \in DOMAIN Taken : Taken[j] = x
      BY <1>2
    <2>3. ASSUME NEW z
          PROVE  /\ Claims(Candidate(z)) = Legged(z) /\ Candidate(z).symbol = z.symbol
      BY DEF Claims, Candidate, Legged
    <2>. QED
      BY <2>1, <2>2, <2>3 DEF LosesTo
  <1>7. Taken # <<>> => \A t \in Triangles(all) :
           Cardinality(t) <= MaxPairs \/ t \subseteq SymbolsOf(LedgerBook)
    BY <1>4
  <1> HIDE DEF all
  <1>. QED
    BY <1>2, <1>6, <1>7, Zenon DEF StrongestWin, all

\* The strongest signal wins, and what is taken shares no leg and completes no
\* triangle (portfolio/arbitrator.py, select; live/shadow.py, the loop over the
\* accepted and the rejected).
THEOREM StrongestTaken == Spec => []StrongestWin
  BY WinsInit, WinsStep, WinsFollow, PTL DEF Spec

-----------------------------------------------------------------------------
(* TrailComplete *)

\* What is in the trail or on its way there.
Told ==
  {r.signal : r \in trail} \cup {collected[i] : i \in 1 .. Len(collected)}
    \cup {queue[i].item.signal : i \in 1 .. Len(queue)}

UsesSlot(c, b, slot, setup) ==
  /\ <<c.strategy, c.symbol>> = b /\ <<c.direction, c.exit_only>> = slot /\ c.setup = setup
UsesWatch(c, b) == <<c.strategy, c.symbol>> = b /\ c.setup = "horizon"

\* What a strategy has used up is told.
MemoryTold ==
  \A b \in ToSet(Bound) : b[2] \in ToSet(Symbols) =>
    /\ \A slot \in Side \X BOOLEAN : signaled[b][slot] # "none" =>
         \E c \in Told : UsesSlot(c, b, slot, signaled[b][slot])
    /\ watched[b].fired => \E c \in Told : UsesWatch(c, b)

\* The close of a reversal is in the trail or still to be graded.
ClosesFirst ==
  /\ \A i \in 1 .. Len(queue) : Reverses(queue[i].item) =>
       \/ \E j \in 1 .. Len(queue) : /\ queue[j].item.signal = queue[i].item.signal
                                     /\ queue[j].item.action = "CLOSE"
       \/ Record("graded", queue[i].item.signal, "CLOSE") \in trail
  /\ \A i \in 1 .. Len(graded) : Reverses(graded[i].item) =>
       Record("graded", graded[i].item.signal, "CLOSE") \in trail

TrailInv ==
  /\ CycleType /\ ClosesFirst
  /\ phase # "raised" => MemoryTold

\* What was told stays told, as long as the symbols are configured ones.
ToldKept == \A c \in Told : c.symbol \in ToSet(Symbols) => c \in Told'

\* The memory stays told when nothing of it changes.
LEMMA MemoryKept ==
  ASSUME MemoryTold, ToldKept, signaled' = signaled, watched' = watched
  PROVE  MemoryTold'
  <1>1. ASSUME NEW b \in ToSet(Bound), b[2] \in ToSet(Symbols),
               NEW c \in Told, <<c.strategy, c.symbol>> = b
        PROVE  c \in Told'
    <2>1. c.symbol = b[2]
      BY <1>1
    <2>. QED
      BY <1>1, <2>1 DEF ToldKept
  <1>2. ASSUME NEW b \in ToSet(Bound), b[2] \in ToSet(Symbols),
               NEW slot \in Side \X BOOLEAN, signaled'[b][slot] # "none"
        PROVE  \E c \in Told' : UsesSlot(c, b, slot, signaled'[b][slot])
    <2>1. PICK c \in Told : UsesSlot(c, b, slot, signaled[b][slot])
      BY <1>2 DEF MemoryTold
    <2>2. c \in Told'
      BY <1>1, <1>2, <2>1 DEF UsesSlot
    <2>. QED
      BY <2>1, <2>2
  <1>3. ASSUME NEW b \in ToSet(Bound), b[2] \in ToSet(Symbols), watched'[b].fired
        PROVE  \E c \in Told' : UsesWatch(c, b)
    <2>1. PICK c \in Told : UsesWatch(c, b)
      BY <1>3 DEF MemoryTold
    <2>2. c \in Told'
      BY <1>1, <1>3, <2>1 DEF UsesWatch
    <2>. QED
      BY <2>1, <2>2
  <1>. QED
    BY <1>2, <1>3 DEF MemoryTold, UsesSlot, UsesWatch

\* The strategies looked: what they have used up now is among their signals.
LEMMA MemoryDispatched ==
  ASSUME CycleType, MemoryTold, NEW seen, NEW snapshot, NEW found \in Sights, NEW open,
         NEW stop \in Stops, Dispatch(seen, snapshot, found, open, stop)
  PROVE  MemoryTold'
  <1> DEFINE signal(b) == Looked(found, open, b).signal
  <1>1. /\ Collects(found, open, stop, collected')
        /\ signaled' = [b \in ToSet(Bound) |-> Looked(found, open, b).memo]
        /\ watched' = [b \in ToSet(Bound) |-> Looked(found, open, b).watch]
    BY DispatchCollects
  <1>2. collected = <<>> /\ trail' = trail /\ queue' = queue
    BY DEF Dispatch, Begin, CycleType
  <1>3. Told \subseteq Told'
    <2>1. Len(collected) = 0 /\ 1 .. 0 = {}
      BY <1>2
    <2>2. Told = {r.signal : r \in trail} \cup {queue[i].item.signal : i \in 1 .. Len(queue)}
      BY <2>1 DEF Told
    <2>. QED
      BY <1>2, <2>2 DEF Told
  <1>4. ASSUME NEW b \in ToSet(Bound)
        PROVE  /\ b = <<b[1], b[2]>>
               /\ signal(b) # NoSignal => SignalOf(b, signal(b), stop) \in Told'
               /\ SeenWell(found, open, b)
    <2>1. b \in ToSet(Strategies) \X DOMAIN Base
      BY CycleAssumption DEF ToSet
    <2>2. ASSUME signal(b) # NoSignal
          PROVE  SignalOf(b, signal(b), stop) \in Told'
      <3>1. PICK i \in DOMAIN collected' : collected'[i] = SignalOf(b, signal(b), stop)
        BY <1>1, <2>2 DEF Collects
      <3>2. i \in 1 .. Len(collected')
        BY <1>1 DEF Collects
      <3>. QED
        BY <3>1, <3>2 DEF Told
    <2>3. SeenWell(found, open, b)
      BY LookedFacts DEF CycleType
    <2>. QED
      BY <2>1, <2>2, <2>3
  <1>5. ASSUME NEW b \in ToSet(Bound), b[2] \in ToSet(Symbols),
               NEW slot \in Side \X BOOLEAN, signaled'[b][slot] # "none"
        PROVE  \E c \in Told' : UsesSlot(c, b, slot, signaled'[b][slot])
    <2>1. PICK memo : memo = Looked(found, open, b).memo
      OBVIOUS
    <2>2. PICK s : s = signal(b)
      OBVIOUS
    <2>3. signaled'[b] = memo /\ Tells(s, signaled[b], memo)
      BY <1>1, <1>4, <2>1, <2>2 DEF SeenWell
    <2>4. CASE memo[slot] = signaled[b][slot]
      <3>1. PICK c \in Told : UsesSlot(c, b, slot, signaled[b][slot])
        BY <1>5, <2>3, <2>4 DEF MemoryTold
      <3>. QED
        BY <1>3, <2>3, <2>4, <3>1
    <2>5. CASE s # NoSignal /\ <<s.direction, s.exit_only>> = slot /\ s.setup = memo[slot]
      <3>1. SignalOf(b, s, stop) \in Told'
        BY <1>4, <2>2, <2>5
      <3>2. UsesSlot(SignalOf(b, s, stop), b, slot, memo[slot])
        BY <1>4, <2>5 DEF UsesSlot, SignalOf
      <3>. QED
        BY <2>3, <3>1, <3>2
    <2>. QED
      BY <1>5, <2>3, <2>4, <2>5 DEF Tells
  <1>6. ASSUME NEW b \in ToSet(Bound), b[2] \in ToSet(Symbols), watched'[b].fired
        PROVE  \E c \in Told' : UsesWatch(c, b)
    <2>1. PICK s : s = signal(b)
      OBVIOUS
    <2>2. watched[b].fired \/ s.setup = "horizon"
      BY <1>1, <1>4, <1>6, <2>1 DEF SeenWell
    <2>3. CASE watched[b].fired
      <3>1. PICK c \in Told : UsesWatch(c, b)
        BY <1>6, <2>3 DEF MemoryTold
      <3>. QED
        BY <1>3, <3>1
    <2>4. CASE s.setup = "horizon"
      <3>1. s # NoSignal
        BY <2>4 DEF NoSignal
      <3>2. SignalOf(b, s, stop) \in Told'
        BY <1>4, <2>1, <3>1
      <3>3. UsesWatch(SignalOf(b, s, stop), b)
        BY <1>4, <2>4 DEF UsesWatch, SignalOf
      <3>. QED
        BY <3>2, <3>3
    <2>. QED
      BY <2>2, <2>3, <2>4
  <1>. QED
    BY <1>5, <1>6 DEF MemoryTold, UsesSlot, UsesWatch

\* Every signal of a configured symbol is recorded, or queued with its intents;
\* a queued reversal is queued with its close.
LEMMA PlanTells ==
  ASSUME CycleType, Plan
  PROVE  ToldKept /\ ClosesFirst'
  <1> DEFINE sized == IntentsOf(Sizeable)
  <1>1. Sizing(sized)
    BY PlanQueue
  <1> HIDE DEF sized
  <1>2. /\ Sizeable \in Seq(Signals)
        /\ ToSet(Sizeable) = {c \in ToSet(collected) : c.symbol \in Quoted}
        /\ sized \in Seq(Intents) /\ SizedAll(sized, Sizeable, Len(Sizeable))
        /\ Planned(queue', sized, LedgerBook)
    BY <1>1 DEF Sizing
  <1>3. /\ queue = <<>> /\ graded' = <<>> /\ collected \in Seq(Signals) /\ ledger' = ledger
        /\ trail' = trail \cup {Record("signal", c, "none") :
                                  c \in {d \in ToSet(collected) : RecordedAtOnce(d)}}
    BY DEF Plan, CycleType
  <1>4. /\ \A p \in 1 .. Len(sized) : \E i \in 1 .. Len(queue') : queue'[i].item = sized[p]
        /\ \A i \in 1 .. Len(queue') : \E p \in 1 .. Len(sized) : queue'[i].item = sized[p]
    BY <1>2 DEF Planned
  <1>5. ASSUME NEW c \in ToSet(collected), c.symbol \in ToSet(Symbols)
        PROVE  c \in Told'
    <2>1. CASE RecordedAtOnce(c)
      <3>1. Record("signal", c, "none") \in trail'
        BY <1>3, <1>5, <2>1
      <3>2. Record("signal", c, "none").signal = c
        BY DEF Record
      <3>. QED
        BY <3>1, <3>2 DEF Told
    <2>2. CASE ~RecordedAtOnce(c)
      <3>1. c.symbol \in Quoted /\ IntentsFromSignal(c) # <<>>
        BY <1>5, <2>2 DEF RecordedAtOnce
      <3>2. c \in ToSet(Sizeable)
        BY <1>2, <1>5, <3>1
      <3>3. PICK m \in 1 .. Len(Sizeable) : Sizeable[m] = c
        BY <1>2, <3>2 DEF ToSet
      <3>4. PICK p \in 1 .. Len(sized) : sized[p].signal = c
        BY <1>2, <3>1, <3>3 DEF SizedAll
      <3>5. PICK i \in 1 .. Len(queue') : queue'[i].item = sized[p]
        BY <1>4
      <3>. QED
        BY <3>4, <3>5 DEF Told
    <2>. QED
      BY <2>1, <2>2
  <1>6. ToldKept
    <2>1. ASSUME NEW c \in Told, c.symbol \in ToSet(Symbols)
          PROVE  c \in Told'
      <3>1. CASE c \in {r.signal : r \in trail}
        BY <1>3, <3>1 DEF Told
      <3>2. CASE c \in {collected[i] : i \in 1 .. Len(collected)}
        <4>1. c \in ToSet(collected)
          BY <1>3, <3>2 DEF ToSet
        <4>. QED
          BY <1>5, <2>1, <4>1
      <3>3. CASE c \in {queue[i].item.signal : i \in 1 .. Len(queue)}
        <4>1. Len(queue) = 0 /\ 1 .. 0 = {}
          BY <1>3
        <4>. QED
          BY <3>3, <4>1
      <3>. QED
        BY <2>1, <3>1, <3>2, <3>3 DEF Told
    <2>. QED
      BY <2>1 DEF ToldKept
  <1>7. ASSUME NEW i \in 1 .. Len(queue'), Reverses(queue'[i].item)
        PROVE  \E j \in 1 .. Len(queue') : /\ queue'[j].item.signal = queue'[i].item.signal
                                           /\ queue'[j].item.action = "CLOSE"
    <2>1. PICK p \in 1 .. Len(sized) : queue'[i].item = sized[p]
      BY <1>4
    <2>2. PICK r \in 1 .. Len(sized) : sized[r].signal = sized[p].signal /\ sized[r].action = "CLOSE"
      BY <1>2, <1>7, <2>1 DEF SizedAll
    <2>3. PICK j \in 1 .. Len(queue') : queue'[j].item = sized[r]
      BY <1>4
    <2>. QED
      BY <2>1, <2>2, <2>3
  <1>8. ClosesFirst'
    <2>1. Len(graded') = 0 /\ 1 .. 0 = {}
      BY <1>3
    <2>. QED
      BY <1>3, <1>7, <2>1 DEF ClosesFirst, Reverses
  <1>. QED
    BY <1>6, <1>8

\* The head of the queue goes to the trail, and a close before its entry.
LEMMA GradeTells ==
  ASSUME CycleType, ClosesFirst, Grade
  PROVE  ToldKept /\ ClosesFirst'
  <1>1. PICK g : TakesHead(g)
    BY GradeTakes
  <1>2. /\ g \in Grades /\ g.item = queue[1].item /\ graded' = Append(graded, g)
        /\ trail' = trail \cup {Record("graded", queue[1].item.signal, queue[1].item.action)}
    BY <1>1 DEF TakesHead
  <1>3. /\ queue # <<>> /\ Queued(queue) /\ graded \in Seq(Grades) /\ queue' = Tail(queue)
        /\ Head(queue).kind # "rejected" /\ ledger' = ledger /\ collected' = collected
    BY DEF Grade, CycleType
  <1>4. Shifted(queue, queue') /\ Head(queue) = queue[1] /\ queue[1] \in VerdictSet
    BY <1>3, TailFacts
  <1>5. PICK first : first = Record("graded", queue[1].item.signal, queue[1].item.action)
    OBVIOUS
  <1>6. first.signal = queue[1].item.signal /\ first \in trail' /\ trail \subseteq trail'
    BY <1>2, <1>5 DEF Record
  <1>7. ToldKept
    <2>1. ASSUME NEW c \in Told
          PROVE  c \in Told'
      <3>1. CASE c \in {r.signal : r \in trail}
        BY <1>6, <3>1 DEF Told
      <3>2. CASE c \in {collected[i] : i \in 1 .. Len(collected)}
        BY <1>3, <3>2 DEF Told
      <3>3. CASE c \in {queue[i].item.signal : i \in 1 .. Len(queue)}
        <4>1. PICK i \in 1 .. Len(queue) : c = queue[i].item.signal
          BY <3>3
        <4>2. CASE i = 1
          BY <1>6, <4>1, <4>2 DEF Told
        <4>3. CASE i # 1
          <5>1. i - 1 \in 1 .. Len(queue') /\ queue'[i - 1] = queue[i]
            BY <1>4, <4>1, <4>3 DEF Shifted
          <5>. QED
            BY <4>1, <5>1 DEF Told
        <4>. QED
          BY <4>2, <4>3
      <3>. QED
        BY <2>1, <3>1, <3>2, <3>3 DEF Told
    <2>. QED
      BY <2>1 DEF ToldKept
  <1>8. ASSUME NEW i \in 1 .. Len(queue'), Reverses(queue'[i].item)
        PROVE  \/ \E j \in 1 .. Len(queue') : /\ queue'[j].item.signal = queue'[i].item.signal
                                              /\ queue'[j].item.action = "CLOSE"
               \/ Record("graded", queue'[i].item.signal, "CLOSE") \in trail'
    <2>1. queue'[i] = queue[i + 1] /\ i + 1 \in 1 .. Len(queue)
      BY <1>4, <1>8 DEF Shifted
    <2>2. CASE Record("graded", queue[i + 1].item.signal, "CLOSE") \in trail
      BY <1>6, <2>1, <2>2
    <2>3. CASE Record("graded", queue[i + 1].item.signal, "CLOSE") \notin trail
      <3>1. PICK j \in 1 .. Len(queue) : /\ queue[j].item.signal = queue[i + 1].item.signal
                                         /\ queue[j].item.action = "CLOSE"
        BY <1>8, <2>1, <2>3 DEF ClosesFirst
      <3>2. CASE j = 1
        BY <1>5, <1>6, <2>1, <3>1, <3>2
      <3>3. CASE j # 1
        <4>1. j - 1 \in 1 .. Len(queue') /\ queue'[j - 1] = queue[j]
          BY <1>4, <3>3 DEF Shifted
        <4>. QED
          BY <2>1, <3>1, <4>1
      <3>. QED
        BY <3>2, <3>3
    <2>. QED
      BY <2>2, <2>3
  <1>9. ASSUME Reverses(queue[1].item)
        PROVE  Record("graded", queue[1].item.signal, "CLOSE") \in trail
    <2>1. ASSUME NEW j \in 1 .. Len(queue), queue[j].item.action = "CLOSE"
          PROVE  FALSE
      <3>1. queue[j].kind = "exit" /\ queue[1].item.action = "OPEN"
        BY <1>3, <1>9, <2>1 DEF Queued, Reverses
      <3>2. queue[1].kind # "exit" /\ 1 \in 1 .. Len(queue) /\ j # 1
        BY <1>3, <1>4, <3>1 DEF Queued, Shifted
      <3>3. 1 < j
        BY <3>2
      <3>. QED
        BY <1>3, <3>1, <3>2, <3>3 DEF Queued
    <2>2. 1 \in 1 .. Len(queue)
      BY <1>4 DEF Shifted
    <2>. QED
      BY <1>9, <2>1, <2>2 DEF ClosesFirst
  <1>10. ASSUME NEW i \in 1 .. Len(graded'), Reverses(graded'[i].item)
         PROVE  Record("graded", graded'[i].item.signal, "CLOSE") \in trail'
    <2>1. CASE i = Len(graded) + 1
      <3>1. graded'[i] = g
        BY <1>2, <1>3, <2>1
      <3>. QED
        BY <1>2, <1>6, <1>9, <1>10, <3>1
    <2>2. CASE i # Len(graded) + 1
      <3>1. i \in 1 .. Len(graded) /\ graded'[i] = graded[i]
        BY <1>2, <1>3, <2>2
      <3>. QED
        BY <1>6, <1>10, <3>1 DEF ClosesFirst
    <2>. QED
      BY <2>1, <2>2
  <1>. QED
    BY <1>3, <1>7, <1>8, <1>10 DEF ClosesFirst, Reverses

\* A rejected entry goes to the trail; no close is among them.
LEMMA RejectTells ==
  ASSUME CycleType, ClosesFirst, RecordRejected
  PROVE  ToldKept /\ ClosesFirst'
  <1>1. /\ queue # <<>> /\ Queued(queue) /\ queue' = Tail(queue)
        /\ Head(queue).kind = "rejected" /\ ledger' = ledger /\ collected' = collected
        /\ graded' = graded
    BY DEF RecordRejected, CycleType
  <1>2. Shifted(queue, queue') /\ Head(queue) = queue[1] /\ 1 \in 1 .. Len(queue)
    BY <1>1, TailFacts DEF Shifted
  <1>3. trail' = trail \cup {Record("arbitrated", queue[1].item.signal, queue[1].item.action)}
    BY <1>2, Zenon DEF RecordRejected
  <1>4. PICK first : first = Record("arbitrated", queue[1].item.signal, queue[1].item.action)
    OBVIOUS
  <1>5. first.signal = queue[1].item.signal /\ first \in trail' /\ trail \subseteq trail'
    BY <1>3, <1>4 DEF Record
  <1>6. ToldKept
    <2>1. ASSUME NEW c \in Told
          PROVE  c \in Told'
      <3>1. CASE c \in {r.signal : r \in trail}
        BY <1>5, <3>1 DEF Told
      <3>2. CASE c \in {collected[i] : i \in 1 .. Len(collected)}
        BY <1>1, <3>2 DEF Told
      <3>3. CASE c \in {queue[i].item.signal : i \in 1 .. Len(queue)}
        <4>1. PICK i \in 1 .. Len(queue) : c = queue[i].item.signal
          BY <3>3
        <4>2. CASE i = 1
          BY <1>5, <4>1, <4>2 DEF Told
        <4>3. CASE i # 1
          <5>1. i - 1 \in 1 .. Len(queue') /\ queue'[i - 1] = queue[i]
            BY <1>2, <4>1, <4>3 DEF Shifted
          <5>. QED
            BY <4>1, <5>1 DEF Told
        <4>. QED
          BY <4>2, <4>3
      <3>. QED
        BY <2>1, <3>1, <3>2, <3>3 DEF Told
    <2>. QED
      BY <2>1 DEF ToldKept
  <1>7. queue[1].item.action # "CLOSE"
    <2>1. (queue[1].kind = "exit") <=> queue[1].item.action = "CLOSE"
      BY <1>1, <1>2 DEF Queued
    <2>. QED
      BY <1>1, <1>2, <2>1
  <1>8. ASSUME NEW i \in 1 .. Len(queue'), Reverses(queue'[i].item)
        PROVE  \/ \E j \in 1 .. Len(queue') : /\ queue'[j].item.signal = queue'[i].item.signal
                                              /\ queue'[j].item.action = "CLOSE"
               \/ Record("graded", queue'[i].item.signal, "CLOSE") \in trail'
    <2>1. queue'[i] = queue[i + 1] /\ i + 1 \in 1 .. Len(queue)
      BY <1>2, <1>8 DEF Shifted
    <2>2. CASE Record("graded", queue[i + 1].item.signal, "CLOSE") \in trail
      BY <1>5, <2>1, <2>2
    <2>3. CASE Record("graded", queue[i + 1].item.signal, "CLOSE") \notin trail
      <3>1. PICK j \in 1 .. Len(queue) : /\ queue[j].item.signal = queue[i + 1].item.signal
                                         /\ queue[j].item.action = "CLOSE"
        BY <1>8, <2>1, <2>3 DEF ClosesFirst
      <3>2. j # 1
        BY <1>7, <3>1
      <3>3. j - 1 \in 1 .. Len(queue') /\ queue'[j - 1] = queue[j]
        BY <1>2, <3>2 DEF Shifted
      <3>. QED
        BY <2>1, <3>1, <3>3
    <2>. QED
      BY <2>2, <2>3
  <1>. QED
    BY <1>1, <1>5, <1>6, <1>8 DEF ClosesFirst, Reverses

\* A new or a restarted process has used up nothing.
LEMMA NothingUsed ==
  ASSUME signaled = [b \in ToSet(Bound) |-> EmptyMemo],
         watched = [b \in ToSet(Bound) |-> NotWatching]
  PROVE  MemoryTold
  BY DEF MemoryTold, EmptyMemo, NotWatching

\* With nothing queued and nothing graded no reversal is open.
LEMMA NothingReversed == queue = <<>> /\ graded = <<>> => ClosesFirst
  <1>1. Len(<<>>) = 0 /\ 1 .. 0 = {}
    OBVIOUS
  <1>. QED
    BY <1>1 DEF ClosesFirst

\* A new process has used up nothing.
LEMMA TrailInit == Init => TrailInv
  <1> SUFFICES ASSUME Init
               PROVE  TrailInv
    OBVIOUS
  <1>1. MemoryTold
    BY NothingUsed DEF Init
  <1>2. ClosesFirst
    BY NothingReversed DEF Init
  <1>. QED
    BY <1>1, <1>2, CycleTypeInit DEF TrailInv

\* Every step keeps what is used up told, and closes before their entries.
LEMMA TrailStep == TrailInv /\ [Next]_vars => TrailInv'
  <1> SUFFICES ASSUME TrailInv, [Next]_vars
               PROVE  TrailInv'
    OBVIOUS
  <1>1. CycleType /\ ClosesFirst /\ CycleType'
    BY CycleTypeStep DEF TrailInv
  <1>0. phase # "raised" => MemoryTold
    BY DEF TrailInv
  <1>2. queue' = <<>> /\ graded' = <<>> => ClosesFirst'
    <2>1. Len(<<>>) = 0 /\ 1 .. 0 = {}
      OBVIOUS
    <2>. QED
      BY <2>1 DEF ClosesFirst
  <1>3. ASSUME NEW seen \in Markets, NEW snapshot \in Accounts, BlockedCycle(seen, snapshot)
        PROVE  TrailInv'
    <2>1. /\ queue' = <<>> /\ graded' = <<>> /\ phase # "raised"
          /\ UNCHANGED <<signaled, watched, trail, collected, queue>>
      BY <1>1, <1>3 DEF BlockedCycle, Begin, CycleType, memory
    <2>2. ToldKept
      BY <2>1 DEF ToldKept, Told
    <2>. QED
      BY <1>0, <1>1, <1>2, <2>1, <2>2, MemoryKept DEF TrailInv
  <1>4. ASSUME NEW seen \in Markets, NEW snapshot \in Accounts, NEW found \in Sights,
               NEW open \in Gates, NEW stop \in Stops, Dispatch(seen, snapshot, found, open, stop)
        PROVE  TrailInv'
    <2>1. queue' = <<>> /\ graded' = <<>> /\ phase # "raised"
      BY <1>1, <1>4 DEF Dispatch, Begin, CycleType
    <2>2. MemoryTold'
      BY <1>0, <1>1, <1>4, <2>1, MemoryDispatched
    <2>. QED
      BY <1>1, <1>2, <2>1, <2>2 DEF TrailInv
  <1>5. CASE MarkRaises
    <2>1. /\ phase' = "raised" /\ UNCHANGED <<ledger, queue, graded>> /\ trail \subseteq trail'
      BY <1>5 DEF MarkRaises
    <2>2. ClosesFirst'
      BY <1>1, <2>1 DEF ClosesFirst, Reverses
    <2>. QED
      BY <1>1, <2>1, <2>2 DEF TrailInv
  <1>6. CASE GradeRaises
    <2>1. phase' = "raised" /\ UNCHANGED <<ledger, queue, graded, trail>>
      BY <1>6 DEF GradeRaises
    <2>2. ClosesFirst'
      BY <1>1, <2>1 DEF ClosesFirst, Reverses
    <2>. QED
      BY <1>1, <2>1, <2>2 DEF TrailInv
  <1>7. CASE Plan
    <2>1. phase # "raised" /\ UNCHANGED <<signaled, watched>>
      BY <1>7 DEF Plan, memory
    <2>. QED
      BY <1>0, <1>1, <1>7, <2>1, PlanTells, MemoryKept DEF TrailInv
  <1>8. CASE Grade
    <2>1. phase # "raised" /\ UNCHANGED <<signaled, watched>>
      BY <1>8 DEF Grade, memory
    <2>. QED
      BY <1>0, <1>1, <1>8, <2>1, GradeTells, MemoryKept DEF TrailInv
  <1>9. CASE RecordRejected
    <2>1. phase # "raised" /\ UNCHANGED <<signaled, watched>>
      BY <1>9 DEF RecordRejected, memory
    <2>. QED
      BY <1>0, <1>1, <1>9, <2>1, RejectTells, MemoryKept DEF TrailInv
  <1>10. CASE Restart
    <2>1. queue' = <<>> /\ graded' = <<>>
      BY <1>10 DEF Restart
    <2>2. MemoryTold'
      BY <1>10 DEF Restart, MemoryTold, EmptyMemo, NotWatching
    <2>. QED
      BY <1>1, <1>2, <2>1, <2>2 DEF TrailInv
  <1>11. CASE UNCHANGED vars
    <2>1. UNCHANGED <<ledger, phase, signaled, watched, trail, collected, queue, graded>>
      BY <1>11 DEF vars, memory
    <2>2. ToldKept /\ ClosesFirst'
      BY <1>1, <2>1 DEF ToldKept, Told, ClosesFirst, Reverses
    <2>. QED
      BY <1>0, <1>1, <2>1, <2>2, MemoryKept DEF TrailInv
  <1>. QED
    BY <1>3, <1>4, <1>5, <1>6, <1>7, <1>8, <1>9, <1>10, <1>11 DEF Next

\* The inductive invariant gives the type invariant ...
LEMMA TypeFollows == CycleType => TypeOK
  <1> SUFFICES ASSUME CycleType
               PROVE  TypeOK
    OBVIOUS
  <1>1. /\ now \in 0 .. MaxCycles /\ market \in [AllSymbols -> QuoteAge]
        /\ account.age \in {"none", "stale", "fresh"}
        /\ phase \in {"idle", "collected", "grading", "raised"}
        /\ phase = "idle" => queue = <<>>
        /\ \A r \in trail : r.signal \in Signals /\ r.action \in Actions \cup {"none"}
    BY DEF CycleType
  <1>2. \A b \in DOMAIN ledger : ledger[b] \in Int
    BY DEF CycleType, LedgerType
  <1>3. /\ signaled \in [ToSet(Bound) -> [Side \X BOOLEAN -> SetupId \cup {"none"}]]
        /\ watched \in [ToSet(Bound) -> Watch]
    BY DEF CycleType, MemoryInv
  <1>4. \A i \in DOMAIN collected : collected[i] \in Signals
    BY DEF CycleType
  <1>5. ASSUME NEW i \in DOMAIN queue
        PROVE  queue[i].item.signal \in Signals /\ queue[i].item.action \in Actions
    <2>1. queue[i] \in VerdictSet
      BY <1>5 DEF CycleType, Queued
    <2>2. queue[i].item \in Intents
      BY <2>1 DEF VerdictSet
    <2>. QED
      BY <2>2 DEF Intents
  <1>6. ASSUME NEW i \in DOMAIN graded
        PROVE  graded[i].quantity \in Nat
    <2>1. graded[i] \in Grades
      BY <1>6 DEF CycleType
    <2>. QED
      BY <2>1 DEF Grades
  <1>. QED
    BY <1>1, <1>2, <1>3, <1>4, <1>5, <1>6 DEF TypeOK

\* ... and the rest of TrailComplete.
LEMMA TrailFollows == TrailInv => TrailComplete
  <1> SUFFICES ASSUME TrailInv
               PROVE  TrailComplete
    OBVIOUS
  <1>1. CycleType /\ ClosesFirst /\ TypeOK
    BY TypeFollows DEF TrailInv
  <1>2. ASSUME phase = "idle", NEW c \in Told
        PROVE  \E r \in trail : r.signal = c
    <2>1. queue = <<>> /\ collected = <<>>
      BY <1>1, <1>2 DEF CycleType
    <2>2. Len(<<>>) = 0 /\ 1 .. 0 = {}
      OBVIOUS
    <2>. QED
      BY <1>2, <2>1, <2>2 DEF Told
  <1>3. ASSUME phase = "idle", NEW b \in ToSet(Bound), b[2] \in ToSet(Symbols),
               NEW slot \in Side \X BOOLEAN, signaled[b][slot] # "none"
        PROVE  \E r \in trail :
                 /\ <<r.signal.strategy, r.signal.symbol>> = b
                 /\ <<r.signal.direction, r.signal.exit_only>> = slot
                 /\ r.signal.setup = signaled[b][slot]
    <2>1. PICK c \in Told : UsesSlot(c, b, slot, signaled[b][slot])
      BY <1>3 DEF TrailInv, MemoryTold
    <2>2. PICK r \in trail : r.signal = c
      BY <1>2, <1>3
    <2>. QED
      BY <2>1, <2>2 DEF UsesSlot
  <1>4. ASSUME phase = "idle", NEW b \in ToSet(Bound), b[2] \in ToSet(Symbols), watched[b].fired
        PROVE  \E r \in trail : <<r.signal.strategy, r.signal.symbol>> = b
                                /\ r.signal.setup = "horizon"
    <2>1. PICK c \in Told : UsesWatch(c, b)
      BY <1>4 DEF TrailInv, MemoryTold
    <2>2. PICK r \in trail : r.signal = c
      BY <1>2, <1>4
    <2>. QED
      BY <2>1, <2>2 DEF UsesWatch
  <1>5. ASSUME NEW i \in DOMAIN graded, Reverses(graded[i].item)
        PROVE  Record("graded", graded[i].item.signal, "CLOSE") \in trail
    <2>1. i \in 1 .. Len(graded)
      BY <1>1 DEF CycleType
    <2>. QED
      BY <1>1, <1>5, <2>1 DEF ClosesFirst
  <1>. QED
    BY <1>1, <1>3, <1>4, <1>5 DEF TrailComplete, Reverses

\* What a strategy has used up is in the trail between two cycles, and no reversal
\* is recorded before its close (live/shadow.py, run_once and its loops;
\* portfolio/manager.py, intents_from_signal).
THEOREM TrailIsComplete == Spec => []TrailComplete
  BY TrailInit, TrailStep, TrailFollows, PTL DEF Spec
=============================================================================

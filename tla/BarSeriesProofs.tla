---------------------------- MODULE BarSeriesProofs ----------------------------
(***************************************************************************)
(* Why the stored candles are honest, for every width, batch and clock.    *)
(* A fold in the order of the broker's clock never closes a bucket that a  *)
(* later quote of the read belongs to, so what it publishes is whole in    *)
(* what was read; a read starts at a bucket the series is known to reach   *)
(* back to, so it is whole in what could be seen; and rows are only        *)
(* appended, so what was seen stays what it was.  In the order of          *)
(* reception a quote is dropped only when it lies less than StepBack       *)
(* behind one delivered before it.                                         *)
(*                                                                         *)
(* The sections after it have no part in this.  They are about what is     *)
(* collected beside the prices, each component an instance with variables  *)
(* of its own: LabelReview, Vintages, OpinionsArchive, MeetingIngest and   *)
(* InterventionIngest.                                                     *)
(***************************************************************************)
EXTENDS BarSeries, FoldTheorems, TLAPS

-----------------------------------------------------------------------------
(* The buckets of the broker's clock *)

OnGrid(s) == s \in Nat /\ BucketStart(s) = s

LEMMA Multiples ==
  ASSUME NEW w \in Nat, w >= 1
  PROVE  /\ \A q, r \in Int : q < r => w * q + w <= w * r
         /\ \A q \in Int : w * q \in Int /\ w * (q + 1) = w * q + w
         /\ \A q \in Nat : w * q \in Nat
  OBVIOUS

\* A quote lies in its bucket, which starts at a multiple of Width.
LEMMA Divides ==
  ASSUME NEW t \in Nat
  PROVE  /\ t \div Width \in Nat /\ BucketStart(t) = Width * (t \div Width)
         /\ BucketStart(t) \in Nat /\ BucketStart(t) <= t /\ t < BucketStart(t) + Width
  <1>1. Width \in Nat /\ Width >= 1
    BY BarAssumption
  <1>2. \A a, w \in Nat : w >= 1 => /\ a \div w \in Nat /\ a % w \in 0 .. w - 1
                                    /\ a = w * (a \div w) + (a % w)
    OBVIOUS
  <1>3. t \div Width \in Nat /\ t % Width \in 0 .. Width - 1
        /\ t = Width * (t \div Width) + (t % Width)
    BY <1>1, <1>2
  <1> DEFINE q == t \div Width
             r == t % Width
  <1>4. Width * q \in Nat
    BY <1>1, <1>3, Multiples
  <1> HIDE DEF q, r
  <1>5. BucketStart(t) = t - r /\ q \in Nat /\ r \in 0 .. Width - 1 /\ t = Width * q + r
    BY <1>3 DEF BucketStart, q, r
  <1>6. BucketStart(t) = Width * q
    BY <1>1, <1>4, <1>5
  <1>. QED
    BY <1>1, <1>4, <1>5, <1>6 DEF q

\* Buckets follow each other at Width, and a quote lies in one of them.
LEMMA BucketsApart ==
  /\ \A t, u \in Nat : /\ t <= u => BucketStart(t) <= BucketStart(u)
                       /\ BucketStart(t) < BucketStart(u) => BucketStart(t) + Width <= BucketStart(u)
  /\ \A t, s \in Nat : OnGrid(s) /\ s <= t => s <= BucketStart(t)
  /\ \A t \in Nat : OnGrid(BucketStart(t)) /\ OnGrid(BucketStart(t) + Width)
  <1>0. Width \in Nat /\ Width >= 1
    BY BarAssumption
  <1>1. ASSUME NEW t \in Nat, NEW u \in Nat
        PROVE  /\ t <= u => BucketStart(t) <= BucketStart(u)
               /\ BucketStart(t) < BucketStart(u) => BucketStart(t) + Width <= BucketStart(u)
    <2> DEFINE q == t \div Width
               r == u \div Width
    <2>1. /\ q \in Nat /\ r \in Nat
          /\ BucketStart(t) = Width * q /\ BucketStart(u) = Width * r
          /\ BucketStart(t) <= t /\ t < BucketStart(t) + Width
          /\ BucketStart(u) <= u /\ u < BucketStart(u) + Width
          /\ BucketStart(t) \in Nat /\ BucketStart(u) \in Nat
      BY Divides
    <2> HIDE DEF q, r
    <2>2. q < r => Width * q + Width <= Width * r
      BY <1>0, <2>1, Multiples
    <2>3. r < q => Width * r + Width <= Width * q
      BY <1>0, <2>1, Multiples
    <2>4. q < r \/ r < q \/ q = r
      BY <2>1
    <2>. QED
      BY <1>0, <2>1, <2>2, <2>3, <2>4
  <1>2. ASSUME NEW t \in Nat
        PROVE  OnGrid(BucketStart(t)) /\ OnGrid(BucketStart(t) + Width)
    <2> DEFINE a == BucketStart(t)
               b == BucketStart(t) + Width
    <2>1. /\ a \in Nat /\ b \in Nat
          /\ a = Width * (t \div Width) /\ b = Width * (t \div Width + 1)
          /\ t \div Width \in Nat
      <3> DEFINE q == t \div Width
      <3>1. q \in Nat /\ a = Width * q /\ a \in Nat
        BY Divides
      <3> HIDE DEF q, a
      <3>2. Width * (q + 1) = Width * q + Width
        BY <1>0, <3>1, Multiples
      <3>3. b = a + Width
        BY DEF a
      <3> HIDE DEF b
      <3>4. b \in Nat /\ b = Width * (q + 1)
        BY <1>0, <3>1, <3>2, <3>3
      <3>. QED
        BY <3>1, <3>4 DEF q
    <2>2. ASSUME NEW k \in Nat, NEW q \in Nat, k = Width * q
          PROVE  BucketStart(k) = k
      <3> DEFINE p == k \div Width
      <3>1. p \in Nat /\ BucketStart(k) = Width * p /\ BucketStart(k) <= k
            /\ k < BucketStart(k) + Width /\ BucketStart(k) \in Nat
        BY Divides
      <3> HIDE DEF p
      <3>2. p < q => Width * p + Width <= Width * q
        BY <1>0, <3>1, Multiples
      <3>3. q < p => Width * q + Width <= Width * p
        BY <1>0, <3>1, Multiples
      <3>4. p = q
        BY <1>0, <2>2, <3>1, <3>2, <3>3
      <3>. QED
        BY <2>2, <3>1, <3>4
    <2>3. BucketStart(a) = a
      BY <2>1, <2>2
    <2>4. BucketStart(b) = b
      <3>1. t \div Width + 1 \in Nat
        BY <2>1
      <3>. QED
        BY <2>1, <2>2, <3>1
    <2>. QED
      BY <2>1, <2>3, <2>4 DEF OnGrid
  <1>3. ASSUME NEW t \in Nat, NEW s \in Nat, OnGrid(s), s <= t
        PROVE  s <= BucketStart(t)
    BY <1>1, <1>3 DEF OnGrid
  <1>. QED
    BY <1>1, <1>2, <1>3

\* The starts of candles are buckets of the bounded clock.
LEMMA StartsTyped ==
  /\ \A t \in BrokerTime : t \in Nat /\ BucketStart(t) \in Start
  /\ \A s \in Start : OnGrid(s) /\ s \in 0 .. MaxTime
  <1>1. MaxTime \in Nat
    BY BarAssumption
  <1>2. \A t \in BrokerTime : t \in Nat /\ t <= MaxTime
    BY <1>1 DEF BrokerTime
  <1>3. \A t \in BrokerTime : BucketStart(t) \in Nat /\ BucketStart(t) <= t /\ OnGrid(BucketStart(t))
    BY <1>2, Divides, BucketsApart
  <1>4. \A t \in BrokerTime : BucketStart(t) \in 0 .. MaxTime
    BY <1>1, <1>2, <1>3
  <1>. QED
    BY <1>2, <1>3, <1>4 DEF Start

\* The larger of two numbers.
LEMMA MaxOfTwo ==
  ASSUME NEW a \in Int, NEW b \in Int
  PROVE  Max({a, b}) = IF a >= b THEN a ELSE b
  <1> DEFINE m == IF a >= b THEN a ELSE b
  <1>1. m \in {a, b} /\ \A y \in {a, b} : m >= y
    OBVIOUS
  <1>2. \A x \in {a, b} : (\A y \in {a, b} : x >= y) => x = m
    OBVIOUS
  <1>3. Max({a, b}) = CHOOSE x \in {a, b} : \A y \in {a, b} : x >= y
    BY Zenon DEF Max
  <1> HIDE DEF m
  <1>4. Max({a, b}) = m
    BY <1>1, <1>2, <1>3
  <1>. QED
    BY <1>4 DEF m

-----------------------------------------------------------------------------
(* The rows, and the orders they are read in *)

TicksTyped == ticks \in Seq(Row) /\ Len(ticks) <= MaxTicks

\* What the types of the rows give each of them.
LEMMA TicksFacts ==
  ASSUME TicksTyped
  PROVE  /\ Len(ticks) \in Nat /\ Committed \in SUBSET Id /\ Committed \in SUBSET Nat
         /\ IsFiniteSet(Committed)
         /\ \A i \in Committed : /\ ticks[i] \in Row /\ Time(i) \in BrokerTime /\ Time(i) \in Nat
                                 /\ Known(i) \in 0 .. MaxClock /\ Known(i) \in Nat
                                 /\ BucketStart(Time(i)) \in Start
  <1>1. Len(ticks) \in Nat /\ MaxTicks \in Nat /\ MaxClock \in Nat
    BY BarAssumption DEF TicksTyped
  <1>2. Committed \in SUBSET Id /\ Committed \in SUBSET Nat
    BY <1>1 DEF Committed, Id, TicksTyped
  <1>3. IsFiniteSet(Committed)
    <2>1. 1 \in Int /\ Len(ticks) \in Int
      BY <1>1
    <2>. QED
      BY <2>1, FS_Interval DEF Committed
  <1>4. ASSUME NEW i \in Committed
        PROVE  ticks[i] \in Row
    BY <1>1, <1>4 DEF TicksTyped, Committed
  <1>5. ASSUME NEW i \in Committed
        PROVE  Time(i) \in BrokerTime /\ Known(i) \in 0 .. MaxClock
    BY <1>4 DEF Row, Time, Known
  <1>. QED
    BY <1>1, <1>2, <1>3, <1>4, <1>5, StartsTyped

DeliveredBefore(i, j) == Known(i) < Known(j) \/ (Known(i) = Known(j) /\ i < j)
ByTime(S) == {p \in S \X S : Earlier(p[1], p[2])}
ByReception(S) == {p \in S \X S : DeliveredBefore(p[1], p[2])}

\* Instants first, ids where they are equal: a strict order of any rows.
LEMMA Lexicographic ==
  ASSUME NEW S, NEW f \in [S -> Nat], S \in SUBSET Nat, NEW before,
         before = {p \in S \X S : f[p[1]] < f[p[2]] \/ (f[p[1]] = f[p[2]] /\ p[1] < p[2])}
  PROVE  StrictOrder(before, S)
  <1>1. \A x, y \in S : <<x, y>> \in before <=> f[x] < f[y] \/ (f[x] = f[y] /\ x < y)
    OBVIOUS
  <1>2. before \in SUBSET (S \X S)
    OBVIOUS
  <1>3. \A x \in S : x \in Nat /\ f[x] \in Nat
    OBVIOUS
  <1>4. \A x \in S : <<x, x>> \notin before
    BY <1>1, <1>3
  <1>5. ASSUME NEW x \in S, NEW y \in S, NEW z \in S, <<x, y>> \in before, <<y, z>> \in before
        PROVE  <<x, z>> \in before
    <2>1. f[x] < f[y] \/ (f[x] = f[y] /\ x < y)
      BY <1>1, <1>5
    <2>2. f[y] < f[z] \/ (f[y] = f[z] /\ y < z)
      BY <1>1, <1>5
    <2>3. f[x] < f[z] \/ (f[x] = f[z] /\ x < z)
      BY <1>3, <2>1, <2>2
    <2>. QED
      BY <1>1, <2>3
  <1>6. ASSUME NEW x \in S, NEW y \in S
        PROVE  x = y \/ <<x, y>> \in before \/ <<y, x>> \in before
    <2>1. \/ x = y
          \/ f[x] < f[y] \/ (f[x] = f[y] /\ x < y)
          \/ f[y] < f[x] \/ (f[y] = f[x] /\ y < x)
      BY <1>3
    <2>. QED
      BY <1>1, <2>1
  <1>. QED
    BY <1>2, <1>4, <1>5, <1>6 DEF StrictOrder

\* Both orders the rows are read in are strict.
LEMMA OrdersAreStrict ==
  ASSUME TicksTyped, NEW S \in SUBSET Committed
  PROVE  StrictOrder(ByTime(S), S) /\ StrictOrder(ByReception(S), S) /\ IsFiniteSet(S)
  <1>1. S \in SUBSET Nat /\ IsFiniteSet(S)
        /\ \A i \in S : Time(i) \in Nat /\ Known(i) \in Nat
    BY TicksFacts, FS_Subset
  <1>2. StrictOrder(ByTime(S), S)
    <2> DEFINE f == [i \in S |-> Time(i)]
    <2>1. f \in [S -> Nat]
      BY <1>1
    <2>2. ByTime(S) = {p \in S \X S : f[p[1]] < f[p[2]] \/ (f[p[1]] = f[p[2]] /\ p[1] < p[2])}
      BY DEF ByTime, Earlier
    <2> HIDE DEF f
    <2>. QED
      BY <1>1, <2>1, <2>2, Lexicographic
  <1>3. StrictOrder(ByReception(S), S)
    <2> DEFINE f == [i \in S |-> Known(i)]
    <2>1. f \in [S -> Nat]
      BY <1>1
    <2>2. ByReception(S) = {p \in S \X S : f[p[1]] < f[p[2]] \/ (f[p[1]] = f[p[2]] /\ p[1] < p[2])}
      BY DEF ByReception, DeliveredBefore
    <2> HIDE DEF f
    <2>. QED
      BY <1>1, <2>1, <2>2, Lexicographic
  <1>. QED
    BY <1>1, <1>2, <1>3

\* A read is in the order it asks for.
LEMMA ReadsInOrder ==
  ASSUME TicksTyped, NEW S \in SUBSET Committed
  PROVE  /\ InRankOrder(InOrder(S), ByTime(S), S)
         /\ InRankOrder(Arranged(S, ByReception(S)), ByReception(S), S)
  <1>1. StrictOrder(ByTime(S), S) /\ StrictOrder(ByReception(S), S) /\ IsFiniteSet(S)
    BY OrdersAreStrict
  <1>2. ASSUME NEW before, StrictOrder(before, S)
        PROVE  InRankOrder(Arranged(S, before), before, S)
    <2>1. RankedBy(Arranged(S, before), before, S)
      BY Zenon DEF RankedBy, Arranged, Outranking
    <2>. QED
      BY <1>1, <1>2, <2>1, RankedInOrder
  <1>3. InOrder(S) = Arranged(S, ByTime(S))
    BY Zenon DEF InOrder, ByTime
  <1>. QED
    BY <1>1, <1>2, <1>3

-----------------------------------------------------------------------------
(* The builder, quote by quote *)

Builders == [bucket: Candle \cup {NoBucket}, published: Seq(Candle)]

\* What the type of a candle gives it.
LEMMA CandleFacts ==
  ASSUME NEW c \in Candle
  PROVE  /\ c # NoBucket /\ c.start \in Start /\ c.start \in Nat /\ OnGrid(c.start)
         /\ c.members \in SUBSET Id /\ c.open \in Id /\ c.close \in Id
         /\ c.known \in 0 .. MaxClock /\ c.known \in Nat
  <1>1. c.start \in Start /\ c.members \in SUBSET Id /\ c.open \in Id /\ c.close \in Id
        /\ c.known \in 0 .. MaxClock
    BY DEF Candle
  <1>2. c.start \in Nat /\ OnGrid(c.start) /\ c.known \in Nat
    BY <1>1, StartsTyped, BarAssumption
  <1>3. NoBucket.start = -1
    BY DEF NoBucket
  <1>4. c # NoBucket
    BY <1>2, <1>3
  <1>. QED
    BY <1>1, <1>2, <1>4

\* What a quote does to an open bucket: it ends it, joins it, or is dropped.
Ends(b, i) == SteppedBack(b, i) \/ Time(i) >= b.start + Width
Joins(b, i) == ~Ends(b, i) /\ BucketStart(Time(i)) = b.start

\* The branches of on_tick exclude each other.
LEMMA OnTickIs ==
  ASSUME TicksTyped, NEW f, f.bucket \in Candle \cup {NoBucket}, NEW i \in Committed
  PROVE  /\ f.bucket = NoBucket => OnTick(f, i) = [f EXCEPT !.bucket = OpenBucket(i)]
         /\ f.bucket # NoBucket /\ Ends(f.bucket, i) =>
              OnTick(f, i) = [bucket |-> OpenBucket(i),
                              published |-> Append(f.published, ToBar(f.bucket, i))]
         /\ f.bucket # NoBucket /\ Joins(f.bucket, i) =>
              OnTick(f, i) = [f EXCEPT !.bucket = Folded(f.bucket, i)]
         /\ f.bucket # NoBucket /\ ~Ends(f.bucket, i) /\ ~Joins(f.bucket, i) => OnTick(f, i) = f
  <1> DEFINE b == f.bucket
             opened == [f EXCEPT !.bucket = OpenBucket(i)]
             ended == [bucket |-> OpenBucket(i), published |-> Append(f.published, ToBar(b, i))]
             joined == [f EXCEPT !.bucket = Folded(b, i)]
  <1>1. OnTick(f, i) =
          CASE b = NoBucket -> opened
            [] b # NoBucket /\ Ends(b, i) -> ended
            [] b # NoBucket /\ BucketStart(Time(i)) = b.start -> joined
            [] OTHER -> f
    BY DEF OnTick, Ends
  <1> HIDE DEF opened, ended, joined, b
  <1>2. b = NoBucket => OnTick(f, i) = opened
    BY <1>1
  <1>3. b # NoBucket /\ Ends(b, i) => OnTick(f, i) = ended
    <2>1. ASSUME b # NoBucket, Ends(b, i)
          PROVE  BucketStart(Time(i)) # b.start
      <3>1. b \in Candle
        BY <2>1 DEF b
      <3>2. b.start \in Nat /\ Time(i) \in Nat /\ Width \in Nat
        BY <3>1, CandleFacts, TicksFacts, BarAssumption
      <3>3. BucketStart(Time(i)) \in Nat /\ Time(i) < BucketStart(Time(i)) + Width
        BY <3>2, Divides
      <3>. QED
        BY <2>1, <3>2, <3>3 DEF Ends, SteppedBack
    <2>. QED
      BY <1>1, <2>1
  <1>4. b # NoBucket /\ Joins(b, i) => OnTick(f, i) = joined
    BY <1>1 DEF Joins
  <1>5. b # NoBucket /\ ~Ends(b, i) /\ ~Joins(b, i) => OnTick(f, i) = f
    BY <1>1 DEF Joins
  <1>. QED
    BY <1>2, <1>3, <1>4, <1>5 DEF opened, ended, joined, b

\* The fields of an opened, a folded and a published candle.
LEMMA FoldedIs ==
  ASSUME TicksTyped, NEW b \in Candle, NEW i \in Committed
  PROVE  /\ OpenBucket(i) \in Candle /\ ToBar(b, i) \in Candle /\ Folded(b, i) \in Candle
         /\ OpenBucket(i).start = BucketStart(Time(i)) /\ OpenBucket(i).members = {i}
         /\ OpenBucket(i).open = i /\ OpenBucket(i).close = i /\ OpenBucket(i).known = Known(i)
         /\ ToBar(b, i).start = b.start /\ ToBar(b, i).members = b.members
         /\ ToBar(b, i).open = b.open /\ ToBar(b, i).close = b.close
         /\ ToBar(b, i).known >= b.known /\ ToBar(b, i).known >= Known(i)
         /\ Folded(b, i).start = b.start /\ Folded(b, i).members = b.members \cup {i}
         /\ Folded(b, i).close = (IF Time(i) >= Time(b.close) THEN i ELSE b.close)
         /\ Folded(b, i).open = (IF Time(i) < Time(b.open) THEN i ELSE b.open)
         /\ Folded(b, i).known >= b.known /\ Folded(b, i).known >= Known(i)
  <1>1. /\ i \in Id /\ Known(i) \in 0 .. MaxClock /\ Known(i) \in Nat
        /\ BucketStart(Time(i)) \in Start
    BY TicksFacts
  <1>2. /\ b.start \in Start /\ b.members \in SUBSET Id /\ b.open \in Id /\ b.close \in Id
        /\ b.known \in 0 .. MaxClock /\ b.known \in Nat
        /\ b = [start |-> b.start, members |-> b.members, open |-> b.open, close |-> b.close,
                known |-> b.known]
    BY CandleFacts DEF Candle
  <1> DEFINE m == Max({b.known, Known(i)})
             last == IF Time(i) >= Time(b.close) THEN i ELSE b.close
             first == IF Time(i) < Time(b.open) THEN i ELSE b.open
  <1>3. m \in 0 .. MaxClock /\ m >= b.known /\ m >= Known(i)
    BY <1>1, <1>2, MaxOfTwo, BarAssumption
  <1>4. last \in Id /\ first \in Id
    BY <1>1, <1>2
  <1>5. ToBar(b, i) = [b EXCEPT !.known = m]
    BY DEF ToBar
  <1>6. Folded(b, i) = [start |-> b.start, members |-> b.members \cup {i}, open |-> first,
                        close |-> last, known |-> m]
    <2>1. Folded(b, i) = [b EXCEPT !.members = b.members \cup {i}, !.close = last,
                                   !.open = first, !.known = m]
      BY <1>2 DEF Folded
    <2> HIDE DEF m, last, first
    <2>. QED
      BY <1>2, <2>1
  <1> HIDE DEF m, last, first
  <1>7. ToBar(b, i) = [start |-> b.start, members |-> b.members, open |-> b.open,
                       close |-> b.close, known |-> m]
    BY <1>2, <1>5
  <1>8. OpenBucket(i) \in Candle
    BY <1>1 DEF OpenBucket, Candle
  <1>9. ToBar(b, i) \in Candle
    BY <1>2, <1>3, <1>7 DEF Candle
  <1>10. Folded(b, i) \in Candle
    BY <1>1, <1>2, <1>3, <1>4, <1>6 DEF Candle
  <1>11. /\ OpenBucket(i).start = BucketStart(Time(i)) /\ OpenBucket(i).members = {i}
         /\ OpenBucket(i).open = i /\ OpenBucket(i).close = i /\ OpenBucket(i).known = Known(i)
    BY DEF OpenBucket
  <1>12. /\ ToBar(b, i).start = b.start /\ ToBar(b, i).members = b.members
         /\ ToBar(b, i).open = b.open /\ ToBar(b, i).close = b.close /\ ToBar(b, i).known = m
    BY <1>7
  <1>13. /\ Folded(b, i).start = b.start /\ Folded(b, i).members = b.members \cup {i}
         /\ Folded(b, i).close = last /\ Folded(b, i).open = first /\ Folded(b, i).known = m
    BY <1>6
  <1>. QED
    BY <1>3, <1>8, <1>9, <1>10, <1>11, <1>12, <1>13 DEF last, first

\* A builder stays a builder.
LEMMA OnTickType ==
  ASSUME TicksTyped, NEW f \in Builders, NEW i \in Committed
  PROVE  OnTick(f, i) \in Builders
  <1>1. f.bucket \in Candle \cup {NoBucket} /\ f.published \in Seq(Candle)
        /\ f = [bucket |-> f.bucket, published |-> f.published]
    BY DEF Builders
  <1>2. OpenBucket(i) \in Candle
    <2>1. i \in Id /\ Known(i) \in 0 .. MaxClock /\ BucketStart(Time(i)) \in Start
      BY TicksFacts
    <2>. QED
      BY <2>1 DEF OpenBucket, Candle
  <1>3. CASE f.bucket = NoBucket
    <2>1. OnTick(f, i) = [bucket |-> OpenBucket(i), published |-> f.published]
      BY <1>1, <1>3, OnTickIs
    <2>. QED
      BY <1>1, <1>2, <2>1 DEF Builders
  <1>4. CASE f.bucket # NoBucket
    <2>1. f.bucket \in Candle
      BY <1>1, <1>4
    <2>2. ToBar(f.bucket, i) \in Candle /\ Folded(f.bucket, i) \in Candle
      BY <2>1, FoldedIs
    <2>3. CASE Ends(f.bucket, i)
      <3>1. OnTick(f, i) = [bucket |-> OpenBucket(i),
                            published |-> Append(f.published, ToBar(f.bucket, i))]
        BY <1>1, <1>4, <2>3, OnTickIs
      <3>. QED
        BY <1>1, <1>2, <2>2, <3>1 DEF Builders
    <2>4. CASE Joins(f.bucket, i)
      <3>1. OnTick(f, i) = [bucket |-> Folded(f.bucket, i), published |-> f.published]
        BY <1>1, <1>4, <2>4, OnTickIs
      <3>. QED
        BY <1>1, <2>2, <3>1 DEF Builders
    <2>5. CASE ~Ends(f.bucket, i) /\ ~Joins(f.bucket, i)
      BY <1>1, <1>4, <2>5, OnTickIs
    <2>. QED
      BY <2>3, <2>4, <2>5
  <1>. QED
    BY <1>3, <1>4

\* The fold, quote by quote.
BuildsUp(run, s) ==
  /\ run \in [0 .. Len(s) -> Builders]
  /\ run[0] = NewBuilder
  /\ \A k \in 1 .. Len(s) : run[k] = OnTick(run[k - 1], s[k])
  /\ run[Len(s)] = Build(s)

\* The fold of a sequence is such a run.
LEMMA BuildRun ==
  ASSUME TicksTyped, NEW s \in Seq(Committed)
  PROVE  \E run : BuildsUp(run, s)
  <1> DEFINE n == Len(s)
             A == Builders
             op == [p \in A \X (1 .. n) |-> OnTick(p[1], s[p[2]])]
             Iter(f) == f = [t \in SUBSET DOMAIN s |->
                               IF t = {} THEN NewBuilder
                               ELSE OnTick(f[t \ {Max(t)}], s[Max(t)])]
             it == CHOOSE f : Iter(f)
  <1>1. n \in Nat /\ DOMAIN s = 1 .. n
    OBVIOUS
  <1>2. op \in [A \X (1 .. n) -> A] /\ NewBuilder \in A
    <2>1. ASSUME NEW p \in A \X (1 .. n)
          PROVE  OnTick(p[1], s[p[2]]) \in A
      <3>1. p[1] \in A /\ p[2] \in 1 .. n /\ s[p[2]] \in Committed
        BY <1>1
      <3> HIDE DEF n, A
      <3>. QED
        BY <3>1, OnTickType DEF A
    <2>2. NewBuilder \in A
      BY DEF NewBuilder, Builders
    <2>. QED
      BY <2>1, <2>2
  <1>4. Build(s) = it[1 .. n]
    BY <1>1, Zenon DEF Build, FoldLeft, MapThenFoldSet
  <1> HIDE DEF n, it
  <1>3. ASSUME NEW a \in A, NEW i \in 1 .. n
        PROVE  op[<<a, i>>] = OnTick(a, s[i])
    <2>1. <<a, i>> \in A \X (1 .. n)
      OBVIOUS
    <2>. QED
      BY <2>1
  <1> HIDE DEF op, A
  <1>5. ASSUME NEW t \in SUBSET (1 .. n), t # {}
        PROVE  Max(t) \in 1 .. n /\ t \ {Max(t)} \in SUBSET (1 .. n)
    BY <1>1, <1>5, MaxUpTo
  <1>6. Iter(it)
    <2>1. PICK f : Recurses(f, A, NewBuilder, op, n)
      BY <1>1, <1>2, FoldExists
    <2>2. ASSUME NEW t \in SUBSET (1 .. n)
          PROVE  f[t] = IF t = {} THEN NewBuilder ELSE OnTick(f[t \ {Max(t)}], s[Max(t)])
      <3>1. CASE t = {}
        BY <2>1, <3>1 DEF Recurses
      <3>2. CASE t # {}
        <4>1. f[t \ {Max(t)}] \in A /\ f[t] = op[<<f[t \ {Max(t)}], Max(t)>>]
          BY <2>1, <1>5, <3>2 DEF Recurses
        <4>. QED
          BY <3>2, <4>1, <1>3, <1>5
      <3>. QED
        BY <3>1, <3>2
    <2>3. f = [t \in SUBSET (1 .. n) |-> f[t]]
      BY <2>1 DEF Recurses
    <2>4. Iter(f)
      BY <1>1, <2>2, <2>3
    <2> HIDE DEF Iter
    <2>. QED
      BY <2>4 DEF it
  <1>7. it[{}] = NewBuilder
    BY <1>6
  <1>8. \A t \in SUBSET (1 .. n) :
          t # {} /\ it[t \ {Max(t)}] \in A => it[t] = op[<<it[t \ {Max(t)}], Max(t)>>]
    BY <1>1, <1>3, <1>5, <1>6
  <1>9. Follows(it, A, NewBuilder, op, n)
    BY <1>7, <1>8 DEF Follows
  <1>10. PICK run : Runs(run, A, NewBuilder, op, n) /\ run[n] = it[1 .. n]
    <2>1. HasRun(it, A, NewBuilder, op, n)
      BY <1>1, <1>2, <1>9, FoldRun
    <2>. QED
      BY <2>1 DEF HasRun
  <1>11. ASSUME NEW k \in 1 .. n
         PROVE  run[k] = OnTick(run[k - 1], s[k])
    <2>1. k - 1 \in 0 .. n
      BY <1>1
    <2>. QED
      BY <1>10, <1>3, <2>1 DEF Runs
  <1>. QED
    BY <1>4, <1>10, <1>11 DEF n, A, Runs, BuildsUp

-----------------------------------------------------------------------------
(* Quotes in the order of the broker's clock *)

\* A candle holds its bucket's quotes among T, opens on the first, closes on the last.
WholeIn(c, T) ==
  /\ c \in Candle
  /\ c.members = {i \in T : BucketStart(Time(i)) = c.start}
  /\ c.open \in c.members /\ c.close \in c.members
  /\ \A i \in c.members \ {c.open} : Earlier(c.open, i)
  /\ \A i \in c.members \ {c.close} : Earlier(i, c.close)
  /\ \A i \in c.members : Known(i) <= c.known
\* Among T is a quote past its end, known when the candle is.
KnowableIn(c, T) == \E i \in T : Time(i) >= c.start + Width /\ Known(i) <= c.known

\* The builder after the quotes T, of which last came last.
FoldedTo(f, T, last) ==
  /\ f.bucket \in Candle /\ f.published \in Seq(Candle)
  /\ WholeIn(f.bucket, T) /\ f.bucket.close = last
  /\ \A i \in T \ {last} : Earlier(i, last)
  /\ \A k \in DOMAIN f.published : /\ WholeIn(f.published[k], T)
                                   /\ KnowableIn(f.published[k], T)
                                   /\ f.published[k].start < f.bucket.start

\* A quote of a later bucket leaves a candle what it is.
LEMMA WholeKept ==
  ASSUME NEW c, NEW T, NEW i, WholeIn(c, T), BucketStart(Time(i)) # c.start
  PROVE  WholeIn(c, T \cup {i}) /\ (KnowableIn(c, T) => KnowableIn(c, T \cup {i}))
  <1>1. {j \in T \cup {i} : BucketStart(Time(j)) = c.start} =
          {j \in T : BucketStart(Time(j)) = c.start}
    OBVIOUS
  <1>2. WholeIn(c, T \cup {i})
    BY <1>1 DEF WholeIn
  <1>3. KnowableIn(c, T) => KnowableIn(c, T \cup {i})
    BY DEF KnowableIn
  <1>. QED
    BY <1>2, <1>3

\* The first quote opens a bucket of its own.
LEMMA FoldStart ==
  ASSUME TicksTyped, NEW i \in Committed
  PROVE  FoldedTo(OnTick(NewBuilder, i), {i}, i)
  <1>1. /\ i \in Id /\ Known(i) \in Nat
        /\ OpenBucket(i) \in Candle
        /\ OpenBucket(i).start = BucketStart(Time(i)) /\ OpenBucket(i).members = {i}
        /\ OpenBucket(i).open = i /\ OpenBucket(i).close = i /\ OpenBucket(i).known = Known(i)
    <2>1. i \in Id /\ Known(i) \in 0 .. MaxClock /\ Known(i) \in Nat /\ BucketStart(Time(i)) \in Start
      BY TicksFacts
    <2>. QED
      BY <2>1 DEF OpenBucket, Candle
  <1> DEFINE f == OnTick(NewBuilder, i)
  <1>2. f.bucket = OpenBucket(i) /\ f.published = <<>>
    <2>1. NewBuilder.bucket = NoBucket
      BY DEF NewBuilder
    <2>2. f = [NewBuilder EXCEPT !.bucket = OpenBucket(i)]
      BY <2>1, OnTickIs
    <2> HIDE DEF f
    <2>. QED
      BY <2>2 DEF NewBuilder
  <1> HIDE DEF f
  <1>3. WholeIn(OpenBucket(i), {i})
    BY <1>1 DEF WholeIn
  <1>4. f.published \in Seq(Candle) /\ DOMAIN f.published = {}
    BY <1>2
  <1>. QED
    BY <1>1, <1>2, <1>3, <1>4 DEF FoldedTo, f

\* A quote later than all before it joins the open bucket or ends it, and then no
\* later one belongs to it.
LEMMA FoldStep ==
  ASSUME TicksTyped, NEW T \in SUBSET Committed, NEW last, NEW f \in Builders,
         FoldedTo(f, T, last), NEW i \in Committed \ T, \A j \in T : Earlier(j, i)
  PROVE  FoldedTo(OnTick(f, i), T \cup {i}, i)
  <1> DEFINE b == f.bucket
             U == T \cup {i}
             g == OnTick(f, i)
             p == f.published
  <1>1. /\ b \in Candle /\ p \in Seq(Candle) /\ WholeIn(b, T) /\ b.close = last
        /\ \A j \in T \ {last} : Earlier(j, last)
        /\ f = [bucket |-> b, published |-> p]
    BY DEF FoldedTo, Builders
  <1>2. last \in T /\ BucketStart(Time(last)) = b.start
    BY <1>1 DEF WholeIn
  <1>3. b # NoBucket /\ b.start \in Nat /\ b.known \in Nat
    BY <1>1, CandleFacts
  <1>4. /\ Time(i) \in Nat /\ Known(i) \in Nat /\ BucketStart(Time(i)) \in Nat
        /\ \A j \in T : Time(j) \in Nat /\ Known(j) \in Nat /\ Time(j) <= Time(i)
                        /\ BucketStart(Time(j)) <= b.start /\ BucketStart(Time(j)) \in Nat
    <2>1. ASSUME NEW j \in T
          PROVE  /\ Time(j) \in Nat /\ Known(j) \in Nat /\ Time(j) <= Time(i)
                 /\ BucketStart(Time(j)) <= b.start /\ BucketStart(Time(j)) \in Nat
      <3>1. j \in Committed /\ last \in Committed /\ i \in Committed
        BY <1>2
      <3>2. Time(j) \in Nat /\ Known(j) \in Nat /\ Time(last) \in Nat /\ Time(i) \in Nat
        BY <3>1, TicksFacts
      <3>3. Time(j) <= Time(i)
        BY <3>2 DEF Earlier
      <3>4. Time(j) <= Time(last)
        BY <1>1, <3>2 DEF Earlier
      <3>5. BucketStart(Time(j)) <= BucketStart(Time(last)) /\ BucketStart(Time(j)) \in Nat
        BY <3>2, <3>4, BucketsApart, Divides
      <3>. QED
        BY <1>2, <3>2, <3>3, <3>5
    <2>2. Time(i) \in Nat /\ Known(i) \in Nat /\ BucketStart(Time(i)) \in Nat
      BY TicksFacts, Divides
    <2>. QED
      BY <2>1, <2>2
  <1>5. b.start <= BucketStart(Time(i)) /\ b.start <= Time(i) /\ BucketStart(Time(i)) <= Time(i)
        /\ Time(i) < BucketStart(Time(i)) + Width
    <2>1. Time(last) \in Nat /\ Time(last) <= Time(i) /\ Time(i) \in Nat
      BY <1>2, <1>4
    <2>2. BucketStart(Time(last)) <= BucketStart(Time(i))
          /\ BucketStart(Time(i)) <= Time(i) /\ Time(i) < BucketStart(Time(i)) + Width
      BY <2>1, BucketsApart, Divides
    <2>. QED
      BY <1>2, <1>3, <1>4, <2>2
  <1>6. ~SteppedBack(b, i)
    BY <1>3, <1>4, <1>5 DEF SteppedBack
  <1>7. \A j \in U \ {i} : Earlier(j, i)
    OBVIOUS
  <1>8. /\ OpenBucket(i) \in Candle /\ ToBar(b, i) \in Candle /\ Folded(b, i) \in Candle
        /\ OpenBucket(i).start = BucketStart(Time(i)) /\ OpenBucket(i).members = {i}
        /\ OpenBucket(i).open = i /\ OpenBucket(i).close = i /\ OpenBucket(i).known = Known(i)
        /\ ToBar(b, i).start = b.start /\ ToBar(b, i).members = b.members
        /\ ToBar(b, i).open = b.open /\ ToBar(b, i).close = b.close
        /\ ToBar(b, i).known >= b.known /\ ToBar(b, i).known >= Known(i)
        /\ Folded(b, i).start = b.start /\ Folded(b, i).members = b.members \cup {i}
        /\ Folded(b, i).close = (IF Time(i) >= Time(b.close) THEN i ELSE b.close)
        /\ Folded(b, i).open = (IF Time(i) < Time(b.open) THEN i ELSE b.open)
        /\ Folded(b, i).known >= b.known /\ Folded(b, i).known >= Known(i)
    BY <1>1, FoldedIs
  <1>9. CASE Ends(b, i)
    <2>1. Time(i) >= b.start + Width
      BY <1>6, <1>9 DEF Ends
    <2>2. b.start < BucketStart(Time(i))
      BY <1>3, <1>4, <1>5, <2>1, BarAssumption
    <2>3. g = [bucket |-> OpenBucket(i), published |-> Append(p, ToBar(b, i))]
      BY <1>1, <1>3, <1>9, OnTickIs
    <2> DEFINE c == ToBar(b, i)
               o == OpenBucket(i)
               q == Append(p, c)
    <2>4. WholeIn(o, U)
      <3>1. {j \in U : BucketStart(Time(j)) = o.start} = {i}
        BY <1>3, <1>4, <1>8, <2>2
      <3>. QED
        BY <1>4, <1>8, <3>1 DEF WholeIn
    <2>5. WholeIn(c, T)
      <3>1. c.known \in Nat
        BY <1>8, CandleFacts
      <3>2. \A j \in b.members : j \in T /\ Known(j) <= b.known
        BY <1>1 DEF WholeIn
      <3>3. \A j \in c.members : Known(j) <= c.known
        BY <1>3, <1>4, <1>8, <3>1, <3>2
      <3>. QED
        BY <1>1, <1>8, <3>3 DEF WholeIn
    <2>6. WholeIn(c, U) /\ c.start < o.start
      BY <1>3, <1>8, <2>2, <2>5, WholeKept
    <2>7. KnowableIn(c, U)
      <3>1. i \in U /\ Time(i) >= c.start + Width /\ Known(i) <= c.known
        <4>1. c.known \in Nat
          BY <1>8, CandleFacts
        <4>. QED
          BY <1>4, <1>8, <2>1, <4>1
      <3>. QED
        BY <3>1 DEF KnowableIn
    <2>8. ASSUME NEW k \in DOMAIN p
          PROVE  WholeIn(p[k], U) /\ KnowableIn(p[k], U) /\ p[k].start < o.start
      <3>1. WholeIn(p[k], T) /\ KnowableIn(p[k], T) /\ p[k].start < b.start
        BY DEF FoldedTo
      <3>2. p[k].start \in Nat
        BY <3>1, CandleFacts DEF WholeIn
      <3>3. p[k].start < o.start /\ p[k].start # BucketStart(Time(i))
        BY <1>3, <1>4, <1>8, <2>2, <3>1, <3>2
      <3>. QED
        BY <3>1, <3>3, WholeKept
    <2>9. q \in Seq(Candle) /\ DOMAIN q = 1 .. Len(p) + 1 /\ DOMAIN p = 1 .. Len(p)
          /\ Len(p) \in Nat /\ q[Len(p) + 1] = c /\ \A k \in 1 .. Len(p) : q[k] = p[k]
      BY <1>1, <1>8
    <2> HIDE DEF q, c, o, p, U, b
    <2>10. \A k \in DOMAIN q : WholeIn(q[k], U) /\ KnowableIn(q[k], U) /\ q[k].start < o.start
      <3>1. \A k \in DOMAIN q : k \in 1 .. Len(p) \/ k = Len(p) + 1
        BY <2>9
      <3>. QED
        BY <2>6, <2>7, <2>8, <2>9, <3>1
    <2>11. g.bucket = o /\ g.published = q
      BY <2>3 DEF q, c, o
    <2> HIDE DEF g
    <2>12. o \in Candle /\ o.close = i
      BY <1>8 DEF o
    <2>. QED
      BY <1>7, <2>4, <2>9, <2>10, <2>11, <2>12 DEF FoldedTo, g, U
  <1>10. CASE ~Ends(b, i)
    <2>1. Time(i) < b.start + Width
      BY <1>3, <1>4, <1>10, BarAssumption DEF Ends
    <2>2. BucketStart(Time(i)) = b.start
      <3>1. b.start < BucketStart(Time(i)) => b.start + Width <= BucketStart(Time(i))
        <4>1. Time(last) \in Nat
          BY <1>2, <1>4
        <4>. QED
          BY <1>2, <1>4, <4>1, BucketsApart
      <3>. QED
        BY <1>3, <1>4, <1>5, <2>1, <3>1, BarAssumption
    <2>3. g = [bucket |-> Folded(b, i), published |-> p]
      BY <1>1, <1>3, <1>10, <2>2, OnTickIs DEF Joins
    <2> DEFINE c == Folded(b, i)
    <2>4. b.open \in T /\ b.close \in T
      BY <1>1 DEF WholeIn
    <2>5. c.close = i /\ c.open = b.open
      BY <1>4, <1>8, <2>4
    <2>6. c.members = {j \in U : BucketStart(Time(j)) = c.start}
      BY <1>1, <1>8, <2>2 DEF WholeIn
    <2>7. WholeIn(c, U)
      <3>1. c.known \in Nat
        BY <1>8, CandleFacts
      <3>2. \A j \in b.members : j \in T /\ Known(j) <= b.known
        BY <1>1 DEF WholeIn
      <3>3. \A j \in c.members : Known(j) <= c.known
        BY <1>3, <1>4, <1>8, <3>1, <3>2
      <3>4. c.open \in c.members /\ c.close \in c.members
        BY <1>1, <1>8, <2>5 DEF WholeIn
      <3>5. \A j \in c.members \ {c.open} : Earlier(c.open, j)
        <4>1. \A j \in b.members \ {b.open} : Earlier(b.open, j)
          BY <1>1 DEF WholeIn
        <4>. QED
          BY <1>8, <2>4, <2>5, <4>1
      <3>6. \A j \in c.members \ {c.close} : Earlier(j, c.close)
        BY <1>8, <2>5, <3>2
      <3>. QED
        BY <1>8, <2>6, <3>3, <3>4, <3>5, <3>6 DEF WholeIn
    <2>8. ASSUME NEW k \in DOMAIN p
          PROVE  WholeIn(p[k], U) /\ KnowableIn(p[k], U) /\ p[k].start < c.start
      <3>1. WholeIn(p[k], T) /\ KnowableIn(p[k], T) /\ p[k].start < b.start
        BY DEF FoldedTo
      <3>2. p[k].start \in Nat
        BY <3>1, CandleFacts DEF WholeIn
      <3>3. p[k].start < c.start /\ p[k].start # BucketStart(Time(i))
        BY <1>3, <1>8, <2>2, <3>1, <3>2
      <3>. QED
        BY <3>1, <3>3, WholeKept
    <2>9. c \in Candle
      BY <1>8
    <2> HIDE DEF c, p, U, b
    <2>10. g.bucket = c /\ g.published = p
      BY <2>3 DEF c
    <2> HIDE DEF g
    <2>. QED
      BY <1>1, <1>7, <2>5, <2>7, <2>8, <2>9, <2>10 DEF FoldedTo, g, U
  <1>. QED
    BY <1>9, <1>10


\* What a fold in the broker's order publishes is whole.
LEMMA BuildWhole ==
  ASSUME TicksTyped, NEW S \in SUBSET Committed
  PROVE  LET p == Build(InOrder(S)).published
         IN  /\ p \in Seq(Candle)
             /\ \A k \in DOMAIN p : WholeIn(p[k], S) /\ KnowableIn(p[k], S)
  <1> DEFINE s == InOrder(S)
             n == Len(s)
             upto(k) == {s[j] : j \in 1 .. k}
  <1>1. InRankOrder(s, ByTime(S), S)
    BY ReadsInOrder
  <1> HIDE DEF s
  <1>2. /\ s \in Seq(S) /\ n \in Nat /\ DOMAIN s = 1 .. n
        /\ (\A k \in 1 .. n : s[k] \in S)
        /\ (\A x \in S : \E k \in 1 .. n : s[k] = x)
        /\ \A i, j \in 1 .. n : i < j => <<s[i], s[j]>> \in ByTime(S)
    BY <1>1 DEF InRankOrder
  <1>3. \A i, j \in 1 .. n : i < j => Earlier(s[i], s[j])
    BY <1>2 DEF ByTime
  <1>4. s \in Seq(Committed)
    <2>1. \A k \in 1 .. n : s[k] \in Committed
      BY <1>2
    <2>. QED
      BY <1>2, <2>1
  <1>5. PICK run : BuildsUp(run, s)
    BY <1>4, BuildRun
  <1> HIDE DEF n
  <1>6. /\ run \in [0 .. n -> Builders] /\ run[0] = NewBuilder /\ run[n] = Build(s)
        /\ \A k \in 1 .. n : run[k] = OnTick(run[k - 1], s[k])
    BY <1>5 DEF BuildsUp, n
  <1> DEFINE Q == {k \in 0 .. n : k > 0 => FoldedTo(run[k], upto(k), s[k])}
  <1>7. ASSUME NEW k \in 0 .. n, k \in Q, k < n
        PROVE  k + 1 \in Q
    <2>1. k + 1 \in 1 .. n /\ (k + 1) - 1 = k
      BY <1>2, <1>7
    <2>2. run[k + 1] = OnTick(run[k], s[k + 1]) /\ s[k + 1] \in Committed
      BY <1>2, <1>6, <2>1
    <2>3. upto(k + 1) = upto(k) \cup {s[k + 1]}
      <3>1. 1 .. k + 1 = (1 .. k) \cup {k + 1}
        BY <1>2
      <3>. QED
        BY <3>1
    <2>4. FoldedTo(run[k + 1], upto(k + 1), s[k + 1])
      <3>1. CASE k = 0
        <4>1. upto(0) = {}
          OBVIOUS
        <4>2. upto(k + 1) = {s[k + 1]} /\ run[k] = NewBuilder
          BY <1>6, <2>3, <3>1, <4>1
        <4>. QED
          BY <2>2, <4>2, FoldStart
      <3>2. CASE k # 0
        <4>1. k > 0 /\ k \in 1 .. n
          BY <1>2, <3>2
        <4>2. FoldedTo(run[k], upto(k), s[k])
          BY <1>7, <4>1
        <4>3. upto(k) \in SUBSET Committed /\ run[k] \in Builders
          <5>1. \A j \in 1 .. k : s[j] \in Committed
            BY <1>2, <4>1
          <5>. QED
            BY <1>6, <5>1
        <4>4. \A j \in upto(k) : Earlier(j, s[k + 1])
          <5>1. \A j \in 1 .. k : j \in 1 .. n /\ j < k + 1
            BY <1>2, <4>1
          <5>. QED
            BY <1>3, <2>1, <5>1
        <4>5. s[k + 1] \notin upto(k)
          <5>1. Time(s[k + 1]) \in Nat /\ s[k + 1] \in Nat
            BY <2>2, TicksFacts
          <5>2. ~Earlier(s[k + 1], s[k + 1])
            BY <5>1 DEF Earlier
          <5>. QED
            BY <4>4, <5>2
        <4> HIDE DEF upto, Q
        <4>. QED
          BY <2>2, <2>3, <4>2, <4>3, <4>4, <4>5, FoldStep
      <3>. QED
        BY <3>1, <3>2
    <2> HIDE DEF upto
    <2>. QED
      BY <1>2, <2>1, <2>4
  <1>8. 0 .. n \subseteq Q
    <2>1. 0 \in Q
      BY <1>2
    <2> HIDE DEF Q
    <2>. QED
      BY <1>2, <1>7, <2>1, InductionTo
  <1>9. CASE n = 0
    <2>1. Build(s).published = <<>>
      BY <1>6, <1>9 DEF NewBuilder
    <2>. QED
      BY <2>1 DEF s
  <1>10. CASE n # 0
    <2>1. n \in 0 .. n /\ n > 0
      BY <1>2, <1>10
    <2>2. FoldedTo(run[n], upto(n), s[n])
      <3>1. n \in Q
        BY <1>8, <2>1
      <3>. QED
        BY <2>1, <3>1
    <2>3. upto(n) = S
      BY <1>2
    <2> HIDE DEF upto, Q
    <2>4. FoldedTo(Build(s), S, s[n])
      BY <1>6, <2>2, <2>3
    <2>. QED
      BY <2>4 DEF FoldedTo, s
  <1>. QED
    BY <1>9, <1>10

-----------------------------------------------------------------------------
(* Quotes in the order we received them *)

\* The builder after the quotes T: none is in two candles, one that is in none
\* came less than StepBack behind another.
Lagging(i, T) ==
  \E j \in T : DeliveredBefore(j, i) /\ Time(j) \in Time(i) + 1 .. Time(i) + StepBack - 1
PlacedIn(f, T) ==
  /\ f \in Builders
  /\ f.bucket = NoBucket => T = {} /\ f.published = <<>>
  /\ f.bucket # NoBucket =>
       /\ f.bucket.members \in SUBSET T /\ f.bucket.close \in T
       /\ BucketStart(Time(f.bucket.close)) = f.bucket.start
       /\ \A k \in DOMAIN f.published : f.published[k].members \cap f.bucket.members = {}
  /\ \A k \in DOMAIN f.published : f.published[k].members \in SUBSET T
  /\ \A k, m \in DOMAIN f.published :
       k # m => f.published[k].members \cap f.published[m].members = {}
  /\ \A i \in T : \/ f.bucket # NoBucket /\ i \in f.bucket.members
                  \/ \E k \in DOMAIN f.published : i \in f.published[k].members
                  \/ Lagging(i, T)

LEMMA LaggingKept == \A i, j, T : Lagging(i, T) => Lagging(i, T \cup {j})
  BY DEF Lagging

\* A quote is folded into one candle, or dropped behind the close of the open one.
LEMMA PlaceStep ==
  ASSUME TicksTyped, NEW T \in SUBSET Committed, NEW f, PlacedIn(f, T),
         NEW i \in Committed \ T, \A j \in T : DeliveredBefore(j, i)
  PROVE  PlacedIn(OnTick(f, i), T \cup {i})
  <1> DEFINE U == T \cup {i}
             g == OnTick(f, i)
             p == f.published
             b == f.bucket
             o == OpenBucket(i)
  <1>1. /\ f \in Builders /\ p \in Seq(Candle) /\ f = [bucket |-> b, published |-> p]
        /\ b \in Candle \cup {NoBucket} /\ Len(p) \in Nat /\ DOMAIN p = 1 .. Len(p)
    BY DEF PlacedIn, Builders
  <1>2. g \in Builders
    BY <1>1, OnTickType
  <1>3. /\ Time(i) \in Nat /\ Known(i) \in Nat /\ BucketStart(Time(i)) \in Nat
        /\ BucketStart(Time(i)) <= Time(i) /\ Time(i) < BucketStart(Time(i)) + Width
        /\ \A j \in T : Time(j) \in Nat /\ BucketStart(Time(j)) <= Time(j)
                        /\ BucketStart(Time(j)) \in Nat
    BY TicksFacts, Divides
  <1>4. /\ o.start = BucketStart(Time(i)) /\ o.members = {i} /\ o.close = i /\ o # NoBucket
    <2>1. o.start = BucketStart(Time(i)) /\ o.members = {i} /\ o.close = i
      BY DEF OpenBucket
    <2>2. NoBucket.start = -1
      BY DEF NoBucket
    <2> HIDE DEF o
    <2>. QED
      BY <1>3, <2>1, <2>2
  <1>5. \A j \in T : Lagging(j, T) => Lagging(j, U)
    BY LaggingKept
  <1>6. CASE b = NoBucket
    <2>1. g = [bucket |-> o, published |-> p] /\ T = {} /\ p = <<>>
      <3>1. g = [f EXCEPT !.bucket = o]
        BY <1>6, OnTickIs
      <3>2. T = {} /\ p = <<>>
        BY <1>6 DEF PlacedIn
      <3> HIDE DEF g, p, b, o
      <3>. QED
        BY <1>1, <3>1, <3>2
    <2>2. g.bucket = o /\ g.published = <<>> /\ U = {i}
      BY <2>1
    <2> HIDE DEF g, o, U
    <2>. QED
      BY <1>2, <1>4, <2>2 DEF PlacedIn, g, U
  <1>7. CASE b # NoBucket
    <2>1. b \in Candle
      BY <1>1, <1>7
    <2>2. /\ b.start \in Nat /\ b.members \in SUBSET T /\ b.close \in T
          /\ BucketStart(Time(b.close)) = b.start
          /\ \A k \in DOMAIN p : p[k].members \cap b.members = {} /\ p[k].members \in SUBSET T
      BY <1>7, <2>1, CandleFacts DEF PlacedIn
    <2>3. /\ \A k, m \in DOMAIN p : k # m => p[k].members \cap p[m].members = {}
          /\ \A j \in T : j \in b.members \/ (\E k \in DOMAIN p : j \in p[k].members)
                          \/ Lagging(j, T)
      BY DEF PlacedIn
    <2>4. /\ ToBar(b, i).members = b.members
          /\ Folded(b, i).start = b.start /\ Folded(b, i).members = b.members \cup {i}
          /\ Folded(b, i).close = (IF Time(i) >= Time(b.close) THEN i ELSE b.close)
          /\ Folded(b, i) # NoBucket
      <3>1. Folded(b, i) \in Candle
        BY <2>1, FoldedIs
      <3>2. Folded(b, i) # NoBucket
        BY <3>1, CandleFacts
      <3>. QED
        BY <2>1, <3>2, FoldedIs
    <2>5. CASE Ends(b, i)
      <3> DEFINE q == Append(p, ToBar(b, i))
      <3>1. g = [bucket |-> o, published |-> q]
        BY <1>1, <1>7, <2>5, OnTickIs
      <3>2. /\ DOMAIN q = 1 .. Len(p) + 1
            /\ \A k \in DOMAIN q : /\ k \in DOMAIN p \/ k = Len(p) + 1
                                   /\ k \in DOMAIN p => q[k] = p[k]
                                   /\ k = Len(p) + 1 => q[k] = ToBar(b, i)
            /\ DOMAIN p \in SUBSET DOMAIN q /\ Len(p) + 1 \in DOMAIN q /\ Len(p) + 1 \notin DOMAIN p
        BY <1>1
      <3>3. g.bucket = o /\ g.published = q
        BY <3>1
      <3> HIDE DEF q, g
      <3>4. \A k \in DOMAIN q : q[k].members \in SUBSET T
        BY <2>2, <2>4, <3>2
      <3>5. \A k \in DOMAIN q : q[k].members \cap o.members = {}
        BY <1>4, <3>4
      <3>6. \A k, m \in DOMAIN q : k # m => q[k].members \cap q[m].members = {}
        BY <2>2, <2>3, <2>4, <3>2
      <3>7. \A j \in T : (\E k \in DOMAIN q : j \in q[k].members) \/ Lagging(j, U)
        BY <1>5, <2>3, <2>4, <3>2
      <3> HIDE DEF o, p, b
      <3>. QED
        BY <1>2, <1>4, <3>3, <3>4, <3>5, <3>6, <3>7 DEF PlacedIn, g, U
    <2>6. CASE Joins(b, i)
      <3> DEFINE c == Folded(b, i)
      <3>1. g = [bucket |-> c, published |-> p]
        <4>1. g = [f EXCEPT !.bucket = c]
          BY <1>1, <1>7, <2>6, OnTickIs
        <4> HIDE DEF g, p, b, c
        <4>. QED
          BY <1>1, <4>1
      <3>2. g.bucket = c /\ g.published = p
        BY <3>1
      <3>3. c.close \in U /\ BucketStart(Time(c.close)) = c.start
        BY <2>2, <2>4, <2>6 DEF Joins
      <3>4. \A k \in DOMAIN p : p[k].members \cap c.members = {}
        BY <2>2, <2>4
      <3>5. \A j \in U : j \in c.members \/ (\E k \in DOMAIN p : j \in p[k].members)
                         \/ Lagging(j, U)
        BY <1>5, <2>3, <2>4
      <3>6. c # NoBucket /\ c.members \in SUBSET U /\ \A k \in DOMAIN p : p[k].members \in SUBSET U
        BY <2>2, <2>4
      <3> HIDE DEF g, p, b, c, o, U
      <3>. QED
        BY <1>2, <2>3, <3>2, <3>3, <3>4, <3>5, <3>6 DEF PlacedIn, g, U
    <2>7. CASE ~Ends(b, i) /\ ~Joins(b, i)
      <3>1. g = f
        BY <1>1, <1>7, <2>7, OnTickIs
      <3>2. Lagging(i, U)
        <4>1. Time(b.close) \in Nat /\ b.start <= Time(b.close) /\ StepBack \in Nat /\ Width \in Nat
          BY <1>3, <2>2, BarAssumption
        <4>2. Time(i) < b.start + Width /\ BucketStart(Time(i)) # b.start
          BY <1>3, <2>2, <2>7, <4>1 DEF Ends, Joins
        <4>3. BucketStart(Time(i)) < b.start
          <5>1. Time(b.close) \in Nat
            BY <4>1
          <5>2. b.start < BucketStart(Time(i)) => b.start + Width <= BucketStart(Time(i))
            BY <1>3, <2>2, <5>1, BucketsApart
          <5>. QED
            BY <1>3, <2>2, <4>1, <4>2, <5>2
        <4>4. Time(i) < b.start
          <5>1. OnGrid(b.start)
            BY <2>1, CandleFacts
          <5>2. b.start <= Time(i) => b.start <= BucketStart(Time(i))
            BY <1>3, <2>2, <5>1, BucketsApart
          <5>. QED
            BY <1>3, <2>2, <4>3, <5>2
        <4>5. ~(Time(i) <= Time(b.close) - StepBack)
          BY <2>7, <4>3 DEF Ends, SteppedBack
        <4>6. Time(b.close) \in Time(i) + 1 .. Time(i) + StepBack - 1
          BY <1>3, <2>2, <4>1, <4>4, <4>5
        <4>. QED
          BY <2>2, <4>6 DEF Lagging
      <3>3. \A j \in U : j \in b.members \/ (\E k \in DOMAIN p : j \in p[k].members)
                         \/ Lagging(j, U)
        BY <1>5, <2>3, <3>2
      <3>4. b.members \in SUBSET U /\ b.close \in U /\ \A k \in DOMAIN p : p[k].members \in SUBSET U
        BY <2>2
      <3>5. b # NoBucket /\ f.bucket = b /\ f.published = p
        BY <1>7
      <3> HIDE DEF g, p, b, o, U
      <3>6. PlacedIn(f, U)
        BY <1>1, <2>2, <2>3, <3>3, <3>4, <3>5 DEF PlacedIn
      <3>. QED
        BY <3>1, <3>6 DEF g, U
    <2>. QED
      BY <2>5, <2>6, <2>7
  <1>. QED
    BY <1>6, <1>7

\* So a fold in the order of reception places its quotes.
LEMMA BuildPlaces ==
  ASSUME TicksTyped, NEW S \in SUBSET Committed
  PROVE  PlacedIn(Build(Arranged(S, ByReception(S))), S)
  <1> DEFINE s == Arranged(S, ByReception(S))
             n == Len(s)
             upto(k) == {s[j] : j \in 1 .. k}
  <1>1. InRankOrder(s, ByReception(S), S)
    BY ReadsInOrder
  <1> HIDE DEF s
  <1>2. /\ s \in Seq(S) /\ n \in Nat /\ DOMAIN s = 1 .. n
        /\ (\A k \in 1 .. n : s[k] \in S)
        /\ (\A x \in S : \E k \in 1 .. n : s[k] = x)
        /\ \A i, j \in 1 .. n : i < j => <<s[i], s[j]>> \in ByReception(S)
    BY <1>1 DEF InRankOrder
  <1>3. \A i, j \in 1 .. n : i < j => DeliveredBefore(s[i], s[j])
    BY <1>2 DEF ByReception
  <1>4. s \in Seq(Committed)
    <2>1. \A k \in 1 .. n : s[k] \in Committed
      BY <1>2
    <2>. QED
      BY <1>2, <2>1
  <1>5. PICK run : BuildsUp(run, s)
    BY <1>4, BuildRun
  <1> HIDE DEF n
  <1>6. /\ run \in [0 .. n -> Builders] /\ run[0] = NewBuilder /\ run[n] = Build(s)
        /\ \A k \in 1 .. n : run[k] = OnTick(run[k - 1], s[k])
    BY <1>5 DEF BuildsUp, n
  <1> DEFINE Q == {k \in 0 .. n : PlacedIn(run[k], upto(k))}
  <1>7. ASSUME NEW k \in 0 .. n, k \in Q, k < n
        PROVE  k + 1 \in Q
    <2>1. k + 1 \in 1 .. n /\ (k + 1) - 1 = k
      BY <1>2, <1>7
    <2>2. run[k + 1] = OnTick(run[k], s[k + 1]) /\ s[k + 1] \in Committed
      BY <1>2, <1>6, <2>1
    <2>3. upto(k + 1) = upto(k) \cup {s[k + 1]}
      <3>1. 1 .. k + 1 = (1 .. k) \cup {k + 1}
        BY <1>2
      <3>. QED
        BY <3>1
    <2>4. PlacedIn(run[k], upto(k))
      BY <1>7
    <2>5. upto(k) \in SUBSET Committed
      <3>1. \A j \in 1 .. k : s[j] \in Committed
        BY <1>2
      <3>. QED
        BY <3>1
    <2>6. \A j \in upto(k) : DeliveredBefore(j, s[k + 1])
      <3>1. \A j \in 1 .. k : j \in 1 .. n /\ j < k + 1
        BY <1>2
      <3>. QED
        BY <1>3, <2>1, <3>1
    <2>7. s[k + 1] \notin upto(k)
      <3>1. Known(s[k + 1]) \in Nat /\ s[k + 1] \in Nat
        BY <2>2, TicksFacts
      <3>2. ~DeliveredBefore(s[k + 1], s[k + 1])
        BY <3>1 DEF DeliveredBefore
      <3>. QED
        BY <2>6, <3>2
    <2> HIDE DEF upto
    <2>8. PlacedIn(run[k + 1], upto(k + 1))
      BY <2>2, <2>3, <2>4, <2>5, <2>6, <2>7, PlaceStep
    <2>. QED
      BY <1>2, <2>1, <2>8
  <1>8. 0 \in Q
    <2>1. upto(0) = {}
      OBVIOUS
    <2>2. NewBuilder.bucket = NoBucket /\ NewBuilder.published = <<>> /\ NewBuilder \in Builders
      BY DEF NewBuilder, Builders
    <2> HIDE DEF upto
    <2>3. PlacedIn(NewBuilder, {})
      BY <2>2 DEF PlacedIn
    <2>4. 0 \in 0 .. n
      BY <1>2
    <2>5. PlacedIn(run[0], upto(0))
      BY <1>6, <2>1, <2>3, Zenon
    <2>. QED
      BY <2>4, <2>5
  <1>9. n \in Q
    <2> HIDE DEF Q
    <2>1. 0 .. n \subseteq Q
      BY <1>2, <1>7, <1>8, InductionTo
    <2>. QED
      BY <1>2, <2>1
  <1>10. upto(n) = S
    BY <1>2
  <1> HIDE DEF upto
  <1>. QED
    BY <1>6, <1>9, <1>10 DEF s

\* A set without two elements.
LEMMA AtMostOne ==
  ASSUME NEW S, \A x, y \in S : x = y
  PROVE  Cardinality(S) <= 1
  <1>1. CASE S = {}
    BY <1>1, FS_EmptySet
  <1>2. CASE S # {}
    <2>1. PICK x : S = {x}
      BY <1>2
    <2>. QED
      BY <2>1, FS_Singleton
  <1>. QED
    BY <1>1, <1>2

\* The builder of a replay places the quotes, whatever they are.
LEMMA FeedPlaced ==
  ASSUME TicksTyped
  PROVE  QuotesPlaced
  <1> DEFINE f == Build(Arranged(Committed, ByReception(Committed)))
             p == f.published
             candles == IF f.bucket = NoBucket THEN p ELSE Append(p, f.bucket)
             Holding(i) == {k \in DOMAIN candles : i \in candles[k].members}
  <1>1. PlacedIn(f, Committed)
    BY BuildPlaces
  <1> HIDE DEF f
  <1>2. /\ p \in Seq(Candle) /\ Len(p) \in Nat /\ DOMAIN p = 1 .. Len(p)
        /\ \A k, m \in DOMAIN p : k # m => p[k].members \cap p[m].members = {}
    BY <1>1 DEF PlacedIn, Builders
  <1>3. /\ \A k, m \in DOMAIN candles : k # m => candles[k].members \cap candles[m].members = {}
        /\ \A i \in Committed : (\E k \in DOMAIN candles : i \in candles[k].members)
                                \/ Lagging(i, Committed)
    <2>1. CASE f.bucket = NoBucket
      <3>1. candles = p
        BY <2>1
      <3>2. \A i \in Committed : (\E k \in DOMAIN p : i \in p[k].members) \/ Lagging(i, Committed)
        BY <1>1, <2>1 DEF PlacedIn
      <3> HIDE DEF candles, p
      <3>. QED
        BY <1>2, <3>1, <3>2
    <2>2. CASE f.bucket # NoBucket
      <3>1. candles = Append(p, f.bucket)
        BY <2>2
      <3>2. /\ \A k \in DOMAIN p : p[k].members \cap f.bucket.members = {}
            /\ \A i \in Committed : i \in f.bucket.members
                  \/ (\E k \in DOMAIN p : i \in p[k].members) \/ Lagging(i, Committed)
        BY <1>1, <2>2 DEF PlacedIn
      <3> HIDE DEF candles, p
      <3>3. /\ \A k \in DOMAIN candles : k \in DOMAIN p \/ k = Len(p) + 1
            /\ \A k \in DOMAIN p : k \in DOMAIN candles /\ candles[k] = p[k]
            /\ Len(p) + 1 \in DOMAIN candles /\ candles[Len(p) + 1] = f.bucket
            /\ Len(p) + 1 \notin DOMAIN p
        BY <1>2, <3>1
      <3>4. \A k, m \in DOMAIN candles : k # m => candles[k].members \cap candles[m].members = {}
        BY <1>2, <3>2, <3>3
      <3>5. \A i \in Committed : (\E k \in DOMAIN candles : i \in candles[k].members)
                                 \/ Lagging(i, Committed)
        BY <3>2, <3>3
      <3>. QED
        BY <3>4, <3>5
    <2>. QED
      BY <2>1, <2>2
  <1> HIDE DEF candles
  <1>4. \A i \in Committed :
          /\ Cardinality(Holding(i)) <= 1
          /\ Holding(i) = {} =>
               \E j \in Committed : /\ DeliveredBefore(j, i)
                                    /\ Time(j) \in Time(i) + 1 .. Time(i) + StepBack - 1
    <2>1. ASSUME NEW i \in Committed
          PROVE  Cardinality(Holding(i)) <= 1
      <3>1. \A k, m \in Holding(i) : k = m
        BY <1>3
      <3> HIDE DEF Holding
      <3>. QED
        BY <3>1, AtMostOne
    <2>2. ASSUME NEW i \in Committed, Holding(i) = {}
          PROVE  Lagging(i, Committed)
      BY <1>3, <2>2
    <2> HIDE DEF Holding
    <2>. QED
      BY <2>1, <2>2 DEF Lagging
  <1>. QED
    BY <1>4, Zenon DEF QuotesPlaced, f, p, candles, Holding, ByReception, DeliveredBefore

-----------------------------------------------------------------------------
(* The stored series *)

\* A row tells what its reader could see: its bucket's quotes, one past its end, and
\* one that shows the series reaching back to the start.
HonestRow(r) ==
  /\ r.seen \in SUBSET Committed
  /\ WholeIn(r.candle, r.seen) /\ KnowableIn(r.candle, r.seen)
  /\ \E i \in r.seen : Time(i) <= r.candle.start

\* A bucket a read may start with, of which nothing is missing.
Reached(from, now) == OnGrid(from) /\ \E i \in Committed : Known(i) <= now /\ Time(i) <= from

\* What is stored: quotes already received, and honest rows in their places.
SeriesInv ==
  /\ TicksTyped /\ clock \in 0 .. MaxClock
  /\ \A i \in Committed : Known(i) <= clock
  /\ bars \in [Start -> BarRow \cup {NoBar}]
  /\ \A s \in Start : bars[s] # NoBar => HonestRow(bars[s]) /\ bars[s].candle.start = s

\* A pass looks from a bucket the series reaches back to, and writes honest rows.
PassInv(l) ==
  /\ l = [pc |-> l.pc, now |-> l.now, from |-> l.from, out |-> l.out]
  /\ l.pc \in {"idle", "cold", "pending", "closed", "window", "write"}
  /\ l.now \in 0 .. MaxClock /\ l.now <= clock /\ l.from \in 0 .. MaxTime + Width
  /\ l.pc = "write" => l.out \in Seq(BarRow) /\ \A k \in DOMAIN l.out : HonestRow(l.out[k])
  /\ l.pc \in {"pending", "closed", "window"} => Reached(l.from, l.now)

\* So does a backfill.
RunInv(b) ==
  /\ b = [pc |-> b.pc, from |-> b.from, out |-> b.out]
  /\ b.pc \in {"idle", "stream", "write"} /\ b.from \in 0 .. MaxTime + Width
  /\ b.out \in Seq(BarRow) /\ \A k \in DOMAIN b.out : HonestRow(b.out[k])
  /\ b.pc = "stream" => Reached(b.from, clock)

BarInv == SeriesInv /\ PassInv(live) /\ RunInv(backfill)

LEMMA BoundsTyped ==
  /\ MaxClock \in Nat /\ MaxTime \in Nat /\ Width \in Nat /\ Width >= 1
  /\ StepBack \in Nat /\ Batch \in Nat /\ Batch >= 1 /\ MaxTicks \in Nat
  BY BarAssumption

\* Nobody at work breaks nothing.
LEMMA IdleIs ==
  ASSUME clock \in 0 .. MaxClock
  PROVE  PassInv(IdleLive) /\ RunInv(IdleBackfill)
  <1>1. PassInv(IdleLive)
    <2>1. /\ IdleLive.pc = "idle" /\ IdleLive.now = 0 /\ IdleLive.from = 0
          /\ IdleLive = [pc |-> IdleLive.pc, now |-> IdleLive.now, from |-> IdleLive.from,
                         out |-> IdleLive.out]
      BY DEF IdleLive
    <2>. QED
      BY <2>1, BoundsTyped DEF PassInv
  <1>2. RunInv(IdleBackfill)
    <2>1. /\ IdleBackfill.pc = "idle" /\ IdleBackfill.from = 0 /\ IdleBackfill.out = <<>>
          /\ IdleBackfill = [pc |-> IdleBackfill.pc, from |-> IdleBackfill.from,
                             out |-> IdleBackfill.out]
      BY DEF IdleBackfill
    <2>. QED
      BY <2>1, BoundsTyped DEF RunInv
  <1>. QED
    BY <1>1, <1>2

LEMMA BarInit ==
  ASSUME Init
  PROVE  BarInv
  <1>1. TicksTyped /\ Committed = {} /\ clock = 0
    BY BoundsTyped DEF Init, TicksTyped, Committed
  <1>2. bars \in [Start -> BarRow \cup {NoBar}] /\ \A s \in Start : bars[s] = NoBar
    BY DEF Init
  <1>3. SeriesInv
    BY <1>1, <1>2, BoundsTyped DEF SeriesInv
  <1>4. live = IdleLive /\ backfill = IdleBackfill
    BY DEF Init
  <1>. QED
    BY <1>1, <1>3, <1>4, IdleIs, BoundsTyped DEF BarInv

\* The first quote of some is one of them.
LEMMA FirstIs ==
  ASSUME TicksTyped, NEW S \in SUBSET Committed, S # {}
  PROVE  First(S) \in S
  <1> DEFINE s == InOrder(S)
  <1>1. InRankOrder(s, ByTime(S), S)
    BY ReadsInOrder
  <1> HIDE DEF s
  <1>2. /\ Len(s) \in Nat /\ (\A k \in 1 .. Len(s) : s[k] \in S)
        /\ (\A x \in S : \E k \in 1 .. Len(s) : s[k] = x)
        /\ \A i, j \in 1 .. Len(s) : i < j => Earlier(s[i], s[j])
    <2>1. /\ s \in Seq(S)
          /\ (\A x \in S : \E k \in 1 .. Len(s) : s[k] = x)
          /\ \A i, j \in 1 .. Len(s) : i < j => <<s[i], s[j]>> \in ByTime(S)
      BY <1>1 DEF InRankOrder
    <2>2. \A p \in ByTime(S) : Earlier(p[1], p[2])
      BY DEF ByTime
    <2>3. \A i, j \in 1 .. Len(s) : i < j => Earlier(s[i], s[j])
      BY <2>1, <2>2
    <2>. QED
      BY <2>1, <2>3
  <1>3. 1 \in 1 .. Len(s)
    BY <1>2
  <1>4. \A j \in S \ {s[1]} : Earlier(s[1], j)
    <2>1. ASSUME NEW j \in S, j # s[1]
          PROVE  Earlier(s[1], j)
      <3>1. PICK k \in 1 .. Len(s) : s[k] = j
        BY <1>2
      <3>2. 1 < k
        BY <1>2, <2>1, <3>1
      <3>. QED
        BY <1>2, <1>3, <3>1, <3>2
    <2>. QED
      BY <2>1
  <1>5. \E i \in S : \A j \in S \ {i} : Earlier(i, j)
    BY <1>2, <1>3, <1>4
  <1>. QED
    BY <1>5, Zenon DEF First

\* The first full bucket starts at the quote or after it, at most Width past the clock.
LEMMA FullBucket ==
  ASSUME NEW t \in BrokerTime
  PROVE  /\ OnGrid(FirstFullBucket(t)) /\ t <= FirstFullBucket(t)
         /\ FirstFullBucket(t) \in 0 .. MaxTime + Width
  <1>1. /\ t \in Nat /\ t <= MaxTime /\ MaxTime \in Nat /\ Width \in Nat
    BY StartsTyped, BarAssumption DEF BrokerTime
  <1>2. /\ BucketStart(t) \in Nat /\ BucketStart(t) <= t /\ t < BucketStart(t) + Width
        /\ OnGrid(BucketStart(t)) /\ OnGrid(BucketStart(t) + Width)
    BY <1>1, Divides, BucketsApart
  <1>. QED
    BY <1>1, <1>2 DEF FirstFullBucket

\* Rows are only appended: what was seen stays what it was.
LEMMA RowsStay ==
  ASSUME TicksTyped,
         ticks' = ticks \/ \E row \in Row : ticks' = Append(ticks, row)
  PROVE  /\ Committed \in SUBSET Committed'
         /\ \A i \in Committed : Time(i)' = Time(i) /\ Known(i)' = Known(i)
         /\ \A r : HonestRow(r) => HonestRow(r)'
         /\ \A from, now : Reached(from, now) => Reached(from, now)'
  <1>1. Len(ticks) \in Nat
    BY TicksFacts
  <1>2. /\ Committed \in SUBSET Committed'
        /\ \A i \in Committed : Time(i)' = Time(i) /\ Known(i)' = Known(i)
    <2>1. CASE ticks' = ticks
      BY <2>1 DEF Committed, Time, Known
    <2>2. CASE \E row \in Row : ticks' = Append(ticks, row)
      <3>1. PICK row \in Row : ticks' = Append(ticks, row)
        BY <2>2
      <3>2. Len(ticks') = Len(ticks) + 1 /\ \A i \in 1 .. Len(ticks) : ticks'[i] = ticks[i]
        BY <1>1, <3>1 DEF TicksTyped
      <3>. QED
        BY <1>1, <3>2 DEF Committed, Time, Known
    <2>. QED
      BY <2>1, <2>2
  <1>3. ASSUME NEW r, HonestRow(r)
        PROVE  HonestRow(r)'
    <2> DEFINE c == r.candle
               T == r.seen
    <2>1. /\ T \in SUBSET Committed /\ WholeIn(c, T) /\ KnowableIn(c, T)
          /\ \E i \in T : Time(i) <= c.start
      BY <1>3 DEF HonestRow
    <2> HIDE DEF c, T
    <2>2. \A i \in T : Time(i)' = Time(i) /\ Known(i)' = Known(i)
      BY <1>2, <2>1
    <2>3. c.members \in SUBSET T /\ c.open \in T /\ c.close \in T
      BY <2>1 DEF WholeIn
    <2>4. Candle' = Candle
      BY DEF Candle, Start, BrokerTime, Id
    <2>5. WholeIn(c, T)'
      <3>1. c.members = {i \in T : BucketStart(Time(i)') = c.start}
        BY <2>1, <2>2 DEF WholeIn
      <3>2. \A i, j \in T : Earlier(i, j)' <=> Earlier(i, j)
        BY <2>2 DEF Earlier
      <3>3. c \in Candle' /\ c.open \in c.members /\ c.close \in c.members
        BY <2>1, <2>4 DEF WholeIn
      <3>4. /\ \A i \in c.members \ {c.open} : Earlier(c.open, i)'
            /\ \A i \in c.members \ {c.close} : Earlier(i, c.close)'
        BY <2>1, <2>3, <3>2 DEF WholeIn
      <3>5. \A i \in c.members : Known(i)' <= c.known
        BY <2>1, <2>2, <2>3 DEF WholeIn
      <3>6. {i \in T : BucketStart(Time(i)) = c.start}' =
              {i \in T : BucketStart(Time(i)') = c.start}
        BY DEF BucketStart
      <3>. QED
        BY <3>1, <3>3, <3>4, <3>5, <3>6 DEF WholeIn
    <2>6. KnowableIn(c, T)'
      BY <2>1, <2>2 DEF KnowableIn
    <2>7. T \in SUBSET Committed' /\ \E i \in T : Time(i)' <= c.start
      BY <1>2, <2>1, <2>2
    <2>. QED
      BY <2>5, <2>6, <2>7 DEF HonestRow, c, T
  <1>4. ASSUME NEW from, NEW now, Reached(from, now)
        PROVE  Reached(from, now)'
    BY <1>2, <1>4 DEF Reached, OnGrid, BucketStart
  <1>. QED
    BY <1>2, <1>3, <1>4

\* A fold over what may be seen from a bucket that is reached gives honest rows.
LEMMA RowsAreHonest ==
  ASSUME TicksTyped, NEW seen \in SUBSET Committed, NEW S \in SUBSET seen, NEW from \in Nat,
         OnGrid(from), \E i \in seen : Time(i) <= from,
         \A i \in seen : Time(i) >= from => i \in S,
         NEW c, c.start >= from, WholeIn(c, S), KnowableIn(c, S),
         NEW r, r = [candle |-> c, seen |-> seen]
  PROVE  HonestRow(r) /\ r \in BarRow
  <1>1. c \in Candle /\ c.start \in Nat
    BY CandleFacts DEF WholeIn
  <1>2. \A i \in seen : Time(i) \in Nat /\ BucketStart(Time(i)) <= Time(i)
                        /\ BucketStart(Time(i)) \in Nat
    BY TicksFacts, Divides
  <1>3. {i \in seen : BucketStart(Time(i)) = c.start} = {i \in S : BucketStart(Time(i)) = c.start}
    <2>1. \A i \in seen : BucketStart(Time(i)) = c.start => i \in S
      BY <1>1, <1>2
    <2>. QED
      BY <2>1
  <1>4. WholeIn(c, seen)
    BY <1>3 DEF WholeIn
  <1>5. KnowableIn(c, seen)
    BY DEF KnowableIn
  <1>6. \E i \in seen : Time(i) <= c.start
    BY <1>1, <1>2
  <1>7. seen \in SUBSET Id
    BY TicksFacts
  <1>8. r.candle = c /\ r.seen = seen
    OBVIOUS
  <1>9. HonestRow(r)
    BY <1>4, <1>5, <1>6, <1>8 DEF HonestRow
  <1>10. r \in BarRow
    BY <1>1, <1>7 DEF BarRow
  <1>. QED
    BY <1>9, <1>10


\* What an insert adds is a row of its batch, in its own place.
LEMMA InsertedIs ==
  ASSUME NEW rows \in Seq(BarRow), NEW s \in Start
  PROVE  \/ Inserted(rows)[s] = bars[s]
         \/ \E k \in DOMAIN rows : Inserted(rows)[s] = rows[k] /\ rows[k].candle.start = s
  <1> DEFINE Fits(k) == k \in DOMAIN rows /\ rows[k].candle.start = s
                        /\ \A m \in 1 .. k - 1 : rows[m].candle.start # s
             at == {k \in DOMAIN rows : rows[k].candle.start = s}
  <1>1. CASE bars[s] = NoBar /\ at # {}
    <2>1. at \in SUBSET Nat /\ DOMAIN rows = 1 .. Len(rows) /\ Len(rows) \in Nat
      OBVIOUS
    <2>2. PICK k \in at : \A m \in at : k <= m
      BY <1>1, <2>1, LeastNumber
    <2>3. k \in DOMAIN rows /\ rows[k].candle.start = s
      OBVIOUS
    <2>4. \A m \in 1 .. k - 1 : rows[m].candle.start # s
      <3>1. ASSUME NEW m \in 1 .. k - 1, rows[m].candle.start = s
            PROVE  FALSE
        <4>1. m \in DOMAIN rows /\ m < k /\ m \in Nat /\ k \in Nat
          BY <2>1, <2>3
        <4>2. k <= m
          BY <2>2, <3>1, <4>1
        <4>. QED
          BY <4>1, <4>2
      <3>. QED
        BY <3>1
    <2> DEFINE c == CHOOSE j \in DOMAIN rows : /\ rows[j].candle.start = s
                                               /\ \A m \in 1 .. j - 1 : rows[m].candle.start # s
    <2>5. c \in DOMAIN rows /\ rows[c].candle.start = s
      <3>1. \E j \in DOMAIN rows : /\ rows[j].candle.start = s
                                   /\ \A m \in 1 .. j - 1 : rows[m].candle.start # s
        BY <2>3, <2>4
      <3>. QED
        BY <3>1, Zenon
    <2>6. Inserted(rows)[s] = rows[c]
      <3>1. \E j \in DOMAIN rows : rows[j].candle.start = s
        BY <2>3
      <3>. QED
        BY <1>1, <3>1, Zenon DEF Inserted
    <2> HIDE DEF c
    <2>. QED
      BY <2>5, <2>6
  <1>2. CASE ~(bars[s] = NoBar /\ at # {})
    <2>1. ~(bars[s] = NoBar /\ \E k \in DOMAIN rows : rows[k].candle.start = s)
      BY <1>2
    <2>2. Inserted(rows)[s] = bars[s]
      BY <2>1, Zenon DEF Inserted
    <2>. QED
      BY <2>2
  <1>. QED
    BY <1>1, <1>2

\* What is inserted leaves the series honest.
LEMMA InsertHonest ==
  ASSUME SeriesInv, NEW rows \in Seq(BarRow), \A k \in DOMAIN rows : HonestRow(rows[k]),
         bars' = Inserted(rows), UNCHANGED <<clock, ticks>>
  PROVE  SeriesInv'
  <1>1. bars \in [Start -> BarRow \cup {NoBar}]
        /\ \A s \in Start : bars[s] # NoBar => HonestRow(bars[s]) /\ bars[s].candle.start = s
    BY DEF SeriesInv
  <1>2. ASSUME NEW s \in Start
        PROVE  /\ bars'[s] \in BarRow \cup {NoBar}
               /\ bars'[s] # NoBar => HonestRow(bars'[s]) /\ bars'[s].candle.start = s
    <2>1. \/ bars'[s] = bars[s]
          \/ \E k \in DOMAIN rows : bars'[s] = rows[k] /\ rows[k].candle.start = s
      BY InsertedIs
    <2>2. CASE bars'[s] = bars[s]
      BY <1>1, <2>2
    <2>3. ASSUME NEW k \in DOMAIN rows, bars'[s] = rows[k], rows[k].candle.start = s
          PROVE  /\ bars'[s] \in BarRow \cup {NoBar}
                 /\ HonestRow(bars'[s]) /\ bars'[s].candle.start = s
      <3>1. rows[k] \in BarRow /\ HonestRow(rows[k])
        OBVIOUS
      <3>. QED
        BY <2>3, <3>1
    <2>. QED
      BY <2>1, <2>2, <2>3
  <1>3. bars' = [s \in Start |-> bars'[s]]
    <2> DEFINE row(s) == IF bars[s] = NoBar /\ \E k \in DOMAIN rows : rows[k].candle.start = s
                         THEN rows[CHOOSE k \in DOMAIN rows :
                                     /\ rows[k].candle.start = s
                                     /\ \A m \in 1 .. k - 1 : rows[m].candle.start # s]
                         ELSE bars[s]
    <2>1. bars' = [s \in Start |-> row(s)]
      BY Zenon DEF Inserted
    <2> HIDE DEF row
    <2>. QED
      BY <2>1
  <1>4. TicksTyped
    BY DEF SeriesInv
  <1>5. ASSUME NEW s \in Start, bars'[s] # NoBar
        PROVE  HonestRow(bars[s])' /\ bars'[s].candle.start = s
    <2>1. PICK r : r = bars'[s]
      OBVIOUS
    <2>2. HonestRow(r) /\ r.candle.start = s
      BY <1>2, <1>5, <2>1
    <2>3. HonestRow(r)'
      BY <1>4, <2>2, RowsStay
    <2>. QED
      BY <2>1, <2>2, <2>3
  <1>6. Start' = Start /\ BarRow' = BarRow /\ NoBar' = NoBar
    BY DEF Start, BrokerTime, BarRow, Candle, Id, NoBar, NoBucket
  <1>7. bars' \in [Start' -> BarRow' \cup {NoBar'}]
    BY <1>2, <1>3, <1>6
  <1>8. TicksTyped' /\ clock' \in 0 .. MaxClock
    BY DEF SeriesInv, TicksTyped, Row, BrokerTime
  <1>9. \A i \in Committed' : Known(i)' <= clock'
    BY DEF SeriesInv, Committed, Known
  <1>. QED
    BY <1>5, <1>6, <1>7, <1>8, <1>9 DEF SeriesInv

\* A step that writes no candle, appends at most a row and lets no clock run back.
LEMMA SeriesKept ==
  ASSUME SeriesInv, bars' = bars, clock' \in 0 .. MaxClock, clock <= clock',
         \/ ticks' = ticks
         \/ \E row \in Row : /\ ticks' = Append(ticks, row) /\ Len(ticks) < MaxTicks
                             /\ row.known <= clock'
  PROVE  SeriesInv'
  <1>1. TicksTyped
    BY DEF SeriesInv
  <1>2. /\ Committed \in SUBSET Committed'
        /\ \A i \in Committed : Time(i)' = Time(i) /\ Known(i)' = Known(i)
        /\ \A r : HonestRow(r) => HonestRow(r)'
    BY <1>1, RowsStay
  <1>3. Start' = Start /\ BarRow' = BarRow /\ NoBar' = NoBar
    BY DEF Start, BrokerTime, BarRow, Candle, Id, NoBar, NoBucket
  <1>4. /\ clock \in Nat /\ clock' \in Nat
        /\ \A i \in Committed : Known(i) \in Nat /\ Known(i) <= clock
    BY <1>1, TicksFacts, BoundsTyped DEF SeriesInv
  <1>5. TicksTyped' /\ \A i \in Committed' : Known(i)' <= clock'
    <2>1. CASE ticks' = ticks
      <3>1. TicksTyped' /\ Committed' = Committed
        BY <1>1, <2>1 DEF TicksTyped, Committed, Row, BrokerTime
      <3>. QED
        BY <1>2, <1>4, <3>1
    <2>2. CASE ticks' # ticks
      <3>1. PICK row \in Row : /\ ticks' = Append(ticks, row) /\ Len(ticks) < MaxTicks
                               /\ row.known <= clock'
        BY <2>2
      <3>2. /\ Len(ticks) \in Nat /\ MaxTicks \in Nat /\ ticks \in Seq(Row)
            /\ ticks' \in Seq(Row) /\ Len(ticks') = Len(ticks) + 1
            /\ ticks'[Len(ticks) + 1] = row
        BY <1>1, <3>1, BoundsTyped DEF TicksTyped
      <3>3. TicksTyped'
        BY <3>1, <3>2 DEF TicksTyped, Row, BrokerTime
      <3>4. ASSUME NEW i \in Committed'
            PROVE  Known(i)' <= clock'
        <4>1. i \in Committed \/ i = Len(ticks) + 1
          BY <3>2, <3>4 DEF Committed
        <4>2. CASE i \in Committed
          BY <1>2, <1>4, <4>2
        <4>3. CASE i = Len(ticks) + 1
          BY <3>1, <3>2, <4>3 DEF Known
        <4>. QED
          BY <4>1, <4>2, <4>3
      <3>. QED
        BY <3>3, <3>4
    <2>. QED
      BY <2>1, <2>2
  <1>6. ASSUME NEW s \in Start, bars[s] # NoBar
        PROVE  HonestRow(bars[s])' /\ bars'[s].candle.start = s
    <2>1. PICK r : r = bars[s]
      OBVIOUS
    <2>2. HonestRow(r) /\ r.candle.start = s
      BY <1>6, <2>1 DEF SeriesInv
    <2>3. HonestRow(r)' /\ r = bars'[s]
      BY <1>2, <2>1, <2>2
    <2>. QED
      BY <2>2, <2>3
  <1>7. bars' \in [Start' -> BarRow' \cup {NoBar'}]
    BY <1>3 DEF SeriesInv
  <1>8. \A s \in Start' : bars'[s] # NoBar' => HonestRow(bars[s])' /\ bars'[s].candle.start = s
    BY <1>3, <1>6
  <1>. QED
    BY <1>5, <1>7, <1>8 DEF SeriesInv

\* Whatever is written or received leaves a pass and a run what they are.
LEMMA ReadersKept ==
  ASSUME TicksTyped, clock \in Nat, clock' \in Nat, clock <= clock',
         ticks' = ticks \/ \E row \in Row : ticks' = Append(ticks, row)
  PROVE  /\ \A l : PassInv(l) => PassInv(l)'
         /\ \A b : RunInv(b) => RunInv(b)'
  <1>1. /\ Committed \in SUBSET Committed'
        /\ \A i \in Committed : Time(i)' = Time(i) /\ Known(i)' = Known(i) /\ Known(i) \in Nat
        /\ \A r : HonestRow(r) => HonestRow(r)'
        /\ \A from, now : Reached(from, now) => Reached(from, now)'
    BY RowsStay, TicksFacts
  <1>2. BarRow' = BarRow
    BY DEF BarRow, Candle, Id, Start, BrokerTime
  <1>3. ASSUME NEW l, PassInv(l)
        PROVE  PassInv(l)'
    <2>1. /\ l = [pc |-> l.pc, now |-> l.now, from |-> l.from, out |-> l.out]
          /\ l.pc \in {"idle", "cold", "pending", "closed", "window", "write"}
          /\ l.now \in 0 .. MaxClock /\ l.now <= clock /\ l.from \in 0 .. MaxTime + Width
          /\ l.pc = "write" => l.out \in Seq(BarRow) /\ \A k \in DOMAIN l.out : HonestRow(l.out[k])
          /\ l.pc \in {"pending", "closed", "window"} => Reached(l.from, l.now)
      BY <1>3 DEF PassInv
    <2>2. l.pc = "write" => \A k \in DOMAIN l.out : HonestRow(l.out[k])'
      BY <1>1, <2>1
    <2>3. l.pc \in {"pending", "closed", "window"} => Reached(l.from, l.now)'
      BY <1>1, <2>1
    <2>4. l.now <= clock'
      BY <2>1, BoundsTyped
    <2>. QED
      BY <1>2, <2>1, <2>2, <2>3, <2>4 DEF PassInv
  <1>4. ASSUME NEW from, Reached(from, clock)
        PROVE  Reached(from, clock)'
    <2>1. PICK i \in Committed : Known(i) <= clock /\ Time(i) <= from
      BY <1>4 DEF Reached
    <2>2. i \in Committed' /\ Known(i)' <= clock' /\ Time(i)' <= from
      BY <1>1, <2>1
    <2>3. OnGrid(from)'
      BY <1>4 DEF Reached, OnGrid, BucketStart
    <2>. QED
      BY <2>2, <2>3 DEF Reached
  <1>5. ASSUME NEW b, RunInv(b)
        PROVE  RunInv(b)'
    <2>1. /\ b = [pc |-> b.pc, from |-> b.from, out |-> b.out]
          /\ b.pc \in {"idle", "stream", "write"} /\ b.from \in 0 .. MaxTime + Width
          /\ b.out \in Seq(BarRow) /\ \A k \in DOMAIN b.out : HonestRow(b.out[k])
          /\ b.pc = "stream" => Reached(b.from, clock)
      BY <1>5 DEF RunInv
    <2>2. \A k \in DOMAIN b.out : HonestRow(b.out[k])'
      BY <1>1, <2>1
    <2>3. b.pc = "stream" => Reached(b.from, clock)'
      BY <1>4, <2>1
    <2>. QED
      BY <1>2, <2>1, <2>2, <2>3 DEF RunInv
  <1>. QED
    BY <1>3, <1>5

\* The greatest start of some.
LEMMA GreatestKnown ==
  ASSUME NEW n \in Nat, NEW t \in SUBSET (0 .. n), t # {}
  PROVE  Max(t) \in t /\ \A k \in t : k <= Max(t)
  <1> DEFINE above == {m \in Nat : \A k \in t : k <= m}
  <1>1. above \in SUBSET Nat /\ n \in above
    OBVIOUS
  <1>2. PICK m \in above : \A k \in above : m <= k
    BY <1>1, LeastNumber
  <1>3. m \in t
    <2>1. SUFFICES ASSUME m \notin t
                   PROVE  FALSE
      OBVIOUS
    <2>2. \A k \in t : k <= m /\ k # m /\ k \in Nat
      BY <1>2, <2>1
    <2>3. m \in Nat /\ m # 0
      <3>1. m \in Nat
        BY <1>1
      <3>2. PICK k \in t : TRUE
        OBVIOUS
      <3>3. k <= m /\ k # m /\ k \in Nat
        BY <2>2, <3>2
      <3>. QED
        BY <3>1, <3>3
    <2>4. m - 1 \in above
      BY <2>2, <2>3
    <2>. QED
      BY <1>2, <2>3, <2>4
  <1>4. \E x \in t : \A y \in t : x >= y
    BY <1>2, <1>3
  <1>. QED
    BY <1>4 DEF Max

\* The rows of a fold are honest if it read all of the buckets it published.
LEMMA WindowHonest ==
  ASSUME TicksTyped, NEW seen \in SUBSET Committed, NEW S \in SUBSET seen, NEW from \in Nat,
         OnGrid(from), \E i \in seen : Time(i) <= from,
         \A i \in seen : Time(i) >= from => i \in S,
         NEW p \in Seq(Candle),
         \A k \in DOMAIN p : WholeIn(p[k], S) /\ KnowableIn(p[k], S) /\ p[k].start >= from
  PROVE  /\ Rows(p, seen) \in Seq(BarRow)
         /\ \A k \in DOMAIN Rows(p, seen) : HonestRow(Rows(p, seen)[k])
  <1> DEFINE w == Rows(p, seen)
  <1>1. ASSUME NEW k \in DOMAIN p
        PROVE  HonestRow(w[k]) /\ w[k] \in BarRow
    <2>1. w[k] = [candle |-> p[k], seen |-> seen]
      BY DEF Rows
    <2> HIDE DEF w
    <2>. QED
      BY <2>1, RowsAreHonest
  <1>2. w = [k \in DOMAIN p |-> w[k]]
    BY DEF Rows
  <1>3. DOMAIN p = 1 .. Len(p) /\ Len(p) \in Nat
    OBVIOUS
  <1> HIDE DEF w
  <1>4. w \in Seq(BarRow) /\ DOMAIN w = DOMAIN p
    BY <1>1, <1>2, <1>3
  <1>. QED
    BY <1>1, <1>4 DEF w

\* A pass that goes on, and a run that goes on, each by a state that is right.
LEMMA PassMoves ==
  ASSUME BarInv, NEW l, live' = l, PassInv(l), UNCHANGED <<clock, ticks, bars, backfill>>
  PROVE  BarInv'
  <1>1. TicksTyped /\ clock \in 0 .. MaxClock /\ clock \in Nat
    BY BoundsTyped DEF BarInv, SeriesInv
  <1>2. SeriesInv'
    BY <1>1, SeriesKept DEF BarInv
  <1>3. PassInv(l)' /\ \A b : RunInv(b) => RunInv(b)'
    BY <1>1, ReadersKept
  <1>4. PICK b : b = backfill
    OBVIOUS
  <1>5. RunInv(b)' /\ b = backfill'
    BY <1>3, <1>4 DEF BarInv
  <1>. QED
    BY <1>2, <1>3, <1>5 DEF BarInv

LEMMA RunMoves ==
  ASSUME BarInv, NEW b, backfill' = b, RunInv(b), UNCHANGED <<clock, ticks, bars, live>>
  PROVE  BarInv'
  <1>1. TicksTyped /\ clock \in 0 .. MaxClock /\ clock \in Nat
    BY BoundsTyped DEF BarInv, SeriesInv
  <1>2. SeriesInv'
    BY <1>1, SeriesKept DEF BarInv
  <1>3. RunInv(b)' /\ \A l : PassInv(l) => PassInv(l)'
    BY <1>1, ReadersKept
  <1>4. PICK l : l = live
    OBVIOUS
  <1>5. PassInv(l)' /\ l = live'
    BY <1>3, <1>4 DEF BarInv
  <1>. QED
    BY <1>2, <1>3, <1>5 DEF BarInv

\* Both readers stay where they are while the world moves.
LEMMA WorldMoves ==
  ASSUME BarInv, clock' \in 0 .. MaxClock, clock <= clock', UNCHANGED <<bars, live, backfill>>,
         \/ ticks' = ticks
         \/ \E row \in Row : /\ ticks' = Append(ticks, row) /\ Len(ticks) < MaxTicks
                             /\ row.known <= clock'
  PROVE  BarInv'
  <1>1. TicksTyped /\ clock \in Nat /\ clock' \in Nat
    BY BoundsTyped DEF BarInv, SeriesInv
  <1>2. SeriesInv'
    BY SeriesKept DEF BarInv
  <1>3. (\A l : PassInv(l) => PassInv(l)') /\ \A b : RunInv(b) => RunInv(b)'
    BY <1>1, ReadersKept
  <1>4. PICK l, b : l = live /\ b = backfill
    OBVIOUS
  <1>5. PassInv(l)' /\ l = live' /\ RunInv(b)' /\ b = backfill'
    BY <1>3, <1>4 DEF BarInv
  <1>. QED
    BY <1>2, <1>5 DEF BarInv

-----------------------------------------------------------------------------
(* The pass *)

\* A pass goes on where the last candle ended, which the series reaches back to.
LEMMA LiveStartInv ==
  ASSUME BarInv, LiveStart
  PROVE  BarInv'
  <1> DEFINE known == {s \in Stored : bars[s].candle.known <= clock}
  <1>1. /\ SeriesInv /\ TicksTyped /\ clock \in 0 .. MaxClock /\ clock \in Nat
        /\ UNCHANGED <<clock, ticks, bars, backfill>>
    BY BoundsTyped DEF BarInv, SeriesInv, LiveStart
  <1>2. live' = IF known = {} THEN [IdleLive EXCEPT !.pc = "cold", !.now = clock]
                ELSE [IdleLive EXCEPT !.pc = "pending", !.now = clock, !.from = Max(known) + Width]
    BY Zenon DEF LiveStart
  <1>3. known \in SUBSET Start /\ \A s \in known : bars[s] # NoBar
    BY DEF Stored
  <1>4. CASE known = {}
    <2> DEFINE l == [pc |-> "cold", now |-> clock, from |-> 0, out |-> <<>>]
    <2>1. live' = l
      BY <1>2, <1>4 DEF IdleLive
    <2>2. PassInv(l)
      BY <1>1, BoundsTyped DEF PassInv
    <2> HIDE DEF l, known
    <2>. QED
      BY <1>1, <2>1, <2>2, PassMoves
  <1>5. CASE known # {}
    <2> DEFINE top == Max(known)
               l == [pc |-> "pending", now |-> clock, from |-> top + Width, out |-> <<>>]
    <2>1. live' = l
      BY <1>2, <1>5 DEF IdleLive
    <2> HIDE DEF known
    <2>2. known \in SUBSET (0 .. MaxTime)
      BY <1>3, StartsTyped
    <2>3. top \in known
      BY <1>5, <2>2, BoundsTyped, GreatestKnown
    <2> HIDE DEF top
    <2>4. HonestRow(bars[top]) /\ bars[top].candle.start = top /\ top \in 0 .. MaxTime /\ OnGrid(top)
      BY <1>1, <1>3, <2>3, StartsTyped DEF SeriesInv
    <2>5. top + Width \in 0 .. MaxTime + Width /\ OnGrid(top + Width)
      <3>1. top \in Nat /\ BucketStart(top) = top
        BY <2>4 DEF OnGrid
      <3>2. OnGrid(BucketStart(top) + Width)
        BY <3>1, BucketsApart
      <3>. QED
        BY <2>4, <3>1, <3>2, BoundsTyped
    <2>6. Reached(top + Width, clock)
      <3>1. PICK i \in Committed : Time(i) <= top
        BY <2>4 DEF HonestRow
      <3>2. Known(i) <= clock /\ Time(i) \in Nat
        BY <1>1, TicksFacts DEF SeriesInv
      <3>3. Time(i) <= top + Width
        BY <2>4, <3>1, <3>2, BoundsTyped
      <3>. QED
        BY <2>5, <3>2, <3>3 DEF Reached
    <2>7. PassInv(l)
      BY <1>1, <2>5, <2>6, BoundsTyped DEF PassInv
    <2> HIDE DEF l
    <2>. QED
      BY <1>1, <2>1, <2>7, PassMoves
  <1>. QED
    BY <1>4, <1>5

\* A cold start enters at the first bucket it reads whole.
LEMMA ColdStartInv ==
  ASSUME BarInv, ColdStart
  PROVE  BarInv'
  <1> DEFINE read == Visible(live.now, live.now - Lookback)
             t == Time(First(read))
             l == [pc |-> "pending", now |-> live.now, from |-> FirstFullBucket(t),
                   out |-> live.out]
  <1>1. /\ SeriesInv /\ TicksTyped /\ clock \in 0 .. MaxClock /\ PassInv(live)
        /\ UNCHANGED <<clock, ticks, bars, backfill>>
    BY DEF BarInv, SeriesInv, ColdStart
  <1>2. live' = IF read = {} THEN IdleLive
                ELSE [live EXCEPT !.pc = "pending", !.from = FirstFullBucket(t)]
    BY Zenon DEF ColdStart
  <1>3. read \in SUBSET Committed /\ \A i \in read : Known(i) <= live.now
    BY DEF Visible
  <1> HIDE DEF read
  <1>4. CASE read = {}
    BY <1>1, <1>2, <1>4, IdleIs, PassMoves
  <1>5. CASE read # {}
    <2>1. live' = l
      BY <1>1, <1>2, <1>5 DEF PassInv
    <2>2. First(read) \in read
      BY <1>1, <1>3, <1>5, FirstIs
    <2>3. First(read) \in Committed /\ t \in BrokerTime /\ Known(First(read)) <= live.now
      BY <1>1, <1>3, <2>2, TicksFacts
    <2>4. /\ OnGrid(FirstFullBucket(t)) /\ t <= FirstFullBucket(t)
          /\ FirstFullBucket(t) \in 0 .. MaxTime + Width
      BY <2>3, FullBucket
    <2>5. Reached(FirstFullBucket(t), live.now)
      BY <2>3, <2>4 DEF Reached
    <2> HIDE DEF t
    <2>6. PassInv(l)
      BY <1>1, <2>4, <2>5 DEF PassInv
    <2> HIDE DEF l
    <2>. QED
      BY <1>1, <2>1, <2>6, PassMoves
  <1>. QED
    BY <1>4, <1>5

LEMMA FirstUnfoldedInv ==
  ASSUME BarInv, FirstUnfolded
  PROVE  BarInv'
  <1> DEFINE read == Visible(live.now, live.from)
             end == BucketStart(Time(First(read))) + Width
             l == [pc |-> "closed", now |-> live.now, from |-> live.from, out |-> <<end>>]
  <1>1. /\ SeriesInv /\ clock \in 0 .. MaxClock /\ PassInv(live) /\ live.pc = "pending"
        /\ UNCHANGED <<clock, ticks, bars, backfill>>
    BY DEF BarInv, SeriesInv, FirstUnfolded
  <1>2. live' = IF read = {} THEN IdleLive ELSE [live EXCEPT !.pc = "closed", !.out = <<end>>]
    BY Zenon DEF FirstUnfolded
  <1> HIDE DEF read, end
  <1>3. CASE read = {}
    BY <1>1, <1>2, <1>3, IdleIs, PassMoves
  <1>4. CASE read # {}
    <2>1. live' = l
      BY <1>1, <1>2, <1>4 DEF PassInv
    <2>2. PassInv(l)
      BY <1>1 DEF PassInv
    <2> HIDE DEF l
    <2>. QED
      BY <1>1, <2>1, <2>2, PassMoves
  <1>. QED
    BY <1>3, <1>4

LEMMA LaterQuoteInv ==
  ASSUME BarInv, LaterQuote
  PROVE  BarInv'
  <1> DEFINE read == Visible(live.now, live.out[1])
             l == [pc |-> "window", now |-> live.now, from |-> live.from, out |-> <<>>]
  <1>1. /\ SeriesInv /\ clock \in 0 .. MaxClock /\ PassInv(live) /\ live.pc = "closed"
        /\ UNCHANGED <<clock, ticks, bars, backfill>>
    BY DEF BarInv, SeriesInv, LaterQuote
  <1>2. live' = IF read = {} THEN IdleLive ELSE [live EXCEPT !.pc = "window", !.out = <<>>]
    BY DEF LaterQuote
  <1> HIDE DEF read
  <1>3. CASE read = {}
    BY <1>1, <1>2, <1>3, IdleIs, PassMoves
  <1>4. CASE read # {}
    <2>1. live' = l
      BY <1>1, <1>2, <1>4 DEF PassInv
    <2>2. PassInv(l)
      BY <1>1 DEF PassInv
    <2> HIDE DEF l
    <2>. QED
      BY <1>1, <2>1, <2>2, PassMoves
  <1>. QED
    BY <1>3, <1>4

\* A candle of the quotes from a bucket on starts there or later.
LEMMA StartsFrom ==
  ASSUME TicksTyped, NEW S \in SUBSET Committed, NEW from \in Nat, OnGrid(from),
         \A i \in S : Time(i) >= from, NEW c, WholeIn(c, S)
  PROVE  c.start >= from
  <1>1. c.open \in S /\ BucketStart(Time(c.open)) = c.start
    BY DEF WholeIn
  <1>2. Time(c.open) \in Nat /\ Time(c.open) >= from
    BY <1>1, TicksFacts
  <1>3. from <= BucketStart(Time(c.open)) /\ BucketStart(Time(c.open)) \in Nat
    BY <1>2, BucketsApart, Divides
  <1>. QED
    BY <1>1, <1>3

\* The window read sees all that is visible of the buckets it starts with.
LEMMA ReadWindowInv ==
  ASSUME BarInv, ReadWindow
  PROVE  BarInv'
  <1> DEFINE S == Visible(live.now, live.from)
             seen == Visible(live.now, 0)
             p == Build(InOrder(S)).published
             w == Rows(p, seen)
             l == [pc |-> "write", now |-> live.now, from |-> live.from, out |-> w]
  <1>1. /\ SeriesInv /\ TicksTyped /\ clock \in 0 .. MaxClock /\ PassInv(live)
        /\ live.pc = "window" /\ Reached(live.from, live.now) /\ live.from \in Nat
        /\ UNCHANGED <<clock, ticks, bars, backfill>>
    BY BoundsTyped DEF BarInv, SeriesInv, ReadWindow, PassInv
  <1>2. live' = IF p = <<>> THEN IdleLive ELSE [live EXCEPT !.pc = "write", !.out = w]
    BY Zenon DEF ReadWindow
  <1>3. /\ S \in SUBSET seen /\ seen \in SUBSET Committed /\ S \in SUBSET Committed
        /\ \A i \in S : Time(i) >= live.from
        /\ \A i \in seen : Time(i) >= live.from => i \in S
    BY <1>1, TicksFacts DEF Visible
  <1>4. OnGrid(live.from) /\ \E i \in seen : Time(i) <= live.from
    <2>1. PICK i \in Committed : Known(i) <= live.now /\ Time(i) <= live.from
      BY <1>1 DEF Reached
    <2>2. i \in seen
      BY <1>1, <2>1, TicksFacts DEF Visible
    <2>. QED
      BY <1>1, <2>1, <2>2 DEF Reached
  <1> HIDE DEF S, seen
  <1>5. p \in Seq(Candle) /\ \A k \in DOMAIN p : WholeIn(p[k], S) /\ KnowableIn(p[k], S)
    BY <1>1, <1>3, BuildWhole
  <1> HIDE DEF p
  <1>6. \A k \in DOMAIN p : p[k].start >= live.from
    BY <1>1, <1>3, <1>4, <1>5, StartsFrom
  <1>7. w \in Seq(BarRow) /\ \A k \in DOMAIN w : HonestRow(w[k])
    BY <1>1, <1>3, <1>4, <1>5, <1>6, WindowHonest
  <1> HIDE DEF w
  <1>8. CASE p = <<>>
    BY <1>1, <1>2, <1>8, IdleIs, PassMoves
  <1>9. CASE p # <<>>
    <2>1. live' = l
      BY <1>1, <1>2, <1>9 DEF PassInv
    <2>2. PassInv(l)
      BY <1>1, <1>7 DEF PassInv
    <2> HIDE DEF l
    <2>. QED
      BY <1>1, <2>1, <2>2, PassMoves
  <1>. QED
    BY <1>8, <1>9

\* What a pass writes was honest when it was read, and rows are only appended.
LEMMA LiveWriteInv ==
  ASSUME BarInv, LiveWrite
  PROVE  BarInv'
  <1>1. /\ SeriesInv /\ TicksTyped /\ clock \in 0 .. MaxClock /\ clock \in Nat
        /\ RunInv(backfill) /\ live' = IdleLive /\ bars' = Inserted(live.out)
        /\ UNCHANGED <<clock, ticks, backfill>>
    BY BoundsTyped DEF BarInv, SeriesInv, LiveWrite
  <1>2. live.out \in Seq(BarRow) /\ \A k \in DOMAIN live.out : HonestRow(live.out[k])
    BY DEF BarInv, PassInv, LiveWrite
  <1>3. SeriesInv'
    BY <1>1, <1>2, InsertHonest
  <1>4. PICK l, b : l = IdleLive /\ b = backfill
    OBVIOUS
  <1>5. PassInv(l) /\ RunInv(b)
    BY <1>1, <1>4, IdleIs
  <1>6. PassInv(l)' /\ RunInv(b)'
    BY <1>1, <1>5, ReadersKept
  <1>7. l = live' /\ b = backfill'
    BY <1>1, <1>4
  <1>. QED
    BY <1>3, <1>6, <1>7 DEF BarInv

-----------------------------------------------------------------------------
(* The backfill *)

LEMMA BackfillStartInv ==
  ASSUME BarInv, BackfillStart
  PROVE  BarInv'
  <1> DEFINE t == Time(First(Committed))
             b == [pc |-> "stream", from |-> FirstFullBucket(t), out |-> <<>>]
  <1>1. /\ SeriesInv /\ TicksTyped /\ clock \in 0 .. MaxClock /\ clock \in Nat /\ Committed # {}
        /\ UNCHANGED <<clock, ticks, bars, live>>
    BY BoundsTyped DEF BarInv, SeriesInv, BackfillStart
  <1>2. backfill' = b
    BY DEF BackfillStart, IdleBackfill
  <1>3. First(Committed) \in Committed
    BY <1>1, FirstIs
  <1>4. t \in BrokerTime /\ Known(First(Committed)) <= clock
    BY <1>1, <1>3, TicksFacts DEF SeriesInv
  <1>5. /\ OnGrid(FirstFullBucket(t)) /\ t <= FirstFullBucket(t)
        /\ FirstFullBucket(t) \in 0 .. MaxTime + Width
    BY <1>4, FullBucket
  <1>6. Reached(FirstFullBucket(t), clock)
    BY <1>3, <1>4, <1>5 DEF Reached
  <1> HIDE DEF t
  <1>7. RunInv(b)
    BY <1>5, <1>6 DEF RunInv
  <1> HIDE DEF b
  <1>. QED
    BY <1>1, <1>2, <1>7, RunMoves

\* The stream sees every row; only the bucket it enters midway is dropped.
LEMMA BackfillStreamInv ==
  ASSUME BarInv, BackfillStream
  PROVE  BarInv'
  <1> DEFINE built == Build(InOrder(Committed)).published
             on == {c \in ToSet(built) : c.start >= backfill.from}
             p == Among(built, on)
             w == Rows(p, Committed)
             b == [pc |-> "write", from |-> backfill.from, out |-> w]
  <1>1. /\ SeriesInv /\ TicksTyped /\ clock \in 0 .. MaxClock /\ clock \in Nat
        /\ RunInv(backfill) /\ Reached(backfill.from, clock) /\ backfill.from \in Nat
        /\ UNCHANGED <<clock, ticks, bars, live>>
    BY BoundsTyped DEF BarInv, SeriesInv, BackfillStream, RunInv
  <1>2. backfill' = IF p = <<>> THEN IdleBackfill ELSE [backfill EXCEPT !.pc = "write", !.out = w]
    BY Zenon DEF BackfillStream
  <1>3. /\ built \in Seq(Candle)
        /\ \A k \in DOMAIN built : WholeIn(built[k], Committed) /\ KnowableIn(built[k], Committed)
    BY <1>1, BuildWhole
  <1>4. p = Filtered(built, on)
    BY Zenon DEF Among, Filtered
  <1>5. \A c \in on : c.start >= backfill.from
    OBVIOUS
  <1> HIDE DEF built, on, p
  <1>6. p \in Seq(Candle) /\ ToSet(p) = ToSet(built) \cap on
    BY <1>3, <1>4, FilterFacts
  <1>7. ASSUME NEW k \in DOMAIN p
        PROVE  /\ WholeIn(p[k], Committed) /\ KnowableIn(p[k], Committed)
               /\ p[k].start >= backfill.from
    <2>1. p[k] \in ToSet(p)
      BY DEF ToSet
    <2>2. p[k] \in on /\ p[k] \in ToSet(built)
      BY <1>6, <2>1
    <2>3. PICK m \in DOMAIN built : built[m] = p[k]
      BY <2>2 DEF ToSet
    <2>. QED
      BY <1>3, <1>5, <2>2, <2>3
  <1>8. OnGrid(backfill.from) /\ \E i \in Committed : Time(i) <= backfill.from
    BY <1>1 DEF Reached
  <1>9. w \in Seq(BarRow) /\ \A k \in DOMAIN w : HonestRow(w[k])
    <2>1. /\ Committed \in SUBSET Committed
          /\ \A i \in Committed : Time(i) >= backfill.from => i \in Committed
      OBVIOUS
    <2>. QED
      BY <1>1, <1>6, <1>7, <1>8, <2>1, WindowHonest
  <1> HIDE DEF w
  <1>10. CASE p = <<>>
    BY <1>1, <1>2, <1>10, IdleIs, RunMoves
  <1>11. CASE p # <<>>
    <2>1. backfill' = b
      BY <1>1, <1>2, <1>11 DEF RunInv
    <2>2. RunInv(b)
      BY <1>1, <1>9 DEF RunInv
    <2> HIDE DEF b
    <2>. QED
      BY <1>1, <2>1, <2>2, RunMoves
  <1>. QED
    BY <1>10, <1>11

\* A stretch of honest rows.
LEMMA StretchHonest ==
  ASSUME NEW out \in Seq(BarRow), \A k \in DOMAIN out : HonestRow(out[k]),
         NEW m \in Nat, NEW n \in Nat, m >= 1, n <= Len(out)
  PROVE  /\ SubSeq(out, m, n) \in Seq(BarRow)
         /\ \A k \in DOMAIN SubSeq(out, m, n) : HonestRow(SubSeq(out, m, n)[k])
  <1> DEFINE q == SubSeq(out, m, n)
  <1>1. /\ q \in Seq(BarRow) /\ Len(q) = (IF m <= n THEN n - m + 1 ELSE 0)
        /\ \A k \in 1 .. n - m + 1 : q[k] = out[m + k - 1]
    <2>1. \A i \in m .. n : out[i] \in BarRow
      OBVIOUS
    <2>. QED
      BY <2>1, SubSeqProperties
  <1> HIDE DEF q
  <1>2. ASSUME NEW k \in DOMAIN q
        PROVE  HonestRow(q[k])
    <2>1. k \in 1 .. n - m + 1 /\ m + k - 1 \in DOMAIN out
      BY <1>1
    <2>. QED
      BY <1>1, <2>1
  <1>. QED
    BY <1>1, <1>2 DEF q

\* A batch is a stretch of the rows, and what is left of them is another.
LEMMA BackfillWriteInv ==
  ASSUME BarInv, BackfillWrite
  PROVE  BarInv'
  <1> DEFINE out == backfill.out
             n == IF Batch < Len(out) THEN Batch ELSE Len(out)
             now == SubSeq(out, 1, n)
             rest == SubSeq(out, Batch + 1, Len(out))
             b == [pc |-> "write", from |-> backfill.from, out |-> rest]
  <1>1. /\ SeriesInv /\ TicksTyped /\ clock \in 0 .. MaxClock /\ clock \in Nat
        /\ PassInv(live) /\ RunInv(backfill) /\ backfill.pc = "write"
        /\ bars' = Inserted(now) /\ UNCHANGED <<clock, ticks, live>>
    BY BoundsTyped DEF BarInv, SeriesInv, BackfillWrite
  <1>2. backfill' = IF Len(out) <= Batch THEN IdleBackfill ELSE [backfill EXCEPT !.out = rest]
    BY DEF BackfillWrite
  <1>3. out \in Seq(BarRow) /\ (\A k \in DOMAIN out : HonestRow(out[k])) /\ Len(out) \in Nat
    BY <1>1 DEF RunInv
  <1> HIDE DEF out
  <1>4. now \in Seq(BarRow) /\ \A k \in DOMAIN now : HonestRow(now[k])
    <2>1. n \in Nat /\ n <= Len(out)
      BY <1>3, BoundsTyped
    <2> HIDE DEF n
    <2>. QED
      BY <1>3, <2>1, StretchHonest
  <1>5. rest \in Seq(BarRow) /\ \A k \in DOMAIN rest : HonestRow(rest[k])
    BY <1>3, BoundsTyped, StretchHonest
  <1> HIDE DEF now, rest
  <1>6. SeriesInv'
    BY <1>1, <1>4, InsertHonest
  <1>7. RunInv(b)
    BY <1>1, <1>5 DEF RunInv
  <1>8. backfill' = b \/ backfill' = IdleBackfill
    BY <1>1, <1>2 DEF RunInv, out
  <1> HIDE DEF b
  <1>9. PICK l, c : l = live /\ c = backfill'
    OBVIOUS
  <1>10. PassInv(l) /\ RunInv(c)
    BY <1>1, <1>7, <1>8, <1>9, IdleIs
  <1>11. PassInv(l)' /\ RunInv(c)'
    BY <1>1, <1>10, ReadersKept
  <1>12. l = live'
    BY <1>1, <1>9
  <1>. QED
    BY <1>6, <1>9, <1>11, <1>12 DEF BarInv

LEMMA BackfillDiesInv ==
  ASSUME BarInv, BackfillDies
  PROVE  BarInv'
  <1>1. clock \in 0 .. MaxClock /\ UNCHANGED <<clock, ticks, bars, live>> /\ backfill' = IdleBackfill
    BY DEF BarInv, SeriesInv, BackfillDies
  <1>. QED
    BY <1>1, IdleIs, RunMoves

-----------------------------------------------------------------------------
(* The world, and every step *)

LEMMA WorldInv ==
  ASSUME BarInv, Commit \/ ClockAdvances
  PROVE  BarInv'
  <1>1. clock \in 0 .. MaxClock /\ clock \in Nat
    BY BoundsTyped DEF BarInv, SeriesInv
  <1>2. CASE Commit
    <2>1. PICK row \in Row : /\ row.known \in clock - CommitDelay .. clock
                             /\ ticks' = Append(ticks, row)
      BY <1>2 DEF Commit
    <2>2. row.known <= clock /\ Len(ticks) < MaxTicks /\ UNCHANGED <<clock, bars, live, backfill>>
      BY <1>2, <2>1 DEF Commit
    <2>. QED
      BY <1>1, <2>1, <2>2, WorldMoves
  <1>3. CASE ClockAdvances
    <2>1. clock' \in 0 .. MaxClock /\ clock <= clock' /\ UNCHANGED <<ticks, bars, live, backfill>>
      BY <1>1, <1>3, BoundsTyped DEF ClockAdvances
    <2>. QED
      BY <2>1, WorldMoves
  <1>. QED
    BY <1>2, <1>3

\* Every step keeps the invariant.
LEMMA BarNext ==
  ASSUME BarInv, [Next]_vars
  PROVE  BarInv'
  <1>1. CASE LivePass
    BY <1>1, LiveStartInv, ColdStartInv, FirstUnfoldedInv, LaterQuoteInv, ReadWindowInv,
       LiveWriteInv DEF LivePass
  <1>2. CASE BackfillRun \/ BackfillDies
    BY <1>2, BackfillStartInv, BackfillStreamInv, BackfillWriteInv, BackfillDiesInv DEF BackfillRun
  <1>3. CASE Commit \/ ClockAdvances
    BY <1>3, WorldInv
  <1>4. CASE UNCHANGED vars
    <2>1. clock \in 0 .. MaxClock /\ clock \in Nat /\ UNCHANGED <<clock, ticks, bars, live, backfill>>
      BY <1>4, BoundsTyped DEF vars, BarInv, SeriesInv
    <2>. QED
      BY <2>1, WorldMoves
  <1>. QED
    BY <1>1, <1>2, <1>3, <1>4 DEF Next

-----------------------------------------------------------------------------
(* What the invariant says of the series *)

\* Only one quote comes before all others.
LEMMA FirstUnique ==
  ASSUME TicksTyped, NEW S \in SUBSET Committed, NEW x \in S,
         \A i \in S \ {x} : Earlier(x, i)
  PROVE  x = First(S)
  <1>1. First(S) \in S /\ \A j \in S \ {First(S)} : Earlier(First(S), j)
    <2>1. \E i \in S : \A j \in S \ {i} : Earlier(i, j)
      OBVIOUS
    <2>. QED
      BY <2>1, Zenon DEF First
  <1>2. ASSUME First(S) # x
        PROVE  FALSE
    <2>1. PICK y : y = First(S)
      OBVIOUS
    <2>2. Earlier(x, y) /\ Earlier(y, x) /\ x \in Committed /\ y \in Committed
      BY <1>1, <1>2, <2>1
    <2>3. Time(x) \in Nat /\ Time(y) \in Nat /\ x \in Nat /\ y \in Nat
      BY <2>2, TicksFacts
    <2>. QED
      BY <2>2, <2>3 DEF Earlier
  <1>. QED
    BY <1>2

\* The invariant says more than the property.
LEMMA BarHonest ==
  ASSUME BarInv
  PROVE  BarsHonest
  <1>1. SeriesInv /\ TicksTyped /\ PassInv(live) /\ RunInv(backfill)
    BY DEF BarInv, SeriesInv
  <1>2. TypeOK
    BY <1>1 DEF SeriesInv, TicksTyped, PassInv, RunInv, TypeOK
  <1>3. ASSUME NEW s \in Stored
        PROVE  /\ bars[s].seen \in SUBSET Committed
               /\ WholeIn(bars[s].candle, bars[s].seen) /\ KnowableIn(bars[s].candle, bars[s].seen)
               /\ \E i \in bars[s].seen : Time(i) <= s
               /\ bars[s].candle.start = s
    BY <1>1 DEF Stored, SeriesInv, HonestRow
  <1>4. CandlesWhole
    <2> DEFINE held(s) == {i \in bars[s].seen : BucketStart(Time(i)) = s}
    <2>1. ASSUME NEW s \in Stored
          PROVE  /\ bars[s].candle.start = s /\ bars[s].candle.members = held(s)
                 /\ bars[s].candle.open = First(held(s))
                 /\ \A i \in held(s) \ {bars[s].candle.close} : Earlier(i, bars[s].candle.close)
                 /\ \E i \in bars[s].seen : Time(i) <= s
      <3> DEFINE m == held(s)
      <3>1. PICK c : c = bars[s].candle
        OBVIOUS
      <3>2. c.start = s /\ WholeIn(c, bars[s].seen) /\ bars[s].seen \in SUBSET Committed
            /\ \E i \in bars[s].seen : Time(i) <= s
        BY <1>3, <3>1
      <3>3. /\ c.members = m /\ c.open \in m
            /\ \A i \in m \ {c.open} : Earlier(c.open, i)
            /\ \A i \in m \ {c.close} : Earlier(i, c.close)
        BY <3>2 DEF WholeIn
      <3>4. m \in SUBSET Committed
        BY <3>2
      <3> HIDE DEF m
      <3>5. c.open = First(m)
        BY <1>1, <3>3, <3>4, FirstUnique
      <3>. QED
        BY <3>1, <3>2, <3>3, <3>5 DEF m
    <2>. QED
      BY <2>1, Zenon DEF CandlesWhole
  <1>5. KnownHonest
    <2>1. ASSUME NEW s \in Stored, NEW c, c = bars[s].candle
          PROVE  /\ \A i \in c.members : Known(i) <= c.known
                 /\ \E i \in bars[s].seen : Time(i) >= s + Width /\ Known(i) <= c.known
      BY <1>3, <2>1 DEF WholeIn, KnowableIn
    <2>. QED
      BY <2>1, Zenon DEF KnownHonest
  <1>6. QuotesPlaced
    BY <1>1, FeedPlaced
  <1>. QED
    BY <1>2, <1>4, <1>5, <1>6 DEF BarsHonest

\* Whatever width, lookback, batch and clocks, and however many quotes are
\* committed while passes and a backfill run: no stored candle is cut, none is
\* known before what made it knowable, and a feed in the order of reception loses
\* no quote but a late one (BarBuilder, BarService).
THEOREM BarsAreHonest == Spec => []BarsHonest
  <1>1. Init => BarInv
    BY BarInit
  <1>2. BarInv /\ [Next]_vars => BarInv'
    BY BarNext
  <1>3. BarInv => BarsHonest
    BY BarHonest
  <1>. QED
    BY <1>1, <1>2, <1>3, PTL DEF Spec

-----------------------------------------------------------------------------
(* Labels given by people: LabelReview, for any opinions and servers *)

CONSTANTS Opinions, Servers, MaxSaves
VARIABLES file, session, pages, saves, raced, unseen

Review == INSTANCE LabelReview

\* Nothing is served before a file is there.
LEMMA KeptInit == Review!Init => Review!KeptInv
  <1> SUFFICES ASSUME Review!Init PROVE Review!KeptInv
    OBVIOUS
  <1> USE DEF Review!Init, Review!Down, Review!Session
  <1>1. Review!TypeOK
    BY DEF Review!TypeOK, Review!Sessions, Review!Files, Review!Rows
  <1>2. Review!Complete /\ Review!AlwaysWhole /\ Review!WritingAlone
    BY DEF Review!Complete, Review!AlwaysWhole, Review!WritingAlone
  <1>3. Review!Faithful /\ Review!SeenBeforeReplaced
    BY DEF Review!Faithful, Review!Truthful, Review!SeenBeforeReplaced
  <1> QED
    BY <1>1, <1>2, <1>3 DEF Review!KeptInv

\* A file with the labels of an opinion at least is whole.
LEMMA LabelsWhole ==
  ASSUME Opinions # {}, NEW r \in Review!Labels
  PROVE  Review!Whole(<<r>>)
  <1>1. DOMAIN r # {}
    BY DEF Review!Labels
  <1>2. r # <<>>
    BY <1>1
  <1> QED
    BY <1>2 DEF Review!Whole

\* A whole file has labels.
LEMMA WholeLabels ==
  ASSUME file \in Review!Files, Review!Whole(file)
  PROVE  file[1] \in Review!Labels /\ file = <<file[1]>>
    BY DEF Review!Files, Review!Rows, Review!Whole

\* Every step keeps what the servers hold of the file true.
LEMMA KeptNext ==
  ASSUME Opinions # {}, Review!KeptInv, Review!Next
  PROVE  Review!KeptInv'
  <1> USE DEF Review!KeptInv
  <1> PICK s \in Servers :
        \/ Review!Begin(s) \/ Review!Create(s) \/ Review!WriteDrafts(s) \/ Review!Resume(s)
        \/ Review!Open(s)
        \/ Review!Show(s) \/ (\E page \in pages[s], o \in Opinions : Review!Post(s, page, o))
        \/ Review!Recheck(s) \/ Review!Refuse(s) \/ Review!Replace(s) \/ Review!Kill(s)
    BY DEF Review!Next
  <1>0. session[s] \in Review!Sessions
    BY DEF Review!TypeOK
  <1>t. Review!Drafts \in Review!Labels
    BY DEF Review!Drafts, Review!Labels
  <1>1. CASE Review!Begin(s)
    <2>1. Review!TypeOK'
      BY <1>0, <1>t, <1>1
      DEF Review!Begin, Review!Session, Review!TypeOK, Review!Sessions, Review!Files, Review!Rows
    <2>2. Review!Complete' /\ Review!AlwaysWhole' /\ Review!WritingAlone'
      BY <1>t, <1>1
      DEF Review!Begin, Review!Session, Review!TypeOK, Review!Complete, Review!AlwaysWhole,
          Review!WritingAlone
    <2>3. Review!Faithful' /\ Review!SeenBeforeReplaced'
      BY <1>1
      DEF Review!Begin, Review!Session, Review!TypeOK, Review!Faithful, Review!SeenBeforeReplaced,
          Review!Down
    <2> QED
      BY <2>1, <2>2, <2>3
  <1>2. CASE Review!Create(s)
    <2>0. CASE file = <<>>
      <3>a. \A t \in Servers : session[t].stage \in {"down", "creating"}
        BY <2>0
        DEF Review!AlwaysWhole, Review!WritingAlone, Review!Whole, Review!TypeOK, Review!Sessions
      <3>1. /\ file' = << <<>> >>
            /\ session' = [session EXCEPT ![s].stage = "writing"]
            /\ UNCHANGED <<pages, saves, raced, unseen>>
        BY <2>0, <1>2 DEF Review!Create, Review!Move
      <3>2. Review!TypeOK'
        BY <1>0, <3>1 DEF Review!TypeOK, Review!Sessions, Review!Files, Review!Rows
      <3>3. Review!Complete' /\ Review!AlwaysWhole' /\ Review!WritingAlone'
        BY <1>0, <1>2, <3>a, <3>1
        DEF Review!Create, Review!TypeOK, Review!Sessions, Review!Complete, Review!AlwaysWhole,
            Review!WritingAlone
      <3>4. Review!Faithful' /\ Review!SeenBeforeReplaced'
        BY <1>0, <3>a, <3>1
        DEF Review!TypeOK, Review!Sessions, Review!Faithful, Review!SeenBeforeReplaced
      <3> QED
        BY <3>2, <3>3, <3>4
    <2>1. CASE file # <<>>
      <3>1. session' = [session EXCEPT ![s] = Review!Down]
            /\ UNCHANGED <<file, pages, saves, raced, unseen>>
        BY <2>1, <1>2 DEF Review!Create
      <3>2. Review!TypeOK'
        BY <3>1
        DEF Review!Down, Review!Session, Review!TypeOK, Review!Sessions, Review!Files, Review!Rows
      <3>3. Review!Complete' /\ Review!AlwaysWhole' /\ Review!WritingAlone'
        BY <3>1
        DEF Review!Down, Review!Session, Review!TypeOK, Review!Complete, Review!AlwaysWhole,
            Review!WritingAlone, Review!Whole
      <3>4. Review!Faithful' /\ Review!SeenBeforeReplaced'
        BY <3>1
        DEF Review!Down, Review!Session, Review!TypeOK, Review!Faithful, Review!SeenBeforeReplaced
      <3> QED
        BY <3>2, <3>3, <3>4
    <2> QED
      BY <2>0, <2>1
  <1>3. CASE Review!WriteDrafts(s)
    <2>0. session[s].rows \in Review!Labels /\ Review!Whole(<<session[s].rows>>)
      BY <1>3, LabelsWhole DEF Review!WriteDrafts, Review!Complete
    <2>a. \A t \in Servers \ {s} : session[t].stage \in {"down", "creating"}
      BY <1>3
      DEF Review!WriteDrafts, Review!WritingAlone, Review!AlwaysWhole, Review!Whole,
          Review!TypeOK, Review!Sessions
    <2>1. Review!TypeOK'
      BY <1>0, <2>0, <1>3
      DEF Review!WriteDrafts, Review!Move, Review!TypeOK, Review!Sessions, Review!Files, Review!Rows
    <2>2. Review!Complete' /\ Review!AlwaysWhole' /\ Review!WritingAlone'
      BY <1>0, <2>0, <2>a, <1>3
      DEF Review!WriteDrafts, Review!Move, Review!TypeOK, Review!Sessions, Review!Complete,
          Review!AlwaysWhole, Review!WritingAlone, Review!Whole
    <2>3. Review!Faithful' /\ Review!SeenBeforeReplaced'
      BY <1>0, <2>a, <1>3
      DEF Review!WriteDrafts, Review!Move, Review!TypeOK, Review!Sessions, Review!Faithful,
          Review!SeenBeforeReplaced
    <2> QED
      BY <2>1, <2>2, <2>3
  <1>4. CASE Review!Resume(s)
    <2>0. file[1] \in Review!Labels /\ file = <<file[1]>>
      BY <1>4, WholeLabels DEF Review!Resume, Review!TypeOK
    <2>1. Review!TypeOK'
      BY <1>0, <2>0, <1>4
      DEF Review!Resume, Review!Session, Review!TypeOK, Review!Sessions, Review!Files, Review!Rows
    <2>2. Review!Complete' /\ Review!AlwaysWhole' /\ Review!WritingAlone'
      BY <1>0, <2>0, <1>4
      DEF Review!Resume, Review!Session, Review!TypeOK, Review!Complete, Review!AlwaysWhole,
          Review!WritingAlone, Review!Whole
    <2>3. Review!Faithful' /\ Review!SeenBeforeReplaced'
      BY <1>0, <2>0, <1>4
      DEF Review!Resume, Review!Session, Review!TypeOK, Review!Faithful, Review!SeenBeforeReplaced
    <2> QED
      BY <2>1, <2>2, <2>3
  <1>5. CASE Review!Open(s)
    <2>0. session[s].rows \in Review!Labels
      BY <1>5 DEF Review!Open, Review!Complete
    <2>1. Review!TypeOK'
      BY <1>0, <2>0, <1>5
      DEF Review!Open, Review!Session, Review!TypeOK, Review!Sessions, Review!Files, Review!Rows
    <2>2. Review!Complete' /\ Review!AlwaysWhole' /\ Review!WritingAlone'
      BY <1>0, <2>0, <1>5
      DEF Review!Open, Review!Session, Review!TypeOK, Review!Complete, Review!AlwaysWhole,
          Review!WritingAlone, Review!Whole
    <2>3. Review!Faithful' /\ Review!SeenBeforeReplaced'
      BY <1>0, <1>5
      DEF Review!Open, Review!Session, Review!TypeOK, Review!Faithful, Review!SeenBeforeReplaced
    <2> QED
      BY <2>1, <2>2, <2>3
  <1>6. CASE Review!Show(s)
    <2>1. Review!TypeOK'
      BY <1>0, <1>6 DEF Review!Show, Review!TypeOK, Review!Sessions
    <2>2. Review!Complete' /\ Review!AlwaysWhole' /\ Review!WritingAlone'
      BY <1>6
      DEF Review!Show, Review!Complete, Review!AlwaysWhole, Review!WritingAlone, Review!Whole
    <2>3. Review!Faithful' /\ Review!SeenBeforeReplaced'
      BY <1>0, <1>6
      DEF Review!Show, Review!TypeOK, Review!Faithful, Review!Truthful, Review!SeenBeforeReplaced
    <2> QED
      BY <2>1, <2>2, <2>3
  <1>7. ASSUME NEW page \in pages[s], NEW o \in Opinions, Review!Post(s, page, o)
        PROVE  Review!KeptInv'
    <2> PICK label \in {0, saves + 1} :
          session' = [session EXCEPT ![s] =
            [stage |-> "written", rows |-> session[s].rows, revision |-> session[s].revision,
             data |-> [session[s].rows EXCEPT ![o] = label], shown |-> page.rows]]
      BY <1>7 DEF Review!Post
    <2>0. session[s].rows \in Review!Labels
          /\ [session[s].rows EXCEPT ![o] = label] \in Review!Labels
      BY <1>7 DEF Review!Post, Review!Complete, Review!Labels, Review!TypeOK
    <2>p. page \in [rows : Review!Rows, revision : Review!Files]
      BY DEF Review!TypeOK
    <2>1. Review!TypeOK'
      BY <1>0, <2>0, <2>p, <1>7
      DEF Review!Post, Review!TypeOK, Review!Sessions, Review!Files, Review!Rows
    <2>2. Review!Complete' /\ Review!AlwaysWhole' /\ Review!WritingAlone'
      BY <1>0, <2>0, <1>7
      DEF Review!Post, Review!TypeOK, Review!Complete, Review!AlwaysWhole, Review!WritingAlone,
          Review!Whole
    <2>s. s \notin raced => page.rows = session[s].rows
      <3> SUFFICES ASSUME s \notin raced PROVE page.rows = session[s].rows
        OBVIOUS
      <3>1. page.revision = <<page.rows>>
        BY DEF Review!Faithful, Review!Truthful
      <3>2. page.revision = <<session[s].rows>>
        BY <1>7 DEF Review!Post, Review!Faithful
      <3> QED
        BY <3>1, <3>2
    <2>3. Review!Faithful' /\ Review!SeenBeforeReplaced'
      BY <1>0, <2>s, <1>7 DEF Review!Post, Review!TypeOK, Review!Faithful, Review!SeenBeforeReplaced
    <2> QED
      BY <2>1, <2>2, <2>3
  <1>8. CASE Review!Recheck(s)
    <2>1. Review!TypeOK'
      BY <1>0, <1>8 DEF Review!Recheck, Review!Move, Review!TypeOK, Review!Sessions
    <2>2. Review!Complete' /\ Review!AlwaysWhole' /\ Review!WritingAlone'
      BY <1>0, <1>8
      DEF Review!Recheck, Review!Move, Review!TypeOK, Review!Sessions, Review!Complete,
          Review!AlwaysWhole, Review!WritingAlone, Review!Whole
    <2>3. Review!Faithful' /\ Review!SeenBeforeReplaced'
      BY <1>0, <1>8
      DEF Review!Recheck, Review!Move, Review!CheckDisk, Review!TypeOK, Review!Sessions,
          Review!Faithful, Review!SeenBeforeReplaced
    <2> QED
      BY <2>1, <2>2, <2>3
  <1>9. CASE Review!Refuse(s)
    <2>0. session[s].rows \in Review!Labels
      BY <1>9 DEF Review!Refuse, Review!Complete
    <2>1. Review!TypeOK'
      BY <1>0, <2>0, <1>9
      DEF Review!Refuse, Review!Session, Review!TypeOK, Review!Sessions, Review!Files, Review!Rows
    <2>2. Review!Complete' /\ Review!AlwaysWhole' /\ Review!WritingAlone'
      BY <1>0, <2>0, <1>9
      DEF Review!Refuse, Review!Session, Review!TypeOK, Review!Complete, Review!AlwaysWhole,
          Review!WritingAlone, Review!Whole
    <2>3. Review!Faithful' /\ Review!SeenBeforeReplaced'
      BY <1>0, <1>9
      DEF Review!Refuse, Review!Session, Review!TypeOK, Review!Faithful, Review!SeenBeforeReplaced
    <2> QED
      BY <2>1, <2>2, <2>3
  <1>10. CASE Review!Replace(s)
    <2>0. session[s].data \in Review!Labels /\ Review!Whole(<<session[s].data>>)
      BY <1>10, LabelsWhole DEF Review!Replace, Review!Complete
    <2>1. Review!TypeOK'
      BY <1>0, <2>0, <1>10
      DEF Review!Replace, Review!Session, Review!Overtaken, Review!TypeOK, Review!Sessions,
          Review!Files, Review!Rows
    <2>2. Review!Complete' /\ Review!AlwaysWhole' /\ Review!WritingAlone'
      BY <1>0, <2>0, <1>10
      DEF Review!Replace, Review!Session, Review!TypeOK, Review!Complete, Review!AlwaysWhole,
          Review!WritingAlone, Review!Whole
    <2>3. Review!Faithful'
      BY <1>0, <1>10
      DEF Review!Replace, Review!Session, Review!Overtaken, Review!TypeOK, Review!Sessions,
          Review!Faithful
    <2>4. Review!SeenBeforeReplaced'
      BY <1>10 DEF Review!Replace, Review!Faithful, Review!SeenBeforeReplaced
    <2> QED
      BY <2>1, <2>2, <2>3, <2>4
  <1>11. CASE Review!Kill(s)
    <2>1. Review!TypeOK'
      BY <1>11
      DEF Review!Kill, Review!Down, Review!Session, Review!TypeOK, Review!Sessions, Review!Files,
          Review!Rows
    <2>2. Review!Complete' /\ Review!AlwaysWhole' /\ Review!WritingAlone'
      BY <1>11
      DEF Review!Kill, Review!Down, Review!Session, Review!TypeOK, Review!Complete,
          Review!AlwaysWhole, Review!WritingAlone, Review!Whole
    <2>3. Review!Faithful' /\ Review!SeenBeforeReplaced'
      BY <1>11
      DEF Review!Kill, Review!Down, Review!Session, Review!TypeOK, Review!Faithful,
          Review!Truthful, Review!SeenBeforeReplaced
    <2> QED
      BY <2>1, <2>2, <2>3
  <1> QED
    BY <1>1, <1>2, <1>3, <1>4, <1>5, <1>6, <1>7, <1>8, <1>9, <1>10, <1>11

\* The labels of people are kept, for any opinions, servers and number of
\* saves: an action that writes the file either holds what its page showed or
\* was overtaken, and no server serves a file that is being created.
THEOREM LabelsAreKept ==
  ASSUME Opinions # {}
  PROVE  Review!Spec => []Review!LabelsKept
  <1>1. Review!KeptInv /\ [Review!Next]_(Review!vars) => Review!KeptInv'
    <2>1. Review!KeptInv /\ UNCHANGED Review!vars => Review!KeptInv'
      BY DEF Review!vars, Review!KeptInv, Review!TypeOK, Review!Complete, Review!AlwaysWhole,
             Review!WritingAlone, Review!Faithful, Review!SeenBeforeReplaced, Review!Truthful,
             Review!Whole
    <2> QED
      BY <2>1, KeptNext
  <1>2. Review!KeptInv => Review!LabelsKept
    BY DEF Review!KeptInv, Review!LabelsKept
  <1> QED
    BY KeptInit, <1>1, <1>2, PTL DEF Review!Spec

-----------------------------------------------------------------------------
(* One released figure: Vintages, for any values, collectors and windows *)

CONSTANTS Values, Collectors, WindowSize, MaxDate
VARIABLES now, released, stored, batch, pulled, seen

Figures == INSTANCE Vintages WITH MaxTime <- MaxDate

Vintage == [at : Nat \ {0}, value : Values]

\* The releases come one after another, the first at instant 1.
ReleasesInOrder ==
  /\ now \in Nat \ {0}
  /\ released \in Seq(Vintage) /\ Len(released) >= 1 /\ released[1].at = 1
  /\ \A i, j \in 1 .. Len(released) : i < j => released[i].at < released[j].at
  /\ \A i \in 1 .. Len(released) : released[i].at <= now

\* The i-th release is the current one at t.
IsCurrent(i, t) ==
  /\ i \in 1 .. Len(released) /\ released[i].at <= t
  /\ \A j \in 1 .. Len(released) : released[j].at <= t => j <= i

\* What is current is the last release so far.
LEMMA CurrentIs ==
  ASSUME ReleasesInOrder, NEW t \in Nat, NEW i, IsCurrent(i, t)
  PROVE  Figures!Current(t) = released[i].value
  <1> DEFINE upTo == {r \in ToSet(released) : r.at <= t}
             latest == CHOOSE r \in upTo : \A q \in upTo : q.at <= r.at
  <1>1. Figures!Current(t) = latest.value
    BY Zenon DEF Figures!Current, Figures!ToSet, ToSet
  <1>2. \A j \in 1 .. Len(released) : released[j] \in Vintage
    BY DEF ReleasesInOrder
  <1>3. \A r \in upTo : \E j \in 1 .. Len(released) : r = released[j] /\ released[j].at <= t
    BY DEF ToSet, ReleasesInOrder
  <1>4. released[i] \in upTo
    BY DEF ToSet, ReleasesInOrder, IsCurrent
  <1>5. \A j \in 1 .. Len(released) : released[j].at \in Nat
    BY <1>2 DEF Vintage
  <1>6. \A j \in 1 .. Len(released) : released[j].at <= t => released[j].at <= released[i].at
    <2> SUFFICES ASSUME NEW j \in 1 .. Len(released), released[j].at <= t
                 PROVE  released[j].at <= released[i].at
      OBVIOUS
    <2>1. j <= i /\ i \in 1 .. Len(released) /\ Len(released) \in Nat
      BY DEF IsCurrent, ReleasesInOrder
    <2>2. j = i \/ j < i
      BY <2>1
    <2>3. j < i => released[j].at < released[i].at
      BY <2>1 DEF ReleasesInOrder
    <2>4. released[j].at \in Nat /\ released[i].at \in Nat
      BY <1>5, <2>1
    <2>. QED
      BY <2>2, <2>3, <2>4
  <1> HIDE DEF upTo
  <1>7. \A q \in upTo : q.at <= released[i].at
    BY <1>3, <1>6
  <1>8. latest \in upTo /\ \A q \in upTo : q.at <= latest.at
    BY <1>4, <1>7
  <1>9. PICK j \in 1 .. Len(released) : latest = released[j] /\ released[j].at <= t
    BY <1>3, <1>8
  <1>10. latest.at = released[i].at
    <2>1. latest.at <= released[i].at /\ released[i].at <= latest.at
      BY <1>4, <1>7, <1>8
    <2>2. latest.at \in Nat /\ released[i].at \in Nat
      BY <1>5, <1>9 DEF IsCurrent
    <2>. QED
      BY <2>1, <2>2
  <1>11. j = i
    <2>1. j \in 1 .. Len(released) /\ i \in 1 .. Len(released) /\ Len(released) \in Nat
      BY DEF IsCurrent, ReleasesInOrder
    <2>2. released[j].at = released[i].at /\ released[i].at \in Nat
      BY <1>5, <1>9, <1>10, <2>1
    <2>3. ~(j < i) /\ ~(i < j)
      BY <2>1, <2>2 DEF ReleasesInOrder
    <2>. QED
      BY <2>1, <2>3
  <1>. QED
    BY <1>1, <1>9, <1>11

\* At every instant one release is the current one.
LEMMA SomeCurrent ==
  ASSUME ReleasesInOrder, NEW t \in Nat \ {0}
  PROVE  \E i : IsCurrent(i, t)
  <1> DEFINE n == Len(released)
             upTo == {j \in 1 .. n : released[j].at <= t}
  <1>1. n \in Nat /\ n >= 1 /\ released[1].at = 1
    BY DEF ReleasesInOrder
  <1>2. 1 \in upTo
    BY <1>1
  <1>3. upTo \in SUBSET (1 .. n) /\ upTo # {}
    BY <1>2
  <1>4. Max(upTo) \in upTo /\ \A j \in upTo : j <= Max(upTo)
    BY <1>1, <1>3, MaxUpTo
  <1>. QED
    BY <1>4 DEF IsCurrent

\* Only the first of a sequence is left out: the others remain.
LEMMA FilterRest ==
  ASSUME NEW X, NEW w \in Seq(X), Len(w) >= 1, NEW S,
         w[1] \notin S, \A k \in 2 .. Len(w) : w[k] \in S
  PROVE  Filtered(w, S) = SubSeq(w, 2, Len(w))
  <1> DEFINE n == Len(w)
  <1>1. n \in Nat /\ n >= 1
    OBVIOUS
  <1>2. PICK run : Keeps(run, X, w, S)
    BY FilterRun
  <1> DEFINE T == {k \in 0 .. n : run[k] = SubSeq(w, 2, k)}
  <1>3. 0 \in T
    <2>1. SubSeq(w, 2, 0) = <<>>
      BY SubSeqEmpty
    <2>. QED
      BY <1>1, <1>2, <2>1 DEF Keeps
  <1>4. \A k \in 0 .. n : k \in T /\ k < n => k + 1 \in T
    <2> SUFFICES ASSUME NEW k \in 0 .. n, k \in T, k < n
                 PROVE  run[k + 1] = SubSeq(w, 2, k + 1)
      BY <1>1
    <2>1. k + 1 \in 1 .. n /\ (k + 1) - 1 = k
      BY <1>1
    <2>2. run[k + 1] = IF w[k + 1] \in S THEN Append(run[k], w[k + 1]) ELSE run[k]
      BY <1>2, <2>1 DEF Keeps
    <2>3. CASE k = 0
      <3>1. run[1] = SubSeq(w, 2, 0)
        BY <2>2, <2>3
      <3>2. SubSeq(w, 2, 0) = <<>> /\ SubSeq(w, 2, 1) = <<>>
        BY SubSeqEmpty
      <3>. QED
        BY <2>3, <3>1, <3>2
    <2>4. CASE k # 0
      <3>1. k + 1 \in 2 .. n
        BY <2>1, <2>4, <1>1
      <3>2. run[k + 1] = Append(SubSeq(w, 2, k), w[k + 1])
        BY <2>2, <3>1
      <3>3. 2 \in 1 .. Len(w) /\ k + 1 \in 2 .. Len(w)
        BY <3>1, <1>1
      <3>4. SubSeq(w, 2, k + 1) = SubSeq(w, 2, k) \o << w[k + 1] >>
        BY <2>1, <3>3, SubSeqRecursiveSecond
      <3>5. SubSeq(w, 2, k) \in Seq(X) /\ w[k + 1] \in X
        <4>1. \A i \in 2 .. k : w[i] \in X
          BY <3>1, <1>1
        <4>. QED
          BY <4>1, <2>1, <3>1, SubSeqProperties
      <3>6. Append(SubSeq(w, 2, k), w[k + 1]) = SubSeq(w, 2, k) \o << w[k + 1] >>
        BY <3>5, AppendIsConcat
      <3>. QED
        BY <3>2, <3>4, <3>6
    <2>. QED
      BY <2>3, <2>4
  <1> HIDE DEF T, n
  <1>5. n \in T
    <2>1. 0 .. n \subseteq T
      BY <1>1, <1>3, <1>4, InductionTo
    <2>. QED
      BY <1>1, <2>1
  <1>. QED
    BY <1>2, <1>5 DEF T, Keeps, n

\* A window: releases that follow each other, from the one current at its start.
IsWindow(w, from, to) ==
  /\ from \in 1 .. Len(released) /\ to \in from .. Len(released)
  /\ w = SubSeq(released, from, to)

\* What is observed in it are its releases: the clamped first row is one of them.
LEMMA WindowObserved ==
  ASSUME ReleasesInOrder, NEW w, NEW from, NEW to, IsWindow(w, from, to)
  PROVE  Figures!Observations(w) = w
  <1> DEFINE n == Len(w)
             start == Head(w).at
             within == {r \in ToSet(w) : r.at > start}
  <1>1. /\ from \in Nat /\ to \in Nat /\ 1 <= from /\ from <= to /\ to <= Len(released)
        /\ Len(released) \in Nat /\ released \in Seq(Vintage)
        /\ \A i \in 1 .. Len(released) : released[i] \in Vintage
    BY DEF IsWindow, ReleasesInOrder
  <1>2. /\ w \in Seq(Vintage) /\ n = to - from + 1
        /\ \A i \in 1 .. n : w[i] = released[from + i - 1]
    <2>1. \A i \in from .. to : released[i] \in Vintage
      BY <1>1
    <2>2. /\ w \in Seq(Vintage) /\ n = IF from <= to THEN to - from + 1 ELSE 0
          /\ \A i \in 1 .. to - from + 1 : w[i] = released[from + i - 1]
      BY <1>1, <2>1, SubSeqProperties DEF IsWindow
    <2>. QED
      BY <1>1, <2>2
  <1>3. n \in Nat /\ n >= 1 /\ w # <<>>
    BY <1>1, <1>2
  <1>4. Head(w) = w[1] /\ w[1] = released[from]
    BY <1>1, <1>2, <1>3
  <1>5. Figures!Current(start) = w[1].value
    <2>1. IsCurrent(from, released[from].at)
      <3>1. \A j \in 1 .. Len(released) : released[j].at <= released[from].at => j <= from
        <4> SUFFICES ASSUME NEW j \in 1 .. Len(released), from < j
                     PROVE  ~(released[j].at <= released[from].at)
          BY <1>1
        <4>1. released[from].at < released[j].at
          BY <1>1 DEF ReleasesInOrder
        <4>2. released[from].at \in Nat /\ released[j].at \in Nat
          BY <1>1 DEF Vintage
        <4>. QED
          BY <4>1, <4>2
      <3>2. released[from].at \in Nat
        BY <1>1 DEF Vintage
      <3>. QED
        BY <1>1, <3>1, <3>2 DEF IsCurrent
    <2>2. released[from].at \in Nat
      BY <1>1 DEF Vintage
    <2>3. Figures!Current(released[from].at) = released[from].value
      BY <2>1, <2>2, CurrentIs
    <2>. QED
      BY <2>3, <1>4
  <1>6. [at |-> start, value |-> Figures!Current(start)] = w[1]
    <2>1. w[1] \in Vintage
      BY <1>1, <1>4
    <2>. QED
      BY <1>4, <1>5, <2>1 DEF Vintage
  <1>7. w[1] \notin within
    <2>1. w[1].at \in Nat
      BY <1>1, <1>4 DEF Vintage
    <2>. QED
      BY <1>4, <2>1
  <1>8. \A k \in 2 .. n : w[k] \in within
    <2> SUFFICES ASSUME NEW k \in 2 .. n
                 PROVE  w[k] \in ToSet(w) /\ w[k].at > start
      OBVIOUS
    <2>1. k \in 1 .. n /\ from + k - 1 \in 1 .. Len(released) /\ from < from + k - 1
      BY <1>1, <1>2, <1>3
    <2>2. w[k] = released[from + k - 1]
      BY <1>2, <2>1
    <2>3. released[from].at < released[from + k - 1].at
      BY <1>1, <2>1 DEF ReleasesInOrder
    <2>4. released[from].at \in Nat /\ released[from + k - 1].at \in Nat
      <3>1. \A i \in 1 .. Len(released) : released[i] \in Vintage
        BY <1>1
      <3>2. \A i \in 1 .. Len(released) : released[i].at \in Nat
        BY <3>1 DEF Vintage
      <3>3. from \in 1 .. Len(released)
        BY <1>1
      <3>. QED
        BY <2>1, <3>2, <3>3
    <2>5. w[k] \in ToSet(w)
      BY <1>2, <2>1 DEF ToSet
    <2>. QED
      BY <1>4, <2>2, <2>3, <2>4, <2>5
  <1>9. Figures!Observations(w) =
          <<[at |-> start, value |-> Figures!Current(start)]>> \o Filtered(w, within)
    BY Zenon DEF Figures!Observations, Figures!ToSet, ToSet, Filtered, FoldLeft, Figures!FoldLeft,
                 MapThenFoldSet, Figures!MapThenFoldSet, Max, Figures!Max
  <1> HIDE DEF within, start
  <1>10. Filtered(w, within) = SubSeq(w, 2, n)
    BY <1>2, <1>3, <1>7, <1>8, FilterRest
  <1>11. w = <<w[1]>> \o SubSeq(w, 2, n)
    <2>1. SubSeq(w, 1, n) = w
      BY <1>2, SubSeqFull
    <2>2. 1 \in 1 .. Len(w) /\ n \in 1 .. Len(w)
      BY <1>3
    <2>3. SubSeq(w, 1, n) = << w[1] >> \o SubSeq(w, 1 + 1, n)
      BY <1>2, <2>2, SubSeqRecursiveFirst
    <2>. QED
      BY <2>1, <2>3
  <1>. QED
    BY <1>6, <1>9, <1>10, <1>11

\* The windows of n releases: each is full but the last, which holds the rest.
LEMMA Windowed ==
  ASSUME NEW n \in Nat, n >= 1, NEW w \in Nat, w >= 1
  PROVE  LET count == (n + w - 1) \div w
         IN  /\ count \in Nat /\ count >= 1 /\ n <= count * w
             /\ \A k \in 1 .. count : (k - 1) * w \in Nat /\ (k - 1) * w < n
                                      /\ k * w \in Nat /\ (k - 1) * w + w = k * w
  <1> DEFINE count == (n + w - 1) \div w
             rest == (n + w - 1) % w
  <1>1. n + w - 1 \in Nat
    OBVIOUS
  <1>2. \A a \in Nat : /\ a \div w \in Nat /\ a % w \in 0 .. w - 1
                       /\ a = w * (a \div w) + (a % w)
    OBVIOUS
  <1>3. count \in Nat /\ rest \in 0 .. w - 1 /\ n + w - 1 = w * count + rest
    BY <1>1, <1>2
  <1> HIDE DEF count, rest
  <1>4. w * count \in Nat /\ w * count = count * w
    BY <1>3
  <1>5. n <= count * w /\ count * w < n + w
    BY <1>3, <1>4
  <1>6. count # 0
    BY <1>3, <1>4, <1>5
  <1>7. \A k \in Nat : k * w \in Nat
    OBVIOUS
  <1>8. \A k \in Nat : k >= 1 => (k - 1) * w + w = k * w
    OBVIOUS
  <1>9. \A a, b \in Nat : a <= b => a * w <= b * w
    <2> SUFFICES ASSUME NEW a \in Nat, NEW b \in Nat, a <= b
                 PROVE  a * w <= b * w
      OBVIOUS
    <2>1. PICK d \in Nat : b = a + d
      <3>1. b - a \in Nat /\ b = a + (b - a)
        OBVIOUS
      <3>. QED
        BY <3>1
    <2>2. b * w = a * w + d * w /\ a * w \in Nat /\ d * w \in Nat
      BY <2>1
    <2>. QED
      BY <2>2
  <1>10. ASSUME NEW k \in 1 .. count
         PROVE  (k - 1) * w \in Nat /\ (k - 1) * w < n /\ k * w \in Nat
                /\ (k - 1) * w + w = k * w
    <2>1. k \in Nat /\ k - 1 \in Nat /\ k >= 1 /\ k <= count /\ k - 1 <= count - 1
          /\ count - 1 \in Nat
      BY <1>3, <1>6
    <2>2. (k - 1) * w <= (count - 1) * w
      BY <1>9, <2>1
    <2>3. (count - 1) * w + w = count * w
      <3>1. count \in Nat /\ count >= 1
        BY <1>3, <2>1
      <3>. QED
        BY <1>8, <3>1, Zenon
    <2>4. (k - 1) * w \in Nat /\ (count - 1) * w \in Nat /\ count * w \in Nat
      BY <1>3, <1>7, <2>1
    <2>5. (k - 1) * w < n
      BY <1>5, <2>2, <2>3, <2>4
    <2>6. k * w \in Nat /\ (k - 1) * w + w = k * w
      BY <1>7, <1>8, <2>1
    <2>. QED
      BY <2>4, <2>5, <2>6
  <1>. QED
    BY <1>3, <1>5, <1>6, <1>10 DEF count

\* The lesser of two numbers.
LEMMA LesserOf ==
  \A a, b \in Nat : Figures!Min({a, b}) = IF a <= b THEN a ELSE b
  <1> SUFFICES ASSUME NEW a \in Nat, NEW b \in Nat
               PROVE  Figures!Min({a, b}) = IF a <= b THEN a ELSE b
    OBVIOUS
  <1> DEFINE m == Figures!Min({a, b})
  <1>1. m = CHOOSE x \in {a, b} : \A y \in {a, b} : x =< y
    BY Zenon DEF Figures!Min
  <1>2. \E x \in {a, b} : \A y \in {a, b} : x =< y
    OBVIOUS
  <1>3. m \in {a, b} /\ \A y \in {a, b} : m =< y
    BY <1>1, <1>2
  <1>. QED
    BY <1>3

\* Pieces of a sequence that follow each other.
Pieces(parts, s, ends) ==
  /\ Len(parts) >= 1 /\ parts \in Seq(Seq(Vintage))
  /\ ends \in [0 .. Len(parts) -> 0 .. Len(s)] /\ ends[0] = 0 /\ ends[Len(parts)] = Len(s)
  /\ \A k \in 1 .. Len(parts) : /\ ends[k - 1] <= ends[k]
                                /\ parts[k] = SubSeq(s, ends[k - 1] + 1, ends[k])

\* Put together, they are the sequence.
LEMMA Rejoined ==
  ASSUME NEW s \in Seq(Vintage), NEW parts, NEW ends, Pieces(parts, s, ends)
  PROVE  Figures!FlattenSeq(parts) = s
  <1> DEFINE n == Len(parts)
             Accumulates(f) == f = [i \in 1 .. n |-> IF i = 1 THEN parts[i] ELSE f[i - 1] \o parts[i]]
             joined == CHOOSE f : Accumulates(f)
             upTo == [i \in 1 .. n |-> SubSeq(s, 1, ends[i])]
  <1>1. /\ n \in Nat /\ n >= 1 /\ Len(s) \in Nat
        /\ ends[0] = 0 /\ ends[n] = Len(s) /\ \A k \in 0 .. n : ends[k] \in 0 .. Len(s)
        /\ \A k \in 1 .. n : ends[k - 1] <= ends[k] /\ parts[k] = SubSeq(s, ends[k - 1] + 1, ends[k])
    <2>1. n \in Nat /\ n >= 1 /\ Len(s) \in Nat
      BY DEF Pieces
    <2>2. ends[0] = 0 /\ ends[n] = Len(s) /\ \A k \in 0 .. n : ends[k] \in 0 .. Len(s)
      BY DEF Pieces
    <2>3. \A k \in 1 .. n : ends[k - 1] <= ends[k] /\ parts[k] = SubSeq(s, ends[k - 1] + 1, ends[k])
      BY Zenon DEF Pieces
    <2>. QED
      BY <2>1, <2>2, <2>3
  <1>2. Figures!FlattenSeq(parts) = joined[n]
    <2>1. Len(parts) # 0
      BY <1>1
    <2>. QED
      BY <2>1, Zenon DEF Figures!FlattenSeq
  <1>3. \A i \in 2 .. n : SubSeq(s, 1, ends[i - 1]) \o parts[i] = SubSeq(s, 1, ends[i])
    <2> SUFFICES ASSUME NEW i \in 2 .. n
                 PROVE  SubSeq(s, 1, ends[i - 1]) \o parts[i] = SubSeq(s, 1, ends[i])
      OBVIOUS
    <2>1. i \in 1 .. n /\ i - 1 \in 0 .. n /\ i \in 0 .. n
      BY <1>1
    <2>2. /\ ends[i - 1] \in 0 .. Len(s) /\ ends[i] \in 0 .. Len(s) /\ ends[i - 1] <= ends[i]
          /\ parts[i] = SubSeq(s, ends[i - 1] + 1, ends[i])
      BY <1>1, <2>1
    <2>3. 1 \in 1 .. Len(s) + 1 /\ ends[i - 1] \in 1 - 1 .. Len(s) /\ ends[i] \in ends[i - 1] .. Len(s)
      BY <1>1, <2>2
    <2>. QED
      BY <2>2, <2>3, ConcatAdjacentSubSeq
  <1>4. parts[1] = SubSeq(s, 1, ends[1])
    <2>1. 1 \in 1 .. n
      BY <1>1
    <2>2. ends[1 - 1] = 0
      BY <1>1
    <2>3. parts[1] = SubSeq(s, ends[1 - 1] + 1, ends[1])
      BY <1>1, <2>1
    <2>. QED
      BY <2>2, <2>3
  <1> HIDE DEF n
  <1>5. Accumulates(upTo)
    <2>1. ASSUME NEW i \in 1 .. n
          PROVE  upTo[i] = IF i = 1 THEN parts[i] ELSE upTo[i - 1] \o parts[i]
      <3>1. CASE i = 1
        BY <1>4, <3>1
      <3>2. CASE i # 1
        <4>1. i \in 2 .. n /\ i - 1 \in 1 .. n
          BY <1>1, <3>2
        <4>. QED
          BY <1>3, <3>2, <4>1
      <3>. QED
        BY <3>1, <3>2
    <2>2. upTo = [i \in 1 .. n |-> upTo[i]]
      OBVIOUS
    <2> HIDE DEF upTo
    <2>. QED
      BY <2>1, <2>2
  <1>6. Accumulates(joined)
    <2> HIDE DEF Accumulates, upTo
    <2>. QED
      BY <1>5, Zenon
  <1>7. \A i \in 1 .. n : joined[i] = IF i = 1 THEN parts[i] ELSE joined[i - 1] \o parts[i]
    BY <1>6, Zenon
  <1> HIDE DEF joined, Accumulates, upTo
  <1> DEFINE T == {k \in 0 .. n : k >= 1 => joined[k] = SubSeq(s, 1, ends[k])}
  <1>8. 0 \in T
    BY <1>1
  <1>9. \A k \in 0 .. n : k \in T /\ k < n => k + 1 \in T
    <2> SUFFICES ASSUME NEW k \in 0 .. n, k \in T, k < n
                 PROVE  joined[k + 1] = SubSeq(s, 1, ends[k + 1])
      BY <1>1
    <2>1. k + 1 \in 1 .. n /\ (k + 1) - 1 = k
      BY <1>1
    <2>2. CASE k = 0
      <3>1. joined[1] = parts[1]
        BY <1>1, <1>7
      <3>. QED
        BY <1>4, <2>2, <3>1
    <2>3. CASE k # 0
      <3>1. k + 1 \in 2 .. n /\ k + 1 # 1 /\ k >= 1
        BY <2>1, <2>3
      <3>2. joined[k + 1] = joined[k] \o parts[k + 1]
        BY <1>7, <2>1, <3>1
      <3>3. joined[k] = SubSeq(s, 1, ends[k])
        BY <3>1
      <3>4. SubSeq(s, 1, ends[k]) \o parts[k + 1] = SubSeq(s, 1, ends[k + 1])
        BY <1>3, <2>1, <3>1
      <3>. QED
        BY <3>2, <3>3, <3>4
    <2>. QED
      BY <2>2, <2>3
  <1> HIDE DEF T
  <1>10. n \in T
    <2>1. 0 .. n \subseteq T
      BY <1>1, <1>8, <1>9, InductionTo
    <2>. QED
      BY <1>1, <2>1
  <1>11. joined[n] = SubSeq(s, 1, Len(s))
    BY <1>1, <1>10 DEF T
  <1>. QED
    BY <1>2, <1>11, SubSeqFull

\* However the vintage dates are cut into windows, what they yield is the history.
LEMMA WindowsYieldHistory ==
  ASSUME ReleasesInOrder, WindowSize \in Nat \ {0}
  PROVE  LET windows == Figures!VintageWindows(released)
         IN  Figures!FlattenSeq([k \in DOMAIN windows |-> Figures!Observations(windows[k])])
               = released
  <1> DEFINE n == Len(released)
             w == WindowSize
             count == (n + w - 1) \div w
             windows == Figures!VintageWindows(released)
             end(k) == IF k * w <= n THEN k * w ELSE n
             ends == [k \in 0 .. count |-> end(k)]
             parts == [k \in DOMAIN windows |-> Figures!Observations(windows[k])]
  <1>1. n \in Nat /\ n >= 1 /\ w \in Nat /\ w >= 1 /\ released \in Seq(Vintage)
    BY DEF ReleasesInOrder
  <1>2. /\ count \in Nat /\ count >= 1 /\ n <= count * w
        /\ \A k \in 1 .. count : (k - 1) * w \in Nat /\ (k - 1) * w < n
                                 /\ k * w \in Nat /\ (k - 1) * w + w = k * w
    BY <1>1, Windowed
  <1>3. windows = [k \in 1 .. count |-> SubSeq(released, (k - 1) * w + 1, Figures!Min({k * w, n}))]
    BY Zenon DEF Figures!VintageWindows
  <1> HIDE DEF n, w, count, windows
  <1>4. DOMAIN windows = 1 .. count
    BY <1>3
  <1>5. ASSUME NEW k \in 1 .. count
        PROVE  /\ end(k) \in 0 .. n /\ end(k - 1) = (k - 1) * w /\ end(k - 1) <= end(k)
               /\ parts[k] = SubSeq(released, end(k - 1) + 1, end(k))
               /\ parts[k] \in Seq(Vintage)
    <2>1. (k - 1) * w \in Nat /\ (k - 1) * w < n /\ k * w \in Nat /\ (k - 1) * w + w = k * w
      BY <1>2
    <2> DEFINE low == (k - 1) * w
               high == k * w
    <2>2. low \in Nat /\ high \in Nat /\ low < n /\ low + w = high
      BY <2>1
    <2>3. end(k) = IF high <= n THEN high ELSE n
      OBVIOUS
    <2>4. end(k - 1) = IF low <= n THEN low ELSE n
      OBVIOUS
    <2>5. windows[k] = SubSeq(released, low + 1, Figures!Min({high, n}))
      BY <1>3
    <2> HIDE DEF low, high, end
    <2>6. Figures!Min({high, n}) = end(k)
      BY <1>1, <2>2, <2>3, LesserOf
    <2>7. /\ end(k) \in 0 .. n /\ end(k - 1) = low /\ end(k - 1) <= end(k)
          /\ low + 1 \in 1 .. n /\ end(k) \in low + 1 .. n
      BY <1>1, <2>2, <2>3, <2>4
    <2>8. IsWindow(windows[k], low + 1, end(k))
      BY <2>5, <2>6, <2>7 DEF IsWindow, n
    <2>9. Figures!Observations(windows[k]) = windows[k]
      BY <2>8, WindowObserved
    <2>10. parts[k] = SubSeq(released, low + 1, end(k))
      BY <1>4, <2>5, <2>6, <2>9
    <2>11. SubSeq(released, low + 1, end(k)) \in Seq(Vintage)
      <3>1. low + 1 \in Int /\ end(k) \in Int
        BY <2>7, <1>1
      <3>2. \A i \in low + 1 .. end(k) : released[i] \in Vintage
        BY <1>1, <2>7 DEF n
      <3>. QED
        BY <3>1, <3>2, SubSeqProperties
    <2>. QED
      BY <2>7, <2>10, <2>11 DEF low
  <1>6. Len(parts) = count /\ parts \in Seq(Seq(Vintage))
    <2>1. parts \in [1 .. count -> Seq(Vintage)]
      <3>1. parts = [k \in 1 .. count |-> parts[k]]
        BY <1>4
      <3> HIDE DEF parts
      <3>. QED
        BY <1>5, <3>1
    <2>. QED
      BY <1>2, <2>1
  <1>7. ends \in [0 .. count -> 0 .. n] /\ ends[0] = 0 /\ ends[count] = n
    <2>1. end(0) = 0
      <3>1. 0 * w = 0
        BY <1>1
      <3>. QED
        BY <1>1, <3>1
    <2>2. end(count) = n
      <3>1. count \in 1 .. count
        BY <1>2
      <3>2. count * w \in Nat
        BY <1>2, <3>1
      <3> DEFINE all == count * w
      <3>3. n <= all /\ all \in Nat /\ end(count) = IF all <= n THEN all ELSE n
        BY <1>2, <3>2
      <3> HIDE DEF all
      <3>. QED
        BY <1>1, <3>3
    <2>3. \A k \in 0 .. count : end(k) \in 0 .. n
      <3> SUFFICES ASSUME NEW k \in 0 .. count
                   PROVE  end(k) \in 0 .. n
        OBVIOUS
      <3>1. k = 0 \/ k \in 1 .. count
        BY <1>2
      <3>2. CASE k = 0
        <4>1. 0 \in 0 .. n
          BY <1>1
        <4> HIDE DEF end
        <4>. QED
          BY <2>1, <3>2, <4>1
      <3>3. CASE k \in 1 .. count
        <4> HIDE DEF end
        <4>. QED
          BY <1>5, <3>3, Zenon
      <3>. QED
        BY <3>1, <3>2, <3>3
    <2> HIDE DEF end
    <2>. QED
      BY <1>2, <2>1, <2>2, <2>3
  <1>8. \A k \in 1 .. count : /\ ends[k - 1] <= ends[k]
                              /\ parts[k] = SubSeq(released, ends[k - 1] + 1, ends[k])
    <2> SUFFICES ASSUME NEW k \in 1 .. count
                 PROVE  /\ ends[k - 1] <= ends[k]
                        /\ parts[k] = SubSeq(released, ends[k - 1] + 1, ends[k])
      OBVIOUS
    <2>1. k \in 0 .. count /\ k - 1 \in 0 .. count
      BY <1>2
    <2>2. ends[k] = end(k) /\ ends[k - 1] = end(k - 1)
      BY <2>1
    <2>3. end(k - 1) <= end(k) /\ parts[k] = SubSeq(released, end(k - 1) + 1, end(k))
      BY <1>5
    <2> HIDE DEF end, ends, parts
    <2>. QED
      BY <2>2, <2>3
  <1> HIDE DEF parts, ends
  <1>9. Pieces(parts, released, ends)
    BY <1>2, <1>6, <1>7, <1>8 DEF Pieces, n
  <1>10. Figures!FlattenSeq(parts) = released
    BY <1>1, <1>9, Rejoined
  <1>. QED
    BY <1>10 DEF parts, windows

\* Rows of the true history.
TrueRows(T) ==
  T \in SUBSET Vintage /\ \A r \in T : r.at <= now /\ r.value = Figures!Current(r.at)

\* A read of T as of t gives the value that was current.
Sees(T, t) ==
  \E r \in T : /\ r.at <= t /\ \A q \in T : q.at <= t => q.at <= r.at
               /\ r.value = Figures!Current(t)

\* It gives nothing else.
LEMMA SeesOne ==
  ASSUME NEW T, TrueRows(T), NEW t \in Nat, Sees(T, t)
  PROVE  {r.value : r \in Figures!LatestBefore(T, t + 1)} = {Figures!Current(t)}
  <1>1. PICK r \in T : /\ r.at <= t /\ \A q \in T : q.at <= t => q.at <= r.at
                       /\ r.value = Figures!Current(t)
    BY DEF Sees
  <1>2. \A q \in T : q.at \in Nat /\ q.value = Figures!Current(q.at)
    BY DEF TrueRows, Vintage
  <1>3. \A q \in T : q.at < t + 1 <=> q.at <= t
    BY <1>2
  <1>4. Figures!LatestBefore(T, t + 1) =
          {x \in {q \in T : q.at < t + 1} : \A q \in {q \in T : q.at < t + 1} : q.at <= x.at}
    BY Zenon DEF Figures!LatestBefore
  <1>5. r \in Figures!LatestBefore(T, t + 1)
    BY <1>1, <1>3, <1>4
  <1>6. ASSUME NEW x \in Figures!LatestBefore(T, t + 1)
        PROVE  x.value = Figures!Current(t)
    <2>1. x \in T /\ x.at <= t /\ r.at <= x.at
      BY <1>1, <1>3, <1>4
    <2>2. x.at <= r.at
      BY <1>1, <2>1
    <2>3. x.at = r.at
      BY <1>1, <1>2, <2>1, <2>2
    <2>. QED
      BY <1>1, <1>2, <2>1, <2>3
  <1>. QED
    BY <1>1, <1>5, <1>6

\* What is already read right is not stored again.
LEMMA InsertSeen ==
  ASSUME NEW T, TrueRows(T), NEW row \in Vintage, row.value = Figures!Current(row.at),
         Sees(T, row.at)
  PROVE  Figures!InsertOne(T, row) = T
  <1>1. PICK r \in T : /\ r.at <= row.at /\ \A q \in T : q.at <= row.at => q.at <= r.at
                       /\ r.value = Figures!Current(row.at)
    BY DEF Sees
  <1>2. \A q \in T : q.at \in Nat
    BY DEF TrueRows, Vintage
  <1>3. row.at \in Nat
    BY DEF Vintage
  <1>4. CASE r.at = row.at
    BY <1>4 DEF Figures!InsertOne
  <1>5. CASE r.at # row.at
    <2>1. r.at < row.at /\ \A q \in T : q.at < row.at => q.at <= r.at
      BY <1>1, <1>2, <1>3, <1>5
    <2>2. r \in Figures!LatestBefore(T, row.at)
      BY <2>1 DEF Figures!LatestBefore
    <2>3. r.value = row.value
      BY <1>1
    <2>. QED
      BY <2>2, <2>3 DEF Figures!InsertOne
  <1>. QED
    BY <1>4, <1>5

\* A true row leaves the table true, is read at its instant, and disturbs no
\* read of an earlier one.
LEMMA InsertTrue ==
  ASSUME NEW T, TrueRows(T), NEW row \in Vintage, row.at <= now,
         row.value = Figures!Current(row.at)
  PROVE  LET after == Figures!InsertOne(T, row)
         IN  /\ TrueRows(after) /\ Sees(after, row.at)
             /\ \A t \in Nat : Sees(T, t) /\ t < row.at => Sees(after, t)
  <1> DEFINE after == Figures!InsertOne(T, row)
  <1>1. \A q \in T : q.at \in Nat /\ q.value = Figures!Current(q.at)
    BY DEF TrueRows, Vintage
  <1>2. row.at \in Nat
    BY DEF Vintage
  <1>3. after = T \/ after = T \cup {row}
    BY DEF Figures!InsertOne
  <1>4. TrueRows(after)
    BY <1>3 DEF TrueRows
  <1>5. \A t \in Nat : Sees(T, t) /\ t < row.at => Sees(after, t)
    <2> SUFFICES ASSUME NEW t \in Nat, Sees(T, t), t < row.at
                 PROVE  Sees(after, t)
      OBVIOUS
    <2>1. PICK r \in T : /\ r.at <= t /\ \A q \in T : q.at <= t => q.at <= r.at
                         /\ r.value = Figures!Current(t)
      BY DEF Sees
    <2>2. \A q \in after : q.at <= t => q.at <= r.at
      BY <1>2, <1>3, <2>1
    <2>3. r \in after
      BY <1>3
    <2> HIDE DEF after
    <2>. QED
      BY <2>1, <2>2, <2>3 DEF Sees
  <1>6. Sees(after, row.at)
    <2>1. CASE after = T \cup {row}
      <3> HIDE DEF after
      <3>1. row \in after /\ \A q \in after : q.at <= row.at => q.at <= row.at
        BY <2>1
      <3>2. row.at <= row.at
        BY <1>2
      <3>. QED
        BY <3>1, <3>2 DEF Sees
    <2>2. ASSUME NEW r \in T, r.at = row.at
          PROVE  Sees(after, row.at)
      <3> HIDE DEF after
      <3>1. r \in after /\ r.at <= row.at /\ \A q \in after : q.at <= row.at => q.at <= r.at
        BY <1>2, <1>3, <2>2
      <3>2. r.value = Figures!Current(row.at)
        BY <1>1, <2>2
      <3>. QED
        BY <3>1, <3>2 DEF Sees
    <2>3. ASSUME after = T, \A r \in T : r.at # row.at,
                 NEW r \in Figures!LatestBefore(T, row.at), r.value = row.value
          PROVE  Sees(after, row.at)
      <3>1. r \in T /\ r.at < row.at /\ \A q \in T : q.at < row.at => q.at <= r.at
        BY DEF Figures!LatestBefore
      <3> HIDE DEF after
      <3>2. r \in after /\ r.at <= row.at /\ \A q \in after : q.at <= row.at => q.at <= r.at
        BY <1>1, <1>2, <2>3, <3>1
      <3>3. r.value = Figures!Current(row.at)
        BY <2>3
      <3>. QED
        BY <3>2, <3>3 DEF Sees
    <2>4. \/ after = T \cup {row}
          \/ \E r \in T : r.at = row.at
          \/ /\ after = T /\ \A r \in T : r.at # row.at
             /\ \E r \in Figures!LatestBefore(T, row.at) : r.value = row.value
      BY DEF Figures!InsertOne
    <2> HIDE DEF after
    <2>. QED
      BY <2>1, <2>2, <2>3, <2>4
  <1>. QED
    BY <1>4, <1>5, <1>6

\* While the value stays what it is, so does what is read.
LEMMA SeesLater ==
  ASSUME NEW T, TrueRows(T), NEW a \in Nat, NEW t \in Nat, a <= t, Sees(T, a),
         \A u \in a .. t : Figures!Current(u) = Figures!Current(a)
  PROVE  Sees(T, t)
  <1>1. PICK r \in T : /\ r.at <= a /\ \A q \in T : q.at <= a => q.at <= r.at
                       /\ r.value = Figures!Current(a)
    BY DEF Sees
  <1>2. \A q \in T : q.at \in Nat /\ q.at >= 1 /\ q.value = Figures!Current(q.at)
    BY DEF TrueRows, Vintage
  <1> DEFINE R == {u \in 1 .. t : \E q \in T : q.at = u}
  <1>3. r.at \in R
    BY <1>1, <1>2
  <1>4. R \in SUBSET (1 .. t) /\ R # {}
    BY <1>3
  <1>5. Max(R) \in R /\ \A u \in R : u <= Max(R)
    BY <1>4, MaxUpTo
  <1>6. PICK q \in T : q.at = Max(R) /\ q.at <= t
    BY <1>5
  <1>7. \A p \in T : p.at <= t => p.at <= q.at
    <2> SUFFICES ASSUME NEW p \in T, p.at <= t
                 PROVE  p.at <= q.at
      OBVIOUS
    <2>1. p.at \in R
      BY <1>2
    <2>. QED
      BY <1>5, <1>6, <2>1
  <1>8. q.value = Figures!Current(t)
    <2>1. Figures!Current(t) = Figures!Current(a)
      <3>1. t \in a .. t
        OBVIOUS
      <3>. QED
        BY <3>1
    <2>2. CASE q.at >= a
      <3>1. q.at \in a .. t
        BY <1>2, <1>6, <2>2
      <3>. QED
        BY <1>2, <2>1, <3>1
    <2>3. CASE ~(q.at >= a)
      <3>1. q.at <= a /\ q.at \in Nat /\ r.at \in Nat /\ r.at <= t
        BY <1>1, <1>2, <2>3
      <3>2. q.at <= r.at /\ r.at <= q.at
        BY <1>1, <1>7, <3>1
      <3>3. q.at = r.at
        BY <3>1, <3>2
      <3>4. r.value = Figures!Current(r.at)
        BY <1>2
      <3>. QED
        BY <1>1, <1>2, <2>1, <3>3, <3>4
    <2>. QED
      BY <2>2, <2>3
  <1>. QED
    BY <1>6, <1>7, <1>8 DEF Sees

\* The table after one row of a batch after another.
Storing(run, base, rows) ==
  /\ run \in [0 .. Len(rows) -> SUBSET Vintage] /\ run[0] = base
  /\ \A k \in 1 .. Len(rows) : run[k] = Figures!InsertOne(run[k - 1], rows[k])
  /\ run[Len(rows)] = Figures!FoldLeft(Figures!InsertOne, base, rows)

\* A batch is stored in such steps.
LEMMA StoreRun ==
  ASSUME NEW base \in SUBSET Vintage, NEW s \in Seq(Vintage)
  PROVE  \E run : Storing(run, base, s)
  <1> DEFINE n == Len(s)
             A == SUBSET Vintage
             op == [p \in A \X (1 .. n) |-> Figures!InsertOne(p[1], s[p[2]])]
             Iter(f) == f = [t \in SUBSET DOMAIN s |->
                               IF t = {} THEN base
                               ELSE Figures!InsertOne(f[t \ {Figures!Max(t)}], s[Figures!Max(t)])]
             it == CHOOSE f : Iter(f)
  <1>1. n \in Nat /\ DOMAIN s = 1 .. n /\ \A i \in 1 .. n : s[i] \in Vintage
    OBVIOUS
  <1>2. op \in [A \X (1 .. n) -> A] /\ base \in A
    <2>1. \A T \in A, row \in Vintage : Figures!InsertOne(T, row) \in A
      BY DEF Figures!InsertOne
    <2>. QED
      BY <1>1, <2>1
  <1>3. ASSUME NEW a \in A, NEW i \in 1 .. n
        PROVE  op[<<a, i>>] = Figures!InsertOne(a, s[i])
    <2> HIDE DEF n, it
    <2>1. <<a, i>> \in A \X (1 .. n)
      OBVIOUS
    <2>. QED
      BY <2>1
  <1>4. Figures!FoldLeft(Figures!InsertOne, base, s) = it[1 .. n]
    BY <1>1, Zenon DEF Figures!FoldLeft, Figures!MapThenFoldSet
  <1> HIDE DEF op, n, it, A
  <1>5. ASSUME NEW t \in SUBSET (1 .. n), t # {}
        PROVE  /\ Figures!Max(t) = Max(t)
               /\ Max(t) \in 1 .. n /\ t \ {Max(t)} \in SUBSET (1 .. n)
    <2>1. Figures!Max(t) = Max(t)
      BY Zenon DEF Figures!Max, Max
    <2>. QED
      BY <1>1, <1>5, <2>1, MaxUpTo
  <1>6. Iter(it)
    <2>1. PICK f : Recurses(f, A, base, op, n)
      BY <1>1, <1>2, FoldExists
    <2>2. ASSUME NEW t \in SUBSET (1 .. n)
          PROVE  f[t] = IF t = {} THEN base
                        ELSE Figures!InsertOne(f[t \ {Figures!Max(t)}], s[Figures!Max(t)])
      <3>1. CASE t = {}
        BY <2>1, <3>1 DEF Recurses
      <3>2. CASE t # {}
        <4>1. f[t \ {Max(t)}] \in A /\ f[t] = op[<<f[t \ {Max(t)}], Max(t)>>]
          BY <2>1, <1>5, <3>2 DEF Recurses
        <4>. QED
          BY <3>2, <4>1, <1>3, <1>5
      <3>. QED
        BY <3>1, <3>2
    <2>3. f = [t \in SUBSET (1 .. n) |-> f[t]]
      BY <2>1 DEF Recurses
    <2>4. Iter(f)
      BY <1>1, <2>2, <2>3
    <2> HIDE DEF Iter
    <2>. QED
      BY <2>4 DEF it
  <1>7. it[{}] = base
    BY <1>6
  <1>8. \A t \in SUBSET (1 .. n) :
          t # {} /\ it[t \ {Max(t)}] \in A => it[t] = op[<<it[t \ {Max(t)}], Max(t)>>]
    <2> SUFFICES ASSUME NEW t \in SUBSET (1 .. n), t # {}, it[t \ {Max(t)}] \in A
                 PROVE  it[t] = op[<<it[t \ {Max(t)}], Max(t)>>]
      OBVIOUS
    <2>1. \A u \in SUBSET DOMAIN s :
            it[u] = IF u = {} THEN base
                    ELSE Figures!InsertOne(it[u \ {Figures!Max(u)}], s[Figures!Max(u)])
      BY <1>6, Zenon
    <2>2. Figures!Max(t) = Max(t) /\ Max(t) \in 1 .. n
      BY <1>5
    <2>3. it[t] = Figures!InsertOne(it[t \ {Max(t)}], s[Max(t)])
      BY <1>1, <2>1, <2>2, Zenon
    <2>. QED
      BY <1>3, <2>2, <2>3
  <1>9. Follows(it, A, base, op, n)
    BY <1>7, <1>8 DEF Follows
  <1>10. PICK run : Runs(run, A, base, op, n) /\ run[n] = it[1 .. n]
    <2>1. HasRun(it, A, base, op, n)
      BY <1>1, <1>2, <1>9, FoldRun
    <2>. QED
      BY <2>1 DEF HasRun
  <1>11. ASSUME NEW k \in 1 .. n
         PROVE  run[k] = Figures!InsertOne(run[k - 1], s[k])
    <2>1. k - 1 \in 0 .. n
      BY <1>1
    <2>. QED
      BY <1>10, <1>3, <2>1 DEF Runs
  <1>. QED
    BY <1>4, <1>10, <1>11 DEF n, A, Runs, Storing

\* Up to which instants the table may be relied on.
Reliable(T, upTo) == TrueRows(T) /\ \A t \in 1 .. upTo : Sees(T, t)

\* One more true row costs nothing of it.
LEMMA InsertReliable ==
  ASSUME NEW T, NEW p \in Nat, Reliable(T, p), NEW row \in Vintage, row.at <= now,
         row.value = Figures!Current(row.at)
  PROVE  Reliable(Figures!InsertOne(T, row), p)
  <1>1. TrueRows(T) /\ row.at \in Nat /\ row.at >= 1
    BY DEF Reliable, Vintage
  <1>2. CASE row.at <= p
    <2>1. Sees(T, row.at)
      BY <1>1, <1>2 DEF Reliable
    <2>. QED
      BY <1>1, <2>1, InsertSeen
  <1>3. CASE ~(row.at <= p)
    <2>1. \A t \in 1 .. p : t \in Nat /\ t < row.at
      BY <1>1, <1>3
    <2>. QED
      BY <1>1, <2>1, InsertTrue DEF Reliable
  <1>. QED
    BY <1>2, <1>3

\* The history up to b, stored release by release, makes the table reliable up to
\* b, and takes nothing from what was reliable before.
LEMMA HistoryStored ==
  ASSUME ReleasesInOrder, NEW base, NEW p \in Nat, Reliable(base, p),
         NEW b \in 1 .. now, NEW n, IsCurrent(n, b), NEW run,
         Storing(run, base, SubSeq(released, 1, n))
  PROVE  Reliable(run[n], p) /\ Reliable(run[n], b)
  <1> DEFINE rows == SubSeq(released, 1, n)
             Over(k, t) == k < n => t < released[k + 1].at
             T == {k \in 0 .. n : /\ Reliable(run[k], p)
                                  /\ \A t \in 1 .. b : Over(k, t) => Sees(run[k], t)}
  <1>1. /\ n \in 1 .. Len(released) /\ n \in Nat /\ n >= 1 /\ Len(released) \in Nat
        /\ now \in Nat /\ b \in Nat /\ b <= now
        /\ \A i \in 1 .. Len(released) : released[i] \in Vintage /\ released[i].at \in Nat
                                         /\ released[i].at <= now
    <2>1. n \in 1 .. Len(released) /\ Len(released) \in Nat /\ now \in Nat
      BY DEF IsCurrent, ReleasesInOrder
    <2>2. \A i \in 1 .. Len(released) : released[i] \in Vintage /\ released[i].at <= now
      BY DEF ReleasesInOrder
    <2>3. \A r \in Vintage : r.at \in Nat
      BY DEF Vintage
    <2>. QED
      BY <2>1, <2>2, <2>3
  <1>2. Len(rows) = n /\ \A k \in 1 .. n : rows[k] = released[k]
    <2>1. \A i \in 1 .. n : released[i] \in Vintage
      BY <1>1
    <2>2. 1 \in Int /\ n \in Int
      BY <1>1
    <2>3. /\ Len(rows) = IF 1 <= n THEN n - 1 + 1 ELSE 0
          /\ \A i \in 1 .. n - 1 + 1 : rows[i] = released[1 + i - 1]
      BY <2>1, <2>2, SubSeqProperties
    <2>. QED
      BY <1>1, <2>3
  <1>3. run[0] = base /\ \A k \in 1 .. n : run[k] = Figures!InsertOne(run[k - 1], released[k])
    BY <1>2 DEF Storing
  <1>4. 0 \in T
    <2>1. \A t \in 1 .. b : ~Over(0, t)
      <3>1. released[0 + 1].at = 1
        BY DEF ReleasesInOrder
      <3>. QED
        BY <1>1, <3>1
    <2>. QED
      BY <1>1, <1>3, <2>1
  <1>5. ASSUME NEW k \in 0 .. n, k \in T, k < n
        PROVE  k + 1 \in T
    <2> DEFINE row == released[k + 1]
               before == run[k]
               after == run[k + 1]
    <2>1. k + 1 \in 1 .. n /\ k + 1 \in 1 .. Len(released) /\ (k + 1) - 1 = k
      BY <1>1, <1>5
    <2>2. after = Figures!InsertOne(before, row)
      BY <1>3, <2>1
    <2>3. row \in Vintage /\ row.at \in Nat /\ row.at <= now
      BY <1>1, <2>1
    <2>4. \A u \in Nat : row.at <= u /\ u <= b /\ Over(k + 1, u) => IsCurrent(k + 1, u)
      <3> SUFFICES ASSUME NEW u \in Nat, row.at <= u, u <= b, Over(k + 1, u),
                          NEW j \in 1 .. Len(released), released[j].at <= u, ~(j <= k + 1)
                   PROVE  FALSE
        BY <2>1 DEF IsCurrent
      <3>1. released[j].at \in Nat
        BY <1>1
      <3>2. CASE k + 1 = n
        <4>1. released[j].at <= b
          BY <1>1, <3>1
        <4>. QED
          BY <1>1, <3>2, <4>1 DEF IsCurrent
      <3>3. CASE k + 1 # n
        <4>1. k + 1 < n /\ k + 2 \in 1 .. Len(released) /\ k + 1 + 1 = k + 2
          BY <1>1, <2>1, <3>3
        <4>2. u < released[k + 2].at /\ released[k + 2].at \in Nat
          BY <1>1, <4>1
        <4>3. j = k + 2 \/ k + 2 < j
          BY <1>1, <2>1
        <4>4. released[k + 2].at <= released[j].at
          BY <1>1, <3>1, <4>1, <4>2, <4>3 DEF ReleasesInOrder
        <4>. QED
          BY <3>1, <4>2, <4>4
      <3>. QED
        BY <3>2, <3>3
    <2>5. row.value = Figures!Current(row.at)
      <3>1. IsCurrent(k + 1, row.at)
        <4> SUFFICES ASSUME NEW j \in 1 .. Len(released), released[j].at <= row.at, ~(j <= k + 1)
                     PROVE  FALSE
          BY <2>1, <2>3 DEF IsCurrent
        <4>1. row.at < released[j].at /\ released[j].at \in Nat
          BY <1>1, <2>1 DEF ReleasesInOrder
        <4>. QED
          BY <2>3, <4>1
      <3>. QED
        BY <2>3, <3>1, CurrentIs
    <2>6. Reliable(before, p) /\ TrueRows(before)
      BY <1>5 DEF Reliable
    <2>7. Reliable(after, p)
      BY <2>2, <2>3, <2>5, <2>6, InsertReliable
    <2>8. /\ TrueRows(after) /\ Sees(after, row.at)
          /\ \A t \in Nat : Sees(before, t) /\ t < row.at => Sees(after, t)
      BY <2>2, <2>3, <2>5, <2>6, InsertTrue
    <2>9. ASSUME NEW t \in 1 .. b, Over(k + 1, t)
          PROVE  Sees(after, t)
      <3>1. t \in Nat
        BY <1>1
      <3>2. CASE t < row.at
        <4>1. Sees(before, t)
          BY <1>5, <3>2
        <4>. QED
          BY <2>8, <3>1, <3>2, <4>1
      <3>3. CASE ~(t < row.at)
        <4>1. row.at <= t
          BY <2>3, <3>1, <3>3
        <4>2. ASSUME NEW u \in row.at .. t
              PROVE  Figures!Current(u) = row.value
          <5>1. u \in Nat /\ row.at <= u /\ u <= b /\ u <= t
            BY <1>1, <2>3, <3>1
          <5>2. Over(k + 1, u)
            <6>1. CASE k + 1 < n
              <7>1. t < released[k + 1 + 1].at /\ k + 1 + 1 \in 1 .. Len(released)
                BY <1>1, <2>1, <2>9, <6>1
              <7>2. released[k + 1 + 1].at \in Nat
                BY <1>1, <7>1
              <7>. QED
                BY <3>1, <5>1, <7>1, <7>2
            <6>. QED
              BY <6>1
          <5>3. IsCurrent(k + 1, u)
            BY <2>4, <5>1, <5>2
          <5>. QED
            BY <5>1, <5>3, CurrentIs
        <4>3. \A u \in row.at .. t : Figures!Current(u) = Figures!Current(row.at)
          BY <2>5, <4>2
        <4> HIDE DEF after, row
        <4>. QED
          BY <2>3, <2>8, <3>1, <4>1, <4>3, SeesLater
      <3>. QED
        BY <3>2, <3>3
    <2>. QED
      BY <2>1, <2>7, <2>9
  <1> HIDE DEF T
  <1>6. n \in T
    <2>1. 0 .. n \subseteq T
      BY <1>1, <1>4, <1>5, InductionTo
    <2>. QED
      BY <1>1, <2>1
  <1>7. Reliable(run[n], p) /\ \A t \in 1 .. b : Sees(run[n], t)
    BY <1>1, <1>6 DEF T
  <1>. QED
    BY <1>7 DEF Reliable

-----------------------------------------------------------------------------
(* The invariant of one figure *)

\* What a fetch brings: the value current at its instant, or the history up to it.
Fetched(b) ==
  /\ b.kind = "forward" => b.rows = <<[at |-> b.at, value |-> Figures!Current(b.at)]>>
  /\ b.kind = "backfill" => \E n : IsCurrent(n, b.at) /\ b.rows = SubSeq(released, 1, n)

\* A fetch under way began after all that was stored undisturbed.
BatchTrue(b) ==
  /\ b.kind \in {"none", "forward", "backfill"}
  /\ b.kind # "none" => /\ b.at \in 1 .. now /\ \A t \in seen : t <= b.at
                        /\ Fetched(b)

FigureInv ==
  /\ ReleasesInOrder
  /\ pulled \in 0 .. now /\ Reliable(stored, pulled)
  /\ seen \subseteq 1 .. now /\ \A t \in seen : Sees(stored, t)
  /\ DOMAIN batch = Collectors /\ \A c \in Collectors : BatchTrue(batch[c])

\* Nothing is stored at first.
LEMMA FigureInit == Figures!Init => FigureInv
  <1> SUFFICES ASSUME Figures!Init PROVE FigureInv
    OBVIOUS
  <1> USE DEF Figures!Init
  <1>1. ReleasesInOrder
    <2>1. PICK v \in Values : released = <<[at |-> 1, value |-> v]>>
      OBVIOUS
    <2>2. /\ released \in Seq(Vintage) /\ Len(released) = 1 /\ released[1].at = 1
      BY <2>1 DEF Vintage
    <2>. QED
      BY <2>2 DEF ReleasesInOrder
  <1>2. Reliable(stored, pulled) /\ pulled \in 0 .. now
    BY DEF Reliable, TrueRows
  <1>3. \A c \in Collectors : BatchTrue(batch[c])
    BY DEF BatchTrue
  <1>. QED
    BY <1>1, <1>2, <1>3 DEF FigureInv

\* The same in one formula, to be used of the next state.
CurrentKnown ==
  \A i : \A u \in Nat : ReleasesInOrder /\ IsCurrent(i, u) => Figures!Current(u) = released[i].value
LEMMA CurrentIsAll == CurrentKnown
  BY CurrentIs DEF CurrentKnown

\* A later release changes nothing of what was current before.
LEMMA CurrentStays ==
  ASSUME ReleasesInOrder, now' = now + 1,
         \/ \E v \in Values : released' = Append(released, [at |-> now + 1, value |-> v])
         \/ released' = released
  PROVE  /\ ReleasesInOrder'
         /\ \A t \in 1 .. now : Figures!Current(t)' = Figures!Current(t)
         /\ \A n, t : t \in 1 .. now /\ IsCurrent(n, t) =>
              IsCurrent(n, t)' /\ SubSeq(released', 1, n) = SubSeq(released, 1, n)
  <1> DEFINE n == Len(released)
  <1>1. /\ now \in Nat /\ now >= 1 /\ n \in Nat /\ n >= 1 /\ released \in Seq(Vintage)
        /\ released[1].at = 1
        /\ \A i \in 1 .. n : released[i] \in Vintage /\ released[i].at <= now
        /\ \A i, j \in 1 .. n : i < j => released[i].at < released[j].at
    BY DEF ReleasesInOrder
  <1>2. \A i \in 1 .. n : released[i].at \in Nat
    BY <1>1 DEF Vintage
  <1>3. CASE released' = released
    <2>1. ReleasesInOrder'
      BY <1>1, <1>2, <1>3 DEF ReleasesInOrder
    <2>2. \A t : Figures!Current(t)' = Figures!Current(t)
      BY <1>3 DEF Figures!Current
    <2>3. \A k, t : IsCurrent(k, t) => IsCurrent(k, t)'
      BY <1>3 DEF IsCurrent
    <2>. QED
      BY <1>3, <2>1, <2>2, <2>3
  <1>4. ASSUME NEW v \in Values, released' = Append(released, [at |-> now + 1, value |-> v])
        PROVE  /\ ReleasesInOrder'
               /\ \A t \in 1 .. now : Figures!Current(t)' = Figures!Current(t)
               /\ \A k, t : t \in 1 .. now /\ IsCurrent(k, t) =>
                    IsCurrent(k, t)' /\ SubSeq(released', 1, k) = SubSeq(released, 1, k)
    <2> DEFINE new == [at |-> now + 1, value |-> v]
    <2>1. new \in Vintage
      BY <1>1 DEF Vintage
    <2>2. /\ released' \in Seq(Vintage) /\ Len(released') = n + 1 /\ released'[n + 1] = new
          /\ \A i \in 1 .. n : released'[i] = released[i]
      BY <1>1, <1>4, <2>1
    <2>3. new.at = now + 1
      OBVIOUS
    <2> HIDE DEF n, new
    <2>4. \A i \in 1 .. n + 1 : i \in 1 .. n \/ i = n + 1
      BY <1>1
    <2>5. ReleasesInOrder'
      <3>1. now' \in Nat \ {0} /\ Len(released') >= 1 /\ 1 \in 1 .. n
        BY <1>1, <2>2
      <3>2. released'[1].at = 1
        BY <1>1, <2>2, <3>1
      <3>3. \A i \in 1 .. n + 1 : released'[i].at <= now'
        <4> SUFFICES ASSUME NEW i \in 1 .. n + 1 PROVE released'[i].at <= now + 1
          OBVIOUS
        <4>1. CASE i \in 1 .. n
          BY <1>1, <1>2, <2>2, <4>1
        <4>2. CASE i = n + 1
          BY <1>1, <2>2, <2>3, <4>2
        <4>. QED
          BY <2>4, <4>1, <4>2
      <3>4. \A i, j \in 1 .. n + 1 : i < j => released'[i].at < released'[j].at
        <4> SUFFICES ASSUME NEW i \in 1 .. n + 1, NEW j \in 1 .. n + 1, i < j
                     PROVE  released'[i].at < released'[j].at
          OBVIOUS
        <4>1. i \in 1 .. n
          BY <1>1
        <4>2. CASE j \in 1 .. n
          BY <1>1, <2>2, <4>1, <4>2
        <4>3. CASE j = n + 1
          BY <1>1, <1>2, <2>2, <2>3, <4>1, <4>3
        <4>. QED
          BY <2>4, <4>2, <4>3
      <3>. QED
        BY <2>2, <3>1, <3>2, <3>3, <3>4 DEF ReleasesInOrder
    <2>6. ASSUME NEW t \in 1 .. now, NEW k, IsCurrent(k, t)
          PROVE  IsCurrent(k, t)' /\ SubSeq(released', 1, k) = SubSeq(released, 1, k)
      <3>1. k \in 1 .. n /\ released[k].at <= t /\ \A j \in 1 .. n : released[j].at <= t => j <= k
        BY <2>6 DEF IsCurrent, n
      <3>2. k \in 1 .. Len(released') /\ released'[k].at <= t
        BY <1>1, <2>2, <3>1
      <3>3. \A j \in 1 .. n + 1 : released'[j].at <= t => j <= k
        <4> SUFFICES ASSUME NEW j \in 1 .. n + 1, released'[j].at <= t PROVE j <= k
          OBVIOUS
        <4>1. j # n + 1
          BY <1>1, <2>2, <2>3
        <4>. QED
          BY <2>2, <2>4, <3>1, <4>1
      <3>4. IsCurrent(k, t)'
        BY <2>2, <3>2, <3>3 DEF IsCurrent
      <3>5. SubSeq(released', 1, k) = SubSeq(released, 1, k)
        <4>1. /\ 1 \in Int /\ k \in Int /\ 1 <= k
              /\ \A i \in 1 .. k : i \in 1 .. n
          BY <1>1, <3>1
        <4>2. \A i \in 1 .. k : released'[i] = released[i] /\ released[i] \in Vintage
          BY <1>1, <2>2, <4>1
        <4>3. /\ SubSeq(released, 1, k) \in Seq(Vintage) /\ Len(SubSeq(released, 1, k)) = k - 1 + 1
              /\ \A i \in 1 .. k - 1 + 1 : SubSeq(released, 1, k)[i] = released[1 + i - 1]
          BY <4>1, <4>2, SubSeqProperties
        <4>4. /\ SubSeq(released', 1, k) \in Seq(Vintage) /\ Len(SubSeq(released', 1, k)) = k - 1 + 1
              /\ \A i \in 1 .. k - 1 + 1 : SubSeq(released', 1, k)[i] = released'[1 + i - 1]
          BY <4>1, <4>2, SubSeqProperties
        <4> DEFINE old == SubSeq(released, 1, k)
                   later == SubSeq(released', 1, k)
        <4>5. \A i \in 1 .. Len(old) : old[i] = later[i]
          <5> SUFFICES ASSUME NEW i \in 1 .. Len(old) PROVE old[i] = later[i]
            OBVIOUS
          <5>1. i \in 1 .. k - 1 + 1 /\ i \in 1 .. k /\ 1 + i - 1 = i
            BY <4>1, <4>3
          <5>. QED
            BY <4>2, <4>3, <4>4, <5>1
        <4>6. old \in Seq(Vintage) /\ later \in Seq(Vintage) /\ Len(old) = Len(later)
          BY <4>3, <4>4
        <4> HIDE DEF old, later
        <4>7. old = later
          BY <4>5, <4>6, SeqEqual
        <4>. QED
          BY <4>7 DEF old, later
      <3>. QED
        BY <3>4, <3>5
    <2>7. ASSUME NEW t \in 1 .. now
          PROVE  Figures!Current(t)' = Figures!Current(t)
      <3>1. t \in Nat \ {0}
        BY <1>1
      <3>2. PICK k : IsCurrent(k, t)
        BY <3>1, SomeCurrent
      <3>3. IsCurrent(k, t)'
        BY <2>6, <3>2
      <3>4. Figures!Current(t) = released[k].value
        BY <3>1, <3>2, CurrentIs
      <3>5. Figures!Current(t)' = released'[k].value
        <4>1. CurrentKnown'
          BY CurrentIsAll, PTL
        <4>. QED
          BY <2>5, <3>1, <3>3, <4>1 DEF CurrentKnown
      <3>6. k \in 1 .. n
        BY <3>2 DEF IsCurrent, n
      <3>. QED
        BY <2>2, <3>4, <3>5, <3>6
    <2>. QED
      BY <2>5, <2>6, <2>7
  <1>. QED
    BY <1>3, <1>4

\* A release disturbs nothing that is stored or fetched.
LEMMA ReleaseInv ==
  ASSUME FigureInv, Figures!Release
  PROVE  FigureInv'
  <1>1. /\ now' = now + 1 /\ UNCHANGED <<stored, batch, pulled, seen>>
        /\ \/ \E v \in Values : released' = Append(released, [at |-> now + 1, value |-> v])
           \/ released' = released
    BY DEF Figures!Release
  <1>2. /\ ReleasesInOrder /\ now \in Nat \ {0}
        /\ pulled \in 0 .. now /\ TrueRows(stored) /\ \A t \in 1 .. pulled : Sees(stored, t)
        /\ seen \subseteq 1 .. now /\ \A t \in seen : Sees(stored, t)
        /\ DOMAIN batch = Collectors /\ \A c \in Collectors : BatchTrue(batch[c])
    BY DEF FigureInv, ReleasesInOrder, Reliable
  <1>3. /\ ReleasesInOrder'
        /\ \A t \in 1 .. now : Figures!Current(t)' = Figures!Current(t)
        /\ \A n, t : t \in 1 .. now /\ IsCurrent(n, t) =>
             IsCurrent(n, t)' /\ SubSeq(released', 1, n) = SubSeq(released, 1, n)
    BY <1>1, <1>2, CurrentStays
  <1>4. TrueRows(stored)'
    <2>1. ASSUME NEW r \in stored
          PROVE  r \in Vintage /\ r.at <= now' /\ r.value = Figures!Current(r.at)'
      <3>1. r \in Vintage /\ r.at <= now /\ r.value = Figures!Current(r.at)
        BY <1>2 DEF TrueRows
      <3>2. PICK t : t = r.at
        OBVIOUS
      <3>3. t \in 1 .. now /\ t <= now'
        BY <1>1, <1>2, <3>1, <3>2 DEF Vintage
      <3>4. Figures!Current(t)' = Figures!Current(t)
        BY <1>3, <3>3
      <3>. QED
        BY <3>1, <3>2, <3>3, <3>4
    <2>2. stored' = stored /\ Vintage' = Vintage
      BY <1>1 DEF Vintage
    <2>. QED
      BY <2>1, <2>2 DEF TrueRows
  <1>5. ASSUME NEW t \in 1 .. now, Sees(stored, t)
        PROVE  Sees(stored, t)'
    <2>1. Figures!Current(t)' = Figures!Current(t)
      BY <1>3
    <2>. QED
      BY <1>1, <1>5, <2>1 DEF Sees
  <1>6. ASSUME NEW c \in Collectors
        PROVE  BatchTrue(batch[c])'
    <2>1. PICK b : b = batch[c]
      OBVIOUS
    <2>2. BatchTrue(b)
      BY <1>2, <2>1
    <2>3. b.kind # "none" => Fetched(b)'
      <3> SUFFICES ASSUME b.kind # "none" PROVE Fetched(b)'
        OBVIOUS
      <3>1. PICK t : t = b.at
        OBVIOUS
      <3>2. Fetched(b) /\ t \in 1 .. now
        BY <2>2, <3>1 DEF BatchTrue
      <3>3. Figures!Current(t)' = Figures!Current(t)
        BY <1>3, <3>2
      <3>4. ASSUME b.kind = "forward"
            PROVE  b.rows = <<[at |-> b.at, value |-> Figures!Current(t)']>>
        BY <3>1, <3>2, <3>3, <3>4 DEF Fetched
      <3>5. ASSUME b.kind = "backfill"
            PROVE  \E n : IsCurrent(n, t)' /\ b.rows = SubSeq(released', 1, n)
        <4>1. PICK n : IsCurrent(n, t) /\ b.rows = SubSeq(released, 1, n)
          BY <3>1, <3>2, <3>5 DEF Fetched
        <4>. QED
          BY <1>3, <3>2, <4>1
      <3>. QED
        BY <3>1, <3>4, <3>5 DEF Fetched
    <2>4. BatchTrue(b)'
      <3>1. \A t \in 1 .. now : t \in 1 .. now'
        BY <1>1, <1>2
      <3>. QED
        BY <1>1, <2>2, <2>3, <3>1 DEF BatchTrue
    <2>. QED
      BY <1>1, <2>1, <2>4
  <1>7. /\ pulled' \in 0 .. now' /\ seen' \subseteq 1 .. now'
        /\ \A t \in 1 .. pulled : t \in 1 .. now
    BY <1>1, <1>2
  <1>. QED
    BY <1>1, <1>2, <1>3, <1>4, <1>5, <1>6, <1>7 DEF FigureInv, Reliable

\* What a step that leaves the history alone keeps.
LEMMA HistoryAlone ==
  ASSUME UNCHANGED <<now, released>>
  PROVE  /\ ReleasesInOrder' <=> ReleasesInOrder
         /\ \A T : TrueRows(T)' <=> TrueRows(T)
         /\ \A T, t : Sees(T, t)' <=> Sees(T, t)
         /\ \A T, p : Reliable(T, p)' <=> Reliable(T, p)
         /\ \A b : Fetched(b)' <=> Fetched(b)
         /\ \A t : Figures!Current(t)' = Figures!Current(t)
  <1>1. \A t : Figures!Current(t)' = Figures!Current(t)
    BY DEF Figures!Current
  <1>2. Vintage' = Vintage
    BY DEF Vintage
  <1>3. ReleasesInOrder' <=> ReleasesInOrder
    BY <1>2 DEF ReleasesInOrder
  <1>4. \A T : TrueRows(T)' <=> TrueRows(T)
    BY <1>1, <1>2 DEF TrueRows
  <1>5. \A T, t : Sees(T, t)' <=> Sees(T, t)
    BY <1>1 DEF Sees
  <1>6. \A T, p : Reliable(T, p)' <=> Reliable(T, p)
    BY <1>4, <1>5 DEF Reliable
  <1>7. \A n, t : IsCurrent(n, t)' <=> IsCurrent(n, t)
    BY DEF IsCurrent
  <1>8. \A b : Fetched(b)' <=> Fetched(b)
    BY <1>1, <1>7 DEF Fetched
  <1>. QED
    BY <1>1, <1>3, <1>4, <1>5, <1>6, <1>8

\* A fetch is true of its instant.
LEMMA FetchInv ==
  ASSUME FigureInv, WindowSize \in Nat \ {0}, NEW c \in Collectors,
         Figures!FetchForward(c) \/ Figures!FetchBackfill(c)
  PROVE  FigureInv'
  <1>1. /\ UNCHANGED <<now, released, stored, pulled, seen>>
        /\ \E b : batch' = [batch EXCEPT ![c] = b]
    BY DEF Figures!FetchForward, Figures!FetchBackfill
  <1>2. /\ ReleasesInOrder /\ now \in Nat \ {0}
        /\ seen \subseteq 1 .. now
        /\ DOMAIN batch = Collectors /\ \A d \in Collectors : BatchTrue(batch[d])
    BY DEF FigureInv, ReleasesInOrder
  <1>3. now \in 1 .. now /\ \A t \in seen : t <= now
    BY <1>2
  <1>4. BatchTrue(batch'[c])
    <2>1. CASE Figures!FetchForward(c)
      <3>1. batch'[c] = [kind |-> "forward", at |-> now,
                         rows |-> <<[at |-> now, value |-> Figures!Current(now)]>>]
        BY <1>2, <2>1 DEF Figures!FetchForward
      <3>. QED
        BY <1>3, <3>1 DEF BatchTrue, Fetched
    <2>2. CASE Figures!FetchBackfill(c)
      <3>1. PICK h : h = Figures!FlattenSeq(
                           [k \in DOMAIN Figures!VintageWindows(released) |->
                              Figures!Observations(Figures!VintageWindows(released)[k])])
        OBVIOUS
      <3>2. h = released
        BY <1>2, <3>1, WindowsYieldHistory
      <3>3. batch' = [batch EXCEPT ![c] = [kind |-> "backfill", at |-> now, rows |-> h]]
        BY <2>2, <3>1 DEF Figures!FetchBackfill
      <3>4. batch'[c] = [kind |-> "backfill", at |-> now, rows |-> released]
        BY <1>2, <3>2, <3>3
      <3>5. IsCurrent(Len(released), now) /\ released = SubSeq(released, 1, Len(released))
        <4>1. released \in Seq(Vintage)
          BY <1>2 DEF ReleasesInOrder
        <4>2. released = SubSeq(released, 1, Len(released))
          BY <4>1, SubSeqFull
        <4>3. Len(released) \in 1 .. Len(released)
          BY <1>2 DEF ReleasesInOrder
        <4>. QED
          BY <1>2, <4>2, <4>3 DEF IsCurrent, ReleasesInOrder
      <3>. QED
        BY <1>3, <3>4, <3>5 DEF BatchTrue, Fetched
    <2>. QED
      BY <2>1, <2>2
  <1>5. ASSUME NEW d \in Collectors
        PROVE  BatchTrue(batch'[d])
    <2>1. CASE d = c
      BY <1>4, <2>1
    <2>2. CASE d # c
      <3>1. batch'[d] = batch[d]
        BY <1>1, <1>2, <2>2
      <3>. QED
        BY <1>2, <3>1
    <2>. QED
      BY <2>1, <2>2
  <1>6. ASSUME NEW d \in Collectors
        PROVE  BatchTrue(batch[d])'
    <2>1. PICK b : b = batch'[d]
      OBVIOUS
    <2>2. BatchTrue(b)
      BY <1>5, <2>1
    <2>3. BatchTrue(b)'
      BY <1>1, <2>2, HistoryAlone DEF BatchTrue
    <2>. QED
      BY <2>1, <2>3
  <1>7. DOMAIN batch' = Collectors
    BY <1>1, <1>2
  <1>8. UNCHANGED <<now, released>>
    BY <1>1
  <1>9. /\ ReleasesInOrder' /\ Reliable(stored, pulled)' /\ \A t \in seen : Sees(stored, t)'
    <2>1. PICK T, p : T = stored /\ p = pulled
      OBVIOUS
    <2>2. ReleasesInOrder /\ Reliable(T, p) /\ \A t \in seen : Sees(T, t)
      BY <2>1 DEF FigureInv
    <2>3. ReleasesInOrder' /\ Reliable(T, p)' /\ \A t \in seen : Sees(T, t)'
      BY <1>8, <2>2, HistoryAlone
    <2>. QED
      BY <1>1, <2>1, <2>3
  <1>10. pulled' \in 0 .. now' /\ seen' \subseteq 1 .. now'
    BY <1>1 DEF FigureInv
  <1>. QED
    BY <1>1, <1>6, <1>7, <1>9, <1>10 DEF FigureInv

\* What a stored batch does to the table.
Stores(b, after) ==
  /\ Reliable(after, pulled) /\ \A t \in seen : Sees(after, t)
  /\ b.kind = "backfill" => Reliable(after, b.at)
  /\ b.kind = "forward" => Sees(after, b.at)

LEMMA StoreEffect ==
  ASSUME FigureInv, NEW b, BatchTrue(b), b.kind # "none"
  PROVE  Stores(b, Figures!FoldLeft(Figures!InsertOne, stored, b.rows))
  <1> DEFINE after == Figures!FoldLeft(Figures!InsertOne, stored, b.rows)
  <1>1. /\ ReleasesInOrder /\ now \in Nat \ {0} /\ pulled \in 0 .. now
        /\ Reliable(stored, pulled) /\ TrueRows(stored) /\ stored \in SUBSET Vintage
        /\ seen \subseteq 1 .. now /\ \A t \in seen : Sees(stored, t)
    BY DEF FigureInv, ReleasesInOrder, Reliable, TrueRows
  <1>2. b.at \in 1 .. now /\ (\A t \in seen : t <= b.at) /\ Fetched(b)
    BY DEF BatchTrue
  <1>3. CASE b.kind = "forward"
    <2> DEFINE row == [at |-> b.at, value |-> Figures!Current(b.at)]
    <2>1. b.rows = <<row>>
      BY <1>2, <1>3 DEF Fetched
    <2>2. row \in Vintage /\ row.at = b.at /\ row.at <= now /\ row.value = Figures!Current(row.at)
      <3>1. b.at \in Nat \ {0}
        BY <1>1, <1>2
      <3>2. PICK n : IsCurrent(n, b.at)
        BY <1>1, <3>1, SomeCurrent
      <3>3. Figures!Current(b.at) = released[n].value /\ released[n] \in Vintage
        BY <1>1, <3>1, <3>2, CurrentIs DEF IsCurrent, ReleasesInOrder
      <3>4. Figures!Current(b.at) \in Values
        BY <3>3 DEF Vintage
      <3>. QED
        BY <1>1, <1>2, <3>1, <3>4 DEF Vintage
    <2> HIDE DEF row
    <2>3. <<row>> \in Seq(Vintage) /\ Len(<<row>>) = 1 /\ <<row>>[1] = row
      BY <2>2
    <2>4. after = Figures!InsertOne(stored, row)
      <3>1. PICK run : Storing(run, stored, <<row>>)
        BY <1>1, <2>3, StoreRun
      <3>2. 1 \in 1 .. Len(<<row>>) /\ 1 - 1 = 0
        BY <2>3
      <3>3. run[1] = Figures!InsertOne(run[0], row)
        BY <2>3, <3>1, <3>2 DEF Storing
      <3>4. run[0] = stored /\ run[1] = Figures!FoldLeft(Figures!InsertOne, stored, <<row>>)
        BY <2>3, <3>1 DEF Storing
      <3>. QED
        BY <2>1, <3>3, <3>4
    <2> HIDE DEF after
    <2>5. /\ TrueRows(after) /\ Sees(after, row.at)
          /\ \A t \in Nat : Sees(stored, t) /\ t < row.at => Sees(after, t)
      BY <1>1, <2>2, <2>4, InsertTrue
    <2>6. Reliable(after, pulled)
      <3>1. pulled \in Nat
        BY <1>1
      <3>. QED
        BY <1>1, <2>2, <2>4, <3>1, InsertReliable
    <2>7. ASSUME NEW t \in seen
          PROVE  Sees(after, t)
      <3>1. t \in Nat /\ b.at \in Nat /\ t <= b.at
        BY <1>1, <1>2
      <3>2. CASE t = b.at
        BY <2>2, <2>5, <3>2
      <3>3. CASE t < b.at
        BY <1>1, <2>2, <2>5, <3>1, <3>3
      <3>. QED
        BY <3>1, <3>2, <3>3
    <2>8. Stores(b, after)
      <3>1. b.kind # "backfill"
        BY <1>3
      <3>2. \A t \in seen : Sees(after, t)
        BY <2>7
      <3>3. Sees(after, b.at)
        BY <2>2, <2>5
      <3>. QED
        BY <2>5, <2>6, <3>1, <3>2, <3>3 DEF Stores
    <2>. QED
      BY <2>8 DEF after
  <1>4. CASE b.kind = "backfill"
    <2>1. PICK n : IsCurrent(n, b.at) /\ b.rows = SubSeq(released, 1, n)
      BY <1>2, <1>4 DEF Fetched
    <2>2. b.rows \in Seq(Vintage) /\ Len(b.rows) = n
      <3>1. n \in 1 .. Len(released) /\ Len(released) \in Nat
            /\ \A i \in 1 .. Len(released) : released[i] \in Vintage
        BY <1>1, <2>1 DEF IsCurrent, ReleasesInOrder
      <3>2. 1 \in Int /\ n \in Int /\ 1 <= n /\ \A i \in 1 .. n : released[i] \in Vintage
        BY <3>1
      <3>3. SubSeq(released, 1, n) \in Seq(Vintage) /\ Len(SubSeq(released, 1, n)) = n - 1 + 1
        BY <3>2, SubSeqProperties
      <3>. QED
        BY <2>1, <3>2, <3>3
    <2>3. PICK run : Storing(run, stored, b.rows)
      BY <1>1, <2>2, StoreRun
    <2>4. after = run[n]
      BY <2>2, <2>3 DEF Storing
    <2> HIDE DEF after
    <2>5. pulled \in Nat /\ Storing(run, stored, SubSeq(released, 1, n))
      BY <1>1, <2>1, <2>3
    <2>6. Reliable(after, pulled) /\ Reliable(after, b.at)
      BY <1>1, <1>2, <2>1, <2>4, <2>5, HistoryStored
    <2>7. \A t \in seen : Sees(after, t)
      <3>1. \A t \in seen : t \in 1 .. b.at
        BY <1>1, <1>2
      <3>. QED
        BY <2>6, <3>1 DEF Reliable
    <2>8. TrueRows(after)
      BY <2>6 DEF Reliable
    <2>9. Stores(b, after)
      BY <1>4, <2>6, <2>7, <2>8, "forward" # "backfill" DEF Stores
    <2>. QED
      BY <2>9 DEF after
  <1>. QED
    BY <1>3, <1>4 DEF BatchTrue

\* The greater of two numbers.
LEMMA GreaterOf ==
  \A a, b \in Nat : Figures!Max({a, b}) = IF a >= b THEN a ELSE b
  <1> SUFFICES ASSUME NEW a \in Nat, NEW b \in Nat
               PROVE  Figures!Max({a, b}) = IF a >= b THEN a ELSE b
    OBVIOUS
  <1> DEFINE m == Figures!Max({a, b})
  <1>1. m = CHOOSE x \in {a, b} : \A y \in {a, b} : x >= y
    BY Zenon DEF Figures!Max
  <1>2. \E x \in {a, b} : \A y \in {a, b} : x >= y
    OBVIOUS
  <1>3. m \in {a, b} /\ \A y \in {a, b} : m >= y
    BY <1>1, <1>2
  <1>. QED
    BY <1>3

\* A stored batch is as reliable as what it was fetched from.
LEMMA StoreInv ==
  ASSUME FigureInv, NEW c \in Collectors, Figures!Store(c)
  PROVE  FigureInv'
  <1> DEFINE nothing == [kind |-> "none", at |-> 0, rows |-> <<>>]
  <1>1. PICK b : b = batch[c]
    OBVIOUS
  <1>2. PICK after : after = Figures!FoldLeft(Figures!InsertOne, stored, b.rows)
    OBVIOUS
  <1>3. /\ b.kind # "none" /\ stored' = after
        /\ batch' = [batch EXCEPT ![c] = nothing]
        /\ pulled' = (IF b.kind = "backfill" THEN Figures!Max({pulled, b.at}) ELSE pulled)
        /\ seen' = IF b.kind = "forward" /\ \A d \in Collectors \ {c} : batch[d].kind = "none"
                   THEN seen \cup {b.at} ELSE seen
        /\ UNCHANGED <<now, released>>
    BY <1>1, <1>2 DEF Figures!Store
  <1>4. /\ ReleasesInOrder /\ now \in Nat \ {0} /\ pulled \in 0 .. now
        /\ seen \subseteq 1 .. now
        /\ DOMAIN batch = Collectors /\ \A d \in Collectors : BatchTrue(batch[d])
    BY DEF FigureInv, ReleasesInOrder
  <1>5. BatchTrue(b) /\ b.at \in 1 .. now
    <2>1. BatchTrue(b)
      BY <1>1, <1>4
    <2>. QED
      BY <1>3, <2>1 DEF BatchTrue
  <1>6. Stores(b, after)
    BY <1>2, <1>3, <1>5, StoreEffect
  <1>7. PICK p : p = pulled'
    OBVIOUS
  <1>8. p \in 0 .. now /\ Reliable(after, p)
    <2>1. pulled \in Nat /\ b.at \in Nat
      BY <1>4, <1>5
    <2>2. p = pulled \/ (b.kind = "backfill" /\ p = b.at)
      BY <1>3, <1>7, <2>1, GreaterOf
    <2>. QED
      BY <1>4, <1>5, <1>6, <2>2 DEF Stores
  <1>9. PICK S : S = seen'
    OBVIOUS
  <1>10. S \subseteq 1 .. now /\ \A t \in S : Sees(after, t)
    <2>1. S = seen \/ (b.kind = "forward" /\ S = seen \cup {b.at})
      BY <1>3, <1>9
    <2>. QED
      BY <1>4, <1>5, <1>6, <2>1 DEF Stores
  <1>11. ASSUME NEW d \in Collectors
         PROVE  BatchTrue(batch[d])'
    <2>1. CASE batch'[d].kind = "none"
      BY <2>1 DEF BatchTrue
    <2>2. CASE batch'[d].kind # "none"
      <3>1. d # c /\ batch'[d] = batch[d]
        BY <1>3, <1>4, <2>2
      <3>2. seen' = seen
        BY <1>3, <2>2, <3>1
      <3>3. PICK e : e = batch[d]
        OBVIOUS
      <3>4. BatchTrue(e)
        BY <1>4, <3>3
      <3>5. BatchTrue(e)'
        BY <1>3, <3>2, <3>4, HistoryAlone DEF BatchTrue
      <3>. QED
        BY <3>1, <3>3, <3>5
    <2>. QED
      BY <2>1, <2>2
  <1>12. DOMAIN batch' = Collectors
    BY <1>3, <1>4
  <1>13. /\ ReleasesInOrder' /\ Reliable(stored, pulled)' /\ \A t \in seen' : Sees(stored, t)'
    <2>1. ReleasesInOrder' /\ Reliable(after, p)' /\ \A t \in S : Sees(after, t)'
      BY <1>3, <1>4, <1>8, <1>10, HistoryAlone
    <2>. QED
      BY <1>3, <1>7, <1>9, <2>1
  <1>14. pulled' \in 0 .. now' /\ seen' \subseteq 1 .. now'
    BY <1>3, <1>7, <1>8, <1>9, <1>10
  <1>. QED
    BY <1>11, <1>12, <1>13, <1>14 DEF FigureInv

\* A collector that fails has stored nothing; nor does a step of others store.
LEMMA FigureKept ==
  ASSUME FigureInv, UNCHANGED <<now, released, stored, pulled, seen>>,
         \/ batch' = batch
         \/ \E c \in Collectors :
              batch' = [batch EXCEPT ![c] = [kind |-> "none", at |-> 0, rows |-> <<>>]]
  PROVE  FigureInv'
  <1>1. /\ DOMAIN batch = Collectors /\ \A d \in Collectors : BatchTrue(batch[d])
    BY DEF FigureInv
  <1>2. ASSUME NEW d \in Collectors
        PROVE  BatchTrue(batch[d])'
    <2>1. CASE batch'[d].kind = "none"
      BY <2>1 DEF BatchTrue
    <2>2. CASE batch'[d].kind # "none"
      <3>1. batch'[d] = batch[d]
        BY <1>1, <2>2
      <3>2. PICK e : e = batch[d]
        OBVIOUS
      <3>3. BatchTrue(e)
        BY <1>1, <3>2
      <3>4. BatchTrue(e)'
        BY <3>3, HistoryAlone DEF BatchTrue
      <3>. QED
        BY <3>1, <3>2, <3>4
    <2>. QED
      BY <2>1, <2>2
  <1>3. DOMAIN batch' = Collectors
    BY <1>1
  <1>4. /\ ReleasesInOrder' /\ Reliable(stored, pulled)' /\ \A t \in seen : Sees(stored, t)'
    <2>1. PICK T, p : T = stored /\ p = pulled
      OBVIOUS
    <2>2. ReleasesInOrder /\ Reliable(T, p) /\ \A t \in seen : Sees(T, t)
      BY <2>1 DEF FigureInv
    <2>3. ReleasesInOrder' /\ Reliable(T, p)' /\ \A t \in seen : Sees(T, t)'
      BY <2>2, HistoryAlone
    <2>. QED
      BY <2>1, <2>3
  <1>5. pulled' \in 0 .. now' /\ seen' \subseteq 1 .. now'
    BY DEF FigureInv
  <1>. QED
    BY <1>2, <1>3, <1>4, <1>5 DEF FigureInv

LEMMA FigureNext ==
  ASSUME FigureInv, WindowSize \in Nat \ {0}, [Figures!Next]_(Figures!vars)
  PROVE  FigureInv'
  <1>1. CASE Figures!Release
    BY <1>1, ReleaseInv
  <1>2. ASSUME NEW c \in Collectors, Figures!FetchForward(c) \/ Figures!FetchBackfill(c)
        PROVE  FigureInv'
    BY <1>2, FetchInv
  <1>3. ASSUME NEW c \in Collectors, Figures!Store(c)
        PROVE  FigureInv'
    BY <1>3, StoreInv
  <1>4. ASSUME NEW c \in Collectors, Figures!Fail(c)
        PROVE  FigureInv'
    BY <1>4, FigureKept DEF Figures!Fail
  <1>5. CASE UNCHANGED Figures!vars
    BY <1>5, FigureKept DEF Figures!vars
  <1>. QED
    BY <1>1, <1>2, <1>3, <1>4, <1>5 DEF Figures!Next

\* What is stored is read as it was known.
LEMMA FigureTrue ==
  ASSUME FigureInv
  PROVE  Figures!VintagesTrue
  <1>1. /\ now \in Nat \ {0} /\ pulled \in 0 .. now /\ seen \subseteq 1 .. now
        /\ TrueRows(stored) /\ \A t \in 1 .. pulled : Sees(stored, t)
        /\ \A t \in seen : Sees(stored, t)
    BY DEF FigureInv, ReleasesInOrder, Reliable
  <1>2. Figures!NoLookAhead
    <2> SUFFICES ASSUME NEW t \in 1 .. now, NEW r \in Figures!AsOf(t)
                 PROVE  r.at <= t /\ r.value = Figures!Current(r.at)
      BY DEF Figures!NoLookAhead
    <2>1. r \in stored /\ r.at < t + 1
      BY DEF Figures!AsOf, Figures!LatestBefore
    <2>2. r \in Vintage /\ r.value = Figures!Current(r.at)
      BY <1>1, <2>1 DEF TrueRows
    <2>. QED
      BY <1>1, <2>1, <2>2 DEF Vintage
  <1>3. ASSUME NEW t \in Nat, Sees(stored, t)
        PROVE  {r.value : r \in Figures!AsOf(t)} = {Figures!Current(t)}
    BY <1>1, <1>3, SeesOne DEF Figures!AsOf
  <1>4. Figures!BackfilledExact
    <2>1. \A t \in 1 .. pulled : t \in Nat
      BY <1>1
    <2>. QED
      BY <1>1, <1>3, <2>1 DEF Figures!BackfilledExact
  <1>5. Figures!SeenIsRead
    <2>1. \A t \in seen : t \in Nat
      BY <1>1
    <2>. QED
      BY <1>1, <1>3, <2>1 DEF Figures!SeenIsRead
  <1>. QED
    BY <1>2, <1>4, <1>5 DEF Figures!VintagesTrue

\* Whatever is released and however collectors overlap, fail and are followed or
\* preceded by a backfill in windows of any size: a replay reads no value before
\* its release, reads exactly what was current up to the last backfill, and reads
\* what an undisturbed collector saw (PostgresMacroObservationRepository, alfred.py).
THEOREM FiguresAreTrue ==
  ASSUME WindowSize \in Nat \ {0}
  PROVE  Figures!Spec => []Figures!VintagesTrue
  <1>1. FigureInv /\ [Figures!Next]_(Figures!vars) => FigureInv'
    BY FigureNext
  <1>. QED
    BY FigureInit, <1>1, FigureTrue, PTL DEF Figures!Spec

-----------------------------------------------------------------------------
(* One archive of documents: OpinionsArchive, for any meetings, texts and processes *)

CONSTANTS Meetings, Texts, Announced
VARIABLES docClock, page, documents, collecting, taken, failures, read

Papers == INSTANCE OpinionsArchive WITH
  Versions <- Texts, MaxTime <- MaxDate, now <- docClock, archive <- documents, run <- collecting

\* A file that names a meeting; no text has the hash that stands for none.
PapersGiven ==
  /\ Meetings \in Seq(Papers!Documents) /\ Len(Meetings) >= 1
  /\ Announced \in [Papers!Documents -> Nat]
  /\ \A m \in Papers!Documents : Papers!Nothing \notin Texts[m]
  /\ MaxDate \in Nat \ {0}

Text == UNION {Texts[m] : m \in Papers!Documents}
PaperRow ==
  [meeting : Papers!Documents, version : Text, retrievedAt : Nat, revision : BOOLEAN, knownAt : Nat]

\* The rows a reader of instant t sees of a meeting, and the newest of them.
RowsAt(A, m, t) == {k \in DOMAIN A : A[k].meeting = m /\ A[k].knownAt <= t}
IsNewestAt(A, m, t, k) ==
  /\ k \in RowsAt(A, m, t)
  /\ \A j \in RowsAt(A, m, t) : \/ A[j].knownAt < A[k].knownAt
                                \/ A[j].knownAt = A[k].knownAt /\ j <= k
HashAt(A, m, t) ==
  IF RowsAt(A, m, t) = {} THEN Papers!Nothing
  ELSE A[CHOOSE k \in {i \in RowsAt(A, m, t) : IsNewestAt(A, m, t, i)} : TRUE].version

HashesKnown == \A m, t : Papers!LatestRawHash(m, t) = HashAt(documents, m, t)

LEMMA HashRead == HashesKnown
  <1> SUFFICES ASSUME NEW m, NEW t
               PROVE  Papers!LatestRawHash(m, t) = HashAt(documents, m, t)
    BY DEF HashesKnown
  <1> DEFINE R == {k \in DOMAIN documents : documents[k].meeting = m /\ documents[k].knownAt <= t}
             N == {k \in R : \A j \in R : \/ documents[j].knownAt < documents[k].knownAt
                                          \/ documents[j].knownAt = documents[k].knownAt /\ j <= k}
  <1>1. Papers!LatestRawHash(m, t) =
          IF R = {} THEN Papers!Nothing ELSE documents[CHOOSE k \in N : TRUE].version
    BY Zenon DEF Papers!LatestRawHash
  <1>2. RowsAt(documents, m, t) = R
    BY DEF RowsAt
  <1>3. {i \in RowsAt(documents, m, t) : IsNewestAt(documents, m, t, i)} = N
    <2> HIDE DEF R
    <2>1. \A i \in R : IsNewestAt(documents, m, t, i)
                       <=> \A j \in R : \/ documents[j].knownAt < documents[i].knownAt
                                        \/ documents[j].knownAt = documents[i].knownAt /\ j <= i
      BY <1>2, Zenon DEF IsNewestAt
    <2>. QED
      BY <1>2, <2>1
  <1> HIDE DEF R, N
  <1>. QED
    BY <1>1, <1>2, <1>3, Zenon DEF HashAt

LEMMA HashReadNext == HashesKnown'
  BY HashRead, PTL

\* A finite set of numbers has a greatest.
LEMMA GreatestUpTo ==
  ASSUME NEW n \in Nat, NEW S \in SUBSET (0 .. n), S # {}
  PROVE  \E g \in S : \A x \in S : x <= g
  <1> DEFINE R == {n - x : x \in S}
  <1>1. R \in SUBSET Nat /\ R # {}
    <2>1. \A x \in 0 .. n : n - x \in Nat
      OBVIOUS
    <2>. QED
      BY <2>1
  <1>2. PICK l \in R : \A r \in R : l <= r
    BY <1>1, LeastNumber
  <1>3. PICK g \in S : l = n - g
    BY <1>2
  <1>4. ASSUME NEW x \in S
        PROVE  x <= g
    <2>1. n - x \in R
      OBVIOUS
    <2>2. n - g <= n - x /\ x \in Nat /\ g \in Nat
      BY <1>2, <1>3, <2>1
    <2>. QED
      BY <2>2
  <1>. QED
    BY <1>4

\* Some row is the newest, and only one.
LEMMA HashIs ==
  ASSUME NEW A \in Seq(PaperRow), NEW m, NEW t \in Nat
  PROVE  /\ RowsAt(A, m, t) = {} => HashAt(A, m, t) = Papers!Nothing
         /\ RowsAt(A, m, t) # {} => \E k : IsNewestAt(A, m, t, k)
         /\ \A k : IsNewestAt(A, m, t, k) => HashAt(A, m, t) = A[k].version
  <1>1. /\ Len(A) \in Nat /\ DOMAIN A = 1 .. Len(A)
        /\ \A k \in 1 .. Len(A) : A[k] \in PaperRow
    OBVIOUS
  <1>2. \A k \in 1 .. Len(A) : A[k].knownAt \in Nat
    BY <1>1 DEF PaperRow
  <1>3. \A k \in RowsAt(A, m, t) : k \in 1 .. Len(A) /\ A[k].knownAt <= t
    BY <1>1 DEF RowsAt
  <1>4. ASSUME RowsAt(A, m, t) # {}
        PROVE  \E k : IsNewestAt(A, m, t, k)
    <2> DEFINE K == {A[k].knownAt : k \in RowsAt(A, m, t)}
    <2>1. K \in SUBSET (0 .. t) /\ K # {}
      BY <1>2, <1>3, <1>4
    <2>2. PICK g \in K : \A x \in K : x <= g
      BY <2>1, GreatestUpTo
    <2> DEFINE L == {k \in RowsAt(A, m, t) : A[k].knownAt = g}
    <2>3. L \in SUBSET (0 .. Len(A)) /\ L # {}
      BY <1>1, <1>3, <2>2
    <2>4. PICK k \in L : \A x \in L : x <= k
      BY <1>1, <2>3, GreatestUpTo
    <2>5. IsNewestAt(A, m, t, k)
      <3>1. ASSUME NEW j \in RowsAt(A, m, t)
            PROVE  \/ A[j].knownAt < A[k].knownAt
                   \/ A[j].knownAt = A[k].knownAt /\ j <= k
        <4>1. A[j].knownAt \in Nat /\ A[j].knownAt <= g /\ g \in Nat /\ A[k].knownAt = g
          BY <1>2, <1>3, <2>1, <2>2, <2>4
        <4>. QED
          BY <2>4, <4>1
      <3>. QED
        BY <2>4, <3>1 DEF IsNewestAt
    <2>. QED
      BY <2>5
  <1>5. ASSUME NEW k, IsNewestAt(A, m, t, k)
        PROVE  HashAt(A, m, t) = A[k].version
    <2> DEFINE N == {i \in RowsAt(A, m, t) : IsNewestAt(A, m, t, i)}
    <2>1. k \in N /\ RowsAt(A, m, t) # {}
      BY <1>5 DEF IsNewestAt
    <2>2. ASSUME NEW i \in N
          PROVE  i = k
      <3>1. i \in RowsAt(A, m, t) /\ k \in RowsAt(A, m, t) /\ IsNewestAt(A, m, t, i)
        BY <1>5 DEF IsNewestAt
      <3>2. i \in Int /\ k \in Int /\ A[i].knownAt \in Nat /\ A[k].knownAt \in Nat
        BY <1>2, <1>3, <3>1
      <3>3. /\ \/ A[i].knownAt < A[k].knownAt
               \/ A[i].knownAt = A[k].knownAt /\ i <= k
            /\ \/ A[k].knownAt < A[i].knownAt
               \/ A[k].knownAt = A[i].knownAt /\ k <= i
        BY <1>5, <3>1 DEF IsNewestAt
      <3>. QED
        BY <3>2, <3>3
    <2> HIDE DEF N
    <2>3. (CHOOSE i \in N : TRUE) = k
      BY <2>1, <2>2
    <2>. QED
      BY <2>1, <2>3 DEF HashAt, N
  <1>. QED
    BY <1>4, <1>5 DEF HashAt

\* A row more changes what it hides, and nothing else.
LEMMA HashAppend ==
  ASSUME NEW A \in Seq(PaperRow), NEW row \in PaperRow, NEW m, NEW t \in Nat
  PROVE  /\ row.meeting # m \/ row.knownAt > t
              => HashAt(Append(A, row), m, t) = HashAt(A, m, t)
         /\ /\ row.meeting = m /\ row.knownAt <= t
            /\ \A k \in RowsAt(A, m, t) : A[k].knownAt <= row.knownAt
            => HashAt(Append(A, row), m, t) = row.version
  <1> DEFINE B == Append(A, row)
             n == Len(A)
  <1>1. /\ n \in Nat /\ DOMAIN A = 1 .. n /\ B \in Seq(PaperRow)
        /\ DOMAIN B = 1 .. n + 1 /\ B[n + 1] = row
        /\ \A k \in 1 .. n : B[k] = A[k] /\ A[k] \in PaperRow
    OBVIOUS
  <1>2. row.knownAt \in Nat /\ \A k \in 1 .. n : A[k].knownAt \in Nat
    BY <1>1 DEF PaperRow
  <1> HIDE DEF B
  <1>3. ASSUME row.meeting # m \/ row.knownAt > t
        PROVE  HashAt(B, m, t) = HashAt(A, m, t)
    <2>1. RowsAt(B, m, t) = RowsAt(A, m, t) /\ RowsAt(A, m, t) \subseteq 1 .. n
      <3>1. \A k \in 1 .. n + 1 : k \in 1 .. n \/ k = n + 1
        BY <1>1
      <3>2. \A k \in 1 .. n : k \in 1 .. n + 1
        BY <1>1
      <3>3. RowsAt(A, m, t) \subseteq 1 .. n
        BY <1>1 DEF RowsAt
      <3>4. ~(B[n + 1].meeting = m /\ B[n + 1].knownAt <= t)
        BY <1>1, <1>2, <1>3
      <3>. QED
        BY <1>1, <3>1, <3>2, <3>3, <3>4 DEF RowsAt
    <2>2. CASE RowsAt(A, m, t) = {}
      BY <2>1, <2>2, Zenon DEF HashAt
    <2>3. CASE RowsAt(A, m, t) # {}
      <3>1. PICK k : IsNewestAt(A, m, t, k)
        BY <2>3, HashIs
      <3>2. k \in 1 .. n /\ \A j \in RowsAt(A, m, t) : B[j] = A[j] /\ B[k] = A[k]
        BY <1>1, <2>1, <3>1 DEF IsNewestAt
      <3>3. IsNewestAt(B, m, t, k)
        BY <2>1, <3>1, <3>2 DEF IsNewestAt
      <3>4. HashAt(B, m, t) = B[k].version
        BY <1>1, <3>3, HashIs
      <3>5. HashAt(A, m, t) = A[k].version
        BY <3>1, HashIs
      <3>. QED
        BY <1>1, <3>2, <3>4, <3>5
    <2>. QED
      BY <2>2, <2>3
  <1>4. ASSUME row.meeting = m, row.knownAt <= t,
               \A k \in RowsAt(A, m, t) : A[k].knownAt <= row.knownAt
        PROVE  HashAt(B, m, t) = row.version
    <2>1. IsNewestAt(B, m, t, n + 1)
      <3>1. n + 1 \in RowsAt(B, m, t)
        BY <1>1, <1>4 DEF RowsAt
      <3>2. ASSUME NEW j \in RowsAt(B, m, t)
            PROVE  \/ B[j].knownAt < B[n + 1].knownAt
                   \/ B[j].knownAt = B[n + 1].knownAt /\ j <= n + 1
        <4>1. j \in 1 .. n + 1 /\ B[j].meeting = m /\ B[j].knownAt <= t
          BY <1>1 DEF RowsAt
        <4>2. CASE j = n + 1
          BY <1>1, <4>2
        <4>3. CASE j # n + 1
          <5>1. j \in 1 .. n /\ B[j] = A[j]
            BY <1>1, <4>1, <4>3
          <5>2. j \in RowsAt(A, m, t)
            BY <1>1, <4>1, <5>1 DEF RowsAt
          <5>3. A[j].knownAt <= row.knownAt /\ A[j].knownAt \in Nat /\ row.knownAt \in Nat
            BY <1>2, <1>4, <5>1, <5>2
          <5>. QED
            BY <1>1, <5>1, <5>3
        <4>. QED
          BY <4>2, <4>3
      <3>. QED
        BY <3>1, <3>2 DEF IsNewestAt
    <2>2. HashAt(B, m, t) = B[n + 1].version
      BY <1>1, <2>1, HashIs
    <2>. QED
      BY <1>1, <2>2
  <1>. QED
    BY <1>3, <1>4 DEF B

-----------------------------------------------------------------------------
(* The invariant of the archive *)

Progress ==
  [next : 0 .. Len(Meetings), stage : {"idle", "statement", "fetched", "changed"}, at : Nat,
   latest : Text \cup {Papers!Nothing}, alone : BOOLEAN]
IsOpen(r) == r.stage \in {"fetched", "changed"}
Reported(r) == Meetings[r.next]
AtWork(r) ==
  \/ r = Papers!Idle
  \/ r.next \in 1 .. Len(Meetings) /\ r.stage # "idle"

PaperTypes ==
  /\ docClock \in 1 .. MaxDate
  /\ page \in [Papers!Documents -> [1 .. docClock -> Text]]
  /\ \A m \in Papers!Documents, t \in 1 .. docClock : page[m][t] \in Texts[m]
  /\ documents \in Seq(PaperRow)
  /\ collecting \in [Collectors -> Progress]
  /\ taken \in [Collectors -> [Papers!Documents -> Text \cup {Papers!Nothing}]]
  /\ failures \in [Collectors -> SUBSET Papers!Documents]
  /\ read \subseteq [meeting : Papers!Documents, at : 1 .. docClock]

\* A row is what its process saw; one that is no revision is the first of its
\* document.
PaperTrue(r) ==
  /\ r.retrievedAt \in 1 .. docClock /\ page[r.meeting][r.retrievedAt] = r.version
  /\ r.knownAt = IF r.revision THEN r.retrievedAt ELSE Announced[r.meeting]
  /\ r.knownAt <= r.retrievedAt
RowsTrue == \A k \in 1 .. Len(documents) : PaperTrue(documents[k])
FirstOnly ==
  \A j, k \in 1 .. Len(documents) :
    documents[j].meeting = documents[k].meeting /\ ~documents[k].revision => k <= j

\* An open process holds what the page showed when it was fetched, and nobody
\* has read anything later.
Holds(c) ==
  LET r == collecting[c]
  IN  /\ AtWork(r)
      /\ IsOpen(r) => /\ r.at \in 1 .. docClock /\ Announced[Reported(r)] <= r.at
                      /\ taken[c][Reported(r)] = page[Reported(r)][r.at]
                      /\ \A x \in read : x.at <= r.at

\* A process that is alone is the only open one, and no row is newer.
Alone(c) ==
  collecting[c].alone =>
    /\ IsOpen(collecting[c]) /\ \A o \in Collectors \ {c} : ~IsOpen(collecting[o])
    /\ \A k \in 1 .. Len(documents) : documents[k].knownAt <= collecting[c].at

ReadTrue == \A x \in read : HashAt(documents, x.meeting, x.at) = page[x.meeting][x.at]

HasRow(m, v) == \E k \in 1 .. Len(documents) : documents[k].meeting = m /\ documents[k].version = v
Kept(c, m) ==
  taken[c][m] # Papers!Nothing /\ m \notin failures[c] =>
    \/ IsOpen(collecting[c]) /\ Reported(collecting[c]) = m
    \/ HasRow(m, taken[c][m])

PaperInv ==
  /\ PaperTypes /\ RowsTrue /\ FirstOnly /\ ReadTrue
  /\ \A c \in Collectors : Holds(c) /\ Alone(c) /\ \A m \in Papers!Documents : Kept(c, m)

LEMMA PaperInit ==
  ASSUME PapersGiven, Papers!Init
  PROVE  PaperInv
  <1>1. /\ docClock = 1 /\ documents = <<>> /\ read = {}
        /\ collecting = [c \in Collectors |-> Papers!Idle]
        /\ taken = [c \in Collectors |-> [m \in Papers!Documents |-> Papers!Nothing]]
        /\ failures = [c \in Collectors |-> {}]
    BY DEF Papers!Init
  <1>2. /\ page \in [Papers!Documents -> [{1} -> Text]]
        /\ \A m \in Papers!Documents : page[m][1] \in Texts[m]
    BY DEF Papers!Init, Text
  <1>3. Papers!Idle \in Progress /\ ~Papers!Idle.alone /\ ~IsOpen(Papers!Idle)
    BY DEF PapersGiven, Papers!Idle, Progress, IsOpen
  <1>4. PaperTypes
    <2>1. 1 .. docClock = {1} /\ docClock \in 1 .. MaxDate
      BY <1>1 DEF PapersGiven
    <2>. QED
      BY <1>1, <1>2, <1>3, <2>1 DEF PaperTypes
  <1>5. Len(documents) = 0 /\ 1 .. Len(documents) = {}
    BY <1>1
  <1>6. RowsTrue /\ FirstOnly /\ ReadTrue
    BY <1>1, <1>5 DEF RowsTrue, FirstOnly, ReadTrue
  <1>7. ASSUME NEW c \in Collectors
        PROVE  Holds(c) /\ Alone(c) /\ \A m \in Papers!Documents : Kept(c, m)
    <2>1. collecting[c] = Papers!Idle /\ \A m \in Papers!Documents : taken[c][m] = Papers!Nothing
      BY <1>1
    <2>2. Holds(c)
      BY <1>3, <2>1 DEF Holds, AtWork
    <2>3. Alone(c)
      BY <1>3, <2>1 DEF Alone
    <2>4. \A m \in Papers!Documents : Kept(c, m)
      BY <2>1 DEF Kept
    <2>. QED
      BY <2>2, <2>3, <2>4
  <1>. QED
    BY <1>4, <1>6, <1>7 DEF PaperInv

-----------------------------------------------------------------------------
(* A process is done with a document *)

ClosedAs(x) == x \in Progress /\ AtWork(x) /\ ~x.alone /\ ~IsOpen(x)

LEMMA NextIsClosed ==
  ASSUME PapersGiven, PaperInv, NEW c \in Collectors
  PROVE  /\ ClosedAs(Papers!Idle)
         /\ collecting[c].stage # "idle" => ClosedAs(Papers!NextMeeting(c))
  <1>1. ClosedAs(Papers!Idle)
    BY DEF PapersGiven, ClosedAs, Papers!Idle, Progress, IsOpen, AtWork
  <1>2. ASSUME collecting[c].stage # "idle"
        PROVE  ClosedAs(Papers!NextMeeting(c))
    <2>1. collecting[c] # Papers!Idle
      BY <1>2 DEF Papers!Idle
    <2>2. collecting[c].next \in 1 .. Len(Meetings) /\ Len(Meetings) \in Nat
      BY <2>1 DEF PaperInv, Holds, AtWork, PapersGiven
    <2>3. CASE collecting[c].next = Len(Meetings)
      BY <1>1, <2>3 DEF Papers!NextMeeting
    <2>4. CASE collecting[c].next # Len(Meetings)
      <3> DEFINE x == [Papers!Idle EXCEPT !.next = collecting[c].next + 1, !.stage = "statement"]
      <3>1. Papers!NextMeeting(c) = x
        BY <2>4 DEF Papers!NextMeeting
      <3>2. collecting[c].next + 1 \in 1 .. Len(Meetings)
            /\ collecting[c].next + 1 \in 0 .. Len(Meetings)
        BY <2>2, <2>4
      <3>3. Papers!Idle \in Progress /\ Papers!Idle.alone = FALSE
        BY <1>1 DEF ClosedAs
      <3>4. /\ x \in Progress /\ x.next = collecting[c].next + 1 /\ x.stage = "statement"
            /\ x.alone = FALSE
        BY <3>2, <3>3 DEF Progress
      <3> HIDE DEF x
      <3>5. AtWork(x) /\ ~x.alone /\ ~IsOpen(x)
        BY <3>2, <3>4 DEF AtWork, IsOpen
      <3>. QED
        BY <3>1, <3>4, <3>5 DEF ClosedAs
    <2>. QED
      BY <2>3, <2>4
  <1>. QED
    BY <1>1, <1>2

\* What closing a document may change.
Closing(c, x) ==
  /\ ClosedAs(x) /\ collecting' = [collecting EXCEPT ![c] = x]
  /\ docClock' = docClock /\ page' = page /\ taken' = taken
  /\ failures' \in [Collectors -> SUBSET Papers!Documents]
  /\ \A d \in Collectors : failures[d] \subseteq failures'[d]
  /\ documents' \in Seq(PaperRow)
  /\ documents' = documents \/ IsOpen(collecting[c])
  /\ \A k \in 1 .. Len(documents) : k \in 1 .. Len(documents') /\ documents'[k] = documents[k]
  /\ \A y \in read' : \/ y \in read
                      \/ /\ collecting[c].alone
                         /\ y = [meeting |-> Reported(collecting[c]), at |-> collecting[c].at]
  /\ RowsTrue' /\ FirstOnly' /\ ReadTrue'

\* The document is stored, or its meeting is reported.
Settled(c) ==
  LET m == Reported(collecting[c])
  IN  IsOpen(collecting[c]) /\ taken[c][m] # Papers!Nothing /\ m \notin failures'[c] =>
        \E k \in 1 .. Len(documents') : /\ documents'[k].meeting = m
                                        /\ documents'[k].version = taken[c][m]

LEMMA PaperClose ==
  ASSUME PapersGiven, PaperInv, NEW c \in Collectors, NEW x, Closing(c, x), Settled(c)
  PROVE  PaperInv'
  <1>1. /\ collecting' = [collecting EXCEPT ![c] = x]
        /\ docClock' = docClock /\ page' = page /\ taken' = taken
    BY DEF Closing
  <1>2. /\ PaperTypes
        /\ x \in Progress /\ AtWork(x) /\ ~x.alone /\ ~IsOpen(x)
        /\ \A d \in Collectors : Holds(d) /\ Alone(d) /\ \A m \in Papers!Documents : Kept(d, m)
    BY Zenon DEF Closing, ClosedAs, PaperInv
  <1>3. collecting \in [Collectors -> Progress]
    BY <1>2 DEF PaperTypes
  <1>4. /\ collecting'[c] = x /\ collecting' \in [Collectors -> Progress]
        /\ \A d \in Collectors : d # c => collecting'[d] = collecting[d]
    BY <1>1, <1>2, <1>3
  <1>5. PaperTypes'
    <2>1. /\ failures' \in [Collectors -> SUBSET Papers!Documents]
          /\ documents' \in Seq(PaperRow)
      BY DEF Closing
    <2>2. read' \subseteq [meeting : Papers!Documents, at : 1 .. docClock]
      <3> SUFFICES ASSUME NEW y \in read'
                   PROVE  y \in [meeting : Papers!Documents, at : 1 .. docClock]
        OBVIOUS
      <3>1. CASE y \in read
        BY <1>2, <3>1 DEF PaperTypes
      <3>2. CASE /\ collecting[c].alone
                 /\ y = [meeting |-> Reported(collecting[c]), at |-> collecting[c].at]
        <4>1. IsOpen(collecting[c]) /\ collecting[c].at \in 1 .. docClock
          BY <1>2, <3>2 DEF Alone, Holds
        <4>2. collecting[c].next \in 1 .. Len(Meetings)
          <5>1. collecting[c] # Papers!Idle
            BY <4>1 DEF IsOpen, Papers!Idle
          <5>. QED
            BY <1>2, <5>1 DEF Holds, AtWork
        <4>3. Reported(collecting[c]) \in Papers!Documents
          BY <4>2 DEF Reported, PapersGiven
        <4>. QED
          BY <3>2, <4>1, <4>3
      <3>. QED
        BY <3>1, <3>2 DEF Closing
    <2>. QED
      BY <1>1, <1>2, <1>4, <2>1, <2>2 DEF PaperTypes
  <1>6. ASSUME NEW d \in Collectors
        PROVE  Holds(d)'
    <2>1. CASE d = c
      BY <1>2, <1>4, <2>1 DEF Holds
    <2>2. CASE d # c
      <3>1. collecting'[d] = collecting[d] /\ Holds(d)
        BY <1>2, <1>4, <2>2
      <3>2. ASSUME IsOpen(collecting[d]), NEW y \in read'
            PROVE  y.at <= collecting[d].at
        <4>1. CASE y \in read
          BY <3>1, <3>2, <4>1 DEF Holds
        <4>2. CASE y \notin read
          <5>1. collecting[c].alone
            BY <4>2 DEF Closing
          <5>2. ~IsOpen(collecting[d])
            BY <1>2, <2>2, <5>1 DEF Alone
          <5>. QED
            BY <3>2, <5>2
        <4>. QED
          BY <4>1, <4>2
      <3>3. AtWork(collecting[d])
        BY <3>1 DEF Holds
      <3>4. IsOpen(collecting[d]) =>
              /\ collecting[d].at \in 1 .. docClock
              /\ Announced[Reported(collecting[d])] <= collecting[d].at
              /\ taken[d][Reported(collecting[d])] = page[Reported(collecting[d])][collecting[d].at]
        BY <3>1 DEF Holds
      <3>. QED
        BY <1>1, <3>1, <3>2, <3>3, <3>4 DEF Holds
    <2>. QED
      BY <2>1, <2>2
  <1>7. ASSUME NEW d \in Collectors
        PROVE  Alone(d)'
    <2>1. CASE d = c
      BY <1>2, <1>4, <2>1 DEF Alone
    <2>2. CASE d # c
      <3> SUFFICES ASSUME collecting[d].alone
                   PROVE  /\ IsOpen(collecting'[d])
                          /\ \A o \in Collectors \ {d} : ~IsOpen(collecting'[o])
                          /\ \A k \in 1 .. Len(documents') :
                               documents'[k].knownAt <= collecting'[d].at
        BY <1>4, <2>2 DEF Alone
      <3>1. /\ IsOpen(collecting[d]) /\ \A o \in Collectors \ {d} : ~IsOpen(collecting[o])
            /\ \A k \in 1 .. Len(documents) : documents[k].knownAt <= collecting[d].at
        BY <1>2 DEF Alone
      <3>2. documents' = documents
        BY <2>2, <3>1 DEF Closing
      <3>3. \A o \in Collectors \ {d} : ~IsOpen(collecting'[o])
        BY <1>2, <1>4, <3>1
      <3>. QED
        BY <1>4, <2>2, <3>1, <3>2, <3>3
    <2>. QED
      BY <2>1, <2>2
  <1>8. ASSUME NEW d \in Collectors, NEW m \in Papers!Documents
        PROVE  Kept(d, m)'
    <2> SUFFICES ASSUME taken[d][m] # Papers!Nothing, m \notin failures'[d]
                 PROVE  \/ IsOpen(collecting'[d]) /\ Reported(collecting'[d]) = m
                        \/ \E k \in 1 .. Len(documents') : /\ documents'[k].meeting = m
                                                           /\ documents'[k].version = taken[d][m]
      BY <1>1 DEF Kept, HasRow
    <2>1. m \notin failures[d]
      BY DEF Closing
    <2>2. Kept(d, m)
      BY <1>2
    <2>3. CASE HasRow(m, taken[d][m])
      BY <2>3 DEF HasRow, Closing
    <2>4. CASE IsOpen(collecting[d]) /\ Reported(collecting[d]) = m
      <3>1. CASE d = c
        BY <2>4, <3>1 DEF Settled
      <3>2. CASE d # c
        BY <1>4, <2>4, <3>2
      <3>. QED
        BY <3>1, <3>2
    <2>. QED
      BY <2>1, <2>2, <2>3, <2>4 DEF Kept
  <1>9. RowsTrue' /\ FirstOnly' /\ ReadTrue'
    BY DEF Closing
  <1>. QED
    BY <1>5, <1>6, <1>7, <1>8, <1>9 DEF PaperInv

LEMMA PaperStays ==
  ASSUME PaperInv, UNCHANGED <<docClock, page, documents>>
  PROVE  RowsTrue' /\ FirstOnly' /\ (read' = read => ReadTrue')
  BY DEF PaperInv, RowsTrue, FirstOnly, ReadTrue, PaperTrue

\* Closed without a row: unpublished, failed or killed.
LEMMA PaperDropped ==
  ASSUME PapersGiven, PaperInv, NEW c \in Collectors, NEW x, ClosedAs(x),
         collecting' = [collecting EXCEPT ![c] = x],
         UNCHANGED <<docClock, page, documents, taken, read>>,
         failures' \in [Collectors -> SUBSET Papers!Documents],
         \A d \in Collectors : failures[d] \subseteq failures'[d],
         IsOpen(collecting[c]) => Reported(collecting[c]) \in failures'[c]
  PROVE  PaperInv'
  <1>1. documents \in Seq(PaperRow)
    BY DEF PaperInv, PaperTypes
  <1>2. RowsTrue' /\ FirstOnly' /\ ReadTrue'
    BY PaperStays
  <1>3. Closing(c, x)
    BY <1>1, <1>2 DEF Closing
  <1>4. Settled(c)
    BY DEF Settled
  <1>. QED
    BY <1>3, <1>4, PaperClose

LEMMA PaperAtWork ==
  ASSUME PapersGiven, PaperInv, NEW c \in Collectors, collecting[c] # Papers!Idle
  PROVE  /\ collecting[c].stage # "idle" /\ collecting[c].next \in 1 .. Len(Meetings)
         /\ Papers!Meeting(c) = Reported(collecting[c])
         /\ Reported(collecting[c]) \in Papers!Documents
  <1>1. collecting[c].stage # "idle" /\ collecting[c].next \in 1 .. Len(Meetings)
    BY DEF PaperInv, Holds, AtWork
  <1>2. Papers!Meeting(c) = Reported(collecting[c])
    BY DEF Papers!Meeting, Reported
  <1>3. Reported(collecting[c]) \in Papers!Documents
    BY <1>1 DEF Reported, PapersGiven
  <1>. QED
    BY <1>1, <1>2, <1>3

LEMMA PaperUnpublished ==
  ASSUME PapersGiven, PaperInv, NEW c \in Collectors, Papers!Unpublished(c)
  PROVE  PaperInv'
  <1>1. /\ collecting[c].stage = "statement"
        /\ collecting' = [collecting EXCEPT ![c] = Papers!NextMeeting(c)]
        /\ UNCHANGED <<docClock, page, documents, taken, failures, read>>
    BY DEF Papers!Unpublished
  <1>2. ClosedAs(Papers!NextMeeting(c))
    BY <1>1, NextIsClosed
  <1>3. ~IsOpen(collecting[c])
    BY <1>1 DEF IsOpen
  <1>4. failures' \in [Collectors -> SUBSET Papers!Documents]
    BY <1>1 DEF PaperInv, PaperTypes
  <1>. QED
    BY <1>1, <1>2, <1>3, <1>4, PaperDropped

LEMMA PaperFail ==
  ASSUME PapersGiven, PaperInv, NEW c \in Collectors, Papers!Fail(c)
  PROVE  PaperInv'
  <1>1. /\ collecting[c] # Papers!Idle
        /\ failures' = [failures EXCEPT ![c] = @ \cup {Papers!Meeting(c)}]
        /\ collecting' = [collecting EXCEPT ![c] = Papers!NextMeeting(c)]
        /\ UNCHANGED <<docClock, page, documents, taken, read>>
    BY DEF Papers!Fail
  <1>2. /\ Papers!Meeting(c) = Reported(collecting[c]) /\ collecting[c].stage # "idle"
        /\ Reported(collecting[c]) \in Papers!Documents
    BY <1>1, PaperAtWork
  <1>3. ClosedAs(Papers!NextMeeting(c))
    BY <1>2, NextIsClosed
  <1>4. failures \in [Collectors -> SUBSET Papers!Documents]
    BY DEF PaperInv, PaperTypes
  <1>5. /\ failures' \in [Collectors -> SUBSET Papers!Documents]
        /\ \A d \in Collectors : failures[d] \subseteq failures'[d]
        /\ Reported(collecting[c]) \in failures'[c]
    BY <1>1, <1>2, <1>4
  <1>. QED
    BY <1>1, <1>3, <1>5, PaperDropped

LEMMA PaperKill ==
  ASSUME PapersGiven, PaperInv, NEW c \in Collectors, Papers!Kill(c)
  PROVE  PaperInv'
  <1>1. /\ collecting[c] # Papers!Idle
        /\ failures' = [failures EXCEPT ![c] = Papers!Documents]
        /\ collecting' = [collecting EXCEPT ![c] = Papers!Idle]
        /\ UNCHANGED <<docClock, page, documents, taken, read>>
    BY DEF Papers!Kill
  <1>2. Reported(collecting[c]) \in Papers!Documents
    BY <1>1, PaperAtWork
  <1>3. ClosedAs(Papers!Idle)
    BY NextIsClosed
  <1>4. failures \in [Collectors -> SUBSET Papers!Documents]
    BY DEF PaperInv, PaperTypes
  <1>5. /\ failures' \in [Collectors -> SUBSET Papers!Documents]
        /\ \A d \in Collectors : failures[d] \subseteq failures'[d]
        /\ Reported(collecting[c]) \in failures'[c]
    BY <1>1, <1>2, <1>4
  <1>. QED
    BY <1>1, <1>3, <1>5, PaperDropped

LEMMA PaperStart ==
  ASSUME PapersGiven, PaperInv, NEW c \in Collectors, Papers!Start(c)
  PROVE  PaperInv'
  <1> DEFINE x == [Papers!Idle EXCEPT !.next = 1, !.stage = "statement"]
             none == [m \in Papers!Documents |-> Papers!Nothing]
  <1>1. /\ collecting' = [collecting EXCEPT ![c] = x]
        /\ taken' = [taken EXCEPT ![c] = none]
        /\ failures' = [failures EXCEPT ![c] = {}]
        /\ UNCHANGED <<docClock, page, documents, read>>
    BY DEF Papers!Start
  <1>2. x \in Progress /\ x.next \in 1 .. Len(Meetings) /\ x.stage = "statement" /\ ~x.alone
    <2>1. Papers!Idle \in Progress /\ ~Papers!Idle.alone
      BY NextIsClosed DEF ClosedAs
    <2>2. 1 \in 1 .. Len(Meetings) /\ 1 \in 0 .. Len(Meetings)
      BY DEF PapersGiven
    <2>. QED
      BY <2>1, <2>2 DEF Progress
  <1> HIDE DEF x
  <1>3. PaperTypes /\ \A d \in Collectors : Holds(d) /\ Alone(d) /\ \A m \in Papers!Documents : Kept(d, m)
    BY DEF PaperInv
  <1>4. /\ collecting \in [Collectors -> Progress] /\ failures \in [Collectors -> SUBSET Papers!Documents]
        /\ taken \in [Collectors -> [Papers!Documents -> Text \cup {Papers!Nothing}]]
    BY <1>3 DEF PaperTypes
  <1>5. /\ collecting' \in [Collectors -> Progress] /\ collecting'[c] = x
        /\ failures' \in [Collectors -> SUBSET Papers!Documents]
        /\ taken' \in [Collectors -> [Papers!Documents -> Text \cup {Papers!Nothing}]]
        /\ \A m \in Papers!Documents : taken'[c][m] = Papers!Nothing
        /\ \A d \in Collectors : d # c => /\ collecting'[d] = collecting[d] /\ taken'[d] = taken[d]
                                          /\ failures'[d] = failures[d]
    BY <1>1, <1>2, <1>4
  <1>6. PaperTypes'
    BY <1>1, <1>3, <1>5 DEF PaperTypes
  <1>7. RowsTrue' /\ FirstOnly' /\ ReadTrue'
    BY <1>1, PaperStays
  <1>8. ~IsOpen(x) /\ AtWork(x)
    BY <1>2 DEF IsOpen, AtWork
  <1>9. ASSUME NEW d \in Collectors
        PROVE  Holds(d)' /\ Alone(d)' /\ \A m \in Papers!Documents : Kept(d, m)'
    <2>1. CASE d = c
      <3>1. Holds(d)'
        BY <1>5, <1>8, <2>1 DEF Holds
      <3>2. Alone(d)'
        BY <1>2, <1>5, <2>1 DEF Alone
      <3>3. \A m \in Papers!Documents : Kept(d, m)'
        BY <1>5, <2>1 DEF Kept
      <3>. QED
        BY <3>1, <3>2, <3>3
    <2>2. CASE d # c
      <3>1. collecting'[d] = collecting[d] /\ taken'[d] = taken[d] /\ failures'[d] = failures[d]
        BY <1>5, <2>2
      <3>2. Holds(d)'
        BY <1>1, <1>3, <3>1 DEF Holds
      <3>3. Alone(d)'
        BY <1>1, <1>3, <1>5, <1>8, <3>1 DEF Alone
      <3>4. \A m \in Papers!Documents : Kept(d, m)'
        BY <1>1, <1>3, <3>1 DEF Kept, HasRow
      <3>. QED
        BY <3>2, <3>3, <3>4
    <2>. QED
      BY <2>1, <2>2
  <1>. QED
    BY <1>6, <1>7, <1>9 DEF PaperInv

LEMMA PaperFetch ==
  ASSUME PapersGiven, PaperInv, NEW c \in Collectors, Papers!Fetch(c)
  PROVE  PaperInv'
  <1> DEFINE m == Reported(collecting[c])
             others == \A o \in Collectors \ {c} : ~Papers!Open(o)
             x == [collecting[c] EXCEPT !.stage = "fetched", !.at = docClock, !.alone = others]
  <1>1. /\ collecting[c].stage = "statement"
        /\ collecting' = [d \in Collectors |->
                            IF d = c THEN x ELSE [collecting[d] EXCEPT !.alone = FALSE]]
        /\ UNCHANGED <<docClock, page, documents, failures, read>>
    BY DEF Papers!Fetch
  <1>2. /\ m \in Papers!Documents /\ Papers!Meeting(c) = m /\ collecting[c].next \in 1 .. Len(Meetings)
    <2>1. collecting[c] # Papers!Idle
      <3>1. collecting[c].stage = "statement"
        BY <1>1
      <3>. QED
        BY <3>1 DEF Papers!Idle
    <2>. QED
      BY <2>1, PaperAtWork
  <1>3. Announced[m] <= docClock /\ taken' = [taken EXCEPT ![c][m] = page[m][docClock]]
    BY <1>2 DEF Papers!Fetch
  <1>4. /\ PaperTypes /\ RowsTrue
        /\ \A d \in Collectors : Holds(d) /\ Alone(d) /\ \A n \in Papers!Documents : Kept(d, n)
    BY DEF PaperInv
  <1>5. /\ collecting \in [Collectors -> Progress] /\ docClock \in Nat /\ docClock \in 1 .. docClock
        /\ taken \in [Collectors -> [Papers!Documents -> Text \cup {Papers!Nothing}]]
        /\ page[m][docClock] \in Text /\ documents \in Seq(PaperRow)
    BY <1>2, <1>4 DEF PaperTypes, PapersGiven
  <1>6. collecting[c] \in Progress
    BY <1>5
  <1>7. /\ x \in Progress /\ x.stage = "fetched" /\ x.at = docClock /\ x.next = collecting[c].next
        /\ x.alone = others
    <2>1. others \in BOOLEAN
      OBVIOUS
    <2> HIDE DEF others
    <2>. QED
      BY <1>5, <1>6, <2>1 DEF Progress
  <1> HIDE DEF x
  <1>8. /\ collecting'[c] = x
        /\ \A d \in Collectors : d # c => collecting'[d] = [collecting[d] EXCEPT !.alone = FALSE]
    BY <1>1
  <1>9. ASSUME NEW d \in Collectors, d # c
        PROVE  /\ collecting'[d] \in Progress /\ ~collecting'[d].alone
               /\ collecting'[d].next = collecting[d].next /\ collecting'[d].stage = collecting[d].stage
               /\ collecting'[d].at = collecting[d].at
               /\ AtWork(collecting'[d]) <=> AtWork(collecting[d])
    <2>1. collecting[d] \in Progress /\ collecting'[d] = [collecting[d] EXCEPT !.alone = FALSE]
      BY <1>5, <1>8, <1>9
    <2>2. /\ collecting'[d] \in Progress /\ ~collecting'[d].alone
          /\ collecting'[d].next = collecting[d].next /\ collecting'[d].stage = collecting[d].stage
          /\ collecting'[d].at = collecting[d].at
      BY <2>1 DEF Progress
    <2>3. Holds(d)
      BY <1>4
    <2>4. CASE collecting[d] = Papers!Idle
      <3>1. Papers!Idle.alone = FALSE /\ Papers!Idle \in Progress
        BY NextIsClosed DEF ClosedAs, Progress
      <3>2. collecting'[d] = collecting[d]
        BY <2>1, <2>4, <3>1 DEF Progress
      <3>. QED
        BY <2>2, <3>2
    <2>5. CASE collecting[d] # Papers!Idle
      <3>1. AtWork(collecting[d]) /\ collecting[d].next \in 1 .. Len(Meetings) /\ collecting[d].stage # "idle"
        BY <2>3, <2>5 DEF Holds, AtWork
      <3>. QED
        BY <2>2, <3>1 DEF AtWork
    <2>. QED
      BY <2>4, <2>5
  <1>10. collecting' \in [Collectors -> Progress]
    <2>1. \A d \in Collectors : collecting'[d] \in Progress
      BY <1>7, <1>8, <1>9
    <2>. QED
      BY <1>1, <2>1
  <1>11. /\ taken' \in [Collectors -> [Papers!Documents -> Text \cup {Papers!Nothing}]]
         /\ taken'[c][m] = page[m][docClock]
         /\ \A n \in Papers!Documents : n # m => taken'[c][n] = taken[c][n]
         /\ \A d \in Collectors : d # c => taken'[d] = taken[d]
    BY <1>2, <1>3, <1>5
  <1> HIDE DEF m
  <1>12. PaperTypes'
    BY <1>1, <1>4, <1>10, <1>11 DEF PaperTypes
  <1>13. RowsTrue' /\ FirstOnly' /\ ReadTrue'
    BY <1>1, PaperStays
  <1>14. IsOpen(x) /\ Reported(x) = m /\ AtWork(x)
    BY <1>2, <1>7 DEF IsOpen, Reported, AtWork, m
  <1>15. Holds(c)'
    <2>1. \A y \in read' : y.at <= docClock
      BY <1>1, <1>4, <1>5 DEF PaperTypes
    <2>. QED
      BY <1>1, <1>3, <1>5, <1>7, <1>8, <1>11, <1>14, <2>1 DEF Holds
  <1>16. Alone(c)'
    <2> SUFFICES ASSUME others
                 PROVE  /\ \A o \in Collectors \ {c} : ~IsOpen(collecting'[o])
                        /\ \A k \in 1 .. Len(documents) : documents[k].knownAt <= docClock
      BY <1>1, <1>7, <1>8, <1>14 DEF Alone
    <2>1. ASSUME NEW o \in Collectors \ {c}
          PROVE  ~IsOpen(collecting'[o])
      <3>1. ~Papers!Open(o) /\ collecting'[o].stage = collecting[o].stage
        BY <1>9
      <3>. QED
        BY <3>1 DEF Papers!Open, IsOpen
    <2>2. ASSUME NEW k \in 1 .. Len(documents)
          PROVE  documents[k].knownAt <= docClock
      <3>1. PaperTrue(documents[k]) /\ documents[k] \in PaperRow
        BY <1>4, <1>5 DEF RowsTrue
      <3>. QED
        BY <1>5, <3>1 DEF PaperTrue, PaperRow
    <2>. QED
      BY <2>1, <2>2
  <1>17. ASSUME NEW n \in Papers!Documents
         PROVE  Kept(c, n)'
    <2>1. CASE n = m
      BY <1>8, <1>14, <2>1 DEF Kept
    <2>2. CASE n # m
      <3>1. Kept(c, n) /\ ~IsOpen(collecting[c])
        BY <1>1, <1>4 DEF IsOpen
      <3>2. taken'[c][n] = taken[c][n] /\ failures' = failures /\ documents' = documents
        BY <1>1, <1>11, <2>2
      <3>. QED
        BY <3>1, <3>2 DEF Kept, HasRow
    <2>. QED
      BY <2>1, <2>2
  <1>18. ASSUME NEW d \in Collectors, d # c
         PROVE  Holds(d)' /\ Alone(d)' /\ \A n \in Papers!Documents : Kept(d, n)'
    <2>1. /\ IsOpen(collecting'[d]) <=> IsOpen(collecting[d])
          /\ Reported(collecting'[d]) = Reported(collecting[d])
          /\ collecting'[d].at = collecting[d].at /\ taken'[d] = taken[d]
          /\ Holds(d)
      BY <1>4, <1>9, <1>11, <1>18 DEF IsOpen, Reported
    <2>2. Holds(d)'
      <3>1. AtWork(collecting'[d])
        BY <1>9, <1>18, <2>1 DEF Holds
      <3>. QED
        BY <1>1, <2>1, <3>1 DEF Holds
    <2>3. Alone(d)'
      BY <1>9, <1>18 DEF Alone
    <2>4. \A n \in Papers!Documents : Kept(d, n)'
      BY <1>1, <1>4, <2>1 DEF Kept, HasRow
    <2>. QED
      BY <2>2, <2>3, <2>4
  <1>. QED
    BY <1>12, <1>13, <1>15, <1>16, <1>17, <1>18 DEF PaperInv

LEMMA PaperRepublish ==
  ASSUME PapersGiven, PaperInv, Papers!Republish
  PROVE  PaperInv'
  <1>1. /\ docClock < MaxDate /\ docClock' = docClock + 1
        /\ UNCHANGED <<documents, collecting, taken, failures, read>>
    BY DEF Papers!Republish
  <1>2. PICK v \in [Papers!Documents -> Text] :
          /\ \A m \in Papers!Documents : v[m] \in Texts[m]
          /\ page' = [m \in Papers!Documents |->
                        [t \in 1 .. docClock + 1 |-> IF t = docClock + 1 THEN v[m] ELSE page[m][t]]]
    BY DEF Papers!Republish, Text
  <1>3. PaperTypes /\ RowsTrue /\ FirstOnly /\ ReadTrue
        /\ \A d \in Collectors : Holds(d) /\ Alone(d) /\ \A n \in Papers!Documents : Kept(d, n)
    BY DEF PaperInv
  <1>4. /\ docClock \in 1 .. MaxDate /\ MaxDate \in Nat /\ documents \in Seq(PaperRow)
        /\ collecting \in [Collectors -> Progress]
        /\ page \in [Papers!Documents -> [1 .. docClock -> Text]]
        /\ \A m \in Papers!Documents, t \in 1 .. docClock : page[m][t] \in Texts[m]
        /\ read \subseteq [meeting : Papers!Documents, at : 1 .. docClock]
    BY <1>3 DEF PaperTypes, PapersGiven
  <1>5. /\ 1 .. docClock' = (1 .. docClock) \cup {docClock + 1} /\ docClock' \in 1 .. MaxDate
        /\ docClock + 1 \notin 1 .. docClock
    BY <1>1, <1>4
  <1>6. \A m \in Papers!Documents, t \in 1 .. docClock : page'[m][t] = page[m][t]
    BY <1>1, <1>2, <1>5
  <1>7. \A m \in Papers!Documents, t \in 1 .. docClock' : page'[m][t] \in Texts[m] /\ page'[m][t] \in Text
    <2> SUFFICES ASSUME NEW m \in Papers!Documents, NEW t \in 1 .. docClock'
                 PROVE  page'[m][t] \in Texts[m] /\ page'[m][t] \in Text
      OBVIOUS
    <2>1. CASE t = docClock + 1
      BY <1>1, <1>2, <2>1
    <2>2. CASE t # docClock + 1
      <3>1. t \in 1 .. docClock
        BY <1>5, <2>2
      <3>2. page[m][t] \in Texts[m] /\ page[m][t] \in Text
        BY <1>4, <3>1
      <3>. QED
        BY <1>6, <3>1, <3>2
    <2>. QED
      BY <2>1, <2>2
  <1>8. page' \in [Papers!Documents -> [1 .. docClock' -> Text]]
    <2>1. \A m \in Papers!Documents : page'[m] \in [1 .. docClock' -> Text]
      BY <1>1, <1>2, <1>7
    <2>. QED
      BY <1>2, <2>1
  <1>9. PaperTypes'
    <2>1. read' \subseteq [meeting : Papers!Documents, at : 1 .. docClock']
      BY <1>1, <1>4, <1>5
    <2>. QED
      BY <1>1, <1>3, <1>5, <1>7, <1>8, <2>1 DEF PaperTypes
  <1>10. RowsTrue' /\ FirstOnly'
    <2>1. \A k \in 1 .. Len(documents) : PaperTrue(documents[k])'
      <3> SUFFICES ASSUME NEW k \in 1 .. Len(documents)
                   PROVE  PaperTrue(documents[k])'
        OBVIOUS
      <3>1. documents[k] \in PaperRow
        BY <1>4
      <3>2. documents[k].meeting \in Papers!Documents /\ PaperTrue(documents[k])
        BY <1>3, <3>1 DEF PaperRow, RowsTrue
      <3>. QED
        BY <1>1, <1>5, <1>6, <3>2 DEF PaperTrue
    <2>2. RowsTrue'
      BY <1>1, <2>1 DEF RowsTrue
    <2>. QED
      BY <1>1, <1>3, <2>2 DEF FirstOnly
  <1>11. ReadTrue'
    <2> SUFFICES ASSUME NEW y \in read
                 PROVE  HashAt(documents, y.meeting, y.at) = page'[y.meeting][y.at]
      BY <1>1 DEF ReadTrue
    <2>1. y.meeting \in Papers!Documents /\ y.at \in 1 .. docClock
      BY <1>4
    <2>. QED
      BY <1>3, <1>6, <2>1 DEF ReadTrue
  <1>12. ASSUME NEW c \in Collectors
         PROVE  Holds(c)' /\ Alone(c)' /\ \A n \in Papers!Documents : Kept(c, n)'
    <2>1. Holds(c) /\ Alone(c) /\ \A n \in Papers!Documents : Kept(c, n)
      BY <1>3
    <2>2. Holds(c)'
      <3>1. CASE ~IsOpen(collecting[c])
        BY <1>1, <2>1, <3>1 DEF Holds
      <3>2. CASE IsOpen(collecting[c])
        <4>1. Reported(collecting[c]) \in Papers!Documents
          <5>1. collecting[c] # Papers!Idle
            BY <3>2 DEF IsOpen, Papers!Idle
          <5>. QED
            BY <5>1, PaperAtWork
        <4>2. collecting[c].at \in 1 .. docClock
          BY <2>1, <3>2 DEF Holds
        <4>3. page'[Reported(collecting[c])][collecting[c].at] = page[Reported(collecting[c])][collecting[c].at]
              /\ collecting[c].at \in 1 .. docClock'
          BY <1>5, <1>6, <4>1, <4>2
        <4>. QED
          BY <1>1, <2>1, <3>2, <4>3 DEF Holds
      <3>. QED
        BY <3>1, <3>2
    <2>3. Alone(c)'
      BY <1>1, <2>1 DEF Alone
    <2>4. \A n \in Papers!Documents : Kept(c, n)'
      BY <1>1, <2>1 DEF Kept, HasRow
    <2>. QED
      BY <2>2, <2>3, <2>4
  <1>. QED
    BY <1>9, <1>10, <1>11, <1>12 DEF PaperInv

\* What an open process knows of its document.
LEMMA PaperOpen ==
  ASSUME PapersGiven, PaperInv, NEW c \in Collectors, IsOpen(collecting[c])
  PROVE  LET m == Reported(collecting[c])
         IN  /\ m \in Papers!Documents /\ Papers!Meeting(c) = m /\ collecting[c].stage # "idle"
             /\ collecting[c].at \in 1 .. docClock /\ docClock \in 1 .. MaxDate /\ MaxDate \in Nat
             /\ Announced[m] \in Nat /\ Announced[m] <= collecting[c].at
             /\ taken[c][m] = page[m][collecting[c].at]
             /\ taken[c][m] \in Text /\ taken[c][m] \in Texts[m] /\ taken[c][m] # Papers!Nothing
             /\ \A y \in read : y.at <= collecting[c].at
             /\ Papers!Newest(m) = HashAt(documents, m, MaxDate)
  <1> DEFINE m == Reported(collecting[c])
  <1>1. collecting[c] # Papers!Idle
    BY DEF IsOpen, Papers!Idle
  <1>2. m \in Papers!Documents /\ Papers!Meeting(c) = m /\ collecting[c].stage # "idle"
    BY <1>1, PaperAtWork
  <1>3. /\ collecting[c].at \in 1 .. docClock /\ Announced[m] <= collecting[c].at
        /\ taken[c][m] = page[m][collecting[c].at]
        /\ \A y \in read : y.at <= collecting[c].at
    BY DEF PaperInv, Holds
  <1>4. PaperTypes
    BY DEF PaperInv
  <1> HIDE DEF m
  <1>5. page[m][collecting[c].at] \in Texts[m] /\ page[m][collecting[c].at] \in Text
    BY <1>2, <1>3, <1>4 DEF PaperTypes
  <1>6. Announced[m] \in Nat /\ Papers!Nothing \notin Texts[m] /\ MaxDate \in Nat
        /\ docClock \in 1 .. MaxDate
    BY <1>2, <1>4 DEF PaperTypes, PapersGiven
  <1>7. Papers!Newest(m) = HashAt(documents, m, MaxDate)
    BY HashRead, Zenon DEF Papers!Newest, HashesKnown
  <1>8. taken[c][m] # Papers!Nothing
    BY <1>3, <1>5, <1>6
  <1>. QED
    BY <1>2, <1>3, <1>5, <1>6, <1>7, <1>8 DEF m

\* Every row is visible at the end, and those of a meeting read now are
\* visible from now on.
LEMMA AllRows ==
  ASSUME PapersGiven, PaperInv, NEW m, NEW t \in Nat, t <= MaxDate,
         \A k \in 1 .. Len(documents) : documents[k].knownAt <= t
  PROVE  /\ RowsAt(documents, m, t) = {k \in 1 .. Len(documents) : documents[k].meeting = m}
         /\ HashAt(documents, m, t) = HashAt(documents, m, MaxDate)
  <1>1. /\ documents \in Seq(PaperRow) /\ DOMAIN documents = 1 .. Len(documents)
        /\ MaxDate \in Nat
    BY DEF PaperInv, PaperTypes, PapersGiven
  <1>2. \A k \in 1 .. Len(documents) : documents[k].knownAt \in Nat
    <2>1. \A k \in 1 .. Len(documents) : documents[k] \in PaperRow
      BY <1>1
    <2>. QED
      BY <2>1 DEF PaperRow
  <1>3. RowsAt(documents, m, t) = {k \in 1 .. Len(documents) : documents[k].meeting = m}
    BY <1>1 DEF RowsAt
  <1>4. \A k \in 1 .. Len(documents) : documents[k].knownAt <= MaxDate
    BY <1>1, <1>2
  <1>5. RowsAt(documents, m, MaxDate) = RowsAt(documents, m, t)
    BY <1>1, <1>3, <1>4 DEF RowsAt
  <1>6. \A k : IsNewestAt(documents, m, MaxDate, k) <=> IsNewestAt(documents, m, t, k)
    BY <1>5, Zenon DEF IsNewestAt
  <1>7. {i \in RowsAt(documents, m, MaxDate) : IsNewestAt(documents, m, MaxDate, i)}
          = {i \in RowsAt(documents, m, t) : IsNewestAt(documents, m, t, i)}
    BY <1>5, <1>6
  <1>8. HashAt(documents, m, t) = HashAt(documents, m, MaxDate)
    <2> DEFINE newest(u) == {i \in RowsAt(documents, m, u) : IsNewestAt(documents, m, u, i)}
    <2>1. \A u : HashAt(documents, m, u) =
                   IF RowsAt(documents, m, u) = {} THEN Papers!Nothing
                   ELSE documents[CHOOSE k \in newest(u) : TRUE].version
      BY DEF HashAt
    <2>2. newest(t) = newest(MaxDate)
      BY <1>7
    <2> HIDE DEF newest
    <2>. QED
      BY <1>5, <2>1, <2>2
  <1>. QED
    BY <1>3, <1>8

\* Rows are known by now.
LEMMA RowsKnown ==
  ASSUME PapersGiven, PaperInv
  PROVE  \A k \in 1 .. Len(documents) :
           /\ documents[k] \in PaperRow /\ documents[k].knownAt \in Nat
           /\ documents[k].knownAt <= docClock /\ documents[k].knownAt <= MaxDate
  <1> SUFFICES ASSUME NEW k \in 1 .. Len(documents)
               PROVE  /\ documents[k] \in PaperRow /\ documents[k].knownAt \in Nat
                      /\ documents[k].knownAt <= docClock /\ documents[k].knownAt <= MaxDate
    OBVIOUS
  <1>1. /\ documents \in Seq(PaperRow) /\ docClock \in 1 .. MaxDate /\ MaxDate \in Nat
        /\ PaperTrue(documents[k])
    BY DEF PaperInv, PaperTypes, PapersGiven, RowsTrue
  <1>2. documents[k] \in PaperRow
    BY <1>1
  <1>. QED
    BY <1>1, <1>2 DEF PaperTrue, PaperRow

\* The newest hash is a stored row's.
LEMMA NewestStored ==
  ASSUME PapersGiven, PaperInv, NEW m, HashAt(documents, m, MaxDate) # Papers!Nothing
  PROVE  HasRow(m, HashAt(documents, m, MaxDate))
  <1>1. documents \in Seq(PaperRow) /\ MaxDate \in Nat
    BY DEF PaperInv, PaperTypes, PapersGiven
  <1>2. PICK k : IsNewestAt(documents, m, MaxDate, k)
    BY <1>1, HashIs
  <1>3. HashAt(documents, m, MaxDate) = documents[k].version
    BY <1>1, <1>2, HashIs
  <1>4. k \in 1 .. Len(documents) /\ documents[k].meeting = m
    BY <1>1, <1>2 DEF IsNewestAt, RowsAt
  <1>. QED
    BY <1>3, <1>4 DEF HasRow

\* What was fetched is the newest version already.
LEMMA PaperSame ==
  ASSUME PapersGiven, PaperInv, NEW c \in Collectors, IsOpen(collecting[c]),
         HashAt(documents, Reported(collecting[c]), MaxDate) = taken[c][Reported(collecting[c])],
         UNCHANGED <<docClock, page, documents, taken, failures>>,
         collecting' = [collecting EXCEPT ![c] = Papers!NextMeeting(c)], read' = Papers!Read(c)
  PROVE  PaperInv'
  <1> DEFINE m == Reported(collecting[c])
             y == [meeting |-> m, at |-> collecting[c].at]
  <1>1. /\ m \in Papers!Documents /\ Papers!Meeting(c) = m /\ collecting[c].stage # "idle"
        /\ collecting[c].at \in 1 .. docClock /\ docClock \in 1 .. MaxDate /\ MaxDate \in Nat
        /\ taken[c][m] = page[m][collecting[c].at] /\ taken[c][m] # Papers!Nothing
    BY PaperOpen
  <1>2. read' = IF collecting[c].alone THEN read \cup {y} ELSE read
    BY <1>1, Zenon DEF Papers!Read
  <1>3. documents \in Seq(PaperRow) /\ failures \in [Collectors -> SUBSET Papers!Documents]
    BY DEF PaperInv, PaperTypes
  <1>4. HashAt(documents, m, MaxDate) = taken[c][m]
    OBVIOUS
  <1> HIDE DEF m
  <1>5. HasRow(m, taken[c][m])
    BY <1>1, <1>4, NewestStored
  <1>6. Settled(c)
    BY <1>5 DEF Settled, HasRow, m
  <1>7. ASSUME collecting[c].alone
        PROVE  HashAt(documents, m, collecting[c].at) = page[m][collecting[c].at]
    <2>1. \A k \in 1 .. Len(documents) : documents[k].knownAt <= collecting[c].at
      BY <1>7 DEF PaperInv, Alone
    <2>2. collecting[c].at \in Nat /\ collecting[c].at <= MaxDate
      BY <1>1
    <2>3. HashAt(documents, m, collecting[c].at) = HashAt(documents, m, MaxDate)
      BY <2>1, <2>2, AllRows
    <2>. QED
      BY <1>1, <1>4, <2>3
  <1>8. ReadTrue'
    <2>1. \A r \in read : HashAt(documents, r.meeting, r.at) = page[r.meeting][r.at]
      BY DEF PaperInv, ReadTrue
    <2>2. CASE collecting[c].alone
      BY <1>2, <1>7, <2>1, <2>2 DEF ReadTrue
    <2>3. CASE ~collecting[c].alone
      BY <1>2, <2>1, <2>3 DEF ReadTrue
    <2>. QED
      BY <2>2, <2>3
  <1>9. RowsTrue' /\ FirstOnly'
    BY PaperStays
  <1>10. ClosedAs(Papers!NextMeeting(c))
    BY <1>1, NextIsClosed
  <1>11. \A r \in read' : \/ r \in read
                          \/ /\ collecting[c].alone
                             /\ r = [meeting |-> Reported(collecting[c]), at |-> collecting[c].at]
    BY <1>2 DEF m
  <1>12. Closing(c, Papers!NextMeeting(c))
    BY <1>3, <1>8, <1>9, <1>10, <1>11 DEF Closing
  <1>. QED
    BY <1>6, <1>12, PaperClose

LEMMA PaperCompare ==
  ASSUME PapersGiven, PaperInv, NEW c \in Collectors, Papers!Compare(c)
  PROVE  PaperInv'
  <1> DEFINE m == Reported(collecting[c])
             latest == Papers!Newest(m)
  <1>1. collecting[c].stage = "fetched" /\ UNCHANGED <<docClock, page, documents, taken, failures>>
    BY DEF Papers!Compare
  <1>2. IsOpen(collecting[c])
    BY <1>1 DEF IsOpen
  <1>3. /\ Papers!Meeting(c) = m /\ latest = HashAt(documents, m, MaxDate)
    BY <1>2, PaperOpen
  <1>4. IF latest = taken[c][m]
        THEN collecting' = [collecting EXCEPT ![c] = Papers!NextMeeting(c)] /\ read' = Papers!Read(c)
        ELSE /\ collecting' = [collecting EXCEPT ![c].stage = "changed", ![c].latest = latest]
             /\ read' = read
    BY <1>3, Zenon DEF Papers!Compare
  <1>6. documents \in Seq(PaperRow) /\ collecting \in [Collectors -> Progress]
    BY DEF PaperInv, PaperTypes
  <1>7. CASE latest = taken[c][m]
    BY <1>1, <1>2, <1>3, <1>4, <1>7, PaperSame
  <1> HIDE DEF m, latest
  <1>8. CASE latest # taken[c][m]
    <2> DEFINE x == [collecting[c] EXCEPT !.stage = "changed", !.latest = latest]
    <2>1. latest \in Text \cup {Papers!Nothing}
      <3>1. CASE HashAt(documents, m, MaxDate) = Papers!Nothing
        BY <1>3, <3>1
      <3>2. CASE HashAt(documents, m, MaxDate) # Papers!Nothing
        <4>1. PICK k \in 1 .. Len(documents) : documents[k].version = HashAt(documents, m, MaxDate)
          BY <3>2, NewestStored DEF HasRow
        <4>2. documents[k] \in PaperRow
          BY <1>6
        <4>. QED
          BY <1>3, <4>1, <4>2 DEF PaperRow
      <3>. QED
        BY <3>1, <3>2
    <2>2. collecting[c] \in Progress /\ collecting[c].next \in 1 .. Len(Meetings)
      <3>1. collecting[c] # Papers!Idle
        BY <1>2 DEF IsOpen, Papers!Idle
      <3>. QED
        BY <1>6, <3>1, PaperAtWork
    <2>3. /\ x \in Progress /\ x.stage = "changed" /\ x.next = collecting[c].next
          /\ x.at = collecting[c].at /\ x.alone = collecting[c].alone
      BY <2>1, <2>2 DEF Progress
    <2>4. collecting' = [collecting EXCEPT ![c] = x]
      BY <1>4, <1>6, <1>8
    <2> HIDE DEF x
    <2>5. /\ collecting' \in [Collectors -> Progress] /\ collecting'[c] = x
          /\ \A d \in Collectors : d # c => collecting'[d] = collecting[d]
      BY <1>6, <2>3, <2>4
    <2>6. read' = read
      BY <1>4, <1>8
    <2>7. ASSUME NEW d \in Collectors
          PROVE  /\ IsOpen(collecting'[d]) <=> IsOpen(collecting[d])
                 /\ Reported(collecting'[d]) = Reported(collecting[d])
                 /\ collecting'[d].at = collecting[d].at /\ collecting'[d].alone = collecting[d].alone
                 /\ AtWork(collecting[d]) => AtWork(collecting'[d])
      <3>1. CASE d = c
        BY <1>2, <2>2, <2>3, <2>5, <3>1 DEF IsOpen, Reported, AtWork
      <3>2. CASE d # c
        BY <2>5, <3>2
      <3>. QED
        BY <3>1, <3>2
    <2>8. PaperTypes'
      BY <1>1, <2>5, <2>6 DEF PaperInv, PaperTypes
    <2>9. RowsTrue' /\ FirstOnly' /\ ReadTrue'
      BY <1>1, <2>6, PaperStays
    <2>10. ASSUME NEW d \in Collectors
           PROVE  Holds(d)' /\ Alone(d)' /\ \A n \in Papers!Documents : Kept(d, n)'
      <3>1. Holds(d) /\ Alone(d) /\ \A n \in Papers!Documents : Kept(d, n)
        BY DEF PaperInv
      <3>2. Holds(d)'
        BY <1>1, <2>6, <2>7, <3>1 DEF Holds
      <3>3. Alone(d)'
        BY <1>1, <2>7, <3>1 DEF Alone
      <3>4. \A n \in Papers!Documents : Kept(d, n)'
        BY <1>1, <2>7, <3>1 DEF Kept, HasRow
      <3>. QED
        BY <3>2, <3>3, <3>4
    <2>. QED
      BY <2>8, <2>9, <2>10 DEF PaperInv
  <1>. QED
    BY <1>7, <1>8

\* Without a newest hash there is no row.
LEMMA NoneStored ==
  ASSUME PapersGiven, PaperInv, NEW m \in Papers!Documents,
         HashAt(documents, m, MaxDate) = Papers!Nothing
  PROVE  \A k \in 1 .. Len(documents) : documents[k].meeting # m
  <1>1. documents \in Seq(PaperRow) /\ MaxDate \in Nat /\ DOMAIN documents = 1 .. Len(documents)
    BY DEF PaperInv, PaperTypes, PapersGiven
  <1>2. RowsAt(documents, m, MaxDate) = {}
    <2> SUFFICES ASSUME RowsAt(documents, m, MaxDate) # {}
                 PROVE  FALSE
      OBVIOUS
    <2>1. PICK k : IsNewestAt(documents, m, MaxDate, k)
      BY <1>1, HashIs
    <2>2. documents[k].version = Papers!Nothing
      BY <1>1, <2>1, HashIs
    <2>3. k \in 1 .. Len(documents) /\ documents[k].meeting = m
      BY <1>1, <2>1 DEF IsNewestAt, RowsAt
    <2>4. PaperTrue(documents[k])
      BY <2>3 DEF PaperInv, RowsTrue
    <2>5. page[m][documents[k].retrievedAt] \in Texts[m]
      BY <2>3, <2>4 DEF PaperInv, PaperTypes, PaperTrue
    <2>. QED
      BY <2>2, <2>3, <2>4, <2>5 DEF PaperTrue, PapersGiven
  <1>3. \A k \in 1 .. Len(documents) : documents[k].knownAt <= MaxDate
    BY RowsKnown
  <1>. QED
    BY <1>1, <1>2, <1>3 DEF RowsAt

\* A new row: the first of its document, or read now.
LEMMA PaperInserted ==
  ASSUME PapersGiven, PaperInv, NEW c \in Collectors, IsOpen(collecting[c]),
         NEW row, NEW m, m = Reported(collecting[c]),
         row = Papers!EventFromOpinions(m, taken[c][m], collecting[c].at,
                                        collecting[c].latest # Papers!Nothing),
         HashAt(documents, m, MaxDate) # taken[c][m],
         collecting[c].latest = Papers!Nothing => HashAt(documents, m, MaxDate) = Papers!Nothing,
         documents' = Append(documents, row), read' = Papers!Read(c),
         UNCHANGED <<docClock, page, taken, failures>>,
         collecting' = [collecting EXCEPT ![c] = Papers!NextMeeting(c)]
  PROVE  PaperInv'
  <1> DEFINE at == collecting[c].at
             n == Len(documents)
             y == [meeting |-> m, at |-> at]
             revised == collecting[c].latest # Papers!Nothing
             known == IF revised THEN at ELSE Announced[m]
  <1>1. /\ m \in Papers!Documents /\ Papers!Meeting(c) = m /\ collecting[c].stage # "idle"
        /\ at \in 1 .. docClock /\ docClock \in 1 .. MaxDate /\ MaxDate \in Nat
        /\ Announced[m] \in Nat /\ Announced[m] <= at
        /\ taken[c][m] = page[m][at] /\ taken[c][m] \in Text /\ taken[c][m] # Papers!Nothing
        /\ \A r \in read : r.at <= at
    BY PaperOpen
  <1>2. row = [meeting |-> m, version |-> taken[c][m], retrievedAt |-> at,
               revision |-> revised, knownAt |-> known]
    BY DEF Papers!EventFromOpinions
  <1>3. /\ PaperTypes /\ RowsTrue /\ FirstOnly /\ ReadTrue
        /\ Alone(c) /\ \A r \in read : r.meeting \in Papers!Documents /\ r.at \in 1 .. docClock
    BY DEF PaperInv, PaperTypes
  <1>4. documents \in Seq(PaperRow) /\ failures \in [Collectors -> SUBSET Papers!Documents]
    BY <1>3 DEF PaperTypes
  <1>5. /\ row.meeting = m /\ row.version = taken[c][m] /\ row.retrievedAt = at
        /\ row.revision = (collecting[c].latest # Papers!Nothing)
        /\ row.knownAt = IF row.revision THEN at ELSE Announced[m]
    <2> HIDE DEF known, revised
    <2>1. /\ row.meeting = m /\ row.version = taken[c][m] /\ row.retrievedAt = at
          /\ row.knownAt = known
      BY <1>2
    <2>2. row.revision = revised
      BY <1>2
    <2>3. known = IF row.revision THEN at ELSE Announced[m]
      BY <2>2 DEF known
    <2>. QED
      BY <2>1, <2>2, <2>3 DEF revised
  <1>6. row \in PaperRow /\ row.knownAt \in Nat /\ row.knownAt <= at /\ at \in Nat
    <2>1. revised \in BOOLEAN
      OBVIOUS
    <2> HIDE DEF revised
    <2>2. known \in Nat /\ known <= at /\ at \in Nat
      BY <1>1 DEF known
    <2> HIDE DEF known
    <2>. QED
      BY <1>1, <1>2, <2>1, <2>2 DEF PaperRow
  <1> HIDE DEF at, revised, known
  <1>7. /\ n \in Nat /\ documents' \in Seq(PaperRow) /\ Len(documents') = n + 1
        /\ documents'[n + 1] = row /\ 1 .. n + 1 = (1 .. n) \cup {n + 1}
        /\ \A k \in 1 .. n : k \in 1 .. Len(documents') /\ documents'[k] = documents[k]
    BY <1>4, <1>6
  <1>8. ~row.revision => \A k \in 1 .. n : documents[k].meeting # m
    BY <1>1, <1>5, NoneStored
  <1>9. RowsTrue'
    <2>1. PaperTrue(row)'
      BY <1>1, <1>5, <1>6 DEF PaperTrue
    <2>2. \A k \in 1 .. n : PaperTrue(documents[k])'
      BY <1>3 DEF RowsTrue, PaperTrue
    <2>3. ASSUME NEW k \in 1 .. n + 1
          PROVE  PaperTrue(documents[k])'
      <3>1. CASE k \in 1 .. n
        BY <1>7, <2>2, <3>1 DEF PaperTrue
      <3>2. CASE k = n + 1
        BY <1>7, <2>1, <3>2 DEF PaperTrue
      <3>. QED
        BY <1>7, <3>1, <3>2
    <2>. QED
      BY <1>7, <2>3 DEF RowsTrue
  <1>10. FirstOnly'
    <2> SUFFICES ASSUME NEW j \in 1 .. n + 1, NEW k \in 1 .. n + 1,
                        documents'[j].meeting = documents'[k].meeting, ~documents'[k].revision
                 PROVE  k <= j
      BY <1>7 DEF FirstOnly
    <2>1. CASE j = n + 1
      BY <1>7, <2>1
    <2>2. CASE j \in 1 .. n /\ k \in 1 .. n
      BY <1>3, <1>7, <2>2 DEF FirstOnly
    <2>3. CASE j \in 1 .. n /\ k = n + 1
      BY <1>5, <1>7, <1>8, <2>3
    <2>. QED
      BY <1>7, <2>1, <2>2, <2>3
  <1>11. read' = IF collecting[c].alone THEN read \cup {y} ELSE read
    BY <1>1, Zenon DEF Papers!Read, at
  <1>12. ASSUME NEW r \in read
         PROVE  HashAt(documents', r.meeting, r.at) = page[r.meeting][r.at]
    <2>1. HashAt(documents, r.meeting, r.at) = page[r.meeting][r.at] /\ r.at \in Nat
      BY <1>1, <1>3 DEF ReadTrue
    <2>2. CASE m # r.meeting \/ row.knownAt > r.at
      <3>1. HashAt(Append(documents, row), r.meeting, r.at) = HashAt(documents, r.meeting, r.at)
        BY <1>4, <1>5, <1>6, <2>1, <2>2, HashAppend
      <3>. QED
        BY <2>1, <3>1
    <2>3. CASE m = r.meeting /\ row.knownAt <= r.at
      <3>1. CASE row.revision
        <4>1. r.at = at
          BY <1>1, <1>5, <1>6, <2>1, <2>3, <3>1
        <4>2. \A k \in RowsAt(documents, m, at) : documents[k].knownAt <= row.knownAt
          BY <1>5, <3>1 DEF RowsAt
        <4>3. HashAt(Append(documents, row), m, at) = row.version
          BY <1>4, <1>5, <1>6, <4>2, HashAppend
        <4>. QED
          BY <1>1, <1>5, <2>3, <4>1, <4>3
      <3>2. CASE ~row.revision
        <4>1. RowsAt(documents, m, r.at) = {}
          BY <1>4, <1>8, <3>2 DEF RowsAt
        <4>2. HashAt(documents, m, r.at) = Papers!Nothing
          BY <4>1 DEF HashAt
        <4>3. page[m][r.at] \in Texts[m] /\ Papers!Nothing \notin Texts[m]
          BY <1>1, <1>3 DEF PaperTypes, PapersGiven
        <4>. QED
          BY <2>1, <2>3, <4>2, <4>3
      <3>. QED
        BY <3>1, <3>2
    <2>. QED
      BY <1>6, <2>1, <2>2, <2>3
  <1>13. ASSUME collecting[c].alone
         PROVE  HashAt(documents', m, at) = page[m][at]
    <2>1. \A k \in 1 .. n : documents[k].knownAt <= at
      BY <1>3, <1>13 DEF Alone, at
    <2>2. RowsAt(documents, m, at) \subseteq {k \in 1 .. n : documents[k].meeting = m}
      BY <1>4 DEF RowsAt
    <2>3. \A k \in RowsAt(documents, m, at) : documents[k].knownAt <= row.knownAt
      BY <1>5, <1>8, <2>1, <2>2
    <2>4. HashAt(Append(documents, row), m, at) = row.version
      BY <1>4, <1>5, <1>6, <2>3, HashAppend
    <2>. QED
      BY <1>1, <1>5, <2>4
  <1>14. ReadTrue'
    <2>1. CASE collecting[c].alone
      BY <1>11, <1>12, <1>13, <2>1 DEF ReadTrue
    <2>2. CASE ~collecting[c].alone
      BY <1>11, <1>12, <2>2 DEF ReadTrue
    <2>. QED
      BY <2>1, <2>2
  <1>15. ClosedAs(Papers!NextMeeting(c))
    BY <1>1, NextIsClosed
  <1>16. \A r \in read' : \/ r \in read
                          \/ /\ collecting[c].alone
                             /\ r = [meeting |-> Reported(collecting[c]), at |-> collecting[c].at]
    BY <1>11 DEF at
  <1>17. Closing(c, Papers!NextMeeting(c))
    BY <1>4, <1>7, <1>9, <1>10, <1>14, <1>15, <1>16 DEF Closing
  <1>18. Settled(c)
    <2>1. n + 1 \in 1 .. Len(documents') /\ documents'[n + 1].meeting = m
          /\ documents'[n + 1].version = taken[c][m]
      BY <1>5, <1>7
    <2>. QED
      BY <2>1 DEF Settled
  <1>. QED
    BY <1>17, <1>18, PaperClose

LEMMA PaperArchive ==
  ASSUME PapersGiven, PaperInv, NEW c \in Collectors, Papers!Archive(c)
  PROVE  PaperInv'
  <1> DEFINE m == Reported(collecting[c])
             row == Papers!EventFromOpinions(m, taken[c][m], collecting[c].at,
                                             collecting[c].latest # Papers!Nothing)
             latest == HashAt(documents, m, MaxDate)
             late == Papers!NoLongerInitial(c)
  <1>1. /\ collecting[c].stage = "changed" /\ UNCHANGED <<docClock, page, taken>>
        /\ collecting' = [collecting EXCEPT ![c] = Papers!NextMeeting(c)]
    BY DEF Papers!Archive
  <1>2. IsOpen(collecting[c])
    BY <1>1 DEF IsOpen
  <1>3. /\ m \in Papers!Documents /\ Papers!Meeting(c) = m /\ Papers!Newest(m) = latest
        /\ collecting[c].stage # "idle"
    BY <1>2, PaperOpen
  <1>4. row.version = taken[c][m]
    BY DEF Papers!EventFromOpinions
  <1>5. late <=> collecting[c].latest = Papers!Nothing /\ latest \notin {Papers!Nothing, taken[c][m]}
    BY <1>3, Zenon DEF Papers!NoLongerInitial
  <1>6. /\ documents' = IF late \/ latest = row.version THEN documents ELSE Append(documents, row)
        /\ failures' = IF late THEN [failures EXCEPT ![c] = @ \cup {m}] ELSE failures
        /\ read' = IF late THEN read ELSE Papers!Read(c)
    BY <1>3, Zenon DEF Papers!Archive
  <1> HIDE DEF late
  <1>7. CASE late
    <2>1. failures \in [Collectors -> SUBSET Papers!Documents]
      BY DEF PaperInv, PaperTypes
    <2>2. /\ failures' \in [Collectors -> SUBSET Papers!Documents]
          /\ \A d \in Collectors : failures[d] \subseteq failures'[d]
          /\ m \in failures'[c]
      BY <1>3, <1>6, <1>7, <2>1
    <2>3. ClosedAs(Papers!NextMeeting(c)) /\ documents' = documents /\ read' = read
      BY <1>3, <1>6, <1>7, NextIsClosed
    <2>. QED
      BY <1>1, <2>2, <2>3, PaperDropped
  <1>8. CASE ~late /\ latest = taken[c][m]
    <2>1. documents' = documents /\ failures' = failures /\ read' = Papers!Read(c)
      BY <1>4, <1>6, <1>8
    <2>. QED
      BY <1>1, <1>2, <1>8, <2>1, PaperSame
  <1>9. CASE ~late /\ latest # taken[c][m]
    <2>1. documents' = Append(documents, row) /\ failures' = failures /\ read' = Papers!Read(c)
      BY <1>4, <1>6, <1>9
    <2>2. collecting[c].latest = Papers!Nothing => latest = Papers!Nothing
      BY <1>5, <1>9
    <2>. QED
      BY <1>1, <1>2, <1>9, <2>1, <2>2, PaperInserted
  <1>. QED
    BY <1>7, <1>8, <1>9

-----------------------------------------------------------------------------
(* Every step *)

LEMMA PaperNext ==
  ASSUME PapersGiven, PaperInv, Papers!Next
  PROVE  PaperInv'
  BY PaperRepublish, PaperStart, PaperUnpublished, PaperFetch, PaperCompare, PaperArchive,
     PaperFail, PaperKill DEF Papers!Next

LEMMA PaperStutter ==
  ASSUME PaperInv, UNCHANGED Papers!vars
  PROVE  PaperInv'
  <1>1. /\ docClock' = docClock /\ page' = page /\ documents' = documents
        /\ collecting' = collecting /\ taken' = taken /\ failures' = failures /\ read' = read
    BY DEF Papers!vars
  <1>2. PaperTypes'
    BY <1>1 DEF PaperInv, PaperTypes
  <1>3. RowsTrue' /\ FirstOnly' /\ ReadTrue'
    BY <1>1, PaperStays
  <1>4. \A c \in Collectors : Holds(c)' /\ Alone(c)' /\ \A m \in Papers!Documents : Kept(c, m)'
    BY <1>1 DEF PaperInv, Holds, Alone, Kept, HasRow
  <1>. QED
    BY <1>2, <1>3, <1>4 DEF PaperInv

LEMMA CountedPapers ==
  \A S : Papers!Cardinality(S) = Cardinality(S)
  BY DEF Papers!Cardinality, Cardinality

LEMMA PaperArchiveTrue ==
  ASSUME PapersGiven, PaperInv
  PROVE  Papers!ArchiveTrue
  <1>1. /\ documents \in Seq(PaperRow) /\ DOMAIN documents = 1 .. Len(documents)
        /\ Len(documents) \in Nat
    BY DEF PaperInv, PaperTypes
  <1>2. Papers!OneInitial
    <2> SUFFICES ASSUME NEW m \in Papers!Documents
                 PROVE  Cardinality({k \in Papers!Rows(m) : ~documents[k].revision}) <= 1
      BY CountedPapers DEF Papers!OneInitial
    <2> DEFINE S == {k \in Papers!Rows(m) : ~documents[k].revision}
    <2>1. \A j, k \in S : j = k
      <3> SUFFICES ASSUME NEW j \in S, NEW k \in S
                   PROVE  j = k
        OBVIOUS
      <3>1. /\ j \in 1 .. Len(documents) /\ documents[j].meeting = m /\ ~documents[j].revision
            /\ k \in 1 .. Len(documents) /\ documents[k].meeting = m /\ ~documents[k].revision
        BY <1>1 DEF Papers!Rows
      <3>2. j <= k /\ k <= j
        BY <3>1 DEF PaperInv, FirstOnly
      <3>. QED
        BY <3>1, <3>2
    <2> HIDE DEF S
    <2>2. Cardinality(S) <= 1
      <3>1. CASE S = {}
        BY <3>1, FS_EmptySet
      <3>2. CASE S # {}
        <4>1. PICK k : S = {k}
          BY <2>1, <3>2
        <4>. QED
          BY <4>1, FS_Singleton
      <3>. QED
        BY <3>1, <3>2
    <2>. QED
      BY <2>2 DEF S
  <1>3. Papers!NoLookAhead
    <2> SUFFICES ASSUME NEW m \in Papers!Documents, NEW k \in Papers!Rows(m)
                 PROVE  IF documents[k].revision
                        THEN page[m][documents[k].knownAt] = documents[k].version
                        ELSE /\ documents[k].knownAt <= documents[k].retrievedAt
                             /\ \A j \in Papers!Rows(m) : k <= j
      BY Zenon DEF Papers!NoLookAhead
    <2>1. k \in 1 .. Len(documents) /\ documents[k].meeting = m
      BY <1>1 DEF Papers!Rows
    <2>2. PaperTrue(documents[k])
      BY <2>1 DEF PaperInv, RowsTrue
    <2>3. CASE documents[k].revision
      BY <2>1, <2>2, <2>3 DEF PaperTrue
    <2>4. CASE ~documents[k].revision
      <3>1. documents[k].knownAt <= documents[k].retrievedAt
        BY <2>2 DEF PaperTrue
      <3>2. \A j \in Papers!Rows(m) : j \in 1 .. Len(documents) /\ documents[j].meeting = m
        BY <1>1 DEF Papers!Rows
      <3>3. \A j \in Papers!Rows(m) : k <= j
        BY <2>1, <2>4, <3>2 DEF PaperInv, FirstOnly
      <3>. QED
        BY <2>4, <3>1, <3>3
    <2>. QED
      BY <2>3, <2>4
  <1>4. Papers!ReadIsStored
    BY HashRead DEF PaperInv, ReadTrue, Papers!ReadIsStored, HashesKnown
  <1>5. Papers!NothingLost
    <2> SUFFICES ASSUME NEW c \in Collectors, NEW m \in Papers!Documents,
                        collecting[c] = Papers!Idle, m \notin failures[c],
                        taken[c][m] # Papers!Nothing
                 PROVE  \E k \in Papers!Rows(m) : documents[k].version = taken[c][m]
      BY DEF Papers!NothingLost
    <2>1. ~IsOpen(collecting[c])
      BY DEF IsOpen, Papers!Idle
    <2>2. HasRow(m, taken[c][m])
      BY <2>1 DEF PaperInv, Kept
    <2>. QED
      BY <1>1, <2>2 DEF HasRow, Papers!Rows
  <1>. QED
    BY <1>2, <1>3, <1>4, <1>5 DEF Papers!ArchiveTrue

\* For any meetings, texts and announcements, and however processes overlap, fail
\* or are killed: one version at most is the first of a meeting, no other is known
\* before it was put up, what was fetched undisturbed is what a reader gets, and
\* nothing fetched is lost without a report (opinions_collector.py).
THEOREM PapersAreTrue ==
  ASSUME PapersGiven
  PROVE  Papers!Spec => []Papers!ArchiveTrue
  <1>1. PaperInv /\ [Papers!Next]_(Papers!vars) => PaperInv'
    BY PaperNext, PaperStutter
  <1>. QED
    BY <1>1, PaperInit, PaperArchiveTrue, PTL DEF Papers!Spec

-----------------------------------------------------------------------------
(* The scores of meetings: MeetingIngest, for any banks, results and ingests *)

CONSTANTS Banks, Scorable, Date, Latest, Facts, MaxEdits
VARIABLES scoreClock, results, edits, version, scores, ingesting, finished, settled

Meets == INSTANCE MeetingIngest WITH
  Ingests <- Collectors, MaxTime <- MaxDate, file <- results, now <- scoreClock, events <- scores, run <- ingesting

\* A schedule that has a date for every bank it scores.
MeetingsGiven ==
  /\ Scorable \subseteq Banks /\ IsFiniteSet(Scorable)
  /\ Date \in [Banks -> Nat] /\ Latest \in [Banks -> Nat]

ResultEntry == [facts : Facts, published : Nat]
MeetingFile == [Scorable -> Seq(ResultEntry)]
ScoreEvent ==
  {Meets!EventFromMeeting(v, b, e) : v \in Meets!ScoringVersions, b \in Scorable, e \in ResultEntry}
IngestRun ==
  [stage : {"idle", "storing"}, at : Nat, version : Meets!ScoringVersions \cup {0},
   left : Seq(ScoreEvent), loaded : Seq(MeetingFile), alone : BOOLEAN]

MeetTypes ==
  /\ scoreClock \in Nat /\ results \in MeetingFile /\ version \in Meets!ScoringVersions
  /\ ingesting \in [Collectors -> IngestRun]
  /\ finished \in [Meets!ScoringVersions -> Nat]
  /\ settled \in [Meets!ScoringVersions -> Seq(MeetingFile)]

\* An event has its id, and its meeting is still in the file.
ScoresKept ==
  \A i \in DOMAIN scores : \E v \in Meets!ScoringVersions, b \in Scorable :
    i = Meets!EventId(v, b) /\ scores[i].scoringVersion = v /\ results[b] # <<>>

\* What is stored of a meeting is what file f says of it.
SaysOf(v, b, f) ==
  IF f[b] = <<>> THEN Meets!EventId(v, b) \notin DOMAIN scores
  ELSE /\ Meets!EventId(v, b) \in DOMAIN scores
       /\ scores[Meets!EventId(v, b)] = Meets!EventFromMeeting(v, b, f[b][1]).fields

Pending(r, b) == \E k \in 1 .. Len(r.left) : r.left[k].id = Meets!EventId(r.version, b)

\* A run has one entry per meeting it still has to store.
FromFile(r) ==
  /\ Len(r.loaded) = 1 /\ r.version \in Meets!ScoringVersions
  /\ \A b \in Scorable : /\ Len(r.loaded[1][b]) <= 1
                         /\ r.loaded[1][b] # <<>> => results[b] # <<>>
  /\ \A k \in 1 .. Len(r.left) : \E b \in Scorable :
       /\ r.loaded[1][b] # <<>>
       /\ r.left[k] = Meets!EventFromMeeting(r.version, b, r.loaded[1][b][1])

\* What was due when it began is stored, or is still to be.
Complete(r) ==
  \A b \in Scorable :
    Latest[b] < r.at => Meets!EventId(r.version, b) \in DOMAIN scores \/ Pending(r, b)

\* Alone, it leaves what its file says.
Undisturbed(r) ==
  \A b \in Scorable :
    \/ SaysOf(r.version, b, r.loaded[1])
    \/ r.loaded[1][b] # <<>> /\ Pending(r, b)

RunTrue(p) ==
  \/ ingesting[p] = Meets!Idle
  \/ /\ ingesting[p].stage = "storing" /\ FromFile(ingesting[p]) /\ Complete(ingesting[p])
     /\ ingesting[p].alone => /\ \A o \in Collectors \ {p} : ingesting[o].stage = "idle"
                              /\ Undisturbed(ingesting[p])

SettledTrue(v) ==
  settled[v] # <<>> =>
    /\ Len(settled[v]) = 1
    /\ \A p \in Collectors : ingesting[p].stage = "storing" => ingesting[p].version # v
    /\ \A b \in Scorable : Len(settled[v][1][b]) <= 1 /\ SaysOf(v, b, settled[v][1])

FinishedTrue(v) ==
  \A b \in Scorable : Latest[b] < finished[v] => Meets!EventId(v, b) \in DOMAIN scores

MeetInv ==
  /\ MeetTypes /\ ScoresKept
  /\ \A p \in Collectors : RunTrue(p)
  /\ \A v \in Meets!ScoringVersions : SettledTrue(v) /\ FinishedTrue(v)

LEMMA MeetIdle ==
  Meets!Idle \in IngestRun /\ Meets!Idle.stage = "idle" /\ ~Meets!Idle.alone
  <1>1. <<>> \in Seq(ScoreEvent) /\ <<>> \in Seq(MeetingFile)
    OBVIOUS
  <1>. QED
    BY <1>1 DEF Meets!Idle, IngestRun

LEMMA MeetInit ==
  ASSUME MeetingsGiven, Meets!Init
  PROVE  MeetInv
  <1>1. /\ scoreClock = 1 /\ version = 1 /\ scores = <<>> /\ DOMAIN scores = {}
        /\ results = [b \in Scorable |-> <<>>]
        /\ ingesting = [p \in Collectors |-> Meets!Idle]
        /\ finished = [v \in Meets!ScoringVersions |-> 0]
        /\ settled = [v \in Meets!ScoringVersions |-> <<>>]
    BY DEF Meets!Init
  <1>2. <<>> \in Seq(ResultEntry) /\ <<>> \in Seq(MeetingFile) /\ 1 \in Meets!ScoringVersions
    BY DEF Meets!ScoringVersions
  <1>3. MeetTypes
    BY <1>1, <1>2, MeetIdle DEF MeetTypes, MeetingFile
  <1>4. ScoresKept
    BY <1>1 DEF ScoresKept
  <1>5. \A p \in Collectors : RunTrue(p)
    BY <1>1 DEF RunTrue
  <1>6. \A v \in Meets!ScoringVersions : SettledTrue(v) /\ FinishedTrue(v)
    <2>1. \A b \in Scorable : ~(Latest[b] < 0)
      BY DEF MeetingsGiven
    <2>. QED
      BY <1>1, <2>1 DEF SettledTrue, FinishedTrue
  <1>. QED
    BY <1>3, <1>4, <1>5, <1>6 DEF MeetInv

\* An id tells its bank and its version, and an event has its id.
LEMMA MeetIds ==
  /\ \A v, w, b, c : Meets!EventId(v, b) = Meets!EventId(w, c) => v = w /\ b = c
  /\ \A v, b : Meets!EventId(v, b).bank = b
  /\ \A v, b, e : /\ Meets!EventFromMeeting(v, b, e).id = Meets!EventId(v, b)
                  /\ Meets!EventFromMeeting(v, b, e).fields.scoringVersion = v
                  /\ Meets!EventFromMeeting(v, b, e).fields.knownAt = e.published
                  /\ Meets!EventFromMeeting(v, b, e).fields.score = Meets!ScoreMeeting(v, e.facts)
  <1>1. \A v, b : Meets!EventId(v, b) = [bank |-> b, date |-> Date[b], version |-> v]
    BY DEF Meets!EventId
  <1>2. \A v, b : Meets!EventId(v, b).bank = b /\ Meets!EventId(v, b).version = v
    BY <1>1
  <1>3. ASSUME NEW v, NEW b, NEW e
        PROVE  /\ Meets!EventFromMeeting(v, b, e).id = Meets!EventId(v, b)
               /\ Meets!EventFromMeeting(v, b, e).fields.scoringVersion = v
               /\ Meets!EventFromMeeting(v, b, e).fields.knownAt = e.published
               /\ Meets!EventFromMeeting(v, b, e).fields.score = Meets!ScoreMeeting(v, e.facts)
    BY DEF Meets!EventFromMeeting
  <1>. QED
    BY <1>2, <1>3

\* The file only gains meetings.
LEMMA MeetEdit ==
  ASSUME MeetInv, results' \in MeetingFile, \A b \in Scorable : results[b] # <<>> => results'[b] # <<>>,
         version' \in Meets!ScoringVersions, scoreClock' \in Nat,
         UNCHANGED <<scores, ingesting, finished, settled>>
  PROVE  MeetInv'
  <1>1. MeetTypes'
    BY DEF MeetInv, MeetTypes
  <1>2. ScoresKept'
    BY DEF MeetInv, ScoresKept
  <1>3. \A p \in Collectors : RunTrue(p)'
    <2> SUFFICES ASSUME NEW p \in Collectors
                 PROVE  RunTrue(p)'
      OBVIOUS
    <2>1. RunTrue(p)
      BY DEF MeetInv
    <2>2. FromFile(ingesting[p]) => FromFile(ingesting[p])'
      BY DEF FromFile
    <2>3. /\ Complete(ingesting[p]) => Complete(ingesting[p])'
          /\ Undisturbed(ingesting[p]) => Undisturbed(ingesting[p])'
      BY DEF Complete, Undisturbed, SaysOf, Pending
    <2>. QED
      BY <2>1, <2>2, <2>3 DEF RunTrue
  <1>4. \A v \in Meets!ScoringVersions : SettledTrue(v)' /\ FinishedTrue(v)'
    BY DEF MeetInv, SettledTrue, FinishedTrue, SaysOf
  <1>. QED
    BY <1>1, <1>2, <1>3, <1>4 DEF MeetInv

LEMMA MeetWait ==
  ASSUME MeetInv, Meets!Wait \/ Meets!Deploy
  PROVE  MeetInv'
  <1>1. results' = results /\ results \in MeetingFile /\ UNCHANGED <<scores, ingesting, finished, settled>>
    BY DEF Meets!Wait, Meets!Deploy, MeetInv, MeetTypes
  <1>2. version' \in Meets!ScoringVersions /\ scoreClock' \in Nat
    BY DEF Meets!Wait, Meets!Deploy, MeetInv, MeetTypes, Meets!ScoringVersions
  <1>. QED
    BY <1>1, <1>2, MeetEdit

\* New entries of one meeting.
LEMMA MeetEntries ==
  ASSUME MeetInv, NEW b \in Scorable, NEW entries \in Seq(ResultEntry), entries # <<>>,
         Meets!Edit(b, entries)
  PROVE  MeetInv'
  <1>1. /\ results' = [results EXCEPT ![b] = entries]
        /\ UNCHANGED <<scoreClock, version, scores, ingesting, finished, settled>>
    BY DEF Meets!Edit
  <1>2. results \in MeetingFile /\ version \in Meets!ScoringVersions /\ scoreClock \in Nat
    BY DEF MeetInv, MeetTypes
  <1>3. results' \in MeetingFile /\ \A c \in Scorable : results[c] # <<>> => results'[c] # <<>>
    BY <1>1, <1>2 DEF MeetingFile
  <1>. QED
    BY <1>1, <1>2, <1>3, MeetEdit

LEMMA MeetTranscribe ==
  ASSUME MeetingsGiven, MeetInv, NEW b \in Scorable,
         Meets!Transcribe(b) \/ Meets!Correct(b) \/ Meets!Untangle(b)
  PROVE  MeetInv'
  <1>1. results[b] \in Seq(ResultEntry) /\ Date[b] \in Nat /\ Latest[b] \in Nat
    BY DEF MeetInv, MeetTypes, MeetingFile, MeetingsGiven
  <1>2. CASE Meets!Transcribe(b)
    <2>1. PICK f \in Facts : Meets!Edit(b, Append(results[b], [facts |-> f, published |-> Latest[b]]))
      BY <1>2 DEF Meets!Transcribe
    <2> DEFINE e == [facts |-> f, published |-> Latest[b]]
    <2>2. e \in ResultEntry
      BY <1>1 DEF ResultEntry
    <2> HIDE DEF e
    <2>3. Append(results[b], e) \in Seq(ResultEntry) /\ Append(results[b], e) # <<>>
      BY <1>1, <2>2
    <2>. QED
      BY <2>1, <2>3, MeetEntries DEF e
  <1>3. CASE Meets!Correct(b)
    <2>1. PICK f \in Facts, t \in {Date[b], Latest[b]} :
            Meets!Edit(b, <<[facts |-> f, published |-> t]>>)
      BY <1>3 DEF Meets!Correct
    <2> DEFINE e == [facts |-> f, published |-> t]
    <2>2. e \in ResultEntry
      BY <1>1 DEF ResultEntry
    <2> HIDE DEF e
    <2>3. <<e>> \in Seq(ResultEntry) /\ <<e>> # <<>>
      BY <2>2
    <2>. QED
      BY <2>1, <2>3, MeetEntries DEF e
  <1>4. CASE Meets!Untangle(b)
    <2>1. Len(results[b]) = 2 /\ Meets!Edit(b, <<results[b][2]>>)
      BY <1>4 DEF Meets!Untangle
    <2>2. results[b][2] \in ResultEntry
      BY <1>1, <2>1
    <2>3. <<results[b][2]>> \in Seq(ResultEntry) /\ <<results[b][2]>> # <<>>
      BY <2>2
    <2>. QED
      BY <2>1, <2>3, MeetEntries
  <1>. QED
    BY <1>2, <1>3, <1>4


LEMMA MeetStop ==
  ASSUME MeetInv, NEW p \in Collectors, Meets!Stop(p)
  PROVE  MeetInv'
  <1>1. /\ ingesting' = [ingesting EXCEPT ![p] = Meets!Idle]
        /\ UNCHANGED <<scoreClock, results, version, scores, finished, settled>>
    BY DEF Meets!Stop
  <1>2. ingesting \in [Collectors -> IngestRun]
    BY DEF MeetInv, MeetTypes
  <1>3. /\ ingesting' \in [Collectors -> IngestRun] /\ ingesting'[p] = Meets!Idle
        /\ \A q \in Collectors : q # p => ingesting'[q] = ingesting[q]
    BY <1>1, <1>2, MeetIdle
  <1>4. MeetTypes'
    BY <1>1, <1>3 DEF MeetInv, MeetTypes
  <1>5. ScoresKept'
    BY <1>1 DEF MeetInv, ScoresKept
  <1>6. ASSUME NEW q \in Collectors
        PROVE  RunTrue(q)'
    <2>1. CASE q = p
      BY <1>3, <2>1 DEF RunTrue
    <2>2. CASE q # p
      <3>1. RunTrue(q) /\ ingesting'[q] = ingesting[q]
        BY <1>3, <2>2 DEF MeetInv
      <3>2. \A o \in Collectors : ingesting[o].stage = "idle" => ingesting'[o].stage = "idle"
        BY <1>3, MeetIdle
      <3>3. /\ FromFile(ingesting[q]) => FromFile(ingesting[q])'
            /\ Complete(ingesting[q]) => Complete(ingesting[q])'
            /\ Undisturbed(ingesting[q]) => Undisturbed(ingesting[q])'
        BY <1>1, <3>1 DEF FromFile, Complete, Undisturbed, SaysOf, Pending
      <3>. QED
        BY <3>1, <3>2, <3>3 DEF RunTrue
    <2>. QED
      BY <2>1, <2>2
  <1>7. ASSUME NEW v \in Meets!ScoringVersions
        PROVE  SettledTrue(v)' /\ FinishedTrue(v)'
    <2>1. SettledTrue(v) /\ FinishedTrue(v)
      BY DEF MeetInv
    <2>2. \A q \in Collectors : ingesting'[q].stage = "storing" => ingesting'[q] = ingesting[q]
      BY <1>3, MeetIdle
    <2>. QED
      BY <1>1, <2>1, <2>2 DEF SettledTrue, FinishedTrue, SaysOf
  <1>. QED
    BY <1>4, <1>5, <1>6, <1>7 DEF MeetInv

LEMMA GreaterOfScores ==
  \A a, b \in Nat : /\ Meets!Max({a, b}) \in Nat
                    /\ \A x \in Nat : x < Meets!Max({a, b}) <=> x < a \/ x < b
  <1> SUFFICES ASSUME NEW a \in Nat, NEW b \in Nat
               PROVE  /\ Meets!Max({a, b}) \in Nat
                      /\ \A x \in Nat : x < Meets!Max({a, b}) <=> x < a \/ x < b
    OBVIOUS
  <1> DEFINE m == Meets!Max({a, b})
  <1>1. m = CHOOSE x \in {a, b} : \A y \in {a, b} : x >= y
    BY Zenon DEF Meets!Max
  <1>2. \E x \in {a, b} : \A y \in {a, b} : x >= y
    OBVIOUS
  <1>3. m \in {a, b} /\ \A y \in {a, b} : m >= y
    BY <1>1, <1>2
  <1> HIDE DEF m
  <1>. QED
    BY <1>3 DEF m

LEMMA MeetFinish ==
  ASSUME MeetingsGiven, MeetInv, NEW p \in Collectors, Meets!Finish(p)
  PROVE  MeetInv'
  <1> DEFINE r == ingesting[p]
             w == r.version
  <1>1. /\ r.stage = "storing" /\ r.left = <<>>
        /\ ingesting' = [ingesting EXCEPT ![p] = Meets!Idle]
        /\ finished' = [finished EXCEPT ![w] = Meets!Max({@, r.at})]
        /\ settled' = IF r.alone THEN [settled EXCEPT ![w] = r.loaded] ELSE settled
        /\ UNCHANGED <<scoreClock, results, version, scores>>
    BY DEF Meets!Finish
  <1>2. /\ MeetTypes /\ ScoresKept
        /\ \A q \in Collectors : RunTrue(q)
        /\ \A v \in Meets!ScoringVersions : SettledTrue(v) /\ FinishedTrue(v)
    BY DEF MeetInv
  <1>3. /\ ingesting \in [Collectors -> IngestRun]
        /\ finished \in [Meets!ScoringVersions -> Nat]
        /\ settled \in [Meets!ScoringVersions -> Seq(MeetingFile)]
    BY <1>2 DEF MeetTypes
  <1>4. /\ FromFile(r) /\ Complete(r)
        /\ r.alone => (\A o \in Collectors \ {p} : ingesting[o].stage = "idle") /\ Undisturbed(r)
    BY <1>1, <1>2, MeetIdle DEF RunTrue
  <1>5. w \in Meets!ScoringVersions /\ Len(r.loaded) = 1
    BY <1>4 DEF FromFile
  <1>6. ingesting[p] \in IngestRun
    BY <1>3
  <1>7. r.at \in Nat /\ r.loaded \in Seq(MeetingFile)
    BY <1>6 DEF IngestRun
  <1>8. \A b \in Scorable : ~Pending(r, b)
    <2>1. Len(r.left) = 0
      BY <1>1
    <2>. QED
      BY <2>1 DEF Pending
  <1>9. /\ ingesting' \in [Collectors -> IngestRun] /\ ingesting'[p] = Meets!Idle
        /\ \A q \in Collectors : q # p => ingesting'[q] = ingesting[q]
    BY <1>1, <1>3, MeetIdle
  <1>10. /\ finished[w] \in Nat /\ finished'[w] = Meets!Max({finished[w], r.at})
         /\ \A v \in Meets!ScoringVersions : v # w => finished'[v] = finished[v]
         /\ finished' \in [Meets!ScoringVersions -> Nat]
    <2>1. finished[w] \in Nat
      BY <1>3, <1>5
    <2>2. Meets!Max({finished[w], r.at}) \in Nat
      BY <1>7, <2>1, GreaterOfScores
    <2> HIDE DEF r, w
    <2>. QED
      BY <1>1, <1>3, <1>5, <2>1, <2>2
  <1>11. /\ settled' \in [Meets!ScoringVersions -> Seq(MeetingFile)]
         /\ \A v \in Meets!ScoringVersions :
              settled'[v] = IF r.alone /\ v = w THEN r.loaded ELSE settled[v]
    <2> HIDE DEF r, w
    <2>. QED
      BY <1>1, <1>3, <1>5, <1>7
  <1> HIDE DEF r, w
  <1>12. MeetTypes'
    BY <1>1, <1>2, <1>9, <1>10, <1>11 DEF MeetTypes
  <1>13. ScoresKept'
    BY <1>1, <1>2 DEF ScoresKept
  <1>14. ASSUME NEW q \in Collectors
         PROVE  RunTrue(q)'
    <2>1. CASE q = p
      BY <1>9, <2>1 DEF RunTrue
    <2>2. CASE q # p
      <3>1. RunTrue(q) /\ ingesting'[q] = ingesting[q]
        BY <1>2, <1>9, <2>2
      <3>2. \A o \in Collectors : ingesting[o].stage = "idle" => ingesting'[o].stage = "idle"
        BY <1>9, MeetIdle
      <3>3. /\ FromFile(ingesting[q]) => FromFile(ingesting[q])'
            /\ Complete(ingesting[q]) => Complete(ingesting[q])'
            /\ Undisturbed(ingesting[q]) => Undisturbed(ingesting[q])'
        BY <1>1, <3>1 DEF FromFile, Complete, Undisturbed, SaysOf, Pending
      <3>. QED
        BY <3>1, <3>2, <3>3 DEF RunTrue
    <2>. QED
      BY <2>1, <2>2
  <1>15. ASSUME NEW v \in Meets!ScoringVersions
         PROVE  FinishedTrue(v)'
    <2> SUFFICES ASSUME NEW b \in Scorable, Latest[b] < finished'[v]
                 PROVE  Meets!EventId(v, b) \in DOMAIN scores
      BY <1>1 DEF FinishedTrue
    <2>1. FinishedTrue(v)
      BY <1>2
    <2>2. CASE v # w
      BY <1>10, <2>1, <2>2 DEF FinishedTrue
    <2>3. CASE v = w
      <3>1. Latest[b] \in Nat
        BY DEF MeetingsGiven
      <3>2. Latest[b] < finished[w] \/ Latest[b] < r.at
        BY <1>7, <1>10, <2>3, <3>1, GreaterOfScores
      <3>3. CASE Latest[b] < finished[w]
        BY <2>1, <2>3, <3>3 DEF FinishedTrue
      <3>4. CASE Latest[b] < r.at
        BY <1>4, <1>8, <2>3, <3>4 DEF Complete, w
      <3>. QED
        BY <3>2, <3>3, <3>4
    <2>. QED
      BY <2>2, <2>3
  <1>16. ASSUME NEW v \in Meets!ScoringVersions
         PROVE  SettledTrue(v)'
    <2>1. SettledTrue(v) /\ \A q \in Collectors : ingesting'[q].stage = "storing" => q # p /\ ingesting'[q] = ingesting[q]
      BY <1>2, <1>9, MeetIdle
    <2>2. CASE ~(r.alone /\ v = w)
      <3>1. settled'[v] = settled[v]
        BY <1>11, <2>2
      <3>. QED
        BY <1>1, <2>1, <3>1 DEF SettledTrue, SaysOf
    <2>3. CASE r.alone /\ v = w
      <3>1. settled'[v] = r.loaded
        BY <1>11, <2>3
      <3>2. \A q \in Collectors : ingesting'[q].stage # "storing"
        BY <1>4, <2>1, <2>3
      <3>3. \A b \in Scorable : Len(r.loaded[1][b]) <= 1 /\ SaysOf(v, b, r.loaded[1])
        BY <1>4, <1>8, <2>3 DEF Undisturbed, FromFile, w
      <3>. QED
        BY <1>1, <1>5, <3>1, <3>2, <3>3 DEF SettledTrue, SaysOf
    <2>. QED
      BY <2>2, <2>3
  <1>. QED
    BY <1>12, <1>13, <1>14, <1>15, <1>16 DEF MeetInv

LEMMA MeetStore ==
  ASSUME MeetingsGiven, MeetInv, NEW p \in Collectors, Meets!Store(p)
  PROVE  MeetInv'
  <1>a. PICK r : r = ingesting[p]
    OBVIOUS
  <1>b. PICK e, x, w, f : /\ e = Head(r.left) /\ x = [r EXCEPT !.left = Tail(@)]
                          /\ w = r.version /\ f = r.loaded[1]
    OBVIOUS
  <1>1. /\ r.left # <<>> /\ scores' = Meets!Upsert(scores, e)
        /\ ingesting' = [ingesting EXCEPT ![p] = x]
        /\ UNCHANGED <<scoreClock, results, version, finished, settled>>
    BY <1>a, <1>b DEF Meets!Store
  <1>2. /\ MeetTypes /\ ScoresKept
        /\ \A q \in Collectors : RunTrue(q)
        /\ \A v \in Meets!ScoringVersions : SettledTrue(v) /\ FinishedTrue(v)
    BY DEF MeetInv
  <1>3. ingesting \in [Collectors -> IngestRun] /\ r \in IngestRun
    BY <1>a, <1>2 DEF MeetTypes
  <1>4. /\ r.stage = "storing" /\ FromFile(r) /\ Complete(r)
        /\ r.alone => (\A o \in Collectors \ {p} : ingesting[o].stage = "idle") /\ Undisturbed(r)
    BY <1>a, <1>1, <1>2 DEF RunTrue, Meets!Idle
  <1>5. r.left \in Seq(ScoreEvent) /\ Len(r.left) \in Nat \ {0} /\ 1 \in 1 .. Len(r.left)
    <2>1. r.left \in Seq(ScoreEvent)
      BY <1>3 DEF IngestRun
    <2>. QED
      BY <1>1, <2>1
  <1>6. /\ e = r.left[1] /\ Tail(r.left) \in Seq(ScoreEvent) /\ Len(Tail(r.left)) = Len(r.left) - 1
        /\ \A k \in 1 .. Len(r.left) - 1 : Tail(r.left)[k] = r.left[k + 1]
    <2>. QED
      BY <1>b, <1>5
  <1>7. /\ x \in IngestRun /\ x.stage = r.stage /\ x.at = r.at /\ x.version = w
        /\ x.loaded = r.loaded /\ x.alone = r.alone /\ x.left = Tail(r.left)
    <2>. QED
      BY <1>b, <1>3, <1>6 DEF IngestRun
  <1>8. PICK c \in Scorable : f[c] # <<>> /\ e = Meets!EventFromMeeting(w, c, f[c][1])
    BY <1>b, <1>4, <1>5, <1>6 DEF FromFile
  <1>9. w \in Meets!ScoringVersions /\ results[c] # <<>> /\ e.id = Meets!EventId(w, c)
        /\ e.fields.scoringVersion = w
    BY <1>b, <1>4, <1>8, MeetIds DEF FromFile
  <1>10. /\ ingesting' \in [Collectors -> IngestRun] /\ ingesting'[p] = x
         /\ \A q \in Collectors : q # p => ingesting'[q] = ingesting[q]
    BY <1>1, <1>3, <1>7
  <1>11. /\ DOMAIN scores' = DOMAIN scores \cup {Meets!EventId(w, c)}
         /\ scores'[Meets!EventId(w, c)] = e.fields
         /\ \A i \in DOMAIN scores : i # Meets!EventId(w, c) => scores'[i] = scores[i]
    <2>1. scores' = [i \in DOMAIN scores \cup {e.id} |-> IF i = e.id THEN e.fields ELSE scores[i]]
      BY <1>1 DEF Meets!Upsert
    <2>. QED
      BY <1>9, <2>1
  <1>12. MeetTypes'
    BY <1>1, <1>2, <1>10 DEF MeetTypes
  <1>13. ScoresKept'
    <2> SUFFICES ASSUME NEW i \in DOMAIN scores'
                 PROVE  \E v \in Meets!ScoringVersions, b \in Scorable :
                          i = Meets!EventId(v, b) /\ scores'[i].scoringVersion = v /\ results[b] # <<>>
      BY <1>1 DEF ScoresKept
    <2>1. CASE i = Meets!EventId(w, c)
      BY <1>9, <1>11, <2>1
    <2>2. CASE i # Meets!EventId(w, c)
      BY <1>2, <1>11, <2>2 DEF ScoresKept
    <2>. QED
      BY <2>1, <2>2
  <1>15. ASSUME NEW q \in Collectors, q # p
         PROVE  RunTrue(q)'
    <2>1. RunTrue(q) /\ ingesting'[q] = ingesting[q]
      BY <1>2, <1>10, <1>15
    <2>2. CASE ingesting[q] = Meets!Idle
      BY <2>1, <2>2 DEF RunTrue
    <2>3. CASE ingesting[q] # Meets!Idle
      <3>1. ingesting[q].stage = "storing" /\ FromFile(ingesting[q]) /\ Complete(ingesting[q])
            /\ ~ingesting[q].alone
        BY <1>a, <1>4, <1>15, <2>1, <2>3 DEF RunTrue
      <3>2. FromFile(ingesting[q])' /\ Complete(ingesting[q])'
        BY <1>1, <1>11, <2>1, <3>1 DEF FromFile, Complete, Pending
      <3>. QED
        BY <2>1, <3>1, <3>2 DEF RunTrue
    <2>. QED
      BY <2>2, <2>3
  <1>16. ASSUME NEW b \in Scorable, Pending(r, b), b # c
         PROVE  Pending(x, b)
    <2>1. PICK k \in 1 .. Len(r.left) : r.left[k].id = Meets!EventId(w, b)
      BY <1>b, <1>16 DEF Pending
    <2>2. k # 1
      BY <1>6, <1>9, <1>16, <2>1, MeetIds
    <2>3. k - 1 \in 1 .. Len(r.left) - 1 /\ (k - 1) + 1 = k
      BY <1>5, <2>1, <2>2
    <2>4. x.left[k - 1].id = Meets!EventId(w, b) /\ k - 1 \in 1 .. Len(x.left)
      BY <1>6, <1>7, <2>1, <2>3
    <2>. QED
      BY <1>7, <2>4 DEF Pending
  <1>17. FromFile(x)'
    <2>1. FromFile(r) /\ r.version = w
      BY <1>b, <1>4
    <2>2. ASSUME NEW k \in 1 .. Len(x.left)
          PROVE  \E b \in Scorable :
                   /\ x.loaded[1][b] # <<>>
                   /\ x.left[k] = Meets!EventFromMeeting(x.version, b, x.loaded[1][b][1])
      <3>1. k \in 1 .. Len(r.left) - 1 /\ k + 1 \in 1 .. Len(r.left)
        BY <1>5, <1>6, <1>7
      <3>2. x.left[k] = r.left[k + 1]
        BY <1>6, <1>7, <3>1
      <3>3. PICK b \in Scorable :
              /\ r.loaded[1][b] # <<>>
              /\ r.left[k + 1] = Meets!EventFromMeeting(r.version, b, r.loaded[1][b][1])
        BY <2>1, <3>1 DEF FromFile
      <3>. QED
        BY <1>7, <2>1, <3>2, <3>3
    <2>. QED
      BY <1>1, <1>7, <2>1, <2>2 DEF FromFile
  <1>18. Complete(x)'
    <2> SUFFICES ASSUME NEW b \in Scorable, Latest[b] < r.at
                 PROVE  Meets!EventId(w, b) \in DOMAIN scores' \/ Pending(x, b)
      BY <1>7 DEF Complete, Pending
    <2>1. Meets!EventId(w, b) \in DOMAIN scores \/ Pending(r, b)
      BY <1>b, <1>4 DEF Complete
    <2>. QED
      BY <1>11, <1>16, <2>1
  <1>19. ASSUME r.alone
         PROVE  Undisturbed(x)'
    <2> SUFFICES ASSUME NEW b \in Scorable
                 PROVE  \/ SaysOf(w, b, f)'
                        \/ f[b] # <<>> /\ Pending(x, b)
      BY <1>b, <1>7 DEF Undisturbed, Pending, SaysOf
    <2>1. \/ SaysOf(w, b, f)
          \/ f[b] # <<>> /\ Pending(r, b)
      BY <1>b, <1>4, <1>19 DEF Undisturbed
    <2>2. CASE b = c
      BY <1>8, <1>11, <2>2 DEF SaysOf
    <2>3. CASE b # c
      <3>2. SaysOf(w, b, f) => SaysOf(w, b, f)'
        BY <1>11, <2>3, MeetIds DEF SaysOf
      <3>. QED
        BY <1>16, <2>1, <2>3, <3>2
    <2>. QED
      BY <2>2, <2>3
  <1>20. RunTrue(p)'
    <2>1. \A o \in Collectors \ {p} : ingesting'[o] = ingesting[o]
      BY <1>10
    <2>2. FromFile(ingesting[p])'
      BY <1>10, <1>17 DEF FromFile
    <2>3. Complete(ingesting[p])'
      BY <1>10, <1>18 DEF Complete, Pending
    <2>4. r.alone => Undisturbed(ingesting[p])'
      BY <1>10, <1>19 DEF Undisturbed, SaysOf, Pending
    <2>. QED
      BY <1>4, <1>7, <1>10, <2>1, <2>2, <2>3, <2>4 DEF RunTrue
  <1>21. ASSUME NEW v \in Meets!ScoringVersions
         PROVE  SettledTrue(v)' /\ FinishedTrue(v)'
    <2>1. SettledTrue(v) /\ FinishedTrue(v)
      BY <1>2
    <2>2. FinishedTrue(v)'
      BY <1>1, <1>11, <2>1 DEF FinishedTrue
    <2>3. SettledTrue(v)'
      <3> SUFFICES ASSUME settled[v] # <<>>
                   PROVE  /\ Len(settled[v]) = 1
                          /\ \A q \in Collectors : ingesting'[q].stage = "storing" => ingesting'[q].version # v
                          /\ \A b \in Scorable : Len(settled[v][1][b]) <= 1 /\ SaysOf(v, b, settled[v][1])'
        BY <1>1 DEF SettledTrue, SaysOf
      <3>1. v # w
        BY <1>a, <1>b, <1>4, <2>1 DEF SettledTrue
      <3>2. \A q \in Collectors : ingesting'[q].stage = ingesting[q].stage
                                  /\ ingesting'[q].version = ingesting[q].version
        BY <1>a, <1>b, <1>7, <1>10
      <3>3. \A b \in Scorable : SaysOf(v, b, settled[v][1]) => SaysOf(v, b, settled[v][1])'
        BY <1>1, <1>11, <3>1, MeetIds DEF SaysOf
      <3>. QED
        BY <2>1, <3>2, <3>3 DEF SettledTrue
    <2>. QED
      BY <2>2, <2>3
  <1>. QED
    BY <1>12, <1>13, <1>15, <1>20, <1>21 DEF MeetInv

LEMMA MeetingsListed ==
  ASSUME NEW S, IsFiniteSet(S)
  PROVE  /\ DOMAIN Meets!SetToSeq(S) = 1 .. Cardinality(S) /\ Cardinality(S) \in Nat
         /\ \A k \in 1 .. Cardinality(S) : Meets!SetToSeq(S)[k] \in S
         /\ \A x \in S : \E k \in 1 .. Cardinality(S) : Meets!SetToSeq(S)[k] = x
  <1>1. Meets!SetToSeq(S) = SetToSeq(S)
    <2>1. Meets!Cardinality(S) = Cardinality(S)
      BY DEF Meets!Cardinality, Cardinality
    <2>2. \A g : Meets!IsInjective(g) = IsInjective(g)
      BY Zenon DEF Meets!IsInjective, IsInjective
    <2>. QED
      BY <2>1, <2>2 DEF Meets!SetToSeq, SetToSeq
  <1>2. Cardinality(S) \in Nat /\ Enumerates(SetToSeq(S), Cardinality(S), S)
    BY SetEnumerated
  <1>. QED
    BY <1>1, <1>2 DEF Enumerates

LEMMA MeetLoad ==
  ASSUME MeetingsGiven, MeetInv, NEW p \in Collectors, Meets!Load(p)
  PROVE  MeetInv'
  <1>a. PICK banks, meetings, n, left, others :
          /\ banks = {b \in Scorable : results[b] # <<>>}
          /\ meetings = Meets!SetToSeq(banks) /\ n = Cardinality(banks)
          /\ left = [k \in DOMAIN meetings |->
                       Meets!EventFromMeeting(version, meetings[k], results[meetings[k]][1])]
          /\ others = (\A o \in Collectors : ingesting[o].stage = "idle")
    OBVIOUS
  <1>b. PICK x : x = [stage |-> "storing", at |-> scoreClock, version |-> version,
                      loaded |-> <<results>>, left |-> left, alone |-> others]
    OBVIOUS
  <1>c. PICK w, f : w = version /\ f = results
    OBVIOUS
  <1>1. /\ ingesting[p].stage = "idle" /\ ~Meets!Duplicated(results)
        /\ Meets!UntranscribedOverdue(results, scoreClock) = {}
        /\ ingesting' = [q \in Collectors |->
                           IF q = p THEN x ELSE [ingesting[q] EXCEPT !.alone = FALSE]]
        /\ settled' = [settled EXCEPT ![w] = <<>>]
        /\ UNCHANGED <<scoreClock, results, version, scores, finished>>
    BY <1>a, <1>b, <1>c DEF Meets!Load
  <1>2. /\ MeetTypes /\ ScoresKept
        /\ \A q \in Collectors : RunTrue(q)
        /\ \A v \in Meets!ScoringVersions : SettledTrue(v) /\ FinishedTrue(v)
    BY DEF MeetInv
  <1>3. /\ ingesting \in [Collectors -> IngestRun] /\ f \in MeetingFile /\ w \in Meets!ScoringVersions
        /\ settled \in [Meets!ScoringVersions -> Seq(MeetingFile)] /\ scoreClock \in Nat
    BY <1>c, <1>2 DEF MeetTypes
  <1>4. /\ DOMAIN meetings = 1 .. n /\ n \in Nat
        /\ \A k \in 1 .. n : meetings[k] \in banks
        /\ \A b \in banks : \E k \in 1 .. n : meetings[k] = b
    <2>1. IsFiniteSet(banks)
      BY <1>a, FS_Subset DEF MeetingsGiven
    <2>2. /\ DOMAIN Meets!SetToSeq(banks) = 1 .. Cardinality(banks) /\ Cardinality(banks) \in Nat
          /\ \A k \in 1 .. Cardinality(banks) : Meets!SetToSeq(banks)[k] \in banks
          /\ \A y \in banks : \E k \in 1 .. Cardinality(banks) : Meets!SetToSeq(banks)[k] = y
      BY <2>1, MeetingsListed
    <2>3. meetings = Meets!SetToSeq(banks) /\ n = Cardinality(banks)
      BY <1>a
    <2>. QED
      BY <2>2, <2>3
  <1>5. \A b \in Scorable : f[b] \in Seq(ResultEntry) /\ Len(f[b]) \in Nat /\ Len(f[b]) <= 1
    <2>1. \A b \in Scorable : f[b] \in Seq(ResultEntry)
      BY <1>3 DEF MeetingFile
    <2>2. \A b \in Scorable : ~(Len(f[b]) > 1)
      BY <1>1, <1>c DEF Meets!Duplicated
    <2>3. \A b \in Scorable : Len(f[b]) \in Nat
      BY <2>1
    <2>. QED
      BY <2>1, <2>2, <2>3
  <1>6. /\ Len(left) = n /\ left \in Seq(ScoreEvent)
        /\ \A k \in 1 .. n : left[k] = Meets!EventFromMeeting(w, meetings[k], f[meetings[k]][1])
    <2>1. left = [k \in 1 .. n |-> Meets!EventFromMeeting(w, meetings[k], f[meetings[k]][1])]
      BY <1>a, <1>c, <1>4
    <2>2. ASSUME NEW k \in 1 .. n
          PROVE  Meets!EventFromMeeting(w, meetings[k], f[meetings[k]][1]) \in ScoreEvent
      <3>1. meetings[k] \in Scorable /\ f[meetings[k]] # <<>>
        BY <1>a, <1>c, <1>4
      <3>2. f[meetings[k]][1] \in ResultEntry
        BY <1>5, <3>1
      <3>. QED
        BY <1>3, <3>1, <3>2 DEF ScoreEvent
    <2>. QED
      BY <1>4, <2>1, <2>2
  <1>7. /\ x \in IngestRun /\ x.stage = "storing" /\ x.at = scoreClock /\ x.version = w
        /\ x.loaded = <<f>> /\ x.left = left /\ x.alone = others
    <2>1. others \in BOOLEAN
      BY <1>a
    <2>2. <<f>> \in Seq(MeetingFile)
      BY <1>3
    <2>. QED
      BY <1>b, <1>c, <1>3, <1>6, <2>1, <2>2 DEF IngestRun
  <1>8. ASSUME NEW q \in Collectors, q # p
        PROVE  /\ ingesting'[q] \in IngestRun /\ ~ingesting'[q].alone
               /\ ingesting'[q].stage = ingesting[q].stage /\ ingesting'[q].at = ingesting[q].at
               /\ ingesting'[q].version = ingesting[q].version /\ ingesting'[q].left = ingesting[q].left
               /\ ingesting'[q].loaded = ingesting[q].loaded
               /\ ingesting[q] = Meets!Idle => ingesting'[q] = Meets!Idle
    <2>1. ingesting[q] \in IngestRun /\ ingesting'[q] = [ingesting[q] EXCEPT !.alone = FALSE]
      BY <1>1, <1>3, <1>8
    <2>2. ingesting[q] = Meets!Idle => ingesting'[q] = Meets!Idle
      <3>1. Meets!Idle \in IngestRun /\ Meets!Idle.alone = FALSE
        BY MeetIdle DEF IngestRun
      <3>. QED
        BY <2>1, <3>1 DEF IngestRun
    <2>. QED
      BY <2>1, <2>2 DEF IngestRun
  <1>9. ingesting'[p] = x /\ ingesting' \in [Collectors -> IngestRun]
    <2>1. \A q \in Collectors : ingesting'[q] \in IngestRun
      BY <1>1, <1>7, <1>8
    <2>. QED
      BY <1>1, <2>1
  <1>10. /\ settled' \in [Meets!ScoringVersions -> Seq(MeetingFile)] /\ settled'[w] = <<>>
         /\ \A v \in Meets!ScoringVersions : v # w => settled'[v] = settled[v]
    BY <1>1, <1>3
  <1>11. MeetTypes'
    BY <1>1, <1>2, <1>9, <1>10 DEF MeetTypes
  <1>12. ScoresKept'
    BY <1>1, <1>2 DEF ScoresKept
  \* Whoever is in the file is to be stored; nobody else is stored.
  <1>13. \A b \in Scorable : f[b] # <<>> => Pending(x, b)
    <2> SUFFICES ASSUME NEW b \in Scorable, f[b] # <<>>
                 PROVE  \E k \in 1 .. Len(x.left) : x.left[k].id = Meets!EventId(x.version, b)
      BY DEF Pending
    <2>1. PICK k \in 1 .. n : meetings[k] = b
      BY <1>a, <1>c, <1>4
    <2>2. x.left[k].id = Meets!EventId(w, b)
      BY <1>6, <1>7, <2>1, MeetIds
    <2>. QED
      BY <1>6, <1>7, <2>2
  <1>14. \A b \in Scorable : f[b] = <<>> => Meets!EventId(w, b) \notin DOMAIN scores
    BY <1>2, <1>c, MeetIds DEF ScoresKept
  <1>15. FromFile(ingesting[p])'
    <2>1. Len(x.loaded) = 1 /\ x.loaded[1] = f
      BY <1>7
    <2>2. ASSUME NEW k \in 1 .. Len(x.left)
          PROVE  \E b \in Scorable :
                   f[b] # <<>> /\ x.left[k] = Meets!EventFromMeeting(x.version, b, f[b][1])
      <3>1. k \in 1 .. n /\ meetings[k] \in Scorable /\ f[meetings[k]] # <<>>
        BY <1>a, <1>c, <1>4, <1>6, <1>7
      <3>. QED
        BY <1>6, <1>7, <3>1
    <2>. QED
      BY <1>1, <1>3, <1>5, <1>7, <1>9, <1>c, <2>1, <2>2 DEF FromFile
  <1>16. Complete(ingesting[p])'
    <2> SUFFICES ASSUME NEW b \in Scorable, Latest[b] < scoreClock
                 PROVE  Pending(x, b)
      BY <1>7, <1>9 DEF Complete, Pending
    <2>1. Meets!Transcribed(results, b)
      <3>1. b \in Banks /\ b \notin Meets!UntranscribedOverdue(results, scoreClock)
        BY <1>1 DEF MeetingsGiven
      <3>. QED
        BY <3>1 DEF Meets!UntranscribedOverdue
    <2>. QED
      BY <1>13, <1>c, <2>1 DEF Meets!Transcribed
  <1>17. Undisturbed(ingesting[p])'
    <2> SUFFICES ASSUME NEW b \in Scorable
                 PROVE  \/ SaysOf(w, b, f)
                        \/ f[b] # <<>> /\ Pending(x, b)
      BY <1>1, <1>7, <1>9 DEF Undisturbed, Pending, SaysOf
    <2>. QED
      BY <1>13, <1>14 DEF SaysOf
  <1>18. RunTrue(p)'
    <2>1. x.alone => \A o \in Collectors \ {p} : ingesting'[o].stage = "idle"
      BY <1>a, <1>7, <1>8
    <2>. QED
      BY <1>7, <1>9, <1>15, <1>16, <1>17, <2>1 DEF RunTrue
  <1>19. ASSUME NEW q \in Collectors, q # p
         PROVE  RunTrue(q)'
    <2>1. RunTrue(q)
      BY <1>2
    <2>2. CASE ingesting[q] = Meets!Idle
      BY <1>8, <1>19, <2>2 DEF RunTrue
    <2>3. CASE ingesting[q] # Meets!Idle
      <3>1. ingesting[q].stage = "storing" /\ FromFile(ingesting[q]) /\ Complete(ingesting[q])
        BY <2>1, <2>3 DEF RunTrue
      <3>2. FromFile(ingesting[q])'
        <4>1. PICK y, z : /\ y = ingesting[q] /\ z = ingesting'[q]
                          /\ z.version = y.version /\ z.left = y.left /\ z.loaded = y.loaded
          BY <1>8, <1>19
        <4>2. FromFile(y)
          BY <3>1, <4>1
        <4>3. /\ Len(z.loaded) = 1 /\ z.version \in Meets!ScoringVersions
              /\ \A b \in Scorable : /\ Len(z.loaded[1][b]) <= 1
                                     /\ z.loaded[1][b] # <<>> => results'[b] # <<>>
          BY <1>1, <4>1, <4>2 DEF FromFile
        <4>4. \A k \in 1 .. Len(z.left) : \E b \in Scorable :
                /\ z.loaded[1][b] # <<>>
                /\ z.left[k] = Meets!EventFromMeeting(z.version, b, z.loaded[1][b][1])
          BY <4>1, <4>2 DEF FromFile
        <4>. QED
          BY <4>1, <4>3, <4>4 DEF FromFile
      <3>3. Complete(ingesting[q])'
        BY <1>1, <1>8, <1>19, <3>1 DEF Complete, Pending
      <3>. QED
        BY <1>8, <1>19, <3>1, <3>2, <3>3 DEF RunTrue
    <2>. QED
      BY <2>2, <2>3
  <1>20. ASSUME NEW v \in Meets!ScoringVersions
         PROVE  SettledTrue(v)' /\ FinishedTrue(v)'
    <2>1. SettledTrue(v) /\ FinishedTrue(v)
      BY <1>2
    <2>2. FinishedTrue(v)'
      BY <1>1, <2>1 DEF FinishedTrue
    <2>3. CASE v = w
      BY <1>10, <2>2, <2>3 DEF SettledTrue
    <2>4. CASE v # w
      <3>1. settled'[v] = settled[v]
        BY <1>10, <2>4
      <3>2. ASSUME settled[v] # <<>>, NEW q \in Collectors, ingesting'[q].stage = "storing"
            PROVE  ingesting'[q].version # v
        BY <1>7, <1>8, <1>9, <2>1, <2>4, <3>2 DEF SettledTrue
      <3>. QED
        BY <1>1, <2>1, <2>2, <3>1, <3>2 DEF SettledTrue, SaysOf
    <2>. QED
      BY <2>2, <2>3, <2>4
  <1>. QED
    BY <1>11, <1>12, <1>18, <1>19, <1>20 DEF MeetInv

-----------------------------------------------------------------------------
(* Every step *)

LEMMA MeetNext ==
  ASSUME MeetingsGiven, MeetInv, Meets!Next
  PROVE  MeetInv'
  BY MeetWait, MeetTranscribe, MeetLoad, MeetStore, MeetFinish, MeetStop DEF Meets!Next

LEMMA MeetStutter ==
  ASSUME MeetInv, UNCHANGED Meets!vars
  PROVE  MeetInv'
  <1>1. results \in MeetingFile /\ version \in Meets!ScoringVersions /\ scoreClock \in Nat
    BY DEF MeetInv, MeetTypes
  <1>. QED
    BY <1>1, MeetEdit DEF Meets!vars

\* What a replay of version v reads of a bank.
LEMMA ScoreRead ==
  ASSUME MeetInv, NEW v \in Meets!ScoringVersions, NEW b \in Scorable, NEW t,
         settled[v] # <<>>
  PROVE  Meets!LatestPolicyScore(v, b, t) =
           {Meets!ScoreMeeting(v, e.facts) :
              e \in {x \in Meets!Range(settled[v][1][b]) : x.published <= t}}
  <1>a. PICK f, id : f = settled[v][1] /\ id = Meets!EventId(v, b)
    OBVIOUS
  <1>1. /\ Len(settled[v]) = 1 /\ Len(f[b]) <= 1 /\ SaysOf(v, b, f)
        /\ settled[v] \in Seq(MeetingFile)
    BY <1>a DEF MeetInv, MeetTypes, SettledTrue
  <1>2. f \in MeetingFile
    BY <1>a, <1>1
  <1>3. f[b] \in Seq(ResultEntry)
    BY <1>2 DEF MeetingFile
  <1>4. Meets!Range(f[b]) = {f[b][k] : k \in 1 .. Len(f[b])}
    BY <1>3 DEF Meets!Range
  <1>5. \A i \in DOMAIN scores : i.bank = b /\ scores[i].scoringVersion = v <=> i = id
    <2>1. \A i \in DOMAIN scores : i.bank = b /\ scores[i].scoringVersion = v => i = id
      BY <1>a, MeetIds DEF MeetInv, ScoresKept
    <2>2. \A i \in DOMAIN scores : i = id => i.bank = b /\ scores[i].scoringVersion = v
      BY <1>a, MeetIds DEF MeetInv, ScoresKept
    <2>. QED
      BY <2>1, <2>2
  <1>6. Meets!LatestPolicyScore(v, b, t) =
          {scores[i].score : i \in {j \in DOMAIN scores : j = id /\ scores[j].knownAt <= t}}
    <2>1. {j \in DOMAIN scores : j.bank = b /\ scores[j].scoringVersion = v /\ scores[j].knownAt <= t}
            = {j \in DOMAIN scores : j = id /\ scores[j].knownAt <= t}
      BY <1>5
    <2>. QED
      BY <2>1 DEF Meets!LatestPolicyScore
  <1>7. CASE f[b] = <<>>
    <2>1. id \notin DOMAIN scores
      BY <1>a, <1>1, <1>7 DEF SaysOf
    <2>2. Meets!LatestPolicyScore(v, b, t) = {}
      BY <1>6, <2>1
    <2>3. Meets!Range(f[b]) = {}
      BY <1>4, <1>7
    <2>. QED
      BY <1>a, <2>2, <2>3
  <1>8. CASE f[b] # <<>>
    <2>1. Len(f[b]) = 1
      BY <1>1, <1>3, <1>8
    <2>2. Meets!Range(f[b]) = {f[b][1]}
      BY <1>4, <2>1
    <2>3. id \in DOMAIN scores /\ scores[id] = Meets!EventFromMeeting(v, b, f[b][1]).fields
      BY <1>a, <1>1, <1>8 DEF SaysOf
    <2>4. /\ scores[id].knownAt = f[b][1].published
          /\ scores[id].score = Meets!ScoreMeeting(v, f[b][1].facts)
      BY <2>3, MeetIds
    <2>5. CASE f[b][1].published <= t
      <3>1. Meets!LatestPolicyScore(v, b, t) = {scores[id].score}
        BY <1>6, <2>3, <2>4, <2>5
      <3>2. {x \in Meets!Range(f[b]) : x.published <= t} = {f[b][1]}
        BY <2>2, <2>5
      <3>. QED
        BY <1>a, <2>4, <3>1, <3>2
    <2>6. CASE ~(f[b][1].published <= t)
      <3>1. Meets!LatestPolicyScore(v, b, t) = {}
        BY <1>6, <2>3, <2>4, <2>6
      <3>2. {x \in Meets!Range(f[b]) : x.published <= t} = {}
        BY <2>2, <2>6
      <3>. QED
        BY <1>a, <3>1, <3>2
    <2>. QED
      BY <2>5, <2>6
  <1>. QED
    BY <1>7, <1>8

LEMMA MeetTrue ==
  ASSUME MeetInv
  PROVE  Meets!ScoresTrue
  <1>1. Meets!NoneMissed
    BY DEF MeetInv, FinishedTrue, Meets!NoneMissed
  <1>2. Meets!FileIsRead
    BY ScoreRead DEF Meets!FileIsRead
  <1>. QED
    BY <1>1, <1>2 DEF Meets!ScoresTrue

\* For any banks, dates and results, and however ingests of two versions overlap
\* and people edit the file: a run that ends well has scored every meeting due,
\* and one that went through alone leaves exactly the scores of its file
\* (collector.py, scoring.py).
THEOREM ScoresAreTrue ==
  ASSUME MeetingsGiven
  PROVE  Meets!Spec => []Meets!ScoresTrue
  <1>1. MeetInv /\ [Meets!Next]_(Meets!vars) => MeetInv'
    BY MeetNext, MeetStutter
  <1>. QED
    BY <1>1, MeetInit, MeetTrue, PTL DEF Meets!Spec

-----------------------------------------------------------------------------
(* The official record: InterventionIngest, for any days, pages and ingests *)

CONSTANTS Days, Appears, Bound, Monthly, Recognized, PagesBack
VARIABLES mofClock, amounts, curated, raws, official, downloading, completed

Mof == INSTANCE InterventionIngest WITH
  Lookback <- PagesBack, Ingests <- Collectors, MaxTime <- MaxDate,
  now <- mofClock, events <- official, run <- downloading

\* A day is published by its bound.
OfficialGiven ==
  /\ IsFiniteSet(Days) /\ IsFiniteSet(Monthly) /\ Monthly \subseteq Nat
  /\ Appears \in [Days -> Nat] /\ Bound \in [Days -> Nat]
  /\ \A d \in Days : Appears[d] <= Bound[d]
  /\ Recognized \in [1 .. 2 -> Nat] /\ PagesBack \in Nat

DayRow == [day : Days, amount : 1 .. 2]
MonthRow == [page : Monthly]
Address == {Mof!Csv} \cup {Mof!Page(m) : m \in Monthly}
RawPage == [uri : Address, content : SUBSET (DayRow \cup MonthRow), knownAt : Nat]
OfficialId ==
  {Mof!DailyId(d) : d \in Days} \cup {Mof!MonthlyId(m) : m \in Monthly} \cup {Mof!RecognitionId}
OfficialFields ==
  [uri : Address \cup {<<"curated", 0>>}, content : DayRow \cup MonthRow \cup {"curated"},
   knownAt : Nat]
OfficialEvent == [id : OfficialId, fields : OfficialFields]
Download == [at : Nat, raws : Seq(RawPage), events : Seq(OfficialEvent)]

MofTypes ==
  /\ mofClock \in Nat /\ amounts \in [Days -> 1 .. 2] /\ curated \in Nat
  /\ raws \in Seq(RawPage) /\ downloading \in [Collectors -> Download]
  /\ completed \subseteq Nat

\* A day's figure lies between its publication and its bound.
DatedRight(i, f) ==
  \A d \in Days : i = Mof!DailyId(d) => Appears[d] <= f.knownAt /\ f.knownAt <= Bound[d]

\* A page among A from which figure f was parsed.
ParsedFrom(A, f) == \E k \in 1 .. Len(A) : A[k].uri = f.uri /\ f.content \in A[k].content

StoredSound(E, A) ==
  \A i \in DOMAIN E : /\ DatedRight(i, E[i])
                      /\ i # Mof!RecognitionId => ParsedFrom(A, E[i])

\* What a run has still to store has its page in the archive or in the run.
DownloadSound(r, A) ==
  \A k \in 1 .. Len(r.events) :
    /\ DatedRight(r.events[k].id, r.events[k].fields)
    /\ r.events[k].id # Mof!RecognitionId =>
         ParsedFrom(A, r.events[k].fields) \/ ParsedFrom(r.raws, r.events[k].fields)

\* What a run begun at t has to leave behind.
Due(t) ==
  {Mof!RecognitionId} \cup {Mof!DailyId(d) : d \in {x \in Days : Appears[x] <= t}}
    \cup {Mof!MonthlyId(m) : m \in {x \in Monthly : x <= t /\ x >= t - PagesBack}}

DownloadCovers(r, E) ==
  r # Mof!Idle => \A i \in Due(r.at) :
    i \in DOMAIN E \/ \E k \in 1 .. Len(r.events) : r.events[k].id = i

MofInv ==
  /\ MofTypes
  /\ StoredSound(official, raws)
  /\ \A p \in Collectors :
       DownloadSound(downloading[p], raws) /\ DownloadCovers(downloading[p], official)
  /\ \A t \in completed : Due(t) \subseteq DOMAIN official

-----------------------------------------------------------------------------
\* Why the invariant is enough.
LEMMA MofTrue ==
  ASSUME OfficialGiven, MofInv
  PROVE  Mof!OfficialTrue
  <1>1. /\ raws \in Seq(RawPage) /\ completed \subseteq Nat /\ StoredSound(official, raws)
        /\ \A t \in completed : Due(t) \subseteq DOMAIN official
    BY DEF MofInv, MofTypes
  <1>2. Mof!Sourced
    <2> SUFFICES ASSUME NEW i \in DOMAIN official, i # Mof!RecognitionId
                 PROVE  \E r \in Mof!Range(raws) :
                          r.uri = official[i].uri /\ official[i].content \in r.content
      BY DEF Mof!Sourced
    <2>1. PICK k \in 1 .. Len(raws) :
            raws[k].uri = official[i].uri /\ official[i].content \in raws[k].content
      BY <1>1 DEF StoredSound, ParsedFrom
    <2>2. raws[k] \in Mof!Range(raws)
      BY <1>1 DEF Mof!Range
    <2>. QED
      BY <2>1, <2>2
  <1>3. Mof!PublishedFirst
    <2> SUFFICES ASSUME NEW d \in Days, Mof!DailyId(d) \in DOMAIN official
                 PROVE  /\ official[Mof!DailyId(d)].knownAt >= Appears[d]
                        /\ official[Mof!DailyId(d)].knownAt <= Bound[d]
      BY DEF Mof!PublishedFirst
    <2>1. DatedRight(Mof!DailyId(d), official[Mof!DailyId(d)])
      BY <1>1 DEF StoredSound
    <2> HIDE DEF Mof!DailyId
    <2>. QED
      BY <2>1 DEF DatedRight
  <1>4. Mof!NoneSkipped
    <2> SUFFICES ASSUME NEW t \in completed
                 PROVE  /\ Mof!RecognitionId \in DOMAIN official
                        /\ \A d \in Days : Appears[d] <= t => Mof!DailyId(d) \in DOMAIN official
                        /\ \A m \in Monthly :
                             (\E s \in completed \cup {1} : s <= m /\ m <= t /\ t - s <= PagesBack)
                               => Mof!MonthlyId(m) \in DOMAIN official
      BY DEF Mof!NoneSkipped
    <2>1. Due(t) \subseteq DOMAIN official
      BY <1>1
    <2>2. Mof!RecognitionId \in Due(t)
      BY DEF Due
    <2>3. \A d \in Days : Appears[d] <= t => Mof!DailyId(d) \in Due(t)
      BY DEF Due
    <2>4. \A m \in Monthly : m <= t /\ m >= t - PagesBack => Mof!MonthlyId(m) \in Due(t)
      BY DEF Due
    <2>5. \A m \in Monthly, s \in completed \cup {1} :
            s <= m /\ m <= t /\ t - s <= PagesBack => m >= t - PagesBack
      BY <1>1 DEF OfficialGiven
    <2>. QED
      BY <2>1, <2>2, <2>3, <2>4, <2>5
  <1>. QED
    BY <1>2, <1>3, <1>4 DEF Mof!OfficialTrue

LEMMA MofInit ==
  ASSUME OfficialGiven, Mof!Init
  PROVE  MofInv
  <1>1. /\ mofClock = 1 /\ amounts = [d \in Days |-> 1] /\ curated = Recognized[1]
        /\ raws = <<>> /\ official = <<>> /\ downloading = [p \in Collectors |-> Mof!Idle]
        /\ completed = {}
    BY DEF Mof!Init
  <1>2. Mof!Idle \in Download /\ Mof!Idle.events = <<>>
    BY DEF Mof!Idle, Download
  <1>3. MofTypes
    BY <1>1, <1>2 DEF MofTypes, OfficialGiven
  <1>4. StoredSound(official, raws)
    BY <1>1 DEF StoredSound
  <1>5. \A p \in Collectors :
          DownloadSound(downloading[p], raws) /\ DownloadCovers(downloading[p], official)
    BY <1>1, <1>2 DEF DownloadSound, DownloadCovers
  <1>. QED
    BY <1>1, <1>3, <1>4, <1>5 DEF MofInv

\* A page stays a page when the archive grows.
LEMMA PagesStay ==
  ASSUME NEW A \in Seq(RawPage), NEW r \in RawPage, NEW f
  PROVE  /\ ParsedFrom(A, f) => ParsedFrom(Append(A, r), f)
         /\ r.uri = f.uri /\ f.content \in r.content => ParsedFrom(Append(A, r), f)
  <1>1. /\ Len(A) \in Nat /\ Len(Append(A, r)) = Len(A) + 1
        /\ \A k \in 1 .. Len(A) : Append(A, r)[k] = A[k]
        /\ Append(A, r)[Len(A) + 1] = r
    OBVIOUS
  <1>. QED
    BY <1>1 DEF ParsedFrom

LEMMA MofWait ==
  ASSUME MofInv, Mof!Wait \/ Mof!Verify \/ \E d \in Days : Mof!Amend(d), OfficialGiven
  PROVE  MofInv'
  <1>1. UNCHANGED <<raws, official, downloading, completed>>
    BY DEF Mof!Wait, Mof!Verify, Mof!Amend
  <1>2. mofClock' \in Nat /\ amounts' \in [Days -> 1 .. 2] /\ curated' \in Nat
    <2>1. mofClock \in Nat /\ amounts \in [Days -> 1 .. 2] /\ curated \in Nat
      BY DEF MofInv, MofTypes
    <2>2. CASE Mof!Wait
      BY <2>1, <2>2 DEF Mof!Wait
    <2>3. CASE Mof!Verify
      BY <2>1, <2>3 DEF Mof!Verify, OfficialGiven
    <2>4. CASE \E d \in Days : Mof!Amend(d)
      BY <2>1, <2>4 DEF Mof!Amend
    <2>. QED
      BY <2>2, <2>3, <2>4
  <1>3. MofTypes'
    BY <1>1, <1>2 DEF MofInv, MofTypes
  <1>. QED
    BY <1>1, <1>3 DEF MofInv

\* A page is archived, or is already the newest of its address.
LEMMA MofArchive ==
  ASSUME MofInv, NEW p \in Collectors, Mof!ArchiveRaw(p)
  PROVE  MofInv'
  <1>a. PICK r : r = downloading[p]
    OBVIOUS
  <1>b. PICK x : x = Head(r.raws)
    OBVIOUS
  <1>c. PICK left : left = [r EXCEPT !.raws = Tail(r.raws)]
    OBVIOUS
  <1>d. PICK A : A = raws
    OBVIOUS
  <1>1. /\ r.raws # <<>> /\ downloading' = [downloading EXCEPT ![p] = left]
        /\ raws' = IF x.content \in Mof!Newest(x.uri) THEN A ELSE Append(A, x)
        /\ UNCHANGED <<mofClock, amounts, curated, official, completed>>
    BY <1>a, <1>b, <1>c, <1>d DEF Mof!ArchiveRaw
  <1>2. /\ MofTypes /\ StoredSound(official, A)
        /\ \A q \in Collectors :
             DownloadSound(downloading[q], A) /\ DownloadCovers(downloading[q], official)
        /\ \A t \in completed : Due(t) \subseteq DOMAIN official
    BY <1>d DEF MofInv
  <1>3. r \in Download /\ A \in Seq(RawPage) /\ downloading \in [Collectors -> Download]
    BY <1>2, <1>a, <1>d DEF MofTypes
  <1>4. r.raws \in Seq(RawPage) /\ x \in RawPage /\ Tail(r.raws) \in Seq(RawPage)
    <2>1. r.raws \in Seq(RawPage)
      BY <1>3 DEF Download
    <2>. QED
      BY <2>1, <1>1, <1>b
  <1>5. left \in Download /\ left.events = r.events /\ left.at = r.at /\ left.raws = Tail(r.raws)
    BY <1>3, <1>4, <1>c DEF Download
  <1>6. raws' \in Seq(RawPage)
    BY <1>1, <1>3, <1>4
  <1>7. \A f : ParsedFrom(A, f) => ParsedFrom(raws', f)
    BY <1>1, <1>3, <1>4, PagesStay
  <1>8. \A f : x.uri = f.uri /\ f.content \in x.content => ParsedFrom(raws', f)
    <2> SUFFICES ASSUME NEW f, x.uri = f.uri, f.content \in x.content
                 PROVE  ParsedFrom(raws', f)
      OBVIOUS
    <2>1. CASE x.content \in Mof!Newest(x.uri)
      <3>1. PICK k \in DOMAIN A : A[k].uri = x.uri /\ A[k].content = x.content
        BY <2>1, <1>d DEF Mof!Newest
      <3>2. k \in 1 .. Len(A) /\ raws' = A
        BY <1>1, <1>3, <2>1, <3>1
      <3>. QED
        BY <3>1, <3>2 DEF ParsedFrom
    <2>2. CASE x.content \notin Mof!Newest(x.uri)
      BY <1>1, <1>3, <1>4, <2>2, PagesStay
    <2>. QED
      BY <2>1, <2>2
  <1>9. \A f : ParsedFrom(r.raws, f) => ParsedFrom(raws', f) \/ ParsedFrom(Tail(r.raws), f)
    <2> SUFFICES ASSUME NEW f, ParsedFrom(r.raws, f)
                 PROVE  ParsedFrom(raws', f) \/ ParsedFrom(Tail(r.raws), f)
      OBVIOUS
    <2>1. PICK k \in 1 .. Len(r.raws) : r.raws[k].uri = f.uri /\ f.content \in r.raws[k].content
      BY DEF ParsedFrom
    <2>2. CASE k = 1
      <3>1. r.raws[1] = x
        BY <1>b, <1>1, <1>4
      <3>. QED
        BY <2>1, <2>2, <3>1, <1>8
    <2>3. CASE k # 1
      <3>1. k - 1 \in 1 .. Len(Tail(r.raws)) /\ Tail(r.raws)[k - 1] = r.raws[k]
        BY <1>1, <1>4, <2>1, <2>3
      <3>. QED
        BY <2>1, <3>1 DEF ParsedFrom
    <2>. QED
      BY <2>2, <2>3
  <1>10. MofTypes'
    BY <1>1, <1>2, <1>3, <1>5, <1>6 DEF MofTypes
  <1>11. StoredSound(official', raws')
    BY <1>1, <1>2, <1>7 DEF StoredSound
  <1>12. \A q \in Collectors : DownloadSound(downloading'[q], raws')
    <2> SUFFICES ASSUME NEW q \in Collectors
                 PROVE  DownloadSound(downloading'[q], raws')
      OBVIOUS
    <2>1. DownloadSound(downloading[q], A)
      BY <1>2
    <2>2. CASE q # p
      <3>1. downloading'[q] = downloading[q]
        BY <1>1, <1>3, <2>2
      <3>. QED
        BY <2>1, <3>1, <1>7 DEF DownloadSound
    <2>3. CASE q = p
      <3>1. downloading'[q] = left
        BY <1>1, <1>3, <2>3
      <3>2. DownloadSound(r, A)
        BY <2>1, <2>3, <1>a
      <3>. QED
        BY <3>1, <3>2, <1>5, <1>7, <1>9 DEF DownloadSound
    <2>. QED
      BY <2>2, <2>3
  <1>13. \A q \in Collectors : DownloadCovers(downloading'[q], official')
    <2> SUFFICES ASSUME NEW q \in Collectors
                 PROVE  DownloadCovers(downloading'[q], official')
      OBVIOUS
    <2>1. DownloadCovers(downloading[q], official) /\ official' = official
      BY <1>1, <1>2
    <2>2. CASE q # p
      BY <2>1, <2>2, <1>1, <1>3
    <2>3. CASE q = p
      <3>1. downloading'[q] = left
        BY <1>1, <1>3, <2>3
      <3>2. DownloadCovers(r, official) /\ r # Mof!Idle
        BY <2>1, <2>3, <1>a, <1>1 DEF Mof!Idle
      <3>. QED
        BY <2>1, <3>1, <3>2, <1>5 DEF DownloadCovers
    <2>. QED
      BY <2>2, <2>3
  <1>14. \A t \in completed' : Due(t) \subseteq DOMAIN official'
    BY <1>1, <1>2
  <1>. QED
    BY <1>10, <1>11, <1>12, <1>13, <1>14 DEF MofInv

\* An event is stored once its pages are, unless it is there already.
LEMMA MofInsert ==
  ASSUME MofInv, NEW p \in Collectors, Mof!InsertEvent(p)
  PROVE  MofInv'
  <1>a. PICK r : r = downloading[p]
    OBVIOUS
  <1>b. PICK e : e = Head(r.events)
    OBVIOUS
  <1>c. PICK left : left = [r EXCEPT !.events = Tail(r.events)]
    OBVIOUS
  <1>d. PICK A, E : A = raws /\ E = official
    OBVIOUS
  <1>1. /\ r.raws = <<>> /\ r.events # <<>> /\ downloading' = [downloading EXCEPT ![p] = left]
        /\ official' = Mof!InsertNew(E, e)
        /\ UNCHANGED <<mofClock, amounts, curated, raws, completed>>
    BY <1>a, <1>b, <1>c, <1>d DEF Mof!InsertEvent
  <1>2. /\ MofTypes /\ StoredSound(E, A)
        /\ \A q \in Collectors :
             DownloadSound(downloading[q], A) /\ DownloadCovers(downloading[q], E)
        /\ \A t \in completed : Due(t) \subseteq DOMAIN E
    BY <1>d DEF MofInv
  <1>3. r \in Download /\ downloading \in [Collectors -> Download]
    BY <1>2, <1>a DEF MofTypes
  <1>4. /\ r.events \in Seq(OfficialEvent) /\ Tail(r.events) \in Seq(OfficialEvent)
        /\ 1 \in 1 .. Len(r.events) /\ e = r.events[1]
        /\ Len(Tail(r.events)) = Len(r.events) - 1
        /\ \A k \in 1 .. Len(r.events) - 1 : Tail(r.events)[k] = r.events[k + 1]
    <2>1. r.events \in Seq(OfficialEvent)
      BY <1>3 DEF Download
    <2>. QED
      BY <2>1, <1>1, <1>b
  <1>5. left \in Download /\ left.events = Tail(r.events) /\ left.at = r.at /\ left.raws = r.raws
    BY <1>3, <1>4, <1>c DEF Download
  <1>6. DownloadSound(r, A) /\ DownloadCovers(r, E)
    BY <1>2, <1>a
  <1>7. DatedRight(e.id, e.fields) /\ (e.id # Mof!RecognitionId => ParsedFrom(A, e.fields))
    <2>1. ~ParsedFrom(r.raws, e.fields)
      <3>1. Len(r.raws) = 0
        BY <1>1
      <3>. QED
        BY <3>1 DEF ParsedFrom
    <2>. QED
      BY <2>1, <1>4, <1>6 DEF DownloadSound
  <1>8. /\ DOMAIN official' = DOMAIN E \cup {e.id}
        /\ \A i \in DOMAIN official' :
             \/ i \in DOMAIN E /\ official'[i] = E[i]
             \/ i = e.id /\ official'[i] = e.fields
    <2>1. CASE e.id \in DOMAIN E
      BY <1>1, <2>1 DEF Mof!InsertNew
    <2>2. CASE e.id \notin DOMAIN E
      BY <1>1, <2>2 DEF Mof!InsertNew
    <2>. QED
      BY <2>1, <2>2
  <1>9. MofTypes'
    BY <1>1, <1>2, <1>3, <1>5 DEF MofTypes
  <1>10. StoredSound(official', raws')
    <2>1. raws' = A
      BY <1>1, <1>d
    <2>. QED
      BY <2>1, <1>2, <1>7, <1>8 DEF StoredSound
  <1>11. \A q \in Collectors : DownloadSound(downloading'[q], raws')
    <2> SUFFICES ASSUME NEW q \in Collectors
                 PROVE  DownloadSound(downloading'[q], raws')
      OBVIOUS
    <2>1. raws' = A /\ DownloadSound(downloading[q], A)
      BY <1>1, <1>2, <1>d
    <2>2. CASE q # p
      BY <2>1, <2>2, <1>1, <1>3
    <2>3. CASE q = p
      <3>1. downloading'[q] = left
        BY <1>1, <1>3, <2>3
      <3>2. \A k \in 1 .. Len(left.events) :
              k + 1 \in 1 .. Len(r.events) /\ left.events[k] = r.events[k + 1]
        BY <1>4, <1>5
      <3>. QED
        BY <2>1, <3>1, <3>2, <1>5, <1>6 DEF DownloadSound
    <2>. QED
      BY <2>2, <2>3
  <1>12. \A q \in Collectors : DownloadCovers(downloading'[q], official')
    <2> SUFFICES ASSUME NEW q \in Collectors
                 PROVE  DownloadCovers(downloading'[q], official')
      OBVIOUS
    <2>1. DownloadCovers(downloading[q], E) /\ DOMAIN E \subseteq DOMAIN official'
      BY <1>2, <1>8
    <2>2. CASE q # p
      <3>1. downloading'[q] = downloading[q]
        BY <1>1, <1>3, <2>2
      <3>. QED
        BY <2>1, <3>1 DEF DownloadCovers
    <2>3. CASE q = p
      <3>1. downloading'[q] = left /\ r # Mof!Idle
        BY <1>1, <1>3, <2>3 DEF Mof!Idle
      <3>2. \A k \in 1 .. Len(r.events) :
              \/ r.events[k].id = e.id
              \/ k - 1 \in 1 .. Len(left.events) /\ left.events[k - 1] = r.events[k]
        <4> SUFFICES ASSUME NEW k \in 1 .. Len(r.events), k # 1
                     PROVE  /\ k - 1 \in 1 .. Len(left.events)
                            /\ left.events[k - 1] = r.events[k]
          BY <1>4
        <4>1. Len(r.events) \in Nat /\ left.events = Tail(r.events)
          BY <1>4, <1>5
        <4>2. k - 1 \in 1 .. Len(r.events) - 1
          BY <4>1
        <4>3. Tail(r.events)[k - 1] = r.events[k - 1 + 1]
          BY <1>4, <4>2
        <4>. QED
          BY <1>4, <4>1, <4>2, <4>3
      <3>3. \A i \in Due(r.at) : i \in DOMAIN E \/ \E k \in 1 .. Len(r.events) : r.events[k].id = i
        BY <3>1, <1>6 DEF DownloadCovers
      <3>4. \A i \in Due(r.at) :
              i \in DOMAIN official' \/ \E k \in 1 .. Len(left.events) : left.events[k].id = i
        <4> SUFFICES ASSUME NEW i \in Due(r.at), i \notin DOMAIN official'
                     PROVE  \E k \in 1 .. Len(left.events) : left.events[k].id = i
          OBVIOUS
        <4>1. PICK k \in 1 .. Len(r.events) : r.events[k].id = i
          BY <1>8, <3>3
        <4>2. k - 1 \in 1 .. Len(left.events) /\ left.events[k - 1] = r.events[k]
          BY <1>8, <3>2, <4>1
        <4>. QED
          BY <4>1, <4>2
      <3>. QED
        BY <3>1, <3>4, <1>5 DEF DownloadCovers
    <2>. QED
      BY <2>2, <2>3
  <1>13. \A t \in completed' : Due(t) \subseteq DOMAIN official'
    BY <1>1, <1>2, <1>8
  <1>. QED
    BY <1>9, <1>10, <1>11, <1>12, <1>13 DEF MofInv

\* A run that ends well has left nothing over; one that is killed promises nothing.
LEMMA MofEnd ==
  ASSUME MofInv, NEW p \in Collectors, Mof!Finish(p) \/ Mof!Stop(p)
  PROVE  MofInv'
  <1>a. PICK r : r = downloading[p]
    OBVIOUS
  <1>1. /\ downloading' = [downloading EXCEPT ![p] = Mof!Idle] /\ r # Mof!Idle
        /\ UNCHANGED <<mofClock, amounts, curated, raws, official>>
    BY <1>a DEF Mof!Finish, Mof!Stop
  <1>2. \/ completed' = completed
        \/ r.events = <<>> /\ completed' = completed \cup {r.at}
    BY <1>a DEF Mof!Finish, Mof!Stop
  <1>3. /\ MofTypes /\ StoredSound(official, raws)
        /\ \A q \in Collectors :
             DownloadSound(downloading[q], raws) /\ DownloadCovers(downloading[q], official)
        /\ \A t \in completed : Due(t) \subseteq DOMAIN official
    BY DEF MofInv
  <1>4. /\ r \in Download /\ downloading \in [Collectors -> Download] /\ r.at \in Nat
        /\ completed \subseteq Nat
    <2>1. r \in Download /\ downloading \in [Collectors -> Download] /\ completed \subseteq Nat
      BY <1>3, <1>a DEF MofTypes
    <2>. QED
      BY <2>1 DEF Download
  <1>5. Mof!Idle \in Download /\ Mof!Idle.events = <<>>
    BY DEF Mof!Idle, Download
  <1>6. MofTypes'
    BY <1>1, <1>2, <1>3, <1>4, <1>5 DEF MofTypes
  <1>7. \A q \in Collectors :
          DownloadSound(downloading'[q], raws') /\ DownloadCovers(downloading'[q], official')
    <2> SUFFICES ASSUME NEW q \in Collectors
                 PROVE  DownloadSound(downloading'[q], raws) /\ DownloadCovers(downloading'[q], official)
      BY <1>1
    <2>1. CASE q # p
      BY <2>1, <1>1, <1>3, <1>4
    <2>2. CASE q = p
      <3>1. downloading'[q] = Mof!Idle
        BY <1>1, <1>4, <2>2
      <3>. QED
        BY <3>1, <1>5 DEF DownloadSound, DownloadCovers
    <2>. QED
      BY <2>1, <2>2
  <1>8. r.events = <<>> => Due(r.at) \subseteq DOMAIN official
    <2>1. DownloadCovers(r, official)
      BY <1>3, <1>a
    <2>. QED
      BY <2>1, <1>1 DEF DownloadCovers
  <1>9. \A t \in completed' : Due(t) \subseteq DOMAIN official'
    BY <1>1, <1>2, <1>3, <1>8
  <1>. QED
    BY <1>1, <1>3, <1>6, <1>7, <1>9 DEF MofInv

LEMMA OfficialListed ==
  ASSUME NEW S, IsFiniteSet(S)
  PROVE  /\ DOMAIN Mof!SetToSeq(S) = 1 .. Cardinality(S) /\ Cardinality(S) \in Nat
         /\ \A k \in 1 .. Cardinality(S) : Mof!SetToSeq(S)[k] \in S
         /\ \A x \in S : \E k \in 1 .. Cardinality(S) : Mof!SetToSeq(S)[k] = x
  <1>1. Mof!SetToSeq(S) = SetToSeq(S)
    <2>1. Mof!Cardinality(S) = Cardinality(S)
      BY DEF Mof!Cardinality, Cardinality
    <2>2. \A g : Mof!IsInjective(g) = IsInjective(g)
      BY Zenon DEF Mof!IsInjective, IsInjective
    <2>. QED
      BY <2>1, <2>2 DEF Mof!SetToSeq, SetToSeq
  <1>2. Cardinality(S) \in Nat /\ Enumerates(SetToSeq(S), Cardinality(S), S)
    BY SetEnumerated
  <1>. QED
    BY <1>1, <1>2 DEF Enumerates

\* A figure of the history is known from the bound, or from its retrieval if that is earlier.
LEMMA DailyDated ==
  ASSUME OfficialGiven, NEW d \in Days, NEW t \in Nat, Appears[d] <= t
  PROVE  /\ Mof!DailyKnownAt(d, t) \in Nat
         /\ Appears[d] <= Mof!DailyKnownAt(d, t) /\ Mof!DailyKnownAt(d, t) <= Bound[d]
  <1>1. Bound[d] \in Nat /\ Appears[d] \in Nat /\ Appears[d] <= Bound[d]
    BY DEF OfficialGiven
  <1> DEFINE m == Mof!DailyKnownAt(d, t)
  <1>2. m = CHOOSE x \in {Bound[d], t} : \A y \in {Bound[d], t} : x =< y
    BY Zenon DEF Mof!DailyKnownAt, Mof!Min
  <1>3. \E x \in {Bound[d], t} : \A y \in {Bound[d], t} : x =< y
    BY <1>1
  <1>4. m \in {Bound[d], t} /\ \A y \in {Bound[d], t} : m =< y
    BY <1>2, <1>3
  <1>. QED
    BY <1>1, <1>4

\* What the events of a collection at t look like, and the pages they were parsed from.
IsDaily(e, t) ==
  \E d \in Days : /\ Appears[d] <= t /\ e.id = Mof!DailyId(d) /\ e.fields \in OfficialFields
                  /\ Appears[d] <= e.fields.knownAt /\ e.fields.knownAt <= Bound[d]
                  /\ e.fields.uri = Mof!Csv /\ e.fields.content \in Mof!History(t)
IsMonthly(e, t) ==
  \E m \in Mof!Wanted(t) : /\ e.id = Mof!MonthlyId(m) /\ e.fields \in OfficialFields
                           /\ e.fields.uri = Mof!Page(m)
                           /\ e.fields.content = Mof!MonthlyAmount(m)
IsRecognition(e) == e.id = Mof!RecognitionId /\ e.fields \in OfficialFields

LEMMA EventsShaped ==
  ASSUME OfficialGiven, MofTypes, NEW t \in Nat
  PROVE  /\ \A d \in Days : Appears[d] <= t =>
              Mof!DailyEvent(d, t) \in OfficialEvent /\ IsDaily(Mof!DailyEvent(d, t), t)
         /\ \A m \in Mof!Wanted(t) :
              Mof!MonthlyEvent(m) \in OfficialEvent /\ IsMonthly(Mof!MonthlyEvent(m), t)
         /\ Mof!Recognition \in OfficialEvent /\ IsRecognition(Mof!Recognition)
  <1>1. ASSUME NEW d \in Days, Appears[d] <= t
        PROVE  Mof!DailyEvent(d, t) \in OfficialEvent /\ IsDaily(Mof!DailyEvent(d, t), t)
    <2> DEFINE e == Mof!DailyEvent(d, t)
    <2>1. /\ e = [id |-> Mof!DailyId(d), fields |-> e.fields]
          /\ e.fields = [uri |-> Mof!Csv, content |-> [day |-> d, amount |-> amounts[d]],
                         knownAt |-> Mof!DailyKnownAt(d, t)]
      BY DEF Mof!DailyEvent
    <2>2. [day |-> d, amount |-> amounts[d]] \in DayRow
      BY DEF MofTypes, DayRow
    <2>3. [day |-> d, amount |-> amounts[d]] \in Mof!History(t)
      BY <1>1 DEF Mof!History
    <2>4. /\ Mof!DailyKnownAt(d, t) \in Nat
          /\ Appears[d] <= Mof!DailyKnownAt(d, t) /\ Mof!DailyKnownAt(d, t) <= Bound[d]
      BY <1>1, DailyDated
    <2>5. Mof!DailyId(d) \in OfficialId /\ Mof!Csv \in Address
      BY DEF OfficialId, Address
    <2> HIDE DEF e
    <2>6. e.fields \in OfficialFields
      BY <2>1, <2>2, <2>4, <2>5 DEF OfficialFields
    <2>7. e \in OfficialEvent
      BY <2>1, <2>5, <2>6 DEF OfficialEvent
    <2>8. /\ e.id = Mof!DailyId(d) /\ e.fields.knownAt = Mof!DailyKnownAt(d, t)
          /\ e.fields.uri = Mof!Csv /\ e.fields.content = [day |-> d, amount |-> amounts[d]]
      BY <2>1
    <2>9. IsDaily(e, t)
      BY <1>1, <2>3, <2>4, <2>6, <2>8 DEF IsDaily
    <2>. QED
      BY <2>7, <2>9 DEF e
  <1>2. ASSUME NEW m \in Mof!Wanted(t)
        PROVE  Mof!MonthlyEvent(m) \in OfficialEvent /\ IsMonthly(Mof!MonthlyEvent(m), t)
    <2> DEFINE e == Mof!MonthlyEvent(m)
    <2>1. m \in Monthly /\ m \in Nat
      BY DEF Mof!Wanted, OfficialGiven
    <2>2. /\ e = [id |-> Mof!MonthlyId(m), fields |-> e.fields]
          /\ e.fields = [uri |-> Mof!Page(m), content |-> Mof!MonthlyAmount(m), knownAt |-> m]
      BY DEF Mof!MonthlyEvent
    <2>3. Mof!MonthlyAmount(m) \in MonthRow
      BY <2>1 DEF Mof!MonthlyAmount, MonthRow
    <2>4. Mof!MonthlyId(m) \in OfficialId /\ Mof!Page(m) \in Address
      BY <2>1 DEF OfficialId, Address
    <2> HIDE DEF e
    <2>5. e.fields \in OfficialFields
      BY <2>1, <2>2, <2>3, <2>4 DEF OfficialFields
    <2>6. e \in OfficialEvent
      BY <2>2, <2>4, <2>5 DEF OfficialEvent
    <2>7. /\ e.id = Mof!MonthlyId(m) /\ e.fields.uri = Mof!Page(m)
          /\ e.fields.content = Mof!MonthlyAmount(m)
      BY <2>2
    <2>8. IsMonthly(e, t)
      BY <2>5, <2>7 DEF IsMonthly
    <2>. QED
      BY <2>6, <2>8 DEF e
  <1>3. Mof!Recognition \in OfficialEvent /\ IsRecognition(Mof!Recognition)
    <2> DEFINE e == Mof!Recognition
    <2>1. /\ e = [id |-> Mof!RecognitionId, fields |-> e.fields]
          /\ e.fields = [uri |-> <<"curated", 0>>, content |-> "curated", knownAt |-> curated]
      BY DEF Mof!Recognition
    <2>2. curated \in Nat /\ Mof!RecognitionId \in OfficialId
      BY DEF MofTypes, OfficialId
    <2> HIDE DEF e
    <2>3. e.fields \in OfficialFields
      BY <2>1, <2>2 DEF OfficialFields
    <2>4. e \in OfficialEvent /\ e.id = Mof!RecognitionId
      BY <2>1, <2>2, <2>3 DEF OfficialEvent
    <2>. QED
      BY <2>3, <2>4 DEF e, IsRecognition
  <1>. QED
    BY <1>1, <1>2, <1>3

Entries(s) == {s[k] : k \in 1 .. Len(s)}

\* One list put behind another.
LEMMA EntriesJoined ==
  ASSUME NEW S, NEW a \in Seq(S), NEW b \in Seq(S)
  PROVE  a \o b \in Seq(S) /\ Entries(a \o b) = Entries(a) \cup Entries(b)
  <1>1. /\ a \o b \in Seq(S) /\ Len(a) \in Nat /\ Len(b) \in Nat
        /\ Len(a \o b) = Len(a) + Len(b)
        /\ \A k \in 1 .. Len(a) : (a \o b)[k] = a[k]
        /\ \A k \in 1 .. Len(b) : (a \o b)[Len(a) + k] = b[k]
    OBVIOUS
  <1>2. \A x \in Entries(a) : x \in Entries(a \o b)
    BY <1>1 DEF Entries
  <1>3. \A x \in Entries(b) : x \in Entries(a \o b)
    <2> SUFFICES ASSUME NEW k \in 1 .. Len(b)
                 PROVE  b[k] \in Entries(a \o b)
      BY DEF Entries
    <2>1. Len(a) + k \in 1 .. Len(a \o b)
      BY <1>1
    <2>. QED
      BY <1>1, <2>1 DEF Entries
  <1>4. \A x \in Entries(a \o b) : x \in Entries(a) \/ x \in Entries(b)
    <2> SUFFICES ASSUME NEW k \in 1 .. Len(a) + Len(b)
                 PROVE  (a \o b)[k] \in Entries(a) \/ (a \o b)[k] \in Entries(b)
      BY <1>1 DEF Entries
    <2>1. CASE k \in 1 .. Len(a)
      BY <1>1, <2>1 DEF Entries
    <2>2. CASE k \notin 1 .. Len(a)
      <3>1. k - Len(a) \in 1 .. Len(b) /\ Len(a) + (k - Len(a)) = k
        BY <1>1, <2>2
      <3>. QED
        BY <1>1, <3>1 DEF Entries
    <2>. QED
      BY <2>1, <2>2
  <1>. QED
    BY <1>1, <1>2, <1>3, <1>4

\* A list of what a set of things gives.
LEMMA EntriesListed ==
  ASSUME NEW S, NEW n \in Nat, NEW s, s \in [1 .. n -> S]
  PROVE  s \in Seq(S) /\ Len(s) = n /\ Entries(s) = {s[k] : k \in 1 .. n}
  <1>1. s \in Seq(S) /\ Len(s) = n
    OBVIOUS
  <1>. QED
    BY <1>1 DEF Entries

LEMMA MofCollect ==
  ASSUME OfficialGiven, MofInv, NEW p \in Collectors, Mof!Collect(p)
  PROVE  MofInv'
  <1>a. PICK t : t = mofClock
    OBVIOUS
  <1>b. PICK D, W : D = {d \in Days : Appears[d] <= t} /\ W = Mof!Wanted(t)
    OBVIOUS
  <1>c. PICK days, picked, n, l :
          /\ days = Mof!SetToSeq(D) /\ n = Cardinality(D)
          /\ picked = Mof!SetToSeq(W) /\ l = Cardinality(W)
    OBVIOUS
  <1>d. PICK csv, pagesRaw :
          /\ csv = <<[uri |-> Mof!Csv, content |-> Mof!History(t), knownAt |-> t]>>
          /\ pagesRaw = [k \in DOMAIN picked |->
               [uri |-> Mof!Page(picked[k]), content |-> {Mof!MonthlyAmount(picked[k])}, knownAt |-> t]]
    OBVIOUS
  <1>e. PICK daily, monthly, last :
          /\ daily = [k \in DOMAIN days |-> Mof!DailyEvent(days[k], t)]
          /\ monthly = [k \in DOMAIN picked |-> Mof!MonthlyEvent(picked[k])]
          /\ last = <<Mof!Recognition>>
    OBVIOUS
  <1>f. PICK rawList, eventList : rawList = csv \o pagesRaw /\ eventList = daily \o monthly \o last
    OBVIOUS
  <1>g. PICK x : x = [at |-> t, raws |-> rawList, events |-> eventList]
    OBVIOUS
  <1>1. /\ downloading' = [downloading EXCEPT ![p] = x]
        /\ UNCHANGED <<mofClock, amounts, curated, raws, official, completed>>
    BY <1>a, <1>b, <1>c, <1>d, <1>e, <1>f, <1>g DEF Mof!Collect
  <1>2. /\ MofTypes /\ StoredSound(official, raws)
        /\ \A q \in Collectors :
             DownloadSound(downloading[q], raws) /\ DownloadCovers(downloading[q], official)
        /\ \A s \in completed : Due(s) \subseteq DOMAIN official
    BY DEF MofInv
  <1>3. /\ t \in Nat /\ downloading \in [Collectors -> Download] /\ amounts \in [Days -> 1 .. 2]
    BY <1>a, <1>2 DEF MofTypes
  <1>4. /\ DOMAIN days = 1 .. n /\ n \in Nat /\ \A k \in 1 .. n : days[k] \in D
        /\ \A d \in D : \E k \in 1 .. n : days[k] = d
    <2>1. IsFiniteSet(D)
      BY <1>b, FS_Subset DEF OfficialGiven
    <2>. QED
      BY <1>c, <2>1, OfficialListed
  <1>5. /\ DOMAIN picked = 1 .. l /\ l \in Nat /\ \A k \in 1 .. l : picked[k] \in W
        /\ \A m \in W : \E k \in 1 .. l : picked[k] = m
    <2>1. IsFiniteSet(W)
      BY <1>b, FS_Subset DEF OfficialGiven, Mof!Wanted
    <2>. QED
      BY <1>c, <2>1, OfficialListed
  <1>6. /\ \A d \in D : Mof!DailyEvent(d, t) \in OfficialEvent /\ IsDaily(Mof!DailyEvent(d, t), t)
        /\ \A m \in W : Mof!MonthlyEvent(m) \in OfficialEvent /\ IsMonthly(Mof!MonthlyEvent(m), t)
        /\ Mof!Recognition \in OfficialEvent /\ IsRecognition(Mof!Recognition)
    BY <1>2, <1>3, <1>b, EventsShaped
  \* What is to be stored.
  <1>7. /\ eventList \in Seq(OfficialEvent)
        /\ Entries(eventList) = {Mof!DailyEvent(d, t) : d \in D}
             \cup {Mof!MonthlyEvent(m) : m \in W} \cup {Mof!Recognition}
    <2>1. daily \in [1 .. n -> OfficialEvent] /\ monthly \in [1 .. l -> OfficialEvent]
      BY <1>4, <1>5, <1>6, <1>e
    <2>2. /\ daily \in Seq(OfficialEvent) /\ Entries(daily) = {daily[k] : k \in 1 .. n}
          /\ monthly \in Seq(OfficialEvent) /\ Entries(monthly) = {monthly[k] : k \in 1 .. l}
      <3>1. daily \in Seq(OfficialEvent) /\ Entries(daily) = {daily[k] : k \in 1 .. n}
        <4>1. n \in Nat /\ daily \in [1 .. n -> OfficialEvent]
          BY <1>4, <2>1
        <4>. QED
          BY <4>1, EntriesListed
      <3>2. monthly \in Seq(OfficialEvent) /\ Entries(monthly) = {monthly[k] : k \in 1 .. l}
        <4>1. l \in Nat /\ monthly \in [1 .. l -> OfficialEvent]
          BY <1>5, <2>1
        <4>. QED
          BY <4>1, EntriesListed
      <3>. QED
        BY <3>1, <3>2
    <2>3. {daily[k] : k \in 1 .. n} = {Mof!DailyEvent(d, t) : d \in D}
      BY <1>4, <1>e
    <2>4. {monthly[k] : k \in 1 .. l} = {Mof!MonthlyEvent(m) : m \in W}
      BY <1>5, <1>e
    <2>5. last \in Seq(OfficialEvent) /\ Entries(last) = {Mof!Recognition}
      BY <1>6, <1>e DEF Entries
    <2>6. daily \o monthly \in Seq(OfficialEvent)
          /\ Entries(daily \o monthly) = Entries(daily) \cup Entries(monthly)
      BY <2>2, EntriesJoined
    <2>7. eventList \in Seq(OfficialEvent)
          /\ Entries(eventList) = Entries(daily \o monthly) \cup Entries(last)
      <3>1. PICK front : front = daily \o monthly
        OBVIOUS
      <3>2. front \in Seq(OfficialEvent) /\ last \in Seq(OfficialEvent) /\ eventList = front \o last
        BY <2>5, <2>6, <3>1, <1>f
      <3>3. front \o last \in Seq(OfficialEvent)
            /\ Entries(front \o last) = Entries(front) \cup Entries(last)
        BY <3>2, EntriesJoined
      <3>. QED
        BY <3>1, <3>2, <3>3
    <2>. QED
      BY <2>2, <2>3, <2>4, <2>5, <2>6, <2>7
  \* The pages it comes from.
  <1>8. /\ rawList \in Seq(RawPage)
        /\ [uri |-> Mof!Csv, content |-> Mof!History(t), knownAt |-> t] \in Entries(rawList)
        /\ \A m \in W : [uri |-> Mof!Page(m), content |-> {Mof!MonthlyAmount(m)}, knownAt |-> t]
                          \in Entries(rawList)
    <2>1. [uri |-> Mof!Csv, content |-> Mof!History(t), knownAt |-> t] \in RawPage
      <3>1. Mof!History(t) \subseteq DayRow
        BY <1>3 DEF Mof!History, DayRow
      <3>. QED
        BY <3>1, <1>3 DEF RawPage, Address
    <2>2. \A m \in W :
            [uri |-> Mof!Page(m), content |-> {Mof!MonthlyAmount(m)}, knownAt |-> t] \in RawPage
      <3> SUFFICES ASSUME NEW m \in W
                   PROVE  [uri |-> Mof!Page(m), content |-> {Mof!MonthlyAmount(m)}, knownAt |-> t]
                            \in RawPage
        OBVIOUS
      <3>1. m \in Monthly
        BY <1>b DEF Mof!Wanted
      <3>2. Mof!MonthlyAmount(m) \in MonthRow /\ Mof!Page(m) \in Address
        BY <3>1 DEF Mof!MonthlyAmount, MonthRow, Address
      <3>. QED
        BY <3>2, <1>3 DEF RawPage
    <2>3. csv \in Seq(RawPage) /\ Entries(csv) = {csv[1]}
      BY <2>1, <1>d DEF Entries
    <2>4. pagesRaw \in [1 .. l -> RawPage]
      BY <2>2, <1>5, <1>d
    <2>5. pagesRaw \in Seq(RawPage) /\ Entries(pagesRaw) = {pagesRaw[k] : k \in 1 .. l}
      BY <2>4, <1>5, EntriesListed
    <2>6. rawList \in Seq(RawPage) /\ Entries(rawList) = Entries(csv) \cup Entries(pagesRaw)
      BY <2>3, <2>5, <1>f, EntriesJoined
    <2>7. csv[1] = [uri |-> Mof!Csv, content |-> Mof!History(t), knownAt |-> t]
      BY <1>d
    <2>8. \A m \in W : [uri |-> Mof!Page(m), content |-> {Mof!MonthlyAmount(m)}, knownAt |-> t]
                         \in {pagesRaw[k] : k \in 1 .. l}
      BY <1>5, <1>d
    <2>. QED
      BY <2>3, <2>5, <2>6, <2>7, <2>8
  <1>9. x \in Download /\ x.at = t /\ x.raws = rawList /\ x.events = eventList
    BY <1>3, <1>7, <1>8, <1>g DEF Download
  <1>10. MofTypes'
    BY <1>1, <1>2, <1>3, <1>9 DEF MofTypes
  <1>11. DownloadSound(x, raws)
    <2> SUFFICES ASSUME NEW k \in 1 .. Len(eventList)
                 PROVE  /\ DatedRight(eventList[k].id, eventList[k].fields)
                        /\ eventList[k].id # Mof!RecognitionId => ParsedFrom(rawList, eventList[k].fields)
      BY <1>9 DEF DownloadSound
    <2>a. PICK e : e = eventList[k]
      OBVIOUS
    <2>1. IsDaily(e, t) \/ IsMonthly(e, t) \/ IsRecognition(e)
      BY <1>6, <1>7, <2>a DEF Entries
    <2>2. \A r \in Entries(rawList) : \A f :
            r.uri = f.uri /\ f.content \in r.content => ParsedFrom(rawList, f)
      BY DEF Entries, ParsedFrom
    <2>3. CASE IsDaily(e, t)
      <3>1. DatedRight(e.id, e.fields)
        BY <2>3 DEF IsDaily, DatedRight, Mof!DailyId
      <3>2. e.fields.uri = Mof!Csv /\ e.fields.content \in Mof!History(t)
        BY <2>3 DEF IsDaily
      <3>3. ParsedFrom(rawList, e.fields)
        BY <1>8, <2>2, <3>2
      <3>. QED
        BY <3>1, <3>3, <2>a
    <2>4. CASE IsMonthly(e, t)
      <3>1. PICK m \in W : /\ e.id = Mof!MonthlyId(m) /\ e.fields.uri = Mof!Page(m)
                           /\ e.fields.content = Mof!MonthlyAmount(m)
        BY <2>4, <1>b DEF IsMonthly
      <3>2. DatedRight(e.id, e.fields)
        BY <3>1 DEF DatedRight, Mof!DailyId, Mof!MonthlyId
      <3>3. ParsedFrom(rawList, e.fields)
        BY <1>8, <2>2, <3>1
      <3>. QED
        BY <3>2, <3>3, <2>a
    <2>5. CASE IsRecognition(e)
      <3>1. DatedRight(e.id, e.fields) /\ e.id = Mof!RecognitionId
        BY <2>5 DEF IsRecognition, DatedRight, Mof!DailyId, Mof!RecognitionId
      <3>. QED
        BY <3>1, <2>a
    <2>. QED
      BY <2>1, <2>3, <2>4, <2>5
  <1>12. DownloadCovers(x, official)
    <2> SUFFICES ASSUME NEW i \in Due(t)
                 PROVE  \E k \in 1 .. Len(eventList) : eventList[k].id = i
      BY <1>9 DEF DownloadCovers
    <2>1. \/ i = Mof!RecognitionId
          \/ \E d \in D : i = Mof!DailyId(d)
          \/ \E m \in W : i = Mof!MonthlyId(m)
      BY <1>b DEF Due, Mof!Wanted
    <2>2. \E e \in Entries(eventList) : e.id = i
      <3>1. Mof!Recognition.id = Mof!RecognitionId
        BY DEF Mof!Recognition
      <3>2. \A d : Mof!DailyEvent(d, t).id = Mof!DailyId(d)
        BY DEF Mof!DailyEvent
      <3>3. \A m : Mof!MonthlyEvent(m).id = Mof!MonthlyId(m)
        BY DEF Mof!MonthlyEvent
      <3>. QED
        BY <1>7, <2>1, <3>1, <3>2, <3>3
    <2>. QED
      BY <2>2 DEF Entries
  <1>13. \A q \in Collectors :
           DownloadSound(downloading'[q], raws') /\ DownloadCovers(downloading'[q], official')
    <2> SUFFICES ASSUME NEW q \in Collectors
                 PROVE  DownloadSound(downloading'[q], raws) /\ DownloadCovers(downloading'[q], official)
      BY <1>1
    <2>1. CASE q # p
      BY <2>1, <1>1, <1>2, <1>3
    <2>2. CASE q = p
      BY <2>2, <1>1, <1>3, <1>11, <1>12
    <2>. QED
      BY <2>1, <2>2
  <1>. QED
    BY <1>1, <1>2, <1>10, <1>13 DEF MofInv

LEMMA MofNext ==
  ASSUME OfficialGiven, MofInv, [Mof!Next]_Mof!vars
  PROVE  MofInv'
  <1>1. CASE UNCHANGED Mof!vars
    BY <1>1 DEF MofInv, MofTypes, Mof!vars
  <1>2. CASE Mof!Wait \/ Mof!Verify \/ \E d \in Days : Mof!Amend(d)
    BY <1>2, MofWait
  <1>3. ASSUME NEW p \in Collectors, Mof!Collect(p)
        PROVE  MofInv'
    BY <1>3, MofCollect
  <1>4. ASSUME NEW p \in Collectors, Mof!ArchiveRaw(p)
        PROVE  MofInv'
    BY <1>4, MofArchive
  <1>5. ASSUME NEW p \in Collectors, Mof!InsertEvent(p)
        PROVE  MofInv'
    BY <1>5, MofInsert
  <1>6. ASSUME NEW p \in Collectors, Mof!Finish(p) \/ Mof!Stop(p)
        PROVE  MofInv'
    BY <1>6, MofEnd
  <1>. QED
    BY <1>1, <1>2, <1>3, <1>4, <1>5, <1>6 DEF Mof!Next

\* Whatever days, pages, bounds and lookback, however downloads overlap, fail or
\* are killed, and whatever is amended: no official figure is stored without the
\* page it was parsed from, none is known before it was published or after its
\* bound, and a run that ends well leaves no hole inside its lookback
\* (data/intervention/collector.py).
THEOREM RecordIsTrue ==
  ASSUME OfficialGiven
  PROVE  Mof!Spec => []Mof!OfficialTrue
  <1>1. Mof!Init => MofInv
    BY MofInit
  <1>2. MofInv /\ [Mof!Next]_Mof!vars => MofInv'
    BY MofNext
  <1>3. MofInv => Mof!OfficialTrue
    BY MofTrue
  <1>. QED
    BY <1>1, <1>2, <1>3, PTL DEF Mof!Spec
=============================================================================

--------------------------- MODULE ReplayBookProofs ---------------------------
(***************************************************************************)
(* Proofs about the books of positions: the replay (ReplayBook) for any    *)
(* latency, cap, approvals, skews of the broker's clock and number of      *)
(* signals, the preflight's probe for any volumes and tries (Preflight),   *)
(* the netted account for any strategies, units and intents (NettingDesk)  *)
(* and a replay's carry for any tickets, swaps, length of day and order of *)
(* the broker's times (RolloverCarry).                                     *)
(*                                                                         *)
(* Replay: the invariant relates what the properties speak of to what is   *)
(* between two steps: the legs of a flip in flight are the whole queue and *)
(* its tickets hold the whole book (Flight), the snapshot of commands to   *)
(* fill is part of the queue (Snapshotted), and every ticket that is, or   *)
(* may still be, opened has a signal of its own (Accounted).  The other    *)
(* three have theirs before their theorems.                                *)
(***************************************************************************)
EXTENDS MCReplayBook, FoldTheorems, TLAPS

-----------------------------------------------------------------------------
(* The three books *)

\* The ledger is the sum of what the tickets hold, and each unit opened is traded
\* or held.
Agrees(P, T, L, O, R) ==
  /\ P \in [DOMAIN P -> Position] /\ DOMAIN P \subseteq DOMAIN O /\ DOMAIN O \subseteq Ticket
  /\ O \in [DOMAIN O -> Nat] /\ R \in [DOMAIN O -> Nat]
  /\ T \in Seq(Ticket) /\ IsInjective(T) /\ ToSet(T) = DOMAIN P
  /\ L \in Int /\ L = NetUnits(P, T)
  /\ \A t \in DOMAIN O : O[t] = R[t] + IF t \in DOMAIN P THEN P[t].quantity ELSE 0

LEMMA AmongIsFiltered == \A s, S : Among(s, S) = Filtered(s, S)
  BY DEF Among, Filtered

LEMMA AmongFacts ==
  ASSUME NEW X, NEW s \in Seq(X), NEW S
  PROVE  /\ Among(s, S) \in Seq(X)
         /\ ToSet(Among(s, S)) = ToSet(s) \cap S
         /\ IsInjective(s) => IsInjective(Among(s, S))
  <1>1. Among(s, S) \in Seq(X) /\ ToSet(Among(s, S)) = ToSet(s) \cap S
    BY FilterFacts, AmongIsFiltered
  <1>2. ASSUME IsInjective(s)
        PROVE  IsInjective(Among(s, S))
    <2>1. \A i, j \in 1 .. Len(s) : s[i] = s[j] => i = j
      BY <1>2 DEF IsInjective
    <2>2. \A i, j \in 1 .. Len(Filtered(s, S)) : Filtered(s, S)[i] = Filtered(s, S)[j] => i = j
      BY <2>1, FilterInjective
    <2>3. DOMAIN Among(s, S) = 1 .. Len(Among(s, S))
      BY <1>1
    <2>. QED
      BY <2>2, <2>3, AmongIsFiltered DEF IsInjective
  <1>. QED
    BY <1>1, <1>2

\* What each ticket weighs in a book.
Weight(P) ==
  [t \in Ticket |-> IF t \in DOMAIN P THEN Signed(P[t].direction, P[t].quantity) ELSE 0]

LEMMA SignedFacts ==
  ASSUME NEW direction, NEW q \in Nat
  PROVE  /\ Signed(direction, q) \in Int
         /\ direction = "LONG" => Signed(direction, q) = q
         /\ direction # "LONG" => Signed(direction, q) = -q
         /\ \A r \in Nat : Signed(direction, q) - Signed(direction, r) = Signed(direction, q - r)
  BY DEF Signed

LEMMA WeightType ==
  ASSUME NEW P, P \in [DOMAIN P -> Position]
  PROVE  Weight(P) \in [Ticket -> Int]
  <1>1. \A t \in DOMAIN P : P[t].quantity \in Nat
    BY DEF Position
  <1>2. \A t \in DOMAIN P : Signed(P[t].direction, P[t].quantity) \in Int
    BY <1>1, SignedFacts
  <1>. QED
    BY <1>2 DEF Weight

LEMMA UnitsAreWeights ==
  ASSUME NEW P, NEW T \in Seq(Ticket), ToSet(T) \subseteq DOMAIN P
  PROVE  NetUnits(P, T) = Summed(Weights(Weight(P), T))
  <1>1. \A i \in DOMAIN T : T[i] \in Ticket /\ T[i] \in DOMAIN P
    BY DEF ToSet
  <1>2. Weights(Weight(P), T) =
          [i \in DOMAIN T |-> Signed(P[T[i]].direction, P[T[i]].quantity)]
    BY <1>1 DEF Weights, Weight
  <1>. QED
    BY <1>2, Zenon DEF NetUnits, Summed

\* Two books that hold the same of some tickets weigh the same on them.
LEMMA SameWeights ==
  ASSUME NEW P, NEW Q, NEW T \in Seq(Ticket),
         \A i \in DOMAIN T : Weight(P)[T[i]] = Weight(Q)[T[i]]
  PROVE  Summed(Weights(Weight(P), T)) = Summed(Weights(Weight(Q), T))
  <1>1. Weights(Weight(P), T) = Weights(Weight(Q), T)
    BY DEF Weights
  <1>. QED
    BY <1>1

\* The weight of a ticket and of the others.
LEMMA WeightApart ==
  ASSUME NEW w \in [Ticket -> Int], NEW T \in Seq(Ticket), IsInjective(T), NEW t \in ToSet(T)
  PROVE  Summed(Weights(w, T)) = w[t] + Summed(Weights(w, Among(T, Ticket \ {t})))
  <1>1. \A i, j \in 1 .. Len(T) : T[i] = T[j] => i = j
    BY DEF IsInjective
  <1>2. Among(T, {t}) = <<t>>
    BY <1>1, FilterOne, AmongIsFiltered
  <1>3. t \in Ticket /\ w[t] \in Int
    BY DEF ToSet
  <1>4. Summed(Weights(w, <<t>>)) = w[t]
    <2>1. Summed(Weights(w, Append(<<>>, t))) = Summed(Weights(w, <<>>)) + w[t]
      <3>1. <<>> \in Seq(Ticket)
        OBVIOUS
      <3>. QED
        BY <1>3, <3>1, WeightsAppend
    <2>2. Weights(w, <<>>) = <<>> /\ Append(<<>>, t) = <<t>>
      BY DEF Weights
    <2>. QED
      BY <1>3, <2>1, <2>2, SumEmpty
  <1>5. Summed(Weights(w, T)) = Summed(Weights(w, Filtered(T, {t})))
                                + Summed(Weights(w, Filtered(T, Ticket \ {t})))
    BY FilteredSums
  <1>. QED
    BY <1>2, <1>4, <1>5, AmongIsFiltered

LEMMA WeighsInt ==
  ASSUME NEW w \in [Ticket -> Int], NEW T \in Seq(Ticket)
  PROVE  Summed(Weights(w, T)) \in Int
  <1> DEFINE r == Weights(w, T)
  <1>1. r \in Seq(Int)
    BY WeightsType
  <1> HIDE DEF r
  <1>2. \A i \in 1 .. Len(r) : r[i] <= r[i]
    BY <1>1
  <1>3. Summed(r) \in Int
    BY <1>1, <1>2, SumMonotone
  <1>. QED
    BY <1>3 DEF r

LEMMA EmptyAgrees == Agrees(EmptyBook, <<>>, 0, EmptyBook, EmptyBook)
  <1>1. DOMAIN EmptyBook = {} /\ EmptyBook \in [{} -> Position] /\ EmptyBook \in [{} -> Nat]
    BY DEF EmptyBook
  <1>2. <<>> \in Seq(Ticket) /\ ToSet(<<>>) = {} /\ IsInjective(<<>>) /\ DOMAIN <<>> = {}
    BY DEF ToSet, IsInjective
  <1>3. NetUnits(EmptyBook, <<>>) = 0
    <2>1. Weights(Weight(EmptyBook), <<>>) = <<>>
      BY DEF Weights
    <2>. QED
      BY <1>1, <1>2, <2>1, UnitsAreWeights, SumEmpty
  <1>. QED
    BY <1>1, <1>2, <1>3 DEF Agrees

\* A fill of an entry opens a ticket.
LEMMA OpenAgrees ==
  ASSUME NEW P, NEW T, NEW L, NEW O, NEW R, Agrees(P, T, L, O, R),
         NEW t \in Ticket, t \notin DOMAIN O, NEW position \in Position
  PROVE  Agrees(With(P, t, position), Append(T, t),
                L + Signed(position.direction, position.quantity),
                With(O, t, position.quantity), With(R, t, 0))
  <1> DEFINE P2 == With(P, t, position)
             O2 == With(O, t, position.quantity)
             R2 == With(R, t, 0)
             T2 == Append(T, t)
  <1>1. /\ P \in [DOMAIN P -> Position] /\ DOMAIN P \subseteq DOMAIN O /\ DOMAIN O \subseteq Ticket
        /\ O \in [DOMAIN O -> Nat] /\ R \in [DOMAIN O -> Nat]
        /\ T \in Seq(Ticket) /\ IsInjective(T) /\ ToSet(T) = DOMAIN P
        /\ L \in Int /\ L = NetUnits(P, T)
        /\ \A u \in DOMAIN O : O[u] = R[u] + IF u \in DOMAIN P THEN P[u].quantity ELSE 0
    BY DEF Agrees
  <1>2. position.quantity \in Nat /\ position.quantity >= 1
    BY DEF Position
  <1>3. /\ DOMAIN P2 = DOMAIN P \cup {t} /\ DOMAIN O2 = DOMAIN O \cup {t}
        /\ DOMAIN R2 = DOMAIN R \cup {t} /\ DOMAIN R = DOMAIN O
    BY <1>1 DEF With
  <1>4. P2[t] = position /\ \A u \in DOMAIN P : P2[u] = P[u]
    BY <1>1 DEF With
  <1>5. P2 \in [DOMAIN P2 -> Position]
    BY <1>1 DEF With
  <1>6. O2 \in [DOMAIN O2 -> Nat] /\ R2 \in [DOMAIN O2 -> Nat]
    BY <1>1, <1>2 DEF With
  <1>7. /\ T2 \in Seq(Ticket) /\ Len(T2) = Len(T) + 1 /\ Len(T) \in Nat
        /\ T2[Len(T) + 1] = t /\ \A i \in 1 .. Len(T) : T2[i] = T[i]
        /\ DOMAIN T2 = 1 .. Len(T) + 1 /\ DOMAIN T = 1 .. Len(T)
    BY <1>1
  <1>8. t \notin ToSet(T)
    BY <1>1
  <1> HIDE DEF T2
  <1>9. IsInjective(T2)
    <2>1. ASSUME NEW i \in DOMAIN T2, NEW j \in DOMAIN T2, T2[i] = T2[j]
          PROVE  i = j
      <3>1. CASE i \in 1 .. Len(T) /\ j \in 1 .. Len(T)
        BY <1>1, <1>7, <2>1, <3>1 DEF IsInjective
      <3>2. CASE i = Len(T) + 1 /\ j \in 1 .. Len(T)
        <4>1. T[j] = t
          BY <1>7, <2>1, <3>2
        <4>. QED
          BY <1>7, <1>8, <3>2, <4>1 DEF ToSet
      <3>3. CASE j = Len(T) + 1 /\ i \in 1 .. Len(T)
        <4>1. T[i] = t
          BY <1>7, <2>1, <3>3
        <4>. QED
          BY <1>7, <1>8, <3>3, <4>1 DEF ToSet
      <3>4. i \in 1 .. Len(T) \/ i = Len(T) + 1
        BY <1>7
      <3>5. j \in 1 .. Len(T) \/ j = Len(T) + 1
        BY <1>7
      <3>. QED
        BY <3>1, <3>2, <3>3, <3>4, <3>5
    <2>. QED
      BY <2>1 DEF IsInjective
  <1>10. ToSet(T2) = DOMAIN P2
    <2>1. \A i \in DOMAIN T2 : T2[i] \in DOMAIN P2
      <3>1. \A i \in 1 .. Len(T) : T2[i] \in ToSet(T)
        BY <1>7 DEF ToSet
      <3>. QED
        BY <1>1, <1>3, <1>7, <3>1
    <2>2. ASSUME NEW u \in DOMAIN P2
          PROVE  \E i \in DOMAIN T2 : T2[i] = u
      <3>1. CASE u = t
        BY <1>7, <3>1
      <3>2. CASE u # t
        <4>1. u \in ToSet(T)
          BY <1>1, <1>3, <3>2
        <4>2. PICK i \in DOMAIN T : T[i] = u
          BY <4>1 DEF ToSet
        <4>. QED
          BY <1>7, <4>2
      <3>. QED
        BY <3>1, <3>2
    <2>. QED
      BY <2>1, <2>2 DEF ToSet
  <1>11. Signed(position.direction, position.quantity) \in Int
    BY <1>2, SignedFacts
  <1>12. L + Signed(position.direction, position.quantity) = NetUnits(P2, T2)
    <2>1. NetUnits(P2, T2) = Summed(Weights(Weight(P2), T2))
      BY <1>7, <1>10, UnitsAreWeights
    <2>2. Summed(Weights(Weight(P2), T2)) = Summed(Weights(Weight(P2), T)) + Weight(P2)[t]
      BY <1>1, <1>5, WeightType, WeightsAppend DEF T2
    <2>3. Weight(P2)[t] = Signed(position.direction, position.quantity)
      BY <1>3, <1>4 DEF Weight
    <2>4. Summed(Weights(Weight(P2), T)) = Summed(Weights(Weight(P), T))
      <3>1. ASSUME NEW i \in DOMAIN T
            PROVE  Weight(P2)[T[i]] = Weight(P)[T[i]]
        <4>1. T[i] \in DOMAIN P /\ T[i] \in Ticket
          BY <1>1 DEF ToSet
        <4>. QED
          BY <1>3, <1>4, <4>1 DEF Weight
      <3>. QED
        BY <1>1, <3>1, SameWeights
    <2>5. L = Summed(Weights(Weight(P), T))
      BY <1>1, UnitsAreWeights
    <2>. QED
      BY <2>1, <2>2, <2>3, <2>4, <2>5
  <1>13. ASSUME NEW u \in DOMAIN O2
         PROVE  O2[u] = R2[u] + IF u \in DOMAIN P2 THEN P2[u].quantity ELSE 0
    <2>1. CASE u = t
      BY <1>2, <1>3, <1>4, <2>1 DEF With
    <2>2. CASE u # t
      <3>1. u \in DOMAIN O /\ O2[u] = O[u] /\ R2[u] = R[u]
        BY <1>3, <2>2 DEF With
      <3>2. u \in DOMAIN P2 <=> u \in DOMAIN P
        BY <1>3, <2>2
      <3>. QED
        BY <1>1, <1>4, <3>1, <3>2
    <2>. QED
      BY <2>1, <2>2
  <1>14. DOMAIN P2 \subseteq DOMAIN O2 /\ DOMAIN O2 \subseteq Ticket
    BY <1>1, <1>3
  <1>15. L + Signed(position.direction, position.quantity) \in Int
    BY <1>1, <1>11
  <1> HIDE DEF P2, O2, R2
  <1>16. Agrees(P2, T2, L + Signed(position.direction, position.quantity), O2, R2)
    BY <1>5, <1>6, <1>7, <1>9, <1>10, <1>12, <1>13, <1>14, <1>15 DEF Agrees
  <1>. QED
    BY <1>16 DEF P2, O2, R2, T2

\* A fill of an exit closes a ticket, or takes units from it.
LEMMA CloseAgrees ==
  ASSUME NEW P, NEW T, NEW L, NEW O, NEW R, Agrees(P, T, L, O, R),
         NEW t \in DOMAIN P, NEW q \in 1 .. P[t].quantity
  PROVE  Agrees(IF q = P[t].quantity THEN Without(P, {t})
                ELSE With(P, t, [P[t] EXCEPT !.quantity = @ - q]),
                IF q = P[t].quantity THEN Among(T, Ticket \ {t}) ELSE T,
                L - Signed(P[t].direction, q), O, With(R, t, R[t] + q))
  <1> DEFINE whole == q = P[t].quantity
             rest == [P[t] EXCEPT !.quantity = @ - q]
             P2 == IF whole THEN Without(P, {t}) ELSE With(P, t, rest)
             T2 == IF whole THEN Among(T, Ticket \ {t}) ELSE T
             R2 == With(R, t, R[t] + q)
             others == Among(T, Ticket \ {t})
  <1>1. /\ P \in [DOMAIN P -> Position] /\ DOMAIN P \subseteq DOMAIN O /\ DOMAIN O \subseteq Ticket
        /\ O \in [DOMAIN O -> Nat] /\ R \in [DOMAIN O -> Nat]
        /\ T \in Seq(Ticket) /\ IsInjective(T) /\ ToSet(T) = DOMAIN P
        /\ L \in Int /\ L = NetUnits(P, T)
        /\ \A u \in DOMAIN O : O[u] = R[u] + IF u \in DOMAIN P THEN P[u].quantity ELSE 0
    BY DEF Agrees
  <1>2. /\ P[t] \in Position /\ P[t].quantity \in Nat /\ q \in Nat /\ q >= 1
        /\ q <= P[t].quantity /\ t \in DOMAIN O /\ t \in Ticket /\ R[t] \in Nat
    BY <1>1 DEF Position
  <1>3. ~whole => /\ rest \in Position /\ rest.direction = P[t].direction
                  /\ rest.quantity = P[t].quantity - q
    BY <1>2 DEF Position
  <1>4. /\ DOMAIN R2 = DOMAIN O /\ R2 \in [DOMAIN O -> Nat]
        /\ R2[t] = R[t] + q /\ \A u \in DOMAIN O : u # t => R2[u] = R[u]
    <2>1. R[t] + q \in Nat /\ DOMAIN R = DOMAIN O
      BY <1>1, <1>2
    <2>. QED
      BY <1>1, <1>2, <2>1 DEF With
  <1>5. /\ others \in Seq(Ticket) /\ ToSet(others) = DOMAIN P \ {t} /\ IsInjective(others)
    BY <1>1, AmongFacts
  <1> HIDE DEF others, R2, rest
  <1>6. Summed(Weights(Weight(P), T)) = Weight(P)[t] + Summed(Weights(Weight(P), others))
    BY <1>1, WeightType, WeightApart DEF others
  <1>7. /\ Weight(P)[t] = Signed(P[t].direction, P[t].quantity)
        /\ L = Summed(Weights(Weight(P), T))
    BY <1>1, <1>2, UnitsAreWeights DEF Weight
  <1>8. Summed(Weights(Weight(P), others)) \in Int
    BY <1>1, <1>5, WeightType, WeighsInt
  <1>9. /\ Signed(P[t].direction, P[t].quantity) \in Int /\ Signed(P[t].direction, q) \in Int
        /\ Signed(P[t].direction, P[t].quantity) - Signed(P[t].direction, q)
             = Signed(P[t].direction, P[t].quantity - q)
    BY <1>2, SignedFacts
  <1>10. L - Signed(P[t].direction, q) \in Int
    BY <1>1, <1>9
  <1>11. CASE whole
    <2>1. /\ DOMAIN P2 = DOMAIN P \ {t} /\ P2 \in [DOMAIN P2 -> Position]
          /\ \A u \in DOMAIN P2 : P2[u] = P[u]
      BY <1>1, <1>11 DEF Without
    <2>2. T2 = others
      BY <1>11 DEF others
    <2> HIDE DEF P2, T2
    <2>3. L - Signed(P[t].direction, q) = NetUnits(P2, T2)
      <3>1. \A i \in DOMAIN others : Weight(P2)[others[i]] = Weight(P)[others[i]]
        <4>1. \A i \in DOMAIN others : others[i] \in DOMAIN P \ {t} /\ others[i] \in Ticket
          BY <1>5 DEF ToSet
        <4>. QED
          BY <2>1, <4>1 DEF Weight
      <3>2. Summed(Weights(Weight(P2), others)) = Summed(Weights(Weight(P), others))
        BY <1>5, <3>1, SameWeights
      <3>3. NetUnits(P2, others) = Summed(Weights(Weight(P2), others))
        BY <1>5, <2>1, UnitsAreWeights
      <3>4. L = Signed(P[t].direction, q) + Summed(Weights(Weight(P), others))
        BY <1>6, <1>7, <1>11
      <3>. QED
        BY <1>8, <1>9, <2>2, <3>2, <3>3, <3>4
    <2>4. ASSUME NEW u \in DOMAIN O
          PROVE  O[u] = R2[u] + IF u \in DOMAIN P2 THEN P2[u].quantity ELSE 0
      <3>1. CASE u = t
        BY <1>1, <1>2, <1>4, <1>11, <2>1, <3>1
      <3>2. CASE u # t
        BY <1>1, <1>4, <2>1, <3>2
      <3>. QED
        BY <3>1, <3>2
    <2>5. Agrees(P2, T2, L - Signed(P[t].direction, q), O, R2)
      BY <1>1, <1>4, <1>5, <1>10, <2>1, <2>2, <2>3, <2>4 DEF Agrees
    <2>. QED
      BY <2>5 DEF P2, T2, R2, rest
  <1>12. CASE ~whole
    <2>1. /\ DOMAIN P2 = DOMAIN P /\ P2[t] = rest /\ \A u \in DOMAIN P : u # t => P2[u] = P[u]
          /\ P2 \in [DOMAIN P2 -> Position]
      BY <1>1, <1>2, <1>3, <1>12 DEF With
    <2>2. T2 = T
      BY <1>12
    <2>3. rest.direction = P[t].direction /\ rest.quantity = P[t].quantity - q
      BY <1>3, <1>12
    <2> HIDE DEF P2, T2
    <2>4. L - Signed(P[t].direction, q) = NetUnits(P2, T2)
      <3>1. \A i \in DOMAIN others : Weight(P2)[others[i]] = Weight(P)[others[i]]
        <4>1. \A i \in DOMAIN others : others[i] \in DOMAIN P \ {t} /\ others[i] \in Ticket
          BY <1>5 DEF ToSet
        <4>. QED
          BY <2>1, <4>1 DEF Weight
      <3>2. Summed(Weights(Weight(P2), others)) = Summed(Weights(Weight(P), others))
        BY <1>5, <3>1, SameWeights
      <3>3. NetUnits(P2, T) = Summed(Weights(Weight(P2), T))
        BY <1>1, <2>1, UnitsAreWeights
      <3>4. Summed(Weights(Weight(P2), T)) = Weight(P2)[t] + Summed(Weights(Weight(P2), others))
        <4>1. Weight(P2) \in [Ticket -> Int]
          BY <2>1, WeightType
        <4>2. t \in ToSet(T)
          BY <1>1
        <4>. QED
          BY <1>1, <4>1, <4>2, WeightApart DEF others
      <3>5. Weight(P2)[t] = Signed(P[t].direction, P[t].quantity - q)
        BY <1>2, <2>1, <2>3 DEF Weight
      <3>. QED
        BY <1>6, <1>7, <1>8, <1>9, <2>2, <3>2, <3>3, <3>4, <3>5
    <2>5. ASSUME NEW u \in DOMAIN O
          PROVE  O[u] = R2[u] + IF u \in DOMAIN P2 THEN P2[u].quantity ELSE 0
      <3>1. CASE u = t
        BY <1>1, <1>2, <1>4, <2>1, <2>3, <3>1
      <3>2. CASE u # t
        BY <1>1, <1>4, <2>1, <3>2
      <3>. QED
        BY <3>1, <3>2
    <2>6. Agrees(P2, T2, L - Signed(P[t].direction, q), O, R2)
      BY <1>1, <1>4, <1>10, <2>1, <2>2, <2>4, <2>5 DEF Agrees
    <2>. QED
      BY <2>6 DEF P2, T2, R2, rest
  <1>. QED
    BY <1>11, <1>12

\* Protection closes the tickets of a set at once.
LEMMA ProtectAgrees ==
  ASSUME NEW P, NEW T, NEW L, NEW O, NEW R, Agrees(P, T, L, O, R), NEW S \in SUBSET DOMAIN P
  PROVE  Agrees(Without(P, S), Among(T, Ticket \ S), L - NetUnits(P, Among(T, S)), O,
                [t \in DOMAIN R |-> R[t] + IF t \in S THEN P[t].quantity ELSE 0])
  <1> DEFINE P2 == Without(P, S)
             R2 == [t \in DOMAIN R |-> R[t] + IF t \in S THEN P[t].quantity ELSE 0]
             kept == Among(T, Ticket \ S)
             gone == Among(T, S)
  <1>1. /\ P \in [DOMAIN P -> Position] /\ DOMAIN P \subseteq DOMAIN O /\ DOMAIN O \subseteq Ticket
        /\ O \in [DOMAIN O -> Nat] /\ R \in [DOMAIN O -> Nat]
        /\ T \in Seq(Ticket) /\ IsInjective(T) /\ ToSet(T) = DOMAIN P
        /\ L \in Int /\ L = NetUnits(P, T)
        /\ \A u \in DOMAIN O : O[u] = R[u] + IF u \in DOMAIN P THEN P[u].quantity ELSE 0
    BY DEF Agrees
  <1>2. \A t \in DOMAIN P : P[t].quantity \in Nat
    BY <1>1 DEF Position
  <1>3. /\ DOMAIN P2 = DOMAIN P \ S /\ P2 \in [DOMAIN P2 -> Position]
        /\ \A u \in DOMAIN P2 : P2[u] = P[u]
    BY <1>1 DEF Without
  <1>4. R2 \in [DOMAIN O -> Nat]
    <2>1. ASSUME NEW t \in DOMAIN R
          PROVE  R[t] + (IF t \in S THEN P[t].quantity ELSE 0) \in Nat
      BY <1>1, <1>2
    <2>. QED
      BY <1>1, <2>1
  <1>5. /\ kept \in Seq(Ticket) /\ IsInjective(kept) /\ ToSet(kept) = DOMAIN P \ S
        /\ gone \in Seq(Ticket) /\ ToSet(gone) = S
    <2>1. /\ kept \in Seq(Ticket) /\ ToSet(kept) = ToSet(T) \cap (Ticket \ S)
          /\ IsInjective(kept)
      BY <1>1, AmongFacts
    <2>2. gone \in Seq(Ticket) /\ ToSet(gone) = ToSet(T) \cap S
      BY <1>1, AmongFacts
    <2> HIDE DEF kept, gone
    <2>. QED
      BY <1>1, <2>1, <2>2
  <1>6. Summed(Weights(Weight(P), T))
          = Summed(Weights(Weight(P), gone)) + Summed(Weights(Weight(P), kept))
    BY <1>1, WeightType, FilteredSums, AmongIsFiltered
  <1> HIDE DEF kept, gone, P2
  <1>7. L = Summed(Weights(Weight(P), T)) /\ NetUnits(P, gone) = Summed(Weights(Weight(P), gone))
    BY <1>1, <1>5, UnitsAreWeights
  <1>8. NetUnits(P2, kept) = Summed(Weights(Weight(P2), kept))
    BY <1>3, <1>5, UnitsAreWeights
  <1>9. Summed(Weights(Weight(P2), kept)) = Summed(Weights(Weight(P), kept))
    <2>1. \A i \in DOMAIN kept : kept[i] \in DOMAIN P \ S /\ kept[i] \in Ticket
      BY <1>5 DEF ToSet
    <2>2. \A i \in DOMAIN kept : Weight(P2)[kept[i]] = Weight(P)[kept[i]]
      BY <1>3, <2>1 DEF Weight
    <2>. QED
      BY <1>5, <2>2, SameWeights
  <1>10. /\ Summed(Weights(Weight(P), gone)) \in Int /\ Summed(Weights(Weight(P), kept)) \in Int
    BY <1>1, <1>5, WeightType, WeighsInt
  <1>11. L - NetUnits(P, gone) \in Int /\ L - NetUnits(P, gone) = NetUnits(P2, kept)
    BY <1>1, <1>6, <1>7, <1>8, <1>9, <1>10
  <1>12. ASSUME NEW u \in DOMAIN O
         PROVE  O[u] = R2[u] + IF u \in DOMAIN P2 THEN P2[u].quantity ELSE 0
    <2>1. R2[u] = R[u] + IF u \in S THEN P[u].quantity ELSE 0
      BY <1>1
    <2>2. R[u] \in Nat /\ O[u] = R[u] + IF u \in DOMAIN P THEN P[u].quantity ELSE 0
      BY <1>1
    <2> HIDE DEF R2
    <2>3. CASE u \in S
      BY <1>2, <1>3, <2>1, <2>2, <2>3
    <2>4. CASE u \notin S /\ u \in DOMAIN P
      BY <1>2, <1>3, <2>1, <2>2, <2>4
    <2>5. CASE u \notin DOMAIN P
      BY <1>3, <2>1, <2>2, <2>5
    <2>. QED
      BY <2>3, <2>4, <2>5
  <1> HIDE DEF R2
  <1>13. Agrees(P2, kept, L - NetUnits(P, gone), O, R2)
    BY <1>1, <1>3, <1>4, <1>5, <1>11, <1>12 DEF Agrees
  <1>. QED
    BY <1>13 DEF P2, kept, gone, R2

\* The ledger has the side of the tickets, and is zero only without any.
LEMMA LedgerSide ==
  ASSUME NEW P, NEW T, NEW L, NEW O, NEW R, Agrees(P, T, L, O, R),
         \A t, u \in DOMAIN P : P[t].direction = P[u].direction
  PROVE  /\ DOMAIN P = {} => L = 0
         /\ \A t \in DOMAIN P : IF P[t].direction = "LONG" THEN L > 0 ELSE L < 0
  <1>1. /\ P \in [DOMAIN P -> Position] /\ DOMAIN P \subseteq Ticket
        /\ T \in Seq(Ticket) /\ ToSet(T) = DOMAIN P /\ L \in Int /\ L = NetUnits(P, T)
    BY DEF Agrees
  <1> DEFINE w == Weights(Weight(P), T)
  <1>2. /\ w \in Seq(Int) /\ Len(w) = Len(T) /\ Len(T) \in Nat /\ DOMAIN T = 1 .. Len(T)
        /\ \A i \in 1 .. Len(w) : w[i] = Weight(P)[T[i]]
    BY <1>1, WeightType, WeightsType
  <1>3. L = Summed(w)
    BY <1>1, UnitsAreWeights
  <1>4. \A i \in 1 .. Len(w) : w[i] = Signed(P[T[i]].direction, P[T[i]].quantity)
                               /\ T[i] \in DOMAIN P
    <2>1. \A i \in 1 .. Len(w) : T[i] \in DOMAIN P /\ T[i] \in Ticket
      BY <1>1, <1>2 DEF ToSet
    <2>. QED
      BY <1>2, <2>1 DEF Weight
  <1>5. \A t \in DOMAIN P : P[t].quantity \in Nat /\ P[t].quantity >= 1
    BY <1>1 DEF Position
  <1> HIDE DEF w
  <1>6. ASSUME DOMAIN P = {}
        PROVE  L = 0
    <2>1. \A i \in 1 .. Len(w) : w[i] = 0
      BY <1>4, <1>6
    <2>. QED
      BY <1>2, <1>3, <2>1, SumZero
  <1>7. ASSUME NEW t \in DOMAIN P
        PROVE  IF P[t].direction = "LONG" THEN L > 0 ELSE L < 0
    <2>1. Len(w) >= 1
      <3>1. PICK i \in DOMAIN T : T[i] = t
        BY <1>1 DEF ToSet
      <3>. QED
        BY <1>2, <3>1
    <2>2. CASE P[t].direction = "LONG"
      <3>1. ASSUME NEW i \in 1 .. Len(w)
            PROVE  w[i] >= 1
        <4>1. P[T[i]].direction = "LONG" /\ T[i] \in DOMAIN P
          BY <1>4, <2>2
        <4>2. w[i] = P[T[i]].quantity
          BY <1>4, <1>5, <4>1, SignedFacts
        <4>. QED
          BY <1>5, <4>1, <4>2
      <3>2. Summed(w) >= Len(w)
        BY <1>2, <3>1, SumSigns
      <3>. QED
        BY <1>1, <1>2, <1>3, <2>1, <2>2, <3>2
    <2>3. CASE P[t].direction # "LONG"
      <3>1. ASSUME NEW i \in 1 .. Len(w)
            PROVE  w[i] <= -1
        <4>1. P[T[i]].direction # "LONG" /\ T[i] \in DOMAIN P
          BY <1>4, <2>3
        <4>2. w[i] = -P[T[i]].quantity
          BY <1>4, <1>5, <4>1, SignedFacts
        <4>. QED
          BY <1>5, <4>1, <4>2
      <3>2. Summed(w) <= -Len(w)
        BY <1>2, <3>1, SumSigns
      <3>. QED
        BY <1>1, <1>2, <1>3, <2>1, <2>3, <3>2
    <2>. QED
      BY <2>2, <2>3
  <1>. QED
    BY <1>6, <1>7

-----------------------------------------------------------------------------
(* The queue *)

HasEntry(queue) == \E i \in DOMAIN queue : queue[i].kind = "ENTRY"

\* OneResolution of any queue.
Single(queue) ==
  \A i, j \in DOMAIN queue : i # j =>
    /\ queue[i].kind = "EXIT"
    /\ queue[i].signal = queue[j].signal
    /\ queue[i].ticket # queue[j].ticket
Orderly(queue) == queue \in Seq(Command) /\ Single(queue)

LEMMA OrderlyInjective ==
  ASSUME NEW queue, Orderly(queue)
  PROVE  IsInjective(queue)
  BY DEF Orderly, Single, IsInjective

LEMMA InjectiveLength ==
  ASSUME NEW X, NEW s \in Seq(X), IsInjective(s)
  PROVE  IsFiniteSet(ToSet(s)) /\ Cardinality(ToSet(s)) = Len(s)
  <1>1. Len(s) \in Nat /\ DOMAIN s = 1 .. Len(s)
    OBVIOUS
  <1>2. s \in Bijection(1 .. Len(s), ToSet(s))
    <2>1. s \in [1 .. Len(s) -> ToSet(s)]
      BY <1>1 DEF ToSet
    <2>2. s \in Injection(1 .. Len(s), ToSet(s))
      BY <1>1, <2>1 DEF Injection, IsInjective
    <2>3. s \in Surjection(1 .. Len(s), ToSet(s))
      BY <1>1, <2>1 DEF Surjection, ToSet
    <2>. QED
      BY <2>2, <2>3 DEF Bijection
  <1>3. ExistsBijection(1 .. Len(s), ToSet(s))
    BY <1>2 DEF ExistsBijection
  <1>4. Cardinality(ToSet(s)) = Len(s)
    BY <1>1, <1>3, FS_CountingElements
  <1>5. IsFiniteSet(ToSet(s))
    BY <1>1, <1>3, FS_NatBijection
  <1>. QED
    BY <1>4, <1>5

\* The entries of a queue are one or none.
LEMMA EntriesCounted ==
  ASSUME NEW queue, Orderly(queue)
  PROVE  /\ HasEntry(queue) => Entries(queue) = 1 /\ Len(queue) = 1
         /\ ~HasEntry(queue) => Entries(queue) = 0
  <1> DEFINE E == {i \in DOMAIN queue : queue[i].kind = "ENTRY"}
  <1>1. Entries(queue) = Cardinality(E)
    BY DEF Entries
  <1>2. queue \in Seq(Command) /\ DOMAIN queue = 1 .. Len(queue) /\ Len(queue) \in Nat
    BY DEF Orderly
  <1>3. ASSUME HasEntry(queue)
        PROVE  E = {1} /\ Len(queue) = 1
    <2>1. PICK i \in DOMAIN queue : queue[i].kind = "ENTRY"
      BY <1>3 DEF HasEntry
    <2>2. \A j \in DOMAIN queue : j = i
      BY <2>1 DEF Orderly, Single
    <2>3. DOMAIN queue = {i} /\ 1 \in DOMAIN queue
      BY <1>2, <2>1, <2>2
    <2>4. i = 1 /\ Len(queue) = 1
      BY <1>2, <2>2, <2>3
    <2>. QED
      BY <2>1, <2>3, <2>4
  <1>4. ~HasEntry(queue) => E = {}
    BY DEF HasEntry
  <1> HIDE DEF E
  <1>. QED
    BY <1>1, <1>3, <1>4, FS_EmptySet, FS_Singleton

\* A command that leaves the queue leaves the others.
LEMMA LeavingFacts ==
  ASSUME NEW queue, Orderly(queue), NEW p \in ToSet(queue)
  PROVE  LET rest == Among(queue, ToSet(queue) \ {p})
         IN  /\ Orderly(rest) /\ ToSet(rest) = ToSet(queue) \ {p}
             /\ Len(rest) = Len(queue) - 1 /\ Len(queue) \in Nat /\ Len(queue) >= 1
             /\ rest = <<>> <=> Len(queue) = 1
  <1> DEFINE rest == Among(queue, ToSet(queue) \ {p})
  <1>1. queue \in Seq(Command) /\ IsInjective(queue) /\ Len(queue) \in Nat
    BY OrderlyInjective DEF Orderly
  <1>2. rest \in Seq(Command) /\ IsInjective(rest) /\ ToSet(rest) = ToSet(queue) \cap (ToSet(queue) \ {p})
    BY <1>1, AmongFacts
  <1> HIDE DEF rest
  <1>3. ToSet(rest) = ToSet(queue) \ {p}
    BY <1>2
  <1>4. Len(rest) = Len(queue) - 1
    <2>1. IsFiniteSet(ToSet(queue)) /\ Cardinality(ToSet(queue)) = Len(queue)
      BY <1>1, InjectiveLength
    <2>2. Cardinality(ToSet(rest)) = Len(rest)
      BY <1>2, InjectiveLength
    <2>. QED
      BY <1>3, <2>1, <2>2, FS_RemoveElement
  <1>5. Single(rest)
    <2>1. ASSUME NEW i \in DOMAIN rest, NEW j \in DOMAIN rest, i # j
          PROVE  /\ rest[i].kind = "EXIT"
                 /\ rest[i].signal = rest[j].signal
                 /\ rest[i].ticket # rest[j].ticket
      <3>1. rest[i] # rest[j] /\ rest[i] \in ToSet(queue) /\ rest[j] \in ToSet(queue)
        BY <1>2, <1>3, <2>1 DEF IsInjective, ToSet
      <3>2. PICK k \in DOMAIN queue : queue[k] = rest[i]
        BY <3>1 DEF ToSet
      <3>3. PICK l \in DOMAIN queue : queue[l] = rest[j]
        BY <3>1 DEF ToSet
      <3>. QED
        BY <3>1, <3>2, <3>3 DEF Orderly, Single
    <2>. QED
      BY <2>1 DEF Single
  <1>6. Len(rest) \in Nat /\ (rest = <<>> <=> Len(rest) = 0)
    BY <1>2
  <1>7. Len(queue) >= 1
    BY <1>1, <1>4, <1>6
  <1>8. rest = <<>> <=> Len(queue) = 1
    BY <1>1, <1>4, <1>6
  <1>9. Orderly(rest)
    BY <1>2, <1>5 DEF Orderly
  <1>. QED
    BY <1>1, <1>3, <1>4, <1>7, <1>8, <1>9 DEF rest

\* What is left of a snapshot after its first command.
LEMMA TailFacts ==
  ASSUME NEW X, NEW s \in Seq(X), s # <<>>, IsInjective(s)
  PROVE  /\ Tail(s) \in Seq(X) /\ IsInjective(Tail(s))
         /\ Head(s) \in ToSet(s) /\ ToSet(Tail(s)) = ToSet(s) \ {Head(s)}
  <1>1. /\ Tail(s) \in Seq(X) /\ Len(Tail(s)) = Len(s) - 1 /\ Len(s) \in Nat /\ Len(s) >= 1
        /\ \A i \in 1 .. Len(Tail(s)) : Tail(s)[i] = s[i + 1]
        /\ Head(s) = s[1] /\ DOMAIN s = 1 .. Len(s) /\ DOMAIN Tail(s) = 1 .. Len(Tail(s))
    OBVIOUS
  <1>2. \A i \in DOMAIN Tail(s) : i + 1 \in DOMAIN s /\ i + 1 # 1 /\ Tail(s)[i] = s[i + 1] /\ i \in Nat
    BY <1>1
  <1>3. IsInjective(Tail(s))
    <2>1. ASSUME NEW i \in DOMAIN Tail(s), NEW j \in DOMAIN Tail(s), Tail(s)[i] = Tail(s)[j]
          PROVE  i = j
      <3>1. i + 1 = j + 1
        BY <1>2, <2>1 DEF IsInjective
      <3>. QED
        BY <1>2, <3>1
    <2>. QED
      BY <2>1 DEF IsInjective
  <1>4. 1 \in DOMAIN s
    BY <1>1
  <1>5. \A x \in ToSet(Tail(s)) : x \in ToSet(s) /\ x # Head(s)
    <2>1. ASSUME NEW i \in DOMAIN Tail(s)
          PROVE  Tail(s)[i] \in ToSet(s) /\ Tail(s)[i] # Head(s)
      BY <1>1, <1>2, <1>4 DEF ToSet, IsInjective
    <2>. QED
      BY <2>1 DEF ToSet
  <1>6. ASSUME NEW x \in ToSet(s), x # Head(s)
        PROVE  x \in ToSet(Tail(s))
    <2>1. PICK i \in DOMAIN s : s[i] = x
      BY <1>6 DEF ToSet
    <2>2. i # 1
      BY <1>1, <1>6, <2>1
    <2>3. i - 1 \in DOMAIN Tail(s) /\ (i - 1) + 1 = i
      BY <1>1, <2>1, <2>2
    <2>4. Tail(s)[i - 1] = x
      BY <1>2, <2>1, <2>3
    <2>. QED
      BY <2>3, <2>4 DEF ToSet
  <1>7. Head(s) \in ToSet(s)
    BY <1>1, <1>4 DEF ToSet
  <1>. QED
    BY <1>1, <1>3, <1>5, <1>6, <1>7

-----------------------------------------------------------------------------
(* The inductive invariant *)

Books == Agrees(positions, openTickets, ledger, opened, traded)

\* Held signals keep their order, those handed back before those still held.
Rising(s) == \A i, j \in DOMAIN s : i < j => s[i].id < s[j].id
Ahead(s, t) == \A i \in DOMAIN s, j \in DOMAIN t : s[i].id < t[j].id
Known(s) == \A i \in DOMAIN s : s[i].id <= signals
Held ==
  /\ Rising(deferred) /\ Rising(released) /\ Ahead(deferred, released)
  /\ Known(deferred) /\ Known(released)
  /\ deferred # <<>> => pending # <<>>

\* A flip in flight waits for the whole queue, and its tickets are the book's.
Flight ==
  \A s \in DOMAIN barriers :
    /\ pending # <<>>
    /\ barriers[s].outstanding = Len(pending)
    /\ \A i \in DOMAIN pending : pending[i].kind = "EXIT" /\ pending[i].signal = s
    /\ DOMAIN positions \subseteq barriers[s].tickets

\* What is still to be filled is in the queue, and outside the fills there is
\* nothing to fill nor to release.
Snapshotted ==
  /\ ToSet(ready) \subseteq ToSet(pending) /\ IsInjective(ready)
  /\ ~FillPhase => ready = <<>> /\ released = <<>>

\* A ticket opened, an entry in the queue, a flip in flight and a signal held have
\* each a signal of their own.
One(holds) == IF holds THEN 1 ELSE 0
Claims == One(HasEntry(pending)) + One(DOMAIN barriers # {}) + Len(deferred) + Len(released)
Accounted == \E n \in Nat : DOMAIN opened = 1 .. n /\ n + Claims <= signals

BookInv ==
  /\ TypeOK /\ Books /\ Orderly(pending) /\ Held /\ NeverHedged /\ CapKept
  /\ Flight /\ Snapshotted /\ Accounted

-----------------------------------------------------------------------------
(* What a signal may do *)

EntryOf(signal, direction, quantity) ==
  [kind |-> "ENTRY", signal |-> signal, direction |-> direction, quantity |-> quantity,
   ticket |-> NoTicket, created_at |-> now]

\* A queue of one entry that the risk engine let pass.
Admitted(queue, held, signal, direction) ==
  \E quantity \in Approvable :
    /\ queue = <<EntryOf(signal, direction, quantity)>>
    /\ Cardinality(DOMAIN held) + 1 <= MaxOpen

LEMMA AdmittedFacts ==
  ASSUME NEW queue, NEW held, NEW signal \in Nat, NEW direction \in Direction, now \in Nat,
         Admitted(queue, held, signal, direction)
  PROVE  /\ Orderly(queue) /\ HasEntry(queue) /\ queue # <<>>
         /\ \A i \in DOMAIN queue : queue[i].direction = direction
  <1>1. PICK quantity \in Approvable : queue = <<EntryOf(signal, direction, quantity)>>
    BY DEF Admitted
  <1>2. EntryOf(signal, direction, quantity) \in Command
    BY ReplayAssumption DEF EntryOf, Command, NoTicket
  <1>3. queue \in Seq(Command) /\ DOMAIN queue = {1} /\ queue # <<>>
        /\ queue[1] = EntryOf(signal, direction, quantity)
    BY <1>1, <1>2
  <1>. QED
    BY <1>3 DEF Orderly, Single, HasEntry, EntryOf

LEMMA JudgedFacts ==
  ASSUME NEW held, Cardinality(DOMAIN held) \in Nat, NEW signal, NEW direction,
         NEW result \in EntryJudged(held, <<>>, signal, direction)
  PROVE  result = <<>> \/ Admitted(result, held, signal, direction)
  <1>1. Entries(<<>>) = 0
    <2>1. {i \in DOMAIN <<>> : <<>>[i].kind = "ENTRY"} = {}
      OBVIOUS
    <2>. QED
      BY <2>1, FS_EmptySet DEF Entries
  <1>2. ASSUME result # <<>>
        PROVE  Admitted(result, held, signal, direction)
    <2>1. PICK quantity \in IF WithinCap(held, <<>>) THEN Approvable ELSE {} :
            result = Append(<<>>, EntryOf(signal, direction, quantity))
      BY <1>2 DEF EntryJudged, EntryOf
    <2>2. quantity \in Approvable /\ Cardinality(DOMAIN held) + 1 <= MaxOpen
      BY <1>1, <2>1, ReplayAssumption DEF WithinCap
    <2>3. result = <<EntryOf(signal, direction, quantity)>>
      BY <2>1
    <2>. QED
      BY <2>2, <2>3 DEF Admitted
  <1>. QED
    BY <1>2

\* The book can be counted.
LEMMA BookFinite ==
  ASSUME Books
  PROVE  IsFiniteSet(DOMAIN positions) /\ Cardinality(DOMAIN positions) \in Nat
  <1>1. DOMAIN positions \in SUBSET (1 .. MaxSignals)
    BY DEF Books, Agrees, Ticket
  <1>2. IsFiniteSet(1 .. MaxSignals)
    BY ReplayAssumption, FS_Interval
  <1>3. IsFiniteSet(DOMAIN positions)
    BY <1>1, <1>2, FS_Subset
  <1>. QED
    BY <1>3, FS_CardinalityType

\* The side the ledger shows is the side of every ticket.
LEMMA HoldsFacts ==
  ASSUME Books, NeverHedged, NEW direction \in Direction
  PROVE  /\ ledger = 0 <=> DOMAIN positions = {}
         /\ Holds(direction) => \A t \in DOMAIN positions : positions[t].direction = direction
         /\ Holds(direction) => DOMAIN positions # {}
  <1>1. /\ DOMAIN positions = {} => ledger = 0
        /\ \A t \in DOMAIN positions :
             IF positions[t].direction = "LONG" THEN ledger > 0 ELSE ledger < 0
    BY LedgerSide DEF Books, NeverHedged
  <1>2. ledger \in Int /\ \A t \in DOMAIN positions : positions[t].direction \in {"LONG", "SHORT"}
    BY DEF Books, Agrees, Position, Direction
  <1>3. ledger = 0 <=> DOMAIN positions = {}
    <2>1. ASSUME NEW t \in DOMAIN positions
          PROVE  ledger # 0
      BY <1>1, <1>2
    <2>. QED
      BY <1>1, <2>1
  <1>4. ASSUME Holds(direction), NEW t \in DOMAIN positions
        PROVE  positions[t].direction = direction
    <2>1. (ledger > 0) <=> (positions[t].direction = "LONG")
      BY <1>1, <1>2
    <2>2. (ledger > 0) <=> (direction = "LONG")
      BY <1>4, <1>2 DEF Holds
    <2>. QED
      BY <1>2, <2>1, <2>2 DEF Direction
  <1>. QED
    BY <1>3, <1>4 DEF Holds

\* The legs of a close: one for each ticket of the book.
LegsOf(queue, signal) ==
  /\ Orderly(queue) /\ ~HasEntry(queue) /\ queue # <<>>
  /\ \A i \in DOMAIN queue : queue[i].kind = "EXIT" /\ queue[i].signal = signal

LEMMA LegsFacts ==
  ASSUME Books, now \in Nat, DOMAIN positions # {}, NEW signal \in Nat
  PROVE  LegsOf(Legs(signal), signal) /\ ToSet(openTickets) = DOMAIN positions
  <1>1. /\ openTickets \in Seq(Ticket) /\ IsInjective(openTickets)
        /\ ToSet(openTickets) = DOMAIN positions
        /\ \A t \in DOMAIN positions : positions[t] \in Position
    BY DEF Books, Agrees
  <1> DEFINE found == Among(openTickets, DOMAIN positions)
  <1>2. found \in Seq(Ticket) /\ IsInjective(found) /\ ToSet(found) = DOMAIN positions
    <2>1. /\ found \in Seq(Ticket) /\ ToSet(found) = ToSet(openTickets) \cap DOMAIN positions
          /\ IsInjective(found)
      BY <1>1, AmongFacts
    <2> HIDE DEF found
    <2>. QED
      BY <1>1, <2>1
  <1>3. Legs(signal) = [i \in DOMAIN found |-> ExitCommand(signal, found[i])]
    BY DEF Legs
  <1> HIDE DEF found
  <1>4. DOMAIN found = 1 .. Len(found) /\ Len(found) \in Nat /\ found # <<>>
    <2>1. found # <<>>
      BY <1>2 DEF ToSet
    <2>. QED
      BY <1>2, <2>1
  <1>5. ASSUME NEW i \in DOMAIN found
        PROVE  /\ ExitCommand(signal, found[i]) \in Command
               /\ ExitCommand(signal, found[i]).kind = "EXIT"
               /\ ExitCommand(signal, found[i]).signal = signal
               /\ ExitCommand(signal, found[i]).ticket = found[i]
    <2>1. found[i] \in DOMAIN positions /\ found[i] \in Ticket
      BY <1>2 DEF ToSet
    <2>2. positions[found[i]] \in Position /\ found[i] \in Nat
      BY <1>1, <2>1 DEF Ticket
    <2>. QED
      BY <2>2 DEF ExitCommand, Command, Position
  <1> DEFINE legs == Legs(signal)
  <1>6. /\ legs \in Seq(Command) /\ DOMAIN legs = DOMAIN found /\ legs # <<>>
        /\ \A i \in DOMAIN found : legs[i] = ExitCommand(signal, found[i])
    <2>1. \A i \in 1 .. Len(found) : ExitCommand(signal, found[i]) \in Command
      BY <1>4, <1>5
    <2>2. legs \in Seq(Command)
      BY <1>3, <1>4, <2>1
    <2>3. DOMAIN legs = DOMAIN found /\ \A i \in DOMAIN found : legs[i] = ExitCommand(signal, found[i])
      BY <1>3
    <2>4. 1 \in DOMAIN found
      BY <1>4
    <2>. QED
      BY <2>2, <2>3, <2>4
  <1> HIDE DEF legs
  <1>7. \A i \in DOMAIN legs : legs[i].kind = "EXIT" /\ legs[i].signal = signal
                               /\ legs[i].ticket = found[i]
    BY <1>5, <1>6
  <1>8. Single(legs)
    BY <1>2, <1>6, <1>7 DEF Single, IsInjective
  <1>9. ~HasEntry(legs)
    BY <1>7 DEF HasEntry
  <1>. QED
    BY <1>1, <1>6, <1>7, <1>8, <1>9 DEF LegsOf, Orderly, legs

\* A signal is held, comes to nothing, enters, or closes the book.
Processed(s) ==
  \/ pending # <<>> /\ deferred' = Append(deferred, s) /\ UNCHANGED <<pending, barriers>>
  \/ /\ pending = <<>> /\ deferred' = deferred
     /\ \/ pending' = <<>> /\ barriers' = barriers
        \/ /\ Admitted(pending', positions, s.id, s.direction) /\ barriers' = barriers
           /\ \A t \in DOMAIN positions : positions[t].direction = s.direction
        \/ /\ LegsOf(pending', s.id)
           /\ \/ barriers' = barriers
              \/ barriers' = With(barriers, s.id, [tickets |-> DOMAIN positions,
                                                   outstanding |-> Len(pending'),
                                                   follow_up |-> s.direction])

LEMMA ProcessFacts ==
  ASSUME BookInv, NEW s \in Signal, ProcessSignal(s)
  PROVE  Processed(s)
  <1>1. /\ Books /\ NeverHedged /\ now \in Nat /\ pending \in Seq(Command)
        /\ s.id \in Nat /\ s.direction \in Direction /\ s.exit_only \in BOOLEAN
    BY DEF BookInv, TypeOK, Signal
  <1>2. Cardinality(DOMAIN positions) \in Nat
    BY <1>1, BookFinite
  <1>3. CASE InFlight /\ Defer(s)
    BY <1>3 DEF InFlight, Defer, Processed
  <1>4. CASE ~InFlight /\ UNCHANGED deferred /\ Nothing(s)
    BY <1>4 DEF InFlight, Nothing, Processed
  <1>5. CASE ~InFlight /\ UNCHANGED deferred /\ Enter(s)
    <2>1. /\ pending = <<>> /\ barriers' = barriers /\ deferred' = deferred
          /\ pending' \in EntryJudged(positions, <<>>, s.id, s.direction)
          /\ ledger = 0 \/ Holds(s.direction)
      BY <1>5 DEF InFlight, Enter
    <2>2. \A t \in DOMAIN positions : positions[t].direction = s.direction
      BY <1>1, <2>1, HoldsFacts
    <2>3. pending' = <<>> \/ Admitted(pending', positions, s.id, s.direction)
      BY <1>2, <2>1, JudgedFacts
    <2>. QED
      BY <2>1, <2>2, <2>3 DEF Processed
  <1>6. CASE ~InFlight /\ UNCHANGED deferred /\ Close(s)
    <2>1. pending = <<>> /\ deferred' = deferred /\ Holds(Opposite(s.direction))
      BY <1>6 DEF InFlight, Close
    <2>2. DOMAIN positions # {}
      BY <1>1, <2>1, HoldsFacts DEF Opposite, Direction
    <2>3. LegsOf(Legs(s.id), s.id) /\ ToSet(openTickets) = DOMAIN positions
      BY <1>1, <2>2, LegsFacts
    <2>4. Legs(s.id) \in Seq(Command) /\ Legs(s.id) # <<>>
      BY <2>3 DEF LegsOf, Orderly
    <2>5. /\ pending' = pending \o Legs(s.id)
          /\ barriers' = IF s.exit_only THEN barriers
                         ELSE With(barriers, s.id,
                                   [tickets |-> ToSet(openTickets),
                                    outstanding |-> Len(Legs(s.id)),
                                    follow_up |-> s.direction])
      BY <1>6, <2>4 DEF Close
    <2>6. pending' = Legs(s.id)
      BY <2>1, <2>4, <2>5
    <2>. QED
      BY <2>1, <2>3, <2>5, <2>6 DEF Processed
  <1>. QED
    BY <1>3, <1>4, <1>5, <1>6 DEF ProcessSignal

\* What a signal leaves of the invariant, whatever it came to.
ProcessedWell(s) ==
  /\ pending' \in Seq(Command) /\ Orderly(pending')
  /\ \A b \in DOMAIN barriers' : barriers'[b] \in Barrier
  /\ NeverHedged' /\ CapKept' /\ Flight'
  /\ ToSet(pending) \subseteq ToSet(pending')
  /\ One(HasEntry(pending')) + One(DOMAIN barriers' # {}) + Len(deferred')
       <= One(HasEntry(pending)) + One(DOMAIN barriers # {}) + Len(deferred) + 1
  /\ \/ deferred = <<>> /\ deferred' = <<>>
     \/ deferred' = Append(deferred, s) /\ pending' # <<>>

LEMMA ProcessedKeeps ==
  ASSUME BookInv, NEW s \in Signal, Processed(s), UNCHANGED bookVars
  PROVE  ProcessedWell(s)
  <1>1. /\ Books /\ NeverHedged /\ CapKept /\ Flight /\ now \in Nat
        /\ pending \in Seq(Command) /\ Orderly(pending) /\ deferred \in Seq(Signal)
        /\ \A b \in DOMAIN barriers : barriers[b] \in Barrier
        /\ (deferred # <<>> => pending # <<>>)
        /\ s.id \in Nat /\ s.direction \in Direction
    BY DEF BookInv, TypeOK, Signal, Held
  <1>2. positions' = positions /\ openTickets' = openTickets
    BY DEF bookVars
  <1>3. Cardinality(DOMAIN positions) \in Nat
    BY <1>1, BookFinite
  <1>4. CASE pending # <<>> /\ deferred' = Append(deferred, s) /\ UNCHANGED <<pending, barriers>>
    <2>1. Len(deferred') = Len(deferred) + 1 /\ Len(deferred) \in Nat
      BY <1>1, <1>4
    <2>2. One(HasEntry(pending)) \in Nat /\ One(DOMAIN barriers # {}) \in Nat
      BY DEF One
    <2>3. HasEntry(pending') = HasEntry(pending) /\ DOMAIN barriers' = DOMAIN barriers
      BY <1>4
    <2>4. NeverHedged' /\ CapKept' /\ Flight'
      BY <1>1, <1>2, <1>4 DEF NeverHedged, CapKept, PendingEntries, Entries, Flight
    <2>5. One(HasEntry(pending')) + One(DOMAIN barriers' # {}) + Len(deferred')
            <= One(HasEntry(pending)) + One(DOMAIN barriers # {}) + Len(deferred) + 1
      BY <2>1, <2>2, <2>3
    <2>. QED
      BY <1>1, <1>4, <2>4, <2>5 DEF ProcessedWell
  <1>5. CASE pending = <<>> /\ deferred' = deferred
    <2>1. deferred = <<>> /\ deferred' = <<>> /\ Len(deferred) = 0 /\ Len(deferred') = 0
      BY <1>1, <1>5
    <2>2. DOMAIN barriers = {} /\ ToSet(pending) = {}
      <3>1. ToSet(<<>>) = {}
        BY DEF ToSet
      <3>. QED
        BY <1>1, <1>5, <3>1 DEF Flight
    <2>3. One(HasEntry(pending)) \in Nat /\ One(DOMAIN barriers # {}) = 0
      BY <2>2 DEF One
    <2>4. CASE pending' = <<>> /\ barriers' = barriers
      <3>1. pending' = pending
        BY <1>5, <2>4
      <3>2. NeverHedged' /\ CapKept' /\ Flight'
        BY <1>1, <1>2, <2>4, <3>1 DEF NeverHedged, CapKept, PendingEntries, Entries, Flight
      <3>3. One(HasEntry(pending')) + One(DOMAIN barriers' # {}) + Len(deferred')
              <= One(HasEntry(pending)) + One(DOMAIN barriers # {}) + Len(deferred) + 1
        BY <2>1, <2>3, <2>4, <3>1
      <3>. QED
        BY <1>1, <2>1, <2>4, <3>1, <3>2, <3>3 DEF ProcessedWell
    <2>5. CASE /\ Admitted(pending', positions, s.id, s.direction) /\ barriers' = barriers
               /\ \A t \in DOMAIN positions : positions[t].direction = s.direction
      <3>1. /\ Orderly(pending') /\ HasEntry(pending') /\ pending' # <<>>
            /\ \A i \in DOMAIN pending' : pending'[i].direction = s.direction
        BY <1>1, <2>5, AdmittedFacts
      <3>2. pending' \in Seq(Command) /\ Entries(pending') = 1
        BY <3>1, EntriesCounted DEF Orderly
      <3>3. Cardinality(DOMAIN positions) + 1 <= MaxOpen
        BY <2>5 DEF Admitted
      <3>4. NeverHedged' /\ CapKept' /\ Flight'
        BY <1>1, <1>2, <2>2, <2>5, <3>1, <3>2, <3>3
           DEF NeverHedged, CapKept, PendingEntries, Flight
      <3>5. One(HasEntry(pending')) = 1
        BY <3>1 DEF One
      <3>6. One(HasEntry(pending')) + One(DOMAIN barriers' # {}) + Len(deferred')
              <= One(HasEntry(pending)) + One(DOMAIN barriers # {}) + Len(deferred) + 1
        BY <2>1, <2>3, <2>5, <3>5
      <3>. QED
        BY <1>1, <2>1, <2>2, <2>5, <3>1, <3>2, <3>4, <3>6 DEF ProcessedWell
    <2>6. CASE /\ LegsOf(pending', s.id)
               /\ \/ barriers' = barriers
                  \/ barriers' = With(barriers, s.id, [tickets |-> DOMAIN positions,
                                                       outstanding |-> Len(pending'),
                                                       follow_up |-> s.direction])
      <3>1. /\ Orderly(pending') /\ ~HasEntry(pending') /\ pending' # <<>>
            /\ pending' \in Seq(Command) /\ Entries(pending') = 0
            /\ \A i \in DOMAIN pending' : pending'[i].kind = "EXIT" /\ pending'[i].signal = s.id
        BY <2>6, EntriesCounted DEF LegsOf, Orderly
      <3> DEFINE barrier == [tickets |-> DOMAIN positions, outstanding |-> Len(pending'),
                             follow_up |-> s.direction]
      <3>2. barrier \in Barrier /\ barrier.tickets = DOMAIN positions
            /\ barrier.outstanding = Len(pending')
        <4>1. DOMAIN positions \subseteq Ticket /\ Len(pending') \in Nat
          BY <1>1, <3>1 DEF Books, Agrees
        <4>. QED
          BY <1>1, <4>1 DEF Barrier
      <3>3. \A b \in DOMAIN barriers' : b = s.id /\ barriers'[b] = barrier
        BY <2>2, <2>6 DEF With
      <3> HIDE DEF barrier
      <3>4. Flight'
        BY <1>2, <3>1, <3>2, <3>3 DEF Flight
      <3>5. NeverHedged' /\ CapKept'
        <4>1. NeverHedged'
          BY <1>1, <1>2, <3>1 DEF NeverHedged
        <4>2. Entries(pending) \in Nat
          <5>1. Entries(pending) \in {0, 1}
            BY <1>1, EntriesCounted
          <5>. QED
            BY <5>1
        <4>3. CapKept'
          BY <1>1, <1>2, <1>3, <3>1, <4>2, ReplayAssumption DEF CapKept, PendingEntries
        <4>. QED
          BY <4>1, <4>3
      <3>6. One(HasEntry(pending')) = 0 /\ One(DOMAIN barriers' # {}) \in {0, 1}
        BY <3>1 DEF One
      <3>7. One(HasEntry(pending')) + One(DOMAIN barriers' # {}) + Len(deferred')
              <= One(HasEntry(pending)) + One(DOMAIN barriers # {}) + Len(deferred) + 1
        BY <2>1, <2>3, <3>6
      <3>8. \A b \in DOMAIN barriers' : barriers'[b] \in Barrier
        BY <3>2, <3>3
      <3>. QED
        BY <2>1, <2>2, <3>1, <3>4, <3>5, <3>7, <3>8 DEF ProcessedWell
    <2>. QED
      BY <1>5, <2>4, <2>5, <2>6, Zenon DEF Processed
  <1>. QED
    BY <1>4, <1>5, Zenon DEF Processed

LEMMA RisingAppend ==
  ASSUME NEW s \in Seq(Signal), NEW x \in Signal, Rising(s), \A i \in DOMAIN s : s[i].id < x.id
  PROVE  Rising(Append(s, x))
  <1> DEFINE long == Append(s, x)
  <1>1. /\ DOMAIN long = 1 .. Len(s) + 1 /\ DOMAIN s = 1 .. Len(s) /\ Len(s) \in Nat
        /\ long[Len(s) + 1] = x /\ \A i \in 1 .. Len(s) : long[i] = s[i]
    OBVIOUS
  <1> HIDE DEF long
  <1>2. ASSUME NEW i \in DOMAIN long, NEW j \in DOMAIN long, i < j
        PROVE  long[i].id < long[j].id
    <2>1. i \in DOMAIN s /\ long[i] = s[i]
      BY <1>1, <1>2
    <2>2. CASE j \in DOMAIN s
      BY <1>1, <1>2, <2>1, <2>2 DEF Rising
    <2>3. CASE j \notin DOMAIN s
      <3>1. j = Len(s) + 1
        BY <1>1, <2>3
      <3>. QED
        BY <1>1, <2>1, <3>1
    <2>. QED
      BY <2>2, <2>3
  <1>3. Rising(long)
    BY <1>2 DEF Rising
  <1>. QED
    BY <1>3 DEF long

LEMMA ClaimsRise ==
  ASSUME NEW n \in Nat, NEW e \in Int, NEW b \in Int, NEW d \in Int, NEW r \in Int,
         NEW e2 \in Int, NEW b2 \in Int, NEW d2 \in Int, NEW r2 \in Int,
         NEW emitted \in Int, NEW emitted2 \in Int,
         n + (e + b + d + r) <= emitted, e2 + b2 + d2 <= e + b + d + 1,
         emitted + r2 + 1 <= emitted2 + r
  PROVE  n + (e2 + b2 + d2 + r2) <= emitted2
  OBVIOUS

\* What both a new signal and one handed back leave of the invariant.
LEMMA SignalKeeps ==
  ASSUME BookInv, NEW s \in Signal, ProcessedWell(s),
         UNCHANGED <<now, tick, phase, bookVars, ready>>,
         signals' \in 0 .. MaxSignals, signals' >= signals, s.id <= signals',
         \A i \in DOMAIN deferred : deferred[i].id < s.id,
         released' \in Seq(Signal), Rising(released'), Known(released)',
         \A i \in DOMAIN released' : s.id < released'[i].id,
         ~FillPhase => released' = <<>>,
         signals + Len(released') + 1 <= signals' + Len(released)
  PROVE  BookInv'
  <1>1. /\ TypeOK /\ Books /\ Held /\ Snapshotted /\ Accounted
        /\ deferred \in Seq(Signal) /\ released \in Seq(Signal)
    BY DEF BookInv, TypeOK
  <1>2. /\ pending' \in Seq(Command) /\ Orderly(pending')
        /\ \A b \in DOMAIN barriers' : barriers'[b] \in Barrier
        /\ NeverHedged' /\ CapKept' /\ Flight'
        /\ ToSet(pending) \subseteq ToSet(pending')
        /\ One(HasEntry(pending')) + One(DOMAIN barriers' # {}) + Len(deferred')
             <= One(HasEntry(pending)) + One(DOMAIN barriers # {}) + Len(deferred) + 1
        /\ \/ deferred = <<>> /\ deferred' = <<>>
           \/ deferred' = Append(deferred, s) /\ pending' # <<>>
    BY DEF ProcessedWell
  <1>3. deferred' \in Seq(Signal)
    <2>1. <<>> \in Seq(Signal) /\ Append(deferred, s) \in Seq(Signal)
      BY <1>1
    <2>. QED
      BY <1>2, <2>1
  <1>4. TypeOK'
    BY <1>1, <1>2, <1>3 DEF TypeOK, bookVars
  <1>5. Books'
    BY <1>1 DEF Books, bookVars
  <1>6. Held'
    <2>1. Rising(deferred')
      <3>1. CASE deferred' = <<>>
        BY <3>1 DEF Rising
      <3>2. CASE deferred' = Append(deferred, s)
        BY <1>1, <3>2, RisingAppend DEF Held
      <3>. QED
        BY <1>2, <3>1, <3>2
    <2>2. ASSUME NEW i \in DOMAIN deferred'
          PROVE  deferred'[i].id <= s.id
      <3>1. CASE deferred' = <<>>
        BY <3>1
      <3>2. CASE deferred' = Append(deferred, s)
        <4>1. /\ DOMAIN deferred' = 1 .. Len(deferred) + 1 /\ Len(deferred) \in Nat
              /\ DOMAIN deferred = 1 .. Len(deferred)
              /\ deferred'[Len(deferred) + 1] = s
              /\ \A k \in 1 .. Len(deferred) : deferred'[k] = deferred[k]
          BY <1>1, <3>2
        <4>2. \A k \in DOMAIN deferred : deferred[k].id \in Nat
          <5>1. \A k \in DOMAIN deferred : deferred[k] \in Signal
            BY <1>1
          <5>. QED
            BY <5>1 DEF Signal
        <4>3. s.id \in Nat
          BY DEF Signal
        <4>. QED
          BY <4>1, <4>2, <4>3
      <3>. QED
        BY <1>2, <3>1, <3>2
    <2>3. /\ s.id \in Nat /\ signals' \in Nat
          /\ \A i \in DOMAIN deferred' : deferred'[i].id \in Nat
          /\ \A i \in DOMAIN released' : released'[i].id \in Nat
      <3>1. /\ \A i \in DOMAIN deferred' : deferred'[i] \in Signal
            /\ \A i \in DOMAIN released' : released'[i] \in Signal
        BY <1>3
      <3>. QED
        BY <3>1, ReplayAssumption DEF Signal
    <2>4. Ahead(deferred', released')
      BY <2>2, <2>3 DEF Ahead
    <2>5. Known(deferred)'
      BY <2>2, <2>3 DEF Known
    <2>6. deferred' # <<>> => pending' # <<>>
      BY <1>2
    <2>. QED
      BY <2>1, <2>4, <2>5, <2>6 DEF Held
  <1>7. Snapshotted'
    BY <1>1, <1>2 DEF Snapshotted, FillPhase
  <1>8. Accounted'
    <2>1. PICK n \in Nat : DOMAIN opened = 1 .. n /\ n + Claims <= signals
      BY <1>1 DEF Accounted
    <2>2. DOMAIN opened' = DOMAIN opened
      BY DEF bookVars
    <2>3. /\ Len(deferred) \in Int /\ Len(deferred') \in Int /\ Len(released) \in Int
          /\ Len(released') \in Int /\ signals \in Int /\ signals' \in Int
          /\ One(HasEntry(pending)) \in Int /\ One(DOMAIN barriers # {}) \in Int
          /\ One(HasEntry(pending')) \in Int /\ One(DOMAIN barriers' # {}) \in Int
      BY <1>1, <1>3 DEF TypeOK, One
    <2>4. /\ Claims = One(HasEntry(pending)) + One(DOMAIN barriers # {}) + Len(deferred) + Len(released)
          /\ Claims' = One(HasEntry(pending')) + One(DOMAIN barriers' # {}) + Len(deferred')
                       + Len(released')
      BY DEF Claims, HasEntry, One
    <2>5. n + Claims' <= signals'
      <3>1. n + (One(HasEntry(pending)) + One(DOMAIN barriers # {}) + Len(deferred) + Len(released))
              <= signals
        BY <2>1, <2>4, Zenon
      <3>2. signals + Len(released') + 1 <= signals' + Len(released)
        OBVIOUS
      <3>3. n + (One(HasEntry(pending')) + One(DOMAIN barriers' # {}) + Len(deferred')
                 + Len(released')) <= signals'
        BY <1>2, <2>3, <3>1, <3>2, ClaimsRise, Zenon
      <3>. QED
        BY <2>4, <3>3, Zenon
    <2>. QED
      BY <2>1, <2>2, <2>5 DEF Accounted
  <1>. QED
    BY <1>2, <1>4, <1>5, <1>6, <1>7, <1>8 DEF BookInv

LEMMA StrategyStep ==
  ASSUME BookInv, NEW direction \in Direction, NEW exitOnly \in BOOLEAN,
         StrategySignal(direction, exitOnly)
  PROVE  BookInv'
  <1> DEFINE s == [id |-> signals + 1, direction |-> direction, exit_only |-> exitOnly]
  <1>1. /\ signals \in 0 .. MaxSignals /\ signals < MaxSignals /\ signals' = signals + 1
        /\ phase = "strategy" /\ ProcessSignal(s)
        /\ UNCHANGED <<now, tick, phase, bookVars, ready, released>>
    BY DEF BookInv, TypeOK, StrategySignal
  <1>2. s \in Signal /\ s.id = signals + 1
    BY <1>1, ReplayAssumption DEF Signal
  <1> HIDE DEF s
  <1>3. ProcessedWell(s)
    BY <1>1, <1>2, ProcessFacts, ProcessedKeeps
  <1>4. released = <<>> /\ released' = <<>> /\ <<>> \in Seq(Signal) /\ Len(released') = Len(released)
    BY <1>1 DEF BookInv, Snapshotted, FillPhase
  <1>5. Rising(released') /\ Known(released)'
    BY <1>4 DEF Rising, Known
  <1>6. signals' \in 0 .. MaxSignals /\ signals' >= signals /\ s.id <= signals'
    BY <1>1, <1>2, ReplayAssumption
  <1>7. \A i \in DOMAIN deferred : deferred[i].id < s.id
    <2>1. \A i \in DOMAIN deferred : deferred[i].id <= signals /\ deferred[i] \in Signal
      BY DEF BookInv, TypeOK, Held, Known
    <2>. QED
      BY <1>1, <1>2, <2>1 DEF Signal
  <1>8. signals + Len(released') + 1 <= signals' + Len(released)
    BY <1>1, <1>4
  <1>9. \A i \in DOMAIN released' : s.id < released'[i].id
    BY <1>4
  <1>. QED
    BY <1>1, <1>2, <1>3, <1>4, <1>5, <1>6, <1>7, <1>8, <1>9, SignalKeeps

LEMMA ReleaseStep ==
  ASSUME BookInv, ReleaseSignal
  PROVE  BookInv'
  <1> DEFINE s == Head(released)
  <1>1. /\ released # <<>> /\ released \in Seq(Signal) /\ ProcessSignal(s) /\ released' = Tail(released)
        /\ UNCHANGED <<now, tick, phase, bookVars, ready, signals>>
        /\ Held /\ signals \in 0 .. MaxSignals /\ Snapshotted
    BY DEF BookInv, TypeOK, ReleaseSignal
  <1>2. /\ DOMAIN released = 1 .. Len(released) /\ Len(released) \in Nat /\ Len(released) >= 1
        /\ s = released[1] /\ released' \in Seq(Signal) /\ Len(released') = Len(released) - 1
        /\ DOMAIN released' = 1 .. Len(released')
        /\ \A i \in 1 .. Len(released') : released'[i] = released[i + 1]
    BY <1>1
  <1>3. s \in Signal /\ 1 \in DOMAIN released
    BY <1>1, <1>2
  <1> HIDE DEF s
  <1>4. ProcessedWell(s)
    BY <1>1, <1>3, ProcessFacts, ProcessedKeeps
  <1>5. \A i \in DOMAIN released' :
          i + 1 \in DOMAIN released /\ i \in Nat /\ 1 < i + 1 /\ released'[i] = released[i + 1]
    BY <1>2
  <1>6. Rising(released')
    <2>1. ASSUME NEW i \in DOMAIN released', NEW j \in DOMAIN released', i < j
          PROVE  released'[i].id < released'[j].id
      <3>1. i + 1 < j + 1
        BY <1>5, <2>1
      <3>. QED
        BY <1>1, <1>5, <3>1 DEF Held, Rising
    <2>. QED
      BY <2>1 DEF Rising
  <1>7. Known(released)'
    BY <1>1, <1>5 DEF Held, Known
  <1>8. \A i \in DOMAIN released' : s.id < released'[i].id
    BY <1>1, <1>2, <1>3, <1>5 DEF Held, Rising
  <1>9. s.id <= signals /\ \A i \in DOMAIN deferred : deferred[i].id < s.id
    BY <1>1, <1>2, <1>3 DEF Held, Known, Ahead
  <1>10. ~FillPhase => released' = <<>>
    BY <1>1 DEF Snapshotted
  <1>11. signals' \in 0 .. MaxSignals /\ signals' >= signals /\ s.id <= signals'
         /\ signals + Len(released') + 1 <= signals' + Len(released)
    BY <1>1, <1>2, <1>9
  <1>. QED
    BY <1>1, <1>2, <1>3, <1>4, <1>6, <1>7, <1>8, <1>9, <1>10, <1>11, SignalKeeps

-----------------------------------------------------------------------------
(* What the resolution of a command may do *)

\* The command leaves the queue; the last leg of a flip ends it, and once the
\* book is flat of its tickets the reversal may enter.
Stepped(p, rest) ==
  \/ DOMAIN barriers = {} /\ barriers' = barriers /\ pending' = rest
  \/ /\ DOMAIN barriers = {p.signal} /\ p.kind = "EXIT" /\ rest # <<>> /\ pending' = rest
     /\ barriers' = With(barriers, p.signal,
                         [barriers[p.signal] EXCEPT !.outstanding = Len(rest)])
  \/ /\ DOMAIN barriers = {p.signal} /\ p.kind = "EXIT" /\ rest = <<>> /\ DOMAIN barriers' = {}
     /\ \/ pending' = <<>>
        \/ /\ Admitted(pending', positions', p.signal, barriers[p.signal].follow_up)
           /\ barriers[p.signal].tickets \cap DOMAIN positions' = {}

\* What is left of the queue once p has left it.
Rest(p, rest) ==
  /\ Orderly(rest) /\ ToSet(rest) = ToSet(pending) \ {p} /\ Len(rest) = Len(pending) - 1
  /\ p.kind = "ENTRY" => rest = <<>>
  /\ \A i \in DOMAIN rest : rest[i] \in ToSet(pending)

LEMMA RestFacts ==
  ASSUME BookInv, NEW p \in ToSet(pending)
  PROVE  Rest(p, LeaveQueue(p)) /\ p \in Command /\ Len(pending) \in Nat /\ Len(pending) >= 1
  <1> DEFINE rest == LeaveQueue(p)
  <1>1. Orderly(pending) /\ pending \in Seq(Command)
    BY DEF BookInv, TypeOK
  <1>2. /\ Orderly(rest) /\ ToSet(rest) = ToSet(pending) \ {p}
        /\ Len(rest) = Len(pending) - 1 /\ Len(pending) \in Nat /\ Len(pending) >= 1
        /\ (rest = <<>> <=> Len(pending) = 1)
    BY <1>1, LeavingFacts DEF LeaveQueue
  <1> HIDE DEF rest
  <1>3. PICK k \in DOMAIN pending : pending[k] = p
    BY DEF ToSet
  <1>4. p \in Command
    BY <1>1, <1>3
  <1>5. p.kind = "ENTRY" => rest = <<>>
    <2>1. p.kind = "ENTRY" => Len(pending) = 1
      BY <1>1, <1>3, EntriesCounted DEF HasEntry
    <2>. QED
      BY <1>2, <2>1
  <1>6. \A i \in DOMAIN rest : rest[i] \in ToSet(pending)
    <2>1. \A i \in DOMAIN rest : rest[i] \in ToSet(rest)
      BY DEF ToSet
    <2>. QED
      BY <1>2, <2>1
  <1>7. Rest(p, rest)
    BY <1>2, <1>5, <1>6 DEF Rest
  <1>. QED
    BY <1>2, <1>4, <1>7 DEF rest

LEMMA SteppedFacts ==
  ASSUME BookInv, NEW p \in ToSet(pending), Cardinality(DOMAIN positions') \in Nat,
         BarrierStep(p, positions', LeaveQueue(p))
  PROVE  Stepped(p, LeaveQueue(p))
  <1> DEFINE rest == LeaveQueue(p)
             s == p.signal
             b == barriers[p.signal]
  <1>1. Flight /\ pending \in Seq(Command)
    BY DEF BookInv, TypeOK
  <1>2. /\ Orderly(rest) /\ Len(rest) = Len(pending) - 1 /\ Len(pending) \in Nat
        /\ Len(pending) >= 1 /\ p \in Command
    BY RestFacts DEF Rest
  <1>3. rest \in Seq(Command) /\ (rest = <<>> <=> Len(rest) = 0) /\ Len(rest) \in Nat
    BY <1>2 DEF Orderly
  <1>4. PICK k \in DOMAIN pending : pending[k] = p
    BY DEF ToSet
  <1>5. \A u \in DOMAIN barriers : p.kind = "EXIT" /\ p.signal = u
    BY <1>1, <1>4 DEF Flight
  <1>6. CASE ~StepsBarrier(p, positions')
    <2>1. barriers' = barriers /\ pending' = rest
      BY <1>6 DEF BarrierStep
    <2>2. DOMAIN barriers = {}
      BY <1>5, <1>6 DEF StepsBarrier
    <2>. QED
      BY <2>1, <2>2 DEF Stepped
  <1>7. CASE StepsBarrier(p, positions')
    <2>1. DOMAIN barriers = {p.signal} /\ p.kind = "EXIT"
      BY <1>5, <1>7 DEF StepsBarrier
    <2>2. b.outstanding = Len(pending)
      BY <1>1, <2>1 DEF Flight
    <2>3. CASE b.outstanding > 1
      <3>1. barriers' = With(barriers, s, [b EXCEPT !.outstanding = b.outstanding - 1])
            /\ pending' = rest
        BY <1>7, <2>3 DEF BarrierStep
      <3>2. b.outstanding - 1 = Len(rest) /\ rest # <<>>
        BY <1>2, <1>3, <2>2, <2>3
      <3> HIDE DEF rest
      <3>. QED
        BY <2>1, <3>1, <3>2, Zenon DEF Stepped, rest
    <2>4. CASE ~(b.outstanding > 1)
      <3>1. rest = <<>>
        BY <1>2, <1>3, <2>2, <2>4
      <3>2. /\ barriers' = Without(barriers, {s})
            /\ pending' \in IF Flat(positions', b.tickets)
                            THEN EntryJudged(positions', rest, s, b.follow_up)
                            ELSE {rest}
        BY <1>7, <2>4, Zenon DEF BarrierStep
      <3>3. DOMAIN barriers' = {}
        BY <2>1, <3>2 DEF Without
      <3>4. CASE Flat(positions', b.tickets)
        <4>1. pending' \in EntryJudged(positions', <<>>, s, b.follow_up)
          BY <3>1, <3>2, <3>4
        <4>2. pending' = <<>> \/ Admitted(pending', positions', s, b.follow_up)
          BY <4>1, JudgedFacts
        <4>. QED
          BY <2>1, <3>1, <3>3, <3>4, <4>2 DEF Stepped, Flat
      <3>5. CASE ~Flat(positions', b.tickets)
        BY <2>1, <3>1, <3>2, <3>3, <3>5 DEF Stepped
      <3>. QED
        BY <3>4, <3>5
    <2>. QED
      BY <2>3, <2>4
  <1>. QED
    BY <1>6, <1>7

\* An exit, a reject and a no-op only take from the book.
Shrinks ==
  /\ DOMAIN positions' \subseteq DOMAIN positions /\ opened' = opened
  /\ \A t \in DOMAIN positions' : positions'[t].direction = positions[t].direction

\* An entry opens one more ticket.
Grows(p) ==
  /\ p.kind = "ENTRY"
  /\ DOMAIN positions' = DOMAIN positions \cup {NextTicket}
  /\ DOMAIN opened' = DOMAIN opened \cup {NextTicket}
  /\ positions'[NextTicket].direction = p.direction
  /\ \A t \in DOMAIN positions : t # NextTicket => positions'[t].direction = positions[t].direction

LEMMA NextTicketFacts ==
  ASSUME NEW n \in Nat, DOMAIN opened = 1 .. n
  PROVE  NextTicket = n + 1 /\ DOMAIN opened \cup {NextTicket} = 1 .. n + 1
         /\ NextTicket \notin DOMAIN opened
  <1>1. Cardinality(1 .. n) = n
    BY FS_Interval
  <1>. QED
    BY <1>1 DEF NextTicket

\* The book after a resolution.
LEMMA BookAfter ==
  ASSUME BookInv, Books', NEW p \in ToSet(pending), Shrinks \/ Grows(p)
  PROVE  /\ Cardinality(DOMAIN positions') \in Nat
         /\ Shrinks => Cardinality(DOMAIN positions') <= Cardinality(DOMAIN positions)
         /\ Grows(p) => Cardinality(DOMAIN positions') <= Cardinality(DOMAIN positions) + 1
         /\ \A t, u \in DOMAIN positions' : positions'[t].direction = positions'[u].direction
  <1>1. /\ IsFiniteSet(DOMAIN positions) /\ Cardinality(DOMAIN positions) \in Nat
        /\ NeverHedged
    BY BookFinite DEF BookInv
  <1>2. PICK k \in DOMAIN pending : pending[k] = p
    BY DEF ToSet
  <1>3. CASE Shrinks
    <2>1. /\ IsFiniteSet(DOMAIN positions')
          /\ Cardinality(DOMAIN positions') <= Cardinality(DOMAIN positions)
      BY <1>1, <1>3, FS_Subset DEF Shrinks
    <2>2. Cardinality(DOMAIN positions') \in Nat
      BY <2>1, FS_CardinalityType
    <2>3. \A t, u \in DOMAIN positions' : positions'[t].direction = positions'[u].direction
      BY <1>1, <1>3 DEF Shrinks, NeverHedged
    <2>4. Cardinality(DOMAIN positions') <= Cardinality(DOMAIN positions) + 1
      BY <1>1, <2>1, <2>2
    <2>. QED
      BY <2>1, <2>2, <2>3, <2>4
  <1>4. CASE Grows(p) /\ ~Shrinks
    <2>1. Cardinality(DOMAIN positions') = IF NextTicket \in DOMAIN positions
                                           THEN Cardinality(DOMAIN positions)
                                           ELSE Cardinality(DOMAIN positions) + 1
      BY <1>1, <1>4, FS_AddElement DEF Grows
    <2>2. ASSUME NEW t \in DOMAIN positions'
          PROVE  positions'[t].direction = p.direction
      BY <1>1, <1>2, <1>4 DEF Grows, NeverHedged
    <2>. QED
      BY <1>1, <1>4, <2>1, <2>2
  <1>. QED
    BY <1>3, <1>4

LEMMA StaysWithinRules ==
  ASSUME BookInv, Books', NEW p \in ToSet(pending), NEW rest, Rest(p, rest), Stepped(p, rest),
         Shrinks \/ Grows(p)
  PROVE  NeverHedged' /\ CapKept' /\ Flight' /\ Orderly(pending')
         /\ \A s \in DOMAIN barriers' : barriers'[s] \in Barrier
  <1>1. /\ NeverHedged /\ CapKept /\ Flight /\ Orderly(pending) /\ now \in Nat /\ Books
        /\ \A s \in DOMAIN barriers : barriers[s] \in Barrier
    BY DEF BookInv, TypeOK
  <1>2. /\ Orderly(rest) /\ ToSet(rest) = ToSet(pending) \ {p} /\ Len(rest) = Len(pending) - 1
        /\ (p.kind = "ENTRY" => rest = <<>>)
        /\ (\A i \in DOMAIN rest : rest[i] \in ToSet(pending))
    BY DEF Rest
  <1>3. PICK k \in DOMAIN pending : pending[k] = p
    BY DEF ToSet
  <1>4. \A i \in DOMAIN rest : \E j \in DOMAIN pending : pending[j] = rest[i]
    BY <1>2 DEF ToSet
  <1>5. /\ Cardinality(DOMAIN positions') \in Nat
        /\ Cardinality(DOMAIN positions) \in Nat
        /\ Shrinks => Cardinality(DOMAIN positions') <= Cardinality(DOMAIN positions)
        /\ Grows(p) => Cardinality(DOMAIN positions') <= Cardinality(DOMAIN positions) + 1
        /\ \A t, u \in DOMAIN positions' : positions'[t].direction = positions'[u].direction
    BY <1>1, BookAfter, BookFinite
  <1>6. Cardinality(DOMAIN positions) <= MaxOpen
    <2>1. Entries(pending) = 0 \/ Entries(pending) = 1
      BY <1>1, EntriesCounted
    <2>. QED
      BY <1>1, <1>5, <2>1, ReplayAssumption DEF CapKept, PendingEntries
  <1>7. p.kind = "EXIT" => Shrinks
    BY DEF Grows
  <1>8. CASE pending' = rest /\ ((DOMAIN barriers = {} /\ barriers' = barriers) \/ p.kind = "EXIT")
    <2>1. NeverHedged'
      <3>1. ASSUME NEW i \in DOMAIN rest, rest[i].kind = "ENTRY", NEW t \in DOMAIN positions'
            PROVE  positions'[t].direction = rest[i].direction
        <4>1. PICK j \in DOMAIN pending : pending[j] = rest[i]
          BY <1>4
        <4>2. p.kind # "ENTRY"
          BY <1>2, <3>1
        <4>3. Shrinks
          BY <4>2 DEF Grows
        <4>. QED
          BY <1>1, <3>1, <4>1, <4>3 DEF Shrinks, NeverHedged
      <3>. QED
        BY <1>5, <1>8, <3>1 DEF NeverHedged
    <2>2. CapKept'
      <3>1. Entries(rest) = 0 \/ Entries(rest) = 1
        BY <1>2, EntriesCounted
      <3>2. CASE HasEntry(rest)
        <4>1. HasEntry(pending) /\ p.kind # "ENTRY"
          BY <1>2, <1>4, <3>2 DEF HasEntry
        <4>2. Shrinks /\ Entries(pending) = 1 /\ Entries(rest) = 1
          BY <1>1, <1>2, <3>2, <4>1, EntriesCounted DEF Grows
        <4>. QED
          BY <1>1, <1>5, <1>8, <4>2, ReplayAssumption DEF CapKept, PendingEntries
      <3>3. CASE ~HasEntry(rest) /\ Shrinks
        <4>1. Entries(rest) = 0
          BY <1>2, <3>3, EntriesCounted
        <4>. QED
          BY <1>5, <1>6, <1>8, <3>3, <4>1, ReplayAssumption DEF CapKept, PendingEntries
      <3>4. CASE ~HasEntry(rest) /\ Grows(p)
        <4>1. HasEntry(pending)
          BY <1>3, <3>4 DEF HasEntry, Grows
        <4>2. Entries(rest) = 0 /\ Entries(pending) = 1
          BY <1>1, <1>2, <3>4, <4>1, EntriesCounted
        <4>. QED
          BY <1>1, <1>5, <1>8, <3>4, <4>2, ReplayAssumption DEF CapKept, PendingEntries
      <3>. QED
        BY <3>2, <3>3, <3>4
    <2>3. Flight' /\ \A s \in DOMAIN barriers' : barriers'[s] \in Barrier
      <3>1. CASE DOMAIN barriers = {} /\ barriers' = barriers
        BY <3>1 DEF Flight
      <3>2. CASE /\ DOMAIN barriers = {p.signal} /\ p.kind = "EXIT" /\ rest # <<>>
                 /\ barriers' = With(barriers, p.signal,
                                     [barriers[p.signal] EXCEPT !.outstanding = Len(rest)])
        <4>1. /\ DOMAIN barriers' = {p.signal}
              /\ barriers'[p.signal] = [barriers[p.signal] EXCEPT !.outstanding = Len(rest)]
          BY <3>2 DEF With
        <4>2. barriers[p.signal] \in Barrier /\ Len(rest) \in Nat
          BY <1>1, <1>2, <3>2 DEF Orderly
        <4>3. /\ barriers'[p.signal] \in Barrier /\ barriers'[p.signal].outstanding = Len(rest)
              /\ barriers'[p.signal].tickets = barriers[p.signal].tickets
          BY <4>1, <4>2 DEF Barrier
        <4>4. \A i \in DOMAIN rest : rest[i].kind = "EXIT" /\ rest[i].signal = p.signal
          BY <1>1, <1>4, <3>2 DEF Flight
        <4>5. DOMAIN positions' \subseteq barriers[p.signal].tickets
          BY <1>1, <1>7, <3>2 DEF Flight, Shrinks
        <4>. QED
          BY <1>8, <3>2, <4>1, <4>3, <4>4, <4>5 DEF Flight
      <3>3. CASE DOMAIN barriers' = {}
        BY <3>3 DEF Flight
      <3>. QED
        BY <1>8, <3>1, <3>2, <3>3 DEF Stepped
    <2>. QED
      BY <1>2, <1>8, <2>1, <2>2, <2>3
  <1>9. CASE /\ DOMAIN barriers = {p.signal} /\ p.kind = "EXIT" /\ DOMAIN barriers' = {}
             /\ Admitted(pending', positions', p.signal, barriers[p.signal].follow_up)
             /\ barriers[p.signal].tickets \cap DOMAIN positions' = {}
    <2>1. /\ p.signal \in Nat /\ barriers[p.signal].follow_up \in Direction
      BY <1>1, <1>3, <1>9, RestFacts DEF Command, Barrier
    <2>2. Orderly(pending') /\ HasEntry(pending')
      BY <1>1, <1>9, <2>1, AdmittedFacts
    <2>3. Entries(pending') = 1 /\ Cardinality(DOMAIN positions') + 1 <= MaxOpen
      BY <1>9, <2>2, EntriesCounted DEF Admitted
    <2>4. DOMAIN positions' = {}
      BY <1>1, <1>7, <1>9 DEF Flight, Shrinks
    <2>5. NeverHedged'
      BY <2>4 DEF NeverHedged
    <2>6. CapKept'
      BY <1>5, <2>3, ReplayAssumption DEF CapKept, PendingEntries
    <2>7. Flight'
      BY <1>9 DEF Flight
    <2>. QED
      BY <1>9, <2>2, <2>5, <2>6, <2>7
  <1>10. CASE DOMAIN barriers' = {} /\ pending' = rest /\ p.kind = "EXIT"
    BY <1>8, <1>10
  <1>. QED
    BY <1>8, <1>9, <1>10 DEF Stepped

LEMMA ClaimsFall ==
  ASSUME NEW n \in Nat, NEW e \in Int, NEW b \in Int, NEW d \in Int,
         NEW e2 \in Int, NEW b2 \in Int, NEW grown \in {0, 1}, NEW emitted \in Int,
         n + (e + b + d + 0) <= emitted, e2 + b2 + grown <= e + b
  PROVE  n + grown + (e2 + b2 + 0 + d) <= emitted
  OBVIOUS

\* What is opened, or may still be, has no more claims than before.
LEMMA StaysAccounted ==
  ASSUME BookInv, NEW p \in ToSet(pending), NEW rest, Rest(p, rest), Stepped(p, rest),
         Shrinks \/ Grows(p), released = <<>>, released' = deferred, deferred' = <<>>,
         signals' = signals
  PROVE  Accounted'
  <1>1. /\ Accounted /\ Orderly(pending) /\ deferred \in Seq(Signal) /\ signals \in Int
    BY DEF BookInv, TypeOK
  <1>2. /\ \A i \in DOMAIN rest : rest[i] \in ToSet(pending)
        /\ p.kind = "ENTRY" => rest = <<>>
    BY DEF Rest
  <1>3. PICK k \in DOMAIN pending : pending[k] = p
    BY DEF ToSet
  <1>4. HasEntry(rest) => HasEntry(pending)
    <2>1. \A i \in DOMAIN rest : \E j \in DOMAIN pending : pending[j] = rest[i]
      BY <1>2 DEF ToSet
    <2>. QED
      BY <2>1 DEF HasEntry
  <1>5. PICK n \in Nat : DOMAIN opened = 1 .. n /\ n + Claims <= signals
    BY <1>1 DEF Accounted
  <1>6. Len(released) = 0 /\ Len(deferred') = 0 /\ Len(released') = Len(deferred)
        /\ Len(deferred) \in Int
    BY <1>1
  <1>7. n + (One(HasEntry(pending)) + One(DOMAIN barriers # {}) + Len(deferred) + 0) <= signals
    <2>1. Claims = One(HasEntry(pending)) + One(DOMAIN barriers # {}) + Len(deferred) + Len(released)
      BY DEF Claims
    <2>. QED
      BY <1>5, <1>6, <2>1, Zenon
  <1>8. Claims' = One(HasEntry(pending')) + One(DOMAIN barriers' # {}) + 0 + Len(deferred)
    <2>1. Claims' = One(HasEntry(pending')) + One(DOMAIN barriers' # {}) + Len(deferred')
                    + Len(released')
      BY DEF Claims, HasEntry, One
    <2>. QED
      BY <1>6, <2>1, Zenon
  <1>9. /\ One(HasEntry(pending)) \in Int /\ One(DOMAIN barriers # {}) \in Int
        /\ One(HasEntry(pending')) \in Int /\ One(DOMAIN barriers' # {}) \in Int
    BY DEF One
  <1>10. CASE Shrinks
    <2>1. One(HasEntry(pending')) + One(DOMAIN barriers' # {}) + 0
            <= One(HasEntry(pending)) + One(DOMAIN barriers # {})
      <3>1. CASE pending' = rest /\ (DOMAIN barriers' = {} \/ DOMAIN barriers # {})
        BY <1>4, <3>1 DEF One
      <3>2. CASE DOMAIN barriers # {} /\ DOMAIN barriers' = {}
        BY <3>2 DEF One
      <3>. QED
        BY <3>1, <3>2 DEF Stepped
    <2>2. n + 0 + (One(HasEntry(pending')) + One(DOMAIN barriers' # {}) + 0 + Len(deferred)) <= signals
      BY <1>6, <1>1, <1>7, <1>9, <2>1, ClaimsFall, Zenon
    <2>3. n + 0 = n
      OBVIOUS
    <2>4. n + Claims' <= signals'
      BY <1>8, <2>2, <2>3, Zenon
    <2>. QED
      BY <1>5, <1>10, <2>4 DEF Accounted, Shrinks
  <1>11. CASE Grows(p)
    <2>1. p.kind = "ENTRY" /\ rest = <<>> /\ HasEntry(pending)
      BY <1>2, <1>3, <1>11 DEF Grows, HasEntry
    <2>2. pending' = <<>> /\ barriers' = barriers
      BY <2>1 DEF Stepped
    <2>3. ~HasEntry(pending')
      BY <2>2 DEF HasEntry
    <2>4. One(HasEntry(pending')) + One(DOMAIN barriers' # {}) + 1
            <= One(HasEntry(pending)) + One(DOMAIN barriers # {})
      BY <2>1, <2>2, <2>3 DEF One
    <2>5. n + 1 + (One(HasEntry(pending')) + One(DOMAIN barriers' # {}) + 0 + Len(deferred)) <= signals
      BY <1>6, <1>1, <1>7, <1>9, <2>4, ClaimsFall, Zenon
    <2>6. n + 1 + Claims' <= signals'
      BY <1>8, <2>5, Zenon
    <2>7. DOMAIN opened' = 1 .. n + 1 /\ n + 1 \in Nat
      BY <1>5, <1>11, NextTicketFacts DEF Grows
    <2>. QED
      BY <2>6, <2>7 DEF Accounted
  <1>. QED
    BY <1>10, <1>11

LEMMA ResolveKeeps ==
  ASSUME BookInv, NEW p \in ToSet(ready), Filling(p), Resolve(p), Books', Shrinks \/ Grows(p)
  PROVE  BookInv'
  <1> DEFINE rest == LeaveQueue(p)
  <1>1. /\ TypeOK /\ Held /\ Snapshotted /\ ready \in Seq(Command) /\ deferred \in Seq(Signal)
    BY DEF BookInv, TypeOK
  <1>2. /\ released = <<>> /\ ready # <<>> /\ p = Head(ready) /\ FillPhase
    BY DEF Filling
  <1>3. /\ BarrierStep(p, positions', rest) /\ released' = deferred /\ deferred' = <<>>
        /\ ready' = Tail(ready) /\ UNCHANGED <<now, tick, phase, signals>>
    BY DEF Resolve, ReleaseDeferred
  <1>4. p \in ToSet(pending)
    BY <1>1 DEF Snapshotted
  <1>5. Rest(p, rest)
    BY <1>4, RestFacts
  <1>6. Cardinality(DOMAIN positions') \in Nat
    BY <1>4, BookAfter
  <1>7. Stepped(p, rest)
    BY <1>3, <1>4, <1>6, SteppedFacts
  <1> HIDE DEF rest
  <1>8. NeverHedged' /\ CapKept' /\ Flight' /\ Orderly(pending')
        /\ \A s \in DOMAIN barriers' : barriers'[s] \in Barrier
    BY <1>4, <1>5, <1>7, StaysWithinRules
  <1>9. Accounted'
    BY <1>2, <1>3, <1>4, <1>5, <1>7, StaysAccounted
  <1>10. /\ Tail(ready) \in Seq(Command) /\ IsInjective(Tail(ready))
         /\ ToSet(Tail(ready)) = ToSet(ready) \ {p}
    BY <1>1, <1>2, TailFacts DEF Snapshotted
  <1>11. Snapshotted'
    <2>1. ToSet(ready') \subseteq ToSet(pending')
      <3>1. ToSet(ready') \subseteq ToSet(rest)
        BY <1>1, <1>3, <1>5, <1>10 DEF Snapshotted, Rest
      <3>2. CASE pending' = rest
        BY <3>1, <3>2
      <3>3. CASE rest = <<>>
        <4>1. ToSet(rest) = {}
          BY <3>3 DEF ToSet
        <4>. QED
          BY <3>1, <4>1
      <3>. QED
        BY <1>7, <3>2, <3>3 DEF Stepped
    <2>2. FillPhase'
      BY <1>2, <1>3 DEF FillPhase
    <2>. QED
      BY <1>3, <1>10, <2>1, <2>2 DEF Snapshotted
  <1>12. Held'
    <2>1. Rising(deferred') /\ Rising(released') /\ Ahead(deferred', released')
      BY <1>1, <1>3 DEF Held, Rising, Ahead
    <2>2. Known(deferred)' /\ Known(released)'
      BY <1>1, <1>3 DEF Held, Known
    <2>. QED
      BY <1>3, <2>1, <2>2 DEF Held
  <1>13. TypeOK'
    <2>1. <<>> \in Seq(Signal)
      OBVIOUS
    <2>2. deferred' \in Seq(Signal) /\ released' \in Seq(Signal) /\ ready' \in Seq(Command)
          /\ pending' \in Seq(Command)
      BY <1>1, <1>3, <1>8, <1>10, <2>1 DEF Orderly
    <2>3. /\ DOMAIN positions' \subseteq Ticket
          /\ \A t \in DOMAIN positions' : positions'[t] \in Position
          /\ openTickets' \in Seq(Ticket) /\ ledger' \in Int
          /\ DOMAIN traded' = DOMAIN opened'
      BY DEF Books, Agrees
    <2>. QED
      BY <1>1, <1>3, <1>8, <2>2, <2>3 DEF TypeOK
  <1>. QED
    BY <1>8, <1>9, <1>11, <1>12, <1>13 DEF BookInv

-----------------------------------------------------------------------------
(* Every step keeps the invariant *)

LEMMA NotExecutedStep ==
  ASSUME BookInv, NEW p \in ToSet(ready), NotExecuted(p)
  PROVE  BookInv'
  <1>1. UNCHANGED bookVars /\ Filling(p) /\ Resolve(p)
    BY DEF NotExecuted
  <1>2. Books' /\ Shrinks
    BY <1>1 DEF BookInv, Books, bookVars, Shrinks
  <1>. QED
    BY <1>1, <1>2, ResolveKeeps

LEMMA FillExitStep ==
  ASSUME BookInv, NEW p \in ToSet(ready), FillExit(p)
  PROVE  BookInv'
  <1>1. /\ Filling(p) /\ Resolve(p) /\ p.ticket \in DOMAIN positions /\ p.kind = "EXIT"
    BY DEF FillExit
  <1> DEFINE t == p.ticket
             held == positions[t].quantity
  <1>2. PICK quantity \in FillQuantities(p.quantity) :
          SettleClose(t, IF quantity < held THEN quantity ELSE held)
    BY DEF FillExit
  <1>3. Books /\ p \in Command /\ positions[t] \in Position
    <2>1. ready \in Seq(Command) /\ Books /\ \A u \in DOMAIN positions : positions[u] \in Position
      BY DEF BookInv, TypeOK
    <2>2. p \in Command
      BY <2>1 DEF ToSet
    <2>. QED
      BY <1>1, <2>1, <2>2
  <1>4. quantity \in Nat /\ quantity >= 1
    <2>1. p.quantity \in Nat /\ p.quantity >= 1
      BY <1>3 DEF Command
    <2>2. p.quantity \div 2 \in Int
      BY <2>1
    <2>3. quantity = p.quantity \/ (quantity = p.quantity \div 2 /\ p.quantity \div 2 > 0)
      BY <1>2 DEF FillQuantities
    <2>. QED
      BY <2>1, <2>2, <2>3
  <1>5. PICK q \in 1 .. held : SettleClose(t, q)
    <2>1. held \in Nat /\ held >= 1
      BY <1>3 DEF Position
    <2>2. (IF quantity < held THEN quantity ELSE held) \in 1 .. held
      BY <1>4, <2>1
    <2>. QED
      BY <1>2, <2>2
  <1>6. /\ positions' = IF q = held THEN Without(positions, {t})
                        ELSE With(positions, t, [positions[t] EXCEPT !.quantity = @ - q])
        /\ openTickets' = IF q = held THEN Among(openTickets, Ticket \ {t}) ELSE openTickets
        /\ ledger' = ledger - Signed(positions[t].direction, q)
        /\ traded' = With(traded, t, traded[t] + q)
        /\ opened' = opened
    BY <1>5 DEF SettleClose
  <1>7. Agrees(IF q = held THEN Without(positions, {t})
               ELSE With(positions, t, [positions[t] EXCEPT !.quantity = @ - q]),
               IF q = held THEN Among(openTickets, Ticket \ {t}) ELSE openTickets,
               ledger - Signed(positions[t].direction, q), opened,
               With(traded, t, traded[t] + q))
    BY <1>1, <1>3, CloseAgrees DEF Books
  <1>8. Books'
    BY <1>6, <1>7 DEF Books
  <1>9. Shrinks
    <2>1. CASE q = held
      BY <1>6, <2>1 DEF Shrinks, Without
    <2>2. CASE q # held
      <3>1. /\ DOMAIN positions' = DOMAIN positions
            /\ positions'[t] = [positions[t] EXCEPT !.quantity = @ - q]
            /\ \A u \in DOMAIN positions : u # t => positions'[u] = positions[u]
        BY <1>1, <1>6, <2>2 DEF With
      <3>2. positions'[t].direction = positions[t].direction
        BY <1>3, <3>1 DEF Position
      <3>. QED
        BY <1>6, <3>1, <3>2 DEF Shrinks
    <2>. QED
      BY <2>1, <2>2
  <1>. QED
    BY <1>1, <1>8, <1>9, ResolveKeeps

LEMMA FillEntryStep ==
  ASSUME BookInv, NEW p \in ToSet(ready), FillEntry(p)
  PROVE  BookInv'
  <1> DEFINE t == NextTicket
  <1>1. Filling(p) /\ Resolve(p) /\ p.kind = "ENTRY"
    BY DEF FillEntry
  <1>2. PICK quantity \in FillQuantities(p.quantity) :
          /\ positions' = With(positions, t, [direction |-> p.direction, quantity |-> quantity,
                                              opened_at |-> tick.time])
          /\ openTickets' = Append(openTickets, t)
          /\ ledger' = ledger + Signed(p.direction, quantity)
          /\ opened' = With(opened, t, quantity)
          /\ traded' = With(traded, t, 0)
    BY DEF FillEntry
  <1>3. /\ Books /\ Accounted /\ p \in Command /\ tick.time \in Int /\ p \in ToSet(pending)
        /\ signals \in 0 .. MaxSignals /\ deferred \in Seq(Signal) /\ released \in Seq(Signal)
    <2>1. ready \in Seq(Command) /\ ToSet(ready) \subseteq ToSet(pending)
      BY DEF BookInv, TypeOK, Snapshotted
    <2>2. p \in Command /\ p \in ToSet(pending)
      <3>1. p \in Command
        BY <2>1 DEF ToSet
      <3>. QED
        BY <2>1, <3>1
    <2>. QED
      BY <2>2 DEF BookInv, TypeOK
  <1>4. quantity \in Nat \ {0}
    <2>1. p.quantity \in Nat /\ p.quantity >= 1
      BY <1>3 DEF Command
    <2>2. p.quantity \div 2 \in Int
      BY <2>1
    <2>3. quantity = p.quantity \/ (quantity = p.quantity \div 2 /\ p.quantity \div 2 > 0)
      BY <1>2 DEF FillQuantities
    <2>. QED
      BY <2>1, <2>2, <2>3
  <1>5. PICK n \in Nat : DOMAIN opened = 1 .. n /\ n + Claims <= signals
    BY <1>3 DEF Accounted
  <1>6. t = n + 1 /\ t \notin DOMAIN opened
    BY <1>5, NextTicketFacts
  <1>7. n + 1 <= MaxSignals
    <2>1. HasEntry(pending)
      <3>1. PICK k \in DOMAIN pending : pending[k] = p
        BY <1>3 DEF ToSet
      <3>. QED
        BY <1>1, <3>1 DEF HasEntry
    <2>2. One(HasEntry(pending)) = 1
      BY <2>1 DEF One
    <2>3. One(DOMAIN barriers # {}) \in Nat
      BY DEF One
    <2>4. Len(deferred) \in Nat /\ Len(released) \in Nat
      BY <1>3
    <2>5. 1 + One(DOMAIN barriers # {}) + Len(deferred) + Len(released) = Claims
      BY <2>2, Zenon DEF Claims
    <2>6. Claims >= 1 /\ Claims \in Nat
      BY <2>3, <2>4, <2>5
    <2>. QED
      BY <1>3, <1>5, <2>6, ReplayAssumption
  <1>8. t \in Ticket
    BY <1>6, <1>7, ReplayAssumption DEF Ticket
  <1> DEFINE position == [direction |-> p.direction, quantity |-> quantity,
                          opened_at |-> tick.time]
  <1>9. position \in Position /\ position.direction = p.direction /\ position.quantity = quantity
    BY <1>3, <1>4 DEF Position, Command
  <1> HIDE DEF position, t
  <1>10. Agrees(With(positions, t, position), Append(openTickets, t),
                ledger + Signed(position.direction, position.quantity),
                With(opened, t, position.quantity), With(traded, t, 0))
    BY <1>3, <1>6, <1>8, <1>9, OpenAgrees DEF Books
  <1>11. Books'
    BY <1>2, <1>9, <1>10 DEF Books, position
  <1>12. Grows(p)
    <2>1. /\ DOMAIN positions' = DOMAIN positions \cup {t} /\ positions'[t] = position
          /\ \A u \in DOMAIN positions : u # t => positions'[u] = positions[u]
      BY <1>2 DEF With, position
    <2>2. DOMAIN opened' = DOMAIN opened \cup {t}
      BY <1>2 DEF With
    <2>. QED
      BY <1>1, <1>9, <2>1, <2>2 DEF Grows, t
  <1>. QED
    BY <1>1, <1>11, <1>12, ResolveKeeps

LEMMA ApplyPendingStep ==
  ASSUME BookInv, ApplyPending
  PROVE  BookInv'
  <1> DEFINE executable == Among(pending, {p \in ToSet(pending) : Executable(p)})
  <1>1. /\ FillPhase /\ ready = <<>> /\ released = <<>>
        /\ ready' = executable
        /\ phase' = IF executable = <<>> THEN After[phase] ELSE phase
        /\ UNCHANGED <<now, tick, bookVars, queueVars, signals>>
    BY DEF ApplyPending
  <1>2. BookInv /\ TypeOK /\ pending \in Seq(Command) /\ IsInjective(pending) /\ phase \in Phase
    BY OrderlyInjective DEF BookInv, TypeOK
  <1>3. /\ executable \in Seq(Command) /\ ToSet(executable) \subseteq ToSet(pending)
        /\ IsInjective(executable)
    <2> DEFINE S == {p \in ToSet(pending) : Executable(p)}
    <2> HIDE DEF S
    <2>1. /\ Among(pending, S) \in Seq(Command) /\ ToSet(Among(pending, S)) = ToSet(pending) \cap S
          /\ IsInjective(Among(pending, S))
      BY <1>2, AmongFacts
    <2>2. ToSet(Among(pending, S)) \subseteq ToSet(pending)
      BY <2>1
    <2>. QED
      BY <2>1, <2>2 DEF S
  <1> HIDE DEF executable
  <1>4. phase' \in Phase
    BY <1>1, <1>2 DEF Phase, After, FillPhase
  <1>5. TypeOK'
    BY <1>1, <1>2, <1>3, <1>4 DEF TypeOK, bookVars, queueVars
  <1>6. Snapshotted'
    <2>1. ready' = <<>> \/ FillPhase'
      BY <1>1 DEF FillPhase
    <2>. QED
      BY <1>1, <1>3, <2>1 DEF Snapshotted, queueVars
  <1>7. /\ Books' /\ Orderly(pending') /\ Held' /\ NeverHedged' /\ CapKept' /\ Flight'
        /\ Accounted'
    BY <1>1, <1>2 DEF BookInv, bookVars, queueVars, Books, Held, Known, NeverHedged, CapKept,
       PendingEntries, Entries, Flight, Accounted, Claims, HasEntry, One
  <1>. QED
    BY <1>5, <1>6, <1>7 DEF BookInv

LEMMA ApplyProtectionStep ==
  ASSUME BookInv, ApplyProtection
  PROVE  BookInv'
  <1> DEFINE stopped == {t \in DOMAIN positions : Fires(t)}
  <1>1. /\ phase \in {"protection_before", "protection_after"}
        /\ positions' = Without(positions, stopped)
        /\ openTickets' = Among(openTickets, Ticket \ stopped)
        /\ ledger' = ledger - NetUnits(positions, Among(openTickets, stopped))
        /\ traded' = [t \in DOMAIN traded |->
                        traded[t] + IF t \in stopped THEN positions[t].quantity ELSE 0]
        /\ phase' = After[phase]
        /\ tick' = IF phase' = "idle" THEN NoTick ELSE tick
        /\ UNCHANGED <<now, opened, queueVars, ready, signals>>
    BY DEF ApplyProtection, Protected
  <1>2. stopped \in SUBSET DOMAIN positions
    OBVIOUS
  <1> HIDE DEF stopped
  <1>3. /\ TypeOK /\ Books /\ NeverHedged /\ CapKept /\ Flight /\ Snapshotted /\ Orderly(pending)
    BY DEF BookInv
  <1>4. Books'
    <2>1. Agrees(Without(positions, stopped), Among(openTickets, Ticket \ stopped),
                 ledger - NetUnits(positions, Among(openTickets, stopped)), opened,
                 [t \in DOMAIN traded |->
                    traded[t] + IF t \in stopped THEN positions[t].quantity ELSE 0])
      BY <1>2, <1>3, ProtectAgrees DEF Books
    <2>. QED
      BY <1>1, <2>1 DEF Books
  <1>5. /\ DOMAIN positions' \subseteq DOMAIN positions
        /\ \A t \in DOMAIN positions' : positions'[t] = positions[t]
    BY <1>1 DEF Without
  <1>6. phase' \in Phase /\ ready = <<>> /\ released = <<>>
    BY <1>1, <1>3 DEF After, Phase, Snapshotted, FillPhase
  <1>7. tick' \in [time: Int, hit: SUBSET Ticket]
    <2>1. NoTick \in [time: Int, hit: SUBSET Ticket]
      BY DEF NoTick
    <2>. QED
      BY <1>1, <1>3, <2>1 DEF TypeOK
  <1>8. TypeOK'
    <2>1. /\ DOMAIN positions' \subseteq Ticket
          /\ \A t \in DOMAIN positions' : positions'[t] \in Position
          /\ openTickets' \in Seq(Ticket) /\ ledger' \in Int
          /\ DOMAIN traded' = DOMAIN opened'
      BY <1>4 DEF Books, Agrees
    <2>. QED
      BY <1>1, <1>3, <1>6, <1>7, <2>1 DEF TypeOK, queueVars
  <1>9. NeverHedged' /\ Flight'
    BY <1>1, <1>3, <1>5 DEF NeverHedged, Flight, queueVars
  <1>10. CapKept'
    <2>1. /\ Cardinality(DOMAIN positions') <= Cardinality(DOMAIN positions)
          /\ Cardinality(DOMAIN positions) \in Nat
      BY <1>3, <1>5, BookFinite, FS_Subset
    <2>2. IsFiniteSet(DOMAIN positions')
      BY <1>3, <1>5, BookFinite, FS_Subset
    <2>3. Cardinality(DOMAIN positions') \in Nat
      BY <2>2, FS_CardinalityType
    <2>4. Entries(pending) = 0 \/ Entries(pending) = 1
      BY <1>3, EntriesCounted
    <2>5. Entries(pending') = Entries(pending)
      BY <1>1 DEF queueVars
    <2>. QED
      BY <1>3, <2>1, <2>3, <2>4, <2>5, ReplayAssumption DEF CapKept, PendingEntries
  <1>11. Snapshotted'
    BY <1>1, <1>3, <1>6 DEF Snapshotted, queueVars
  <1>12. Orderly(pending') /\ Held' /\ Accounted'
    BY <1>1 DEF BookInv, queueVars, Held, Known, Accounted, Claims, HasEntry, One
  <1>. QED
    BY <1>4, <1>8, <1>9, <1>10, <1>11, <1>12 DEF BookInv

\* Steps that only move the clock or the phase, with nothing left to fill.
Moves ==
  /\ UNCHANGED <<bookVars, queueVars, ready, signals>>
  /\ ready = <<>> /\ released = <<>>
  /\ now' \in Nat /\ tick' \in [time: Int, hit: SUBSET Ticket] /\ phase' \in Phase

LEMMA MovesKeep ==
  ASSUME BookInv, Moves
  PROVE  BookInv'
  <1>1. TypeOK'
    BY DEF BookInv, TypeOK, Moves, bookVars, queueVars
  <1>2. Snapshotted'
    BY DEF BookInv, Snapshotted, Moves, bookVars, queueVars
  <1>3. /\ Books' /\ Orderly(pending') /\ Held' /\ NeverHedged' /\ CapKept' /\ Flight'
        /\ Accounted'
    BY DEF BookInv, Moves, bookVars, queueVars, Books, Held, Known, NeverHedged, CapKept,
       PendingEntries, Entries, Flight, Accounted, Claims, HasEntry, One
  <1>. QED
    BY <1>1, <1>2, <1>3 DEF BookInv

LEMMA OtherSteps ==
  ASSUME BookInv,
         \/ StrategyDone
         \/ \E later \in {0, 1}, skew \in Skews, hit \in SUBSET Ticket :
              TickArrives(later, skew, hit)
  PROVE  BookInv'
  <1>1. TypeOK /\ Snapshotted
    BY DEF BookInv
  <1>2. CASE StrategyDone
    <2>1. Moves
      BY <1>1, <1>2 DEF StrategyDone, Moves, TypeOK, Snapshotted, FillPhase, After, Phase
    <2>. QED
      BY <2>1, MovesKeep
  <1>3. CASE \E later \in {0, 1}, skew \in Skews, hit \in SUBSET Ticket :
               TickArrives(later, skew, hit)
    <2>1. PICK later \in {0, 1}, skew \in Skews, hit \in SUBSET Ticket :
            TickArrives(later, skew, hit)
      BY <1>3
    <2>2. now' \in Nat /\ skew \in Int
      BY <1>1, <2>1, ReplayAssumption DEF TickArrives, TypeOK
    <2>3. now' + skew \in Int
      BY <2>2
    <2>4. Moves
      BY <1>1, <2>1, <2>2, <2>3 DEF TickArrives, Moves, Snapshotted, FillPhase, Phase
    <2>. QED
      BY <2>4, MovesKeep
  <1>. QED
    BY <1>2, <1>3

LEMMA NextBookInv ==
  ASSUME BookInv, [Next]_vars
  PROVE  BookInv'
  <1>1. CASE ApplyPending
    BY <1>1, ApplyPendingStep
  <1>2. CASE \E p \in ToSet(ready) : NotExecuted(p) \/ FillExit(p) \/ FillEntry(p)
    BY <1>2, NotExecutedStep, FillExitStep, FillEntryStep
  <1>3. CASE ReleaseSignal
    BY <1>3, ReleaseStep
  <1>4. CASE ApplyProtection
    BY <1>4, ApplyProtectionStep
  <1>5. CASE \E direction \in Direction, exitOnly \in BOOLEAN : StrategySignal(direction, exitOnly)
    BY <1>5, StrategyStep
  <1>6. CASE \/ StrategyDone
             \/ \E later \in {0, 1}, skew \in Skews, hit \in SUBSET Ticket :
                  TickArrives(later, skew, hit)
    BY <1>6, OtherSteps
  <1>7. CASE UNCHANGED vars
    BY <1>7 DEF BookInv, vars, TypeOK, bookVars, queueVars, Books, Held, Known, NeverHedged,
       CapKept, PendingEntries, Entries, Flight, Snapshotted, FillPhase, Accounted, Claims,
       HasEntry, One
  <1>. QED
    BY <1>1, <1>2, <1>3, <1>4, <1>5, <1>6, <1>7 DEF Next

LEMMA InitBookInv ==
  ASSUME Init
  PROVE  BookInv
  <1>1. /\ now = 0 /\ tick = [time |-> 0, hit |-> {}] /\ phase = "idle"
        /\ positions = EmptyBook /\ openTickets = <<>> /\ ledger = 0
        /\ pending = <<>> /\ barriers = EmptyBook
        /\ deferred = <<>> /\ ready = <<>> /\ released = <<>>
        /\ signals = 0 /\ opened = EmptyBook /\ traded = EmptyBook
    BY DEF Init, NoTick
  <1>2. DOMAIN EmptyBook = {}
    BY DEF EmptyBook
  <1>3. TypeOK
    <2>1. <<>> \in Seq(Ticket) /\ <<>> \in Seq(Command) /\ <<>> \in Seq(Signal)
      OBVIOUS
    <2>2. tick \in [time: Int, hit: SUBSET Ticket] /\ signals \in 0 .. MaxSignals
      BY <1>1, ReplayAssumption
    <2>. QED
      BY <1>1, <1>2, <2>1, <2>2 DEF TypeOK, Phase
  <1>4. Books
    BY <1>1, EmptyAgrees DEF Books
  <1>5. Orderly(pending)
    BY <1>1, <1>3 DEF Orderly, Single, TypeOK
  <1>6. Held
    BY <1>1 DEF Held, Rising, Ahead, Known
  <1>7. NeverHedged /\ Flight
    BY <1>1, <1>2 DEF NeverHedged, Flight
  <1>8. ~HasEntry(pending)
    BY <1>1 DEF HasEntry
  <1>9. CapKept
    <2>1. Entries(pending) = 0 /\ Cardinality(DOMAIN positions) = 0
      BY <1>1, <1>2, <1>5, <1>8, EntriesCounted, FS_EmptySet
    <2>. QED
      BY <2>1, ReplayAssumption DEF CapKept, PendingEntries
  <1>10. Snapshotted
    <2>1. ToSet(<<>>) = {} /\ IsInjective(<<>>)
      BY DEF ToSet, IsInjective
    <2>. QED
      BY <1>1, <2>1 DEF Snapshotted
  <1>11. Accounted
    <2>1. Len(<<>>) = 0
      OBVIOUS
    <2>2. One(HasEntry(pending)) = 0 /\ One(DOMAIN barriers # {}) = 0
      BY <1>1, <1>2, <1>8 DEF One
    <2>3. Claims = 0
      <3>1. Claims = 0 + 0 + 0 + 0
        BY <1>1, <2>1, <2>2, Zenon DEF Claims
      <3>. QED
        BY <3>1
    <2>4. 1 .. 0 = {} /\ 0 \in Nat
      OBVIOUS
    <2>. QED
      BY <1>1, <1>2, <2>3, <2>4 DEF Accounted
  <1>. QED
    BY <1>3, <1>4, <1>5, <1>6, <1>7, <1>9, <1>10, <1>11 DEF BookInv

-----------------------------------------------------------------------------
(* What the invariant says *)

LEMMA HeldInOrder ==
  ASSUME Held, deferred \in Seq(Signal), released \in Seq(Signal)
  PROVE  SignalsInOrder
  <1> DEFINE held == deferred \o released
             d == Len(deferred)
             r == Len(released)
  <1>1. /\ d \in Nat /\ r \in Nat /\ DOMAIN held = 1 .. d + r
        /\ DOMAIN deferred = 1 .. d /\ DOMAIN released = 1 .. r
        /\ \A i \in 1 .. d : held[i] = deferred[i]
        /\ \A i \in d + 1 .. d + r : held[i] = released[i - d]
    OBVIOUS
  <1> HIDE DEF held, d, r
  <1>2. ASSUME NEW i \in DOMAIN held, NEW j \in DOMAIN held, i < j
        PROVE  held[i].id < held[j].id
    <2>1. CASE j <= d
      <3>1. i \in DOMAIN deferred /\ j \in DOMAIN deferred
        BY <1>1, <1>2, <2>1
      <3>. QED
        BY <1>1, <1>2, <3>1 DEF Held, Rising
    <2>2. CASE i <= d /\ j > d
      <3>1. i \in DOMAIN deferred /\ j - d \in DOMAIN released /\ j \in d + 1 .. d + r
        BY <1>1, <1>2, <2>2
      <3>. QED
        BY <1>1, <3>1 DEF Held, Ahead
    <2>3. CASE i > d
      <3>1. /\ i - d \in DOMAIN released /\ j - d \in DOMAIN released /\ i - d < j - d
            /\ i \in d + 1 .. d + r /\ j \in d + 1 .. d + r
        BY <1>1, <1>2, <2>3
      <3>. QED
        BY <1>1, <3>1 DEF Held, Rising
    <2>. QED
      BY <1>1, <1>2, <2>1, <2>2, <2>3
  <1>. QED
    BY <1>2 DEF SignalsInOrder, held

LEMMA InvariantGives ==
  ASSUME BookInv
  PROVE  BookWithinRules /\ QueueOrderly
  <1>1. /\ TypeOK /\ Books /\ Orderly(pending) /\ Held /\ NeverHedged /\ CapKept /\ Flight
        /\ pending \in Seq(Command) /\ deferred \in Seq(Signal) /\ released \in Seq(Signal)
    BY DEF BookInv, TypeOK
  <1>2. BooksAgree
    BY <1>1 DEF BooksAgree, Books, Agrees
  <1>3. OneResolution
    BY <1>1 DEF OneResolution, Orderly, Single
  <1>4. WaitsEnd
    <2>1. ASSUME NEW s \in DOMAIN barriers
          PROVE  \E i \in DOMAIN pending : pending[i].kind = "EXIT" /\ pending[i].signal = s
      <3>1. 1 \in DOMAIN pending
        BY <1>1, <2>1 DEF Flight
      <3>. QED
        BY <1>1, <2>1, <3>1 DEF Flight
    <2>. QED
      BY <1>1, <2>1 DEF WaitsEnd, Held
  <1>5. SignalsInOrder
    BY <1>1, HeldInOrder
  <1>. QED
    BY <1>1, <1>2, <1>3, <1>4, <1>5 DEF BookWithinRules, QueueOrderly

\* However fills, rejects, no-ops and protection interleave with signals, the book
\* never holds both sides, never more positions than the cap, and the ledger, the
\* tickets and the simulator agree to the unit (engine.py, _Barrier, _settle_close).
THEOREM BookStaysWithinRules == Spec => []BookWithinRules
  <1>1. BookInv /\ [Next]_vars => BookInv'
    BY NextBookInv
  <1>. QED
    BY InitBookInv, <1>1, InvariantGives, PTL DEF Spec

\* The queue resolves one entry or the legs of one close at a time, no held signal
\* and no reversal is left without something that will hand it back, and held
\* signals keep the order of the strategy (engine.py, _release_deferred).
THEOREM QueueStaysOrderly == Spec => []QueueOrderly
  <1>1. BookInv /\ [Next]_vars => BookInv'
    BY NextBookInv
  <1>. QED
    BY InitBookInv, <1>1, InvariantGives, PTL DEF Spec

-----------------------------------------------------------------------------
(* Preflight: for any volumes of the broker and any number of tries.       *)

\* Between the first order and the end of the run.
Trading ==
  {"identify", "protect", "reduce", "fresh", "close", "history", "probe", "watch",
   "cleanup", "chase", "flatten"}
\* Up to the order of the probe.
BeforeProbe == {"connect", "open", "identify", "protect", "reduce", "fresh", "close", "history",
                "probe"}

ProbeTypes ==
  /\ stage \in Trading \cup {"connect", "open", "finish", "finished", "raised"}
  /\ account \in [mode : {"HEDGING", "NETTING"}, expected : {"HEDGING", "NETTING"},
                  trade : {"DEMO", "REAL"}, cycle : BOOLEAN, held : Nat]
  /\ pos \in [Probe!Ticket -> Nat]
  /\ failed \in BOOLEAN
  /\ hidden \subseteq Probe!Ticket /\ dealt \subseteq Probe!Own /\ chase \subseteq Probe!Own
  /\ ticket \in Probe!Own \cup {Probe!NoTicket}
  /\ fresh \in Nat

\* What the run opened it has deals of, and it trades on nobody else's position:
\* a netting account that holds one gets no order.
OwnExposure ==
  /\ pos["held"] = account.held
  /\ stage \in Trading /\ account.mode = "NETTING" => account.held = 0
  /\ \A t \in Probe!Own : pos[t] > 0 => t \in dealt
  /\ fired \subseteq dealt
  /\ stage \in {"connect", "open"} => dealt = {}
  /\ stage \in BeforeProbe => "probe" \notin dealt

\* What the stage of the run says of its ticket and its last select.
Followed ==
  /\ stage = "identify" => ticket \in {"cycle", Probe!NoTicket}
  /\ stage \in {"protect", "reduce", "fresh", "close"} => ticket = "cycle"
  /\ stage = "watch" => ticket = "probe" /\ ~("probe" \in hidden /\ "probe" \in fired)
  /\ stage = "flatten" => ticket \in Probe!Own
  /\ stage \in {"close", "flatten"} => fresh > 0

\* Without a failed step the positions of the finished cycles are closed.
ClosedOut ==
  /\ stage \in {"cleanup", "chase", "flatten"} => failed
  /\ stage \in {"history", "probe", "finish", "finished"} /\ ~failed =>
       \A t \in Probe!Own : pos[t] = 0
  /\ stage = "watch" /\ ~failed => pos["cycle"] = 0

ProbeInv == ProbeTypes /\ OwnExposure /\ Followed /\ ClosedOut

LEMMA LandsOnOwn ==
  ASSUME ProbeInv, NEW t \in Probe!Own,
         (stage = "open" /\ ~Probe!Refuses) \/ stage = "probe"
  PROVE  /\ Probe!Lands(t) \in Probe!Own
         /\ stage = "open" \/ (\A u \in Probe!Own : pos[u] = 0) => Probe!Lands(t) = t
  <1>1. account.mode = "NETTING" => Probe!Open \subseteq Probe!Own
    <2>1. CASE stage = "open"
      BY <2>1 DEF Probe!Refuses
    <2>2. CASE stage = "probe"
      BY <2>2 DEF ProbeInv, ProbeTypes, OwnExposure, Trading, Probe!Open, Probe!Own, Probe!Ticket
    <2>. QED
      BY <2>1, <2>2
  <1>2. account.mode = "NETTING" /\ (stage = "open" \/ \A u \in Probe!Own : pos[u] = 0) =>
          Probe!Open = {}
    <2>1. CASE stage = "open"
      BY <2>1 DEF Probe!Refuses
    <2>2. CASE stage = "probe"
      BY <1>1, <2>2 DEF Probe!Open
    <2>. QED
      BY <2>1, <2>2
  <1>. QED
    BY <1>1, <1>2 DEF Probe!Lands

\* An order of t: what is on its position, and what its deals name.
Sound(t, a) ==
  /\ pos' \in [Probe!Ticket -> Nat] /\ pos'["held"] = pos["held"]
  /\ hidden' \subseteq Probe!Ticket /\ dealt' \subseteq Probe!Own
  /\ ticket' = IF a.id THEN t ELSE Probe!NoTicket
  /\ \A u \in Probe!Own : pos'[u] > 0 => u \in dealt'
  /\ fired' \subseteq dealt'
  /\ stage = "open" => dealt' \subseteq {t}
  /\ stage = "probe" => "probe" \notin fired'
  /\ (\A u \in Probe!Own : pos[u] = 0) => \A u \in Probe!Own \ {t} : pos'[u] = 0

LEMMA Bought ==
  ASSUME ProbeInv, NEW t \in Probe!Own, NEW n \in Nat, NEW a \in Probe!Answer(n),
         (stage = "open" /\ ~Probe!Refuses) \/ stage = "probe",
         Probe!Buy(t, a), UNCHANGED fired
  PROVE  Sound(t, a)
  <1> DEFINE l == Probe!Lands(t)
  <1>1. l \in Probe!Own /\ (stage = "open" \/ (\A u \in Probe!Own : pos[u] = 0) => l = t)
    BY LandsOnOwn
  <1>2. a.units \in Nat
    BY DEF Probe!Answer
  <1>3. /\ pos' = [pos EXCEPT ![l] = @ + a.units]
        /\ dealt' = IF a.units > 0 THEN dealt \cup {l} ELSE dealt
        /\ hidden' \in {hidden, hidden \cup {l}}
        /\ ticket' = IF a.id THEN t ELSE Probe!NoTicket
    BY DEF Probe!Buy
  <1>4. /\ pos \in [Probe!Ticket -> Nat] /\ hidden \subseteq Probe!Ticket /\ dealt \subseteq Probe!Own
        /\ \A u \in Probe!Own : pos[u] > 0 => u \in dealt
        /\ fired \subseteq dealt
        /\ stage = "open" => dealt = {}
        /\ stage = "probe" => "probe" \notin dealt
    BY DEF ProbeInv, ProbeTypes, OwnExposure, BeforeProbe
  <1>5. Probe!Own \subseteq Probe!Ticket /\ "held" \notin Probe!Own /\ "held" \in Probe!Ticket
    BY DEF Probe!Own, Probe!Ticket
  <1> HIDE DEF l
  <1>. QED
    BY <1>1, <1>2, <1>3, <1>4, <1>5 DEF Sound

\* A round of a closing loop: less is open, and what is known of it, if it ends
\* flat, is true.
Shrunk(t) ==
  /\ pos' \in [Probe!Ticket -> Nat]
  /\ \A u \in Probe!Ticket : pos'[u] <= pos[u] /\ (u # t => pos'[u] = pos[u])
  /\ fresh' \in Nat /\ (fresh' = 0 => pos'[t] = 0)

LEMMA Sold ==
  ASSUME ProbeInv, NEW t \in Probe!Own, fresh > 0, NEW a, Probe!Sell(t, a)
  PROVE  Shrunk(t)
  <1>1. a.units \in Nat /\ a.units <= pos[t]
    BY DEF Probe!Sell, Probe!Answer
  <1>2. /\ pos' = [pos EXCEPT ![t] = @ - a.units]
        /\ fresh' = IF a.retcode = "OTHER" THEN fresh ELSE pos'[t]
    BY DEF Probe!Sell, Probe!Remaining
  <1>3. pos \in [Probe!Ticket -> Nat] /\ fresh \in Nat /\ t \in Probe!Ticket
    BY DEF ProbeInv, ProbeTypes, Probe!Own, Probe!Ticket
  <1>. QED
    BY <1>1, <1>2, <1>3 DEF Shrunk

LEMMA ProbeInit == Probe!Init => ProbeInv
  <1>1. SUFFICES ASSUME Probe!Init PROVE ProbeInv
    OBVIOUS
  <1>2. VolumeMin \in Nat
    BY BooksAssumption
  <1>3. /\ pos \in [Probe!Ticket -> Nat]
        /\ account \in [mode : {"HEDGING", "NETTING"}, expected : {"HEDGING", "NETTING"},
                        trade : {"DEMO", "REAL"}, cycle : BOOLEAN, held : Nat]
        /\ pos["held"] = account.held
        /\ \A t \in Probe!Own : pos[t] = 0
    BY <1>1, <1>2 DEF Probe!Init, Probe!Ticket, Probe!Own
  <1>4. /\ stage = "connect" /\ failed = FALSE /\ ticket = Probe!NoTicket /\ fresh = 0
        /\ hidden = {} /\ dealt = {} /\ fired = {} /\ chase = {}
    BY <1>1 DEF Probe!Init
  <1>5. ProbeTypes
    BY <1>3, <1>4 DEF ProbeTypes
  <1>. QED
    BY <1>3, <1>4, <1>5 DEF ProbeInv, OwnExposure, Followed, ClosedOut, Trading, BeforeProbe

LEMMA ProbeStep == ProbeInv /\ [Probe!Next]_probeVars => ProbeInv'
  <1> SUFFICES ASSUME ProbeInv, [Probe!Next]_probeVars PROVE ProbeInv'
    OBVIOUS
  <1> USE DEF Trading, BeforeProbe, Probe!Ticket, Probe!Own, Probe!NoTicket
  <1>1. ASSUME NEW c \in BOOLEAN, NEW v \in BOOLEAN, NEW s \in BOOLEAN, Probe!Connect(c, v, s)
        PROVE  ProbeInv'
    BY <1>1 DEF ProbeInv, ProbeTypes, OwnExposure, Followed, ClosedOut, Probe!Connect,
       Probe!Step
  <1>2. CASE Probe!OpenRefused
    BY <1>2 DEF ProbeInv, ProbeTypes, OwnExposure, Followed, ClosedOut, Probe!OpenRefused,
       Probe!At, Probe!Step
  <1>3. CASE Probe!ProbeRefused
    BY <1>3 DEF ProbeInv, ProbeTypes, OwnExposure, Followed, ClosedOut, Probe!ProbeRefused,
       Probe!At, Probe!Step
  <1>4. CASE Probe!Identify
    <2>1. ProbeTypes'
      BY <1>4 DEF ProbeInv, ProbeTypes, OwnExposure, Followed, ClosedOut, Probe!Identify,
         Probe!Step, Probe!Select
    <2>2. OwnExposure'
      BY <1>4 DEF ProbeInv, ProbeTypes, OwnExposure, Followed, ClosedOut, Probe!Identify,
         Probe!Step, Probe!Select
    <2>3. Followed'
      BY <1>4 DEF ProbeInv, ProbeTypes, OwnExposure, Followed, ClosedOut, Probe!Identify,
         Probe!Step, Probe!Select
    <2>4. ClosedOut'
      BY <1>4 DEF ProbeInv, ProbeTypes, OwnExposure, Followed, ClosedOut, Probe!Identify,
         Probe!Step, Probe!Select
    <2>. QED
      BY <2>1, <2>2, <2>3, <2>4 DEF ProbeInv
  <1>5. CASE Probe!Fresh
    BY <1>5 DEF ProbeInv, ProbeTypes, OwnExposure, Followed, ClosedOut, Probe!Fresh,
       Probe!Step, Probe!Select
  <1>6. ASSUME NEW s \in BOOLEAN, NEW m \in BOOLEAN, Probe!Protect(s, m)
        PROVE  ProbeInv'
    BY <1>6 DEF ProbeInv, ProbeTypes, OwnExposure, Followed, ClosedOut, Probe!Protect,
       Probe!At, Probe!Step
  <1>7. ASSUME NEW c \in BOOLEAN, Probe!History(c)
        PROVE  ProbeInv'
    BY <1>7 DEF ProbeInv, ProbeTypes, OwnExposure, Followed, ClosedOut, Probe!History,
       Probe!At, Probe!Step
  <1>8. ASSUME NEW c \in BOOLEAN, Probe!Cleanup(c)
        PROVE  ProbeInv'
    BY <1>8 DEF ProbeInv, ProbeTypes, OwnExposure, Followed, ClosedOut, Probe!Cleanup
  <1>9. CASE Probe!StopSeen
    BY <1>9 DEF ProbeInv, ProbeTypes, OwnExposure, Followed, ClosedOut, Probe!StopSeen,
       Probe!At, Probe!Confirmed, Probe!Select
  <1>10. CASE Probe!StopNotSeen
    BY <1>10 DEF ProbeInv, ProbeTypes, OwnExposure, Followed, ClosedOut, Probe!StopNotSeen,
       Probe!At, Probe!Step
  <1>11. ASSUME NEW t \in Probe!Ticket, Probe!Candidate(t)
        PROVE  ProbeInv'
    BY <1>11 DEF ProbeInv, ProbeTypes, OwnExposure, Followed, ClosedOut, Probe!Candidate,
       Probe!Select
  <1>12. ASSUME NEW t \in Probe!Ticket, Probe!BrokerFires(t)
        PROVE  ProbeInv'
    BY <1>12 DEF ProbeInv, ProbeTypes, OwnExposure, Followed, ClosedOut, Probe!BrokerFires
  <1>13. CASE Probe!BrokerShows
    BY <1>13 DEF ProbeInv, ProbeTypes, OwnExposure, Followed, ClosedOut, Probe!BrokerShows
  <1>14. CASE Probe!Finish
    BY <1>14 DEF ProbeInv, ProbeTypes, OwnExposure, Followed, ClosedOut, Probe!Finish,
       Probe!At
  <1>15. CASE Probe!Raises
    BY <1>15 DEF ProbeInv, ProbeTypes, OwnExposure, Followed, ClosedOut, Probe!Raises
  <1>16. ASSUME NEW a, Probe!OpenCycle(a)
        PROVE  ProbeInv'
    <2>1. stage = "open" /\ ~Probe!Refuses /\ a \in Probe!Answer(Probe!CycleUnits) /\ Probe!Buy("cycle", a)
          /\ UNCHANGED <<account, fired, chase, fresh, tries>>
          /\ failed' = (failed \/ a.retcode = "OTHER")
          /\ stage' = IF a.retcode = "OTHER" THEN "cleanup" ELSE "identify"
      BY <1>16 DEF Probe!OpenCycle, Probe!Step
    <2>2. Probe!CycleUnits \in Nat
      BY BooksAssumption DEF Probe!CycleUnits
    <2>3. Sound("cycle", a)
      BY <2>1, <2>2, Bought DEF Sound
    <2>4. account.mode = "NETTING" => account.held = 0
      BY <2>1 DEF Probe!Refuses, Probe!Open, ProbeInv, ProbeTypes, OwnExposure
    <2>. QED
      BY <2>1, <2>3, <2>4 DEF Sound, ProbeInv, ProbeTypes, OwnExposure, Followed, ClosedOut
  <1>17. ASSUME NEW a, Probe!OpenProbe(a)
        PROVE  ProbeInv'
    <2>1. stage = "probe" /\ a \in Probe!Answer(VolumeMin) /\ Probe!Buy("probe", a)
          /\ UNCHANGED <<account, fired, chase, fresh, tries>>
          /\ failed' = (failed \/ a.retcode = "OTHER" \/ ~a.id)
          /\ stage' = IF a.retcode # "OTHER" /\ a.id THEN "watch" ELSE "cleanup"
      BY <1>17 DEF Probe!OpenProbe, Probe!Step
    <2>2. VolumeMin \in Nat
      BY BooksAssumption
    <2>3. Sound("probe", a)
      BY <2>1, <2>2, Bought DEF Sound
    <2>4. ~failed => \A u \in Probe!Own : pos[u] = 0
      BY <2>1 DEF ProbeInv, ClosedOut
    <2>. QED
      BY <2>1, <2>3, <2>4 DEF Sound, ProbeInv, ProbeTypes, OwnExposure, Followed, ClosedOut
  <1>18. ASSUME NEW a, Probe!Reduce(a)
        PROVE  ProbeInv'
    <2>1. /\ a.units \in Nat /\ a.units <= pos[ticket] /\ stage = "reduce" /\ stage' = "fresh"
          /\ pos' = [pos EXCEPT ![ticket] = @ - a.units]
          /\ failed' = (failed \/ a.retcode # "DONE")
          /\ UNCHANGED <<account, hidden, dealt, fired, ticket, before, chase, fresh, tries>>
      BY <1>18 DEF Probe!Reduce, Probe!At, Probe!Step, Probe!Answer
    <2>2. ticket = "cycle" /\ pos \in [Probe!Ticket -> Nat]
      BY <2>1 DEF ProbeInv, ProbeTypes, Followed
    <2>3. pos' \in [Probe!Ticket -> Nat] /\ \A u \in Probe!Ticket : pos'[u] <= pos[u]
          /\ pos'["held"] = pos["held"]
      BY <2>1, <2>2
    <2>. QED
      BY <2>1, <2>2, <2>3 DEF ProbeInv, ProbeTypes, OwnExposure, Followed, ClosedOut
  <1>19. ASSUME NEW a, Probe!Close(a)
        PROVE  ProbeInv'
    <2>1. stage = "close" /\ Probe!Sell(ticket, a)
          /\ UNCHANGED <<account, hidden, dealt, fired, ticket, before, chase>>
          /\ \/ failed' = (failed \/ fresh' # 0) /\ stage' = "history"
             \/ UNCHANGED <<failed, stage>> /\ fresh' # 0
      BY <1>19 DEF Probe!Close, Probe!Step, Probe!LoopEnds
    <2>2. ticket = "cycle" /\ ticket \in Probe!Own /\ fresh > 0
      BY <2>1 DEF ProbeInv, Followed
    <2>3. Shrunk(ticket)
      BY <2>1, <2>2, Sold DEF Shrunk
    <2>4. pos["probe"] = 0
      BY <2>1 DEF ProbeInv, ProbeTypes, OwnExposure
    <2>5. ProbeTypes'
      BY <2>1, <2>2, <2>3, <2>4 DEF Shrunk, ProbeInv, ProbeTypes, OwnExposure, Followed, ClosedOut
    <2>6. OwnExposure'
      BY <2>1, <2>2, <2>3, <2>4 DEF Shrunk, ProbeInv, ProbeTypes, OwnExposure, Followed, ClosedOut
    <2>7. Followed'
      BY <2>1, <2>2, <2>3, <2>4 DEF Shrunk, ProbeInv, ProbeTypes, OwnExposure, Followed, ClosedOut
    <2>8. ClosedOut'
      BY <2>1, <2>2, <2>3, <2>4 DEF Shrunk, ProbeInv, ProbeTypes, OwnExposure, Followed, ClosedOut
    <2>. QED
      BY <2>5, <2>6, <2>7, <2>8 DEF ProbeInv
  <1>20. ASSUME NEW a, Probe!Flatten(a)
        PROVE  ProbeInv'
    <2>1. stage = "flatten" /\ Probe!Sell(ticket, a)
          /\ UNCHANGED <<account, hidden, dealt, fired, ticket, before>>
          /\ \/ /\ failed' = (failed \/ fresh' # 0) /\ chase' = chase \ {ticket}
                /\ stage' \in {"finish", "chase"}
             \/ UNCHANGED <<failed, stage, chase>> /\ fresh' # 0
      BY <1>20 DEF Probe!Flatten, Probe!Step, Probe!LoopEnds
    <2>2. ticket \in Probe!Own /\ fresh > 0 /\ failed
      BY <2>1 DEF ProbeInv, Followed, ClosedOut
    <2>3. Shrunk(ticket)
      BY <2>1, <2>2, Sold DEF Shrunk
    <2>4. /\ stage' \in {"finish", "chase", "flatten"} /\ (stage' = "flatten" => fresh' # 0)
          /\ pos'["held"] = pos["held"] /\ ticket' = ticket /\ fresh' \in Nat
      BY <2>1, <2>2, <2>3 DEF Shrunk
    <2>5. ProbeTypes'
      BY <2>1, <2>2, <2>3, <2>4 DEF Shrunk, ProbeInv, ProbeTypes, OwnExposure, Followed, ClosedOut
    <2>6. OwnExposure'
      BY <2>1, <2>2, <2>3, <2>4 DEF Shrunk, ProbeInv, ProbeTypes, OwnExposure, Followed, ClosedOut
    <2>7. Followed'
      BY <2>2, <2>4 DEF Followed
    <2>8. ClosedOut'
      BY <2>1, <2>2, <2>3, <2>4 DEF Shrunk, ProbeInv, ProbeTypes, OwnExposure, Followed, ClosedOut
    <2>. QED
      BY <2>5, <2>6, <2>7, <2>8 DEF ProbeInv
  <1>21. CASE UNCHANGED probeVars
    BY <1>21 DEF ProbeInv, ProbeTypes, OwnExposure, Followed, ClosedOut, probeVars
  <1>. QED
    BY <1>1, <1>2, <1>3, <1>4, <1>5, <1>6, <1>7, <1>8, <1>9, <1>10, <1>11, <1>12, <1>13,
       <1>14, <1>15, <1>16, <1>17, <1>18, <1>19, <1>20, <1>21 DEF Probe!Next

\* No report that passed leaves a position behind, and no position of others is
\* touched, whatever the volumes and however often a close is tried (preflight.py).
THEOREM ProbeLeavesNoTrace == PartsSpec => []LeavesNoTrace
  <1>1. PartsInit => ProbeInv
    BY ProbeInit DEF PartsInit
  <1>2. ProbeInv /\ [PartsNext]_<<part, vars, carryVars, netVars, probeVars>> => ProbeInv'
    <2>1. ASSUME PartsNext PROVE [Probe!Next]_probeVars
      BY <2>1 DEF PartsNext
    <2>. QED
      BY <2>1, ProbeStep
  <1>3. ProbeInv => LeavesNoTrace
    BY DEF ProbeInv, OwnExposure, ClosedOut, LeavesNoTrace, Probe!LeavesNoTrace
  <1>. QED
    BY <1>1, <1>2, <1>3, PTL DEF PartsSpec

-----------------------------------------------------------------------------
(* NettingDesk: for any strategies, units and intents.                     *)

\* The intent being realised moves every strategy it is about one way.
Upward == intent.action \in Netting!Opening <=> intent.direction = "LONG"
Onward(n, x) == IF Upward THEN n + x ELSE n - x

NetTypes ==
  /\ target \in [Netting!StrategyId -> -MaxUnits .. MaxUnits]
  /\ books \in [Netting!StrategyId -> -MaxUnits .. MaxUnits]
  /\ batch \in [Netting!StrategyId -> 0 .. 2 * MaxUnits]
  /\ net \in Int /\ sequence \in Nat /\ intents \in 0 .. MaxIntents
  /\ intent = Netting!NoIntent \/ intent.action \in {"OPEN", "INCREASE", "CLOSE"}
  /\ order.quantity \in Nat

\* What is owed lies between what is held and what is aimed at.
Owed ==
  /\ net = Netting!Sum(books)
  /\ \A s \in Netting!StrategyId : target[s] = Onward(books[s], batch[s])
  /\ intent = Netting!NoIntent => batch = Netting!NothingLeft /\ order = Netting!NoOrder

\* Whoever is still owed part of an exit aims at nothing.
Exiting ==
  intent.action = "CLOSE" => \A s \in Netting!StrategyId : batch[s] = 0 \/ target[s] = 0

\* The order goes the way of the intent, for no more than is owed, its whole quantity
\* does not cross zero, and an entry's order without a stop shrinks the net.
OrderOnward ==
  order # Netting!NoOrder =>
    /\ order.side = IF Upward THEN "BUY" ELSE "SELL"
    /\ order.quantity > 0 /\ order.quantity <= Netting!Sum(batch)
    /\ net > 0 => Onward(net, order.quantity) >= 0
    /\ net < 0 => Onward(net, order.quantity) <= 0
    /\ intent.action \in Netting!Opening =>
         order.protected \/ (net > 0 /\ ~Upward) \/ (net < 0 /\ Upward)

NetInv == NetTypes /\ Owed /\ Exiting /\ OrderOnward

\* Sums over the strategies are sums over their sequence.
LEMMA StrategySums ==
  /\ Strategies \in Seq(Netting!StrategyId) /\ IsFiniteSet(Netting!StrategyId)
  /\ \A i \in 1 .. Len(Strategies) : Strategies[i] \in Netting!StrategyId
  /\ \A s \in Netting!StrategyId : \E i \in 1 .. Len(Strategies) : Strategies[i] = s
  /\ \A i, j \in 1 .. Len(Strategies) : Strategies[i] = Strategies[j] => i = j
  /\ \A f : Netting!Sum(f) = Summed(Weights(f, Strategies))
  <1>1. Strategies \in Seq(STRING) /\ IsInjective(Strategies)
    BY BooksAssumption
  <1>2. Len(Strategies) \in Nat /\ DOMAIN Strategies = 1 .. Len(Strategies)
    BY <1>1
  <1>3. Netting!StrategyId = {Strategies[i] : i \in 1 .. Len(Strategies)}
    BY <1>2 DEF Netting!StrategyId, Netting!ToSet
  <1>4. Strategies \in Seq(Netting!StrategyId)
    BY <1>1, <1>2, <1>3
  <1>5. IsFiniteSet(Netting!StrategyId)
    <2>1. 1 \in Int /\ Len(Strategies) \in Int
      BY <1>2
    <2>2. IsFiniteSet(1 .. Len(Strategies))
      BY <2>1, FS_Interval
    <2> DEFINE f == [i \in 1 .. Len(Strategies) |-> Strategies[i]]
    <2>3. f \in Surjection(1 .. Len(Strategies), Netting!StrategyId)
      BY <1>3 DEF Surjection
    <2> HIDE DEF f
    <2>. QED
      BY <2>2, <2>3, FS_Surjection
  <1>6. \A f : Netting!Sum(f) = Summed(Weights(f, Strategies))
    BY Zenon DEF Netting!Sum, Summed, Weights, FoldLeft, Netting!FoldLeft, MapThenFoldSet,
                 Netting!MapThenFoldSet, Max, Netting!Max
  <1>. QED
    BY <1>1, <1>2, <1>3, <1>4, <1>5, <1>6 DEF IsInjective

\* What the strategies have, added term by term, compared, and counted.
LEMMA SumsOfStrategies ==
  /\ \A f \in [Netting!StrategyId -> Int] : Netting!Sum(f) \in Int
  /\ \A f, g, h \in [Netting!StrategyId -> Int] :
       (\A s \in Netting!StrategyId : h[s] = f[s] + g[s]) =>
         Netting!Sum(h) = Netting!Sum(f) + Netting!Sum(g)
  /\ \A f, g \in [Netting!StrategyId -> Int] :
       (\A s \in Netting!StrategyId : f[s] <= g[s]) => Netting!Sum(f) <= Netting!Sum(g)
  /\ \A f, h \in [Netting!StrategyId -> Int], c \in Int :
       (\A s \in Netting!StrategyId : h[s] = c * f[s]) => Netting!Sum(h) = c * Netting!Sum(f)
  /\ \A f \in [Netting!StrategyId -> Int] :
       (\A s \in Netting!StrategyId : f[s] = 0) => Netting!Sum(f) = 0
  <1> DEFINE S == Netting!StrategyId
             W(f) == Weights(f, Strategies)
             n == Len(Strategies)
  <1>1. /\ Strategies \in Seq(S) /\ n \in Nat
        /\ \A i \in 1 .. n : Strategies[i] \in S
        /\ \A f : Netting!Sum(f) = Summed(W(f))
    BY StrategySums
  <1>2. ASSUME NEW f \in [S -> Int]
        PROVE  W(f) \in Seq(Int) /\ Len(W(f)) = n /\ \A i \in 1 .. n : W(f)[i] = f[Strategies[i]]
    BY <1>1, WeightsType
  <1> HIDE DEF W, n, S
  <1>3. ASSUME NEW f \in [S -> Int]
        PROVE  Netting!Sum(f) \in Int
    BY <1>1, <1>2, SumMonotone
  <1>4. ASSUME NEW f \in [S -> Int], NEW g \in [S -> Int], NEW h \in [S -> Int],
               \A s \in S : h[s] = f[s] + g[s]
        PROVE  Netting!Sum(h) = Netting!Sum(f) + Netting!Sum(g)
    <2>1. \A i \in 1 .. n : W(h)[i] = W(f)[i] + W(g)[i]
      BY <1>1, <1>2, <1>4
    <2>2. /\ W(f) \in Seq(Int) /\ W(g) \in Seq(Int) /\ W(h) \in Seq(Int)
          /\ Len(W(f)) = n /\ Len(W(g)) = n /\ Len(W(h)) = n
      BY <1>2
    <2>3. Summed(W(h)) = Summed(W(f)) + Summed(W(g))
      BY <2>1, <2>2, SumAdded
    <2>. QED
      BY <1>1, <2>3
  <1>5. ASSUME NEW f \in [S -> Int], NEW g \in [S -> Int], \A s \in S : f[s] <= g[s]
        PROVE  Netting!Sum(f) <= Netting!Sum(g)
    <2>1. \A i \in 1 .. n : W(f)[i] <= W(g)[i]
      BY <1>1, <1>2, <1>5
    <2>2. /\ W(f) \in Seq(Int) /\ W(g) \in Seq(Int) /\ Len(W(f)) = n /\ Len(W(g)) = n
      BY <1>2
    <2>. QED
      BY <1>1, <2>1, <2>2, SumMonotone
  <1>6. ASSUME NEW f \in [S -> Int], NEW h \in [S -> Int], NEW c \in Int,
               \A s \in S : h[s] = c * f[s]
        PROVE  Netting!Sum(h) = c * Netting!Sum(f)
    <2>1. \A i \in 1 .. n : W(h)[i] = c * W(f)[i]
      BY <1>1, <1>2, <1>6
    <2>2. /\ W(f) \in Seq(Int) /\ W(h) \in Seq(Int) /\ Len(W(f)) = n /\ Len(W(h)) = n
      BY <1>2
    <2>3. Summed(W(h)) = c * Summed(W(f))
      BY <2>1, <2>2, SumScaled
    <2>. QED
      BY <1>1, <2>3
  <1>7. ASSUME NEW f \in [S -> Int], \A s \in S : f[s] = 0
        PROVE  Netting!Sum(f) = 0
    <2>1. \A i \in 1 .. n : W(f)[i] = 0
      BY <1>1, <1>2, <1>7
    <2>. QED
      BY <1>1, <1>2, <2>1, SumZero
  <1>. QED
    BY <1>3, <1>4, <1>5, <1>6, <1>7 DEF S

\* One each for those of a set, added, is how many they are.
LEMMA SumOfOnes ==
  ASSUME NEW T \in SUBSET Netting!StrategyId, NEW f \in [Netting!StrategyId -> Int],
         \A s \in Netting!StrategyId : f[s] = IF s \in T THEN 1 ELSE 0
  PROVE  Netting!Sum(f) = Cardinality(T)
  <1> DEFINE n == Len(Strategies)
             u == Weights(f, Strategies)
             P == {i \in 1 .. n : Strategies[i] \in T}
             g == [i \in P |-> Strategies[i]]
  <1>1. /\ Strategies \in Seq(Netting!StrategyId) /\ n \in Nat
        /\ \A i \in 1 .. n : Strategies[i] \in Netting!StrategyId
        /\ \A s \in Netting!StrategyId : \E i \in 1 .. n : Strategies[i] = s
        /\ \A i, j \in 1 .. n : Strategies[i] = Strategies[j] => i = j
        /\ Netting!Sum(f) = Summed(u)
    BY StrategySums
  <1>2. u \in Seq(Int) /\ Len(u) = n /\ \A i \in 1 .. n : u[i] = f[Strategies[i]]
    <2>1. Strategies \in Seq(Netting!StrategyId)
      BY <1>1
    <2> HIDE DEF n
    <2>. QED
      BY <2>1, WeightsType DEF n
  <1> HIDE DEF u
  <1>3. Summed(u) = Cardinality(P)
    <2>1. \A i \in 1 .. Len(u) : u[i] = IF i \in P THEN 1 ELSE 0
      BY <1>1, <1>2
    <2>2. P \in SUBSET (1 .. Len(u))
      BY <1>2
    <2> HIDE DEF P
    <2>. QED
      BY <1>2, <2>1, <2>2, SumCounts
  <1>4. IsFiniteSet(P)
    <2>1. 1 \in Int /\ n \in Int /\ P \in SUBSET (1 .. n)
      BY <1>1
    <2>. QED
      BY <2>1, FS_Interval, FS_Subset
  <1>5. g \in [P -> T] /\ (\A i, j \in P : g[i] = g[j] => i = j) /\ \A s \in T : \E i \in P : g[i] = s
    <2>1. g \in [P -> T]
      OBVIOUS
    <2>2. \A i, j \in P : g[i] = g[j] => i = j
      BY <1>1
    <2>3. ASSUME NEW s \in T
          PROVE  \E i \in P : g[i] = s
      <3>1. s \in Netting!StrategyId
        OBVIOUS
      <3>2. PICK i \in 1 .. n : Strategies[i] = s
        BY <1>1, <3>1
      <3>. QED
        BY <3>2
    <2>. QED
      BY <2>1, <2>2, <2>3
  <1> HIDE DEF P, g
  <1>6. g \in Surjection(P, T) /\ g \in Injection(P, T)
    BY <1>5 DEF Surjection, Injection, IsInjective
  <1>7. Cardinality(T) = Cardinality(P)
    BY <1>4, <1>6, FS_Surjection
  <1>. QED
    BY <1>1, <1>3, <1>7

\* A natural number divided by another.
LEMMA DivMod ==
  ASSUME NEW a \in Nat, NEW b \in Nat, b # 0
  PROVE  \E q, r \in Nat : q = a \div b /\ r = a % b /\ r < b /\ a = b * q + r
  <1>1. a \div b \in Nat /\ a % b \in Nat /\ a % b < b
    OBVIOUS
  <1>2. PICK q \in Nat : q = a \div b
    BY <1>1
  <1>3. PICK r \in Nat : r = a % b
    BY <1>1
  <1>4. a = b * q + r
    BY <1>2, <1>3
  <1>5. r < b
    BY <1>1, <1>3
  <1>. QED
    BY <1>2, <1>3, <1>4, <1>5

\* A part of f in t units of r, and what is left of the division by t.
LEMMA CutBelow ==
  \A r, f, t, c, m \in Nat :
    t # 0 /\ f <= t /\ f * r = t * c + m => c <= r /\ (m > 0 => c + 1 <= r)
  <1>1. \A r, f, t, c, m \in Nat : t # 0 /\ f <= t /\ f * r = t * c + m => c <= r
    OBVIOUS
  <1>2. \A r, f, t, c, m \in Nat :
          t # 0 /\ f <= t /\ f * r = t * c + m /\ m > 0 => c + 1 <= r
    OBVIOUS
  <1>. QED
    BY <1>1, <1>2

LEMMA LeftOver ==
  \A f, t, cuts, fractions, k \in Int :
    /\ t > 0 /\ k >= 0 /\ fractions >= 0
    /\ f * t = t * cuts + fractions /\ fractions <= (t - 1) * k
    => f - cuts >= 0 /\ f - cuts <= k
  <1> SUFFICES ASSUME NEW f \in Int, NEW t \in Int, NEW cuts \in Int, NEW fractions \in Int,
                      NEW k \in Int, t > 0, k >= 0, fractions >= 0,
                      f * t = t * cuts + fractions, fractions <= (t - 1) * k
               PROVE  f - cuts >= 0 /\ f - cuts <= k
    OBVIOUS
  <1>1. PICK a \in Int : a = f - cuts
    OBVIOUS
  <1>2. t * a = fractions
    <2>1. t * (f - cuts) = t * f - t * cuts
      OBVIOUS
    <2>. QED
      BY <1>1, <2>1
  <1>3. a >= 0
    BY <1>2
  <1>4. a <= k
    BY <1>2
  <1>. QED
    BY <1>1, <1>3, <1>4

\* What allocate_pro_rata promises: a fill that does not exceed what is requested is
\* attributed to the last step, and nobody gets more than they asked for.
Attributed(shares, requests, filled) ==
  /\ shares \in [Netting!StrategyId -> Nat]
  /\ \A s \in Netting!StrategyId : shares[s] <= requests[s]
  /\ Netting!Sum(shares) = filled

THEOREM FillsAreAttributed ==
  ASSUME NEW requests \in [Netting!StrategyId -> Nat], NEW filled \in Nat,
         filled # 0, filled <= Netting!Sum(requests)
  PROVE  Attributed(Netting!Allocation(requests, filled), requests, filled)
  <1> DEFINE S == Netting!StrategyId
             asked == Netting!Sum(requests)
             Cut(s) == (filled * requests[s]) \div asked
             Fraction(s) == (filled * requests[s]) % asked
             cut == [s \in S |-> Cut(s)]
             fraction == [s \in S |-> Fraction(s)]
             left == filled - Netting!Sum(cut)
             Index(s) == CHOOSE i \in DOMAIN Strategies : Strategies[i] = s
             AheadOf(s) == {t \in S : \/ Fraction(t) > Fraction(s)
                                      \/ Fraction(t) = Fraction(s) /\ Index(t) < Index(s)}
             prior == {p \in S \X S : \/ Fraction(p[1]) > Fraction(p[2])
                                       \/ /\ Fraction(p[1]) = Fraction(p[2])
                                          /\ Index(p[1]) < Index(p[2])}
             uneven == {s \in S : Fraction(s) > 0}
             chosen == FirstOf(prior, S, left)
             extra == [s \in S |-> IF s \in chosen THEN 1 ELSE 0]
  <1>1. asked \in Nat /\ asked # 0 /\ \A s \in S : requests[s] \in Nat
    <2>1. requests \in [S -> Int]
      OBVIOUS
    <2>2. asked \in Int
      BY <2>1, SumsOfStrategies
    <2> HIDE DEF asked
    <2>. QED
      BY <2>2 DEF asked
  <1>2. ASSUME NEW s \in S
        PROVE  /\ Cut(s) \in Nat /\ Fraction(s) \in Nat /\ Fraction(s) < asked
               /\ filled * requests[s] = asked * Cut(s) + Fraction(s)
    <2> HIDE DEF asked
    <2>1. PICK a \in Nat : a = filled * requests[s]
      BY <1>1
    <2>2. PICK q \in Nat, r \in Nat : q = a \div asked /\ r = a % asked /\ r < asked
                                      /\ a = asked * q + r
      BY <1>1, DivMod
    <2>. QED
      BY <2>1, <2>2
  <1>3. ASSUME NEW s \in S
        PROVE  Cut(s) <= requests[s] /\ (Fraction(s) > 0 => Cut(s) + 1 <= requests[s])
    <2>1. filled <= asked
      OBVIOUS
    <2> HIDE DEF asked, Cut, Fraction
    <2>. QED
      BY <1>1, <1>2, <2>1, CutBelow
  <1>4. ASSUME NEW s \in S
        PROVE  Index(s) \in 1 .. Len(Strategies) /\ Strategies[Index(s)] = s
    <2>1. DOMAIN Strategies = 1 .. Len(Strategies)
          /\ \E i \in 1 .. Len(Strategies) : Strategies[i] = s
      BY StrategySums
    <2>. QED
      BY <2>1, Zenon
  <1>5. IsFiniteSet(S) /\ Len(Strategies) \in Nat
    BY StrategySums
  <1>6. Netting!Allocation(requests, filled) =
          [s \in S |-> Cut(s) + IF Cardinality(AheadOf(s)) < left THEN 1 ELSE 0]
    <2>1. DOMAIN requests = S
      OBVIOUS
    <2>2. \A T : Netting!Cardinality(T) = Cardinality(T)
      BY Zenon DEF Netting!Cardinality, Cardinality
    <2>. QED
      BY <2>1, <2>2, Zenon DEF Netting!Allocation
  <1>7. \A s \in S : Outranking(prior, S, s) = AheadOf(s)
    BY DEF Outranking
  <1> HIDE DEF asked, Cut, Fraction, Index, S
  <1>8. StrictOrder(prior, S)
    <2>1. prior \in SUBSET (S \X S) /\ \A x \in S : <<x, x>> \notin prior
      BY <1>2, <1>4
    <2>2. \A x, y \in S : <<x, y>> \in prior <=>
             \/ Fraction(x) > Fraction(y)
             \/ Fraction(x) = Fraction(y) /\ Index(x) < Index(y)
      OBVIOUS
    <2> HIDE DEF prior
    <2>3. \A x, y, z \in S : <<x, y>> \in prior /\ <<y, z>> \in prior => <<x, z>> \in prior
      BY <1>2, <1>4, <2>2
    <2>4. ASSUME NEW x \in S, NEW y \in S
          PROVE  x = y \/ <<x, y>> \in prior \/ <<y, x>> \in prior
      <3>1. /\ Fraction(x) \in Nat /\ Fraction(y) \in Nat
            /\ Index(x) \in 1 .. Len(Strategies) /\ Index(y) \in 1 .. Len(Strategies)
            /\ Strategies[Index(x)] = x /\ Strategies[Index(y)] = y
        BY <1>2, <1>4
      <3>2. Index(x) = Index(y) => x = y
        BY <3>1
      <3>3. Index(x) \in Nat /\ Index(y) \in Nat
        BY <1>5, <3>1
      <3>. QED
        BY <2>2, <3>1, <3>2, <3>3
    <2>. QED
      BY <2>1, <2>3, <2>4 DEF StrictOrder
  <1>9. /\ cut \in [S -> Int] /\ fraction \in [S -> Int] /\ requests \in [S -> Int]
        /\ \A s \in S : cut[s] = Cut(s) /\ fraction[s] = Fraction(s) /\ cut[s] >= 0 /\ fraction[s] >= 0
    <2>1. \A s \in S : Cut(s) \in Nat /\ Fraction(s) \in Nat
      BY <1>2
    <2>2. requests \in [S -> Int]
      BY DEF S
    <2>3. \A n \in Nat : n \in Int /\ n >= 0
      OBVIOUS
    <2>. QED
      BY <2>1, <2>2, <2>3
  <1> HIDE DEF cut, fraction
  <1>10. PICK cuts \in Int : cuts = Netting!Sum(cut)
    BY <1>9, SumsOfStrategies DEF S
  <1>11. PICK fractions \in Int : fractions = Netting!Sum(fraction)
    BY <1>9, SumsOfStrategies DEF S
  <1>12. filled * asked = asked * cuts + fractions
    <2> DEFINE whole == [s \in S |-> filled * requests[s]]
               parts == [s \in S |-> asked * cut[s]]
    <2>1. /\ whole \in [S -> Int] /\ parts \in [S -> Int]
          /\ \A s \in S : whole[s] = filled * requests[s] /\ parts[s] = asked * cut[s]
      BY <1>1, <1>9
    <2>2. \A s \in S : whole[s] = parts[s] + fraction[s]
      BY <1>2, <1>9, <2>1
    <2> HIDE DEF whole, parts
    <2>3. Netting!Sum(whole) = filled * asked
      <3>1. filled \in Int /\ requests \in [S -> Int] /\ whole \in [S -> Int]
        BY <1>9, <2>1
      <3>2. \A s \in S : whole[s] = filled * requests[s]
        BY <2>1
      <3>. QED
        BY <3>1, <3>2, SumsOfStrategies, Zenon DEF S, asked
    <2>4. Netting!Sum(parts) = asked * cuts
      <3>1. asked \in Int
        BY <1>1
      <3>. QED
        BY <1>9, <1>10, <2>1, <3>1, SumsOfStrategies DEF S
    <2>5. Netting!Sum(whole) = Netting!Sum(parts) + fractions
      BY <1>9, <1>11, <2>1, <2>2, SumsOfStrategies DEF S
    <2>. QED
      BY <2>3, <2>4, <2>5
  <1>13. fractions >= 0
    <2> DEFINE none == [s \in S |-> 0]
    <2>1. none \in [S -> Int] /\ \A s \in S : none[s] = 0 /\ none[s] <= fraction[s]
      BY <1>9
    <2> HIDE DEF none
    <2>2. Netting!Sum(none) = 0 /\ Netting!Sum(none) <= Netting!Sum(fraction)
      BY <1>9, <2>1, SumsOfStrategies DEF S
    <2>. QED
      BY <1>11, <2>2
  <1>14. /\ uneven \in SUBSET S /\ IsFiniteSet(uneven)
         /\ Cardinality(uneven) \in Nat /\ Cardinality(uneven) <= Cardinality(S)
         /\ Cardinality(S) \in Nat
    <2>1. uneven \in SUBSET S
      OBVIOUS
    <2> HIDE DEF uneven
    <2>. QED
      BY <1>5, <2>1, FS_Subset, FS_CardinalityType
  <1>15. fractions <= (asked - 1) * Cardinality(uneven)
    <2> DEFINE ones == [s \in S |-> IF s \in uneven THEN 1 ELSE 0]
               most == [s \in S |-> (asked - 1) * ones[s]]
    <2>1. /\ ones \in [S -> Int] /\ most \in [S -> Int]
          /\ \A s \in S : ones[s] = (IF s \in uneven THEN 1 ELSE 0) /\ most[s] = (asked - 1) * ones[s]
      BY <1>1
    <2> HIDE DEF ones, most
    <2>2. \A s \in S : fraction[s] <= most[s]
      <3>1. ASSUME NEW s \in S
            PROVE  fraction[s] <= most[s]
        <4>1. CASE s \in uneven
          <5>1. most[s] = asked - 1
            BY <1>1, <2>1, <4>1
          <5>. QED
            BY <1>1, <1>2, <1>9, <5>1
        <4>2. CASE s \notin uneven
          <5>1. most[s] = 0
            BY <1>1, <2>1, <4>2
          <5>2. ~(Fraction(s) > 0)
            BY <4>2
          <5>. QED
            BY <1>2, <1>9, <5>1, <5>2
        <4>. QED
          BY <4>1, <4>2
      <3>. QED
        BY <3>1
    <2> HIDE DEF uneven
    <2>3. Netting!Sum(ones) = Cardinality(uneven)
      BY <1>14, <2>1, SumOfOnes DEF S
    <2>4. Netting!Sum(most) = (asked - 1) * Netting!Sum(ones)
      <3>1. asked - 1 \in Int
        BY <1>1
      <3>. QED
        BY <2>1, <3>1, SumsOfStrategies DEF S
    <2>5. Netting!Sum(fraction) <= Netting!Sum(most)
      BY <1>9, <2>1, <2>2, SumsOfStrategies DEF S
    <2>. QED
      BY <1>11, <2>3, <2>4, <2>5
  <1>16. left = filled - cuts
    BY <1>10
  <1>17. left \in Nat /\ left <= Cardinality(uneven) /\ left <= Cardinality(S)
    <2>1. filled - cuts >= 0 /\ filled - cuts <= Cardinality(uneven)
      <3>1. filled \in Int /\ asked \in Int /\ asked > 0 /\ Cardinality(uneven) \in Int
            /\ Cardinality(uneven) >= 0
        BY <1>1, <1>14
      <3> HIDE DEF uneven
      <3>. QED
        BY <1>12, <1>13, <1>15, <3>1, LeftOver
    <2> HIDE DEF left, uneven
    <2>. QED
      BY <1>14, <1>16, <2>1
  <1>18. Cardinality(chosen) = left /\ chosen \in SUBSET S
    <2>1. left \in 0 .. Cardinality(S)
      BY <1>14, <1>17
    <2>2. chosen \in SUBSET S
      BY DEF FirstOf
    <2> HIDE DEF left, prior
    <2>. QED
      BY <1>5, <1>8, <2>1, <2>2, Ranking
  \* Everybody with a fraction is ahead of whoever has none.
  <1>19. ASSUME NEW s \in chosen
         PROVE  Fraction(s) > 0
    <2>1. s \in S /\ Cardinality(Outranking(prior, S, s)) < left
      BY DEF FirstOf
    <2>2. SUFFICES ASSUME Fraction(s) = 0
                   PROVE  FALSE
      BY <1>2, <2>1
    <2>3. uneven \in SUBSET Outranking(prior, S, s)
      BY <1>2, <2>1, <2>2 DEF Outranking
    <2>4. IsFiniteSet(Outranking(prior, S, s))
      <3>1. Outranking(prior, S, s) \in SUBSET S
        BY DEF Outranking
      <3>. QED
        BY <1>5, <3>1, FS_Subset
    <2> HIDE DEF prior, uneven, left
    <2>5. Cardinality(uneven) <= Cardinality(Outranking(prior, S, s))
      BY <2>3, <2>4, FS_Subset
    <2>6. Cardinality(Outranking(prior, S, s)) \in Nat
      BY <2>4, FS_CardinalityType
    <2>. QED
      BY <1>14, <1>17, <2>1, <2>5, <2>6
  <1>20. \A s \in S : s \in chosen <=> Cardinality(AheadOf(s)) < left
    <2> HIDE DEF prior, left
    <2>. QED
      BY <1>7 DEF FirstOf
  <1> DEFINE shares == Netting!Allocation(requests, filled)
  <1> HIDE DEF chosen, left, prior, AheadOf
  <1>21. shares = [s \in S |-> Cut(s) + IF s \in chosen THEN 1 ELSE 0]
    BY <1>6, <1>20
  <1>22. /\ extra \in [S -> Int] /\ shares \in [S -> Nat] /\ shares \in [S -> Int]
         /\ \A s \in S : /\ extra[s] = IF s \in chosen THEN 1 ELSE 0
                         /\ shares[s] = cut[s] + extra[s]
                         /\ shares[s] = Cut(s) + IF s \in chosen THEN 1 ELSE 0
    BY <1>2, <1>9, <1>21
  <1> HIDE DEF shares, extra
  <1>23. Netting!Sum(extra) = left
    BY <1>18, <1>22, SumOfOnes DEF S
  <1>24. Netting!Sum(shares) = filled
    <2>1. Netting!Sum(shares) = Netting!Sum(cut) + Netting!Sum(extra)
      <3>1. cut \in [S -> Int] /\ extra \in [S -> Int] /\ shares \in [S -> Int]
        BY <1>9, <1>22
      <3>2. \A s \in S : shares[s] = cut[s] + extra[s]
        BY <1>22
      <3>. QED
        BY <3>1, <3>2, SumsOfStrategies, Zenon DEF S
    <2>. QED
      BY <1>10, <1>16, <1>23, <2>1
  <1>25. \A s \in S : shares[s] <= requests[s]
    BY <1>1, <1>2, <1>3, <1>19, <1>22
  <1>. QED
    BY <1>22, <1>24, <1>25 DEF Attributed, S, shares

LEMMA NothingOwed ==
  /\ Netting!NothingLeft \in [Netting!StrategyId -> Int]
  /\ \A s \in Netting!StrategyId : Netting!NothingLeft[s] = 0
  /\ Netting!Sum(Netting!NothingLeft) = 0
  <1>1. /\ Netting!NothingLeft \in [Netting!StrategyId -> Int]
        /\ \A s \in Netting!StrategyId : Netting!NothingLeft[s] = 0
    BY DEF Netting!NothingLeft
  <1>. QED
    BY <1>1, SumsOfStrategies, Zenon

\* What is aimed at, added, is what is held moved by what is owed.
LEMMA AimsAdded ==
  ASSUME NetTypes, Owed
  PROVE  /\ Netting!Sum(batch) \in Nat
         /\ Netting!Sum(target) = Onward(net, Netting!Sum(batch))
  <1> DEFINE S == Netting!StrategyId
  <1>1. /\ books \in [S -> Int] /\ target \in [S -> Int] /\ batch \in [S -> Int]
        /\ \A s \in S : 0 <= batch[s]
    BY BooksAssumption DEF NetTypes
  <1>2. /\ Netting!Sum(books) \in Int /\ Netting!Sum(target) \in Int
        /\ Netting!Sum(batch) \in Int
    BY <1>1, SumsOfStrategies, Zenon
  <1>3. 0 <= Netting!Sum(batch)
    <2>1. /\ Netting!NothingLeft \in [S -> Int] /\ Netting!Sum(Netting!NothingLeft) = 0
          /\ \A s \in S : Netting!NothingLeft[s] <= batch[s]
      BY <1>1, NothingOwed
    <2>2. Netting!Sum(Netting!NothingLeft) <= Netting!Sum(batch)
      BY <1>1, <2>1, SumsOfStrategies, Zenon
    <2>. QED
      BY <2>1, <2>2
  <1>4. CASE Upward
    <2>1. \A s \in S : target[s] = books[s] + batch[s]
      BY <1>4 DEF Owed, Onward
    <2>2. Netting!Sum(target) = Netting!Sum(books) + Netting!Sum(batch)
      BY <1>1, <2>1, SumsOfStrategies, Zenon
    <2>. QED
      BY <1>2, <1>3, <1>4, <2>2 DEF Owed, Onward
  <1>5. CASE ~Upward
    <2>1. \A s \in S : target[s] = books[s] - batch[s]
      BY <1>5 DEF Owed, Onward
    <2>2. \A s \in S : books[s] = target[s] + batch[s]
      BY <1>1, <2>1
    <2>3. Netting!Sum(books) = Netting!Sum(target) + Netting!Sum(batch)
      BY <1>1, <2>2, SumsOfStrategies, Zenon
    <2>. QED
      BY <1>2, <1>3, <1>5, <2>3 DEF Owed, Onward
  <1>. QED
    BY <1>4, <1>5

LEMMA NetInit == Netting!Init => NetInv
  <1> SUFFICES ASSUME Netting!Init
               PROVE  NetInv
    OBVIOUS
  <1> DEFINE S == Netting!StrategyId
  <1>1. /\ target = Netting!NothingLeft /\ books = Netting!NothingLeft
        /\ batch = Netting!NothingLeft /\ net = 0 /\ sequence = 0 /\ intents = 0
        /\ intent = Netting!NoIntent /\ order = Netting!NoOrder
    BY DEF Netting!Init
  <1>2. NetTypes
    BY <1>1, BooksAssumption DEF NetTypes, Netting!NothingLeft, Netting!NoOrder
  <1>3. Owed
    BY <1>1, NothingOwed DEF Owed, Onward
  <1>4. Exiting
    BY <1>1 DEF Exiting, Netting!NoIntent
  <1>. QED
    BY <1>1, <1>2, <1>3, <1>4 DEF NetInv, OrderOnward

LEMMA NetIntend ==
  ASSUME NetInv, NEW wants \in SUBSET Netting!StrategyId,
         NEW action \in {"OPEN", "INCREASE", "CLOSE"}, NEW direction \in Netting!Direction,
         NEW units \in Nat, Netting!Intend(wants, action, direction, units)
  PROVE  NetInv'
  <1> DEFINE S == Netting!StrategyId
             aim(s) == CASE s \notin wants -> target[s]
                         [] s \in wants /\ action \in Netting!Opening ->
                              books[s] + Netting!Signed(direction, units)
                         [] OTHER -> 0
  <1>1. /\ intent = Netting!NoIntent /\ intents < MaxIntents
        /\ \A s \in wants :
             CASE action = "OPEN" -> books[s] = 0
               [] action = "INCREASE" ->
                    books[s] # 0 /\ Netting!SideOf(books[s]) = direction
               [] OTHER -> books[s] # 0 /\ Netting!SideOf(books[s]) = direction
        /\ intent' = [action |-> action, direction |-> direction]
        /\ intents' = intents + 1 /\ sequence' = 0
        /\ books' = books /\ net' = net /\ order' = order
    BY DEF Netting!Intend, Netting!Idle
  <1>2. /\ target' = [s \in S |-> aim(s)]
        /\ \A s \in S : Netting!Abs(target'[s]) <= MaxUnits
        /\ batch' = [s \in S |-> Netting!Abs(target'[s] - books[s])]
    BY Zenon DEF Netting!Intend
  <1>3. /\ \A s \in S : target'[s] = aim(s) /\ batch'[s] = Netting!Abs(target'[s] - books[s])
        /\ DOMAIN target' = S /\ DOMAIN batch' = S
    BY <1>2
  <1>4. order = Netting!NoOrder /\ \A s \in S : target[s] = books[s] /\ books[s] \in Int
    <2>1. /\ batch = Netting!NothingLeft /\ order = Netting!NoOrder
          /\ books \in [S -> -MaxUnits .. MaxUnits]
          /\ \A s \in S : target[s] = Onward(books[s], batch[s])
      BY <1>1 DEF NetInv, NetTypes, Owed
    <2>2. \A s \in S : books[s] \in Int /\ batch[s] = 0
      BY <2>1, BooksAssumption, NothingOwed
    <2>. QED
      BY <2>1, <2>2 DEF Onward
  <1>5. Upward' = (action \in Netting!Opening <=> direction = "LONG")
    BY <1>1 DEF Upward, Netting!Opening
  <1>6. ASSUME NEW s \in S
        PROVE  /\ target'[s] \in Int /\ batch'[s] \in Nat
               /\ target'[s] = Onward(books[s], batch[s])'
    <2>1. books[s] \in Int /\ target[s] = books[s] /\ books'[s] = books[s]
          /\ target'[s] = aim(s) /\ batch'[s] = Netting!Abs(target'[s] - books[s])
      BY <1>1, <1>3, <1>4
    <2>2. CASE s \notin wants
      <3>1. target'[s] = books[s]
        BY <2>1, <2>2
      <3>. QED
        BY <2>1, <3>1 DEF Onward, Netting!Abs
    <2>3. CASE s \in wants /\ action \in Netting!Opening
      <3>1. target'[s] = books[s] + Netting!Signed(direction, units)
        BY <2>1, <2>3
      <3>2. direction \in {"LONG", "SHORT"}
        BY DEF Netting!Direction
      <3>3. target'[s] = IF Upward' THEN books[s] + units ELSE books[s] - units
        BY <1>5, <2>1, <2>3, <3>1, <3>2 DEF Netting!Signed
      <3>4. target'[s] \in Int /\ batch'[s] = units
        BY <2>1, <3>3 DEF Netting!Abs
      <3>. QED
        BY <2>1, <3>3, <3>4 DEF Onward
    <2>4. CASE s \in wants /\ action \notin Netting!Opening
      <3>1. target'[s] = 0
        BY <2>1, <2>4
      <3>2. Netting!SideOf(books[s]) = direction
        BY <1>1, <2>4 DEF Netting!Opening
      <3>3. Upward' <=> ~(books[s] > 0)
        BY <1>5, <2>4, <3>2 DEF Netting!SideOf
      <3>4. batch'[s] = IF books[s] > 0 THEN books[s] ELSE -books[s]
        BY <2>1, <3>1 DEF Netting!Abs
      <3>5. batch'[s] \in Nat /\ 0 = IF Upward' THEN books[s] + batch'[s] ELSE books[s] - batch'[s]
        <4>1. CASE books[s] > 0
          BY <2>1, <3>3, <3>4, <4>1
        <4>2. CASE ~(books[s] > 0)
          BY <2>1, <3>3, <3>4, <4>2
        <4>. QED
          BY <4>1, <4>2
      <3>. QED
        BY <2>1, <3>1, <3>5 DEF Onward
    <2>. QED
      BY <2>2, <2>3, <2>4
  <1>7. NetTypes'
    <2>1. \A s \in S : target'[s] \in -MaxUnits .. MaxUnits
      BY <1>2, <1>6, BooksAssumption DEF Netting!Abs
    <2>2. \A s \in S : batch'[s] \in 0 .. 2 * MaxUnits
      <3>1. \A s \in S : books[s] \in -MaxUnits .. MaxUnits
        BY DEF NetInv, NetTypes
      <3>2. ASSUME NEW s \in S
            PROVE  batch'[s] \in 0 .. 2 * MaxUnits
        <4>1. /\ books[s] \in -MaxUnits .. MaxUnits /\ target'[s] \in -MaxUnits .. MaxUnits
              /\ batch'[s] = Netting!Abs(target'[s] - books[s])
          BY <1>3, <2>1, <3>1
        <4>. QED
          BY <4>1, BooksAssumption DEF Netting!Abs
      <3>. QED
        BY <3>2
    <2>3. /\ target' \in [S -> -MaxUnits .. MaxUnits]
          /\ batch' \in [S -> 0 .. 2 * MaxUnits]
      BY <1>2, <2>1, <2>2
    <2>4. intents' \in 0 .. MaxIntents /\ sequence' \in Nat
          /\ intent'.action \in {"OPEN", "INCREASE", "CLOSE"}
      BY <1>1, BooksAssumption DEF NetInv, NetTypes
    <2>. QED
      BY <1>1, <2>3, <2>4 DEF NetInv, NetTypes
  <1>8. Owed'
    <2>1. intent' # Netting!NoIntent
      BY <1>1 DEF Netting!NoIntent
    <2>2. net' = Netting!Sum(books)'
      BY <1>1 DEF NetInv, Owed
    <2>. QED
      BY <1>6, <2>1, <2>2 DEF Owed
  <1>9. Exiting'
    <2>1. ASSUME action = "CLOSE", NEW s \in S
          PROVE  batch'[s] = 0 \/ target'[s] = 0
      <3>1. action \notin Netting!Opening
        BY <2>1 DEF Netting!Opening
      <3>2. CASE s \in wants
        BY <1>3, <3>1, <3>2
      <3>3. CASE s \notin wants
        <4>1. target'[s] = books[s] /\ books[s] \in Int
          BY <1>3, <1>4, <3>3
        <4>. QED
          BY <1>3, <4>1 DEF Netting!Abs
      <3>. QED
        BY <3>2, <3>3
    <2>. QED
      BY <1>1, <2>1 DEF Exiting
  <1>. QED
    BY <1>1, <1>4, <1>7, <1>8, <1>9 DEF NetInv, OrderOnward

LEMMA NetBuild == NetInv /\ Netting!Build => NetInv'
  <1> SUFFICES ASSUME NetInv, Netting!Build
               PROVE  NetInv'
    OBVIOUS
  <1>1. /\ order' = Netting!CommandForNetting(net, Netting!Sum(target), intent)
        /\ order' # Netting!NoOrder /\ intent # Netting!NoIntent
        /\ target' = target /\ books' = books /\ net' = net /\ batch' = batch
        /\ intent' = intent /\ intents' = intents /\ sequence' = sequence + 1
    BY DEF Netting!Build, Netting!Idle
  <1>2. PICK owed \in Nat : owed = Netting!Sum(batch)
    BY AimsAdded DEF NetInv
  <1>3. PICK current \in Int : current = net
    BY DEF NetInv, NetTypes
  <1>4. PICK aim \in Int : aim = Netting!Sum(target)
    BY <1>2, <1>3, AimsAdded DEF NetInv, Onward
  <1>5. aim = Onward(current, owed)
    BY <1>2, <1>3, <1>4, AimsAdded DEF NetInv
  <1> DEFINE result == Netting!Resulting(current, aim)
             shrinks == Netting!Abs(result) < Netting!Abs(current)
  <1>6. /\ aim # current
        /\ order' = [side |-> IF aim > current THEN "BUY" ELSE "SELL",
                     action |-> CASE shrinks /\ result = 0 -> "CLOSE"
                                  [] shrinks /\ result # 0 -> "REDUCE"
                                  [] OTHER -> intent.action,
                     direction |-> IF shrinks THEN Netting!SideOf(current) ELSE intent.direction,
                     quantity |-> Netting!Abs(result - current),
                     protected |-> ~shrinks /\ intent.action \in Netting!Opening]
    BY <1>1, <1>3, <1>4, Zenon DEF Netting!CommandForNetting
  <1>7. /\ order'.side = IF aim > current THEN "BUY" ELSE "SELL"
        /\ order'.quantity = Netting!Abs(result - current)
        /\ order'.protected = (~shrinks /\ intent.action \in Netting!Opening)
    BY <1>6
  <1>8. intent.action \in Netting!Opening /\ ~order'.protected =>
          Netting!Abs(result) < Netting!Abs(current)
    BY <1>7
  <1>9. /\ result \in Int
        /\ result = IF current # 0 /\ aim # 0 /\ ~((current > 0) <=> (aim > 0)) THEN 0 ELSE aim
    BY DEF Netting!Resulting, Netting!CrossesZero
  <1>10. order'.protected \in BOOLEAN
    BY <1>7
  <1> HIDE DEF shrinks, result
  <1>11. PICK quantity \in Nat : quantity = order'.quantity
    BY <1>7, <1>9 DEF Netting!Abs
  <1>12. /\ quantity > 0 /\ quantity <= owed
         /\ current > 0 => Onward(current, quantity) >= 0
         /\ current < 0 => Onward(current, quantity) <= 0
         /\ aim > current <=> Upward
         /\ Netting!Abs(result) < Netting!Abs(current) =>
              (current > 0 /\ ~Upward) \/ (current < 0 /\ Upward)
    <2>1. quantity = IF result >= current THEN result - current ELSE current - result
      BY <1>7, <1>9, <1>11 DEF Netting!Abs
    <2>2. aim # current
      BY <1>6
    <2>3. CASE Upward
      BY <1>5, <1>9, <2>1, <2>2, <2>3 DEF Onward, Netting!Abs
    <2>4. CASE ~Upward
      BY <1>5, <1>9, <2>1, <2>2, <2>4 DEF Onward, Netting!Abs
    <2>. QED
      BY <2>3, <2>4
  <1>13. Upward' = Upward /\ (\A n, x : Onward(n, x)' = Onward(n, x))
    BY <1>1 DEF Upward, Onward
  <1>14. NetTypes'
    BY <1>1, <1>11 DEF NetInv, NetTypes
  <1>15. Owed'
    <2>1. net' = Netting!Sum(books)'
      BY <1>1 DEF NetInv, Owed
    <2>2. \A s \in Netting!StrategyId : target'[s] = Onward(books[s], batch[s])'
      BY <1>1 DEF NetInv, Owed, Upward, Onward
    <2>. QED
      BY <1>1, <2>1, <2>2 DEF Owed
  <1>16. OrderOnward'
    <2>1. order'.side = IF Upward' THEN "BUY" ELSE "SELL"
      BY <1>7, <1>12, <1>13
    <2>2. order'.quantity > 0 /\ order'.quantity <= Netting!Sum(batch)'
      BY <1>1, <1>2, <1>11, <1>12
    <2>3. /\ net' > 0 => Onward(net, order.quantity)' >= 0
          /\ net' < 0 => Onward(net, order.quantity)' <= 0
      BY <1>1, <1>3, <1>11, <1>12 DEF Onward, Upward
    <2>4. intent'.action \in Netting!Opening =>
            order'.protected \/ (net' > 0 /\ ~Upward') \/ (net' < 0 /\ Upward')
      BY <1>1, <1>3, <1>8, <1>12, <1>13
    <2>. QED
      BY <2>1, <2>2, <2>3, <2>4 DEF OrderOnward
  <1>17. Exiting'
    BY <1>1 DEF NetInv, Exiting
  <1>. QED
    BY <1>14, <1>15, <1>16, <1>17 DEF NetInv

LEMMA NetBlocked == NetInv /\ Netting!Blocked => NetInv'
  <1> SUFFICES ASSUME NetInv, Netting!Blocked
               PROVE  NetInv'
    OBVIOUS
  <1>1. /\ order = Netting!NoOrder
        /\ target' = books /\ books' = books /\ net' = net /\ order' = order
        /\ batch' = Netting!NothingLeft /\ intent' = Netting!NoIntent
        /\ intents' = intents /\ sequence' = sequence
    BY DEF Netting!Blocked
  <1>2. NetTypes'
    <2>1. Netting!NothingLeft \in [Netting!StrategyId -> 0 .. 2 * MaxUnits]
      BY BooksAssumption DEF Netting!NothingLeft
    <2>. QED
      BY <1>1, <2>1 DEF NetInv, NetTypes
  <1>3. Owed'
    <2>1. net' = Netting!Sum(books)'
      BY <1>1 DEF NetInv, Owed
    <2>2. \A s \in Netting!StrategyId : books[s] \in Int
      BY BooksAssumption DEF NetInv, NetTypes
    <2>3. \A s \in Netting!StrategyId : target'[s] = Onward(books[s], batch[s])'
      BY <1>1, <2>2, NothingOwed DEF Onward
    <2>. QED
      BY <1>1, <2>1, <2>3 DEF Owed
  <1>4. Exiting'
    BY <1>1 DEF Exiting, Netting!NoIntent
  <1>. QED
    BY <1>1, <1>2, <1>3, <1>4 DEF NetInv, OrderOnward

\* A fill of an order of the desk: the way of the intent, attributed to the last step.
LEMMA NetFilled ==
  ASSUME NetInv, NEW filled \in Int, Netting!Fill(filled)
  PROVE  /\ filled > 0 /\ filled <= order.quantity /\ order # Netting!NoOrder
         /\ net' = Onward(net, filled)
         /\ \E shares : /\ Attributed(shares, batch, filled)
                        /\ books' = [s \in Netting!StrategyId |-> Onward(books[s], shares[s])]
                        /\ batch' = [s \in Netting!StrategyId |-> batch[s] - shares[s]]
  <1> DEFINE shares == Netting!Allocation(batch, filled)
             sign == IF order.side = "BUY" THEN 1 ELSE -1
             S == Netting!StrategyId
  <1>1. /\ order # Netting!NoOrder /\ filled \in 1 .. order.quantity
        /\ net' = net + sign * filled
        /\ books' = [s \in S |-> books[s] + sign * shares[s]]
        /\ batch' = [s \in S |-> batch[s] - shares[s]]
    BY Zenon DEF Netting!Fill
  <1>2. /\ order.quantity \in Nat /\ order.quantity <= Netting!Sum(batch)
        /\ sign = IF Upward THEN 1 ELSE -1
    BY <1>1 DEF NetInv, NetTypes, OrderOnward
  <1>3. batch \in [S -> Nat] /\ filled \in Nat /\ filled # 0 /\ filled <= Netting!Sum(batch)
    <2>1. Netting!Sum(batch) \in Nat
      BY AimsAdded DEF NetInv
    <2>2. batch \in [S -> Nat]
      BY BooksAssumption DEF NetInv, NetTypes
    <2>. QED
      BY <1>1, <1>2, <2>1, <2>2
  <1>4. Attributed(shares, batch, filled)
    <2> HIDE DEF shares
    <2>. QED
      BY <1>3, FillsAreAttributed DEF shares
  <1>5. \A s \in S : shares[s] \in Nat
    BY <1>4 DEF Attributed
  <1> HIDE DEF shares, sign
  <1>6. \A s \in S : books[s] \in Int
    BY BooksAssumption DEF NetInv, NetTypes
  <1>7. books' = [s \in S |-> Onward(books[s], shares[s])]
    <2>1. \A s \in S : books[s] + sign * shares[s] = Onward(books[s], shares[s])
      BY <1>2, <1>5, <1>6 DEF Onward
    <2>. QED
      BY <1>1, <2>1
  <1>8. net' = Onward(net, filled)
    BY <1>1, <1>2 DEF Onward, NetInv, NetTypes
  <1>. QED
    BY <1>1, <1>2, <1>4, <1>7, <1>8

LEMMA NetFill ==
  ASSUME NetInv, NEW filled \in Int, Netting!Fill(filled)
  PROVE  NetInv'
  <1> DEFINE S == Netting!StrategyId
  <1>1. /\ target' = target /\ order' = Netting!NoOrder /\ sequence' = sequence
        /\ intents' = intents
        /\ intent' = IF batch' = Netting!NothingLeft THEN Netting!NoIntent ELSE intent
    BY DEF Netting!Fill
  <1>2. PICK shares : /\ Attributed(shares, batch, filled)
                      /\ books' = [s \in S |-> Onward(books[s], shares[s])]
                      /\ batch' = [s \in S |-> batch[s] - shares[s]]
    BY NetFilled
  <1>3. filled > 0 /\ net' = Onward(net, filled)
    BY NetFilled
  <1>4. /\ shares \in [S -> Int] /\ Netting!Sum(shares) = filled
        /\ \A s \in S : shares[s] \in Nat /\ shares[s] <= batch[s]
    BY <1>2 DEF Attributed
  <1>5. \A s \in S : /\ books[s] \in -MaxUnits .. MaxUnits /\ target[s] \in -MaxUnits .. MaxUnits
                     /\ batch[s] \in 0 .. 2 * MaxUnits
                     /\ target[s] = Onward(books[s], batch[s])
    BY DEF NetInv, NetTypes, Owed
  <1>6. \A s \in S : /\ books'[s] \in -MaxUnits .. MaxUnits
                     /\ batch'[s] \in 0 .. 2 * MaxUnits
                     /\ target[s] = Onward(books'[s], batch'[s])
    <2>1. \A s \in S : /\ books'[s] = IF Upward THEN books[s] + shares[s] ELSE books[s] - shares[s]
                       /\ batch'[s] = batch[s] - shares[s]
      BY <1>2 DEF Onward
    <2>2. MaxUnits \in Nat
      BY BooksAssumption
    <2>3. CASE Upward
      BY <1>4, <1>5, <2>1, <2>2, <2>3 DEF Onward
    <2>4. CASE ~Upward
      BY <1>4, <1>5, <2>1, <2>2, <2>4 DEF Onward
    <2>. QED
      BY <2>3, <2>4
  <1>7. PICK f, g : f = books' /\ g = batch'
    OBVIOUS
  <1>8. /\ f \in [S -> -MaxUnits .. MaxUnits] /\ g \in [S -> 0 .. 2 * MaxUnits]
        /\ f \in [S -> Int]
    BY <1>2, <1>6, <1>7, BooksAssumption
  <1>9. NetTypes'
    <2>1. net' \in Int
      BY <1>3 DEF NetInv, NetTypes, Onward
    <2>2. order'.quantity \in Nat
      BY <1>1 DEF Netting!NoOrder
    <2>. QED
      BY <1>1, <1>7, <1>8, <2>1, <2>2 DEF NetInv, NetTypes
  <1>10. net' = Netting!Sum(f)
    <2>1. /\ books \in [S -> Int] /\ net = Netting!Sum(books) /\ net \in Int
      BY BooksAssumption DEF NetInv, NetTypes, Owed
    <2>2. Netting!Sum(f) \in Int
      BY <1>8, SumsOfStrategies, Zenon
    <2>3. CASE Upward
      <3>1. \A s \in S : f[s] = books[s] + shares[s]
        BY <1>2, <1>7, <2>3 DEF Onward
      <3>2. Netting!Sum(f) = Netting!Sum(books) + Netting!Sum(shares)
        BY <1>4, <1>8, <2>1, <3>1, SumsOfStrategies, Zenon
      <3>. QED
        BY <1>3, <1>4, <2>1, <2>3, <3>2 DEF Onward
    <2>4. CASE ~Upward
      <3>1. \A s \in S : f[s] = books[s] - shares[s]
        BY <1>2, <1>7, <2>4 DEF Onward
      <3>2. \A s \in S : books[s] = f[s] + shares[s]
        BY <1>4, <1>8, <2>1, <3>1
      <3>3. Netting!Sum(books) = Netting!Sum(f) + Netting!Sum(shares)
        BY <1>4, <1>8, <2>1, <3>2, SumsOfStrategies, Zenon
      <3>. QED
        BY <1>3, <1>4, <2>1, <2>2, <2>4, <3>3 DEF Onward
    <2>. QED
      BY <2>3, <2>4
  <1>11. Owed'
    <2>1. net' = Netting!Sum(books)'
      BY <1>7, <1>10
    <2>2. CASE batch' = Netting!NothingLeft
      <3>1. \A s \in S : books'[s] \in Int /\ batch'[s] = 0
        BY <1>6, <2>2, BooksAssumption, NothingOwed
      <3>2. \A s \in S : target'[s] = Onward(books[s], batch[s])'
        BY <1>1, <1>6, <3>1 DEF Onward
      <3>. QED
        BY <1>1, <2>1, <2>2, <3>2 DEF Owed
    <2>3. CASE batch' # Netting!NothingLeft
      <3>1. intent' = intent
        BY <1>1, <2>3
      <3>2. intent # Netting!NoIntent
        BY NetFilled DEF NetInv, Owed
      <3>3. \A s \in S : target'[s] = Onward(books[s], batch[s])'
        BY <1>1, <1>6, <3>1 DEF Onward, Upward
      <3>. QED
        BY <2>1, <3>1, <3>2, <3>3 DEF Owed
    <2>. QED
      BY <2>2, <2>3
  <1>12. Exiting'
    <2>1. ASSUME intent'.action = "CLOSE", NEW s \in S
          PROVE  batch'[s] = 0 \/ target'[s] = 0
      <3>1. intent.action = "CLOSE"
        BY <1>1, <2>1 DEF Netting!NoIntent
      <3>2. batch[s] = 0 \/ target[s] = 0
        BY <3>1 DEF NetInv, Exiting
      <3>3. batch[s] = 0 => batch'[s] = 0
        BY <1>2, <1>4
      <3>. QED
        BY <1>1, <3>2, <3>3
    <2>. QED
      BY <2>1 DEF Exiting
  <1>. QED
    BY <1>1, <1>9, <1>11, <1>12 DEF NetInv, OrderOnward

LEMMA NetStep == NetInv /\ [Netting!Next]_netVars => NetInv'
  <1> SUFFICES ASSUME NetInv, [Netting!Next]_netVars
               PROVE  NetInv'
    OBVIOUS
  <1>1. ASSUME NEW wants \in SUBSET Netting!StrategyId, NEW action \in {"OPEN", "INCREASE", "CLOSE"},
               NEW direction \in Netting!Direction, NEW units \in 1 .. MaxUnits,
               Netting!Intend(wants, action, direction, IF action = "CLOSE" THEN 1 ELSE units)
        PROVE  NetInv'
    <2>1. (IF action = "CLOSE" THEN 1 ELSE units) \in Nat
      OBVIOUS
    <2>. QED
      BY <1>1, <2>1, NetIntend
  <1>2. CASE Netting!Build
    BY <1>2, NetBuild
  <1>3. CASE Netting!Blocked
    BY <1>3, NetBlocked
  <1>4. ASSUME NEW filled \in Int, Netting!Fill(filled)
        PROVE  NetInv'
    BY <1>4, NetFill
  <1>5. CASE UNCHANGED netVars
    <2>1. NetTypes' /\ Owed' /\ Exiting'
      BY <1>5 DEF NetInv, NetTypes, Owed, Exiting, Onward, Upward, netVars
    <2>2. OrderOnward'
      BY <1>5 DEF NetInv, OrderOnward, Onward, Upward, netVars
    <2>. QED
      BY <2>1, <2>2 DEF NetInv
  <1>6. ASSUME NEW filled \in 1 .. MaxUnits * Netting!Cardinality(Netting!StrategyId),
               Netting!Fill(filled)
        PROVE  NetInv'
    BY <1>4, <1>6
  <1>. QED
    BY <1>1, <1>2, <1>3, <1>5, <1>6 DEF Netting!Next

\* Two positions of which neither is against the other.
LEMMA SameSide == \A a, b \in Int : (a > 0 => b >= 0) /\ (a < 0 => b <= 0) => a * b >= 0
  OBVIOUS

\* While an exit is under way that would enlarge the net, somebody masks it.
LEMMA ExitsMasked ==
  ASSUME NetInv, order # Netting!NoOrder, intent.action = "CLOSE",
         IF Upward THEN net >= 0 ELSE net <= 0
  PROVE  Netting!Masked
  <1> DEFINE S == Netting!StrategyId
  <1>1. SUFFICES ASSUME \A s \in S : books[s] # 0 => Netting!SideOf(books[s]) = intent.direction
                 PROVE  FALSE
    BY DEF Netting!Masked
  <1>2. /\ Netting!Sum(batch) \in Nat /\ Netting!Sum(batch) > 0 /\ net \in Int
        /\ Netting!Sum(target) = Onward(net, Netting!Sum(batch))
    BY AimsAdded DEF NetInv, NetTypes, OrderOnward
  <1>3. Upward <=> intent.direction # "LONG"
    BY DEF Upward, Netting!Opening
  <1>4. ASSUME NEW s \in S
        PROVE  IF Upward THEN target[s] <= 0 ELSE target[s] >= 0
    <2>1. /\ books[s] \in Int /\ target[s] = Onward(books[s], batch[s])
          /\ batch[s] = 0 \/ target[s] = 0
      BY BooksAssumption DEF NetInv, NetTypes, Owed, Exiting
    <2>2. IF Upward THEN books[s] <= 0 ELSE books[s] >= 0
      BY <1>1, <1>3, <2>1 DEF Netting!SideOf
    <2>. QED
      BY <2>1, <2>2 DEF Onward
  <1>5. /\ target \in [S -> Int] /\ Netting!NothingLeft \in [S -> Int]
        /\ \A s \in S : Netting!NothingLeft[s] = 0
        /\ Netting!Sum(Netting!NothingLeft) = 0
    BY BooksAssumption, NothingOwed DEF NetInv, NetTypes
  <1>6. CASE Upward
    <2>1. \A s \in S : target[s] <= Netting!NothingLeft[s]
      BY <1>4, <1>5, <1>6
    <2>2. Netting!Sum(target) <= Netting!Sum(Netting!NothingLeft)
      BY <1>5, <2>1, SumsOfStrategies, Zenon
    <2>. QED
      BY <1>2, <1>5, <1>6, <2>2 DEF Onward
  <1>7. CASE ~Upward
    <2>1. \A s \in S : Netting!NothingLeft[s] <= target[s]
      BY <1>4, <1>5, <1>7
    <2>2. Netting!Sum(Netting!NothingLeft) <= Netting!Sum(target)
      BY <1>5, <2>1, SumsOfStrategies, Zenon
    <2>. QED
      BY <1>2, <1>5, <1>7, <2>2 DEF Onward
  <1>. QED
    BY <1>6, <1>7

\* What a step of the desk does to the net.
NetMove ==
  /\ net * net' >= 0
  /\ Netting!Abs(net') > Netting!Abs(net) =>
       order.protected \/ (intent.action = "CLOSE" /\ Netting!Masked)

LEMMA NetMoves == NetInv /\ [Netting!Next]_netVars => [NetMove]_net
  <1> SUFFICES ASSUME NetInv, Netting!Next, net' # net
               PROVE  NetMove
    BY DEF netVars
  <1>1. PICK filled \in Int : Netting!Fill(filled)
    BY DEF Netting!Next, Netting!Intend, Netting!Build, Netting!Blocked
  <1>2. /\ filled > 0 /\ filled <= order.quantity /\ order # Netting!NoOrder
        /\ net' = Onward(net, filled)
    BY <1>1, NetFilled
  <1>3. /\ net > 0 => Onward(net, order.quantity) >= 0
        /\ net < 0 => Onward(net, order.quantity) <= 0
        /\ intent.action \in Netting!Opening =>
             order.protected \/ (net > 0 /\ ~Upward) \/ (net < 0 /\ Upward)
        /\ order.quantity \in Nat /\ net \in Int
    BY <1>2 DEF NetInv, OrderOnward, NetTypes
  <1>4. net' \in Int /\ (net > 0 => net' >= 0) /\ (net < 0 => net' <= 0)
    BY <1>2, <1>3 DEF Onward
  <1>5. net * net' >= 0
    BY <1>3, <1>4, SameSide
  <1>6. ASSUME Netting!Abs(net') > Netting!Abs(net)
        PROVE  order.protected \/ (intent.action = "CLOSE" /\ Netting!Masked)
    <2>1. IF Upward THEN net >= 0 ELSE net <= 0
      BY <1>2, <1>3, <1>4, <1>6 DEF Onward, Netting!Abs
    <2>2. CASE intent.action \in Netting!Opening
      <3>1. ~(net > 0 /\ ~Upward) /\ ~(net < 0 /\ Upward)
        BY <1>3, <2>1
      <3>. QED
        BY <1>3, <2>2, <3>1
    <2>3. CASE intent.action = "CLOSE"
      BY <1>2, <2>1, <2>3, ExitsMasked
    <2>4. intent.action \in Netting!Opening \/ intent.action = "CLOSE"
      BY <1>2 DEF NetInv, NetTypes, Owed, Netting!Opening
    <2>. QED
      BY <2>2, <2>3, <2>4
  <1>. QED
    BY <1>5, <1>6 DEF NetMove

\* Whatever the strategies ask for and however the fills of an order are cut, the
\* virtual positions add up to the broker's net, no order takes it through zero, and
\* only the exit of a position that others mask in the net enlarges it without a stop
\* loss (portfolio/allocation.py, oms/service.py).
THEOREM NettingAddsUp == PartsSpec => NettingExact
  <1>1. PartsInit => NetInv
    BY NetInit DEF PartsInit
  <1>2. NetInv /\ [PartsNext]_<<part, vars, carryVars, netVars, probeVars>> =>
          NetInv' /\ [NetMove]_net
    <2>1. ASSUME [PartsNext]_<<part, vars, carryVars, netVars, probeVars>>
          PROVE  [Netting!Next]_netVars
      BY <2>1 DEF PartsNext
    <2>. QED
      BY <2>1, NetStep, NetMoves
  <1>3. NetInv => Netting!TypeOK /\ Netting!SharesAddUp
    <2> SUFFICES ASSUME NetInv
                 PROVE  Netting!TypeOK /\ Netting!SharesAddUp
      OBVIOUS
    <2>1. Netting!TypeOK
      BY DEF NetInv, NetTypes, OrderOnward, Netting!TypeOK
    <2>2. net = Netting!Sum(books)
      BY DEF NetInv, Owed
    <2>3. ASSUME NEW s \in Netting!StrategyId
          PROVE  Netting!Abs(target[s] - books[s]) = batch[s]
      <3>1. /\ books[s] \in Int /\ batch[s] \in Nat
            /\ target[s] = Onward(books[s], batch[s])
        BY BooksAssumption DEF NetInv, NetTypes, Owed
      <3>. QED
        BY <3>1 DEF Onward, Netting!Abs
    <2>4. order.quantity <= Netting!Sum(batch)
      <3>1. CASE order = Netting!NoOrder
        <4>1. Netting!Sum(batch) \in Nat
          BY AimsAdded DEF NetInv
        <4>. QED
          BY <3>1, <4>1 DEF Netting!NoOrder
      <3>2. CASE order # Netting!NoOrder
        BY <3>2 DEF NetInv, OrderOnward
      <3>. QED
        BY <3>1, <3>2
    <2>. QED
      BY <2>1, <2>2, <2>3, <2>4 DEF Netting!SharesAddUp
  <1>4. [NetMove]_net <=>
          [/\ net * net' >= 0
           /\ Netting!Abs(net') > Netting!Abs(net) =>
                order.protected \/ (intent.action = "CLOSE" /\ Netting!Masked)]_net
    BY DEF NetMove
  <1>. QED
    BY <1>1, <1>2, <1>3, <1>4, PTL
       DEF PartsSpec, NettingExact, Netting!NettingExact, Netting!OneSideAtATime

-----------------------------------------------------------------------------
(* The carry of a replay (RolloverCarry). *)

\* What a set of rollovers costs at the rates r, for u units.
Dues(r, days, u) == SetTotal([d \in days |-> r[d] * u])

\* Rates of the days of a run.
RatesOf(r, days) == r \in [days -> Int] /\ IsFiniteSet(days)

LEMMA Products == \A a, b, c \in Int : a * (b + c) = a * b + a * c /\ a * b \in Int
  OBVIOUS

LEMMA DuesType ==
  ASSUME NEW r, NEW days, RatesOf(r, days)
  PROVE  /\ \A D \in SUBSET days, u \in Int : Dues(r, D, u) \in Int
         /\ \A D \in SUBSET days : Dues(r, D, 0) = 0
  <1>1. ASSUME NEW D \in SUBSET days, NEW u \in Int
        PROVE  Dues(r, D, u) \in Int
    <2>1. IsFiniteSet(D) /\ [d \in D |-> r[d] * u] \in [D -> Int]
      BY FS_Subset DEF RatesOf
    <2>. QED
      BY <2>1, TotalInt DEF Dues
  <1>2. ASSUME NEW D \in SUBSET days
        PROVE  Dues(r, D, 0) = 0
    <2> DEFINE f == [d \in D |-> r[d] * 0]
    <2>1. IsFiniteSet(D) /\ f \in [D -> Int] /\ \A d \in D : f[d] = 0
      BY FS_Subset DEF RatesOf
    <2> HIDE DEF f
    <2>2. SetTotal(f) = 0
      BY <2>1, TotalZero
    <2>. QED
      BY <2>2 DEF Dues, f
  <1>. QED
    BY <1>1, <1>2

LEMMA DuesSplit ==
  ASSUME NEW r, NEW days, RatesOf(r, days), NEW D \in SUBSET days, NEW a \in Int, NEW b \in Int
  PROVE  Dues(r, D, a + b) = Dues(r, D, a) + Dues(r, D, b)
  <1> DEFINE f == [d \in D |-> r[d] * a]
             g == [d \in D |-> r[d] * b]
             h == [d \in D |-> r[d] * (a + b)]
  <1>1. IsFiniteSet(D)
    BY FS_Subset DEF RatesOf
  <1>2. f \in [D -> Int] /\ g \in [D -> Int] /\ h \in [D -> Int]
    BY Products DEF RatesOf
  <1>3. \A d \in D : h[d] = f[d] + g[d]
    <2>1. \A d \in D : r[d] \in Int
      BY DEF RatesOf
    <2>. QED
      BY <2>1, Products
  <1> HIDE DEF f, g, h
  <1>4. SetTotal(h) = SetTotal(f) + SetTotal(g)
    BY <1>1, <1>2, <1>3, TotalAdded
  <1>. QED
    BY <1>4 DEF Dues, f, g, h

\* Days apart.
LEMMA DuesJoin ==
  ASSUME NEW r, NEW days, RatesOf(r, days), NEW D \in SUBSET days, NEW E \in SUBSET days,
         D \cap E = {}, NEW u \in Int
  PROVE  Dues(r, D \cup E, u) = Dues(r, D, u) + Dues(r, E, u)
  <1> DEFINE S == D \cup E
             f == [d \in S |-> IF d \in D THEN r[d] * u ELSE 0]
             g == [d \in S |-> IF d \in E THEN r[d] * u ELSE 0]
             h == [d \in S |-> r[d] * u]
  <1>1. IsFiniteSet(S)
    BY FS_Subset DEF RatesOf
  <1>2. f \in [S -> Int] /\ g \in [S -> Int] /\ h \in [S -> Int]
    BY Products DEF RatesOf
  <1>3. \A d \in S : h[d] = f[d] + g[d]
    <2>1. \A d \in S : r[d] * u \in Int
      BY Products DEF RatesOf
    <2>. QED
      BY <2>1
  <1>4. Part(f, D) = [d \in D |-> r[d] * u] /\ Part(g, E) = [d \in E |-> r[d] * u]
    BY DEF Part
  <1>5. (\A d \in S \ D : f[d] = 0) /\ (\A d \in S \ E : g[d] = 0)
    OBVIOUS
  <1>6. D \in SUBSET S /\ E \in SUBSET S
    OBVIOUS
  <1> HIDE DEF f, g, h, S
  <1>7. SetTotal(h) = SetTotal(f) + SetTotal(g)
    BY <1>1, <1>2, <1>3, TotalAdded
  <1>8. SetTotal(f) = SetTotal(Part(f, D)) /\ SetTotal(g) = SetTotal(Part(g, E))
    BY <1>1, <1>2, <1>5, <1>6, TotalPart
  <1>. QED
    BY <1>4, <1>7, <1>8 DEF Dues, h, S

\* Days without a price cost nothing.
LEMMA DuesPart ==
  ASSUME NEW r, NEW days, RatesOf(r, days), NEW D \in SUBSET days, NEW E \in SUBSET D,
         \A d \in D \ E : r[d] = 0, NEW u \in Int
  PROVE  Dues(r, D, u) = Dues(r, E, u)
  <1> DEFINE f == [d \in D |-> r[d] * u]
  <1>1. IsFiniteSet(D) /\ f \in [D -> Int]
    BY FS_Subset, Products DEF RatesOf
  <1>2. \A d \in D \ E : f[d] = 0
    OBVIOUS
  <1>3. Part(f, E) = [d \in E |-> r[d] * u]
    BY DEF Part
  <1> HIDE DEF f
  <1>4. SetTotal(f) = SetTotal(Part(f, E))
    BY <1>1, <1>2, TotalPart
  <1>. QED
    BY <1>3, <1>4 DEF Dues, f

LEMMA DuesOne ==
  ASSUME NEW r, NEW days, RatesOf(r, days), NEW d \in days, NEW u \in Int
  PROVE  Dues(r, {d}, u) = r[d] * u
  <1> DEFINE f == [x \in {} |-> 0]
             g == [x \in {d} |-> r[x] * u]
  <1>1. IsFiniteSet({}) /\ f \in [{} -> Int] /\ g \in [{} \cup {d} -> Int] /\ g[d] = r[d] * u
    BY FS_EmptySet, Products DEF RatesOf
  <1> HIDE DEF f, g
  <1>2. SetTotal(f) = 0
    BY <1>1, TotalEmpty
  <1>3. SetTotal(g) = SetTotal(f) + g[d]
    BY <1>1, TotalWith DEF KeyAdded
  <1>4. r[d] * u \in Int
    BY Products DEF RatesOf
  <1>. QED
    BY <1>1, <1>2, <1>3, <1>4 DEF Dues, g

\* Sets apart are counted one after the other.
LEMMA ApartCounted ==
  ASSUME NEW A, NEW B, IsFiniteSet(A), IsFiniteSet(B), A \cap B = {}
  PROVE  /\ Cardinality(A \cup B) = Cardinality(A) + Cardinality(B)
         /\ Cardinality(A) \in Nat /\ Cardinality(B) \in Nat
  <1>1. Cardinality(A \cup B) = Cardinality(A) + Cardinality(B) - Cardinality(A \cap B)
    BY FS_Union
  <1>2. Cardinality(A) \in Nat /\ Cardinality(B) \in Nat
    BY FS_CardinalityType
  <1>3. Cardinality(A \cap B) = 0
    BY FS_EmptySet, Zenon
  <1>. QED
    BY <1>1, <1>2, <1>3

-----------------------------------------------------------------------------
\* The operators RolloverCarry has from the libraries are those of FoldTheorems.
LEMMA CarrySums ==
  /\ \A f : Carry!Total(f) = SetTotal(f)
  /\ \A S : Carry!Cardinality(S) = Cardinality(S)
  /\ \A S : Carry!Max(S) = Max(S)
  <1>0. \A S : Carry!Cardinality(S) = Cardinality(S)
    BY Zenon DEF Carry!Cardinality, Cardinality
  <1>1. \A s : Carry!FoldLeft(LAMBDA a, b : a + b, 0, s) = Summed(s)
    BY Zenon DEF Summed, Carry!FoldLeft, FoldLeft, Carry!MapThenFoldSet,
                 MapThenFoldSet, Carry!Max, Max
  <1>2. \A S : Carry!SetToSeq(S) = SetToSeq(S)
    BY <1>0, Zenon DEF Carry!SetToSeq, SetToSeq, Carry!IsInjective, IsInjective
  <1>3. \A S : Carry!Max(S) = Max(S)
    BY Zenon DEF Carry!Max, Max
  <1> QED
    BY <1>0, <1>1, <1>2, <1>3, Zenon DEF Carry!Total, SetTotal

\* What a unit pays on each day; nothing where no price was known.
Rates == [d \in Carry!Days |-> IF Carry!Priced(d) THEN Carry!PerUnit(d) ELSE 0]

LEMMA RatesAre ==
  ASSUME snapshots \in Feeds
  PROVE  /\ RatesOf(Rates, Carry!Days)
         /\ \A d \in Carry!Days : Rates[d] = IF Carry!Priced(d) THEN Carry!PerUnit(d) ELSE 0
  <1>1. IsFiniteSet(Carry!Days)
    <2>1. 1 \in Int /\ Horizon \in Int
      BY CarryAssumption
    <2>. QED
      BY <2>1, FS_Interval DEF Carry!Days
  <1>2. ASSUME NEW d \in Carry!Days, Carry!Priced(d)
        PROVE  Carry!PerUnit(d) \in Int
    <2> DEFINE known == Carry!KnownAt(d)
               s == snapshots[Max(known)]
    <2>1. /\ Len(snapshots) \in Nat /\ DOMAIN snapshots = 1 .. Len(snapshots)
          /\ \A i \in DOMAIN snapshots : IsSnapshot(snapshots[i])
      BY CarryAssumption
    <2>2. known \in SUBSET (1 .. Len(snapshots)) /\ known # {}
      BY <1>2, <2>1 DEF Carry!KnownAt, Carry!Priced
    <2> HIDE DEF known
    <2>3. Max(known) \in known
      BY <2>1, <2>2, MaxUpTo
    <2>4. IsSnapshot(s)
      BY <2>1, <2>2, <2>3
    <2> HIDE DEF s
    <2>5. Carry!Multiplier(s, d) \in Int
      BY <2>4 DEF Carry!Multiplier, IsSnapshot
    <2>6. Carry!CarryPerUnit(s, d) \in Int
      BY <2>4, <2>5, Products DEF Carry!CarryPerUnit, IsSnapshot
    <2>. QED
      BY <2>6, CarrySums DEF Carry!PerUnit, s, known
  <1>. QED
    BY <1>1, <1>2 DEF Rates, RatesOf

LEMMA DueIs ==
  ASSUME snapshots \in Feeds, NEW D \in SUBSET Carry!Days, NEW u \in Int
  PROVE  Carry!Due(D, u) = Dues(Rates, D, u)
  <1> DEFINE E == {d \in D : Carry!Priced(d)}
  <1>1. RatesOf(Rates, Carry!Days) /\ E \in SUBSET D /\ \A d \in D \ E : Rates[d] = 0
    BY RatesAre
  <1>2. [d \in E |-> Carry!PerUnit(d) * u] = [d \in E |-> Rates[d] * u]
    BY RatesAre
  <1>3. Carry!Due(D, u) = SetTotal([d \in E |-> Carry!PerUnit(d) * u])
    BY CarrySums, Zenon DEF Carry!Due
  <1> HIDE DEF E
  <1>4. Dues(Rates, D, u) = Dues(Rates, E, u)
    BY <1>1, DuesPart
  <1>. QED
    BY <1>2, <1>3, <1>4 DEF Dues

LEMMA RatesKept ==
  ASSUME snapshots' = snapshots
  PROVE  /\ Rates' = Rates
         /\ \A d : Carry!Priced(d)' = Carry!Priced(d)
  <1>1. \A d : Carry!Priced(d)' = Carry!Priced(d) /\ Carry!PerUnit(d)' = Carry!PerUnit(d)
    BY DEF Carry!Priced, Carry!PerUnit, Carry!KnownAt
  <1>. QED
    BY <1>1 DEF Rates

-----------------------------------------------------------------------------
TradeRecord == [ticket: Tickets, left: Nat, units: Nat \ {0}, entry: Int, exit: Int, carry: Int]

CarryTypes ==
  /\ snapshots \in Feeds
  /\ clock \in 0 .. Horizon /\ label \in Int /\ label <= clock
  /\ pc \in {"accrue", "book"}
  /\ next \in Nat /\ processed \in SUBSET Carry!Days
  /\ book \in [Tickets -> [opened: Int, units: Nat]]
  /\ charged = [t \in Tickets |-> charged[t]]
  /\ unpriced \in [Carry!Days -> [Tickets -> Nat]]
  /\ total \in Int /\ crossings \in Int
  /\ IsFiniteSet(trades) /\ trades \subseteq TradeRecord

\* Where a tick stands among the rollovers.
Placed ==
  /\ next = 0 => pc = "accrue" /\ trades = {} /\ \A t \in Tickets : book[t].units = 0
  /\ \A d \in processed : d < next
  /\ pc = "book" => clock < Carry!Midnight(next)
  /\ pc = "accrue" => snapshot = Carry!NoSnapshot
  /\ snapshot # Carry!NoSnapshot => snapshot = <<total>>

\* The rollovers a ticket's position has seen so far.
SeenBy(t) == {d \in processed : book[t].opened < Carry!Midnight(d)}

\* What is noted of a ticket is what it holds, at each priced rollover it has seen.
Charged ==
  \A t \in Tickets :
    /\ DOMAIN charged[t] = {d \in SeenBy(t) : Carry!Priced(d) /\ book[t].units > 0}
    /\ \A d \in DOMAIN charged[t] :
         charged[t][d].perUnit = Rates[d] /\ charged[t][d].units = book[t].units

Through(trade) == Carry!Crossed(trade.entry, trade.exit)

\* A trade bears what its quantity went through, and nothing still to come.
Traded ==
  \A trade \in trades :
    /\ trade.carry = Dues(Rates, Through(trade), trade.units)
    /\ trade.exit < Carry!Midnight(next)
    /\ trade.entry = book[trade.ticket].opened
    /\ trade.left >= book[trade.ticket].units

OfTrades == [trade \in trades |-> trade.carry]
OfTickets == [t \in Tickets |-> Dues(Rates, SeenBy(t), book[t].units)]
Summing == total = SetTotal(OfTrades) + SetTotal(OfTickets)

\* What is still held of those that saw a rollover, and more where somebody who
\* went through it was closed after it.
HeldAt(d, t) == IF d \in SeenBy(t) THEN book[t].units ELSE 0
ClosedAfter(d, t) == \E trade \in trades : trade.ticket = t /\ d \in Through(trade)
Unpriced ==
  \A d \in Carry!Days, t \in Tickets :
    IF d \in processed /\ ~Carry!Priced(d)
    THEN /\ unpriced[d][t] >= HeldAt(d, t)
         /\ unpriced[d][t] > HeldAt(d, t) <=> ClosedAfter(d, t)
    ELSE unpriced[d][t] = 0

Marked == {d \in Carry!Days : \E t \in Tickets : unpriced[d][t] > 0}
Counting == crossings = Cardinality(Marked)

CarryInv ==
  CarryTypes /\ Placed /\ Charged /\ Traded /\ Summing /\ Unpriced /\ Counting

-----------------------------------------------------------------------------
LEMMA DaysFinite == IsFiniteSet(Carry!Days) /\ Carry!Days \in SUBSET Nat
  <1>1. 1 \in Int /\ Horizon \in Int
    BY CarryAssumption
  <1>. QED
    BY <1>1, FS_Interval DEF Carry!Days

\* Rollovers are in the order of their days.
LEMMA MidnightsGrow ==
  \A d, e \in Nat : (d < e => Carry!Midnight(d) < Carry!Midnight(e))
                    /\ Carry!Midnight(d) \in Nat /\ d <= Carry!Midnight(d)
  <1>1. DayLength \in Nat /\ DayLength >= 1
    BY CarryAssumption
  <1>2. \A d, e \in Nat, k \in Nat : k >= 1 /\ d < e => d * k < e * k /\ d * k \in Nat /\ d <= d * k
    OBVIOUS
  <1>3. \A d, k \in Nat : k >= 1 => d * k \in Nat /\ d <= d * k
    OBVIOUS
  <1>. QED
    BY <1>1, <1>2, <1>3 DEF Carry!Midnight

\* The next rollover after an instant.
LEMMA NextIsLater ==
  ASSUME NEW c \in Nat
  PROVE  /\ c \div DayLength + 1 \in Nat /\ c \div DayLength + 1 # 0
         /\ c < Carry!Midnight(c \div DayLength + 1)
  <1>1. DayLength \in Nat /\ DayLength >= 1
    BY CarryAssumption
  <1>2. \A a, b \in Nat : b >= 1 => a \div b \in Nat /\ a < (a \div b + 1) * b
    OBVIOUS
  <1>. QED
    BY <1>1, <1>2 DEF Carry!Midnight

LEMMA CarryInit ==
  ASSUME Carry!Init
  PROVE  CarryInv
  <1> USE CarryAssumption DEF Carry!Init, Carry!Nobody
  <1>1. CarryTypes
    <2>1. IsFiniteSet(trades)
      BY FS_EmptySet
    <2>2. /\ snapshots \in Feeds
          /\ clock \in 0 .. Horizon /\ label \in Int /\ label <= clock
          /\ pc \in {"accrue", "book"}
          /\ next \in Nat /\ processed \in SUBSET Carry!Days
          /\ total \in Int /\ crossings \in Int /\ trades \subseteq TradeRecord
      OBVIOUS
    <2>3. book \in [Tickets -> [opened: Int, units: Nat]]
      OBVIOUS
    <2>4. unpriced \in [Carry!Days -> [Tickets -> Nat]]
      OBVIOUS
    <2>. QED
      BY <2>1, <2>2, <2>3, <2>4 DEF CarryTypes
  <1>2. Placed
    BY DEF Placed
  <1>3. Charged
    BY DEF Charged, SeenBy, Carry!Uncharged
  <1>4. Traded
    BY DEF Traded
  <1>5. Summing
    <2>1. RatesOf(Rates, Carry!Days)
      BY RatesAre
    <2>2. SetTotal(OfTrades) = 0
      BY TotalEmpty DEF OfTrades
    <2>3. \A t \in Tickets : SeenBy(t) = {} /\ book[t].units = 0
      BY DEF SeenBy
    <2>4. \A t \in Tickets : OfTickets[t] = 0
      BY <2>1, <2>3, DuesType DEF OfTickets
    <2>5. OfTickets \in [Tickets -> Int]
      BY <2>4 DEF OfTickets
    <2>6. SetTotal(OfTickets) = 0
      BY <2>4, <2>5, TotalZero
    <2>. QED
      BY <2>2, <2>6 DEF Summing
  <1>6. Unpriced
    BY DEF Unpriced
  <1>7. Counting
    <2>1. Marked = {}
      BY DEF Marked
    <2>. QED
      BY <2>1, FS_EmptySet DEF Counting
  <1>. QED
    BY <1>1, <1>2, <1>3, <1>4, <1>5, <1>6, <1>7 DEF CarryInv

LEMMA SumsTyped ==
  ASSUME CarryInv
  PROVE  /\ RatesOf(Rates, Carry!Days)
         /\ OfTrades \in [trades -> Int] /\ SetTotal(OfTrades) \in Int
         /\ OfTickets \in [Tickets -> Int] /\ SetTotal(OfTickets) \in Int
         /\ \A t \in Tickets : SeenBy(t) \in SUBSET Carry!Days /\ book[t].units \in Nat
  <1>1. IsFiniteSet(trades) /\ OfTrades \in [trades -> Int]
    BY DEF CarryInv, CarryTypes, OfTrades, TradeRecord
  <1>2. \A t \in Tickets : SeenBy(t) \in SUBSET Carry!Days /\ book[t].units \in Nat
    BY DEF CarryInv, CarryTypes, SeenBy
  <1>3. RatesOf(Rates, Carry!Days)
    BY RatesAre DEF CarryInv, CarryTypes
  <1>4. OfTickets \in [Tickets -> Int]
    BY <1>2, <1>3, DuesType DEF OfTickets
  <1>. QED
    BY <1>1, <1>2, <1>3, <1>4, CarryAssumption, TotalInt

\* A step that touches no record.
BooksSame ==
  /\ snapshots' = snapshots /\ processed' = processed /\ book' = book /\ charged' = charged
  /\ unpriced' = unpriced /\ crossings' = crossings /\ total' = total /\ trades' = trades

LEMMA CarryFrame ==
  ASSUME CarryInv, BooksSame, next' = next \/ next = 0
  PROVE  Charged' /\ Traded' /\ Summing' /\ Unpriced' /\ Counting'
  <1> USE DEF CarryInv, BooksSame
  <1>1. Rates' = Rates /\ \A d : Carry!Priced(d)' = Carry!Priced(d)
    BY RatesKept
  <1>2. \A t : SeenBy(t)' = SeenBy(t)
    BY DEF SeenBy
  <1>3. \A trade : Through(trade)' = Through(trade)
    BY DEF Through, Carry!Crossed
  <1>4. Charged'
    BY <1>1, <1>2 DEF Charged
  <1>5. Traded'
    BY <1>1, <1>3 DEF Traded, Placed
  <1>6. Summing'
    BY <1>1, <1>2 DEF Summing, OfTrades, OfTickets
  <1>7. Unpriced'
    BY <1>1, <1>2, <1>3 DEF Unpriced, HeldAt, ClosedAfter
  <1>8. Counting'
    BY DEF Counting, Marked
  <1>. QED
    BY <1>4, <1>5, <1>6, <1>7, <1>8

LEMMA CarryTick ==
  ASSUME CarryInv, NEW known \in 0 .. Horizon, NEW time \in 0 .. Horizon, Carry!Tick(known, time)
  PROVE  CarryInv'
  <1> USE DEF Carry!Tick
  <1>1. BooksSame /\ next' = next
    BY DEF BooksSame
  <1>2. Charged' /\ Traded' /\ Summing' /\ Unpriced' /\ Counting'
    BY <1>1, CarryFrame
  <1>3. CarryTypes'
    BY DEF CarryInv, CarryTypes
  <1>4. Placed'
    BY DEF CarryInv, Placed
  <1>. QED
    BY <1>2, <1>3, <1>4 DEF CarryInv

LEMMA CarryAccrued ==
  ASSUME CarryInv, NEW hourly \in BOOLEAN, Carry!Accrued(hourly)
  PROVE  CarryInv'
  <1> USE DEF Carry!Accrued
  <1>1. BooksSame /\ (next' = next \/ next = 0)
    BY DEF BooksSame
  <1>2. Charged' /\ Traded' /\ Summing' /\ Unpriced' /\ Counting'
    BY <1>1, CarryFrame
  <1>3. clock \in Nat /\ next \in Nat
    BY DEF CarryInv, CarryTypes
  <1>4. next' \in Nat /\ next' # 0 /\ clock < Carry!Midnight(next')
    <2>1. CASE next = 0
      <3>1. next' = clock \div DayLength + 1
        BY <2>1
      <3>. QED
        BY <1>3, <3>1, NextIsLater, Zenon
    <2>2. CASE next # 0
      BY <1>3, <2>2, MidnightsGrow
    <2>. QED
      BY <2>1, <2>2
  <1>5. CarryTypes'
    BY <1>4 DEF CarryInv, CarryTypes
  <1>6. Placed'
    <2>1. \A d \in processed : d < next'
      <3>1. next = 0 => processed = {}
        BY DEF CarryInv, Placed, CarryTypes, Carry!Days
      <3>. QED
        BY <3>1 DEF CarryInv, Placed
    <2>. QED
      BY <1>4, <2>1 DEF CarryInv, Placed, Carry!NoSnapshot
  <1>. QED
    BY <1>2, <1>5, <1>6 DEF CarryInv

-----------------------------------------------------------------------------
(* A rollover. *)

LEMMA RolloverDays ==
  ASSUME CarryInv, Carry!Rollover
  PROVE  /\ next \in Carry!Days /\ next \notin processed /\ next # 0
         /\ Rates' = Rates /\ \A d : Carry!Priced(d)' = Carry!Priced(d)
         /\ \A t \in Tickets : SeenBy(t)' = IF book[t].opened < Carry!Midnight(next)
                                            THEN SeenBy(t) \cup {next} ELSE SeenBy(t)
         /\ \A trade \in trades : Through(trade)' = Through(trade)
  <1> USE DEF Carry!Rollover
  <1>1. next \in Nat /\ next # 0 /\ Carry!Midnight(next) <= clock /\ clock \in 0 .. Horizon
    BY DEF CarryInv, CarryTypes
  <1>2. next \in Carry!Days
    <2>1. next <= Carry!Midnight(next) /\ Carry!Midnight(next) \in Nat
      BY <1>1, MidnightsGrow
    <2>. QED
      BY <1>1, <2>1, CarryAssumption DEF Carry!Days
  <1>3. next \notin processed
    BY <1>1 DEF CarryInv, Placed
  <1>4. Rates' = Rates /\ \A d : Carry!Priced(d)' = Carry!Priced(d)
    BY RatesKept
  <1>5. \A t \in Tickets : SeenBy(t)' = IF book[t].opened < Carry!Midnight(next)
                                        THEN SeenBy(t) \cup {next} ELSE SeenBy(t)
    BY DEF SeenBy
  <1>6. \A trade \in trades : Through(trade)' = Through(trade)
    <2>1. ASSUME NEW trade \in trades
          PROVE  ~(Carry!Midnight(next) <= trade.exit)
      <3>1. trade.exit \in Int /\ trade.exit < Carry!Midnight(next)
        BY DEF CarryInv, CarryTypes, Traded, TradeRecord
      <3>2. Carry!Midnight(next) \in Nat
        BY <1>1, MidnightsGrow
      <3>. QED
        BY <3>1, <3>2
    <2>. QED
      BY <2>1 DEF Through, Carry!Crossed
  <1>. QED
    BY <1>1, <1>2, <1>3, <1>4, <1>5, <1>6

\* What the rollover costs is what the tickets owe more than before.
RolloverDue == [t \in Tickets |-> IF book[t].opened < Carry!Midnight(next)
                                  THEN Rates[next] * book[t].units ELSE 0]

LEMMA RolloverOwed ==
  ASSUME CarryInv, Carry!Rollover
  PROVE  /\ SetTotal(OfTickets') = SetTotal(OfTickets) + SetTotal(RolloverDue)
         /\ RolloverDue \in [Tickets -> Int] /\ SetTotal(RolloverDue) \in Int
  <1>1. /\ RatesOf(Rates, Carry!Days) /\ Rates' = Rates /\ book' = book
        /\ next \in Carry!Days /\ next \notin processed
        /\ \A t \in Tickets : /\ SeenBy(t) \in SUBSET Carry!Days /\ next \notin SeenBy(t)
                              /\ book[t].units \in Nat
    BY RolloverDays, RatesAre DEF CarryInv, CarryTypes, SeenBy, Carry!Rollover
  <1>2. IsFiniteSet(Tickets)
    BY CarryAssumption
  <1>3. ASSUME NEW t \in Tickets
        PROVE  /\ OfTickets[t] \in Int /\ RolloverDue[t] \in Int
               /\ OfTickets'[t] = OfTickets[t] + RolloverDue[t]
    <2> DEFINE u == book[t].units
               D == SeenBy(t)
    <2>1. OfTickets[t] = Dues(Rates, D, u) /\ OfTickets'[t] = Dues(Rates, SeenBy(t)', u)
      BY <1>1 DEF OfTickets
    <2>2. D \in SUBSET Carry!Days /\ u \in Int /\ next \notin D
      BY <1>1
    <2>3. Rates[next] \in Int
      BY <1>1 DEF RatesOf
    <2>4. RolloverDue[t] = IF book[t].opened < Carry!Midnight(next) THEN Rates[next] * u ELSE 0
      BY DEF RolloverDue
    <2>5. SeenBy(t)' = IF book[t].opened < Carry!Midnight(next) THEN D \cup {next} ELSE D
      BY RolloverDays
    <2> HIDE DEF D, u
    <2>6. Dues(Rates, D, u) \in Int
      BY <1>1, <2>2, DuesType
    <2>7. CASE book[t].opened < Carry!Midnight(next)
      <3>1. D \cap {next} = {} /\ {next} \in SUBSET Carry!Days
        BY <1>1, <2>2
      <3>2. Dues(Rates, D \cup {next}, u) = Dues(Rates, D, u) + Dues(Rates, {next}, u)
        BY <1>1, <2>2, <3>1, DuesJoin
      <3>3. Dues(Rates, {next}, u) = Rates[next] * u
        BY <1>1, <2>2, DuesOne
      <3>4. Rates[next] * u \in Int
        BY <2>2, <2>3, Products
      <3>. QED
        BY <2>1, <2>4, <2>5, <2>6, <2>7, <3>2, <3>3, <3>4
    <2>8. CASE ~(book[t].opened < Carry!Midnight(next))
      BY <2>1, <2>4, <2>5, <2>6, <2>8
    <2>. QED
      BY <2>7, <2>8
  <1>4. /\ OfTickets \in [Tickets -> Int] /\ OfTickets' \in [Tickets -> Int]
        /\ RolloverDue \in [Tickets -> Int]
    <2>1. \A t \in Tickets : OfTickets'[t] \in Int
      BY <1>3
    <2>2. OfTickets = [t \in Tickets |-> OfTickets[t]]
          /\ OfTickets' = [t \in Tickets |-> OfTickets'[t]]
          /\ RolloverDue = [t \in Tickets |-> RolloverDue[t]]
      BY DEF OfTickets, RolloverDue
    <2>. QED
      BY <1>3, <2>1, <2>2
  <1>. QED
    BY <1>2, <1>3, <1>4, TotalAdded, TotalInt

\* Those the engine charges.
HeldOver == {t \in Tickets : book[t].units > 0 /\ book[t].opened < Carry!Midnight(next)}

LEMMA RolloverTotal ==
  ASSUME CarryInv, Carry!Rollover
  PROVE  total' = total + SetTotal(RolloverDue)
  <1> DEFINE charges == [t \in HeldOver |-> Carry!PerUnit(next) * book[t].units]
  <1>1. /\ RolloverDue \in [Tickets -> Int] /\ IsFiniteSet(Tickets) /\ total \in Int
        /\ next \in Carry!Days /\ \A t \in Tickets : book[t].units \in Nat
    BY RolloverOwed, RolloverDays, CarryAssumption DEF CarryInv, CarryTypes
  <1>2. RatesOf(Rates, Carry!Days)
        /\ Rates[next] = IF Carry!Priced(next) THEN Carry!PerUnit(next) ELSE 0
    BY <1>1, RatesAre DEF CarryInv, CarryTypes
  <1>3. CASE Carry!Priced(next)
    <2>1. total' = total + SetTotal(charges)
      BY <1>3, CarrySums, Zenon DEF Carry!Rollover, HeldOver
    <2>2. HeldOver \in SUBSET Tickets /\ \A t \in Tickets \ HeldOver : RolloverDue[t] = 0
      <3>1. \A t \in Tickets \ HeldOver :
              ~(book[t].opened < Carry!Midnight(next)) \/ book[t].units = 0
        BY <1>1 DEF HeldOver
      <3>2. Rates[next] * 0 = 0
        BY <1>1, <1>2 DEF RatesOf
      <3>. QED
        BY <3>1, <3>2 DEF RolloverDue, HeldOver
    <2>3. Part(RolloverDue, HeldOver) = charges
      BY <1>2, <1>3 DEF Part, RolloverDue, HeldOver
    <2> HIDE DEF charges
    <2>4. SetTotal(RolloverDue) = SetTotal(Part(RolloverDue, HeldOver))
      BY <1>1, <2>2, TotalPart
    <2>. QED
      BY <2>1, <2>3, <2>4
  <1>4. CASE ~Carry!Priced(next)
    <2>1. total' = total
      BY <1>4 DEF Carry!Rollover
    <2>2. \A t \in Tickets : RolloverDue[t] = 0
      BY <1>1, <1>2, <1>4 DEF RolloverDue
    <2>3. SetTotal(RolloverDue) = 0
      BY <1>1, <2>2, TotalZero
    <2>. QED
      BY <1>1, <2>1, <2>3
  <1>. QED
    BY <1>3, <1>4

LEMMA RolloverUnpriced ==
  ASSUME CarryInv, Carry!Rollover
  PROVE  Unpriced' /\ Counting' /\ unpriced' \in [Carry!Days -> [Tickets -> Nat]]
         /\ crossings' \in Int
  <1>1. /\ next \in Carry!Days /\ next \notin processed
        /\ \A d : Carry!Priced(d)' = Carry!Priced(d)
        /\ book' = book /\ trades' = trades /\ processed' = processed \cup {next}
        /\ unpriced \in [Carry!Days -> [Tickets -> Nat]] /\ crossings \in Int
        /\ book \in [Tickets -> [opened: Int, units: Nat]]
    BY RolloverDays DEF CarryInv, CarryTypes, Carry!Rollover
  <1>2. \A t \in Tickets : unpriced[next][t] = 0
    BY <1>1 DEF CarryInv, Unpriced
  <1>3. \A d \in Carry!Days, t \in Tickets : d # next => HeldAt(d, t)' = HeldAt(d, t)
    BY <1>1, RolloverDays DEF HeldAt
  <1>4. ASSUME NEW d, d = next, NEW t \in Tickets
        PROVE  HeldAt(d, t)' = IF t \in HeldOver THEN book[t].units ELSE 0
    <2>1. d \notin SeenBy(t)
      BY <1>1, <1>4 DEF SeenBy
    <2>2. HeldAt(d, t)' = IF d \in SeenBy(t)' THEN book[t].units ELSE 0
      BY <1>1 DEF HeldAt
    <2>3. d \in SeenBy(t)' <=> book[t].opened < Carry!Midnight(next)
      BY <1>4, <2>1, RolloverDays
    <2>. QED
      BY <1>1, <2>2, <2>3 DEF HeldOver
  <1>5. \A d \in Carry!Days, t \in Tickets : ClosedAfter(d, t)' = ClosedAfter(d, t)
    BY <1>1, RolloverDays DEF ClosedAfter
  <1>6. \A t \in Tickets : ~ClosedAfter(next, t)
    BY <1>1 DEF ClosedAfter, Through, Carry!Crossed
  <1>7. CASE Carry!Priced(next)
    <2>1. unpriced' = unpriced /\ crossings' = crossings
      BY <1>7 DEF Carry!Rollover
    <2>2. Unpriced'
      BY <1>1, <1>2, <1>3, <1>5, <1>7, <2>1 DEF CarryInv, Unpriced
    <2>. QED
      BY <1>1, <2>1, <2>2 DEF CarryInv, Counting, Marked
  <1>8. CASE ~Carry!Priced(next)
    <2>1. /\ unpriced' = [unpriced EXCEPT ![next] =
                            [t \in Tickets |-> IF t \in HeldOver THEN book[t].units ELSE 0]]
          /\ crossings' = crossings + (IF HeldOver # {} THEN 1 ELSE 0)
      BY <1>8, Zenon DEF Carry!Rollover, HeldOver
    <2>2. unpriced' \in [Carry!Days -> [Tickets -> Nat]]
      BY <1>1, <2>1
    <2>3. /\ \A d \in Carry!Days : d # next => unpriced'[d] = unpriced[d]
          /\ \A t \in Tickets : unpriced'[next][t] = IF t \in HeldOver THEN book[t].units ELSE 0
      BY <1>1, <2>1
    <2>4. Unpriced'
      <3>1. ASSUME NEW d \in Carry!Days, NEW t \in Tickets, d # next
            PROVE  IF d \in processed' /\ ~Carry!Priced(d)'
                   THEN /\ unpriced'[d][t] >= HeldAt(d, t)'
                        /\ unpriced'[d][t] > HeldAt(d, t)' <=> ClosedAfter(d, t)'
                   ELSE unpriced'[d][t] = 0
        <4>1. /\ HeldAt(d, t)' = HeldAt(d, t) /\ ClosedAfter(d, t)' = ClosedAfter(d, t)
              /\ Carry!Priced(d)' = Carry!Priced(d)
              /\ unpriced'[d][t] = unpriced[d][t] /\ (d \in processed' <=> d \in processed)
          BY <1>1, <1>3, <1>5, <2>3, <3>1
        <4>. QED
          BY <4>1 DEF CarryInv, Unpriced
      <3>2. ASSUME NEW d \in Carry!Days, d = next, NEW t \in Tickets
            PROVE  IF d \in processed' /\ ~Carry!Priced(d)'
                   THEN /\ unpriced'[d][t] >= HeldAt(d, t)'
                        /\ unpriced'[d][t] > HeldAt(d, t)' <=> ClosedAfter(d, t)'
                   ELSE unpriced'[d][t] = 0
        <4>1. unpriced'[d][t] = HeldAt(d, t)'
          BY <1>4, <2>3, <3>2
        <4>2. /\ ~ClosedAfter(d, t)' /\ ~Carry!Priced(d)' /\ d \in processed'
              /\ unpriced'[d][t] \in Nat
          BY <1>1, <1>5, <1>6, <1>8, <2>2, <3>2
        <4>. QED
          BY <4>1, <4>2
      <3>3. Carry!Days' = Carry!Days
        BY DEF Carry!Days
      <3>. QED
        BY <3>1, <3>2, <3>3 DEF Unpriced
    <2>5. Counting'
      <3>1. next \notin Marked /\ IsFiniteSet(Marked) /\ crossings = Cardinality(Marked)
        <4>1. next \notin Marked
          BY <1>2 DEF Marked
        <4>2. IsFiniteSet(Marked)
          BY DaysFinite, FS_Subset DEF Marked
        <4>. QED
          BY <4>1, <4>2 DEF CarryInv, Counting
      <3>2. Marked' = IF HeldOver # {} THEN Marked \cup {next} ELSE Marked
        <4>1. \A t \in HeldOver : t \in Tickets /\ book[t].units > 0
          BY DEF HeldOver
        <4>2. (\E t \in Tickets : unpriced'[next][t] > 0) <=> HeldOver # {}
          BY <2>3, <4>1 DEF HeldOver
        <4>. QED
          BY <1>1, <2>3, <3>1, <4>2 DEF Marked
      <3>3. Cardinality(Marked \cup {next}) = Cardinality(Marked) + 1
        BY <3>1, FS_AddElement
      <3>4. crossings' = Cardinality(Marked')
        BY <1>1, <2>1, <3>1, <3>2, <3>3
      <3>. QED
        BY <3>4 DEF Counting
    <2>6. crossings' \in Int
      BY <1>1, <2>1
    <2>. QED
      BY <2>2, <2>4, <2>5, <2>6
  <1>. QED
    BY <1>7, <1>8

LEMMA CarryRollover ==
  ASSUME CarryInv, Carry!Rollover
  PROVE  CarryInv'
  <1>1. /\ next \in Carry!Days /\ next \notin processed /\ next # 0
        /\ Rates' = Rates /\ \A d : Carry!Priced(d)' = Carry!Priced(d)
    BY RolloverDays
  <1>2. next \in Nat /\ RatesOf(Rates, Carry!Days)
    BY RatesAre DEF CarryInv, CarryTypes
  <1>3. Unpriced' /\ Counting' /\ unpriced' \in [Carry!Days -> [Tickets -> Nat]]
        /\ crossings' \in Int
    BY RolloverUnpriced
  <1>4. total' = total + SetTotal(RolloverDue) /\ total' \in Int
    BY RolloverTotal, RolloverOwed DEF CarryInv, CarryTypes
  <1>5. CarryTypes'
    <2>1. next' \in Nat /\ processed' \in SUBSET Carry!Days
      BY <1>1, <1>2 DEF CarryInv, CarryTypes, Carry!Rollover
    <2>. QED
      BY <1>3, <1>4, <2>1 DEF CarryInv, CarryTypes, Carry!Rollover
  <1>6. Placed'
    <2>1. \A d \in processed : d \in Nat /\ d < next
      BY DaysFinite DEF CarryInv, CarryTypes, Placed
    <2>2. \A d \in processed' : d < next'
      BY <1>2, <2>1 DEF Carry!Rollover
    <2>. QED
      BY <1>1, <1>2, <2>2 DEF CarryInv, Placed, Carry!Rollover
  <1>7. Charged'
    <2>1. ASSUME NEW t \in Tickets
          PROVE  /\ DOMAIN charged'[t] = {d \in SeenBy(t)' : Carry!Priced(d)' /\ book'[t].units > 0}
                 /\ \A d \in DOMAIN charged'[t] :
                      charged'[t][d].perUnit = Rates'[d] /\ charged'[t][d].units = book'[t].units
      <3>1. /\ DOMAIN charged[t] = {d \in SeenBy(t) : Carry!Priced(d) /\ book[t].units > 0}
            /\ \A d \in DOMAIN charged[t] :
                 charged[t][d].perUnit = Rates[d] /\ charged[t][d].units = book[t].units
        BY DEF CarryInv, Charged
      <3>2. book' = book
        BY DEF Carry!Rollover
      <3>3. SeenBy(t)' = IF book[t].opened < Carry!Midnight(next)
                         THEN SeenBy(t) \cup {next} ELSE SeenBy(t)
        BY RolloverDays
      <3>4. CASE Carry!Priced(next) /\ t \in HeldOver
        <4>1. charged'[t] = Carry!With(charged[t], next, [perUnit |-> Carry!PerUnit(next),
                                                          units |-> book[t].units])
          BY <3>4 DEF Carry!Rollover, HeldOver
        <4>2. DOMAIN charged'[t] = DOMAIN charged[t] \cup {next}
          BY <4>1 DEF Carry!With
        <4>3. /\ charged'[t][next].perUnit = Rates[next]
              /\ charged'[t][next].units = book[t].units
          <5>1. Rates[next] = Carry!PerUnit(next)
            BY <1>1, <3>4, RatesAre DEF CarryInv, CarryTypes
          <5>. QED
            BY <4>1, <5>1 DEF Carry!With
        <4>4. \A d \in DOMAIN charged[t] : d # next => charged'[t][d] = charged[t][d]
          BY <4>1 DEF Carry!With
        <4>5. book[t].opened < Carry!Midnight(next) /\ book[t].units > 0
          BY <3>4 DEF HeldOver
        <4>6. DOMAIN charged'[t] = {d \in SeenBy(t)' : Carry!Priced(d)' /\ book'[t].units > 0}
          BY <1>1, <3>1, <3>2, <3>3, <3>4, <4>2, <4>5
        <4>7. \A d \in DOMAIN charged'[t] :
                charged'[t][d].perUnit = Rates'[d] /\ charged'[t][d].units = book'[t].units
          BY <1>1, <3>1, <3>2, <4>2, <4>3, <4>4
        <4>. QED
          BY <4>6, <4>7
      <3>5. CASE ~(Carry!Priced(next) /\ t \in HeldOver)
        <4>1. charged'[t] = charged[t]
          BY <3>5, <3>1 DEF Carry!Rollover, HeldOver
        <4>2. {d \in SeenBy(t)' : Carry!Priced(d)' /\ book'[t].units > 0}
              = {d \in SeenBy(t) : Carry!Priced(d) /\ book[t].units > 0}
          BY <1>1, <3>2, <3>3, <3>5 DEF HeldOver
        <4>. QED
          BY <1>1, <3>1, <3>2, <4>1, <4>2
      <3>. QED
        BY <3>4, <3>5
    <2>. QED
      BY <2>1 DEF Charged
  <1>8. Traded'
    <2>1. /\ trades' = trades /\ book' = book /\ \A trade \in trades : Through(trade)' = Through(trade)
      BY RolloverDays DEF Carry!Rollover
    <2>2. Carry!Midnight(next) < Carry!Midnight(next')
          /\ Carry!Midnight(next) \in Nat /\ Carry!Midnight(next') \in Nat
      BY <1>2, MidnightsGrow DEF Carry!Rollover
    <2>3. \A trade \in trades : trade.exit \in Int /\ trade.exit < Carry!Midnight(next)
      BY DEF CarryInv, CarryTypes, Traded, TradeRecord
    <2>4. \A trade \in trades : trade.exit < Carry!Midnight(next')
      BY <2>2, <2>3
    <2>5. Carry!Midnight(next)' = Carry!Midnight(next')
      BY DEF Carry!Midnight
    <2>. QED
      BY <1>1, <2>1, <2>4, <2>5 DEF CarryInv, Traded
  <1>9. Summing'
    <2>1. OfTrades' = OfTrades
      BY DEF OfTrades, Carry!Rollover
    <2>2. SetTotal(OfTickets') = SetTotal(OfTickets) + SetTotal(RolloverDue)
          /\ SetTotal(RolloverDue) \in Int
      BY RolloverOwed
    <2>3. total = SetTotal(OfTrades) + SetTotal(OfTickets)
      BY DEF CarryInv, Summing
    <2>4. SetTotal(OfTrades) \in Int /\ SetTotal(OfTickets) \in Int
      BY SumsTyped
    <2>5. total' = SetTotal(OfTrades) + SetTotal(OfTickets')
      BY <1>4, <2>2, <2>3, <2>4
    <2>. QED
      BY <2>1, <2>5 DEF Summing
  <1>. QED
    BY <1>3, <1>5, <1>6, <1>7, <1>8, <1>9 DEF CarryInv

-----------------------------------------------------------------------------
(* An entry is filled. *)

Missed == {d \in processed : label < Carry!Midnight(d)}
PaidLate == {d \in Missed : Carry!Priced(d)}
CountedLate == Missed \ PaidLate

LEMMA OpenDays ==
  ASSUME CarryInv, NEW t \in Tickets, Carry!Open(t, Units)
  PROVE  /\ Rates' = Rates /\ (\A d : Carry!Priced(d)' = Carry!Priced(d))
         /\ SeenBy(t)' = Missed /\ (\A s \in Tickets : s # t => SeenBy(s)' = SeenBy(s))
         /\ Missed \in SUBSET Carry!Days /\ PaidLate \in SUBSET Missed
         /\ (\A trade : Through(trade)' = Through(trade))
         /\ trades' = trades /\ processed' = processed /\ Units \in Nat \ {0}
         /\ book[t].units = 0 /\ book'[t] = [opened |-> label, units |-> Units]
         /\ (\A s \in Tickets : s # t => book'[s] = book[s])
         /\ (\A trade \in trades : trade.ticket # t)
  <1> USE DEF Carry!Open
  <1>1. Rates' = Rates /\ (\A d : Carry!Priced(d)' = Carry!Priced(d))
    BY RatesKept
  <1>2. /\ book \in [Tickets -> [opened: Int, units: Nat]] /\ label \in Int
        /\ processed \in SUBSET Carry!Days
    BY DEF CarryInv, CarryTypes
  <1>3. book'[t] = [opened |-> label, units |-> Units]
        /\ (\A s \in Tickets : s # t => book'[s] = book[s])
    BY <1>2
  <1>4. processed' = processed /\ trades' = trades /\ Units \in Nat \ {0} /\ book[t].units = 0
    BY CarryAssumption
  <1>5. SeenBy(t)' = Missed /\ (\A s \in Tickets : s # t => SeenBy(s)' = SeenBy(s))
    BY <1>3, <1>4 DEF SeenBy, Missed, Carry!Midnight
  <1>6. \A trade : Through(trade)' = Through(trade)
    BY <1>4 DEF Through, Carry!Crossed, Carry!Midnight
  <1>7. \A trade \in trades : trade.ticket # t
    OBVIOUS
  <1>8. Missed \in SUBSET Carry!Days /\ PaidLate \in SUBSET Missed
    BY <1>2 DEF Missed, PaidLate
  <1>. QED
    BY <1>1, <1>3, <1>4, <1>5, <1>6, <1>7, <1>8

LEMMA OpenSums ==
  ASSUME CarryInv, NEW t \in Tickets, Carry!Open(t, Units)
  PROVE  Summing' /\ total' \in Int /\ (PaidLate = {} => total' = total)
  <1>1. /\ Rates' = Rates /\ SeenBy(t)' = Missed /\ trades' = trades
        /\ (\A s \in Tickets : s # t => SeenBy(s)' = SeenBy(s) /\ book'[s] = book[s])
        /\ Missed \in SUBSET Carry!Days /\ PaidLate \in SUBSET Missed
        /\ Units \in Nat /\ book[t].units = 0 /\ book'[t].units = Units
    BY OpenDays
  <1>2. /\ RatesOf(Rates, Carry!Days)
        /\ OfTickets \in [Tickets -> Int] /\ SetTotal(OfTickets) \in Int
        /\ SetTotal(OfTrades) \in Int
        /\ (\A s \in Tickets : SeenBy(s) \in SUBSET Carry!Days)
    BY SumsTyped
  <1>3. \A d \in Carry!Days : Rates[d] = IF Carry!Priced(d) THEN Carry!PerUnit(d) ELSE 0
    BY RatesAre DEF CarryInv, CarryTypes
  <1>4. total' = total + Dues(Rates, PaidLate, Units)
    <2>1. total' = total + SetTotal([d \in PaidLate |-> Carry!PerUnit(d) * Units])
      BY CarrySums, Zenon DEF Carry!Open, PaidLate, Missed
    <2>2. [d \in PaidLate |-> Carry!PerUnit(d) * Units] = [d \in PaidLate |-> Rates[d] * Units]
      BY <1>1, <1>3 DEF PaidLate
    <2>. QED
      BY <2>1, <2>2 DEF Dues
  <1>5. Dues(Rates, Missed, Units) = Dues(Rates, PaidLate, Units)
    <2>1. \A d \in Missed \ PaidLate : Rates[d] = 0
      BY <1>1, <1>3 DEF PaidLate
    <2>. QED
      BY <1>1, <1>2, <2>1, DuesPart
  <1>6. OfTickets[t] = 0 /\ OfTickets'[t] = Dues(Rates, Missed, Units)
        /\ OfTickets'[t] \in Int
    <2>1. OfTickets[t] = Dues(Rates, SeenBy(t), 0)
      BY <1>1 DEF OfTickets
    <2>2. OfTickets'[t] = Dues(Rates, Missed, Units)
      BY <1>1 DEF OfTickets
    <2>. QED
      BY <1>1, <1>2, <2>1, <2>2, DuesType
  <1>7. \A s \in Tickets : s # t => OfTickets'[s] = OfTickets[s]
    BY <1>1 DEF OfTickets
  <1>8. OfTickets' \in [Tickets -> Int]
    <2>1. OfTickets' = [s \in Tickets |-> OfTickets'[s]]
      BY DEF OfTickets
    <2>2. \A s \in Tickets : OfTickets'[s] \in Int
      BY <1>2, <1>6, <1>7
    <2>. QED
      BY <2>1, <2>2
  <1>9. SetTotal(OfTickets') = SetTotal(OfTickets) + OfTickets'[t] - OfTickets[t]
    BY <1>2, <1>7, <1>8, CarryAssumption, TotalChanged
  <1>10. total \in Int /\ total = SetTotal(OfTrades) + SetTotal(OfTickets)
    BY DEF CarryInv, CarryTypes, Summing
  <1>11. total' = SetTotal(OfTrades) + SetTotal(OfTickets') /\ total' \in Int
    BY <1>2, <1>4, <1>5, <1>6, <1>9, <1>10
  <1>12. OfTrades' = OfTrades
    BY <1>1 DEF OfTrades
  <1>13. PaidLate = {} => total' = total
    <2>1. Dues(Rates, {}, Units) = 0
      BY PartEmpty DEF Dues, Part
    <2>. QED
      BY <1>4, <1>10, <2>1
  <1>. QED
    BY <1>11, <1>12, <1>13 DEF Summing

LEMMA OpenUnpriced ==
  ASSUME CarryInv, NEW t \in Tickets, Carry!Open(t, Units)
  PROVE  Unpriced' /\ Counting' /\ unpriced' \in [Carry!Days -> [Tickets -> Nat]]
         /\ crossings' \in Int
  <1>1. /\ (\A d : Carry!Priced(d)' = Carry!Priced(d))
        /\ SeenBy(t)' = Missed /\ (\A s \in Tickets : s # t => SeenBy(s)' = SeenBy(s))
        /\ Missed \in SUBSET Carry!Days /\ PaidLate \in SUBSET Missed
        /\ (\A trade : Through(trade)' = Through(trade))
        /\ trades' = trades /\ processed' = processed /\ Units \in Nat \ {0}
        /\ book[t].units = 0 /\ book'[t].units = Units
        /\ (\A s \in Tickets : s # t => book'[s] = book[s])
        /\ (\A trade \in trades : trade.ticket # t)
    BY OpenDays
  <1>2. /\ unpriced \in [Carry!Days -> [Tickets -> Nat]] /\ crossings \in Int
        /\ Missed \subseteq processed
    BY DEF CarryInv, CarryTypes, Missed
  <1>3. /\ unpriced' = [d \in Carry!Days |-> IF d \in CountedLate
                                             THEN [unpriced[d] EXCEPT ![t] = @ + Units]
                                             ELSE unpriced[d]]
        /\ crossings' = crossings + Cardinality({d \in CountedLate : unpriced[d] = Carry!Nobody})
    BY CarrySums, Zenon DEF Carry!Open, CountedLate, PaidLate, Missed
  <1>4. /\ \A d \in Carry!Days, s \in Tickets :
             unpriced'[d][s] = IF d \in CountedLate /\ s = t THEN unpriced[d][s] + Units
                               ELSE unpriced[d][s]
        /\ unpriced' \in [Carry!Days -> [Tickets -> Nat]]
    BY <1>1, <1>2, <1>3
  <1>5. \A d \in CountedLate : d \in Missed /\ d \in processed /\ ~Carry!Priced(d)
    BY <1>2 DEF CountedLate, PaidLate
  <1>6. \A d \in Carry!Days, s \in Tickets : ClosedAfter(d, s)' = ClosedAfter(d, s)
    BY <1>1 DEF ClosedAfter
  <1>7. \A d \in Carry!Days : ~ClosedAfter(d, t) /\ HeldAt(d, t) = 0
    BY <1>1 DEF ClosedAfter, HeldAt
  <1>8. Unpriced'
    <2>1. ASSUME NEW d \in Carry!Days, NEW s \in Tickets
          PROVE  IF d \in processed' /\ ~Carry!Priced(d)'
                 THEN /\ unpriced'[d][s] >= HeldAt(d, s)'
                      /\ unpriced'[d][s] > HeldAt(d, s)' <=> ClosedAfter(d, s)'
                 ELSE unpriced'[d][s] = 0
      <3>1. IF d \in processed /\ ~Carry!Priced(d)
            THEN /\ unpriced[d][s] >= HeldAt(d, s)
                 /\ unpriced[d][s] > HeldAt(d, s) <=> ClosedAfter(d, s)
            ELSE unpriced[d][s] = 0
        BY DEF CarryInv, Unpriced
      <3>2. CASE s # t
        <4>1. HeldAt(d, s)' = HeldAt(d, s)
          BY <1>1, <3>2 DEF HeldAt
        <4>2. unpriced'[d][s] = unpriced[d][s]
          BY <1>4, <3>2
        <4>. QED
          BY <1>1, <1>6, <3>1, <4>1, <4>2
      <3>3. CASE s = t
        <4>1. HeldAt(d, t)' = IF d \in Missed THEN Units ELSE 0
          BY <1>1 DEF HeldAt
        <4>2. unpriced[d][t] \in Nat
          BY <1>2
        <4>3. CASE d \in processed /\ ~Carry!Priced(d)
          <5>1. unpriced[d][t] = 0
            BY <1>7, <3>1, <3>3, <4>2, <4>3
          <5>2. d \in Missed <=> d \in CountedLate
            BY <4>3 DEF CountedLate, PaidLate
          <5>3. unpriced'[d][t] = IF d \in Missed THEN Units ELSE 0
            BY <1>1, <1>4, <5>1, <5>2
          <5>. QED
            BY <1>1, <1>6, <1>7, <3>3, <4>1, <4>3, <5>3
        <4>4. CASE ~(d \in processed /\ ~Carry!Priced(d))
          BY <1>1, <1>4, <1>5, <3>1, <3>3, <4>4
        <4>. QED
          BY <4>3, <4>4
      <3>. QED
        BY <3>2, <3>3
    <2>2. Carry!Days' = Carry!Days
      BY DEF Carry!Days
    <2>. QED
      BY <2>1, <2>2 DEF Unpriced
  <1>9. Counting' /\ crossings' \in Int
    <2> DEFINE new == {d \in CountedLate : unpriced[d] = Carry!Nobody}
    <2>1. CountedLate \in SUBSET Carry!Days
      BY <1>1 DEF CountedLate
    <2>2. \A d \in Carry!Days : unpriced[d] = Carry!Nobody <=> ~\E s \in Tickets : unpriced[d][s] > 0
      BY <1>2 DEF Carry!Nobody
    <2>3. Marked' = Marked \cup new
      <3>1. \A d \in Carry!Days : (\E s \in Tickets : unpriced'[d][s] > 0) <=>
              d \in CountedLate \/ \E s \in Tickets : unpriced[d][s] > 0
        <4>1. \A d \in Carry!Days : unpriced[d][t] + Units > 0
          BY <1>1, <1>2
        <4>. QED
          BY <1>4, <4>1
      <3>2. Carry!Days' = Carry!Days
        BY DEF Carry!Days
      <3>. QED
        BY <2>1, <2>2, <3>1, <3>2 DEF Marked
    <2>4. Marked \cap new = {}
      BY <2>1, <2>2 DEF Marked
    <2>5. IsFiniteSet(Marked) /\ IsFiniteSet(new)
      BY <2>1, DaysFinite, FS_Subset DEF Marked
    <2>6. crossings' = crossings + Cardinality(new)
      BY <1>3
    <2> HIDE DEF new
    <2>7. Cardinality(Marked \cup new) = Cardinality(Marked) + Cardinality(new)
      BY <2>4, <2>5, ApartCounted
    <2>8. crossings = Cardinality(Marked) /\ Cardinality(new) \in Nat
      BY <2>5, FS_CardinalityType DEF CarryInv, Counting
    <2>9. crossings' = Cardinality(Marked') /\ crossings' \in Int
      BY <1>2, <2>3, <2>6, <2>7, <2>8
    <2>. QED
      BY <2>9 DEF Counting
  <1>. QED
    BY <1>4, <1>8, <1>9

LEMMA CarryOpen ==
  ASSUME CarryInv, NEW t \in Tickets, Carry!Open(t, Units)
  PROVE  CarryInv'
  <1>1. /\ Rates' = Rates /\ (\A d : Carry!Priced(d)' = Carry!Priced(d))
        /\ SeenBy(t)' = Missed /\ (\A s \in Tickets : s # t => SeenBy(s)' = SeenBy(s))
        /\ Missed \in SUBSET Carry!Days /\ PaidLate \in SUBSET Missed
        /\ (\A trade : Through(trade)' = Through(trade))
        /\ trades' = trades /\ processed' = processed /\ Units \in Nat \ {0}
        /\ book'[t] = [opened |-> label, units |-> Units]
        /\ (\A s \in Tickets : s # t => book'[s] = book[s])
        /\ (\A trade \in trades : trade.ticket # t)
    BY OpenDays
  <1>2. Unpriced' /\ Counting' /\ unpriced' \in [Carry!Days -> [Tickets -> Nat]]
        /\ crossings' \in Int
    BY OpenUnpriced
  <1>3. Summing' /\ total' \in Int /\ (PaidLate = {} => total' = total)
    BY OpenSums
  <1>4. CarryTypes'
    <2>1. book' \in [Tickets -> [opened: Int, units: Nat]]
      BY CarryAssumption DEF CarryInv, CarryTypes, Carry!Open
    <2>. QED
      BY <1>2, <1>3, <2>1 DEF CarryInv, CarryTypes, Carry!Open, Carry!Days
  <1>5. Placed'
    <2>1. snapshot' = IF PaidLate # {} \/ snapshot = Carry!NoSnapshot THEN <<total'>> ELSE snapshot
      BY Zenon DEF Carry!Open, Carry!Snapshot, PaidLate, Missed
    <2>2. snapshot' = <<total'>>
      BY <1>3, <2>1 DEF CarryInv, Placed
    <2>. QED
      BY <1>1, <2>2 DEF CarryInv, Placed, Carry!Open, Carry!Midnight
  <1>6. Charged'
    <2>1. charged' = [charged EXCEPT ![t] =
                        [d \in PaidLate |-> [perUnit |-> Carry!PerUnit(d), units |-> Units]]]
      BY Zenon DEF Carry!Open, PaidLate, Missed
    <2>2. /\ DOMAIN charged'[t] = PaidLate
          /\ \A d \in PaidLate : charged'[t][d] = [perUnit |-> Carry!PerUnit(d), units |-> Units]
          /\ \A s \in Tickets : s # t => charged'[s] = charged[s]
      BY <2>1 DEF CarryInv, CarryTypes
    <2>3. \A d \in PaidLate : Carry!PerUnit(d) = Rates[d]
      BY <1>1, RatesAre DEF PaidLate, CarryInv, CarryTypes
    <2>4. PaidLate = {d \in SeenBy(t)' : Carry!Priced(d)' /\ book'[t].units > 0}
      BY <1>1 DEF PaidLate
    <2>5. ASSUME NEW s \in Tickets
          PROVE  /\ DOMAIN charged'[s] = {d \in SeenBy(s)' : Carry!Priced(d)' /\ book'[s].units > 0}
                 /\ \A d \in DOMAIN charged'[s] :
                      charged'[s][d].perUnit = Rates'[d] /\ charged'[s][d].units = book'[s].units
      <3>1. CASE s = t
        <4>1. DOMAIN charged'[s] = {d \in SeenBy(s)' : Carry!Priced(d)' /\ book'[s].units > 0}
          BY <2>2, <2>4, <3>1
        <4>2. book'[t].units = Units /\ Rates' = Rates
          BY <1>1
        <4>3. \A d \in PaidLate :
                charged'[t][d].perUnit = Rates'[d] /\ charged'[t][d].units = book'[t].units
          <5>1. ASSUME NEW d \in PaidLate
                PROVE  /\ charged'[t][d].perUnit = Rates'[d]
                       /\ charged'[t][d].units = book'[t].units
            <6> DEFINE noted == charged'[t][d]
            <6>1. noted = [perUnit |-> Rates[d], units |-> Units]
              BY <2>2, <2>3
            <6> HIDE DEF noted
            <6>2. noted.perUnit = Rates[d] /\ noted.units = Units
              BY <6>1
            <6>. QED
              BY <4>2, <6>2 DEF noted
          <5>. QED
            BY <5>1, Zenon
        <4>. QED
          BY <2>2, <3>1, <4>1, <4>3
      <3>2. CASE s # t
        <4>1. /\ SeenBy(s)' = SeenBy(s) /\ book'[s] = book[s] /\ charged'[s] = charged[s]
          BY <1>1, <2>2, <3>2
        <4>2. /\ DOMAIN charged[s] = {d \in SeenBy(s) : Carry!Priced(d) /\ book[s].units > 0}
              /\ \A d \in DOMAIN charged[s] :
                   charged[s][d].perUnit = Rates[d] /\ charged[s][d].units = book[s].units
          BY DEF CarryInv, Charged
        <4>. QED
          BY <1>1, <4>1, <4>2
      <3>. QED
        BY <3>1, <3>2
    <2>. QED
      BY <2>5 DEF Charged
  <1>7. Traded'
    BY <1>1 DEF CarryInv, CarryTypes, TradeRecord, Traded, Carry!Open, Carry!Midnight
  <1>. QED
    BY <1>2, <1>3, <1>4, <1>5, <1>6, <1>7 DEF CarryInv

-----------------------------------------------------------------------------
(* A quantity is closed. *)

\* Of the rollovers a position has seen, those the close lies before.
BackOf(t) == {d \in DOMAIN charged[t] : label < Carry!Midnight(d)}
KeptOf(t) == DOMAIN charged[t] \ BackOf(t)
TradeOf(t, units) ==
  [ticket |-> t, left |-> book[t].units - units, units |-> units,
   entry |-> book[t].opened, exit |-> label, carry |-> Dues(Rates, KeptOf(t), units)]

LEMMA CloseFacts ==
  ASSUME CarryInv, NEW t \in Tickets, NEW units \in 1 .. book[t].units, Carry!Close(t, units)
  PROVE  /\ units \in Nat /\ units > 0 /\ book[t].units - units \in Nat
         /\ DOMAIN charged[t] = {d \in SeenBy(t) : Carry!Priced(d)}
         /\ BackOf(t) \in SUBSET Carry!Days /\ KeptOf(t) \in SUBSET Carry!Days
         /\ DOMAIN charged[t] \in SUBSET Carry!Days
         /\ total' = total - Dues(Rates, BackOf(t), units)
         /\ trades' = trades \cup {TradeOf(t, units)}
         /\ pc = "book"
  <1>1. /\ book[t] \in [opened: Int, units: Nat] /\ processed \in SUBSET Carry!Days
    BY DEF CarryInv, CarryTypes
  <1>2. units \in Nat /\ units > 0 /\ book[t].units - units \in Nat /\ book[t].units > 0
    BY <1>1
  <1>3. /\ DOMAIN charged[t] = {d \in SeenBy(t) : Carry!Priced(d)}
        /\ \A d \in DOMAIN charged[t] :
             charged[t][d].perUnit = Rates[d] /\ charged[t][d].units = book[t].units
    BY <1>2 DEF CarryInv, Charged
  <1>4. DOMAIN charged[t] \in SUBSET Carry!Days
    BY <1>1, <1>3 DEF SeenBy
  <1>5. BackOf(t) \in SUBSET Carry!Days /\ KeptOf(t) \in SUBSET Carry!Days
    BY <1>4 DEF BackOf, KeptOf
  <1> DEFINE Consumed(d) == IF units < charged[t][d].units THEN units ELSE charged[t][d].units
  <1>6. \A d \in DOMAIN charged[t] : charged[t][d].perUnit * Consumed(d) = Rates[d] * units
    <2>1. \A d \in DOMAIN charged[t] : Consumed(d) = units
      BY <1>1, <1>2, <1>3
    <2>. QED
      BY <1>3, <2>1
  <1>7. /\ [d \in BackOf(t) |-> charged[t][d].perUnit * Consumed(d)]
             = [d \in BackOf(t) |-> Rates[d] * units]
        /\ [d \in KeptOf(t) |-> charged[t][d].perUnit * Consumed(d)]
             = [d \in KeptOf(t) |-> Rates[d] * units]
    BY <1>6 DEF BackOf, KeptOf
  <1>8. /\ total' = total - SetTotal([d \in BackOf(t) |-> charged[t][d].perUnit * Consumed(d)])
        /\ trades' = trades \cup
             {[ticket |-> t, left |-> book[t].units - units, units |-> units,
               entry |-> book[t].opened, exit |-> label,
               carry |-> SetTotal([d \in KeptOf(t) |-> charged[t][d].perUnit * Consumed(d)])]}
    BY CarrySums, Zenon DEF Carry!Close, BackOf, KeptOf, Carry!ClosedBefore
  <1>9. pc = "book"
    BY DEF Carry!Close
  <1> HIDE DEF Consumed
  <1>. QED
    BY <1>2, <1>3, <1>4, <1>5, <1>7, <1>8, <1>9 DEF Dues, TradeOf

LEMMA CloseDays ==
  ASSUME CarryInv, NEW t \in Tickets, NEW units \in 1 .. book[t].units, Carry!Close(t, units)
  PROVE  /\ Rates' = Rates /\ (\A d : Carry!Priced(d)' = Carry!Priced(d))
         /\ (\A s \in Tickets : SeenBy(s)' = SeenBy(s))
         /\ (\A trade : Through(trade)' = Through(trade))
         /\ processed' = processed /\ next' = next
         /\ book'[t].units = book[t].units - units /\ book'[t].opened = book[t].opened
         /\ (\A s \in Tickets : s # t => book'[s] = book[s])
         /\ book' \in [Tickets -> [opened: Int, units: Nat]]
  <1>1. /\ book \in [Tickets -> [opened: Int, units: Nat]]
        /\ book' = [book EXCEPT ![t].units = @ - units]
        /\ processed' = processed /\ next' = next /\ snapshots' = snapshots
        /\ book[t].units - units \in Nat
    BY CloseFacts DEF CarryInv, CarryTypes, Carry!Close
  <1>2. Rates' = Rates /\ (\A d : Carry!Priced(d)' = Carry!Priced(d))
    BY <1>1, RatesKept
  <1>3. /\ book'[t].units = book[t].units - units /\ book'[t].opened = book[t].opened
        /\ (\A s \in Tickets : s # t => book'[s] = book[s])
        /\ book' \in [Tickets -> [opened: Int, units: Nat]]
    BY <1>1
  <1>4. \A s \in Tickets : SeenBy(s)' = SeenBy(s)
    BY <1>1, <1>3 DEF SeenBy, Carry!Midnight
  <1>5. \A trade : Through(trade)' = Through(trade)
    BY <1>1 DEF Through, Carry!Crossed, Carry!Midnight
  <1>. QED
    BY <1>1, <1>2, <1>3, <1>4, <1>5

\* What is given back and what the trade bears is all its quantity was charged.
LEMMA ClosePays ==
  ASSUME CarryInv, NEW t \in Tickets, NEW units \in 1 .. book[t].units, Carry!Close(t, units)
  PROVE  /\ Dues(Rates, SeenBy(t), units)
              = Dues(Rates, BackOf(t), units) + Dues(Rates, KeptOf(t), units)
         /\ Dues(Rates, Through(TradeOf(t, units)), units) = Dues(Rates, KeptOf(t), units)
         /\ Dues(Rates, BackOf(t), units) \in Int /\ Dues(Rates, KeptOf(t), units) \in Int
  <1>1. /\ units \in Int
        /\ DOMAIN charged[t] = {d \in SeenBy(t) : Carry!Priced(d)}
        /\ BackOf(t) \in SUBSET Carry!Days /\ KeptOf(t) \in SUBSET Carry!Days
    BY CloseFacts
  <1>2. RatesOf(Rates, Carry!Days) /\ SeenBy(t) \in SUBSET Carry!Days
    BY SumsTyped
  <1>3. \A d \in Carry!Days : ~Carry!Priced(d) => Rates[d] = 0
    BY RatesAre DEF CarryInv, CarryTypes
  <1>4. Dues(Rates, SeenBy(t), units) = Dues(Rates, DOMAIN charged[t], units)
    <2>1. DOMAIN charged[t] \in SUBSET SeenBy(t)
          /\ \A d \in SeenBy(t) \ DOMAIN charged[t] : Rates[d] = 0
      BY <1>1, <1>2, <1>3
    <2>. QED
      BY <1>1, <1>2, <2>1, DuesPart
  <1>5. Dues(Rates, DOMAIN charged[t], units)
        = Dues(Rates, BackOf(t), units) + Dues(Rates, KeptOf(t), units)
    <2>1. BackOf(t) \cap KeptOf(t) = {} /\ BackOf(t) \cup KeptOf(t) = DOMAIN charged[t]
      BY DEF BackOf, KeptOf
    <2>2. Dues(Rates, BackOf(t) \cup KeptOf(t), units)
          = Dues(Rates, BackOf(t), units) + Dues(Rates, KeptOf(t), units)
      BY <1>1, <1>2, <2>1, DuesJoin
    <2>. QED
      BY <2>1, <2>2
  <1>6. Dues(Rates, Through(TradeOf(t, units)), units) = Dues(Rates, KeptOf(t), units)
    <2>1. /\ label \in Int /\ processed \in SUBSET Carry!Days
      BY DEF CarryInv, CarryTypes
    <2>2. \A d \in Carry!Days : Carry!Midnight(d) \in Nat
      BY DaysFinite, MidnightsGrow
    <2>3. Through(TradeOf(t, units)) = {d \in SeenBy(t) : ~(label < Carry!Midnight(d))}
      BY <2>1, <2>2 DEF Through, TradeOf, Carry!Crossed, SeenBy
    <2>4. KeptOf(t) = {d \in SeenBy(t) : Carry!Priced(d) /\ ~(label < Carry!Midnight(d))}
      BY <1>1 DEF KeptOf, BackOf
    <2>5. KeptOf(t) \in SUBSET Through(TradeOf(t, units))
          /\ Through(TradeOf(t, units)) \in SUBSET Carry!Days
          /\ \A d \in Through(TradeOf(t, units)) \ KeptOf(t) : Rates[d] = 0
      BY <1>2, <1>3, <2>3, <2>4
    <2>. QED
      BY <1>1, <1>2, <2>5, DuesPart
  <1>. QED
    BY <1>1, <1>2, <1>4, <1>5, <1>6, DuesType

LEMMA CloseTrades ==
  ASSUME CarryInv, NEW t \in Tickets, NEW units \in 1 .. book[t].units, Carry!Close(t, units)
  PROVE  /\ TradeOf(t, units) \in TradeRecord /\ TradeOf(t, units) \notin trades
         /\ IsFiniteSet(trades') /\ trades' \subseteq TradeRecord /\ Traded'
  <1>0. PICK new : new = TradeOf(t, units)
    OBVIOUS
  <1>1. /\ units \in Nat /\ units > 0 /\ book[t].units - units \in Nat
        /\ trades' = trades \cup {new} /\ pc = "book"
    BY <1>0, CloseFacts
  <1>2. /\ book[t] \in [opened: Int, units: Nat] /\ label \in Int /\ label <= clock
        /\ clock \in Nat /\ IsFiniteSet(trades) /\ trades \subseteq TradeRecord
        /\ clock < Carry!Midnight(next) /\ next \in Nat
    BY <1>1 DEF CarryInv, CarryTypes, Placed
  <1>3. /\ Dues(Rates, Through(new), units) = Dues(Rates, KeptOf(t), units)
        /\ Dues(Rates, KeptOf(t), units) \in Int
    BY <1>0, ClosePays
  <1>4. new \in TradeRecord
    BY <1>0, <1>1, <1>2, <1>3 DEF TradeOf, TradeRecord
  <1>5. new \notin trades
    <2>1. \A trade \in trades : trade.ticket = t => trade.left >= book[t].units
      BY DEF CarryInv, Traded
    <2>2. new.ticket = t /\ new.left = book[t].units - units
      BY <1>0 DEF TradeOf
    <2>. QED
      BY <1>1, <1>2, <2>1, <2>2
  <1>6. /\ Rates' = Rates /\ (\A trade : Through(trade)' = Through(trade)) /\ next' = next
        /\ book'[t].units = book[t].units - units /\ book'[t].opened = book[t].opened
        /\ (\A s \in Tickets : s # t => book'[s] = book[s])
    BY CloseDays
  <1>7. Traded'
    <2>1. ASSUME NEW trade \in trades
          PROVE  /\ trade.carry = Dues(Rates', Through(trade)', trade.units)
                 /\ trade.exit < Carry!Midnight(next)
                 /\ trade.entry = book'[trade.ticket].opened
                 /\ trade.left >= book'[trade.ticket].units
      <3>1. /\ trade.carry = Dues(Rates, Through(trade), trade.units)
            /\ trade.exit < Carry!Midnight(next)
            /\ trade.entry = book[trade.ticket].opened
            /\ trade.left >= book[trade.ticket].units
        BY DEF CarryInv, Traded
      <3>2. trade.left \in Nat /\ trade.ticket \in Tickets
        BY <1>2 DEF TradeRecord
      <3>3. trade.entry = book'[trade.ticket].opened /\ trade.left >= book'[trade.ticket].units
        BY <1>1, <1>2, <1>6, <3>1, <3>2
      <3>. QED
        BY <1>6, <3>1, <3>3
    <2>2. /\ new.carry = Dues(Rates', Through(new)', new.units)
          /\ new.exit < Carry!Midnight(next)
          /\ new.entry = book'[new.ticket].opened
          /\ new.left >= book'[new.ticket].units
      <3>1. /\ new.carry = Dues(Rates, KeptOf(t), units) /\ new.units = units
            /\ new.exit = label /\ new.entry = book[t].opened /\ new.ticket = t
            /\ new.left = book[t].units - units
        BY <1>0 DEF TradeOf
      <3>2. label < Carry!Midnight(next)
        <4>1. Carry!Midnight(next) \in Nat
          BY <1>2, MidnightsGrow
        <4>. QED
          BY <1>2, <4>1
      <3>3. Through(new)' = Through(new)
        BY <1>6
      <3>. QED
        BY <1>1, <1>3, <1>6, <3>1, <3>2, <3>3
    <2>3. Carry!Midnight(next)' = Carry!Midnight(next)
      BY <1>6 DEF Carry!Midnight
    <2>. QED
      BY <1>1, <1>6, <2>1, <2>2, <2>3 DEF Traded
  <1>8. IsFiniteSet(trades') /\ trades' \subseteq TradeRecord
    BY <1>1, <1>2, <1>4, FS_AddElement
  <1>. QED
    BY <1>0, <1>4, <1>5, <1>7, <1>8

LEMMA CloseSums ==
  ASSUME CarryInv, NEW t \in Tickets, NEW units \in 1 .. book[t].units, Carry!Close(t, units)
  PROVE  Summing' /\ total' \in Int /\ (BackOf(t) = {} => total' = total)
  <1>0. PICK new : new = TradeOf(t, units)
    OBVIOUS
  <1>1. /\ units \in Nat /\ book[t].units - units \in Nat
        /\ total' = total - Dues(Rates, BackOf(t), units)
        /\ trades' = trades \cup {new} /\ new.carry = Dues(Rates, KeptOf(t), units)
    BY <1>0, CloseFacts DEF TradeOf
  <1>2. new \in TradeRecord /\ new \notin trades /\ trades \subseteq TradeRecord
        /\ IsFiniteSet(trades) /\ total \in Int
    BY <1>0, CloseTrades DEF CarryInv, CarryTypes
  <1>3. /\ Rates' = Rates /\ (\A s \in Tickets : SeenBy(s)' = SeenBy(s))
        /\ book'[t].units = book[t].units - units
        /\ (\A s \in Tickets : s # t => book'[s] = book[s])
    BY CloseDays
  <1>4. /\ Dues(Rates, SeenBy(t), units)
              = Dues(Rates, BackOf(t), units) + Dues(Rates, KeptOf(t), units)
        /\ Dues(Rates, BackOf(t), units) \in Int /\ Dues(Rates, KeptOf(t), units) \in Int
    BY ClosePays
  <1>5. /\ RatesOf(Rates, Carry!Days)
        /\ OfTrades \in [trades -> Int] /\ SetTotal(OfTrades) \in Int
        /\ OfTickets \in [Tickets -> Int] /\ SetTotal(OfTickets) \in Int
        /\ SeenBy(t) \in SUBSET Carry!Days /\ book[t].units \in Nat
    BY SumsTyped
  <1>6. SetTotal(OfTrades') = SetTotal(OfTrades) + Dues(Rates, KeptOf(t), units)
    <2>1. OfTrades' = [trade \in trades \cup {new} |-> trade.carry]
      BY <1>1 DEF OfTrades
    <2>2. KeyAdded(trades, new, OfTrades, OfTrades') /\ OfTrades'[new] = new.carry
      BY <1>2, <1>5, <2>1 DEF KeyAdded, OfTrades, TradeRecord
    <2>. QED
      BY <1>1, <2>2, TotalWith
  <1>7. /\ OfTickets'[t] = OfTickets[t] - Dues(Rates, SeenBy(t), units)
        /\ OfTickets'[t] \in Int /\ OfTickets[t] \in Int
    <2> DEFINE left == book[t].units - units
               D == SeenBy(t)
    <2>1. OfTickets'[t] = Dues(Rates, D, left) /\ OfTickets[t] = Dues(Rates, D, book[t].units)
      BY <1>3 DEF OfTickets
    <2>2. book[t].units = left + units /\ left \in Int /\ units \in Int /\ D \in SUBSET Carry!Days
      BY <1>1, <1>5
    <2> HIDE DEF left, D
    <2>3. Dues(Rates, D, left + units) = Dues(Rates, D, left) + Dues(Rates, D, units)
      BY <1>5, <2>2, DuesSplit
    <2>4. Dues(Rates, D, left) \in Int /\ Dues(Rates, D, units) \in Int
      BY <1>5, <2>2, DuesType
    <2>5. OfTickets'[t] = OfTickets[t] - Dues(Rates, D, units)
          /\ OfTickets'[t] \in Int /\ OfTickets[t] \in Int
      BY <2>1, <2>2, <2>3, <2>4
    <2>. QED
      BY <2>5 DEF D
  <1>8. \A s \in Tickets : s # t => OfTickets'[s] = OfTickets[s]
    BY <1>3 DEF OfTickets
  <1>9. OfTickets' \in [Tickets -> Int]
    <2>1. OfTickets' = [s \in Tickets |-> OfTickets'[s]]
      BY DEF OfTickets
    <2>2. \A s \in Tickets : OfTickets'[s] \in Int
      BY <1>5, <1>7, <1>8
    <2>. QED
      BY <2>1, <2>2
  <1>10. SetTotal(OfTickets') = SetTotal(OfTickets) + OfTickets'[t] - OfTickets[t]
    <2>1. IsFiniteSet(Tickets)
      BY CarryAssumption
    <2>2. OfTickets \in [Tickets -> Int]
      BY <1>5
    <2> DEFINE f == OfTickets
               g == OfTickets'
    <2>3. f \in [Tickets -> Int] /\ g \in [Tickets -> Int]
          /\ \A s \in Tickets : s # t => g[s] = f[s]
      BY <1>8, <1>9, <2>2
    <2> HIDE DEF f, g
    <2>4. SetTotal(g) = SetTotal(f) + g[t] - f[t]
      BY <2>1, <2>3, TotalChanged
    <2>. QED
      BY <2>4 DEF f, g
  <1>11. total = SetTotal(OfTrades) + SetTotal(OfTickets)
    BY DEF CarryInv, Summing
  <1>12. total' = SetTotal(OfTrades') + SetTotal(OfTickets') /\ total' \in Int
    BY <1>1, <1>2, <1>4, <1>5, <1>6, <1>7, <1>10, <1>11
  <1>13. BackOf(t) = {} => total' = total
    <2>1. Dues(Rates, {}, units) = 0
      BY PartEmpty DEF Dues, Part
    <2>. QED
      BY <1>1, <1>2, <2>1
  <1>. QED
    BY <1>12, <1>13 DEF Summing

\* The rollovers without a price that the quantity did not go through after all.
UndoneBy(t) == {d \in Carry!Days : label < Carry!Midnight(d) /\ unpriced[d][t] > 0}

LEMMA CloseUndone ==
  ASSUME CarryInv, NEW t \in Tickets, NEW units \in 1 .. book[t].units, Carry!Close(t, units)
  PROVE  /\ \A d \in UndoneBy(t) : d \in SeenBy(t) /\ unpriced[d][t] >= book[t].units
         /\ \A d \in Carry!Days, s \in Tickets :
              unpriced'[d][s] = IF d \in UndoneBy(t) /\ s = t THEN unpriced[d][s] - units
                                ELSE unpriced[d][s]
         /\ unpriced' \in [Carry!Days -> [Tickets -> Nat]]
         /\ crossings' = crossings - Cardinality({d \in UndoneBy(t) : unpriced'[d] = Carry!Nobody})
  <1>1. /\ unpriced \in [Carry!Days -> [Tickets -> Nat]]
        /\ book \in [Tickets -> [opened: Int, units: Nat]]
    BY DEF CarryInv, CarryTypes
  <1>2. units \in Nat /\ units > 0 /\ units <= book[t].units /\ book[t].units \in Nat
    BY <1>1
  <1>3. ASSUME NEW d \in UndoneBy(t)
        PROVE  d \in SeenBy(t) /\ unpriced[d][t] >= book[t].units
    <2>1. d \in Carry!Days /\ label < Carry!Midnight(d) /\ unpriced[d][t] > 0
      BY DEF UndoneBy
    <2>2. /\ d \in processed
          /\ unpriced[d][t] >= HeldAt(d, t)
          /\ unpriced[d][t] > HeldAt(d, t) <=> ClosedAfter(d, t)
      BY <2>1 DEF CarryInv, Unpriced
    <2>3. d \in SeenBy(t)
      <3>1. CASE d \notin SeenBy(t)
        <4>1. ClosedAfter(d, t)
          BY <2>1, <2>2, <3>1 DEF HeldAt
        <4>2. PICK trade \in trades : trade.ticket = t /\ d \in Through(trade)
          BY <4>1 DEF ClosedAfter
        <4>3. trade.entry = book[t].opened /\ trade.entry < Carry!Midnight(d)
          BY <4>2 DEF CarryInv, Traded, Through, Carry!Crossed
        <4>. QED
          BY <2>2, <4>3 DEF SeenBy
      <3>. QED
        BY <3>1
    <2>. QED
      BY <2>2, <2>3 DEF HeldAt
  <1>4. /\ unpriced' = [d \in Carry!Days |->
             IF d \in UndoneBy(t)
             THEN [unpriced[d] EXCEPT ![t] = IF @ > units THEN @ - units ELSE 0]
             ELSE unpriced[d]]
        /\ crossings' = crossings - Cardinality({d \in UndoneBy(t) : unpriced'[d] = Carry!Nobody})
    BY CarrySums, Zenon DEF Carry!Close, UndoneBy, Carry!ClosedBefore
  <1>5. \A d \in UndoneBy(t) : d \in Carry!Days /\ unpriced[d][t] \in Nat
                               /\ (IF unpriced[d][t] > units THEN unpriced[d][t] - units ELSE 0)
                                    = unpriced[d][t] - units
                               /\ unpriced[d][t] - units \in Nat
    <2>1. \A d \in UndoneBy(t) : d \in Carry!Days /\ unpriced[d][t] \in Nat
      BY <1>1 DEF UndoneBy
    <2>. QED
      BY <1>2, <1>3, <2>1
  <1>6. unpriced' = [d \in Carry!Days |->
             IF d \in UndoneBy(t) THEN [unpriced[d] EXCEPT ![t] = unpriced[d][t] - units]
             ELSE unpriced[d]]
    BY <1>1, <1>4, <1>5
  <1>7. /\ \A d \in Carry!Days, s \in Tickets :
             unpriced'[d][s] = IF d \in UndoneBy(t) /\ s = t THEN unpriced[d][s] - units
                               ELSE unpriced[d][s]
        /\ unpriced' \in [Carry!Days -> [Tickets -> Nat]]
    BY <1>1, <1>5, <1>6
  <1>. QED
    BY <1>3, <1>4, <1>7

LEMMA CloseUnpriced ==
  ASSUME CarryInv, NEW t \in Tickets, NEW units \in 1 .. book[t].units, Carry!Close(t, units)
  PROVE  Unpriced'
  <1>0. PICK new : new = TradeOf(t, units)
    OBVIOUS
  <1>1. /\ \A d \in UndoneBy(t) : d \in SeenBy(t) /\ unpriced[d][t] >= book[t].units
        /\ \A d \in Carry!Days, s \in Tickets :
             unpriced'[d][s] = IF d \in UndoneBy(t) /\ s = t THEN unpriced[d][s] - units
                               ELSE unpriced[d][s]
    BY CloseUndone
  <1>2. /\ (\A d : Carry!Priced(d)' = Carry!Priced(d))
        /\ (\A s \in Tickets : SeenBy(s)' = SeenBy(s))
        /\ (\A trade : Through(trade)' = Through(trade))
        /\ processed' = processed
        /\ book'[t].units = book[t].units - units
        /\ (\A s \in Tickets : s # t => book'[s] = book[s])
    BY CloseDays
  <1>3. /\ units \in Nat /\ units > 0 /\ book[t].units - units \in Nat
        /\ trades' = trades \cup {new}
    BY <1>0, CloseFacts
  <1>4. /\ unpriced \in [Carry!Days -> [Tickets -> Nat]] /\ label \in Int
        /\ processed \in SUBSET Carry!Days /\ book[t].units \in Nat
    BY DEF CarryInv, CarryTypes
  <1>5. \A d \in processed : d \in Through(new) <=> d \in SeenBy(t) /\ ~(label < Carry!Midnight(d))
    <2>1. \A d \in processed : Carry!Midnight(d) \in Nat
      BY <1>4, DaysFinite, MidnightsGrow
    <2>2. new.entry = book[t].opened /\ new.exit = label
      BY <1>0 DEF TradeOf
    <2>. QED
      BY <1>4, <2>1, <2>2 DEF Through, Carry!Crossed, SeenBy
  <1>6. new.ticket = t
    BY <1>0 DEF TradeOf
  <1>7. \A d \in Carry!Days, s \in Tickets :
          ClosedAfter(d, s)' <=> ClosedAfter(d, s) \/ (s = t /\ d \in Through(new))
    BY <1>2, <1>3, <1>6 DEF ClosedAfter
  <1>8. ASSUME NEW d \in Carry!Days, NEW s \in Tickets
        PROVE  IF d \in processed' /\ ~Carry!Priced(d)'
               THEN /\ unpriced'[d][s] >= HeldAt(d, s)'
                    /\ unpriced'[d][s] > HeldAt(d, s)' <=> ClosedAfter(d, s)'
               ELSE unpriced'[d][s] = 0
    <2>1. IF d \in processed /\ ~Carry!Priced(d)
          THEN /\ unpriced[d][s] >= HeldAt(d, s)
               /\ unpriced[d][s] > HeldAt(d, s) <=> ClosedAfter(d, s)
          ELSE unpriced[d][s] = 0
      BY DEF CarryInv, Unpriced
    <2>2. unpriced[d][s] \in Nat
      BY <1>4
    <2>3. CASE s # t
      <3>1. HeldAt(d, s)' = HeldAt(d, s) /\ unpriced'[d][s] = unpriced[d][s]
        BY <1>1, <1>2, <2>3 DEF HeldAt
      <3>2. ClosedAfter(d, s)' <=> ClosedAfter(d, s)
        BY <1>7, <2>3
      <3>. QED
        BY <1>2, <2>1, <3>1, <3>2
    <2>4. CASE s = t /\ ~(d \in processed /\ ~Carry!Priced(d))
      <3>1. d \notin UndoneBy(t)
        BY <2>1, <2>4 DEF UndoneBy
      <3>. QED
        BY <1>1, <1>2, <2>1, <2>4, <3>1
    <2>5. CASE s = t /\ d \in processed /\ ~Carry!Priced(d)
      <3>1. /\ HeldAt(d, t) = IF d \in SeenBy(t) THEN book[t].units ELSE 0
            /\ HeldAt(d, t)' = IF d \in SeenBy(t) THEN book[t].units - units ELSE 0
        BY <1>2 DEF HeldAt
      <3>2. unpriced[d][t] \in Nat /\ unpriced[d][t] >= HeldAt(d, t)
            /\ (unpriced[d][t] > HeldAt(d, t) <=> ClosedAfter(d, t))
        BY <2>1, <2>2, <2>5
      <3>3. CASE d \in UndoneBy(t)
        <4>1. d \in SeenBy(t) /\ unpriced'[d][t] = unpriced[d][t] - units /\ label < Carry!Midnight(d)
          BY <1>1, <3>3 DEF UndoneBy
        <4>2. ClosedAfter(d, t)' <=> ClosedAfter(d, t)
          BY <1>5, <1>7, <2>5, <4>1
        <4>3. unpriced'[d][t] >= HeldAt(d, t)'
              /\ (unpriced'[d][t] > HeldAt(d, t)' <=> unpriced[d][t] > HeldAt(d, t))
          BY <1>3, <1>4, <3>1, <3>2, <4>1
        <4>. QED
          BY <1>2, <2>5, <3>2, <4>2, <4>3
      <3>4. CASE d \notin UndoneBy(t)
        <4>1. unpriced'[d][t] = unpriced[d][t]
          BY <1>1, <3>4
        <4>2. CASE d \in SeenBy(t)
          <5>1. ~(label < Carry!Midnight(d))
            <6>1. unpriced[d][t] > 0
              BY <1>3, <1>4, <3>1, <3>2, <4>2
            <6>. QED
              BY <3>4, <6>1 DEF UndoneBy
          <5>2. ClosedAfter(d, t)'
            BY <1>5, <1>7, <2>5, <4>2, <5>1
          <5>3. unpriced'[d][t] > HeldAt(d, t)'
            BY <1>3, <1>4, <3>1, <3>2, <4>1, <4>2
          <5>. QED
            BY <2>5, <5>2, <5>3, <1>2, <3>1, <4>1, <4>2, <1>3, <3>2
        <4>3. CASE d \notin SeenBy(t)
          <5>1. ClosedAfter(d, t)' <=> ClosedAfter(d, t)
            BY <1>5, <1>7, <2>5, <4>3
          <5>. QED
            BY <1>2, <2>5, <3>1, <3>2, <4>1, <4>3, <5>1
        <4>. QED
          BY <4>2, <4>3
      <3>. QED
        BY <3>3, <3>4
    <2>. QED
      BY <2>3, <2>4, <2>5
  <1>9. Carry!Days' = Carry!Days
    BY DEF Carry!Days
  <1>. QED
    BY <1>8, <1>9 DEF Unpriced

LEMMA CloseCounting ==
  ASSUME CarryInv, NEW t \in Tickets, NEW units \in 1 .. book[t].units, Carry!Close(t, units)
  PROVE  Counting' /\ crossings' \in Int
  <1>1. /\ \A d \in Carry!Days, s \in Tickets :
             unpriced'[d][s] = IF d \in UndoneBy(t) /\ s = t THEN unpriced[d][s] - units
                               ELSE unpriced[d][s]
        /\ unpriced' \in [Carry!Days -> [Tickets -> Nat]]
        /\ crossings' = crossings - Cardinality({d \in UndoneBy(t) : unpriced'[d] = Carry!Nobody})
    BY CloseUndone
  <1>2. /\ unpriced \in [Carry!Days -> [Tickets -> Nat]] /\ crossings \in Int /\ units \in Nat
    BY CloseFacts DEF CarryInv, CarryTypes
  <1> DEFINE gone == {d \in UndoneBy(t) : unpriced'[d] = Carry!Nobody}
             rest == Marked \ gone
  <1>3. \A d \in Carry!Days : unpriced'[d] = Carry!Nobody <=> ~\E s \in Tickets : unpriced'[d][s] > 0
    BY <1>1 DEF Carry!Nobody
  <1>4. gone \in SUBSET Marked
    BY DEF Marked, UndoneBy
  <1>5. Marked' = rest
    <2>1. Carry!Days' = Carry!Days
      BY DEF Carry!Days
    <2>2. \A d \in Carry!Days : (\E s \in Tickets : unpriced'[d][s] > 0) <=>
            (\E s \in Tickets : unpriced[d][s] > 0) /\ d \notin gone
      <3>1. ASSUME NEW d \in Carry!Days, d \in UndoneBy(t)
            PROVE  (\E s \in Tickets : unpriced'[d][s] > 0) <=> d \notin gone
        BY <1>3, <3>1
      <3>2. ASSUME NEW d \in Carry!Days, d \notin UndoneBy(t)
            PROVE  (\E s \in Tickets : unpriced'[d][s] > 0) <=>
                     \E s \in Tickets : unpriced[d][s] > 0
        BY <1>1, <3>2
      <3>3. \A d \in UndoneBy(t) : \E s \in Tickets : unpriced[d][s] > 0
        BY DEF UndoneBy
      <3>4. \A d \in gone : d \in UndoneBy(t)
        OBVIOUS
      <3> HIDE DEF gone
      <3>. QED
        BY <3>1, <3>2, <3>3, <3>4
    <2> HIDE DEF gone
    <2>3. Marked' = {d \in Carry!Days : \E s \in Tickets : unpriced'[d][s] > 0}
      BY <2>1 DEF Marked
    <2>. QED
      BY <2>2, <2>3 DEF Marked
  <1>6. IsFiniteSet(Marked) /\ IsFiniteSet(rest) /\ IsFiniteSet(gone)
    BY <1>4, DaysFinite, FS_Subset DEF Marked
  <1>7. rest \cap gone = {} /\ rest \cup gone = Marked
    BY <1>4
  <1>8. crossings' = crossings - Cardinality(gone)
    BY <1>1
  <1> HIDE DEF gone, rest
  <1>9. Cardinality(Marked) = Cardinality(rest) + Cardinality(gone)
        /\ Cardinality(rest) \in Nat /\ Cardinality(gone) \in Nat
    BY <1>6, <1>7, ApartCounted
  <1>10. crossings = Cardinality(Marked)
    BY DEF CarryInv, Counting
  <1>11. crossings' = Cardinality(Marked') /\ crossings' \in Int
    BY <1>2, <1>5, <1>8, <1>9, <1>10
  <1>. QED
    BY <1>11 DEF Counting

LEMMA CarryClose ==
  ASSUME CarryInv, NEW t \in Tickets, NEW units \in 1 .. book[t].units, Carry!Close(t, units)
  PROVE  CarryInv'
  <1>1. /\ Rates' = Rates /\ (\A d : Carry!Priced(d)' = Carry!Priced(d))
        /\ (\A s \in Tickets : SeenBy(s)' = SeenBy(s))
        /\ processed' = processed /\ next' = next
        /\ book'[t].units = book[t].units - units
        /\ (\A s \in Tickets : s # t => book'[s] = book[s])
        /\ book' \in [Tickets -> [opened: Int, units: Nat]]
    BY CloseDays
  <1>2. /\ TradeOf(t, units) \in TradeRecord
        /\ IsFiniteSet(trades') /\ trades' \subseteq TradeRecord /\ Traded'
    BY CloseTrades
  <1>3. Summing' /\ total' \in Int /\ (BackOf(t) = {} => total' = total)
    BY CloseSums
  <1>4. Unpriced' /\ Counting' /\ crossings' \in Int
        /\ unpriced' \in [Carry!Days -> [Tickets -> Nat]]
    BY CloseUnpriced, CloseCounting, CloseUndone
  <1>5. /\ units \in Nat /\ units > 0 /\ book[t].units - units \in Nat
        /\ DOMAIN charged[t] = {d \in SeenBy(t) : Carry!Priced(d)}
        /\ pc = "book" /\ book[t].units \in Nat
    BY CloseFacts DEF CarryInv, CarryTypes
  <1> DEFINE Consumed(d) == IF units < charged[t][d].units THEN units ELSE charged[t][d].units
             after == [d \in {d \in DOMAIN charged[t] : charged[t][d].units > Consumed(d)} |->
                         [perUnit |-> charged[t][d].perUnit,
                          units |-> charged[t][d].units - Consumed(d)]]
  <1>6. /\ charged'[t] = after
        /\ \A s \in Tickets : s # t => charged'[s] = charged[s]
        /\ charged' = [s \in Tickets |-> charged'[s]]
    <2>1. charged' = [charged EXCEPT ![t] =
               [d \in {d \in DOMAIN @ : @[d].units > Consumed(d)} |->
                  [perUnit |-> @[d].perUnit, units |-> @[d].units - Consumed(d)]]]
      BY Zenon DEF Carry!Close
    <2> HIDE DEF Consumed
    <2>. QED
      BY <2>1 DEF CarryInv, CarryTypes
  <1> HIDE DEF after, Consumed
  <1>7. CarryTypes'
    <2>1. snapshots' = snapshots /\ clock' = clock /\ label' = label /\ pc' = pc
      BY DEF Carry!Close
    <2>2. Carry!Days' = Carry!Days
      BY DEF Carry!Days
    <2>3. TradeRecord' = TradeRecord
      BY DEF TradeRecord
    <2>4. /\ snapshots' \in Feeds
          /\ clock' \in 0 .. Horizon /\ label' \in Int /\ label' <= clock'
          /\ pc' \in {"accrue", "book"}
          /\ next' \in Nat /\ processed' \in SUBSET Carry!Days
      BY <1>1, <2>1 DEF CarryInv, CarryTypes
    <2>. QED
      BY <1>1, <1>2, <1>3, <1>4, <1>6, <2>2, <2>3, <2>4 DEF CarryTypes
  <1> USE DEF after, Consumed
  <1>8. Placed'
    <2>1. snapshot' = IF BackOf(t) # {} \/ snapshot = Carry!NoSnapshot THEN <<total'>> ELSE snapshot
      BY Zenon DEF Carry!Close, Carry!Snapshot, BackOf, Carry!ClosedBefore
    <2>2. snapshot' = <<total'>>
      BY <1>3, <2>1 DEF CarryInv, Placed
    <2>3. pc' = pc /\ clock' = clock
      BY DEF Carry!Close
    <2>4. next # 0
      BY <1>5 DEF CarryInv, Placed
    <2>. QED
      BY <1>1, <1>5, <2>2, <2>3, <2>4 DEF CarryInv, Placed, Carry!Midnight
  <1>9. Charged'
    <2>1. ASSUME NEW s \in Tickets
          PROVE  /\ DOMAIN charged'[s] = {d \in SeenBy(s)' : Carry!Priced(d)' /\ book'[s].units > 0}
                 /\ \A d \in DOMAIN charged'[s] :
                      charged'[s][d].perUnit = Rates'[d] /\ charged'[s][d].units = book'[s].units
      <3>1. CASE s # t
        <4>1. /\ SeenBy(s)' = SeenBy(s) /\ book'[s] = book[s] /\ charged'[s] = charged[s]
          BY <1>1, <1>6, <3>1
        <4>2. /\ DOMAIN charged[s] = {d \in SeenBy(s) : Carry!Priced(d) /\ book[s].units > 0}
              /\ \A d \in DOMAIN charged[s] :
                   charged[s][d].perUnit = Rates[d] /\ charged[s][d].units = book[s].units
          BY DEF CarryInv, Charged
        <4>. QED
          BY <1>1, <4>1, <4>2
      <3>2. CASE s = t
        <4>1. \A d \in DOMAIN charged[t] :
                charged[t][d].perUnit = Rates[d] /\ charged[t][d].units = book[t].units
          BY DEF CarryInv, Charged
        <4>2. \A d \in DOMAIN charged[t] : Consumed(d) = units
          BY <1>5, <4>1
        <4>3. DOMAIN after = {d \in DOMAIN charged[t] : book[t].units > units}
          BY <4>1, <4>2
        <4>4. \A d \in DOMAIN after :
                after[d].perUnit = Rates[d] /\ after[d].units = book[t].units - units
          BY <4>1, <4>2
        <4>5. book[t].units > units <=> book[t].units - units > 0
          BY <1>5
        <4> HIDE DEF after
        <4>6. DOMAIN charged'[t] = {d \in SeenBy(t)' : Carry!Priced(d)' /\ book'[t].units > 0}
          BY <1>1, <1>5, <1>6, <4>3, <4>5
        <4>7. \A d \in DOMAIN charged'[t] :
                charged'[t][d].perUnit = Rates'[d] /\ charged'[t][d].units = book'[t].units
          BY <1>1, <1>6, <4>4
        <4>. QED
          BY <3>2, <4>6, <4>7
      <3>. QED
        BY <3>1, <3>2
    <2>. QED
      BY <2>1 DEF Charged
  <1>. QED
    BY <1>2, <1>3, <1>4, <1>7, <1>8, <1>9 DEF CarryInv


\* A step that leaves the carry alone.
LEMMA CarrySame ==
  ASSUME CarryInv, UNCHANGED carryVars
  PROVE  CarryInv'
  <1>1. BooksSame /\ next' = next
    BY DEF carryVars, BooksSame
  <1>2. Charged' /\ Traded' /\ Summing' /\ Unpriced' /\ Counting'
    BY <1>1, CarryFrame
  <1>3. CarryTypes'
    BY DEF CarryInv, CarryTypes, carryVars
  <1>4. Placed'
    BY DEF CarryInv, Placed, carryVars
  <1>. QED
    BY <1>2, <1>3, <1>4 DEF CarryInv

LEMMA CarryStep ==
  ASSUME CarryInv, Carry!Next
  PROVE  CarryInv'
  <1>1. ASSUME NEW known \in 0 .. Horizon, NEW time \in 0 .. Horizon, Carry!Tick(known, time)
        PROVE  CarryInv'
    BY <1>1, CarryTick
  <1>2. CASE Carry!Rollover
    BY <1>2, CarryRollover
  <1>3. ASSUME NEW hourly \in BOOLEAN, Carry!Accrued(hourly)
        PROVE  CarryInv'
    BY <1>3, CarryAccrued
  <1>4. ASSUME NEW t \in Tickets, Carry!Open(t, Units)
        PROVE  CarryInv'
    BY <1>4, CarryOpen
  <1>5. ASSUME NEW t \in Tickets, NEW units \in 1 .. Units, Carry!Close(t, units)
        PROVE  CarryInv'
    <2>1. units \in 1 .. book[t].units
      BY <1>5, Zenon DEF Carry!Close
    <2>. QED
      BY <1>5, <2>1, CarryClose
  <1>. QED
    BY <1>1, <1>2, <1>3, <1>4, <1>5, Zenon DEF Carry!Next

\* What is still open went through all it has seen: no rollover is behind the next one.
LEMMA SeenIsCrossed ==
  ASSUME CarryInv, NEW t \in Tickets
  PROVE  Carry!Crossed(book[t].opened, Carry!Midnight(next)) = SeenBy(t)
  <1>1. next \in Nat /\ processed \in SUBSET Nat /\ \A d \in processed : d < next
    BY DaysFinite DEF CarryInv, CarryTypes, Placed
  <1>2. \A d \in processed : Carry!Midnight(d) <= Carry!Midnight(next)
    <2>1. ASSUME NEW d \in processed
          PROVE  Carry!Midnight(d) <= Carry!Midnight(next)
      <3>1. d \in Nat /\ d < next
        BY <1>1
      <3>2. Carry!Midnight(d) < Carry!Midnight(next) /\ Carry!Midnight(d) \in Nat
            /\ Carry!Midnight(next) \in Nat
        BY <1>1, <3>1, MidnightsGrow
      <3>. QED
        BY <3>2
    <2>. QED
      BY <2>1
  <1>. QED
    BY <1>2 DEF Carry!Crossed, SeenBy

LEMMA CarryImplied ==
  ASSUME CarryInv
  PROVE  CarryExact
  <1>1. snapshots \in Feeds /\ processed \in SUBSET Carry!Days
        /\ trades \subseteq TradeRecord
        /\ book \in [Tickets -> [opened: Int, units: Nat]]
    BY DEF CarryInv, CarryTypes
  <1>2. ASSUME NEW trade \in trades
        PROVE  trade.carry = Carry!Due(Carry!Crossed(trade.entry, trade.exit), trade.units)
    <2>1. trade.carry = Dues(Rates, Through(trade), trade.units)
      BY DEF CarryInv, Traded
    <2>2. trade.units \in Int
      BY <1>1 DEF TradeRecord
    <2>3. Through(trade) \in SUBSET Carry!Days
      BY <1>1 DEF Through, Carry!Crossed
    <2>4. Carry!Due(Through(trade), trade.units) = Dues(Rates, Through(trade), trade.units)
      BY <1>1, <2>2, <2>3, DueIs
    <2>. QED
      BY <2>1, <2>4 DEF Through
  <1>3. total = Carry!Total([trade \in trades |-> trade.carry])
                + Carry!Total([t \in Tickets |->
                    Carry!Due(Carry!Crossed(book[t].opened, Carry!Midnight(next)), book[t].units)])
    <2>1. ASSUME NEW t \in Tickets
          PROVE  Carry!Due(Carry!Crossed(book[t].opened, Carry!Midnight(next)), book[t].units)
                   = Dues(Rates, SeenBy(t), book[t].units)
      <3>1. SeenBy(t) \in SUBSET Carry!Days /\ book[t].units \in Int
        BY SumsTyped
      <3>2. Carry!Due(SeenBy(t), book[t].units) = Dues(Rates, SeenBy(t), book[t].units)
        BY <1>1, <3>1, DueIs
      <3>. QED
        BY <3>2, SeenIsCrossed
    <2>2. [t \in Tickets |->
             Carry!Due(Carry!Crossed(book[t].opened, Carry!Midnight(next)), book[t].units)]
            = OfTickets
      BY <2>1, Zenon DEF OfTickets
    <2>3. total = SetTotal(OfTrades) + SetTotal(OfTickets)
      BY DEF CarryInv, Summing
    <2>4. Carry!Total(OfTrades) = SetTotal(OfTrades) /\ Carry!Total(OfTickets) = SetTotal(OfTickets)
      BY CarrySums
    <2>. QED
      BY <2>2, <2>3, <2>4 DEF OfTrades
  <1>4. crossings = Carry!Cardinality({d \in processed :
            /\ ~Carry!Priced(d)
            /\ \/ \E trade \in trades : d \in Carry!Crossed(trade.entry, trade.exit)
               \/ \E t \in {t \in Tickets : book[t].units > 0} :
                    d \in Carry!Crossed(book[t].opened, Carry!Midnight(next))})
    <2>1. ASSUME NEW d \in Carry!Days
          PROVE  d \in Marked <=>
                   /\ d \in processed /\ ~Carry!Priced(d)
                   /\ \/ \E trade \in trades : d \in Through(trade)
                      \/ \E t \in Tickets : book[t].units > 0 /\ d \in SeenBy(t)
      <3>1. ASSUME NEW t \in Tickets
            PROVE  unpriced[d][t] > 0 <=>
                     /\ d \in processed /\ ~Carry!Priced(d)
                     /\ \/ ClosedAfter(d, t)
                        \/ book[t].units > 0 /\ d \in SeenBy(t)
        <4>1. unpriced[d][t] \in Nat /\ book[t].units \in Nat
          BY DEF CarryInv, CarryTypes
        <4>2. IF d \in processed /\ ~Carry!Priced(d)
              THEN /\ unpriced[d][t] >= HeldAt(d, t)
                   /\ unpriced[d][t] > HeldAt(d, t) <=> ClosedAfter(d, t)
              ELSE unpriced[d][t] = 0
          BY DEF CarryInv, Unpriced
        <4>3. HeldAt(d, t) \in Nat
              /\ (HeldAt(d, t) > 0 <=> book[t].units > 0 /\ d \in SeenBy(t))
          BY <4>1 DEF HeldAt
        <4>. QED
          BY <4>1, <4>2, <4>3
      <3>2. (\E trade \in trades : d \in Through(trade)) <=> \E t \in Tickets : ClosedAfter(d, t)
        BY <1>1 DEF ClosedAfter, TradeRecord
      <3>3. d \in Marked <=> \E t \in Tickets : unpriced[d][t] > 0
        BY DEF Marked
      <3>. QED
        BY <3>1, <3>2, <3>3
    <2> DEFINE Counted == {d \in processed :
            /\ ~Carry!Priced(d)
            /\ \/ \E trade \in trades : d \in Carry!Crossed(trade.entry, trade.exit)
               \/ \E t \in {t \in Tickets : book[t].units > 0} :
                    d \in Carry!Crossed(book[t].opened, Carry!Midnight(next))}
    <2>2. ASSUME NEW d
          PROVE  d \in Counted <=>
                   /\ d \in processed /\ ~Carry!Priced(d)
                   /\ \/ \E trade \in trades : d \in Through(trade)
                      \/ \E t \in Tickets : book[t].units > 0 /\ d \in SeenBy(t)
      <3>1. \A t \in Tickets :
              Carry!Crossed(book[t].opened, Carry!Midnight(next)) = SeenBy(t)
        BY SeenIsCrossed
      <3>2. \A trade : Carry!Crossed(trade.entry, trade.exit) = Through(trade)
        BY DEF Through
      <3>. QED
        BY <3>1, <3>2
    <2> HIDE DEF Counted
    <2>3. Counted = Marked
      <3>1. \A d \in Counted : d \in Carry!Days
        BY <1>1, <2>2
      <3>2. \A d \in Marked : d \in Carry!Days
        BY DEF Marked
      <3>. QED
        BY <2>1, <2>2, <3>1, <3>2
    <2>4. crossings = Cardinality(Marked) /\ Carry!Cardinality(Marked) = Cardinality(Marked)
      BY CarrySums DEF CarryInv, Counting
    <2>. QED
      BY <2>3, <2>4 DEF Counted
  <1>5. snapshot # Carry!NoSnapshot => snapshot = <<total>>
    BY DEF CarryInv, Placed
  <1>. QED
    BY <1>2, <1>3, <1>4, <1>5, Zenon DEF CarryExact, Carry!CarryExact

\* However late the ticks come (their broker times never ahead of the known ones), every
\* closed quantity bears the carry of the rollovers it was held through and nothing else,
\* a run's carry is that of its trades and positions, a rollover without a price is counted while somebody went through it, and no snapshot
\* of the instant lacks a correction: for any tickets, swaps and length of day
\* (engine.py, _accrue_carry, _retro_carry_for_open, _reverse_carry_for_close).
THEOREM CarryIsExact == PartsSpec => []CarryExact
  <1>1. PartsInit => CarryInv
    BY CarryInit DEF PartsInit
  <1>2. CarryInv /\ [PartsNext]_<<part, vars, carryVars, netVars, probeVars>> => CarryInv'
    <2> SUFFICES ASSUME CarryInv, [PartsNext]_<<part, vars, carryVars, netVars, probeVars>>
                 PROVE  CarryInv'
      OBVIOUS
    <2>1. CASE UNCHANGED carryVars
      BY <2>1, CarrySame
    <2>2. CASE Carry!Next
      BY <2>2, CarryStep
    <2>. QED
      BY <2>1, <2>2, Zenon DEF PartsNext
  <1>3. CarryInv => CarryExact
    BY CarryImplied
  <1>. QED
    BY <1>1, <1>2, <1>3, PTL DEF PartsSpec
===============================================================================

----------------------------- MODULE Arbitration -----------------------------
(***************************************************************************)
(* PortfolioArbitrator.select (portfolio/arbitrator.py): which of the      *)
(* sized entries of one cycle the risk engine gets to grade, and against   *)
(* which book.                                                             *)
(*                                                                         *)
(* A candidate is a record with its strategy, symbol, direction, value     *)
(* (expected edge times confidence), exposure, expired and enabled; at     *)
(* most one candidate of a cycle has the same strategy and symbol, so the  *)
(* last tie-break, the signal's id, never decides.                         *)
(***************************************************************************)
EXTENDS PreTradeRisk

CONSTANTS
  Strategies,      \* the strategy ids, in their order
  Symbols,         \* the symbols, in their order
  OverlapPenalty,  \* existing_exposure_penalty_r
  MaxPairs         \* max_pairs_per_triangle

ASSUME ArbitrationAssumption ==
  /\ OverlapPenalty \in Nat /\ MaxPairs \in Nat
  /\ Strategies \in Seq(ToSet(Strategies)) /\ IsInjective(Strategies)
  /\ Symbols \in Seq(ToSet(Symbols)) /\ IsInjective(Symbols)

Position(seq, x) == CHOOSE i \in DOMAIN seq : seq[i] = x

Legs(symbol, direction) ==
  {<<Base[symbol], direction>>, <<Quote[symbol], Opposite(direction)>>}

\* _book_leg_directions: the side of each currency the book holds net.
BookNet(book, currency) ==
  Total(LAMBDA e : e.units * ((IF Base[e.symbol] = currency THEN 1 ELSE 0)
                              - (IF Quote[e.symbol] = currency THEN 1 ELSE 0)), book)
BookLegs(book) ==
  {<<c, IF BookNet(book, c) > 0 THEN "LONG" ELSE "SHORT">> :
     c \in {d \in Currencies(book) : BookNet(book, d) # 0}}

Priority(c, book) ==
  c.value - OverlapPenalty * Cardinality(Legs(c.symbol, c.direction) \cap BookLegs(book))

\* Three pairs over three currencies, each two sharing exactly one.
Triangles(held) ==
  {t \in SUBSET held :
     /\ Cardinality(t) = 3
     /\ Cardinality(UNION {{Base[s], Quote[s]} : s \in t}) = 3
     /\ \A s, u \in t :
          s # u => Cardinality({Base[s], Quote[s]} \cap {Base[u], Quote[u]}) = 1}

Valid(c) == ~c.expired /\ c.enabled

\* The order of grading: by priority, then by strategy, then by symbol.
Before(c, d, book) ==
  \/ Priority(c, book) > Priority(d, book)
  \/ /\ Priority(c, book) = Priority(d, book)
     /\ \/ Position(Strategies, c.strategy) < Position(Strategies, d.strategy)
        \/ /\ c.strategy = d.strategy
           /\ Position(Symbols, c.symbol) < Position(Symbols, d.symbol)

\* A candidate takes its place behind those before it.
Insert(ranked, c, book) ==
  InsertAt(ranked, Cardinality({i \in DOMAIN ranked : Before(ranked[i], c, book)}) + 1, c)
Ranked(candidates, book) ==
  FoldLeft(LAMBDA ranked, c : IF Valid(c) THEN Insert(ranked, c, book) ELSE ranked, <<>>,
           candidates)

SymbolsOf(book) == {book[i].symbol : i \in DOMAIN book}

\* A triangle with the symbol in it of which too many pairs would be held.
Capped(c, book, known) ==
  \E t \in Triangles(known) :
    c.symbol \in t /\ Cardinality((t \cap SymbolsOf(book)) \cup {c.symbol}) > MaxPairs

\* Mutant: only the base currency of an accepted entry is taken.
Claims_BaseOnly(c) == {<<Base[c.symbol], c.direction>>}
Claims(c) == Legs(c.symbol, c.direction)

\* One turn of the loop over the ranked candidates.
Judge(state, c, known) ==
  CASE Claims(c) \cap state.claimed # {} ->
         [state EXCEPT !.rejected =
            Append(@, [candidate |-> c, reason |-> "REJECTED_REDUNDANT_FACTOR_EXPOSURE"])]
    [] Claims(c) \cap state.claimed = {} /\ Capped(c, state.book, known) ->
         [state EXCEPT !.rejected =
            Append(@, [candidate |-> c, reason |-> "REJECTED_TRIANGLE_CAP"])]
    [] OTHER ->
         [claimed |-> state.claimed \cup Claims(c),
          book |-> Append(state.book, c.exposure),
          accepted |-> Append(state.accepted,
                              [candidate |-> c, book_before |-> state.book]),
          rejected |-> state.rejected]

Invalid(c) ==
  [candidate |-> c, reason |-> IF c.expired THEN "REJECTED_EXPIRED"
                               ELSE "REJECTED_TRADING_DISABLED"]

\* Accepted candidates in their rank with the book each is graded against;
\* rejected ones in their rank, those without one last.
Select(candidates, book) ==
  LET known == SymbolsOf(book) \cup {candidates[i].symbol : i \in DOMAIN candidates}
      judged == FoldLeft(LAMBDA state, c : Judge(state, c, known),
                         [claimed |-> {}, book |-> book, accepted |-> <<>>,
                          rejected |-> <<>>],
                         Ranked(candidates, book))
      invalid == Among(candidates, {c \in ToSet(candidates) : ~Valid(c)})
  IN  [accepted |-> judged.accepted,
       rejected |-> judged.rejected \o [i \in DOMAIN invalid |-> Invalid(invalid[i])]]
=============================================================================

---------------------------- MODULE MCOmsWorkers ----------------------------
(***************************************************************************)
(* Instances of OmsWorkers for TLC.                                        *)
(***************************************************************************)
EXTENDS OmsWorkers, TLC

CONSTANTS c1, c2, c3, w1, w2, eurusd, usdjpy

OneSymbol == [c \in Command |-> usdjpy]
NoRanks == [c \in Command |-> NoRank]
TwoUnits == [c \in Command |-> 2]
OneUnit == [c \in Command |-> 1]
NoOrderOfCreation == {}

OneEntry == [c \in {c1} |-> "OPEN"]
OneClose == [c \in {c1} |-> "CLOSE"]
AtThree == [c \in Command |-> 3]
WorkerSymmetry == Permutations(Worker)
Never == [c \in Command |-> NoTime]
AllEntries == [c \in Command |-> "OPEN"]
=============================================================================

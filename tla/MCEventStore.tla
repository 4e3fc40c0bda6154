---------------------------- MODULE MCEventStore ----------------------------
(***************************************************************************)
(* What the collectors of economic and policy facts store, for TLC: the    *)
(* vintages of a released figure (Vintages), the archive of published      *)
(* documents (OpinionsArchive), the scores of policy meetings              *)
(* (MeetingIngest), the official record of interventions                   *)
(* (InterventionIngest), and the labels people give the documents          *)
(* (LabelReview).  A behaviour runs one of them (part); the others stay in *)
(* an initial state.                                                       *)
(***************************************************************************)
EXTENDS Vintages, TLC

CONSTANTS c1, c2

VARIABLES
  part,
  docClock, page, documents, collecting, taken, failures, read,           \* OpinionsArchive
  scoreClock, file, edits, version, scores, ingesting, finished, settled, \* MeetingIngest
  mofClock, amounts, curated, raws, official, downloading, completed,     \* InterventionIngest
  labels, session, pages, saves, raced, unseen                            \* LabelReview

documentVars == <<docClock, page, documents, collecting, taken, failures, read>>
scoreVars == <<scoreClock, file, edits, version, scores, ingesting, finished, settled>>
officialVars == <<mofClock, amounts, curated, raws, official, downloading, completed>>
labelVars == <<labels, session, pages, saves, raced, unseen>>

\* One document with three texts, and one that is not published in time.
Documents == INSTANCE OpinionsArchive WITH
  Meetings <- <<"june", "july">>,
  Versions <- [m \in {"june", "july"} |-> IF m = "june" THEN {"a", "b", "c"} ELSE {"a"}],
  Announced <- [m \in {"june", "july"} |-> IF m = "june" THEN 1 ELSE 9], MaxTime <- 3,
  now <- docClock, archive <- documents, run <- collecting

\* A rise whose score is clipped, or no change with one dissent.
Decided(bp, hawkish) ==
  [bp |-> bp, hawkish |-> hawkish, dovish |-> 0, forecast |-> 0, language |-> 0]
Scores == INSTANCE MeetingIngest WITH
  Banks <- {"BOJ", "FED", "BOE"}, Scorable <- {"BOJ", "FED"},
  Date <- [b \in {"BOJ", "FED", "BOE"} |-> 1], Latest <- [b \in {"BOJ", "FED", "BOE"} |-> 2],
  Facts <- {Decided(25, 1), Decided(0, 1)}, Ingests <- Collectors, MaxTime <- 3, MaxEdits <- 2,
  now <- scoreClock, events <- scores, run <- ingesting

Officials == INSTANCE InterventionIngest WITH
  Days <- {1}, Appears <- <<1>>, Bound <- <<2>>, Monthly <- {1, 2}, Recognized <- <<3, 1>>,
  Lookback <- 2, Ingests <- {c1}, MaxTime <- 4,
  now <- mofClock, events <- official, run <- downloading

Labels == INSTANCE LabelReview WITH
  Opinions <- {1, 2}, Servers <- Collectors, MaxSaves <- 3, file <- labels

-----------------------------------------------------------------------------
PartsInit ==
  /\ part \in {"figure", "document", "score", "official", "label"}
  /\ Init /\ Documents!Init /\ Scores!Init /\ Officials!Init /\ Labels!Init
  /\ part # "figure" => released[1].value = "a"
  /\ page["june"][1] = "a"

PartsNext ==
  \/ /\ part = "figure" /\ Next
     /\ UNCHANGED <<part, documentVars, scoreVars, officialVars, labelVars>>
  \/ /\ part = "document" /\ Documents!Next
     /\ UNCHANGED <<part, vars, scoreVars, officialVars, labelVars>>
  \/ /\ part = "score" /\ Scores!Next
     /\ UNCHANGED <<part, vars, documentVars, officialVars, labelVars>>
  \/ /\ part = "official" /\ Officials!Next
     /\ UNCHANGED <<part, vars, documentVars, scoreVars, labelVars>>
  \/ /\ part = "label" /\ Labels!Next
     /\ UNCHANGED <<part, vars, documentVars, scoreVars, officialVars>>

PartsSpec ==
  /\ PartsInit
  /\ [][PartsNext]_<<part, vars, documentVars, scoreVars, officialVars, labelVars>>

-----------------------------------------------------------------------------
\* Everything stored is read as it was known.  Vintages: a read never looks
\* ahead, and is exact after a backfill.  OpinionsArchive: only the first
\* version stored counts as the announced one, and none fetched is lost.
\* MeetingIngest: the scores read are the file's, and no meeting is missed.
\* InterventionIngest: the official figures have their pages and no holes.
\* LabelReview: no label is replaced that nobody saw.
FactsTrue ==
  /\ VintagesTrue
  /\ Documents!ArchiveTrue
  /\ Scores!ScoresTrue
  /\ Officials!OfficialTrue
  /\ Labels!LabelsKept
=============================================================================

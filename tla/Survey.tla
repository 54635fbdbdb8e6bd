------------------------------- MODULE Survey -------------------------------
(* The observer of the scans' outcomes (Observer), what t2 measures of a       *)
(* stack's labels (LabelVerdicts), the product reads of its stacks             *)
(* (StackReads), the figures of a day (UsageInsights) and the rubric           *)
(* (Maturity).  They share no state, so a behaviour moves one of them; the     *)
(* task is of the part that moves.  While another part moves the observer      *)
(* stays at the beginning.                                                     *)
EXTENDS Observer, Sequences

CONSTANTS
  Bounds, Warn, MaxCount, MaxMisreads, MaxGrowth,   \* LabelVerdicts
  Stack, Holdings, MaxChanges, MaxLost,             \* StackReads
  Happening, TopMix, MaxLate, MaxFailed,            \* UsageInsights
  ActiveUsers, ObjectCounts, RuleWeights            \* Maturity

VARIABLES
  part,                              \* the part that moves
  task,                              \* LabelVerdicts, StackReads and UsageInsights
  signal, bounds, world, first,      \* LabelVerdicts
  envelope, misreads, growth,
  held, tokens, gather, composed,    \* StackReads
  noted,
  dayLog, dayBoards, dayOut,         \* UsageInsights
  dayRecord, daySince,
  estateRow, dataPlane, turn,        \* Maturity
  points, pointSum, judgedWeight,
  ranking, handed

Labels == INSTANCE LabelVerdicts WITH payload <- envelope, faults <- misreads, MaxFaults <- MaxMisreads

Views == INSTANCE StackReads WITH
  run <- gather, view <- composed, since <- noted, MaxFaults <- MaxLost

Day == INSTANCE UsageInsights WITH
  Event <- Happening, MaxFaults <- MaxFailed,
  log <- dayLog, boards <- dayBoards, out <- dayOut, record <- dayRecord, since <- daySince

Rank == INSTANCE Maturity WITH
  Users <- ActiveUsers, Counts <- ObjectCounts, Weights <- RuleWeights,
  stack <- estateRow, dataplane <- dataPlane, next <- turn, scores <- points, weighted <- pointSum,
  covered <- judgedWeight, entry <- ranking, published <- handed

labelVars == <<signal, bounds, world, first, envelope, misreads, growth>>
readVars == <<held, tokens, gather, composed, noted>>
dayVars == <<dayLog, dayBoards, dayOut, dayRecord, daySince>>
rankVars == <<estateRow, dataPlane, turn, points, pointSum, judgedWeight, ranking, handed>>
surveyVars == <<vars, part, task, labelVars, readVars, dayVars, rankVars>>

Unused == "unused"
NoLabels ==
  /\ signal = Unused /\ bounds = Unused /\ world = Unused /\ first = Unused
  /\ envelope = Unused /\ misreads = Unused /\ growth = Unused
NoReads == held = Unused /\ tokens = Unused /\ gather = Unused /\ composed = Unused /\ noted = Unused
NoDay ==
  /\ dayLog = Unused /\ dayBoards = Unused /\ dayOut = Unused
  /\ dayRecord = Unused /\ daySince = Unused
NoRank ==
  /\ estateRow = Unused /\ dataPlane = Unused /\ turn = Unused /\ points = Unused
  /\ pointSum = Unused /\ judgedWeight = Unused /\ ranking = Unused /\ handed = Unused
NoTask == task = Unused

\* A rule fails from two values of a label, or two series, at the earliest.
LabelConstants ==
  /\ Bounds \subseteq [names : Nat, rows : Nat, keys : Nat, values : Nat]
  /\ Warn \in Nat \ {0, 1} /\ MaxCount \in Nat /\ Warn <= MaxCount
  /\ MaxMisreads \in Nat /\ MaxGrowth \in Nat
ASSUME LabelAssumption == LabelConstants

ReadConstants ==
  /\ Stack \in Seq(STRING) /\ Stack # <<>> /\ Holdings \subseteq Seq(Views!Objects)
  /\ MaxChanges \in Nat /\ MaxLost \in Nat
ASSUME ReadAssumption == ReadConstants

UsageConstants ==
  /\ IsFiniteSet(DOMAIN Happening)
  /\ TopMix \in Nat \ {0} /\ MaxLate \in Nat /\ MaxFailed \in Nat
ASSUME UsageAssumption == UsageConstants

\* A rule that is passed is evaluated, and one that is evaluated applies.
RankConstants ==
  /\ ActiveUsers \subseteq Nat /\ ObjectCounts \subseteq Nat
  /\ RuleWeights \subseteq [applicable : Nat, evaluated : Nat, passed : Nat]
  /\ \A w \in RuleWeights : w.passed <= w.evaluated /\ w.evaluated <= w.applicable
ASSUME RankAssumption == RankConstants

-----------------------------------------------------------------------------
SurveyInit ==
  \/ part = "observer" /\ Init /\ NoLabels /\ NoReads /\ NoDay /\ NoRank /\ NoTask
  \/ /\ Init /\ faults = 0
     /\ \/ part = "labels" /\ Labels!Init /\ NoReads /\ NoDay /\ NoRank
        \/ part = "reads" /\ Views!Init /\ NoLabels /\ NoDay /\ NoRank
        \/ part = "usage" /\ Day!Init /\ NoLabels /\ NoReads /\ NoRank
        \/ part = "maturity" /\ Rank!Init /\ NoLabels /\ NoReads /\ NoDay /\ NoTask

ObserverMoves == part = "observer" /\ Next /\ UNCHANGED <<part, task, labelVars, readVars, dayVars, rankVars>>
LabelsMove == part = "labels" /\ Labels!Next /\ UNCHANGED <<vars, part, readVars, dayVars, rankVars>>
ReadsMove == part = "reads" /\ Views!Next /\ UNCHANGED <<vars, part, labelVars, dayVars, rankVars>>
UsageMoves == part = "usage" /\ Day!Next /\ UNCHANGED <<vars, part, labelVars, readVars, rankVars>>
RankMoves == part = "maturity" /\ Rank!Next /\ UNCHANGED <<vars, part, task, labelVars, readVars, dayVars>>

SurveyNext == ObserverMoves \/ LabelsMove \/ ReadsMove \/ UsageMoves \/ RankMoves

SurveySpec == SurveyInit /\ [][SurveyNext]_surveyVars

-----------------------------------------------------------------------------
\* LabelVerdicts: no rule passes or fails a stack wrongly for what was cut,
\* refused or late, and the validator refuses nothing that a probe makes.
VerdictsAreSound == part = "labels" => Labels!TypeOK /\ Labels!VerdictsAreSound

\* UsageInsights: the figures of a day add up whatever comes between its queries,
\* and nobody's absence is a zero.  Maturity: a stack is ranked on enough.
\* StackReads: what a view says of a stack was so while it was read.
FiguresAreTrue ==
  /\ part = "usage" => Day!UsageIsTrue
  /\ part = "maturity" => Rank!RankingIsFair
  /\ part = "reads" => Views!ReadsAreTrue
=============================================================================

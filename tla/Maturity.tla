------------------------------ MODULE Maturity ------------------------------
(***************************************************************************)
(* The maturity rubric (collector/pillars/maturity.py): a stack is judged   *)
(* dimension after dimension by what its inventory and its data plane hold, *)
(* its score is the mean over the weight that could be judged, and a stack  *)
(* judged on too little is not ranked.  Scores are whole points, rounded    *)
(* down; the sum of the weights is kept exactly as it is in doubles.        *)
(***************************************************************************)
EXTENDS Integers, Sequences, FiniteSetsExt

CONSTANTS
    Users,       \* numbers of active users
    Counts,      \* numbers of dashboards, alert rules and datasource types
    Weights      \* weights of a signal's label rules: applicable, evaluated, passed

VARIABLES
    stack,       \* the inventory's row of the stack
    dataplane,   \* what t3 knows of it; Absent in a run of another tier
    next,        \* the dimension that is judged next
    scores,      \* dimension -> score, of those that could be judged
    weighted,    \* the sum of those scores, each by the weight of its dimension
    covered,     \* their weight: twentieths, and the error of the double that stands for it
    entry,       \* what score_stack returns
    published    \* what build hands on

vars == <<stack, dataplane, next, scores, weighted, covered, entry, published>>

-----------------------------------------------------------------------------
(* The weights in doubles: k twentieths, and an error in fifths of 2^-57.  A    *)
(* twentieth is 2^55 of these units, and 2^55 is 128 modulo 320.              *)

Twentieth == 128
\* The distance of the doubles about k twentieths; a power of two ends a binade.
Ulp(k, err) ==
    IF k <= 1 THEN 5 ELSE IF k <= 2 THEN 10
    ELSE IF k < 5 \/ (k = 5 /\ err < 0) THEN 20
    ELSE IF k < 10 \/ (k = 10 /\ err < 0) THEN 40
    ELSE IF k < 20 \/ (k = 20 /\ err < 0) THEN 80 ELSE 160

\* The error after rounding to the nearest double, of two the even one.
Rounded(k, err) ==
    LET ulp == Ulp(k, err)
        m == (k * Twentieth + err) % (2 * ulp)
        over == m % ulp
        up == 2 * over > ulp \/ (2 * over = ulp /\ m >= ulp)
    IN  IF up THEN err + ulp - over ELSE err - over

Plus(a, k) == [k |-> a.k + k, err |-> Rounded(a.k + k, a.err + Rounded(k, 0))]
Less(a, b) == a.k < b.k \/ (a.k = b.k /\ a.err < b.err)

Nothing == [k |-> 0, err |-> 0]
MinWeightCovered == [k |-> 16, err |-> Rounded(16, 0)]

-----------------------------------------------------------------------------
(* The dimensions.  Unscored is what cannot be judged, and never zero points.     *)

Unscored == -1
Clamp(x) == Max({0, Min({100, x})})

\* All points for a ratio of a to b between lo and hi hundredths, none at 0 and at three times hi.
Band(a, b, lo, hi) ==
    IF 100 * a < lo * b THEN Clamp((10000 * a) \div (lo * b))
    ELSE IF 100 * a <= hi * b THEN 100
    ELSE Clamp(100 - (100 * (100 * a - hi * b)) \div (2 * hi * b))
HigherBetter(a, b, good) == IF 100 * a >= good * b THEN 100 ELSE (10000 * a) \div (good * b)
LowerBetter(share, good, bad) ==
    IF share <= good THEN 100 ELSE IF share >= bad THEN 0 ELSE (100 * (bad - share)) \div (bad - good)

\* A signal has a score where enough of the weight that applies was evaluated.
CoverageFloor(w) == 5 * w.evaluated >= 4 * w.applicable
Counted(labels) == {s \in DOMAIN labels : labels[s].evaluated > 0 /\ CoverageFloor(labels[s])}
SignalScore(w) == (100 * w.passed) \div w.evaluated
Labelling(labels) ==
    LET counted == Counted(labels)
        Weight(s) == IF s \in counted THEN labels[s].applicable ELSE 0
        Points(s) == IF s \in counted THEN SignalScore(labels[s]) * labels[s].applicable ELSE 0
    IN  IF counted = {} THEN Unscored
        ELSE (Points("metrics") + Points("logs")) \div (Weight("metrics") + Weight("logs"))

Adaptive(a) ==
    IF a.state # "unsegmented" \/ a.applied + a.pending = 0 THEN Unscored
    ELSE (100 * a.applied) \div (a.applied + a.pending)
CollectorHealth(f) ==
    IF f.state # "available" \/ f.collectors + f.pipelines = 0 THEN Unscored
    ELSE IF f.collectors = 0 THEN 0 ELSE 100

AccessHygiene(s) ==
    IF s.users = 0 THEN Unscored
    ELSE IF s.users < 5 THEN (IF s.admins <= 2 THEN 100 ELSE 0)
    ELSE LowerBetter((100 * s.admins) \div s.users, 20, 75)

\* In the order of RUBRIC, with the weights in twentieths.
Rubric ==
    << <<"signal_breadth", 3>>, <<"alerting_proportionality", 3>>, <<"adaptive_adoption", 3>>,
       <<"engagement", 3>>, <<"access_hygiene", 2>>, <<"cardinality_discipline", 2>>,
       <<"dashboard_utilisation", 2>>, <<"datasource_breadth", 1>>, <<"collector_health", 1>> >>
OfDataplane == {"adaptive_adoption", "cardinality_discipline", "collector_health"}

\* The inventory is known from the start.
Judged(d, s) ==
    CASE d = "signal_breadth" -> HigherBetter(s.signals, 1, 300)
      [] d = "alerting_proportionality" ->
           IF s.dashboards = 0 THEN Unscored ELSE Band(s.alerts, s.dashboards, 20, 300)
      [] d = "engagement" -> IF s.users = 0 THEN Unscored ELSE HigherBetter(s.daily, s.users, 75)
      [] d = "access_hygiene" -> AccessHygiene(s)
      [] d = "dashboard_utilisation" ->
           IF s.users = 0 THEN Unscored ELSE Band(s.dashboards, s.users, 200, 2500)
      [] d = "datasource_breadth" -> HigherBetter(s.types, 1, 500)

AdaptiveStates ==
    [state : {"unavailable", "segmented"}, applied : {1}, pending : {1}]
    \cup [state : {"unsegmented"}, applied : {0, 2}, pending : {0, 2}]
FleetStates == [state : {"available", "forbidden"}, collectors : {0, 1}, pipelines : {0, 1}]
\* Of the signals two.
LabelStates == UNION {[ss -> Weights] : ss \in SUBSET {"metrics", "logs"}}

\* What the scores of a dimension of the data plane can be.
Measured(d) ==
    CASE d = "adaptive_adoption" -> {Adaptive(a) : a \in AdaptiveStates}
      [] d = "collector_health" -> {CollectorHealth(f) : f \in FleetStates}
      [] d = "cardinality_discipline" -> {Labelling(l) : l \in LabelStates}

Outcomes(d) ==
    IF d \notin OfDataplane THEN {Judged(d, stack)}
    ELSE IF dataplane = "absent" THEN {Unscored} ELSE Measured(d)

-----------------------------------------------------------------------------
(* score_stack and build *)

Eligibility(s) ==
    IF s.status = "paused" THEN "paused"
    ELSE IF s.users < 3 THEN "too_few_users"
    ELSE IF s.signals = 0 THEN "no_signal_above_floor" ELSE "eligible"

\* Mutant: a dimension that cannot be judged counts as none reached.
WithZeros(k) == 20
Denominator(k) == k
Composite(sum, k) == sum \div Denominator(k)

Thin(c) == Less(c, MinWeightCovered)

Reason(s, c) ==
    IF Eligibility(s) # "eligible" THEN Eligibility(s)
    ELSE IF Thin(c) THEN "insufficient_rubric_coverage" ELSE "none"

Unjudged == [score |-> Unscored, reason |-> "unjudged"]
Judgement(s, sum, c) ==
    [reason |-> Reason(s, c), score |-> IF Reason(s, c) = "none" THEN Composite(sum, c.k) ELSE Unscored]

Init ==
    /\ \E users \in Users, dashboards, alerts, types \in Counts, signals \in {0, 1, 3},
         admins, daily \in {0, 1}, status \in {"active", "paused"} :
         stack = [status |-> status, users |-> users, admins |-> admins * users, daily |-> daily * users,
                  signals |-> signals, dashboards |-> dashboards, alerts |-> alerts, types |-> types]
    /\ dataplane \in {"absent", "present"}
    /\ next = 1 /\ scores = <<>> /\ weighted = 0 /\ covered = Nothing
    /\ entry = Unjudged
    /\ published = [metrics |-> FALSE, views |-> FALSE]

\* One turn of the loop over the rubric.
Judge ==
    /\ next \in DOMAIN Rubric
    /\ LET d == Rubric[next][1] IN \E judged \in Outcomes(d) :
         LET score == Clamp(judged) IN
         IF judged = Unscored THEN UNCHANGED <<scores, weighted, covered>>
         ELSE /\ scores' = [x \in DOMAIN scores \cup {d} |-> IF x = d THEN score ELSE scores[x]]
              /\ weighted' = weighted + score * Rubric[next][2]
              /\ covered' = Plus(covered, Rubric[next][2])
    /\ next' = next + 1
    /\ UNCHANGED <<stack, dataplane, entry, published>>

ScoreStack ==
    /\ next = Len(Rubric) + 1 /\ entry = Unjudged
    /\ entry' = Judgement(stack, weighted, covered)
    /\ UNCHANGED <<stack, dataplane, next, scores, weighted, covered, published>>

\* Figures only of a stack that is ranked, views only with a data plane.
Build ==
    /\ entry # Unjudged /\ next # 0
    /\ published' = [metrics |-> entry.score # Unscored, views |-> dataplane # "absent"]
    /\ next' = 0
    /\ UNCHANGED <<stack, dataplane, scores, weighted, covered, entry>>

Next == Judge \/ ScoreStack \/ Build
Spec == Init /\ [][Next]_vars

-----------------------------------------------------------------------------
(* Properties *)

Hundredths == 5 * covered.k

\* A stack that is ranked can be compared: it is used, at least 80% of the
\* rubric was judged, and its score lies between the worst and the best of its
\* dimensions, so that what is not known neither flatters nor accuses it.
RankedIsComparable ==
    entry.score # Unscored =>
        /\ stack.status = "active" /\ stack.users >= 3 /\ stack.signals > 0
        /\ Hundredths >= 80
        /\ \E d \in DOMAIN scores : scores[d] <= entry.score
        /\ \E d \in DOMAIN scores : scores[d] >= entry.score

\* A run without the data plane publishes nothing of the rubric.
ThinTierIsSilent == dataplane = "absent" => published = [metrics |-> FALSE, views |-> FALSE]

\* Nor is a stack left out that is used and of whose rubric more than 80% was
\* judged.  (Of those at 80% exactly the doubles let some pass and not others.)
JudgedIsRanked ==
    entry # Unjudged /\ stack.status = "active" /\ stack.users >= 3 /\ stack.signals > 0
        /\ Hundredths > 80
      => entry.score # Unscored

RankingIsFair == RankedIsComparable /\ JudgedIsRanked /\ ThinTierIsSilent
=============================================================================

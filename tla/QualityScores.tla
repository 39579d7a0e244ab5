--------------------------- MODULE QualityScores ----------------------------
(***************************************************************************)
(* The scores an attempt carries and what the three loops make of them:    *)
(* evaluateCampaignScores, evaluateScores, and allScoresPass with          *)
(* calculateOverallScore.  The five metrics and their scale of 0 to 100    *)
(* are constants.                                                          *)
(***************************************************************************)
EXTENDS Integers, FiniteSets, Functions

CONSTANTS
  Metrics,   \* SCORE_KEYS
  Top,       \* the greatest score
  Threshold  \* SCORE_THRESHOLDS: the least passing score of each metric

ASSUME ScoresAssumption ==
  /\ IsFiniteSet(Metrics) /\ Metrics # {}
  /\ Top \in Nat
  /\ Threshold \in [Metrics -> 0 .. Top]

\* The values valueOf(), clampScore() and clamp() let through.
ScoreVectors == [Metrics -> 0 .. Top]

\* MUTANT of AllPass: one failing score is let through.
AllButOnePass(s) == Cardinality({m \in Metrics : s[m] < Threshold[m]}) <= 1

\* No score is a weakness.
AllPass(s) == \A m \in Metrics : s[m] >= Threshold[m]

Total(s) == SumFunction(s)

\* Math.round(sum / SCORE_KEYS.length): a half is rounded up.
OverallAverage(s) ==
  LET n == Cardinality(Metrics) IN (2 * Total(s) + n) \div (2 * n)

\* calculateOverallScore does not round; over one number of metrics it orders
\* the attempts as the sum does.
OverallScore(s) == Total(s)

============================================================================

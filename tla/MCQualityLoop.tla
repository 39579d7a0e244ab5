--------------------------- MODULE MCQualityLoop ----------------------------
(* The loops over attempts that carry two scores: the critical one, with the
   higher threshold, and one other. *)
EXTENDS QualityLoop, QualityScores, TLC

CONSTANTS gate, other

TwoMetrics     == {gate, other}
TwoThresholds  == (gate :> 3) @@ (other :> 2)
PassingVectors == {s \in ScoreVectors : AllPass(s)}
AverageOf      ==
  [l \in Loops |-> [s \in ScoreVectors |->
    IF l = "social" THEN OverallScore(s) ELSE OverallAverage(s)]]

============================================================================

CONSTANTS
  gate = gate
  other = other
  Metrics <- TwoMetrics
  Threshold <- TwoThresholds
  Top = 4
  Loops = {"campaign", "posts", "social"}
  Attempts <- ScoreVectors
  Passing <- PassingVectors
  Average <- AverageOf
  MaxIterations = 3
  NoAttempt = NoAttempt
SPECIFICATION LoopSpec
CHECK_DEADLOCK FALSE
INVARIANTS BestWhenWarned CampaignWarnedOrPassing

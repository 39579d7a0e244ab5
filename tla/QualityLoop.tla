---------------------------- MODULE QualityLoop -----------------------------
(***************************************************************************)
(* The regeneration loop that stands in front of everything the AI writes. *)
(* An attempt is generated and scored; if each score reaches its threshold *)
(* the loop ends, and otherwise it tries again, up to MaxIterations times, *)
(* and hands over the best attempt with a quality warning.  The code has   *)
(* the loop three times, and the three differ in what they start from and  *)
(* in what they hand over:                                                 *)
(*   campaign  generateStageWithQualityLoop of the campaign worker;        *)
(*   posts     runQualityLoop of the social post worker;                   *)
(*   social    the loop in doProcess of the social media worker.           *)
(* What the AI answers is any attempt, at every iteration.                 *)
(***************************************************************************)
EXTENDS Integers

CONSTANTS
  Loops,         \* the loops an instance looks at
  Attempts,      \* what the AI may answer
  Passing,       \* the attempts all of whose scores reach their thresholds
  Average,       \* the overall average of an attempt, as each loop takes it
  MaxIterations, \* MAX_QUALITY_ITERATIONS, MAX_ITERATIONS
  NoAttempt      \* null, or the empty posts the social loop starts with

ASSUME LoopAssumption ==
  /\ Loops \subseteq {"campaign", "posts", "social"}
  /\ Passing \subseteq Attempts
  /\ NoAttempt \notin Attempts
  /\ Average \in [Loops -> [Attempts -> Nat]]
  /\ MaxIterations \in Nat \ {0}

VARIABLES
  loop,        \* which loop this is
  status,      \* running, done or failed
  iteration,   \* iterations begun so far
  tried,       \* what the AI has answered so far
  best,        \* the best attempt so far
  bestAverage, \* and its average
  delivered,   \* what the loop hands over
  warning      \* qualityWarning

loopVars == <<loop, status, iteration, tried, best, bestAverage, delivered, warning>>

Outcome == Attempts \cup {NoAttempt}

\* MUTANT of StartAverage: averages below a floor are not recorded.
StartAtFloor(l) == 2

\* The campaign and posts loops start below every average, the social loop at
\* zero.
StartAverage(l) == IF l = "social" THEN 0 ELSE -1

LoopInit ==
  /\ loop \in Loops
  /\ status      = "running"
  /\ iteration   = 0
  /\ tried       = {}
  /\ best        = NoAttempt
  /\ bestAverage = StartAverage(loop)
  /\ delivered   = NoAttempt
  /\ warning     = FALSE

----------------------------------------------------------------------------

\* An attempt replaces the best one if its average is strictly greater.
Rank(a) ==
  IF Average[loop][a] > bestAverage
  THEN /\ best'        = a
       /\ bestAverage' = Average[loop][a]
  ELSE UNCHANGED <<best, bestAverage>>

\* MUTANT of Handed: the campaign loop breaks out and returns the best attempt.
HandedBest(a) == best'

\* What a loop hands over when it stops at a passing attempt: the campaign
\* loop returns the attempt itself, the other two leave the loop and use best.
Handed(a) == IF loop = "campaign" THEN a ELSE best'

\* The loop ends with a passing attempt, or with the last one and a warning.
Stop(a) ==
  /\ iteration' = MaxIterations \/ a \in Passing
  /\ status'    = "done"
  /\ delivered' = IF a \in Passing THEN Handed(a) ELSE best'
  /\ warning'   = (a \notin Passing)

Continue(a) ==
  /\ iteration' < MaxIterations /\ a \notin Passing
  /\ UNCHANGED <<status, delivered, warning>>

\* One iteration: the AI answers, the answer is scored, ranked and judged.
Try(a) ==
  /\ status = "running"
  /\ iteration' = iteration + 1
  /\ tried'     = tried \cup {a}
  /\ Rank(a)
  /\ Stop(a) \/ Continue(a)
  /\ UNCHANGED loop

\* The AI or the research throws: so does the loop, whatever it has by then.
Throw ==
  /\ status = "running"
  /\ status' = "failed"
  /\ iteration' = iteration + 1
  /\ UNCHANGED <<loop, tried, best, bestAverage, delivered, warning>>

LoopNext == Throw \/ \E a \in Attempts : Try(a)

LoopSpec == LoopInit /\ [][LoopNext]_loopVars

----------------------------------------------------------------------------

\* The loop keeps its types, an iteration count within MAX_QUALITY_ITERATIONS
\* among them.
LoopTypeOK ==
  /\ loop \in Loops
  /\ status \in {"running", "done", "failed"}
  /\ iteration \in 0 .. MaxIterations
  /\ tried \subseteq Attempts
  /\ best \in Outcome
  /\ bestAverage \in Nat \cup {-1}
  /\ delivered \in Outcome
  /\ warning \in BOOLEAN

\* No attempt tried so far has a greater average than the best one, and the
\* best one is an attempt unless nothing has beaten the starting average.
BestSoFar ==
  /\ \A a \in tried : Average[loop][a] <= bestAverage
  /\ best = NoAttempt => bestAverage = StartAverage(loop)
  /\ best # NoAttempt => best \in tried /\ bestAverage = Average[loop][best]

\* While the loop runs nothing it has tried has passed, and it has iterations
\* left.
StillTrying ==
  status = "running" =>
    /\ tried \cap Passing = {}
    /\ iteration < MaxIterations
    /\ iteration > 0 => tried # {}

\* The strengthening the proofs use: what a finished loop hands over.
Settled ==
  status = "done" =>
    \/ /\ warning
       /\ tried \cap Passing = {} /\ iteration = MaxIterations
       /\ delivered = best /\ tried # {}
    \/ /\ ~warning
       /\ IF loop = "campaign" THEN delivered \in Passing ELSE delivered = best

LoopInv == LoopTypeOK /\ BestSoFar /\ StillTrying /\ Settled

\* A warning is a last resort: every attempt was made and each one failed
\* (`if (iteration === MAX_QUALITY_ITERATIONS) qualityWarning = true`).
ExhaustedWhenWarned ==
  (status = "done" /\ warning) =>
    tried \cap Passing = {} /\ iteration = MaxIterations

\* Content that carries the warning is the best of all the attempts, if any of
\* them scores above zero ("then the best attempt is returned").
BestWhenWarned ==
  (status = "done" /\ warning /\ \E a \in tried : Average[loop][a] > 0) =>
    /\ delivered \in tried
    /\ \A a \in tried : Average[loop][a] <= Average[loop][delivered]

\* Content without the warning passes every threshold ("The system NEVER
\* returns content until ALL scores pass their thresholds, or MAX_ITERATIONS
\* is reached").
WarnedOrPassing ==
  (status = "done" /\ ~warning) => delivered \in Passing

\* The campaign loop keeps that promise: it hands over the passing attempt
\* itself, not the one its averages rank first.
CampaignWarnedOrPassing == loop = "campaign" => WarnedOrPassing

============================================================================

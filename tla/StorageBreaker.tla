--------------------------- MODULE StorageBreaker ---------------------------
(***************************************************************************)
(* The circuit breaker in front of Cloudflare R2                           *)
(* (src/src/shared/storage/circuit-breaker-storage.adapter.ts).  It is one *)
(* object shared by every request and every worker slot: upload() and      *)
(* delete() look at the state before their first await and touch it again  *)
(* after the last one, while other calls run in between.  A call that is   *)
(* refused changes nothing and has no action.  Both operations treat the   *)
(* breaker alike, so a call is not told apart by what it does in R2.       *)
(***************************************************************************)
EXTENDS Naturals

CONSTANTS
  Calls,            \* calls that may be in flight together
  FailureThreshold, \* failureThreshold: 5
  ResetTimeout,     \* resetTimeout, in ticks
  MaxRetries,       \* maxRetries: 3
  MaxErrors,        \* bound: attempts that fail or time out
  MaxResets         \* bound: manual resets

ASSUME BreakerAssumption ==
  /\ FailureThreshold \in Nat \ {0}
  /\ ResetTimeout \in Nat \ {0}
  /\ MaxRetries \in Nat
  /\ MaxErrors \in Nat
  /\ MaxResets \in Nat

VARIABLES
  state,        \* CLOSED, OPEN or HALF_OPEN
  failureCount, \* calls that have failed since the count was last reset
  wait,         \* nextAttemptTime - now, or 0
  age,          \* now - lastFailureTime, up to ResetTimeout
  inFlight,     \* calls between their admission and their end
  attempt,      \* the attempt of withRetry a call is at
  errors,       \* attempts that have failed so far
  resets        \* manual resets so far

breakerVars == <<state, failureCount, wait, age, inFlight, attempt, errors, resets>>

BreakerInit ==
  /\ state        = "CLOSED"
  /\ failureCount = 0
  /\ wait         = 0
  /\ age          = ResetTimeout
  /\ inFlight     = {}
  /\ attempt      = [k \in Calls |-> 0]
  /\ errors       = 0
  /\ resets       = 0

----------------------------------------------------------------------------

\* The test at the head of upload() and delete(): an open circuit refuses
\* until nextAttemptTime and then lets every caller in.
Admitted ==
  /\ state = "OPEN" => wait = 0
  /\ state' = IF state = "OPEN" THEN "HALF_OPEN" ELSE state
  /\ UNCHANGED failureCount

\* MUTANT of HandleFailure: only the failure that opens the circuit sets the
\* time of the next attempt.
HandleFirstFailure ==
  /\ failureCount' = failureCount + 1
  /\ age' = 0
  /\ IF failureCount + 1 >= FailureThreshold
     THEN /\ state' = "OPEN"
          /\ wait'  = IF state = "OPEN" THEN wait ELSE ResetTimeout
     ELSE UNCHANGED <<state, wait>>

\* MUTANT of HandleFailure: the comparison is off by one.
HandleFailureLate ==
  /\ failureCount' = failureCount + 1
  /\ age' = 0
  /\ IF failureCount + 1 > FailureThreshold
     THEN state' = "OPEN" /\ wait' = ResetTimeout
     ELSE UNCHANGED <<state, wait>>

\* MUTANT of HandleFailure: it opens the circuit when the threshold is reached,
\* and not again when a probe fails.
HandleFailureOnce ==
  /\ failureCount' = failureCount + 1
  /\ age' = 0
  /\ IF failureCount + 1 = FailureThreshold
     THEN state' = "OPEN" /\ wait' = ResetTimeout
     ELSE UNCHANGED <<state, wait>>

HandleFailure ==
  /\ failureCount' = failureCount + 1
  /\ age' = 0
  /\ IF failureCount + 1 >= FailureThreshold
     THEN state' = "OPEN" /\ wait' = ResetTimeout
     ELSE UNCHANGED <<state, wait>>

\* MUTANT of Recovered: a success never closes the circuit.
RecoveredNever == UNCHANGED <<state, failureCount>>

\* After an attempt that succeeded: only a half-open circuit closes, and only
\* then is the count reset.
Recovered ==
  IF state = "HALF_OPEN"
  THEN state' = "CLOSED" /\ failureCount' = 0
  ELSE UNCHANGED <<state, failureCount>>

Begin(k) ==
  /\ k \notin inFlight
  /\ Admitted
  /\ inFlight' = inFlight \union {k}
  /\ attempt'  = [attempt EXCEPT ![k] = 0]
  /\ UNCHANGED <<wait, age, errors, resets>>

Succeed(k) ==
  /\ k \in inFlight
  /\ Recovered
  /\ inFlight' = inFlight \ {k}
  /\ UNCHANGED <<wait, age, attempt, errors, resets>>

\* An attempt throws or times out and withRetry tries again after a delay,
\* without another look at the circuit.
Retry(k) ==
  /\ k \in inFlight
  /\ attempt[k] < MaxRetries
  /\ errors < MaxErrors
  /\ errors'  = errors + 1
  /\ attempt' = [attempt EXCEPT ![k] = @ + 1]
  /\ UNCHANGED <<state, failureCount, wait, age, inFlight, resets>>

\* The last attempt throws or times out: the call counts as one failure.
GiveUp(k) ==
  /\ k \in inFlight
  /\ attempt[k] = MaxRetries
  /\ errors < MaxErrors
  /\ errors' = errors + 1
  /\ HandleFailure
  /\ inFlight' = inFlight \ {k}
  /\ UNCHANGED <<attempt, resets>>

\* resetCircuit(), which no caller of the repository uses.
ResetCircuit ==
  /\ resets < MaxResets
  /\ resets' = resets + 1
  /\ state' = "CLOSED"
  /\ failureCount' = 0
  /\ wait' = 0
  /\ UNCHANGED <<age, inFlight, attempt, errors>>

\* The clock that Date.now() reads.
ClockTicks ==
  /\ wait > 0 \/ age < ResetTimeout
  /\ wait' = IF wait > 0 THEN wait - 1 ELSE 0
  /\ age'  = IF age < ResetTimeout THEN age + 1 ELSE age
  /\ UNCHANGED <<state, failureCount, inFlight, attempt, errors, resets>>

BreakerNext ==
  \/ \E k \in Calls : Begin(k) \/ Succeed(k) \/ Retry(k) \/ GiveUp(k)
  \/ ResetCircuit
  \/ ClockTicks

BreakerSpec == BreakerInit /\ [][BreakerNext]_breakerVars

\* Every attempt ends (requestTimeout sees to it), time passes, and callers
\* go on asking for uploads and deletes.
BreakerFairness ==
  /\ \A k \in Calls : WF_breakerVars(Succeed(k) \/ Retry(k) \/ GiveUp(k))
  /\ WF_breakerVars(ClockTicks)
  /\ WF_breakerVars(\E k \in Calls : Begin(k))

FairBreakerSpec == BreakerSpec /\ BreakerFairness

----------------------------------------------------------------------------
(* Properties.                                                             *)

\* Every variable keeps its type.
BreakerTypeOK ==
  /\ state \in {"CLOSED", "OPEN", "HALF_OPEN"}
  /\ failureCount \in Nat
  /\ wait \in 0..ResetTimeout
  /\ age \in 0..ResetTimeout
  /\ inFlight \subseteq Calls
  /\ attempt \in [Calls -> 0..MaxRetries]
  /\ errors \in 0..MaxErrors
  /\ resets \in 0..MaxResets

\* The circuit is closed exactly while the count is below the threshold,
\* although the two are written by calls that began in different states.
CountMatchesState == state = "CLOSED" <=> failureCount < FailureThreshold

\* R2 is left in peace: a circuit is probed only when no call, not even one
\* that was in flight when it opened, has failed for the whole resetTimeout.
NoEarlyProbe ==
  [][state = "OPEN" /\ state' = "HALF_OPEN" => age = ResetTimeout]_breakerVars

\* While a circuit is not closed one more failure of any call opens it for
\* another resetTimeout: probing is over at the first failure.
FailedProbeReopens ==
  [][state # "CLOSED" /\ failureCount' > failureCount
       => state' = "OPEN" /\ wait' = ResetTimeout]_breakerVars

\* Counted failures are forgotten (other than by hand) only when no call has
\* failed for a whole resetTimeout.  A half-open circuit admits every caller,
\* and the success that closes it may be a late one of a call that was in
\* flight when it opened; but no success closes it once another call has failed.
OnlyQuietForgives ==
  [][failureCount' < failureCount /\ resets' = resets => age = ResetTimeout]_breakerVars

\* Once R2 answers again and callers keep coming, the circuit closes for good.
Recovers == <>[](state = "CLOSED")

============================================================================

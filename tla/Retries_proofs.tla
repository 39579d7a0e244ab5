--------------------------- MODULE Retries_proofs ---------------------------
(***************************************************************************)
(* What is tried again, and how often.  What the circuit breaker of the    *)
(* storage guarantees, for every threshold, every timeout and any number   *)
(* of calls in flight; what each of the three quality loops guarantees,    *)
(* for every set of attempts, every way to judge and to average them and   *)
(* every number of iterations; and what becomes of a call that Retell      *)
(* delivers again and again and of the mail about it, for every number of  *)
(* deliveries and records, every backoff and every breaker.                *)
(***************************************************************************)
EXTENDS StorageBreaker, QualityLoop, RetellIngest, FiniteSetTheorems, TLAPS

----------------------------------------------------------------------------
(* The breaker.                                                            *)

\* Types are inductive on their own.
LEMMA BreakerTypeStart == BreakerInit => BreakerTypeOK
  BY BreakerAssumption DEF BreakerInit, BreakerTypeOK

LEMMA BreakerTypeStep == BreakerTypeOK /\ [BreakerNext]_breakerVars => BreakerTypeOK'
<1> SUFFICES ASSUME BreakerTypeOK, [BreakerNext]_breakerVars PROVE BreakerTypeOK'
  OBVIOUS
<1> USE BreakerAssumption
<1>1. ASSUME NEW k \in Calls, Begin(k) PROVE BreakerTypeOK'
  BY <1>1 DEF Begin, Admitted, BreakerTypeOK
<1>2. ASSUME NEW k \in Calls, Succeed(k) PROVE BreakerTypeOK'
  BY <1>2 DEF Succeed, Recovered, BreakerTypeOK
<1>3. ASSUME NEW k \in Calls, Retry(k) PROVE BreakerTypeOK'
  BY <1>3 DEF Retry, BreakerTypeOK
<1>4. ASSUME NEW k \in Calls, GiveUp(k) PROVE BreakerTypeOK'
  BY <1>4 DEF GiveUp, HandleFailure, BreakerTypeOK
<1>5. CASE ResetCircuit
  BY <1>5 DEF ResetCircuit, BreakerTypeOK
<1>6. CASE ClockTicks
  BY <1>6 DEF ClockTicks, BreakerTypeOK
<1>7. CASE UNCHANGED breakerVars
  BY <1>7 DEF breakerVars, BreakerTypeOK
<1>8. QED
  BY <1>1, <1>2, <1>3, <1>4, <1>5, <1>6, <1>7 DEF BreakerNext

\* Every behaviour of the breaker keeps its types.
THEOREM BreakerTypeCorrect == BreakerSpec => []BreakerTypeOK
  BY BreakerTypeStart, BreakerTypeStep, PTL DEF BreakerSpec

----------------------------------------------------------------------------

\* The time an open circuit has been left alone and the time it still has to
\* wait add up to resetTimeout; a circuit that is not open does not wait, and
\* nothing has failed since one became half-open.
WaitMatchesAge ==
  /\ state = "OPEN" => wait + age = ResetTimeout
  /\ state = "HALF_OPEN" => age = ResetTimeout
  /\ state # "OPEN" => wait = 0

BreakerInv == BreakerTypeOK /\ CountMatchesState /\ WaitMatchesAge

LEMMA BreakerStart == BreakerInit => BreakerInv
  BY BreakerTypeStart, BreakerAssumption
     DEF BreakerInit, BreakerInv, CountMatchesState, WaitMatchesAge

LEMMA BreakerStep == BreakerInv /\ [BreakerNext]_breakerVars => BreakerInv'
<1> SUFFICES ASSUME BreakerInv, [BreakerNext]_breakerVars PROVE BreakerInv'
  OBVIOUS
<1> USE BreakerAssumption DEF BreakerInv, CountMatchesState, WaitMatchesAge, BreakerTypeOK
<1>0. BreakerTypeOK'
  BY BreakerTypeStep
<1>1. ASSUME NEW k \in Calls, Begin(k)
      PROVE  CountMatchesState' /\ WaitMatchesAge'
  BY <1>1 DEF Begin, Admitted
<1>2. ASSUME NEW k \in Calls, Succeed(k)
      PROVE  CountMatchesState' /\ WaitMatchesAge'
  BY <1>2 DEF Succeed, Recovered
<1>3. ASSUME NEW k \in Calls, Retry(k)
      PROVE  CountMatchesState' /\ WaitMatchesAge'
  BY <1>3 DEF Retry
<1>4. ASSUME NEW k \in Calls, GiveUp(k)
      PROVE  CountMatchesState' /\ WaitMatchesAge'
  BY <1>4 DEF GiveUp, HandleFailure
<1>5. CASE ResetCircuit
  BY <1>5 DEF ResetCircuit
<1>6. CASE ClockTicks
  BY <1>6 DEF ClockTicks
<1>7. CASE UNCHANGED breakerVars
  BY <1>7 DEF breakerVars
<1>8. QED
  BY <1>0, <1>1, <1>2, <1>3, <1>4, <1>5, <1>6, <1>7 DEF BreakerNext

LEMMA BreakerCorrect == BreakerSpec => []BreakerInv
  BY BreakerStart, BreakerStep, PTL DEF BreakerSpec

\* The circuit is closed exactly while the count is below the threshold.
THEOREM CountCorrect == BreakerSpec => []CountMatchesState
<1>1. BreakerInv => CountMatchesState
  BY DEF BreakerInv
<1>2. QED
  BY <1>1, BreakerCorrect, PTL

\* An open circuit is probed only after resetTimeout without any failure.
THEOREM NoEarlyProbeCorrect == BreakerSpec => NoEarlyProbe
<1>1. BreakerInv /\ [BreakerNext]_breakerVars
        => [state = "OPEN" /\ state' = "HALF_OPEN" => age = ResetTimeout]_breakerVars
  <2> SUFFICES ASSUME BreakerInv, BreakerNext, state = "OPEN", state' = "HALF_OPEN"
               PROVE  age = ResetTimeout
    OBVIOUS
  <2>1. PICK k \in Calls : Begin(k)
    BY DEF BreakerNext, Succeed, Recovered, Retry, GiveUp, HandleFailure,
           ResetCircuit, ClockTicks
  <2>2. QED
    BY <2>1, BreakerAssumption DEF Begin, Admitted, BreakerInv, WaitMatchesAge, BreakerTypeOK
<1>2. QED
  BY <1>1, BreakerCorrect, PTL DEF BreakerSpec, NoEarlyProbe

\* One failure of any call reopens a circuit that is not closed.
THEOREM FailedProbeReopensCorrect == BreakerSpec => FailedProbeReopens
<1>1. BreakerInv /\ [BreakerNext]_breakerVars
        => [state # "CLOSED" /\ failureCount' > failureCount
              => state' = "OPEN" /\ wait' = ResetTimeout]_breakerVars
  <2> SUFFICES ASSUME BreakerInv, BreakerNext, state # "CLOSED",
                      failureCount' > failureCount
               PROVE  state' = "OPEN" /\ wait' = ResetTimeout
    OBVIOUS
  <2> USE BreakerAssumption DEF BreakerInv, BreakerTypeOK, CountMatchesState
  <2>1. PICK k \in Calls : GiveUp(k)
    BY DEF BreakerNext, Begin, Admitted, Succeed, Recovered, Retry, ResetCircuit, ClockTicks
  <2>2. QED
    BY <2>1 DEF GiveUp, HandleFailure
<1>2. QED
  BY <1>1, BreakerCorrect, PTL DEF BreakerSpec, FailedProbeReopens

\* No success closes a circuit within a resetTimeout of a failure: what resets the
\* count is the success of a call that ends while the circuit is half-open.
THEOREM OnlyQuietForgivesCorrect == BreakerSpec => OnlyQuietForgives
<1>1. BreakerInv /\ [BreakerNext]_breakerVars
        => [failureCount' < failureCount /\ resets' = resets
              => age = ResetTimeout]_breakerVars
  <2> SUFFICES ASSUME BreakerInv, BreakerNext, failureCount' < failureCount,
                      resets' = resets
               PROVE  age = ResetTimeout
    OBVIOUS
  <2> USE DEF BreakerInv, BreakerTypeOK
  <2>1. PICK k \in Calls : Succeed(k)
    BY DEF BreakerNext, Begin, Admitted, Retry, GiveUp, HandleFailure, ResetCircuit,
           ClockTicks
  <2>2. state = "HALF_OPEN"
    BY <2>1 DEF Succeed, Recovered
  <2>3. QED
    BY <2>2 DEF WaitMatchesAge
<1>2. QED
  BY <1>1, BreakerCorrect, PTL DEF BreakerSpec, OnlyQuietForgives

----------------------------------------------------------------------------
(* The quality loops.                                                      *)

\* The average of an attempt is a natural number.
LEMMA AverageNat ==
  ASSUME NEW l \in Loops, NEW a \in Attempts
  PROVE  Average[l][a] \in Nat
BY LoopAssumption

\* Ranking an attempt keeps the best one the best.
LEMMA RankKeepsBest ==
  ASSUME LoopTypeOK, BestSoFar, NEW a \in Attempts, Rank(a),
         tried' = tried \cup {a}, loop' = loop
  PROVE  /\ best' \in Attempts \cup {NoAttempt}
         /\ bestAverage' \in Nat \cup {-1}
         /\ BestSoFar'
<1>1. Average[loop][a] \in Nat
  BY AverageNat DEF LoopTypeOK
<1>2. CASE Average[loop][a] > bestAverage
  <2>1. best' = a /\ bestAverage' = Average[loop][a]
    BY <1>2 DEF Rank
  <2>2. best' # NoAttempt
    BY <2>1, LoopAssumption
  <2>3. \A b \in tried' : Average[loop'][b] <= bestAverage'
    <3>1. SUFFICES ASSUME NEW b \in tried PROVE Average[loop][b] <= Average[loop][a]
      BY <2>1, <1>1
    <3>2. Average[loop][b] \in Nat
      BY AverageNat DEF LoopTypeOK
    <3>3. Average[loop][b] <= bestAverage
      BY DEF BestSoFar
    <3> QED
      BY <3>2, <3>3, <1>1, <1>2 DEF LoopTypeOK
  <2> QED
    BY <2>1, <2>2, <2>3, <1>1 DEF BestSoFar
<1>3. CASE ~(Average[loop][a] > bestAverage)
  <2>1. best' = best /\ bestAverage' = bestAverage
    BY <1>3 DEF Rank
  <2>2. Average[loop][a] <= bestAverage
    BY <1>1, <1>3 DEF LoopTypeOK
  <2> QED
    BY <2>1, <2>2 DEF BestSoFar, LoopTypeOK, StartAverage, Outcome
<1> QED
  BY <1>2, <1>3

\* The invariant holds when a loop begins.
LEMMA LoopStart == LoopInit => LoopInv
<1> SUFFICES ASSUME LoopInit PROVE LoopInv
  OBVIOUS
<1>1. iteration \in 0 .. MaxIterations /\ iteration < MaxIterations
  BY LoopAssumption DEF LoopInit
<1>2. bestAverage \in Nat \cup {-1}
  BY DEF LoopInit, StartAverage
<1>3. LoopTypeOK
  BY <1>1, <1>2 DEF LoopInit, LoopTypeOK, Outcome
<1>4. BestSoFar
  BY DEF LoopInit, BestSoFar
<1>5. StillTrying /\ Settled
  BY <1>1 DEF LoopInit, StillTrying, Settled
<1> QED
  BY <1>3, <1>4, <1>5 DEF LoopInv

\* An exception leaves what has been tried and ranked as it is.
LEMMA ThrowStep == LoopInv /\ Throw => LoopInv'
<1> SUFFICES ASSUME LoopInv, Throw PROVE LoopInv'
  OBVIOUS
<1> QED
  BY LoopAssumption
     DEF LoopInv, Throw, LoopTypeOK, BestSoFar, StillTrying, Settled, StartAverage, Outcome

\* An iteration keeps the invariant, whether it ends the loop or not.
LEMMA TryStep ==
  ASSUME LoopInv, NEW a \in Attempts, Try(a)
  PROVE  LoopInv'
<1>1. /\ status = "running" /\ iteration' = iteration + 1
      /\ tried' = tried \cup {a} /\ Rank(a) /\ loop' = loop
  BY DEF Try
<1>2. /\ best' \in Attempts \cup {NoAttempt} /\ bestAverage' \in Nat \cup {-1}
      /\ BestSoFar'
  BY <1>1, RankKeepsBest DEF LoopInv
<1>3. iteration' \in 1 .. MaxIterations /\ tried' \subseteq Attempts /\ tried' # {}
  BY <1>1, LoopAssumption DEF LoopInv, LoopTypeOK, StillTrying
<1>4. CASE Stop(a)
  <2>1. LoopTypeOK'
    BY <1>1, <1>2, <1>3, <1>4 DEF Stop, Handed, LoopInv, LoopTypeOK, Outcome
  <2>2. Settled'
    <3>1. CASE a \in Passing
      BY <1>1, <1>4, <3>1 DEF Stop, Handed, Settled
    <3>2. CASE a \notin Passing
      <4>1. tried' \cap Passing = {}
        BY <1>1, <3>2 DEF LoopInv, StillTrying
      <4> QED
        BY <1>3, <1>4, <3>2, <4>1 DEF Stop, Settled
    <3> QED
      BY <3>1, <3>2
  <2> QED
    BY <1>2, <1>4, <2>1, <2>2 DEF LoopInv, Stop, StillTrying
<1>5. CASE Continue(a)
  <2>1. status' = "running" /\ tried' \cap Passing = {} /\ iteration' < MaxIterations
    BY <1>1, <1>5 DEF Continue, LoopInv, StillTrying
  <2>2. LoopTypeOK'
    BY <1>1, <1>2, <1>3, <1>5 DEF Continue, LoopInv, LoopTypeOK, Outcome
  <2> QED
    BY <1>2, <1>3, <2>1, <2>2 DEF LoopInv, StillTrying, Settled
<1> QED
  BY <1>4, <1>5 DEF Try

\* What is tried, ranked and handed over stays consistent in every loop.
THEOREM LoopCorrect == LoopSpec => []LoopInv
<1>1. LoopInit => LoopInv
  BY LoopStart
<1>2. LoopInv /\ [LoopNext]_loopVars => LoopInv'
  <2> SUFFICES ASSUME LoopInv, [LoopNext]_loopVars PROVE LoopInv'
    OBVIOUS
  <2>1. CASE LoopNext
    BY <2>1, ThrowStep, TryStep DEF LoopNext
  <2>2. CASE UNCHANGED loopVars
    BY <2>2 DEF loopVars, LoopInv, LoopTypeOK, BestSoFar, StillTrying, Settled, StartAverage
  <2> QED
    BY <2>1, <2>2
<1> QED
  BY <1>1, <1>2, PTL DEF LoopSpec

\* A warning is a last resort, in all three loops.
THEOREM WarningIsLastResort == LoopSpec => []ExhaustedWhenWarned
<1>1. LoopInv => ExhaustedWhenWarned
  BY DEF LoopInv, Settled, ExhaustedWhenWarned
<1> QED
  BY <1>1, LoopCorrect, PTL

\* Content that carries the warning is the best attempt, in all three loops.
THEOREM WarnedIsBest == LoopSpec => []BestWhenWarned
<1>1. LoopInv => BestWhenWarned
  <2> SUFFICES ASSUME LoopInv, status = "done", warning,
                      NEW b \in tried, Average[loop][b] > 0
               PROVE  /\ delivered \in tried
                      /\ \A a \in tried : Average[loop][a] <= Average[loop][delivered]
    BY DEF BestWhenWarned
  <2>1. delivered = best /\ b \in Attempts
    BY DEF LoopInv, Settled, LoopTypeOK
  <2>2. Average[loop][b] \in Nat /\ Average[loop][b] <= bestAverage
    BY <2>1, AverageNat DEF LoopInv, LoopTypeOK, BestSoFar
  <2>3. best # NoAttempt
    BY <2>2 DEF LoopInv, LoopTypeOK, BestSoFar, StartAverage
  <2> QED
    BY <2>1, <2>3 DEF LoopInv, BestSoFar
<1> QED
  BY <1>1, LoopCorrect, PTL

\* The campaign loop never hands over failing content without the warning.
THEOREM CampaignContract == LoopSpec => []CampaignWarnedOrPassing
<1>1. LoopInv => CampaignWarnedOrPassing
  BY DEF LoopInv, LoopTypeOK, Settled, WarnedOrPassing, CampaignWarnedOrPassing
<1> QED
  BY <1>1, LoopCorrect, PTL

----------------------------------------------------------------------------
(* Mails and deliveries: the inductive invariant.                          *)

MailType == [st : {"none", "queued", "sent", "dropped"}, tries : 0 .. MaxTries - 1, wait : Nat,
             calls : Nat, stalls : 0 .. 1, late : BOOLEAN]

MailTypes ==
  /\ mail \in [Mails -> MailType]
  /\ breaker \in [fails : 0 .. Threshold, open : BOOLEAN, wait : 0 .. HalfOpenAfter]
  /\ breaker.open => breaker.fails = Threshold
  /\ ~breaker.open => breaker.wait = 0
  /\ up \in BOOLEAN /\ faults \in 0 .. MaxFaults

\* Calls to the provider are paid for by attempts and stops of the worker.
Mailed(rec) ==
  /\ rec.st = "none" => rec = NoMail
  /\ rec.st = "queued"  => rec.calls <= rec.tries + rec.stalls
  /\ rec.st = "dropped" => rec.calls <= MaxTries + rec.stalls

\* As long as nothing has opened the breaker again it has to wait no longer than the
\* attempts still to come take: that is what is left of the time to wait.
Patient(rec, left) ==
  rec.calls = 0 /\ rec.stalls = 0 /\ ~rec.late =>
    /\ rec.st # "dropped"
    /\ rec.st = "queued" /\ rec.tries > 0 =>
         left <= rec.wait + Starts[MaxTries] - Starts[rec.tries + 1]

OnItsWay(rec, left) == Mailed(rec) /\ Patient(rec, left)

MailsInv == MailTypes /\ \A m \in Mails : OnItsWay(mail[m], breaker.wait)

Records == [live : BOOLEAN, data : {"none", "ended", "analyzed"}, by : {"none", "webhook", "sync"}]
HookType == [pc : {"new", "write", "emit", "ok", "failed"}, row : Rows \union {None}]
SyncType == [pc : {"new", "fetched", "write", "done"}, row : Rows \union {None},
             data : {"none", "ended", "analyzed"}, behind : BOOLEAN]

RecordTypes ==
  /\ call \in {"none", "ended", "analyzed"}
  /\ row \in [Rows -> Records] /\ hook \in [1 .. Deliveries -> HookType] /\ sync \in SyncType
  /\ admin \in 0 .. MaxAdmin /\ lost \subseteq Rows /\ address \in BOOLEAN

\* A record is there once it has data, and one at most is not deleted; what a
\* delivery or a synchronisation has found is there.
RecordsInv ==
  /\ \A r \in Rows : row[r].data = "none" => row[r] = NoRow
  /\ \A r, s \in Rows : row[r].live /\ row[s].live => r = s
  /\ \A d \in 1 .. Deliveries : hook[d].row # None => row[hook[d].row].data # "none"
  /\ sync.row # None => row[sync.row].data # "none"
  /\ sync.pc \in {"fetched", "write"} => sync.data # "none"

\* A delivery about to tell of the record it has inserted.
Emits(d, r) == hook[d].pc = "emit" /\ hook[d].row = r

NewsInv ==
  /\ \A r \in Rows : mail[r].st # "none" => row[r].by = "webhook"
  /\ \A r \in Rows : row[r].by = "webhook" /\ mail[r].st = "none" =>
       r \in lost \/ \E d \in 1 .. Deliveries : Emits(d, r)
  /\ \A d \in 1 .. Deliveries : hook[d].pc = "emit" =>
       hook[d].row # None /\ row[hook[d].row].by = "webhook" /\ mail[hook[d].row].st = "none"
  /\ \A d, e \in 1 .. Deliveries, r \in Rows : Emits(d, r) /\ Emits(e, r) => d = e

\* An older image is on its way only while nothing newer is on record, or noted.
AnalysesInv ==
  /\ \A r \in Rows : row[r].data = "analyzed" => call = "analyzed"
  /\ sync.data = "analyzed" => call = "analyzed"
  /\ \A d \in 1 .. Deliveries : hook[d].pc # "new" => call = "analyzed"
  /\ sync.pc \in {"fetched", "write"} /\ sync.data # "analyzed"
       /\ (\E r \in Rows : row[r].data = "analyzed") => sync.behind
  /\ \A d \in 1 .. Deliveries :
       hook[d].pc \in {"emit", "ok"} =>
         hook[d].row # None /\ (row[hook[d].row].data = "analyzed" \/ sync.behind)

IngestInv == MailsInv /\ RecordTypes /\ RecordsInv /\ NewsInv /\ AnalysesInv


----------------------------------------------------------------------------
(* The mails.                                                              *)

LEMMA StartsOrdered ==
  /\ MaxTries \in Nat /\ MaxTries >= 1 /\ Starts[1] = 0
  /\ \A i \in 1 .. MaxTries : Starts[i] \in Nat
  /\ \A i, j \in 1 .. MaxTries : i < j => Starts[i] < Starts[j]
  BY MailQueueAssumption DEF MaxTries

\* What a failed attempt makes of a job.
Retried(rec) ==
  IF rec.tries + 1 = MaxTries
  THEN [rec EXCEPT !.st = "dropped", !.tries = 0]
  ELSE [rec EXCEPT !.st = "queued", !.tries = rec.tries + 1,
                   !.wait = Starts[rec.tries + 2] - Starts[rec.tries + 1]]

LEMMA FailedIs ==
  ASSUME NEW old \in [Mails -> MailType], NEW m \in Mails
  PROVE  Failed(m, old) = [old EXCEPT ![m] = Retried(old[m])]
<1> DEFINE n == old[m].tries
<1>1. n \in Nat
  BY StartsOrdered DEF MailType
<1>2. n + 1 + 1 = n + 2
  BY <1>1
<1>3. CASE n + 1 = MaxTries
  BY <1>3 DEF Failed, Retried, MailType
<1>4. CASE n + 1 # MaxTries
  BY <1>2, <1>4 DEF Failed, Retried, MailType
<1>5. QED
  BY <1>3, <1>4

\* A failed attempt keeps the type, and what has been paid for.
LEMMA RetriedType ==
  ASSUME NEW rec \in MailType
  PROVE  /\ Retried(rec) \in MailType /\ Retried(rec).st \in {"queued", "dropped"}
         /\ Retried(rec).calls = rec.calls /\ Retried(rec).stalls = rec.stalls
         /\ Retried(rec).late = rec.late
<1>1. CASE rec.tries + 1 = MaxTries
  <2>1. 0 \in 0 .. MaxTries - 1
    BY StartsOrdered
  <2>2. Retried(rec) = [rec EXCEPT !.st = "dropped", !.tries = 0]
    BY <1>1 DEF Retried
  <2>3. QED
    BY <2>1, <2>2 DEF MailType
<1>2. CASE rec.tries + 1 # MaxTries
  <2> DEFINE n == rec.tries
  <2>1. n \in Nat /\ n + 2 \in 1 .. MaxTries /\ n + 1 \in 1 .. MaxTries /\ n + 1 < n + 2
    BY <1>2, StartsOrdered DEF MailType
  <2>2. Starts[n + 2] - Starts[n + 1] \in Nat
    BY <2>1, StartsOrdered
  <2>3. n + 1 \in 0 .. MaxTries - 1
    BY <2>1, StartsOrdered
  <2>4. QED
    BY <1>2, <2>2, <2>3 DEF Retried, MailType
<1>3. QED
  BY <1>1, <1>2

\* What is called for with the attempt stays paid for.
LEMMA RetriedPaid ==
  ASSUME NEW rec \in MailType, rec.calls <= rec.tries + 1 + rec.stalls
  PROVE  Mailed(Retried(rec))
<1> USE StartsOrdered
<1>1. CASE rec.tries + 1 = MaxTries
  BY <1>1 DEF Retried, MailType, Mailed
<1>2. CASE rec.tries + 1 # MaxTries
  BY <1>2 DEF Retried, MailType, Mailed
<1>3. QED
  BY <1>1, <1>2

\* An attempt that did not call leaves the rest of the attempts time enough.
LEMMA RetriedPatient ==
  ASSUME NEW rec \in MailType, NEW left \in Nat, left > 0, rec.wait = 0, rec.st = "queued",
         rec.tries > 0 => Patient(rec, left),
         rec.tries = 0 /\ ~rec.late => left <= Starts[MaxTries]
  PROVE  Patient(Retried(rec), left)
<1> DEFINE n == rec.tries
<1> SUFFICES ASSUME rec.calls = 0, rec.stalls = 0, ~rec.late
             PROVE  /\ Retried(rec).st # "dropped"
                    /\ left <= Retried(rec).wait + Starts[MaxTries] - Starts[Retried(rec).tries + 1]
  BY RetriedType DEF Patient
<1>1. n \in Nat /\ n + 1 \in 1 .. MaxTries /\ Starts[n + 1] \in Nat /\ Starts[MaxTries] \in Nat
  BY StartsOrdered DEF MailType
<1>2. left <= Starts[MaxTries] - Starts[n + 1]
  <2>1. CASE n = 0
    BY <2>1, <1>1, StartsOrdered
  <2>2. CASE n > 0
    BY <2>2, <1>1 DEF Patient
  <2>3. QED
    BY <1>1, <2>1, <2>2
<1>3. n + 1 # MaxTries
  BY <1>1, <1>2
<1>4. n + 2 \in 1 .. MaxTries /\ Starts[n + 2] \in Nat
  BY <1>1, <1>3, StartsOrdered
<1>5. Retried(rec).st = "queued" /\ Retried(rec).tries = n + 1
      /\ Retried(rec).wait = Starts[n + 2] - Starts[n + 1]
  BY <1>3 DEF Retried, MailType
<1>6. Retried(rec).tries + 1 = n + 2
  BY <1>1, <1>5
<1>7. QED
  BY <1>1, <1>2, <1>4, <1>5, <1>6

\* What the worker may find, of a mail and of its breaker.
LEMMA MailFacts ==
  ASSUME MailsInv, NEW m \in Mails
  PROVE  /\ mail[m] \in MailType /\ OnItsWay(mail[m], breaker.wait)
         /\ breaker.wait \in Nat /\ breaker.open \in BOOLEAN
         /\ breaker.fails \in 0 .. Threshold
  BY MailQueueAssumption DEF MailsInv, MailTypes

\* The breaker after a failure: where it does not open it did not wait.
LEMMA WorseBreaker ==
  ASSUME MailTypes
  PROVE  /\ Worse \in [fails : 0 .. Threshold, open : BOOLEAN, wait : 0 .. HalfOpenAfter]
         /\ Worse.open => Worse.fails = Threshold
         /\ ~Worse.open => Worse.wait = 0 /\ breaker.wait = 0
<1> DEFINE fails == IF breaker.fails < Threshold THEN breaker.fails + 1 ELSE Threshold
<1> USE MailQueueAssumption DEF MailTypes
<1>1. fails \in 0 .. Threshold
  OBVIOUS
<1>2. CASE breaker.open \/ fails = Threshold
  <2>1. Worse = [fails |-> fails, open |-> TRUE, wait |-> HalfOpenAfter]
    BY <1>2 DEF Worse
  <2>2. fails = Threshold
    BY <1>2
  <2> HIDE DEF fails
  <2>3. QED
    BY <1>1, <2>1, <2>2
<1>3. CASE ~(breaker.open \/ fails = Threshold)
  <2>1. Worse = [breaker EXCEPT !.fails = fails]
    BY <1>3 DEF Worse
  <2> HIDE DEF fails
  <2>2. QED
    BY <1>1, <1>3, <2>1
<1>4. QED
  BY <1>2, <1>3

\* The breaker closed, or left alone: no mail is worse off.
LEMMA LessToWait ==
  ASSUME NEW rec \in MailType, NEW left \in Nat, NEW less \in Nat, less <= left,
         OnItsWay(rec, left)
  PROVE  OnItsWay(rec, less)
<1>1. CASE rec.tries > 0
  <2>1. Starts[MaxTries] - Starts[rec.tries + 1] \in Int
    BY StartsOrdered DEF MailType
  <2>2. QED
    BY <2>1 DEF OnItsWay, Patient, MailType
<1>2. CASE ~(rec.tries > 0)
  BY <1>2 DEF OnItsWay, Patient
<1>3. QED
  BY <1>1, <1>2

LEMMA NothingToWait ==
  ASSUME NEW rec \in MailType, Mailed(rec),
         rec.calls = 0 /\ rec.stalls = 0 /\ ~rec.late => rec.st # "dropped"
  PROVE  OnItsWay(rec, 0)
<1>1. CASE rec.tries > 0
  <2> DEFINE n == rec.tries + 1
  <2>1. n \in 1 .. MaxTries /\ MaxTries \in 1 .. MaxTries /\ Starts[n] \in Nat /\ Starts[MaxTries] \in Nat
    BY StartsOrdered DEF MailType
  <2>2. Starts[n] <= Starts[MaxTries]
    BY <2>1, StartsOrdered
  <2> HIDE DEF n
  <2>3. rec.wait \in Nat
    BY DEF MailType
  <2>4. 0 <= rec.wait + Starts[MaxTries] - Starts[n]
    BY <2>1, <2>2, <2>3
  <2>5. QED
    BY <2>4 DEF n, OnItsWay, Patient
<1>2. CASE ~(rec.tries > 0)
  BY <1>2 DEF OnItsWay, Patient
<1>3. QED
  BY <1>1, <1>2

----------------------------------------------------------------------------

LEMMA ClosedType ==
  /\ Closed \in [fails : 0 .. Threshold, open : BOOLEAN, wait : 0 .. HalfOpenAfter]
  /\ Closed.wait = 0 /\ Closed.open = FALSE
  /\ 0 \in 0 .. MaxFaults
<1>1. 0 \in 0 .. Threshold /\ 0 \in 0 .. HalfOpenAfter
  BY MailQueueAssumption
<1>2. QED
  BY <1>1, MailQueueAssumption DEF Closed

LEMMA NoMailType ==
  /\ NoMail \in MailType /\ Mailed(NoMail)
  /\ \A st \in {"queued", "sent"} : [NoMail EXCEPT !.st = st] \in MailType
<1>1. 0 \in 0 .. MaxTries - 1
  BY StartsOrdered
<1>2. NoMail \in MailType
  BY <1>1, StartsOrdered DEF NoMail, MailType
<1>3. QED
  BY <1>2 DEF MailType, NoMail, Mailed

LEMMA MailsStart == Init => MailsInv
<1> SUFFICES ASSUME Init PROVE MailsInv
  OBVIOUS
<1> USE DEF Init, MailInit
<1>1. NoMail \in MailType /\ [NoMail EXCEPT !.st = "queued"] \in MailType
  BY NoMailType
<1>2. \A m \in Mails : mail[m] \in MailType
                       /\ mail[m] \in {NoMail, [NoMail EXCEPT !.st = "queued"]}
  BY <1>1
<1>3. \A m \in Mails : OnItsWay(mail[m], breaker.wait)
  BY <1>2, StartsOrdered DEF OnItsWay, Mailed, Patient, NoMail, Closed
<1>4. MailTypes
  <2>1. mail \in [Mails -> MailType]
    BY <1>2
  <2>2. QED
    BY <2>1, ClosedType DEF MailTypes
<1>5. QED
  BY <1>3, <1>4 DEF MailsInv

\* Retell's side leaves the mails alone.
LEMMA MailsStay == MailsInv /\ UNCHANGED mailVars => MailsInv'
  BY DEF MailsInv, MailTypes, mailVars, OnItsWay, Mailed, Patient

LEMMA MailsShortCircuit ==
  ASSUME MailsInv, NEW m \in Mails, ShortCircuit(m)
  PROVE  MailsInv' /\ \A k \in Mails : mail'[k].st = "none" <=> mail[k].st = "none"
<1> DEFINE old == Noted(m)
<1>1. /\ IsDue(m) /\ breaker.open /\ breaker.wait > 0
      /\ mail' = Failed(m, old) /\ UNCHANGED <<breaker, up, faults>>
  BY DEF ShortCircuit
<1>2. mail \in [Mails -> MailType]
  BY DEF MailsInv, MailTypes
<1>3. /\ old \in [Mails -> MailType]
      /\ \A k \in Mails \ {m} : old[k] = mail[k]
      /\ old[m].tries = mail[m].tries /\ old[m].wait = 0 /\ old[m].st = "queued"
      /\ old[m].calls = mail[m].calls /\ old[m].stalls = mail[m].stalls
      /\ old[m].tries = 0 /\ ~old[m].late => breaker.wait <= Starts[MaxTries]
      /\ old[m].tries > 0 => old[m] = mail[m]
  <2>1. CASE mail[m].tries = 0
    <3> DEFINE late == breaker.wait > Starts[MaxTries]
    <3>1. old = [mail EXCEPT ![m].late = late]
      BY <2>1 DEF Noted
    <3>2. late \in BOOLEAN /\ (~late => breaker.wait <= Starts[MaxTries])
      <4>1. breaker.wait \in Nat /\ Starts[MaxTries] \in Nat
        BY MailFacts, StartsOrdered
      <4>2. QED
        BY <4>1
    <3>3. mail[m].st = "queued" /\ mail[m].wait = 0
      BY <1>1 DEF IsDue
    <3> HIDE DEF late
    <3>4. old[m] = [mail[m] EXCEPT !.late = late] /\ mail[m] \in MailType
      BY <3>1, <1>2
    <3>5. old[m] \in MailType /\ old[m].late = late
      BY <3>2, <3>4 DEF MailType
    <3> HIDE DEF old
    <3>6. old \in [Mails -> MailType] /\ \A k \in Mails \ {m} : old[k] = mail[k]
      BY <3>1, <3>4, <3>5, <1>2
    <3>7. QED
      BY <2>1, <3>2, <3>3, <3>4, <3>5, <3>6 DEF MailType
  <2>2. CASE mail[m].tries # 0
    BY <2>2, <1>1, <1>2 DEF Noted, IsDue
  <2>3. QED
    BY <2>1, <2>2
<1> HIDE DEF old
<1>4. mail' = [old EXCEPT ![m] = Retried(old[m])]
  BY <1>1, <1>3, FailedIs
<1>5. breaker.wait \in Nat /\ OnItsWay(mail[m], breaker.wait)
  BY MailFacts
<1>6. Patient(Retried(old[m]), breaker.wait)
  <2>1. old[m].tries > 0 => Patient(old[m], breaker.wait)
    BY <1>3, <1>5 DEF OnItsWay
  <2>2. old[m] \in MailType
    BY <1>3
  <2>3. QED
    BY <1>1, <1>3, <1>5, <2>1, <2>2, RetriedPatient
<1>7. Mailed(Retried(old[m])) /\ Retried(old[m]) \in MailType
      /\ Retried(old[m]).st # "none"
  <2>1. old[m].calls <= old[m].tries + 1 + old[m].stalls
    BY <1>1, <1>3, <1>5 DEF OnItsWay, Mailed, IsDue, MailType
  <2>2. QED
    BY <1>3, <2>1, RetriedPaid, RetriedType
<1>8. \A k \in Mails : mail'[k] \in MailType /\ OnItsWay(mail'[k], breaker'.wait)
  BY <1>1, <1>3, <1>4, <1>6, <1>7, MailFacts DEF OnItsWay
<1>9. mail' \in [Mails -> MailType]
  BY <1>3, <1>4, <1>7
<1>10. MailsInv'
  BY <1>1, <1>8, <1>9 DEF MailsInv, MailTypes
<1>11. QED
  BY <1>1, <1>3, <1>4, <1>7, <1>10 DEF IsDue

LEMMA CalledType ==
  ASSUME NEW rec \in MailType, NEW late \in BOOLEAN, NEW new,
         new = [rec EXCEPT !.calls = rec.calls + 1, !.late = late]
  PROVE  /\ new \in MailType /\ new.calls = rec.calls + 1 /\ new.tries = rec.tries
         /\ new.stalls = rec.stalls
<1>1. rec.calls + 1 \in Nat
  BY DEF MailType
<1> DEFINE n == rec.calls + 1
<1> HIDE DEF n
<1>2. new = [rec EXCEPT !.calls = n, !.late = late] /\ n \in Nat
  BY <1>1 DEF n
<1>3. new \in MailType /\ new.calls = n /\ new.tries = rec.tries /\ new.stalls = rec.stalls
  BY <1>2 DEF MailType
<1>4. QED
  BY <1>3 DEF n

LEMMA MailsAccept ==
  ASSUME MailsInv, NEW m \in Mails, Accept(m)
  PROVE  MailsInv' /\ \A k \in Mails : mail'[k].st = "none" <=> mail[k].st = "none"
<1> DEFINE sent == [NoMail EXCEPT !.st = "sent"]
<1>1. /\ mail[m].st = "queued" /\ mail' = [mail EXCEPT ![m] = sent] /\ breaker' = Closed
      /\ UNCHANGED <<up, faults>>
  BY DEF Accept, LetThrough, IsDue
<1>2. mail \in [Mails -> MailType]
  BY DEF MailsInv, MailTypes
<1>3. sent \in MailType /\ OnItsWay(sent, 0) /\ sent.st = "sent"
  <2>1. sent \in MailType
    BY NoMailType
  <2>2. QED
    BY <2>1 DEF NoMail, OnItsWay, Mailed, Patient
<1> HIDE DEF sent
<1>4. \A k \in Mails : OnItsWay(mail[k], 0)
  BY MailFacts, LessToWait
<1>5. \A k \in Mails : mail'[k] = IF k = m THEN sent ELSE mail[k]
  BY <1>1, <1>2
<1>6. breaker'.wait = 0
  BY <1>1 DEF Closed
<1>7. \A k \in Mails : OnItsWay(mail'[k], breaker'.wait)
  BY <1>3, <1>4, <1>5, <1>6
<1>8. MailTypes'
  <2>1. mail' \in [Mails -> MailType]
    BY <1>1, <1>2, <1>3
  <2>2. QED
    BY <1>1, <2>1, ClosedType DEF MailsInv, MailTypes
<1>9. QED
  BY <1>1, <1>3, <1>5, <1>7, <1>8 DEF MailsInv

LEMMA MailsRefuse ==
  ASSUME MailsInv, NEW m \in Mails, Refuse(m)
  PROVE  MailsInv' /\ \A k \in Mails : mail'[k].st = "none" <=> mail[k].st = "none"
<1> DEFINE called == [k \in Mails |->
                        [Noted(m)[k] EXCEPT !.calls = IF k = m THEN @ + 1 ELSE @,
                                            !.late = @ \/ (mail[k].st = "queued" /\ Worse.open)]]
<1>1. /\ IsDue(m) /\ breaker' = Worse /\ mail' = Failed(m, called) /\ UNCHANGED <<up, faults>>
  BY DEF Refuse, LetThrough
<1>2. mail \in [Mails -> MailType] /\ breaker.wait \in Nat
  BY MailQueueAssumption DEF MailsInv, MailTypes
<1>3. /\ Worse \in [fails : 0 .. Threshold, open : BOOLEAN, wait : 0 .. HalfOpenAfter]
      /\ Worse.open => Worse.fails = Threshold
      /\ ~Worse.open => Worse.wait = 0 /\ breaker.wait = 0
  BY WorseBreaker DEF MailsInv
\* What the call makes of the mail it is for, and of another one.
<1>4. PICK note \in BOOLEAN : Noted(m) = [mail EXCEPT ![m].late = note]
  <2>1. (breaker.wait > Starts[MaxTries]) \in BOOLEAN
    BY <1>2, StartsOrdered
  <2>2. mail = [mail EXCEPT ![m].late = mail[m].late] /\ mail[m].late \in BOOLEAN
    BY <1>2 DEF MailType
  <2>3. QED
    BY <2>1, <2>2 DEF Noted
<1>5. called[m] \in MailType /\ called[m].tries = mail[m].tries
      /\ called[m].stalls = mail[m].stalls /\ called[m].calls = mail[m].calls + 1
  <2> DEFINE late == note \/ (mail[m].st = "queued" /\ Worse.open)
  <2>1. Noted(m)[m] = [mail[m] EXCEPT !.late = note] /\ mail[m] \in MailType
    BY <1>2, <1>4
  <2>2. called[m] = [[mail[m] EXCEPT !.late = note]
                      EXCEPT !.calls = @ + 1, !.late = @ \/ (mail[m].st = "queued" /\ Worse.open)]
    BY <2>1
  <2> HIDE DEF called
  <2>3. called[m] = [mail[m] EXCEPT !.calls = mail[m].calls + 1, !.late = late]
    BY <2>1, <2>2 DEF MailType
  <2>4. late \in BOOLEAN
    OBVIOUS
  <2> HIDE DEF late
  <2>5. QED
    <3> DEFINE rec == mail[m]
               new == called[m]
    <3>1. rec \in MailType /\ new = [rec EXCEPT !.calls = rec.calls + 1, !.late = late]
      BY <2>1, <2>3
    <3> HIDE DEF rec, new
    <3>2. /\ new \in MailType /\ new.calls = rec.calls + 1 /\ new.tries = rec.tries
          /\ new.stalls = rec.stalls
      BY <3>1, <2>4, CalledType
    <3>3. QED
      BY <3>2 DEF rec, new
<1>6. ASSUME NEW k \in Mails, k # m
      PROVE  /\ called[k] \in MailType /\ OnItsWay(called[k], Worse.wait)
             /\ called[k].st = mail[k].st
  <2> DEFINE late == mail[k].late \/ (mail[k].st = "queued" /\ Worse.open)
  <2>1. Noted(m)[k] = mail[k] /\ mail[k] \in MailType /\ OnItsWay(mail[k], breaker.wait)
    BY <1>2, <1>4, <1>6, MailFacts
  <2>2. called[k] = [mail[k] EXCEPT !.calls = @, !.late = @ \/ (mail[k].st = "queued" /\ Worse.open)]
    BY <2>1, <1>6
  <2> HIDE DEF called
  <2>3. called[k] = [mail[k] EXCEPT !.late = late]
    BY <2>1, <2>2 DEF MailType
  <2>4. late \in BOOLEAN /\ (~late => ~mail[k].late /\ (mail[k].st = "queued" => ~Worse.open))
    BY <2>1 DEF MailType
  <2> HIDE DEF late
  <2>5. called[k] \in MailType /\ called[k].st = mail[k].st /\ called[k].late = late
        /\ called[k].calls = mail[k].calls /\ called[k].tries = mail[k].tries
        /\ called[k].stalls = mail[k].stalls /\ called[k].wait = mail[k].wait
    BY <2>1, <2>3, <2>4 DEF MailType
  <2>6. Mailed(called[k])
    <3>1. CASE mail[k].st = "none"
      <4>1. mail[k] = NoMail /\ mail[k].late = FALSE
        BY <2>1, <3>1 DEF OnItsWay, Mailed, NoMail
      <4>2. late = FALSE
        BY <3>1, <4>1 DEF late
      <4>3. called[k] = mail[k]
        BY <2>1, <2>3, <4>1, <4>2 DEF MailType
      <4>4. QED
        BY <2>1, <4>3 DEF OnItsWay
    <3>2. CASE mail[k].st # "none"
      BY <2>1, <2>5, <3>2 DEF OnItsWay, Mailed
    <3>3. QED
      BY <3>1, <3>2
  <2>7. Patient(called[k], Worse.wait)
    <3>1. CASE called[k].calls = 0 /\ called[k].stalls = 0 /\ ~called[k].late
      <4>1. mail[k].calls = 0 /\ mail[k].stalls = 0 /\ ~mail[k].late
            /\ (mail[k].st = "queued" => ~Worse.open)
        BY <2>4, <2>5, <3>1
      <4>2. mail[k].st # "dropped"
        BY <2>1, <4>1 DEF OnItsWay, Patient
      <4>3. CASE mail[k].st = "queued"
        <5>1. Worse.wait = breaker.wait
          BY <1>3, <4>1, <4>3
        <5>2. QED
          BY <2>1, <2>5, <4>1, <4>2, <5>1 DEF OnItsWay, Patient
      <4>4. CASE mail[k].st # "queued"
        BY <2>5, <4>2, <4>4 DEF Patient
      <4>5. QED
        BY <4>3, <4>4
    <3>2. QED
      BY <3>1 DEF Patient
  <2>8. QED
    BY <2>5, <2>6, <2>7 DEF OnItsWay
<1>7. called \in [Mails -> MailType]
  <2>1. \A k \in Mails : called[k] \in MailType
    BY <1>5, <1>6
  <2>2. QED
    BY <2>1
<1> HIDE DEF called
<1>8. mail' = [called EXCEPT ![m] = Retried(called[m])]
  BY <1>1, <1>7, FailedIs
<1>9. /\ Retried(called[m]) \in MailType /\ Retried(called[m]).st # "none"
      /\ OnItsWay(Retried(called[m]), Worse.wait)
  <2>1. called[m].calls <= called[m].tries + 1 + called[m].stalls
    BY <1>1, <1>5, MailFacts DEF OnItsWay, Mailed, IsDue, MailType
  <2>2. Retried(called[m]).calls # 0
    BY <1>2, <1>5, RetriedType DEF MailType
  <2>3. QED
    BY <1>5, <2>1, <2>2, RetriedPaid, RetriedType DEF OnItsWay, Patient
<1>10. \A k \in Mails : mail'[k] = IF k = m THEN Retried(called[m]) ELSE called[k]
  BY <1>7, <1>8
<1>11. mail' \in [Mails -> MailType]
  BY <1>7, <1>8, <1>9
<1>12. \A k \in Mails : OnItsWay(mail'[k], breaker'.wait)
  BY <1>1, <1>6, <1>9, <1>10
<1>13. MailsInv'
  <2>1. MailTypes'
    BY <1>1, <1>3, <1>11 DEF MailsInv, MailTypes
  <2>2. QED
    BY <1>12, <2>1 DEF MailsInv
<1>14. QED
  BY <1>1, <1>6, <1>9, <1>10, <1>13 DEF IsDue

LEMMA MailsTick ==
  ASSUME MailsInv, Tick
  PROVE  MailsInv' /\ \A k \in Mails : mail'[k].st = "none" <=> mail[k].st = "none"
<1>1. /\ breaker' = [breaker EXCEPT !.wait = Less(@)]
      /\ mail' = [m \in Mails |-> [mail[m] EXCEPT !.wait = Less(@)]]
      /\ UNCHANGED <<up, faults>>
  BY DEF Tick
<1>2. /\ breaker' \in [fails : 0 .. Threshold, open : BOOLEAN, wait : 0 .. HalfOpenAfter]
      /\ breaker'.wait = Less(breaker.wait)
      /\ breaker'.open => breaker'.fails = Threshold
      /\ ~breaker'.open => breaker'.wait = 0
  <2>1. breaker \in [fails : 0 .. Threshold, open : BOOLEAN, wait : 0 .. HalfOpenAfter]
        /\ (breaker.open => breaker.fails = Threshold)
        /\ (~breaker.open => breaker.wait = 0)
    BY DEF MailsInv, MailTypes
  <2>2. Less(breaker.wait) \in 0 .. HalfOpenAfter /\ (breaker.wait = 0 => Less(breaker.wait) = 0)
    BY <2>1, MailQueueAssumption DEF Less
  <2> DEFINE left == Less(breaker.wait)
  <2> HIDE DEF left
  <2>3. breaker' = [breaker EXCEPT !.wait = left]
    BY <1>1, <2>1 DEF left
  <2>4. QED
    BY <2>1, <2>2, <2>3 DEF left
<1>3. ASSUME NEW k \in Mails
      PROVE  /\ mail'[k] \in MailType /\ OnItsWay(mail'[k], breaker'.wait)
             /\ mail'[k].st = mail[k].st
  <2> PICK rec \in MailType : rec = mail[k]
    BY MailFacts
  <2> PICK left \in Nat : left = breaker.wait
    BY MailFacts
  <2>1. mail'[k] = [rec EXCEPT !.wait = Less(rec.wait)]
    BY <1>1
  <2>2. OnItsWay(rec, left)
    BY MailFacts
  <2>3. Less(rec.wait) \in Nat /\ Less(left) \in Nat
    BY DEF Less, MailType
  <2> DEFINE shorter == Less(rec.wait)
  <2> HIDE DEF shorter
  <2>4. mail'[k] = [rec EXCEPT !.wait = shorter]
    BY <2>1 DEF shorter
  <2>5. mail'[k] \in MailType /\ mail'[k].st = rec.st /\ mail'[k].calls = rec.calls
        /\ mail'[k].tries = rec.tries /\ mail'[k].stalls = rec.stalls
        /\ mail'[k].late = rec.late /\ mail'[k].wait = shorter
    BY <2>3, <2>4 DEF MailType, shorter
  <2>6. Mailed(mail'[k])
    <3>1. CASE rec.st = "none"
      <4>1. rec = NoMail
        BY <2>2, <3>1 DEF OnItsWay, Mailed
      <4>2. shorter = 0
        BY <4>1 DEF shorter, Less, NoMail
      <4>3. mail'[k] = rec
        BY <2>4, <4>1, <4>2 DEF NoMail
      <4>4. QED
        BY <4>1, <4>3, NoMailType
    <3>2. CASE rec.st # "none"
      BY <2>2, <2>5, <3>2 DEF OnItsWay, Mailed
    <3>3. QED
      BY <3>1, <3>2
  <2>7. Patient(mail'[k], Less(left))
    <3>1. CASE rec.tries > 0
      <4> DEFINE n == rec.tries + 1
      <4>1. n \in 1 .. MaxTries /\ MaxTries \in 1 .. MaxTries
            /\ Starts[n] \in Nat /\ Starts[MaxTries] \in Nat
        BY StartsOrdered DEF MailType
      <4>2. Starts[n] <= Starts[MaxTries]
        BY <4>1, StartsOrdered
      <4>3. rec.wait \in Nat
        BY DEF MailType
      <4> HIDE DEF n
      <4>4. left <= rec.wait + Starts[MaxTries] - Starts[n]
              => Less(left) <= shorter + Starts[MaxTries] - Starts[n]
        BY <4>1, <4>2, <4>3 DEF Less, shorter
      <4>5. QED
        BY <2>2, <2>5, <4>4 DEF n, OnItsWay, Patient
    <3>2. CASE ~(rec.tries > 0)
      BY <2>2, <2>5, <3>2 DEF OnItsWay, Patient
    <3>3. QED
      BY <3>1, <3>2
  <2>8. QED
    BY <1>2, <2>5, <2>6, <2>7 DEF OnItsWay
<1>4. mail' \in [Mails -> MailType]
  <2>1. mail' = [k \in Mails |-> mail'[k]]
    BY <1>1
  <2>2. QED
    BY <1>3, <2>1
<1>5. MailTypes'
  BY <1>1, <1>2, <1>4 DEF MailsInv, MailTypes
<1>6. QED
  BY <1>3, <1>5 DEF MailsInv

LEMMA MailsNext ==
  ASSUME MailsInv, MailNext
  PROVE  MailsInv' /\ \A k \in Mails : mail'[k].st = "none" <=> mail[k].st = "none"
<1>1. CASE Process
  BY <1>1, MailsShortCircuit, MailsAccept, MailsRefuse DEF Process
<1>2. CASE GoDown \/ ComeBack
  <2>1. mail' = mail /\ breaker' = breaker /\ up' \in BOOLEAN /\ faults' \in 0 .. MaxFaults
    <3>1. MaxFaults \in Nat /\ faults \in 0 .. MaxFaults /\ up \in BOOLEAN
      BY MailQueueAssumption DEF MailsInv, MailTypes
    <3>2. CASE GoDown
      <4>1. Fault /\ up' = FALSE /\ UNCHANGED <<mail, breaker>>
        BY <3>2, Zenon DEF GoDown
      <4>2. faults' \in 0 .. MaxFaults
        BY <3>1, <4>1 DEF Fault
      <4>3. QED
        BY <4>1, <4>2
    <3>3. CASE ComeBack
      BY <3>1, <3>3 DEF ComeBack
    <3>4. QED
      BY <1>2, <3>2, <3>3
  <2>2. QED
    BY <2>1 DEF MailsInv, MailTypes
<1>3. CASE Tick
  BY <1>3, MailsTick
<1>4. QED
  BY <1>1, <1>2, <1>3 DEF MailNext

\* What a worker that stops makes of the job it was at.
Stopped(rec, called) ==
  [rec EXCEPT !.st = IF rec.stalls = 1 THEN "dropped" ELSE "queued",
              !.calls = rec.calls + called, !.stalls = 1]

LEMMA StoppedJob ==
  ASSUME NEW rec \in MailType, NEW called \in {0, 1}, rec.st = "queued", Mailed(rec)
  PROVE  /\ Stopped(rec, called) \in MailType /\ Stopped(rec, called).st # "none"
         /\ OnItsWay(Stopped(rec, called), 0)
<1> DEFINE new == Stopped(rec, called)
<1>1. /\ rec.calls + called \in Nat /\ rec.calls + called <= rec.tries + rec.stalls + 1
      /\ rec.tries + 1 <= MaxTries /\ rec.tries \in Nat /\ rec.stalls \in 0 .. 1 /\ 1 \in 0 .. 1
  BY StartsOrdered DEF MailType, Mailed
<1>2. /\ new.st = (IF rec.stalls = 1 THEN "dropped" ELSE "queued")
      /\ new.calls = rec.calls + called /\ new.stalls = 1 /\ new.tries = rec.tries
  BY DEF Stopped, MailType
<1>3. new \in MailType
  <2> PICK n \in Nat : n = rec.calls + called
    BY <1>1
  <2> PICK st \in {"none", "queued", "sent", "dropped"} :
           st = IF rec.stalls = 1 THEN "dropped" ELSE "queued"
    OBVIOUS
  <2>1. new = [rec EXCEPT !.st = st, !.calls = n, !.stalls = 1]
    BY DEF Stopped
  <2> HIDE DEF new
  <2>2. QED
    BY <1>1, <2>1 DEF MailType
<1> HIDE DEF new
<1>4. Mailed(new)
  BY <1>1, <1>2, StartsOrdered DEF Mailed
<1>5. QED
  BY <1>2, <1>3, <1>4 DEF new, OnItsWay, Patient

\* A worker that stops loses no mail that is not put on the queue yet.
LEMMA MailsStop ==
  ASSUME MailsInv, Fault, WorkerStops, up' = up
  PROVE  MailsInv' /\ \A k \in Mails : mail'[k].st = "none" <=> mail[k].st = "none"
<1>1. breaker' = Closed /\ breaker'.wait = 0
  BY ClosedType DEF WorkerStops
<1>2. faults' \in 0 .. MaxFaults
  BY MailQueueAssumption DEF Fault, MailsInv, MailTypes
<1>3. \A k \in Mails : mail[k] \in MailType /\ OnItsWay(mail[k], 0)
  BY MailFacts, LessToWait
<1>4. CASE UNCHANGED mail
  <2>1. MailTypes'
    BY <1>1, <1>2, <1>4, ClosedType DEF MailsInv, MailTypes
  <2>2. QED
    BY <1>1, <1>3, <1>4, <2>1 DEF MailsInv
<1>5. ASSUME NEW m \in Mails, NEW called \in {0, 1}, LetThrough(m),
             mail' = [mail EXCEPT ![m].st = IF mail[m].stalls = 1 THEN "dropped" ELSE @,
                                  ![m].calls = @ + called, ![m].stalls = 1]
      PROVE  MailsInv' /\ \A k \in Mails : mail'[k].st = "none" <=> mail[k].st = "none"
  <2>1. mail[m].st = "queued" /\ mail[m] \in MailType /\ Mailed(mail[m])
    BY <1>3, <1>5 DEF LetThrough, IsDue, OnItsWay
  <2>2. mail \in [Mails -> MailType] /\ mail' = [mail EXCEPT ![m] = Stopped(mail[m], called)]
    <3>1. mail \in [Mails -> MailType]
      BY DEF MailsInv, MailTypes
    <3>2. QED
      BY <1>5, <2>1, <3>1 DEF Stopped
  <2> PICK new : new = Stopped(mail[m], called)
    OBVIOUS
  <2>3. new \in MailType /\ new.st # "none" /\ OnItsWay(new, 0)
    BY <2>1, StoppedJob
  <2>4. \A k \in Mails : mail'[k] = IF k = m THEN new ELSE mail[k]
    BY <2>2
  <2>5. mail' \in [Mails -> MailType]
    BY <2>2, <2>3
  <2>6. MailTypes'
    BY <1>1, <1>2, <2>5, ClosedType DEF MailsInv, MailTypes
  <2>7. QED
    BY <1>1, <1>3, <2>1, <2>3, <2>4, <2>6 DEF MailsInv
<1>6. QED
  BY <1>4, <1>5 DEF WorkerStops

\* The mail about a record that has none yet.
LEMMA MailsEmit ==
  ASSUME MailsInv, NEW d \in 1 .. Deliveries, NotifyNewCall(d), NEW r \in Mails, hook[d].row = r,
         mail[r].st = "none"
  PROVE  /\ MailsInv' /\ mail'[r].st # "none"
         /\ \A k \in Mails \ {r} : mail'[k] = mail[k]
<1>1. mail[r] = NoMail /\ mail \in [Mails -> MailType]
  BY MailFacts DEF OnItsWay, Mailed, MailsInv, MailTypes
<1>2. UNCHANGED <<breaker, up>>
  BY DEF NotifyNewCall
<1>3. faults' \in 0 .. MaxFaults
  BY MailQueueAssumption DEF NotifyNewCall, Fault, MailsInv, MailTypes
<1>4. \E new \in MailType : new.st # "none" /\ OnItsWay(new, breaker.wait) /\ mail' = [mail EXCEPT ![r] = new]
  <2>1. CASE mail' = Enqueued(r)
    <3> PICK new : new = [NoMail EXCEPT !.st = "queued"]
      OBVIOUS
    <3>1. new \in MailType
      BY NoMailType
    <3>2. new.st = "queued" /\ new.tries = 0 /\ new.calls = 0 /\ new.stalls = 0
      BY DEF NoMail
    <3>3. mail' = [mail EXCEPT ![r] = new]
      BY <1>1, <2>1 DEF Enqueued
    <3>4. OnItsWay(new, breaker.wait)
      BY <3>2 DEF OnItsWay, Mailed, Patient
    <3>5. QED
      BY <3>1, <3>2, <3>3, <3>4
  <2>2. CASE mail' = SentAtOnce(r)
    <3> PICK st \in {"sent", "dropped"} : st = IF up /\ r \notin Poison THEN "sent" ELSE "dropped"
      OBVIOUS
    <3> PICK new : new = [NoMail EXCEPT !.st = st, !.calls = 1]
      OBVIOUS
    <3>1. new \in MailType
      BY NoMailType DEF MailType
    <3>2. new.st = st /\ new.calls = 1 /\ new.stalls = 0
      BY DEF NoMail
    <3>3. mail' = [mail EXCEPT ![r] = new]
      BY <1>1, <2>2 DEF SentAtOnce
    <3>4. OnItsWay(new, breaker.wait)
      BY <3>2, StartsOrdered DEF OnItsWay, Mailed, Patient
    <3>5. QED
      BY <3>1, <3>2, <3>3, <3>4
  <2>3. QED
    BY <2>1, <2>2 DEF NotifyNewCall
<1> PICK new \in MailType :
         new.st # "none" /\ OnItsWay(new, breaker.wait) /\ mail' = [mail EXCEPT ![r] = new]
  BY <1>4
<1>5. \A k \in Mails : mail'[k] = IF k = r THEN new ELSE mail[k]
  BY <1>1
<1>6. mail' \in [Mails -> MailType]
  BY <1>1
<1>7. MailTypes'
  BY <1>2, <1>3, <1>6 DEF MailsInv, MailTypes
<1>8. QED
  BY <1>2, <1>5, <1>7, MailFacts DEF MailsInv

----------------------------------------------------------------------------
(* The records.                                                            *)

LEMMA RowsAreMails == None \notin Rows /\ Rows \subseteq Mails
  BY MailQueueAssumption, RetellIngestAssumption

LEMMA FoundIs ==
  ASSUME RecordTypes, RecordsInv
  PROVE  /\ Found \in Rows \union {None} /\ (Found = None <=> Live = {})
         /\ Found # None => row[Found].live /\ row[Found].data # "none"
<1>1. CASE Live = {}
  BY <1>1, RowsAreMails DEF Found
<1>2. CASE Live # {}
  <2>1. Found \in Live
    BY <1>2 DEF Found
  <2>2. Found \in Rows /\ row[Found].live
    BY <2>1 DEF Live
  <2>3. row[Found].data # "none"
    BY <2>2 DEF RecordsInv, NoRow
  <2>4. QED
    BY <1>2, <2>2, <2>3, RowsAreMails
<1>3. QED
  BY <1>1, <1>2

LEMMA FreshIs ==
  ASSUME HasFree
  PROVE  Fresh \in Rows /\ row[Fresh].data = "none"
  BY DEF HasFree, Fresh

\* Nothing is known, inserted or mailed at first.
LEMMA RecordsStart == Init => RecordTypes /\ RecordsInv /\ NewsInv /\ AnalysesInv
<1> SUFFICES ASSUME Init PROVE RecordTypes /\ RecordsInv /\ NewsInv /\ AnalysesInv
  OBVIOUS
<1> USE RowsAreMails DEF Init
<1>1. /\ row \in [Rows -> Records] /\ hook \in [1 .. Deliveries -> HookType]
      /\ sync \in SyncType /\ admin \in 0 .. MaxAdmin /\ lost = {} /\ address \in BOOLEAN
  BY RetellIngestAssumption DEF NoRow, Records, HookType, SyncType
<1>2. \A r \in Rows : row[r] = NoRow /\ mail[r].st = "none"
  BY RetellIngestAssumption DEF MailInit, NoMail
<1>3. \A d \in 1 .. Deliveries : hook[d].pc = "new" /\ hook[d].row = None
  OBVIOUS
<1>4. sync.pc = "new" /\ sync.row = None /\ sync.data = "none" /\ call = "none"
  OBVIOUS
<1>5. RecordTypes
  BY <1>1, <1>4 DEF RecordTypes
<1>6. RecordsInv
  BY <1>2, <1>3, <1>4 DEF RecordsInv, NoRow
<1>7. NewsInv
  BY <1>2, <1>3 DEF NewsInv, NoRow, Emits
<1>8. AnalysesInv
  BY <1>2, <1>3, <1>4 DEF AnalysesInv, NoRow
<1>9. QED
  BY <1>5, <1>6, <1>7, <1>8

\* All that is said of the records and of the mails about them.
RecordsPart == RecordTypes /\ RecordsInv /\ NewsInv /\ AnalysesInv

\* Steps of the queue make no mail out of none.
LEMMA QueueStep ==
  ASSUME RecordsPart, UNCHANGED retellVars,
         \A k \in Mails : mail'[k].st = "none" <=> mail[k].st = "none"
  PROVE  RecordsPart'
<1>1. \A r \in Rows : mail'[r].st = "none" <=> mail[r].st = "none"
  BY RowsAreMails
<1>2. RecordTypes' /\ RecordsInv' /\ AnalysesInv'
  BY DEF RecordsPart, RecordTypes, RecordsInv, AnalysesInv, retellVars, HookType
<1>3. NewsInv'
  <2>1. \A d \in 1 .. Deliveries : hook[d].row \in Rows \union {None}
    BY DEF RecordsPart, RecordTypes, HookType
  <2>2. QED
    BY <1>1, <2>1 DEF RecordsPart, NewsInv, Emits, retellVars
<1>4. QED
  BY <1>2, <1>3 DEF RecordsPart

LEMMA CallGoesOnStep ==
  ASSUME RecordsPart, CallGoesOn PROVE RecordsPart'
<1>1. /\ call \in {"none", "ended"} /\ call' \in {"ended", "analyzed"}
      /\ UNCHANGED <<mail, row, hook, sync, admin, lost, address>>
  BY DEF CallGoesOn, RecordsPart, RecordTypes, mailVars
<1>2. RecordTypes' /\ RecordsInv' /\ NewsInv'
  BY <1>1 DEF RecordsPart, RecordTypes, RecordsInv, NewsInv, Emits
<1>3. AnalysesInv'
  BY <1>1 DEF RecordsPart, AnalysesInv
<1>4. QED
  BY <1>2, <1>3 DEF RecordsPart

\* What is known of the records, of what a delivery has found, and of what a
\* synchronisation has found.
LEMMA RecordFacts ==
  ASSUME RecordsPart
  PROVE  /\ row \in [Rows -> Records] /\ hook \in [1 .. Deliveries -> HookType] /\ sync \in SyncType
         /\ \A d \in 1 .. Deliveries : hook[d] \in HookType /\ hook[d].row \in Rows \union {None}
         /\ sync.row \in Rows \union {None} /\ sync.behind \in BOOLEAN
         /\ Found \in Rows \union {None} /\ (Found = None <=> Live = {})
         /\ Found # None => row[Found].live /\ row[Found].data # "none"
  BY FoundIs DEF RecordsPart, RecordTypes, HookType, SyncType

\* A delivery that moves on without telling of a record and without an answer.
LEMMA HookMoves ==
  ASSUME RecordsPart, NEW d \in 1 .. Deliveries, NEW new \in HookType,
         hook' = [hook EXCEPT ![d] = new], hook[d].pc # "emit", new.pc \in {"write", "failed"},
         new.row # None => row[new.row].data # "none", call = "analyzed",
         UNCHANGED <<mail, call, row, sync, admin, lost, address>>
  PROVE  RecordsPart'
<1>1. \A e \in 1 .. Deliveries : hook'[e] = IF e = d THEN new ELSE hook[e]
  BY RecordFacts
<1>2. hook' \in [1 .. Deliveries -> HookType]
  BY RecordFacts
<1>3. RecordTypes'
  BY <1>2 DEF RecordsPart, RecordTypes
<1>4. RecordsInv'
  BY <1>1 DEF RecordsPart, RecordsInv
<1>5. NewsInv'
  <2>1. \A e \in 1 .. Deliveries, r \in Rows : Emits(e, r)' <=> Emits(e, r)
    BY <1>1 DEF Emits
  <2>2. \A e \in 1 .. Deliveries : hook'[e].pc = "emit" => hook[e].pc = "emit" /\ hook'[e] = hook[e]
    BY <1>1
  <2>3. QED
    BY <2>1, <2>2 DEF RecordsPart, NewsInv
<1>6. AnalysesInv'
  BY <1>1 DEF RecordsPart, AnalysesInv
<1>7. QED
  BY <1>3, <1>4, <1>5, <1>6 DEF RecordsPart

LEMMA DeliverStep ==
  ASSUME RecordsPart, NEW d \in 1 .. Deliveries, Deliver(d) PROVE RecordsPart'
<1> PICK new : new = [pc |-> "write", row |-> Found]
  OBVIOUS
<1>1. new \in HookType /\ new.pc = "write" /\ (new.row # None => row[new.row].data # "none")
  BY RecordFacts DEF HookType
<1>2. /\ hook[d].pc = "new" /\ hook' = [hook EXCEPT ![d] = new] /\ call = "analyzed"
      /\ UNCHANGED <<mail, call, row, sync, admin, lost, address>>
  BY DEF Deliver, mailVars
<1>3. QED
  BY <1>1, <1>2, HookMoves

LEMMA HookFailsStep ==
  ASSUME RecordsPart, NEW d \in 1 .. Deliveries, HookFails(d) PROVE RecordsPart'
<1> PICK new : new = [pc |-> "failed", row |-> None]
  OBVIOUS
<1>1. new \in HookType /\ new.pc = "failed" /\ new.row = None
  BY DEF HookType
<1>2. /\ hook[d].pc = "write" /\ hook' = [hook EXCEPT ![d] = new]
      /\ UNCHANGED <<mail, call, row, sync, admin, lost, address>>
  BY DEF HookFails
<1>3. call = "analyzed"
  BY <1>2 DEF RecordsPart, AnalysesInv
<1>4. QED
  BY <1>1, <1>2, <1>3, HookMoves

\* A delivery that updates the record it has found.
LEMMA HookUpdates ==
  ASSUME RecordsPart, NEW d \in 1 .. Deliveries, NEW f \in Rows, HookWrite(d),
         hook[d].row = f, hook[d].pc = "write",
         row' = [row EXCEPT ![f].data = "analyzed"], hook' = [hook EXCEPT ![d].pc = "ok"]
  PROVE  RecordsPart'
<1> PICK rec \in Records : rec = row[f] /\ rec.data # "none"
  <2>1. row[f] \in Records /\ row[f].data # "none"
    BY RecordFacts, RowsAreMails DEF RecordsPart, RecordsInv
  <2>2. QED
    BY <2>1
<1> PICK new : new = [rec EXCEPT !.data = "analyzed"]
  OBVIOUS
<1> PICK told : told = [pc |-> "ok", row |-> f]
  OBVIOUS
<1>1. new \in Records /\ new.data = "analyzed" /\ new.live = rec.live /\ new.by = rec.by
      /\ told \in HookType /\ told.pc = "ok" /\ told.row = f
  BY DEF Records, HookType
<1>2. \A r \in Rows : row'[r] = IF r = f THEN new ELSE row[r]
  BY RecordFacts
<1>3. \A e \in 1 .. Deliveries : hook'[e] = IF e = d THEN told ELSE hook[e]
  <2>1. hook[d] \in HookType
    BY RecordFacts
  <2>2. [hook[d] EXCEPT !.pc = "ok"] = told
    BY <2>1 DEF HookType
  <2>3. QED
    BY <2>2, RecordFacts
<1>4. /\ UNCHANGED <<mail, call, admin, lost, address>>
      /\ sync' = [sync EXCEPT !.behind = @ \/ (sync.pc \in {"fetched", "write"} /\ row' # row)]
  BY DEF HookWrite, mailVars
<1>5. /\ sync' \in SyncType /\ sync'.pc = sync.pc /\ sync'.row = sync.row /\ sync'.data = sync.data
      /\ sync.behind => sync'.behind
      /\ sync.pc \in {"fetched", "write"} /\ row' # row => sync'.behind
  <2> DEFINE b == sync.behind \/ (sync.pc \in {"fetched", "write"} /\ row' # row)
  <2>1. sync' = [sync EXCEPT !.behind = b] /\ sync \in SyncType
    BY <1>4, RecordFacts
  <2>2. b \in BOOLEAN
    OBVIOUS
  <2>3. (sync.behind => b) /\ (sync.pc \in {"fetched", "write"} /\ row' # row => b)
    OBVIOUS
  <2> HIDE DEF b
  <2>4. QED
    BY <2>1, <2>2, <2>3 DEF SyncType
<1>6. RecordTypes'
  <2>1. row' \in [Rows -> Records] /\ hook' \in [1 .. Deliveries -> HookType]
    BY <1>1, <1>2, <1>3, RecordFacts
  <2>2. QED
    BY <1>4, <1>5, <2>1 DEF RecordsPart, RecordTypes
<1>7. RecordsInv'
  <2>1. \A r \in Rows : row'[r].live = row[r].live /\ (row'[r].data = "none" => row'[r] = row[r])
    BY <1>1, <1>2
  <2>2. \A r \in Rows : row[r].data # "none" => row'[r].data # "none"
    BY <1>1, <1>2
  <2>3. QED
    BY <1>1, <1>3, <1>5, <2>1, <2>2, RecordFacts, RowsAreMails DEF RecordsPart, RecordsInv
<1>8. NewsInv'
  <2>1. \A r \in Rows : row'[r].by = row[r].by
    BY <1>1, <1>2
  <2>2. \A e \in 1 .. Deliveries, r \in Rows : Emits(e, r)' <=> Emits(e, r)
    BY <1>3 DEF Emits
  <2>3. \A e \in 1 .. Deliveries : hook'[e].pc = "emit" => hook[e].pc = "emit" /\ hook'[e] = hook[e]
    BY <1>3
  <2>4. QED
    BY <1>4, <2>1, <2>2, <2>3, RecordFacts DEF RecordsPart, NewsInv
<1>9. AnalysesInv'
  <2>1. call = "analyzed" /\ call' = call
    BY <1>4 DEF RecordsPart, AnalysesInv
  <2>2. sync.pc \in {"fetched", "write"} /\ ~sync'.behind => \A r \in Rows : row'[r] = row[r]
    BY <1>5
  <2>3. \A r \in Rows : row[r].data = "analyzed" => row'[r].data = "analyzed"
    BY <1>1, <1>2
  <2>4. \A e \in 1 .. Deliveries :
          hook'[e].pc \in {"emit", "ok"} =>
            hook'[e].row # None /\ (row'[hook'[e].row].data = "analyzed" \/ sync'.behind)
    <3> SUFFICES ASSUME NEW e \in 1 .. Deliveries, hook'[e].pc \in {"emit", "ok"}
                 PROVE  hook'[e].row # None /\ (row'[hook'[e].row].data = "analyzed" \/ sync'.behind)
      OBVIOUS
    <3>1. CASE e = d
      <4>1. hook'[e].row = f
        BY <3>1, <1>1, <1>3
      <4>2. row'[f].data = "analyzed" /\ f # None
        BY <1>1, <1>2, RowsAreMails
      <4>3. QED
        BY <4>1, <4>2
    <3>2. CASE e # d
      <4>1. hook'[e] = hook[e]
        BY <3>2, <1>3
      <4>2. hook[e].row # None /\ (row[hook[e].row].data = "analyzed" \/ sync.behind)
        BY <4>1 DEF RecordsPart, AnalysesInv
      <4>3. QED
        BY <4>1, <4>2, <2>3, <1>5, RecordFacts
    <3>3. QED
      BY <3>1, <3>2
  <2>5. (sync'.pc \in {"fetched", "write"} /\ sync'.data # "analyzed"
           /\ (\E r \in Rows : row'[r].data = "analyzed")) => sync'.behind
    BY <1>5, <2>2 DEF RecordsPart, AnalysesInv
  <2>6. QED
    BY <2>1, <2>4, <2>5, <1>5 DEF AnalysesInv
<1>10. QED
  BY <1>6, <1>7, <1>8, <1>9 DEF RecordsPart

\* A delivery that inserts a record, and is about to tell of it.
LEMMA HookInserts ==
  ASSUME RecordsPart, NEW d \in 1 .. Deliveries, HookWrite(d), hook[d].pc = "write",
         Live = {}, NEW f \in Rows, row[f].data = "none",
         row' = [row EXCEPT ![f] = [live |-> TRUE, data |-> "analyzed", by |-> "webhook"]],
         hook' = [hook EXCEPT ![d] = [pc |-> "emit", row |-> f]]
  PROVE  RecordsPart'
<1> PICK new : new = [live |-> TRUE, data |-> "analyzed", by |-> "webhook"]
  OBVIOUS
<1> PICK told : told = [pc |-> "emit", row |-> f]
  OBVIOUS
<1>1. /\ new \in Records /\ new.live = TRUE /\ new.data = "analyzed" /\ new.by = "webhook"
      /\ told \in HookType /\ told.pc = "emit" /\ told.row = f
  BY DEF Records, HookType
<1>2. \A r \in Rows : row'[r] = IF r = f THEN new ELSE row[r]
  BY RecordFacts
<1>3. \A e \in 1 .. Deliveries : hook'[e] = IF e = d THEN told ELSE hook[e]
  BY RecordFacts
<1>4. /\ UNCHANGED <<mail, call, admin, lost, address>>
      /\ sync' = [sync EXCEPT !.behind = @ \/ (sync.pc \in {"fetched", "write"} /\ row' # row)]
  BY DEF HookWrite, mailVars
<1>5. row' # row
  BY <1>1, <1>2
<1>6. /\ sync' \in SyncType /\ sync'.pc = sync.pc /\ sync'.row = sync.row /\ sync'.data = sync.data
      /\ sync.behind => sync'.behind
      /\ sync.pc \in {"fetched", "write"} => sync'.behind
  <2> DEFINE b == sync.behind \/ sync.pc \in {"fetched", "write"}
  <2>1. sync' = [sync EXCEPT !.behind = b] /\ sync \in SyncType
    BY <1>4, <1>5, RecordFacts
  <2>2. b \in BOOLEAN
    OBVIOUS
  <2>3. (sync.behind => b) /\ (sync.pc \in {"fetched", "write"} => b)
    OBVIOUS
  <2> HIDE DEF b
  <2>4. QED
    BY <2>1, <2>2, <2>3 DEF SyncType
<1>7. row[f] = NoRow /\ row[f].by = "none" /\ row[f].live = FALSE
  BY DEF RecordsPart, RecordsInv, NoRow
<1>8. mail[f].st = "none" /\ \A e \in 1 .. Deliveries : ~Emits(e, f) /\ hook[e].row # f
  <2>1. mail[f].st = "none"
    BY <1>7 DEF RecordsPart, NewsInv
  <2>2. \A e \in 1 .. Deliveries : hook[e].row # f
    BY RowsAreMails DEF RecordsPart, RecordsInv
  <2>3. QED
    BY <2>1, <2>2 DEF Emits
<1>9. RecordTypes'
  <2>1. row' \in [Rows -> Records] /\ hook' \in [1 .. Deliveries -> HookType]
    BY <1>1, <1>2, <1>3, RecordFacts
  <2>2. QED
    BY <1>4, <1>6, <2>1 DEF RecordsPart, RecordTypes
<1>10. RecordsInv'
  <2>1. \A r \in Rows : ~row[r].live
    BY DEF Live
  <2>2. \A r \in Rows : row'[r].data = "none" => row'[r] = NoRow
    BY <1>1, <1>2 DEF RecordsPart, RecordsInv
  <2>3. \A r \in Rows : row[r].data # "none" => row'[r].data # "none"
    BY <1>1, <1>2
  <2>4. \A r \in Rows : row'[r].live => r = f
    BY <1>2, <2>1
  <2>5. QED
    BY <1>1, <1>3, <1>6, <2>2, <2>3, <2>4, <1>2, RecordFacts, RowsAreMails DEF RecordsPart, RecordsInv
<1>11. NewsInv'
  <2>1. \A r \in Rows : mail'[r] = mail[r]
    BY <1>4
  <2>2. \A r \in Rows : mail'[r].st # "none" => row'[r].by = "webhook"
    BY <1>1, <1>2, <2>1 DEF RecordsPart, NewsInv
  <2>3. Emits(d, f)' /\ ~Emits(d, f)
    BY <1>1, <1>3, <1>8 DEF Emits
  <2>4. \A r \in Rows \ {f}, e \in 1 .. Deliveries : Emits(e, r)' <=> Emits(e, r)
    BY <1>1, <1>3 DEF Emits
  <2>5. \A e \in 1 .. Deliveries : Emits(e, f)' => e = d
    BY <1>3, <1>8 DEF Emits
  <2>6. \A r \in Rows : row'[r].by = "webhook" /\ mail'[r].st = "none" =>
          r \in lost' \/ \E e \in 1 .. Deliveries : Emits(e, r)'
    <3> SUFFICES ASSUME NEW r \in Rows, row'[r].by = "webhook", mail'[r].st = "none"
                 PROVE  r \in lost' \/ \E e \in 1 .. Deliveries : Emits(e, r)'
      OBVIOUS
    <3>1. CASE r = f
      BY <3>1, <2>3
    <3>2. CASE r # f
      <4>1. r \in lost \/ \E e \in 1 .. Deliveries : Emits(e, r)
        BY <3>2, <1>2, <2>1 DEF RecordsPart, NewsInv
      <4>2. QED
        BY <3>2, <4>1, <2>4, <1>4
    <3>3. QED
      BY <3>1, <3>2
  <2>7. \A e \in 1 .. Deliveries : hook'[e].pc = "emit" =>
          hook'[e].row # None /\ row'[hook'[e].row].by = "webhook" /\ mail'[hook'[e].row].st = "none"
    <3> SUFFICES ASSUME NEW e \in 1 .. Deliveries, hook'[e].pc = "emit"
                 PROVE  /\ hook'[e].row # None /\ row'[hook'[e].row].by = "webhook"
                        /\ mail'[hook'[e].row].st = "none"
      OBVIOUS
    <3>1. CASE e = d
      BY <3>1, <1>1, <1>2, <1>3, <1>8, <2>1, RowsAreMails
    <3>2. CASE e # d
      <4>1. hook'[e] = hook[e]
        BY <3>2, <1>3
      <4>2. hook[e].row # None /\ row[hook[e].row].by = "webhook" /\ mail[hook[e].row].st = "none"
        BY <4>1 DEF RecordsPart, NewsInv
      <4>3. hook[e].row \in Rows /\ hook[e].row # f
        BY <4>2, <1>8, RecordFacts
      <4>4. QED
        BY <4>1, <4>2, <4>3, <1>2, <2>1
    <3>3. QED
      BY <3>1, <3>2
  <2>8. \A e, g \in 1 .. Deliveries, r \in Rows : Emits(e, r)' /\ Emits(g, r)' => e = g
    BY <2>4, <2>5 DEF RecordsPart, NewsInv
  <2>9. QED
    BY <2>2, <2>6, <2>7, <2>8 DEF NewsInv
<1>12. AnalysesInv'
  <2>1. call = "analyzed" /\ call' = call
    BY <1>4 DEF RecordsPart, AnalysesInv
  <2>2. \A r \in Rows : row[r].data = "analyzed" => row'[r].data = "analyzed"
    BY <1>1, <1>2
  <2>3. ASSUME NEW e \in 1 .. Deliveries, hook'[e].pc \in {"emit", "ok"}
        PROVE  hook'[e].row # None /\ (row'[hook'[e].row].data = "analyzed" \/ sync'.behind)
    <3>1. CASE e = d
      BY <3>1, <1>1, <1>2, <1>3, RowsAreMails
    <3>2. CASE e # d
      <4>1. hook'[e] = hook[e]
        BY <3>2, <1>3
      <4>2. hook[e].row # None /\ (row[hook[e].row].data = "analyzed" \/ sync.behind)
        BY <2>3, <4>1 DEF RecordsPart, AnalysesInv
      <4>3. QED
        BY <4>1, <4>2, <2>2, <1>6, RecordFacts
    <3>3. QED
      BY <3>1, <3>2
  <2>4. QED
    BY <2>1, <2>3, <1>6 DEF AnalysesInv
<1>13. QED
  BY <1>9, <1>10, <1>11, <1>12 DEF RecordsPart

LEMMA HookWriteStep ==
  ASSUME RecordsPart, NEW d \in 1 .. Deliveries, HookWrite(d) PROVE RecordsPart'
<1>1. hook[d].pc = "write" /\ call = "analyzed"
  BY DEF HookWrite, RecordsPart, AnalysesInv
<1>2. ASSUME hook[d].row # None, row' = [row EXCEPT ![hook[d].row].data = "analyzed"],
             hook' = [hook EXCEPT ![d].pc = "ok"]
      PROVE  RecordsPart'
  <2> PICK f \in Rows : hook[d].row = f
    BY <1>2, RecordFacts
  <2>1. row' = [row EXCEPT ![f].data = "analyzed"]
    BY <1>2
  <2>2. QED
    BY <1>1, <1>2, <2>1, HookUpdates
<1>3. ASSUME hook[d].row = None, hook' = [hook EXCEPT ![d].pc = "failed"], UNCHANGED row
      PROVE  RecordsPart'
  <2> PICK new : new = [pc |-> "failed", row |-> None]
    OBVIOUS
  <2>1. new \in HookType /\ new.pc = "failed" /\ new.row = None
    BY DEF HookType
  <2>2. [hook[d] EXCEPT !.pc = "failed"] = new
    <3>1. hook[d] \in HookType
      BY RecordFacts
    <3>2. QED
      BY <1>3, <3>1 DEF HookType
  <2>3. hook' = [hook EXCEPT ![d] = new]
    BY <1>3, <2>2, RecordFacts
  <2>4. sync' = sync
    <3>1. sync.behind \/ (sync.pc \in {"fetched", "write"} /\ row' # row) <=> sync.behind
      BY <1>3
    <3>2. sync \in SyncType
      BY RecordFacts
    <3>3. sync' = [sync EXCEPT !.behind = sync.behind \/ (sync.pc \in {"fetched", "write"} /\ row' # row)]
      BY DEF HookWrite
    <3>4. QED
      BY <1>3, <3>2, <3>3 DEF SyncType
  <2>5. UNCHANGED <<mail, call, row, admin, lost, address>>
    BY <1>3 DEF HookWrite, mailVars
  <2>6. QED
    BY <1>1, <2>1, <2>3, <2>4, <2>5, HookMoves
<1>4. ASSUME Live = {}, HasFree,
             row' = [row EXCEPT ![Fresh] = [live |-> TRUE, data |-> "analyzed", by |-> "webhook"]],
             hook' = [hook EXCEPT ![d] = [pc |-> "emit", row |-> Fresh]]
      PROVE  RecordsPart'
  <2> PICK f \in Rows : f = Fresh /\ row[f].data = "none"
    BY <1>4, FreshIs
  <2>1. /\ row' = [row EXCEPT ![f] = [live |-> TRUE, data |-> "analyzed", by |-> "webhook"]]
        /\ hook' = [hook EXCEPT ![d] = [pc |-> "emit", row |-> f]]
    BY <1>4
  <2>2. QED
    BY <1>1, <1>4, <2>1, HookInserts
<1>5. QED
  BY <1>2, <1>3, <1>4 DEF HookWrite

\* The event of an insert has been told.
LEMMA EmitStep ==
  ASSUME RecordsPart, NEW d \in 1 .. Deliveries, Emit(d), NEW r \in Rows, hook[d].row = r,
         mail'[r].st # "none" \/ r \in lost', lost \subseteq lost', lost' \subseteq Rows,
         \A k \in Mails \ {r} : mail'[k] = mail[k]
  PROVE  RecordsPart'
<1> PICK told : told = [pc |-> "ok", row |-> r]
  OBVIOUS
<1>1. hook[d].pc = "emit" /\ UNCHANGED <<call, row, sync, admin, address>>
  BY DEF Emit, NotifyNewCall, SkipAlert
<1>2. told \in HookType /\ told.pc = "ok" /\ told.row = r
  BY DEF HookType
<1>3. \A e \in 1 .. Deliveries : hook'[e] = IF e = d THEN told ELSE hook[e]
  <2>1. [hook[d] EXCEPT !.pc = "ok"] = told
    BY RecordFacts DEF HookType
  <2>2. hook' = [hook EXCEPT ![d].pc = "ok"]
    BY DEF Emit, NotifyNewCall, SkipAlert
  <2>3. QED
    BY <2>1, <2>2, RecordFacts
<1>4. \A s \in Rows \ {r} : mail'[s] = mail[s]
  BY RowsAreMails
<1>5. RecordTypes'
  <2>1. hook' \in [1 .. Deliveries -> HookType]
    <3>1. hook' = [hook EXCEPT ![d].pc = "ok"]
      BY DEF Emit, NotifyNewCall, SkipAlert
    <3>2. QED
      BY <1>2, <1>3, <3>1, RecordFacts
  <2>2. QED
    BY <1>1, <2>1 DEF RecordsPart, RecordTypes
<1>6. RecordsInv'
  <2>1. \A e \in 1 .. Deliveries : hook'[e].row = hook[e].row
    BY <1>2, <1>3
  <2>2. QED
    BY <1>1, <2>1 DEF RecordsPart, RecordsInv
<1>7. NewsInv'
  <2>1. Emits(d, r) /\ row[r].by = "webhook"
    BY <1>1, RowsAreMails DEF Emits, RecordsPart, NewsInv
  <2>2. \A e \in 1 .. Deliveries \ {d} : hook'[e] = hook[e]
    BY <1>3
  <2>3. hook'[d].pc = "ok"
    BY <1>2, <1>3
  <2>4. \A e \in 1 .. Deliveries, s \in Rows \ {r} : Emits(e, s)' <=> Emits(e, s)
    BY <2>1, <2>2, <2>3 DEF Emits
  <2>5. \A s \in Rows : mail'[s].st # "none" => row'[s].by = "webhook"
    BY <1>1, <1>4, <2>1 DEF RecordsPart, NewsInv
  <2>6. \A s \in Rows : row'[s].by = "webhook" /\ mail'[s].st = "none" =>
          s \in lost' \/ \E e \in 1 .. Deliveries : Emits(e, s)'
    <3> SUFFICES ASSUME NEW s \in Rows, row'[s].by = "webhook", mail'[s].st = "none"
                 PROVE  s \in lost' \/ \E e \in 1 .. Deliveries : Emits(e, s)'
      OBVIOUS
    <3>1. CASE s = r
      BY <3>1
    <3>2. CASE s # r
      <4>1. mail'[s] = mail[s]
        BY <1>4, <3>2
      <4>2. s \in lost \/ \E e \in 1 .. Deliveries : Emits(e, s)
        BY <1>1, <4>1 DEF RecordsPart, NewsInv
      <4>3. QED
        BY <2>4, <3>2, <4>2
    <3>3. QED
      BY <3>1, <3>2
  <2>7. ASSUME NEW e \in 1 .. Deliveries, hook'[e].pc = "emit"
        PROVE  hook'[e].row # None /\ row'[hook'[e].row].by = "webhook" /\ mail'[hook'[e].row].st = "none"
    <3>1. e # d /\ hook'[e] = hook[e]
      BY <2>2, <2>3, <2>7
    <3>2. hook[e].row \in Rows /\ row[hook[e].row].by = "webhook" /\ mail[hook[e].row].st = "none"
      BY <2>7, <3>1, RecordFacts DEF RecordsPart, NewsInv
    <3>3. hook[e].row # r
      BY <2>1, <2>7, <3>1 DEF RecordsPart, NewsInv, Emits
    <3>4. QED
      BY <1>1, <1>4, <3>1, <3>2, <3>3, RowsAreMails
  <2>8. \A e, g \in 1 .. Deliveries, s \in Rows : Emits(e, s)' /\ Emits(g, s)' => e = g
    <3>1. \A e \in 1 .. Deliveries, s \in Rows : Emits(e, s)' => Emits(e, s)
      BY <2>2, <2>3 DEF Emits
    <3>2. QED
      BY <3>1 DEF RecordsPart, NewsInv
  <2>9. QED
    BY <2>5, <2>6, <2>7, <2>8 DEF NewsInv
<1>8. AnalysesInv'
  <2>1. \A e \in 1 .. Deliveries :
          /\ hook'[e].row = hook[e].row
          /\ hook'[e].pc \in {"emit", "ok"} => hook[e].pc \in {"emit", "ok"}
          /\ hook'[e].pc # "new" => hook[e].pc # "new"
    BY <1>1, <1>2, <1>3
  <2>2. QED
    BY <1>1, <2>1 DEF RecordsPart, AnalysesInv
<1>9. QED
  BY <1>5, <1>6, <1>7, <1>8 DEF RecordsPart

----------------------------------------------------------------------------
(* The synchronisation, the office and a crash.                            *)

\* A synchronisation that moves on without writing.
LEMMA SyncMoves ==
  ASSUME RecordsPart, sync' \in SyncType,
         sync'.row # None => row[sync'.row].data # "none",
         sync'.pc \in {"fetched", "write"} =>
           /\ sync'.data \in {call, sync.data} \ {"none"}
           /\ sync'.data = "analyzed" \/ sync'.behind
                \/ \A r \in Rows : row[r].data # "analyzed",
         sync'.data = "analyzed" => call = "analyzed", sync.behind => sync'.behind,
         UNCHANGED <<mail, call, row, hook, admin, lost, address>>
  PROVE  RecordsPart'
<1>1. RecordTypes'
  BY DEF RecordsPart, RecordTypes
<1>2. RecordsInv'
  BY DEF RecordsPart, RecordsInv
<1>3. NewsInv'
  BY DEF RecordsPart, NewsInv, Emits
<1>4. AnalysesInv'
  BY DEF RecordsPart, AnalysesInv
<1>5. QED
  BY <1>1, <1>2, <1>3, <1>4 DEF RecordsPart

LEMMA SyncFetchStep == ASSUME RecordsPart, SyncFetch PROVE RecordsPart'
<1> PICK s \in SyncType : s = sync /\ s.pc = "new"
  BY RecordFacts DEF SyncFetch
<1> PICK c \in {"ended", "analyzed"} : c = call
  BY DEF SyncFetch, RecordsPart, RecordTypes
<1>1. sync' = [s EXCEPT !.pc = "fetched", !.data = c] /\ UNCHANGED <<mail, call, row, hook, admin, lost, address>>
  BY DEF SyncFetch, mailVars
<1>2. sync' \in SyncType /\ sync'.data = c /\ sync'.row = s.row /\ sync'.behind = s.behind
  BY <1>1 DEF SyncType
<1>3. s.row # None => row[s.row].data # "none"
  BY DEF RecordsPart, RecordsInv
<1>4. c = "analyzed" \/ \A r \in Rows : row[r].data # "analyzed"
  BY DEF RecordsPart, AnalysesInv
<1>5. QED
  BY <1>1, <1>2, <1>3, <1>4, SyncMoves

LEMMA SyncFindStep == ASSUME RecordsPart, SyncFind PROVE RecordsPart'
<1> PICK s \in SyncType : s = sync /\ s.pc = "fetched"
  BY RecordFacts DEF SyncFind
<1> PICK f \in Rows \union {None} : f = Found
  BY RecordFacts
<1>1. sync' = [s EXCEPT !.pc = "write", !.row = f] /\ UNCHANGED <<mail, call, row, hook, admin, lost, address>>
  BY DEF SyncFind, mailVars
<1>2. sync' \in SyncType /\ sync'.data = s.data /\ sync'.row = f /\ sync'.behind = s.behind
  BY <1>1 DEF SyncType
<1>3. f # None => row[f].data # "none"
  BY RecordFacts
<1>4. /\ s.data # "none" /\ (s.data = "analyzed" => call = "analyzed")
      /\ s.data = "analyzed" \/ s.behind \/ \A r \in Rows : row[r].data # "analyzed"
  BY DEF RecordsPart, RecordsInv, AnalysesInv
<1>5. QED
  BY <1>1, <1>2, <1>3, <1>4, SyncMoves

LEMMA SyncDoneIs ==
  ASSUME RecordsPart
  PROVE  /\ SyncDone \in SyncType /\ SyncDone.pc = "done" /\ SyncDone.row = None
         /\ SyncDone.data = "none" /\ SyncDone.behind = sync.behind
<1> PICK b \in BOOLEAN : b = sync.behind
  BY RecordFacts
<1>1. SyncDone = [pc |-> "done", row |-> None, data |-> "none", behind |-> b]
  BY DEF SyncDone
<1>2. QED
  BY <1>1 DEF SyncType

\* A synchronisation that writes what it fetched over a record, or on a new one.
LEMMA SyncWrites ==
  ASSUME RecordsPart, sync' = SyncDone, NEW f \in Rows, NEW new \in Records,
         row' = [row EXCEPT ![f] = new], new.data = sync.data, sync.pc = "write",
         \/ row[f].data # "none" /\ new.live = row[f].live /\ new.by = row[f].by
         \/ row[f].data = "none" /\ Live = {} /\ new.by = "sync",
         UNCHANGED <<mail, call, hook, admin, lost, address>>
  PROVE  RecordsPart'
<1>1. \A r \in Rows : row'[r] = IF r = f THEN new ELSE row[r]
  BY RecordFacts
<1>2. /\ sync' \in SyncType /\ sync'.pc = "done" /\ sync'.row = None /\ sync'.data = "none"
      /\ sync'.behind = sync.behind
  BY SyncDoneIs
<1>3. sync.data # "none" /\ new.data # "none"
  BY DEF RecordsPart, RecordsInv
<1>4. RecordTypes'
  <2>1. row' \in [Rows -> Records]
    BY RecordFacts
  <2>2. QED
    BY <1>2, <2>1 DEF RecordsPart, RecordTypes
<1>5. \A r \in Rows : row[r].data # "none" => row'[r].data # "none"
  BY <1>1, <1>3
<1>6. RecordsInv'
  <2>1. \A r \in Rows : row'[r].data = "none" => row'[r] = NoRow
    BY <1>1, <1>3 DEF RecordsPart, RecordsInv
  <2>2. \A r, s \in Rows : row'[r].live /\ row'[s].live => r = s
    <3>1. CASE row[f].data # "none" /\ new.live = row[f].live
      <4>1. \A r \in Rows : row'[r].live = row[r].live
        BY <1>1, <3>1
      <4>2. QED
        BY <4>1 DEF RecordsPart, RecordsInv
    <3>2. CASE Live = {}
      <4>1. \A r \in Rows : row'[r].live => r = f
        BY <1>1, <3>2 DEF Live
      <4>2. QED
        BY <4>1
    <3>3. QED
      BY <3>1, <3>2
  <2>3. \A d \in 1 .. Deliveries : hook'[d].row # None => row'[hook'[d].row].data # "none"
    BY <1>5, RecordFacts DEF RecordsPart, RecordsInv
  <2>4. QED
    BY <1>2, <2>1, <2>2, <2>3 DEF RecordsInv
<1>7. NewsInv'
  <2>1. \A r \in Rows : row'[r].by = "webhook" <=> row[r].by = "webhook"
    <3>1. row[f].data = "none" => row[f].by = "none"
      BY DEF RecordsPart, RecordsInv, NoRow
    <3>2. new.by = "webhook" <=> row[f].by = "webhook"
      BY <3>1
    <3>3. QED
      BY <1>1, <3>2
  <2>2. QED
    BY <2>1, RecordFacts DEF RecordsPart, NewsInv, Emits
<1>8. AnalysesInv'
  <2>1. new.data = "analyzed" => call = "analyzed"
    BY DEF RecordsPart, AnalysesInv
  <2>2. \A r \in Rows : row'[r].data = "analyzed" => call' = "analyzed"
    BY <1>1, <2>1 DEF RecordsPart, AnalysesInv
  <2>3. row[f].data = "analyzed" /\ new.data # "analyzed" => sync.behind
    BY DEF RecordsPart, AnalysesInv
  <2>4. ASSUME NEW d \in 1 .. Deliveries, hook'[d].pc \in {"emit", "ok"}
        PROVE  hook'[d].row # None /\ (row'[hook'[d].row].data = "analyzed" \/ sync'.behind)
    <3> PICK g \in Rows : hook[d].row = g
      BY <2>4, RecordFacts DEF RecordsPart, AnalysesInv
    <3>1. row[g].data = "analyzed" \/ sync.behind
      BY <2>4 DEF RecordsPart, AnalysesInv
    <3>2. row'[g].data = "analyzed" \/ sync'.behind
      BY <1>1, <1>2, <2>3, <3>1
    <3>3. QED
      BY <3>2, RowsAreMails
  <2>5. QED
    BY <1>2, <2>2, <2>4 DEF RecordsPart, AnalysesInv
<1>9. QED
  BY <1>4, <1>6, <1>7, <1>8 DEF RecordsPart

LEMMA SyncWriteStep == ASSUME RecordsPart, SyncWrite PROVE RecordsPart'
<1>1. sync.pc = "write" /\ sync' = SyncDone /\ UNCHANGED <<mail, call, hook, admin, lost, address>>
  BY DEF SyncWrite, mailVars
<1> PICK c \in {"ended", "analyzed"} : c = sync.data
  BY <1>1, RecordFacts DEF RecordsPart, RecordsInv, SyncType
<1>2. ASSUME sync.row # None, row' = [row EXCEPT ![sync.row].data = sync.data]
      PROVE  RecordsPart'
  <2> PICK f \in Rows : f = sync.row
    BY <1>2, RecordFacts
  <2> PICK rec \in Records : rec = row[f]
    BY RecordFacts
  <2> PICK new : new = [rec EXCEPT !.data = c]
    OBVIOUS
  <2>1. new \in Records /\ new.data = sync.data /\ new.live = rec.live /\ new.by = rec.by
    BY DEF Records
  <2>2. row' = [row EXCEPT ![f] = new]
    BY <1>2, RecordFacts
  <2>3. row[f].data # "none"
    BY <1>2 DEF RecordsPart, RecordsInv
  <2>4. QED
    BY <1>1, <2>1, <2>2, <2>3, SyncWrites
<1>3. CASE UNCHANGED row
  BY <1>1, <1>3, SyncDoneIs, SyncMoves
<1>4. ASSUME Live = {}, HasFree,
             row' = [row EXCEPT ![Fresh] = [live |-> TRUE, data |-> sync.data, by |-> "sync"]]
      PROVE  RecordsPart'
  <2> PICK f \in Rows : f = Fresh /\ row[f].data = "none"
    BY <1>4, FreshIs
  <2> PICK new : new = [live |-> TRUE, data |-> c, by |-> "sync"]
    OBVIOUS
  <2>1. new \in Records /\ new.data = sync.data /\ new.by = "sync"
    BY DEF Records
  <2>2. row' = [row EXCEPT ![f] = new]
    BY <1>4
  <2>3. QED
    BY <1>1, <1>4, <2>1, <2>2, SyncWrites
<1>5. QED
  BY <1>2, <1>3, <1>4 DEF SyncWrite

\* A record that is there is deleted, or restored when no other one is live.
LEMMA OfficeStep ==
  ASSUME RecordsPart, NEW r \in Rows, Delete(r) \/ Restore(r) PROVE RecordsPart'
<1> PICK live \in BOOLEAN : row' = [row EXCEPT ![r].live = live] /\ (live => Live = {})
  BY DEF Delete, Restore
<1> PICK rec \in Records : rec = row[r]
  BY RecordFacts
<1> PICK new : new = [rec EXCEPT !.live = live]
  OBVIOUS
<1>1. new \in Records /\ new.live = live /\ new.data = rec.data /\ new.by = rec.by
  BY DEF Records
<1>2. \A s \in Rows : row'[s] = IF s = r THEN new ELSE row[s]
  BY RecordFacts
<1>3. \A s \in Rows : row'[s].data = row[s].data /\ row'[s].by = row[s].by
  BY <1>1, <1>2
<1>4. UNCHANGED <<mail, call, hook, sync, lost, address>> /\ admin' \in 0 .. MaxAdmin
  <2>1. admin \in 0 .. MaxAdmin /\ MaxAdmin \in Nat
    BY RetellIngestAssumption DEF RecordsPart, RecordTypes
  <2>2. QED
    BY <2>1 DEF Delete, Restore, mailVars
<1>5. RecordTypes'
  <2>1. row' \in [Rows -> Records]
    BY <1>1, <1>2, RecordFacts
  <2>2. QED
    BY <1>4, <2>1 DEF RecordsPart, RecordTypes
<1>6. rec.data # "none"
  <2>1. rec.live => rec.data # "none"
    BY DEF RecordsPart, RecordsInv, NoRow
  <2>2. QED
    BY <2>1 DEF Delete, Restore
<1>7. RecordsInv'
  <2>1. \A s \in Rows : row'[s].data = "none" => row'[s] = NoRow
    BY <1>1, <1>2, <1>6 DEF RecordsPart, RecordsInv
  <2>2. \A s, t \in Rows : row'[s].live /\ row'[t].live => s = t
    <3>1. CASE live
      BY <1>1, <1>2, <3>1 DEF Live
    <3>2. CASE ~live
      BY <1>1, <1>2, <3>2 DEF RecordsPart, RecordsInv
    <3>3. QED
      BY <3>1, <3>2
  <2>3. QED
    BY <1>3, <1>4, <2>1, <2>2, RecordFacts DEF RecordsPart, RecordsInv
<1>8. NewsInv'
  BY <1>3, <1>4, RecordFacts DEF RecordsPart, NewsInv, Emits
<1>9. AnalysesInv'
  BY <1>3, <1>4, RecordFacts DEF RecordsPart, AnalysesInv
<1>10. QED
  BY <1>5, <1>7, <1>8, <1>9 DEF RecordsPart

LEMMA EditCompanyStep ==
  ASSUME RecordsPart, EditCompany PROVE RecordsPart'
<1>1. UNCHANGED <<mail, call, row, hook, sync, lost>>
  BY DEF EditCompany, mailVars
<1>2. RecordTypes'
  <2>1. admin \in 0 .. MaxAdmin /\ MaxAdmin \in Nat
    BY RetellIngestAssumption DEF RecordsPart, RecordTypes
  <2>2. admin' \in 0 .. MaxAdmin /\ address' \in BOOLEAN
    BY <2>1 DEF EditCompany
  <2>3. QED
    BY <1>1, <2>2 DEF RecordsPart, RecordTypes
<1>3. RecordsInv' /\ NewsInv' /\ AnalysesInv'
  BY <1>1 DEF RecordsPart, RecordsInv, NewsInv, Emits, AnalysesInv
<1>4. QED
  BY <1>2, <1>3 DEF RecordsPart

LEMMA CrashStep ==
  ASSUME RecordsPart, Crash,
         \A k \in Mails : mail'[k].st = "none" <=> mail[k].st = "none"
  PROVE  RecordsPart'
<1> PICK gone : gone = [pc |-> "failed", row |-> None]
  OBVIOUS
<1>1. gone \in HookType /\ gone.pc = "failed" /\ gone.row = None
  BY DEF HookType
<1>2. hook' = [d \in 1 .. Deliveries |-> IF Running(d) THEN gone ELSE hook[d]]
  BY DEF Crash
<1>3. \A d \in 1 .. Deliveries :
        /\ hook'[d] = gone \/ (hook'[d] = hook[d] /\ ~Running(d))
        /\ hook'[d] = gone => hook[d].pc # "new" \/ hook[d] = gone
  BY <1>2 DEF Running
<1>4. UNCHANGED <<call, row, admin, address>>
  BY DEF Crash
<1>5. \A d \in 1 .. Deliveries, r \in Rows : Emits(d, r) => r \in lost'
  BY DEF Crash, Emits
<1>6. lost \subseteq lost' /\ lost' \subseteq Rows
  <2>1. \A d \in 1 .. Deliveries : hook[d].pc = "emit" => hook[d].row \in Rows
    BY RecordFacts DEF RecordsPart, NewsInv
  <2>2. QED
    BY <2>1 DEF Crash, RecordsPart, RecordTypes
<1>7. /\ sync' \in SyncType /\ sync'.pc \notin {"fetched", "write"} /\ sync'.behind = sync.behind
      /\ sync'.row # None => sync'.row = sync.row
      /\ sync'.data = "analyzed" => sync.data = "analyzed"
  <2>1. sync' = IF sync.pc = "new" THEN sync ELSE SyncDone
    BY DEF Crash
  <2>2. QED
    BY <2>1, SyncDoneIs, RecordFacts
<1>8. RecordTypes'
  <2>1. hook' \in [1 .. Deliveries -> HookType]
    BY <1>1, <1>2, RecordFacts
  <2>2. QED
    BY <1>4, <1>6, <1>7, <2>1 DEF RecordsPart, RecordTypes
<1>9. RecordsInv'
  BY <1>1, <1>3, <1>4, <1>7 DEF RecordsPart, RecordsInv
<1>10. \A r \in Rows : mail'[r].st = "none" <=> mail[r].st = "none"
  BY RowsAreMails
<1>11. NewsInv'
  <2>1. \A d \in 1 .. Deliveries : hook'[d].pc # "emit"
    BY <1>1, <1>3 DEF Running
  <2>2. \A r \in Rows : row'[r].by = "webhook" /\ mail'[r].st = "none" => r \in lost'
    BY <1>4, <1>5, <1>6, <1>10 DEF RecordsPart, NewsInv
  <2>3. \A r \in Rows : mail'[r].st # "none" => row'[r].by = "webhook"
    BY <1>4, <1>10 DEF RecordsPart, NewsInv
  <2>4. QED
    BY <2>1, <2>2, <2>3 DEF NewsInv, Emits
<1>12. AnalysesInv'
  <2>1. \A d \in 1 .. Deliveries : hook'[d].pc # "new" => call = "analyzed"
    BY <1>2, <1>3 DEF RecordsPart, AnalysesInv, Running
  <2>2. \A d \in 1 .. Deliveries : hook'[d].pc \in {"emit", "ok"} => hook'[d] = hook[d]
    BY <1>1, <1>3
  <2>3. QED
    BY <1>4, <1>7, <2>1, <2>2 DEF RecordsPart, AnalysesInv
<1>13. QED
  BY <1>8, <1>9, <1>11, <1>12 DEF RecordsPart

----------------------------------------------------------------------------

LEMMA IngestStart == Init => IngestInv
  BY MailsStart, RecordsStart DEF IngestInv

LEMMA IngestStep == IngestInv /\ [Next]_vars => IngestInv'
<1> SUFFICES ASSUME IngestInv, [Next]_vars PROVE MailsInv' /\ RecordsPart'
  BY DEF IngestInv, RecordsPart
<1>1. MailsInv /\ RecordsPart
  BY DEF IngestInv, RecordsPart
<1>2. CASE MailNext /\ UNCHANGED retellVars
  BY <1>1, <1>2, MailsNext, QueueStep
<1>3. CASE CallGoesOn
  <2>1. UNCHANGED mailVars
    BY <1>3 DEF CallGoesOn
  <2>2. QED
    BY <1>1, <1>3, <2>1, CallGoesOnStep, MailsStay
<1>4. ASSUME NEW d \in 1 .. Deliveries, Deliver(d) PROVE MailsInv' /\ RecordsPart'
  <2>1. UNCHANGED mailVars
    BY <1>4 DEF Deliver
  <2>2. QED
    BY <1>1, <1>4, <2>1, DeliverStep, MailsStay
<1>5. ASSUME NEW d \in 1 .. Deliveries, HookWrite(d) PROVE MailsInv' /\ RecordsPart'
  <2>1. UNCHANGED mailVars
    BY <1>5 DEF HookWrite
  <2>2. QED
    BY <1>1, <1>5, <2>1, HookWriteStep, MailsStay
<1>6. ASSUME NEW d \in 1 .. Deliveries, Emit(d) PROVE MailsInv' /\ RecordsPart'
  <2>1. hook[d].pc = "emit"
    BY <1>6 DEF Emit, NotifyNewCall, SkipAlert
  <2> PICK r \in Rows : hook[d].row = r /\ mail[r].st = "none"
    BY <1>1, <2>1, RecordFacts DEF RecordsPart, NewsInv
  <2>2. r \in Mails
    BY RowsAreMails
  <2>3. lost \subseteq Rows
    BY <1>1 DEF RecordsPart, RecordTypes
  <2>4. CASE NotifyNewCall(d)
    <3>1. MailsInv' /\ mail'[r].st # "none" /\ \A k \in Mails \ {r} : mail'[k] = mail[k]
      BY <1>1, <2>2, <2>4, MailsEmit
    <3>2. lost' = lost
      BY <2>4 DEF NotifyNewCall
    <3>3. QED
      BY <1>1, <1>6, <2>3, <3>1, <3>2, EmitStep
  <2>5. CASE SkipAlert(d)
    <3>1. UNCHANGED <<mail, breaker, up>> /\ lost' = lost \union {r}
      BY <2>5 DEF SkipAlert
    <3>2. faults' \in 0 .. MaxFaults
      BY <1>1, <2>5, MailQueueAssumption DEF SkipAlert, Fault, MailsInv, MailTypes
    <3>3. MailsInv'
      BY <1>1, <3>1, <3>2 DEF MailsInv, MailTypes, OnItsWay, Mailed, Patient
    <3>4. QED
      BY <1>1, <1>6, <2>3, <3>1, <3>3, EmitStep
  <2>6. QED
    BY <1>6, <2>4, <2>5 DEF Emit
<1>7. ASSUME NEW d \in 1 .. Deliveries, HookFails(d) PROVE MailsInv' /\ RecordsPart'
  <2>1. UNCHANGED <<mail, breaker, up>> /\ faults' \in 0 .. MaxFaults
    BY <1>1, <1>7, MailQueueAssumption DEF HookFails, Fault, MailsInv, MailTypes
  <2>2. MailsInv'
    BY <1>1, <2>1 DEF MailsInv, MailTypes, OnItsWay, Mailed, Patient
  <2>3. QED
    BY <1>1, <1>7, <2>2, HookFailsStep
<1>8. CASE SyncFetch \/ SyncFind \/ SyncWrite
  <2>1. UNCHANGED mailVars
    BY <1>8 DEF SyncFetch, SyncFind, SyncWrite
  <2>2. QED
    BY <1>1, <1>8, <2>1, SyncFetchStep, SyncFindStep, SyncWriteStep, MailsStay
<1>9. ASSUME NEW r \in Rows, Delete(r) \/ Restore(r) PROVE MailsInv' /\ RecordsPart'
  <2>1. UNCHANGED mailVars
    BY <1>9 DEF Delete, Restore
  <2>2. QED
    BY <1>1, <1>9, <2>1, OfficeStep, MailsStay
<1>10. CASE EditCompany
  <2>1. UNCHANGED mailVars
    BY <1>10 DEF EditCompany
  <2>2. QED
    BY <1>1, <1>10, <2>1, EditCompanyStep, MailsStay
<1>11. CASE Crash
  <2>1. Fault /\ WorkerStops /\ up' = up
    BY <1>11 DEF Crash
  <2>2. MailsInv' /\ \A k \in Mails : mail'[k].st = "none" <=> mail[k].st = "none"
    BY <1>1, <2>1, MailsStop
  <2>3. QED
    BY <1>1, <1>11, <2>2, CrashStep
<1>12. CASE UNCHANGED vars
  <2>1. UNCHANGED mailVars /\ UNCHANGED retellVars
    BY <1>12 DEF vars
  <2>2. mail' = mail
    BY <2>1 DEF mailVars
  <2>3. QED
    BY <1>1, <2>1, <2>2, MailsStay, QueueStep
<1>13. QED
  BY <1>2, <1>3, <1>4, <1>5, <1>6, <1>7, <1>8, <1>9, <1>10, <1>11, <1>12 DEF Next, Hook

LEMMA IngestCorrect == Spec => []IngestInv
  BY IngestStart, IngestStep, PTL DEF Spec

\* Deliveries do what they are answered for: one record that is not deleted, one
\* mail for a record they insert unless it is among those lost, the analysis on the record unless an older image
\* was already on its way, and no more calls to the provider than attempts.
THEOREM DeliveriesCorrect == Spec => []DeliveriesAreKept
<1>1. IngestInv => DeliveriesAreKept
  <2> SUFFICES ASSUME IngestInv PROVE DeliveriesAreKept
    OBVIOUS
  <2>1. RecordsPart /\ MailsInv
    BY DEF IngestInv, RecordsPart
  <2>2. MailTypeOK
    BY <2>1, StartsOrdered DEF MailsInv, MailTypes, MailType, MailTypeOK
  <2>3. Cardinality(Live) <= 1
    <3>1. CASE Live = {}
      BY <3>1, FS_EmptySet
    <3>2. CASE Live # {}
      <4> PICK r \in Rows : Live = {r}
        BY <2>1, <3>2 DEF Live, RecordsPart, RecordsInv
      <4>1. Cardinality(Live) = 1
        BY FS_Singleton
      <4>2. QED
        BY <4>1
    <3>3. QED
      BY <3>1, <3>2
  <2>4. TypeOK
    BY <2>1, <2>2, <2>3 DEF RecordsPart, RecordTypes, Records, HookType, TypeOK
  <2>5. InsertsAreMailed /\ AnalysesAreKept
    BY <2>1 DEF RecordsPart, NewsInv, Emits, AnalysesInv, InsertsAreMailed, AnalysesAreKept
  <2>6. ProviderCallsAreBounded
    BY <2>1 DEF MailsInv, OnItsWay, Mailed, ProviderCallsAreBounded
  <2>7. QED
    BY <2>4, <2>5, <2>6 DEF DeliveriesAreKept
<1>2. QED
  BY <1>1, IngestCorrect, PTL

\* A mail is given up without a call to the provider only when the breaker opened
\* again after the first attempt, or had to wait for longer than the backoff from
\* the first attempt to the last, or when the worker stopped with it.
THEOREM LateMailsCorrect == Spec => []LateMailsReachTheProvider
<1>1. IngestInv => LateMailsReachTheProvider
  BY DEF IngestInv, MailsInv, MailTypes, MailType, OnItsWay, Patient, LateMailsReachTheProvider
<1>2. QED
  BY <1>1, IngestCorrect, PTL

=============================================================================

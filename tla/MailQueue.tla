------------------------------ MODULE MailQueue ------------------------------
(***************************************************************************)
(* The mail queue (src/src/shared/external/email): mails are put on a      *)
(* queue, and a worker hands them one at a time to the provider, behind a  *)
(* circuit breaker of its own.  The queue alone retries, with longer and   *)
(* longer waits; the breaker counts consecutive failures.  Time passes in  *)
(* units, and of a wait only what is left of it is kept.                   *)
(***************************************************************************)
EXTENDS Integers, Sequences, FiniteSets

CONSTANTS
  Mails,
  Poison,        \* mails the provider refuses every time
  Starts,        \* when the attempts of the queue start, from the first one on, if
                 \* none takes time; the backoff lies between them
  Threshold,     \* consecutive failures that open the breaker
  HalfOpenAfter, \* how long the breaker stays open
  MaxFaults,     \* bound: outages, crashes, errors of Redis and of the database
  None

ASSUME MailQueueAssumption ==
  /\ Poison \subseteq Mails /\ None \notin Mails /\ MaxFaults \in Nat
  /\ Starts \in Seq(Nat) /\ Starts # <<>> /\ Starts[1] = 0
  /\ \A i, j \in 1 .. Len(Starts) : i < j => Starts[i] < Starts[j]
  /\ Threshold \in Nat \ {0} /\ HalfOpenAfter \in Nat \ {0}

VARIABLES
  mail,     \* the jobs of the queue
  breaker,  \* the breaker of the worker
  up,       \* whether the provider works
  faults

mailVars == <<mail, breaker, up, faults>>

MaxTries == Len(Starts)

\* late is auxiliary: at the first attempt the breaker had longer to wait than all
\* attempts take together, or it has opened since.
NoMail == [st |-> "none", tries |-> 0, wait |-> 0, calls |-> 0, stalls |-> 0,
           late |-> FALSE]
Closed == [fails |-> 0, open |-> FALSE, wait |-> 0]

MailInit ==
  /\ mail = [m \in Mails |-> IF m \in Poison THEN [NoMail EXCEPT !.st = "queued"] ELSE NoMail]
  /\ breaker = Closed /\ up = TRUE /\ faults = 0

Fault == faults < MaxFaults /\ faults' = faults + 1

\* QueuedMailerAdapter.send: on the queue, or, when Redis fails, to the provider at
\* once; the caller logs what that throws, and nothing is tried again.
Enqueued(m) == [mail EXCEPT ![m].st = "queued"]
SentAtOnce(m) == [mail EXCEPT ![m].st = IF up /\ m \notin Poison THEN "sent" ELSE "dropped",
                              ![m].calls = 1]

\* An attempt has failed: the next one after the backoff, or none.
Failed(m, old) ==
  LET tries == old[m].tries + 1 IN
  IF tries = MaxTries
  THEN [old EXCEPT ![m].st = "dropped", ![m].tries = 0]
  ELSE [old EXCEPT ![m].st = "queued", ![m].tries = tries, ![m].wait = Starts[tries + 1] - Starts[tries]]

\* A mail whose wait is over, as the worker takes it.
IsDue(m) == mail[m].st = "queued" /\ mail[m].wait = 0
Noted(m) ==
  IF mail[m].tries = 0
  THEN [mail EXCEPT ![m].late = breaker.wait > Starts[MaxTries]]
  ELSE mail

\* MUTANT of ShortCircuit: what the breaker turns down is one more failure.
ShortCircuitAnew(m) ==
  /\ IsDue(m) /\ breaker.open /\ breaker.wait > 0
  /\ mail' = Failed(m, Noted(m))
  /\ breaker' = [breaker EXCEPT !.wait = HalfOpenAfter]
  /\ UNCHANGED <<up, faults>>

\* While the breaker is open an attempt fails without a call.
ShortCircuit(m) ==
  /\ IsDue(m) /\ breaker.open /\ breaker.wait > 0
  /\ mail' = Failed(m, Noted(m))
  /\ UNCHANGED <<breaker, up, faults>>

\* A closed breaker lets an attempt through, and one that has waited a single test.
LetThrough(m) == IsDue(m) /\ (breaker.open => breaker.wait = 0)

\* The provider takes the mail; a success closes the breaker.
Accept(m) ==
  /\ LetThrough(m) /\ up /\ m \notin Poison
  /\ mail' = [mail EXCEPT ![m] = [NoMail EXCEPT !.st = "sent"]]
  /\ breaker' = Closed
  /\ UNCHANGED <<up, faults>>

\* The breaker after a failure: it opens at the threshold, and when a test fails.
Worse ==
  LET fails == IF breaker.fails < Threshold THEN breaker.fails + 1 ELSE Threshold IN
  IF breaker.open \/ fails = Threshold
  THEN [fails |-> fails, open |-> TRUE, wait |-> HalfOpenAfter]
  ELSE [breaker EXCEPT !.fails = fails]

\* MUTANT of Refuse: a retry of its own before the failure reaches the queue.
RefuseTwice(m) ==
  /\ LetThrough(m) /\ (~up \/ m \in Poison)
  /\ breaker' = Worse
  /\ mail' = Failed(m, [Noted(m) EXCEPT ![m].calls = @ + 2])
  /\ UNCHANGED <<up, faults>>

\* The provider fails, or refuses the mail: the same to the breaker.
Refuse(m) ==
  LET called == [k \in Mails |->
                   [Noted(m)[k] EXCEPT !.calls = IF k = m THEN @ + 1 ELSE @,
                                       !.late = @ \/ (mail[k].st = "queued" /\ Worse.open)]]
  IN  /\ LetThrough(m) /\ (~up \/ m \in Poison)
      /\ breaker' = Worse
      /\ mail' = Failed(m, called)
      /\ UNCHANGED <<up, faults>>

\* The provider goes down, and comes back.
GoDown == up /\ Fault /\ up' = FALSE /\ UNCHANGED <<mail, breaker>>
ComeBack == ~up /\ up' = TRUE /\ UNCHANGED <<mail, breaker, faults>>

\* Time passes.
Less(n) == IF n = 0 THEN 0 ELSE n - 1
Waits == breaker.wait > 0 \/ \E m \in Mails : mail[m].wait > 0

\* MUTANT of Tick: delayed jobs are not taken up again.
TickOfBreaker ==
  /\ Waits
  /\ breaker' = [breaker EXCEPT !.wait = Less(@)]
  /\ UNCHANGED <<mail, up, faults>>

Tick ==
  /\ Waits
  /\ breaker' = [breaker EXCEPT !.wait = Less(@)]
  /\ mail' = [m \in Mails |-> [mail[m] EXCEPT !.wait = Less(@)]]
  /\ UNCHANGED <<up, faults>>

\* The worker stops, perhaps with mail m that the provider may have taken: BullMQ
\* puts a stalled job back once.  The breaker lives in memory and starts closed.
WorkerStops ==
  /\ breaker' = Closed
  /\ \/ UNCHANGED mail
     \/ \E m \in Mails, called \in {0, 1} :
          /\ LetThrough(m)
          /\ mail' = [mail EXCEPT ![m].st = IF mail[m].stalls = 1 THEN "dropped" ELSE @,
                                  ![m].calls = @ + called, ![m].stalls = 1]

\* EmailProcessor.process, one job at a time.
Process == \E m \in Mails : ShortCircuit(m) \/ Accept(m) \/ Refuse(m)
MailNext == Process \/ GoDown \/ ComeBack \/ Tick

----------------------------------------------------------------------------

\* Every variable keeps its type; an open breaker has counted up to the threshold.
MailTypeOK ==
  /\ \A m \in Mails :
       /\ mail[m].st \in {"none", "queued", "sent", "dropped"}
       /\ mail[m].tries \in 0 .. MaxTries /\ mail[m].calls \in Nat /\ mail[m].stalls \in 0 .. 1
  /\ breaker.fails \in 0 .. Threshold /\ breaker.wait \in 0 .. HalfOpenAfter
  /\ (breaker.open => breaker.fails = Threshold)
  /\ up \in BOOLEAN /\ faults \in 0 .. MaxFaults

\* The queue alone retries: the provider is called at most once for every attempt
\* of a mail, and once more for a worker that stopped with it.
ProviderCallsAreBounded ==
  \A m \in Mails :
    /\ mail[m].st = "queued"  => mail[m].calls <= mail[m].tries + mail[m].stalls
    /\ mail[m].st = "dropped" => mail[m].calls <= MaxTries + mail[m].stalls

\* A mail is given up without a call to the provider only when the breaker still
\* had to wait longer, at the first attempt, than all attempts together take, or
\* opened again since, or the worker stopped with it before the call, which
\* costs its time and, the second time, the mail.
LateMailsReachTheProvider ==
  \A m \in Mails :
    mail[m].st = "dropped" /\ mail[m].calls = 0 => mail[m].late \/ mail[m].stalls = 1

\* Every mail on the queue is sent or given up in the end.
MailsAreSettled == []<>(\A m \in Mails : mail[m].st # "queued")

=============================================================================

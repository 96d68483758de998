---------------------------- MODULE AlertDelivery ----------------------------
(***************************************************************************)
(* The outbox after its rows are committed: the dispatcher that follows    *)
(* each scan and the retry requests of operators attempt deliveries in     *)
(* transactions of their own, and the row lock of a delivery is all that   *)
(* orders them.                                                            *)
(*                                                                         *)
(* A dispatcher attempts every pending delivery of its scan in ONE         *)
(* transaction.  What the providers were asked and what they delivered is  *)
(* the world outside the database: a rollback does not take it back.       *)
(*                                                                         *)
(* An operator with an underscore in its name is a seeded fault, used only *)
(* to test a property.                                                     *)
(***************************************************************************)
EXTENDS Integers, FiniteSets

CONSTANTS
  Scans,       \* scans that queued deliveries, numbered in the order they ran
  Retries,     \* retry requests
  Channels,    \* the alert channels deliveries were queued for
  Configured,  \* the channels the process of each worker has a notifier for
  Rank,        \* the order of (created_at, id)
  Delays,      \* RETRY_DELAYS, after the first and after the second failure
  LastTick,    \* bound of the clock
  Nothing      \* no row

Deliveries == Scans \X Channels

Workers == Scans \union Retries

MaxAttempts == 3

Time == 0 .. LastTick

ASSUME DeliveryAssumption ==
  /\ Scans \subseteq Nat
  /\ Configured \in [Workers -> SUBSET Channels]
  /\ Rank \in [Deliveries -> Nat]
  /\ \A d, e \in Deliveries : Rank[d] = Rank[e] => d = e
  /\ Delays \in [1 .. MaxAttempts - 1 -> Nat]
  /\ LastTick \in Nat

VARIABLES
  clock,      \* the time
  failed,     \* the scans committed as FAILED
  rows,       \* alert_deliveries
  worker,     \* dispatchers and retry requests
  calls,      \* how often a provider was asked to send
  received    \* how often the message arrived

vars == <<clock, failed, rows, worker, calls, received>>

-----------------------------------------------------------------------------

\* at is a history field: the time given to the last recorded attempt.
Row == [status: {"PENDING", "SENT", "FAILED"}, attempts: 0 .. MaxAttempts,
        next: SUBSET Nat, at: Nat]

Fresh == [status |-> "PENDING", attempts |-> 0, next |-> {}, at |-> 0]

\* writes holds the rows that the worker's transaction has locked.
WorkerRecord ==
  [pc: {"waiting", "failed", "queued", "working", "done"},
   scan: Scans \union {Nothing}, at: Nat, todo: SUBSET Deliveries,
   writes: [Deliveries -> Row \union {Nothing}]]

NoWrites == [d \in Deliveries |-> Nothing]

WorkerAt(pc, scan) ==
  [pc |-> pc, scan |-> scan, at |-> 0, todo |-> {}, writes |-> NoWrites]

TypeOK ==
  /\ clock \in Time
  /\ failed \subseteq Scans
  /\ rows \in [Deliveries -> Row \union {Nothing}]
  /\ worker \in [Workers -> WorkerRecord]
  /\ calls \in [Deliveries -> Nat]
  /\ received \in [Deliveries -> Nat]

Init ==
  /\ clock = 0
  /\ failed = {}
  /\ rows = NoWrites
  /\ worker = [w \in Workers |-> WorkerAt("waiting", Nothing)]
  /\ calls = [d \in Deliveries |-> 0]
  /\ received = [d \in Deliveries |-> 0]

Tick ==
  /\ clock < LastTick
  /\ clock' = clock + 1
  /\ UNCHANGED <<failed, rows, worker, calls, received>>

-----------------------------------------------------------------------------
(* How a worker comes by its deliveries. *)

\* The scans of a source run one after the other.
CommitScan(s) ==
  /\ worker[s].pc = "waiting"
  /\ \A q \in Scans : q < s => worker[q].pc # "waiting"
  /\ rows' = [d \in Deliveries |-> IF d[1] = s THEN Fresh ELSE rows[d]]
  /\ UNCHANGED <<clock, calls, received>>

\* The router commits, then hands the scan to a background task.
CompleteWithDrift(s) ==
  /\ CommitScan(s)
  /\ worker' = [worker EXCEPT ![s] = WorkerAt("queued", s)]
  /\ UNCHANGED failed

\* The router commits, then dispatches for the source, not for the scan.
FailScan(s) ==
  /\ CommitScan(s)
  /\ worker' = [worker EXCEPT ![s] = WorkerAt("failed", Nothing)]
  /\ failed' = failed \union {s}

LatestFailedScan(s) ==
  /\ worker[s].pc = "failed"
  /\ \E latest \in failed :
       /\ \A q \in failed : q <= latest
       /\ worker' = [worker EXCEPT ![s] = WorkerAt("queued", latest)]
  /\ UNCHANGED <<clock, failed, rows, calls, received>>

Dispatchable(s) ==
  {d \in Deliveries : d[1] = s /\ rows[d] # Nothing /\ rows[d].status = "PENDING"}

ListDispatchable(s) ==
  /\ worker[s].pc = "queued"
  /\ worker' = [worker EXCEPT ![s].pc = "working", ![s].at = clock,
                              ![s].todo = Dispatchable(worker[s].scan)]
  /\ UNCHANGED <<clock, failed, rows, calls, received>>

\* POST /api/v1/alerts/{delivery_id}/retry, whatever the delivery's status.
RequestRetry(w) ==
  /\ worker[w].pc = "waiting"
  /\ \E d \in Deliveries :
       worker' = [worker EXCEPT ![w].pc = "working", ![w].at = clock,
                                ![w].todo = {d}]
  /\ UNCHANGED <<clock, failed, rows, calls, received>>

-----------------------------------------------------------------------------
(* One attempt. *)

IsNext_Unordered(w, d) ==
  /\ worker[w].pc = "working"
  /\ d \in worker[w].todo
  /\ \A e \in worker[w].todo : worker[w].writes[e] = Nothing

IsNext(w, d) ==
  /\ worker[w].pc = "working"
  /\ d \in worker[w].todo
  /\ \A e \in worker[w].todo : Rank[d] <= Rank[e] /\ worker[w].writes[e] = Nothing

LockFree_NoRowLock(d) == TRUE

LockFree(d) == \A w \in Workers : worker[w].writes[d] = Nothing

Due(w, d) == \A time \in rows[d].next : worker[w].at >= time

Attemptable_OneMore(w, d) ==
  /\ rows[d] # Nothing
  /\ rows[d].attempts <= MaxAttempts
  /\ Due(w, d)
  /\ d[2] \in Configured[w]

\* The row is read under its lock; the worker's time is from before the wait.
Attemptable(w, d) ==
  /\ rows[d] # Nothing
  /\ rows[d].attempts < MaxAttempts
  /\ Due(w, d)
  /\ d[2] \in Configured[w]

AttemptStarted(row, time) ==
  [row EXCEPT !.status = "PENDING", !.attempts = @ + 1, !.next = {}, !.at = time]

StartAttempt(w) ==
  /\ \E d \in Deliveries :
       /\ IsNext(w, d)
       /\ LockFree(d)
       /\ Attemptable(w, d)
       /\ worker' = [worker EXCEPT
            ![w].writes[d] = AttemptStarted(rows[d], worker[w].at)]
  /\ UNCHANGED <<clock, failed, rows, calls, received>>

\* An exception leaves the worker: the transaction is rolled back, with what a
\* dispatcher recorded of the deliveries before this one.
RefuseAttempt(w) ==
  /\ \E d \in Deliveries : IsNext(w, d) /\ LockFree(d) /\ ~Attemptable(w, d)
  /\ worker' = [worker EXCEPT ![w] = WorkerAt("done", Nothing)]
  /\ UNCHANGED <<clock, failed, rows, calls, received>>

IsSending(w, d) == d \in worker[w].todo /\ worker[w].writes[d] # Nothing

NextRetry_AfterLast(row) == {row.at + Delays[1]}

NextRetry_FirstDelay(row) ==
  IF row.attempts < MaxAttempts THEN {row.at + Delays[1]} ELSE {}

NextRetry(row) ==
  IF row.attempts < MaxAttempts THEN {row.at + Delays[row.attempts]} ELSE {}

Sent(row) == [row EXCEPT !.status = "SENT", !.next = {}]

NotSent_IgnoresRefusal(row) == [row EXCEPT !.status = "SENT", !.next = {}]

NotSent(row) == [row EXCEPT !.status = "FAILED", !.next = NextRetry(row)]

SendSucceeds(w) ==
  /\ \E d \in Deliveries :
       /\ IsSending(w, d)
       /\ calls' = [calls EXCEPT ![d] = @ + 1]
       /\ received' = [received EXCEPT ![d] = @ + 1]
       /\ worker' = [worker EXCEPT ![w].writes[d] = Sent(@), ![w].todo = @ \ {d}]
  /\ UNCHANGED <<clock, failed, rows>>

\* Refused, unreachable or timed out, before or after the message arrived.
SendFails(w) ==
  /\ \E d \in Deliveries :
       /\ IsSending(w, d)
       /\ calls' = [calls EXCEPT ![d] = @ + 1]
       /\ \E arrived \in {0, 1} : received' = [received EXCEPT ![d] = @ + arrived]
       /\ worker' = [worker EXCEPT ![w].writes[d] = NotSent(@), ![w].todo = @ \ {d}]
  /\ UNCHANGED <<clock, failed, rows>>

CommitAttempts(w) ==
  /\ worker[w].pc = "working"
  /\ worker[w].todo = {}
  /\ rows' = [d \in Deliveries |-> IF worker[w].writes[d] = Nothing
                                   THEN rows[d] ELSE worker[w].writes[d]]
  /\ worker' = [worker EXCEPT ![w] = WorkerAt("done", Nothing)]
  /\ UNCHANGED <<clock, failed, calls, received>>

\* The process dies with the task, or the connection with the transaction.
CrashWorker(w) ==
  /\ worker[w].pc \in {"failed", "queued", "working"}
  /\ worker' = [worker EXCEPT ![w] = WorkerAt("done", Nothing)]
  /\ UNCHANGED <<clock, failed, rows, calls, received>>

AttemptStep(w) ==
  \/ StartAttempt(w) \/ RefuseAttempt(w)
  \/ SendSucceeds(w) \/ SendFails(w) \/ CommitAttempts(w)

DispatchStep(s) == LatestFailedScan(s) \/ ListDispatchable(s)

Terminated == (\A w \in Workers : worker[w].pc = "done") /\ UNCHANGED vars

NextWithoutCrash ==
  \/ Tick
  \/ \E s \in Scans : CompleteWithDrift(s) \/ FailScan(s) \/ DispatchStep(s)
  \/ \E w \in Retries : RequestRetry(w)
  \/ \E w \in Workers : AttemptStep(w)
  \/ Terminated

Next == NextWithoutCrash \/ \E w \in Workers : CrashWorker(w)

Spec == Init /\ [][Next]_vars

CrashFreeSpec == Init /\ [][NextWithoutCrash]_vars

\* A task that was started goes on: both providers answer or time out, and a
\* row lock is granted once it is free.  Requests and the clock owe nothing.
Fairness ==
  /\ \A s \in Scans : WF_vars(DispatchStep(s))
  /\ \A w \in Workers : WF_vars(AttemptStep(w))

FairSpec == Spec /\ Fairness

FairCrashFreeSpec == CrashFreeSpec /\ Fairness

-----------------------------------------------------------------------------
(* Safety. *)

Created == {d \in Deliveries : rows[d] # Nothing}

\* A delivery waits for a retry time exactly when it failed and may be tried
\* again: the third failure, a success and an attempt rolled back leave none
\* behind (notification_service.py:182-196, alerts.py:114-146).
RetryTimeMeansRetryable ==
  \A d \in Created :
    rows[d].next # {} <=> rows[d].status = "FAILED" /\ rows[d].attempts < MaxAttempts

\* The table never claims more than happened: no more attempts than the
\* provider was asked for, and SENT only when a message arrived, although
\* rollbacks and crashes separate the two (notification_service.py:178-203).
RecordsHappened ==
  \A d \in Created :
    /\ rows[d].attempts <= calls[d]
    /\ rows[d].status = "SENT" => received[d] > 0

\* No attempt is recorded over another: each commit adds one to the counter of
\* the deliveries it attempted (alerts.py:54-58, the lock is held to the end).
AttemptsAddUp ==
  [][\A d \in Created :
       rows'[d] # rows[d] => rows'[d].attempts = rows[d].attempts + 1]_vars

\* An attempt that follows a failed one has a time at least that failure's delay
\* later.  The code measures from arrival to arrival: each attempt has the time its
\* request came in, read before any wait for the lock, not the time of the failure
\* (notification_service.py:146-161, 168-169, 183-187).
BackoffKept ==
  [][\A w \in Workers, d \in Created :
       /\ StartAttempt(w)
       /\ worker'[w].writes[d] # worker[w].writes[d]
       /\ rows[d].status = "FAILED"
       => worker[w].at >= rows[d].at + Delays[rows[d].attempts]]_vars

WaitsFor(w, d) == IsNext(w, d) /\ ~LockFree(d)

\* Whoever holds rows and waits for one more waits for a row after all it holds:
\* a chain of waits goes up the order and never closes, also when dispatchers of
\* several failed scans meet on the same list (alerts.py:50, :54-58).
WaitsFollowTheOrder ==
  \A w \in Workers, d, e \in Deliveries :
    worker[w].writes[d] # Nothing /\ WaitsFor(w, e) => Rank[d] < Rank[e]

-----------------------------------------------------------------------------
(* Liveness, under Fairness. *)

\* A dispatcher or a retry that has begun comes to its end: workers that hold
\* one delivery and wait for the next never wait in a circle
\* (alerts.py:50 orders the list the locks are taken in).
WorkersFinish ==
  \A w \in Workers : worker[w].pc = "working" ~> worker[w].pc = "done"

-----------------------------------------------------------------------------
(* What the documentation says and the code does not do. *)

\* docs/architecture.md:200 -- each channel records its own attempt, a failure
\* of one cannot roll back the successful delivery of another.
SuccessIsRecorded ==
  [][\A w \in Workers, d \in Deliveries :
       /\ worker[w].writes[d] # Nothing
       /\ worker[w].writes[d].status = "SENT"
       /\ worker'[w].pc = "done"
       => rows'[d].status = "SENT"]_vars

\* design:138 -- scan failures are reported as operational alerts.
FailureIsReported ==
  \A d \in Deliveries : d[1] \in failed ~> calls[d] > 0
=============================================================================

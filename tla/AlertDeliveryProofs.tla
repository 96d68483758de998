-------------------------- MODULE AlertDeliveryProofs --------------------------
(***************************************************************************)
(* The bookkeeping of the outbox, for any number of scans, retries and     *)
(* channels: what a row says of its attempts is true and the backoff is    *)
(* kept.  The argument is the row lock: a row that a transaction has read  *)
(* is the committed one until that transaction ends.  The locks themselves *)
(* are taken in one order, so that no chain of waits closes.               *)
(***************************************************************************)
EXTENDS AlertDelivery, WellFoundedInduction, TLAPS

-----------------------------------------------------------------------------
(* The invariant. *)

\* A row that tells the truth about a delivery a provider was asked for so often
\* and whose message arrived so often.
Truthful(row, asked, arrived) ==
  /\ row.status = "FAILED" => row.attempts >= 1 /\ row.next = NextRetry(row)
  /\ row.status # "FAILED" => row.next = {}
  /\ row.attempts <= asked
  /\ row.status = "SENT" => arrived > 0

RowsTruthful ==
  \A d \in Deliveries : rows[d] # Nothing => Truthful(rows[d], calls[d], received[d])

\* A worker writes what is one attempt further than the committed row; it is
\* true when the provider has answered.
WritesFollowRows ==
  \A w \in Workers, d \in Deliveries :
    worker[w].writes[d] # Nothing =>
      /\ worker[w].pc = "working"
      /\ rows[d] # Nothing
      /\ worker[w].writes[d].attempts = rows[d].attempts + 1
      /\ d \in worker[w].todo =>
           worker[w].writes[d].status = "PENDING" /\ worker[w].writes[d].next = {}
      /\ d \notin worker[w].todo =>
           Truthful(worker[w].writes[d], calls[d], received[d])

LocksExclude ==
  \A w, v \in Workers, d \in Deliveries :
    worker[w].writes[d] # Nothing /\ worker[v].writes[d] # Nothing => w = v

\* The rows of a scan are created with its commit.
WaitingScansHaveNoRows ==
  \A s \in Scans, c \in Channels : worker[s].pc = "waiting" => rows[<<s, c>>] = Nothing

Bookkeeping ==
  RowsTruthful /\ WritesFollowRows /\ LocksExclude /\ WaitingScansHaveNoRows

-----------------------------------------------------------------------------
(* Records. *)

\* What a worker's record is after each kind of assignment.
LEMMA WorkerAtType ==
  ASSUME NEW pc \in {"waiting", "failed", "queued", "working", "done"},
         NEW s \in Scans \union {Nothing}
  PROVE  /\ WorkerAt(pc, s) \in WorkerRecord
         /\ WorkerAt(pc, s).pc = pc
         /\ \A d \in Deliveries : WorkerAt(pc, s).writes[d] = Nothing
BY DEF WorkerAt, WorkerRecord, NoWrites

LEMMA ClockIsNat == ASSUME TypeOK PROVE clock \in Nat
BY DeliveryAssumption DEF TypeOK, Time

\* The rows an attempt goes through are rows.
LEMMA AttemptTypes ==
  ASSUME NEW row \in Row, NEW time \in Nat
  PROVE  /\ row.attempts < MaxAttempts => AttemptStarted(row, time) \in Row
         /\ Sent(row) \in Row
         /\ row.attempts >= 1 => NotSent(row) \in Row
<1>1. ASSUME row.attempts < MaxAttempts PROVE AttemptStarted(row, time) \in Row
  <2>1. row.attempts + 1 \in 0 .. MaxAttempts
    BY <1>1 DEF Row, MaxAttempts
  <2>2. ASSUME NEW n \in 0 .. MaxAttempts
        PROVE  [row EXCEPT !.status = "PENDING", !.attempts = n, !.next = {}, !.at = time]
                 \in Row
    BY DEF Row
  <2> QED
    BY <2>1, <2>2 DEF AttemptStarted
<1>2. Sent(row) \in Row
  BY DEF Row, Sent
<1>3. ASSUME row.attempts >= 1 PROVE NotSent(row) \in Row
  <2>1. NextRetry(row) \in SUBSET Nat
    <3>1. CASE row.attempts < MaxAttempts
      <4>1. Delays[row.attempts] \in Nat
        BY <1>3, <3>1, DeliveryAssumption DEF Row, MaxAttempts
      <4> QED
        BY <3>1, <4>1 DEF Row, NextRetry
    <3>2. CASE ~(row.attempts < MaxAttempts)
      BY <3>2 DEF NextRetry
    <3> QED
      BY <3>1, <3>2
  <2> QED
    BY <2>1 DEF Row, NotSent
<1> QED
  BY <1>1, <1>2, <1>3

\* Steps that end or restart a worker: it holds no row any more.
LEMMA ReleaseType ==
  ASSUME TypeOK, NEW w \in Workers, NEW s \in Scans \union {Nothing},
         NEW pc \in {"failed", "queued", "done"},
         worker' = [worker EXCEPT ![w] = WorkerAt(pc, s)]
  PROVE  /\ worker' \in [Workers -> WorkerRecord]
         /\ worker'[w].pc = pc
         /\ \A d \in Deliveries : worker'[w].writes[d] = Nothing
         /\ \A v \in Workers \ {w} : worker'[v] = worker[v]
BY WorkerAtType DEF TypeOK

\* A worker takes up deliveries.
LEMMA BeginType ==
  ASSUME TypeOK, NEW w \in Workers, NEW todo \in SUBSET Deliveries,
         worker' = [worker EXCEPT ![w].pc = "working", ![w].at = clock, ![w].todo = todo]
  PROVE  /\ worker' \in [Workers -> WorkerRecord]
         /\ worker'[w].pc = "working" /\ worker'[w].writes = worker[w].writes
         /\ \A v \in Workers \ {w} : worker'[v] = worker[v]
<1>1. worker[w] \in WorkerRecord /\ clock \in Nat
  BY ClockIsNat DEF TypeOK
<1>2. [worker[w] EXCEPT !.pc = "working", !.at = clock, !.todo = todo] \in WorkerRecord
  BY <1>1 DEF WorkerRecord
<1>3. worker' = [worker EXCEPT ![w] =
                   [worker[w] EXCEPT !.pc = "working", !.at = clock, !.todo = todo]]
  OBVIOUS
<1> QED
  BY <1>1, <1>2, <1>3 DEF TypeOK, WorkerRecord

\* A worker writes a row and is through with it.
LEMMA WriteType ==
  ASSUME TypeOK, NEW w \in Workers, NEW d \in Deliveries, NEW row \in Row,
         worker' = [worker EXCEPT ![w].writes[d] = row, ![w].todo = @ \ {d}]
  PROVE  /\ worker' \in [Workers -> WorkerRecord]
         /\ worker'[w].writes = [worker[w].writes EXCEPT ![d] = row]
         /\ worker'[w].todo = worker[w].todo \ {d}
         /\ worker'[w].pc = worker[w].pc
         /\ \A v \in Workers \ {w} : worker'[v] = worker[v]
<1> DEFINE writes == [worker[w].writes EXCEPT ![d] = row]
           todo == worker[w].todo \ {d}
           record == [worker[w] EXCEPT !.writes = writes, !.todo = todo]
<1>1. worker[w] \in WorkerRecord
  BY DEF TypeOK
<1>2. writes \in [Deliveries -> Row \union {Nothing}] /\ todo \in SUBSET Deliveries
  BY <1>1 DEF WorkerRecord
<1>3. worker' = [worker EXCEPT ![w] = record]
  BY <1>1 DEF WorkerRecord, TypeOK
<1> HIDE DEF writes, todo
<1>4. record \in WorkerRecord
  BY <1>1, <1>2 DEF WorkerRecord
<1>5. record.writes = writes /\ record.todo = todo /\ record.pc = worker[w].pc
  BY <1>1 DEF WorkerRecord
<1> HIDE DEF record
<1>6. worker' \in [Workers -> WorkerRecord] /\ worker'[w] = record
  BY <1>3, <1>4 DEF TypeOK
<1> QED
  BY <1>3, <1>5, <1>6 DEF writes, todo, TypeOK

\* The same for a worker that goes on with its list.
LEMMA StartType ==
  ASSUME TypeOK, NEW w \in Workers, NEW d \in Deliveries, NEW row \in Row,
         worker' = [worker EXCEPT ![w].writes[d] = row]
  PROVE  /\ worker' \in [Workers -> WorkerRecord]
         /\ worker'[w].writes = [worker[w].writes EXCEPT ![d] = row]
         /\ worker'[w].todo = worker[w].todo
         /\ worker'[w].pc = worker[w].pc
         /\ \A v \in Workers \ {w} : worker'[v] = worker[v]
<1> DEFINE writes == [worker[w].writes EXCEPT ![d] = row]
           record == [worker[w] EXCEPT !.writes = writes]
<1>1. worker[w] \in WorkerRecord
  BY DEF TypeOK
<1>2. writes \in [Deliveries -> Row \union {Nothing}]
  BY <1>1 DEF WorkerRecord
<1>3. worker' = [worker EXCEPT ![w] = record]
  BY <1>1 DEF WorkerRecord, TypeOK
<1> HIDE DEF writes
<1>4. record \in WorkerRecord
  BY <1>1, <1>2 DEF WorkerRecord
<1>5. record.writes = writes /\ record.todo = worker[w].todo /\ record.pc = worker[w].pc
  BY <1>1 DEF WorkerRecord
<1> HIDE DEF record
<1>6. worker' \in [Workers -> WorkerRecord] /\ worker'[w] = record
  BY <1>3, <1>4 DEF TypeOK
<1> QED
  BY <1>3, <1>5, <1>6 DEF writes, TypeOK

-----------------------------------------------------------------------------
(* What the kinds of steps do to the bookkeeping. *)

\* The truth of a row survives further calls.
LEMMA TruthLasts ==
  ASSUME NEW row \in Row, NEW a \in Nat, NEW b \in Nat, NEW c \in Nat, NEW e \in Nat,
         Truthful(row, a, b), a <= c, b <= e
  PROVE  Truthful(row, c, e)
<1>1. row.attempts \in Nat
  BY DEF Row
<1> QED
  BY <1>1 DEF Truthful

\* A worker that holds no row before and after the step.
LEMMA HoldsNothing ==
  ASSUME TypeOK, Bookkeeping, NEW w \in Workers,
         worker'[w].pc # "waiting",
         \A d \in Deliveries : worker'[w].writes[d] = Nothing,
         \A v \in Workers \ {w} : worker'[v] = worker[v],
         UNCHANGED <<rows, calls, received>>
  PROVE  Bookkeeping'
<1>1. RowsTruthful'
  BY DEF Bookkeeping, RowsTruthful
<1>2. WritesFollowRows'
  BY DEF Bookkeeping, WritesFollowRows
<1>3. LocksExclude'
  BY DEF Bookkeeping, LocksExclude
<1>4. WaitingScansHaveNoRows'
  BY DEF Bookkeeping, WaitingScansHaveNoRows, Workers
<1> QED
  BY <1>1, <1>2, <1>3, <1>4 DEF Bookkeeping

\* A worker that writes one row it holds or takes.
LEMMA WritesOne ==
  ASSUME TypeOK, Bookkeeping, NEW w \in Workers, NEW d \in Deliveries, NEW row,
         rows[d] # Nothing,
         worker[w].pc = "working",
         worker'[w].pc = worker[w].pc,
         worker'[w].writes = [worker[w].writes EXCEPT ![d] = row],
         \A v \in Workers \ {w} : worker'[v] = worker[v] /\ worker[v].writes[d] = Nothing,
         \A e \in Deliveries \ {d} : e \in worker'[w].todo <=> e \in worker[w].todo,
         row.attempts = rows[d].attempts + 1,
         d \in worker'[w].todo => row.status = "PENDING" /\ row.next = {},
         d \notin worker'[w].todo => Truthful(row, calls'[d], received'[d]),
         UNCHANGED rows,
         calls' \in [Deliveries -> Nat], received' \in [Deliveries -> Nat],
         \A e \in Deliveries : calls[e] <= calls'[e] /\ received[e] <= received'[e]
  PROVE  Bookkeeping'
<1> USE DEF Bookkeeping
<1>1. \A e \in Deliveries, r \in Row :
        Truthful(r, calls[e], received[e]) => Truthful(r, calls'[e], received'[e])
  BY TruthLasts DEF TypeOK
<1>2. \A e \in Deliveries : rows[e] # Nothing => rows[e] \in Row
  BY DEF TypeOK
<1>3. \A v \in Workers, e \in Deliveries :
        worker[v].writes[e] # Nothing => worker[v].writes[e] \in Row
  BY DEF TypeOK, WorkerRecord
<1>4. \A e \in Deliveries :
        worker'[w].writes[e] = IF e = d THEN row ELSE worker[w].writes[e]
  BY DEF TypeOK, WorkerRecord
<1>5. RowsTruthful'
  BY <1>1, <1>2 DEF RowsTruthful
<1>6. WritesFollowRows'
  <2> SUFFICES ASSUME NEW v \in Workers, NEW e \in Deliveries,
                      worker'[v].writes[e] # Nothing
               PROVE  /\ worker'[v].pc = "working"
                      /\ rows[e] # Nothing
                      /\ worker'[v].writes[e].attempts = rows[e].attempts + 1
                      /\ e \in worker'[v].todo =>
                           /\ worker'[v].writes[e].status = "PENDING"
                           /\ worker'[v].writes[e].next = {}
                      /\ e \notin worker'[v].todo =>
                           Truthful(worker'[v].writes[e], calls'[e], received'[e])
    BY DEF WritesFollowRows
  <2>1. CASE v = w /\ e = d
    BY <2>1, <1>4
  <2>2. CASE v = w /\ e # d
    <3>1. PICK r \in Row : r = worker[w].writes[e] /\ r = worker'[w].writes[e]
      BY <2>2, <1>3, <1>4
    <3>2. worker[w].writes[e] # Nothing
      BY <2>2, <1>4
    <3>3. e \in worker'[w].todo <=> e \in worker[w].todo
      BY <2>2
    <3>4. /\ rows[e] # Nothing /\ r.attempts = rows[e].attempts + 1
          /\ e \in worker[w].todo => r.status = "PENDING" /\ r.next = {}
          /\ e \notin worker[w].todo => Truthful(r, calls[e], received[e])
      <4> HIDE DEF Bookkeeping
      <4>1. WritesFollowRows
        BY DEF Bookkeeping
      <4>2. /\ rows[e] # Nothing
            /\ worker[w].writes[e].attempts = rows[e].attempts + 1
            /\ e \in worker[w].todo =>
                 worker[w].writes[e].status = "PENDING" /\ worker[w].writes[e].next = {}
            /\ e \notin worker[w].todo =>
                 Truthful(worker[w].writes[e], calls[e], received[e])
        BY <4>1, <3>2 DEF WritesFollowRows
      <4> QED
        BY <4>2, <3>1
    <3>5. e \notin worker[w].todo => Truthful(r, calls'[e], received'[e])
      BY <3>4, <1>1
    <3> QED
      BY <2>2, <3>1, <3>3, <3>4, <3>5
  <2>3. CASE v # w
    BY <2>3, <1>1, <1>3 DEF WritesFollowRows
  <2> QED
    BY <2>1, <2>2, <2>3
<1>7. LocksExclude'
  <2> SUFFICES ASSUME NEW v \in Workers, NEW u \in Workers, NEW e \in Deliveries,
                      worker'[v].writes[e] # Nothing, worker'[u].writes[e] # Nothing
               PROVE  v = u
    BY DEF LocksExclude
  <2>1. CASE e = d
    BY <2>1
  <2>2. CASE e # d
    <3>1. worker[v].writes[e] # Nothing /\ worker[u].writes[e] # Nothing
      BY <2>2, <1>4
    <3> QED
      BY <3>1 DEF LocksExclude
  <2> QED
    BY <2>1, <2>2
<1>8. WaitingScansHaveNoRows'
  BY DEF WaitingScansHaveNoRows, Workers
<1> QED
  BY <1>5, <1>6, <1>7, <1>8

-----------------------------------------------------------------------------
(* Every action keeps the types and the bookkeeping. *)

LEMMA BookkeepingInit == Init => TypeOK /\ Bookkeeping
<1> SUFFICES ASSUME Init PROVE TypeOK /\ Bookkeeping
  OBVIOUS
<1>1. \A w \in Workers : /\ worker[w] \in WorkerRecord
                         /\ \A d \in Deliveries : worker[w].writes[d] = Nothing
  BY WorkerAtType DEF Init
<1>2. TypeOK
  BY <1>1, DeliveryAssumption DEF Init, TypeOK, Time, NoWrites
<1>3. Bookkeeping
  BY <1>1 DEF Init, NoWrites, Bookkeeping, RowsTruthful, WritesFollowRows, LocksExclude,
              WaitingScansHaveNoRows, Workers, Deliveries
<1> QED
  BY <1>2, <1>3

LEMMA TickKeeps ==
  ASSUME TypeOK, Bookkeeping, Tick PROVE TypeOK' /\ Bookkeeping'
<1>1. TypeOK'
  BY DeliveryAssumption DEF Tick, TypeOK, Time
<1>2. Bookkeeping'
  BY DEF Tick, Bookkeeping, RowsTruthful, WritesFollowRows, LocksExclude,
         WaitingScansHaveNoRows
<1> QED
  BY <1>1, <1>2

\* The rows of a scan appear with its commit; no worker held one of them.
LEMMA CommitKeeps ==
  ASSUME TypeOK, Bookkeeping, NEW s \in Scans, NEW t \in Scans \union {Nothing},
         NEW pc \in {"failed", "queued"},
         CommitScan(s), worker' = [worker EXCEPT ![s] = WorkerAt(pc, t)],
         failed' \subseteq Scans
  PROVE  TypeOK' /\ Bookkeeping'
<1> USE DEF Bookkeeping
<1>1. s \in Workers
  BY DEF Workers
<1>2. /\ worker' \in [Workers -> WorkerRecord]
      /\ worker'[s].pc = pc
      /\ \A d \in Deliveries : worker'[s].writes[d] = Nothing
      /\ \A v \in Workers \ {s} : worker'[v] = worker[v]
  BY <1>1, ReleaseType
<1>3. Fresh \in Row
  BY DEF Fresh, Row, MaxAttempts
<1>4. /\ rows' = [d \in Deliveries |-> IF d[1] = s THEN Fresh ELSE rows[d]]
      /\ UNCHANGED <<clock, calls, received>>
      /\ worker[s].pc = "waiting"
  BY DEF CommitScan
<1>5. TypeOK'
  BY <1>2, <1>3, <1>4 DEF TypeOK
<1>6. \A d \in Deliveries : d[1] = s => rows[d] = Nothing
  BY <1>4 DEF WaitingScansHaveNoRows, Deliveries
<1>7. \A d \in Deliveries : Truthful(Fresh, calls[d], received[d])
  BY DEF Truthful, Fresh, TypeOK
<1>8. RowsTruthful'
  BY <1>4, <1>7 DEF RowsTruthful
<1>9. WritesFollowRows'
  <2>1. \A v \in Workers, d \in Deliveries :
          worker[v].writes[d] # Nothing => rows'[d] = rows[d]
    BY <1>4, <1>6 DEF WritesFollowRows
  <2> QED
    BY <2>1, <1>2, <1>4 DEF WritesFollowRows
<1>10. LocksExclude'
  BY <1>2 DEF LocksExclude
<1>11. WaitingScansHaveNoRows'
  <2> SUFFICES ASSUME NEW q \in Scans, NEW c \in Channels, worker'[q].pc = "waiting"
               PROVE  rows'[<<q, c>>] = Nothing
    BY DEF WaitingScansHaveNoRows
  <2>1. q # s /\ worker[q].pc = "waiting" /\ <<q, c>> \in Deliveries
    BY <1>2 DEF Workers, Deliveries
  <2> QED
    BY <2>1, <1>4 DEF WaitingScansHaveNoRows
<1> QED
  BY <1>5, <1>8, <1>9, <1>10, <1>11

\* A worker comes to its end, or waits for its turn, and holds nothing.
LEMMA ReleaseKeeps ==
  ASSUME TypeOK, Bookkeeping, NEW w \in Workers, NEW s \in Scans \union {Nothing},
         NEW pc \in {"failed", "queued", "done"},
         worker' = [worker EXCEPT ![w] = WorkerAt(pc, s)],
         UNCHANGED <<clock, failed, rows, calls, received>>
  PROVE  TypeOK' /\ Bookkeeping'
<1>1. /\ worker' \in [Workers -> WorkerRecord]
      /\ worker'[w].pc = pc
      /\ \A d \in Deliveries : worker'[w].writes[d] = Nothing
      /\ \A v \in Workers \ {w} : worker'[v] = worker[v]
  BY ReleaseType
<1>2. TypeOK'
  BY <1>1 DEF TypeOK
<1>3. Bookkeeping'
  BY <1>1, HoldsNothing
<1> QED
  BY <1>2, <1>3

\* A worker takes up its deliveries, and holds none of them yet.
LEMMA BeginKeeps ==
  ASSUME TypeOK, Bookkeeping, NEW w \in Workers, NEW todo \in SUBSET Deliveries,
         worker[w].pc # "working",
         worker' = [worker EXCEPT ![w].pc = "working", ![w].at = clock, ![w].todo = todo],
         UNCHANGED <<clock, failed, rows, calls, received>>
  PROVE  TypeOK' /\ Bookkeeping'
<1>1. /\ worker' \in [Workers -> WorkerRecord]
      /\ worker'[w].pc = "working" /\ worker'[w].writes = worker[w].writes
      /\ \A v \in Workers \ {w} : worker'[v] = worker[v]
  BY BeginType
<1>2. \A d \in Deliveries : worker'[w].writes[d] = Nothing
  BY <1>1 DEF Bookkeeping, WritesFollowRows
<1>3. TypeOK'
  BY <1>1 DEF TypeOK
<1>4. Bookkeeping'
  BY <1>1, <1>2, HoldsNothing
<1> QED
  BY <1>3, <1>4

LEMMA StartKeeps ==
  ASSUME TypeOK, Bookkeeping, NEW w \in Workers, StartAttempt(w)
  PROVE  TypeOK' /\ Bookkeeping'
<1>1. PICK d \in Deliveries :
        /\ IsNext(w, d) /\ LockFree(d) /\ Attemptable(w, d)
        /\ worker' = [worker EXCEPT ![w].writes[d] = AttemptStarted(rows[d], worker[w].at)]
  BY DEF StartAttempt
<1>2. UNCHANGED <<clock, failed, rows, calls, received>>
  BY DEF StartAttempt
<1>3. rows[d] \in Row /\ rows[d] # Nothing /\ rows[d].attempts < MaxAttempts
  BY <1>1 DEF Attemptable, TypeOK
<1>4. worker[w].at \in Nat
  BY DEF TypeOK, WorkerRecord
<1>5. PICK row \in Row : row = AttemptStarted(rows[d], worker[w].at)
  BY <1>3, <1>4, AttemptTypes
<1>6. row.attempts = rows[d].attempts + 1 /\ row.status = "PENDING" /\ row.next = {}
  BY <1>3, <1>5 DEF AttemptStarted, Row
<1>7. worker' = [worker EXCEPT ![w].writes[d] = row]
  BY <1>1, <1>5
<1>8. /\ worker' \in [Workers -> WorkerRecord]
      /\ worker'[w].writes = [worker[w].writes EXCEPT ![d] = row]
      /\ worker'[w].todo = worker[w].todo
      /\ worker'[w].pc = worker[w].pc
      /\ \A v \in Workers \ {w} : worker'[v] = worker[v]
  BY <1>7, StartType
<1>9. TypeOK'
  BY <1>2, <1>8 DEF TypeOK
<1>10. d \in worker[w].todo /\ worker[w].pc = "working"
  BY <1>1 DEF IsNext
<1>11. \A v \in Workers : worker[v].writes[d] = Nothing
  BY <1>1 DEF LockFree
<1>12. /\ calls' \in [Deliveries -> Nat] /\ received' \in [Deliveries -> Nat]
       /\ \A e \in Deliveries : calls[e] <= calls'[e] /\ received[e] <= received'[e]
  BY <1>2 DEF TypeOK
<1>13. Bookkeeping'
  BY <1>2, <1>3, <1>6, <1>8, <1>10, <1>11, <1>12, WritesOne
<1> QED
  BY <1>9, <1>13

\* The provider has answered: the row is written again, and is true.
LEMMA SendKeeps ==
  ASSUME TypeOK, Bookkeeping, NEW w \in Workers, NEW d \in Deliveries, NEW row \in Row,
         IsSending(w, d),
         row.attempts = worker[w].writes[d].attempts,
         Truthful(row, calls[d] + 1, received'[d]),
         worker' = [worker EXCEPT ![w].writes[d] = row, ![w].todo = @ \ {d}],
         calls' = [calls EXCEPT ![d] = @ + 1],
         received' \in [Deliveries -> Nat],
         \A e \in Deliveries : received[e] <= received'[e],
         UNCHANGED <<clock, failed, rows>>
  PROVE  TypeOK' /\ Bookkeeping'
<1>1. /\ worker' \in [Workers -> WorkerRecord]
      /\ worker'[w].writes = [worker[w].writes EXCEPT ![d] = row]
      /\ worker'[w].todo = worker[w].todo \ {d}
      /\ worker'[w].pc = worker[w].pc
      /\ \A v \in Workers \ {w} : worker'[v] = worker[v]
  BY WriteType
<1>2. calls \in [Deliveries -> Nat] /\ calls' \in [Deliveries -> Nat]
  BY DEF TypeOK
<1>3. TypeOK'
  BY <1>1, <1>2 DEF TypeOK
<1>4. /\ worker[w].writes[d] # Nothing
      /\ worker[w].pc = "working" /\ rows[d] # Nothing
      /\ worker[w].writes[d].attempts = rows[d].attempts + 1
  BY DEF IsSending, Bookkeeping, WritesFollowRows
<1>5. \A v \in Workers \ {w} : worker[v].writes[d] = Nothing
  BY <1>4 DEF Bookkeeping, LocksExclude
<1>6. calls'[d] = calls[d] + 1 /\ \A e \in Deliveries : calls[e] <= calls'[e]
  BY <1>2
<1>7. /\ d \notin worker'[w].todo
      /\ \A e \in Deliveries \ {d} : e \in worker'[w].todo <=> e \in worker[w].todo
  BY <1>1
<1>8. row.attempts = rows[d].attempts + 1
  BY <1>4
<1>9. Truthful(row, calls'[d], received'[d])
  BY <1>6
<1>10. Bookkeeping'
  BY <1>1, <1>2, <1>4, <1>5, <1>6, <1>7, <1>8, <1>9, WritesOne
<1> QED
  BY <1>3, <1>10

\* What is being sent is the next attempt on the committed row.
LEMMA Sending ==
  ASSUME TypeOK, Bookkeeping, NEW w \in Workers, NEW d \in Deliveries, IsSending(w, d)
  PROVE  /\ worker[w].writes[d] \in Row
         /\ worker[w].writes[d].attempts \in 1 .. MaxAttempts
         /\ worker[w].writes[d].attempts <= calls[d] + 1
<1>1. worker[w].writes[d] \in Row /\ worker[w].writes[d] # Nothing
  BY DEF IsSending, TypeOK, WorkerRecord
<1>2. /\ rows[d] # Nothing /\ worker[w].writes[d].attempts = rows[d].attempts + 1
      /\ rows[d].attempts <= calls[d]
  BY <1>1 DEF Bookkeeping, WritesFollowRows, RowsTruthful, Truthful
<1>3. rows[d] \in Row /\ calls[d] \in Nat
  BY <1>2 DEF TypeOK
<1>4. rows[d].attempts \in 0 .. MaxAttempts /\ worker[w].writes[d].attempts \in 0 .. MaxAttempts
  BY <1>1, <1>3 DEF Row
<1> QED
  BY <1>1, <1>2, <1>3, <1>4 DEF MaxAttempts

LEMMA SuccessKeeps ==
  ASSUME TypeOK, Bookkeeping, NEW w \in Workers, SendSucceeds(w)
  PROVE  TypeOK' /\ Bookkeeping'
<1>1. PICK d \in Deliveries :
        /\ IsSending(w, d)
        /\ calls' = [calls EXCEPT ![d] = @ + 1]
        /\ received' = [received EXCEPT ![d] = @ + 1]
        /\ worker' = [worker EXCEPT ![w].writes[d] = Sent(@), ![w].todo = @ \ {d}]
  BY DEF SendSucceeds
<1>2. PICK old \in Row : old = worker[w].writes[d]
  BY <1>1, Sending
<1>3. old.attempts \in 1 .. MaxAttempts /\ old.attempts <= calls[d] + 1
  BY <1>1, <1>2, Sending
<1>4. PICK row \in Row : row = Sent(old)
  BY AttemptTypes
<1>5. row.attempts = old.attempts /\ row.status = "SENT" /\ row.next = {}
  BY <1>4 DEF Sent, Row
<1>6. /\ received \in [Deliveries -> Nat] /\ received' \in [Deliveries -> Nat]
      /\ received'[d] > 0
      /\ \A e \in Deliveries : received[e] <= received'[e]
  BY <1>1 DEF TypeOK
<1>7. Truthful(row, calls[d] + 1, received'[d])
  BY <1>3, <1>5, <1>6 DEF Truthful
<1>8. worker' = [worker EXCEPT ![w].writes[d] = row, ![w].todo = @ \ {d}]
  BY <1>1, <1>2, <1>4 DEF TypeOK, WorkerRecord
<1>9. UNCHANGED <<clock, failed, rows>>
  BY DEF SendSucceeds
<1> QED
  BY <1>1, <1>2, <1>5, <1>6, <1>7, <1>8, <1>9, SendKeeps

LEMMA FailureKeeps ==
  ASSUME TypeOK, Bookkeeping, NEW w \in Workers, SendFails(w)
  PROVE  TypeOK' /\ Bookkeeping'
<1>1. PICK d \in Deliveries, arrived \in {0, 1} :
        /\ IsSending(w, d)
        /\ calls' = [calls EXCEPT ![d] = @ + 1]
        /\ received' = [received EXCEPT ![d] = @ + arrived]
        /\ worker' = [worker EXCEPT ![w].writes[d] = NotSent(@), ![w].todo = @ \ {d}]
  BY DEF SendFails
<1>2. PICK old \in Row : old = worker[w].writes[d]
  BY <1>1, Sending
<1>3. old.attempts \in 1 .. MaxAttempts /\ old.attempts <= calls[d] + 1
  BY <1>1, <1>2, Sending
<1>4. PICK row \in Row : row = NotSent(old)
  BY <1>3, AttemptTypes DEF MaxAttempts
<1>5. row.attempts = old.attempts /\ row.status = "FAILED" /\ row.next = NextRetry(old)
      /\ row.at = old.at
  BY <1>4 DEF NotSent, Row
<1>6. /\ received \in [Deliveries -> Nat] /\ received' \in [Deliveries -> Nat]
      /\ \A e \in Deliveries : received[e] <= received'[e]
  BY <1>1 DEF TypeOK
<1>7. NextRetry(row) = NextRetry(old)
  BY <1>5 DEF NextRetry
<1>8. Truthful(row, calls[d] + 1, received'[d])
  BY <1>3, <1>5, <1>7 DEF Truthful
<1>9. worker' = [worker EXCEPT ![w].writes[d] = row, ![w].todo = @ \ {d}]
  BY <1>1, <1>2, <1>4 DEF TypeOK, WorkerRecord
<1>10. UNCHANGED <<clock, failed, rows>>
  BY DEF SendFails
<1> QED
  BY <1>1, <1>2, <1>5, <1>6, <1>8, <1>9, <1>10, SendKeeps

\* Only this transaction holds the rows it commits, and it is done with them.
LEMMA AttemptsCommitKeeps ==
  ASSUME TypeOK, Bookkeeping, NEW w \in Workers, CommitAttempts(w)
  PROVE  TypeOK' /\ Bookkeeping'
<1> USE DEF Bookkeeping
<1>1. /\ worker[w].pc = "working" /\ worker[w].todo = {}
      /\ rows' = [d \in Deliveries |-> IF worker[w].writes[d] = Nothing
                                       THEN rows[d] ELSE worker[w].writes[d]]
      /\ worker' = [worker EXCEPT ![w] = WorkerAt("done", Nothing)]
      /\ UNCHANGED <<clock, failed, calls, received>>
  BY DEF CommitAttempts
<1>2. /\ worker' \in [Workers -> WorkerRecord]
      /\ worker'[w].pc = "done"
      /\ \A d \in Deliveries : worker'[w].writes[d] = Nothing
      /\ \A v \in Workers \ {w} : worker'[v] = worker[v]
  BY <1>1, ReleaseType
<1>3. TypeOK'
  BY <1>1, <1>2 DEF TypeOK, WorkerRecord
<1>4. RowsTruthful'
  <2> SUFFICES ASSUME NEW d \in Deliveries, rows'[d] # Nothing
               PROVE  Truthful(rows'[d], calls[d], received[d])
    BY <1>1 DEF RowsTruthful
  <2>1. CASE worker[w].writes[d] = Nothing
    <3>1. rows'[d] = rows[d]
      BY <2>1, <1>1
    <3> QED
      BY <3>1 DEF RowsTruthful
  <2>2. CASE worker[w].writes[d] # Nothing
    <3>1. rows'[d] = worker[w].writes[d]
      BY <2>2, <1>1
    <3>2. Truthful(worker[w].writes[d], calls[d], received[d])
      BY <2>2, <1>1 DEF WritesFollowRows
    <3> QED
      BY <3>1, <3>2
  <2> QED
    BY <2>1, <2>2
<1>5. WritesFollowRows'
  <2>1. \A v \in Workers \ {w}, d \in Deliveries :
          worker[v].writes[d] # Nothing => rows'[d] = rows[d]
    BY <1>1 DEF LocksExclude
  <2> QED
    BY <2>1, <1>1, <1>2 DEF WritesFollowRows
<1>6. LocksExclude'
  BY <1>2 DEF LocksExclude
<1>7. WaitingScansHaveNoRows'
  <2> SUFFICES ASSUME NEW s \in Scans, NEW c \in Channels, worker'[s].pc = "waiting"
               PROVE  rows'[<<s, c>>] = Nothing
    BY DEF WaitingScansHaveNoRows
  <2>1. s \in Workers /\ <<s, c>> \in Deliveries
    BY DEF Workers, Deliveries
  <2>2. worker[s].pc = "waiting"
    BY <2>1, <1>2
  <2>3. rows[<<s, c>>] = Nothing
    BY <2>2 DEF WaitingScansHaveNoRows
  <2>4. worker[w].writes[<<s, c>>] = Nothing
    BY <2>1, <2>3 DEF WritesFollowRows
  <2> QED
    BY <2>1, <2>3, <2>4, <1>1
<1> QED
  BY <1>3, <1>4, <1>5, <1>6, <1>7

LEMMA BookkeepingKept ==
  ASSUME TypeOK, Bookkeeping, [Next]_vars PROVE TypeOK' /\ Bookkeeping'
<1>1. CASE Tick
  BY <1>1, TickKeeps
<1>2. ASSUME NEW s \in Scans, CompleteWithDrift(s) PROVE TypeOK' /\ Bookkeeping'
  <2>1. failed' \subseteq Scans
    BY <1>2 DEF CompleteWithDrift, TypeOK
  <2> QED
    BY <1>2, <2>1, CommitKeeps DEF CompleteWithDrift
<1>3. ASSUME NEW s \in Scans, FailScan(s) PROVE TypeOK' /\ Bookkeeping'
  <2>1. failed' \subseteq Scans
    BY <1>3 DEF FailScan, TypeOK
  <2> QED
    BY <1>3, <2>1, CommitKeeps DEF FailScan
<1>4. ASSUME NEW s \in Scans, LatestFailedScan(s) PROVE TypeOK' /\ Bookkeeping'
  <2>1. PICK latest \in Scans : worker' = [worker EXCEPT ![s] = WorkerAt("queued", latest)]
    BY <1>4 DEF LatestFailedScan, TypeOK
  <2> QED
    BY <1>4, <2>1, ReleaseKeeps DEF LatestFailedScan, Workers
<1>5. ASSUME NEW s \in Scans, ListDispatchable(s) PROVE TypeOK' /\ Bookkeeping'
  <2>1. PICK todo \in SUBSET Deliveries : todo = Dispatchable(worker[s].scan)
    BY DEF Dispatchable
  <2>2. worker' = [worker EXCEPT ![s].pc = "working", ![s].at = clock, ![s].todo = todo]
    BY <1>5, <2>1 DEF ListDispatchable
  <2>3. s \in Workers /\ worker[s].pc # "working"
    BY <1>5 DEF ListDispatchable, Workers
  <2>4. UNCHANGED <<clock, failed, rows, calls, received>>
    BY <1>5 DEF ListDispatchable
  <2> QED
    BY <2>2, <2>3, <2>4, BeginKeeps
<1>6. ASSUME NEW w \in Retries, RequestRetry(w) PROVE TypeOK' /\ Bookkeeping'
  <2>1. PICK d \in Deliveries :
          worker' = [worker EXCEPT ![w].pc = "working", ![w].at = clock, ![w].todo = {d}]
    BY <1>6 DEF RequestRetry
  <2>2. PICK todo \in SUBSET Deliveries : todo = {d}
    OBVIOUS
  <2>3. worker' = [worker EXCEPT ![w].pc = "working", ![w].at = clock, ![w].todo = todo]
    BY <2>1, <2>2
  <2>4. w \in Workers /\ worker[w].pc # "working"
    BY <1>6 DEF RequestRetry, Workers
  <2>5. UNCHANGED <<clock, failed, rows, calls, received>>
    BY <1>6 DEF RequestRetry
  <2> QED
    BY <2>3, <2>4, <2>5, BeginKeeps
<1>7. ASSUME NEW w \in Workers, RefuseAttempt(w) \/ CrashWorker(w)
      PROVE  TypeOK' /\ Bookkeeping'
  BY <1>7, ReleaseKeeps DEF RefuseAttempt, CrashWorker
<1>8. CASE Terminated \/ UNCHANGED vars
  <2>1. UNCHANGED vars
    BY <1>8 DEF Terminated
  <2> QED
    BY <2>1 DEF vars, TypeOK, Bookkeeping, RowsTruthful, WritesFollowRows, LocksExclude,
                WaitingScansHaveNoRows
<1> QED
  BY <1>1, <1>2, <1>3, <1>4, <1>5, <1>6, <1>7, <1>8, StartKeeps, SuccessKeeps,
     FailureKeeps, AttemptsCommitKeeps
     DEF Next, NextWithoutCrash, DispatchStep, AttemptStep

-----------------------------------------------------------------------------
(* The theorems. *)

\* The rows, the workers and the counters keep their types, and the bookkeeping
\* holds, for any number of scans, retries and channels (alerts.py, models).
THEOREM BookkeepingHolds == Spec => [](TypeOK /\ Bookkeeping)
<1>1. Init => TypeOK /\ Bookkeeping
  BY BookkeepingInit
<1>2. TypeOK /\ Bookkeeping /\ [Next]_vars => (TypeOK /\ Bookkeeping)'
  BY BookkeepingKept
<1> QED
  BY <1>1, <1>2, PTL DEF Spec

\* No attempt is counted past the limit, and no row is ill-formed.
THEOREM DeliveryTyped == Spec => []TypeOK
BY BookkeepingHolds, PTL

\* A retry time stands in exactly the rows that may be tried again
\* (notification_service.py:182-196).
THEOREM RetryTimes == Spec => []RetryTimeMeansRetryable
<1>1. TypeOK /\ Bookkeeping => RetryTimeMeansRetryable
  <2> SUFFICES ASSUME TypeOK, Bookkeeping, NEW d \in Deliveries, rows[d] # Nothing
               PROVE  rows[d].next # {} <=>
                        rows[d].status = "FAILED" /\ rows[d].attempts < MaxAttempts
    BY DEF RetryTimeMeansRetryable, Created
  <2>1. Truthful(rows[d], calls[d], received[d])
    BY DEF Bookkeeping, RowsTruthful
  <2> QED
    BY <2>1 DEF Truthful, NextRetry
<1> QED
  BY <1>1, BookkeepingHolds, PTL

\* What a row records of its attempts has happened at the provider, whatever was
\* rolled back or crashed (notification_service.py:178-203).
THEOREM RecordsAreTrue == Spec => []RecordsHappened
<1>1. TypeOK /\ Bookkeeping => RecordsHappened
  BY DEF Bookkeeping, RowsTruthful, Truthful, RecordsHappened, Created
<1> QED
  BY <1>1, BookkeepingHolds, PTL

\* Each commit adds exactly one attempt to the deliveries it attempted, however
\* many dispatchers and retries race for them (alerts.py:54-58).
THEOREM AttemptsAreCounted == Spec => AttemptsAddUp
<1> DEFINE Counts ==
      \A d \in Created : rows'[d] # rows[d] => rows'[d].attempts = rows[d].attempts + 1
<1>1. ASSUME TypeOK, Bookkeeping, [Next]_vars PROVE Counts
  <2> SUFFICES ASSUME NEW d \in Deliveries, rows[d] # Nothing, rows'[d] # rows[d]
               PROVE  rows'[d].attempts = rows[d].attempts + 1
    BY DEF Created
  <2>1. ASSUME NEW s \in Scans, CommitScan(s) PROVE FALSE
    <3>1. d[1] = s /\ worker[s].pc = "waiting"
      BY <2>1 DEF CommitScan
    <3>2. PICK q \in Scans, c \in Channels : d = <<q, c>>
      BY DEF Deliveries
    <3>3. WaitingScansHaveNoRows
      BY <1>1 DEF Bookkeeping
    <3> QED
      BY <3>1, <3>2, <3>3 DEF WaitingScansHaveNoRows
  <2>2. ASSUME NEW w \in Workers, CommitAttempts(w)
        PROVE  rows'[d].attempts = rows[d].attempts + 1
    <3>1. worker[w].writes[d] # Nothing /\ rows'[d] = worker[w].writes[d]
      BY <2>2 DEF CommitAttempts
    <3>2. WritesFollowRows
      BY <1>1 DEF Bookkeeping
    <3> QED
      BY <3>1, <3>2 DEF WritesFollowRows
  <2> QED
    BY <1>1, <2>1, <2>2
       DEF Next, NextWithoutCrash, DispatchStep, AttemptStep, vars, Tick, CompleteWithDrift,
           FailScan, LatestFailedScan, ListDispatchable, RequestRetry, StartAttempt,
           RefuseAttempt, SendSucceeds, SendFails, CrashWorker, Terminated
<1>2. TypeOK /\ Bookkeeping /\ [Next]_vars => [Counts]_vars
  BY <1>1
<1> QED
  BY <1>2, BookkeepingHolds, PTL DEF Spec, AttemptsAddUp, Counts

\* An attempt after a failure is made no earlier than its delay allows, although
\* its time is read before the wait for the row (notification_service.py:168-187).
THEOREM BackoffIsKept == Spec => BackoffKept
<1> DEFINE Keeps ==
      \A w \in Workers, d \in Created :
        /\ StartAttempt(w)
        /\ worker'[w].writes[d] # worker[w].writes[d]
        /\ rows[d].status = "FAILED"
        => worker[w].at >= rows[d].at + Delays[rows[d].attempts]
<1>1. ASSUME TypeOK, Bookkeeping PROVE Keeps
  <2> SUFFICES ASSUME NEW w \in Workers, NEW d \in Deliveries, rows[d] # Nothing,
                      StartAttempt(w), worker'[w].writes[d] # worker[w].writes[d],
                      rows[d].status = "FAILED"
               PROVE  worker[w].at >= rows[d].at + Delays[rows[d].attempts]
    BY DEF Created
  <2>1. PICK e \in Deliveries :
          /\ Attemptable(w, e)
          /\ worker' = [worker EXCEPT ![w].writes[e] = AttemptStarted(rows[e], worker[w].at)]
    BY DEF StartAttempt
  <2>2. d = e
    BY <1>1, <2>1 DEF TypeOK, WorkerRecord
  <2>3. rows[d].next = {rows[d].at + Delays[rows[d].attempts]}
    <3>1. Truthful(rows[d], calls[d], received[d])
      BY <1>1 DEF Bookkeeping, RowsTruthful
    <3>2. rows[d].next = NextRetry(rows[d]) /\ rows[d].attempts < MaxAttempts
      BY <3>1, <2>1, <2>2 DEF Truthful, Attemptable
    <3> QED
      BY <3>2 DEF NextRetry
  <2> QED
    BY <2>1, <2>2, <2>3 DEF Attemptable, Due
<1>2. TypeOK /\ Bookkeeping /\ [Next]_vars => [Keeps]_vars
  BY <1>1
<1> QED
  BY <1>2, BookkeepingHolds, PTL DEF Spec, BackoffKept, Keeps
-----------------------------------------------------------------------------
(* The order of the locks. *)

\* What a worker has taken comes before what it has still to take.
LocksBeforeTodo ==
  \A w \in Workers, d, e \in Deliveries :
    worker[w].writes[d] # Nothing /\ e \in worker[w].todo /\ e # d => Rank[d] < Rank[e]

\* A worker that is not at work holds nothing.
LEMMA IdleHoldsNothing ==
  ASSUME Bookkeeping, NEW w \in Workers, worker[w].pc # "working", NEW d \in Deliveries
  PROVE  worker[w].writes[d] = Nothing
BY DEF Bookkeeping, WritesFollowRows

\* Steps that give a worker up, or begin its list, leave it without rows.
LEMMA OrderOfNone ==
  ASSUME LocksBeforeTodo, NEW w \in Workers,
         \A d \in Deliveries : worker'[w].writes[d] = Nothing,
         \A v \in Workers \ {w} : worker'[v] = worker[v]
  PROVE  LocksBeforeTodo'
BY DEF LocksBeforeTodo

LEMMA OrderReleased ==
  ASSUME TypeOK, LocksBeforeTodo, NEW w \in Workers, NEW s \in Scans \union {Nothing},
         NEW pc \in {"failed", "queued", "done"},
         worker' = [worker EXCEPT ![w] = WorkerAt(pc, s)]
  PROVE  LocksBeforeTodo'
BY ReleaseType, OrderOfNone

LEMMA OrderBegun ==
  ASSUME TypeOK, Bookkeeping, LocksBeforeTodo, NEW w \in Workers,
         NEW todo \in SUBSET Deliveries, worker[w].pc # "working",
         worker' = [worker EXCEPT ![w].pc = "working", ![w].at = clock, ![w].todo = todo]
  PROVE  LocksBeforeTodo'
<1>1. /\ worker'[w].writes = worker[w].writes
      /\ \A v \in Workers \ {w} : worker'[v] = worker[v]
  BY BeginType
<1> QED
  BY <1>1, IdleHoldsNothing, OrderOfNone

\* The lock that is taken is the first of the list.
LEMMA OrderStarted ==
  ASSUME TypeOK, LocksBeforeTodo, NEW w \in Workers, StartAttempt(w)
  PROVE  LocksBeforeTodo'
<1>1. PICK d \in Deliveries :
        /\ IsNext(w, d)
        /\ Attemptable(w, d)
        /\ worker' = [worker EXCEPT ![w].writes[d] = AttemptStarted(rows[d], worker[w].at)]
  BY DEF StartAttempt
<1>2. PICK row : row = AttemptStarted(rows[d], worker[w].at)
  OBVIOUS
<1>3. /\ worker'[w].todo = worker[w].todo
      /\ worker'[w].writes = [worker[w].writes EXCEPT ![d] = row]
      /\ \A v \in Workers \ {w} : worker'[v] = worker[v]
  BY <1>1, <1>2 DEF TypeOK, WorkerRecord
<1>4. \A e \in worker[w].todo : e # d => Rank[d] < Rank[e]
  <2> SUFFICES ASSUME NEW e \in worker[w].todo, e # d PROVE Rank[d] < Rank[e]
    OBVIOUS
  <2>1. e \in Deliveries
    BY DEF TypeOK, WorkerRecord
  <2>2. Rank[d] \in Nat /\ Rank[e] \in Nat /\ Rank[d] # Rank[e]
    BY <2>1, DeliveryAssumption
  <2>3. Rank[d] <= Rank[e]
    BY <1>1 DEF IsNext
  <2> QED
    BY <2>2, <2>3
<1>5. \A c \in Deliveries \ {d} : worker'[w].writes[c] = worker[w].writes[c]
  BY <1>3 DEF TypeOK, WorkerRecord
<1> QED
  BY <1>3, <1>4, <1>5 DEF LocksBeforeTodo

\* An answer shortens the list and takes no lock.
LEMMA OrderSent ==
  ASSUME TypeOK, LocksBeforeTodo, NEW w \in Workers, SendSucceeds(w) \/ SendFails(w)
  PROVE  LocksBeforeTodo'
<1>1. PICK d \in Deliveries :
        /\ IsSending(w, d)
        /\ \/ worker' = [worker EXCEPT ![w].writes[d] = Sent(@), ![w].todo = @ \ {d}]
           \/ worker' = [worker EXCEPT ![w].writes[d] = NotSent(@), ![w].todo = @ \ {d}]
  BY DEF SendSucceeds, SendFails
<1>2. /\ worker'[w].todo = worker[w].todo \ {d}
      /\ \A c \in Deliveries \ {d} : worker'[w].writes[c] = worker[w].writes[c]
      /\ \A v \in Workers \ {w} : worker'[v] = worker[v]
  BY <1>1 DEF TypeOK, WorkerRecord
<1>3. worker[w].writes[d] # Nothing
  BY <1>1 DEF IsSending
<1> QED
  BY <1>2, <1>3 DEF LocksBeforeTodo

LEMMA OrderKept ==
  ASSUME TypeOK, Bookkeeping, LocksBeforeTodo, [Next]_vars
  PROVE  LocksBeforeTodo'
<1>1. CASE Tick \/ Terminated \/ UNCHANGED vars
  BY <1>1 DEF Tick, Terminated, vars, LocksBeforeTodo
<1>2. ASSUME NEW s \in Scans, CompleteWithDrift(s) \/ FailScan(s) PROVE LocksBeforeTodo'
  BY <1>2, OrderReleased DEF CompleteWithDrift, FailScan, Workers
<1>3. ASSUME NEW s \in Scans, LatestFailedScan(s) PROVE LocksBeforeTodo'
  <2>1. PICK latest \in Scans : worker' = [worker EXCEPT ![s] = WorkerAt("queued", latest)]
    BY <1>3 DEF LatestFailedScan, TypeOK
  <2> QED
    BY <2>1, OrderReleased DEF Workers
<1>4. ASSUME NEW s \in Scans, ListDispatchable(s) PROVE LocksBeforeTodo'
  <2>1. PICK todo \in SUBSET Deliveries : todo = Dispatchable(worker[s].scan)
    BY DEF Dispatchable
  <2>2. worker' = [worker EXCEPT ![s].pc = "working", ![s].at = clock, ![s].todo = todo]
    BY <1>4, <2>1 DEF ListDispatchable
  <2>3. s \in Workers /\ worker[s].pc # "working"
    BY <1>4 DEF ListDispatchable, Workers
  <2> QED
    BY <2>2, <2>3, OrderBegun
<1>5. ASSUME NEW w \in Retries, RequestRetry(w) PROVE LocksBeforeTodo'
  <2>1. PICK d \in Deliveries :
          worker' = [worker EXCEPT ![w].pc = "working", ![w].at = clock, ![w].todo = {d}]
    BY <1>5 DEF RequestRetry
  <2>2. PICK todo \in SUBSET Deliveries : todo = {d}
    OBVIOUS
  <2>3. worker' = [worker EXCEPT ![w].pc = "working", ![w].at = clock, ![w].todo = todo]
    BY <2>1, <2>2
  <2>4. w \in Workers /\ worker[w].pc # "working"
    BY <1>5 DEF RequestRetry, Workers
  <2> QED
    BY <2>3, <2>4, OrderBegun
<1>6. ASSUME NEW w \in Workers, RefuseAttempt(w) \/ CommitAttempts(w) \/ CrashWorker(w)
      PROVE  LocksBeforeTodo'
  BY <1>6, OrderReleased DEF RefuseAttempt, CommitAttempts, CrashWorker
<1> QED
  BY <1>1, <1>2, <1>3, <1>4, <1>5, <1>6, OrderStarted, OrderSent
     DEF Next, NextWithoutCrash, DispatchStep, AttemptStep

\* What a worker holds comes before what it has still to take, for any number of
\* workers and deliveries, through crashes and refusals (alerts.py:50-58).
THEOREM LocksInOrder == Spec => []LocksBeforeTodo
<1>1. Init => LocksBeforeTodo
  BY WorkerAtType DEF Init, LocksBeforeTodo
<1>2. TypeOK /\ Bookkeeping /\ LocksBeforeTodo /\ [Next]_vars => LocksBeforeTodo'
  BY OrderKept
<1> QED
  BY <1>1, <1>2, BookkeepingHolds, PTL DEF Spec

\* No chain of waits closes: each wait of a worker is for a row that comes after
\* every row the worker holds (alerts.py:50-58).
THEOREM WaitsInOrder == Spec => []WaitsFollowTheOrder
<1>1. LocksBeforeTodo => WaitsFollowTheOrder
  BY DEF LocksBeforeTodo, WaitsFollowTheOrder, WaitsFor, IsNext
<1> QED
  BY <1>1, LocksInOrder, PTL

\* Every worker of the circle holds a row that one of them waits for.
CircularWait(circle) ==
  /\ circle # {}
  /\ \A w \in circle : \E v \in circle, d \in Deliveries :
       worker[w].writes[d] # Nothing /\ WaitsFor(v, d)

\* Every set of natural numbers that is not empty has a least one.
LEMMA LeastNumber ==
  ASSUME NEW numbers \in SUBSET Nat, numbers # {}
  PROVE  \E n \in numbers : \A m \in numbers : n <= m
<1>1. \E n \in numbers : \A m \in numbers : ~ (<<m, n>> \in OpToRel(<, Nat))
  BY NatLessThanWellFounded, WFMin
<1>2. PICK n \in numbers : \A m \in numbers : ~ (<<m, n>> \in OpToRel(<, Nat))
  BY <1>1
<1>3. \A m \in numbers : ~ (m < n)
  BY <1>2 DEF OpToRel
<1> QED
  BY <1>3

\* So no circle of workers wait for each other, however many they are: the one that
\* waits for the least of their rows would hold one that is smaller still
\* (alerts.py:50-58).
THEOREM NoCircularWait == Spec => [](\A circle \in SUBSET Workers : ~CircularWait(circle))
<1>1. WaitsFollowTheOrder => \A circle \in SUBSET Workers : ~CircularWait(circle)
  <2> SUFFICES ASSUME WaitsFollowTheOrder, NEW circle \in SUBSET Workers,
                      CircularWait(circle)
               PROVE  FALSE
    OBVIOUS
  <2> DEFINE contested == {d \in Deliveries : \E v \in circle : WaitsFor(v, d)}
             ranks == {Rank[d] : d \in contested}
  <2>1. ranks \in SUBSET Nat /\ ranks # {}
    BY DeliveryAssumption DEF CircularWait
  <2>2. PICK n \in ranks : \A m \in ranks : n <= m
    BY <2>1, LeastNumber
  <2>3. PICK d \in contested : n = Rank[d]
    BY <2>2
  <2>4. PICK v \in circle : WaitsFor(v, d)
    BY <2>3
  <2>5. PICK e \in Deliveries, u \in circle : worker[v].writes[e] # Nothing /\ WaitsFor(u, e)
    BY DEF CircularWait
  <2>6. Rank[e] < Rank[d]
    BY <2>3, <2>4, <2>5 DEF WaitsFollowTheOrder
  <2>7. Rank[e] \in ranks
    BY <2>5
  <2>8. n <= Rank[e] /\ Rank[e] \in Nat /\ Rank[d] \in Nat
    BY <2>2, <2>7, <2>3, DeliveryAssumption
  <2> QED
    BY <2>3, <2>6, <2>8
<1> QED
  BY <1>1, WaitsInOrder, PTL
=============================================================================

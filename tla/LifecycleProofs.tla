--------------------------- MODULE LifecycleProofs ---------------------------
(***************************************************************************)
(* The rows of the queue follow the abstract lifecycle, and their retries  *)
(* stay within max_retries, for any number of bags, threads and faults, as *)
(* long as nobody else opens the database.                                 *)
(***************************************************************************)
EXTENDS UploadPoolProofs

-----------------------------------------------------------------------------
(* What one call of a worker does to its row, in six kinds.                *)

\* The row keeps its status and retries, and the thread goes on, or to a handler.
Calm(w) ==
  /\ \A b \in Bags : queue'[b].status = queue[b].status /\ queue'[b].retries = queue[b].retries
  /\ pc[w] # "idle" /\ pc'[w] \notin {"idle", "unlink"}
  /\ pc'[w] \in Handling => \/ pc[w] \in Working
                            \/ pc'[w] = pc[w]
                            \/ pc[w] = "unlink" /\ pc'[w] = "count"
  /\ pc[w] = "unlink" => pc'[w] = "count"
  /\ UNCHANGED job
  /\ \/ UNCHANGED tally
     \/ /\ pc[w] \in Handling
        /\ tally' = [tally EXCEPT ![w] = [read |-> TRUE, retries |-> queue[job[w]].retries]]

\* next_ready() failed before it claimed anything.
Lost(w) ==
  /\ UNCHANGED <<queue, job, tally>>
  /\ pc[w] = "idle" /\ pc'[w] = "dead"

Claimed(w) ==
  /\ pc[w] = "idle" /\ pc'[w] \in {"check", "dead"} /\ UNCHANGED tally
  /\ \E b \in Bags : NextReady(b) /\ job' = [job EXCEPT ![w] = b]

Marked(w) ==
  /\ pc[w] \in {"finish", "known"}
  /\ MarkDone(job[w])
  /\ \/ pc'[w] = "unlink" /\ DeleteAfter /\ UNCHANGED <<job, tally>>
     \/ Idle(w)

Unlinked(w) == pc[w] = "unlink" /\ UNCHANGED queue /\ Idle(w)

SettledRow(w) ==
  /\ Idle(w)
  /\ \/ pc[w] = "conflict" /\ MarkConflict(job[w])
     \/ pc[w] = "defer" /\ Defer(job[w])
     \/ /\ pc[w] \in {"fatal", "count"} /\ tally[w].read
        /\ MarkFailed(job[w], tally[w].retries, IF pc[w] = "fatal" THEN 0 ELSE MaxRetries)

Outcome(w) == Calm(w) \/ Lost(w) \/ Claimed(w) \/ Marked(w) \/ Unlinked(w) \/ SettledRow(w)

\* A call of one thread leaves the memory of the others alone.
LEMMA OneThread ==
  ASSUME TypeOK, NEW w \in Workers, WorkerStep(w)
  PROVE  \A v \in Workers : v # w => pc'[v] = pc[v] /\ job'[v] = job[v] /\ tally'[v] = tally[v]
<1> SUFFICES ASSUME NEW v \in Workers, v # w
             PROVE  pc'[v] = pc[v] /\ job'[v] = job[v] /\ tally'[v] = tally[v]
  OBVIOUS
<1>1. CASE Claim(w) \/ CheckLocal(w) \/ Hash(w) \/ Record(w) \/ Measure(w) \/ Resolve(w) \/ Acquire(w)
  BY <1>1 DEF Claim, CheckLocal, Hash, Record, Measure, Resolve, Acquire, Die, Keep, Goto, TypeOK
<1>2. CASE S3Inspect(w) \/ LegacyInspect(w)
  BY <1>2 DEF S3Inspect, LegacyInspect, Look, Keep, Raise, Goto, TypeOK
<1>3. CASE S3Transfer(w) \/ DriveTransfer(w) \/ RsyncTransfer(w) \/ Label(w)
  BY <1>3 DEF S3Transfer, DriveTransfer, RsyncTransfer, Move, Label, Keep, Raise, Goto, TypeOK
<1>4. CASE Confirm(w)
  <2>1. Keep /\ \E stage : Goto(w, stage)
    BY <1>4 DEF Confirm, Raise
  <2> QED
    BY <2>1 DEF Keep, Goto, TypeOK
<1>5. CASE Finish(w) \/ Unlink(w)
  BY <1>5 DEF Finish, Unlink, Idle, Keep, Raise, Goto, TypeOK
<1>6. CASE SettleConflict(w) \/ SettleDefer(w) \/ ReadRetries(w) \/ WriteFailed(w)
  BY <1>6 DEF SettleConflict, SettleDefer, ReadRetries, WriteFailed, Die, Idle, Keep, Goto, TypeOK
<1> QED
  BY <1>1, <1>2, <1>3, <1>4, <1>5, <1>6 DEF WorkerStep

\* A call that moves the thread on and leaves the rows alone.
LEMMA CalmMove ==
  ASSUME TypeOK, NEW w \in Workers, NEW stage \in Stages \ {"idle", "unlink"},
         Goto(w, stage), Keep, pc[w] # "idle",
         \A b \in Bags : queue'[b].status = queue[b].status /\ queue'[b].retries = queue[b].retries,
         stage \in Handling => pc[w] \in Working \/ (pc[w] = "unlink" /\ stage = "count"),
         pc[w] = "unlink" => stage = "count"
  PROVE  Calm(w)
<1>1. pc'[w] = stage
  BY DEF Goto, TypeOK
<1> QED
  BY <1>1 DEF Calm, Keep

LEMMA DeadMove ==
  ASSUME TypeOK, NEW w \in Workers, Die(w), pc[w] \notin {"idle", "unlink"}
  PROVE  Calm(w)
BY CalmMove DEF Die, Stages, Handling

LEMMA WorkerOutcome ==
  ASSUME TypeOK, NEW w \in Workers, WorkerStep(w)
  PROVE  Outcome(w)
<1>q. UNCHANGED queue =>
        \A b \in Bags : queue'[b].status = queue[b].status /\ queue'[b].retries = queue[b].retries
  OBVIOUS
<1>1. CASE Claim(w)
  <2>1. CASE Die(w)
    <3>1. pc'[w] = "dead"
      BY <2>1 DEF Die, Goto, TypeOK
    <3> QED
      BY <1>1, <2>1, <3>1 DEF Claim, Die, Keep, Lost, Outcome
  <2>2. CASE ~Die(w)
    <3>1. pc'[w] \in {"check", "dead"}
      BY <1>1, <2>2 DEF Claim, Goto, TypeOK
    <3> QED
      BY <1>1, <2>2, <3>1 DEF Claim, Claimed, Outcome
  <2> QED
    BY <2>1, <2>2
<1>2. CASE CheckLocal(w)
  <2> DEFINE next == IF SourceGone(w) THEN "fatal"
                     ELSE IF VerifyBlake3 /\ seen[w].digest = NoDigest THEN "hash"
                     ELSE "resolve"
  <2>1. next \in Stages \ {"idle", "unlink"} /\ pc[w] = "check" /\ Goto(w, next) /\ pc[w] \in Working
    BY <1>2 DEF CheckLocal, Stages, Working
  <2> HIDE DEF next
  <2> QED
    BY <1>2, <1>q, <2>1, CalmMove DEF CheckLocal, Outcome
<1>3. CASE Hash(w) \/ Record(w) \/ Measure(w)
  <2>1. CASE Die(w)
    BY <1>3, <2>1, DeadMove DEF Hash, Record, Measure, Outcome
  <2>2. CASE ~Die(w)
    <3>1. /\ pc[w] \in {"hash", "record", "measure"} /\ UNCHANGED <<job, tally>>
          /\ \E stage \in {"record", "measure", "resolve"} : Goto(w, stage)
      BY <1>3, <2>2 DEF Hash, Record, Measure, Keep
    <3>2. pc'[w] \in {"record", "measure", "resolve"}
      BY <3>1 DEF Goto, TypeOK
    <3>3. \A b \in Bags : queue'[b].status = queue[b].status /\ queue'[b].retries = queue[b].retries
      <4>1. queue \in [Bags -> Rows] /\ job[w] \in Bags
        BY <3>1 DEF TypeOK, QueueTypeOK
      <4>2. \/ UNCHANGED queue
            \/ MarkIntegrity(job[w], seen[w].digest, SizeOf[disk[job[w]]])
        BY <1>3, <2>2 DEF Hash, Record, Measure, Keep
      <4>3. CASE MarkIntegrity(job[w], seen[w].digest, SizeOf[disk[job[w]]])
        <5> DEFINE row == [queue[job[w]] EXCEPT !.digest = seen[w].digest, !.size = SizeOf[disk[job[w]]]]
        <5>1. row.status = queue[job[w]].status /\ row.retries = queue[job[w]].retries
          BY <4>1 DEF Rows
        <5>2. queue' = [queue EXCEPT ![job[w]] = row]
          BY <4>3 DEF MarkIntegrity
        <5> HIDE DEF row
        <5> QED
          BY <4>1, <5>1, <5>2
      <4> QED
        BY <1>q, <4>2, <4>3
    <3> QED
      BY <3>1, <3>2, <3>3 DEF Calm, Outcome, Handling
  <2> QED
    BY <2>1, <2>2
<1>4. CASE Resolve(w)
  <2>1. CASE Die(w)
    BY <1>4, <2>1, DeadMove DEF Resolve, Outcome
  <2>2. CASE ~Die(w)
    BY <1>4, <1>q, <2>2, CalmMove DEF Resolve, Stages, Handling, Outcome
  <2> QED
    BY <2>1, <2>2
<1>5. CASE Acquire(w)
  BY <1>5, <1>q, CalmMove DEF Acquire, Stages, Handling, Outcome
<1>6. CASE S3Inspect(w) \/ LegacyInspect(w) \/ S3Transfer(w) \/ DriveTransfer(w) \/ RsyncTransfer(w)
             \/ Label(w) \/ Confirm(w)
  <2>1. pc[w] \in Working
    BY <1>6 DEF S3Inspect, LegacyInspect, Look, S3Transfer, DriveTransfer, RsyncTransfer, Move,
                Label, Confirm, Working
  <2>2. Keep /\ UNCHANGED queue
    BY <1>6 DEF S3Inspect, LegacyInspect, Look, S3Transfer, DriveTransfer, RsyncTransfer, Move,
                Label, Confirm
  <2>3. Kind(job[w]) \in {"s3", "gdrive", "rsync"}
    BY <2>1, StorageAssumption DEF Kind, Working, TypeOK
  <2>4. \E stage \in Stages \ {"idle", "unlink"} : Goto(w, stage)
    BY <1>6, <2>3 DEF S3Inspect, LegacyInspect, S3Transfer, DriveTransfer, RsyncTransfer,
                      Label, Confirm, Raise, Stages
  <2>5. pc[w] \notin {"idle", "unlink"}
    BY <2>1 DEF Working
  <2> QED
    BY <1>q, <2>1, <2>2, <2>4, <2>5, CalmMove DEF Outcome
<1>7. CASE Finish(w)
  <2>1. CASE MarkDone(job[w])
    <3>1. \/ Idle(w)
          \/ DeleteAfter /\ Goto(w, "unlink") /\ Keep
          \/ Goto(w, "count") /\ Keep /\ UNCHANGED queue
      BY <1>7 DEF Finish, Raise
    <3>2. CASE Idle(w)
      BY <1>7, <2>1, <3>2 DEF Finish, Marked, Outcome
    <3>3. CASE DeleteAfter /\ Goto(w, "unlink") /\ Keep
      <4>1. pc'[w] = "unlink"
        BY <3>3 DEF Goto, TypeOK
      <4> QED
        BY <1>7, <2>1, <3>3, <4>1 DEF Finish, Keep, Marked, Outcome
    <3>4. CASE Goto(w, "count") /\ Keep /\ UNCHANGED queue
      BY <1>7, <1>q, <3>4, CalmMove DEF Finish, Stages, Handling, Working, Outcome
    <3> QED
      BY <3>1, <3>2, <3>3, <3>4
  <2>2. CASE ~MarkDone(job[w])
    BY <1>7, <1>q, <2>2, CalmMove DEF Finish, Raise, Stages, Handling, Working, Outcome
  <2> QED
    BY <2>1, <2>2
<1>8. CASE Unlink(w)
  <2>1. CASE Idle(w)
    BY <1>8, <2>1 DEF Unlink, Unlinked, Outcome
  <2>2. CASE ~Idle(w)
    BY <1>8, <1>q, <2>2, CalmMove DEF Unlink, Raise, Stages, Handling, Outcome
  <2> QED
    BY <2>1, <2>2
<1>9. CASE SettleConflict(w) \/ SettleDefer(w) \/ WriteFailed(w)
  <2>1. CASE Die(w)
    BY <1>9, <2>1, DeadMove DEF SettleConflict, SettleDefer, WriteFailed, Outcome
  <2>2. CASE ~Die(w)
    BY <1>9, <2>2 DEF SettleConflict, SettleDefer, WriteFailed, SettledRow, Outcome
  <2> QED
    BY <2>1, <2>2
<1>10. CASE ReadRetries(w)
  BY <1>10, <1>q DEF ReadRetries, Calm, Handling, Outcome
<1> QED
  BY <1>1, <1>2, <1>3, <1>4, <1>5, <1>6, <1>7, <1>8, <1>9, <1>10 DEF WorkerStep

-----------------------------------------------------------------------------
(* Handlers know their rows.                                               *)

\* Which status a handler may find, and what it has read of the retries; a row that is
\* done gets there only by an unlink() that failed.
Informed(w) ==
  /\ pc[w] \in {"conflict", "defer", "fatal"} => queue[job[w]].status = "uploading"
  /\ pc[w] = "count" => queue[job[w]].status = "uploading" \/ DeleteAfter
  /\ pc[w] = "unlink" => DeleteAfter
  /\ pc[w] = "idle" => ~tally[w].read
  /\ tally[w].read /\ job[w] # NoJob => tally[w].retries = queue[job[w]].retries

HandlerInv == spent["open"] = 0 => RetryBudget /\ \A w \in Workers : Informed(w)

\* No row held by another thread is touched.
LEMMA Elsewhere ==
  ASSUME TypeOK, LedgerInv, spent["open"] = 0, NEW w \in Workers, WorkerStep(w),
         NEW v \in Workers, v # w, job[v] # NoJob
  PROVE  queue'[job[v]].status = queue[job[v]].status /\ queue'[job[v]].retries = queue[job[v]].retries
<1>1. /\ job[v] \in Bags /\ job[w] \in Bags \cup {NoJob} /\ job[v] # job[w]
      /\ queue[job[v]].status # "queued" /\ queue \in [Bags -> Rows]
      /\ pc[w] \notin {"idle", "dead"} => job[w] \in Bags
  BY DEF TypeOK, QueueTypeOK, LedgerInv
<1>2. CASE Calm(w) \/ Lost(w) \/ Unlinked(w)
  BY <1>1, <1>2 DEF Calm, Lost, Unlinked
<1>3. CASE Claimed(w)
  BY <1>1, <1>3 DEF Claimed, NextReady, Ready
<1>4. CASE Marked(w)
  BY <1>1, <1>4 DEF Marked, MarkDone
<1>5. CASE SettledRow(w)
  BY <1>1, <1>5 DEF SettledRow, MarkConflict, Defer, MarkFailed
<1> QED
  BY <1>2, <1>3, <1>4, <1>5, WorkerOutcome DEF Outcome

\* What mark_failed() makes of a row, when it has read its retries.
LEMMA FailedRow ==
  ASSUME TypeOK, NEW w \in Workers, SettledRow(w), job[w] \in Bags
  PROVE  /\ \A b \in Bags \ {job[w]} : queue'[b] = queue[b]
         /\ \/ /\ pc[w] = "conflict" /\ queue'[job[w]].status = "conflict"
               /\ queue'[job[w]].retries = queue[job[w]].retries
            \/ /\ pc[w] = "defer" /\ queue'[job[w]].status = "queued"
               /\ queue'[job[w]].retries = queue[job[w]].retries
            \/ /\ pc[w] \in {"fatal", "count"} /\ tally[w].read
               /\ \/ queue'[job[w]].status = "failed"
                  \/ /\ pc[w] = "count" /\ queue'[job[w]].status = "queued"
                     /\ queue'[job[w]].retries < MaxRetries
<1>1. queue \in [Bags -> Rows] /\ queue[job[w]] \in Rows /\ tally[w].retries \in Nat /\ MaxRetries \in Nat
  BY QueueAssumption DEF TypeOK, QueueTypeOK
<1>2. CASE pc[w] = "conflict" /\ MarkConflict(job[w])
  BY <1>1, <1>2 DEF MarkConflict, Rows
<1>3. CASE pc[w] = "defer" /\ Defer(job[w])
  BY <1>1, <1>3 DEF Defer, Rows
<1>4. ASSUME NEW limit \in Nat, MarkFailed(job[w], tally[w].retries, limit)
      PROVE  /\ \A b \in Bags \ {job[w]} : queue'[b] = queue[b]
             /\ \/ queue'[job[w]].status = "failed"
                \/ queue'[job[w]].status = "queued" /\ queue'[job[w]].retries < limit
             /\ limit = 0 => queue'[job[w]].status = "failed"
  <2> DEFINE n    == tally[w].retries + 1
             over == [queue[job[w]] EXCEPT !.status = "failed", !.retries = n]
             more == [queue[job[w]] EXCEPT !.status = "queued", !.retries = n, !.due = FALSE]
  <2>1. queue' = [queue EXCEPT ![job[w]] = IF n >= limit THEN over ELSE more]
    BY <1>4 DEF MarkFailed
  <2>2. n \in Nat
    BY <1>1
  <2> HIDE DEF n
  <2>3. over.status = "failed" /\ more.status = "queued" /\ more.retries = n
    BY <1>1 DEF Rows
  <2> HIDE DEF over, more
  <2>4. queue'[job[w]] = IF n >= limit THEN over ELSE more
    BY <1>1, <2>1
  <2> QED
    BY <1>1, <2>1, <2>2, <2>3, <2>4
<1> QED
  BY <1>1, <1>2, <1>3, <1>4 DEF SettledRow

\* What the start of the service makes of a row.
LEMMA StartedRow ==
  ASSUME TypeOK, Start, NEW b \in Bags
  PROVE  IF RetryFailedOnStart /\ queue[b].status = "failed"
         THEN queue'[b].status = "queued" /\ queue'[b].retries = 0
         ELSE /\ queue'[b].status = IF queue[b].status = "uploading" THEN "queued" ELSE queue[b].status
              /\ queue'[b].retries = queue[b].retries
<1> DEFINE r == IF queue[b].status = "uploading" THEN [queue[b] EXCEPT !.status = "queued"] ELSE queue[b]
<1>1. queue[b] \in Rows
  BY DEF TypeOK, QueueTypeOK
<1>2. Recovered(queue)[b] = r
  BY DEF Recovered
<1>3. /\ r \in Rows /\ r.retries = queue[b].retries
      /\ r.status = IF queue[b].status = "uploading" THEN "queued" ELSE queue[b].status
  BY <1>1 DEF Rows, Statuses
<1> HIDE DEF r
<1>4. CASE RetryFailedOnStart
  <2>1. queue'[b] = IF r.status = "failed" THEN [r EXCEPT !.status = "queued", !.retries = 0, !.due = TRUE] ELSE r
    BY <1>2, <1>4 DEF Start, Requeued
  <2>2. r.status = "failed" <=> queue[b].status = "failed"
    BY <1>3
  <2> QED
    BY <1>3, <1>4, <2>1, <2>2 DEF Rows
<1>5. CASE ~RetryFailedOnStart
  BY <1>2, <1>3, <1>5 DEF Start
<1> QED
  BY <1>4, <1>5

LEMMA WorkerSpends ==
  ASSUME TypeOK, NEW w \in Workers, WorkerStep(w)
  PROVE  Fault \/ NoFault
<1>1. CASE Confirm(w)
  BY <1>1 DEF Confirm
<1>2. CASE Claim(w) \/ CheckLocal(w) \/ Hash(w) \/ Record(w) \/ Measure(w) \/ Resolve(w) \/ Acquire(w)
  BY <1>2 DEF Claim, CheckLocal, Hash, Record, Measure, Resolve, Acquire, NoFault
<1>3. CASE S3Inspect(w) \/ LegacyInspect(w) \/ S3Transfer(w) \/ DriveTransfer(w) \/ RsyncTransfer(w) \/ Label(w)
  BY <1>3 DEF S3Inspect, LegacyInspect, S3Transfer, DriveTransfer, RsyncTransfer, Label, NoFault
<1>4. CASE Finish(w) \/ Unlink(w) \/ SettleConflict(w) \/ SettleDefer(w) \/ ReadRetries(w) \/ WriteFailed(w)
  BY <1>4 DEF Finish, Unlink, SettleConflict, SettleDefer, ReadRetries, WriteFailed, NoFault
<1> QED
  BY <1>1, <1>2, <1>3, <1>4 DEF WorkerStep

LEMMA StepHandler ==
  ASSUME TypeOK, LedgerInv, HandlerInv, [Next]_vars
  PROVE  HandlerInv'
<1> USE BagFacts
<1>t. /\ queue \in [Bags -> Rows] /\ job \in [Workers -> Bags \cup {NoJob}]
      /\ \A w \in Workers : pc[w] \notin {"idle", "dead"} => job[w] \in Bags
      /\ spent["open"] \in Nat /\ MaxRetries \in Nat \ {0}
  BY QueueAssumption DEF TypeOK, QueueTypeOK
<1>o. spent'["open"] = spent["open"] \/ spent'["open"] = spent["open"] + 1
  <2>1. UNCHANGED spent \/ \E k \in {"fault", "outage", "open", "tamper"} : Spend(k)
    <3>1. ASSUME NEW w \in Workers, WorkerStep(w) PROVE Fault \/ NoFault
      BY <3>1, WorkerSpends
    <3> QED
      BY <3>1 DEF Next, Service, Others, Add, TimePasses, Stop, Exit, Crash, Start, DashboardOpen,
                  Rewrite, Vanish, vars, Fault, NoFault
  <2> QED
    BY <2>1 DEF Spend, TypeOK
<1> SUFFICES ASSUME spent'["open"] = 0, spent["open"] = 0
             PROVE  HandlerInv'
  BY <1>t, <1>o DEF HandlerInv
<1>b. \A b \in Bags : queue[b].status # "failed" => queue[b].retries < MaxRetries
  BY DEF HandlerInv, RetryBudget
<1>u. ASSUME \A w \in Workers : Informed(w)', RetryBudget' PROVE HandlerInv'
  BY <1>u DEF HandlerInv
<1>i. \A w \in Workers : Informed(w)
  BY DEF HandlerInv
<1>q. ASSUME \A b \in Bags : queue'[b].status = queue[b].status /\ queue'[b].retries = queue[b].retries
      PROVE  RetryBudget'
  BY <1>b, <1>q DEF RetryBudget
<1>k. ASSUME NEW v \in Workers, pc'[v] = pc[v], job'[v] = job[v], tally'[v] = tally[v],
             job[v] # NoJob => /\ queue'[job[v]].status = queue[job[v]].status
                               /\ queue'[job[v]].retries = queue[job[v]].retries
      PROVE  Informed(v)'
  <2>1. pc[v] \in {"conflict", "defer", "fatal", "count"} => job[v] # NoJob
    BY <1>t
  <2> QED
    BY <1>i, <1>k, <2>1 DEF Informed
<1>1. ASSUME NEW w \in Workers, WorkerStep(w) PROVE HandlerInv'
  <2>1. ASSUME NEW v \in Workers, v # w PROVE Informed(v)'
    BY <1>1, <1>k, <2>1, OneThread, Elsewhere
  <2>j. pc[w] \notin {"idle", "dead"} => job[w] \in Bags /\ queue[job[w]] \in Rows
    BY <1>t
  <2>l. pc[w] \in Working => queue[job[w]].status = "uploading"
    BY DEF LedgerInv
  <2>d. Idle(w) => Informed(w)'
    BY DEF Idle, Goto, NotRead, Informed, TypeOK
  <2>2. CASE Calm(w)
    <3>1. job'[w] = job[w] /\ RetryBudget'
      BY <1>q, <2>2 DEF Calm
    <3>2. pc'[w] \in Handling => pc[w] \notin {"idle", "dead"}
      BY <2>2 DEF Calm, Working, Handling
    <3>3. job[w] # NoJob => job[w] \in Bags
      BY <1>t
    <3>4. /\ job[w] # NoJob => /\ queue'[job[w]].status = queue[job[w]].status
                              /\ queue'[job[w]].retries = queue[job[w]].retries
      BY <2>2, <3>3 DEF Calm
    <3>5. /\ pc'[w] \in {"conflict", "defer", "fatal"} => queue'[job'[w]].status = "uploading"
          /\ pc'[w] = "count" => queue'[job'[w]].status = "uploading" \/ DeleteAfter
      BY <1>i, <2>2, <2>j, <2>l, <3>1, <3>2, <3>4 DEF Calm, Informed, Handling
    <3>6. tally'[w].read /\ job'[w] # NoJob => tally'[w].retries = queue'[job'[w]].retries
      BY <1>i, <2>2, <3>1, <3>4 DEF Calm, Informed, TypeOK
    <3>7. Informed(w)'
      BY <2>2, <3>5, <3>6 DEF Calm, Informed
    <3> QED
      BY <1>u, <2>1, <3>1, <3>7
  <2>3. CASE Lost(w)
    <3>1. Informed(w)'
      BY <1>i, <2>3 DEF Lost, Informed
    <3> QED
      BY <1>q, <1>u, <2>1, <2>3, <3>1 DEF Lost
  <2>4. CASE Claimed(w)
    <3>1. PICK b \in Bags : NextReady(b) /\ job' = [job EXCEPT ![w] = b]
      BY <2>4 DEF Claimed
    <3>2. Informed(w)'
      BY <1>i, <2>4, <3>1 DEF Claimed, Informed
    <3>3. RetryBudget'
      <4>1. queue' = [queue EXCEPT ![b].status = "uploading"] /\ queue[b].status = "queued"
        BY <3>1 DEF NextReady, Ready
      <4>2. queue'[b].retries = queue[b].retries /\ \A a \in Bags \ {b} : queue'[a] = queue[a]
        BY <1>t, <4>1 DEF Rows
      <4> QED
        BY <1>b, <4>1, <4>2 DEF RetryBudget
    <3> QED
      BY <1>u, <2>1, <3>2, <3>3
  <2>5. CASE Marked(w)
    <3>1. Informed(w)'
      <4>1. CASE pc'[w] = "unlink" /\ DeleteAfter /\ UNCHANGED <<job, tally>>
        <5>1. queue'[job[w]].retries = queue[job[w]].retries
          BY <1>t, <2>5, <2>j DEF Marked, MarkDone, Rows
        <5> QED
          BY <1>i, <4>1, <5>1 DEF Informed
      <4> QED
        BY <2>5, <2>d, <4>1 DEF Marked
    <3>2. RetryBudget'
      <4>1. /\ job[w] \in Bags /\ queue[job[w]].status = "uploading"
            /\ queue'[job[w]].retries = queue[job[w]].retries
            /\ \A a \in Bags \ {job[w]} : queue'[a] = queue[a]
        BY <1>t, <2>5, <2>j, <2>l DEF Marked, MarkDone, Rows, Working
      <4> QED
        BY <1>b, <4>1 DEF RetryBudget
    <3> QED
      BY <1>u, <2>1, <3>1, <3>2
  <2>6. CASE Unlinked(w)
    BY <1>q, <1>u, <2>1, <2>6, <2>d DEF Unlinked
  <2>7. CASE SettledRow(w)
    <3>1. job[w] \in Bags /\ Informed(w)'
      BY <2>7, <2>d, <2>j DEF SettledRow
    <3>2. RetryBudget'
      <4>1. queue[job[w]].status # "failed"
        BY <3>1 DEF LedgerInv
      <4> QED
        BY <1>b, <2>7, <3>1, <4>1, FailedRow DEF RetryBudget
    <3> QED
      BY <1>u, <2>1, <3>1, <3>2
  <2> QED
    BY <1>1, <2>2, <2>3, <2>4, <2>5, <2>6, <2>7, WorkerOutcome DEF Outcome
<1>2. ASSUME NEW b \in Bags, Add(b) \/ TimePasses(b) PROVE HandlerInv'
  <2>1. /\ queue[b].status \in {"absent", "queued"} /\ queue'[b].status = "queued"
        /\ queue'[b].retries < MaxRetries
        /\ \A a \in Bags \ {b} : queue'[a] = queue[a]
        /\ UNCHANGED <<pc, job, tally>>
    <3>1. CASE Add(b)
      BY <3>1, <1>t DEF Add, Enqueue, AbsentRow, memory
    <3>2. CASE TimePasses(b)
      BY <3>2, <1>t, <1>b DEF TimePasses, Elapse, Rows, memory
    <3> QED
      BY <1>2, <3>1, <3>2
  <2>2. ASSUME NEW v \in Workers, job[v] # NoJob PROVE job[v] \in Bags /\ job[v] # b
    BY <1>t, <2>1, <2>2 DEF LedgerInv
  <2>3. RetryBudget'
    BY <1>b, <2>1 DEF RetryBudget
  <2>4. \A v \in Workers : Informed(v)'
    BY <1>k, <2>1, <2>2
  <2> QED
    BY <1>u, <2>3, <2>4
<1>3. CASE Exit \/ Crash
  <2>1. /\ pc' = [w \in Workers |-> "idle"] /\ tally' = [w \in Workers |-> NotRead] /\ UNCHANGED queue
    BY <1>3 DEF Exit, Crash, Forget, FreshMemory
  <2>2. \A w \in Workers : Informed(w)'
    BY <2>1 DEF Informed, NotRead
  <2> QED
    BY <1>q, <1>u, <2>1, <2>2
<1>4. CASE Start
  <2>1. \A w \in Workers : pc'[w] = "idle" /\ job'[w] = NoJob /\ pc[w] = "idle" /\ tally'[w] = tally[w]
    BY <1>4 DEF Start, memory, LedgerInv
  <2>2. \A w \in Workers : Informed(w)'
    BY <1>i, <2>1 DEF Informed
  <2>3. ASSUME NEW b \in Bags, queue'[b].status # "failed" PROVE queue'[b].retries < MaxRetries
    BY <1>4, <1>b, <1>t, <2>3, StartedRow
  <2>4. RetryBudget'
    BY <2>3 DEF RetryBudget
  <2> QED
    BY <1>u, <2>2, <2>4
<1>5. CASE DashboardOpen
  BY <1>5, <1>t DEF DashboardOpen, Spend, TypeOK
<1>6. CASE Stop \/ (\E b \in Bags : Rewrite(b) \/ Vanish(b)) \/ UNCHANGED vars
  <2>1. UNCHANGED <<queue, pc, job, tally>>
    BY <1>6 DEF Stop, Rewrite, Vanish, vars, memory
  <2> QED
    BY <1>k, <1>q, <1>u, <2>1
<1> QED
  BY <1>1, <1>2, <1>3, <1>4, <1>5, <1>6 DEF Next, Service, Others

LEMMA InitHandler == Init => HandlerInv
BY BagFacts, QueueAssumption
DEF Init, HandlerInv, Informed, RetryBudget, FreshMemory, NotRead, QueueInit, AbsentRow

LEMMA HandlerInductive ==
  TypeOK /\ LedgerInv /\ HandlerInv /\ [Next]_vars => TypeOK' /\ LedgerInv' /\ HandlerInv'
BY StepTypeOK, StepLedger, StepHandler

\* The two statements of mark_failed() count each failure once, and a bag that has
\* exhausted max_retries is failed: nobody counts for a row in between, as its thread
\* alone holds it (queue.py:215, worker.py:60).
THEOREM RetriesBounded == Spec => []RetryBudget
<1>1. HandlerInv => RetryBudget
  BY DEF HandlerInv, RetryBudget
<1> QED
  BY <1>1, InitTypeOK, InitLedger, InitHandler, HandlerInductive, PTL DEF Spec

-----------------------------------------------------------------------------
(* The refinement.                                                         *)

\* Only the service opens the database.
NobodyOpens == Limit["open"] = 0

Closed == spent["open"] = 0

LEMMA StepClosed ==
  ASSUME NobodyOpens, TypeOK, Closed, [Next]_vars
  PROVE  Closed'
<1>1. ASSUME NEW k \in {"fault", "outage", "tamper"}, Spend(k) PROVE Closed'
  BY <1>1 DEF Spend, Closed, TypeOK
<1>2. UNCHANGED spent => Closed'
  BY DEF Closed
<1>3. ~Spend("open")
  BY DEF Spend, Closed, NobodyOpens
<1>4. ASSUME NEW w \in Workers, WorkerStep(w) PROVE Closed'
  BY <1>1, <1>2, <1>4, WorkerSpends DEF Fault, NoFault
<1> QED
  BY <1>1, <1>2, <1>3, <1>4
  DEF Next, Service, Others, Add, TimePasses, Stop, Exit, Crash, Start, DashboardOpen, Rewrite, Vanish, vars

StatusOf    == [b \in Bags |-> queue[b].status]
DeletionMap == [b \in Bags |-> DeletionOf(b)]

\* One row moves, the others keep their status.
LEMMA OneMoves ==
  ASSUME NEW b \in Bags, NEW from, NEW to, queue[b].status = from, queue'[b].status = to,
         \A a \in Bags \ {b} : queue'[a].status = queue[a].status
  PROVE  Lifecycle!Row(b, from, to)
<1>1. StatusOf[b] = from
  BY DEF StatusOf
<1>2. StatusOf' = [StatusOf EXCEPT ![b] = to]
  BY DEF StatusOf
<1> QED
  BY <1>1, <1>2 DEF StatusOf, Lifecycle!Row

\* One deletion moves, the others stay where they are.
LEMMA OneFile ==
  ASSUME NEW b \in Bags, NEW from, NEW to, DeletionOf(b) = from, DeletionOf(b)' = to,
         \A a \in Bags \ {b} : DeletionOf(a)' = DeletionOf(a)
  PROVE  Lifecycle!File(b, from, to)
<1>1. DeletionMap[b] = from
  BY DEF DeletionMap
<1>2. DeletionMap' = [DeletionMap EXCEPT ![b] = to]
  BY DEF DeletionMap
<1> QED
  BY <1>1, <1>2 DEF DeletionMap, Lifecycle!File

\* Nothing is due for a bag that no thread has ...
LEMMA DeletionOfNobody ==
  ASSUME NEW b \in Bags, \A v \in Workers : job[v] # b
  PROVE  DeletionOf(b) = "none"
BY DEF DeletionOf

\* ... and of one that one thread has at most, it is at that thread.
DeletionAt(w, b) ==
  IF job[w] = b /\ pc[w] = "unlink" THEN "due"
  ELSE IF queue[b].status = "done" /\ job[w] = b /\ pc[w] = "count" THEN "failed" ELSE "none"

LEMMA DeletionBefore ==
  ASSUME NEW w \in Workers, NEW b \in Bags, \A v \in Workers \ {w} : job[v] # b
  PROVE  DeletionOf(b) = DeletionAt(w, b)
BY DEF DeletionOf, DeletionAt

LEMMA DeletionAfter ==
  ASSUME TypeOK, NEW w \in Workers, WorkerStep(w),
         NEW b \in Bags, \A v \in Workers \ {w} : job[v] # b
  PROVE  DeletionOf(b)' = DeletionAt(w, b)'
<1>1. \A v \in Workers \ {w} : job'[v] # b
  BY OneThread
<1> QED
  BY <1>1 DEF DeletionOf, DeletionAt

\* A call of a thread moves the deletion of no bag but its own.
LEMMA DeletionElsewhere ==
  ASSUME TypeOK, LedgerInv, Closed, NEW w \in Workers, WorkerStep(w),
         NEW a \in Bags, job[w] # a, job'[w] # a
  PROVE  DeletionOf(a)' = DeletionOf(a)
<1>1. \A v \in Workers : /\ job[v] = a <=> job'[v] = a
                         /\ job[v] = a => pc'[v] = pc[v]
  BY OneThread
<1>2. ASSUME NEW v \in Workers, job[v] = a PROVE queue'[a].status = queue[a].status
  <2>1. v # w /\ job[v] # NoJob
    BY <1>2, BagFacts
  <2> QED
    BY <1>2, <2>1, Elsewhere DEF Closed
<1> QED
  BY <1>1, <1>2 DEF DeletionOf

LEMMA StepLifecycle ==
  ASSUME TypeOK, LedgerInv, HandlerInv, Closed, Closed', [Next]_vars
  PROVE  [Lifecycle!Next]_<<StatusOf, DeletionMap>>
<1> USE BagFacts
<1>t. /\ queue \in [Bags -> Rows] /\ queue' \in [Bags -> Rows]
      /\ \A w \in Workers : pc[w] \notin {"idle", "dead"} => job[w] \in Bags
      /\ \A w \in Workers : job[w] # NoJob => job[w] \in Bags
  BY StepTypeOK DEF TypeOK, QueueTypeOK
<1>s. ASSUME \A b \in Bags : queue'[b].status = queue[b].status
      PROVE  UNCHANGED StatusOf
  BY <1>s DEF StatusOf
<1>d. ASSUME \A b \in Bags : DeletionOf(b)' = DeletionOf(b)
      PROVE  UNCHANGED DeletionMap
  BY <1>d DEF DeletionMap
<1>1. ASSUME NEW w \in Workers, WorkerStep(w)
      PROVE  [Lifecycle!Next]_<<StatusOf, DeletionMap>>
  <2>j. pc[w] \notin {"idle", "dead"} => job[w] \in Bags /\ queue[job[w]] \in Rows
    BY <1>t
  <2>a. ASSUME NEW b \in Bags, b = job[w]
        PROVE  /\ DeletionOf(b) = DeletionAt(w, b) /\ DeletionOf(b)' = DeletionAt(w, b)'
    <3>1. \A v \in Workers \ {w} : job[v] # b
      BY <2>a DEF LedgerInv, Closed
    <3> QED
      BY <1>1, <3>1, DeletionBefore, DeletionAfter
  <2>e. ASSUME job'[w] \in {job[w], NoJob}
        PROVE  \A a \in Bags : a # job[w] => DeletionOf(a)' = DeletionOf(a)
    BY <1>1, <2>e, DeletionElsewhere
  <2>i. Idle(w) => job'[w] = NoJob
    BY DEF Idle, TypeOK
  <2>1. CASE Calm(w)
    <3>1. UNCHANGED StatusOf /\ job'[w] = job[w]
      BY <1>s, <2>1 DEF Calm
    <3>2. CASE job[w] = NoJob
      BY <1>d, <2>e, <3>1, <3>2
    <3>3. CASE job[w] # NoJob
      <4>1. PICK b \in Bags : b = job[w]
        BY <1>t, <3>3
      <4>2. /\ DeletionOf(b) = DeletionAt(w, b) /\ DeletionOf(b)' = DeletionAt(w, b)'
            /\ \A a \in Bags \ {b} : DeletionOf(a)' = DeletionOf(a)
        BY <2>a, <2>e, <3>1, <4>1
      <4>3. queue'[b].status = queue[b].status
        BY <2>1, <4>1 DEF Calm
      <4>4. CASE pc[w] = "unlink"
        <5>1. pc'[w] = "count" /\ queue[b].status = "done"
          BY <2>1, <4>1, <4>4 DEF Calm, LedgerInv, Closed
        <5>2. DeletionOf(b) = "due" /\ DeletionOf(b)' = "failed"
          BY <3>1, <4>1, <4>2, <4>3, <4>4, <5>1 DEF DeletionAt
        <5>3. Lifecycle!Withhold(b)
          BY <3>1, <4>1, <4>2, <5>2, OneFile DEF Lifecycle!Withhold, StatusOf
        <5> QED
          BY <4>1, <5>3 DEF Lifecycle!Next
      <4>5. CASE pc[w] = "count" /\ queue[b].status = "done" /\ pc'[w] # "count"
        <5>1. pc'[w] # "unlink"
          BY <2>1 DEF Calm
        <5>2. DeletionOf(b) = "failed" /\ DeletionOf(b)' = "none"
          BY <3>1, <4>1, <4>2, <4>5, <5>1 DEF DeletionAt
        <5>3. Lifecycle!Overlook(b)
          BY <3>1, <4>1, <4>2, <5>2, OneFile DEF Lifecycle!Overlook, StatusOf
        <5> QED
          BY <4>1, <5>3 DEF Lifecycle!Next
      <4>6. CASE pc[w] # "unlink" /\ ~(pc[w] = "count" /\ queue[b].status = "done" /\ pc'[w] # "count")
        <5>1. pc'[w] # "unlink"
          BY <2>1 DEF Calm
        <5>2. pc'[w] = "count" /\ queue[b].status = "done" => pc[w] = "count"
          <6>1. pc[w] \in Working => queue[b].status = "uploading"
            BY <4>1 DEF LedgerInv, Closed
          <6> QED
            BY <2>1, <4>6, <6>1 DEF Calm, Handling
        <5>3. DeletionOf(b)' = DeletionOf(b)
          BY <3>1, <4>1, <4>2, <4>3, <4>6, <5>1, <5>2 DEF DeletionAt
        <5> QED
          BY <1>d, <3>1, <4>1, <4>2, <5>3
      <4> QED
        BY <4>4, <4>5, <4>6
    <3> QED
      BY <3>2, <3>3
  <2>2. CASE Lost(w)
    <3>1. UNCHANGED StatusOf /\ job[w] = NoJob /\ job'[w] = NoJob
      BY <1>s, <2>2 DEF Lost, LedgerInv
    <3> QED
      BY <1>d, <2>e, <3>1
  <2>3. CASE Unlinked(w)
    <3>0. PICK b \in Bags : b = job[w]
      BY <2>3, <2>j DEF Unlinked
    <3>1. pc[w] = "unlink" /\ job'[w] = NoJob /\ UNCHANGED StatusOf
      BY <1>s, <2>3, <2>i DEF Unlinked
    <3>2. DeletionOf(b) = "due" /\ DeletionOf(b)' = "none"
      BY <2>a, <3>0, <3>1 DEF DeletionAt
    <3>3. Lifecycle!Delete(b)
      BY <2>e, <3>0, <3>1, <3>2, OneFile DEF Lifecycle!Delete, StatusOf
    <3> QED
      BY <3>3 DEF Lifecycle!Next
  <2>4. CASE Claimed(w)
    <3>1. PICK b \in Bags : /\ queue[b].status = "queued" /\ queue' = [queue EXCEPT ![b].status = "uploading"]
                            /\ job' = [job EXCEPT ![w] = b]
      BY <2>4 DEF Claimed, NextReady, Ready
    <3>2. queue'[b].status = "uploading" /\ \A a \in Bags \ {b} : queue'[a].status = queue[a].status
      BY <1>t, <3>1 DEF Rows
    <3>3. job[w] = NoJob /\ job'[w] = b /\ pc'[w] \in {"check", "dead"}
      BY <2>4, <3>1 DEF Claimed, LedgerInv, TypeOK
    <3>4. \A v \in Workers : job[v] # b
      BY <3>1 DEF LedgerInv, Closed
    <3>5. DeletionOf(b)' = DeletionOf(b)
      BY <1>1, <3>3, <3>4, DeletionOfNobody, DeletionAfter DEF DeletionAt
    <3>6. \A a \in Bags : DeletionOf(a)' = DeletionOf(a)
      BY <1>1, <3>3, <3>5, DeletionElsewhere
    <3>7. Lifecycle!Claim(b)
      BY <1>d, <3>1, <3>2, <3>6, OneMoves DEF Lifecycle!Claim, Lifecycle!Move, DeletionMap
    <3> QED
      BY <3>7 DEF Lifecycle!Next
  <2>5. CASE Marked(w)
    <3>1. PICK b \in Bags : b = job[w] /\ queue[b].status = "uploading"
      BY <2>5, <2>j DEF Marked, LedgerInv, Closed, Working
    <3>2. queue'[b].status = "done" /\ \A a \in Bags \ {b} : queue'[a].status = queue[a].status
      BY <1>t, <2>5, <3>1 DEF Marked, MarkDone, Rows
    <3>3. DeletionOf(b) = "none"
      BY <2>5, <2>a, <3>1 DEF Marked, DeletionAt
    <3>4. \A a \in Bags \ {b} : DeletionOf(a)' = DeletionOf(a)
      BY <2>5, <2>e, <2>i, <3>1 DEF Marked
    <3>5. Lifecycle!Row(b, "uploading", "done")
      BY <3>1, <3>2, OneMoves
    <3>6. CASE pc'[w] = "unlink" /\ DeleteAfter /\ UNCHANGED <<job, tally>>
      <4>1. DeletionOf(b)' = "due"
        BY <2>a, <3>1, <3>6 DEF DeletionAt
      <4>2. Lifecycle!File(b, "none", "due")
        BY <3>3, <3>4, <4>1, OneFile
      <4>3. Lifecycle!Deliver(b)
        BY <3>5, <3>6, <4>2 DEF Lifecycle!Deliver
      <4> QED
        BY <4>3 DEF Lifecycle!Next
    <3>7. CASE Idle(w)
      <4>1. DeletionOf(b)' = "none"
        BY <2>a, <2>i, <3>1, <3>7 DEF DeletionAt
      <4>2. UNCHANGED DeletionMap
        BY <1>d, <3>3, <3>4, <4>1
      <4>3. Lifecycle!Deliver(b)
        BY <3>5, <4>2 DEF Lifecycle!Deliver, DeletionMap
      <4> QED
        BY <4>3 DEF Lifecycle!Next
    <3> QED
      BY <2>5, <3>6, <3>7 DEF Marked
  <2>6. CASE SettledRow(w)
    <3>0. PICK b \in Bags : b = job[w]
      BY <2>6, <2>j DEF SettledRow
    <3>1. Informed(w) /\ job'[w] = NoJob
      BY <2>6, <2>i DEF SettledRow, HandlerInv, Closed
    <3>2. \A a \in Bags \ {b} : queue'[a].status = queue[a].status
      BY <2>6, <3>0, FailedRow
    <3>3. queue[b].status \in {"uploading", "done"}
      BY <3>0 DEF LedgerInv, Closed
    <3>4. /\ queue[b].status = "done" => pc[w] = "count"
          /\ queue'[b].status = "conflict" => queue[b].status = "uploading"
          /\ queue'[b].status \in {"conflict", "queued", "failed"}
      BY <2>6, <3>0, <3>1, <3>3, FailedRow DEF Informed
    <3>5. /\ DeletionOf(b) = IF queue[b].status = "done" THEN "failed" ELSE "none"
          /\ DeletionOf(b)' = "none"
          /\ \A a \in Bags \ {b} : DeletionOf(a)' = DeletionOf(a)
      BY <2>6, <2>a, <2>e, <3>0, <3>1, <3>3, <3>4 DEF DeletionAt, SettledRow
    <3>6. CASE queue[b].status = "uploading"
      <4>1. UNCHANGED DeletionMap
        BY <1>d, <3>5, <3>6
      <4> QED
        BY <3>2, <3>4, <3>6, <4>1, OneMoves
        DEF Lifecycle!Next, Lifecycle!Return, Lifecycle!Refuse, Lifecycle!Fail, Lifecycle!Move, DeletionMap
    <3>7. CASE queue[b].status = "done"
      <4>1. Lifecycle!File(b, "failed", "none")
        BY <3>5, <3>7, OneFile
      <4> QED
        BY <3>2, <3>4, <3>7, <4>1, OneMoves DEF Lifecycle!Next, Lifecycle!Reopen
    <3> QED
      BY <3>3, <3>6, <3>7
  <2> QED
    BY <1>1, <2>1, <2>2, <2>3, <2>4, <2>5, <2>6, WorkerOutcome DEF Outcome
<1>f. ASSUME UNCHANGED <<pc, job>>,
             \A b \in Bags : queue'[b].status = "done" <=> queue[b].status = "done"
      PROVE  UNCHANGED DeletionMap
  BY <1>f DEF DeletionMap, DeletionOf
<1>2. ASSUME NEW b \in Bags, Add(b) PROVE [Lifecycle!Next]_<<StatusOf, DeletionMap>>
  <2>1. /\ queue[b].status = "absent" /\ queue'[b].status = "queued"
        /\ \A a \in Bags \ {b} : queue'[a].status = queue[a].status
    BY <1>2, <1>t DEF Add, Enqueue, AbsentRow
  <2>2. UNCHANGED DeletionMap
    BY <1>2, <1>f, <2>1 DEF Add, memory
  <2>3. Lifecycle!Arrive(b)
    BY <2>1, <2>2, OneMoves DEF Lifecycle!Arrive, Lifecycle!Move, DeletionMap
  <2> QED
    BY <2>3 DEF Lifecycle!Next
<1>3. ASSUME NEW b \in Bags, TimePasses(b) PROVE [Lifecycle!Next]_<<StatusOf, DeletionMap>>
  <2>1. \A a \in Bags : queue'[a].status = queue[a].status
    BY <1>3, <1>t DEF TimePasses, Elapse, Rows
  <2> QED
    BY <1>3, <1>f, <1>s, <2>1 DEF TimePasses, memory
<1>4. CASE Start
  <2>0. ASSUME NEW b \in Bags
        PROVE  queue'[b].status = IF queue[b].status = "uploading"
                                      \/ (RetryFailedOnStart /\ queue[b].status = "failed")
                                  THEN "queued" ELSE queue[b].status
    BY <1>4, StartedRow
  <2>1. StatusOf' = [b \in Bags |-> IF StatusOf[b] = "uploading" \/ (RetryFailedOnStart /\ StatusOf[b] = "failed")
                                   THEN "queued" ELSE StatusOf[b]]
    BY <2>0 DEF StatusOf
  <2>2. UNCHANGED DeletionMap
    BY <1>4, <1>f, <2>0 DEF Start, memory
  <2>3. Lifecycle!Restart
    BY <2>1, <2>2 DEF StatusOf, DeletionMap, Lifecycle!Restart
  <2> QED
    BY <2>3 DEF Lifecycle!Next
<1>5. CASE DashboardOpen
  BY <1>5 DEF DashboardOpen, Spend, Closed, TypeOK
<1>6. CASE Exit \/ Crash
  <2>1. UNCHANGED StatusOf /\ job' = [w \in Workers |-> NoJob]
    BY <1>6, <1>s DEF Exit, Crash, Forget, FreshMemory
  <2>2. \A b \in Bags : DeletionOf(b)' = "none"
    BY <2>1 DEF DeletionOf
  <2>3. Lifecycle!Halt
    BY <2>1, <2>2 DEF Lifecycle!Halt, StatusOf
  <2> QED
    BY <2>3 DEF Lifecycle!Next
<1>7. CASE Stop \/ (\E b \in Bags : Rewrite(b) \/ Vanish(b)) \/ UNCHANGED vars
  BY <1>7, <1>f, <1>s DEF Stop, Rewrite, Vanish, vars, memory
<1> QED
  BY <1>1, <1>2, <1>3, <1>4, <1>5, <1>6, <1>7 DEF Next, Service, Others

LEMMA InitLifecycle == Init => Closed /\ Lifecycle!Init
BY BagFacts DEF Init, Closed, QueueInit, AbsentRow, Lifecycle!Init, DeletionOf, FreshMemory

\* The rows of the queue follow the lifecycle the queue promises (DeliveryLifecycle):
\* every call of a worker, every start and every failure is one of its steps or none.
THEOREM FollowsLifecycle == ASSUME NobodyOpens PROVE Spec => LifecycleKept
<1>1. Init => TypeOK /\ LedgerInv /\ HandlerInv /\ Closed /\ Lifecycle!Init
  BY InitTypeOK, InitLedger, InitHandler, InitLifecycle
<1>2. TypeOK /\ LedgerInv /\ HandlerInv /\ Closed /\ [Next]_vars
        => TypeOK' /\ LedgerInv' /\ HandlerInv' /\ Closed'
  BY HandlerInductive, StepClosed
<1>3. TypeOK /\ LedgerInv /\ HandlerInv /\ Closed /\ Closed' /\ [Next]_vars => [Lifecycle!Next]_<<StatusOf, DeletionMap>>
  BY StepLifecycle
<1> QED
  BY <1>1, <1>2, <1>3, PTL DEF Spec, LifecycleKept, Lifecycle!Spec, Lifecycle!vars, StatusOf, DeletionMap

=============================================================================

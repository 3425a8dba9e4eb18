---------------------------- MODULE UploadQueue ----------------------------
(***************************************************************************)
(* The durable SQLite queue of freefox/queue.py.  One row per bag; the row *)
(* number stands for the primary key and, because rows are inserted in     *)
(* time order, for created_at.  Every operation below is one autocommit    *)
(* statement or one BEGIN IMMEDIATE transaction of the code and leaves     *)
(* every other row alone.  Wall-clock time is reduced to one bit per row:  *)
(* whether next_retry_at has been reached.                                 *)
(***************************************************************************)
EXTENDS Naturals

CONSTANTS
  NumBags,     \* how many bags the recorder ever writes
  MaxRetries,  \* upload.max_retries
  Contents,    \* what a bag file can contain
  SizeOf       \* the size of each content

ASSUME QueueAssumption ==
  /\ NumBags \in Nat \ {0}
  /\ MaxRetries \in Nat \ {0}
  /\ SizeOf \in [Contents -> Nat \ {0}]

VARIABLE queue

Bags == 1..NumBags

Statuses == {"absent", "queued", "uploading", "done", "failed", "conflict"}

\* BLAKE3 is taken to be injective; the column's default is the empty string.
NoDigest  == <<>>
Blake3(c) == <<c>>
Digests   == {NoDigest} \cup {Blake3(c) : c \in Contents}

Sizes == {0} \cup {SizeOf[c] : c \in Contents}

Rows == [status  : Statuses,
         retries : Nat,
         due     : BOOLEAN,   \* next_retry_at <= now
         digest  : Digests,
         size    : Sizes]

AbsentRow ==
  [status |-> "absent", retries |-> 0, due |-> TRUE, digest |-> NoDigest, size |-> 0]

QueueTypeOK == queue \in [Bags -> Rows]

QueueInit == queue = [b \in Bags |-> AbsentRow]

-----------------------------------------------------------------------------
(* Inserting and claiming.                                                 *)

\* add(): AUTOINCREMENT gives the next free number.  A second add of the same
\* local path hits the UNIQUE constraint and returns None without a change.
Enqueue(b, size) ==
  /\ queue[b].status = "absent"
  /\ \A a \in Bags : a < b => queue[a].status # "absent"
  /\ queue' = [queue EXCEPT ![b] = [AbsentRow EXCEPT !.status = "queued", !.size = size]]

Ready(b) == queue[b].status = "queued" /\ queue[b].due

\* Mutant of NextReady: the row is selected but not updated.
SelectReady(b) ==
  /\ Ready(b)
  /\ \A a \in Bags : Ready(a) => b <= a
  /\ UNCHANGED queue

\* next_ready(): the oldest row that is queued and due becomes uploading.
NextReady(b) ==
  /\ Ready(b)
  /\ \A a \in Bags : Ready(a) => b <= a
  /\ queue' = [queue EXCEPT ![b].status = "uploading"]

-----------------------------------------------------------------------------
(* Settling a row.  None of these statements looks at the status it        *)
(* overwrites.                                                             *)

MarkDone(b)     == queue' = [queue EXCEPT ![b].status = "done"]
MarkConflict(b) == queue' = [queue EXCEPT ![b].status = "conflict"]

MarkIntegrity(b, digest, size) ==
  queue' = [queue EXCEPT ![b] = [@ EXCEPT !.digest = digest, !.size = size]]

Defer(b) == queue' = [queue EXCEPT ![b] = [@ EXCEPT !.status = "queued", !.due = FALSE]]

\* Mutants of MarkFailed: one failure too many is allowed; retries count down.
MarkFailedLate(b, before, limit) ==
  LET retries == before + 1
  IN  queue' = [queue EXCEPT ![b] =
                  IF retries > limit
                  THEN [@ EXCEPT !.status = "failed", !.retries = retries]
                  ELSE [@ EXCEPT !.status = "queued", !.retries = retries, !.due = FALSE]]
CountDown(b, before, limit) ==
  queue' = [queue EXCEPT ![b] = [@ EXCEPT !.status = "queued", !.retries = before - 1]]

\* The UPDATE of mark_failed(); "before" is what its SELECT read.
MarkFailed(b, before, limit) ==
  LET retries == before + 1
  IN  queue' = [queue EXCEPT ![b] =
                  IF retries >= limit
                  THEN [@ EXCEPT !.status = "failed", !.retries = retries]
                  ELSE [@ EXCEPT !.status = "queued", !.retries = retries, !.due = FALSE]]

-----------------------------------------------------------------------------
(* Opening the database, restarting and the passing of time.               *)

\* Mutants of Recovered: interrupted rows are left alone; finished ones are not.
RecoverNothing(q) == q
RecoverFinished(q) ==
  [b \in Bags |-> IF q[b].status \in {"uploading", "done"}
                  THEN [q[b] EXCEPT !.status = "queued"] ELSE q[b]]

\* _init_db(): every interrupted row goes back to the queue.
Recovered(q) ==
  [b \in Bags |-> IF q[b].status = "uploading" THEN [q[b] EXCEPT !.status = "queued"]
                                               ELSE q[b]]

\* requeue_failed(): failed rows get a fresh retry budget; conflicts stay.
Requeued(q) ==
  [b \in Bags |-> IF q[b].status = "failed"
                  THEN [q[b] EXCEPT !.status = "queued", !.retries = 0, !.due = TRUE]
                  ELSE q[b]]

\* The clock reaches next_retry_at.
Elapse(b) ==
  /\ queue[b].status = "queued"
  /\ ~queue[b].due
  /\ queue' = [queue EXCEPT ![b].due = TRUE]

=============================================================================

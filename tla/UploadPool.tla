----------------------------- MODULE UploadPool -----------------------------
(***************************************************************************)
(* The uploading half of FreeFox: the threads of UploadWorkerPool          *)
(* (freefox/worker.py) between the queue and the backends, inside a        *)
(* service process (freefox/service.py) that is stopped, killed and        *)
(* restarted, on a robot whose other processes touch the same files: the   *)
(* recorder and the operator the bags, the dashboard the database.         *)
(*                                                                         *)
(* A step of a worker is one call that reads or writes something shared.   *)
(* pc[w] names the call that comes next; "conflict", "defer", "fatal" and  *)
(* "count" are the exception handlers, reached once the key lock is free.  *)
(***************************************************************************)
EXTENDS Storage

CONSTANTS
  Workers,
  VerifyBlake3, Dedup, DeleteAfter, RetryFailedOnStart,   \* configuration
  Missing,    \* the content of a bag file that is not there
  Nobody,     \* the holder of a free key lock
  Limit       \* how many faults, outages, openings and tamperings a run has

ASSUME PoolAssumption ==
  /\ {VerifyBlake3, Dedup, DeleteAfter, RetryFailedOnStart} \subseteq BOOLEAN
  /\ Missing \notin Contents
  /\ Nobody \notin Workers
  /\ Limit \in [{"fault", "outage", "open", "tamper"} -> Nat]

VARIABLES
  disk,       \* the content of each bag file
  pc, job, seen, tally,  \* of each worker: next call, its row, what it read of it
  lock,       \* holder of each key lock
  cached,     \* bindings the registry has built a backend for
  mode,       \* of the service process
  released,   \* what delete_after_upload has unlinked
  spent       \* history: faults, outages, openings and tamperings so far

memory == <<pc, job, seen, tally, lock, cached>>
vars   == <<queue, remote, disk, memory, mode, released, spent>>

\* worker.py keys the lock by backend, destination_json and remote path.
LockKeys   == Bindings \X Paths
LockKey(b) == <<BindingOf[b], PathOf[b]>>

Stages == {"idle", "check", "hash", "record", "measure", "resolve", "lock", "inspect",
           "transfer", "label", "confirm", "finish", "known", "unlink",
           "conflict", "defer", "fatal", "count", "dead"}

NoJob    == 0
Unseen   == [digest |-> NoDigest, size |-> 0]
NotRead  == [read |-> FALSE, retries |-> 0]

TypeOK ==
  /\ QueueTypeOK
  /\ StorageTypeOK
  /\ disk \in [Bags -> Contents \cup {Missing}]
  /\ pc \in [Workers -> Stages]
  /\ job \in [Workers -> Bags \cup {NoJob}]
  /\ \A w \in Workers : pc[w] \notin {"idle", "dead"} => job[w] \in Bags
  /\ seen \in [Workers -> [digest : Digests, size : Sizes]]
  /\ tally \in [Workers -> [read : BOOLEAN, retries : Nat]]
  /\ lock \in [LockKeys -> Workers \cup {Nobody}]
  /\ cached \in SUBSET Bindings
  /\ mode \in {"running", "stopping", "down"}
  /\ released \in [Bags -> Contents \cup {Missing}]
  /\ spent \in [{"fault", "outage", "open", "tamper"} -> Nat]

\* The memory of a process that has just been started.
FreshMemory ==
  [pc |-> [w \in Workers |-> "idle"], job |-> [w \in Workers |-> NoJob],
   seen |-> [w \in Workers |-> Unseen], tally |-> [w \in Workers |-> NotRead],
   lock |-> [k \in LockKeys |-> Nobody], cached |-> {}]

Init ==
  /\ QueueInit
  /\ StorageInit
  /\ pc = FreshMemory.pc /\ job = FreshMemory.job
  /\ seen = FreshMemory.seen /\ tally = FreshMemory.tally
  /\ lock = FreshMemory.lock /\ cached = FreshMemory.cached
  /\ disk \in [Bags -> Contents]
  /\ mode = "running"
  /\ released = [b \in Bags |-> Missing]
  /\ spent = [k \in {"fault", "outage", "open", "tamper"} |-> 0]

-----------------------------------------------------------------------------
(* Control of one worker.                                                  *)

Spend(kind) ==
  /\ spent[kind] < Limit[kind]
  /\ spent' = [spent EXCEPT ![kind] = @ + 1]

Fault   == Spend("fault")
NoFault == UNCHANGED spent

Goto(w, stage) == pc' = [pc EXCEPT ![w] = stage]

\* Leaving the "with" block, by any way out, frees the key lock.
Unlock(w) == lock' = [k \in LockKeys |-> IF lock[k] = w THEN Nobody ELSE lock[k]]

\* An exception unwinds to the handler that settles the row.
Raise(w, handler) == Goto(w, handler) /\ Unlock(w)

\* Back to the top of the loop with nothing kept from this row.
Idle(w) ==
  /\ Goto(w, "idle")
  /\ job'   = [job EXCEPT ![w] = NoJob]
  /\ seen'  = [seen EXCEPT ![w] = Unseen]
  /\ tally' = [tally EXCEPT ![w] = NotRead]

Keep      == UNCHANGED <<job, seen, tally>>
AtRest    == UNCHANGED <<disk, cached, mode, released>>
SourceGone(w) == disk[job[w]] = Missing
SizeChanged(w) == ~SourceGone(w) /\ SizeOf[disk[job[w]]] # seen[w].size

-----------------------------------------------------------------------------
(* Before the key lock is taken.                                           *)

\* Outside the try statement an exception ends the thread and leaves the row it
\* was working on uploading.
Die(w) == Goto(w, "dead") /\ UNCHANGED <<queue, remote, lock>> /\ Keep /\ AtRest

\* next_ready() updates the row, then reads it back: the claim may outlive the
\* thread that made it.
Claim(w) ==
  /\ pc[w] = "idle"
  /\ mode = "running"
  /\ \/ /\ \E b \in Bags :
             /\ NextReady(b)
             /\ job'  = [job EXCEPT ![w] = b]
             /\ seen' = [seen EXCEPT ![w] = [digest |-> queue[b].digest,
                                            size   |-> queue[b].size]]
        /\ \/ Goto(w, "check") /\ NoFault
           \/ Goto(w, "dead") /\ Fault
        /\ UNCHANGED <<remote, tally, lock>> /\ AtRest
     \/ Fault /\ Die(w)

CheckLocal(w) ==
  /\ pc[w] = "check"
  /\ Goto(w, IF SourceGone(w) THEN "fatal"
             ELSE IF VerifyBlake3 /\ seen[w].digest = NoDigest THEN "hash"
             ELSE "resolve")
  /\ UNCHANGED <<queue, remote, lock, spent>> /\ Keep /\ AtRest

Hash(w) ==
  /\ pc[w] = "hash"
  /\ \/ /\ ~SourceGone(w)
        /\ seen' = [seen EXCEPT ![w].digest = Blake3(disk[job[w]])]
        /\ Goto(w, "record")
        /\ UNCHANGED <<queue, remote, job, tally, lock, spent>> /\ AtRest
     \/ SourceGone(w) /\ NoFault /\ Die(w)
     \/ Fault /\ Die(w)

\* mark_integrity(): the size is that of the file now, not of the bytes hashed.
Record(w) ==
  /\ pc[w] = "record"
  /\ \/ /\ ~SourceGone(w)
        /\ MarkIntegrity(job[w], seen[w].digest, SizeOf[disk[job[w]]])
        /\ Goto(w, "measure")
        /\ UNCHANGED <<remote, lock, spent>> /\ Keep /\ AtRest
     \/ SourceGone(w) /\ NoFault /\ Die(w)
     \/ Fault /\ Die(w)

\* The entry in memory gets the size of one more stat().
Measure(w) ==
  /\ pc[w] = "measure"
  /\ \/ /\ ~SourceGone(w)
        /\ seen' = [seen EXCEPT ![w].size = SizeOf[disk[job[w]]]]
        /\ Goto(w, "resolve")
        /\ UNCHANGED <<queue, remote, job, tally, lock, spent>> /\ AtRest
     \/ SourceGone(w) /\ NoFault /\ Die(w)

\* _backend_for(): building a backend that is not cached yet can fail.
Resolve(w) ==
  /\ pc[w] = "resolve"
  /\ \/ /\ cached' = cached \cup {BindingOf[job[w]]}
        /\ Goto(w, "lock")
        /\ UNCHANGED <<queue, remote, disk, lock, mode, released, spent>> /\ Keep
     \/ BindingOf[job[w]] \notin cached /\ Fault /\ Die(w)

\* Mutant of Acquire: the lock is taken over from whoever holds it.
Barge(w) ==
  /\ pc[w] = "lock"
  /\ lock' = [lock EXCEPT ![LockKey(job[w])] = w]
  /\ Goto(w, "inspect")
  /\ UNCHANGED <<queue, remote, spent>> /\ Keep /\ AtRest

Acquire(w) ==
  /\ pc[w] = "lock"
  /\ lock[LockKey(job[w])] = Nobody
  /\ lock' = [lock EXCEPT ![LockKey(job[w])] = w]
  /\ Goto(w, "inspect")
  /\ UNCHANGED <<queue, remote, spent>> /\ Keep /\ AtRest

-----------------------------------------------------------------------------
(* Under the key lock: looking at the destination.                         *)

Look(w, kinds) ==
  /\ pc[w] = "inspect"
  /\ Kind(job[w]) \in kinds
  /\ UNCHANGED <<queue, remote>> /\ Keep /\ AtRest

\* upload_entry(): size check, then one HEAD request, whose errors are typed.
S3Inspect(w) ==
  LET digest == seen[w].digest
      size   == seen[w].size
  IN  /\ Look(w, {"s3"})
      /\ \/ SourceGone(w) /\ NoFault /\ Raise(w, "count")
         \/ SizeChanged(w) /\ NoFault /\ Raise(w, "fatal")
         \/ /\ ~SourceGone(w) /\ ~SizeChanged(w)
            /\ \/ Missing3(job[w]) /\ NoFault /\ Goto(w, "transfer") /\ UNCHANGED lock
               \/ Identical3(job[w], digest, size) /\ NoFault
                    /\ Goto(w, "finish") /\ UNCHANGED lock
               \/ Conflict3(job[w], digest, size) /\ NoFault /\ Raise(w, "conflict")
               \/ Fault /\ \E h \in {"defer", "fatal"} : Raise(w, h)

\* The legacy backends: a verified bag is looked up by digest and size, one
\* without digest by name only.  An ssh that fails answers "no".
LegacyInspect(w) ==
  LET b      == job[w]
      digest == seen[w].digest
      size   == seen[w].size
      found  == IF digest # NoDigest THEN Dedup /\ FindDuplicate(b, digest, size)
                                     ELSE Exists(b)
      surely == IF digest # NoDigest THEN Dedup /\ SurelyDuplicate(b, digest, size)
                                     ELSE Exists(b)
  IN  /\ Look(w, {"gdrive", "rsync"})
      /\ \/ found /\ NoFault /\ Goto(w, "known") /\ UNCHANGED lock
         \/ ~surely /\ NoFault /\ Goto(w, "transfer") /\ UNCHANGED lock
         \/ /\ digest = NoDigest \/ Dedup
            /\ Fault
            /\ IF Kind(b) = "rsync" THEN Goto(w, "transfer") /\ UNCHANGED lock
                                    ELSE \E h \in {"defer", "count"} : Raise(w, h)

-----------------------------------------------------------------------------
(* Under the key lock: moving the bytes.                                   *)

\* What a reader gets from a file that somebody may be rewriting.
Readings(w) == {disk[job[w]]} \cup (IF spent.tamper > 0 THEN {Torn} ELSE {})

Move(w, kind) ==
  /\ pc[w] = "transfer"
  /\ Kind(job[w]) = kind
  /\ UNCHANGED queue /\ Keep /\ AtRest

\* Session, parts and completion.  list_parts and complete raise typed errors,
\* create_multipart_upload and upload_part raise what boto raises.  Parts beyond
\* the size checked before are never sent.
S3Transfer(w) ==
  /\ Move(w, "s3")
  /\ \/ SourceGone(w) /\ NoFault /\ Raise(w, "count") /\ UNCHANGED remote
     \/ Fault /\ UNCHANGED remote /\ \E h \in {"defer", "fatal", "count"} : Raise(w, h)
     \/ /\ ~SourceGone(w)
        /\ \E data \in Readings(w) :
             /\ data # Torn => SizeOf[data] <= seen[w].size
             /\ S3Complete(job[w], seen[w].digest, data)
        /\ NoFault \/ Fault      \* the answer arrives, or is lost and looked up
        /\ Goto(w, "confirm") /\ UNCHANGED lock

LegacySizeChanged(w) == seen[w].size # 0 /\ SizeChanged(w)

DriveTransfer(w) ==
  /\ Move(w, "gdrive")
  /\ \/ SourceGone(w) /\ NoFault /\ Raise(w, "count") /\ UNCHANGED remote
     \/ LegacySizeChanged(w) /\ NoFault /\ Raise(w, "count") /\ UNCHANGED remote
     \/ Fault /\ UNCHANGED remote /\ \E h \in {"defer", "count"} : Raise(w, h)
     \/ /\ ~SourceGone(w) /\ ~LegacySizeChanged(w)
        /\ \E data \in Readings(w) : DriveCreate(job[w], seen[w].digest, data)
        /\ \/ NoFault /\ UNCHANGED lock
                /\ Goto(w, IF seen[w].digest = NoDigest THEN "finish" ELSE "confirm")
           \/ Fault /\ \E h \in {"defer", "count"} : Raise(w, h)

RsyncTransfer(w) ==
  /\ Move(w, "rsync")
  /\ \/ SourceGone(w) /\ NoFault /\ Raise(w, "count") /\ UNCHANGED remote
     \/ LegacySizeChanged(w) /\ NoFault /\ Raise(w, "count") /\ UNCHANGED remote
     \/ /\ ~SourceGone(w) /\ ~LegacySizeChanged(w)
        /\ Fault /\ Raise(w, "count")
        /\ UNCHANGED remote \/ RsyncInterrupted(job[w], disk[job[w]])
     \/ /\ ~SourceGone(w) /\ ~LegacySizeChanged(w)
        /\ \E data \in Readings(w) : RsyncWrite(job[w], data)
        /\ NoFault
        /\ Goto(w, IF seen[w].digest = NoDigest THEN "finish" ELSE "label") /\ UNCHANGED lock

Label(w) ==
  /\ pc[w] = "label"
  /\ \/ RsyncLabel(job[w], seen[w].digest) /\ NoFault /\ Goto(w, "confirm") /\ UNCHANGED lock
     \/ Fault /\ Raise(w, "count") /\ UNCHANGED remote
  /\ UNCHANGED queue /\ Keep /\ AtRest

\* S3 asks for the object again; Drive reads and repairs the label of the file it
\* created; rsync compares the sidecar and the size.
Confirm(w) ==
  LET b      == job[w]
      digest == seen[w].digest
      size   == seen[w].size
      good   == CASE Kind(b) = "s3"     -> Identical3(b, digest, size)
                  [] Kind(b) = "rsync"  -> FindDuplicate(b, digest, size)
                  [] Kind(b) = "gdrive" -> TRUE
      bad    == IF Kind(b) = "rsync" THEN ~SurelyDuplicate(b, digest, size) ELSE ~good
  IN  /\ pc[w] = "confirm"
      /\ \/ good /\ NoFault /\ Goto(w, "finish") /\ UNCHANGED lock
         \/ bad /\ NoFault /\ Raise(w, IF Kind(b) = "s3" THEN "defer" ELSE "count")
         \/ Fault /\ \E h \in CASE Kind(b) = "s3"     -> {"defer", "fatal"}
                                [] Kind(b) = "gdrive" -> {"defer", "count"}
                                [] Kind(b) = "rsync"  -> {"count"} : Raise(w, h)
      /\ UNCHANGED <<queue, remote>> /\ Keep /\ AtRest

-----------------------------------------------------------------------------
(* Under the key lock: the row and the local file.                         *)

\* Mutant of Finish: a duplicate is unlinked like an upload.
FinishAlike(w) ==
  /\ pc[w] \in {"finish", "known"}
  /\ UNCHANGED remote /\ AtRest
  /\ MarkDone(job[w]) /\ NoFault
  /\ IF DeleteAfter THEN Goto(w, "unlink") /\ UNCHANGED lock /\ Keep
                    ELSE Idle(w) /\ Unlock(w)

\* mark_done().  A duplicate found by a legacy backend takes the "continue" and
\* is never unlinked.
Finish(w) ==
  /\ pc[w] \in {"finish", "known"}
  /\ UNCHANGED remote /\ AtRest
  /\ \/ MarkDone(job[w]) /\ NoFault
        /\ IF pc[w] = "finish" /\ DeleteAfter
           THEN Goto(w, "unlink") /\ UNCHANGED lock /\ Keep
           ELSE Idle(w) /\ Unlock(w)
     \/ Fault /\ Raise(w, "count") /\ UNCHANGED queue /\ Keep

\* local.unlink() is still inside the try statement.
Unlink(w) ==
  /\ pc[w] = "unlink"
  /\ UNCHANGED <<queue, remote, cached, mode>>
  /\ \/ /\ ~SourceGone(w)
        /\ released' = [released EXCEPT ![job[w]] = disk[job[w]]]
        /\ disk' = [disk EXCEPT ![job[w]] = Missing]
        /\ NoFault /\ Idle(w) /\ Unlock(w)
     \/ SourceGone(w) /\ NoFault /\ Raise(w, "count") /\ Keep /\ UNCHANGED <<disk, released>>
     \/ Fault /\ Raise(w, "count") /\ Keep /\ UNCHANGED <<disk, released>>

-----------------------------------------------------------------------------
(* The exception handlers.  A database error here ends the thread.         *)

SettleConflict(w) ==
  /\ pc[w] = "conflict"
  /\ \/ /\ MarkConflict(job[w]) /\ Idle(w)
        /\ UNCHANGED <<remote, lock, spent>> /\ AtRest
     \/ Fault /\ Die(w)

SettleDefer(w) ==
  /\ pc[w] = "defer"
  /\ \/ /\ Defer(job[w]) /\ Idle(w)
        /\ UNCHANGED <<remote, lock, spent>> /\ AtRest
     \/ Fault /\ Die(w)

\* mark_failed() reads the retries in one statement ...
ReadRetries(w) ==
  /\ pc[w] \in {"fatal", "count"}
  /\ ~tally[w].read
  /\ tally' = [tally EXCEPT ![w] = [read |-> TRUE, retries |-> queue[job[w]].retries]]
  /\ UNCHANGED <<queue, remote, pc, job, seen, lock, spent>> /\ AtRest

\* ... and writes them in another.  A fatal error calls it with max_retries=0.
WriteFailed(w) ==
  /\ pc[w] \in {"fatal", "count"}
  /\ tally[w].read
  /\ \/ /\ MarkFailed(job[w], tally[w].retries, IF pc[w] = "fatal" THEN 0 ELSE MaxRetries)
        /\ Idle(w)
        /\ UNCHANGED <<remote, lock, spent>> /\ AtRest
     \/ Fault /\ Die(w)

WorkerStep(w) ==
  \/ Claim(w) \/ CheckLocal(w) \/ Hash(w) \/ Record(w) \/ Measure(w) \/ Resolve(w) \/ Acquire(w)
  \/ S3Inspect(w) \/ LegacyInspect(w)
  \/ S3Transfer(w) \/ DriveTransfer(w) \/ RsyncTransfer(w) \/ Label(w) \/ Confirm(w)
  \/ Finish(w) \/ Unlink(w)
  \/ SettleConflict(w) \/ SettleDefer(w) \/ ReadRetries(w) \/ WriteFailed(w)

-----------------------------------------------------------------------------
(* The service process.                                                    *)

\* The watcher hands a stable bag to _on_new_bag(), which stats it once more.
Add(b) ==
  /\ mode = "running"
  /\ Enqueue(b, IF disk[b] = Missing THEN 0 ELSE SizeOf[disk[b]])
  /\ UNCHANGED <<remote, disk, memory, mode, released, spent>>

TimePasses(b) ==
  /\ Elapse(b)
  /\ UNCHANGED <<remote, disk, memory, mode, released, spent>>

\* SIGTERM: no worker claims another row; the ones at work have 30 s.
Stop ==
  /\ mode = "running"
  /\ mode' = "stopping"
  /\ Spend("outage")
  /\ UNCHANGED <<queue, remote, disk, memory, released>>

\* Everything the process kept in memory is gone.
Forget ==
  /\ pc' = FreshMemory.pc /\ job' = FreshMemory.job
  /\ seen' = FreshMemory.seen /\ tally' = FreshMemory.tally
  /\ lock' = FreshMemory.lock /\ cached' = FreshMemory.cached

\* sys.exit(), or the end of the 30 s: daemon threads die wherever they are.
Exit ==
  /\ mode = "stopping"
  /\ mode' = "down"
  /\ Forget
  /\ UNCHANGED <<queue, remote, disk, released, spent>>

\* SIGKILL, an out-of-memory kill, a power cut.
Crash ==
  /\ mode # "down"
  /\ mode' = "down"
  /\ Spend("outage")
  /\ Forget
  /\ UNCHANGED <<queue, remote, disk, released>>

\* UploadQueue() recovers interrupted rows, run() may requeue failed ones.
Start ==
  /\ mode = "down"
  /\ mode' = "running"
  /\ queue' = IF RetryFailedOnStart THEN Requeued(Recovered(queue)) ELSE Recovered(queue)
  /\ UNCHANGED <<remote, disk, memory, released, spent>>

-----------------------------------------------------------------------------
(* The rest of the robot.                                                  *)

\* DashboardServer opens the queue with its default, initialize=True.
DashboardOpen ==
  /\ Spend("open")
  /\ queue' = Recovered(queue)
  /\ UNCHANGED <<remote, disk, memory, mode, released>>

\* The recorder reopens a bag, or the operator removes one.
Rewrite(b) ==
  /\ disk[b] # Missing
  /\ Spend("tamper")
  /\ \E c \in Contents \ {disk[b]} : disk' = [disk EXCEPT ![b] = c]
  /\ UNCHANGED <<queue, remote, memory, mode, released>>

Vanish(b) ==
  /\ disk[b] # Missing
  /\ Spend("tamper")
  /\ disk' = [disk EXCEPT ![b] = Missing]
  /\ UNCHANGED <<queue, remote, memory, mode, released>>

Service == (\E b \in Bags : Add(b) \/ TimePasses(b)) \/ Stop \/ Exit \/ Crash \/ Start
Others  == DashboardOpen \/ \E b \in Bags : Rewrite(b) \/ Vanish(b)

Next == (\E w \in Workers : WorkerStep(w)) \/ Service \/ Others

Spec == Init /\ [][Next]_vars

\* Threads that are not blocked run; the watcher, the clock, the shutdown timer
\* and systemd (Restart=always) do their part.
FairSpec ==
  /\ Spec
  /\ \A w \in Workers : WF_vars(WorkerStep(w))
  /\ \A b \in Bags : WF_vars(Add(b)) /\ WF_vars(TimePasses(b))
  /\ WF_vars(Exit) /\ WF_vars(Start)

-----------------------------------------------------------------------------
(* Safety.                                                                 *)

\* Calls after which the row has not been settled yet.
Working == {"check", "hash", "record", "measure", "resolve", "lock", "inspect", "transfer",
            "label", "confirm", "finish", "known"}
Handling == {"conflict", "defer", "fatal", "count"}

\* As long as nobody else opens the database: a row at work belongs to exactly one
\* thread, that thread finds it uploading, and while the service runs no row is
\* uploading without a thread (next_ready, _init_db).
ClaimLedger ==
  spent["open"] = 0 =>
    /\ \A v, w \in Workers : job[v] = job[w] /\ job[v] # NoJob => v = w
    /\ \A w \in Workers : pc[w] \in Working => queue[job[w]].status = "uploading"
    /\ mode # "down" => \A b \in Bags : queue[b].status = "uploading" =>
                           \E w \in Workers : job[w] = b

\* Nobody changed a file the watcher had reported.
Untampered == spent["tamper"] = 0

Holds(l, digest) ==
  \E o \in remote[l] : o.label = digest /\ o.data # Torn /\ Blake3(o.data) = digest

\* A row is done only when the destination holds the very bytes whose digest the
\* row carries, under that digest: at the bag's own path, or on Drive somewhere in
\* its folder.  FR-010, FR-012.
DoneIsStored ==
  Untampered => \A b \in Bags :
    queue[b].status = "done" /\ queue[b].digest # NoDigest =>
      \E l \in LookupOf(b) : Holds(l, queue[b].digest)

\* A bag deleted from the robot is still stored whole at its own location, however
\* the crash, the retry and the other bags went.  FR-011.
CustodyKept ==
  Untampered => \A b \in Bags :
    released[b] # Missing => \E o \in remote[LocationOf(b)] : o.data = released[b]

\* A conflict is never a bag's own earlier upload: something under the key bears
\* another label.
ConflictIsReal ==
  Untampered => \A b \in Bags :
    queue[b].status = "conflict" =>
      \E o \in remote[LocationOf(b)] : o.label # queue[b].digest

\* A bag the service is still trying has failures left to make: only its own
\* failures are counted, and the one that exhausts them is the last.
RetryBudget ==
  spent["open"] = 0 => \A b \in Bags :
    queue[b].status # "failed" => queue[b].retries < MaxRetries

-----------------------------------------------------------------------------
(* Action properties and liveness.                                         *)

\* An S3 key that holds an object keeps exactly that object: a retry finds it, a
\* contender conflicts with it, nobody replaces it.  FR-013.
NeverOverwritten ==
  [][\A l \in Locations :
       KindOf[l[1]] = "s3" /\ remote[l] # {} => remote'[l] = remote[l]]_vars

Settled(b) == queue[b].status \in {"done", "failed", "conflict"}

\* Faults and outages being finite, every bag is settled for good, unless a thread
\* has died of an exception outside the try statement and nobody restarts it.
EventuallySettled ==
  \/ <>[](\A b \in Bags : Settled(b))
  \/ <>[](\E w \in Workers : pc[w] = "dead")

\* How far the deletion of a delivered bag has come: next, failed and not yet counted,
\* or neither.
DeletionOf(b) ==
  IF \E w \in Workers : job[w] = b /\ pc[w] = "unlink" THEN "due"
  ELSE IF queue[b].status = "done" /\ \E w \in Workers : job[w] = b /\ pc[w] = "count"
  THEN "failed" ELSE "none"

Lifecycle == INSTANCE DeliveryLifecycle
  WITH status   <- [b \in Bags |-> queue[b].status],
       deletion <- [b \in Bags |-> DeletionOf(b)],
       RetryFailed <- RetryFailedOnStart

\* Every step of the system is a step of the abstract lifecycle: no row is claimed while
\* it is at work, none leaves conflict, and a row that is done is opened again only by the
\* thread that delivered it, for its own unlink() that has just failed (worker.py:51-65).
LifecycleKept == Lifecycle!Spec

-----------------------------------------------------------------------------
(* What the documents say and the code does not do.                        *)

\* tests/test_core.py:51, docs/installation.md:287: a row that is being uploaded is
\* not handed out again, whoever else reads the database.
ClaimedOnce ==
  \A v, w \in Workers : job[v] = job[w] /\ job[v] # NoJob => v = w

=============================================================================

# FreeFox in TLA+

FreeFox runs on a robot. It notices ROS 2 bag files when the recorder has
finished with them, keeps one row per bag in an SQLite queue, and uploads the
bags to S3, Google Drive or an rsync destination, through crashes, lost
answers and expired sessions. This directory models that path from the file to
the remote object, checks it with TLC on small instances and proves part of it
with TLAPS. File names below are relative to `src/`.

## 1. Inventory

### Components

| Component | Code | State it keeps | Operations that change state |
|---|---|---|---|
| Upload queue | `freefox/queue.py` | SQLite: one row per bag (status, retries, next_retry_at, digest, size, binding); tables `s3_multipart_uploads`, `s3_multipart_parts` | `add`, `next_ready`, `mark_done/conflict/failed/integrity/progress/upload_session`, `defer`, `requeue_failed`, recovery in `_init_db`, `create_multipart`, `upsert_part`, `replace_parts`, `clear_multipart` |
| Migration and binding | `freefox/queue.py`, `freefox/service.py` | the columns of the queue table; backend type and destination of each row | `_init_db`, `_migrate`, `legacy_context`, the snapshot of `_on_new_bag` |
| Worker pool | `freefox/worker.py` | per thread: its row, its digest and size; key locks; the stop event | the loop of `_worker`, `start`, `stop` |
| Service | `freefox/service.py` | the process; bindings of new bags | `run`, `_on_new_bag`, `stop` on a signal |
| S3 backend | `freefox/backends/s3.py` | none of its own: provider session and object, checkpoint in the queue | `inspect`, `upload_entry` |
| Drive backend | `freefox/backends/gdrive.py` | folder cache, shared by the threads; the session of a bag at Drive, its URI in the queue | `_resolve_folder_path`, `_get_or_create_folder`, `_drop_folder_cache_id`, `find_duplicate`, `_start_resumable_session`, `_query_resumable_offset`, `_put_chunk`, `upload` |
| rsync backend | `freefox/backends/rsync.py` | none: file and `.blake3` sidecar at the destination | `find_duplicate`, `upload` |
| Registry | `freefox/backends/factory.py` | backends built so far | `get` |
| Watcher | `freefox/watcher.py` | `_seen`, `_state` (last size and time of change per path) | `_scan` in two threads, `StabilityTracker.update/forget` |
| Integrity | `freefox/integrity.py` | none | `calculate_blake3` |
| Dashboard, watch script | `scripts/dashboard.py`, `scripts/watch_gdrive.py` | open the queue database | migration and recovery of `_init_db`; the script runs a pool of its own |
| Configuration | `freefox/config.py` | the values of one start of a program | none; a restart may change them |
| Status tool, smoke scripts, deployment | `scripts/`, `systemd/`, `docker-compose.yml` | none that matters here | |

### Interaction

* The recorder writes files. The watcher's two threads scan the directory and
  call `_on_new_bag`, which inserts a row.
* Worker threads claim rows by `next_ready`, take a lock per
  (backend, destination, remote path), call the backend and settle the row:
  done, conflict, deferred, failed, or counted as one failed attempt.
* The threads share the queue (a connection each), the registry, the key locks
  and one Drive backend object. The dashboard shares the database from another
  process. Other clients share the bucket and the Drive folder.
* systemd stops, kills and restarts the process. Everything but the database,
  the disk and the remote side is lost then.

### What is hard here

Concurrency without locks (folder cache, watcher), two-statement updates,
handlers that differ by the line that raised, statements outside the `try`,
calls whose answer is lost after they took effect, a checkpoint that must agree
with a session at the provider, a session that outlives the process and the
configuration that started it, a migration whose transaction is committed by
its second statement (`executescript`, `queue.py:137`), restarts that change the
configuration, other actors who open the same database, rewrite the files or
delete the folders.
`PROJECT.json` lists these hazards line by line with the properties that cover
them, and says which are not covered yet.

### What makes each component correct

* Queue and pool: a row at work belongs to one thread, which finds it
  uploading (`ClaimLedger`); failures are counted once and are limited
  (`RetryBudget`); rows follow the promised lifecycle (`LifecycleKept`); every
  bag is settled (`EventuallySettled`).
* Backends: done means stored (`DoneIsStored`); a deleted local file is stored
  under its own name (`CustodyKept`); a conflict is real (`ConflictIsReal`); an
  S3 key is never overwritten (`NeverOverwritten`).
* S3 multipart: the object is the whole bag (`ObjectIsWhole`), the checkpoint
  is true (`CheckpointHeld`), nothing that arrived is sent again
  (`NoRetransmission`), the bag gets there (`EventuallyDelivered`), and all of it
  is one transfer to the worker (`UploadIsAtomic`).
* Drive session: what is done is a whole file with its digest (`DoneIsFiled`),
  there is one of it (`OneFile`), every chunk starts where Drive is
  (`ResumesExactly`), the bag gets there (`EventuallyFiled`), and all of it is one
  call to the worker (`FilingIsAtomic`).
* Migration and binding: nobody works on a row without a binding
  (`NeverUnbound`); a binding is the intended one (`BoundAsMeant`), is never
  changed (`BindingKept`) and is where the bag goes (`DeliveredAsMeant`); the
  service opens the database and delivers all (`EventuallyServed`).
* Drive folders: each bag in the folder its path names (`FiledInPath`), each
  attempt spent on another deleted folder (`EachAttemptCounts`), and the bag
  gets there (`EventuallyFiled`).
* Watcher: only complete bags are queued (`QueuedIsComplete`), and they all are
  (`EventuallyQueued`).

## 2. Modules

| Module | Models | Correspondence |
|---|---|---|
| `UploadQueue` | rows of `queue.py` | one operator per SQL statement or transaction; the clock is a bit per row, *next_retry_at reached* |
| `Storage` (EXTENDS `UploadQueue`) | what destinations hold and what backend calls do | an object is bytes and a label; S3 and rsync have one object per path, Drive a set |
| `UploadPool` (EXTENDS `Storage`) | `worker.py` + `service.py` + outside actors | `pc[w]` names the next call that touches shared state; one action per call (`Record` and `Measure` are the two `stat()` of `worker.py:39`); handlers `conflict`, `defer`, `fatal`, `count` |
| `DeliveryLifecycle` | the abstract promise for each bag | the status of each row and the `deletion` of its local file (*due*, *failed* or none); a row leaves *done* only by the one failure of its own *due* deletion (`worker.py:51-52`), an exit that the diagram of `specs/001-add-s3-storage/data-model.md:31-41` does not have; `UploadPool` implements it (`INSTANCE ... WITH status <- StatusOf`, the deletion being what its threads are about to do: `DeletionOf`) |
| `AtomicUpload` | the abstract promise of `upload_entry` for one key | look, move the bag in one step, look again, and at each call the attempt may end without a result, to be made again or failed; the calls that `UploadPool` makes of it, with an intruder; `S3Multipart` implements it (`StoredObject`, `StageOfCall`) |
| `S3Multipart` | `upload_entry` call by call | the session (`held`), the checkpoint tables (`session`, `parts`), the object as the slices it was completed from; the row as its handlers leave it: deferred, counted in `retries`, failed, or uploading for ever when the thread has died |
| `DriveFolders` | folder resolution | one step per read or write of the cache or call to Drive, because the cache has no lock (`Check`, `Read` and `Pop` are lines 127, 128 and 131 of `gdrive.py`) |
| `AtomicFiling` | the abstract promise of `find_duplicate` and `upload` for one bag | look, make a file in one step, label it, end; a set of labels, one per kind of file; `DriveUpload` implements it (`FiledLabels`, `StageOfCall`) |
| `DriveUpload` | `find_duplicate` and the resumable session | one step per request; `sessions` is Drive's memory, of which the row keeps one URI |
| `QueueBinding` | `_init_db`, `_migrate`, `_on_new_bag`, `BackendRegistry.get` | three programs (service, dashboard, script), each one SQL statement at a time; `columns` is the schema |
| `FileWatcher` | the two scanning threads | `Scan`, `Look`, `Stat`, `Judge`, `Probe`, `Mark`, `Call` follow `_scan` and `update` line by line |
| `MC...` | instances for TLC | values of the constants |
| `UploadPoolProofs`; `OverwriteProofs` and `LifecycleProofs`, which extend it; `S3MultipartProofs`, `DriveFoldersProofs`, `DriveUploadProofs`, `QueueBindingProofs`, `FileWatcherProofs` | theorems | section 4 |

`UploadPool` takes as one call what the other modules open up: the
multipart transfer (`S3Transfer`; `S3Multipart`), the Drive session
(`DriveTransfer`; `DriveUpload`), the Drive folder of a path (`LookupOf`;
`DriveFolders`), the arrival of a bag (`Add`; `FileWatcher`) and its binding
(the constant `BindingOf`; `QueueBinding`).
Operators named in a comment as a *mutant* of another are that definition with a
plausible bug; no action uses them. With one of them in place of the original,
the run of the property named in `PROJECT.json` fails.

### Abstractions, and what they leave out

* A bag's content is a model value with a size; two of three contents have the
  same size. BLAKE3 is injective. A file of size zero and a bag that appears
  under a used local path do not occur.
* An exception is one of the four handlers, chosen among those the raising call
  can reach. A *fault* is a call that raises, loses its request or loses its
  answer; an `ssh` that fails reads as "no such file"; a lost S3 completion
  answer is looked up, as the code does. `S3Multipart` also has the *refusal*, an error
  of the credentials or the configuration, which fails a row at once where
  `_translate()` types it (`s3.py:127-130`) and is an error like any other where boto
  raises it raw (`s3.py:80,100`). A fault in the SELECT of
  `mark_failed` has the effect of one in its UPDATE.
* Retry delays are not ordered: a deferred row becomes due at any time.
* An rsync file cut short is *torn*, and so is what is read from a file that is
  being rewritten. The sidecar of rsync stays when the file is overwritten.
* Progress and timestamps other than the due bit are left out; so are session
  URIs in `UploadPool`.
* In `DriveUpload` the bytes of a session are an offset, for a session is fed one
  bag from its start; two sessions of a bag are two places of a sequence. A
  bearer token that expires is one of the faults.
* In `QueueBinding` the two columns that bind a row stand for the nine that the
  migration may add, and a destination is a site (a target folder, bucket or
  rsync destination) or *here*, the place a legacy row is sent to.
* In `DriveFolders` a deleted parent answers 404 and takes its children along;
  the error of a dictionary that changes during iteration counts as a fault.
* In `FileWatcher` the observer's pending events are one bit.

## 3. Runs

Two threads are treated as symmetric in `legacy_backends`, `shared_robot`,
`dashboard_opens` and `rsync_same_name`; no run with fairness uses symmetry. Deadlock
checking is off everywhere: all bags settled, filed or delivered is a state in
which the system rightly stops, and counters of faults run out.

### Passing

| Run | Instance | Properties | What it shows |
|---|---|---|---|
| `s3_contention` | two S3 bags of one path, two workers, delete after upload, two faults and one outage, under `FairSpec` | `TypeOK`, `ClaimLedger`, `DoneIsStored`, `CustodyKept`, `ConflictIsReal`, `RetryBudget`, `NeverOverwritten`, `LifecycleKept`, `EventuallySettled` | contenders for one key, with every call failing anywhere, and a crash or shutdown with restart at any point; refinement of the lifecycle, and liveness; a single done row that is reopened for any other reason than its failed `unlink` breaks `LifecycleKept` |
| `legacy_backends` | a bag on rsync, two of different names in one Drive folder; one fault, one outage; delete after upload | `DoneIsStored`, `CustodyKept` | the two other backends, after a migration of destinations; duplicates across names on Drive |
| `shared_robot` | one opening by the dashboard, one rewrite (with or without a change of size) or removal of a bag, one outage | `NeverOverwritten` | holds even when a row is at work twice, for the key lock does not depend on the row |
| `s3_resume` | a bag of 7 in parts of 2, three retries, two faults, one refusal, two outages, two expiries, one foreign object | `TypeOK`, `ObjectIsWhole`, `CheckpointHeld`, `NoRetransmission`, `EventuallyDelivered`, `UploadIsAtomic` | the session protocol with the handlers of the worker, and that it is one call to the worker |
| `drive_paths` | two workers, folders robot/monday and robot/tuesday, one fault or restart, one removal | `TypeOK`, `FiledInPath`, `EachAttemptCounts`, `EventuallyFiled` | the unlocked cache and the recovery of a missing folder |
| `drive_session` | a bag of 3 in chunks of 1 or 2, three retries, two faults, two outages, one expired session; each start chooses chunk size, verification and deduplication | `TypeOK`, `DoneIsFiled`, `OneFile`, `ResumesExactly`, `FilingIsAtomic`, `EventuallyFiled` | the resumable session across processes, as one call to the worker |
| `queue_binding` | a queue of the rsync release (empty, cut off, or done and cut off), two rows in all, three configurations, two sites, one crash, one change of configuration | `TypeOK`, `NeverUnbound`, `BoundAsMeant`, `DeliveredAsMeant`, `BindingKept`, `EventuallyServed` | three programs migrate and use one database, statement by statement |
| `watcher` | one bag of up to 2 units, stable after 2 ticks, two faults, one crash, one removal | `TypeOK`, `QueuedIsComplete`, `EventuallyQueued` | two unlocked scans of a growing file |

Why the bounds are enough. Contention needs two workers and two bags; a bag
that meets its own earlier upload needs one more attempt, hence one fault or
outage, and the second fault hits the retry. Three Drive and rsync bags give a
folder shared by different names beside an independent destination. Seven bytes
in parts of two give four parts and a short last one; two of each trouble let
one hit the recovery from another, and with three retries two faults and an expired
session fail the bag while fewer do not. Two days under one robot share the upper
folder and differ in the lower one, which is what the cache key has to tell
apart; one removal, of either folder, leaves its id in the cache, in the copy a
thread keeps and among the locals of both. The loop has five attempts for two folders;
giving up takes five removals, which `EachAttemptCounts` says for each attempt
and section 4 proves for any number. `StableTicks = 2` makes a file that grows within the window different from one that is stable,
and the state of the watcher per file is independent, so that one file and two
threads exhibit the races. Three units in chunks of one or two give a short
last chunk, a session that is resumed in the middle of what was a chunk, and
one that is complete when it is found; with three retries two faults do not fail the
bag, and with an expiry they may. Two rows give one of the earlier release
beside one of this, or two of the earlier; one crash leaves a migration at any
statement, and one change lets the next program answer the question whose the
rows are differently. All bounds are in the `Limit` constants (faults,
refusals, outages, openings, tamperings, expiries, intrusions, removals, crashes, changes),
`NumBags`, `MaxRetries`, `MaxRows`, `Size`, `Chunks` and `MaxSize`.

### Violations

| Run | Property | What the code does |
|---|---|---|
| `dashboard_opens` | `ClaimedOnce` | opening the dashboard requeues rows that are being uploaded (`queue.py:139`, `dashboard.py:592`); a second worker takes the row |
| `rsync_same_name` | `CustodyKept` | two bags of one name on rsync with deletion: the second replaces the first, which is stored nowhere then |
| `s3_rechunked` | `ObjectIsWhole` | after a restart with another `chunk_size`, a part of the old division is reused at another offset; the object is corrupt and confirmed |
| `watcher_blind` | `QueuedIsComplete` | where `/proc/<pid>/fd` of the recorder cannot be read, an open bag is queued |

`PROJECT.json` quotes the lines these contradict. A fifth disagreement is kept inside a
passing property: the diagram of `specs/001-add-s3-storage/data-model.md:31-41` has no arrow out of
*done*, and the code has one, for `mark_done()` and `unlink()` share the `try` of the
upload (`worker.py:51-52`), so that a local file that cannot be deleted is counted as a
failed upload (`worker.py:65`) of a bag that is delivered. `LifecycleKept` allows this
exit, once per due deletion and for that reason only; without `Reopen` in
`DeliveryLifecycle` the run `s3_contention` fails where the `unlink` that raised is counted. The passing properties that
would otherwise fail for one of these reasons carry the hypothesis explicitly:
`spent["open"] = 0` (nobody opens the database), `Untampered`, a fixed chunk
size, `Visible`, one binding per store. `NoRetransmission` holds because a page of `list_parts` holds
all the parts of the instance: the code reads the first page only (`s3.py:84`), and
after a restart it would send the parts beyond it again. `OneFile` speaks of a
robot that verifies and deduplicates throughout, or of a queue that never dropped a URI:
without a digest nothing finds the file of a session whose URI is gone.

### Fairness

* `WF(WorkerStep(w))`: a daemon thread that is not blocked runs; weak fairness
  is enough, as key locks are always released and a claim that another worker
  keeps taking is progress for that row.
* `WF(Add)`, `WF(TimePasses)`: the watcher polls; the clock reaches a retry time.
* `WF(Exit)`, `WF(Start)`: the wait for the workers is bounded, and systemd has
  `Restart=always`.
* `S3Multipart`: `WF(Attempt)`, `WF(Restart)`: the queue hands a *queued* row out again,
  and systemd starts the service. Nothing makes anybody take up a failed row
  (`Requeue`, a restart with `retry_failed_on_start`, may come or not), or one whose
  thread has died.
* `DriveUpload`: `WF(Upload)`, `WF(Start)`. A 308 answer without progress changes
  nothing, so that fairness assumes Drive does not repeat it for ever: if it did, the
  loop of `gdrive.py:333` would never end.
* `QueueBinding`: `WF(Start("service"))`, `WF(Opening(p))` for each program, which
  is a sequence of statements that do not wait, and `WF(Deliver("service"))`;
  nobody has to start the dashboard or the script.
* `DriveFolders`: `WF(WorkerStep(w))`. `FileWatcher`: `WF(Step(t))`, `WF(Tick)`,
  `WF(Start)`; none for the recorder, which may keep a bag open for ever.

Nothing is assumed of faults and outages except that there are finitely many.
The escape clauses of the liveness properties name what the code cannot recover
from without a restart: a worker thread that died outside its `try`
(`EventuallySettled`, `EventuallyDelivered`), a refusal, or as many faults and expired
sessions as `max_retries` (`EventuallyDelivered`), faults and expiries that exhaust
`max_retries`, where an expired session costs up to two attempts (`DriveUpload!EventuallyFiled`), old
rows of which nobody says whose they are (`EventuallyServed`), a dead poller or a callback that failed after `_seen` was
marked (`EventuallyQueued`), a cached folder deleted at the end of a path
(`DriveFolders!EventuallyFiled`; the 404 of the call that uses the folder forgets nothing,
`gdrive.py:184-210` covers only parents met while resolving).

## 4. Proofs

All for every value of the constants that satisfies the named assumptions
(`QueueAssumption`, `StorageAssumption`, `PoolAssumption`,
`MultipartAssumption`, `ObjectAssumption`, `FolderAssumption`, `DriveAssumption`,
`BindingAssumption`, `WatcherAssumption`); TLC evaluates these in each run. A
hypothesis beyond them stands in the theorem. `TypeCorrect` of each module is
`Spec => []TypeOK`, by one step per action; the other invariants use it.

**Worker pool.**

* `UploadPoolProofs!ClaimsExclusive`: `[]ClaimLedger`. `ClaimLedger` is
  not inductive: it needs that threads at rest hold no row, that the row of a thread
  is uploading or done, and done in the `unlink`, and that all threads are at
  rest when the process is down. `LedgerInv` adds these; it is inductive together
  with `TypeOK`. The proof takes the steps one by one: a
  claim picks a queued row, which no thread holds; a settling step releases
  the row in the same step; a dying thread keeps it, and so blocks it until the
  restart; `Start` requeues when no thread holds anything.
* `OverwriteProofs!NothingReplaced`: `NeverOverwritten`, for bags that meet at one
  S3 key and were recorded with one spelling of their destination (`OneSpelling`;
  the lock is keyed by the text, `worker.py:40`). `LockInv` says that a thread in
  the `with` block owns the lock of its row, and that a thread about to transfer
  to S3 has seen an empty key. As nobody else writes to S3 under
  that lock, the key is still empty. No hypothesis on the dashboard or on
  rewritten files: this is why the property survives them.
* `OverwriteProofs!DoneStored`, `CustodyHeld`, `ConflictsReal`: `[]DoneIsStored`,
  `[]CustodyKept` and `[]ConflictIsReal`, for any mix of S3, Drive and rsync, on a
  robot that hashes its bags, with one spelling per S3 key (`OneSpelling`) and no rsync path
  of two bags (`RsyncAlone`; together `Verified`). The properties themselves speak
  of files that nobody rewrites, but the dashboard may open the database. `StoredInv`
  says that every object bears the digest of its bytes or none (`Honest`), what each row
  says of its bag and of the destination (`Told`), and what each thread knows at each
  call (`Knows`, `Grounds`): before `mark_done` and `unlink` the labelled bag is at its
  own location, after a duplicate was found it is where `find_duplicate()` looks,
  between the two rsync processes the bytes are whole and not yet labelled. What was seen
  must still be true after the lock has been given up. On S3 and Drive it is because nothing
  stored goes away (`StepGrows`); on rsync, where a file is torn and rewritten in place,
  because only the bag itself is ever sent there (`OwnPath`), because a thread that
  meets it whole and labelled sends nothing, and because an attempt that is cut short
  leaves a whole file alone (`RsyncLeaves`, `StepRsync`). As digests agree with
  the file, two threads that an opening of the database gave one row do not contradict
  each other (`OthersKnow`). Both hypotheses are needed: `rsync_same_name` is
  the counterexample without `RsyncAlone`, and without verification, of two bags of one name
  and one size, the second is taken for the first and deleted. FR-012 asks for the
  comparison of contents only where verification is enabled, so this is the limit of
  the design and no finding. `StoredInv` was checked by TLC on the instances
  of `s3_contention` and `legacy_backends` before it was proved.
* `LifecycleProofs!RetriesBounded`: `[]RetryBudget`. `HandlerInv` adds
  `Informed(w)`: what a handler has read of `retries` is what the row has,
  since the row is claimed (`LedgerInv`), so its UPDATE counts one failure.
* `LifecycleProofs!FollowsLifecycle`: `LifecycleKept` where nobody opens the database
  (`NobodyOpens`). Initial states map to initial states; every action is one of
  six kinds of call as far as the rows go (`Outcome`), and each maps to a step of
  `DeliveryLifecycle` or to a stutter. The deletion of a bag is read off the one thread
  that holds its row (there is one by `LedgerInv`): before and after the step
  (`DeletionBefore`, `DeletionAfter`), and nothing changes for the other bags
  (`DeletionElsewhere`). A counted failure of a row that is done has a failed
  deletion to consume, and `Reopen` is the only abstract step that lets it go.

**S3 multipart.**

* `S3MultipartProofs!CheckpointSound`: `[]CheckpointHeld`, with no bound
  on sizes, parts, page length, faults or the values of `chunk_size`. The
  strengthening `Owned` says that part rows exist only beside the row of their
  session, that the calls after `open` have that row and `open` has not; without
  it a new session could start beside the rows of an old one. A listed part that is kept is one the session
  holds (`ReusableIsHeld`), clearing and forgetting a session make the claim
  vacuous (`ClearedCheckpoint`), and a part enters both sides in one step, or
  the provider's only (`Send`).
* `S3MultipartProofs!ObjectsWhole`: `[]ObjectIsWhole` for one chunk size
  (`OneChunk`). `WholeInv` says that session and checkpoint hold slices of that one
  size, and that at the completion every part is there. The rest is
  arithmetic: slices `1 .. CeilDiv(Size, PartSize)` of one size are the bag
  (`ExpectedIsWhole`). The run `s3_rechunked` shows that the hypothesis is needed.
* `S3MultipartProofs!NothingSentTwice`: `NoRetransmission` where one page lists all
  parts (`OnePage`), whatever the part sizes of the restarts. `KnownParts` says that
  while parts are sent, each part the session holds as this process would send it has its
  row, which is what the loop skips by. It holds at the start of the loop because
  the listing is complete, and a part that arrives without its row ends the attempt. S3
  lists a thousand parts to a page and the code reads the first
  (`s3.py:84`); a bag of more parts is outside the theorem.
* `S3MultipartProofs!CallIsAtomic`: `UploadIsAtomic` for one chunk size, a refinement of
  `AtomicUpload`, which justifies that `UploadPool` takes the transfer as one call.
  Two facts carry it. `NothingYet`: from the HEAD request to the
  completion nothing of the bag is under the key, so that the completion is the one
  abstract `Transfer`, or a `Doubt` when it was lost. An attempt that ends by an exception,
  a dead thread or a crash is a `GiveUp`, to *waiting* or *failed* as the handler says. `ObjectCases`: the HEAD request can
  tell, since the object is absent, foreign or whole (`WholeInv`) and a whole object
  has the length of the bag. That the lengths of the parts add up to the size is
  `ExpectedTotal`, a bijection between the bytes of the bag and those of its parts; for this
  `Total` counts bytes and is no fold, which the prover could not unfold. `ConfirmBlind`
  and `s3_rechunked` show that the last HEAD request and the hypothesis are needed.

**Google Drive.**

* `DriveUploadProofs!ChunksMeet`: `[]ResumesExactly`, and `DoneFiled`:
  `[]DoneIsFiled`. `FileInv` adds that the offset is 0 until a session is resumed,
  that a session not yet remembered is empty, and that the calls after the loop have
  a whole file, which bears the digest when the row does. `SingleFile`: `[]OneFile`,
  by `Remembered` (unless a URI was dropped, only the session of the row has
  bytes) and `Looked` (where every process verifies and deduplicates, nothing is
  sent once there is a file). `RowInv`, on retries and the status of a row at
  work, serves the types.
* `DriveUploadProofs!FilingRefines`: `FilingIsAtomic`, a refinement of `AtomicFiling`,
  without a hypothesis on the configurations. Chunks that leave the file unfinished are
  stutters, the one that finishes it is the abstract `Transfer`, or a `GiveUp` when its
  answer is lost, and so is a session found complete. `LabelsMeant` is the invariant it
  adds: no file bears the digest before the row has one, so that the sets of labels are
  those the abstract steps allow; `FileInv` says that a whole file is there when the label
  is asked for. `CompleteDone`, which lets a session found complete go unlabelled, breaks it.
* `DriveFoldersProofs!FiledRight`: `[]FiledInPath`, for any paths, workers and
  removals. `FolderInv` says that every entry of the cache and of the copy a thread
  keeps names a folder by its name and parent (`Truth`), and that the locals of each
  thread have got as far along the path as they say (`Sound`). Folders are never
  renamed and ids never used again, so these facts are stable under whatever the
  other threads do to the cache.
* `DriveFoldersProofs!AttemptsCount`: `[]EachAttemptCounts`. A thread ignores the ids
  that failed before, so that no other thread can hand it a dead one again: `AttemptInv`
  says that the ignored ids are as many as the attempts made, that each is of a
  deleted folder on the way, and that the attempt under way keeps clear of them
  (`Paid`). Counting them (`LostIsFinite`) bounds the attempts by the deletions.

**Migration and binding.**

* `QueueBindingProofs!NeverWorkedUnbound` and `BindingIsForGood`: `[]NeverUnbound`
  and `BindingKept`. `ProgramInv` ties each program to its statement and what it
  has read; `OpenBound` says that from the recovery on all rows are bound, which
  no statement of another program undoes: new rows carry a binding from the
  first.
* `BoundRight` and `DeliveredRight`: `[]BoundAsMeant` and `[]DeliveredAsMeant` if no
  configuration names a wrong owner of the old rows (`TrueOwner`). `MeantInv`
  carries both, as a delivery looks at the binding only.

**Watcher.**

* `FileWatcherProofs!OnlyComplete`: `[]QueuedIsComplete` where the recorder's
  descriptors can be read (`Visible`), for any files, sizes and stability window.
  `CompleteInv` says that past the probe the bag is closed; a closed bag is never opened
  again. The run `watcher_blind` shows that the hypothesis is needed.

Only model-checked: the liveness properties, `EventuallySettled`,
`EventuallyDelivered`, both `EventuallyFiled`, `EventuallyServed` and
`EventuallyQueued`, as fairness and ENABLED are out of the prover's reach. Every
invariant and action property of a passing run is stated by a theorem.

## 5. Not modelled

* Progress and statistics, the status tool, HTML and HTTP of the dashboard: they
  read, or write columns that nothing decides by.
* Parsing and validation of the YAML configuration: no state. The values that
  decide about rows are inputs of `DriveUpload` and `QueueBinding`.
* Credentials and their refresh, client construction, smoke scripts, packaging.
* `S3Backend.upload()` and `_multipart_basic()`, which no worker of this version
  calls; `clear_upload_session()`, which nothing calls.
* A Drive session combined with a folder deleted under it; two threads that build
  one backend at once (`factory.py:15`); the two bounded waits of a shutdown.

## 6. Plan

1. `ServiceShutdown`: the two bounded waits against `TimeoutStopSec=30`, and a
   recorder that reuses a path.
2. Further disagreements as runs: `exists()` on an unverified partial rsync
   file; two spellings of one bucket and their two locks (`BindingOf <- TwoBindings`
   with `StoreOf <- OneStore` breaks `NeverOverwritten`); an object stored by
   another client between inspection and completion; twin Drive folders; a cached
   Drive folder that is never forgotten; a bag rewritten with the same size; the
   watch script that sends rows bound to S3 or rsync to its Drive folder;
   `storage.legacy_backend` overruled by a Drive or rsync default.
3. Further refinements: `FileWatcher` and `QueueBinding` as implementations of the
   arrival of a bag (`Add`) and of its binding (`BindingOf`), `DriveFolders` of `LookupOf`.

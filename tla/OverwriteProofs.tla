--------------------------- MODULE OverwriteProofs ---------------------------
(***************************************************************************)
(* Why no object under an S3 key is ever replaced, and why done, deleted   *)
(* and conflict mean what they say, for any number of bags, threads, faults, *)
(* restarts and openings of the database and any mix of S3, Drive and rsync. *)
(* The HEAD request and the completion happen under one key lock, which two *)
(* bags of one key share.  On S3 and Drive nothing stored goes away, and on *)
(* rsync a file that is whole is replaced by itself only, so what a thread *)
(* has seen at the destination stays true: what is done or deleted is      *)
(* stored, and a conflict is real.                                         *)
(***************************************************************************)
EXTENDS UploadPoolProofs

\* The lock is keyed by the text of destination_json (worker.py:40): bags that meet
\* at one S3 key must have been recorded with one spelling of it.
OneSpelling ==
  \A a, b \in Bags : Kind(a) = "s3" /\ LocationOf(a) = LocationOf(b) => BindingOf[a] = BindingOf[b]

\* Calls made inside the "with" block.
Held == {"inspect", "transfer", "label", "confirm", "finish", "known", "unlink"}

\* NeverOverwritten needs to know that the key is still empty when the completion
\* comes, which only the lock and the HEAD request before it ensure.
LockInv ==
  /\ \A w \in Workers : pc[w] \in Held => lock[LockKey(job[w])] = w
  /\ \A w \in Workers : pc[w] = "transfer" /\ Kind(job[w]) = "s3" => Missing3(job[w])
  /\ \A w \in Workers : pc[w] = "label" => Kind(job[w]) = "rsync"

LEMMA InitLock == Init => LockInv
BY DEF Init, FreshMemory, LockInv, Held

-----------------------------------------------------------------------------
(* What one step of a thread does to the locks and the destinations.       *)

\* Only the thread itself moves, the locks of the others stay theirs, it enters the
\* block by Acquire and leaves it by giving the lock up.
LockShape(w) ==
  /\ \A v \in Workers : v # w => pc'[v] = pc[v] /\ job'[v] = job[v]
  /\ \A k \in LockKeys, v \in Workers : v # w /\ lock[k] = v => lock'[k] = v
  /\ pc'[w] \in Held => /\ job'[w] = job[w] /\ job[w] \in Bags
                        /\ \/ pc[w] \in Held /\ UNCHANGED lock
                           \/ lock'[LockKey(job[w])] = w

\* It comes to the transfer from the look at the destination.
StageShape(w) ==
  /\ pc'[w] = "transfer" => /\ pc[w] = "inspect" /\ UNCHANGED remote
                            /\ Kind(job[w]) = "s3" => Missing3(job[w])
  /\ pc'[w] = "label" => pc[w] = "transfer" /\ Kind(job[w]) = "rsync"

\* It writes nowhere but at the location of its own bag.
RemoteShape(w) ==
  \/ UNCHANGED remote
  \/ /\ pc[w] \in {"transfer", "label"} /\ job[w] \in Bags
     /\ \A l \in Locations : l # LocationOf(job[w]) => remote'[l] = remote[l]

LEMMA MoveShape ==
  ASSUME TypeOK, NEW w \in Workers, NEW stage, Goto(w, stage), UNCHANGED job,
         Unlock(w) \/ UNCHANGED lock,
         stage \in Held => pc[w] \in Held /\ UNCHANGED lock
  PROVE  LockShape(w)
<1>1. /\ \A v \in Workers : v # w => pc'[v] = pc[v] /\ job'[v] = job[v]
      /\ pc'[w] = stage
  BY DEF TypeOK, Goto
<1>2. \A k \in LockKeys, v \in Workers : v # w /\ lock[k] = v => lock'[k] = v
  BY DEF TypeOK, Unlock
<1>3. pc[w] \in Held => job[w] \in Bags
  BY DEF TypeOK, Held
<1> QED
  BY <1>1, <1>2, <1>3 DEF LockShape

LEMMA RestShape ==
  ASSUME TypeOK, NEW w \in Workers, NEW stage \in Stages \ Held,
         pc' = [pc EXCEPT ![w] = stage], Unlock(w) \/ UNCHANGED lock,
         \A v \in Workers : v # w => job'[v] = job[v]
  PROVE  LockShape(w)
<1>1. /\ \A v \in Workers : v # w => pc'[v] = pc[v]
      /\ pc'[w] = stage
  BY DEF TypeOK
<1>2. \A k \in LockKeys, v \in Workers : v # w /\ lock[k] = v => lock'[k] = v
  BY DEF TypeOK, Unlock
<1> QED
  BY <1>1, <1>2 DEF LockShape

LEMMA WorkerLock ==
  ASSUME TypeOK, NEW w \in Workers, WorkerStep(w)
  PROVE  LockShape(w)
<1>a. \A stage \in {"check", "hash", "record", "measure", "resolve", "lock", "conflict", "defer", "fatal",
                    "count", "dead", "idle"} : stage \in Stages \ Held
  BY DEF Stages, Held
<1>b. /\ \A v \in Workers : \A b : v # w /\ job' = [job EXCEPT ![w] = b] => job'[v] = job[v]
      /\ \A v \in Workers : UNCHANGED job => job'[v] = job[v]
  BY DEF TypeOK
<1>1. CASE Claim(w) \/ CheckLocal(w) \/ Hash(w) \/ Record(w) \/ Measure(w) \/ Resolve(w)
  <2>1. UNCHANGED lock /\ \E stage \in Stages \ Held : Goto(w, stage)
    BY <1>1, <1>a DEF Claim, CheckLocal, Hash, Record, Measure, Resolve, Die
  <2>2. \A v \in Workers : v # w => job'[v] = job[v]
    BY <1>1, <1>b DEF Claim, CheckLocal, Hash, Record, Measure, Resolve, Die, Keep
  <2> QED
    BY <2>1, <2>2, RestShape DEF Goto
<1>2. CASE Acquire(w)
  <2>1. /\ job[w] \in Bags /\ LockKey(job[w]) \in LockKeys /\ UNCHANGED job
        /\ lock' = [lock EXCEPT ![LockKey(job[w])] = w]
        /\ lock[LockKey(job[w])] = Nobody
    BY <1>2, BagFacts DEF Acquire, Keep, TypeOK
  <2>2. \A v \in Workers : v # w => pc'[v] = pc[v]
    BY <1>2 DEF Acquire, Goto, TypeOK
  <2>3. lock'[LockKey(job[w])] = w
    BY <2>1 DEF TypeOK
  <2>4. \A k \in LockKeys, v \in Workers : v # w /\ lock[k] = v => lock'[k] = v
    BY <2>1, PoolAssumption DEF TypeOK
  <2> QED
    BY <2>1, <2>2, <2>3, <2>4 DEF LockShape
<1>3. CASE S3Inspect(w) \/ LegacyInspect(w) \/ S3Transfer(w) \/ DriveTransfer(w)
             \/ RsyncTransfer(w) \/ Label(w) \/ Confirm(w)
  <2>1. pc[w] \in Held /\ UNCHANGED job
    BY <1>3 DEF S3Inspect, LegacyInspect, Look, S3Transfer, DriveTransfer, RsyncTransfer, Move,
                Label, Confirm, Keep, Held
  <2>2. Kind(job[w]) \in {"s3", "gdrive", "rsync"}
    BY <2>1, StorageAssumption DEF Kind, Held, TypeOK
  <2>3. \/ UNCHANGED lock /\ \E stage \in Stages : Goto(w, stage)
        \/ Unlock(w) /\ \E stage \in Stages \ Held : Goto(w, stage)
    BY <1>3, <1>a, <2>2 DEF S3Inspect, LegacyInspect, S3Transfer, DriveTransfer, RsyncTransfer,
                            Label, Confirm, Raise, Stages
  <2> QED
    BY <2>1, <2>3, MoveShape
<1>4. CASE Finish(w) \/ Unlink(w)
  <2>1. pc[w] \in Held
    BY <1>4 DEF Finish, Unlink, Held
  <2>2. CASE Keep
    <3>1. \/ UNCHANGED lock /\ Goto(w, "unlink")
          \/ Unlock(w) /\ \E stage \in Stages \ Held : Goto(w, stage)
      BY <1>4, <1>a DEF Finish, Unlink, Raise, Idle
    <3> QED
      BY <2>1, <2>2, <3>1, MoveShape DEF Keep, Held
  <2>3. CASE Idle(w)
    BY <1>4, <1>a, <1>b, <2>3, RestShape DEF Finish, Unlink, Idle, Goto, Raise
  <2> QED
    BY <1>4, <2>2, <2>3 DEF Finish, Unlink
<1>5. CASE SettleConflict(w) \/ SettleDefer(w) \/ WriteFailed(w)
  <2>1. UNCHANGED lock /\ \E stage \in Stages \ Held : Goto(w, stage)
    BY <1>5, <1>a DEF SettleConflict, SettleDefer, WriteFailed, Idle, Die
  <2>2. \A v \in Workers : v # w => job'[v] = job[v]
    BY <1>5, <1>b DEF SettleConflict, SettleDefer, WriteFailed, Idle, Die, Keep
  <2> QED
    BY <2>1, <2>2, RestShape DEF Goto
<1>6. CASE ReadRetries(w)
  BY <1>6 DEF ReadRetries, LockShape, Held
<1> QED
  BY <1>1, <1>2, <1>3, <1>4, <1>5, <1>6 DEF WorkerStep

LEMMA WorkerStage ==
  ASSUME TypeOK, NEW w \in Workers, WorkerStep(w)
  PROVE  StageShape(w)
<1> USE DEF StageShape
<1>a. \A stage : Goto(w, stage) => pc'[w] = stage
  BY DEF Goto, TypeOK
<1>1. CASE Claim(w) \/ CheckLocal(w) \/ Hash(w) \/ Record(w) \/ Measure(w) \/ Resolve(w) \/ Acquire(w)
  <2>1. \E stage \in {"check", "fatal", "hash", "record", "measure", "resolve", "lock", "inspect", "dead"} :
          Goto(w, stage)
    BY <1>1 DEF Claim, CheckLocal, Hash, Record, Measure, Resolve, Acquire, Die
  <2> QED
    BY <1>a, <2>1
<1>2. CASE S3Inspect(w)
  BY <1>2, <1>a DEF S3Inspect, Look, Raise
<1>3. CASE LegacyInspect(w)
  BY <1>3, <1>a DEF LegacyInspect, Look, Raise
<1>4. CASE S3Transfer(w) \/ DriveTransfer(w) \/ Label(w) \/ Confirm(w)
  <2>1. \E stage \in {"conflict", "defer", "fatal", "count", "confirm", "finish"} : Goto(w, stage)
    <3>1. CASE Confirm(w)
      <4>1. Kind(job[w]) \in {"s3", "gdrive", "rsync"}
        BY <3>1, StorageAssumption DEF Confirm, Kind, TypeOK
      <4> QED
        BY <3>1, <4>1 DEF Confirm, Raise
    <3> QED
      BY <1>4, <3>1 DEF S3Transfer, DriveTransfer, Label, Raise
  <2> QED
    BY <1>a, <2>1
<1>5. CASE RsyncTransfer(w)
  BY <1>5, <1>a DEF RsyncTransfer, Move, Raise
<1>6. CASE Finish(w) \/ Unlink(w) \/ SettleConflict(w) \/ SettleDefer(w) \/ WriteFailed(w)
  <2>1. \E stage \in {"idle", "unlink", "count", "dead"} : Goto(w, stage)
    BY <1>6 DEF Finish, Unlink, SettleConflict, SettleDefer, WriteFailed, Idle, Die, Raise
  <2> QED
    BY <1>a, <2>1
<1>7. CASE ReadRetries(w)
  BY <1>7 DEF ReadRetries
<1> QED
  BY <1>1, <1>2, <1>3, <1>4, <1>5, <1>6, <1>7 DEF WorkerStep

LEMMA WorkerRemote ==
  ASSUME TypeOK, NEW w \in Workers, WorkerStep(w)
  PROVE  RemoteShape(w)
<1> USE DEF RemoteShape
<1>a. ASSUME NEW b \in Bags, NEW new, remote' = [remote EXCEPT ![LocationOf(b)] = new]
      PROVE  \A l \in Locations : l # LocationOf(b) => remote'[l] = remote[l]
  BY <1>a DEF TypeOK, StorageTypeOK
<1>b. pc[w] \in {"transfer", "label"} => job[w] \in Bags
  BY DEF TypeOK
<1>1. CASE S3Transfer(w)
  BY <1>1, <1>a, <1>b DEF S3Transfer, Move, S3Complete
<1>2. CASE DriveTransfer(w)
  BY <1>2, <1>a, <1>b DEF DriveTransfer, Move, DriveCreate
<1>3. CASE RsyncTransfer(w)
  BY <1>3, <1>a, <1>b DEF RsyncTransfer, Move, RsyncInterrupted, RsyncWrite
<1>4. CASE Label(w)
  BY <1>4, <1>a, <1>b DEF Label, RsyncLabel
<1>5. CASE ~(S3Transfer(w) \/ DriveTransfer(w) \/ RsyncTransfer(w) \/ Label(w))
  BY <1>5 DEF WorkerStep, Claim, CheckLocal, Hash, Record, Measure, Resolve, Acquire, S3Inspect,
              LegacyInspect, Look, Confirm, Finish, Unlink, SettleConflict, SettleDefer,
              ReadRetries, WriteFailed, Die
<1> QED
  BY <1>1, <1>2, <1>3, <1>4, <1>5

\* Threads that work at one S3 key hold one lock, so they are one thread.
LEMMA OneWriter ==
  ASSUME TypeOK, LockInv, OneSpelling, NEW v \in Workers, NEW w \in Workers,
         pc[v] \in Held, pc[w] \in Held,
         Kind(job[v]) = "s3", LocationOf(job[v]) = LocationOf(job[w])
  PROVE  v = w
<1>1. job[v] \in Bags /\ job[w] \in Bags
  BY DEF TypeOK, Held
<1>2. LockKey(job[v]) = LockKey(job[w])
  BY <1>1 DEF OneSpelling, LocationOf, LockKey
<1> QED
  BY <1>2 DEF LockInv

-----------------------------------------------------------------------------
(* The theorem.                                                            *)

LEMMA StepLock == OneSpelling /\ TypeOK /\ LockInv /\ [Next]_vars => LockInv'
<1> SUFFICES ASSUME OneSpelling, TypeOK, LockInv, [Next]_vars PROVE LockInv'
  OBVIOUS
<1>1. ASSUME NEW w \in Workers, WorkerStep(w) PROVE LockInv'
  <2>1. LockShape(w) /\ StageShape(w) /\ RemoteShape(w)
    BY <1>1, WorkerLock, WorkerStage, WorkerRemote
  <2>2. ASSUME NEW v \in Workers, pc'[v] \in Held PROVE lock'[LockKey(job'[v])] = v
    <3>1. CASE v = w
      BY <2>1, <2>2, <3>1 DEF LockShape, LockInv
    <3>2. CASE v # w
      <4>1. pc[v] \in Held /\ job'[v] = job[v] /\ job[v] \in Bags
        BY <2>1, <2>2, <3>2 DEF LockShape, TypeOK, Held
      <4> QED
        BY <2>1, <3>2, <4>1, BagFacts DEF LockShape, LockInv
    <3> QED
      BY <3>1, <3>2
  <2>3. ASSUME NEW v \in Workers, pc'[v] = "transfer", Kind(job'[v]) = "s3"
        PROVE  remote'[LocationOf(job'[v])] = {}
    <3>1. job'[v] = job[v]
      BY <2>1, <2>3 DEF LockShape, Held
    <3>2. CASE v = w
      BY <2>1, <2>3, <3>1, <3>2 DEF StageShape, Missing3, Exists
    <3>3. CASE v # w
      <4>1. pc[v] = "transfer" /\ Missing3(job[v]) /\ job[v] \in Bags
        BY <2>1, <2>3, <3>1, <3>3 DEF LockShape, LockInv, TypeOK
      <4>2. LocationOf(job[v]) \in Locations
        BY <4>1, StorageAssumption DEF LocationOf, Locations
      <4>3. UNCHANGED remote \/ LocationOf(job[v]) # LocationOf(job[w])
        BY <2>1, <2>3, <3>1, <3>3, <4>1, OneWriter DEF RemoteShape, Held
      <4>4. remote'[LocationOf(job[v])] = remote[LocationOf(job[v])]
        BY <2>1, <4>2, <4>3 DEF RemoteShape
      <4> QED
        BY <3>1, <4>1, <4>4 DEF Missing3, Exists
    <3> QED
      BY <3>2, <3>3
  <2>4. ASSUME NEW v \in Workers, pc'[v] = "label" PROVE Kind(job'[v]) = "rsync"
    BY <2>1, <2>4 DEF LockShape, StageShape, LockInv, Held
  <2> QED
    BY <2>2, <2>3, <2>4 DEF LockInv, Missing3, Exists
<1>2. CASE Exit \/ Crash
  BY <1>2 DEF Exit, Crash, Forget, FreshMemory, LockInv, Held
<1>3. CASE Stop \/ Start \/ DashboardOpen \/ \E b \in Bags : Add(b) \/ TimePasses(b) \/ Rewrite(b) \/ Vanish(b)
  <2>1. UNCHANGED <<pc, job, lock, remote>>
    BY <1>3 DEF Stop, Start, DashboardOpen, Add, TimePasses, Rewrite, Vanish, memory
  <2> QED
    BY <2>1 DEF LockInv, Missing3, Exists
<1>4. CASE UNCHANGED vars
  BY <1>4 DEF vars, memory, LockInv, Missing3, Exists
<1> QED
  BY <1>1, <1>2, <1>3, <1>4 DEF Next, Service, Others

LEMMA StepKeeps ==
  ASSUME OneSpelling, TypeOK, LockInv, [Next]_vars
  PROVE  [\A l \in Locations :
            KindOf[l[1]] = "s3" /\ remote[l] # {} => remote'[l] = remote[l]]_vars
<1>1. ASSUME NEW w \in Workers, WorkerStep(w), NEW l \in Locations,
             KindOf[l[1]] = "s3", remote[l] # {}
      PROVE  remote'[l] = remote[l]
  <2>1. RemoteShape(w)
    BY <1>1, WorkerRemote
  <2>2. CASE l = LocationOf(job[w]) /\ ~UNCHANGED remote
    <3>1. /\ pc[w] \in {"transfer", "label"} /\ Kind(job[w]) = "s3"
      BY <1>1, <2>1, <2>2 DEF RemoteShape, LocationOf, Kind
    <3>2. Missing3(job[w])
      BY <3>1 DEF LockInv
    <3> QED
      BY <1>1, <2>2, <3>2 DEF Missing3, Exists
  <2> QED
    BY <2>1, <2>2 DEF RemoteShape
<1>2. ASSUME ~\E w \in Workers : WorkerStep(w) PROVE UNCHANGED remote
  BY <1>2 DEF Next, Service, Others, Exit, Crash, Stop, Start, DashboardOpen, Add, TimePasses,
              Rewrite, Vanish, vars
<1> QED
  BY <1>1, <1>2

\* An object under an S3 key stays exactly as it is, whatever the threads, faults,
\* crashes, rewritten bags and dashboard do, as long as the bags of one key were
\* recorded with one destination_json (_worker's key lock, S3Backend.upload_entry).
THEOREM NothingReplaced ==
  ASSUME OneSpelling
  PROVE  Spec => NeverOverwritten
<1>1. OneSpelling
  OBVIOUS
<1>2. TypeOK /\ LockInv /\ [Next]_vars => LockInv'
  BY <1>1, StepLock
<1>3. TypeOK /\ LockInv /\ [Next]_vars =>
        [\A l \in Locations :
           KindOf[l[1]] = "s3" /\ remote[l] # {} => remote'[l] = remote[l]]_vars
  BY <1>1, StepKeeps
<1> QED
  BY <1>2, <1>3, InitTypeOK, StepTypeOK, InitLock, PTL DEF Spec, NeverOverwritten

-----------------------------------------------------------------------------
(* What is stored is the bag.                                              *)

\* rsync writes over whatever file has the name of the bag: bags sent to one rsync
\* destination must have names of their own there.
RsyncAlone ==
  \A a, b \in Bags : Kind(a) = "rsync" /\ LocationOf(a) = LocationOf(b) => a = b

\* A robot that hashes its bags before it sends them, whatever the backends.
Verified == VerifyBlake3 /\ OneSpelling /\ RsyncAlone

\* What the recorder wrote, also after the local file has been unlinked.
Content(b) == IF disk[b] # Missing THEN disk[b] ELSE released[b]
Sum(b)     == Blake3(Content(b))

\* There is no second file under the name of one that has been unlinked.
Unlinked(b) == released[b] # Missing => disk[b] = Missing

\* Something under the key of a bag is not that bag.
Foreign(b) == \E o \in remote[LocationOf(b)] : o.label # Sum(b)

\* The bytes of the bag are at its location, labelled or not.
Whole(b) == \E o \in remote[LocationOf(b)] : o.data = Content(b)

\* The labelled bag is where find_duplicate() looks.
Stored(b) == \E l \in LookupOf(b) : Holds(l, Sum(b))

\* A label is the digest of the bytes it stands beside; a torn rsync file has none.
Honest ==
  \A l \in Locations : \A o \in remote[l] :
    o.label # NoDigest => o.data # Torn /\ o.label = Blake3(o.data)

\* An rsync path holds one file, and nobody else's sidecar.
OwnPath(b) ==
  Kind(b) = "rsync" =>
    \A o \in remote[LocationOf(b)] : /\ o.label \in {NoDigest, Sum(b)}
                                     /\ \A p \in remote[LocationOf(b)] : p = o

\* What the row says of the bag, and what follows for the destination.
Told(b) ==
  /\ Content(b) \in Contents /\ Unlinked(b)
  /\ queue[b].digest \in {NoDigest, Sum(b)}
  /\ queue[b].status = "absent" => queue[b].digest = NoDigest
  /\ queue[b].status = "done" => Stored(b)
  /\ released[b] # Missing => Holds(LocationOf(b), Sum(b))
  /\ queue[b].status = "conflict" => queue[b].digest # NoDigest /\ Kind(b) = "s3" /\ Foreign(b)

Recorded == {"measure", "resolve", "lock", "inspect", "transfer", "label", "confirm", "finish",
             "known", "unlink", "conflict"}

\* What a call rests on.  Drive has created the file it reads back in confirm, and the
\* second rsync labels a file that the first has completed.
Grounds(stage, b) ==
  /\ stage = "known" => Stored(b)
  /\ stage = "label" => Whole(b)
  /\ stage \in {"finish", "unlink"} \/ (stage = "confirm" /\ Kind(b) = "gdrive") =>
       Holds(LocationOf(b), Sum(b))
  /\ stage = "conflict" => Kind(b) = "s3" /\ Foreign(b)

\* What a thread has read of its bag is true, and the row says it too once it is recorded.
Knows(w) ==
  /\ job[w] # NoJob => /\ queue[job[w]].status # "absent"
                       /\ seen[w].digest \in {NoDigest, Sum(job[w])}
  /\ pc[w] \in Recorded \cup {"record"} => seen[w].digest # NoDigest
  /\ pc[w] \in Recorded \/ (pc[w] = "check" /\ seen[w].digest # NoDigest) =>
       queue[job[w]].digest # NoDigest
  /\ Grounds(pc[w], job[w])

\* DoneIsStored, CustodyKept and ConflictIsReal with what makes them inductive.
Facts == Honest /\ (\A b \in Bags : OwnPath(b) /\ Told(b)) /\ (\A w \in Workers : Knows(w))

StoredInv == Untampered => Facts

-----------------------------------------------------------------------------
(* What lasts.                                                             *)

\* Where a bag goes, and where it is looked for.
LEMMA Places ==
  ASSUME NEW b \in Bags
  PROVE  /\ LocationOf(b) \in Locations /\ LocationOf(b) \in LookupOf(b)
         /\ Kind(b) \in {"s3", "gdrive", "rsync"} /\ Kind(b) = KindOf[LocationOf(b)[1]]
<1>1. LocationOf(b) \in Locations /\ Kind(b) = KindOf[LocationOf(b)[1]]
  BY StorageAssumption DEF LocationOf, Locations, Kind
<1> QED
  BY <1>1, StorageAssumption DEF LocationOf, LookupOf, Kind

LEMMA InitStored == Init => StoredInv
<1> SUFFICES ASSUME Init PROVE Facts
  BY DEF StoredInv
<1>1. \A l \in Locations : remote[l] = {}
  BY DEF Init, StorageInit
<1>2. ASSUME NEW b \in Bags PROVE OwnPath(b) /\ Told(b)
  <2>1. queue[b] = AbsentRow /\ disk[b] \in Contents /\ released[b] = Missing
    BY DEF Init, QueueInit
  <2>2. Told(b)
    BY <2>1, PoolAssumption DEF Told, Content, Unlinked, AbsentRow
  <2>3. OwnPath(b)
    BY <1>1, Places DEF OwnPath
  <2> QED
    BY <2>2, <2>3
<1>3. ASSUME NEW w \in Workers PROVE Knows(w)
  BY DEF Init, FreshMemory, Knows, Recorded, Grounds
<1> QED
  BY <1>1, <1>2, <1>3 DEF Facts, Honest

\* What the recorder wrote stays what it was.
LEMMA SameContent ==
  ASSUME TypeOK, [Next]_vars, Untampered'
  PROVE  /\ Untampered
         /\ \A b \in Bags : Content(b)' = Content(b) /\ (Unlinked(b) => Unlinked(b)')
<1>1. CASE \E b \in Bags : Rewrite(b) \/ Vanish(b)
  <2>1. spent'["tamper"] = spent["tamper"] + 1 /\ spent["tamper"] \in Nat
    BY <1>1 DEF Rewrite, Vanish, Spend, TypeOK
  <2> QED
    BY <2>1 DEF Untampered
<1>2. CASE ~\E b \in Bags : Rewrite(b) \/ Vanish(b)
  <2>1. Untampered
    <3>1. CASE \E w \in Workers : WorkerStep(w)
      <4>1. Fault \/ NoFault
        BY <3>1 DEF WorkerStep, Claim, CheckLocal, Hash, Record, Measure, Resolve, Acquire, S3Inspect,
                    LegacyInspect, S3Transfer, DriveTransfer, RsyncTransfer, Label, Confirm, Finish,
                    Unlink, SettleConflict, SettleDefer, ReadRetries, WriteFailed, NoFault
      <4> QED
        BY <4>1 DEF Untampered, Fault, NoFault, Spend, TypeOK
    <3>2. CASE UNCHANGED spent \/ Spend("outage") \/ Spend("open")
      BY <3>2 DEF Untampered, Spend, TypeOK
    <3> QED
      BY <1>2, <3>1, <3>2 DEF Next, Service, Others, Add, TimePasses, Stop, Exit, Crash, Start,
                              DashboardOpen, vars
  <2>2. ASSUME NEW w \in Workers, Unlink(w), NEW b \in Bags 
        PROVE  Content(b)' = Content(b) /\ (Unlinked(b) => Unlinked(b)')
    <3>1. CASE UNCHANGED <<disk, released>>
      BY <3>1 DEF Content, Unlinked
    <3>2. CASE /\ disk[job[w]] # Missing
               /\ released' = [released EXCEPT ![job[w]] = disk[job[w]]]
               /\ disk' = [disk EXCEPT ![job[w]] = Missing]
      BY <3>2 DEF Content, Unlinked, TypeOK
    <3> QED
      BY <2>2, <3>1, <3>2 DEF Unlink, SourceGone
  <2>3. CASE ~\E w \in Workers : Unlink(w)
    <3>1. UNCHANGED <<disk, released>>
      BY <1>2, <2>3 DEF Next, WorkerStep, Service, Others, Claim, CheckLocal, Hash, Record, Measure, Resolve,
        Acquire, S3Inspect, LegacyInspect, Look, Move, S3Transfer, DriveTransfer, RsyncTransfer, Label,
        Confirm, Finish, SettleConflict, SettleDefer, ReadRetries, WriteFailed, Add, TimePasses, Stop,
        Exit, Crash, Start, DashboardOpen, vars, Die, AtRest
    <3> QED
      BY <2>1, <3>1 DEF Content, Unlinked
  <2> QED
    BY <2>1, <2>2, <2>3
<1> QED
  BY <1>1, <1>2

\* A destination is written to by the transfer of its own backend, or by the second
\* rsync.
LEMMA Writers ==
  ASSUME TypeOK, LockInv, NEW w \in Workers, WorkerStep(w), ~UNCHANGED remote
  PROVE  /\ job[w] \in Bags
         /\ \A l \in Locations : l # LocationOf(job[w]) => remote'[l] = remote[l]
         /\ \/ Kind(job[w]) = "s3" /\ S3Transfer(w)
            \/ Kind(job[w]) = "gdrive" /\ DriveTransfer(w)
            \/ Kind(job[w]) = "rsync" /\ (RsyncTransfer(w) \/ Label(w))
<1>1. /\ pc[w] \in {"transfer", "label"} /\ job[w] \in Bags
      /\ \A l \in Locations : l # LocationOf(job[w]) => remote'[l] = remote[l]
  BY WorkerRemote DEF RemoteShape
<1>2. S3Transfer(w) \/ DriveTransfer(w) \/ RsyncTransfer(w) \/ Label(w)
  BY <1>1 DEF WorkerStep, Claim, CheckLocal, Hash, Record, Measure, Resolve, Acquire, S3Inspect,
              LegacyInspect, Look, Confirm, Finish, Unlink, SettleConflict, SettleDefer,
              ReadRetries, WriteFailed
<1>3. Label(w) => Kind(job[w]) = "rsync"
  BY DEF LockInv, Label
<1> QED
  BY <1>1, <1>2, <1>3 DEF S3Transfer, DriveTransfer, RsyncTransfer, Move

LEMMA OthersWriteNothing ==
  ASSUME [Next]_vars, ~\E w \in Workers : WorkerStep(w)
  PROVE  UNCHANGED remote
BY DEF Next, Service, Others, Exit, Crash, Stop, Start, DashboardOpen, Add, TimePasses,
       Rewrite, Vanish, vars

\* Nothing in a bucket or a Drive folder goes away.
Growing ==
  \A l \in Locations : KindOf[l[1]] # "rsync" => remote[l] \subseteq remote'[l]

LEMMA StepGrows ==
  ASSUME OneSpelling, TypeOK, LockInv, [Next]_vars
  PROVE  Growing
<1> SUFFICES ASSUME NEW l \in Locations, KindOf[l[1]] # "rsync", remote'[l] # remote[l]
             PROVE  remote[l] \subseteq remote'[l]
  BY DEF Growing
<1>1. CASE KindOf[l[1]] = "s3"
  BY <1>1, StepKeeps DEF vars
<1>2. CASE KindOf[l[1]] = "gdrive"
  <2>1. PICK w \in Workers : WorkerStep(w)
    BY OthersWriteNothing
  <2>2. l = LocationOf(job[w]) /\ DriveTransfer(w)
    BY <1>2, <2>1, Writers DEF LocationOf, Kind
  <2>3. \E data : DriveCreate(job[w], seen[w].digest, data)
    BY <2>2 DEF DriveTransfer
  <2> QED
    BY <2>2, <2>3 DEF DriveCreate, TypeOK, StorageTypeOK
<1> QED
  BY <1>1, <1>2, StorageAssumption DEF Locations

\* What a call leaves at the rsync path of its bag: the whole bag, and under its label
\* if it had one or has now been given it; or a torn file, which has none, where the
\* bag was not whole before.
RsyncLeaves(b, o) ==
  /\ o.label \in {NoDigest, Sum(b)}
  /\ \/ o.data = Content(b)
     \/ o.data = Torn /\ o.label = NoDigest /\ ~Whole(b)
  /\ Holds(LocationOf(b), Sum(b)) => o.label = Sum(b)

LEMMA RsyncEffect ==
  ASSUME Untampered, TypeOK, LockInv, Facts, NEW w \in Workers, NEW b \in Bags, job[w] = b,
         Kind(b) = "rsync", RsyncTransfer(w) \/ Label(w), ~UNCHANGED remote
  PROVE  \E o : RsyncLeaves(b, o) /\ remote' = [remote EXCEPT ![LocationOf(b)] = {o}]
<1> DEFINE before == remote[LocationOf(b)]
<1>a. /\ before \subseteq Objects
      /\ \A o \in before : /\ o.label \in {NoDigest, Sum(b)}
                           /\ \A p \in before : p = o
                           /\ o.label # NoDigest => o.data # Torn /\ o.label = Blake3(o.data)
  BY Places DEF Facts, OwnPath, Honest, TypeOK, StorageTypeOK
<1>b. Content(b) \in Contents /\ Content(b) # Torn /\ Sum(b) # NoDigest
  BY StorageAssumption DEF Facts, Told, Sum, Blake3, NoDigest
<1>c. \A o \in before : o.label = Sum(b) => o.data = Content(b)
  BY <1>a, <1>b DEF Sum, Blake3
<1>h. Holds(LocationOf(b), Sum(b)) => \E o \in before : o.label = Sum(b)
  BY DEF Holds
<1> HIDE DEF before
<1>1. CASE Label(w)
  <2>1. RsyncLabel(b, seen[w].digest) /\ pc[w] = "label"
    BY <1>1 DEF Label
  <2>2. seen[w].digest = Sum(b) /\ \E o \in before : o.data = Content(b)
    BY <2>1, BagFacts DEF Facts, Knows, Recorded, Grounds, Whole, before
  <2>3. PICK o \in before : o.data = Content(b)
    BY <2>2
  <2> DEFINE new == [o EXCEPT !.label = Sum(b)]
  <2>4. {[p EXCEPT !.label = Sum(b)] : p \in before} = {new}
    BY <1>a
  <2>5. new.label = Sum(b) /\ new.data = Content(b)
    BY <1>a, <2>3 DEF Objects
  <2>6. remote' = [remote EXCEPT ![LocationOf(b)] = {new}]
    <3>1. RsyncLabel(b, Sum(b))
      BY <2>1, <2>2
    <3>2. remote' = [remote EXCEPT ![LocationOf(b)] = {[p EXCEPT !.label = Sum(b)] : p \in before}]
      BY <3>1 DEF RsyncLabel, before
    <3> QED
      BY <2>4, <3>2
  <2> HIDE DEF new
  <2> QED
    BY <2>5, <2>6 DEF RsyncLeaves
<1>2. CASE RsyncTransfer(w)
  <2>1. disk[b] # Missing /\ Readings(w) = {Content(b)} /\ Content(b) = disk[b]
    BY <1>2 DEF RsyncTransfer, SourceGone, Readings, Untampered, Content
  <2> DEFINE label == IF before = {} THEN NoDigest ELSE (CHOOSE o \in before : TRUE).label
  <2>2. /\ label \in {NoDigest, Sum(b)}
        /\ \A o \in before : label = o.label
    BY <1>a
  <2>3. ASSUME NEW data, RsyncWrite(b, data)
        PROVE  remote' = [remote EXCEPT ![LocationOf(b)] = {[label |-> label, data |-> data]}]
    BY <2>3 DEF RsyncWrite, before
  <2> HIDE DEF label
  <2>4. CASE RsyncWrite(b, Content(b))
    <3> DEFINE o == [label |-> label, data |-> Content(b)]
    <3>1. RsyncLeaves(b, o)
      BY <1>h, <2>2 DEF RsyncLeaves
    <3> QED
      BY <2>3, <2>4, <3>1
  <2>5. CASE RsyncInterrupted(b, Content(b))
    <3> DEFINE o == [label |-> label, data |-> Torn]
    <3>1. RsyncWrite(b, Torn) /\ ~Whole(b)
      BY <2>5 DEF RsyncInterrupted, Whole
    <3>2. label = NoDigest
      BY <1>c, <2>2, <3>1 DEF Whole, before, label
    <3>3. RsyncLeaves(b, o)
      BY <1>c, <1>h, <3>1, <3>2 DEF RsyncLeaves, Whole, before
    <3> QED
      BY <2>3, <3>1, <3>3
  <2> QED
    BY <1>2, <2>1, <2>4, <2>5 DEF RsyncTransfer
<1> QED
  BY <1>1, <1>2

\* A bag that is whole at its rsync path stays whole, and labelled if it was.
RsyncKeeps ==
  \A b \in Bags : Kind(b) = "rsync" =>
    /\ Whole(b) => Whole(b)'
    /\ Holds(LocationOf(b), Sum(b)) => Holds(LocationOf(b), Sum(b))'

LEMMA StepRsync ==
  ASSUME RsyncAlone, Untampered, TypeOK, LockInv, Facts, [Next]_vars,
         \A b \in Bags : Content(b)' = Content(b)
  PROVE  RsyncKeeps
<1> SUFFICES ASSUME NEW b \in Bags, Kind(b) = "rsync"
             PROVE  /\ Whole(b) => Whole(b)'
                    /\ Holds(LocationOf(b), Sum(b)) => Holds(LocationOf(b), Sum(b))'
  BY DEF RsyncKeeps
<1>1. LocationOf(b) \in Locations /\ Sum(b)' = Sum(b)
  BY Places DEF Sum, Blake3
<1>2. CASE remote'[LocationOf(b)] = remote[LocationOf(b)]
  BY <1>1, <1>2 DEF Whole, Holds, Blake3, LocationOf
<1>3. CASE remote'[LocationOf(b)] # remote[LocationOf(b)]
  <2>1. PICK w \in Workers : WorkerStep(w)
    BY <1>3, OthersWriteNothing
  <2>2. job[w] = b /\ (RsyncTransfer(w) \/ Label(w))
    BY <1>1, <1>3, <2>1, Writers DEF RsyncAlone, LocationOf, Kind
  <2>3. PICK o : RsyncLeaves(b, o) /\ remote' = [remote EXCEPT ![LocationOf(b)] = {o}]
    BY <1>3, <2>2, RsyncEffect
  <2>4. remote'[LocationOf(b)] = {o}
    BY <1>1, <2>3 DEF TypeOK, StorageTypeOK
  <2>5. Content(b) # Torn
    BY StorageAssumption DEF Facts, Told
  <2>6. Holds(LocationOf(b), Sum(b)) => Whole(b)
    BY DEF Holds, Whole, Sum, Blake3
  <2>7. Whole(b) => o.data = Content(b)
    BY <2>3 DEF RsyncLeaves
  <2>8. Holds(LocationOf(b), Sum(b)) => o.label = Sum(b)
    BY <2>3 DEF RsyncLeaves
  <2> QED
    BY <1>1, <2>4, <2>5, <2>6, <2>7, <2>8 DEF Whole, Holds, LocationOf, Sum, Blake3
<1> QED
  BY <1>2, <1>3

\* The three together.
Lasting ==
  /\ Growing /\ RsyncKeeps
  /\ \A b \in Bags : Content(b)' = Content(b) /\ (Unlinked(b) => Unlinked(b)')

\* So what a row or a thread says of the destination stays true.
LEMMA StillStored ==
  ASSUME Lasting, NEW b \in Bags
  PROVE  /\ Sum(b)' = Sum(b)
         /\ Holds(LocationOf(b), Sum(b)) => Holds(LocationOf(b), Sum(b))'
         /\ Stored(b) => Stored(b)'
         /\ Kind(b) = "s3" /\ Foreign(b) => Foreign(b)'
         /\ \A stage : Grounds(stage, b) => Grounds(stage, b)'
<1>1. LocationOf(b) \in Locations /\ LocationOf(b)' = LocationOf(b) /\ LocationOf(b) \in LookupOf(b)
  BY Places DEF LocationOf
<1>2. Sum(b)' = Sum(b) /\ Content(b)' = Content(b)
  BY DEF Lasting, Sum, Blake3
<1>3. CASE Kind(b) = "rsync"
  <2>1. LookupOf(b) = {LocationOf(b)} /\ LookupOf(b)' = LookupOf(b)
    BY <1>3 DEF LookupOf, Kind, Locations, LocationOf
  <2>2. /\ Whole(b) => Whole(b)'
        /\ Holds(LocationOf(b), Sum(b)) => Holds(LocationOf(b), Sum(b))'
    BY <1>3 DEF Lasting, RsyncKeeps
  <2>3. Stored(b) => Stored(b)'
    BY <1>1, <2>1, <2>2 DEF Stored
  <2> QED
    BY <1>2, <1>3, <2>2, <2>3 DEF Grounds, Kind
<1>4. CASE Kind(b) # "rsync"
  <2>1. LookupOf(b) \subseteq {l \in Locations : KindOf[l[1]] # "rsync"} /\ LookupOf(b)' = LookupOf(b)
    BY <1>1, <1>4 DEF LookupOf, Kind, Locations, LocationOf
  <2>2. \A l \in LookupOf(b) : remote[l] \subseteq remote'[l]
    BY <2>1 DEF Lasting, Growing
  <2>3. \A l \in LookupOf(b) : Holds(l, Sum(b)) => Holds(l, Sum(b))'
    BY <1>2, <2>2 DEF Holds, Blake3
  <2>4. Stored(b) => Stored(b)'
    BY <2>1, <2>3 DEF Stored
  <2>5. /\ Whole(b) => Whole(b)'
        /\ Foreign(b) => Foreign(b)'
    BY <1>1, <1>2, <2>2 DEF Whole, Foreign
  <2>6. Holds(LocationOf(b), Sum(b)) => Holds(LocationOf(b), Sum(b))'
    BY <1>1, <2>3
  <2> QED
    BY <1>2, <2>4, <2>5, <2>6 DEF Grounds, Kind
<1> QED
  BY <1>3, <1>4

-----------------------------------------------------------------------------
(* What one step of a thread does to the rows and what it knows.           *)

\* What a thread does to the rows and to the files of bags.
RowEffect(w) ==
  /\ \A b \in Bags :
       /\ \/ queue'[b].digest = queue[b].digest
          \/ pc[w] = "record" /\ b = job[w] /\ queue'[b].digest = seen[w].digest
       /\ (queue'[b].status = "absent") <=> (queue[b].status = "absent")
       /\ queue'[b].status = "done" => \/ queue[b].status = "done"
                                       \/ pc[w] \in {"finish", "known"} /\ b = job[w]
       /\ queue'[b].status = "conflict" => \/ queue[b].status = "conflict"
                                           \/ pc[w] = "conflict" /\ b = job[w]
       /\ \/ released'[b] = released[b]
          \/ pc[w] = "unlink" /\ b = job[w]
  /\ \A v \in Workers : v # w => pc'[v] = pc[v] /\ job'[v] = job[v] /\ seen'[v] = seen[v]

\* Hashing apart, the digest of a row stays; done comes from the end of the block, a
\* conflict from its handler, and what is unlinked from the unlink.
LEMMA WorkerRows ==
  ASSUME TypeOK, NEW w \in Workers, WorkerStep(w),
         job[w] # NoJob => queue[job[w]].status # "absent"
  PROVE  RowEffect(w)
<1>q. /\ queue \in [Bags -> Rows] /\ released \in [Bags -> Contents \cup {Missing}]
      /\ pc[w] \notin {"idle", "dead"} => job[w] \in Bags /\ queue[job[w]].status # "absent"
  BY BagFacts DEF TypeOK, QueueTypeOK
<1> DEFINE Apart ==
      \A v \in Workers : v # w => pc'[v] = pc[v] /\ job'[v] = job[v] /\ seen'[v] = seen[v]
<1>a. ASSUME NEW stage, Goto(w, stage), UNCHANGED <<job, seen>> PROVE Apart
  BY <1>a DEF Goto, TypeOK
<1>b. ASSUME Idle(w) PROVE Apart
  BY <1>b DEF Idle, Goto, TypeOK
<1>c. ASSUME NEW b \in Bags, NEW row, queue' = [queue EXCEPT ![b] = row], UNCHANGED released,
             row.digest = queue[b].digest, row.status # "absent", queue[b].status # "absent",
             row.status = "done" => pc[w] \in {"finish", "known"} /\ b = job[w],
             row.status = "conflict" => pc[w] = "conflict" /\ b = job[w], Apart
      PROVE  RowEffect(w)
  <2>1. \A a \in Bags : queue'[a] = IF a = b THEN row ELSE queue[a]
    BY <1>c, <1>q
  <2> QED
    BY <1>c, <2>1 DEF RowEffect
<1>u. ASSUME UNCHANGED <<queue, released>>, Apart PROVE RowEffect(w)
  BY <1>u DEF RowEffect
<1>d. CASE Die(w)
  BY <1>d, <1>a, <1>u DEF Die, AtRest, Keep
<1>1. CASE Claim(w) /\ ~Die(w)
  <2>1. PICK b \in Bags : /\ NextReady(b)
                          /\ job'  = [job EXCEPT ![w] = b]
                          /\ seen' = [seen EXCEPT ![w] = [digest |-> queue[b].digest,
                                                         size   |-> queue[b].size]]
    BY <1>1 DEF Claim
  <2>2. Apart
    BY <1>1, <2>1 DEF Claim, Goto, TypeOK
  <2> DEFINE row == [queue[b] EXCEPT !.status = "uploading"]
  <2>3. /\ queue' = [queue EXCEPT ![b] = row] /\ row.digest = queue[b].digest
        /\ row.status = "uploading" /\ queue[b].status = "queued"
    BY <1>q, <2>1 DEF NextReady, Ready, Rows
  <2>4. UNCHANGED released
    BY <1>1 DEF Claim, AtRest
  <2> HIDE DEF row, Apart
  <2> QED
    BY <1>c, <2>2, <2>3, <2>4
<1>2. CASE CheckLocal(w) \/ (Resolve(w) /\ ~Die(w)) \/ Acquire(w) \/ S3Inspect(w) \/ LegacyInspect(w)
             \/ S3Transfer(w) \/ DriveTransfer(w) \/ RsyncTransfer(w) \/ Label(w) \/ Confirm(w)
  <2>1. UNCHANGED <<queue, released, job, seen>>
    BY <1>2 DEF CheckLocal, Resolve, Acquire, S3Inspect, LegacyInspect, Look, S3Transfer,
                DriveTransfer, RsyncTransfer, Move, Label, Confirm, Keep, AtRest
  <2>2. Kind(job[w]) \in {"s3", "gdrive", "rsync"} \/ ~Confirm(w)
    BY <1>q, StorageAssumption DEF Confirm, Kind
  <2>3. \E stage \in Stages : Goto(w, stage)
    BY <1>2, <2>2 DEF CheckLocal, Resolve, Acquire, S3Inspect, LegacyInspect, S3Transfer,
                DriveTransfer, RsyncTransfer, Label, Confirm, Raise, Stages
  <2> QED
    BY <1>a, <1>u, <2>1, <2>3
<1>3. CASE (Hash(w) \/ Measure(w)) /\ ~Die(w)
  <2>1. Apart /\ UNCHANGED <<queue, released>>
    BY <1>3 DEF Hash, Measure, Goto, TypeOK, AtRest
  <2> QED
    BY <1>u, <2>1
<1>4. CASE Record(w) /\ ~Die(w)
  <2>1. Apart /\ UNCHANGED released /\ pc[w] = "record" /\ job[w] \in Bags
    BY <1>4, <1>q DEF Record, Keep, Goto, TypeOK, AtRest
  <2> DEFINE row == [queue[job[w]] EXCEPT !.digest = seen[w].digest, !.size = SizeOf[disk[job[w]]]]
  <2>2. /\ queue' = [queue EXCEPT ![job[w]] = row]
        /\ row.digest = seen[w].digest /\ row.status = queue[job[w]].status
    BY <1>4, <1>q, <2>1 DEF Record, MarkIntegrity, Rows
  <2> HIDE DEF row
  <2>3. \A a \in Bags : queue'[a] = IF a = job[w] THEN row ELSE queue[a]
    BY <1>q, <2>1, <2>2
  <2> QED
    BY <2>1, <2>2, <2>3 DEF RowEffect
<1>5. CASE Finish(w)
  <2>1. pc[w] \in {"finish", "known"} /\ job[w] \in Bags /\ UNCHANGED released
    BY <1>5, <1>q DEF Finish, AtRest
  <2>2. Apart
    BY <1>5, <1>a, <1>b DEF Finish, Raise, Keep
  <2> HIDE DEF Apart
  <2>3. CASE MarkDone(job[w])
    <3> DEFINE row == [queue[job[w]] EXCEPT !.status = "done"]
    <3>1. /\ queue' = [queue EXCEPT ![job[w]] = row] /\ row.digest = queue[job[w]].digest
          /\ row.status = "done"
      BY <1>q, <2>1, <2>3 DEF MarkDone, Rows
    <3> HIDE DEF row
    <3> QED
      BY <1>c, <1>q, <2>1, <2>2, <3>1
  <2> QED
    BY <1>5, <1>u, <2>1, <2>2, <2>3 DEF Finish
<1>6. CASE Unlink(w)
  <2>1. Apart
    BY <1>6, <1>a, <1>b DEF Unlink, Raise, Keep
  <2>2. pc[w] = "unlink" /\ UNCHANGED queue /\ job[w] \in Bags
    BY <1>6, <1>q DEF Unlink
  <2>3. UNCHANGED released \/ released' = [released EXCEPT ![job[w]] = disk[job[w]]]
    BY <1>6 DEF Unlink
  <2> QED
    BY <1>q, <2>1, <2>2, <2>3 DEF RowEffect
<1>7. CASE (SettleConflict(w) \/ SettleDefer(w) \/ WriteFailed(w)) /\ ~Die(w)
  <2>1. /\ job[w] \in Bags /\ queue[job[w]].status # "absent" /\ UNCHANGED released
        /\ pc[w] \notin {"idle", "dead"} /\ Idle(w)
    BY <1>7, <1>q DEF SettleConflict, SettleDefer, WriteFailed, AtRest
  <2>2. Apart
    BY <1>b, <2>1
  <2>3. CASE SettleConflict(w)
    <3> DEFINE row == [queue[job[w]] EXCEPT !.status = "conflict"]
    <3>1. /\ queue' = [queue EXCEPT ![job[w]] = row] /\ row.digest = queue[job[w]].digest
          /\ row.status = "conflict" /\ pc[w] = "conflict"
      BY <1>7, <1>q, <2>1, <2>3 DEF SettleConflict, MarkConflict, Rows
    <3> HIDE DEF row, Apart
    <3> QED
      BY <1>c, <2>1, <2>2, <3>1
  <2>4. CASE SettleDefer(w)
    <3> DEFINE row == [queue[job[w]] EXCEPT !.status = "queued", !.due = FALSE]
    <3>1. /\ queue' = [queue EXCEPT ![job[w]] = row] /\ row.digest = queue[job[w]].digest
          /\ row.status = "queued"
      BY <1>7, <1>q, <2>1, <2>4 DEF SettleDefer, Defer, Rows
    <3> HIDE DEF row, Apart
    <3> QED
      BY <1>c, <2>1, <2>2, <3>1
  <2>5. CASE WriteFailed(w)
    <3> DEFINE retries == tally[w].retries + 1
               limit   == IF pc[w] = "fatal" THEN 0 ELSE MaxRetries
               row     == IF retries >= limit
                          THEN [queue[job[w]] EXCEPT !.status = "failed", !.retries = retries]
                          ELSE [queue[job[w]] EXCEPT !.status = "queued", !.retries = retries,
                                                     !.due = FALSE]
    <3>1. queue' = [queue EXCEPT ![job[w]] = row]
      BY <1>7, <1>q, <2>1, <2>5 DEF WriteFailed, MarkFailed
    <3>2. row.digest = queue[job[w]].digest /\ row.status \in {"queued", "failed"}
      BY <1>q, <2>1 DEF Rows
    <3> HIDE DEF row, Apart
    <3> QED
      BY <1>c, <2>1, <2>2, <3>1, <3>2
  <2> QED
    BY <1>7, <2>3, <2>4, <2>5
<1>8. CASE ReadRetries(w)
  BY <1>8, <1>u DEF ReadRetries, AtRest
<1> QED
  BY <1>d, <1>1, <1>2, <1>3, <1>4, <1>5, <1>6, <1>7, <1>8 DEF WorkerStep

\* What one thread does takes nothing from what another knows, not even where an opening
\* of the database has given both the same row.
LEMMA OthersKnow ==
  ASSUME TypeOK, Facts, Lasting, NEW w \in Workers, RowEffect(w), NEW v \in Workers, v # w
  PROVE  Knows(v)'
<1>1. /\ pc'[v] = pc[v] /\ job'[v] = job[v] /\ seen'[v] = seen[v]
      /\ Knows(v) /\ Knows(w)
  BY DEF RowEffect, Facts
<1>2. CASE job[v] = NoJob
  <2>1. pc[v] \in {"idle", "dead"}
    BY <1>2, BagFacts DEF TypeOK
  <2> QED
    BY <1>1, <1>2, <2>1 DEF Knows, Recorded, Grounds
<1>3. CASE job[v] # NoJob
  <2> PICK b \in Bags : job[v] = b
    BY <1>3 DEF TypeOK
  <2>1. /\ queue[b].status # "absent" => queue'[b].status # "absent"
        /\ queue[b].digest # NoDigest => queue'[b].digest # NoDigest
    BY <1>1 DEF RowEffect, Knows
  <2>2. Sum(b)' = Sum(b) /\ \A stage : Grounds(stage, b) => Grounds(stage, b)'
    BY StillStored
  <2>3. Grounds(pc[v], job[v])'
    BY <1>1, <2>2 DEF Knows
  <2> QED
    BY <1>1, <1>3, <2>1, <2>2, <2>3 DEF Knows
<1> QED
  BY <1>2, <1>3

\* A thread settles its row by what it knows.
LEMMA RowsTold ==
  ASSUME TypeOK, Facts, Lasting, NEW w \in Workers, RowEffect(w), NEW b \in Bags
  PROVE  Told(b)'
<1>1. Told(b) /\ Knows(w)
  BY DEF Facts
<1>2. /\ Content(b)' = Content(b) /\ (Unlinked(b) => Unlinked(b)')
      /\ Sum(b)' = Sum(b) /\ Kind(b)' = Kind(b)
      /\ Holds(LocationOf(b), Sum(b)) => Stored(b) /\ Holds(LocationOf(b), Sum(b))'
      /\ Stored(b) => Stored(b)'
      /\ Kind(b) = "s3" /\ Foreign(b) => Foreign(b)'
  BY StillStored, Places DEF Lasting, Stored, Kind
<1>3. b = job[w] => job[w] # NoJob
  BY BagFacts
<1>4. queue'[b].digest \in {NoDigest, Sum(b)}
  BY <1>1, <1>3 DEF RowEffect, Told, Knows
<1>5. queue'[b].status = "absent" => queue'[b].digest = NoDigest
  BY <1>1, <1>3 DEF RowEffect, Told, Knows
<1>6. /\ queue'[b].status = "done" => Stored(b)
      /\ released'[b] # Missing => Holds(LocationOf(b), Sum(b))
  BY <1>1, <1>2 DEF RowEffect, Told, Knows, Grounds
<1>7. queue'[b].status = "conflict" => queue'[b].digest # NoDigest /\ Kind(b) = "s3" /\ Foreign(b)
  BY <1>1 DEF RowEffect, Told, Knows, Recorded, Grounds
<1> QED
  BY <1>1, <1>2, <1>4, <1>5, <1>6, <1>7 DEF Told

\* The bytes sent are those that were hashed, as nobody has changed the file, and the
\* label is their digest.
LEMMA StillHonest ==
  ASSUME RsyncAlone, Untampered, TypeOK, LockInv, Facts, Lasting, NEW w \in Workers, WorkerStep(w)
  PROVE  Honest' /\ \A a \in Bags : OwnPath(a)'
<1>s. \A a \in Bags : Sum(a)' = Sum(a) /\ Kind(a)' = Kind(a) /\ LocationOf(a)' = LocationOf(a)
  BY StillStored DEF Kind, LocationOf
<1>1. CASE UNCHANGED remote
  BY <1>1, <1>s DEF Facts, Honest, OwnPath
<1>2. CASE ~UNCHANGED remote
  <2> PICK b \in Bags : job[w] = b
    BY <1>2, Writers
  <2>1. \A l \in Locations : l # LocationOf(b) => remote'[l] = remote[l]
    BY <1>2, Writers
  <2>2. Content(b) \in Contents /\ Content(b) # Torn /\ LocationOf(b) \in Locations
    BY StorageAssumption, Places DEF Facts, Told
  <2>3. CASE Kind(b) # "rsync"
    <3>1. CASE S3Transfer(w) \/ DriveTransfer(w)
      <4>1. /\ disk[b] = Content(b)
            /\ S3Complete(b, seen[w].digest, disk[b]) \/ DriveCreate(b, seen[w].digest, disk[b])
        BY <1>2, <3>1 DEF S3Transfer, DriveTransfer, SourceGone, Readings, Untampered, Content
      <4>2. seen[w].digest = Sum(b)
        BY <3>1, BagFacts DEF Facts, Knows, Recorded, S3Transfer, DriveTransfer, Move
      <4> DEFINE new == [label |-> Sum(b), data |-> Content(b)]
      <4>3. remote'[LocationOf(b)] \subseteq remote[LocationOf(b)] \cup {new}
        BY <2>2, <4>1, <4>2 DEF S3Complete, DriveCreate, TypeOK, StorageTypeOK
      <4>4. new.data # Torn /\ new.label = Blake3(new.data)
        BY <2>2 DEF Sum
      <4> HIDE DEF new
      <4>5. Honest'
        BY <2>1, <4>3, <4>4 DEF Facts, Honest
      <4>6. ASSUME NEW a \in Bags PROVE OwnPath(a)'
        <5>1. Kind(a) = "rsync" => LocationOf(a) # LocationOf(b) /\ LocationOf(a) \in Locations
          BY <2>3, Places
        <5> QED
          BY <1>s, <2>1, <5>1 DEF Facts, OwnPath
      <4> QED
        BY <4>5, <4>6
    <3> QED
      BY <1>2, <2>3, <3>1, Writers
  <2>4. CASE Kind(b) = "rsync"
    <3>1. PICK o : RsyncLeaves(b, o) /\ remote' = [remote EXCEPT ![LocationOf(b)] = {o}]
      BY <1>2, <2>4, Writers, RsyncEffect
    <3>2. remote'[LocationOf(b)] = {o}
      BY <2>2, <3>1 DEF TypeOK, StorageTypeOK
    <3>3. o.label # NoDigest => o.data # Torn /\ o.label = Blake3(o.data)
      BY <2>2, <3>1 DEF RsyncLeaves, Sum
    <3>4. Honest'
      BY <2>1, <3>2, <3>3 DEF Facts, Honest
    <3>5. ASSUME NEW a \in Bags PROVE OwnPath(a)'
      <4>1. CASE a = b
        BY <1>s, <3>1, <3>2, <4>1 DEF OwnPath, RsyncLeaves
      <4>2. CASE a # b
        <5>1. LocationOf(a) # LocationOf(b) /\ LocationOf(a) \in Locations
          BY <2>4, <4>2, Places DEF RsyncAlone
        <5> QED
          BY <1>s, <2>1, <5>1 DEF Facts, OwnPath
      <4> QED
        BY <4>1, <4>2
    <3> QED
      BY <3>4, <3>5
  <2> QED
    BY <2>3, <2>4
<1> QED
  BY <1>1, <1>2

\* A thread goes on with the same row and knows as much of it as before.
LEMMA KnowsMove ==
  ASSUME TypeOK, Facts, Lasting, NEW w \in Workers, RowEffect(w),
         NEW stage \in Stages \ {"check"}, NEW b \in Bags, job[w] = b,
         pc'[w] = stage, job'[w] = job[w], seen'[w].digest = seen[w].digest,
         stage \in Recorded \cup {"record"} => seen[w].digest # NoDigest,
         stage \in Recorded => queue'[b].digest # NoDigest,
         Grounds(stage, b) \/ Grounds(stage, b)'
  PROVE  Knows(w)'
<1>1. Knows(w) /\ job[w] # NoJob
  BY BagFacts DEF Facts
<1>2. queue'[b].status # "absent"
  BY <1>1 DEF RowEffect, Knows
<1>3. Sum(b)' = Sum(b) /\ Grounds(stage, b)'
  BY StillStored
<1>4. Grounds(pc[w], job[w])'
  BY <1>3
<1> QED
  BY <1>1, <1>2, <1>3, <1>4 DEF Knows

\* A thread at the top of its loop knows nothing.
LEMMA KnowsNothing ==
  ASSUME NEW w \in Workers, pc'[w] \in {"idle", "dead"}, job'[w] = NoJob
  PROVE  Knows(w)'
BY DEF Knows, Recorded, Grounds

\* What a backend takes for the bag is the bag, and what S3 takes for another is not.
LEMMA InspectionTrue ==
  ASSUME Facts, NEW b \in Bags, NEW size
  PROVE  /\ Identical3(b, Sum(b), size) => Holds(LocationOf(b), Sum(b))
         /\ FindDuplicate(b, Sum(b), size) => Stored(b)
         /\ FindDuplicate(b, Sum(b), size) /\ Kind(b) = "rsync" => Holds(LocationOf(b), Sum(b))
         /\ Conflict3(b, Sum(b), size) /\ SizeOf[Content(b)] = size => Foreign(b)
<1>1. LocationOf(b) \in Locations /\ LookupOf(b) \subseteq Locations
  BY Places DEF LookupOf
<1>2. \A l \in Locations : \A o \in remote[l] :
        o.label = Sum(b) => o.data # Torn /\ Blake3(o.data) = Sum(b) /\ o.data = Content(b)
  BY DEF Facts, Honest, Sum, Blake3, NoDigest
<1>3. FindDuplicate(b, Sum(b), size) => Stored(b)
  BY <1>1, <1>2 DEF FindDuplicate, Identical, Stored, Holds
<1>4. Kind(b) = "rsync" /\ Stored(b) => Holds(LocationOf(b), Sum(b))
  BY DEF LookupOf, Stored
<1> QED
  BY <1>1, <1>2, <1>3, <1>4 DEF Identical3, Identical, Conflict3, Exists, SizeFits, Holds, Foreign

\* Call by call, a thread knows what the calls before have shown.
LEMMA WorkerKnows ==
  ASSUME VerifyBlake3, Untampered, TypeOK, LockInv, Facts, Lasting,
         NEW w \in Workers, WorkerStep(w), RowEffect(w)
  PROVE  Knows(w)'
<1>k. /\ Knows(w) /\ VerifyBlake3
      /\ pc[w] \notin {"idle", "dead"} =>
           job[w] \in Bags /\ Kind(job[w]) \in {"s3", "gdrive", "rsync"}
  BY Places DEF Facts, TypeOK
<1>n. job[w] \in Bags => job[w] # NoJob
  BY BagFacts
<1>g. \A stage : Goto(w, stage) => pc'[w] = stage
  BY DEF Goto, TypeOK
<1>q. UNCHANGED queue => \A b \in Bags : queue'[b].digest = queue[b].digest
  OBVIOUS
<1>i. Idle(w) => pc'[w] = "idle" /\ job'[w] = NoJob
  BY DEF Idle, Goto, TypeOK
<1>e. ASSUME NEW stage \in {"hash", "defer", "fatal", "count", "dead"}, pc[w] \notin {"idle", "dead"},
             Goto(w, stage), UNCHANGED <<job, seen>>
      PROVE  Knows(w)'
  <2>1. stage \in Stages \ {"check"} /\ stage \notin Recorded \cup {"record"}
    BY DEF Stages, Recorded
  <2>2. pc'[w] = stage /\ job[w] \in Bags /\ Grounds(stage, job[w])
    BY <1>e, <1>g, <1>k DEF Grounds
  <2>3. stage \notin Recorded
    BY <2>1
  <2> QED
    BY <1>e, <2>1, <2>2, <2>3, KnowsMove
<1>m. ASSUME NEW stage \in Recorded, pc[w] \in Recorded, Goto(w, stage), UNCHANGED <<queue, job, seen>>,
             NEW b \in Bags, job[w] = b, Grounds(stage, b) \/ Grounds(stage, b)'
      PROVE  Knows(w)'
  <2>1. stage \in Stages \ {"check"}
    BY DEF Stages, Recorded
  <2>2. pc'[w] = stage
    BY <1>m, <1>g
  <2>3. seen[w].digest # NoDigest /\ queue'[b].digest # NoDigest
    BY <1>m, <1>k DEF Knows
  <2> QED
    BY <1>m, <2>1, <2>2, <2>3, KnowsMove
<1>d. CASE Die(w) /\ pc[w] \notin {"idle", "dead"}
  BY <1>d, <1>e DEF Die, Keep
<1>1. CASE Claim(w)
  <2>1. CASE Die(w)
    <3>1. pc'[w] = "dead" /\ UNCHANGED <<queue, job, seen>> /\ pc[w] = "idle"
      BY <1>1, <2>1, <1>g DEF Claim, Die, Keep
    <3>2. CASE job[w] = NoJob
      BY <3>1, <3>2, KnowsNothing
    <3>3. CASE job[w] # NoJob
      <4>1. "dead" \in Stages \ {"check"} /\ "dead" \notin Recorded \cup {"record"}
        BY DEF Stages, Recorded
      <4>2. job[w] \in Bags /\ Grounds("dead", job[w]) /\ "dead" \notin Recorded
        BY <3>3, <4>1 DEF TypeOK, Grounds
      <4> QED
        BY <3>1, <4>1, <4>2, KnowsMove
    <3> QED
      BY <3>2, <3>3
  <2>2. CASE ~Die(w)
    <3>1. PICK b \in Bags : /\ NextReady(b)
                            /\ job'  = [job EXCEPT ![w] = b]
                            /\ seen' = [seen EXCEPT ![w] = [digest |-> queue[b].digest,
                                                            size   |-> queue[b].size]]
      BY <1>1, <2>2 DEF Claim
    <3>2. /\ pc'[w] \in {"check", "dead"} /\ job'[w] = b /\ seen'[w].digest = queue[b].digest
      BY <1>1, <1>g, <2>2, <3>1 DEF Claim, TypeOK
    <3>3. /\ queue'[b].digest = queue[b].digest /\ queue'[b].status # "absent"
      BY <3>1 DEF NextReady, Ready, TypeOK, QueueTypeOK, Rows
    <3>4. queue[b].digest \in {NoDigest, Sum(b)} /\ Sum(b)' = Sum(b)
      BY StillStored DEF Facts, Told
    <3> QED
      BY <3>2, <3>3, <3>4 DEF Knows, Recorded, Grounds
  <2> QED
    BY <2>1, <2>2
<1>2. CASE CheckLocal(w)
  <2>1. CASE Goto(w, "resolve") /\ seen[w].digest # NoDigest
    <3>1. "resolve" \in Stages \ {"check"} /\ pc'[w] = "resolve"
      BY <1>g, <2>1 DEF Stages
    <3>2. /\ UNCHANGED <<queue, job, seen>> /\ job[w] \in Bags /\ queue[job[w]].digest # NoDigest
          /\ Grounds("resolve", job[w])
      BY <1>2, <1>k, <2>1 DEF CheckLocal, Keep, Knows, Grounds
    <3> QED
      BY <2>1, <3>1, <3>2, KnowsMove
  <2> QED
    BY <1>2, <1>e, <1>k, <2>1 DEF CheckLocal, Keep
<1>3. CASE Hash(w) /\ ~Die(w)
  <2> PICK b \in Bags : job[w] = b
    BY <1>3, <1>k DEF Hash
  <2>1. /\ pc'[w] = "record" /\ UNCHANGED <<queue, job>> /\ disk[b] # Missing
        /\ seen'[w].digest = Blake3(disk[b])
    BY <1>3, <1>g DEF Hash, SourceGone, TypeOK
  <2>2. seen'[w].digest = Sum(b) /\ Sum(b)' = Sum(b) /\ Sum(b) # NoDigest
    BY <2>1, StillStored DEF Sum, Content, Blake3, NoDigest
  <2> QED
    BY <1>k, <1>n, <2>1, <2>2 DEF Knows, Recorded, Grounds
<1>4. CASE Record(w) /\ ~Die(w)
  <2>1. /\ pc'[w] = "measure" /\ UNCHANGED job /\ job[w] \in Bags /\ pc[w] = "record"
        /\ seen'[w].digest = seen[w].digest
    BY <1>4, <1>g, <1>k DEF Record, Keep, TypeOK
  <2>2. MarkIntegrity(job[w], seen[w].digest, SizeOf[disk[job[w]]])
    BY <1>4 DEF Record
  <2>3. queue'[job[w]].digest = seen[w].digest
    BY <2>1, <2>2 DEF MarkIntegrity, TypeOK, QueueTypeOK, Rows
  <2>4. seen[w].digest # NoDigest
    BY <1>k, <2>1 DEF Knows
  <2>5. "measure" \in Stages \ {"check"} /\ Grounds("measure", job[w])
    BY DEF Stages, Grounds
  <2> QED
    BY <1>n, <2>1, <2>3, <2>4, <2>5, KnowsMove
<1>s. CASE Measure(w) /\ ~Die(w)
  <2>1. /\ pc'[w] = "resolve" /\ UNCHANGED <<queue, job>> /\ job[w] \in Bags /\ pc[w] = "measure"
        /\ seen'[w].digest = seen[w].digest
    BY <1>s, <1>g, <1>k DEF Measure, TypeOK
  <2>2. seen[w].digest # NoDigest /\ queue[job[w]].digest # NoDigest
    BY <1>k, <2>1 DEF Knows, Recorded
  <2>3. "resolve" \in Stages \ {"check"} /\ Grounds("resolve", job[w])
    BY DEF Stages, Grounds
  <2> QED
    BY <1>n, <2>1, <2>2, <2>3, KnowsMove
<1>5. CASE (Resolve(w) /\ ~Die(w)) \/ Acquire(w)
  <2>1. /\ pc[w] \in Recorded /\ UNCHANGED <<queue, job, seen>>
        /\ \E stage \in {"lock", "inspect"} : Goto(w, stage)
    BY <1>5 DEF Resolve, Acquire, Keep, Recorded
  <2>2. \A stage \in {"lock", "inspect"} : stage \in Recorded /\ Grounds(stage, job[w])
    BY DEF Recorded, Grounds
  <2> QED
    BY <1>k, <1>m, <2>1, <2>2 DEF Recorded
<1>6. CASE S3Inspect(w) \/ LegacyInspect(w)
  <2>1. /\ pc[w] = "inspect" /\ pc[w] \in Recorded /\ UNCHANGED <<queue, job, seen>> /\ job[w] \in Bags
    BY <1>6, <1>k DEF S3Inspect, LegacyInspect, Look, Keep, Recorded
  <2> PICK b \in Bags : job[w] = b
    BY <2>1
  <2>2. seen[w].digest = Sum(b) /\ Sum(b) # NoDigest
    BY <1>k, <1>n, <2>1 DEF Knows
  <2>3. CASE Goto(w, "finish") /\ Identical3(b, Sum(b), seen[w].size)
    <3>1. "finish" \in Recorded /\ Grounds("finish", b)
      BY <2>3, InspectionTrue DEF Recorded, Grounds
    <3> QED
      BY <1>m, <2>1, <2>3, <3>1
  <2>4. CASE /\ Goto(w, "conflict") /\ Kind(b) = "s3" /\ ~SourceGone(w) /\ ~SizeChanged(w)
             /\ Conflict3(b, Sum(b), seen[w].size)
    <3>1. SizeOf[Content(b)] = seen[w].size
      BY <2>4 DEF SourceGone, SizeChanged, Content
    <3>2. "conflict" \in Recorded /\ Grounds("conflict", b)
      BY <2>4, <3>1, InspectionTrue DEF Recorded, Grounds
    <3> QED
      BY <1>m, <2>1, <2>4, <3>2
  <2>5. CASE Goto(w, "known") /\ FindDuplicate(b, Sum(b), seen[w].size)
    <3>1. "known" \in Recorded /\ Grounds("known", b)
      BY <2>5, InspectionTrue DEF Recorded, Grounds
    <3> QED
      BY <1>m, <2>1, <2>5, <3>1
  <2>6. CASE Goto(w, "transfer")
    <3>1. "transfer" \in Recorded /\ Grounds("transfer", b)
      BY DEF Recorded, Grounds
    <3> QED
      BY <1>m, <2>1, <2>6, <3>1
  <2>7. CASE \E stage \in {"defer", "fatal", "count"} : Goto(w, stage)
    BY <1>e, <2>1, <2>7
  <2>8. CASE S3Inspect(w)
    BY <2>2, <2>3, <2>4, <2>6, <2>7, <2>8 DEF S3Inspect, Look, Raise
  <2>9. CASE LegacyInspect(w)
    <3>1. \/ Goto(w, "known") /\ FindDuplicate(b, Sum(b), seen[w].size)
          \/ Goto(w, "transfer")
          \/ \E stage \in {"defer", "count"} : Goto(w, stage)
      BY <2>2, <2>9 DEF LegacyInspect, Raise
    <3> QED
      BY <2>5, <2>6, <2>7, <3>1
  <2> QED
    BY <1>6, <2>8, <2>9
<1>7. CASE S3Transfer(w) \/ DriveTransfer(w)
  <2>1. /\ pc[w] = "transfer" /\ pc[w] \in Recorded /\ UNCHANGED <<queue, job, seen>> /\ job[w] \in Bags
    BY <1>7, <1>k DEF S3Transfer, DriveTransfer, Move, Keep, Recorded
  <2> PICK b \in Bags : job[w] = b
    BY <2>1
  <2>2. seen[w].digest = Sum(b) /\ Sum(b) # NoDigest
    BY <1>k, <1>n, <2>1 DEF Knows
  <2>3. CASE \E stage \in {"defer", "fatal", "count"} : Goto(w, stage)
    BY <1>e, <2>1, <2>3
  <2>4. CASE /\ Goto(w, "confirm")
             /\ Kind(b) = "gdrive" => disk[b] # Missing /\ DriveCreate(b, Sum(b), disk[b])
    <3>1. CASE Kind(b) = "gdrive"
      <4>1. LocationOf(b) \in Locations /\ Sum(b)' = Sum(b) /\ LocationOf(b)' = LocationOf(b)
        BY Places, StillStored DEF LocationOf
      <4> DEFINE o == [label |-> Sum(b), data |-> disk[b]]
      <4>2. o \in remote'[LocationOf(b)]
        BY <2>4, <3>1, <4>1 DEF DriveCreate, TypeOK, StorageTypeOK
      <4>3. o.label = Sum(b) /\ o.data # Torn /\ Blake3(o.data) = Sum(b)
        BY <2>4, <3>1, StorageAssumption DEF Sum, Content, TypeOK
      <4> HIDE DEF o
      <4>4. Holds(LocationOf(b), Sum(b))'
        BY <4>1, <4>2, <4>3 DEF Holds, Blake3
      <4>5. "confirm" \in Recorded /\ Grounds("confirm", b)'
        BY <4>4 DEF Recorded, Grounds
      <4> QED
        BY <1>m, <2>1, <2>4, <4>5
    <3>2. CASE Kind(b) # "gdrive"
      <4>1. "confirm" \in Recorded /\ Grounds("confirm", b)
        BY <3>2 DEF Recorded, Grounds
      <4> QED
        BY <1>m, <2>1, <2>4, <4>1
    <3> QED
      BY <3>1, <3>2
  <2>5. CASE S3Transfer(w)
    BY <2>3, <2>4, <2>5 DEF S3Transfer, Move, Raise
  <2>6. CASE DriveTransfer(w)
    <3>1. Readings(w) = {disk[b]}
      BY DEF Readings, Untampered
    <3>2. \/ \E stage \in {"defer", "count"} : Goto(w, stage)
          \/ disk[b] # Missing /\ DriveCreate(b, Sum(b), disk[b]) /\ Goto(w, "confirm")
      BY <2>2, <2>6, <3>1 DEF DriveTransfer, SourceGone, Raise
    <3> QED
      BY <2>3, <2>4, <3>2
  <2> QED
    BY <1>7, <2>5, <2>6
<1>8. CASE RsyncTransfer(w) \/ Label(w)
  <2>1. /\ pc[w] \in {"transfer", "label"} /\ pc[w] \in Recorded /\ UNCHANGED <<queue, job, seen>>
        /\ job[w] \in Bags /\ Kind(job[w]) = "rsync"
    BY <1>8, <1>k DEF RsyncTransfer, Label, Move, Keep, Recorded, LockInv
  <2> PICK b \in Bags : job[w] = b
    BY <2>1
  <2>2. seen[w].digest # NoDigest
    BY <1>k, <2>1 DEF Knows
  <2>3. CASE Goto(w, "count")
    BY <1>e, <2>1, <2>3
  <2>4. CASE Goto(w, "label") /\ disk[b] # Missing /\ RsyncWrite(b, disk[b])
    <3>1. LocationOf(b) \in Locations /\ LocationOf(b)' = LocationOf(b)
      BY Places DEF LocationOf
    <3>2. Content(b) = disk[b] /\ Content(b)' = Content(b)
      BY <2>4 DEF Content, Lasting
    <3>3. \E o \in remote'[LocationOf(b)] : o.data = disk[b]
      BY <2>4, <3>1 DEF RsyncWrite, TypeOK, StorageTypeOK
    <3>4. "label" \in Recorded /\ Grounds("label", b)'
      BY <3>1, <3>2, <3>3 DEF Recorded, Grounds, Whole
    <3> QED
      BY <1>m, <2>1, <2>4, <3>4
  <2>5. CASE Goto(w, "confirm")
    <3>1. "confirm" \in Recorded /\ Grounds("confirm", b)
      BY <2>1 DEF Recorded, Grounds
    <3> QED
      BY <1>m, <2>1, <2>5, <3>1
  <2>6. CASE RsyncTransfer(w)
    <3>1. Readings(w) = {disk[b]}
      BY DEF Readings, Untampered
    <3>2. \/ Goto(w, "count")
          \/ Goto(w, "label") /\ disk[b] # Missing /\ RsyncWrite(b, disk[b])
      BY <2>2, <2>6, <3>1 DEF RsyncTransfer, SourceGone, Raise
    <3> QED
      BY <2>3, <2>4, <3>2
  <2>7. CASE Label(w)
    BY <2>3, <2>5, <2>7 DEF Label, Raise
  <2> QED
    BY <1>8, <2>6, <2>7
<1>9. CASE Confirm(w)
  <2>1. /\ pc[w] = "confirm" /\ pc[w] \in Recorded /\ UNCHANGED <<queue, job, seen>> /\ job[w] \in Bags
    BY <1>9, <1>k DEF Confirm, Keep, Recorded
  <2> PICK b \in Bags : job[w] = b
    BY <2>1
  <2>2. seen[w].digest = Sum(b) /\ Kind(b) \in {"s3", "gdrive", "rsync"}
    BY <1>k, <1>n, <2>1 DEF Knows
  <2>3. \/ /\ Goto(w, "finish")
           /\ \/ Kind(b) = "s3" /\ Identical3(b, Sum(b), seen[w].size)
              \/ Kind(b) = "rsync" /\ FindDuplicate(b, Sum(b), seen[w].size)
              \/ Kind(b) = "gdrive"
        \/ \E stage \in {"defer", "fatal", "count"} : Goto(w, stage)
    BY <1>9, <2>2 DEF Confirm, Raise
  <2>4. CASE /\ Goto(w, "finish")
             /\ \/ Kind(b) = "s3" /\ Identical3(b, Sum(b), seen[w].size)
                \/ Kind(b) = "rsync" /\ FindDuplicate(b, Sum(b), seen[w].size)
                \/ Kind(b) = "gdrive"
    <3>1. Kind(b) = "gdrive" => Holds(LocationOf(b), Sum(b))
      BY <1>k, <2>1 DEF Knows, Grounds
    <3>2. Holds(LocationOf(b), Sum(b))
      BY <2>4, <3>1, InspectionTrue
    <3>3. "finish" \in Recorded /\ Grounds("finish", b)
      BY <3>2 DEF Recorded, Grounds
    <3> QED
      BY <1>m, <2>1, <2>4, <3>3
  <2> QED
    BY <1>e, <2>1, <2>3, <2>4
<1>10. CASE Finish(w)
  <2>1. /\ pc[w] \in {"finish", "known"} /\ pc[w] \in Recorded /\ job[w] \in Bags
    BY <1>10, <1>k DEF Finish, Recorded
  <2>2. CASE pc[w] = "finish" /\ Goto(w, "unlink") /\ Keep /\ MarkDone(job[w])
    <3>1. queue'[job[w]].digest = queue[job[w]].digest
      BY <2>1, <2>2 DEF MarkDone, TypeOK, QueueTypeOK, Rows
    <3>2. seen[w].digest # NoDigest /\ queue[job[w]].digest # NoDigest
      BY <1>k, <2>1 DEF Knows
    <3>3. /\ "unlink" \in Stages \ {"check"} /\ pc'[w] = "unlink"
          /\ Grounds("unlink", job[w])
      BY <1>g, <1>k, <2>2 DEF Stages, Knows, Grounds
    <3> QED
      BY <2>1, <2>2, <3>1, <3>2, <3>3, KnowsMove DEF Keep
  <2>3. CASE Goto(w, "count") /\ Keep
    BY <1>e, <2>1, <2>3 DEF Keep
  <2> QED
    BY <1>10, <1>i, <2>2, <2>3, KnowsNothing DEF Finish, Raise
<1>11. CASE Unlink(w)
  BY <1>11, <1>e, <1>i, KnowsNothing DEF Unlink, Raise, Keep
<1>12. CASE (SettleConflict(w) \/ SettleDefer(w) \/ WriteFailed(w)) /\ ~Die(w)
  BY <1>12, <1>i, KnowsNothing DEF SettleConflict, SettleDefer, WriteFailed
<1>13. CASE ReadRetries(w)
  <2>1. /\ pc[w] \in {"fatal", "count"} /\ UNCHANGED <<pc, job, seen>>
    BY <1>13 DEF ReadRetries
  <2>2. \A stage \in {"fatal", "count"} : /\ stage \in Stages \ {"check"}
                                          /\ stage \notin Recorded \cup {"record"}
                                          /\ stage \notin Recorded /\ Grounds(stage, job[w])
    BY DEF Stages, Recorded, Grounds
  <2> QED
    BY <1>k, <2>1, <2>2, KnowsMove
<1> QED
  BY <1>d, <1>1, <1>2, <1>3, <1>4, <1>5, <1>6, <1>7, <1>8, <1>9, <1>10, <1>11, <1>12, <1>13, <1>s
  DEF WorkerStep, Hash, Record, Measure, Resolve, SettleConflict, SettleDefer, WriteFailed

\* Steps outside the threads tell and know nothing new.
LEMMA RestStored ==
  ASSUME TypeOK, Facts, Lasting, ~(\E w \in Workers : WorkerStep(w)), [Next]_vars,
         Untampered'
  PROVE  Facts'
<1>1. UNCHANGED remote /\ UNCHANGED released
  BY DEF Next, Service, Others, Exit, Crash, Stop, Start, DashboardOpen, Add, TimePasses,
         Rewrite, Vanish, vars
<1>2. Honest' /\ \A b \in Bags : OwnPath(b)'
  <2>1. \A b \in Bags : Sum(b)' = Sum(b) /\ Kind(b)' = Kind(b) /\ LocationOf(b)' = LocationOf(b)
    BY StillStored DEF Kind, LocationOf
  <2> QED
    BY <1>1, <2>1 DEF Facts, Honest, OwnPath
<1>q. queue \in [Bags -> Rows]
  BY DEF TypeOK, QueueTypeOK
<1> DEFINE RowsSay ==
      \A b \in Bags : /\ \/ queue'[b].digest = queue[b].digest
                         \/ queue[b].status = "absent" /\ queue'[b].digest = NoDigest
                      /\ queue[b].status # "absent" => queue'[b].status # "absent"
                      /\ queue'[b].status = "absent" => queue[b].status = "absent"
                      /\ queue'[b].status = "done" => queue[b].status = "done"
                      /\ queue'[b].status = "conflict" => queue[b].status = "conflict"
<1>3. RowsSay
  <2>1. CASE UNCHANGED queue
    BY <2>1
  <2>2. ASSUME NEW b \in Bags, Add(b) PROVE RowsSay
    <3> DEFINE row(size) == [AbsentRow EXCEPT !.status = "queued", !.size = size]
    <3>1. PICK size : queue[b].status = "absent" /\ queue' = [queue EXCEPT ![b] = row(size)]
      BY <2>2 DEF Add, Enqueue
    <3>2. row(size).status = "queued" /\ row(size).digest = NoDigest
      BY DEF AbsentRow
    <3> HIDE DEF row
    <3> QED
      BY <1>q, <3>1, <3>2
  <2>3. ASSUME NEW b \in Bags, TimePasses(b) PROVE RowsSay
    BY <1>q, <2>3 DEF TimePasses, Elapse, Rows
  <2>4. CASE Start \/ DashboardOpen
    <3>1. queue' \in {Recovered(queue), Requeued(Recovered(queue))}
      BY <2>4 DEF Start, DashboardOpen
    <3>2. ASSUME NEW b \in Bags, NEW row \in Rows
          PROVE  /\ [row EXCEPT !.status = "queued"].digest = row.digest
                 /\ [row EXCEPT !.status = "queued"].status = "queued"
                 /\ [row EXCEPT !.status = "queued", !.retries = 0, !.due = TRUE].digest = row.digest
                 /\ [row EXCEPT !.status = "queued", !.retries = 0, !.due = TRUE].status = "queued"
      BY DEF Rows
    <3>3. /\ Recovered(queue) \in [Bags -> Rows]
          /\ \A b \in Bags : /\ Recovered(queue)[b].digest = queue[b].digest
                             /\ \/ Recovered(queue)[b].status = queue[b].status
                                \/ queue[b].status = "uploading" /\ Recovered(queue)[b].status = "queued"
      BY <1>q, <3>2, QueueRestarts DEF Recovered
    <3>4. \A b \in Bags : /\ Requeued(Recovered(queue))[b].digest = Recovered(queue)[b].digest
                          /\ \/ Requeued(Recovered(queue))[b].status = Recovered(queue)[b].status
                             \/ /\ Recovered(queue)[b].status = "failed"
                                /\ Requeued(Recovered(queue))[b].status = "queued"
      <4> DEFINE q == Recovered(queue)
      <4>1. q \in [Bags -> Rows]
        BY <3>3
      <4> HIDE DEF q
      <4>2. \A b \in Bags : /\ Requeued(q)[b].digest = q[b].digest
                            /\ \/ Requeued(q)[b].status = q[b].status
                               \/ q[b].status = "failed" /\ Requeued(q)[b].status = "queued"
        BY <3>2, <4>1 DEF Requeued
      <4> QED
        BY <4>2 DEF q
    <3> QED
      BY <3>1, <3>3, <3>4
  <2> QED
    BY <2>1, <2>2, <2>3, <2>4
    DEF Next, Service, Others, Exit, Crash, Stop, Rewrite, Vanish, vars
<1> HIDE DEF RowsSay
<1>4. ASSUME NEW b \in Bags PROVE Told(b)'
  <2>1. Told(b)
    BY DEF Facts
  <2>2. /\ Content(b)' = Content(b) /\ Sum(b)' = Sum(b) /\ (Unlinked(b) => Unlinked(b)')
        /\ Holds(LocationOf(b), Sum(b)) => Holds(LocationOf(b), Sum(b))'
        /\ Stored(b) => Stored(b)'
        /\ Kind(b)' = Kind(b) /\ (Kind(b) = "s3" /\ Foreign(b) => Foreign(b)')
    BY StillStored DEF Lasting, Kind
  <2> QED
    BY <1>1, <1>3, <2>1, <2>2 DEF Told, RowsSay
<1>5. ASSUME NEW w \in Workers PROVE Knows(w)'
  <2>1. Knows(w)
    BY DEF Facts
  <2>2. CASE Exit \/ Crash
    <3>1. pc'[w] = "idle" /\ job'[w] = NoJob
      BY <2>2 DEF Exit, Crash, Forget, FreshMemory
    <3> QED
      BY <3>1, KnowsNothing
  <2>3. CASE ~(Exit \/ Crash)
    <3>1. UNCHANGED <<pc, job, seen>>
      BY <2>3 DEF Next, Service, Others, Stop, Start, DashboardOpen, Add, TimePasses, Rewrite,
                  Vanish, vars, memory
    <3>2. CASE job[w] = NoJob
      <4>1. pc[w] \in {"idle", "dead"}
        BY <3>2, BagFacts DEF TypeOK
      <4> QED
        BY <3>1, <3>2, <4>1 DEF Knows, Recorded, Grounds
    <3>3. CASE job[w] # NoJob
      <4> PICK b \in Bags : job[w] = b
        BY <3>3 DEF TypeOK
      <4>1. /\ queue'[b].status # "absent"
            /\ queue[b].digest # NoDigest => queue'[b].digest # NoDigest
        BY <1>3, <2>1, <3>3 DEF Knows, RowsSay
      <4>2. Sum(b)' = Sum(b) /\ \A stage : Grounds(stage, b) => Grounds(stage, b)'
        BY StillStored
      <4>3. Grounds(pc[w], job[w])'
        BY <2>1, <3>1, <4>2 DEF Knows
      <4> QED
        BY <2>1, <3>1, <3>3, <4>1, <4>2, <4>3 DEF Knows
    <3> QED
      BY <3>2, <3>3
  <2> QED
    BY <2>2, <2>3
<1> QED
  BY <1>2, <1>4, <1>5 DEF Facts

\* The invariant is inductive beside that of the locks.
LEMMA StepStored ==
  ASSUME Verified, TypeOK, LockInv, StoredInv, [Next]_vars
  PROVE  StoredInv'
<1> SUFFICES ASSUME Untampered' PROVE Facts'
  BY DEF StoredInv
<1>1. Untampered /\ Facts /\ Lasting
  <2>1. /\ Untampered /\ Facts
        /\ \A b \in Bags : Content(b)' = Content(b) /\ (Unlinked(b) => Unlinked(b)')
    BY SameContent DEF StoredInv
  <2>2. Growing
    BY StepGrows DEF Verified
  <2>3. RsyncKeeps
    BY <2>1, StepRsync DEF Verified
  <2> QED
    BY <2>1, <2>2, <2>3 DEF Lasting
<1>2. ASSUME NEW w \in Workers, WorkerStep(w) PROVE Facts'
  <2>1. RowEffect(w)
    BY <1>1, <1>2, WorkerRows DEF Facts, Knows
  <2>2. \A v \in Workers : Knows(v)'
    BY <1>1, <1>2, <2>1, OthersKnow, WorkerKnows DEF Verified
  <2>3. \A b \in Bags : Told(b)'
    BY <1>1, <2>1, RowsTold
  <2>4. Honest' /\ \A b \in Bags : OwnPath(b)'
    BY <1>1, <1>2, StillHonest DEF Verified
  <2> QED
    BY <2>2, <2>3, <2>4 DEF Facts
<1> QED
  BY <1>1, <1>2, RestStored

LEMMA AlwaysStored == ASSUME Verified PROVE Spec => []StoredInv
<1>1. Verified
  OBVIOUS
<1>2. TypeOK /\ LockInv /\ StoredInv /\ [Next]_vars => StoredInv'
  BY <1>1, StepStored
<1>3. TypeOK /\ LockInv /\ [Next]_vars => LockInv'
  BY <1>1, StepLock DEF Verified
<1> QED
  BY <1>2, <1>3, InitTypeOK, StepTypeOK, InitLock, InitStored, PTL DEF Spec

LEMMA StoredMeans ==
  ASSUME StoredInv
  PROVE  DoneIsStored /\ CustodyKept /\ ConflictIsReal
<1> SUFFICES ASSUME Untampered, NEW b \in Bags
             PROVE  /\ queue[b].status = "done" /\ queue[b].digest # NoDigest =>
                         \E l \in LookupOf(b) : Holds(l, queue[b].digest)
                    /\ released[b] # Missing => \E o \in remote[LocationOf(b)] : o.data = released[b]
                    /\ queue[b].status = "conflict" =>
                         \E o \in remote[LocationOf(b)] : o.label # queue[b].digest
  BY DEF DoneIsStored, CustodyKept, ConflictIsReal
<1>1. Told(b)
  BY DEF StoredInv, Facts
<1>2. /\ queue[b].digest # NoDigest => queue[b].digest = Sum(b)
      /\ released[b] # Missing => Content(b) = released[b]
  BY <1>1 DEF Told, Unlinked, Content
<1>3. queue[b].status = "done" /\ queue[b].digest # NoDigest =>
        \E l \in LookupOf(b) : Holds(l, queue[b].digest)
  BY <1>1, <1>2 DEF Told, Stored
<1>4. released[b] # Missing => \E o \in remote[LocationOf(b)] : o.data = released[b]
  BY <1>1, <1>2 DEF Told, Holds, Sum, Blake3
<1>5. queue[b].status = "conflict" => \E o \in remote[LocationOf(b)] : o.label # queue[b].digest
  BY <1>1, <1>2 DEF Told, Foreign
<1> QED
  BY <1>3, <1>4, <1>5

\* A row is done only when the very bytes whose digest it carries are at the destination,
\* under that digest, where find_duplicate() looks (worker.py:45-51 and the upload_entry()
\* of S3Backend, GoogleDriveBackend and RsyncBackend).
THEOREM DoneStored ==
  ASSUME Verified
  PROVE  Spec => []DoneIsStored
<1>1. Spec => []StoredInv
  BY AlwaysStored
<1>2. StoredInv => DoneIsStored
  BY StoredMeans
<1> QED
  BY <1>1, <1>2, PTL

\* A bag that delete_after_upload has unlinked is whole at its own location, for good
\* (worker.py:52).  Two bags of one rsync path are excluded (RsyncAlone).
THEOREM CustodyHeld ==
  ASSUME Verified
  PROVE  Spec => []CustodyKept
<1>1. Spec => []StoredInv
  BY AlwaysStored
<1>2. StoredInv => CustodyKept
  BY StoredMeans
<1> QED
  BY <1>1, <1>2, PTL

\* A bag in conflict has something else under its key, never its own earlier upload
\* (S3Backend.inspect, the conflict handler of worker.py).
THEOREM ConflictsReal ==
  ASSUME Verified
  PROVE  Spec => []ConflictIsReal
<1>1. Spec => []StoredInv
  BY AlwaysStored
<1>2. StoredInv => ConflictIsReal
  BY StoredMeans
<1> QED
  BY <1>1, <1>2, PTL

=============================================================================

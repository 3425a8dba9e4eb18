-------------------------- MODULE UploadPoolProofs --------------------------
(***************************************************************************)
(* Theorems about UploadPool, for any number of bags, threads, bindings,   *)
(* faults and restarts.                                                    *)
(***************************************************************************)
EXTENDS UploadPool, TLAPS

-----------------------------------------------------------------------------
(* What the operations of the queue and the stores return.                 *)

LEMMA QueueWrites ==
  ASSUME QueueTypeOK, NEW b \in Bags
  PROVE  /\ NextReady(b) => QueueTypeOK'
         /\ MarkDone(b) => QueueTypeOK'
         /\ MarkConflict(b) => QueueTypeOK'
         /\ Defer(b) => QueueTypeOK'
         /\ Elapse(b) => QueueTypeOK'
         /\ \A size \in Sizes : Enqueue(b, size) => QueueTypeOK'
         /\ \A digest \in Digests, size \in Sizes : MarkIntegrity(b, digest, size) => QueueTypeOK'
         /\ \A before, limit \in Nat : MarkFailed(b, before, limit) => QueueTypeOK'
<1> USE DEF QueueTypeOK, Rows, Statuses
<1>1. NextReady(b) => QueueTypeOK'
  BY DEF NextReady
<1>2. MarkDone(b) => QueueTypeOK'
  BY DEF MarkDone
<1>3. MarkConflict(b) => QueueTypeOK'
  BY DEF MarkConflict
<1>4. Defer(b) => QueueTypeOK'
  <2>1. [queue[b] EXCEPT !.status = "queued", !.due = FALSE] \in Rows
    OBVIOUS
  <2> QED
    BY <2>1 DEF Defer
<1>5. Elapse(b) => QueueTypeOK'
  BY DEF Elapse
<1>6. ASSUME NEW size \in Sizes, Enqueue(b, size) PROVE QueueTypeOK'
  BY <1>6 DEF Enqueue, AbsentRow, Digests
<1>7. ASSUME NEW digest \in Digests, NEW size \in Sizes, MarkIntegrity(b, digest, size)
      PROVE  QueueTypeOK'
  BY <1>7 DEF MarkIntegrity
<1>8. ASSUME NEW before \in Nat, NEW limit \in Nat, MarkFailed(b, before, limit)
      PROVE  QueueTypeOK'
  <2>1. ASSUME NEW r \in Nat
        PROVE  /\ [queue[b] EXCEPT !.status = "failed", !.retries = r] \in Rows
               /\ [queue[b] EXCEPT !.status = "queued", !.retries = r, !.due = FALSE] \in Rows
    <3>1. [queue[b] EXCEPT !.status = "failed", !.retries = r] \in Rows
      OBVIOUS
    <3>2. [queue[b] EXCEPT !.status = "queued", !.retries = r, !.due = FALSE] \in Rows
      OBVIOUS
    <3> QED
      BY <3>1, <3>2
  <2>2. queue' = [queue EXCEPT ![b] =
                   IF before + 1 >= limit
                   THEN [queue[b] EXCEPT !.status = "failed", !.retries = before + 1]
                   ELSE [queue[b] EXCEPT !.status = "queued", !.retries = before + 1,
                                         !.due = FALSE]]
    BY <1>8 DEF MarkFailed
  <2>3. before + 1 \in Nat
    OBVIOUS
  <2> HIDE DEF Rows
  <2> QED
    BY <2>1, <2>2, <2>3
<1> QED
  BY <1>1, <1>2, <1>3, <1>4, <1>5, <1>6, <1>7, <1>8

LEMMA QueueRestarts ==
  ASSUME NEW q \in [Bags -> Rows]
  PROVE  Recovered(q) \in [Bags -> Rows] /\ Requeued(q) \in [Bags -> Rows]
BY DEF Recovered, Requeued, Rows, Statuses

LEMMA StoreWrites ==
  ASSUME StorageTypeOK, NEW b \in Bags, NEW digest \in Digests,
         NEW data \in Contents \cup {Torn}
  PROVE  /\ LocationOf(b) \in Locations
         /\ S3Complete(b, digest, data) => StorageTypeOK'
         /\ DriveCreate(b, digest, data) => StorageTypeOK'
         /\ RsyncWrite(b, data) => StorageTypeOK'
         /\ RsyncInterrupted(b, data) => StorageTypeOK'
         /\ RsyncLabel(b, digest) => StorageTypeOK'
<1> USE StorageAssumption DEF StorageTypeOK
<1>1. LocationOf(b) \in Locations
  BY DEF LocationOf, Locations
<1>2. S3Complete(b, digest, data) => StorageTypeOK'
  BY <1>1 DEF S3Complete, Objects
<1>3. DriveCreate(b, digest, data) => StorageTypeOK'
  BY <1>1 DEF DriveCreate, Objects
<1>4. ASSUME NEW bytes \in Contents \cup {Torn}, RsyncWrite(b, bytes)
      PROVE  StorageTypeOK'
  <2> DEFINE before == remote[LocationOf(b)]
             label  == IF before = {} THEN NoDigest ELSE (CHOOSE o \in before : TRUE).label
  <2>1. before \subseteq Objects
    BY <1>1
  <2>2. before # {} => (CHOOSE o \in before : TRUE) \in before
    OBVIOUS
  <2>3. label \in Digests
    BY <2>1, <2>2 DEF Objects, Digests
  <2>4. [label |-> label, data |-> bytes] \in Objects
    BY <2>3 DEF Objects
  <2>5. remote' = [remote EXCEPT ![LocationOf(b)] = {[label |-> label, data |-> bytes]}]
    BY <1>4 DEF RsyncWrite
  <2> HIDE DEF label, before
  <2> QED
    BY <1>1, <2>4, <2>5
<1>5. RsyncInterrupted(b, data) => StorageTypeOK'
  BY <1>4 DEF RsyncInterrupted
<1>6. RsyncLabel(b, digest) => StorageTypeOK'
  <2>1. \A o \in Objects : [o EXCEPT !.label = digest] \in Objects
    BY DEF Objects
  <2> QED
    BY <1>1, <2>1 DEF RsyncLabel
<1> QED
  BY <1>1, <1>2, <1>3, <1>4, <1>5, <1>6

-----------------------------------------------------------------------------
(* Type correctness.                                                       *)

LEMMA BagFacts ==
  /\ Bags \subseteq Nat
  /\ NoJob \notin Bags
  /\ NoDigest \in Digests
  /\ 0 \in Sizes
  /\ \A c \in Contents : Blake3(c) \in Digests /\ SizeOf[c] \in Sizes
  /\ \A b \in Bags : LockKey(b) \in LockKeys
BY QueueAssumption, StorageAssumption DEF Bags, NoJob, Digests, Sizes, LockKey, LockKeys

LEMMA InitTypeOK == Init => TypeOK
<1> SUFFICES ASSUME Init PROVE TypeOK
  OBVIOUS
<1>1. QueueTypeOK
  BY BagFacts DEF Init, QueueInit, QueueTypeOK, AbsentRow, Rows, Statuses
<1>2. StorageTypeOK
  BY DEF Init, StorageInit, StorageTypeOK
<1> QED
  BY <1>1, <1>2, BagFacts
  DEF Init, TypeOK, FreshMemory, Stages, Unseen, NotRead

\* The three ways a step of a worker ends: at another call or a handler, with the
\* thread dead, or back at the top of the loop.
LEMMA SpentType == TypeOK /\ (Fault \/ NoFault) => (spent \in [{"fault", "outage", "open", "tamper"} -> Nat])'
BY DEF TypeOK, Fault, NoFault, Spend

LEMMA LockType ==
  ASSUME TypeOK, NEW w \in Workers, Unlock(w) \/ UNCHANGED lock
  PROVE  (lock \in [LockKeys -> Workers \cup {Nobody}])'
BY DEF TypeOK, Unlock

LEMMA GotoTypeOK ==
  ASSUME TypeOK, NEW w \in Workers, NEW stage \in Stages, pc[w] \notin {"idle", "dead"},
         Goto(w, stage), Unlock(w) \/ UNCHANGED lock, Keep, AtRest, Fault \/ NoFault,
         QueueTypeOK', StorageTypeOK'
  PROVE  TypeOK'
BY SpentType, LockType DEF TypeOK, Goto, Keep, AtRest

LEMMA DieTypeOK ==
  ASSUME TypeOK, NEW w \in Workers, Die(w), Fault \/ NoFault
  PROVE  TypeOK'
BY SpentType DEF TypeOK, Die, Goto, Keep, AtRest, QueueTypeOK, StorageTypeOK, Stages

LEMMA IdleTypeOK ==
  ASSUME TypeOK, NEW w \in Workers, Idle(w), Unlock(w) \/ UNCHANGED lock, Fault \/ NoFault,
         UNCHANGED <<cached, mode>>, QueueTypeOK', StorageTypeOK',
         (disk \in [Bags -> Contents \cup {Missing}])',
         (released \in [Bags -> Contents \cup {Missing}])'
  PROVE  TypeOK'
<1>1. Unseen \in [digest : Digests, size : Sizes] /\ NotRead \in [read : BOOLEAN, retries : Nat]
  BY BagFacts DEF Unseen, NotRead
<1> QED
  BY <1>1, SpentType, LockType DEF TypeOK, Idle, Goto, Stages

LEMMA StepTypeOK == TypeOK /\ [Next]_vars => TypeOK'
<1> SUFFICES ASSUME TypeOK, [Next]_vars PROVE TypeOK'
  OBVIOUS
<1> USE BagFacts, PoolAssumption
<1>a. /\ QueueTypeOK /\ StorageTypeOK
      /\ \A w \in Workers : pc[w] \notin {"idle", "dead"} => job[w] \in Bags
      /\ \A w \in Workers : seen[w].digest \in Digests /\ seen[w].size \in Sizes
      /\ disk \in [Bags -> Contents \cup {Missing}]
      /\ released \in [Bags -> Contents \cup {Missing}]
      /\ \A w \in Workers : tally[w].retries \in Nat
      /\ UNCHANGED queue => QueueTypeOK'
      /\ UNCHANGED remote => StorageTypeOK'
  BY DEF TypeOK, QueueTypeOK, StorageTypeOK
<1>0. NoFault <=> UNCHANGED spent
  BY DEF NoFault
<1>1. ASSUME NEW w \in Workers, Claim(w) PROVE TypeOK'
  <2>1. CASE Fault /\ Die(w)
    BY <2>1, DieTypeOK
  <2>2. CASE ~(Fault /\ Die(w))
    <3>1. PICK b \in Bags :
            /\ NextReady(b)
            /\ job'  = [job EXCEPT ![w] = b]
            /\ seen' = [seen EXCEPT ![w] = [digest |-> queue[b].digest, size |-> queue[b].size]]
      BY <1>1, <2>2 DEF Claim
    <3>2. QueueTypeOK'
      BY <1>a, <3>1, QueueWrites
    <3>3. [digest |-> queue[b].digest, size |-> queue[b].size] \in [digest : Digests, size : Sizes]
      BY <1>a DEF QueueTypeOK, Rows
    <3> QED
      BY <1>1, <2>2, <3>1, <3>2, <3>3, SpentType
      DEF Claim, Goto, AtRest, StorageTypeOK, Stages, TypeOK
  <2> QED
    BY <2>1, <2>2
<1>2. ASSUME NEW w \in Workers, CheckLocal(w) PROVE TypeOK'
  <2> DEFINE next == IF SourceGone(w) THEN "fatal"
                     ELSE IF VerifyBlake3 /\ seen[w].digest = NoDigest THEN "hash"
                     ELSE "resolve"
  <2>1. next \in Stages /\ pc[w] \notin {"idle", "dead"} /\ Goto(w, next)
    BY <1>2 DEF CheckLocal, Stages
  <2> HIDE DEF next
  <2> QED
    BY <1>2, <1>a, <1>0, <2>1, GotoTypeOK DEF CheckLocal
<1>3. ASSUME NEW w \in Workers, Hash(w) PROVE TypeOK'
  <2>1. CASE Die(w) /\ (Fault \/ NoFault)
    BY <2>1, DieTypeOK
  <2>2. CASE ~(Die(w) /\ (Fault \/ NoFault))
    <3>1. pc[w] = "hash" /\ job[w] \in Bags /\ disk[job[w]] \in Contents
      BY <1>3, <1>a, <2>2 DEF Hash, SourceGone
    <3>2. Blake3(disk[job[w]]) \in Digests
      BY <3>1
    <3>3. (seen \in [Workers -> [digest : Digests, size : Sizes]])'
      <4>1. [seen[w] EXCEPT !.digest = Blake3(disk[job[w]])] \in [digest : Digests, size : Sizes]
        BY <3>2 DEF TypeOK
      <4>2. seen' = [seen EXCEPT ![w] = [seen[w] EXCEPT !.digest = Blake3(disk[job[w]])]]
        BY <1>3, <2>2 DEF Hash
      <4> QED
        BY <4>1, <4>2 DEF TypeOK
    <3>4. /\ Goto(w, "record") /\ AtRest
          /\ UNCHANGED <<queue, remote, job, tally, lock, spent>>
      BY <1>3, <2>2 DEF Hash
    <3> QED
      BY <1>a, <3>1, <3>3, <3>4 DEF Goto, AtRest, Stages, TypeOK
  <2> QED
    BY <2>1, <2>2
<1>4. ASSUME NEW w \in Workers, Record(w) PROVE TypeOK'
  <2>1. CASE Die(w) /\ (Fault \/ NoFault)
    BY <2>1, DieTypeOK
  <2>2. CASE ~(Die(w) /\ (Fault \/ NoFault))
    <3>1. pc[w] = "record" /\ job[w] \in Bags /\ disk[job[w]] \in Contents
      BY <1>4, <1>a, <2>2 DEF Record, SourceGone
    <3>2. SizeOf[disk[job[w]]] \in Sizes
      BY <3>1
    <3>3. QueueTypeOK'
      BY <1>4, <1>a, <2>2, <3>1, <3>2, QueueWrites DEF Record
    <3>4. /\ Goto(w, "measure") /\ AtRest
          /\ UNCHANGED <<remote, job, seen, tally, lock, spent>>
      BY <1>4, <2>2 DEF Record, Keep
    <3> QED
      BY <1>a, <3>1, <3>3, <3>4 DEF Goto, AtRest, Stages, TypeOK
  <2> QED
    BY <2>1, <2>2
<1>m. ASSUME NEW w \in Workers, Measure(w) PROVE TypeOK'
  <2>1. CASE Die(w) /\ (Fault \/ NoFault)
    BY <2>1, DieTypeOK
  <2>2. CASE ~(Die(w) /\ (Fault \/ NoFault))
    <3>1. pc[w] = "measure" /\ job[w] \in Bags /\ disk[job[w]] \in Contents
      BY <1>m, <1>a, <2>2 DEF Measure, SourceGone
    <3>2. SizeOf[disk[job[w]]] \in Sizes
      BY <3>1
    <3>4. (seen \in [Workers -> [digest : Digests, size : Sizes]])'
      <4>1. [seen[w] EXCEPT !.size = SizeOf[disk[job[w]]]] \in [digest : Digests, size : Sizes]
        BY <3>2 DEF TypeOK
      <4>2. seen' = [seen EXCEPT ![w] = [seen[w] EXCEPT !.size = SizeOf[disk[job[w]]]]]
        BY <1>m, <2>2 DEF Measure
      <4> QED
        BY <4>1, <4>2 DEF TypeOK
    <3>5. /\ Goto(w, "resolve") /\ AtRest
          /\ UNCHANGED <<queue, remote, job, tally, lock, spent>>
      BY <1>m, <2>2 DEF Measure
    <3> QED
      BY <1>a, <3>1, <3>4, <3>5 DEF Goto, AtRest, Stages, TypeOK
  <2> QED
    BY <2>1, <2>2
<1>5. ASSUME NEW w \in Workers, Resolve(w) PROVE TypeOK'
  <2>1. CASE Die(w) /\ (Fault \/ NoFault)
    BY <2>1, DieTypeOK
  <2>2. CASE ~(Die(w) /\ (Fault \/ NoFault))
    <3>1. pc[w] = "resolve" /\ BindingOf[job[w]] \in Bindings
      BY <1>5, <1>a, StorageAssumption DEF Resolve
    <3> QED
      BY <1>5, <1>a, <2>2, <3>1 DEF Resolve, Goto, Keep, Stages, TypeOK
  <2> QED
    BY <2>1, <2>2
<1>6. ASSUME NEW w \in Workers, Acquire(w) PROVE TypeOK'
  BY <1>6, <1>a DEF Acquire, Goto, Keep, AtRest, Stages, TypeOK
<1>7. ASSUME NEW w \in Workers, S3Inspect(w) PROVE TypeOK'
  <2>1. \E stage \in Stages : Goto(w, stage)
    BY <1>7 DEF S3Inspect, Raise, Stages
  <2> QED
    BY <1>7, <1>a, <2>1, GotoTypeOK DEF S3Inspect, Look, Raise
<1>8. ASSUME NEW w \in Workers, LegacyInspect(w) PROVE TypeOK'
  <2>1. \E stage \in Stages : Goto(w, stage)
    BY <1>8 DEF LegacyInspect, Raise, Stages
  <2> QED
    BY <1>8, <1>a, <2>1, GotoTypeOK DEF LegacyInspect, Look, Raise
<1>b. ASSUME NEW w \in Workers, pc[w] \notin {"idle", "dead"}
      PROVE  /\ job[w] \in Bags
             /\ \A data \in Readings(w) : ~SourceGone(w) => data \in Contents \cup {Torn}
             /\ seen[w].digest \in Digests
  BY <1>a, <1>b DEF Readings, SourceGone
<1>9. ASSUME NEW w \in Workers, S3Transfer(w) PROVE TypeOK'
  <2>1. \E stage \in Stages : Goto(w, stage)
    BY <1>9 DEF S3Transfer, Raise, Stages
  <2>2. StorageTypeOK'
    BY <1>9, <1>a, <1>b, StoreWrites DEF S3Transfer, Move
  <2> QED
    BY <1>9, <1>a, <2>1, <2>2, GotoTypeOK DEF S3Transfer, Move, Raise
<1>10. ASSUME NEW w \in Workers, DriveTransfer(w) PROVE TypeOK'
  <2>1. \E stage \in Stages : Goto(w, stage)
    BY <1>10 DEF DriveTransfer, Raise, Stages
  <2>2. StorageTypeOK'
    BY <1>10, <1>a, <1>b, StoreWrites DEF DriveTransfer, Move
  <2> QED
    BY <1>10, <1>a, <2>1, <2>2, GotoTypeOK DEF DriveTransfer, Move, Raise
<1>11. ASSUME NEW w \in Workers, RsyncTransfer(w) PROVE TypeOK'
  <2>1. \E stage \in Stages : Goto(w, stage)
    BY <1>11 DEF RsyncTransfer, Raise, Stages
  <2>2. disk[job[w]] \in Contents \/ SourceGone(w)
    BY <1>11, <1>a DEF RsyncTransfer, Move, SourceGone
  <2>3. StorageTypeOK'
    BY <1>11, <1>a, <1>b, <2>2, StoreWrites DEF RsyncTransfer, Move
  <2> QED
    BY <1>11, <1>a, <2>1, <2>3, GotoTypeOK DEF RsyncTransfer, Move, Raise
<1>12. ASSUME NEW w \in Workers, Label(w) PROVE TypeOK'
  <2>1. \E stage \in Stages : Goto(w, stage)
    BY <1>12 DEF Label, Raise, Stages
  <2>2. StorageTypeOK'
    BY <1>12, <1>a, <1>b, StoreWrites DEF Label
  <2> QED
    BY <1>12, <1>a, <2>1, <2>2, GotoTypeOK DEF Label, Raise
<1>13. ASSUME NEW w \in Workers, Confirm(w) PROVE TypeOK'
  <2>1. Kind(job[w]) \in {"s3", "gdrive", "rsync"}
    BY <1>13, <1>a, StorageAssumption DEF Confirm, Kind
  <2>2. /\ \E stage \in Stages : Goto(w, stage)
        /\ Unlock(w) \/ UNCHANGED lock
        /\ Fault \/ NoFault
    BY <1>13, <2>1 DEF Confirm, Raise, Stages
  <2> QED
    BY <1>13, <1>a, <2>2, GotoTypeOK DEF Confirm
<1>14. ASSUME NEW w \in Workers, Finish(w) PROVE TypeOK'
  <2>1. pc[w] \in {"finish", "known"} /\ job[w] \in Bags
    BY <1>14, <1>a DEF Finish
  <2>2. QueueTypeOK' /\ StorageTypeOK'
    BY <1>14, <1>a, <2>1, QueueWrites DEF Finish
  <2>3. /\ UNCHANGED <<cached, mode, disk, released>> /\ AtRest
        /\ Fault \/ NoFault
        /\ Unlock(w) \/ UNCHANGED lock
        /\ Idle(w) \/ (Keep /\ \E stage \in {"unlink", "count"} : Goto(w, stage))
    BY <1>14 DEF Finish, AtRest, Raise
  <2>4. CASE Idle(w)
    BY <1>a, <2>2, <2>3, <2>4, IdleTypeOK
  <2>5. CASE Keep /\ \E stage \in {"unlink", "count"} : Goto(w, stage)
    BY <2>1, <2>2, <2>3, <2>5, GotoTypeOK DEF Stages
  <2> QED
    BY <2>3, <2>4, <2>5
<1>15. ASSUME NEW w \in Workers, Unlink(w) PROVE TypeOK'
  <2>1. pc[w] = "unlink" /\ job[w] \in Bags /\ QueueTypeOK' /\ StorageTypeOK'
    BY <1>15, <1>a DEF Unlink
  <2>2. CASE Idle(w)
    <3>1. /\ (disk \in [Bags -> Contents \cup {Missing}])'
          /\ (released \in [Bags -> Contents \cup {Missing}])'
      BY <1>15, <1>a DEF Unlink
    <3>2. (Unlock(w) \/ UNCHANGED lock) /\ (Fault \/ NoFault)
      BY <1>15 DEF Unlink, Raise
    <3> QED
      BY <1>15, <2>1, <2>2, <3>1, <3>2, IdleTypeOK DEF Unlink
  <2>3. CASE ~Idle(w)
    BY <1>15, <2>1, <2>3, GotoTypeOK DEF Unlink, Raise, AtRest, Stages
  <2> QED
    BY <2>2, <2>3
<1>16. ASSUME NEW w \in Workers, SettleConflict(w) PROVE TypeOK'
  BY <1>16, <1>a, <1>0, QueueWrites, DieTypeOK, IdleTypeOK DEF SettleConflict, AtRest
<1>17. ASSUME NEW w \in Workers, SettleDefer(w) PROVE TypeOK'
  BY <1>17, <1>a, <1>0, QueueWrites, DieTypeOK, IdleTypeOK DEF SettleDefer, AtRest
<1>18. ASSUME NEW w \in Workers, ReadRetries(w) PROVE TypeOK'
  <2>1. job[w] \in Bags
    BY <1>18, <1>a DEF ReadRetries
  <2>2. [read |-> TRUE, retries |-> queue[job[w]].retries] \in [read : BOOLEAN, retries : Nat]
    BY <1>a, <2>1 DEF QueueTypeOK, Rows
  <2> QED
    BY <1>18, <1>a, <2>2 DEF ReadRetries, AtRest, TypeOK
<1>19. ASSUME NEW w \in Workers, WriteFailed(w) PROVE TypeOK'
  <2>1. CASE Fault /\ Die(w)
    BY <2>1, DieTypeOK
  <2>2. CASE ~(Fault /\ Die(w))
    <3>1. job[w] \in Bags /\ tally[w].retries \in Nat /\ 0 \in Nat /\ MaxRetries \in Nat
      BY <1>19, <1>a, QueueAssumption DEF WriteFailed
    <3>2. QueueTypeOK'
      BY <1>19, <1>a, <2>2, <3>1, QueueWrites DEF WriteFailed
    <3> QED
      BY <1>19, <1>a, <1>0, <2>2, <3>2, IdleTypeOK DEF WriteFailed, AtRest
  <2> QED
    BY <2>1, <2>2
<1>20. ASSUME NEW b \in Bags, Add(b) \/ TimePasses(b) PROVE TypeOK'
  <2>1. (IF disk[b] = Missing THEN 0 ELSE SizeOf[disk[b]]) \in Sizes
    BY <1>a
  <2>2. QueueTypeOK'
    BY <1>20, <1>a, <2>1, QueueWrites DEF Add, TimePasses
  <2> QED
    BY <1>20, <1>a, <2>2 DEF Add, TimePasses, memory, TypeOK
<1>21. CASE Stop
  BY <1>21, <1>a DEF Stop, Spend, memory, TypeOK
<1>22. CASE Exit \/ Crash
  <2>1. Forget /\ mode' = "down" /\ UNCHANGED <<queue, remote, disk, released>>
    BY <1>22 DEF Exit, Crash
  <2>2. (spent \in [{"fault", "outage", "open", "tamper"} -> Nat])'
    BY <1>22 DEF Exit, Crash, Spend, TypeOK
  <2> QED
    BY <1>a, <2>1, <2>2 DEF Forget, FreshMemory, Unseen, NotRead, Stages, TypeOK
<1>23. CASE Start
  <2>1. QueueTypeOK'
    BY <1>23, <1>a, QueueRestarts DEF Start, QueueTypeOK
  <2> QED
    BY <1>23, <1>a, <2>1 DEF Start, memory, TypeOK
<1>24. CASE DashboardOpen
  <2>1. QueueTypeOK'
    BY <1>24, <1>a, QueueRestarts DEF DashboardOpen, QueueTypeOK
  <2> QED
    BY <1>24, <1>a, <2>1 DEF DashboardOpen, Spend, memory, TypeOK
<1>25. ASSUME NEW b \in Bags, Rewrite(b) \/ Vanish(b) PROVE TypeOK'
  BY <1>25, <1>a DEF Rewrite, Vanish, Spend, memory, TypeOK
<1>26. CASE UNCHANGED vars
  BY <1>26, <1>a DEF vars, memory, TypeOK
<1> QED
  BY <1>1, <1>2, <1>3, <1>4, <1>5, <1>6, <1>7, <1>8, <1>9, <1>10, <1>11, <1>12, <1>13, <1>14,
     <1>15, <1>16, <1>17, <1>18, <1>19, <1>20, <1>21, <1>22, <1>23, <1>24, <1>25, <1>26, <1>m
  DEF Next, WorkerStep, Service, Others

\* Every reachable state is well typed: rows, objects, threads, locks and the
\* bookkeeping of the process stay what worker.py and queue.py declare them to be.
THEOREM TypeCorrect == Spec => []TypeOK
BY InitTypeOK, StepTypeOK, PTL DEF Spec

-----------------------------------------------------------------------------
(* The ledger: who works on which row.                                     *)

\* ClaimLedger is not inductive: a claim is exclusive because no row held by a thread
\* is queued, not even between the exception and its handler.
LedgerInv ==
  /\ \A w \in Workers : pc[w] = "idle" => job[w] = NoJob
  /\ mode = "down" => \A w \in Workers : pc[w] = "idle"
  /\ spent["open"] = 0 =>
       /\ \A v, w \in Workers : job[v] = job[w] /\ job[v] # NoJob => v = w
       /\ \A w \in Workers : job[w] # NoJob => queue[job[w]].status \in {"uploading", "done"}
       /\ \A w \in Workers : pc[w] \in Working => queue[job[w]].status = "uploading"
       /\ \A w \in Workers : pc[w] = "unlink" => queue[job[w]].status = "done"
       /\ mode # "down" => \A b \in Bags : queue[b].status = "uploading" =>
                              \E w \in Workers : job[w] = b

LEMMA InitLedger == Init => LedgerInv
BY BagFacts
DEF Init, LedgerInv, FreshMemory, QueueInit, AbsentRow, Working

\* A step that moves one thread on and settles nothing.
LEMMA LedgerMove ==
  ASSUME TypeOK, LedgerInv, NEW w \in Workers, NEW stage \in Stages \ {"idle", "unlink"},
         Goto(w, stage), stage \in Working => pc[w] \in Working,
         mode # "down", UNCHANGED <<job, mode>>, spent'["open"] = spent["open"],
         \A b \in Bags : queue'[b].status = queue[b].status
  PROVE  LedgerInv'
<1>1. /\ pc'[w] = stage /\ stage \notin {"idle", "unlink"}
      /\ \A v \in Workers : v # w => pc'[v] = pc[v]
      /\ \A v \in Workers : job'[v] = job[v] /\ job[v] \in Bags \cup {NoJob}
  BY DEF TypeOK, Goto
<1>2. \A v \in Workers : pc'[v] = "idle" => job'[v] = NoJob
  BY <1>1 DEF LedgerInv
<1>3. ASSUME NEW v \in Workers, pc'[v] \in Working PROVE pc[v] \in Working
  BY <1>1, <1>3
<1>4. \A v \in Workers : pc[v] \in Working \cup {"unlink"} => job[v] # NoJob
  BY BagFacts DEF TypeOK, Working
<1>5. \A v \in Workers : job[v] # NoJob => queue'[job'[v]].status = queue[job[v]].status
  BY <1>1
<1>6. ASSUME spent["open"] = 0, NEW b \in Bags, queue'[b].status = "uploading"
      PROVE  \E v \in Workers : job'[v] = b
  BY <1>1, <1>6 DEF LedgerInv
<1>7. ASSUME spent["open"] = 0
      PROVE  /\ \A u, v \in Workers : job'[u] = job'[v] /\ job'[u] # NoJob => u = v
             /\ \A v \in Workers :
                  job'[v] # NoJob => queue'[job'[v]].status \in {"uploading", "done"}
             /\ \A v \in Workers : pc'[v] \in Working => queue'[job'[v]].status = "uploading"
             /\ \A v \in Workers : pc'[v] = "unlink" => queue'[job'[v]].status = "done"
  BY <1>1, <1>3, <1>4, <1>5, <1>7 DEF LedgerInv
<1> QED
  BY <1>2, <1>6, <1>7 DEF LedgerInv

\* A step that settles the thread's row and lets go of it.
LEMMA LedgerRelease ==
  ASSUME TypeOK, LedgerInv, NEW w \in Workers, pc[w] # "idle", Idle(w),
         UNCHANGED mode, spent'["open"] = spent["open"],
         spent["open"] = 0 => queue'[job[w]].status # "uploading",
         \A b \in Bags \ {job[w]} : queue'[b] = queue[b]
  PROVE  LedgerInv'
<1>1. /\ pc'[w] = "idle" /\ job'[w] = NoJob /\ mode # "down"
      /\ \A v \in Workers : v # w => pc'[v] = pc[v] /\ job'[v] = job[v]
      /\ \A v \in Workers : job[v] \in Bags \cup {NoJob}
  BY DEF TypeOK, Idle, Goto, LedgerInv
<1>2. ASSUME spent["open"] = 0, NEW v \in Workers, v # w, job[v] # NoJob
      PROVE  job[v] # job[w] /\ queue'[job[v]] = queue[job[v]]
  BY <1>1, <1>2 DEF LedgerInv
<1>3. \A v \in Workers : pc[v] \in Working \cup {"unlink"} => job[v] # NoJob
  BY BagFacts DEF TypeOK, Working
<1>4. "idle" \notin Working
  BY DEF Working
<1>5. ASSUME spent["open"] = 0, NEW b \in Bags, queue'[b].status = "uploading"
      PROVE  \E v \in Workers : job'[v] = b
  <2>1. b # job[w] /\ queue[b].status = "uploading"
    BY <1>5
  <2> QED
    BY <1>1, <1>5, <2>1 DEF LedgerInv
<1>6. \A v \in Workers : pc'[v] = "idle" => job'[v] = NoJob
  BY <1>1 DEF LedgerInv
<1>7. ASSUME spent["open"] = 0
      PROVE  /\ \A u, v \in Workers : job'[u] = job'[v] /\ job'[u] # NoJob => u = v
             /\ \A v \in Workers :
                  job'[v] # NoJob => queue'[job'[v]].status \in {"uploading", "done"}
             /\ \A v \in Workers : pc'[v] \in Working => queue'[job'[v]].status = "uploading"
             /\ \A v \in Workers : pc'[v] = "unlink" => queue'[job'[v]].status = "done"
  BY <1>1, <1>2, <1>3, <1>4, <1>7 DEF LedgerInv
<1> QED
  BY <1>1, <1>5, <1>6, <1>7 DEF LedgerInv

LEMMA SpentOpen == TypeOK /\ (Fault \/ NoFault) => spent'["open"] = spent["open"]
BY DEF TypeOK, Fault, NoFault, Spend

LEMMA StepLedger == TypeOK /\ LedgerInv /\ [Next]_vars => LedgerInv'
<1> SUFFICES ASSUME TypeOK, LedgerInv, [Next]_vars PROVE LedgerInv'
  OBVIOUS
<1> USE BagFacts
<1>a. /\ \A w \in Workers : pc[w] # "idle" => mode # "down"
      /\ \A w \in Workers : pc[w] \notin {"idle", "dead"} => job[w] \in Bags
      /\ queue \in [Bags -> Rows]
      /\ UNCHANGED spent => spent'["open"] = spent["open"]
  BY DEF LedgerInv, TypeOK, QueueTypeOK
<1>d. ASSUME NEW w \in Workers, Die(w), Fault \/ NoFault, mode # "down" PROVE LedgerInv'
  BY <1>d, SpentOpen, LedgerMove DEF Die, Keep, AtRest, Stages, Working
<1>1. ASSUME NEW w \in Workers, Claim(w) PROVE LedgerInv'
  <2>1. CASE Fault /\ Die(w)
    BY <1>1, <1>d, <2>1 DEF Claim
  <2>2. CASE ~(Fault /\ Die(w))
    <3>1. PICK b \in Bags : NextReady(b) /\ job' = [job EXCEPT ![w] = b]
      BY <1>1, <2>2 DEF Claim
    <3>2. /\ queue[b].status = "queued"
          /\ queue' = [queue EXCEPT ![b].status = "uploading"]
          /\ pc[w] = "idle" /\ mode = "running" /\ UNCHANGED mode
          /\ Fault \/ NoFault
          /\ \E stage \in {"check", "dead"} : pc' = [pc EXCEPT ![w] = stage]
      BY <1>1, <2>2, <3>1 DEF Claim, NextReady, Ready, Goto, AtRest
    <3>3. \A a \in Bags : queue'[a].status = IF a = b THEN "uploading" ELSE queue[a].status
      BY <1>a, <3>2 DEF Rows
    <3>4. /\ job'[w] = b /\ pc'[w] \in {"check", "dead"} /\ mode' = "running" /\ mode = "running"
          /\ \A v \in Workers : v # w => job'[v] = job[v] /\ pc'[v] = pc[v]
          /\ \A v \in Workers : job[v] \in Bags \cup {NoJob}
          /\ spent'["open"] = spent["open"]
      BY <3>1, <3>2, SpentOpen DEF TypeOK
    <3>5. ASSUME spent["open"] = 0, NEW v \in Workers PROVE job[v] # b
      BY <3>2, <3>5 DEF LedgerInv
    <3>6. \A v \in Workers : pc'[v] = "idle" => job'[v] = NoJob
      BY <3>4 DEF LedgerInv
    <3>7. \A v \in Workers : pc[v] \in Working \cup {"unlink"} => job[v] # NoJob
      BY BagFacts DEF TypeOK, Working
    <3>8. ASSUME spent["open"] = 0
          PROVE  /\ \A u, v \in Workers : job'[u] = job'[v] /\ job'[u] # NoJob => u = v
                 /\ \A v \in Workers :
                      job'[v] # NoJob => queue'[job'[v]].status \in {"uploading", "done"}
                 /\ \A v \in Workers :
                      pc'[v] \in Working => queue'[job'[v]].status = "uploading"
                 /\ \A v \in Workers :
                      pc'[v] = "unlink" => queue'[job'[v]].status = "done"
                 /\ \A a \in Bags : queue'[a].status = "uploading" =>
                      \E v \in Workers : job'[v] = a
      <4>1. ASSUME NEW a \in Bags, queue'[a].status = "uploading"
            PROVE  \E v \in Workers : job'[v] = a
        <5>1. CASE a = b
          BY <3>4, <5>1
        <5>2. CASE a # b
          <6>1. PICK v \in Workers : job[v] = a
            BY <3>3, <3>4, <3>8, <4>1, <5>2 DEF LedgerInv
          <6>2. v # w
            BY <3>2, <6>1, BagFacts DEF LedgerInv
          <6> QED
            BY <3>4, <6>1, <6>2
        <5> QED
          BY <5>1, <5>2
      <4>2. \A v \in Workers : v # w /\ job[v] # NoJob =>
              job'[v] = job[v] /\ queue'[job[v]].status = queue[job[v]].status
        BY <3>3, <3>4, <3>5, <3>8
      <4>3. \A u, v \in Workers : job'[u] = job'[v] /\ job'[u] # NoJob => u = v
        BY <3>4, <3>5, <3>8 DEF LedgerInv
      <4>4. /\ \A v \in Workers :
                 job'[v] # NoJob => queue'[job'[v]].status \in {"uploading", "done"}
            /\ \A v \in Workers :
                 pc'[v] \in Working => queue'[job'[v]].status = "uploading"
            /\ \A v \in Workers :
                 pc'[v] = "unlink" => queue'[job'[v]].status = "done"
        BY <3>3, <3>4, <3>7, <3>8, <4>2 DEF LedgerInv
      <4> QED
        BY <4>1, <4>3, <4>4
    <3> QED
      BY <3>2, <3>4, <3>6, <3>8 DEF LedgerInv
  <2> QED
    BY <2>1, <2>2
<1>2. ASSUME NEW w \in Workers, CheckLocal(w) PROVE LedgerInv'
  <2> DEFINE next == IF SourceGone(w) THEN "fatal"
                     ELSE IF VerifyBlake3 /\ seen[w].digest = NoDigest THEN "hash"
                     ELSE "resolve"
  <2>1. next \in Stages \ {"idle", "unlink"} /\ pc[w] = "check" /\ Goto(w, next) /\ pc[w] \in Working
    BY <1>2 DEF CheckLocal, Stages, Working
  <2> HIDE DEF next
  <2> QED
    BY <1>2, <1>a, <2>1, LedgerMove DEF CheckLocal, Keep, AtRest
<1>3. ASSUME NEW w \in Workers, Hash(w) PROVE LedgerInv'
  <2>1. CASE Die(w) /\ (Fault \/ NoFault)
    BY <1>3, <1>a, <1>d, <2>1 DEF Hash
  <2>2. CASE ~(Die(w) /\ (Fault \/ NoFault))
    BY <1>3, <1>a, <2>2, LedgerMove DEF Hash, AtRest, Stages, Working
  <2> QED
    BY <2>1, <2>2
<1>4. ASSUME NEW w \in Workers, Record(w) PROVE LedgerInv'
  <2>1. CASE Die(w) /\ (Fault \/ NoFault)
    BY <1>4, <1>a, <1>d, <2>1 DEF Record
  <2>2. CASE ~(Die(w) /\ (Fault \/ NoFault))
    <3>1. MarkIntegrity(job[w], seen[w].digest, SizeOf[disk[job[w]]])
      BY <1>4, <2>2 DEF Record
    <3>2. \A b \in Bags : queue'[b].status = queue[b].status
      BY <1>a, <3>1 DEF MarkIntegrity, Rows
    <3> QED
      BY <1>4, <1>a, <2>2, <3>2, LedgerMove DEF Record, Keep, AtRest, Stages, Working
  <2> QED
    BY <2>1, <2>2
<1>m. ASSUME NEW w \in Workers, Measure(w) PROVE LedgerInv'
  <2>1. CASE Die(w) /\ (Fault \/ NoFault)
    BY <1>m, <1>a, <1>d, <2>1 DEF Measure
  <2>2. CASE ~(Die(w) /\ (Fault \/ NoFault))
    BY <1>m, <1>a, <2>2, LedgerMove DEF Measure, AtRest, Stages, Working
  <2> QED
    BY <2>1, <2>2
<1>5. ASSUME NEW w \in Workers, Resolve(w) PROVE LedgerInv'
  <2>1. CASE Die(w) /\ (Fault \/ NoFault)
    BY <1>5, <1>a, <1>d, <2>1 DEF Resolve
  <2>2. CASE ~(Die(w) /\ (Fault \/ NoFault))
    BY <1>5, <1>a, <2>2, LedgerMove DEF Resolve, Keep, Stages, Working
  <2> QED
    BY <2>1, <2>2
<1>6. ASSUME NEW w \in Workers, Acquire(w) PROVE LedgerInv'
  BY <1>6, <1>a, LedgerMove DEF Acquire, Keep, AtRest, Stages, Working
<1>7. ASSUME NEW w \in Workers,
             S3Inspect(w) \/ LegacyInspect(w) \/ S3Transfer(w) \/ DriveTransfer(w)
               \/ RsyncTransfer(w) \/ Label(w) \/ Confirm(w)
      PROVE  LedgerInv'
  <2>1. pc[w] \in Working /\ pc[w] # "idle"
    BY <1>7 DEF S3Inspect, LegacyInspect, Look, S3Transfer, DriveTransfer, RsyncTransfer, Move,
                Label, Confirm, Working
  <2>2. Keep /\ AtRest /\ UNCHANGED queue
    BY <1>7 DEF S3Inspect, LegacyInspect, Look, S3Transfer, DriveTransfer, RsyncTransfer, Move,
                Label, Confirm
  <2>3. Kind(job[w]) \in {"s3", "gdrive", "rsync"}
    BY <1>a, <2>1, StorageAssumption DEF Kind, Working
  <2>4. /\ Fault \/ NoFault
        /\ \E stage \in Stages \ {"idle", "unlink"} : Goto(w, stage)
    BY <1>7, <2>3 DEF S3Inspect, LegacyInspect, S3Transfer, DriveTransfer, RsyncTransfer,
                      Label, Confirm, Raise, Stages
  <2> QED
    BY <1>a, <2>1, <2>2, <2>4, SpentOpen, LedgerMove DEF Keep, AtRest
<1>8. ASSUME NEW w \in Workers, Finish(w) PROVE LedgerInv'
  <2>1. /\ pc[w] \in {"finish", "known"} /\ job[w] \in Bags /\ mode # "down"
        /\ UNCHANGED mode /\ pc[w] \in Working
    BY <1>8, <1>a DEF Finish, AtRest, Working
  <2>2. CASE Fault /\ Raise(w, "count") /\ UNCHANGED queue /\ Keep
    BY <2>1, <2>2, SpentOpen, LedgerMove DEF Raise, Keep, Stages
  <2>3. CASE MarkDone(job[w]) /\ NoFault
    <3>1. /\ queue'[job[w]].status = "done"
          /\ \A b \in Bags \ {job[w]} : queue'[b] = queue[b]
      BY <1>a, <2>1, <2>3 DEF MarkDone, Rows
    <3>2. CASE Idle(w)
      BY <2>1, <2>3, <3>1, <3>2, SpentOpen, LedgerRelease
    <3>3. CASE Goto(w, "unlink") /\ Keep
      <4>1. /\ pc'[w] = "unlink" /\ UNCHANGED job
            /\ \A v \in Workers : v # w => pc'[v] = pc[v]
            /\ \A v \in Workers : job[v] \in Bags \cup {NoJob}
        BY <3>3 DEF TypeOK, Goto, Keep
      <4>2. ASSUME spent["open"] = 0, NEW v \in Workers, v # w, job[v] # NoJob
            PROVE  queue'[job[v]] = queue[job[v]]
        BY <2>1, <3>1, <4>1, <4>2 DEF LedgerInv
      <4>3. \A v \in Workers : pc[v] \in Working \cup {"unlink"} => job[v] # NoJob
        BY DEF TypeOK, Working
      <4>4. "unlink" \notin Working
        BY DEF Working
      <4>5. ASSUME spent["open"] = 0, NEW b \in Bags, queue'[b].status = "uploading"
            PROVE  \E v \in Workers : job'[v] = b
        <5>1. queue[b].status = "uploading"
          BY <3>1, <4>5
        <5> QED
          BY <2>1, <4>1, <4>5, <5>1 DEF LedgerInv
      <4>6. spent'["open"] = spent["open"]
        BY <2>3, SpentOpen
      <4>7. ASSUME spent["open"] = 0
            PROVE  /\ \A v \in Workers :
                        job'[v] # NoJob => queue'[job'[v]].status \in {"uploading", "done"}
                   /\ \A v \in Workers :
                        pc'[v] \in Working => queue'[job'[v]].status = "uploading"
                   /\ \A v \in Workers :
                        pc'[v] = "unlink" => queue'[job'[v]].status = "done"
        BY <3>1, <4>1, <4>2, <4>3, <4>4, <4>7 DEF LedgerInv
      <4> QED
        BY <2>1, <4>1, <4>5, <4>6, <4>7 DEF LedgerInv
    <3> QED
      BY <1>8, <2>3, <3>2, <3>3, <2>2 DEF Finish
  <2> QED
    BY <1>8, <2>2, <2>3 DEF Finish
<1>9. ASSUME NEW w \in Workers, Unlink(w) PROVE LedgerInv'
  <2>1. /\ pc[w] = "unlink" /\ job[w] \in Bags /\ mode # "down" /\ UNCHANGED <<mode, queue>>
        /\ Fault \/ NoFault
    BY <1>9, <1>a DEF Unlink
  <2>2. CASE Goto(w, "count") /\ Keep
    BY <2>1, <2>2, SpentOpen, LedgerMove DEF Keep, Stages, Working
  <2>3. CASE Idle(w)
    <3>1. spent["open"] = 0 => queue'[job[w]].status # "uploading"
      BY <2>1 DEF LedgerInv
    <3> QED
      BY <1>a, <2>1, <2>3, <3>1, SpentOpen, LedgerRelease
  <2> QED
    BY <1>9, <2>2, <2>3 DEF Unlink, Raise
<1>10. ASSUME NEW w \in Workers, pc[w] \in Handling, Idle(w), AtRest, UNCHANGED spent,
              NEW row \in Rows, row.status # "uploading",
              queue' = [queue EXCEPT ![job[w]] = row]
       PROVE  LedgerInv'
  <2>1. job[w] \in Bags /\ pc[w] # "idle"
    BY <1>10, <1>a DEF Handling
  <2>2. /\ queue'[job[w]].status # "uploading"
        /\ \A b \in Bags \ {job[w]} : queue'[b] = queue[b]
    BY <1>10, <1>a, <2>1
  <2> QED
    BY <1>10, <1>a, <2>1, <2>2, LedgerRelease DEF AtRest
<1>11. ASSUME NEW w \in Workers, SettleConflict(w) PROVE LedgerInv'
  <2>1. CASE Fault /\ Die(w)
    BY <1>11, <1>a, <1>d, <2>1 DEF SettleConflict
  <2>2. CASE ~(Fault /\ Die(w))
    <3>1. job[w] \in Bags /\ pc[w] \in Handling
      BY <1>11, <1>a DEF SettleConflict, Handling
    <3>2. /\ [queue[job[w]] EXCEPT !.status = "conflict"] \in Rows
          /\ [queue[job[w]] EXCEPT !.status = "conflict"].status # "uploading"
      BY <1>a, <3>1 DEF Rows, Statuses
    <3> QED
      BY <1>10, <1>11, <2>2, <3>1, <3>2 DEF SettleConflict, MarkConflict
  <2> QED
    BY <2>1, <2>2
<1>12. ASSUME NEW w \in Workers, SettleDefer(w) PROVE LedgerInv'
  <2>1. CASE Fault /\ Die(w)
    BY <1>12, <1>a, <1>d, <2>1 DEF SettleDefer
  <2>2. CASE ~(Fault /\ Die(w))
    <3>1. job[w] \in Bags /\ pc[w] \in Handling
      BY <1>12, <1>a DEF SettleDefer, Handling
    <3>2. /\ [queue[job[w]] EXCEPT !.status = "queued", !.due = FALSE] \in Rows
          /\ [queue[job[w]] EXCEPT !.status = "queued", !.due = FALSE].status # "uploading"
      BY <1>a, <3>1 DEF Rows, Statuses
    <3> QED
      BY <1>10, <1>12, <2>2, <3>1, <3>2 DEF SettleDefer, Defer
  <2> QED
    BY <2>1, <2>2
<1>13. ASSUME NEW w \in Workers, ReadRetries(w) PROVE LedgerInv'
  BY <1>13 DEF ReadRetries, AtRest, LedgerInv
<1>14. ASSUME NEW w \in Workers, WriteFailed(w) PROVE LedgerInv'
  <2>1. CASE Fault /\ Die(w)
    BY <1>14, <1>a, <1>d, <2>1 DEF WriteFailed
  <2>2. CASE ~(Fault /\ Die(w))
    <3>1. /\ job[w] \in Bags /\ pc[w] \in Handling
          /\ Idle(w) /\ AtRest /\ UNCHANGED spent
          /\ MarkFailed(job[w], tally[w].retries, IF pc[w] = "fatal" THEN 0 ELSE MaxRetries)
      BY <1>14, <1>a, <2>2 DEF WriteFailed, Handling
    <3>2. /\ queue'[job[w]].status # "uploading"
          /\ \A b \in Bags \ {job[w]} : queue'[b] = queue[b]
      BY <1>a, <3>1 DEF MarkFailed, Rows
    <3> QED
      BY <1>a, <3>1, <3>2, LedgerRelease DEF AtRest, Handling
  <2> QED
    BY <2>1, <2>2
<1>15. ASSUME NEW b \in Bags, Add(b) \/ TimePasses(b) PROVE LedgerInv'
  <2>1. /\ queue[b].status \notin {"uploading", "done"} /\ queue'[b].status = "queued"
        /\ \A a \in Bags \ {b} : queue'[a] = queue[a]
        /\ UNCHANGED <<pc, job, mode, spent>>
    <3>1. CASE Add(b)
      BY <3>1, <1>a DEF Add, Enqueue, AbsentRow, memory
    <3>2. CASE TimePasses(b)
      BY <3>2, <1>a DEF TimePasses, Elapse, Rows, memory
    <3> QED
      BY <1>15, <3>1, <3>2
  <2>2. ASSUME spent["open"] = 0, NEW w \in Workers, job[w] # NoJob
        PROVE  job[w] # b /\ queue'[job[w]] = queue[job[w]]
    <3>1. job[w] \in Bags /\ queue[job[w]].status \in {"uploading", "done"}
      BY <2>2 DEF LedgerInv, TypeOK
    <3> QED
      BY <2>1, <3>1
  <2>3. \A w \in Workers : pc[w] \in Working \cup {"unlink"} => job[w] # NoJob
    BY DEF TypeOK, Working
  <2>4. ASSUME spent["open"] = 0
        PROVE  /\ \A w \in Workers :
                    job[w] # NoJob => queue'[job[w]].status \in {"uploading", "done"}
               /\ \A w \in Workers : pc[w] \in Working => queue'[job[w]].status = "uploading"
               /\ \A w \in Workers : pc[w] = "unlink" => queue'[job[w]].status = "done"
    BY <2>2, <2>3, <2>4 DEF LedgerInv
  <2>5. \A a \in Bags : queue'[a].status = "uploading" => queue[a].status = "uploading"
    BY <2>1
  <2> QED
    BY <2>1, <2>4, <2>5 DEF LedgerInv
<1>16. CASE Stop
  BY <1>16 DEF Stop, Spend, memory, LedgerInv, TypeOK
<1>17. CASE Exit \/ Crash
  <2>1. /\ pc' = [w \in Workers |-> "idle"] /\ job' = [w \in Workers |-> NoJob]
        /\ mode' = "down" /\ UNCHANGED queue
    BY <1>17 DEF Exit, Crash, Forget, FreshMemory
  <2> QED
    BY <2>1 DEF LedgerInv, Working
<1>18. CASE Start
  <2>1. /\ mode = "down" /\ UNCHANGED <<pc, job>>
        /\ \A w \in Workers : pc[w] = "idle" /\ job[w] = NoJob
    BY <1>18 DEF Start, memory, LedgerInv
  <2>2. \A b \in Bags : queue'[b].status # "uploading"
    BY <1>18, <1>a DEF Start, Recovered, Requeued, Rows
  <2> QED
    BY <2>1, <2>2 DEF LedgerInv, Working
<1>19. CASE DashboardOpen
  <2>1. UNCHANGED <<pc, job, mode>> /\ spent' = [spent EXCEPT !["open"] = @ + 1]
    BY <1>19 DEF DashboardOpen, Spend, memory
  <2>2. spent'["open"] = spent["open"] + 1 /\ spent["open"] \in Nat
    BY <2>1 DEF TypeOK
  <2> QED
    BY <2>1, <2>2 DEF LedgerInv
<1>20. ASSUME NEW b \in Bags, Rewrite(b) \/ Vanish(b) PROVE LedgerInv'
  <2>1. UNCHANGED <<pc, job, mode, queue>> /\ spent' = [spent EXCEPT !["tamper"] = @ + 1]
    BY <1>20 DEF Rewrite, Vanish, Spend, memory
  <2>2. spent'["open"] = spent["open"]
    BY <2>1 DEF TypeOK
  <2> QED
    BY <2>1, <2>2 DEF LedgerInv
<1>21. CASE UNCHANGED vars
  BY <1>21 DEF vars, memory, LedgerInv
<1> QED
  BY <1>1, <1>2, <1>3, <1>4, <1>5, <1>6, <1>7, <1>8, <1>9, <1>11, <1>12, <1>13, <1>14,
     <1>15, <1>16, <1>17, <1>18, <1>19, <1>20, <1>21, <1>m
  DEF Next, WorkerStep, Service, Others

\* No bag is ever in the hands of two threads, and none is stranded in uploading
\* while the service runs, however it crashes and restarts, unless another program
\* opens the database (next_ready, _init_db, the handlers of _worker).
THEOREM ClaimsExclusive == Spec => []ClaimLedger
<1>1. LedgerInv => ClaimLedger
  BY DEF LedgerInv, ClaimLedger
<1> QED
  BY <1>1, InitTypeOK, StepTypeOK, InitLedger, StepLedger, PTL DEF Spec

=============================================================================

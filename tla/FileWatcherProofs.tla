-------------------------- MODULE FileWatcherProofs --------------------------
(***************************************************************************)
(* Why a bag that is still open never gets into the queue, for any number  *)
(* of files, any sizes and stability window, and any interleaving of the   *)
(* two unlocked scans with the recorder, faults and restarts, where the    *)
(* recorder's descriptors can be read.                                     *)
(***************************************************************************)
EXTENDS FileWatcher, TLAPS

Busy == {"stat", "judge", "probe", "mark", "call"}

-----------------------------------------------------------------------------
(* Types.                                                                  *)

LEMMA FreshType ==
  /\ Fresh.seen = {} /\ Fresh.track = [f \in Files |-> NoTrack]
  /\ Fresh.pc = [t \in Threads |-> "rest"] /\ Fresh.todo = [t \in Threads |-> {}]
  /\ Fresh.at = [t \in Threads |-> NoFile] /\ Fresh.got = [t \in Threads |-> 0]
<1>1. Fresh.seen = {}
  BY DEF Fresh
<1>2. Fresh.track = [f \in Files |-> NoTrack]
  BY DEF Fresh
<1>3. Fresh.pc = [t \in Threads |-> "rest"]
  BY DEF Fresh
<1>4. Fresh.todo = [t \in Threads |-> {}]
  BY DEF Fresh
<1>5. Fresh.at = [t \in Threads |-> NoFile]
  BY DEF Fresh
<1>6. Fresh.got = [t \in Threads |-> 0]
  BY DEF Fresh
<1> QED
  BY <1>1, <1>2, <1>3, <1>4, <1>5, <1>6

LEMMA SizeFacts == 0 \in Sizes /\ Sizes \subseteq Nat /\ 0 \in 0 .. StableTicks
BY WatcherAssumption DEF Sizes

LEMMA InitType == Init => TypeOK
<1> SUFFICES ASSUME Init PROVE TypeOK
  OBVIOUS
<1> USE FreshType, SizeFacts
<1>1. /\ file \in [Files -> [phase : {"absent", "open", "closed", "gone"}, size : Sizes]]
      /\ event \in BOOLEAN /\ queued \in SUBSET Files /\ mode \in {"running", "down"}
      /\ spent \in [Kinds -> Nat]
  BY DEF Init
<1>2. /\ seen \in SUBSET Files
      /\ track \in [Files -> [size : Sizes, age : 0 .. StableTicks] \cup {NoTrack}]
      /\ todo \in [Threads -> SUBSET Files] /\ at \in [Threads -> Files \cup {NoFile}]
      /\ got \in [Threads -> Sizes]
  BY DEF Init
<1>3. pc = [t \in Threads |-> "rest"]
  BY DEF Init
<1> QED
  BY <1>1, <1>2, <1>3 DEF TypeOK, Stages

\* What a step of a scan may do to the memory of its thread.
LEMMA NextPathType ==
  ASSUME TypeOK, NEW t \in Threads, NextPath(t)
  PROVE  /\ pc' \in [Threads -> Stages] /\ at' \in [Threads -> Files \cup {NoFile}]
         /\ got' \in [Threads -> Sizes] /\ pc'[t] = "look"
         /\ \A u \in Threads : u # t => pc'[u] = pc[u] /\ at'[u] = at[u]
BY SizeFacts DEF TypeOK, NextPath, Goto, Stages

LEMMA GotoType ==
  ASSUME TypeOK, NEW t \in Threads, NEW stage \in Stages, Goto(t, stage)
  PROVE  /\ pc' \in [Threads -> Stages] /\ pc'[t] = stage
         /\ \A u \in Threads : u # t => pc'[u] = pc[u]
BY DEF TypeOK, Goto

LEMMA SpendType ==
  ASSUME TypeOK, NEW k \in Kinds, Spend(k)
  PROVE  spent' \in [Kinds -> Nat]
BY DEF TypeOK, Spend

Entries == [size : Sizes, age : 0 .. StableTicks]

LEMMA StepType ==
  ASSUME TypeOK, [Next]_vars
  PROVE  TypeOK'
<1> USE SizeFacts, WatcherAssumption
<1>t. /\ file \in [Files -> [phase : {"absent", "open", "closed", "gone"}, size : Sizes]]
      /\ event \in BOOLEAN /\ seen \in SUBSET Files
      /\ track \in [Files -> Entries \cup {NoTrack}]
      /\ pc \in [Threads -> Stages] /\ todo \in [Threads -> SUBSET Files]
      /\ at \in [Threads -> Files \cup {NoFile}]
      /\ \A t \in Threads : pc[t] \in Busy => at[t] \in Files
      /\ got \in [Threads -> Sizes] /\ queued \in SUBSET Files
      /\ mode \in {"running", "down"} /\ spent \in [Kinds -> Nat]
  BY DEF TypeOK, Entries, Busy
<1>u. ASSUME file' \in [Files -> [phase : {"absent", "open", "closed", "gone"}, size : Sizes]],
             event' \in BOOLEAN, seen' \in SUBSET Files,
             track' \in [Files -> Entries \cup {NoTrack}],
             pc' \in [Threads -> Stages], todo' \in [Threads -> SUBSET Files],
             at' \in [Threads -> Files \cup {NoFile}],
             \A t \in Threads : pc'[t] \in Busy => at'[t] \in Files,
             got' \in [Threads -> Sizes], queued' \in SUBSET Files,
             mode' \in {"running", "down"}, spent' \in [Kinds -> Nat]
      PROVE  TypeOK'
  BY <1>u DEF TypeOK, Entries, Busy
<1>k. {"fault", "outage", "removal"} \subseteq Kinds
  BY DEF Kinds
<1>s. Busy \cup {"rest", "look", "dead"} = Stages /\ {"rest", "look", "dead"} \cap Busy = {}
  BY DEF Busy, Stages
<1>1. ASSUME NEW t \in Threads, Scan(t) PROVE TypeOK'
  BY <1>1, <1>s, <1>t, <1>u, GotoType DEF Scan, Inside
<1>2. ASSUME NEW t \in Threads, Look(t) PROVE TypeOK'
  <2>1. /\ todo' \in [Threads -> SUBSET Files]
        /\ at' \in [Threads -> Files \cup {NoFile}]
        /\ pc' \in [Threads -> Stages]
        /\ \A u \in Threads : pc'[u] \in Busy => at'[u] \in Files
    <3>1. CASE Goto(t, "rest") /\ UNCHANGED <<todo, at>>
      BY <1>s, <1>t, <3>1, GotoType
    <3>2. CASE \E f \in todo[t] :
                 /\ todo' = [todo EXCEPT ![t] = @ \ {f}]
                 /\ IF Present(f) /\ f \notin seen
                    THEN Goto(t, "stat") /\ at' = [at EXCEPT ![t] = f]
                    ELSE UNCHANGED <<pc, at>>
      <4>1. PICK f \in todo[t] :
              /\ todo' = [todo EXCEPT ![t] = @ \ {f}]
              /\ \/ Goto(t, "stat") /\ at' = [at EXCEPT ![t] = f]
                 \/ UNCHANGED <<pc, at>>
        BY <3>2
      <4>2. f \in Files /\ todo' \in [Threads -> SUBSET Files]
        BY <1>t, <4>1
      <4>3. CASE UNCHANGED <<pc, at>>
        BY <1>t, <4>2, <4>3
      <4>4. CASE Goto(t, "stat") /\ at' = [at EXCEPT ![t] = f]
        BY <1>s, <1>t, <4>2, <4>4, GotoType DEF Busy
      <4> QED
        BY <4>1, <4>3, <4>4
    <3> QED
      BY <1>2, <3>1, <3>2 DEF Look
  <2> QED
    BY <1>2, <1>t, <1>u, <2>1 DEF Look, Inside
<1>3. ASSUME NEW t \in Threads, Stat(t) PROVE TypeOK'
  <2>1. at[t] \in Files
    BY <1>3, <1>t DEF Stat, Busy
  <2>2. CASE UNCHANGED <<track, at, spent>> /\ Goto(t, "judge")
             /\ got' = [got EXCEPT ![t] = file[at[t]].size]
    <3>1. got' \in [Threads -> Sizes]
      BY <1>t, <2>1, <2>2
    <3> QED
      BY <1>3, <1>s, <1>t, <1>u, <2>1, <2>2, <3>1, GotoType DEF Stat, Inside, Busy
  <2>3. CASE NextPath(t) /\ track' = [track EXCEPT ![at[t]] = NoTrack] /\ UNCHANGED spent
    BY <1>3, <1>s, <1>t, <1>u, <2>1, <2>3, NextPathType DEF Stat, Inside
  <2>4. CASE Spend("fault") /\ Goto(t, "dead") /\ UNCHANGED <<track, at, got>>
    BY <1>3, <1>k, <1>s, <1>t, <1>u, <2>4, GotoType, SpendType DEF Stat, Inside
  <2> QED
    BY <1>3, <2>2, <2>3, <2>4 DEF Stat
<1>4. ASSUME NEW t \in Threads, Judge(t) PROVE TypeOK'
  <2>1. at[t] \in Files /\ got[t] \in Sizes
    BY <1>4, <1>t DEF Judge, Busy
  <2>2. [size |-> got[t], age |-> 0] \in Entries
    BY <2>1 DEF Entries
  <2>3. track' \in [Files -> Entries \cup {NoTrack}]
    BY <1>4, <1>t, <2>1, <2>2 DEF Judge
  <2>4. CASE Goto(t, "probe") /\ UNCHANGED <<at, got>>
    BY <1>4, <1>s, <1>t, <1>u, <2>1, <2>3, <2>4, GotoType DEF Judge, Inside, Busy
  <2>5. CASE NextPath(t)
    BY <1>4, <1>s, <1>t, <1>u, <2>3, <2>5, NextPathType DEF Judge, Inside
  <2> QED
    BY <1>4, <2>4, <2>5 DEF Judge
<1>5. ASSUME NEW t \in Threads, Probe(t) PROVE TypeOK'
  <2>1. at[t] \in Files
    BY <1>5, <1>t DEF Probe, Busy
  <2>2. CASE Goto(t, "mark") /\ UNCHANGED <<at, got>>
    BY <1>5, <1>s, <1>t, <1>u, <2>1, <2>2, GotoType DEF Probe, Inside, Busy
  <2>3. CASE NextPath(t)
    BY <1>5, <1>s, <1>t, <1>u, <2>3, NextPathType DEF Probe, Inside
  <2> QED
    BY <1>5, <2>2, <2>3 DEF Probe
<1>6. ASSUME NEW t \in Threads, Mark(t) PROVE TypeOK'
  <2>1. at[t] \in Files
    BY <1>6, <1>t DEF Mark, Busy
  <2> QED
    BY <1>6, <1>s, <1>t, <1>u, <2>1, GotoType DEF Mark, Inside, Busy
<1>7. ASSUME NEW t \in Threads, Call(t) PROVE TypeOK'
  <2>1. at[t] \in Files
    BY <1>7, <1>t DEF Call, Busy
  <2>2. queued' \in SUBSET Files /\ spent' \in [Kinds -> Nat]
    BY <1>7, <1>k, <1>t, <2>1, SpendType DEF Call
  <2> QED
    BY <1>7, <1>s, <1>t, <1>u, <2>2, NextPathType DEF Call, Inside
<1>8. CASE Recorder
  <2>1. PICK f \in Files : Create(f) \/ Write(f) \/ Close(f) \/ Remove(f)
    BY <1>8 DEF Recorder
  <2>2. file[f] \in [phase : {"absent", "open", "closed", "gone"}, size : Sizes]
    BY <1>t
  <2>3. file' \in [Files -> [phase : {"absent", "open", "closed", "gone"}, size : Sizes]]
    <3>1. CASE Create(f) \/ Close(f)
      BY <1>t, <3>1 DEF Create, Close
    <3>2. CASE Write(f)
      <4>1. file[f].size + 1 \in Sizes
        BY <2>2, <3>2 DEF Write, Sizes
      <4> QED
        BY <1>t, <3>2, <4>1 DEF Write
    <3>3. CASE Remove(f)
      BY <1>t, <3>3 DEF Remove
    <3> QED
      BY <2>1, <3>1, <3>2, <3>3
  <2>4. event' \in BOOLEAN /\ spent' \in [Kinds -> Nat] /\ Outside
    BY <1>k, <1>t, <2>1, SpendType DEF Create, Write, Close, Remove
  <2> QED
    BY <1>t, <1>u, <2>3, <2>4 DEF Outside, scanning
<1>9. CASE Tick
  <2>1. ASSUME NEW f \in Files, track[f] # NoTrack, track[f].age < StableTicks
        PROVE  [track[f] EXCEPT !.age = @ + 1] \in Entries
    <3>1. track[f] \in Entries
      BY <1>t, <2>1
    <3> QED
      BY <2>1, <3>1 DEF Entries
  <2>2. track' \in [Files -> Entries \cup {NoTrack}]
    BY <1>9, <1>t, <2>1 DEF Tick
  <2> QED
    BY <1>9, <1>t, <1>u, <2>2 DEF Tick, scanning
<1>10. CASE Crash
  <2>1. /\ seen' = {} /\ track' = [f \in Files |-> NoTrack]
        /\ pc' = [t \in Threads |-> "rest"] /\ todo' = [t \in Threads |-> {}]
        /\ at' = [t \in Threads |-> NoFile] /\ got' = [t \in Threads |-> 0]
    BY <1>10, FreshType DEF Crash
  <2>2. /\ UNCHANGED <<file, queued>> /\ event' = FALSE /\ mode' = "down"
        /\ spent' \in [Kinds -> Nat]
    BY <1>10, <1>k, SpendType DEF Crash
  <2>3. /\ seen' \in SUBSET Files /\ track' \in [Files -> Entries \cup {NoTrack}]
        /\ pc' \in [Threads -> Stages] /\ todo' \in [Threads -> SUBSET Files]
        /\ at' \in [Threads -> Files \cup {NoFile}] /\ got' \in [Threads -> Sizes]
        /\ \A t \in Threads : pc'[t] \notin Busy
    BY <1>s, <2>1
  <2> QED
    BY <1>t, <1>u, <2>2, <2>3
<1>11. CASE Start
  BY <1>11, <1>t, <1>u DEF Start, scanning
<1>12. CASE UNCHANGED vars
  BY <1>12, <1>t, <1>u DEF vars, scanning
<1> QED
  BY <1>1, <1>2, <1>3, <1>4, <1>5, <1>6, <1>7, <1>8, <1>9, <1>10, <1>11, <1>12 DEF Next, Step

\* Neither scan, alone or between two calls of the other, takes an entry of _state, a
\* path or a size out of its type (StabilityTracker.update, watcher.py:60).
THEOREM TypeCorrect == Spec => []TypeOK
BY InitType, StepType, PTL DEF Spec

-----------------------------------------------------------------------------
(* No open bag is queued.                                                  *)

Over == {"closed", "gone"}

\* A thread looks at files that have been created, and past the probe only at files
\* the recorder has done with, because none is opened again.
CompleteInv ==
  /\ \A t \in Threads : pc[t] \in Busy => file[at[t]].phase # "absent"
  /\ \A t \in Threads : pc[t] \in {"mark", "call"} => file[at[t]].phase \in Over
  /\ \A f \in queued : file[f].phase \in Over

LEMMA InitComplete == Init => CompleteInv
BY FreshType DEF Init, CompleteInv, Busy

LEMMA StepComplete ==
  ASSUME Visible, TypeOK, CompleteInv, [Next]_vars
  PROVE  CompleteInv'
<1>t. /\ file \in [Files -> [phase : {"absent", "open", "closed", "gone"}, size : Sizes]]
      /\ \A t \in Threads : pc[t] \in Busy => at[t] \in Files
      /\ pc \in [Threads -> Stages] /\ at \in [Threads -> Files \cup {NoFile}]
      /\ queued \subseteq Files
  BY DEF TypeOK, Busy
<1>f. \A f \in Files : /\ file[f].phase # "absent" => file'[f].phase # "absent"
                       /\ file[f].phase \in Over => file'[f].phase \in Over
  <2>1. CASE Recorder
    <3>1. PICK f \in Files : Create(f) \/ Write(f) \/ Close(f) \/ Remove(f)
      BY <2>1 DEF Recorder
    <3> QED
      BY <1>t, <3>1 DEF Create, Write, Close, Remove, Over
  <2>2. CASE UNCHANGED file
    BY <2>2
  <2> QED
    BY <2>1, <2>2
    DEF Next, Step, Scan, Look, Stat, Judge, Probe, Mark, Call, Inside, Tick, Crash, Start, vars
<1>k. ASSUME NEW t \in Threads, at'[t] = at[t], pc'[t] \in Busy => pc[t] \in Busy,
             pc'[t] \in {"mark", "call"} => pc[t] \in {"mark", "call"}
      PROVE  /\ pc'[t] \in Busy => file'[at'[t]].phase # "absent"
             /\ pc'[t] \in {"mark", "call"} => file'[at'[t]].phase \in Over
  BY <1>f, <1>k, <1>t DEF CompleteInv, Busy
<1>q. queued' = queued => \A f \in queued' : file'[f].phase \in Over
  BY <1>f, <1>t DEF CompleteInv
<1>1. ASSUME NEW t \in Threads, Step(t) PROVE CompleteInv'
  <2>1. ASSUME NEW u \in Threads, u # t
        PROVE  pc'[u] = pc[u] /\ at'[u] = at[u]
    BY <1>1, <1>t, <2>1 DEF Step, Scan, Look, Stat, Judge, Probe, Mark, Call, Goto, NextPath
  <2>2. /\ pc'[t] \in Busy => file'[at'[t]].phase # "absent"
        /\ pc'[t] \in {"mark", "call"} => file'[at'[t]].phase \in Over
    <3>1. CASE NextPath(t)
      BY <1>t, <3>1 DEF NextPath, Goto, Busy
    <3>2. CASE Scan(t)
      BY <1>t, <3>2 DEF Scan, Goto, Busy
    <3>3. CASE Look(t)
      <4>1. UNCHANGED file /\ pc[t] = "look"
        BY <3>3 DEF Look, Inside
      <4>2. \/ pc'[t] \in {"rest", "look"}
            \/ pc'[t] = "stat" /\ Present(at'[t])
        BY <1>t, <3>3 DEF Look, Goto
      <4> QED
        BY <4>1, <4>2 DEF Present, Busy
    <3>4. CASE Stat(t) /\ ~NextPath(t)
      BY <1>k, <1>t, <3>4 DEF Stat, Goto, Busy
    <3>5. CASE Judge(t) /\ ~NextPath(t)
      BY <1>k, <1>t, <3>5 DEF Judge, Goto, Busy
    <3>6. CASE Probe(t) /\ ~NextPath(t)
      <4>1. /\ pc[t] = "probe" /\ pc'[t] = "mark" /\ at'[t] = at[t] /\ UNCHANGED file
            /\ ~IsOpen(at[t])
        BY <1>t, <3>6 DEF Probe, Inside, Goto
      <4>2. at[t] \in Files /\ file[at[t]].phase # "absent" /\ file[at[t]].phase # "open"
        BY <1>t, <4>1 DEF CompleteInv, IsOpen, Busy
      <4> QED
        BY <1>t, <4>1, <4>2 DEF Over
    <3>7. CASE Mark(t)
      BY <1>k, <1>t, <3>7 DEF Mark, Goto, Busy
    <3> QED
      BY <1>1, <3>1, <3>2, <3>3, <3>4, <3>5, <3>6, <3>7 DEF Step, Call
  <2>3. \A f \in queued' : file'[f].phase \in Over
    <3>1. CASE Call(t)
      <4>1. pc[t] = "call" /\ at[t] \in Files /\ queued' \subseteq queued \cup {at[t]}
        BY <1>t, <3>1 DEF Call, Busy
      <4> QED
        BY <1>f, <1>t, <4>1 DEF CompleteInv
    <3>2. CASE ~Call(t)
      BY <1>1, <1>q, <3>2 DEF Step, Scan, Look, Stat, Judge, Probe, Mark
    <3> QED
      BY <3>1, <3>2
  <2>4. \A u \in Threads : /\ pc'[u] \in Busy => file'[at'[u]].phase # "absent"
                           /\ pc'[u] \in {"mark", "call"} => file'[at'[u]].phase \in Over
    BY <1>k, <2>1, <2>2
  <2> QED
    BY <2>3, <2>4 DEF CompleteInv
<1>2. CASE Crash
  BY <1>2, <1>q, FreshType DEF Crash, CompleteInv, Busy
<1>3. CASE Recorder \/ Tick \/ Start \/ UNCHANGED vars
  <2>1. UNCHANGED <<pc, at, queued>>
    BY <1>3 DEF Recorder, Create, Write, Close, Remove, Outside, Tick, Start, vars, scanning
  <2> QED
    BY <1>k, <1>q, <2>1 DEF CompleteInv
<1> QED
  BY <1>1, <1>2, <1>3 DEF Next

\* Where /proc shows who has a file open, no open bag gets into the queue, although the
\* size was read long before and the other thread may have dropped or renewed the entry
\* in between (_scan, watcher.py:122).
THEOREM OnlyComplete == ASSUME Visible PROVE Spec => []QueuedIsComplete
<1>1. Init => TypeOK /\ CompleteInv
  BY InitType, InitComplete
<1>2. TypeOK /\ CompleteInv /\ [Next]_vars => TypeOK' /\ CompleteInv'
  BY StepType, StepComplete
<1>3. CompleteInv => QueuedIsComplete
  BY DEF CompleteInv, QueuedIsComplete, Over
<1> QED
  BY <1>1, <1>2, <1>3, PTL DEF Spec

=============================================================================

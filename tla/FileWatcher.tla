----------------------------- MODULE FileWatcher -----------------------------
(***************************************************************************)
(* How a bag gets into the queue: FileWatcher and StabilityTracker         *)
(* (freefox/watcher.py).  Two threads run the same _scan() without a lock, *)
(* the poller of _run() and the dispatcher of watchdog's observer, while   *)
(* the recorder writes the bags and the service is killed and restarted.   *)
(*                                                                         *)
(* A step of a thread is one read or write of something shared.  A row is  *)
(* known by its local path, which the queue keeps UNIQUE; what happens to  *)
(* it afterwards is UploadPool.                                            *)
(***************************************************************************)
EXTENDS Naturals, FiniteSets

CONSTANTS
  Files,         \* bag files, by local path
  MaxSize,       \* bound on what the recorder writes
  StableTicks,   \* stable_seconds
  Visible,       \* whether the recorder's descriptors can be read under /proc
  NoFile, NoTrack,   \* a thread that looks at no file; a file without an entry
  Limit          \* how many faults, outages and removals a run has

Threads == {"poller", "observer"}
Kinds   == {"fault", "outage", "removal"}

ASSUME WatcherAssumption ==
  /\ NoFile \notin Files
  /\ {MaxSize, StableTicks} \subseteq Nat
  /\ Visible \in BOOLEAN
  /\ Limit \in [Kinds -> Nat]

VARIABLES
  file,    \* of each bag file: what the recorder has done with it, and its size
  event,   \* inotify has something for the observer
  seen,    \* _seen
  track,   \* _state: the last size read of a file and the time since it changed
  pc, todo, at, got,   \* of each thread: next call, paths left, its file, size read
  queued,  \* local paths with a row in the queue
  mode,    \* of the service process
  spent    \* history: faults, outages and removals so far

scanning == <<pc, todo, at, got>>
vars == <<file, event, seen, track, scanning, queued, mode, spent>>

Stages == {"rest", "look", "stat", "judge", "probe", "mark", "call", "dead"}
Sizes  == 0 .. MaxSize

TypeOK ==
  /\ file \in [Files -> [phase : {"absent", "open", "closed", "gone"}, size : Sizes]]
  /\ event \in BOOLEAN
  /\ seen \in SUBSET Files
  /\ track \in [Files -> [size : Sizes, age : 0 .. StableTicks] \cup {NoTrack}]
  /\ pc \in [Threads -> Stages]
  /\ todo \in [Threads -> SUBSET Files]
  /\ at \in [Threads -> Files \cup {NoFile}]
  /\ \A t \in Threads : pc[t] \in {"stat", "judge", "probe", "mark", "call"} => at[t] \in Files
  /\ got \in [Threads -> Sizes]
  /\ queued \in SUBSET Files
  /\ mode \in {"running", "down"}
  /\ spent \in [Kinds -> Nat]

\* The memory of a process that has just been started.
Fresh ==
  [seen |-> {}, track |-> [f \in Files |-> NoTrack],
   pc |-> [t \in Threads |-> "rest"], todo |-> [t \in Threads |-> {}],
   at |-> [t \in Threads |-> NoFile], got |-> [t \in Threads |-> 0]]

Init ==
  /\ file = [f \in Files |-> [phase |-> "absent", size |-> 0]]
  /\ event = FALSE
  /\ seen = Fresh.seen /\ track = Fresh.track
  /\ pc = Fresh.pc /\ todo = Fresh.todo /\ at = Fresh.at /\ got = Fresh.got
  /\ queued = {}
  /\ mode = "running"
  /\ spent = [k \in Kinds |-> 0]

Spend(kind) ==
  /\ spent[kind] < Limit[kind]
  /\ spent' = [spent EXCEPT ![kind] = @ + 1]

Goto(t, stage) == pc' = [pc EXCEPT ![t] = stage]

Present(f) == file[f].phase \in {"open", "closed"}

\* On to the next path of this scan.
NextPath(t) ==
  /\ Goto(t, "look")
  /\ at'  = [at EXCEPT ![t] = NoFile]
  /\ got' = [got EXCEPT ![t] = 0]

-----------------------------------------------------------------------------
(* The recorder and the operator.                                          *)

Outside == UNCHANGED <<seen, track, scanning, queued, mode>>

Create(f) ==
  /\ file[f].phase = "absent"
  /\ file' = [file EXCEPT ![f].phase = "open"]
  /\ event' = TRUE
  /\ UNCHANGED spent /\ Outside

Write(f) ==
  /\ file[f].phase = "open" /\ file[f].size < MaxSize
  /\ file' = [file EXCEPT ![f].size = @ + 1]
  /\ event' = TRUE
  /\ UNCHANGED spent /\ Outside

Close(f) ==
  /\ file[f].phase = "open"
  /\ file' = [file EXCEPT ![f].phase = "closed"]
  /\ UNCHANGED <<event, spent>> /\ Outside

Remove(f) ==
  /\ file[f].phase = "closed"
  /\ Spend("removal")
  /\ file' = [file EXCEPT ![f] = [phase |-> "gone", size |-> 0]]
  /\ UNCHANGED event /\ Outside

\* One unit of the monotonic clock; stable_seconds is StableTicks of them.
Tick ==
  /\ \E f \in Files : track[f] # NoTrack /\ track[f].age < StableTicks
  /\ track' = [f \in Files |->
                 IF track[f] # NoTrack /\ track[f].age < StableTicks
                 THEN [track[f] EXCEPT !.age = @ + 1] ELSE track[f]]
  /\ UNCHANGED <<file, event, seen, scanning, queued, mode, spent>>

-----------------------------------------------------------------------------
(* One scan.                                                               *)

Inside == mode = "running" /\ UNCHANGED <<file, mode>>

\* The poller scans every poll_interval, the observer on each event; events that
\* come while it scans make it scan once more.
Scan(t) ==
  /\ pc[t] = "rest"
  /\ t = "observer" => event
  /\ event' = IF t = "observer" THEN FALSE ELSE event
  /\ todo' = [todo EXCEPT ![t] = {f \in Files : Present(f)}]
  /\ Goto(t, "look")
  /\ UNCHANGED <<seen, track, at, got, queued, spent>> /\ Inside

\* rglob() lists the paths in no order; those seen before are passed over.
Look(t) ==
  /\ pc[t] = "look"
  /\ \/ todo[t] = {} /\ Goto(t, "rest") /\ UNCHANGED <<todo, at>>
     \/ \E f \in todo[t] :
          /\ todo' = [todo EXCEPT ![t] = @ \ {f}]
          /\ IF Present(f) /\ f \notin seen
             THEN Goto(t, "stat") /\ at' = [at EXCEPT ![t] = f]
             ELSE UNCHANGED <<pc, at>>
  /\ UNCHANGED <<event, seen, track, got, queued, spent>> /\ Inside

\* A file that has gone loses its entry; any other error ends the thread, because
\* nothing above update() catches it.
Stat(t) ==
  LET f == at[t]
  IN  /\ pc[t] = "stat"
      /\ \/ /\ Present(f)
            /\ got' = [got EXCEPT ![t] = file[f].size]
            /\ Goto(t, "judge")
            /\ UNCHANGED <<track, at, spent>>
         \/ /\ ~Present(f)
            /\ track' = [track EXCEPT ![f] = NoTrack]
            /\ NextPath(t)
            /\ UNCHANGED spent
         \/ Spend("fault") /\ Goto(t, "dead") /\ UNCHANGED <<track, at, got>>
      /\ UNCHANGED <<event, seen, todo, queued>> /\ Inside

SameSize(t) == track[at[t]] # NoTrack /\ track[at[t]].size = got[t]

\* Mutant of Judge: the time kept is that of the last scan, not of the last change.
JudgeAnew(t) ==
  /\ pc[t] = "judge"
  /\ track' = [track EXCEPT ![at[t]] = [size |-> got[t], age |-> 0]]
  /\ IF SameSize(t) /\ track[at[t]].age = StableTicks
     THEN Goto(t, "probe") /\ UNCHANGED <<at, got>>
     ELSE NextPath(t)
  /\ UNCHANGED <<event, seen, todo, queued, spent>> /\ Inside

\* A size that differs from the last one read starts the wait again.
Judge(t) ==
  /\ pc[t] = "judge"
  /\ track' = IF SameSize(t) THEN track
              ELSE [track EXCEPT ![at[t]] = [size |-> got[t], age |-> 0]]
  /\ IF SameSize(t) /\ track[at[t]].age = StableTicks
     THEN Goto(t, "probe") /\ UNCHANGED <<at, got>>
     ELSE NextPath(t)
  /\ UNCHANGED <<event, seen, todo, queued, spent>> /\ Inside

\* Mutant of IsOpen: stable is good enough.
NeverOpen(f) == FALSE

\* _is_open(): a /proc that cannot be read says nobody has it open.
IsOpen(f) == Visible /\ file[f].phase = "open"

Probe(t) ==
  /\ pc[t] = "probe"
  /\ IF IsOpen(at[t]) THEN NextPath(t) ELSE Goto(t, "mark") /\ UNCHANGED <<at, got>>
  /\ UNCHANGED <<event, seen, track, todo, queued, spent>> /\ Inside

\* Mutant of Mark: forget() keeps an entry without a size.
MarkUnsized(t) ==
  /\ pc[t] = "mark"
  /\ seen' = seen \cup {at[t]}
  /\ track' = [track EXCEPT ![at[t]] = [size |-> NoTrack, age |-> 0]]
  /\ Goto(t, "call")
  /\ UNCHANGED <<event, todo, at, got, queued, spent>> /\ Inside

\* _seen.add() and forget(), before the bag is handed over.
Mark(t) ==
  /\ pc[t] = "mark"
  /\ seen' = seen \cup {at[t]}
  /\ track' = [track EXCEPT ![at[t]] = NoTrack]
  /\ Goto(t, "call")
  /\ UNCHANGED <<event, todo, at, got, queued, spent>> /\ Inside

\* _on_new_bag() adds a row unless the path has one; its errors are only logged.
Call(t) ==
  /\ pc[t] = "call"
  /\ \/ queued' = queued \cup {at[t]} /\ UNCHANGED spent
     \/ Spend("fault") /\ UNCHANGED queued
  /\ NextPath(t)
  /\ UNCHANGED <<event, seen, track, todo>> /\ Inside

Step(t) == Scan(t) \/ Look(t) \/ Stat(t) \/ Judge(t) \/ Probe(t) \/ Mark(t) \/ Call(t)

-----------------------------------------------------------------------------
(* The process.                                                            *)

Crash ==
  /\ mode = "running"
  /\ mode' = "down"
  /\ Spend("outage")
  /\ event' = FALSE
  /\ seen' = Fresh.seen /\ track' = Fresh.track
  /\ pc' = Fresh.pc /\ todo' = Fresh.todo /\ at' = Fresh.at /\ got' = Fresh.got
  /\ UNCHANGED <<file, queued>>

Start ==
  /\ mode = "down"
  /\ mode' = "running"
  /\ event' = FALSE
  /\ UNCHANGED <<file, seen, track, scanning, queued, spent>>

Recorder == \E f \in Files : Create(f) \/ Write(f) \/ Close(f) \/ Remove(f)

Next == (\E t \in Threads : Step(t)) \/ Recorder \/ Tick \/ Crash \/ Start

Spec == Init /\ [][Next]_vars

\* The poller's timer and the clock run, a thread that scans goes on, systemd
\* restarts the service.  Nothing makes the recorder close a bag.
FairSpec ==
  /\ Spec
  /\ \A t \in Threads : WF_vars(Step(t))
  /\ WF_vars(Tick) /\ WF_vars(Start)

-----------------------------------------------------------------------------
(* Properties.                                                             *)

\* A bag gets into the queue only when the recorder has closed it, whichever thread
\* found it stable and whatever was written since it read the size.
QueuedIsComplete == \A f \in queued : file[f].phase # "open"

\* The callback of a bag failed: the watcher passes over it from now on.
Dropped(f) ==
  f \in seen /\ f \notin queued /\ \A t \in Threads : ~(pc[t] = "call" /\ at[t] = f)

\* Every closed bag gets into the queue or is removed, unless its callback failed
\* or the poller has died of an error.
EventuallyQueued ==
  \A f \in Files :
    \/ file[f].phase = "closed" ~> (f \in queued \/ file[f].phase = "gone")
    \/ <>[]Dropped(f)
    \/ <>[](pc["poller"] = "dead")

=============================================================================

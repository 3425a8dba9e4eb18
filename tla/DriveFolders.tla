---------------------------- MODULE DriveFolders ----------------------------
(***************************************************************************)
(* How a path becomes a Drive folder: _resolve_folder_path() and           *)
(* _get_or_create_folder() (freefox/backends/gdrive.py).  The worker       *)
(* threads share one backend object and its _folder_cache, without a lock, *)
(* and hold different key locks; the operator deletes folders on Drive.    *)
(*                                                                         *)
(* UploadPool takes the parent folder of a path for given.  Here each      *)
(* worker has one bag to file and resolves its folders level by level, one *)
(* read or write of something shared at a time, until the call that uses   *)
(* the folder succeeds; a call that raises is made again by the queue.     *)
(***************************************************************************)
EXTENDS Naturals, Sequences, FiniteSets, Functions

CONSTANTS
  Workers,
  PathOf,     \* of each worker's bag: the names of its folders
  Limit       \* how many faults (a restart is one) and removals a run has

Kinds == {"fault", "removal"}

Names == UNION {Range(PathOf[w]) : w \in Workers}

ASSUME FolderAssumption ==
  /\ \A w \in Workers : PathOf[w] \in Seq(Names) /\ Len(PathOf[w]) > 0
  /\ Limit \in [Kinds -> Nat]

VARIABLES
  folder,    \* name and parent of each folder ever created on Drive, by id
  alive,     \* those that have not been deleted
  cache,     \* _folder_cache: from parent and name to id
  walk,      \* of each worker: next call, and the local variables of its call
  place,     \* history: the folder each bag was filed in
  spent      \* history: faults and removals so far

vars == <<folder, alive, cache, walk, place, spent>>

Root   == 0
Ids    == 1 .. Len(folder)
Keys   == (Ids \cup {Root}) \X Names
Empty  == [k \in {} |-> Root]

Stages == {"idle", "check", "read", "pop", "list", "create", "store", "missing",
           "forget", "use", "filed"}

CacheOK(c) == DOMAIN c \subseteq Keys /\ Range(c) \subseteq Ids

TypeOK ==
  /\ \A i \in Ids : folder[i].name \in Names /\ folder[i].parent \in 0 .. i - 1
  /\ alive \in SUBSET Ids
  /\ CacheOK(cache)
  /\ \A w \in Workers :
       /\ walk[w].pc \in Stages
       /\ {walk[w].parent, walk[w].found, place[w]} \subseteq Ids \cup {Root}
       /\ walk[w].depth \in 0 .. Len(PathOf[w])
       /\ walk[w].ignored \subseteq Ids
       /\ walk[w].attempt \in Nat
       /\ CacheOK(walk[w].kept)
  /\ spent \in [Kinds -> Nat]

\* A worker that is not resolving anything.
Resting == [pc |-> "idle", parent |-> Root, depth |-> 0, found |-> Root,
            ignored |-> {}, attempt |-> 0, kept |-> Empty]

Init ==
  /\ folder = <<>> /\ alive = {}
  /\ cache = Empty
  /\ walk = [w \in Workers |-> Resting]
  /\ place = [w \in Workers |-> Root]
  /\ spent = [k \in Kinds |-> 0]

Spend(kind) ==
  /\ spent[kind] < Limit[kind]
  /\ spent' = [spent EXCEPT ![kind] = @ + 1]

At(w, stage) == walk[w].pc = stage
Become(w, r) == walk' = [walk EXCEPT ![w] = r]
Goto(w, stage) == Become(w, [walk[w] EXCEPT !.pc = stage])

\* The exception leaves the backend; the worker counts or defers, and comes back.
Fail(w) == Become(w, Resting)

Drive == <<folder, alive>>

-----------------------------------------------------------------------------
(* _get_or_create_folder() for the next name of the path.                  *)

NextName(w) == PathOf[w][walk[w].depth + 1]

Key(w) == <<walk[w].parent, NextName(w)>>

\* One level down: the folder is the parent of the next name, or the result.
Descend(w, id) ==
  LET depth == walk[w].depth + 1
  IN  Become(w, [walk[w] EXCEPT !.parent = id, !.depth = depth, !.found = Root,
                                !.pc = IF depth = Len(PathOf[w]) THEN "use" ELSE "check"])

Begin(w) ==
  /\ At(w, "idle")
  /\ Become(w, [Resting EXCEPT !.pc = "check", !.attempt = 1])
  /\ UNCHANGED <<Drive, cache, place, spent>>

Check(w) ==
  /\ At(w, "check")
  /\ Goto(w, IF Key(w) \in DOMAIN cache THEN "read" ELSE "list")
  /\ UNCHANGED <<Drive, cache, place, spent>>

\* The entry another thread has dropped meanwhile is a KeyError.
Read(w) ==
  /\ At(w, "read")
  /\ \/ Key(w) \notin DOMAIN cache /\ Fail(w)
     \/ /\ Key(w) \in DOMAIN cache
        /\ IF cache[Key(w)] \in walk[w].ignored THEN Goto(w, "pop")
           ELSE Descend(w, cache[Key(w)])
  /\ UNCHANGED <<Drive, cache, place, spent>>

\* Out with the ignored id, or with what another thread has stored there since.
Pop(w) ==
  /\ At(w, "pop")
  /\ cache' = Restrict(cache, DOMAIN cache \ {Key(w)})
  /\ Goto(w, "list")
  /\ UNCHANGED <<Drive, place, spent>>

Reachable(id) == id \in alive \cup {Root}

\* Mutant of Candidates: the query has lost its name clause.
AnyChild(w) ==
  {id \in alive \ walk[w].ignored : folder[id].parent = walk[w].parent}

Candidates(w) ==
  {id \in alive \ walk[w].ignored :
     folder[id] = [name |-> NextName(w), parent |-> walk[w].parent]}

\* files().list: any of the folders of that name; a parent that is gone is a 404.
List(w) ==
  /\ At(w, "list")
  /\ \/ /\ ~Reachable(walk[w].parent) /\ Goto(w, "missing") /\ UNCHANGED spent
     \/ /\ Reachable(walk[w].parent) /\ UNCHANGED spent
        /\ IF Candidates(w) = {} THEN Goto(w, "create")
           ELSE \E id \in Candidates(w) :
                  Become(w, [walk[w] EXCEPT !.pc = "store", !.found = id])
     \/ Spend("fault") /\ Fail(w)
  /\ UNCHANGED <<Drive, cache, place>>

\* files().create: Drive does not mind a second folder of the same name.
Create(w) ==
  LET id == Len(folder) + 1
      New == /\ folder' = Append(folder, [name |-> NextName(w), parent |-> walk[w].parent])
             /\ alive' = alive \cup {id}
  IN  /\ At(w, "create")
      /\ \/ ~Reachable(walk[w].parent) /\ Goto(w, "missing") /\ UNCHANGED <<Drive, spent>>
         \/ /\ Reachable(walk[w].parent) /\ New /\ UNCHANGED spent
            /\ Become(w, [walk[w] EXCEPT !.pc = "store", !.found = id])
         \/ Spend("fault") /\ Fail(w) /\ UNCHANGED Drive
         \/ Reachable(walk[w].parent) /\ New /\ Spend("fault") /\ Fail(w)
      /\ UNCHANGED <<cache, place>>

\* Mutant of Store: the parent is cached for the folder.
StoreParent(w) ==
  /\ At(w, "store")
  /\ cache' = [k \in DOMAIN cache \cup {Key(w)} |->
                 IF k = Key(w) THEN walk[w].parent ELSE cache[k]]
  /\ Descend(w, walk[w].found)
  /\ UNCHANGED <<Drive, place, spent>>

Store(w) ==
  /\ At(w, "store")
  /\ cache' = [k \in DOMAIN cache \cup {Key(w)} |->
                 IF k = Key(w) THEN walk[w].found ELSE cache[k]]
  /\ Descend(w, walk[w].found)
  /\ UNCHANGED <<Drive, place, spent>>

-----------------------------------------------------------------------------
(* _resolve_folder_path(): the 404 of a parent and the next attempt.       *)

\* range(max(1, len(parts) + 2)), where the parts end with the file name.
Attempts(w) == Len(PathOf[w]) + 3

\* Entries that neither lead to the folder nor start from it.
Unrelated(id) == {k \in DOMAIN cache : cache[k] # id /\ k[1] # id}

\* The path once more from the target folder, or "Impossible de resoudre le
\* chemin Drive".
NextAttempt(w, ignored) ==
  IF walk[w].attempt = Attempts(w) THEN Fail(w)
  ELSE Become(w, [Resting EXCEPT !.pc = "check", !.attempt = walk[w].attempt + 1,
                                 !.ignored = ignored])

\* Mutant of Missing: the path is tried again with the same cache.
TryAgain(w) ==
  /\ At(w, "missing")
  /\ NextAttempt(w, walk[w].ignored)
  /\ UNCHANGED <<Drive, cache, place, spent>>

\* DriveFolderMissing: the id is ignored from now on, and the dict without it is
\* built ...
Missing(w) ==
  LET id == walk[w].parent
  IN  /\ At(w, "missing")
      /\ Become(w, [walk[w] EXCEPT !.pc = "forget", !.ignored = @ \cup {id},
                                   !.kept = Restrict(cache, Unrelated(id))])
      /\ UNCHANGED <<Drive, cache, place, spent>>

\* ... and put in place of the cache, with what others stored in between lost.
Forget(w) ==
  /\ At(w, "forget")
  /\ cache' = walk[w].kept
  /\ NextAttempt(w, walk[w].ignored)
  /\ UNCHANGED <<Drive, place, spent>>

\* The call that needs the folder: find_duplicate(), or the upload session.  Its
\* 404 is an error like any other, which forgets nothing.
Use(w) ==
  /\ At(w, "use")
  /\ \/ /\ Reachable(walk[w].parent)
        /\ place' = [place EXCEPT ![w] = walk[w].parent]
        /\ Become(w, [Resting EXCEPT !.pc = "filed"]) /\ UNCHANGED spent
     \/ ~Reachable(walk[w].parent) /\ Fail(w) /\ UNCHANGED <<place, spent>>
     \/ Spend("fault") /\ Fail(w) /\ UNCHANGED place
  /\ UNCHANGED <<Drive, cache>>

WorkerStep(w) ==
  \/ Begin(w) \/ Check(w) \/ Read(w) \/ Pop(w) \/ List(w) \/ Create(w)
  \/ Store(w) \/ Missing(w) \/ Forget(w) \/ Use(w)

-----------------------------------------------------------------------------
(* The rest.                                                               *)

\* The folders below id, and id itself.
Under(id) ==
  LET inside[c \in Ids \cup {Root}] ==
        c = id \/ (c # Root /\ inside[folder[c].parent])
  IN  {c \in Ids : inside[c]}

\* The operator deletes a folder with all that is in it, but not the target folder.
Remove(id) ==
  /\ id \in alive
  /\ Spend("removal")
  /\ alive' = alive \ Under(id)
  /\ UNCHANGED <<folder, cache, walk, place>>

\* The service is stopped or killed and started again, with an empty cache.
Restart ==
  /\ Spend("fault")
  /\ cache' = Empty
  /\ walk' = [w \in Workers |-> IF At(w, "filed") THEN walk[w] ELSE Resting]
  /\ UNCHANGED <<Drive, place>>

Next ==
  \/ \E w \in Workers : WorkerStep(w)
  \/ \E id \in Ids : Remove(id)
  \/ Restart

Spec == Init /\ [][Next]_vars

\* The threads run, and the queue gives a bag that failed another try.
FairSpec == Spec /\ \A w \in Workers : WF_vars(WorkerStep(w))

-----------------------------------------------------------------------------
(* Properties.                                                             *)

\* The first depth names of a path lead from the target folder to the folder id.
Link(chain, d) == IF d = 0 THEN Root ELSE chain[d]

Leads(tree, path, depth, id) ==
  \E chain \in [1 .. depth -> 1 .. Len(tree)] :
    /\ Link(chain, depth) = id
    /\ \A d \in 1 .. depth :
         tree[chain[d]] = [name |-> path[d], parent |-> Link(chain, d - 1)]

\* A bag is filed in a folder that the names of its path lead to from the target
\* folder, whichever thread created, cached, lost or forgot the folders.
FiledInPath ==
  \A w \in Workers : At(w, "filed") => Leads(folder, PathOf[w], Len(PathOf[w]), place[w])

\* Folders whose children the path goes through, deleted ones included.
OnTheWay(w) ==
  {id \in Ids : \E d \in 1 .. Len(PathOf[w]) - 1 : Leads(folder, PathOf[w], d, id)}

\* Each attempt of a call fails for another deleted folder: no dead id is met twice,
\* although other threads may put it back into the cache.  The call gives up only when
\* that many folders on its way have been deleted.
EachAttemptCounts ==
  \A w \in Workers : At(w, "missing") =>
    walk[w].attempt <= Cardinality(OnTheWay(w) \ alive)

\* A cached folder at the end of a path is deleted: nothing makes anybody forget it.
StaleLeaf(w) ==
  \E k \in DOMAIN cache :
    k[2] = PathOf[w][Len(PathOf[w])] /\ ~Reachable(cache[k])

\* Every bag is filed, unless the folder cached for it has been deleted.
EventuallyFiled ==
  \A w \in Workers : <>(At(w, "filed")) \/ <>[]StaleLeaf(w)

=============================================================================

---------------------------- MODULE MCUploadPool ----------------------------
(***************************************************************************)
(* Small instances of UploadPool.  Each configuration picks where the bags *)
(* are bound and how many faults, outages, openings of the database and    *)
(* tamperings a run may have.                                              *)
(***************************************************************************)
EXTENDS UploadPool, TLC

CONSTANTS c1, c2, c3, w1, w2

MCContents == {c1, c2, c3}
TwoContents == {c1, c2}
\* c1 and c2 cannot be told apart by size; c3 is larger.
MCSizeOf  == [c \in Contents |-> IF c = c3 THEN 2 ELSE 1]

MCBindings == {"old", "new"}
MCStores   == {"here", "there"}
MCPaths    == {"day/a", "day/b"}
MCFolderOf == [p \in Paths |-> "day"]

\* Bags of the same name.
SameName == [b \in 1..NumBags |-> "day/a"]

\* The second of three bags has a name of its own.
OddName == [b \in 1..NumBags |-> IF b = 2 THEN "day/a" ELSE "day/b"]

OneBinding  == [b \in 1..NumBags |-> "new"]
TwoBindings == [b \in 1..NumBags |-> IF b = 1 THEN "old" ELSE "new"]

\* Both bindings name one store, or each its own.
OneStore  == [x \in Bindings |-> "here"]
TwoStores == [x \in Bindings |-> IF x = "old" THEN "here" ELSE "there"]

AllS3    == [s \in Stores |-> "s3"]
AllRsync == [s \in Stores |-> "rsync"]
Migrated == [s \in Stores |-> IF s = "here" THEN "rsync" ELSE "gdrive"]

Bound(f, o, d, t) ==
  [k \in {"fault", "outage", "open", "tamper"} |->
     CASE k = "fault" -> f [] k = "outage" -> o [] k = "open" -> d [] k = "tamper" -> t]
Quiet       == Bound(0, 0, 0, 0)
FaultOutage == Bound(1, 1, 0, 0)
Harsh       == Bound(2, 1, 0, 0)
Shared      == Bound(0, 1, 1, 1)
Opened      == Bound(0, 0, 1, 0)

Threads == {w1, w2}
AnyThread == Permutations(Threads)
=============================================================================

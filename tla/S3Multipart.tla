----------------------------- MODULE S3Multipart -----------------------------
(***************************************************************************)
(* One large bag on its way to one S3 key: S3Backend.upload_entry          *)
(* (freefox/backends/s3.py) between the multipart session at the provider  *)
(* and its checkpoint in the tables s3_multipart_uploads and               *)
(* s3_multipart_parts (freefox/queue.py), across lost answers, expired     *)
(* sessions, crashes, and restarts that may bring another chunk_size.      *)
(*                                                                         *)
(* UploadPool takes all of this as one call.  Here the bag does not        *)
(* change, and the handlers of worker.py settle its row after each attempt *)
(* that ends in an exception: deferred, counted, or failed at once.        *)
(* A part is the slice of the bag it carries, and an ETag identifies the   *)
(* slice: rows and listings hold slices.                                   *)
(***************************************************************************)
EXTENDS Integers, FiniteSets, Functions

CONSTANTS
  Size,        \* of the bag
  Chunks,      \* the values chunk_size has in one start of the service or another
  MinPart,     \* _MIN_PART: 5 MiB
  MaxParts,    \* _MAX_PARTS: 10000
  ListLimit,   \* parts on one page of list_parts: 1000 at AWS
  MaxRetries,  \* max_retries
  Nothing, Foreign,   \* an object that is absent, or that somebody else stored
  NoSession,          \* a multipart session the provider does not have
  Limit        \* how many faults, refusals, outages, expiries and intrusions a run has

Kinds == {"fault", "refusal", "outage", "expiry", "intrusion"}

ASSUME MultipartAssumption ==
  /\ {Size, MinPart, MaxParts, ListLimit, MaxRetries} \subseteq Nat \ {0}
  /\ Chunks \subseteq Nat \ {0} /\ Chunks # {}
  /\ Limit \in [Kinds -> Nat]

-----------------------------------------------------------------------------
(* Parts.                                                                  *)

CeilDiv(a, b) == (a + b - 1) \div b

\* effective_part_size()
EffectivePartSize(size, configured) ==
  LET least == CeilDiv(size, MaxParts)
  IN  CHOOSE m \in {MinPart, configured, least} :
        m >= MinPart /\ m >= configured /\ m >= least

PartSizes == {EffectivePartSize(Size, c) : c \in Chunks}

\* Mutant of Numbers: the division drops the short last part.
WholePartNumbers(ps) == 1 .. (Size \div ps)

Numbers(ps) == 1 .. CeilDiv(Size, ps)
Slice(n, ps) ==
  LET from == (n - 1) * ps
  IN  [from |-> from, length |-> IF ps < Size - from THEN ps ELSE Size - from]

\* The parts of the bag when they are ps long.
Expected(ps) == [n \in Numbers(ps) |-> Slice(n, ps)]

Slices     == UNION {{Slice(n, ps) : n \in Numbers(ps)} : ps \in PartSizes}
AllParts   == UNION {Numbers(ps) : ps \in PartSizes}
PartTables == UNION {[N -> Slices] : N \in SUBSET AllParts}

NoParts == [n \in {} |-> 0]

ASSUME ObjectAssumption == Nothing # Foreign /\ Nothing \notin PartTables /\ Foreign \notin PartTables

\* The bytes of an object made of these parts: number of the part, place in it.
Bytes(table) == {b \in (DOMAIN table) \X (0 .. Size - 1) : b[2] < table[b[1]].length}

\* What ContentLength adds up to.
Total(table) == Cardinality(Bytes(table))

-----------------------------------------------------------------------------
VARIABLES
  object,    \* under the key: Nothing, Foreign, or the parts it was completed from
  held,      \* the session's parts at the provider, or NoSession
  session,   \* whether s3_multipart_uploads has a row for the bag
  parts,     \* its rows of s3_multipart_parts
  chunk,     \* chunk_size of the running service
  pc,        \* of the thread that has the bag, or how its row waits or ended
  retries,   \* of the row
  spent      \* history: faults, refusals, outages, expiries and intrusions so far

vars == <<object, held, session, parts, chunk, pc, retries, spent>>

Stages == {"inspect", "open", "list", "gone", "send", "complete", "ambiguous", "refused", "confirm"}
Ends   == {"done", "conflict"}

TypeOK ==
  /\ object \in PartTables \cup {Nothing, Foreign}
  /\ held \in PartTables \cup {NoSession}
  /\ session \in BOOLEAN
  /\ parts \in PartTables
  /\ chunk \in Chunks
  /\ pc \in Stages \cup Ends \cup {"waiting", "failed", "dead", "down"}
  /\ retries \in Nat
  /\ spent \in [Kinds -> Nat]

Init ==
  /\ object = Nothing
  /\ held = NoSession
  /\ session = FALSE
  /\ parts = NoParts
  /\ chunk \in Chunks
  /\ pc = "waiting"
  /\ retries = 0
  /\ spent = [k \in Kinds |-> 0]

Spend(kind) ==
  /\ spent[kind] < Limit[kind]
  /\ spent' = [spent EXCEPT ![kind] = @ + 1]

Fault   == Spend("fault")
NoFault == UNCHANGED <<retries, spent>>

PartSize == EffectivePartSize(Size, chunk)

\* The metadata are those of the bag on every object FreeFox completes, so the
\* length is all that is left to compare.
Identical == object \notin {Nothing, Foreign} /\ Total(object) = Size

Remote     == <<object, held>>
Checkpoint == <<session, parts>>

-----------------------------------------------------------------------------
(* Ways out of an attempt.                                                 *)

\* defer(), for errors that are typed as transient or read like a network error.
Defer == pc' = "waiting" /\ UNCHANGED retries

\* mark_failed(), for any other exception, and with max_retries=0, for one that is typed as
\* an error of the credentials or the configuration.
Count == /\ retries' = retries + 1
         /\ pc' = IF retries' >= MaxRetries THEN "failed" ELSE "waiting"
Fail  == retries' = retries + 1 /\ pc' = "failed"

\* What _translate() makes of an error, what boto raises, and what sqlite3 raises.
Translated == (Fault /\ Defer) \/ (Spend("refusal") /\ Fail)
Untyped    == Fault /\ (Defer \/ Count)
Locked     == Fault /\ Count

\* Mutant of ClearMultipart: the part rows do not go with the session's row.
ClearSessionOnly == session' = FALSE /\ UNCHANGED parts

\* clear_multipart(): ON DELETE CASCADE takes the part rows along.
ClearMultipart == session' = FALSE /\ parts' = NoParts

\* The worker's mark_done() is still inside the try statement.
Succeed ==
  /\ ClearMultipart
  /\ \/ pc' = "done" /\ NoFault
     \/ Locked

\* InvalidSessionError is a TransientBackendError.  Mutant: the dead session stays in
\* the checkpoint.
KeepSession == UNCHANGED Checkpoint /\ Defer
DropSession == ClearMultipart /\ Defer

-----------------------------------------------------------------------------
(* The attempt, call by call.                                              *)

\* next_ready() claims the row again.
Retry ==
  /\ pc = "waiting"
  /\ pc' = "inspect"
  /\ UNCHANGED <<Remote, Checkpoint, chunk, retries, spent>>

\* The HEAD request, then clear_multipart() or get_multipart().
Inspect ==
  /\ pc = "inspect"
  /\ UNCHANGED <<Remote, chunk>>
  /\ \/ Identical /\ Succeed
     \/ /\ ~Identical /\ object # Nothing
        /\ pc' = "conflict" /\ NoFault /\ UNCHANGED Checkpoint
     \/ /\ object = Nothing
        /\ pc' = (IF session THEN "list" ELSE "open") /\ NoFault /\ UNCHANGED Checkpoint
     \/ (Translated \/ Locked) /\ UNCHANGED Checkpoint

\* create_multipart_upload, then the row.  A session whose answer or row is lost
\* stays at the provider, unknown to anybody.
Open ==
  /\ pc = "open"
  /\ \/ /\ held' = NoParts
        /\ session' = TRUE /\ UNCHANGED parts
        /\ pc' = "list" /\ NoFault
     \/ Untyped /\ UNCHANGED <<held, Checkpoint>>
  /\ UNCHANGED <<object, chunk>>

\* The first page of list_parts: the ListLimit lowest numbers.
Listed ==
  LET lowest == {n \in DOMAIN held :
                   Cardinality({k \in DOMAIN held : k <= n}) <= ListLimit}
  IN  Restrict(held, lowest)

\* A listed part is kept when its number and its size are the expected ones.
Reusable ==
  LET expected == Expected(PartSize)
  IN  Restrict(Listed, {n \in DOMAIN Listed \cap DOMAIN expected :
                          Listed[n].length = expected[n].length})

\* Mutant of List: what is at the provider is not taken over.
ListNothing ==
  /\ pc = "list"
  /\ held # NoSession
  /\ parts' = NoParts
  /\ pc' = "send" /\ NoFault
  /\ UNCHANGED <<Remote, session, chunk>>

\* list_parts and replace_parts().
List ==
  /\ pc = "list"
  /\ UNCHANGED <<Remote, session, chunk>>
  /\ \/ held # NoSession /\ parts' = Reusable /\ pc' = "send" /\ NoFault
     \/ held = NoSession /\ pc' = "gone" /\ NoFault /\ UNCHANGED parts
     \/ (Translated \/ Locked) /\ UNCHANGED parts

\* NoSuchUpload: look at the key before anything is started again.
SessionGone ==
  /\ pc = "gone"
  /\ UNCHANGED <<Remote, chunk>>
  /\ \/ Identical /\ Succeed
     \/ /\ ~Identical /\ object # Nothing
        /\ pc' = "conflict" /\ NoFault /\ UNCHANGED Checkpoint
     \/ object = Nothing /\ DropSession /\ UNCHANGED spent
     \/ (Translated \/ Locked) /\ UNCHANGED Checkpoint

Unsent == DOMAIN Expected(PartSize) \ DOMAIN parts

\* Mutant of Data: the last part is read as if it were as long as the others.
FullData(n) == [from |-> (n - 1) * PartSize, length |-> PartSize]

\* fh.seek() and fh.read(want)
Data(n) == Slice(n, PartSize)

\* upload_part, then upsert_part().  A lost request moves nothing; of a lost
\* answer, or of a row that could not be written, the provider has the part.  The error
\* of a session that has gone is not translated here, and counts.
Send(n) ==
  LET With(table) == [k \in DOMAIN table \cup {n} |-> IF k = n THEN Data(n) ELSE table[k]]
  IN  /\ pc = "send"
      /\ n \in Unsent /\ \A k \in Unsent : n <= k
      /\ \/ /\ held # NoSession
            /\ held' = With(held)
            /\ \/ parts' = With(parts) /\ NoFault /\ UNCHANGED pc
               \/ Untyped /\ UNCHANGED parts
         \/ Untyped /\ UNCHANGED <<held, parts>>
         \/ held = NoSession /\ Count /\ UNCHANGED <<held, parts, spent>>
      /\ UNCHANGED <<object, session, chunk>>

AllSent ==
  /\ pc = "send"
  /\ Unsent = {}
  /\ pc' = "complete"
  /\ UNCHANGED <<Remote, Checkpoint, chunk, retries, spent>>

\* The completion raises an error that _translate() would defer, or one it would not.
Unanswered ==
  /\ UNCHANGED retries
  /\ \/ pc' = "ambiguous" /\ Fault
     \/ pc' = "refused" /\ Spend("refusal")

\* get_parts() and complete_multipart_upload.  The provider replaces whatever is under
\* the key.
Complete ==
  /\ pc = "complete"
  /\ \/ /\ held # NoSession
        /\ object' = parts
        /\ held' = NoSession
        /\ \/ pc' = "confirm" /\ NoFault
           \/ Unanswered
     \/ /\ UNCHANGED Remote
        /\ \/ Unanswered
           \/ held = NoSession /\ pc' = "ambiguous" /\ NoFault
           \/ Locked
  /\ UNCHANGED <<Checkpoint, chunk>>

\* The completion raised: look at the key before giving up.
LookAgain ==
  /\ pc \in {"ambiguous", "refused"}
  /\ \/ Identical /\ pc' = "confirm" /\ NoFault
     \/ /\ ~Identical /\ UNCHANGED spent
        /\ IF pc = "refused" THEN Fail ELSE Defer
     \/ Translated
  /\ UNCHANGED <<Remote, Checkpoint, chunk>>

\* Mutant of Confirm: the answer to the completion is enough.
ConfirmBlind ==
  /\ pc = "confirm"
  /\ Succeed
  /\ UNCHANGED <<Remote, chunk>>

\* One more HEAD request: only what is under the key counts.
Confirm ==
  /\ pc = "confirm"
  /\ UNCHANGED <<Remote, chunk>>
  /\ \/ Identical /\ Succeed
     \/ ~Identical /\ Defer /\ UNCHANGED <<Checkpoint, spent>>
     \/ (Translated \/ Locked) /\ UNCHANGED Checkpoint

-----------------------------------------------------------------------------
(* The process, the provider and other clients of the bucket.              *)

\* A handler cannot write the row: the exception ends the thread, and the row stays
\* uploading until the service is started again.
Die ==
  /\ pc \in Stages
  /\ Fault
  /\ pc' = "dead"
  /\ UNCHANGED <<Remote, Checkpoint, chunk, retries>>

Crash ==
  /\ pc \notin Ends \cup {"failed", "down"}
  /\ Spend("outage")
  /\ pc' = "down"
  /\ UNCHANGED <<Remote, Checkpoint, chunk, retries>>

Restart ==
  /\ pc = "down"
  /\ chunk' \in Chunks
  /\ pc' = "waiting"
  /\ UNCHANGED <<Remote, Checkpoint, retries, spent>>

\* A restart with retry_failed_on_start: requeue_failed() leaves the checkpoint.
Requeue ==
  /\ pc = "failed"
  /\ Spend("outage")
  /\ chunk' \in Chunks
  /\ pc' = "waiting" /\ retries' = 0
  /\ UNCHANGED <<Remote, Checkpoint>>

\* A lifecycle rule or an administrator aborts the session.
Expire ==
  /\ held # NoSession
  /\ Spend("expiry")
  /\ held' = NoSession
  /\ UNCHANGED <<object, Checkpoint, chunk, pc, retries>>

\* Another client stores an object under the key.
Intrude ==
  /\ Spend("intrusion")
  /\ object' = Foreign
  /\ UNCHANGED <<held, Checkpoint, chunk, pc, retries>>

Attempt ==
  \/ Retry \/ Inspect \/ Open \/ List \/ SessionGone
  \/ (\E n \in AllParts : Send(n)) \/ AllSent
  \/ Complete \/ LookAgain \/ Confirm

Next == Attempt \/ Die \/ Crash \/ Restart \/ Requeue \/ Expire \/ Intrude

Spec == Init /\ [][Next]_vars

\* next_ready() hands a queued row out again, and systemd starts the service again.  Nothing
\* makes anybody take up a failed row, or one whose thread has died.
FairSpec == Spec /\ WF_vars(Attempt) /\ WF_vars(Restart)

-----------------------------------------------------------------------------
(* Properties.                                                             *)

\* The parts follow one another from the first byte of the bag to the last.
Whole(table) ==
  LET last == Cardinality(DOMAIN table)
  IN  /\ DOMAIN table = 1 .. last
      /\ table[1].from = 0
      /\ \A n \in 1 .. last - 1 : table[n + 1].from = table[n].from + table[n].length
      /\ table[last].from + table[last].length = Size

\* An object FreeFox completes is the whole bag.  FR-009, FR-012.
ObjectIsWhole == object \notin {Nothing, Foreign} => Whole(object)

\* As long as the provider has the session, the checkpoint never counts a part the
\* session does not hold, whatever was replaced, expired or crashed before.
CheckpointHeld ==
  session /\ held # NoSession =>
    \A n \in DOMAIN parts : n \in DOMAIN held /\ held[n] = parts[n]

\* No part that has reached the session is sent to it again (plan.md:33).
NoRetransmission ==
  [][\A n \in AllParts :
       Send(n) => (held = NoSession \/ n \notin DOMAIN held
                   \/ held[n] # Slice(n, PartSize))]_vars

\* Whatever was lost or expired, the bag is delivered, or somebody else's object is under
\* its key.  It may fail only by a refusal of the provider or by as many faults and expired
\* sessions as it has retries, and be left behind only by a thread that has died.
EventuallyDelivered ==
  \/ <>(pc \in Ends)
  \/ <>[](pc = "failed" /\ (spent["refusal"] > 0 \/ spent["fault"] + spent["expiry"] >= MaxRetries))
  \/ <>[](pc = "dead")

-----------------------------------------------------------------------------
(* What the worker sees of it.                                             *)

StoredObject ==
  CASE object = Nothing -> "nothing"
    [] object = Foreign -> "other"
    [] OTHER            -> IF Whole(object) THEN "bag" ELSE "damaged"

StageOfCall ==
  CASE pc \in {"waiting", "dead", "down"}                  -> "waiting"
    [] pc \in {"open", "list", "gone", "send", "complete"} -> "transfer"
    [] pc \in {"ambiguous", "refused"}                     -> "confirm"
    [] OTHER                                               -> pc

Call == INSTANCE AtomicUpload WITH stored <- StoredObject, stage <- StageOfCall

\* Session, parts, checkpoint, lost answers and restarts together are the three calls
\* that UploadPool takes them for: all or nothing is stored, the bag is never sent over
\* its own earlier upload, and an attempt ends well only when the whole bag is there.
UploadIsAtomic == Call!Spec

=============================================================================

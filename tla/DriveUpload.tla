----------------------------- MODULE DriveUpload -----------------------------
(***************************************************************************)
(* One bag and its resumable upload session on Google Drive:               *)
(* GoogleDriveBackend.find_duplicate() and upload() (backends/gdrive.py)   *)
(* as _worker() calls them, with the session URI that the queue keeps for  *)
(* the next attempt, possibly of a process with another configuration.     *)
(*                                                                         *)
(* Drive knows sessions; the bytes of one are those of the bag up to an    *)
(* offset, and the last byte makes it a file of the bag's folder.  Which   *)
(* folder that is, is the subject of DriveFolders; what several threads do *)
(* to one row, of UploadPool, where all that follows is one transfer step. *)
(***************************************************************************)
EXTENDS Naturals, Sequences, FiniteSets

CONSTANTS
  Size,         \* of the bag, in units of the model
  Chunks,       \* the values upload.chunk_size takes from one start to the next
  MaxRetries,   \* upload.max_retries
  Limit         \* how many faults, outages and expiries a run has

Hazards == {"fault", "outage", "expiry"}

ASSUME DriveAssumption ==
  /\ {Size, MaxRetries} \subseteq Nat \ {0}
  /\ Chunks \subseteq Nat \ {0} /\ Chunks # {}
  /\ Limit \in [Hazards -> Nat]

VARIABLES
  row,        \* of the queue: status, retries, digest known, session ("" is 0)
  sessions,   \* on Drive, in the order they were started
  config,     \* of the running process: verify_blake3, deduplicate_by_hash, chunk_size
  pc, uri, uploaded,   \* of upload(): next call, session_uri, offset
  careful,    \* history: every process so far verified and deduplicated
  forgotten,  \* history: the queue has dropped a session URI
  spent       \* history: faults, outages and expiries so far

process == <<pc, uri, uploaded>>
history == <<careful, forgotten>>
vars    == <<row, sessions, config, process, history, spent>>

NoSession == 0
Ids       == DOMAIN sessions

Configs  == [verify : BOOLEAN, dedup : BOOLEAN, chunk : Chunks]
Sessions == [got : 0..Size, labelled : BOOLEAN, alive : BOOLEAN]

\* A session that has all bytes is a file; it stays one when the session expires.
Files    == {s \in Ids : sessions[s].got = Size}
Open(s)  == sessions[s].alive /\ sessions[s].got < Size
Known(s) == sessions[s].alive /\ sessions[s].got = Size

TypeOK ==
  /\ row \in [status : {"queued", "uploading", "done", "failed"}, retries : 0..MaxRetries,
              digest : BOOLEAN, session : Ids \cup {NoSession}]
  /\ sessions \in Seq(Sessions)
  /\ config \in Configs
  /\ pc \in {"down", "idle", "inspect", "open", "remember", "put", "complete", "label", "finish"}
  /\ uri \in Ids \cup {NoSession}
  /\ pc \in {"remember", "put", "complete", "label"} => uri \in Ids
  /\ uploaded \in 0..Size
  /\ {careful, forgotten} \subseteq BOOLEAN
  /\ spent \in [Hazards -> Nat]

Init ==
  /\ row = [status |-> "queued", retries |-> 0, digest |-> FALSE, session |-> NoSession]
  /\ sessions = <<>>
  /\ config \in Configs
  /\ pc = "idle" /\ uri = NoSession /\ uploaded = 0
  /\ careful = (config.verify /\ config.dedup)
  /\ forgotten = FALSE
  /\ spent = [h \in Hazards |-> 0]

-----------------------------------------------------------------------------
(* Ways out of an attempt.                                                 *)

Spend(h) == spent[h] < Limit[h] /\ spent' = [spent EXCEPT ![h] = @ + 1]
Fault    == Spend("fault")
NoFault  == UNCHANGED spent

Goto(stage) == pc' = stage /\ UNCHANGED <<uri, uploaded>>
Rest        == pc' = "idle" /\ uri' = NoSession /\ uploaded' = 0

\* defer(), for what reads like a network error, and mark_failed(), for the rest.
Defer == row' = [row EXCEPT !.status = "queued"] /\ Rest
Count ==
  /\ row' = [row EXCEPT !.retries = @ + 1,
                        !.status = IF row.retries + 1 >= MaxRetries THEN "failed" ELSE "queued"]
  /\ Rest
Raise == Defer \/ Count

\* session_callback("") comes before the error is raised.  Mutant: it does not.
CountOnly == Count /\ UNCHANGED forgotten
Expired ==
  /\ row' = [row EXCEPT !.session = NoSession, !.retries = @ + 1,
                        !.status = IF row.retries + 1 >= MaxRetries THEN "failed" ELSE "queued"]
  /\ Rest
  /\ forgotten' = TRUE

Quiet == UNCHANGED <<config, careful>>

-----------------------------------------------------------------------------
(* _worker() up to the upload.                                             *)

\* The row is claimed and, when asked for, hashed; the URI it carries is kept.
Claim ==
  /\ pc = "idle" /\ row.status = "queued"
  /\ row' = [row EXCEPT !.status = "uploading", !.digest = @ \/ config.verify]
  /\ pc' = "inspect" /\ uri' = row.session /\ UNCHANGED uploaded
  /\ UNCHANGED <<sessions, forgotten, spent>> /\ Quiet

\* Mutant of Duplicate: a verified bag is not looked up.
NoDuplicate == ~row.digest /\ Files # {}

\* find_duplicate() goes by the label, exists() by the name.
Duplicate ==
  IF row.digest THEN config.dedup /\ \E s \in Files : sessions[s].labelled
                ELSE Files # {}

Inspect ==
  /\ pc = "inspect"
  /\ \/ Goto(IF Duplicate THEN "finish" ELSE "open") /\ NoFault /\ UNCHANGED row
     \/ (row.digest => config.dedup) /\ Fault /\ Raise
  /\ UNCHANGED <<sessions, forgotten>> /\ Quiet

-----------------------------------------------------------------------------
(* upload(): opening a session.                                            *)

\* Mutant of UploadedFromRange: the end of the range is taken for the count.
RangeEnd(got) == IF got = 0 THEN 0 ELSE got - 1
\* The Range header is "bytes=0-n" with n + 1 bytes there, and is missing without any.
UploadedFromRange(got) == got

\* _query_resumable_session() with the URI of an earlier attempt.
Resume ==
  /\ pc = "open" /\ uri # NoSession
  /\ \/ /\ sessions[uri].alive
        /\ uploaded' = UploadedFromRange(sessions[uri].got)
        /\ pc' = IF Known(uri) THEN "complete" ELSE "put"
        /\ NoFault /\ UNCHANGED <<row, uri, forgotten>>
     \/ ~sessions[uri].alive /\ Expired /\ NoFault
     \/ Fault /\ Raise /\ UNCHANGED forgotten
  /\ UNCHANGED sessions /\ Quiet

\* Mutant of Started: the session is started without the digest.
Unlabelled == Append(sessions, [got |-> 0, labelled |-> FALSE, alive |-> TRUE])
Started    == Append(sessions, [got |-> 0, labelled |-> row.digest, alive |-> TRUE])

\* _start_resumable_session(): the digest goes with the request.  If the answer is
\* lost, so is the session.
Post ==
  /\ pc = "open" /\ uri = NoSession
  /\ \/ /\ sessions' = Started
        /\ pc' = "remember" /\ uri' = Len(sessions') /\ UNCHANGED <<row, uploaded>>
        /\ NoFault
     \/ Fault /\ Raise /\ (UNCHANGED sessions \/ sessions' = Started)
  /\ UNCHANGED forgotten /\ Quiet

\* session_callback(session_uri): mark_upload_session(), which may find the
\* database locked.
Remember ==
  /\ pc = "remember"
  /\ \/ row' = [row EXCEPT !.session = uri] /\ Goto("put") /\ NoFault
     \/ Fault /\ Count
  /\ UNCHANGED <<sessions, forgotten>> /\ Quiet

-----------------------------------------------------------------------------
(* upload(): the chunks.                                                   *)

\* Mutant of ChunkEnd: the last chunk is taken to be as long as the others.
ChunkEndUncut == uploaded + config.chunk
ChunkEnd == IF uploaded + config.chunk < Size THEN uploaded + config.chunk ELSE Size

\* Drive keeps what extends its bytes, or only a first part of it.
Accepted ==
  IF uploaded <= sessions[uri].got THEN sessions[uri].got..ChunkEnd ELSE {sessions[uri].got}

\* One PUT.  308 says how far Drive got and the loop goes on, 200 that the file is
\* there, 404 that the session is gone; a lost answer or a 5xx ends the attempt,
\* with or without the bytes stored.  A 308 that reports no progress changes nothing.
Put ==
  /\ pc = "put"
  /\ \/ /\ Open(uri)
        /\ \E n \in Accepted :
             /\ sessions' = [sessions EXCEPT ![uri].got = n]
             /\ \/ /\ uploaded' = UploadedFromRange(n)
                   /\ pc' = IF n = Size THEN "label" ELSE "put"
                   /\ NoFault /\ UNCHANGED <<row, uri>>
                \/ Fault /\ Raise
        /\ UNCHANGED forgotten
     \/ ~Open(uri) /\ Expired /\ NoFault /\ UNCHANGED sessions
  /\ Quiet

\* Mutant of Complete: a session that was complete already is not asked for its label.
CompleteDone ==
  /\ pc = "complete"
  /\ \/ Known(uri) /\ Goto("finish") /\ NoFault /\ UNCHANGED row
     \/ ~Known(uri) /\ Count /\ NoFault
     \/ Fault /\ Raise
  /\ UNCHANGED <<sessions, forgotten>> /\ Quiet

\* _query_completed_session(), when the query said that all bytes are there.  Its
\* 404 does not clear the URI: the next attempt's query does.
Complete ==
  /\ pc = "complete"
  /\ \/ Known(uri) /\ Goto("label") /\ NoFault /\ UNCHANGED row
     \/ ~Known(uri) /\ Count /\ NoFault
     \/ Fault /\ Raise
  /\ UNCHANGED <<sessions, forgotten>> /\ Quiet

\* Mutant of Label: the label of the file is not looked at.
LabelTrusted ==
  /\ pc = "label" /\ Goto("finish") /\ NoFault
  /\ UNCHANGED <<row, sessions, forgotten>> /\ Quiet

\* _ensure_uploaded_metadata(): a file of an unlabelled session is labelled now.
Label ==
  /\ pc = "label"
  /\ LET labelled == [sessions EXCEPT ![uri].labelled = row.digest \/ @]
     IN  \/ sessions' = labelled /\ Goto("finish") /\ NoFault /\ UNCHANGED row
         \/ row.digest /\ Fault /\ Raise /\ sessions' \in {sessions, labelled}
  /\ UNCHANGED forgotten /\ Quiet

Finish ==
  /\ pc = "finish"
  /\ \/ row' = [row EXCEPT !.status = "done"] /\ Rest /\ NoFault
     \/ Fault /\ Count
  /\ UNCHANGED <<sessions, forgotten>> /\ Quiet

Upload == Claim \/ Inspect \/ Resume \/ Post \/ Remember \/ Put \/ Complete \/ Label \/ Finish

-----------------------------------------------------------------------------
(* Drive, and the process.                                                 *)

Expire(s) ==
  /\ sessions[s].alive
  /\ Spend("expiry")
  /\ sessions' = [sessions EXCEPT ![s].alive = FALSE]
  /\ UNCHANGED <<row, config, process, history>>

Stop ==
  /\ pc # "down"
  /\ Spend("outage")
  /\ pc' = "down" /\ uri' = NoSession /\ uploaded' = 0
  /\ UNCHANGED <<row, sessions, config, history>>

\* _init_db() and, when asked for, requeue_failed(), under the configuration as it is
\* by now.
Start ==
  /\ pc = "down"
  /\ config' \in Configs
  /\ careful' = (careful /\ config'.verify /\ config'.dedup)
  /\ \/ row.status = "failed"
        /\ row' = [row EXCEPT !.status = "queued", !.retries = 0, !.session = NoSession]
        /\ forgotten' = TRUE
     \/ /\ row' = [row EXCEPT !.status = IF @ = "uploading" THEN "queued" ELSE @]
        /\ UNCHANGED forgotten
  /\ Rest
  /\ UNCHANGED <<sessions, spent>>

Next == Upload \/ Stop \/ Start \/ \E s \in Ids : Expire(s)

Spec == Init /\ [][Next]_vars

\* The thread runs, systemd restarts the service, and Drive does not answer the same
\* chunk without progress for ever (that answer is a stuttering step of Put).
FairSpec == Spec /\ WF_vars(Upload) /\ WF_vars(Start)

-----------------------------------------------------------------------------
(* Safety.                                                                 *)

\* A bag that is done is a whole file on Drive, which bears the digest the row
\* carries, also when its session was started by a process that did not verify.
DoneIsFiled ==
  row.status = "done" => \E s \in Files : row.digest => sessions[s].labelled

\* At most one file carries the bag, as long as the queue remembers its session or
\* every process has verified and deduplicated: a retry finishes what is there.
OneFile == careful \/ ~forgotten => Cardinality(Files) <= 1

\* The next chunk starts at the first byte Drive does not have: none is sent again
\* and none is left out, whatever was lost, interrupted or reconfigured before.
ResumesExactly == pc = "put" => uploaded = sessions[uri].got

-----------------------------------------------------------------------------
(* What the worker sees of it.                                             *)

FiledLabels == {sessions[s].labelled : s \in Files}

StageOfCall ==
  CASE pc \in {"inspect", "finish"}                       -> pc
    [] pc \in {"open", "remember", "put", "complete"}     -> "transfer"
    [] pc = "label"                                       -> "confirm"
    [] OTHER -> IF row.status \in {"done", "failed"} THEN row.status ELSE "waiting"

Call == INSTANCE AtomicFiling WITH filed <- FiledLabels, digest <- row.digest, stage <- StageOfCall

\* Sessions, queries, chunks, lost answers and changes of configuration together are the
\* calls that UploadPool takes them for: a file appears whole or not at all, none is sent
\* blindly beside another, and an attempt ends well only with a file that has its label.
FilingIsAtomic == Call!Spec

-----------------------------------------------------------------------------
(* Liveness.                                                               *)

\* The bag is delivered, unless it really met as many faults as it may fail.  A
\* session that has expired costs one attempt, or two if it expires between the two
\* queries for a file that is complete (gdrive.py:295, 361).
EventuallyFiled ==
  \/ <>[](row.status = "done")
  \/ <>[](row.status = "failed" /\ spent["fault"] + 2 * spent["expiry"] >= MaxRetries)

=============================================================================

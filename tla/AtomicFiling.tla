---------------------------- MODULE AtomicFiling -----------------------------
(***************************************************************************)
(* What a resumable upload to Google Drive promises the worker about one   *)
(* bag: an attempt looks for the bag, makes one file of it in one step,    *)
(* labels that file and ends.  The steps are those UploadPool makes of it  *)
(* (LegacyInspect, DriveTransfer, Confirm, Finish), and the attempt may    *)
(* end without a result at each.  No bag is ever filed in part; without a  *)
(* digest none is sent while a file of its name is there; and the row is   *)
(* done only when a file is there that bears the digest the row has.       *)
(***************************************************************************)
VARIABLES
  filed,    \* the labels of the bag's files: whether each bears the digest
  digest,   \* whether the row has one
  stage     \* "waiting", "inspect", "transfer", "confirm", "finish", "done", "failed"

Init == filed = {} /\ digest = FALSE /\ stage = "waiting"

Go(from, to) == stage = from /\ stage' = to

\* The next attempt hashes the bag, or does not.
Retry == Go("waiting", "inspect") /\ digest' \in {digest, TRUE} /\ UNCHANGED filed

Found == IF digest THEN TRUE \in filed ELSE filed # {}

Known == Found /\ Go("inspect", "finish") /\ UNCHANGED <<filed, digest>>

\* A process that does not deduplicate sends a verified bag without looking.
Missing == (Found => digest) /\ Go("inspect", "transfer") /\ UNCHANGED <<filed, digest>>

\* One more file of the bag, or the one of a session that was complete already.  Its label
\* is older than the digest when another process started the session.
MakeFile == \E label \in {FALSE, digest} : filed' = filed \cup {label}

Transfer == Go("transfer", "confirm") /\ MakeFile /\ UNCHANGED digest

\* One file gets its label, and others may lack theirs.
SetLabel ==
  IF digest THEN filed # {} /\ filed' \in {filed \cup {TRUE}, {TRUE}} ELSE UNCHANGED filed

Label == Go("confirm", "finish") /\ SetLabel /\ UNCHANGED digest

Finish == Found /\ Go("finish", "done") /\ UNCHANGED <<filed, digest>>

\* The answer is lost, with or without what was asked for.
GiveUp ==
  /\ stage \in {"inspect", "transfer", "confirm", "finish"}
  /\ stage' \in {"waiting", "failed"}
  /\ \/ UNCHANGED filed
     \/ stage = "transfer" /\ MakeFile
     \/ stage = "confirm" /\ SetLabel
  /\ UNCHANGED digest

\* requeue_failed()
Requeue == Go("failed", "waiting") /\ UNCHANGED <<filed, digest>>

Next == Retry \/ Known \/ Missing \/ Transfer \/ Label \/ Finish \/ GiveUp \/ Requeue

Spec == Init /\ [][Next]_<<filed, digest, stage>>

=============================================================================

---------------------------- MODULE AtomicUpload -----------------------------
(***************************************************************************)
(* What upload_entry() promises the worker about one key of the bucket: an *)
(* attempt looks, moves the bag in one step if nothing was there, looks    *)
(* again and ends.  The steps are those UploadPool makes of it (S3Inspect, *)
(* S3Transfer, Confirm), and the attempt may end without a result at each. *)
(* The bag is either stored as a whole or not at all, it is never sent     *)
(* over its own earlier upload, and the worker is told "done" of a bag     *)
(* that is stored and "conflict" of another object, never the reverse.     *)
(***************************************************************************)
VARIABLES
  stored,   \* under the key: "nothing", the "bag", or an "other" object
  stage     \* of the attempt: "waiting", "inspect", "transfer", "confirm", "done", "conflict", "failed"

Init == stored = "nothing" /\ stage = "waiting"

Go(from, to) == stage = from /\ stage' = to

Retry == Go("waiting", "inspect") /\ UNCHANGED stored

Inspect ==
  /\ UNCHANGED stored
  /\ \/ stored = "nothing" /\ Go("inspect", "transfer")
     \/ stored = "bag" /\ Go("inspect", "done")
     \/ stored = "other" /\ Go("inspect", "conflict")

\* The completion replaces what another client has put there meanwhile.
Transfer == stored # "bag" /\ Go("transfer", "confirm") /\ stored' = "bag"

\* The completion has failed, and nobody knows it yet.
Doubt == stored # "bag" /\ Go("transfer", "confirm") /\ UNCHANGED stored

\* The session has gone, and the object of another client explains why.
Yield == stored = "other" /\ Go("transfer", "conflict") /\ UNCHANGED stored

Confirm == stored = "bag" /\ Go("confirm", "done") /\ UNCHANGED stored

\* An exception, or the end of the thread or of the process.
GiveUp ==
  /\ \E from \in {"inspect", "transfer", "confirm"}, to \in {"waiting", "failed"} : Go(from, to)
  /\ UNCHANGED stored

\* requeue_failed()
Requeue == Go("failed", "waiting") /\ UNCHANGED stored

\* Another client of the bucket, at any time.
Intrude == stored' = "other" /\ UNCHANGED stage

Next == Retry \/ Inspect \/ Transfer \/ Doubt \/ Yield \/ Confirm \/ GiveUp \/ Requeue \/ Intrude

Spec == Init /\ [][Next]_<<stored, stage>>

=============================================================================

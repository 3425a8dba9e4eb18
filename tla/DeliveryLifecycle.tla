-------------------------- MODULE DeliveryLifecycle --------------------------
(***************************************************************************)
(* What the queue promises of each bag, whatever the threads, backends and *)
(* restarts do: the status diagram of specs/001-add-s3-storage/data-model  *)
(* ("Upload Item transitions"), with the one exit from "done" that the     *)
(* diagram does not have and the code does: mark_done() comes before       *)
(* unlink() in one try statement (freefox/worker.py:51-52), so that a      *)
(* local file that cannot be deleted makes a failure of a bag that is      *)
(* delivered.  That failure is counted at most once per delivery, and is   *)
(* the only thing that opens a finished row again.                         *)
(***************************************************************************)
CONSTANTS Bags, RetryFailed, DeleteAfter

VARIABLES
  status,
  deletion   \* of the local file of a bag that is done: "none", "due", or "failed"

vars == <<status, deletion>>

Init ==
  /\ status = [b \in Bags |-> "absent"]
  /\ deletion = [b \in Bags |-> "none"]

Row(b, from, to) ==
  /\ status[b] = from
  /\ status' = [status EXCEPT ![b] = to]

File(b, from, to) ==
  /\ deletion[b] = from
  /\ deletion' = [deletion EXCEPT ![b] = to]

Move(b, from, to) == Row(b, from, to) /\ UNCHANGED deletion

Arrive(b) == Move(b, "absent", "queued")
Claim(b)  == Move(b, "queued", "uploading")
Return(b) == Move(b, "uploading", "queued")
Refuse(b) == Move(b, "uploading", "conflict")
Fail(b)   == Move(b, "uploading", "failed")

\* A duplicate that was already at the destination keeps its local file.
Deliver(b) ==
  /\ Row(b, "uploading", "done")
  /\ UNCHANGED deletion \/ (DeleteAfter /\ File(b, "none", "due"))

Delete(b)   == File(b, "due", "none") /\ UNCHANGED status
Withhold(b) == File(b, "due", "failed") /\ UNCHANGED status

\* The failed deletion is counted, against a row that is done.
Reopen(b) ==
  /\ File(b, "failed", "none")
  /\ Row(b, "done", "queued") \/ Row(b, "done", "failed")

\* It could not be written down.
Overlook(b) == File(b, "failed", "none") /\ UNCHANGED status

\* The process ends, and what it was about to delete or to count is forgotten.
Halt == deletion' = [b \in Bags |-> "none"] /\ UNCHANGED status

\* A restart requeues what was interrupted and, by configuration, what had failed.
Restart ==
  /\ status' = [b \in Bags |->
                  IF status[b] = "uploading" \/ (RetryFailed /\ status[b] = "failed")
                  THEN "queued" ELSE status[b]]
  /\ UNCHANGED deletion

Next ==
  \/ \E b \in Bags :
       \/ Arrive(b) \/ Claim(b) \/ Return(b) \/ Refuse(b) \/ Fail(b)
       \/ Deliver(b) \/ Delete(b) \/ Withhold(b) \/ Reopen(b) \/ Overlook(b)
  \/ Halt
  \/ Restart

Spec == Init /\ [][Next]_vars

=============================================================================

---------------------------- MODULE MCS3Multipart ----------------------------
(* S3Multipart with the counts of faults, refusals, outages, expiries and    *)
(* intrusions a run has.                                                     *)
EXTENDS S3Multipart

Counts(fault, refusal, outage, expiry, intrusion) ==
  [fault |-> fault, refusal |-> refusal, outage |-> outage, expiry |-> expiry,
   intrusion |-> intrusion]

Harsh     == Counts(2, 1, 2, 2, 1)
OneOutage == Counts(0, 0, 1, 0, 0)

=============================================================================

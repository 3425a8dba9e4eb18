---------------------------- MODULE MCDriveUpload ----------------------------
(* DriveUpload for a bag of three units, sent by one or by two.              *)
EXTENDS DriveUpload

Counts(fault, outage, expiry) == [fault |-> fault, outage |-> outage, expiry |-> expiry]

Harsh == Counts(2, 2, 1)

=============================================================================

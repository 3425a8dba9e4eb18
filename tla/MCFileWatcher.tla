---------------------------- MODULE MCFileWatcher ----------------------------
(* FileWatcher with the counts of faults, outages and removals a run has.    *)
EXTENDS FileWatcher

Counts(fault, outage, removal) ==
  [fault |-> fault, outage |-> outage, removal |-> removal]

Harsh == Counts(2, 1, 1)
Quiet == Counts(0, 0, 0)

=============================================================================

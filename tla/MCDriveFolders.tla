--------------------------- MODULE MCDriveFolders ---------------------------
(* DriveFolders with the bags of a recording that runs past midnight: their  *)
(* folders are robot/day for two days.                                       *)
EXTENDS DriveFolders

MCWorkers == {1, 2}

TwoDays == [w \in MCWorkers |-> <<"fox", IF w = 1 THEN "monday" ELSE "tuesday">>]

Counts(fault, removal) == [fault |-> fault, removal |-> removal]

Harsh == Counts(1, 1)

=============================================================================

--------------------------- MODULE MCSystemStart ----------------------------
(***************************************************************************)
(* An instance of SystemStart for TLC: one system of each series and one   *)
(* of neither.                                                             *)
(***************************************************************************)
EXTENDS SystemStart

TenOnly    == {"50001000"}
ElevenOnly == {"60001000"}
SomeOther  == {"70001000"}
Upgrade    == [im \in TenOnly |-> "60001000"]
AllFaults  == FaultNames

(* What fails in the run that shows the loop of reboots.                   *)
SetenvFails == {"setenv"}
=============================================================================

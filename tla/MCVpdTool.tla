----------------------------- MODULE MCVpdTool ------------------------------
(***************************************************************************)
(* Instances of VpdTool, and with it of BiosSync, for TLC.                 *)
(***************************************************************************)
EXTENDS VpdTool

AllKeywords == KeywordName
OneBit      == {"pvm_keep_and_clear"}
SomeFco     == {0, 1, 256}
AllFaults   == FaultNames
=============================================================================

--------------------------- MODULE MCFruCollection ---------------------------
(***************************************************************************)
(* Instances of FruCollection for TLC.                                     *)
(***************************************************************************)
EXTENDS FruCollection

CONSTANTS f1, f2

OneFru  == {f1}
TwoFrus == {f1, f2}
None    == {}

(* What the environment may do.                                            *)
CallsFail     == {"pim", "thread", "restart"}
ChassisOnOff  == {"chassis"}
=============================================================================

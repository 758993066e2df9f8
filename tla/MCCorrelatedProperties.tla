----------------------- MODULE MCCorrelatedProperties -----------------------
(***************************************************************************)
(* Instances of CorrelatedProperties for TLC.                              *)
(***************************************************************************)
EXTENDS CorrelatedProperties, TLC

CONSTANT error

TwoHolders == {"system", "chassis"}
FourTexts  == {"a", "b", "0x61", "0x"}
Decoded    == ("a" :> "a") @@ ("b" :> "b") @@ ("0x61" :> "a") @@ ("0x" :> error)
AllFaults  == FaultNames
=============================================================================

-------------------------- MODULE MCFruMaintenance --------------------------
(***************************************************************************)
(* Instances of FruMaintenance for TLC.                                    *)
(***************************************************************************)
EXTENDS FruMaintenance, TLC

CONSTANTS a, b, none

TwoParts     == {a, b}
AllKinds     == FruKind
AtRuntime    == {"monitored"}
AllFaults    == FaultNames
Parts        == Permutations({a, b})
=============================================================================

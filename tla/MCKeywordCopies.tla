--------------------------- MODULE MCKeywordCopies ---------------------------
(***************************************************************************)
(* Instances of KeywordCopies for TLC.                                     *)
(***************************************************************************)
EXTENDS KeywordCopies, TLC

CONSTANTS blank, v1, v2, absent

ThreeValues == {blank, v1, v2}
AllKinds    == FruKind
OnlyCache   == {"cache"}
AllFaults   == FaultNames
WriteFaults == {"hardware", "restart"}
SetValues   == Permutations({v1, v2})
=============================================================================

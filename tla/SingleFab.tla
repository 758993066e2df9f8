----------------------------- MODULE SingleFab ------------------------------
(***************************************************************************)
(* The single fab override of vpd-manager: system planars are made for     *)
(* POWER10 and turned into POWER11 planars on the system they come to.     *)
(* From the IM keyword on the planar, the IM that the inventory manager    *)
(* persisted when the system was last published, the mode and the image,   *)
(* singleFabImOverride decides if the manager may start and if the IM of   *)
(* the planar is changed.                                                  *)
(***************************************************************************)
CONSTANTS
  P10Im,    \* IM values of POWER10 systems: "5000...."
  P11Im,    \* IM values of POWER11 systems: "6000...."
  OtherIm,  \* IM values of systems of neither series
  ToP11,    \* the POWER11 value for each POWER10 value
  NoIm      \* no IM: not persisted, or not readable

Im == P10Im \cup P11Im \cup OtherIm

ASSUME SingleFabAssumption ==
  /\ P10Im \cap P11Im = {}
  /\ OtherIm \cap (P10Im \cup P11Im) = {}
  /\ NoIm \notin Im
  /\ ToP11 \in [P10Im -> P11Im]

(* Mutant of Converted: in field mode, too, the IM is left as it is on a   *)
(* system that has none persisted.                                         *)
ConvertedIfKnown(planar, ebmc, field, powerVs) ==
  planar \in P10Im /\ ~powerVs /\ ebmc \in P11Im

(* The IM of the planar is set to POWER11: a POWER10 planar in a POWER11   *)
(* system, or in one that is not known yet and is in field mode.           *)
Converted(planar, ebmc, field, powerVs) ==
  /\ planar \in P10Im
  /\ ~powerVs
  /\ ebmc \in P11Im \/ (ebmc = NoIm /\ field)

(* The manager does not start: the planar is of a known series, but not    *)
(* one for what the system was before, its mode and its image.             *)
Refused(planar, ebmc, field, powerVs) ==
  \/ planar \in P10Im /\ ebmc \in P10Im /\ field /\ ~powerVs
  \/ planar \in P11Im /\ ebmc \in P10Im /\ (field \/ powerVs)
  \/ planar \in P10Im \cup P11Im /\ ebmc \in P11Im /\ powerVs
  \/ planar \in P11Im /\ ebmc = NoIm /\ powerVs

(* The IM on the planar after the override.                                *)
Overridden(planar, ebmc, field, powerVs) ==
  IF Converted(planar, ebmc, field, powerVs) THEN ToP11[planar] ELSE planar
=============================================================================

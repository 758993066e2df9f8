---------------------------- MODULE FruInventory ----------------------------
(***************************************************************************)
(* The record a FRU has on the Phosphor Inventory Manager (PIM), and what  *)
(* the writes of vpd-manager do to it.  PIM is another process: vpd-manager *)
(* only ever merges an object map into it with one "Notify" call, so each  *)
(* write is a function from the record before it to the record after it.   *)
(*                                                                         *)
(* The payload is reduced to what the properties tell apart: whether the   *)
(* keyword interfaces hold nothing, what the hardware held when it was last *)
(* read ("fresh"), or data of another boot or another part ("stale").      *)
(***************************************************************************)
EXTENDS FiniteSets

CONSTANTS
  Fru,              \* EEPROM paths of the "frus" object, system VPD excluded
  HandlesPresence   \* those whose item has handlePresence and is not synthesized

ASSUME FruAssumption ==
  /\ IsFiniteSet(Fru)
  /\ HandlesPresence \subseteq Fru

CollectionStatus == {"NotStarted", "InProgress", "Completed", "Failed"}

VpdContent == {"none", "stale", "fresh"}

PimRecord ==
  [status : CollectionStatus, vpd : VpdContent, present : BOOLEAN]

(***************************************************************************)
(* The two records a FRU can have when vpd-manager starts: the one that    *)
(* priming left, or the one the previous boot persisted.                   *)
(***************************************************************************)
Primed   == [status |-> "NotStarted", vpd |-> "none", present |-> FALSE]
Leftover == [status |-> "Completed", vpd |-> "stale", present |-> TRUE]

-----------------------------------------------------------------------------
(* setCollectionStatusProperty: only the Status (and its time stamps).     *)
WithStatus(r, s) == [r EXCEPT !.status = s]

(* populateDbus and publish: the parsed keywords, and Present of an        *)
(* embedded FRU whose presence is handled here.  Status is not in the map. *)
Published(f, r) ==
  [r EXCEPT !.vpd = "fresh", !.present = @ \/ f \in HandlesPresence]

(* resetObjTreeVpd: every keyword and string emptied, Status to NotStarted, *)
(* Present cleared where it is handled.  What is emptied is what PIM held   *)
(* when the map was built: saw says whether there were any keywords then.  *)
Cleared(f, r, saw) ==
  [r EXCEPT !.vpd = IF saw THEN "none" ELSE @,
            !.status = "NotStarted",
            !.present = @ /\ f \notin HandlesPresence]

(* setPresentProperty(path, false), called where presence is handled.      *)
MarkedAbsent(f, r) ==
  [r EXCEPT !.present = @ /\ f \notin HandlesPresence]
=============================================================================

------------------------------ MODULE VpdTool -------------------------------
(***************************************************************************)
(* The commands of vpd-tool that change system VPD, beside the BIOS        *)
(* handler and other clients.  The tool is a process of its own: it reads  *)
(* with one call and writes with another, and waits for its user between,  *)
(* so what it writes may be out of date.                                   *)
(*                                                                         *)
(* mfgClean: the keyword is set to its default or, with                    *)
(* syncBiosAttributes, to what the attributes of the BIOS say.             *)
(* fixSystemVPD: the keyword and its backup are compared and the user says *)
(* which one to use.                                                       *)
(* writeKeyword: the user gives the value.                                 *)
(*                                                                         *)
(* The behaviour is about one keyword of the backup map; the tool treats   *)
(* each for itself.  Dumps of the inventory and readKeyword change nothing *)
(* and are left out; forceReset is in SystemStart.                         *)
(***************************************************************************)
EXTENDS BiosSync

VARIABLES
  pc,        \* what the tool is doing
  value,     \* the value it is about to write, or Unset
  found      \* what it has read from each side, or Unset

(* History.                                                                *)
VARIABLES
  stale,     \* attributes changed since the tool read them
  touched,   \* the keyword was written by others since it was read
  used       \* the side whose value the user chose

toolHist == <<stale, touched, used>>
toolVars == <<pc, value, found, toolHist>>
vars == <<biosVars, toolVars>>

ToolPc == {"idle", "clean", "cleanSync", "fetchSource", "fetchDestination",
           "menu", "more", "fixed"}

ToolInit ==
  /\ Init
  /\ pc = "idle"
  /\ value = Unset
  /\ found = [s \in Side |-> Unset]
  /\ stale = {}
  /\ touched = FALSE
  /\ used = "source"

Idle ==
  /\ pc' = "idle"
  /\ value' = Unset
  /\ found' = [s \in Side |-> Unset]
  /\ stale' = {}
  /\ touched' = FALSE
  /\ used' = "source"

(* History of a keyword that the tool wrote: attributes it does not agree  *)
(* with on purpose.                                                        *)
WrittenFor(as) ==
  /\ apart' = (apart \ as) \cup (Attr \ as)
  /\ excused' = excused \cup Attr
  /\ UNCHANGED choice

WrittenBlind == WrittenFor({})

(* utils::writeKeyword: UpdateKeyword of vpd-manager for the path of the   *)
(* source.                                                                 *)
WriteKeyword(v, hist) ==
  \/ UpdateKeyword(v, TRUE) /\ hist
  \/ UpdateKeyword(v, FALSE) /\ UNCHANGED histVars

ToolOnly == UNCHANGED <<kw, mapped, envVars, handler, todo>>

-----------------------------------------------------------------------------
(* mfgClean                                                                *)

(* Mutant of ToolValue: memory mirroring is one bit, like the others.      *)
ToolValueBits(as) ==
  IF as = {}
  THEN Unset
  ELSE CASE kw = "RG" -> base["fco"]
         [] kw = "MM" -> IF base["amm"] = "Enabled" THEN 1 ELSE 0
         [] kw = "BA" -> [bits |-> {a \in as : base[a] = "Enabled"},
                          big |-> FALSE]

(* getVpdValueInBiosConfigManager, when the attributes in as can be read.  *)
(* All four bytes of a number are kept; a bit that is not read is not set; *)
(* nothing is read: no value.                                              *)
ToolValue(as) ==
  IF as = {}
  THEN Unset
  ELSE CASE kw = "RG" -> base["fco"]
         [] kw = "MM" -> IF base["amm"] = "Enabled" THEN 2 ELSE 1
         [] kw = "BA" -> [bits |-> {a \in as : base[a] = "Enabled"},
                          big |-> FALSE]

(* Mutant of Skipped: a value that could not be determined is written.     *)
SkippedNever(v) == FALSE

(* A keyword without a value is skipped.                                   *)
Skipped(v) == v = Unset

(* The value to write is the default, or what the BIOS has.                *)
CleanSystemVpd ==
  /\ pc = "idle"
  /\ mapped
  /\ \/ /\ pc' = "clean"
        /\ value' = Default
        /\ stale' = {}
     \/ \E as \in SUBSET Attr :
          /\ as # Attr => "bios" \in Faults
          /\ IF Skipped(ToolValue(as))
             THEN UNCHANGED <<pc, value, stale>>
             ELSE /\ pc' = "cleanSync"
                  /\ value' = ToolValue(as)
                  /\ stale' = {a \in Attr : a \notin as \/ pending[a] # Unset}
  /\ UNCHANGED <<vpd, histVars, found, touched, used>>
  /\ ToolOnly

(* It is written; a failure is reported and the command succeeds.          *)
CleanWrite ==
  /\ pc \in {"clean", "cleanSync"}
  /\ WriteKeyword(value, WrittenFor(IF pc = "clean" THEN {} ELSE Attr \ stale))
  /\ Idle
  /\ ToolOnly

-----------------------------------------------------------------------------
(* fixSystemVPD                                                            *)

FixSystemVpd ==
  /\ pc = "idle"
  /\ mapped
  /\ pc' = "fetchSource"
  /\ UNCHANGED <<vpd, histVars, value, found, toolHist>>
  /\ ToolOnly

(* fetchKeywordInfo: one side after the other.                             *)
FetchKeywordInfo ==
  /\ \/ /\ pc = "fetchSource"
        /\ pc' = "fetchDestination"
        /\ found' = [found EXCEPT !["source"] = vpd["source"]]
        /\ touched' = FALSE
     \/ /\ pc = "fetchDestination"
        /\ pc' = "menu"
        /\ found' = [found EXCEPT !["destination"] = vpd["destination"]]
        /\ UNCHANGED touched
  /\ UNCHANGED <<vpd, histVars, value, stale, used>>
  /\ ToolOnly

(* Mutant of Chosen: the sides are mixed up.                               *)
ChosenOther(s) == found[CHOOSE o \in Side : o # s]

Chosen(s) == found[s]

(* updateAllKeywords: what was found to differ is written from one side;   *)
(* the manager writes it to both.                                          *)
UpdateAllKeywords ==
  /\ pc = "menu"
  /\ \E s \in Side :
       /\ used' = s
       /\ IF found["source"] = found["destination"]
          THEN UNCHANGED <<vpd, histVars, touched>>
          ELSE \/ /\ WriteKeyword(Chosen(s), WrittenBlind)
                  /\ touched' = (touched \/ vpd' # Updated(Chosen(s)))
  /\ pc' = "fixed"
  /\ UNCHANGED <<value, found, stale>>
  /\ ToolOnly

(* handleMoreOption: the keyword is offered again and again, with what was *)
(* found at first, until the user leaves.  A side can be chosen even when  *)
(* no mismatch was found.                                                  *)
HandleMoreOption ==
  /\ pc \in {"menu", "more"}
  /\ pc' = "more"
  /\ \E v \in {found[s] : s \in Side} \cup KeywordValue :
       WriteKeyword(v, WrittenBlind)
  /\ UNCHANGED <<value, found, toolHist>>
  /\ ToolOnly

Exit ==
  /\ pc \in {"menu", "more", "fixed"}
  /\ Idle
  /\ UNCHANGED <<vpd, histVars>>
  /\ ToolOnly

-----------------------------------------------------------------------------
(* vpd-tool --writeKeyword, or any other client of UpdateKeyword.          *)
ClientWrite ==
  /\ \E v \in KeywordValue : WriteKeyword(v, WrittenBlind)
  /\ touched' = (touched \/ pc # "idle")
  /\ UNCHANGED <<pc, value, found, stale, used>>
  /\ ToolOnly

(* The others go on while the tool works.                                  *)
OthersStep ==
  /\ BiosNext
  /\ stale' = IF pc = "cleanSync"
              THEN stale \cup {a \in Attr :
                               base'[a] # base[a] \/ pending'[a] # Unset}
              ELSE stale
  /\ touched' = (touched \/ (vpd' # vpd /\ pc # "idle"))
  /\ UNCHANGED <<pc, value, found, used>>

Next ==
  \/ CleanSystemVpd
  \/ CleanWrite
  \/ FixSystemVpd
  \/ FetchKeywordInfo
  \/ UpdateAllKeywords
  \/ HandleMoreOption
  \/ Exit
  \/ ClientWrite
  \/ OthersStep

Spec == ToolInit /\ [][Next]_vars

-----------------------------------------------------------------------------
(* Properties                                                              *)

(* The one type invariant, of both modules.                                *)
TypeOK ==
  /\ BiosTypeOK
  /\ pc \in ToolPc
  /\ value \in KeywordValue \cup {Unset}
  /\ pc \in {"clean", "cleanSync"} => value # Unset
  /\ found \in [Side -> KeywordValue \cup {Unset}]
  /\ stale \subseteq Attr
  /\ touched \in BOOLEAN
  /\ used \in Side

(* After fixSystemVPD has been told to use one side, both sides have what  *)
(* it found there, unless somebody else wrote the keyword since it looked, *)
(* or a call failed.                                                       *)
FixLeavesNoMismatch ==
  pc = "fixed" /\ ~touched
    => \A s \in Side : vpd[s] = found[used]
=============================================================================

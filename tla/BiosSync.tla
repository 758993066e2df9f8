------------------------------ MODULE BiosSync ------------------------------
(***************************************************************************)
(* The BIOS attributes that vpd-manager keeps in keywords of system VPD.   *)
(* When the handler starts, a keyword that holds the default is saved from *)
(* the attribute, any other is restored to the attribute, through the      *)
(* pending attributes that the host applies later.  Then it listens: when  *)
(* the table of attributes changes, all of them are saved.                 *)
(*                                                                         *)
(* A behaviour is about one keyword, as the handler treats each for        *)
(* itself: memory mirroring in MM, field core override in RG, and three    *)
(* attributes, one bit each, in BA.  All calls to vpd-manager run on its   *)
(* io thread.  How UpdateKeyword gets a value to the copies of a keyword   *)
(* is the subject of KeywordCopies; here it changes both, one, or none.    *)
(***************************************************************************)
EXTENDS Integers, Sequences

CONSTANTS
  Keywords,    \* the keywords looked at: some of KeywordName
  BaAttr,      \* attributes kept in BA: pvm_keep_and_clear and its like
  Fco,         \* values of hb_field_core_override, with their last bytes
  Unset,       \* no value
  Blank,       \* the four spaces that RG has by default
  Faults,      \* what may fail, see FaultNames
  MaxSignals   \* bound: signals of the table not handled yet

KeywordName == {"MM", "RG", "BA"}

FaultNames ==
  { "update",   \* UpdateKeyword fails
    "mirror",   \* UpdateKeyword does not reach the backup
    "bios" }    \* a call to the BIOS configuration manager fails

ASSUME BiosAssumption ==
  /\ Keywords \subseteq KeywordName
  /\ Fco \subseteq Nat /\ 0 \in Fco
  /\ \A f \in Fco : f % 256 \in Fco
  /\ BaAttr \cap {"amm", "fco"} = {}
  /\ Unset \notin Nat \cup {"Enabled", "Disabled", Blank}
  /\ Unset \notin [bits : SUBSET BaAttr, big : BOOLEAN]
  /\ Blank \notin Nat
  /\ Faults \subseteq FaultNames
  /\ MaxSignals \in Nat \ {0}

Side == {"source", "destination"}

VARIABLES
  kw,        \* the keyword this behaviour is about
  mapped,    \* it is in the backup map of the configuration
  vpd,       \* its value on system VPD and on the backup
  base,      \* BaseBIOSTable: the attributes kept in it
  pending,   \* PendingAttributes
  signals,   \* tables that were signalled and not handled yet
  pldm,      \* the PLDM service runs
  handler,   \* "waiting" for PLDM, in "sync", or "listening"
  todo       \* attributes that backUpOrRestoreBiosAttributes has to do

(* History.                                                                *)
VARIABLES
  apart,     \* attributes that may differ from the keyword
  choice,    \* what each attribute was last set to
  excused    \* attributes whose choice may be lost

envVars  == <<base, pending, signals, pldm>>
histVars == <<apart, choice, excused>>
biosVars == <<kw, mapped, vpd, envVars, handler, todo, histVars>>

-----------------------------------------------------------------------------
(* Attributes and keywords.                                                *)

AttrsOf(k) == CASE k = "MM" -> {"amm"}
                [] k = "RG" -> {"fco"}
                [] k = "BA" -> BaAttr

Attr == AttrsOf(kw)

Switch == {"Enabled", "Disabled"}

AttrValue == IF kw = "RG" THEN Fco ELSE Switch

Table == [Attr -> AttrValue]

(* The table of a system that was reset.                                   *)
FactoryTable == [a \in Attr |-> IF a = "fco" THEN 0 ELSE "Disabled"]

NoPending == [a \in Attr |-> Unset]

(* RG: four spaces, or a number.  BA: the bits of the attributes, and      *)
(* whether the byte is 10 or more, for its other bits.                     *)

KeywordValue ==
  CASE kw = "MM" -> 0 .. 2
    [] kw = "RG" -> Fco \cup {Blank}
    [] kw = "BA" -> [bits : SUBSET BaAttr, big : BOOLEAN]

Default ==
  CASE kw = "MM" -> 0
    [] kw = "RG" -> Blank
    [] kw = "BA" -> [bits |-> {}, big |-> FALSE]

OnOff(set) == IF set THEN "Enabled" ELSE "Disabled"

(* What a keyword can give back of an attribute: the last byte of a core   *)
(* override, whatever its value is; the others are kept as they are.       *)
Kept(a, v) == IF a = "fco" THEN v % 256 ELSE v

(* What the handler saves for an attribute.                                *)
Saved(a, v) == IF a = "fco" THEN Kept(a, v)
               ELSE IF v = "Enabled" THEN 2 ELSE 1

(* What it restores an attribute to.  The bits of BA are read off the      *)
(* decimal form of the byte, which has them while it has one digit.        *)
Restored(a, value) ==
  CASE a = "amm" -> OnOff(value = 2)
    [] a = "fco" -> value % 256
    [] OTHER     -> OnOff(a \in value.bits)

-----------------------------------------------------------------------------
Init ==
  /\ kw \in Keywords
  /\ mapped \in IF kw = "RG" THEN {TRUE} ELSE BOOLEAN
  /\ vpd \in {[s \in Side |-> v] : v \in KeywordValue}
  /\ base = FactoryTable
  /\ pending = NoPending
  /\ signals = <<>>
  /\ pldm = FALSE
  /\ handler = "waiting"
  /\ todo = {}
  /\ apart = Attr
  /\ choice = base
  /\ excused = Attr

(* UpdateKeyword of the manager.                                           *)
Updated(value) ==
  [s \in Side |-> IF s = "source" \/ mapped THEN value ELSE vpd[s]]

UpdateKeyword(value, ok) ==
  \/ ok /\ vpd' = Updated(value)
  \/ ok /\ "mirror" \in Faults /\ mapped
     /\ vpd' = [vpd EXCEPT !["source"] = value]
  \/ ~ok /\ "update" \in Faults /\ UNCHANGED vpd

-----------------------------------------------------------------------------
(* The handler.                                                            *)

(* The handler is called for the PLDM service: there already, or later.    *)
CheckAndListenPldmService(running) ==
  IF running THEN handler' = "sync" /\ todo' = Attr
             ELSE handler' = "waiting" /\ todo' = {}

(* History of an attribute in step with its keyword: what the keyword has  *)
(* is the choice, if the one before may be lost.                           *)
InStep(a, v) ==
  /\ apart' = apart \ {a}
  /\ choice' = IF a \in excused THEN [choice EXCEPT ![a] = v] ELSE choice
  /\ excused' = excused \ {a}

(* A value that is pending, or in a later table that waits, overrides what *)
(* was saved.                                                              *)
SavedInStep(a, v) ==
  IF pending[a] = Unset /\ Len(signals) <= 1 THEN InStep(a, v)
  ELSE apart' = apart \ {a} /\ UNCHANGED <<choice, excused>>

OutOfStep(as) ==
  /\ apart' = apart \cup as
  /\ excused' = excused \cup as
  /\ UNCHANGED choice

(* Mutant of RestoresFirst: a mirror that is on is taken for the default.  *)
RestoresDisabled(value) ==
  CASE kw = "MM" -> value = 1
    [] kw = "RG" -> value # Blank
    [] kw = "BA" -> ~value.big

(* The keyword is not the default: it is restored.  BA has no default; a   *)
(* byte of more than one digit is left alone.                              *)
RestoresFirst(value) ==
  CASE kw = "MM" -> value # 0
    [] kw = "RG" -> value # Blank
    [] kw = "BA" -> ~value.big

(* processFieldCoreOverride, processActiveMemoryMirror and the three of    *)
(* BA: the attributes are read, or set pending, with a call each.          *)
Restore(a) ==
  LET value == vpd["source"] IN
  /\ RestoresFirst(value)
  /\ \/ /\ pending' = [pending EXCEPT ![a] = Restored(a, value)]
        /\ InStep(a, Restored(a, value))
     \/ /\ "bios" \in Faults
        /\ OutOfStep({a})
        /\ UNCHANGED pending
  /\ UNCHANGED vpd

Backup(a) ==
  /\ ~RestoresFirst(vpd["source"])
  /\ kw # "BA"
  /\ \/ UpdateKeyword(Saved(a, base[a]), TRUE) /\ SavedInStep(a, base[a])
     \/ UpdateKeyword(Saved(a, base[a]), FALSE) /\ OutOfStep({a})
     \/ "bios" \in Faults /\ OutOfStep({a}) /\ UNCHANGED vpd
  /\ UNCHANGED pending

LeaveBig(a) ==
  /\ ~RestoresFirst(vpd["source"])
  /\ kw = "BA"
  /\ OutOfStep({a})
  /\ UNCHANGED <<vpd, pending>>

BackUpOrRestoreBiosAttributes ==
  /\ handler = "sync"
  /\ \E a \in todo :
       /\ todo' = todo \ {a}
       /\ Restore(a) \/ Backup(a) \/ LeaveBig(a)
  /\ UNCHANGED <<kw, mapped, base, signals, pldm, handler>>

(* Only now the match is registered.                                       *)
ListenBiosAttributes ==
  /\ handler = "sync"
  /\ todo = {}
  /\ handler' = "listening"
  /\ UNCHANGED <<kw, mapped, vpd, envVars, todo, histVars>>

(* saveFcoToVpd and saveAmmToVpd write what differs.                       *)
Save(a, v) ==
  IF vpd["source"] = Saved(a, v)
  THEN UNCHANGED vpd /\ SavedInStep(a, v)
  ELSE \/ UpdateKeyword(Saved(a, v), TRUE) /\ SavedInStep(a, v)
       \/ UpdateKeyword(Saved(a, v), FALSE) /\ OutOfStep({a})

(* biosAttributesCallback: the table is the one of the signal.  What is    *)
(* kept in BA is saved with the name of the interface where the record is  *)
(* expected, so UpdateKeyword finds no such record.                        *)
BiosAttributesCallback ==
  /\ handler = "listening"
  /\ signals # <<>>
  /\ signals' = Tail(signals)
  /\ IF kw = "BA"
     THEN UNCHANGED <<vpd, histVars>>
     ELSE \E a \in Attr : Save(a, Head(signals)[a])
  /\ UNCHANGED <<kw, mapped, base, pending, pldm, handler, todo>>

-----------------------------------------------------------------------------
(* The BIOS, PLDM and the host.                                            *)

Signal(table) ==
  IF handler = "listening"
  THEN Len(signals) < MaxSignals /\ signals' = Append(signals, table)
  ELSE UNCHANGED signals

(* Somebody sets an attribute; another one of the table may be meant, that *)
(* is kept in no keyword or in another one, and then nothing changes here. *)
(* An attribute set before the handler listens is not seen; one that is to *)
(* be restored is lost when that happens; those of BA are not saved.       *)
BiosChange ==
  /\ \E a \in Attr, v \in AttrValue :
       /\ base' = [base EXCEPT ![a] = v]
       /\ Signal(base')
       /\ IF v = base[a]
          THEN UNCHANGED histVars
          ELSE /\ choice' = [choice EXCEPT ![a] = v]
               /\ LET lost == \/ handler # "listening"
                              \/ pending[a] # Unset
                              \/ kw = "BA"
                  IN /\ excused' = IF lost THEN excused \cup {a}
                                   ELSE excused \ {a}
                     /\ apart' = IF lost THEN apart \cup {a} ELSE apart
  /\ UNCHANGED <<kw, mapped, vpd, pending, pldm, handler, todo>>

(* The host boots and takes what is pending.                               *)
ApplyPending ==
  /\ pending # NoPending
  /\ base' = [a \in Attr |-> IF pending[a] = Unset THEN base[a]
                             ELSE pending[a]]
  /\ pending' = NoPending
  /\ IF base' # base THEN Signal(base') ELSE UNCHANGED signals
  /\ LET missed == {a \in Attr : base'[a] # base[a]} IN
     IF handler = "listening" THEN UNCHANGED histVars
     ELSE OutOfStep(missed)
  /\ UNCHANGED <<kw, mapped, vpd, pldm, handler, todo>>

PldmUp ==
  /\ ~pldm
  /\ pldm' = TRUE
  /\ IF handler = "waiting"
     THEN CheckAndListenPldmService(TRUE)
     ELSE UNCHANGED <<handler, todo>>
  /\ UNCHANGED <<kw, mapped, vpd, base, pending, signals, histVars>>

(* The handler goes on listening and does not wait for it again.           *)
PldmDown ==
  /\ pldm
  /\ pldm' = FALSE
  /\ UNCHANGED <<kw, mapped, vpd, base, pending, signals, handler, todo,
                 histVars>>

(* What a restart loses: signals, and restored values that are not applied *)
(* yet, as a signal with the value before may have been saved.             *)
Interrupted ==
  IF signals # <<>> THEN Attr ELSE {a \in Attr : pending[a] # Unset}

(* vpd-manager is started again.                                           *)
Restart ==
  /\ signals' = <<>>
  /\ CheckAndListenPldmService(pldm)
  /\ OutOfStep(Interrupted)
  /\ UNCHANGED <<kw, mapped, vpd, base, pending, pldm>>

(* The BMC is reset to factory settings: the table starts over, VPD stays. *)
FactoryReset ==
  /\ base' = FactoryTable
  /\ pending' = NoPending
  /\ signals' = <<>>
  /\ pldm' = FALSE
  /\ CheckAndListenPldmService(FALSE)
  /\ OutOfStep(Interrupted)
  /\ UNCHANGED <<kw, mapped, vpd>>

BiosNext ==
  \/ BackUpOrRestoreBiosAttributes
  \/ ListenBiosAttributes
  \/ BiosAttributesCallback
  \/ BiosChange
  \/ ApplyPending
  \/ PldmUp
  \/ PldmDown
  \/ Restart
  \/ FactoryReset

-----------------------------------------------------------------------------
(* Properties                                                              *)

BiosTypeOK ==
  /\ kw \in Keywords
  /\ mapped \in BOOLEAN
  /\ vpd \in [Side -> KeywordValue]
  /\ base \in Table
  /\ pending \in [Attr -> AttrValue \cup {Unset}]
  /\ signals \in Seq(Table) /\ Len(signals) <= MaxSignals
  /\ pldm \in BOOLEAN
  /\ handler \in {"waiting", "sync", "listening"}
  /\ todo \subseteq Attr
  /\ apart \subseteq Attr
  /\ excused \subseteq Attr
  /\ choice \in Table

Settled ==
  /\ handler = "listening"
  /\ signals = <<>>
  /\ pending = NoPending

(* When the handler listens and has nothing left to do, a keyword would    *)
(* restore its attribute to what it is, whoever changed the one or the     *)
(* other, before or after the handler came up; of a core override of 256   *)
(* or more, to its last byte, which is all that is kept.  Excused are      *)
(* calls that failed, changes that come between the synchronisation and    *)
(* the registration of the match, attributes of BA that the BIOS changed,  *)
(* and keywords that somebody wrote without looking at the BIOS.           *)
SidesAgree ==
  Settled => \A a \in Attr \ apart :
               /\ vpd["source"] # Default \/ kw = "BA"
               /\ Kept(a, base[a]) = Restored(a, vpd["source"])

(* What an attribute was set to, and can be kept, survives any number of   *)
(* restarts and resets to factory settings: when all is done again, the    *)
(* attribute and, but for BA, the keyword have it, to the last bit.  A     *)
(* restart before restored values are applied may lose them, and a core    *)
(* override that does not fit in a byte is lost: 256 comes back as 0.      *)
ChoiceSurvives ==
  Settled => \A a \in Attr \ excused :
               Kept(a, choice[a]) = choice[a] =>
                 /\ base[a] = choice[a]
                 /\ kw # "BA" =>
                      /\ vpd["source"] # Default
                      /\ Restored(a, vpd["source"]) = choice[a]
=============================================================================

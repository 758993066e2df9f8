--------------------------- MODULE VpdToolProofs ----------------------------
(***************************************************************************)
(* Proofs of what the run bios_sync checks: for every keyword, any numbers *)
(* and attributes, any faults and any number of tables that wait.          *)
(***************************************************************************)
EXTENDS VpdTool, TLAPS

(* The sets of values belong to the keyword, which never changes.          *)
LEMMA SameSets ==
  ASSUME kw' = kw
  PROVE  /\ Attr' = Attr /\ AttrValue' = AttrValue /\ Table' = Table
         /\ KeywordValue' = KeywordValue /\ Default' = Default
BY DEF Attr, AttrsOf, AttrValue, Table, KeywordValue, Default

(* No value of an attribute or a keyword is taken for none.                *)
LEMMA NoValueIsUnset ==
  ASSUME kw \in KeywordName
  PROVE  Unset \notin KeywordValue /\ Unset \notin AttrValue
<1>1. CASE kw = "MM"
  BY <1>1, BiosAssumption DEF KeywordValue, AttrValue, Switch
<1>2. CASE kw = "RG"
  BY <1>2, BiosAssumption DEF KeywordValue, AttrValue
<1>3. CASE kw = "BA"
  BY <1>3, BiosAssumption DEF KeywordValue, AttrValue, Switch
<1> QED BY <1>1, <1>2, <1>3 DEF KeywordName

(* What a keyword and the attributes start with.                           *)
LEMMA Defaults ==
  ASSUME kw \in KeywordName
  PROVE  /\ Default \in KeywordValue
         /\ FactoryTable \in Table
         /\ kw # "BA" => \A a, b \in Attr : a = b
<1>1. CASE kw = "MM"
  BY <1>1 DEF KeywordValue, Default, FactoryTable, Table, Attr, AttrsOf,
              AttrValue, Switch
<1>2. CASE kw = "RG"
  BY <1>2, BiosAssumption
     DEF KeywordValue, Default, FactoryTable, Table, Attr, AttrsOf, AttrValue
<1>3. CASE kw = "BA"
  BY <1>3, BiosAssumption
     DEF KeywordValue, Default, FactoryTable, Table, Attr, AttrsOf,
         AttrValue, Switch
<1> QED BY <1>1, <1>2, <1>3 DEF KeywordName

(* The last byte of a last byte is itself.                                 *)
LEMMA LastByte == \A n \in Nat : (n % 256) % 256 = n % 256
  OBVIOUS

(* What is kept of what is kept is all of it.                              *)
LEMMA KeptTwice ==
  ASSUME kw \in KeywordName, NEW a \in Attr, NEW v \in AttrValue
  PROVE  Kept(a, Kept(a, v)) = Kept(a, v)
<1>1. CASE a = "fco"
  <2>1. v \in Nat
    BY <1>1, BiosAssumption DEF Attr, AttrsOf, AttrValue, KeywordName
  <2> QED BY <1>1, <2>1, LastByte DEF Kept
<1>2. CASE a # "fco"
  BY <1>2 DEF Kept
<1> QED BY <1>1, <1>2

(* What is saved of an attribute restores what is kept of it, and is not   *)
(* the default.                                                            *)
LEMMA SavedAgrees ==
  ASSUME kw \in KeywordName \ {"BA"}, NEW a \in Attr, NEW v \in AttrValue
  PROVE  /\ Saved(a, v) \in KeywordValue \ {Default}
         /\ Kept(a, v) = Restored(a, Saved(a, v))
<1>1. CASE kw = "MM"
  BY <1>1 DEF Saved, Restored, Kept, Attr, AttrsOf, AttrValue, KeywordValue,
              Default, OnOff, Switch
<1>2. CASE kw = "RG"
  <2>1. a = "fco" /\ v \in Fco /\ v \in Nat /\ v % 256 \in Fco
    BY <1>2, BiosAssumption DEF Attr, AttrsOf, AttrValue
  <2>2. v % 256 \in Nat /\ (v % 256) % 256 = v % 256
    BY <2>1, LastByte
  <2>3. Saved(a, v) = v % 256 /\ Kept(a, v) = v % 256
    BY <2>1 DEF Saved, Kept
  <2>4. Restored(a, v % 256) = (v % 256) % 256
    BY <2>1 DEF Restored
  <2>5. v % 256 \in KeywordValue \ {Default}
    BY <1>2, <2>1, <2>2, BiosAssumption DEF KeywordValue, Default
  <2> QED BY <2>2, <2>3, <2>4, <2>5
<1> QED BY <1>1, <1>2 DEF KeywordName

(* What is restored is a value of the attribute, which can be kept, and    *)
(* not from the default.                                                   *)
LEMMA RestoredAgrees ==
  ASSUME kw \in KeywordName, NEW a \in Attr, NEW w \in KeywordValue,
         RestoresFirst(w)
  PROVE  /\ Restored(a, w) \in AttrValue
         /\ Kept(a, Restored(a, w)) = Restored(a, w)
         /\ kw = "BA" \/ w # Default
<1>1. CASE kw = "MM"
  BY <1>1 DEF Restored, Kept, RestoresFirst, Attr, AttrsOf, AttrValue,
              Default, OnOff, Switch
<1>2. CASE kw = "RG"
  <2>1. a = "fco" /\ w \in Fco /\ w # Default /\ w \in Nat /\ w % 256 \in Fco
    BY <1>2, BiosAssumption
       DEF Attr, AttrsOf, KeywordValue, RestoresFirst, Default
  <2>2. Restored(a, w) = w % 256 /\ Kept(a, w % 256) = (w % 256) % 256
    BY <2>1 DEF Restored, Kept
  <2>3. (w % 256) % 256 = w % 256
    BY <2>1, LastByte
  <2> QED BY <1>2, <2>1, <2>2, <2>3 DEF AttrValue
<1>3. CASE kw = "BA"
  BY <1>3, BiosAssumption
     DEF Restored, Kept, Attr, AttrsOf, AttrValue, OnOff, Switch
<1> QED BY <1>1, <1>2, <1>3 DEF KeywordName

(* What mfgClean makes of the attributes it could read agrees with them.   *)
LEMMA ToolValueAgrees ==
  ASSUME kw \in KeywordName, base \in Table, NEW as \in SUBSET Attr, as # {}
  PROVE  /\ ToolValue(as) \in KeywordValue
         /\ kw = "BA" \/ ToolValue(as) # Default
         /\ \A a \in as : Kept(a, base[a]) = Restored(a, ToolValue(as))
<1>1. CASE kw = "MM"
  <2>1. as = {"amm"} /\ base["amm"] \in Switch
    BY <1>1 DEF Attr, AttrsOf, Table, AttrValue
  <2> QED BY <1>1, <2>1 DEF ToolValue, Restored, Kept, KeywordValue, Default,
                            OnOff, Switch
<1>2. CASE kw = "RG"
  <2>0. Attr = {"fco"} /\ AttrValue = Fco
    BY <1>2 DEF Attr, AttrsOf, AttrValue
  <2>1. as = {"fco"} /\ base["fco"] \in Fco /\ base["fco"] \in Nat
    <3>1. as = {"fco"}
      BY <2>0
    <3>2. base["fco"] \in Fco
      BY <2>0 DEF Table
    <3> QED BY <3>1, <3>2, BiosAssumption
  <2>2. ToolValue(as) = base["fco"]
    BY <1>2, <2>1 DEF ToolValue
  <2>4. Kept("fco", base["fco"]) = Restored("fco", base["fco"])
    BY DEF Kept, Restored
  <2>5. base["fco"] \in KeywordValue \ {Default}
    BY <1>2, <2>1, BiosAssumption DEF KeywordValue, Default
  <2> QED BY <2>1, <2>2, <2>4, <2>5
<1>3. CASE kw = "BA"
  <2> DEFINE on == {a \in as : base[a] = "Enabled"}
  <2>1. ToolValue(as) = [bits |-> on, big |-> FALSE]
    BY <1>3 DEF ToolValue
  <2>2. as \subseteq BaAttr /\ \A a \in as : base[a] \in Switch
    BY <1>3 DEF Attr, AttrsOf, Table, AttrValue
  <2>3. ToolValue(as) \in KeywordValue
    <3>1. on \in SUBSET BaAttr
      BY <2>2
    <3> HIDE DEF on
    <3> QED BY <1>3, <2>1, <3>1 DEF KeywordValue
  <2>4. ASSUME NEW a \in as
        PROVE  Kept(a, base[a]) = Restored(a, ToolValue(as))
    <3>1. a \notin {"amm", "fco"} /\ base[a] \in Switch
      BY <2>2, BiosAssumption
    <3>2. Restored(a, ToolValue(as)) = OnOff(base[a] = "Enabled")
      <4>1. ToolValue(as).bits = on
        BY <2>1
      <4>2. Restored(a, ToolValue(as)) = OnOff(a \in ToolValue(as).bits)
        BY <3>1 DEF Restored
      <4> QED BY <4>1, <4>2 DEF OnOff
    <3> QED BY <3>1, <3>2 DEF Kept, OnOff, Switch
  <2> QED BY <1>3, <2>3, <2>4
<1> QED BY <1>1, <1>2, <1>3 DEF KeywordName

(* An attribute that is saved, restored or excused keeps the history well  *)
(* typed.                                                                  *)
HistOK == apart \subseteq Attr /\ excused \subseteq Attr /\ choice \in Table

(* Each way to go on with the history keeps its type.                      *)
LEMMA HistoryTypes ==
  ASSUME HistOK, kw' = kw
  PROVE  /\ UNCHANGED histVars => HistOK'
         /\ \A as \in SUBSET Attr : OutOfStep(as) => HistOK'
         /\ \A as \in SUBSET Attr : WrittenFor(as) => HistOK'
         /\ \A a \in Attr, v \in AttrValue :
              InStep(a, v) \/ SavedInStep(a, v) => HistOK'
<1> USE SameSets DEF HistOK
<1>1. UNCHANGED histVars => HistOK'
  BY DEF histVars
<1>2. ASSUME NEW as \in SUBSET Attr, OutOfStep(as)
      PROVE  HistOK'
  BY <1>2 DEF OutOfStep
<1>3. ASSUME NEW as \in SUBSET Attr, WrittenFor(as)
      PROVE  HistOK'
  BY <1>3 DEF WrittenFor
<1>4. ASSUME NEW a \in Attr, NEW v \in AttrValue,
             InStep(a, v) \/ SavedInStep(a, v)
      PROVE  HistOK'
  BY <1>4 DEF InStep, SavedInStep, Table
<1> QED BY <1>1, <1>2, <1>3, <1>4

(* UpdateKeyword leaves a value of the keyword on each side.               *)
LEMMA UpdateTypes ==
  ASSUME vpd \in [Side -> KeywordValue], kw' = kw,
         NEW v \in KeywordValue, NEW ok, UpdateKeyword(v, ok)
  PROVE  vpd' \in [Side -> KeywordValue]'
BY SameSets DEF UpdateKeyword, Updated

(* A table that is signalled fits within the bound.                        *)
LEMMA QueueTypes ==
  ASSUME signals \in Seq(Table), Len(signals) <= MaxSignals,
         NEW table \in Table, Signal(table)
  PROVE  signals' \in Seq(Table) /\ Len(signals') <= MaxSignals
BY BiosAssumption DEF Signal

(* The variables of the handler that keep their values most of the time.   *)
LEMMA BiosTypes ==
  ASSUME BiosTypeOK, BiosNext
  PROVE  BiosTypeOK'
<1>0. /\ kw \in KeywordName /\ kw' = kw /\ mapped' = mapped
      /\ HistOK
  BY BiosAssumption
     DEF BiosTypeOK, HistOK, BiosNext, BackUpOrRestoreBiosAttributes,
         ListenBiosAttributes, BiosAttributesCallback, BiosChange,
         ApplyPending, PldmUp, PldmDown, Restart, FactoryReset
<1> DEFINE Pend == [Attr -> AttrValue \cup {Unset}]
<1>a. /\ Attr' = Attr /\ Table' = Table /\ KeywordValue' = KeywordValue
      /\ Pend' = Pend
  BY <1>0, SameSets
<1>1. CASE BackUpOrRestoreBiosAttributes
  <2>1. PICK a \in todo : /\ todo' = todo \ {a}
                          /\ Restore(a) \/ Backup(a) \/ LeaveBig(a)
    BY <1>1 DEF BackUpOrRestoreBiosAttributes
  <2>2. a \in Attr /\ vpd["source"] \in KeywordValue /\ base[a] \in AttrValue
    BY <2>1 DEF BiosTypeOK, Side, Table
  <2>3. /\ HistOK' /\ vpd' \in [Side -> KeywordValue]
        /\ pending' \in Pend
    <3>1. CASE Restore(a)
      <4>1. Restored(a, vpd["source"]) \in AttrValue
        BY <1>0, <2>2, <3>1, RestoredAgrees DEF Restore
      <4>2. HistOK'
        BY <1>0, <2>2, <3>1, <4>1, HistoryTypes DEF Restore
      <4> QED BY <2>2, <3>1, <4>1, <4>2 DEF Restore, BiosTypeOK
    <3>2. CASE Backup(a)
      <4>1. kw # "BA" /\ Saved(a, base[a]) \in KeywordValue
        BY <1>0, <2>2, <3>2, SavedAgrees DEF Backup
      <4>2. HistOK'
        BY <1>0, <2>2, <3>2, HistoryTypes DEF Backup
      <4>3. vpd' \in [Side -> KeywordValue]
        BY <1>0, <1>a, <3>2, <4>1, UpdateTypes DEF Backup, BiosTypeOK
      <4> QED BY <3>2, <4>2, <4>3 DEF Backup, BiosTypeOK
    <3>3. CASE LeaveBig(a)
      BY <1>0, <2>2, <3>3, HistoryTypes DEF LeaveBig, BiosTypeOK
    <3> QED BY <2>1, <3>1, <3>2, <3>3
  <2> QED BY <1>0, <1>1, <1>a, <2>1, <2>3
          DEF BackUpOrRestoreBiosAttributes, BiosTypeOK, HistOK
<1>2. CASE ListenBiosAttributes
  BY <1>0, <1>2, <1>a DEF ListenBiosAttributes, BiosTypeOK, envVars, histVars
<1>3. CASE BiosAttributesCallback
  <2>1. /\ signals # <<>> /\ signals' = Tail(signals)
        /\ UNCHANGED <<kw, mapped, base, pending, pldm, handler, todo>>
    BY <1>3 DEF BiosAttributesCallback
  <2>2. /\ signals' \in Seq(Table) /\ Len(signals') <= MaxSignals
        /\ Head(signals) \in Table
    BY <2>1, BiosAssumption DEF BiosTypeOK
  <2>3. HistOK' /\ vpd' \in [Side -> KeywordValue]
    <3>1. CASE kw = "BA"
      BY <1>0, <1>3, <3>1, HistoryTypes DEF BiosAttributesCallback, BiosTypeOK
    <3>2. CASE kw # "BA"
      <4>1. PICK a \in Attr : Save(a, Head(signals)[a])
        BY <1>3, <3>2 DEF BiosAttributesCallback
      <4>2. Head(signals)[a] \in AttrValue
        BY <2>2 DEF Table
      <4>3. Saved(a, Head(signals)[a]) \in KeywordValue
        BY <1>0, <3>2, <4>2, SavedAgrees
      <4>4. HistOK'
        BY <1>0, <4>1, <4>2, HistoryTypes DEF Save
      <4>5. vpd' \in [Side -> KeywordValue]
        BY <1>0, <1>a, <4>1, <4>3, UpdateTypes DEF Save, BiosTypeOK
      <4> QED BY <4>4, <4>5
    <3> QED BY <3>1, <3>2
  <2> QED BY <1>0, <1>a, <2>1, <2>2, <2>3 DEF BiosTypeOK, HistOK
<1>4. CASE BiosChange
  <2>1. PICK a \in Attr, v \in AttrValue :
          /\ base' = [base EXCEPT ![a] = v]
          /\ Signal(base')
          /\ IF v = base[a]
             THEN UNCHANGED histVars
             ELSE /\ choice' = [choice EXCEPT ![a] = v]
                  /\ LET lost == \/ handler # "listening"
                                 \/ pending[a] # Unset
                                 \/ kw = "BA"
                     IN /\ excused' = IF lost THEN excused \cup {a}
                                      ELSE excused \ {a}
                        /\ apart' = IF lost THEN apart \cup {a} ELSE apart
    BY <1>4 DEF BiosChange
  <2>2. base' \in Table
    BY <2>1 DEF BiosTypeOK, Table
  <2>3. signals' \in Seq(Table) /\ Len(signals') <= MaxSignals
    BY <2>1, <2>2, QueueTypes DEF BiosTypeOK
  <2>4. HistOK'
    <3>1. apart' \subseteq Attr /\ excused' \subseteq Attr
      BY <1>0, <2>1 DEF HistOK, histVars
    <3>2. choice' \in Table
      BY <1>0, <2>1 DEF HistOK, histVars, Table
    <3> QED BY <1>a, <3>1, <3>2 DEF HistOK
  <2> QED BY <1>0, <1>4, <1>a, <2>2, <2>3, <2>4
          DEF BiosChange, BiosTypeOK, HistOK
<1>5. CASE ApplyPending
  <2>1. base' \in Table
    BY <1>5 DEF ApplyPending, BiosTypeOK, Table
  <2>2. pending' \in Pend
    BY <1>5 DEF ApplyPending, NoPending
  <2>3. signals' \in Seq(Table) /\ Len(signals') <= MaxSignals
    <3>1. CASE base' # base
      BY <1>5, <2>1, <3>1, QueueTypes DEF ApplyPending, BiosTypeOK
    <3>2. CASE base' = base
      BY <1>5, <3>2 DEF ApplyPending, BiosTypeOK
    <3> QED BY <3>1, <3>2
  <2>4. HistOK'
    <3>1. CASE handler = "listening"
      BY <1>0, <1>5, <3>1, HistoryTypes DEF ApplyPending
    <3>2. CASE handler # "listening"
      <4>1. OutOfStep({a \in Attr : base'[a] # base[a]})
        BY <1>5, <3>2 DEF ApplyPending
      <4> QED BY <1>0, <4>1, HistoryTypes
    <3> QED BY <3>1, <3>2
  <2> QED BY <1>0, <1>5, <1>a, <2>1, <2>2, <2>3, <2>4
          DEF ApplyPending, BiosTypeOK, HistOK
<1>6. CASE PldmUp
  BY <1>0, <1>6, <1>a
     DEF PldmUp, BiosTypeOK, CheckAndListenPldmService, histVars
<1>7. CASE PldmDown
  BY <1>0, <1>7, <1>a DEF PldmDown, BiosTypeOK, histVars
<1>b. Interrupted \in SUBSET Attr
  BY DEF Interrupted
<1>8. CASE Restart
  <2>1. HistOK'
    BY <1>0, <1>8, <1>b, HistoryTypes DEF Restart
  <2>2. signals' \in Seq(Table) /\ Len(signals') <= MaxSignals
    BY <1>8, BiosAssumption DEF Restart
  <2> QED BY <1>0, <1>8, <1>a, <2>1, <2>2
          DEF Restart, BiosTypeOK, CheckAndListenPldmService, HistOK
<1>9. CASE FactoryReset
  <2>1. HistOK'
    BY <1>0, <1>9, <1>b, HistoryTypes DEF FactoryReset
  <2>2. signals' \in Seq(Table) /\ Len(signals') <= MaxSignals
    BY <1>9, BiosAssumption DEF FactoryReset
  <2>3. base' \in Table /\ pending' \in Pend
    BY <1>0, <1>9, Defaults DEF FactoryReset, NoPending
  <2> QED BY <1>0, <1>9, <1>a, <2>1, <2>2, <2>3
          DEF FactoryReset, BiosTypeOK, CheckAndListenPldmService, HistOK
<1> QED BY <1>1, <1>2, <1>3, <1>4, <1>5, <1>6, <1>7, <1>8, <1>9 DEF BiosNext

-----------------------------------------------------------------------------
(* A step of the tool leaves everything of the handler but the keyword and *)
(* the history.                                                            *)
LEMMA ToolStepTypes ==
  ASSUME BiosTypeOK, ToolOnly, vpd' \in [Side -> KeywordValue], HistOK'
  PROVE  BiosTypeOK'
BY SameSets DEF ToolOnly, BiosTypeOK, HistOK, envVars

(* A write of the tool, for the attributes it agrees with or for none.     *)
LEMMA WriteTypes ==
  ASSUME BiosTypeOK, ToolOnly, NEW v \in KeywordValue,
         NEW as \in SUBSET Attr, WriteKeyword(v, WrittenFor(as))
  PROVE  BiosTypeOK'
<1>1. HistOK /\ vpd \in [Side -> KeywordValue] /\ kw' = kw
  BY DEF BiosTypeOK, HistOK, ToolOnly
<1>2. vpd' \in [Side -> KeywordValue]
  BY <1>1, UpdateTypes, SameSets DEF WriteKeyword
<1>3. HistOK'
  BY <1>1, HistoryTypes DEF WriteKeyword
<1> QED BY <1>2, <1>3, ToolStepTypes

(* A write that does not look at the attributes.                           *)
LEMMA BlindWriteTypes ==
  ASSUME BiosTypeOK, ToolOnly, NEW v \in KeywordValue,
         WriteKeyword(v, WrittenBlind)
  PROVE  BiosTypeOK'
BY WriteTypes DEF WrittenBlind

(* A step of the tool that only reads.                                     *)
LEMMA KeptTypes ==
  ASSUME BiosTypeOK, ToolOnly, UNCHANGED <<vpd, histVars>>
  PROVE  BiosTypeOK'
<1>1. HistOK /\ vpd' \in [Side -> KeywordValue] /\ kw' = kw
  BY DEF BiosTypeOK, HistOK, ToolOnly
<1> QED BY <1>1, HistoryTypes, ToolStepTypes

(* The variables of the tool.                                              *)
ToolOK ==
  /\ pc \in ToolPc
  /\ value \in KeywordValue \cup {Unset}
  /\ pc \in {"clean", "cleanSync"} => value # Unset
  /\ found \in [Side -> KeywordValue \cup {Unset}]
  /\ stale \subseteq Attr
  /\ touched \in BOOLEAN
  /\ used \in Side

(* The end of a command.                                                   *)
LEMMA IdleTypes ==
  ASSUME kw' = kw, Idle
  PROVE  ToolOK'
BY SameSets DEF Idle, ToolOK, ToolPc, Side

(* What fixSystemVPD has found is there when it is offered or written.      *)
FoundOK ==
  /\ pc = "fetchDestination" => found["source"] \in KeywordValue
  /\ pc \in {"menu", "more", "fixed"} => found \in [Side -> KeywordValue]

TypeInv == TypeOK /\ FoundOK

(* Every step keeps the types: what the tool writes is a default, what it  *)
(* has read, or what its user gave.                                        *)
LEMMA TypeInductive ==
  ASSUME TypeInv, [Next]_vars
  PROVE  TypeInv'
<1>0. /\ BiosTypeOK /\ ToolOK /\ FoundOK /\ kw \in KeywordName
      /\ vpd \in [Side -> KeywordValue]
  BY BiosAssumption DEF TypeInv, TypeOK, ToolOK, BiosTypeOK
<1> SUFFICES BiosTypeOK' /\ ToolOK' /\ FoundOK'
  BY DEF TypeInv, TypeOK, ToolOK
<1>1. CASE CleanSystemVpd
  <2>1. BiosTypeOK'
    BY <1>0, <1>1, KeptTypes DEF CleanSystemVpd
  <2>2. ToolOnly /\ UNCHANGED <<found, touched, used>> /\ kw' = kw
    BY <1>1 DEF CleanSystemVpd, ToolOnly
  <2>3. Attr' = Attr /\ KeywordValue' = KeywordValue
    BY <2>2, SameSets
  <2>4. ASSUME pc' = "clean", value' = Default, stale' = {}
        PROVE  ToolOK' /\ FoundOK'
    <3>1. Default \in KeywordValue /\ Default # Unset
      BY <1>0, Defaults, NoValueIsUnset
    <3> QED BY <1>0, <2>2, <2>3, <2>4, <3>1 DEF ToolOK, ToolPc, FoundOK
  <2>5. ASSUME UNCHANGED <<pc, value, stale>>
        PROVE  ToolOK' /\ FoundOK'
    BY <1>0, <2>2, <2>3, <2>5 DEF ToolOK, FoundOK
  <2>6. ASSUME NEW as \in SUBSET Attr, ~Skipped(ToolValue(as)),
               pc' = "cleanSync", value' = ToolValue(as),
               stale' = {a \in Attr : a \notin as \/ pending[a] # Unset}
        PROVE  ToolOK' /\ FoundOK'
    <3>1. as # {}
      <4>1. ToolValue({}) = Unset
        BY DEF ToolValue
      <4> QED BY <2>6, <4>1 DEF Skipped
    <3>2. ToolValue(as) \in KeywordValue /\ ToolValue(as) # Unset
      BY <1>0, <3>1, ToolValueAgrees, NoValueIsUnset DEF BiosTypeOK
    <3>3. stale' \subseteq Attr
      BY <2>6
    <3> QED BY <1>0, <2>2, <2>3, <2>6, <3>2, <3>3 DEF ToolOK, ToolPc, FoundOK
  <2>7. \/ pc' = "clean" /\ value' = Default /\ stale' = {}
        \/ \E as \in SUBSET Attr :
             IF Skipped(ToolValue(as))
             THEN UNCHANGED <<pc, value, stale>>
             ELSE /\ pc' = "cleanSync"
                  /\ value' = ToolValue(as)
                  /\ stale' = {a \in Attr : a \notin as \/ pending[a] # Unset}
    BY <1>1, Zenon DEF CleanSystemVpd
  <2>8. ToolOK' /\ FoundOK'
    BY <2>4, <2>5, <2>6, <2>7
  <2> QED BY <2>1, <2>8
<1>a. ASSUME kw' = kw, Idle
      PROVE  ToolOK' /\ FoundOK'
  BY <1>a, IdleTypes DEF Idle, FoundOK
<1>2. CASE CleanWrite
  <2>1. value \in KeywordValue /\ ToolOnly /\ kw' = kw /\ Idle
    BY <1>0, <1>2 DEF CleanWrite, ToolOK, ToolOnly
  <2> DEFINE as == IF pc = "clean" THEN {} ELSE Attr \ stale
  <2>2. as \in SUBSET Attr /\ WriteKeyword(value, WrittenFor(as))
    BY <1>2 DEF CleanWrite
  <2>3. BiosTypeOK'
    <3> HIDE DEF as
    <3> QED BY <1>0, <2>1, <2>2, WriteTypes
  <2> QED BY <1>a, <2>1, <2>3
<1>3. CASE FixSystemVpd
  <2>1. BiosTypeOK'
    BY <1>0, <1>3, KeptTypes DEF FixSystemVpd
  <2>2. Attr' = Attr /\ KeywordValue' = KeywordValue
    BY <1>3, SameSets DEF FixSystemVpd, ToolOnly
  <2>3. ToolOK' /\ FoundOK'
    BY <1>0, <1>3, <2>2 DEF FixSystemVpd, ToolOK, ToolPc, toolHist, FoundOK
  <2> QED BY <2>1, <2>3
<1>4. CASE FetchKeywordInfo
  <2>1. BiosTypeOK'
    BY <1>0, <1>4, KeptTypes DEF FetchKeywordInfo
  <2>2. Attr' = Attr /\ KeywordValue' = KeywordValue
    BY <1>4, SameSets DEF FetchKeywordInfo, ToolOnly
  <2>3. vpd["source"] \in KeywordValue /\ vpd["destination"] \in KeywordValue
    BY <1>0 DEF Side
  <2>4. /\ found' \in [Side -> KeywordValue \cup {Unset}]
        /\ pc' = "fetchDestination" => found'["source"] \in KeywordValue
        /\ pc' = "menu" => found' \in [Side -> KeywordValue]
    BY <1>0, <1>4, <2>3 DEF FetchKeywordInfo, ToolOK, FoundOK, Side
  <2>5. /\ pc' \in {"fetchDestination", "menu"} /\ touched' \in BOOLEAN
        /\ UNCHANGED <<value, stale, used>>
    BY <1>0, <1>4 DEF FetchKeywordInfo, ToolOK
  <2>6. ToolOK' /\ FoundOK'
    BY <1>0, <2>2, <2>4, <2>5 DEF ToolOK, ToolPc, FoundOK
  <2> QED BY <2>1, <2>6
<1>5. CASE UpdateAllKeywords
  <2>1. ToolOnly /\ kw' = kw /\ pc = "menu"
    BY <1>5 DEF UpdateAllKeywords, ToolOnly
  <2>2. PICK s \in Side :
          /\ used' = s
          /\ IF found["source"] = found["destination"]
             THEN UNCHANGED <<vpd, histVars, touched>>
             ELSE \/ /\ WriteKeyword(Chosen(s), WrittenBlind)
                     /\ touched' = (touched \/ vpd' # Updated(Chosen(s)))
    BY <1>5, Zenon DEF UpdateAllKeywords
  <2>3. BiosTypeOK'
    <3>1. CASE found["source"] = found["destination"]
      BY <1>0, <2>1, <2>2, <3>1, KeptTypes
    <3>2. CASE found["source"] # found["destination"]
      <4>1. Chosen(s) \in KeywordValue
        BY <1>0, <2>1 DEF FoundOK, Chosen
      <4> QED BY <1>0, <2>1, <2>2, <3>2, <4>1, BlindWriteTypes
    <3> QED BY <3>1, <3>2
  <2>4. touched' \in BOOLEAN /\ used' \in Side
    BY <1>0, <2>2 DEF ToolOK
  <2>5. Attr' = Attr /\ KeywordValue' = KeywordValue
    BY <2>1, SameSets
  <2>6. ToolOK' /\ FoundOK'
    BY <1>0, <1>5, <2>4, <2>5 DEF UpdateAllKeywords, ToolOK, ToolPc, FoundOK
  <2> QED BY <2>3, <2>6
<1>6. CASE HandleMoreOption
  <2>1. ToolOnly /\ kw' = kw /\ pc \in {"menu", "more"}
    BY <1>6 DEF HandleMoreOption, ToolOnly
  <2>2. PICK v \in {found[s] : s \in Side} \cup KeywordValue :
          WriteKeyword(v, WrittenBlind)
    BY <1>6 DEF HandleMoreOption
  <2>3. v \in KeywordValue
    BY <1>0, <2>1, <2>2 DEF FoundOK
  <2>4. BiosTypeOK'
    BY <1>0, <2>1, <2>2, <2>3, BlindWriteTypes
  <2>5. Attr' = Attr /\ KeywordValue' = KeywordValue
    BY <2>1, SameSets
  <2>6. ToolOK' /\ FoundOK'
    BY <1>0, <1>6, <2>5
       DEF HandleMoreOption, ToolOK, ToolPc, toolHist, FoundOK
  <2> QED BY <2>4, <2>6
<1>7. CASE Exit
  <2>1. BiosTypeOK'
    BY <1>0, <1>7, KeptTypes DEF Exit
  <2> QED BY <1>7, <1>a, <2>1 DEF Exit, ToolOnly
<1>8. CASE ClientWrite
  <2>1. ToolOnly /\ kw' = kw
    BY <1>8 DEF ClientWrite, ToolOnly
  <2>2. BiosTypeOK'
    BY <1>0, <1>8, <2>1, BlindWriteTypes DEF ClientWrite
  <2>3. Attr' = Attr /\ KeywordValue' = KeywordValue
    BY <2>1, SameSets
  <2>4. touched' \in BOOLEAN
    BY <1>0, <1>8 DEF ClientWrite, ToolOK
  <2>5. ToolOK' /\ FoundOK'
    BY <1>0, <1>8, <2>3, <2>4 DEF ClientWrite, ToolOK, FoundOK
  <2> QED BY <2>2, <2>5
<1>9. CASE OthersStep
  <2>1. BiosTypeOK' /\ kw' = kw
    BY <1>0, <1>9, BiosTypes
       DEF OthersStep, BiosNext, BackUpOrRestoreBiosAttributes,
           ListenBiosAttributes, BiosAttributesCallback, BiosChange,
           ApplyPending, PldmUp, PldmDown, Restart, FactoryReset
  <2>2. Attr' = Attr /\ KeywordValue' = KeywordValue
    BY <2>1, SameSets
  <2>3. /\ touched' \in BOOLEAN /\ stale' \subseteq Attr
        /\ UNCHANGED <<pc, value, found, used>>
    BY <1>0, <1>9 DEF OthersStep, ToolOK
  <2>4. ToolOK' /\ FoundOK'
    BY <1>0, <2>2, <2>3 DEF ToolOK, FoundOK
  <2> QED BY <2>1, <2>4
<1>10. CASE UNCHANGED vars
  <2>1. BiosTypeOK'
    <3>1. ToolOnly /\ UNCHANGED <<vpd, histVars>>
      BY <1>10 DEF vars, biosVars, ToolOnly
    <3> QED BY <1>0, <3>1, KeptTypes
  <2>2. kw' = kw /\ UNCHANGED <<pc, value, found, stale, touched, used>>
    BY <1>10 DEF vars, biosVars, toolVars, toolHist
  <2>3. Attr' = Attr /\ KeywordValue' = KeywordValue
    BY <2>2, SameSets
  <2>4. ToolOK' /\ FoundOK'
    BY <1>0, <2>2, <2>3 DEF ToolOK, FoundOK
  <2> QED BY <2>1, <2>4
<1> QED
  BY <1>1, <1>2, <1>3, <1>4, <1>5, <1>6, <1>7, <1>8, <1>9, <1>10 DEF Next

(* Whatever the keyword has when the system starts.                        *)
LEMMA InitTypes == ASSUME ToolInit PROVE TypeInv
<1>1. kw \in Keywords /\ kw \in KeywordName
  BY BiosAssumption DEF ToolInit, Init
<1>2. FactoryTable \in Table
  BY <1>1, Defaults
<1>3. signals \in Seq(Table) /\ Len(signals) <= MaxSignals
  <2>1. signals = <<>>
    BY DEF ToolInit, Init
  <2> QED BY <2>1, BiosAssumption
<1>4. mapped \in BOOLEAN
  BY DEF ToolInit, Init
<1>5. BiosTypeOK
  BY <1>1, <1>2, <1>3, <1>4 DEF ToolInit, Init, BiosTypeOK, NoPending
<1>6. ToolOK /\ FoundOK
  BY DEF ToolInit, ToolOK, ToolPc, Side, FoundOK
<1> QED BY <1>5, <1>6 DEF TypeInv, TypeOK, ToolOK

(* Every variable has its type, in vpd-manager and in vpd-tool: what is    *)
(* saved, restored, cleaned or fixed is always a value the keyword may     *)
(* have (bios_handler.cpp and vpd_tool.cpp).                               *)
THEOREM ToolTypeCorrect == Spec => []TypeOK
<1>1. ToolInit => TypeInv
  BY InitTypes
<1>2. TypeInv /\ [Next]_vars => TypeInv'
  BY TypeInductive
<1>3. TypeInv => TypeOK
  BY DEF TypeInv
<1> QED BY <1>1, <1>2, <1>3, PTL DEF Spec
-----------------------------------------------------------------------------
(* The handler is done with the attribute and follows its changes.         *)
Active(a) == handler = "listening" \/ (handler = "sync" /\ a \notin todo)

(* What an attribute has once the host has taken what is pending.          *)
Eventual(a) == IF pending[a] = Unset THEN base[a] ELSE pending[a]

Agrees(a, v) ==
  /\ kw = "BA" \/ vpd["source"] # Default
  /\ Kept(a, v) = Restored(a, vpd["source"])

(* It is v, or what can be kept of v.                                      *)
Survives(a, v, w) == w = v \/ w = Kept(a, v)

(* Only a handler that listens has tables that wait, and the last of them  *)
(* is the table as it is.                                                  *)
QueueInv ==
  signals # <<>> => /\ handler = "listening"
                    /\ signals[Len(signals)] = base

(* An attribute in step with its keyword agrees with it, or is going to be *)
(* signalled when the host takes what is pending.                          *)
AgreeOf(a) ==
  a \notin apart /\ Active(a) =>
    IF kw = "BA"
    THEN Agrees(a, Eventual(a))
    ELSE signals = <<>> => \/ Agrees(a, base[a])
                           \/ pending[a] # Unset /\ pending[a] # base[a]

(* What an attribute was set to is kept by the keyword until the handler   *)
(* has come to it, and from then on by what the attribute is going to be.  *)
ChoiceOf(a) ==
  a \notin excused =>
    IF Active(a)
    THEN /\ Survives(a, choice[a], Eventual(a))
         /\ signals = <<>> \/ kw = "BA" => a \notin apart
    ELSE Agrees(a, choice[a])

InStepInv == \A a \in Attr : AgreeOf(a) /\ ChoiceOf(a)

(* The last of a queue, when one is added and when the first is taken.     *)
LEMMA LastOfAppend ==
  ASSUME NEW S, NEW s \in Seq(S), NEW e \in S
  PROVE  /\ Append(s, e) # <<>>
         /\ Append(s, e)[Len(Append(s, e))] = e
<1>1. Len(Append(s, e)) = Len(s) + 1 /\ Len(s) \in Nat
  OBVIOUS
<1>2. Append(s, e)[Len(s) + 1] = e
  OBVIOUS
<1> QED BY <1>1, <1>2

(* The last stays the last while others wait; a single one is the first.   *)
LEMMA LastOfTail ==
  ASSUME NEW S, NEW s \in Seq(S), s # <<>>
  PROVE  /\ Len(s) <= 1 <=> Tail(s) = <<>>
         /\ Tail(s) = <<>> => Head(s) = s[Len(s)]
         /\ Tail(s) # <<>> => Tail(s)[Len(Tail(s))] = s[Len(s)]
<1>1. Len(s) \in Nat /\ Len(s) > 0 /\ Len(Tail(s)) = Len(s) - 1
  OBVIOUS
<1>2. Tail(s) \in Seq(S) /\ (Tail(s) = <<>> <=> Len(Tail(s)) = 0)
  <2>1. Tail(s) \in Seq(S)
    OBVIOUS
  <2>2. \A t \in Seq(S) : t = <<>> <=> Len(t) = 0
    OBVIOUS
  <2> QED BY <2>1, <2>2
<1>3. Len(s) <= 1 <=> Tail(s) = <<>>
  BY <1>1, <1>2
<1>4. Head(s) = s[1]
  OBVIOUS
<1>5. \A i \in 1 .. Len(Tail(s)) : Tail(s)[i] = s[i + 1]
  OBVIOUS
<1>6. Tail(s) # <<>> => Tail(s)[Len(Tail(s))] = s[Len(s)]
  <2>1. SUFFICES ASSUME Tail(s) # <<>>
                 PROVE  Tail(s)[Len(Tail(s))] = s[Len(s)]
    OBVIOUS
  <2>2. Len(Tail(s)) \in 1 .. Len(Tail(s)) /\ Len(Tail(s)) + 1 = Len(s)
    BY <1>1, <1>2, <2>1
  <2> QED BY <1>5, <2>2
<1>7. Tail(s) = <<>> => Head(s) = s[Len(s)]
  BY <1>1, <1>3, <1>4
<1> QED BY <1>3, <1>6, <1>7

(* A table that is signalled is the last one that waits.                   *)
LEMMA SignalKeeps ==
  ASSUME BiosTypeOK, QueueInv, base' \in Table, Signal(base'),
         handler' = handler
  PROVE  /\ QueueInv'
         /\ handler = "listening" => signals' # <<>>
<1>1. CASE handler = "listening"
  <2>1. signals' = Append(signals, base') /\ signals \in Seq(Table)
    BY <1>1 DEF Signal, BiosTypeOK
  <2>2. signals' # <<>> /\ signals'[Len(signals')] = base'
    BY <2>1, LastOfAppend
  <2> QED BY <1>1, <2>2 DEF QueueInv
<1>2. CASE handler # "listening"
  BY <1>2 DEF Signal, QueueInv
<1> QED BY <1>1, <1>2

(* Every change of the table is signalled to a handler that listens.       *)
LEMMA QueueKept ==
  ASSUME BiosTypeOK, QueueInv, BiosNext
  PROVE  QueueInv'
<1>1. CASE BackUpOrRestoreBiosAttributes
  BY <1>1 DEF BackUpOrRestoreBiosAttributes, QueueInv
<1>2. CASE ListenBiosAttributes
  BY <1>2 DEF ListenBiosAttributes, QueueInv, envVars
<1>3. CASE BiosAttributesCallback
  <2>1. /\ signals \in Seq(Table) /\ signals # <<>> /\ signals' = Tail(signals)
        /\ base' = base /\ handler = "listening" /\ handler' = handler
    BY <1>3 DEF BiosAttributesCallback, BiosTypeOK
  <2>2. signals' # <<>> => signals'[Len(signals')] = signals[Len(signals)]
    BY <2>1, LastOfTail
  <2> QED BY <2>1, <2>2 DEF QueueInv
<1>4. CASE BiosChange
  <2>1. base' \in Table /\ Signal(base') /\ handler' = handler
    BY <1>4 DEF BiosChange, BiosTypeOK, Table
  <2> QED BY <2>1, SignalKeeps
<1>5. CASE ApplyPending
  <2>1. base' \in Table /\ handler' = handler
    BY <1>5 DEF ApplyPending, BiosTypeOK, Table
  <2>2. CASE base' # base
    BY <1>5, <2>1, <2>2, SignalKeeps DEF ApplyPending
  <2>3. CASE base' = base
    BY <1>5, <2>1, <2>3 DEF ApplyPending, QueueInv
  <2> QED BY <2>2, <2>3
<1>6. CASE PldmUp
  BY <1>6 DEF PldmUp, QueueInv, CheckAndListenPldmService
<1>7. CASE PldmDown
  BY <1>7 DEF PldmDown, QueueInv
<1>8. CASE Restart
  BY <1>8 DEF Restart, QueueInv
<1>9. CASE FactoryReset
  BY <1>9 DEF FactoryReset, QueueInv
<1> QED BY <1>1, <1>2, <1>3, <1>4, <1>5, <1>6, <1>7, <1>8, <1>9 DEF BiosNext

(* A step that does not concern the attribute b.                           *)
LEMMA NotConcerned ==
  ASSUME NEW b \in Attr, AgreeOf(b), ChoiceOf(b), UNCHANGED <<kw, vpd>>,
         base'[b] = base[b], pending'[b] = pending[b], choice'[b] = choice[b],
         b \in apart' <=> b \in apart, b \in excused' <=> b \in excused,
         Active(b)' <=> Active(b), signals' = <<>> => signals = <<>>
  PROVE  AgreeOf(b)' /\ ChoiceOf(b)'
<1>1. /\ Eventual(b)' = Eventual(b)
      /\ Agrees(b, base[b])' <=> Agrees(b, base[b])
      /\ Agrees(b, Eventual(b))' <=> Agrees(b, Eventual(b))
      /\ Agrees(b, choice[b])' <=> Agrees(b, choice[b])
  BY SameSets DEF Eventual, Agrees, Kept, Restored
<1>2. AgreeOf(b)'
  BY <1>1 DEF AgreeOf
<1>3. ChoiceOf(b)'
  BY <1>1 DEF ChoiceOf, Survives
<1> QED BY <1>2, <1>3

(* An attribute that is excused from both.                                 *)
LEMMA ExcusedKeeps ==
  ASSUME NEW b, b \in apart', b \in excused'
  PROVE  AgreeOf(b)' /\ ChoiceOf(b)'
BY DEF AgreeOf, ChoiceOf

(* The handler comes to an attribute for the first time.                   *)
LEMMA SyncKeeps ==
  ASSUME BiosTypeOK, QueueInv, InStepInv, BackUpOrRestoreBiosAttributes
  PROVE  InStepInv'
<1>0. /\ kw \in KeywordName /\ kw' = kw
      /\ handler = "sync" /\ handler' = handler
      /\ signals = <<>> /\ signals' = signals /\ base' = base
      /\ Attr' = Attr /\ Default' = Default
  BY BiosAssumption, SameSets
     DEF BackUpOrRestoreBiosAttributes, BiosTypeOK, QueueInv
<1>1. PICK a \in todo : /\ todo' = todo \ {a}
                        /\ Restore(a) \/ Backup(a) \/ LeaveBig(a)
  BY DEF BackUpOrRestoreBiosAttributes
<1>2. /\ a \in Attr /\ vpd["source"] \in KeywordValue /\ base[a] \in AttrValue
      /\ base[a] # Unset
  BY <1>0, <1>1, NoValueIsUnset DEF BiosTypeOK, Side, Table
<1>3. ~Active(a) /\ Active(a)'
  BY <1>0, <1>1 DEF Active
<1>4. AgreeOf(a)' /\ ChoiceOf(a)'
  <2>1. CASE OutOfStep({a})
    BY <2>1, ExcusedKeeps DEF OutOfStep
  <2>a. PICK r : r = Restored(a, vpd["source"])
    OBVIOUS
  <2>2. CASE /\ RestoresFirst(vpd["source"])
             /\ pending' = [pending EXCEPT ![a] = r]
             /\ InStep(a, r)
             /\ UNCHANGED vpd
    <3>1. /\ r \in AttrValue /\ r # Unset /\ Kept(a, r) = r
          /\ kw = "BA" \/ vpd["source"] # Default
      BY <1>0, <1>2, <2>2, <2>a, RestoredAgrees, NoValueIsUnset
    <3>2. pending'[a] = r
      BY <1>2, <2>2 DEF BiosTypeOK
    <3>3. Eventual(a)' = r
      BY <3>1, <3>2 DEF Eventual
    <3>4. Agrees(a, r)'
      <4>1. Restored(a, vpd'["source"]) = r /\ Default' = Default
        BY <1>0, <2>2, <2>a
      <4>2. kw = "BA" \/ vpd'["source"] # Default
        BY <2>2, <3>1
      <4>3. Restored(a, vpd["source"])' = r
        BY <4>1 DEF Restored
      <4> QED BY <1>0, <3>1, <4>1, <4>2, <4>3 DEF Agrees, Kept
    <3>5. AgreeOf(a)'
      <4>1. CASE base'[a] = r
        BY <3>3, <3>4, <4>1 DEF AgreeOf
      <4>2. CASE base'[a] # r
        BY <3>1, <3>2, <3>3, <3>4, <4>2 DEF AgreeOf
      <4> QED BY <4>1, <4>2
    <3>6. Survives(a, choice'[a], r)
      <4>1. CASE a \in excused
        <5>1. choice'[a] = r
          BY <1>2, <2>2, <4>1 DEF InStep, BiosTypeOK, Table
        <5> QED BY <5>1 DEF Survives
      <4>2. CASE a \notin excused
        <5>1. Agrees(a, choice[a]) /\ choice' = choice
          BY <1>2, <1>3, <2>2, <4>2 DEF InStepInv, ChoiceOf, InStep
        <5> QED BY <2>a, <5>1 DEF Agrees, Survives
      <4> QED BY <4>1, <4>2
    <3>7. a \notin apart'
      BY <2>2 DEF InStep
    <3>8. ChoiceOf(a)'
      BY <1>3, <3>3, <3>6, <3>7 DEF ChoiceOf, Survives
    <3> QED BY <3>5, <3>8
  <2>3. CASE /\ ~RestoresFirst(vpd["source"]) /\ kw # "BA"
             /\ vpd'["source"] = Saved(a, base[a])
             /\ SavedInStep(a, base[a])
             /\ UNCHANGED pending
    <3>1. a \in excused
      <4>1. vpd["source"] = Default
        BY <1>0, <2>3
           DEF RestoresFirst, Default, KeywordName
      <4> QED BY <1>2, <1>3, <2>3, <4>1 DEF InStepInv, ChoiceOf, Agrees
    <3>2. Agrees(a, base[a])'
      BY <1>0, <1>2, <2>3, SavedAgrees DEF Agrees, Kept, Restored
    <3>3. AgreeOf(a)'
      BY <1>0, <2>3, <3>2 DEF AgreeOf
    <3>4. CASE pending[a] = Unset
      <4>1. InStep(a, base[a])
        BY <1>0, <2>3, <3>4 DEF SavedInStep
      <4>2. choice'[a] = base[a] /\ a \notin apart'
        BY <1>2, <3>1, <4>1 DEF InStep, BiosTypeOK, Table
      <4>3. Eventual(a)' = base[a]
        BY <1>0, <2>3, <3>4 DEF Eventual
      <4> QED BY <1>3, <3>3, <4>2, <4>3 DEF ChoiceOf, Survives
    <3>5. CASE pending[a] # Unset
      BY <2>3, <3>1, <3>3, <3>5 DEF SavedInStep, ChoiceOf
    <3> QED BY <3>4, <3>5
  <2>4. CASE Restore(a)
    BY <2>1, <2>2, <2>4, <2>a DEF Restore
  <2>5. CASE Backup(a)
    <3>1. ASSUME UpdateKeyword(Saved(a, base[a]), TRUE)
          PROVE  vpd'["source"] = Saved(a, base[a])
      BY <3>1 DEF UpdateKeyword, Updated, Side, BiosTypeOK
    <3> QED BY <2>1, <2>3, <2>5, <3>1 DEF Backup
  <2>6. CASE LeaveBig(a)
    BY <2>1, <2>6 DEF LeaveBig
  <2> QED BY <1>1, <2>4, <2>5, <2>6
<1>5. ASSUME NEW b \in Attr, b # a
      PROVE  AgreeOf(b)' /\ ChoiceOf(b)'
  <2>1. kw = "BA"
    BY <1>0, <1>2, <1>5, Defaults
  <2>2. Restore(a) \/ LeaveBig(a)
    BY <1>1, <2>1 DEF Backup
  <2>3. /\ vpd' = vpd /\ pending'[b] = pending[b] /\ choice'[b] = choice[b]
        /\ b \in apart' <=> b \in apart
        /\ b \in excused' <=> b \in excused
    BY <1>5, <2>2
       DEF Restore, LeaveBig, OutOfStep, InStep, BiosTypeOK, Table
  <2>4. Active(b)' <=> Active(b)
    BY <1>0, <1>1, <1>5 DEF Active
  <2> QED BY <1>0, <2>3, <2>4, NotConcerned DEF InStepInv
<1> QED BY <1>0, <1>4, <1>5 DEF InStepInv

(* A table that waited is saved; the last one is the table as it is.       *)
LEMMA CallbackKeeps ==
  ASSUME BiosTypeOK, QueueInv, InStepInv, BiosAttributesCallback
  PROVE  InStepInv'
<1>0. /\ kw \in KeywordName /\ kw' = kw /\ handler = "listening"
      /\ signals # <<>> /\ signals' = Tail(signals)
      /\ UNCHANGED <<base, pending, handler, todo>>
      /\ Attr' = Attr /\ Default' = Default
  BY BiosAssumption, SameSets DEF BiosAttributesCallback, BiosTypeOK
<1>1. /\ Len(signals) <= 1 <=> signals' = <<>>
      /\ signals' = <<>> => Head(signals) = base
      /\ Head(signals) \in Table
  BY <1>0, LastOfTail DEF BiosTypeOK, QueueInv
<1>2. ASSUME NEW b \in Attr
      PROVE  Active(b) /\ Active(b)' /\ Eventual(b)' = Eventual(b)
  BY <1>0 DEF Active, Eventual
<1>3. CASE kw = "BA"
  <2>1. UNCHANGED <<vpd, apart, choice, excused>>
    BY <1>3 DEF BiosAttributesCallback, histVars
  <2>2. ASSUME NEW b \in Attr
        PROVE  AgreeOf(b)' /\ ChoiceOf(b)'
    <3>1. AgreeOf(b) /\ ChoiceOf(b)
      BY DEF InStepInv
    <3>2. AgreeOf(b)'
      BY <1>0, <1>2, <1>3, <2>1, <3>1 DEF AgreeOf, Agrees, Kept, Restored
    <3>3. ChoiceOf(b)'
      BY <1>0, <1>2, <1>3, <2>1, <3>1 DEF ChoiceOf, Survives
    <3> QED BY <3>2, <3>3
  <2> QED BY <1>0, <2>2 DEF InStepInv
<1>4. CASE kw # "BA"
  <2>1. PICK a \in Attr, v \in AttrValue : v = Head(signals)[a] /\ Save(a, v)
    <3>1. PICK a \in Attr : Save(a, Head(signals)[a])
      BY <1>4 DEF BiosAttributesCallback
    <3>2. Head(signals)[a] \in AttrValue
      BY <1>1 DEF Table
    <3> QED BY <3>1, <3>2
  <2>2. ASSUME OutOfStep({a})
        PROVE  AgreeOf(a)' /\ ChoiceOf(a)'
    BY <2>2, ExcusedKeeps DEF OutOfStep
  <2>3. ASSUME vpd'["source"] = Saved(a, v), SavedInStep(a, v)
        PROVE  AgreeOf(a)' /\ ChoiceOf(a)'
    <3>1. Agrees(a, v)'
      BY <1>0, <1>4, <2>3, SavedAgrees DEF Agrees, Kept, Restored
    <3>2. signals' = <<>> => v = base[a]
      BY <1>0, <1>1, <2>1
    <3>3. AgreeOf(a)'
      BY <1>0, <1>4, <3>1, <3>2 DEF AgreeOf
    <3>4. a \notin apart'
      BY <2>3 DEF SavedInStep, InStep
    <3>5. ChoiceOf(a)'
      <4>1. CASE a \notin excused
        <5>1. choice' = choice
          BY <2>3, <4>1 DEF SavedInStep, InStep
        <5> QED BY <1>2, <3>4, <4>1, <5>1 DEF InStepInv, ChoiceOf, Survives
      <4>2. CASE a \in excused /\ a \notin excused'
        <5>1. pending[a] = Unset /\ signals' = <<>> /\ InStep(a, v)
          BY <1>1, <2>3, <4>2 DEF SavedInStep
        <5>2. choice'[a] = v /\ v = base[a]
          BY <1>0, <3>2, <4>2, <5>1 DEF InStep, BiosTypeOK, Table
        <5>3. Eventual(a)' = base[a]
          BY <1>0, <5>1 DEF Eventual
        <5> QED BY <1>2, <3>4, <5>2, <5>3 DEF ChoiceOf, Survives
      <4>3. CASE a \in excused'
        BY <4>3 DEF ChoiceOf
      <4> QED BY <4>1, <4>2, <4>3
    <3> QED BY <3>3, <3>5
  <2>4. ASSUME UpdateKeyword(Saved(a, v), TRUE)
        PROVE  vpd'["source"] = Saved(a, v)
    BY <2>4 DEF UpdateKeyword, Updated, Side, BiosTypeOK
  <2>5. AgreeOf(a)' /\ ChoiceOf(a)'
    BY <2>1, <2>2, <2>3, <2>4 DEF Save
  <2>6. \A b \in Attr : b = a
    BY <1>0, <1>4, Defaults
  <2> QED BY <1>0, <2>5, <2>6 DEF InStepInv
<1> QED BY <1>3, <1>4

(* Somebody sets an attribute: one that the handler follows is signalled.  *)
LEMMA ChangeKeeps ==
  ASSUME BiosTypeOK, QueueInv, InStepInv, BiosChange
  PROVE  InStepInv'
<1>0. /\ kw \in KeywordName /\ Attr' = Attr
      /\ UNCHANGED <<kw, mapped, vpd, pending, pldm, handler, todo>>
  BY BiosAssumption, SameSets DEF BiosChange, BiosTypeOK
<1>1. PICK a \in Attr, v \in AttrValue :
        /\ base' = [base EXCEPT ![a] = v]
        /\ Signal(base')
        /\ IF v = base[a]
           THEN UNCHANGED histVars
           ELSE /\ choice' = [choice EXCEPT ![a] = v]
                /\ LET lost == \/ handler # "listening"
                               \/ pending[a] # Unset
                               \/ kw = "BA"
                   IN /\ excused' = IF lost THEN excused \cup {a}
                                    ELSE excused \ {a}
                      /\ apart' = IF lost THEN apart \cup {a} ELSE apart
  BY DEF BiosChange
<1>2. signals' = <<>> => signals = <<>> /\ handler # "listening"
  <2>1. base' \in Table
    BY <1>1 DEF BiosTypeOK, Table
  <2> QED BY <1>0, <1>1, <2>1, SignalKeeps DEF QueueInv
<1>3. \A b \in Attr : Active(b)' <=> Active(b)
  BY <1>0 DEF Active
<1>4. CASE v = base[a]
  <2>1. base' = base
    BY <1>1, <1>4 DEF BiosTypeOK, Table
  <2>2. ASSUME NEW b \in Attr
        PROVE  AgreeOf(b)' /\ ChoiceOf(b)'
    BY <1>0, <1>1, <1>2, <1>3, <1>4, <2>1, NotConcerned
       DEF InStepInv, histVars
  <2> QED BY <1>0, <2>2 DEF InStepInv
<1>5. CASE v # base[a]
  <2>1. ASSUME NEW b \in Attr, b # a
        PROVE  AgreeOf(b)' /\ ChoiceOf(b)'
    <3>1. /\ base'[b] = base[b] /\ choice'[b] = choice[b]
          /\ b \in apart' <=> b \in apart
          /\ b \in excused' <=> b \in excused
      BY <1>1, <1>5, <2>1 DEF BiosTypeOK, Table
    <3> QED BY <1>0, <1>2, <1>3, <2>1, <3>1, NotConcerned DEF InStepInv
  <2>2. AgreeOf(a)' /\ ChoiceOf(a)'
    <3>1. CASE handler # "listening" \/ pending[a] # Unset \/ kw = "BA"
      BY <1>1, <1>5, <3>1, ExcusedKeeps
    <3>2. CASE handler = "listening" /\ pending[a] = Unset /\ kw # "BA"
      <4>1. signals' # <<>>
        BY <1>2, <3>2
      <4>2. Active(a)' /\ kw' # "BA"
        BY <1>0, <3>2 DEF Active
      <4>3. Eventual(a)' = v /\ choice'[a] = v
        BY <1>0, <1>1, <1>5, <3>2 DEF Eventual, BiosTypeOK, Table
      <4>4. AgreeOf(a)'
        BY <4>1, <4>2 DEF AgreeOf
      <4>5. ChoiceOf(a)'
        BY <4>1, <4>2, <4>3 DEF ChoiceOf, Survives
      <4> QED BY <4>4, <4>5
    <3> QED BY <3>1, <3>2
  <2> QED BY <1>0, <2>1, <2>2 DEF InStepInv
<1> QED BY <1>4, <1>5

(* The host takes what is pending: what an attribute was going to have it  *)
(* has now.                                                                *)
LEMMA ApplyKeeps ==
  ASSUME BiosTypeOK, QueueInv, InStepInv, ApplyPending
  PROVE  InStepInv'
<1>0. /\ Attr' = Attr /\ Default' = Default
      /\ UNCHANGED <<kw, mapped, vpd, pldm, handler, todo>>
  BY SameSets DEF ApplyPending
<1>1. ASSUME NEW b \in Attr
      PROVE  AgreeOf(b)' /\ ChoiceOf(b)'
  <2>1. base'[b] = Eventual(b) /\ pending'[b] = Unset
    BY DEF ApplyPending, NoPending, Eventual
  <2>2. Eventual(b)' = Eventual(b)
    BY <2>1 DEF Eventual
  <2>3. Active(b)' <=> Active(b)
    BY <1>0 DEF Active
  <2>4. /\ \A x : Agrees(b, x)' <=> Agrees(b, x)
        /\ AgreeOf(b) /\ ChoiceOf(b)
    BY <1>0 DEF Agrees, Kept, Restored, InStepInv
  <2>5. CASE handler = "listening"
    <3>1. UNCHANGED <<apart, choice, excused>>
      BY <2>5 DEF ApplyPending, histVars
    <3>2. signals' = <<>> => signals = <<>> /\ base' = base
      <4>1. CASE base' # base
        <5>1. base' \in Table
          BY DEF ApplyPending, BiosTypeOK, Table
        <5> QED BY <1>0, <2>5, <4>1, <5>1, SignalKeeps DEF ApplyPending
      <4>2. CASE base' = base
        BY <4>2 DEF ApplyPending
      <4> QED BY <4>1, <4>2
    <3>3. AgreeOf(b)'
      <4>1. ASSUME b \notin apart', Active(b)', kw' = "BA"
            PROVE  Agrees(b, Eventual(b))'
        <5>1. Agrees(b, Eventual(b))
          BY <1>0, <2>3, <2>4, <3>1, <4>1 DEF AgreeOf
        <5> QED BY <1>0, <2>2, <5>1 DEF Agrees, Kept, Restored
      <4>2. ASSUME b \notin apart', Active(b)', kw' # "BA", signals' = <<>>
            PROVE  Agrees(b, base[b])'
        <5>1. \/ Agrees(b, base[b])
              \/ pending[b] # Unset /\ pending[b] # base[b]
          BY <1>0, <2>3, <2>4, <3>1, <3>2, <4>2 DEF AgreeOf
        <5>2. base' = base /\ base[b] = Eventual(b)
          BY <2>1, <3>2, <4>2
        <5>3. Agrees(b, base[b])
          BY <5>1, <5>2 DEF Eventual
        <5> QED BY <1>0, <5>2, <5>3 DEF Agrees, Kept, Restored
      <4> QED BY <4>1, <4>2 DEF AgreeOf
    <3>4. ASSUME b \notin excused'
          PROVE  /\ Survives(b, choice[b], Eventual(b))'
                 /\ signals' = <<>> \/ kw' = "BA" => b \notin apart'
      <4>1. Active(b)
        BY <2>5 DEF Active
      <4> QED BY <1>0, <2>2, <2>4, <3>1, <3>2, <3>4, <4>1
              DEF ChoiceOf, Survives
    <3>5. Active(b)'
      BY <1>0, <2>5 DEF Active
    <3>6. ChoiceOf(b)'
      BY <3>4, <3>5 DEF ChoiceOf
    <3> QED BY <3>3, <3>6
  <2>6. CASE handler # "listening"
    <3>1. OutOfStep({a \in Attr : base'[a] # base[a]})
      BY <2>6 DEF ApplyPending
    <3>2. CASE base'[b] # base[b]
      BY <3>1, <3>2, ExcusedKeeps DEF OutOfStep
    <3>3. CASE base'[b] = base[b]
      <4>1. /\ b \in apart' <=> b \in apart
            /\ b \in excused' <=> b \in excused
            /\ choice' = choice
        BY <3>1, <3>3 DEF OutOfStep
      <4>2. signals = <<>>
        BY <2>6 DEF QueueInv
      <4>3. base[b] = Eventual(b)
        BY <2>1, <3>3
      <4>4. b \notin apart /\ Active(b) => Agrees(b, base[b])
        BY <2>4, <4>2, <4>3 DEF AgreeOf, Eventual
      <4>5. Agrees(b, base[b])' <=> Agrees(b, base[b])
        BY <1>0, <3>3 DEF Agrees, Kept, Restored
      <4>6. Agrees(b, Eventual(b))' <=> Agrees(b, base[b])
        BY <1>0, <2>2, <4>3 DEF Agrees, Kept, Restored
      <4>7. AgreeOf(b)'
        BY <2>3, <4>1, <4>4, <4>5, <4>6 DEF AgreeOf
      <4>8. Agrees(b, choice[b])' <=> Agrees(b, choice[b])
        BY <1>0, <4>1 DEF Agrees, Kept, Restored
      <4>9. ChoiceOf(b)'
        BY <1>0, <2>2, <2>3, <2>4, <4>1, <4>2, <4>8 DEF ChoiceOf, Survives
      <4> QED BY <4>7, <4>9
    <3> QED BY <3>2, <3>3
  <2> QED BY <2>5, <2>6
<1> QED BY <1>0, <1>1 DEF InStepInv

(* The handler starts over: what is not under way is in the keyword.       *)
LEMMA StartOverKeeps ==
  ASSUME BiosTypeOK, InStepInv, UNCHANGED <<kw, vpd>>,
         OutOfStep(Interrupted),
         handler' = "waiting" \/ (handler' = "sync" /\ todo' = Attr)
  PROVE  InStepInv'
<1>0. Attr' = Attr /\ Default' = Default /\ kw \in KeywordName
  BY SameSets, BiosAssumption DEF BiosTypeOK
<1>1. ASSUME NEW b \in Attr
      PROVE  AgreeOf(b)' /\ ChoiceOf(b)'
  <2>1. ~Active(b)'
    BY DEF Active
  <2>2. CASE b \in Interrupted
    BY <2>2, ExcusedKeeps DEF OutOfStep
  <2>3. CASE b \notin Interrupted /\ b \notin excused
    <3>1. signals = <<>> /\ pending[b] = Unset
      BY <2>3 DEF Interrupted
    <3>2. Agrees(b, choice[b])
      <4>1. CASE Active(b)
        <5>1. Survives(b, choice[b], base[b]) /\ b \notin apart
          BY <2>3, <3>1, <4>1 DEF InStepInv, ChoiceOf, Eventual
        <5>2. Agrees(b, base[b])
          BY <3>1, <4>1, <5>1 DEF InStepInv, AgreeOf, Eventual
        <5>3. Kept(b, base[b]) = Kept(b, choice[b])
          BY <1>0, <5>1, KeptTwice DEF Survives, BiosTypeOK, Table
        <5> QED BY <5>2, <5>3 DEF Agrees
      <4>2. CASE ~Active(b)
        BY <2>3, <4>2 DEF InStepInv, ChoiceOf
      <4> QED BY <4>1, <4>2
    <3>3. Agrees(b, choice[b])'
      BY <1>0, <3>2 DEF Agrees, Kept, Restored, OutOfStep
    <3> QED BY <2>1, <3>3 DEF AgreeOf, ChoiceOf
  <2>4. CASE b \notin Interrupted /\ b \in excused
    BY <2>1, <2>4 DEF OutOfStep, AgreeOf, ChoiceOf
  <2> QED BY <2>2, <2>3, <2>4
<1> QED BY <1>0, <1>1 DEF InStepInv

(* Every step of the handler and of the BIOS keeps what attribute and      *)
(* keyword have to do with each other.                                     *)
LEMMA InStepKept ==
  ASSUME BiosTypeOK, QueueInv, InStepInv, BiosNext
  PROVE  InStepInv'
<1>a. ASSUME UNCHANGED <<kw, vpd, base, pending, signals, histVars>>,
             \A b \in Attr : Active(b)' <=> Active(b)
      PROVE  InStepInv'
  <2>1. Attr' = Attr
    BY <1>a, SameSets
  <2>2. ASSUME NEW b \in Attr
        PROVE  AgreeOf(b)' /\ ChoiceOf(b)'
    BY <1>a, <2>2, NotConcerned DEF InStepInv, histVars
  <2> QED BY <2>1, <2>2 DEF InStepInv
<1>1. CASE BackUpOrRestoreBiosAttributes
  BY <1>1, SyncKeeps
<1>2. CASE ListenBiosAttributes
  BY <1>2, <1>a DEF ListenBiosAttributes, envVars, Active
<1>3. CASE BiosAttributesCallback
  BY <1>3, CallbackKeeps
<1>4. CASE BiosChange
  BY <1>4, ChangeKeeps
<1>5. CASE ApplyPending
  BY <1>5, ApplyKeeps
<1>6. CASE PldmUp
  BY <1>6, <1>a DEF PldmUp, CheckAndListenPldmService, Active
<1>7. CASE PldmDown
  BY <1>7, <1>a DEF PldmDown, Active
<1>8. CASE Restart
  BY <1>8, StartOverKeeps DEF Restart, CheckAndListenPldmService
<1>9. CASE FactoryReset
  BY <1>9, StartOverKeeps DEF FactoryReset, CheckAndListenPldmService
<1> QED BY <1>1, <1>2, <1>3, <1>4, <1>5, <1>6, <1>7, <1>8, <1>9 DEF BiosNext
-----------------------------------------------------------------------------
(* What mfgClean is about to write agrees with the attributes that did not *)
(* change since it read them.                                              *)
CleanInv ==
  pc = "cleanSync" =>
    \A a \in Attr \ stale :
      /\ pending[a] = Unset
      /\ kw = "BA" \/ value # Default
      /\ Kept(a, base[a]) = Restored(a, value)

(* What fixSystemVPD has found is what is there, until others write.       *)
FixInv ==
  /\ pc # "idle" => mapped
  /\ ~touched /\ pc \in {"fetchDestination", "menu"}
       => vpd["source"] = found["source"]
  /\ ~touched /\ pc = "menu" => vpd["destination"] = found["destination"]
  /\ FixLeavesNoMismatch

IInv == TypeInv /\ QueueInv /\ InStepInv /\ CleanInv /\ FixInv

(* The tool leaves the attributes alone, and excuses those that the value  *)
(* it writes does not agree with.                                          *)
LEMMA ToolKeepsQueue ==
  ASSUME QueueInv, ToolOnly
  PROVE  QueueInv'
BY DEF ToolOnly, QueueInv, envVars

(* A step of the tool that only reads.                                     *)
LEMMA ToolKeepsInStep ==
  ASSUME InStepInv, ToolOnly, UNCHANGED <<vpd, histVars>>
  PROVE  InStepInv'
<1>1. /\ Attr' = Attr /\ UNCHANGED <<kw, vpd, base, pending, signals>>
      /\ UNCHANGED <<apart, choice, excused>>
  BY SameSets DEF ToolOnly, envVars, histVars
<1>2. ASSUME NEW b \in Attr
      PROVE  AgreeOf(b)' /\ ChoiceOf(b)'
  <2>1. Active(b)' <=> Active(b)
    BY DEF ToolOnly, Active
  <2> QED BY <1>1, <2>1, NotConcerned DEF InStepInv
<1> QED BY <1>1, <1>2 DEF InStepInv

(* A write that agrees with the attributes as, and excuses the others.     *)
LEMMA WriteKeepsInStep ==
  ASSUME BiosTypeOK, InStepInv, ToolOnly, NEW v, NEW as \in SUBSET Attr,
         \A a \in as : /\ pending[a] = Unset
                       /\ kw = "BA" \/ v # Default
                       /\ Kept(a, base[a]) = Restored(a, v),
         WriteKeyword(v, WrittenFor(as))
  PROVE  InStepInv'
<1>1. CASE UNCHANGED vpd /\ UNCHANGED histVars
  BY <1>1, ToolKeepsInStep
<1>2. CASE vpd'["source"] = v /\ WrittenFor(as)
  <2>1. /\ Attr' = Attr /\ Default' = Default
        /\ UNCHANGED <<kw, base, pending>>
    BY SameSets DEF ToolOnly, envVars
  <2>2. ASSUME NEW b \in Attr
        PROVE  AgreeOf(b)' /\ ChoiceOf(b)'
    <3>1. CASE b \in as
      <4>1. Agrees(b, base[b])'
        BY <1>2, <2>1, <3>1 DEF Agrees, Kept, Restored
      <4>2. Eventual(b)' = base'[b]
        BY <2>1, <3>1 DEF Eventual
      <4>3. Agrees(b, Eventual(b))'
        BY <4>1, <4>2 DEF Agrees, Kept, Restored
      <4>4. AgreeOf(b)'
        BY <4>1, <4>3 DEF AgreeOf
      <4>5. ChoiceOf(b)'
        BY <1>2 DEF WrittenFor, ChoiceOf
      <4> QED BY <4>4, <4>5
    <3>2. CASE b \notin as
      BY <1>2, <3>2, ExcusedKeeps DEF WrittenFor
    <3> QED BY <3>1, <3>2
  <2> QED BY <2>1, <2>2 DEF InStepInv
<1>3. UpdateKeyword(v, TRUE) => vpd'["source"] = v
  BY DEF UpdateKeyword, Updated, Side, BiosTypeOK
<1>4. UpdateKeyword(v, FALSE) => UNCHANGED vpd
  BY DEF UpdateKeyword
<1> QED BY <1>1, <1>2, <1>3, <1>4 DEF WriteKeyword

(* A write that agrees with none.                                          *)
LEMMA BlindWriteKeepsInStep ==
  ASSUME BiosTypeOK, InStepInv, ToolOnly, NEW v,
         WriteKeyword(v, WrittenBlind)
  PROVE  InStepInv'
BY WriteKeepsInStep DEF WrittenBlind

(* An idle tool has nothing to keep.                                       *)
LEMMA IdleKeeps ==
  ASSUME Idle
  PROVE  CleanInv' /\ FixInv'
BY DEF Idle, CleanInv, FixInv, FixLeavesNoMismatch

(* Every step of the tool and of the others keeps the invariant.           *)
LEMMA StepKeeps ==
  ASSUME IInv, [Next]_vars
  PROVE  IInv'
<1>0. /\ TypeInv' /\ TypeInv /\ BiosTypeOK /\ kw \in KeywordName
      /\ QueueInv /\ InStepInv /\ CleanInv /\ FixInv
  BY TypeInductive, BiosAssumption DEF IInv, TypeInv, TypeOK, BiosTypeOK
<1> SUFFICES QueueInv' /\ InStepInv' /\ CleanInv' /\ FixInv'
  BY <1>0 DEF IInv
<1>a. ASSUME UNCHANGED <<kw, base, pending, pc, value, stale>>
      PROVE  CleanInv'
  <2>1. Attr' = Attr /\ Default' = Default
    BY <1>a, SameSets
  <2> QED BY <1>0, <1>a, <2>1 DEF CleanInv, Kept, Restored
<1>1. CASE CleanSystemVpd
  <2>1. ToolOnly /\ UNCHANGED <<vpd, histVars>>
    BY <1>1 DEF CleanSystemVpd
  <2>2. QueueInv' /\ InStepInv'
    BY <1>0, <2>1, ToolKeepsQueue, ToolKeepsInStep
  <2>3. FixInv'
    BY <1>0, <1>1 DEF CleanSystemVpd, ToolOnly, FixInv, FixLeavesNoMismatch
  <2>4. UNCHANGED <<kw, base, pending>> /\ Attr' = Attr /\ Default' = Default
    BY <2>1, SameSets DEF ToolOnly, envVars
  <2>5. ASSUME NEW as \in SUBSET Attr, ~Skipped(ToolValue(as)),
               value' = ToolValue(as),
               stale' = {a \in Attr : a \notin as \/ pending[a] # Unset}
        PROVE  CleanInv'
    <3>1. as # {}
      <4>1. ToolValue({}) = Unset
        BY DEF ToolValue
      <4> QED BY <2>5, <4>1 DEF Skipped
    <3>2. /\ kw = "BA" \/ value' # Default
          /\ \A a \in as : Kept(a, base[a]) = Restored(a, value')
      BY <1>0, <2>5, <3>1, ToolValueAgrees DEF BiosTypeOK
    <3>3. \A a \in Attr \ stale' : a \in as /\ pending[a] = Unset
      BY <2>5
    <3> QED BY <2>4, <3>2, <3>3 DEF CleanInv, Kept, Restored
  <2>6. \/ pc' = "clean"
        \/ UNCHANGED <<pc, value, stale>>
        \/ \E as \in SUBSET Attr :
             /\ ~Skipped(ToolValue(as))
             /\ value' = ToolValue(as)
             /\ stale' = {a \in Attr : a \notin as \/ pending[a] # Unset}
    BY <1>1, Zenon DEF CleanSystemVpd
  <2>7. CleanInv'
    <3>1. CASE pc' = "clean"
      BY <3>1 DEF CleanInv
    <3>2. CASE UNCHANGED <<pc, value, stale>>
      BY <1>a, <2>4, <3>2
    <3> QED BY <2>5, <2>6, <3>1, <3>2
  <2> QED BY <2>2, <2>3, <2>7
<1>2. CASE CleanWrite
  <2> DEFINE as == IF pc = "clean" THEN {} ELSE Attr \ stale
  <2>1. /\ ToolOnly /\ Idle /\ as \in SUBSET Attr
        /\ WriteKeyword(value, WrittenFor(as))
    BY <1>2 DEF CleanWrite
  <2>2. \A a \in as : /\ pending[a] = Unset
                      /\ kw = "BA" \/ value # Default
                      /\ Kept(a, base[a]) = Restored(a, value)
    BY <1>0, <1>2 DEF CleanWrite, CleanInv
  <2>3. InStepInv'
    <3> HIDE DEF as
    <3> QED BY <1>0, <2>1, <2>2, WriteKeepsInStep
  <2> QED BY <1>0, <2>1, <2>3, ToolKeepsQueue, IdleKeeps
<1>3. CASE FixSystemVpd
  <2>1. ToolOnly /\ UNCHANGED <<vpd, histVars>>
    BY <1>3 DEF FixSystemVpd
  <2>2. CleanInv' /\ FixInv'
    BY <1>0, <1>3
       DEF FixSystemVpd, ToolOnly, CleanInv, FixInv, FixLeavesNoMismatch
  <2> QED BY <1>0, <2>1, <2>2, ToolKeepsQueue, ToolKeepsInStep
<1>4. CASE FetchKeywordInfo
  <2>1. ToolOnly /\ UNCHANGED <<vpd, histVars>>
    BY <1>4 DEF FetchKeywordInfo
  <2>2. CleanInv'
    BY <1>4 DEF FetchKeywordInfo, CleanInv
  <2>3. found \in [Side -> KeywordValue \cup {Unset}]
    BY <1>0 DEF TypeInv, TypeOK
  <2>4. FixInv'
    BY <1>0, <1>4, <2>3
       DEF FetchKeywordInfo, ToolOnly, FixInv, FixLeavesNoMismatch, Side
  <2> QED BY <1>0, <2>1, <2>2, <2>4, ToolKeepsQueue, ToolKeepsInStep
<1>5. CASE UpdateAllKeywords
  <2>1. ToolOnly /\ pc = "menu" /\ pc' = "fixed" /\ found' = found /\ mapped
    BY <1>0, <1>5 DEF UpdateAllKeywords, FixInv
  <2>2. PICK s \in Side :
          /\ used' = s
          /\ IF found["source"] = found["destination"]
             THEN UNCHANGED <<vpd, histVars, touched>>
             ELSE \/ /\ WriteKeyword(Chosen(s), WrittenBlind)
                     /\ touched' = (touched \/ vpd' # Updated(Chosen(s)))
    BY <1>5, Zenon DEF UpdateAllKeywords
  <2>3. InStepInv'
    BY <1>0, <2>1, <2>2, ToolKeepsInStep, BlindWriteKeepsInStep
  <2>4. CleanInv'
    BY <2>1 DEF CleanInv
  <2>5. ASSUME ~touched'
        PROVE  \A t \in Side : vpd'[t] = found[s]
    <3>1. CASE found["source"] = found["destination"]
      <4>1. /\ ~touched /\ vpd' = vpd
            /\ vpd["source"] = found["source"]
            /\ vpd["destination"] = found["destination"]
        BY <1>0, <2>1, <2>2, <2>5, <3>1 DEF FixInv
      <4> QED BY <3>1, <4>1 DEF Side
    <3>2. CASE found["source"] # found["destination"]
      <4>1. vpd' = Updated(Chosen(s))
        BY <2>2, <2>5, <3>2
      <4> QED BY <2>1, <4>1 DEF Updated, Chosen
    <3> QED BY <3>1, <3>2
  <2>6. FixInv'
    BY <2>1, <2>2, <2>5 DEF FixInv, FixLeavesNoMismatch, ToolOnly
  <2> QED BY <1>0, <2>1, <2>3, <2>4, <2>6, ToolKeepsQueue
<1>6. CASE HandleMoreOption
  <2>1. ToolOnly /\ pc # "idle" /\ pc' = "more"
    BY <1>6 DEF HandleMoreOption
  <2>2. InStepInv'
    BY <1>0, <1>6, <2>1, BlindWriteKeepsInStep DEF HandleMoreOption
  <2>3. CleanInv' /\ FixInv'
    BY <1>0, <2>1 DEF CleanInv, FixInv, FixLeavesNoMismatch, ToolOnly
  <2> QED BY <1>0, <2>1, <2>2, <2>3, ToolKeepsQueue
<1>7. CASE Exit
  <2>1. ToolOnly /\ Idle /\ UNCHANGED <<vpd, histVars>>
    BY <1>7 DEF Exit
  <2> QED BY <1>0, <2>1, ToolKeepsQueue, ToolKeepsInStep, IdleKeeps
<1>8. CASE ClientWrite
  <2>1. /\ ToolOnly /\ UNCHANGED <<pc, value, found, stale, used>>
        /\ touched' = (touched \/ pc # "idle")
    BY <1>8 DEF ClientWrite
  <2>2. InStepInv'
    BY <1>0, <1>8, <2>1, BlindWriteKeepsInStep DEF ClientWrite
  <2>3. CleanInv'
    BY <1>a, <2>1 DEF ToolOnly, envVars
  <2>4. FixInv'
    BY <1>0, <2>1 DEF FixInv, FixLeavesNoMismatch, ToolOnly
  <2> QED BY <1>0, <2>1, <2>2, <2>3, <2>4, ToolKeepsQueue
<1>9. CASE OthersStep
  <2>1. QueueInv' /\ InStepInv'
    BY <1>0, <1>9, QueueKept, InStepKept DEF OthersStep
  <2>2. kw' = kw /\ mapped' = mapped
    BY <1>9
       DEF OthersStep, BiosNext, BackUpOrRestoreBiosAttributes,
           ListenBiosAttributes, BiosAttributesCallback, BiosChange,
           ApplyPending, PldmUp, PldmDown, Restart, FactoryReset
  <2>3. /\ UNCHANGED <<pc, value, found, used>>
        /\ pc = "cleanSync" =>
             stale' = stale \cup {a \in Attr : \/ base'[a] # base[a]
                                               \/ pending'[a] # Unset}
        /\ touched' = (touched \/ (vpd' # vpd /\ pc # "idle"))
    BY <1>9 DEF OthersStep
  <2>4. Attr' = Attr /\ Default' = Default
    BY <2>2, SameSets
  <2>5. CleanInv'
    BY <1>0, <2>2, <2>3, <2>4 DEF CleanInv, Kept, Restored
  <2>6. FixInv'
    BY <1>0, <2>2, <2>3 DEF FixInv, FixLeavesNoMismatch
  <2> QED BY <2>1, <2>5, <2>6
<1>10. CASE UNCHANGED vars
  <2>1. /\ ToolOnly /\ UNCHANGED <<vpd, histVars>>
        /\ UNCHANGED <<pc, value, found, stale, touched, used>>
    BY <1>10 DEF vars, biosVars, toolVars, toolHist, ToolOnly
  <2>2. CleanInv'
    BY <1>a, <2>1 DEF ToolOnly, envVars
  <2>3. FixInv'
    BY <1>0, <2>1 DEF FixInv, FixLeavesNoMismatch, ToolOnly
  <2> QED BY <1>0, <2>1, <2>2, <2>3, ToolKeepsQueue, ToolKeepsInStep
<1> QED
  BY <1>1, <1>2, <1>3, <1>4, <1>5, <1>6, <1>7, <1>8, <1>9, <1>10 DEF Next

(* The inductive invariant of the specification.                           *)
LEMMA ToolInductive == Spec => []IInv
<1>1. ToolInit => IInv
  <2> SUFFICES ASSUME ToolInit PROVE IInv
    OBVIOUS
  <2>1. TypeInv
    BY InitTypes
  <2>2. QueueInv /\ InStepInv
    BY DEF ToolInit, Init, QueueInv, InStepInv, AgreeOf, ChoiceOf
  <2>3. CleanInv /\ FixInv
    BY DEF ToolInit, CleanInv, FixInv, FixLeavesNoMismatch
  <2> QED BY <2>1, <2>2, <2>3 DEF IInv
<1>2. IInv /\ [Next]_vars => IInv'
  BY StepKeeps
<1> QED BY <1>1, <1>2, PTL DEF Spec

(* When the handler has nothing left to do, the keyword would restore the  *)
(* attribute to what is kept of it, however many changes of either came in *)
(* whatever order (bios_handler.cpp, and vpd_tool.cpp beside it).          *)
THEOREM SidesAlwaysAgree == Spec => []SidesAgree
<1>1. IInv => SidesAgree
  <2> SUFFICES ASSUME IInv, Settled, NEW a \in Attr \ apart
               PROVE  /\ vpd["source"] # Default \/ kw = "BA"
                      /\ Kept(a, base[a]) = Restored(a, vpd["source"])
    BY DEF SidesAgree
  <2>1. /\ Active(a) /\ signals = <<>> /\ pending[a] = Unset
        /\ Eventual(a) = base[a]
    BY DEF Settled, Active, NoPending, Eventual
  <2>2. AgreeOf(a)
    BY DEF IInv, InStepInv
  <2>3. Agrees(a, base[a])
    BY <2>1, <2>2 DEF AgreeOf
  <2> QED BY <2>3 DEF Agrees
<1> QED BY <1>1, ToolInductive, PTL

(* What an attribute was set to, if it can be kept, survives restarts and  *)
(* resets to factory settings exactly (bios_handler.hpp).                  *)
THEOREM ChoiceAlwaysSurvives == Spec => []ChoiceSurvives
<1>1. IInv => ChoiceSurvives
  <2> SUFFICES ASSUME IInv, Settled, NEW a \in Attr \ excused,
                      Kept(a, choice[a]) = choice[a]
               PROVE  /\ base[a] = choice[a]
                      /\ kw # "BA" =>
                           /\ vpd["source"] # Default
                           /\ Restored(a, vpd["source"]) = choice[a]
    BY DEF ChoiceSurvives
  <2>1. /\ Active(a) /\ signals = <<>> /\ pending[a] = Unset
        /\ Eventual(a) = base[a]
    BY DEF Settled, Active, NoPending, Eventual
  <2>2. AgreeOf(a) /\ ChoiceOf(a)
    BY DEF IInv, InStepInv
  <2>3. base[a] = choice[a] /\ a \notin apart
    BY <2>1, <2>2 DEF ChoiceOf, Survives
  <2>4. Agrees(a, base[a])
    BY <2>1, <2>2, <2>3 DEF AgreeOf
  <2> QED BY <2>3, <2>4 DEF Agrees
<1> QED BY <1>1, ToolInductive, PTL

(* fixSystemVPD leaves both sides with what it found on the one that was   *)
(* chosen, unless others wrote in between (vpd_tool.cpp).                  *)
THEOREM FixAlwaysWorks == Spec => []FixLeavesNoMismatch
<1>1. IInv => FixLeavesNoMismatch
  BY DEF IInv, FixInv
<1> QED BY <1>1, ToolInductive, PTL
=============================================================================

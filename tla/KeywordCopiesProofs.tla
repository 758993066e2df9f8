------------------------- MODULE KeywordCopiesProofs -------------------------
(***************************************************************************)
(* Proofs about KeywordCopies, for every set of values, every kind of FRU  *)
(* and every choice of faults.                                             *)
(***************************************************************************)
EXTENDS KeywordCopies, TLAPS

-----------------------------------------------------------------------------
(* Type correctness.                                                       *)

(* NoCall is a call.                                                       *)
LEMMA NoCallType == NoCall \in Call
BY CopiesAssumption DEF NoCall, Call, Chip

(* Changing one EEPROM or one place on PIM to a value keeps its type.      *)
LEMMA CopyTypes ==
  ASSUME eeprom \in [Chip -> Value], pim \in [Object -> Value \cup {NoValue}],
         NEW c, NEW o, NEW v \in Value
  PROVE  /\ [eeprom EXCEPT ![c] = v] \in [Chip -> Value]
         /\ [pim EXCEPT ![o] = v] \in [Object -> Value \cup {NoValue}]
OBVIOUS

(* The step that goes back to the loop leaves values of the right type.    *)
LEMMA BackToLoopType ==
  ASSUME BackToLoop
  PROVE  /\ pc' \in Pc /\ setup' \in BOOLEAN /\ call' \in Call
         /\ client' \in Call /\ rc' \in {"ok", "failed"} /\ srcMap' \in Value
BY NoCallType, CopiesAssumption DEF BackToLoop, Pc

(* So does the end of backup and restore.                                  *)
LEMMA RestoreDoneType ==
  ASSUME TypeOK, NEW map \in Value, RestoreDone(map)
  PROVE  /\ pc' \in Pc /\ setup' \in BOOLEAN /\ call' \in Call
         /\ client' \in Call /\ rc' \in {"ok", "failed"} /\ srcMap' \in Value
         /\ status' \in BackupStatus
<1>1. CASE setup
  BY <1>1, NoCallType DEF RestoreDone, TypeOK, Pc, BackupStatus
<1>2. CASE ~setup
  BY <1>2, BackToLoopType DEF RestoreDone, BackupStatus
<1> QED BY <1>1, <1>2

(* The initial states are well typed.                                      *)
LEMMA InitType == Init => TypeOK
BY CopiesAssumption, NoCallType
DEF Init, TypeOK, Pc, BackupStatus, Chip, Object

(* Every step of updateVpdKeyword keeps the types.                         *)
LEMMA UpdateType ==
  ASSUME TypeOK, UpdateVpdKeyword
  PROVE  TypeOK'
<1> USE DEF TypeOK
<1>v. call.val \in Value /\ call.chip \in Chip
  BY DEF Call
<1>w. eeprom[call.chip] \in Value
  BY <1>v
<1>1. CASE EnableRebootGuard
  BY <1>1 DEF EnableRebootGuard, vpdVars, Works, Fails, Pc, Guarded
<1>2. CASE WriteHardware
  <2>1. eeprom' \in [Chip -> Value]
    BY <1>2, <1>v, CopyTypes DEF WriteHardware
  <2> QED BY <1>2, <2>1 DEF WriteHardware, Works, Fails, Pc, Guarded
<1>3. CASE PublishKeyword
  <2>1. pim' \in [Object -> Value \cup {NoValue}]
    BY <1>3, <1>w, CopyTypes DEF PublishKeyword
  <2> QED BY <1>3, <2>1 DEF PublishKeyword, Works, Fails, Pc, Guarded
<1>4. CASE WriteRedundant
  <2>1. eeprom' \in [Chip -> Value]
    BY <1>4, <1>v, CopyTypes DEF WriteRedundant
  <2> QED BY <1>4, <2>1 DEF WriteRedundant, Works, Fails, Pc, Guarded
<1>5. CASE DisableRebootGuard
  BY <1>5 DEF DisableRebootGuard, vpdVars, callVars, Works, Fails, Pc, Guarded
<1> QED BY <1>1, <1>2, <1>3, <1>4, <1>5 DEF UpdateVpdKeyword

(* Every step that goes on with a client's request keeps the types.        *)
LEMMA AnswerType ==
  ASSUME TypeOK, AnswerClient
  PROVE  TypeOK'
<1> USE DEF TypeOK
<1>v. client.val \in Value
  BY DEF Call
<1>p. ASSUME NEW place, PublishOn(place)
      PROVE  /\ pim' \in [Object -> Value \cup {NoValue}]
             /\ failed' \in BOOLEAN
  BY <1>p, <1>v, CopyTypes DEF PublishOn, Works, Fails
<1>1. CASE AnswerFailure
  BY <1>1, BackToLoopType DEF AnswerFailure, vpdVars, history
<1>2. CASE Mirror
  <2>1. call' \in Call
    BY <1>2 DEF Mirror, Call, Chip, Other
  <2>2. pc' \in Pc
    BY <1>2 DEF Mirror, Pc
  <2> QED BY <1>2, <2>1, <2>2 DEF Mirror, vpdVars, history
<1>3. CASE MirrorDone
  BY <1>3 DEF MirrorDone, vpdVars, callVars, history, Pc
<1>4. CASE PublishInherited
  <2>1. pim' \in [Object -> Value \cup {NoValue}] /\ failed' \in BOOLEAN
    BY <1>4, <1>p DEF PublishInherited
  <2> QED BY <1>4, <2>1 DEF PublishInherited, callVars, Pc
<1>5. CASE PublishCommon
  <2>1. pim' \in [Object -> Value \cup {NoValue}] /\ failed' \in BOOLEAN
    BY <1>5, <1>p DEF PublishCommon
  <2> QED BY <1>5, <2>1, BackToLoopType DEF PublishCommon
<1> QED BY <1>1, <1>2, <1>3, <1>4, <1>5 DEF AnswerClient

(* Every step of the setup and of backup and restore keeps the types.      *)
LEMMA SynchroniseType ==
  ASSUME TypeOK, SynchroniseCopies
  PROVE  TypeOK'
<1> USE DEF TypeOK
<1>d. BackupCopy \in Value \cup {NoValue}
  BY DEF BackupCopy, Chip, Object
<1>1. CASE SetDeviceTreeAndJson
  <2>e. eeprom["source"] \in Value
    BY DEF Chip
  <2>1. CASE kind = "module" /\ BackToLoop /\ Works /\ UNCHANGED status
    BY <1>1, <2>1, BackToLoopType DEF SetDeviceTreeAndJson, vpdVars, Works
  <2>2. CASE ~(kind = "module" /\ BackToLoop /\ Works /\ UNCHANGED status)
    BY <1>1, <2>2, <2>e, ZenonT(40)
    DEF SetDeviceTreeAndJson, vpdVars, callVars, Works, Fails, Pc, BackupStatus
  <2> QED BY <2>1, <2>2
<1>2. CASE BackupAndRestore
  BY <1>2 DEF BackupAndRestore, vpdVars, callVars, Works, Fails, Pc,
              BackupStatus, Chip
<1>3. CASE BackupAndRestoreIpzVpd
  <2>u. UNCHANGED <<kind, vpdVars, guard, thread, acked, raced, stuck>>
    BY <1>3 DEF BackupAndRestoreIpzVpd
  <2>1. ASSUME NEW c \in Chip, NEW v \in Value, Sync(c, v)
        PROVE  TypeOK'
    BY <2>1, <2>u DEF Sync, Call, vpdVars, Pc
  <2>2. ASSUME NEW map \in Value, RestoreDone(map),
               failed' \in BOOLEAN, reported' \in BOOLEAN
        PROVE  TypeOK'
    BY <2>2, <2>u, RestoreDoneType DEF vpdVars
  <2>b. BackupChip \in Chip /\ "source" \in Chip
    BY DEF BackupChip, Chip
  <2>3. CASE \E v \in Value : Sync(BackupChip, v) \/ Sync("source", v)
    BY <2>1, <2>3, <2>b
  <2>4. CASE \E map \in Value : /\ RestoreDone(map)
                                /\ failed' \in BOOLEAN /\ reported' \in BOOLEAN
    BY <2>2, <2>4
  <2> QED BY <1>3, <1>d, <2>3, <2>4
          DEF BackupAndRestoreIpzVpd, Works, Fails
<1>4. CASE SyncDone
  <2>1. (IF rc = "ok" /\ call.chip = "source" THEN call.val ELSE srcMap)
          \in Value
    BY DEF Call
  <2> QED BY <1>4, <2>1, RestoreDoneType DEF SyncDone, vpdVars, history
<1>5. CASE PublishSystemVPD
  <2>1. pim' \in [Object -> Value \cup {NoValue}] /\ failed' \in BOOLEAN
    BY <1>5 DEF PublishSystemVPD, Works, Fails
  <2> QED BY <1>5, <2>1, BackToLoopType DEF PublishSystemVPD
<1> QED BY <1>1, <1>2, <1>3, <1>4, <1>5 DEF SynchroniseCopies

(* TypeOK is inductive.                                                    *)
LEMMA NextType == TypeOK /\ [Next]_vars => TypeOK'
<1> SUFFICES ASSUME TypeOK, [Next]_vars PROVE TypeOK'
  OBVIOUS
<1>1. ASSUME NEW c \in Chip, NEW v \in Value, UpdateKeyword(c, v)
      PROVE  TypeOK'
  <2>1. client' \in Call /\ call' \in Call /\ acked' \in Call
    BY <1>1, NoCallType DEF UpdateKeyword, Call
  <2> QED BY <1>1, <2>1 DEF UpdateKeyword, TypeOK, Pc, vpdVars
<1>2. CASE ParseVpdFile
  <2>1. eeprom[CollectedChip] \in Value
    BY DEF CollectedChip, Chip, TypeOK
  <2> QED BY <1>2, <2>1 DEF ParseVpdFile, TypeOK, vpdVars, callVars
<1>3. CASE PublishCollected
  <2>1. pim' \in [Object -> Value \cup {NoValue}]
    BY <1>3 DEF PublishCollected, TypeOK
  <2> QED BY <1>3, <2>1 DEF PublishCollected, TypeOK, callVars, Works, Fails
<1>4. CASE Restart
  <2>1. eeprom' \in [Chip -> Value]
    BY <1>4, CopyTypes, CopiesAssumption DEF Restart, TypeOK
  <2> QED BY <1>4, <2>1, NoCallType, CopiesAssumption
          DEF Restart, TypeOK, Pc, BackupStatus
<1>5. CASE UNCHANGED vars
  BY <1>5 DEF vars, vpdVars, callVars, history, TypeOK
<1> QED BY <1>1, <1>2, <1>3, <1>4, <1>5, UpdateType, AnswerType,
           SynchroniseType DEF Next

(* TypeOK holds in every reachable state.                                  *)
THEOREM CopiesTypeCorrect == Spec => []TypeOK
BY InitType, NextType, PTL DEF Spec

-----------------------------------------------------------------------------
(* The reboot guard.                                                       *)

(* GuardBalanced is inductive with the types alone: each step of           *)
(* updateVpdKeyword enters the guarded part only past the enabling and     *)
(* leaves it only through the disabling.                                   *)
LEMMA NextGuard == TypeOK /\ GuardBalanced /\ [Next]_vars => GuardBalanced'
<1> SUFFICES ASSUME TypeOK, GuardBalanced, [Next]_vars
             PROVE  GuardBalanced'
  OBVIOUS
<1> USE DEF GuardBalanced, Guarded, Works, Fails
<1>1. CASE UpdateVpdKeyword
  BY <1>1 DEF UpdateVpdKeyword, EnableRebootGuard, WriteHardware,
              PublishKeyword, WriteRedundant, DisableRebootGuard
<1>2. CASE AnswerClient
  BY <1>2 DEF AnswerClient, AnswerFailure, Mirror, MirrorDone,
              PublishInherited, PublishCommon, BackToLoop, history
<1>3. CASE SynchroniseCopies
  BY <1>3 DEF SynchroniseCopies, SetDeviceTreeAndJson, BackupAndRestore,
              BackupAndRestoreIpzVpd, SyncDone, PublishSystemVPD,
              RestoreDone, Sync, BackToLoop, history
<1>4. CASE \E c \in Chip, v \in Value : UpdateKeyword(c, v)
  BY <1>4 DEF UpdateKeyword
<1>5. CASE ParseVpdFile \/ PublishCollected \/ Restart
  BY <1>5 DEF ParseVpdFile, PublishCollected, Restart, TypeOK
<1>6. CASE UNCHANGED vars
  BY <1>6 DEF vars, history
<1> QED BY <1>1, <1>2, <1>3, <1>4, <1>5, <1>6 DEF Next

(* No EEPROM is written without the reboot guard, and no path through      *)
(* updateVpdKeyword leaves it enabled by itself.                           *)
THEOREM GuardCorrect == Spec => []GuardBalanced
<1>1. Init => GuardBalanced
  BY DEF Init, GuardBalanced, Guarded
<1> QED BY <1>1, NextGuard, CopiesTypeCorrect, PTL DEF Spec

-----------------------------------------------------------------------------
(* A value that was set survives.                                          *)

(* What a call of updateVpdKeyword writes: a client's own value, or, for   *)
(* backup and restore, a value that is set.  A backup on D-Bus has one     *)
(* EEPROM, and no thread collects it.                                      *)
CallInv ==
  /\ call.by = "sync" => call.val # Default
  /\ call.by \in {"write", "mirror"} =>
       client.by = "write" /\ call.val = client.val
  /\ pc \in Guarded \cup {"guard", "return"} => call.by # "none"
  /\ kind = "cache" => call.chip = "source" /\ thread = NoValue

(* What is about to be published is what was written, and a map that is    *)
(* about to be published over a backup that is set is set as well, unless  *)
(* a call failed.                                                          *)
PublishInv ==
  /\ pc = "publish" => eeprom[call.chip] = call.val
  /\ rc = "failed" => failed
  /\ ( /\ pc = "system"
       /\ kind = "cache"
       /\ ~failed
       /\ eeprom["source"] = Default
       /\ pim["source"] \notin {Default, NoValue} ) => srcMap # Default

CopiesInv == CallInv /\ PublishInv

(* CopiesInv holds at the start.                                           *)
LEMMA InitCopies == Init => CopiesInv
BY CopiesAssumption DEF Init, CopiesInv, CallInv, PublishInv, NoCall, Guarded

(* The steps of updateVpdKeyword keep CopiesInv.                           *)
LEMMA UpdateCopies ==
  ASSUME TypeOK, CopiesInv, UpdateVpdKeyword
  PROVE  CopiesInv'
<1> USE DEF CopiesInv, CallInv, PublishInv, Guarded, Works, Fails
<1>1. CASE EnableRebootGuard
  BY <1>1 DEF EnableRebootGuard, vpdVars
<1>2. CASE WriteHardware
  <2>1. /\ UNCHANGED <<kind, call, client, thread>>
        /\ pc' \in {"publish", "unguard"} /\ call.by # "none"
    BY <1>2 DEF WriteHardware
  <2>2. pc' = "publish" => eeprom'[call.chip] = call.val
    BY <1>2 DEF WriteHardware, TypeOK, Call
  <2>3. rc' = "failed" => failed'
    BY <1>2 DEF WriteHardware
  <2> QED BY <2>1, <2>2, <2>3
<1>3. CASE PublishKeyword
  BY <1>3 DEF PublishKeyword
<1>4. CASE WriteRedundant
  BY <1>4 DEF WriteRedundant
<1>5. CASE DisableRebootGuard
  BY <1>5 DEF DisableRebootGuard, vpdVars, callVars
<1> QED BY <1>1, <1>2, <1>3, <1>4, <1>5 DEF UpdateVpdKeyword

(* So do those that go on with a client's request.                         *)
LEMMA AnswerCopies ==
  ASSUME TypeOK, CopiesInv, AnswerClient
  PROVE  CopiesInv'
<1> USE DEF CopiesInv, CallInv, PublishInv, Guarded, Works, Fails
<1>1. CASE AnswerFailure
  BY <1>1 DEF AnswerFailure, BackToLoop, NoCall, vpdVars, history
<1>2. CASE Mirror
  <2>1. UNCHANGED <<kind, vpdVars, rc, client, thread, failed>>
        /\ pc' \in {"guard", "inherited"}
    BY <1>2 DEF Mirror, history
  <2>2. CASE kind = "eeprom"
    <3>1. call' = [call EXCEPT !.by = "mirror", !.chip = Other(@)]
      BY <1>2, <2>2 DEF Mirror
    <3>2. call'.by = "mirror" /\ call'.val = call.val
      BY <3>1 DEF TypeOK, Call
    <3> QED BY <1>2, <2>1, <2>2, <3>2 DEF Mirror, vpdVars
  <2>3. CASE kind # "eeprom"
    BY <1>2, <2>1, <2>3 DEF Mirror, vpdVars
  <2> QED BY <2>2, <2>3
<1>3. CASE MirrorDone
  BY <1>3 DEF MirrorDone, vpdVars, callVars, history
<1>4. CASE PublishInherited
  BY <1>4 DEF PublishInherited, PublishOn, callVars
<1>5. CASE PublishCommon
  BY <1>5 DEF PublishCommon, PublishOn, BackToLoop, NoCall
<1> QED BY <1>1, <1>2, <1>3, <1>4, <1>5 DEF AnswerClient

(* And those of the setup and of backup and restore: whatever map they end *)
(* with is set when the backup on D-Bus is.                                *)
LEMMA SynchroniseCopiesInv ==
  ASSUME TypeOK, CopiesInv, SynchroniseCopies
  PROVE  CopiesInv'
<1> USE DEF CopiesInv, CallInv, PublishInv, Guarded, Works, Fails
<1>1. CASE SetDeviceTreeAndJson
  BY <1>1 DEF SetDeviceTreeAndJson, BackToLoop, NoCall, vpdVars, callVars
<1>2. CASE BackupAndRestore
  BY <1>2 DEF BackupAndRestore, vpdVars, callVars
<1>3. CASE BackupAndRestoreIpzVpd
  <2>u. UNCHANGED <<kind, vpdVars, guard, thread, acked, raced, stuck>>
        /\ pc = "compare"
    BY <1>3 DEF BackupAndRestoreIpzVpd
  <2>1. ASSUME NEW c, NEW v, Sync(c, v), v # Default,
               kind = "cache" => c = "source"
        PROVE  CopiesInv'
    BY <2>1, <2>u DEF Sync, vpdVars
  <2>2. ASSUME NEW map, RestoreDone(map), failed => failed',
               ( /\ kind = "cache" /\ ~failed'
                 /\ eeprom["source"] = Default
                 /\ pim["source"] \notin {Default, NoValue} ) => map # Default
        PROVE  CopiesInv'
    BY <2>2, <2>u DEF RestoreDone, BackToLoop, NoCall, vpdVars
  <2>3. kind = "cache" => BackupCopy = pim["source"] /\ BackupChip = "source"
    BY DEF BackupCopy, BackupChip
  <2>4. CASE (BackupCopy = NoValue \/ srcMap = BackupCopy)
             /\ RestoreDone(srcMap) /\ Works
    BY <2>2, <2>3, <2>4
  <2>5. CASE Fails("restore") /\ RestoreDone(srcMap)
    BY <2>2, <2>5
  <2>6. CASE BackupCopy = Default /\ srcMap # BackupCopy
             /\ Sync(BackupChip, srcMap)
    BY <2>1, <2>3, <2>6
  <2>7. CASE BackupCopy \notin {NoValue, srcMap} /\ srcMap = Default
             /\ Sync("source", BackupCopy)
    BY <2>1, <2>7
  <2>8. CASE /\ BackupCopy \notin {NoValue, Default, srcMap}
             /\ srcMap # Default
             /\ RestoreDone(IF kind = "cache" THEN BackupCopy ELSE srcMap)
             /\ Works
    BY <2>2, <2>3, <2>8
  <2> QED BY <1>3, <2>4, <2>5, <2>6, <2>7, <2>8 DEF BackupAndRestoreIpzVpd
<1>4. CASE SyncDone
  <2>1. /\ pc = "return" /\ call.by = "sync"
        /\ UNCHANGED <<kind, vpdVars, guard, thread, history>>
    BY <1>4 DEF SyncDone
  <2>2. RestoreDone(IF rc = "ok" /\ call.chip = "source" THEN call.val
                                                         ELSE srcMap)
    BY <1>4 DEF SyncDone
  <2>3. CASE setup
    <3>1. /\ pc' = "system" /\ call' = NoCall /\ rc' = "ok"
          /\ UNCHANGED client
          /\ srcMap' = IF rc = "ok" /\ call.chip = "source" THEN call.val
                                                            ELSE srcMap
      BY <2>2, <2>3 DEF RestoreDone
    <3>2. rc = "ok" \/ failed
      BY DEF TypeOK
    <3> QED BY <2>1, <3>1, <3>2 DEF NoCall, vpdVars, history
  <2>4. CASE ~setup
    BY <2>1, <2>2, <2>4 DEF RestoreDone, BackToLoop, NoCall, vpdVars, history
  <2> QED BY <2>3, <2>4
<1>5. CASE PublishSystemVPD
  BY <1>5 DEF PublishSystemVPD, BackToLoop, NoCall
<1> QED BY <1>1, <1>2, <1>3, <1>4, <1>5 DEF SynchroniseCopies

(* CopiesInv is inductive.                                                 *)
LEMMA NextCopies == TypeOK /\ CopiesInv /\ [Next]_vars => CopiesInv'
<1> SUFFICES ASSUME TypeOK, CopiesInv, [Next]_vars
             PROVE  CopiesInv'
  OBVIOUS
<1> USE DEF CopiesInv, CallInv, PublishInv, Guarded, Works, Fails
<1>1. ASSUME NEW c \in Chip, NEW v \in Value, UpdateKeyword(c, v)
      PROVE  CopiesInv'
  <2>1. kind = "cache" => c = "source"
    BY <1>1 DEF UpdateKeyword, Writable
  <2> QED BY <1>1, <2>1 DEF UpdateKeyword, vpdVars
<1>2. CASE ParseVpdFile
  BY <1>2 DEF ParseVpdFile, vpdVars, callVars
<1>3. CASE PublishCollected
  BY <1>3 DEF PublishCollected, callVars
<1>4. CASE Restart
  BY <1>4 DEF Restart, NoCall
<1>5. CASE UNCHANGED vars
  BY <1>5 DEF vars, vpdVars, callVars, history
<1> QED BY <1>1, <1>2, <1>3, <1>4, <1>5, UpdateCopies, AnswerCopies,
           SynchroniseCopiesInv DEF Next

(* A step out of a state with CopiesInv unsets a keyword only if it may.   *)
LEMMA StepSurvives ==
  ASSUME TypeOK, CopiesInv, [Next]_vars, kind # "module", IsSet, ~IsSet'
  PROVE  ClientAskedForDefault \/ ProcessEnded \/ (kind = "cache" /\ failed)
<1> SUFFICES ASSUME ~ClientAskedForDefault, ~ProcessEnded,
                    ~(kind = "cache" /\ failed)
             PROVE  FALSE
  OBVIOUS
<1> USE DEF CopiesInv, CallInv, PublishInv, Guarded, ClientAskedForDefault,
            IsSet, BackupCopy
<1>0. ASSUME kind' = kind, eeprom' = eeprom, pim'["source"] = pim["source"]
      PROVE  FALSE
  BY <1>0
<1>v. call.by # "none" => call.val # Default
  BY DEF TypeOK, Call
<1>1. CASE WriteHardware
  <2>1. /\ kind' = kind /\ pim' = pim
        /\ eeprom' \in {eeprom, [eeprom EXCEPT ![call.chip] = call.val]}
        /\ call.val # Default
    BY <1>1, <1>v DEF WriteHardware
  <2>2. \/ eeprom'["source"] = eeprom["source"]
        \/ eeprom'["source"] # Default
    BY <2>1 DEF TypeOK, Chip
  <2>3. \/ eeprom'["destination"] = eeprom["destination"]
        \/ eeprom'["destination"] \notin {Default, NoValue}
    BY <2>1, CopiesAssumption DEF TypeOK, Chip, Call
  <2> QED BY <2>1, <2>2, <2>3
<1>2. CASE PublishKeyword
  <2>1. /\ kind' = kind /\ eeprom' = eeprom
        /\ pim' \in {pim, [pim EXCEPT ![call.chip] = eeprom[call.chip]]}
        /\ eeprom[call.chip] # Default
    BY <1>2, <1>v DEF PublishKeyword
  <2>2. pim'["source"] = pim["source"] \/ eeprom["source"] # Default
    BY <2>1 DEF TypeOK
  <2> QED BY <1>0, <2>1, <2>2
<1>3. CASE WriteRedundant
  <2>1. /\ kind' = kind /\ pim' = pim
        /\ eeprom' \in {eeprom, [eeprom EXCEPT !["redundant"] = call.val]}
    BY <1>3 DEF WriteRedundant
  <2>2. /\ eeprom'["source"] = eeprom["source"]
        /\ eeprom'["destination"] = eeprom["destination"]
    BY <2>1 DEF TypeOK, Chip
  <2> QED BY <2>1, <2>2
<1>4. CASE PublishSystemVPD
  <2>1. kind' = kind /\ eeprom' = eeprom /\ pc = "system"
        /\ (pim' = pim \/ pim'["source"] = srcMap)
    BY <1>4 DEF PublishSystemVPD, Object, OfSource
  <2>2. kind = "cache" =>
          /\ pim["source"] \notin {Default, NoValue} \/ eeprom["source"] # Default
          /\ srcMap # NoValue
    BY CopiesAssumption DEF TypeOK
  <2> QED BY <2>1, <2>2
<1>5. CASE PublishCollected
  <2>1. kind' = kind /\ eeprom' = eeprom /\ kind # "cache"
    BY <1>5 DEF PublishCollected
  <2> QED BY <2>1
<1>6. CASE PublishInherited \/ PublishCommon
  <2>1. kind' = kind /\ eeprom' = eeprom /\ pim'["source"] = pim["source"]
    BY <1>6 DEF PublishInherited, PublishCommon, PublishOn, TypeOK, Object
  <2> QED BY <1>0, <2>1
<1>7. CASE EnableRebootGuard \/ DisableRebootGuard \/ ParseVpdFile
           \/ \E c \in Chip, v \in Value : UpdateKeyword(c, v)
  BY <1>0, <1>7 DEF EnableRebootGuard, DisableRebootGuard, ParseVpdFile,
                    UpdateKeyword, vpdVars
<1>8. CASE AnswerFailure \/ Mirror \/ MirrorDone
  BY <1>0, <1>8 DEF AnswerFailure, Mirror, MirrorDone, vpdVars
<1>9. CASE SetDeviceTreeAndJson \/ BackupAndRestore
           \/ BackupAndRestoreIpzVpd \/ SyncDone
  BY <1>0, <1>9 DEF SetDeviceTreeAndJson, BackupAndRestore,
                    BackupAndRestoreIpzVpd, SyncDone, vpdVars
<1>10. CASE Restart
  BY <1>10 DEF Restart, ProcessEnded
<1>11. CASE UNCHANGED vars
  BY <1>0, <1>11 DEF vars, vpdVars
<1> QED BY <1>1, <1>2, <1>3, <1>4, <1>5, <1>6, <1>7, <1>8, <1>9, <1>10, <1>11
        DEF Next, UpdateVpdKeyword, AnswerClient, SynchroniseCopies

(* CopiesInv holds in every reachable state.                               *)
LEMMA CopiesInvariant == Spec => []CopiesInv
BY InitCopies, NextCopies, CopiesTypeCorrect, PTL DEF Spec

(* A keyword of system VPD that is set on one side never becomes unset on  *)
(* both but by a client's wish, a replaced planar or, with the backup on   *)
(* D-Bus, a call that failed.                                              *)
THEOREM SetValueIsNotLost == Spec => SetValueSurvives
<1>1. TypeOK /\ CopiesInv /\ [Next]_vars
      => [ (kind # "module" /\ IsSet /\ ~IsSet')
           => \/ ClientAskedForDefault
              \/ ProcessEnded
              \/ kind = "cache" /\ failed ]_vars
  BY StepSurvives
<1> QED BY <1>1, CopiesInvariant, CopiesTypeCorrect, PTL
        DEF Spec, SetValueSurvives

-----------------------------------------------------------------------------
(* An answered request is kept, a keyword agrees with its backup, and the  *)
(* objects which inherit system VPD follow it.                             *)

(* Where the io thread can be in which situation.                          *)
FlowInv ==
  /\ pc \in {"start", "system"} => setup
  /\ pc = "start" => status = "NotStarted"
  /\ pc = "compare" => srcMap = eeprom["source"] /\ status = "Invoked"
  /\ pc = "redundant" => kind = "module"
  /\ pc \in {"inherited", "common"} => client.by = "write"
  /\ client.by = "write" => client.chip \in Writable /\ pc # "idle"
  /\ call.by = "write" => call.chip = client.chip
  /\ call.by = "sync" => call.chip # "redundant"
  /\ call.by = "mirror" =>
       kind = "eeprom" /\ call.chip = Other(client.chip)
  /\ kind = "module" =>
       pc # "compare" /\ call.by # "sync" /\ status = "NotStarted"
  /\ kind = "cache" => ~raced

(* The request r is where its client expects it.                           *)
Served(r) ==
  /\ eeprom[r.chip] = r.val
  /\ kind = "module" => eeprom["redundant"] = r.val
  /\ ~raced => pim[r.chip] = r.val

(* How far the request under way has come.                                 *)
RequestInv ==
  /\ client.by = "write" /\ ~raced => thread = NoValue
  /\ pc = "redundant" /\ rc = "ok" =>
       /\ eeprom[client.chip] = client.val
       /\ ~raced => pim[client.chip] = client.val
  /\ call.by = "write" /\ rc = "ok" /\ pc \in {"unguard", "return"} =>
       Served(client)
  /\ call.by = "mirror" \/ pc \in {"inherited", "common"} => Served(client)

(* The last request that was answered is one that must last.               *)
Kept == acked.by = "write" /\ (acked.val # Default \/ kind = "module")

(* What an answered request may rely on while the io thread is idle or at  *)
(* backup and restore.                                                     *)
AckInv ==
  /\ acked.by = "write" =>
       /\ ~setup
       /\ acked.chip \in Writable
       /\ client.by # "write"
       /\ call.by \in {"none", "sync"}
  /\ Kept => Served(acked)
  /\ Kept /\ call.by = "sync" =>
       call.chip # acked.chip \/ call.val = acked.val
  /\ Kept /\ ~raced /\ thread # NoValue /\ acked.chip = CollectedChip =>
       thread = acked.val

(* The keyword and its backup are as backup and restore leaves them.       *)
Agree ==
  \/ eeprom["source"] = BackupCopy
  \/ reported /\ Default \notin {eeprom["source"], BackupCopy}

AtRest == pc = "idle" \/ (call.by = "write" /\ pc \in {"guard", "hardware"})

Written == {"publish", "unguard", "return"}

(* A backup on a second EEPROM, as long as no call fails.                  *)
EepromInv ==
  kind = "eeprom" /\ ~failed =>
    /\ status = "Completed" /\ (AtRest \/ pc = "system") => Agree
    /\ call.by = "sync" /\ pc \in {"guard", "hardware"} =>
         eeprom[Other(call.chip)] = call.val
    /\ \/ call.by \in {"sync", "mirror"} /\ pc \in Written
       \/ pc \in {"inherited", "common"}
       => eeprom["source"] = eeprom["destination"]

AllSame == \A o \in OfSource : pim[o] = pim["source"]

(* A backup on D-Bus, as long as no call fails.                            *)
CacheInv ==
  kind = "cache" /\ ~failed =>
    /\ AtRest \/ (pc = "compare" /\ ~setup) =>
         /\ AllSame /\ Agree
         /\ status # "Completed" => eeprom["source"] = pim["source"]
    /\ pc = "common" => pim["inherited"] = client.val
    /\ call.by = "sync" =>
         setup /\ (pc \in Written => eeprom["source"] = call.val)
    /\ pc = "system" =>
         /\ \/ srcMap = eeprom["source"]
            \/ reported /\ Default \notin {srcMap, eeprom["source"]}
         /\ status # "Completed" => srcMap = eeprom["source"]

-----------------------------------------------------------------------------
(* FlowInv is inductive.                                                   *)
LEMMA NextFlowInv ==
  ASSUME TypeOK, CopiesInv, FlowInv, [Next]_vars
  PROVE  FlowInv'
<1> USE DEF TypeOK, CopiesInv, CallInv, PublishInv, FlowInv, Guarded, Works,
            Fails, Writable, Other, BackupChip, Call, Chip
<1>1. CASE EnableRebootGuard
  BY <1>1 DEF EnableRebootGuard, vpdVars
<1>2. CASE WriteHardware
  BY <1>2 DEF WriteHardware
<1>3. CASE PublishKeyword
  BY <1>3 DEF PublishKeyword
<1>4. CASE WriteRedundant
  BY <1>4 DEF WriteRedundant
<1>5. CASE DisableRebootGuard
  BY <1>5 DEF DisableRebootGuard, vpdVars, callVars
<1>6. CASE AnswerFailure
  BY <1>6 DEF AnswerFailure, BackToLoop, NoCall, vpdVars, history
<1>7. CASE Mirror
  BY <1>7 DEF Mirror, vpdVars, history
<1>8. CASE MirrorDone
  BY <1>8 DEF MirrorDone, vpdVars, callVars, history
<1>9. CASE PublishInherited
  BY <1>9 DEF PublishInherited, PublishOn, callVars
<1>10. CASE PublishCommon
  BY <1>10 DEF PublishCommon, PublishOn, BackToLoop, NoCall
<1>11. CASE SetDeviceTreeAndJson
  <2>1. CASE BackToLoop /\ Works /\ UNCHANGED status
    BY <1>11, <2>1 DEF SetDeviceTreeAndJson, BackToLoop, NoCall, vpdVars
  <2>2. CASE ~(BackToLoop /\ Works /\ UNCHANGED status)
    BY <1>11, <2>2 DEF SetDeviceTreeAndJson, vpdVars, callVars
  <2> QED BY <2>1, <2>2
<1>12. CASE BackupAndRestore
  BY <1>12 DEF BackupAndRestore, vpdVars, callVars
<1>13. CASE BackupAndRestoreIpzVpd
  BY <1>13 DEF BackupAndRestoreIpzVpd, Sync, RestoreDone, BackToLoop, NoCall,
               vpdVars
<1>14. CASE SyncDone
  BY <1>14 DEF SyncDone, RestoreDone, BackToLoop, NoCall, vpdVars, history
<1>15. CASE PublishSystemVPD
  BY <1>15 DEF PublishSystemVPD, BackToLoop, NoCall
<1>16. CASE \E c \in Chip, v \in Value : UpdateKeyword(c, v)
  BY <1>16 DEF UpdateKeyword, vpdVars
<1>17. CASE ParseVpdFile
  BY <1>17 DEF ParseVpdFile, vpdVars, callVars
<1>18. CASE PublishCollected
  BY <1>18 DEF PublishCollected, callVars
<1>19. CASE Restart
  BY <1>19 DEF Restart, NoCall
<1>20. CASE UNCHANGED vars
  BY <1>20 DEF vars, vpdVars, callVars, history
<1> QED BY <1>1, <1>2, <1>3, <1>4, <1>5, <1>6, <1>7, <1>8, <1>9, <1>10, <1>11,
           <1>12, <1>13, <1>14, <1>15, <1>16, <1>17, <1>18, <1>19, <1>20
     DEF Next, UpdateVpdKeyword, AnswerClient, SynchroniseCopies

(* Every step keeps what a request under way has reached; a collection     *)
(* thread that is at work beside it sets raced.                            *)
LEMMA NextRequestInv ==
  ASSUME TypeOK, CopiesInv, FlowInv, RequestInv, AckInv, [Next]_vars
  PROVE  RequestInv'
<1> USE DEF TypeOK, CopiesInv, CallInv, PublishInv, FlowInv, RequestInv,
            Served, Guarded, Works, Fails, Writable, Other, Call, Chip, Object
<1>1. CASE EnableRebootGuard
  BY <1>1 DEF EnableRebootGuard, vpdVars
<1>2. CASE WriteHardware
  BY <1>2 DEF WriteHardware
<1>3. CASE PublishKeyword
  BY <1>3 DEF PublishKeyword
<1>4. CASE WriteRedundant
  BY <1>4 DEF WriteRedundant
<1>5. CASE DisableRebootGuard
  BY <1>5 DEF DisableRebootGuard, vpdVars, callVars
<1>6. CASE AnswerFailure
  BY <1>6 DEF AnswerFailure, BackToLoop, NoCall, vpdVars, history
<1>7. CASE Mirror
  BY <1>7 DEF Mirror, vpdVars, history
<1>8. CASE MirrorDone
  BY <1>8 DEF MirrorDone, vpdVars, callVars, history
<1>9. CASE PublishInherited
  BY <1>9 DEF PublishInherited, PublishOn, callVars
<1>10. CASE PublishCommon
  BY <1>10 DEF PublishCommon, PublishOn, BackToLoop, NoCall
<1>11. CASE SetDeviceTreeAndJson
  <2>1. CASE BackToLoop /\ Works /\ UNCHANGED status
    BY <1>11, <2>1 DEF SetDeviceTreeAndJson, BackToLoop, NoCall, vpdVars
  <2>2. CASE ~(BackToLoop /\ Works /\ UNCHANGED status)
    BY <1>11, <2>2 DEF SetDeviceTreeAndJson, vpdVars, callVars
  <2> QED BY <2>1, <2>2
<1>12. CASE BackupAndRestore
  BY <1>12 DEF BackupAndRestore, vpdVars, callVars
<1>13. CASE BackupAndRestoreIpzVpd
  BY <1>13 DEF BackupAndRestoreIpzVpd, Sync, RestoreDone, BackToLoop, NoCall,
               vpdVars
<1>14. CASE SyncDone
  BY <1>14 DEF SyncDone, RestoreDone, BackToLoop, NoCall, vpdVars, history
<1>15. CASE PublishSystemVPD
  BY <1>15 DEF PublishSystemVPD, BackToLoop, NoCall
<1>16. ASSUME NEW c \in Chip, NEW v \in Value, UpdateKeyword(c, v)
       PROVE  RequestInv'
  <2>1. /\ call'.by = "write" /\ pc' = "guard"
        /\ UNCHANGED thread
    BY <1>16 DEF UpdateKeyword
  <2>2. ~raced' => thread = NoValue
    BY <1>16 DEF UpdateKeyword
  <2> QED BY <2>1, <2>2
<1>17. CASE ParseVpdFile
  BY <1>17 DEF ParseVpdFile, vpdVars, callVars
<1>18. CASE PublishCollected
  BY <1>18 DEF PublishCollected, callVars
<1>19. CASE Restart
  BY <1>19 DEF Restart, NoCall
<1>20. CASE UNCHANGED vars
  BY <1>20 DEF vars, vpdVars, callVars, history
<1> QED BY <1>1, <1>2, <1>3, <1>4, <1>5, <1>6, <1>7, <1>8, <1>9, <1>10, <1>11,
           <1>12, <1>13, <1>14, <1>15, <1>16, <1>17, <1>18, <1>19, <1>20
     DEF Next, UpdateVpdKeyword, AnswerClient, SynchroniseCopies

(* Every step keeps what an answered request relies on: backup and restore *)
(* writes the other copy, or the value that is there already, and a thread *)
(* publishes what it read after the answer.                                *)
LEMMA NextAckInv ==
  ASSUME TypeOK, CopiesInv, FlowInv, RequestInv, AckInv, [Next]_vars
  PROVE  AckInv'
<1> USE DEF TypeOK, CopiesInv, CallInv, PublishInv, FlowInv, RequestInv,
            AckInv, Kept, Served, CollectedChip, Collects, OfSource, Guarded,
            Works, Fails, Writable, Other, Call, Chip, Object, BackupCopy,
            BackupChip
<1>1. CASE EnableRebootGuard
  BY <1>1 DEF EnableRebootGuard, vpdVars
<1>2. CASE WriteHardware
  BY <1>2 DEF WriteHardware
<1>3. CASE PublishKeyword
  BY <1>3 DEF PublishKeyword
<1>4. CASE WriteRedundant
  BY <1>4 DEF WriteRedundant
<1>5. CASE DisableRebootGuard
  BY <1>5 DEF DisableRebootGuard, vpdVars, callVars
<1>6. CASE AnswerFailure
  BY <1>6 DEF AnswerFailure, BackToLoop, NoCall, vpdVars, history
<1>7. CASE Mirror
  BY <1>7 DEF Mirror, vpdVars, history
<1>8. CASE MirrorDone
  BY <1>8 DEF MirrorDone, vpdVars, callVars, history
<1>9. CASE PublishInherited
  BY <1>9 DEF PublishInherited, PublishOn, callVars
<1>10. CASE PublishCommon
  BY <1>10 DEF PublishCommon, PublishOn, BackToLoop, NoCall
<1>11. CASE SetDeviceTreeAndJson
  BY <1>11 DEF SetDeviceTreeAndJson, BackToLoop, NoCall, vpdVars, callVars
<1>12. CASE BackupAndRestore
  BY <1>12 DEF BackupAndRestore, vpdVars, callVars
<1>13. CASE BackupAndRestoreIpzVpd
  BY <1>13 DEF BackupAndRestoreIpzVpd, Sync, RestoreDone, BackToLoop, NoCall,
               vpdVars
<1>14. CASE SyncDone
  BY <1>14 DEF SyncDone, RestoreDone, BackToLoop, NoCall, vpdVars, history
<1>15. CASE PublishSystemVPD
  BY <1>15 DEF PublishSystemVPD, BackToLoop, NoCall
<1>16. ASSUME NEW c \in Chip, NEW v \in Value, UpdateKeyword(c, v)
       PROVE  AckInv'
  <2>1. acked'.by = "none"
    BY <1>16 DEF UpdateKeyword, NoCall
  <2> QED BY <2>1
<1>17. CASE ParseVpdFile
  BY <1>17 DEF ParseVpdFile, vpdVars, callVars
<1>18. CASE PublishCollected
  BY <1>18 DEF PublishCollected, callVars
<1>19. CASE Restart
  BY <1>19 DEF Restart, NoCall
<1>20. CASE UNCHANGED vars
  BY <1>20 DEF vars, vpdVars, callVars, history
<1> QED BY <1>1, <1>2, <1>3, <1>4, <1>5, <1>6, <1>7, <1>8, <1>9, <1>10, <1>11,
           <1>12, <1>13, <1>14, <1>15, <1>16, <1>17, <1>18, <1>19, <1>20
     DEF Next, UpdateVpdKeyword, AnswerClient, SynchroniseCopies

(* As long as no call fails, every step keeps what is known of the two     *)
(* EEPROMs of system VPD.                                                  *)
LEMMA NextEepromInv ==
  ASSUME TypeOK, CopiesInv, FlowInv, RequestInv, EepromInv, [Next]_vars
  PROVE  EepromInv'
<1> USE DEF TypeOK, CopiesInv, CallInv, PublishInv, FlowInv, RequestInv,
            EepromInv, Agree, AtRest, Written, Served, Guarded, Works, Fails,
            Writable, Other, Call, Chip, BackupCopy, BackupChip
<1>1. CASE EnableRebootGuard
  BY <1>1 DEF EnableRebootGuard, vpdVars
<1>2. CASE WriteHardware
  <2>1. SUFFICES ASSUME kind = "eeprom", ~failed' PROVE EepromInv'
    BY <1>2 DEF WriteHardware
  <2>2. /\ UNCHANGED <<kind, pim, status, call, client, srcMap, reported>>
        /\ eeprom' = [eeprom EXCEPT ![call.chip] = call.val]
        /\ pc = "hardware" /\ pc' = "publish" /\ ~failed
    BY <1>2, <2>1 DEF WriteHardware
  <2>3. /\ call.chip \in {"source", "destination"}
        /\ call.by \in {"sync", "mirror"} =>
             eeprom[Other(call.chip)] = call.val
    BY <2>1, <2>2
  <2>4. call.by \in {"sync", "mirror"} =>
          eeprom'["source"] = eeprom'["destination"]
    BY <2>2, <2>3
  <2> QED BY <2>1, <2>2, <2>4
<1>3. CASE PublishKeyword
  BY <1>3 DEF PublishKeyword
<1>4. CASE WriteRedundant
  BY <1>4 DEF WriteRedundant
<1>5. CASE DisableRebootGuard
  BY <1>5 DEF DisableRebootGuard, vpdVars, callVars
<1>6. CASE AnswerFailure
  BY <1>6 DEF AnswerFailure, BackToLoop, NoCall, vpdVars, history
<1>7. CASE Mirror
  BY <1>7 DEF Mirror, vpdVars, history
<1>8. CASE MirrorDone
  BY <1>8 DEF MirrorDone, vpdVars, callVars, history
<1>9. CASE PublishInherited
  BY <1>9 DEF PublishInherited, PublishOn, callVars
<1>10. CASE PublishCommon
  BY <1>10 DEF PublishCommon, PublishOn, BackToLoop, NoCall
<1>11. CASE SetDeviceTreeAndJson
  BY <1>11 DEF SetDeviceTreeAndJson, BackToLoop, NoCall, vpdVars, callVars
<1>12. CASE BackupAndRestore
  BY <1>12 DEF BackupAndRestore, vpdVars, callVars
<1>13. CASE BackupAndRestoreIpzVpd
  <2>1. SUFFICES ASSUME kind = "eeprom", ~failed' PROVE EepromInv'
    BY <1>13 DEF BackupAndRestoreIpzVpd
  <2>2. /\ UNCHANGED <<kind, eeprom, pim>> /\ pc = "compare"
        /\ srcMap = eeprom["source"] /\ BackupCopy = eeprom["destination"]
        /\ BackupChip = "destination" /\ BackupCopy # NoValue
    BY <1>13, <2>1, CopiesAssumption DEF BackupAndRestoreIpzVpd, vpdVars
  <2>3. ASSUME NEW map, RestoreDone(map), Agree'
        PROVE  EepromInv'
    BY <2>2, <2>3 DEF RestoreDone, BackToLoop, NoCall
  <2>4. ASSUME NEW c \in {"source", "destination"}, NEW v, Sync(c, v),
               eeprom[Other(c)] = v
        PROVE  EepromInv'
    BY <2>2, <2>4 DEF Sync
  <2>5. CASE \E map : RestoreDone(map) /\ Agree'
    BY <2>3, <2>5
  <2>6. CASE \/ Sync("destination", eeprom["source"])
             \/ Sync("source", eeprom["destination"])
    BY <2>4, <2>6
  <2>7. \/ srcMap = BackupCopy /\ \E map : RestoreDone(map)
        \/ /\ Default \notin {srcMap, BackupCopy} /\ reported'
           /\ \E map : RestoreDone(map)
        \/ Sync("destination", eeprom["source"])
        \/ Sync("source", eeprom["destination"])
    BY <1>13, <2>1, <2>2 DEF BackupAndRestoreIpzVpd
  <2>8. BackupCopy' = eeprom["destination"]
    BY <2>1, <2>2
  <2> QED BY <2>2, <2>5, <2>6, <2>7, <2>8
<1>14. CASE SyncDone
  BY <1>14 DEF SyncDone, RestoreDone, BackToLoop, NoCall, vpdVars, history
<1>15. CASE PublishSystemVPD
  BY <1>15 DEF PublishSystemVPD, BackToLoop, NoCall
<1>16. CASE \E c \in Chip, v \in Value : UpdateKeyword(c, v)
  BY <1>16 DEF UpdateKeyword, vpdVars
<1>17. CASE ParseVpdFile
  BY <1>17 DEF ParseVpdFile, vpdVars, callVars
<1>18. CASE PublishCollected
  BY <1>18 DEF PublishCollected, callVars
<1>19. CASE Restart
  BY <1>19 DEF Restart, NoCall
<1>20. CASE UNCHANGED vars
  BY <1>20 DEF vars, vpdVars, callVars, history
<1> QED BY <1>1, <1>2, <1>3, <1>4, <1>5, <1>6, <1>7, <1>8, <1>9, <1>10, <1>11,
           <1>12, <1>13, <1>14, <1>15, <1>16, <1>17, <1>18, <1>19, <1>20
     DEF Next, UpdateVpdKeyword, AnswerClient, SynchroniseCopies

(* And every step keeps what is known of an EEPROM and its backup on D-Bus. *)
LEMMA NextCacheInv ==
  ASSUME TypeOK, CopiesInv, FlowInv, RequestInv, CacheInv, [Next]_vars
  PROVE  CacheInv'
<1> USE DEF TypeOK, CopiesInv, CallInv, PublishInv, FlowInv, RequestInv,
            CacheInv, Agree, AllSame, AtRest, Written, Served, Guarded, Works,
            Fails, Writable, Other, Call, Chip, Object, OfSource, BackupCopy,
            BackupChip
<1>1. CASE EnableRebootGuard
  BY <1>1 DEF EnableRebootGuard, vpdVars
<1>2. CASE WriteHardware
  BY <1>2 DEF WriteHardware
<1>3. CASE PublishKeyword
  BY <1>3 DEF PublishKeyword
<1>4. CASE WriteRedundant
  BY <1>4 DEF WriteRedundant
<1>5. CASE DisableRebootGuard
  BY <1>5 DEF DisableRebootGuard, vpdVars, callVars
<1>6. CASE AnswerFailure
  BY <1>6 DEF AnswerFailure, BackToLoop, NoCall, vpdVars, history
<1>7. CASE Mirror
  BY <1>7 DEF Mirror, vpdVars, history
<1>8. CASE MirrorDone
  BY <1>8 DEF MirrorDone, vpdVars, callVars, history
<1>9. CASE PublishInherited
  BY <1>9 DEF PublishInherited, PublishOn, callVars
<1>10. CASE PublishCommon
  BY <1>10 DEF PublishCommon, PublishOn, BackToLoop, NoCall
<1>11. CASE SetDeviceTreeAndJson
  BY <1>11 DEF SetDeviceTreeAndJson, BackToLoop, NoCall, vpdVars, callVars
<1>12. CASE BackupAndRestore
  BY <1>12 DEF BackupAndRestore, vpdVars, callVars
<1>13. CASE BackupAndRestoreIpzVpd
  BY <1>13 DEF BackupAndRestoreIpzVpd, Sync, RestoreDone, BackToLoop, NoCall,
               vpdVars
<1>14. CASE SyncDone
  BY <1>14 DEF SyncDone, RestoreDone, BackToLoop, NoCall, vpdVars, history
<1>15. CASE PublishSystemVPD
  BY <1>15 DEF PublishSystemVPD, BackToLoop, NoCall
<1>16. CASE \E c \in Chip, v \in Value : UpdateKeyword(c, v)
  BY <1>16 DEF UpdateKeyword, vpdVars
<1>17. CASE ParseVpdFile
  BY <1>17 DEF ParseVpdFile, vpdVars, callVars
<1>18. CASE PublishCollected
  BY <1>18 DEF PublishCollected, callVars
<1>19. CASE Restart
  BY <1>19 DEF Restart, NoCall
<1>20. CASE UNCHANGED vars
  BY <1>20 DEF vars, vpdVars, callVars, history
<1> QED BY <1>1, <1>2, <1>3, <1>4, <1>5, <1>6, <1>7, <1>8, <1>9, <1>10, <1>11,
           <1>12, <1>13, <1>14, <1>15, <1>16, <1>17, <1>18, <1>19, <1>20
     DEF Next, UpdateVpdKeyword, AnswerClient, SynchroniseCopies

-----------------------------------------------------------------------------
(* The invariants hold at the start.                                       *)
LEMMA InitKept ==
  Init => FlowInv /\ RequestInv /\ AckInv /\ EepromInv /\ CacheInv
BY DEF Init, FlowInv, RequestInv, AckInv, Kept, EepromInv, CacheInv, NoCall,
       AtRest, Written

(* No step leaves them.                                                    *)
LEMMA NextKept ==
  /\ TypeOK /\ CopiesInv
  /\ FlowInv /\ RequestInv /\ AckInv /\ EepromInv /\ CacheInv
  /\ [Next]_vars
  => (FlowInv /\ RequestInv /\ AckInv /\ EepromInv /\ CacheInv)'
BY NextFlowInv, NextRequestInv, NextAckInv, NextEepromInv, NextCacheInv

(* They hold in every reachable state.                                     *)
LEMMA KeptInvariant ==
  Spec => [](FlowInv /\ RequestInv /\ AckInv /\ EepromInv /\ CacheInv)
BY InitKept, NextKept, CopiesTypeCorrect, CopiesInvariant, PTL DEF Spec

(* A client that was told of success finds its value on every EEPROM and,  *)
(* unless a collection thread was at work beside the request, on D-Bus,    *)
(* whatever fails afterwards.                                              *)
THEOREM AckedIsAlwaysKept == Spec => []AckedIsKept
<1>1. AckInv => AckedIsKept
  BY DEF AckInv, AckedIsKept, Kept, Served
<1> QED BY <1>1, KeptInvariant, PTL

(* After backup and restore the keyword and its backup agree, or the       *)
(* mismatch of two values that were set was reported.                      *)
THEOREM CopiesAlwaysAgree == Spec => []CopiesAgree
<1>1. /\ TypeOK /\ FlowInv /\ EepromInv /\ CacheInv
      => CopiesAgree
  BY CopiesAssumption
  DEF TypeOK, FruKind, FlowInv, EepromInv, CacheInv, CopiesAgree, AtRest,
      Agree
<1> QED BY <1>1, KeptInvariant, CopiesTypeCorrect, PTL

(* After the setup the objects that inherit system VPD show what the base  *)
(* object shows.                                                           *)
THEOREM InheritedAlwaysFollow == Spec => []InheritedFollowBase
<1>1. CacheInv => InheritedFollowBase
  BY DEF CacheInv, InheritedFollowBase, AtRest, AllSame
<1> QED BY <1>1, KeptInvariant, PTL
=============================================================================

---------------------------- MODULE KeywordCopies ----------------------------
(***************************************************************************)
(* One keyword and all the places vpd-manager keeps it: the EEPROM it is   *)
(* read from, a redundant or backup EEPROM, and the inventory on D-Bus     *)
(* (PIM).  The io thread changes them in two flows that share              *)
(* Parser::updateVpdKeyword: a client's UpdateKeyword, and backup and      *)
(* restore, which runs once per process.  Every write to a copy is a step, *)
(* so that any of them can fail, the process can die between any two, and  *)
(* a collection thread can read and publish the same FRU in between.       *)
(*                                                                         *)
(* The values are those that fit the keyword; writing a longer one, which  *)
(* the parser cuts to the size of the keyword, and the ECC of the record   *)
(* are not modelled here.                                                  *)
(***************************************************************************)
EXTENDS FiniteSets

CONSTANTS
  Value,     \* contents of the keyword
  Default,   \* "defaultValue" of the keyword in the backup and restore JSON
  NoValue,   \* what an object that is not on PIM holds
  Kinds,     \* which FRUs are looked at, see FruKind
  Faults     \* what the environment may do, see FaultNames

(***************************************************************************)
(* "module": a processor module, with a redundant EEPROM and no backup.    *)
(* "eeprom": system VPD backed up on a second EEPROM.                      *)
(* "cache":  system VPD whose backup is its own object on D-Bus.           *)
(***************************************************************************)
FruKind == {"module", "eeprom", "cache"}

FaultNames ==
  { "guard",      \* the unit of the reboot guard cannot be started
    "hardware",   \* an EEPROM cannot be written
    "pim",        \* a D-Bus call to PIM fails
    "restore",    \* backup and restore cannot read what it needs
    "restart" }   \* the process ends at any point, or the BMC loses power

ASSUME CopiesAssumption ==
  /\ Default \in Value
  /\ NoValue \notin Value
  /\ Kinds \subseteq FruKind
  /\ Faults \subseteq FaultNames

(* EEPROMs: "source" and "destination" are those of the JSON, and a module *)
(* has a "source" and a "redundant" one.                                   *)
Chip == {"source", "destination", "redundant"}

(* Places on PIM: the base objects of two EEPROMs, the objects that        *)
(* inherit from the source, and the common interfaces of all of these.     *)
Object == {"source", "destination", "inherited", "common"}

OfSource == {"source", "inherited", "common"}

VARIABLES
  kind,      \* the kind of FRU this behaviour is about
  eeprom,    \* content of each EEPROM
  pim,       \* content of each place on PIM
  guard,     \* whether the reboot guard is enabled
  status,    \* m_backupAndRestoreStatus
  setup,     \* the io thread is in performInitialSetup
  pc,        \* where the io thread is
  call,      \* the call of updateVpdKeyword under way: who made it, and what
  rc,        \* its result so far
  client,    \* the client's request it works for
  srcMap,    \* the keyword in the parsed map of the source
  thread     \* what a collection thread of the FRU has read, if any

vpdVars  == <<eeprom, pim>>
callVars == <<call, rc, client>>

(* History: what the properties need to know about the past.               *)
VARIABLES
  acked,     \* the last request that was answered with success
  failed,    \* some call failed since the process started
  raced,     \* a collection thread was at work beside the last request
  stuck,     \* the guard outlived the call that enabled it
  reported   \* the PEL for a mismatch was logged since the process started

history == <<acked, failed, raced, stuck, reported>>

vars == <<kind, vpdVars, guard, status, setup, pc, callVars, srcMap, thread,
          history>>

NoCall == [by |-> "none", chip |-> "source", val |-> Default]

Call == [by : {"none", "write", "mirror", "sync"}, chip : Chip, val : Value]

(* Points of updateVpdKeyword at which the reboot guard must be enabled.   *)
Guarded == {"hardware", "publish", "redundant", "unguard"}

Pc == Guarded \cup {"start", "compare", "system", "idle", "guard", "return",
                    "inherited", "common"}

BackupStatus == {"NotStarted", "Invoked", "Completed"}

Other(chip) == IF chip = "source" THEN "destination" ELSE "source"

(* EEPROMs a client names: the redundant one is no path of the JSON.       *)
Writable == IF kind = "eeprom" THEN {"source", "destination"} ELSE {"source"}

(* What backup and restore compares the source with: the other EEPROM, or  *)
(* the D-Bus object of the source when the JSON gives an inventory path.   *)
BackupCopy == IF kind = "cache" THEN pim["source"] ELSE eeprom["destination"]

(* Where it writes that copy: getFruPathFromJson turns the inventory path  *)
(* of a backup on D-Bus into the EEPROM of the source.                     *)
BackupChip == IF kind = "cache" THEN "source" ELSE "destination"

(* A step that goes well, and one that meets the fault f.                  *)
Works    == UNCHANGED failed
Fails(f) == f \in Faults /\ failed' = TRUE

(* The io thread goes back to its loop.                                    *)
BackToLoop ==
  /\ pc' = "idle"
  /\ setup' = FALSE
  /\ call' = NoCall
  /\ client' = NoCall
  /\ rc' = "ok"
  /\ srcMap' = Default

Init ==
  /\ kind \in Kinds
  /\ \E src, dst \in Value :
       eeprom = [c \in Chip |-> IF c = "destination" THEN dst ELSE src]
  /\ \E p \in Value \cup {NoValue} : pim = [o \in Object |-> p]
  /\ guard = FALSE
  /\ status = "NotStarted"
  /\ setup = TRUE
  /\ pc = "start"
  /\ call = NoCall
  /\ rc = "ok"
  /\ client = NoCall
  /\ srcMap = Default
  /\ thread = NoValue
  /\ acked = NoCall
  /\ failed = FALSE
  /\ raced = FALSE
  /\ stuck = FALSE
  /\ reported = FALSE

-----------------------------------------------------------------------------
(* Parser::updateVpdKeyword                                                *)

(* The guard is enabled first; if that fails nothing else is tried, and    *)
(* the guard is not disabled.                                              *)
EnableRebootGuard ==
  /\ pc = "guard"
  /\ \/ guard' = TRUE /\ stuck' = FALSE /\ pc' = "hardware" /\ Works
        /\ UNCHANGED rc
     \/ Fails("guard") /\ pc' = "return" /\ rc' = "failed"
        /\ UNCHANGED <<guard, stuck>>
  /\ UNCHANGED <<kind, vpdVars, status, setup, call, client, srcMap, thread,
                 acked, raced, reported>>

(* Mutant of WriteHardware: a failure returns at once.                     *)
WriteHardwareOrReturn ==
  /\ pc = "hardware"
  /\ LET written == [eeprom EXCEPT ![call.chip] = call.val]
     IN  \/ eeprom' = written /\ rc' = "ok" /\ pc' = "publish" /\ Works
         \/ Fails("hardware") /\ eeprom' \in {eeprom, written}
            /\ rc' = "failed" /\ pc' = "return"
  /\ UNCHANGED <<kind, pim, guard, status, setup, call, client, srcMap,
                 thread, acked, raced, stuck, reported>>

(* The EEPROM is written.  A failure comes before the data are written, or *)
(* after them, when the ECC cannot be updated.                             *)
WriteHardware ==
  /\ pc = "hardware"
  /\ LET written == [eeprom EXCEPT ![call.chip] = call.val]
     IN  \/ eeprom' = written /\ rc' = "ok" /\ pc' = "publish" /\ Works
         \/ Fails("hardware") /\ eeprom' \in {eeprom, written}
            /\ rc' = "failed" /\ pc' = "unguard"
  /\ UNCHANGED <<kind, pim, guard, status, setup, call, client, srcMap,
                 thread, acked, raced, stuck, reported>>

(* The keyword is read back and published on the base object.              *)
PublishKeyword ==
  /\ pc = "publish"
  /\ \/ /\ pim' = [pim EXCEPT ![call.chip] = eeprom[call.chip]]
        /\ pc' = IF kind = "module" THEN "redundant" ELSE "unguard"
        /\ Works
        /\ UNCHANGED rc
     \/ Fails("pim") /\ rc' = "failed" /\ pc' = "unguard" /\ UNCHANGED pim
  /\ UNCHANGED <<kind, eeprom, guard, status, setup, call, client, srcMap,
                 thread, acked, raced, stuck, reported>>

(* Mutant of WriteRedundant: the result of the second write is not looked  *)
(* at.                                                                     *)
WriteRedundantUnchecked ==
  /\ pc = "redundant"
  /\ pc' = "unguard"
  /\ LET written == [eeprom EXCEPT !["redundant"] = call.val]
     IN  \/ eeprom' = written /\ Works
         \/ Fails("hardware") /\ eeprom' \in {eeprom, written}
  /\ UNCHANGED <<kind, pim, guard, status, setup, callVars, srcMap,
                 thread, acked, raced, stuck, reported>>

(* The redundant EEPROM is written last, with the value of the caller.     *)
WriteRedundant ==
  /\ pc = "redundant"
  /\ pc' = "unguard"
  /\ LET written == [eeprom EXCEPT !["redundant"] = call.val]
     IN  \/ eeprom' = written /\ Works /\ UNCHANGED rc
         \/ Fails("hardware") /\ eeprom' \in {eeprom, written} /\ rc' = "failed"
  /\ UNCHANGED <<kind, pim, guard, status, setup, call, client, srcMap,
                 thread, acked, raced, stuck, reported>>

(* The guard is disabled whatever happened; when its retries fail as well, *)
(* only a PEL tells.                                                       *)
DisableRebootGuard ==
  /\ pc = "unguard"
  /\ pc' = "return"
  /\ \/ guard' = FALSE /\ Works /\ UNCHANGED stuck
     \/ Fails("guard") /\ stuck' = TRUE /\ UNCHANGED guard
  /\ UNCHANGED <<kind, vpdVars, status, setup, callVars, srcMap, thread,
                 acked, raced, reported>>

-----------------------------------------------------------------------------
(* Manager::updateKeyword                                                  *)

(* A client's request.  Nothing is refused for the state of a collection.  *)
UpdateKeyword(c, v) ==
  /\ pc = "idle"
  /\ c \in Writable
  /\ pc' = "guard"
  /\ client' = [by |-> "write", chip |-> c, val |-> v]
  /\ call' = client'
  /\ acked' = NoCall
  /\ raced' = (thread # NoValue)
  /\ UNCHANGED <<kind, vpdVars, guard, status, setup, rc, srcMap, thread,
                 failed, stuck, reported>>

(* The first write failed: nothing is reverted, the client is told.        *)
AnswerFailure ==
  /\ pc = "return"
  /\ call.by = "write"
  /\ rc = "failed"
  /\ BackToLoop
  /\ UNCHANGED <<kind, vpdVars, guard, status, thread, history>>

(* Mutant of Mirror: only a write to the source is mirrored.               *)
MirrorSourceOnly ==
  /\ pc = "return"
  /\ call.by = "write"
  /\ rc = "ok"
  /\ IF kind = "eeprom" /\ call.chip = "source"
     THEN /\ call' = [call EXCEPT !.by = "mirror", !.chip = Other(@)]
          /\ pc' = "guard"
     ELSE pc' = "inherited" /\ UNCHANGED call
  /\ UNCHANGED <<kind, vpdVars, guard, status, setup, rc, client, srcMap,
                 thread, history>>

(* updateKeywordOnPrimaryOrBackupPath: the mapped keyword of the other     *)
(* EEPROM gets the value the client sent, by a call of its own.            *)
Mirror ==
  /\ pc = "return"
  /\ call.by = "write"
  /\ rc = "ok"
  /\ IF kind = "eeprom"
     THEN /\ call' = [call EXCEPT !.by = "mirror", !.chip = Other(@)]
          /\ pc' = "guard"
     ELSE pc' = "inherited" /\ UNCHANGED call
  /\ UNCHANGED <<kind, vpdVars, guard, status, setup, rc, client, srcMap,
                 thread, history>>

(* A mirror that failed is logged; the client's success stands.            *)
MirrorDone ==
  /\ pc = "return"
  /\ call.by = "mirror"
  /\ pc' = "inherited"
  /\ UNCHANGED <<kind, vpdVars, guard, status, setup, callVars, srcMap,
                 thread, history>>

(* One Notify for objects that share the source's VPD; a failure is logged. *)
PublishOn(place) ==
  \/ Works /\ pim' = IF client.chip = "source"
                     THEN [pim EXCEPT ![place] = client.val] ELSE pim
  \/ Fails("pim") /\ UNCHANGED pim

(* updateKwdOnInheritedFrus                                                *)
PublishInherited ==
  /\ pc = "inherited"
  /\ pc' = "common"
  /\ PublishOn("inherited")
  /\ UNCHANGED <<kind, eeprom, guard, status, setup, callVars, srcMap, thread,
                 acked, raced, stuck, reported>>

(* updateCiPropertyOfInheritedFrus, and the answer to the client.          *)
PublishCommon ==
  /\ pc = "common"
  /\ PublishOn("common")
  /\ acked' = client
  /\ BackToLoop
  /\ UNCHANGED <<kind, eeprom, guard, status, thread, raced, stuck, reported>>

-----------------------------------------------------------------------------
(* Initial setup, and backup and restore                                   *)

(* setDeviceTreeAndJson parses the system VPD.  A backup on D-Bus is       *)
(* looked at now, if the object is there; if it cannot be, the parsed map  *)
(* stays as it is.                                                         *)
SetDeviceTreeAndJson ==
  /\ pc = "start"
  /\ \/ /\ kind = "cache" /\ pim["source"] # NoValue
        /\ srcMap' = eeprom["source"]
        /\ \/ status' = "Invoked" /\ pc' = "compare" /\ Works
           \/ Fails("restore") /\ status' \in {"NotStarted", "Invoked"}
              /\ pc' = "system"
        /\ UNCHANGED <<setup, callVars>>
     \/ /\ kind = "eeprom" \/ (kind = "cache" /\ pim["source"] = NoValue)
        /\ srcMap' = eeprom["source"]
        /\ pc' = "system"
        /\ Works
        /\ UNCHANGED <<status, setup, callVars>>
     \/ kind = "module" /\ BackToLoop /\ Works /\ UNCHANGED status
  /\ UNCHANGED <<kind, vpdVars, guard, thread, acked, raced, stuck, reported>>

(* The timer of the collection calls it when the collection is over.  The  *)
(* status moves on before anything can fail.                               *)
BackupAndRestore ==
  /\ pc = "idle"
  /\ kind # "module"
  /\ status = "NotStarted"
  /\ status' = "Invoked"
  /\ \/ pc' = "compare" /\ srcMap' = eeprom["source"] /\ Works
     \/ Fails("restore") /\ UNCHANGED <<pc, srcMap>>
  /\ UNCHANGED <<kind, vpdVars, guard, setup, callVars, thread, acked, raced,
                 stuck, reported>>

(* Write one side with the value of the other.                             *)
Sync(c, v) ==
  /\ call' = [by |-> "sync", chip |-> c, val |-> v]
  /\ pc' = "guard"
  /\ UNCHANGED <<status, setup, rc, client, srcMap, failed, reported>>

(* Back to whoever asked for backup and restore.                           *)
RestoreDone(map) ==
  /\ status' = "Completed"
  /\ IF setup
     THEN /\ pc' = "system"
          /\ srcMap' = map
          /\ call' = NoCall
          /\ rc' = "ok"
          /\ UNCHANGED <<setup, client>>
     ELSE BackToLoop

(* Mutants of BackupAndRestoreIpzVpd: the source always wins, and a backup *)
(* that is not on D-Bus is not noticed.                                    *)
BackupOnly ==
  /\ pc = "compare"
  /\ LET src == srcMap
         dst == BackupCopy
     IN  \/ /\ dst = NoValue \/ src = dst
            /\ RestoreDone(src) /\ Works /\ UNCHANGED reported
         \/ Fails("restore") /\ RestoreDone(src) /\ UNCHANGED reported
         \/ /\ dst # NoValue /\ src # dst
            /\ Sync(BackupChip, src)
  /\ UNCHANGED <<kind, vpdVars, guard, thread, acked, raced, stuck>>

RestoreUnread ==
  /\ pc = "compare"
  /\ LET src == srcMap
         dst == BackupCopy
     IN  \/ src = dst /\ RestoreDone(src) /\ Works /\ UNCHANGED reported
         \/ dst = Default /\ src # dst /\ Sync(BackupChip, src)
         \/ src = Default /\ src # dst /\ Sync("source", dst)
  /\ UNCHANGED <<kind, vpdVars, guard, thread, acked, raced, stuck>>

(* backupAndRestoreIpzVpd for the keyword: the side that holds the default *)
(* is written with the other; two different values that were set are left, *)
(* and the map is made to match the backup on D-Bus, as it is published.   *)
BackupAndRestoreIpzVpd ==
  /\ pc = "compare"
  /\ LET src == srcMap
         dst == BackupCopy
     IN  \/ /\ dst = NoValue \/ src = dst
            /\ RestoreDone(src) /\ Works /\ UNCHANGED reported
         \/ Fails("restore") /\ RestoreDone(src) /\ UNCHANGED reported
         \/ /\ dst = Default /\ src # dst
            /\ Sync(BackupChip, src)
         \/ /\ src = Default /\ dst \notin {NoValue, src}
            /\ Sync("source", dst)
         \/ /\ dst \notin {NoValue, Default, src} /\ src # Default
            /\ RestoreDone(IF kind = "cache" THEN dst ELSE src)
            /\ reported' = TRUE
            /\ Works
  /\ UNCHANGED <<kind, vpdVars, guard, thread, acked, raced, stuck>>

(* syncIpzData keeps the parsed map in step if the write succeeded.        *)
SyncDone ==
  /\ pc = "return"
  /\ call.by = "sync"
  /\ RestoreDone(IF rc = "ok" /\ call.chip = "source" THEN call.val
                                                      ELSE srcMap)
  /\ UNCHANGED <<kind, vpdVars, guard, thread, history>>

(* Mutant of PublishSystemVPD: only the base object is published again.    *)
PublishBaseOnly ==
  /\ pc = "system"
  /\ \/ pim' = [pim EXCEPT !["source"] = srcMap] /\ Works
     \/ Fails("pim") /\ UNCHANGED pim
  /\ BackToLoop
  /\ UNCHANGED <<kind, eeprom, guard, status, thread, acked, raced, stuck,
                 reported>>

(* publishSystemVPD: the map goes to every object of the system VPD.       *)
PublishSystemVPD ==
  /\ pc = "system"
  /\ \/ pim' = [o \in Object |-> IF o \in OfSource THEN srcMap ELSE pim[o]]
        /\ Works
     \/ Fails("pim") /\ UNCHANGED pim
  /\ BackToLoop
  /\ UNCHANGED <<kind, eeprom, guard, status, thread, acked, raced, stuck,
                 reported>>

-----------------------------------------------------------------------------
(* A collection thread of the FRU: a module, or the backup EEPROM, which is *)
(* a FRU like others.  System VPD is not collected by a thread.            *)

CollectedChip == IF kind = "eeprom" THEN "destination" ELSE "source"

Collects(o) == IF kind = "eeprom" THEN o = "destination" ELSE o \in OfSource

ParseVpdFile ==
  /\ ~setup
  /\ kind # "cache"
  /\ thread = NoValue
  /\ thread' = eeprom[CollectedChip]
  /\ raced' = (raced \/ pc # "idle")
  /\ UNCHANGED <<kind, vpdVars, guard, status, setup, pc, callVars, srcMap,
                 acked, failed, stuck, reported>>

(* When it cannot publish, the thread empties the objects, if PIM lets it. *)
PublishCollected ==
  /\ thread # NoValue
  /\ thread' = NoValue
  /\ \/ /\ pim' = [o \in Object |-> IF Collects(o) THEN thread ELSE pim[o]]
        /\ Works
        /\ UNCHANGED raced
     \/ /\ Fails("pim")
        /\ pim' \in {pim, [o \in Object |->
                             IF Collects(o) THEN NoValue ELSE pim[o]]}
        /\ raced' = TRUE
  /\ UNCHANGED <<kind, eeprom, guard, status, setup, pc, callVars, srcMap,
                 acked, stuck, reported>>

-----------------------------------------------------------------------------
(* The process dies and starts over; PIM lives on.  The guard stays, unless *)
(* the BMC went down with it, and then the planar may have been replaced.  *)
Restart ==
  /\ "restart" \in Faults
  /\ pc' = "start"
  /\ \/ UNCHANGED <<guard, eeprom>>
     \/ /\ guard' = FALSE
        /\ eeprom' \in {eeprom, [eeprom EXCEPT !["source"] = Default]}
  /\ stuck' = guard'
  /\ setup' = TRUE
  /\ status' = "NotStarted"
  /\ call' = NoCall
  /\ client' = NoCall
  /\ rc' = "ok"
  /\ srcMap' = Default
  /\ thread' = NoValue
  /\ acked' = NoCall
  /\ failed' = FALSE
  /\ raced' = FALSE
  /\ reported' = FALSE
  /\ UNCHANGED <<kind, pim>>

UpdateVpdKeyword ==
  \/ EnableRebootGuard
  \/ WriteHardware
  \/ PublishKeyword
  \/ WriteRedundant
  \/ DisableRebootGuard

AnswerClient ==
  \/ AnswerFailure
  \/ Mirror
  \/ MirrorDone
  \/ PublishInherited
  \/ PublishCommon

SynchroniseCopies ==
  \/ SetDeviceTreeAndJson
  \/ BackupAndRestore
  \/ BackupAndRestoreIpzVpd
  \/ SyncDone
  \/ PublishSystemVPD

Next ==
  \/ \E c \in Chip, v \in Value : UpdateKeyword(c, v)
  \/ UpdateVpdKeyword
  \/ AnswerClient
  \/ SynchroniseCopies
  \/ ParseVpdFile
  \/ PublishCollected
  \/ Restart

Spec == Init /\ [][Next]_vars

-----------------------------------------------------------------------------
(* Properties                                                              *)

(* The one type invariant.                                                 *)
TypeOK ==
  /\ kind \in FruKind
  /\ eeprom \in [Chip -> Value]
  /\ pim \in [Object -> Value \cup {NoValue}]
  /\ guard \in BOOLEAN
  /\ status \in BackupStatus
  /\ setup \in BOOLEAN
  /\ pc \in Pc
  /\ call \in Call
  /\ rc \in {"ok", "failed"}
  /\ client \in Call
  /\ srcMap \in Value
  /\ thread \in Value \cup {NoValue}
  /\ acked \in Call
  /\ failed \in BOOLEAN
  /\ raced \in BOOLEAN
  /\ stuck \in BOOLEAN
  /\ reported \in BOOLEAN

(* No EEPROM is written without the reboot guard, and no path through      *)
(* updateVpdKeyword, whichever of its calls fails, leaves the guard        *)
(* enabled: only a guard that could not be disabled, or a process that     *)
(* died while it was enabled, does.                                        *)
GuardBalanced ==
  /\ pc \in Guarded => guard
  /\ guard => pc \in Guarded \/ stuck

(* A client that was told of success finds its value on the EEPROM, on the *)
(* redundant one and, unless a collection thread was at work beside the    *)
(* request, on D-Bus, and neither backup and restore nor a failing call    *)
(* takes it away later.  A default that was written to system VPD is       *)
(* excepted: if its mirror failed, the old value is restored.              *)
AckedIsKept ==
  ( /\ pc = "idle"
    /\ acked.by = "write"
    /\ acked.val # Default \/ kind = "module" )
  => /\ eeprom[acked.chip] = acked.val
     /\ kind = "module" => eeprom["redundant"] = acked.val
     /\ ~raced => pim[acked.chip] = acked.val

(* Once backup and restore is over, the keyword and its backup agree, or   *)
(* both were set to different values and the mismatch was reported; later  *)
(* writes by clients keep it so.                                           *)
CopiesAgree ==
  ( /\ pc = "idle"
    /\ status = "Completed"
    /\ ~failed )
  => \/ eeprom["source"] = BackupCopy
     \/ /\ reported
        /\ Default \notin {eeprom["source"], BackupCopy}

(* After the setup, the objects that inherit system VPD and the common     *)
(* interfaces show on D-Bus what the base object shows, also when a value  *)
(* was restored or a previous process died in the middle of an update.     *)
InheritedFollowBase ==
  ( /\ pc = "idle"
    /\ kind = "cache"
    /\ ~failed )
  => \A o \in OfSource : pim[o] = pim["source"]

(* The keyword is set as long as the EEPROM or its backup holds something  *)
(* else than the default.                                                  *)
IsSet == eeprom["source"] # Default \/ BackupCopy \notin {Default, NoValue}

ClientAskedForDefault == client.by = "write" /\ client.val = Default

ProcessEnded == pc' = "start"

(* A keyword of system VPD that is set on one side at least never becomes  *)
(* unset on both, unless a client writes the default or the planar is      *)
(* replaced.  On a backup on D-Bus this needs calls that succeed, see      *)
(* BackupIsKept.                                                           *)
SetValueSurvives ==
  [][ (kind # "module" /\ IsSet /\ ~IsSet')
      => \/ ClientAskedForDefault
         \/ ProcessEnded
         \/ kind = "cache" /\ failed ]_vars

(* The same for a backup on D-Bus whatever fails: what backup and restore  *)
(* promises for a source with the default and a backup that is set is that *)
(* the source gets the value of the backup.  The code breaks it: when the  *)
(* write to the EEPROM fails, the map still holds the default, and         *)
(* publishSystemVPD writes it over the backup.                             *)
BackupIsKept ==
  [][ (kind = "cache" /\ IsSet /\ ~IsSet')
      => ClientAskedForDefault \/ ProcessEnded ]_vars
=============================================================================

---------------------------- MODULE SystemStart -----------------------------
(***************************************************************************)
(* The start of the BMC: vpd-manager sets itself up, wait-vpd-parser then  *)
(* primes the inventory, asks for the collection of all FRUs and polls     *)
(* Status until it is Completed.  systemd starts the manager again when it *)
(* dies; wait-vpd-parser runs once per boot.  An administrator may force a *)
(* reset with vpd-tool, and the BMC may lose power at any time, be given   *)
(* another planar, another image or another mode, or be reset to factory   *)
(* settings.                                                               *)
(*                                                                         *)
(* What happens between InProgress and Completed is in FruCollection; here *)
(* a collection ends or does not.  Priming changes only the inventory,     *)
(* which is not part of this module.                                       *)
(***************************************************************************)
EXTENDS InitialSetup, Integers

CONSTANT MaxPolls    \* retryLimit of wait-vpd-parser, 100 by default

ASSUME PollAssumption == MaxPolls \in Nat \ {0}

VARIABLES
  requests,   \* clients whose CollectAllFRUVPD is on its way
  wait,       \* where wait-vpd-parser is
  polls,      \* polls it has left
  tool,       \* where a forced reset is
  completed   \* history: a collection was completed since the trigger

startVars == <<requests, wait, polls, tool, completed>>
vars == <<setupVars, startVars>>

Client == {"wait", "other"}

WaitPc == {"ready", "trigger", "poll", "ok", "failed"}

ToolPc == {"idle", "unlink", "forget", "start", "await"}

Init ==
  /\ SetupInit
  /\ requests = {}
  /\ wait = "ready"
  /\ polls = 0
  /\ tool = "idle"
  /\ completed = FALSE

-----------------------------------------------------------------------------
(* Requests, on the io thread of the manager.                              *)

Arrives(c) ==
  requests' = IF mgr = "up" THEN requests \cup {c} ELSE requests

OtherRequest ==
  /\ mgr = "up"
  /\ Arrives("other")
  /\ UNCHANGED <<setupVars, wait, polls, tool, completed>>

(* Mutant of CollectAllFruVpd: what was collected is not collected again.  *)
CollectOnce ==
  /\ mgr = "up"
  /\ \E c \in requests : requests' = requests \ {c}
  /\ status' = IF status = "NotStarted" /\ worker # None
               THEN "InProgress" ELSE status
  /\ UNCHANGED <<files, around, mgr, json, byLink, worker, setupHist, wait,
                 polls, tool, completed>>

(* Refused while one is in progress.  Without a worker the null pointer is *)
(* used and the process dies.                                              *)
CollectAllFruVpd ==
  /\ mgr = "up"
  /\ \/ /\ status = "InProgress"
        /\ \E c \in requests : requests' = requests \ {c}
        /\ UNCHANGED <<mgr, process>>
     \/ /\ status # "InProgress"
        /\ worker # None
        /\ \E c \in requests : requests' = requests \ {c}
        /\ status' = "InProgress"
        /\ UNCHANGED <<mgr, json, byLink, worker>>
     \/ /\ status # "InProgress"
        /\ worker = None
        /\ requests # {}
        /\ requests' = {}
        /\ Die
  /\ UNCHANGED <<files, around, setupHist, wait, polls, tool, completed>>

(* The timer sees that all FRUs are collected.                             *)
CollectionCompleted ==
  /\ mgr = "up"
  /\ status = "InProgress"
  /\ status' = "Completed"
  /\ completed' = TRUE
  /\ UNCHANGED <<files, around, mgr, json, byLink, worker, setupHist,
                 requests, wait, polls, tool>>

-----------------------------------------------------------------------------
(* wait-vpd-parser                                                         *)

(* checkAndHandleInventoryBackup: nothing is ever restored, as the code    *)
(* that would do so is still to be written.                                *)
InventoryBackupRestored == FALSE

(* systemd starts it after the start of the manager has come to an end,    *)
(* successful or not.  PrimeInventory throws without a JSON.               *)
StartWait ==
  /\ wait = "ready"
  /\ mgr \in {"up", "down"}
  /\ ~InventoryBackupRestored
  /\ \/ /\ link # None /\ ~dangling
        /\ wait' = "trigger"
     \/ /\ link = None \/ dangling \/ Fault("json")
        /\ wait' = "failed"
  /\ UNCHANGED <<setupVars, requests, polls, tool, completed>>

(* collectAllFruVpd: no reply is waited for, the call may go nowhere.      *)
Trigger ==
  /\ wait = "trigger"
  /\ Arrives("wait")
  /\ wait' = "poll"
  /\ polls' = MaxPolls
  /\ completed' = FALSE
  /\ UNCHANGED <<setupVars, tool>>

(* Mutant of CheckVpdCollectionStatus: only an answer ends the loop.       *)
CheckStatusForever ==
  /\ wait = "poll"
  /\ mgr = "up" => "wait" \notin requests
  /\ polls' = polls - 1
  /\ wait' = IF mgr = "up" /\ status = "Completed" THEN "ok" ELSE "poll"
  /\ UNCHANGED <<setupVars, requests, tool, completed>>

(* The manager answers in the order of the calls; one that does not run,   *)
(* or does not own its name yet, does not answer.                          *)
CheckVpdCollectionStatus ==
  /\ wait = "poll"
  /\ mgr = "up" => "wait" \notin requests
  /\ polls' = polls - 1
  /\ wait' = IF mgr = "up" /\ status = "Completed" THEN "ok"
             ELSE IF polls = 1 THEN "failed" ELSE "poll"
  /\ UNCHANGED <<setupVars, requests, tool, completed>>

-----------------------------------------------------------------------------
(* vpd-tool --forceReset                                                   *)

Stop ==
  /\ tool = "idle"
  /\ ~chassisOn
  /\ mgr # "off"
  /\ Goto("stopped")
  /\ NewProcess
  /\ requests' = {}
  /\ tool' = "unlink"
  /\ UNCHANGED <<files, around, setupHist, wait, polls, completed>>

(* A dangling link does not "exist" and stays.                             *)
Unlink ==
  /\ tool = "unlink"
  /\ \/ /\ link' = IF dangling THEN link ELSE None
        /\ tool' = "forget"
        /\ UNCHANGED mgr
     \/ /\ Fault("link") /\ link # None /\ ~dangling
        /\ UNCHANGED link
        /\ Goto("start")
        /\ tool' = "idle"
  /\ UNCHANGED <<planar, persisted, dangling, fitconfig, tree, around,
                 process, setupHist, requests, wait, polls, completed>>

(* The persisted inventory is removed and the inventory manager restarted; *)
(* a failure ends the command with the manager stopped.                    *)
Forget ==
  /\ tool = "forget"
  /\ \/ /\ persisted' = NoIm
        /\ tool' = "start"
     \/ /\ Fault("pim")
        /\ persisted' \in {persisted, NoIm}
        /\ tool' = "idle"
  /\ UNCHANGED <<planar, link, dangling, fitconfig, tree, around, mgr,
                 process, setupHist, requests, wait, polls, completed>>

StartAgain ==
  /\ tool = "start"
  /\ Goto("start")
  /\ tool' = "await"
  /\ UNCHANGED <<files, around, process, setupHist, requests, wait, polls,
                 completed>>

(* systemctl returns when the manager owns its name or has failed.         *)
RestartWait ==
  /\ tool = "await"
  /\ mgr \in {"up", "down"}
  /\ tool' = "idle"
  /\ \/ /\ mgr = "up"
        /\ wait' = "ready"
        /\ polls' = 0
     \/ /\ mgr = "down"
        /\ UNCHANGED <<wait, polls>>
  /\ UNCHANGED <<setupVars, requests, completed>>

(* The user gives up; what was done stays done.                            *)
Interrupt ==
  /\ tool # "idle"
  /\ tool' = "idle"
  /\ UNCHANGED <<setupVars, requests, wait, polls, completed>>

-----------------------------------------------------------------------------
(* The BMC.                                                                *)

(* No process outlives it, and wait-vpd-parser is to run again.            *)
AllStop ==
  /\ requests' = {}
  /\ wait' = "ready"
  /\ polls' = 0
  /\ tool' = "idle"
  /\ completed' = FALSE

PowerLoss ==
  /\ mgr # "off"
  /\ Goto("off")
  /\ NewProcess
  /\ AllStop
  /\ UNCHANGED <<files, around, setupHist>>

Boot ==
  /\ mgr = "off"
  /\ Goto("start")
  /\ tree' = fitconfig
  /\ excused' = excused \ {"tree"}
  /\ UNCHANGED <<planar, persisted, link, dangling, fitconfig, around, process,
                 rebootedFor, started, startVars>>

(* While the BMC is off: another planar, mode or image; the JSON that was  *)
(* linked may not be part of the new image.  A system of another series    *)
(* takes no planar of the two.                                             *)
Service ==
  /\ mgr = "off"
  /\ planar' \in Im \cup {NoIm}
  /\ persisted \in OtherIm => planar' \in OtherIm \cup {NoIm}
  /\ field' \in BOOLEAN
  /\ powerVs' \in BOOLEAN
  /\ dangling' \in IF link = None THEN {FALSE} ELSE BOOLEAN
  /\ rebootedFor' = {}
  /\ started' = FALSE
  /\ excused' = excused \ {"im", "misread", "env"}
  /\ UNCHANGED <<persisted, link, fitconfig, tree, chassisOn, mgr, process,
                 startVars>>

FactoryReset ==
  /\ mgr = "off"
  /\ link' = None
  /\ dangling' = FALSE
  /\ persisted' = NoIm
  /\ UNCHANGED <<planar, fitconfig, tree, around, mgr, process, setupHist,
                 startVars>>

(* Calls that have not been handled are lost with the process.             *)
ManagerStep ==
  \/ SetupStep /\ IF mgr' = "off" THEN AllStop ELSE UNCHANGED startVars
  \/ StartManager /\ UNCHANGED startVars
  \/ /\ Crash
     /\ requests' = {}
     /\ UNCHANGED <<wait, polls, tool, completed>>
  \/ CollectAllFruVpd
  \/ CollectionCompleted

WaitStep == StartWait \/ Trigger \/ CheckVpdCollectionStatus

ToolStep == Stop \/ Unlink \/ Forget \/ StartAgain \/ RestartWait \/ Interrupt

BmcStep ==
  \/ PowerLoss \/ Boot \/ Service \/ FactoryReset
  \/ ChassisChange /\ UNCHANGED startVars

Next == ManagerStep \/ WaitStep \/ ToolStep \/ OtherRequest \/ BmcStep

Spec == Init /\ [][Next]_vars

-----------------------------------------------------------------------------
(* Properties, with those of InitialSetup.                                 *)

ClientOK ==
  /\ requests \subseteq Client
  /\ requests # {} => mgr = "up"
  /\ wait \in WaitPc
  /\ polls \in 0 .. MaxPolls
  /\ tool \in ToolPc
  /\ completed \in BOOLEAN

(* The one type invariant, of all three modules: requests wait only with a *)
(* manager that runs, and a client never polls more often than it may.     *)
TypeOK == SetupTypeOK /\ ClientOK

(* When wait-vpd-parser exits with success, a collection has been          *)
(* completed since it asked for one: neither a Completed from before its   *)
(* call, nor a call that was refused or lost, nor a manager that was       *)
(* started again in between makes it report a collection that was not.     *)
WaitIsHonest == wait = "ok" => completed
=============================================================================

---------------------------- MODULE InitialSetup ----------------------------
(***************************************************************************)
(* How vpd-manager starts.  It reads the system planar to find out what    *)
(* system it is on, chooses the system configuration JSON, has the BMC     *)
(* rebooted when another device tree is needed, sets the symbolic link     *)
(* that this and the next start take the JSON from, creates the worker and *)
(* publishes system VPD.  Any exception on the way is swallowed: the       *)
(* manager then claims its bus name without a worker.                      *)
(*                                                                         *)
(* Every step is one action, so that the process may die between any two.  *)
(* A JSON is named by the IM it is for, and stands for its device tree     *)
(* too; the HW keyword, which picks a variant of the JSON, is left out,    *)
(* and so are the synchronisation of the backup (see KeywordCopies), the   *)
(* asset tag, the BMC position and the mux chips.                          *)
(***************************************************************************)
EXTENDS SingleFab

CONSTANTS
  SingleFabBuild,  \* built with IBM_SYSTEM_SINGLE_FAB
  Faults           \* what may fail, see FaultNames

FaultNames ==
  { "json",     \* a JSON file cannot be read
    "link",     \* the symbolic link cannot be removed or created
    "popen",    \* the command fw_setenv cannot be run at all
    "setenv",   \* fw_setenv runs and fails
    "printenv", \* fw_printenv does not print the device tree
    "mode",     \* fw_printenv does not print the mode
    "image",    \* the name of the image cannot be read
    "persisted",\* the persisted IM cannot be read
    "reboot",   \* the call to systemd to reboot fails
    "write",    \* the IM cannot be written to the planar
    "pim" }     \* a call to the inventory manager fails

ASSUME SetupAssumption ==
  /\ SingleFabBuild \in BOOLEAN
  /\ Faults \subseteq FaultNames

Json == Im

(* No link, no JSON, no worker.                                            *)
None == NoIm

VARIABLES
  (* On the hardware and in files.                                         *)
  planar,      \* IM on the system planar, NoIm if VPD cannot be parsed
  persisted,   \* IM persisted by the inventory manager
  link,        \* JSON the symbolic link points to
  dangling,    \* the link is there, its JSON is not
  fitconfig,   \* device tree in the environment of u-boot
  tree,        \* device tree the BMC has booted with
  (* The surroundings.                                                     *)
  field,       \* the BMC is in field mode
  powerVs,     \* the image is one for PowerVS
  chassisOn,
  (* The process.                                                          *)
  mgr,         \* where it is
  json,        \* m_sysCfgJsonObj, None before one is chosen
  byLink,      \* m_configJsonPath is the link, m_isSymlinkPresent
  worker,      \* JSON of the worker, None for a null pointer
  status,      \* Status on xyz.openbmc_project.Common.Progress
  (* History.                                                              *)
  rebootedFor, \* JSONs the BMC was rebooted for since it was serviced
  started,     \* published since the system was serviced or reset
  excused      \* what went wrong since, see ExcuseNames

ExcuseNames ==
  { "im",       \* the override was skipped, or could not write the IM
    "misread",  \* it took the mode or the image for another
    "env",      \* fw_setenv or fw_printenv failed and nobody saw it
    "tree" }    \* the device tree was set and the BMC not rebooted yet

files    == <<planar, persisted, link, dangling, fitconfig, tree>>
around   == <<field, powerVs, chassisOn>>
process  == <<json, byLink, worker, status>>
setupHist == <<rebootedFor, started, excused>>
setupVars == <<files, around, mgr, process, setupHist>>

Phase == {"start", "setup", "setenv", "reboot", "symlink", "create",
          "worker", "publish"}

MgrState == Phase \cup {"up", "down", "stopped", "off"}

NewProcess ==
  /\ json' = None
  /\ byLink' = FALSE
  /\ worker' = None
  /\ status' = "NotStarted"

SetupInit ==
  /\ planar \in Im \cup {NoIm}
  /\ persisted = NoIm
  /\ link = None
  /\ dangling = FALSE
  /\ fitconfig \in Json \cup {None}
  /\ tree = fitconfig
  /\ field \in BOOLEAN
  /\ powerVs \in BOOLEAN
  /\ chassisOn = FALSE
  /\ mgr = "start"
  /\ json = None
  /\ byLink = FALSE
  /\ worker = None
  /\ status = "NotStarted"
  /\ rebootedFor = {}
  /\ started = FALSE
  /\ excused = {}

(* It goes on, or an exception takes it to the end of the setup.           *)
Goto(m) == mgr' = m

Fail == Goto("up")

Fault(f) == f \in Faults

-----------------------------------------------------------------------------
(* What the override takes the persisted IM, the mode and the image for.   *)
(* None of the three reads throws: an IM that cannot be read is taken for  *)
(* none, a mode for lab mode, an image for a normal one.                   *)
ReadPersisted == {persisted} \cup (IF Fault("persisted") THEN {NoIm} ELSE {})

ReadFieldMode == {field} \cup (IF Fault("mode") THEN {FALSE} ELSE {})

ReadPowerVs == {powerVs} \cup (IF Fault("image") THEN {FALSE} ELSE {})

(* The override with the IM, the mode and the image that were read.  A     *)
(* planar that cannot be read at all throws through a noexcept function,   *)
(* and a refused one out of the constructor: both end the process.         *)
OverrideWith(ebmc, f, v) ==
  \/ /\ planar = NoIm \/ Refused(planar, ebmc, f, v)
     /\ Goto("down")
     /\ UNCHANGED <<planar, excused>>
  \/ /\ planar # NoIm /\ ~Refused(planar, ebmc, f, v)
     /\ Goto("setup")
     /\ LET misread == IF <<f, v>> # <<field, powerVs>> THEN {"misread"}
                       ELSE {}
        IN \/ /\ planar' = Overridden(planar, ebmc, f, v)
              /\ excused' = excused \cup misread
           \/ /\ Fault("write")
              /\ Converted(planar, ebmc, f, v)
              /\ excused' = excused \cup misread \cup {"im"}
              /\ UNCHANGED planar

(* The constructor of Manager.  The planar is read before anything else,   *)
(* unless the chassis is on.                                               *)
SingleFabImOverride ==
  /\ mgr = "start"
  /\ \/ /\ ~SingleFabBuild \/ chassisOn
        /\ Goto("setup")
        /\ excused' = IF chassisOn THEN excused \cup {"im"} ELSE excused
        /\ UNCHANGED planar
     \/ /\ SingleFabBuild /\ ~chassisOn
        /\ \E ebmc \in ReadPersisted, f \in ReadFieldMode, v \in ReadPowerVs :
             OverrideWith(ebmc, f, v)
  /\ UNCHANGED <<persisted, link, dangling, fitconfig, tree, around, process,
                 rebootedFor, started>>

(* readFitConfigValue: a device tree that cannot be read is an empty one,  *)
(* and that of no system.                                                  *)
ReadFitConfig == {fitconfig} \cup (IF Fault("printenv") THEN {None} ELSE {})

(* isSymlinkPresent, and performInitialSetup up to the device tree.  A     *)
(* link whose JSON is missing is taken for no link.  History: what fw_*    *)
(* did wrong is over when the device tree is found to be the right one.    *)
SetDeviceTreeAndJson ==
  /\ mgr = "setup"
  /\ byLink' = (link # None /\ ~dangling)
  /\ \/ /\ planar # NoIm
        /\ json' = planar
        /\ \E fit \in ReadFitConfig :
             /\ Goto(IF fit = planar THEN "symlink" ELSE "setenv")
             /\ excused' = IF fit = planar THEN excused \ {"env"}
                           ELSE IF fit # fitconfig THEN excused \cup {"env"}
                           ELSE excused
     \/ /\ planar = NoIm \/ Fault("json")
        /\ UNCHANGED <<json, excused>>
        /\ Fail
  /\ UNCHANGED <<files, around, worker, status, rebootedFor, started>>

(* executeCmd of fw_setenv.  Only a command that could not be run is an    *)
(* error: its exit status is thrown away.                                  *)
FwSetenv(ok) ==
  \/ /\ ok
     /\ fitconfig' = json
     /\ excused' = excused \cup {"tree"}
  \/ /\ ok /\ Fault("setenv")
     /\ excused' = excused \cup {"env"}
     /\ UNCHANGED fitconfig
  \/ /\ ~ok /\ Fault("popen")
     /\ UNCHANGED <<fitconfig, excused>>

(* Mutant of SetEnv: an error of executeCmd is not looked at either.       *)
SetEnvUnchecked ==
  /\ mgr = "setenv"
  /\ \E ok \in BOOLEAN : FwSetenv(ok) /\ Goto("reboot")
  /\ UNCHANGED <<planar, persisted, link, dangling, tree, around, process,
                 rebootedFor, started>>

(* setEnvAndReboot: the environment, then the reboot.                      *)
SetEnv ==
  /\ mgr = "setenv"
  /\ \E ok \in BOOLEAN : FwSetenv(ok) /\ IF ok THEN Goto("reboot") ELSE Fail
  /\ UNCHANGED <<planar, persisted, link, dangling, tree, around, process,
                 rebootedFor, started>>

RebootForDeviceTree ==
  /\ mgr = "reboot"
  /\ \/ /\ Goto("off")
        /\ NewProcess
        /\ rebootedFor' = rebootedFor \cup {json}
     \/ /\ Fault("reboot")
        /\ UNCHANGED <<process, rebootedFor>>
        /\ Fail
  /\ UNCHANGED <<files, around, started, excused>>

(* Mutant of SetJsonSymbolicLink: a link that is there is trusted.         *)
KeepSymbolicLink ==
  /\ mgr = "symlink"
  /\ Goto(IF byLink THEN "worker" ELSE "create")
  /\ UNCHANGED <<files, around, process, setupHist>>

(* setJsonSymbolicLink: the right link stays, a wrong one is removed, and  *)
(* without one it is created.                                              *)
SetJsonSymbolicLink ==
  /\ mgr = "symlink"
  /\ \/ /\ byLink /\ link = json
        /\ Goto("worker")
        /\ UNCHANGED link
     \/ /\ byLink /\ link # json
        /\ \/ link' = None /\ Goto("create")
           \/ Fault("link") /\ UNCHANGED link /\ Fail
     \/ /\ ~byLink
        /\ Goto("create")
        /\ UNCHANGED link
  /\ UNCHANGED <<planar, persisted, dangling, fitconfig, tree, around,
                 process, setupHist>>

(* A link in the way, as a dangling one is, cannot be replaced.            *)
CreateSymlink ==
  /\ mgr = "create"
  /\ \/ /\ link = None
        /\ link' = json
        /\ byLink' = TRUE
        /\ Goto("worker")
     \/ /\ link # None \/ Fault("link")
        /\ UNCHANGED <<link, byLink>>
        /\ Fail
  /\ UNCHANGED <<planar, persisted, dangling, fitconfig, tree, around, json,
                 worker, status, setupHist>>

(* The worker reads the JSON itself, through the link.                     *)
InitWorker ==
  /\ mgr = "worker"
  /\ \/ /\ worker' = link
        /\ Goto("publish")
     \/ /\ Fault("json")
        /\ UNCHANGED worker
        /\ Fail
  /\ UNCHANGED <<files, around, json, byLink, status, setupHist>>

(* The inventory manager persists what is published, the IM with it.       *)
PublishSystemVpd ==
  /\ mgr = "publish"
  /\ \/ /\ persisted' = planar
        /\ started' = TRUE
     \/ /\ Fault("pim")
        /\ UNCHANGED <<persisted, started>>
  /\ Goto("up")
  /\ UNCHANGED <<planar, link, dangling, fitconfig, tree, around, process,
                 rebootedFor, excused>>

SetupStep ==
  \/ SingleFabImOverride
  \/ SetDeviceTreeAndJson
  \/ SetEnv
  \/ RebootForDeviceTree
  \/ SetJsonSymbolicLink
  \/ CreateSymlink
  \/ InitWorker
  \/ PublishSystemVpd

-----------------------------------------------------------------------------
(* systemd starts it again after it died, in any of its states.            *)
Die ==
  /\ Goto("down")
  /\ NewProcess

Crash ==
  /\ mgr \in Phase \cup {"up"}
  /\ Die
  /\ UNCHANGED <<files, around, setupHist>>

StartManager ==
  /\ mgr = "down"
  /\ Goto("start")
  /\ UNCHANGED <<files, around, process, setupHist>>

ChassisChange ==
  /\ chassisOn' = ~chassisOn
  /\ UNCHANGED <<files, field, powerVs, mgr, process, setupHist>>

-----------------------------------------------------------------------------
(* Properties                                                              *)

FilesOK ==
  /\ planar \in Im \cup {NoIm}
  /\ persisted \in Im \cup {NoIm}
  /\ link \in Json \cup {None}
  /\ dangling \in BOOLEAN
  /\ dangling => link # None
  /\ fitconfig \in Json \cup {None}
  /\ tree \in Json \cup {None}

AroundOK ==
  /\ field \in BOOLEAN
  /\ powerVs \in BOOLEAN
  /\ chassisOn \in BOOLEAN

ProcessOK ==
  /\ mgr \in MgrState
  /\ json \in Json \cup {None}
  /\ byLink \in BOOLEAN
  /\ worker \in Json \cup {None}
  /\ status \in {"NotStarted", "InProgress", "Completed"}

HistoryOK ==
  /\ rebootedFor \subseteq Json
  /\ started \in BOOLEAN
  /\ excused \subseteq ExcuseNames

SetupTypeOK == FilesOK /\ AroundOK /\ ProcessOK /\ HistoryOK

(* A worker, and so every collection, uses the JSON for the system it is   *)
(* on, whatever JSON an earlier start has linked, and the BMC runs with    *)
(* the device tree for it.  Excused is a device tree that was put into the *)
(* environment by a process that did not get to reboot the BMC: the next   *)
(* one takes it for the tree that runs.                                    *)
WorkerFits ==
  worker # None => /\ worker = planar
                   /\ tree = worker \/ "tree" \in excused

(* The BMC is rebooted again for a device tree that it was rebooted for    *)
(* before, with the same planar and image, only if fw_setenv had exited    *)
(* with an error, or fw_printenv had not told the device tree: a manager   *)
(* that dies between the two, a reboot that fails and an fw_setenv that    *)
(* cannot be run make no loop of reboots.  The excused failures do, see    *)
(* RebootsOnce.                                                            *)
NoRebootLoop ==
  [][RebootForDeviceTree /\ mgr' = "off"
       => json \notin rebootedFor \/ "env" \in excused]_setupVars

(* "If device tree change is required, it updates the "fitconfig" and      *)
(* reboots the system. Else it is NOOP." (ibm_handler.hpp, of              *)
(* setDeviceTreeAndJson): once rebooted for its device tree, the BMC is    *)
(* not rebooted for it again.  It is, as often as fw_setenv exits with an  *)
(* error, because executeCmd drops the exit status.                        *)
RebootsOnce ==
  [][RebootForDeviceTree /\ mgr' = "off" => json \notin rebootedFor]_setupVars

(* A system that was started in its mode with its image can be started     *)
(* again: what the override has written and what the inventory manager has *)
(* persisted never add up to a combination that is refused, even if the    *)
(* persisted IM could not be read on the way.  Excused are an IM that      *)
(* could not be written, which nothing tries again, a start with the       *)
(* chassis on, which skips the override, and one that took the mode or the *)
(* image for another: a planar it lets pass is refused by all later ones.  *)
StartsAgain ==
  SingleFabBuild /\ started /\ {"im", "misread"} \cap excused = {}
    => ~Refused(planar, persisted, field, powerVs)
=============================================================================

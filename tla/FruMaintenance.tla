--------------------------- MODULE FruMaintenance ---------------------------
(***************************************************************************)
(* One FRU that is plugged and unplugged while vpd-manager runs.  The io   *)
(* thread collects or deletes its VPD when a client asks, when the polled  *)
(* presence pin or the Present property changes, and when the host starts; *)
(* a collection thread of CollectAllFRUVPD may work on the same FRU.  Both *)
(* run the actions of the config JSON: they read the presence pin, switch  *)
(* an enable line and bind the driver that makes the EEPROM file appear.   *)
(*                                                                         *)
(* A step is one access to the hardware or to PIM.  LED drivers bound by   *)
(* actions, PELs and the objects of sub-FRUs, which get what the base      *)
(* object gets, are left out.                                              *)
(***************************************************************************)
EXTENDS Sequences, Naturals

CONSTANTS
  Part,          \* the parts that can be plugged into the slot
  NoPart,        \* an empty slot, or no keywords on PIM
  Kinds,         \* which FRUs of the JSON are looked at, see FruKind
  RuntimeKinds,  \* those that are replaceableAtRuntime
  Faults,        \* what may fail, see FaultNames
  MaxSignals     \* bound: Present signals not handled yet

(***************************************************************************)
(* How the JSON says a FRU is watched.                                     *)
(* "polled":    pollingRequired, with a presence pin and an enable line.   *)
(* "slot":      replaceableAtStandby, with both; read again at host start. *)
(* "monitored": monitorPresence without handlePresence; another service    *)
(*              sets Present.  It has a driver to bind and no line.        *)
(***************************************************************************)
FruKind == {"polled", "slot", "monitored"}

FaultNames ==
  { "pin",       \* the presence pin cannot be read
    "line",      \* the enable line cannot be set
    "command",   \* the driver does not bind
    "vpd",       \* the EEPROM of the part is not valid
    "pim",       \* a call to PIM fails
    "restart" }  \* the process dies and is started again

ASSUME MaintenanceAssumption ==
  /\ NoPart \notin Part
  /\ Kinds \subseteq FruKind
  /\ RuntimeKinds \subseteq FruKind
  /\ Faults \subseteq FaultNames
  /\ MaxSignals \in Nat

Proc == {"io", "thread"}

(* Who works on the FRU: a collection thread ("all"), collectSingleFruVpd, *)
(* handleChangeInGpioPin for a part that came, or deleteFruVpd.            *)
Job == {"none", "all", "single", "change", "delete"}

Pc == {"idle", "begin", "presence", "enable", "bind", "parse", "ccin",
       "postFail", "publish", "empty", "error", "emptyRead", "errorRead",
       "completed", "failed", "absent", "unbindFirst", "delete",
       "deleteRead", "lineOff", "unbind"}

VARIABLES
  kind,         \* the kind of FRU this behaviour is about
  slot,         \* the part that is plugged in
  line,         \* the enable line is on (always, for one that has none)
  bound,        \* the driver is bound: the EEPROM file exists
  signals,      \* values of Present that were signalled and not handled yet
  prev,         \* m_prevPresencePinValue
  requested,    \* CollectAllFRUVPD was called in this process
  pim,          \* the record of the FRU on PIM
  pc, job,      \* what each process is doing
  out,          \* how its parseVpdFile is going to return
  part,         \* the part whose VPD it has parsed
  saw           \* the map that is to empty the record has its keywords

(* History.                                                                *)
VARIABLES
  excuse,       \* what a record that does not fit the slot is excused by
  noticed,      \* the present content of a "slot" was asked for
  alone,        \* the thread has had the FRU for itself
  used          \* a part was read since the line was off

(* "race": two flows on the FRU at once, or a change that was undone       *)
(* before the poll could see it.  "fault": a call that failed, or a        *)
(* restart; it explains more than a race, and replaces it.                 *)
Excuse == {"none", "race", "fault"}

Raced == IF excuse = "fault" THEN "fault" ELSE "race"

hwVars    == <<slot, line, bound>>
ctlVars   == <<pc, job, out, part, saw>>
histVars  == <<excuse, noticed, alone, used>>
vars == <<kind, hwVars, signals, prev, requested, pim, ctlVars,
          histVars>>

PimRecord ==
  [vpd : Part \cup {NoPart}, ccin : BOOLEAN, present : BOOLEAN,
   status : {"NotStarted", "InProgress", "Completed", "Failed"}]

Record(p, s) == [vpd |-> p, ccin |-> p # NoPart, present |-> p # NoPart,
                 status |-> s]

-----------------------------------------------------------------------------
Plugged == slot # NoPart

HasPin == kind # "monitored"

(* handlePresence: Present is set and cleared by vpd-manager.              *)
HandlesPresence == kind # "monitored"

Quiet == \A p \in Proc : pc[p] = "idle"

(* The state of the host and of the BMC, read when a collection is to      *)
(* start: any, as both change on their own.                                *)
SystemState == {"hostRunning", "bmcReady", "bmcNotReady"}

(* Host running: replaceable at runtime.  BMC ready: at standby or at      *)
(* runtime.  Neither: whatever the JSON says.                              *)
Replaceable(state) ==
  CASE state = "hostRunning" -> kind \in RuntimeKinds
    [] state = "bmcReady"    -> kind \in RuntimeKinds \cup {"slot"}
    [] OTHER                 -> TRUE

Init ==
  /\ kind \in Kinds
  /\ slot \in Part \cup {NoPart}
  /\ line = ~HasPin
  /\ bound = FALSE
  /\ signals = <<>>
  /\ prev = Plugged
  /\ requested = FALSE
  /\ \E p \in Part \cup {NoPart} :
       pim = [Record(p, IF p = NoPart THEN "NotStarted" ELSE "Completed")
                EXCEPT !.present = IF HandlesPresence THEN @ ELSE Plugged]
  /\ pc = [p \in Proc |-> "idle"]
  /\ job = [p \in Proc |-> "none"]
  /\ out = [p \in Proc |-> "empty"]
  /\ part = [p \in Proc |-> NoPart]
  /\ saw = [p \in Proc |-> FALSE]
  /\ excuse = IF pim.vpd = NoPart THEN "none" ELSE "fault"
  /\ noticed = FALSE
  /\ alone = FALSE
  /\ used = FALSE

-----------------------------------------------------------------------------
(* How a process gets a job, goes through it and ends it.                  *)

Start(p, j, first) ==
  /\ pc' = [pc EXCEPT ![p] = first]
  /\ job' = [job EXCEPT ![p] = j]
  /\ IF Quiet THEN /\ alone' = (p = "thread")
                   /\ UNCHANGED excuse
              ELSE /\ alone' = FALSE
                   /\ excuse' = Raced
  /\ noticed' = (noticed \/ (kind = "slot" /\ j # "delete"))
  /\ UNCHANGED <<out, part, saw, used>>

Move(p, from, to) ==
  /\ pc[p] = from
  /\ pc' = [pc EXCEPT ![p] = to]
  /\ UNCHANGED job

(* The history of a step that meets the fault f, and of one that does not. *)
Works == UNCHANGED <<excuse, alone>>
Fails(f) ==
  /\ f \in Faults
  /\ excuse' = "fault"
  /\ alone' = FALSE
Tolerated(f) == f \in Faults /\ Works

(* The end of a job.  A thread that had the FRU for itself leaves it in    *)
(* order.                                                                  *)
End(p) ==
  /\ pc' = [pc EXCEPT ![p] = "idle"]
  /\ job' = [job EXCEPT ![p] = "none"]
  /\ out' = [out EXCEPT ![p] = "empty"]
  /\ part' = [part EXCEPT ![p] = NoPart]
  /\ saw' = [saw EXCEPT ![p] = FALSE]

WritePim(ok, r) == pim' = IF ok THEN r ELSE pim

(* A call to PIM whose failure is only logged.                             *)
LoggedWrite(r) == \/ WritePim(TRUE, r) /\ Works
                  \/ WritePim(FALSE, r) /\ Fails("pim")

EndLogged(p, r) ==
  /\ End(p)
  /\ \/ WritePim(TRUE, r) /\ alone' = FALSE
        /\ excuse' = IF alone THEN "none" ELSE excuse
     \/ WritePim(FALSE, r) /\ Fails("pim")

-----------------------------------------------------------------------------
(* What makes vpd-manager look at the FRU.                                 *)

FirstOfCollect == IF HasPin THEN "presence" ELSE "bind"
FirstOfDelete  == IF HasPin THEN "delete" ELSE "unbindFirst"

(* A collection thread for this FRU.                                       *)
CollectAll ==
  /\ pc["thread"] = "idle"
  /\ requested' = TRUE
  /\ Start("thread", "all", "begin")
  /\ UNCHANGED <<kind, hwVars, signals, prev, pim>>

(* Worker::collectSingleFruVpd: it starts only if the FRU may be replaced  *)
(* in the present state of the host.                                       *)
CollectSingle ==
  \E state \in SystemState :
    IF Replaceable(state) THEN Start("io", "single", "begin")
                          ELSE UNCHANGED <<ctlVars, histVars>>

(* CollectFRUVPD of a client, accepted once Status is Completed.  That     *)
(* does not mean that the thread of this FRU is back, see                  *)
(* CompletedMeansAllBack of FruCollection.                                 *)
CollectFruVpd ==
  /\ pc["io"] = "idle"
  /\ requested
  /\ CollectSingle
  /\ UNCHANGED <<kind, hwVars, signals, prev, requested, pim>>

DeleteFruVpd ==
  /\ pc["io"] = "idle"
  /\ Start("io", "delete", FirstOfDelete)
  /\ UNCHANGED <<kind, hwVars, signals, prev, requested, pim>>

(* Mutant of HandleTimerExpiry: only a part that comes is handled.         *)
PollForNewParts ==
  /\ kind = "polled"
  /\ pc["io"] = "idle"
  /\ prev # Plugged
  /\ prev' = Plugged
  /\ IF Plugged THEN Start("io", "change", FirstOfCollect)
                ELSE UNCHANGED <<ctlVars, histVars>>
  /\ UNCHANGED <<kind, hwVars, signals, requested, pim>>

HandleChangeInGpioPin(isFruPresent) ==
  IF isFruPresent THEN Start("io", "change", FirstOfCollect)
                  ELSE Start("io", "delete", FirstOfDelete)

(* The timer of GpioEventHandler.  A pin that cannot be read counts as     *)
(* present.  The value is remembered before the change is handled.         *)
HandleTimerExpiry ==
  /\ kind = "polled"
  /\ pc["io"] = "idle"
  /\ \E value \in {Plugged} \cup (IF "pin" \in Faults THEN {TRUE} ELSE {}) :
       /\ value # prev
       /\ prev' = value
       /\ HandleChangeInGpioPin(value)
  /\ UNCHANGED <<kind, hwVars, signals, requested, pim>>

(* presentPropertyChangeCallback                                           *)
PresentPropertyChange ==
  /\ pc["io"] = "idle"
  /\ signals # <<>>
  /\ signals' = Tail(signals)
  /\ IF Head(signals)
     THEN CollectSingle
     ELSE Start("io", "delete", FirstOfDelete)
  /\ UNCHANGED <<kind, hwVars, prev, requested, pim>>

(* FRUs replaceable at standby are read again, unless the host runs by the *)
(* time the signal is handled and they are not replaceable at runtime.     *)
PerformVpdRecollection ==
  /\ kind = "slot"
  /\ CollectSingle

(* hostStateChangeCallBack: the host leaves off.                           *)
HostStateChange ==
  /\ pc["io"] = "idle"
  /\ PerformVpdRecollection
  /\ UNCHANGED <<kind, hwVars, signals, prev, requested, pim>>

-----------------------------------------------------------------------------
(* The steps of a collection.                                              *)

SetInProgress(p) ==
  /\ Move(p, "begin", FirstOfCollect)
  /\ LoggedWrite([pim EXCEPT !.status = "InProgress"])
  /\ UNCHANGED <<hwVars, out, part, saw, used>>

(* preAction, gpioPresence: the part is there, is not, or the pin cannot   *)
(* be read and the FRU is tried.                                           *)
ReadPresence(p) ==
  /\ \/ Plugged /\ Move(p, "presence", "enable") /\ Works /\ UNCHANGED out
     \/ Fails("pin") /\ Move(p, "presence", "enable") /\ UNCHANGED out
     \/ ~Plugged /\ Move(p, "presence", "ccin") /\ Works
        /\ out' = [out EXCEPT ![p] = "empty"]
  /\ UNCHANGED <<hwVars, pim, part, saw, used>>

(* preAction, setGpio.                                                     *)
EnableLine(p) ==
  /\ \/ line' = TRUE /\ Move(p, "enable", "bind") /\ Works /\ UNCHANGED out
     \/ Tolerated("line") /\ UNCHANGED line /\ Move(p, "enable", "ccin")
        /\ out' = [out EXCEPT ![p] = "error"]
  /\ UNCHANGED <<slot, bound, pim, part, saw, used>>

(* preAction, systemCmd: the exit code of the command is not an error.     *)
BindDriver(p) ==
  /\ Move(p, "bind", "parse")
  /\ \/ bound' = (bound \/ (line /\ Plugged)) /\ Works
     \/ Tolerated("command") /\ UNCHANGED bound
  /\ UNCHANGED <<slot, line, pim, out, part, saw, used>>

(* A preAction that failed empties CCIN, the keyword others probe for.     *)
ClearCcin(p) ==
  /\ Move(p, "ccin", "postFail")
  /\ LoggedWrite([pim EXCEPT !.ccin = FALSE])
  /\ UNCHANGED <<hwVars, out, part, saw, used>>

(* The file is looked for and parsed; what is not there cannot be read.    *)
ParseFile(p) ==
  /\ \/ /\ bound /\ line /\ Plugged
        /\ Move(p, "parse", "publish")
        /\ part' = [part EXCEPT ![p] = slot]
        /\ used' = HasPin
        /\ Works
        /\ UNCHANGED out
     \/ /\ ~bound \/ ~line \/ ~Plugged \/ "vpd" \in Faults
        /\ Move(p, "parse", "postFail")
        /\ out' = [out EXCEPT ![p] = "error"]
        /\ Works
        /\ UNCHANGED <<part, used>>
  /\ UNCHANGED <<hwVars, pim, saw>>

(* Mutant of PostFail: only a part that is not there is switched off.      *)
PostFailAbsent(p) ==
  /\ pc[p] = "postFail"
  /\ IF HasPin /\ out[p] = "empty" THEN line' = FALSE /\ used' = FALSE
                                   ELSE UNCHANGED <<line, used>>
  /\ Works
  /\ IF job[p] \in {"change", "delete"}
     THEN End(p)
     ELSE /\ pc' = [pc EXCEPT ![p] = out[p]]
          /\ UNCHANGED <<job, out, part, saw>>
  /\ UNCHANGED <<slot, bound, pim>>

(* The line is switched off, where there is one.                           *)
ExecutePostFailAction ==
  \/ line' = ~HasPin /\ used' = (used /\ ~HasPin) /\ Works
  \/ Fails("line") /\ UNCHANGED <<line, used>>

(* postFailAction of collection and of deletion.  For a pin change and a   *)
(* deletion that is the end, and only logged.                              *)
PostFail(p) ==
  /\ pc[p] = "postFail"
  /\ ExecutePostFailAction
  /\ IF job[p] \in {"change", "delete"}
     THEN End(p)
     ELSE /\ pc' = [pc EXCEPT ![p] = out[p]]
          /\ UNCHANGED <<job, out, part, saw>>
  /\ UNCHANGED <<slot, bound, pim>>

Collected(p) == [pim EXCEPT !.vpd = part[p], !.ccin = TRUE,
                            !.present = @ \/ HandlesPresence]

(* The object map goes to PIM.  A pin change sets no Status.               *)
Publish(p) ==
  /\ pc[p] = "publish"
  /\ IF job[p] = "change"
     THEN EndLogged(p, Collected(p))
     ELSE /\ \/ pim' = Collected(p) /\ Move(p, "publish", "completed") /\ Works
             \/ Fails("pim") /\ Move(p, "publish", "error") /\ UNCHANGED pim
          /\ UNCHANGED <<out, part, saw>>
  /\ UNCHANGED <<hwVars, used>>

-----------------------------------------------------------------------------
(* resetObjTreeVpd, in a collection and in a deletion.                     *)

ReadTree(p) ==
  /\ \/ Move(p, "empty", "emptyRead")
     \/ Move(p, "error", "errorRead")
     \/ Move(p, "delete", "deleteRead")
  /\ saw' = [saw EXCEPT ![p] = pim.vpd # NoPart]
  /\ Works
  /\ UNCHANGED <<hwVars, pim, out, part, used>>

(* Mutant of Emptied: Status is emptied like any other string.             *)
EmptiedStrings(p) == [pim EXCEPT !.vpd = IF saw[p] THEN NoPart ELSE @,
                                 !.ccin = @ /\ ~saw[p],
                                 !.present = @ /\ ~HandlesPresence,
                                 !.status = ""]

(* What was read is emptied, so keywords published since stay; Present is  *)
(* cleared where it is handled, and Status starts over.                    *)
Emptied(p) == [pim EXCEPT !.vpd = IF saw[p] THEN NoPart ELSE @,
                          !.ccin = @ /\ ~saw[p],
                          !.present = @ /\ ~HandlesPresence,
                          !.status = "NotStarted"]

(* A deletion that cannot empty the record goes to its postFailAction.     *)
ClearTree(p) ==
  /\ \/ /\ \/ Move(p, "emptyRead", "completed")
           \/ Move(p, "errorRead", "failed")
        /\ LoggedWrite(Emptied(p))
     \/ Move(p, "deleteRead", "lineOff") /\ pim' = Emptied(p) /\ Works
     \/ Move(p, "deleteRead", "postFail") /\ Fails("pim") /\ UNCHANGED pim
  /\ saw' = [saw EXCEPT ![p] = FALSE]
  /\ UNCHANGED <<hwVars, out, part, used>>

(* Mutant of SetCompleted: the Status of an empty record stays.            *)
SetCompletedIfRead(p) ==
  /\ pc[p] = "completed"
  /\ EndLogged(p, IF part[p] = NoPart THEN [pim EXCEPT !.status = "InProgress"]
                  ELSE [pim EXCEPT !.status = "Completed"])
  /\ UNCHANGED <<hwVars, used>>

SetCompleted(p) ==
  /\ pc[p] = "completed"
  /\ EndLogged(p, [pim EXCEPT !.status = "Completed"])
  /\ UNCHANGED <<hwVars, used>>

(* A thread also marks the FRU as not present, if it handles presence.     *)
SetFailed(p) ==
  /\ pc[p] = "failed"
  /\ IF p = "thread" /\ HandlesPresence
     THEN /\ LoggedWrite([pim EXCEPT !.status = "Failed"])
          /\ Move(p, "failed", "absent")
          /\ UNCHANGED <<out, part, saw>>
     ELSE EndLogged(p, [pim EXCEPT !.status = "Failed"])
  /\ UNCHANGED <<hwVars, used>>

SetAbsent(p) ==
  /\ pc[p] = "absent"
  /\ EndLogged(p, [pim EXCEPT !.present = FALSE])
  /\ UNCHANGED <<hwVars, used>>

-----------------------------------------------------------------------------
(* The actions of a deletion.                                              *)

(* preAction of one without a pin: the driver is unbound first.            *)
UnbindFirst(p) ==
  /\ Move(p, "unbindFirst", "delete")
  /\ bound' = FALSE
  /\ Works
  /\ UNCHANGED <<slot, line, pim, out, part, saw, used>>

(* postAction: setGpio runs before systemCmd, as tags are taken in         *)
(* alphabetical order; if it fails the driver stays bound.                 *)
LineOff(p) ==
  /\ pc[p] = "lineOff"
  /\ IF ~HasPin
     THEN End(p) /\ Works /\ UNCHANGED <<line, used>>
     ELSE /\ \/ /\ line' = FALSE /\ used' = FALSE
                /\ Move(p, "lineOff", "unbind") /\ Works
             \/ /\ Tolerated("line") /\ Move(p, "lineOff", "postFail")
                /\ UNCHANGED <<line, used>>
          /\ UNCHANGED <<out, part, saw>>
  /\ UNCHANGED <<slot, bound, pim>>

Unbind(p) ==
  /\ pc[p] = "unbind"
  /\ bound' \in {FALSE} \cup (IF "command" \in Faults THEN {bound} ELSE {})
  /\ End(p)
  /\ Works
  /\ UNCHANGED <<slot, line, pim, used>>

Step(p) ==
  /\ \/ SetInProgress(p) \/ ReadPresence(p) \/ EnableLine(p) \/ BindDriver(p)
     \/ ClearCcin(p) \/ ParseFile(p) \/ PostFail(p) \/ Publish(p)
     \/ ReadTree(p) \/ ClearTree(p) \/ SetCompleted(p) \/ SetFailed(p)
     \/ SetAbsent(p) \/ UnbindFirst(p) \/ LineOff(p) \/ Unbind(p)
  /\ UNCHANGED <<kind, signals, prev, requested, noticed>>

-----------------------------------------------------------------------------
(* The environment.                                                        *)

(* Someone unplugs the part, or plugs one in.  The service that watches a  *)
(* monitored FRU tells PIM, which signals Present.                         *)
SlotChange ==
  /\ \E new \in Part \cup {NoPart} :
       /\ (new = NoPart) = Plugged
       /\ slot' = new
       /\ IF kind = "monitored"
          THEN /\ Len(signals) < MaxSignals
               /\ signals' = Append(signals, new # NoPart)
               /\ pim' = [pim EXCEPT !.present = (new # NoPart)]
          ELSE UNCHANGED <<signals, pim>>
       /\ excuse' = IF kind = "polled" /\ (new # NoPart) = prev
                    THEN Raced ELSE excuse
  /\ noticed' = FALSE
  /\ alone' = FALSE
  /\ UNCHANGED <<kind, line, bound, prev, requested, ctlVars, used>>

(* The process starts over: signals of the meantime are lost, the pin is   *)
(* read, the hardware and PIM stay as they are.                            *)
Restart ==
  /\ "restart" \in Faults
  /\ pc' = [p \in Proc |-> "idle"]
  /\ job' = [p \in Proc |-> "none"]
  /\ out' = [p \in Proc |-> "empty"]
  /\ part' = [p \in Proc |-> NoPart]
  /\ saw' = [p \in Proc |-> FALSE]
  /\ signals' = <<>>
  /\ prev' = Plugged
  /\ requested' = FALSE
  /\ excuse' = "fault"
  /\ alone' = FALSE
  /\ UNCHANGED <<kind, hwVars, pim, noticed, used>>

Next ==
  \/ CollectAll
  \/ CollectFruVpd
  \/ DeleteFruVpd
  \/ HandleTimerExpiry
  \/ PresentPropertyChange
  \/ HostStateChange
  \/ \E p \in Proc : Step(p)
  \/ SlotChange
  \/ Restart

Spec == Init /\ [][Next]_vars

-----------------------------------------------------------------------------
(* Properties                                                              *)

HardwareOK ==
  /\ kind \in FruKind
  /\ slot \in Part \cup {NoPart}
  /\ line \in BOOLEAN
  /\ bound \in BOOLEAN
  /\ signals \in Seq(BOOLEAN) /\ Len(signals) <= MaxSignals
  /\ prev \in BOOLEAN
  /\ requested \in BOOLEAN

ControlOK ==
  /\ pc \in [Proc -> Pc]
  /\ job \in [Proc -> Job]
  /\ out \in [Proc -> {"empty", "error"}]
  /\ part \in [Proc -> Part \cup {NoPart}]
  /\ saw \in [Proc -> BOOLEAN]

HistoryOK ==
  /\ excuse \in Excuse
  /\ noticed \in BOOLEAN
  /\ alone \in BOOLEAN
  /\ used \in BOOLEAN

(* The one type invariant.                                                 *)
TypeOK == HardwareOK /\ pim \in PimRecord /\ ControlOK /\ HistoryOK

(* vpd-manager has handled every change of the slot it is told of.         *)
UpToDate ==
  CASE kind = "polled"    -> prev = Plugged
    [] kind = "monitored" -> signals = <<>>
    [] OTHER              -> noticed

(* Once a change has been handled, the inventory does not describe a part  *)
(* that is not in the slot, however it came to be handled: by the poll, by *)
(* signals that arrive after further changes, by a client, or by a new     *)
(* collection of everything.  Excused are calls that failed, a change that *)
(* is undone between two polls (a swap, or a part that came and went), and *)
(* a thread and the io thread on the FRU at once.                          *)
NoGhost ==
  Quiet /\ UpToDate /\ excuse = "none"
     => /\ pim.vpd \in {slot, NoPart}
        /\ pim.ccin => Plugged
        /\ HandlesPresence /\ pim.present => Plugged

(* Two flows on the same FRU, in any order, never leave it InProgress, as  *)
(* each ends with a write of its own.                                      *)
ProgressEnds ==
  Quiet /\ excuse # "fault" => pim.status # "InProgress"

(* No path through a collection or a deletion that fails leaves the slot   *)
(* switched on: when all is quiet and the line is on, somebody has read a  *)
(* part since it was switched on.                                          *)
NoPowerLeftOn ==
  Quiet /\ HasPin /\ excuse # "fault" => (line => used)
=============================================================================

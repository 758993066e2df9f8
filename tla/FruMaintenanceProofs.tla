------------------------ MODULE FruMaintenanceProofs ------------------------
(***************************************************************************)
(* Proofs of what the run maintenance checks, for every set of parts,      *)
(* every kind of FRU, any faults and any bound on the signals.             *)
(***************************************************************************)
EXTENDS FruMaintenance, TLAPS

USE DEF Plugged, HasPin, HandlesPresence, Quiet, Raced, Works, Fails,
        Tolerated, Move, WritePim, hwVars, ctlVars, histVars

(* What a job that starts leaves in order.                                 *)
LEMMA TypeOfStart ==
  ASSUME ControlOK, HistoryOK, NEW p \in Proc, NEW j \in Job, NEW first \in Pc,
         Start(p, j, first)
  PROVE  ControlOK' /\ HistoryOK'
<1>1. ControlOK'
  BY DEF ControlOK, Start
<1>2. excuse' \in Excuse
  BY DEF HistoryOK, Start, Excuse
<1>3. noticed' \in BOOLEAN /\ alone' \in BOOLEAN /\ used' \in BOOLEAN
  BY DEF HistoryOK, Start
<1> QED BY <1>1, <1>2, <1>3 DEF HistoryOK

(* Every step of a collection or a deletion keeps the types.               *)
LEMMA TypeOfStep ==
  ASSUME TypeOK, NEW p \in Proc, Step(p)
  PROVE  TypeOK'
<1>0. HardwareOK /\ pim \in PimRecord /\ ControlOK /\ HistoryOK
  BY DEF TypeOK
<1> USE <1>0
<1>1. CASE SetInProgress(p)
  <2> USE <1>1 DEF Step, SetInProgress, LoggedWrite
  <2>1. HardwareOK'
    BY DEF HardwareOK
  <2>2. pim' \in PimRecord
    BY DEF PimRecord, ControlOK
  <2>3. ControlOK'
    BY DEF ControlOK, HardwareOK, Pc, Job, FirstOfCollect
  <2>4. HistoryOK'
    BY DEF HistoryOK, Excuse
  <2> QED BY <2>1, <2>2, <2>3, <2>4 DEF TypeOK
<1>2. CASE ReadPresence(p)
  <2> USE <1>2 DEF Step, ReadPresence
  <2>1. HardwareOK'
    BY DEF HardwareOK
  <2>2. pim' \in PimRecord
    BY DEF PimRecord, ControlOK
  <2>3. ControlOK'
    BY DEF ControlOK, HardwareOK, Pc, Job, FirstOfCollect
  <2>4. HistoryOK'
    BY DEF HistoryOK, Excuse
  <2> QED BY <2>1, <2>2, <2>3, <2>4 DEF TypeOK
<1>3. CASE EnableLine(p)
  <2> USE <1>3 DEF Step, EnableLine
  <2>1. HardwareOK'
    BY DEF HardwareOK
  <2>2. pim' \in PimRecord
    BY DEF PimRecord, ControlOK
  <2>3. ControlOK'
    BY DEF ControlOK, HardwareOK, Pc, Job, FirstOfCollect
  <2>4. HistoryOK'
    BY DEF HistoryOK, Excuse
  <2> QED BY <2>1, <2>2, <2>3, <2>4 DEF TypeOK
<1>4. CASE BindDriver(p)
  <2> USE <1>4 DEF Step, BindDriver
  <2>1. HardwareOK'
    BY DEF HardwareOK
  <2>2. pim' \in PimRecord
    BY DEF PimRecord, ControlOK
  <2>3. ControlOK'
    BY DEF ControlOK, HardwareOK, Pc, Job, FirstOfCollect
  <2>4. HistoryOK'
    BY DEF HistoryOK, Excuse
  <2> QED BY <2>1, <2>2, <2>3, <2>4 DEF TypeOK
<1>5. CASE ClearCcin(p)
  <2> USE <1>5 DEF Step, ClearCcin, LoggedWrite
  <2>1. HardwareOK'
    BY DEF HardwareOK
  <2>2. pim' \in PimRecord
    BY DEF PimRecord, ControlOK
  <2>3. ControlOK'
    BY DEF ControlOK, HardwareOK, Pc, Job, FirstOfCollect
  <2>4. HistoryOK'
    BY DEF HistoryOK, Excuse
  <2> QED BY <2>1, <2>2, <2>3, <2>4 DEF TypeOK
<1>6. CASE ParseFile(p)
  <2> USE <1>6 DEF Step, ParseFile
  <2>1. HardwareOK'
    BY DEF HardwareOK
  <2>2. pim' \in PimRecord
    BY DEF PimRecord, ControlOK
  <2>3. ControlOK'
    BY DEF ControlOK, HardwareOK, Pc, Job, FirstOfCollect
  <2>4. HistoryOK'
    BY DEF HistoryOK, Excuse
  <2> QED BY <2>1, <2>2, <2>3, <2>4 DEF TypeOK
<1>7. CASE PostFail(p)
  <2> USE <1>7 DEF Step, PostFail, ExecutePostFailAction, End
  <2>1. HardwareOK'
    BY DEF HardwareOK
  <2>2. pim' \in PimRecord
    BY DEF PimRecord, ControlOK
  <2>3. ControlOK'
    BY ZenonT(40) DEF ControlOK, HardwareOK, Pc, Job, FirstOfCollect
  <2>4. HistoryOK'
    BY DEF HistoryOK, Excuse
  <2> QED BY <2>1, <2>2, <2>3, <2>4 DEF TypeOK
<1>8. CASE Publish(p)
  <2> USE <1>8 DEF Step, Publish, Collected, EndLogged, End
  <2>1. HardwareOK'
    BY DEF HardwareOK
  <2>2. pim' \in PimRecord
    BY DEF PimRecord, ControlOK
  <2>3. ControlOK'
    BY DEF ControlOK, HardwareOK, Pc, Job, FirstOfCollect
  <2>4. HistoryOK'
    BY DEF HistoryOK, Excuse
  <2> QED BY <2>1, <2>2, <2>3, <2>4 DEF TypeOK
<1>9. CASE ReadTree(p)
  <2> USE <1>9 DEF Step, ReadTree
  <2>1. HardwareOK'
    BY DEF HardwareOK
  <2>2. pim' \in PimRecord
    BY DEF PimRecord, ControlOK
  <2>3. ControlOK'
    BY DEF ControlOK, HardwareOK, Pc, Job, FirstOfCollect
  <2>4. HistoryOK'
    BY DEF HistoryOK, Excuse
  <2> QED BY <2>1, <2>2, <2>3, <2>4 DEF TypeOK
<1>10. CASE ClearTree(p)
  <2> USE <1>10 DEF Step, ClearTree, Emptied, LoggedWrite
  <2>1. HardwareOK'
    BY DEF HardwareOK
  <2>2. pim' \in PimRecord
    BY DEF PimRecord, ControlOK
  <2>3. ControlOK'
    BY DEF ControlOK, HardwareOK, Pc, Job, FirstOfCollect
  <2>4. HistoryOK'
    BY DEF HistoryOK, Excuse
  <2> QED BY <2>1, <2>2, <2>3, <2>4 DEF TypeOK
<1>11. CASE SetCompleted(p)
  <2> USE <1>11 DEF Step, SetCompleted, EndLogged, End
  <2>1. HardwareOK'
    BY DEF HardwareOK
  <2>2. pim' \in PimRecord
    BY DEF PimRecord, ControlOK
  <2>3. ControlOK'
    BY DEF ControlOK, HardwareOK, Pc, Job, FirstOfCollect
  <2>4. HistoryOK'
    BY DEF HistoryOK, Excuse
  <2> QED BY <2>1, <2>2, <2>3, <2>4 DEF TypeOK
<1>12. CASE SetFailed(p)
  <2> USE <1>12 DEF Step, SetFailed, EndLogged, End, LoggedWrite
  <2>1. HardwareOK'
    BY DEF HardwareOK
  <2>2. pim' \in PimRecord
    BY DEF PimRecord, ControlOK
  <2>3. ControlOK'
    BY DEF ControlOK, HardwareOK, Pc, Job, FirstOfCollect
  <2>4. HistoryOK'
    BY DEF HistoryOK, Excuse
  <2> QED BY <2>1, <2>2, <2>3, <2>4 DEF TypeOK
<1>13. CASE SetAbsent(p)
  <2> USE <1>13 DEF Step, SetAbsent, EndLogged, End
  <2>1. HardwareOK'
    BY DEF HardwareOK
  <2>2. pim' \in PimRecord
    BY DEF PimRecord, ControlOK
  <2>3. ControlOK'
    BY DEF ControlOK, HardwareOK, Pc, Job, FirstOfCollect
  <2>4. HistoryOK'
    BY DEF HistoryOK, Excuse
  <2> QED BY <2>1, <2>2, <2>3, <2>4 DEF TypeOK
<1>14. CASE UnbindFirst(p)
  <2> USE <1>14 DEF Step, UnbindFirst
  <2>1. HardwareOK'
    BY DEF HardwareOK
  <2>2. pim' \in PimRecord
    BY DEF PimRecord, ControlOK
  <2>3. ControlOK'
    BY DEF ControlOK, HardwareOK, Pc, Job, FirstOfCollect
  <2>4. HistoryOK'
    BY DEF HistoryOK, Excuse
  <2> QED BY <2>1, <2>2, <2>3, <2>4 DEF TypeOK
<1>15. CASE LineOff(p)
  <2> USE <1>15 DEF Step, LineOff, End
  <2>1. HardwareOK'
    BY DEF HardwareOK
  <2>2. pim' \in PimRecord
    BY DEF PimRecord, ControlOK
  <2>3. ControlOK'
    BY DEF ControlOK, HardwareOK, Pc, Job, FirstOfCollect
  <2>4. HistoryOK'
    BY DEF HistoryOK, Excuse
  <2> QED BY <2>1, <2>2, <2>3, <2>4 DEF TypeOK
<1>16. CASE Unbind(p)
  <2> USE <1>16 DEF Step, Unbind, End
  <2>1. HardwareOK'
    BY DEF HardwareOK
  <2>2. pim' \in PimRecord
    BY DEF PimRecord, ControlOK
  <2>3. ControlOK'
    BY DEF ControlOK, HardwareOK, Pc, Job, FirstOfCollect
  <2>4. HistoryOK'
    BY DEF HistoryOK, Excuse
  <2> QED BY <2>1, <2>2, <2>3, <2>4 DEF TypeOK
<1> QED
  BY <1>1, <1>2, <1>3, <1>4, <1>5, <1>6, <1>7, <1>8, <1>9, <1>10, <1>11,
     <1>12, <1>13, <1>14, <1>15, <1>16 DEF Step

(* One more signal fits when the bound is not reached.                     *)
LEMMA AppendKeepsBound ==
  ASSUME NEW S, NEW s \in Seq(S), NEW e \in S, Len(s) < MaxSignals
  PROVE  Append(s, e) \in Seq(S) /\ Len(Append(s, e)) <= MaxSignals
  BY MaintenanceAssumption

(* A value that does not wait in a queue after it grew did not wait before, *)
(* and is not the one that was added.                                      *)
LEMMA AbsentAfterAppend ==
  ASSUME NEW S, NEW s \in Seq(S), NEW e \in S, NEW x,
         \A i \in DOMAIN Append(s, e) : Append(s, e)[i] # x
  PROVE  (\A i \in DOMAIN s : s[i] # x) /\ e # x
<1>1. /\ Len(s) \in Nat /\ DOMAIN s = 1..Len(s)
      /\ DOMAIN Append(s, e) = 1..(Len(s) + 1)
  OBVIOUS
<1>2. Append(s, e)[Len(s) + 1] = e
  OBVIOUS
<1>3. \A i \in 1..Len(s) : Append(s, e)[i] = s[i]
  OBVIOUS
<1>4. Len(s) + 1 \in DOMAIN Append(s, e)
  BY <1>1
<1>5. \A i \in DOMAIN s : i \in DOMAIN Append(s, e)
  BY <1>1
<1> QED BY <1>1, <1>2, <1>3, <1>4, <1>5, Zenon

(* One that is neither the first of a queue nor in the rest is not in it.  *)
LEMMA AbsentBeforeTail ==
  ASSUME NEW S, NEW s \in Seq(S), NEW x, s # <<>>, Head(s) # x,
         \A i \in DOMAIN Tail(s) : Tail(s)[i] # x
  PROVE  \A i \in DOMAIN s : s[i] # x
<1>1. /\ Len(s) \in Nat /\ DOMAIN s = 1..Len(s)
      /\ DOMAIN Tail(s) = 1..(Len(s) - 1)
  OBVIOUS
<1>2. s[1] = Head(s)
  OBVIOUS
<1>3. \A i \in 1..(Len(s) - 1) : Tail(s)[i] = s[i + 1]
  OBVIOUS
<1>4. ASSUME NEW i \in DOMAIN s
      PROVE  s[i] # x
  <2>1. CASE i = 1
    BY <1>2, <2>1
  <2>2. CASE i # 1
    <3>1. i - 1 \in 1..(Len(s) - 1) /\ (i - 1) + 1 = i
      BY <1>1, <1>4, <2>2
    <3>2. Tail(s)[i - 1] = s[i]
      BY <1>3, <3>1
    <3> QED BY <1>1, <3>1, <3>2
  <2> QED BY <2>1, <2>2
<1> QED BY <1>4

(* So do the events that start a job, a change of the slot and a restart.  *)
LEMMA TypeInductive ==
  ASSUME TypeOK, [Next]_vars
  PROVE  TypeOK'
<1>0. HardwareOK /\ pim \in PimRecord /\ ControlOK /\ HistoryOK
  BY DEF TypeOK
<1> USE <1>0, MaintenanceAssumption
<1>a. "io" \in Proc /\ "thread" \in Proc
  BY DEF Proc
<1>b. {"begin", FirstOfCollect, FirstOfDelete} \subseteq Pc
  BY DEF Pc, FirstOfCollect, FirstOfDelete
<1>c. {"all", "single", "change", "delete"} \subseteq Job
  BY DEF Job
<1>1. CASE CollectAll
  <2>1. ControlOK' /\ HistoryOK'
    BY <1>1, <1>a, <1>b, <1>c, TypeOfStart DEF CollectAll
  <2> QED BY <1>1, <2>1 DEF CollectAll, TypeOK, HardwareOK
<1>2. CASE CollectFruVpd
  <2>1. ControlOK' /\ HistoryOK'
    <3>1. CASE Start("io", "single", "begin")
      BY <3>1, <1>a, <1>b, <1>c, TypeOfStart
    <3>2. CASE UNCHANGED <<ctlVars, histVars>>
      BY <3>2 DEF ControlOK, HistoryOK
    <3> QED BY <1>2, <3>1, <3>2 DEF CollectFruVpd, CollectSingle
  <2> QED BY <1>2, <2>1 DEF CollectFruVpd, TypeOK, HardwareOK
<1>3. CASE DeleteFruVpd
  <2>1. ControlOK' /\ HistoryOK'
    BY <1>3, <1>a, <1>b, <1>c, TypeOfStart DEF DeleteFruVpd
  <2> QED BY <1>3, <2>1 DEF DeleteFruVpd, TypeOK, HardwareOK
<1>4. CASE HandleTimerExpiry
  <2>1. ControlOK' /\ HistoryOK'
    BY <1>4, <1>a, <1>b, <1>c, TypeOfStart
       DEF HandleTimerExpiry, HandleChangeInGpioPin
  <2> QED BY <1>4, <2>1 DEF HandleTimerExpiry, TypeOK, HardwareOK
<1>5. CASE PresentPropertyChange
  <2>1. ControlOK' /\ HistoryOK'
    <3>1. CASE Start("io", "single", "begin")
      BY <3>1, <1>a, <1>b, <1>c, TypeOfStart
    <3>2. CASE UNCHANGED <<ctlVars, histVars>>
      BY <3>2 DEF ControlOK, HistoryOK
    <3>3. CASE Start("io", "delete", FirstOfDelete)
      BY <3>3, <1>a, <1>b, <1>c, TypeOfStart
    <3> QED BY <1>5, <3>1, <3>2, <3>3 DEF PresentPropertyChange, CollectSingle
  <2>2. signals' \in Seq(BOOLEAN) /\ Len(signals') <= MaxSignals
    <3>1. signals \in Seq(BOOLEAN) /\ Len(signals) <= MaxSignals
      BY DEF HardwareOK
    <3>2. signals # <<>> /\ signals' = Tail(signals)
      BY <1>5 DEF PresentPropertyChange
    <3> HIDE <1>0
    <3> QED BY <3>1, <3>2, MaintenanceAssumption
  <2> QED BY <1>5, <2>1, <2>2 DEF PresentPropertyChange, TypeOK, HardwareOK
<1>6. CASE HostStateChange
  <2>1. ControlOK' /\ HistoryOK'
    <3>1. CASE Start("io", "single", "begin")
      BY <3>1, <1>a, <1>b, <1>c, TypeOfStart
    <3>2. CASE UNCHANGED <<ctlVars, histVars>>
      BY <3>2 DEF ControlOK, HistoryOK
    <3> QED
      BY <1>6, <3>1, <3>2
         DEF HostStateChange, PerformVpdRecollection, CollectSingle
  <2> QED BY <1>6, <2>1 DEF HostStateChange, TypeOK, HardwareOK
<1>7. CASE \E p \in Proc : Step(p)
  BY <1>7, TypeOfStep
<1>8. CASE SlotChange
  <2> USE <1>8 DEF SlotChange
  <2>1. HardwareOK'
    <3>1. signals' \in Seq(BOOLEAN) /\ Len(signals') <= MaxSignals
      <4>1. PICK new \in Part \cup {NoPart} :
              \/ signals' = signals
              \/ /\ Len(signals) < MaxSignals
                 /\ signals' = Append(signals, new # NoPart)
        BY Zenon
      <4>2. (new # NoPart) \in BOOLEAN
        OBVIOUS
      <4>3. signals \in Seq(BOOLEAN) /\ Len(signals) <= MaxSignals
        BY DEF HardwareOK
      <4>4. CASE signals' = signals
        BY <4>3, <4>4, Zenon
      <4>5. CASE /\ Len(signals) < MaxSignals
                 /\ signals' = Append(signals, new # NoPart)
        BY <4>2, <4>3, <4>5, AppendKeepsBound, Zenon
      <4> QED BY <4>1, <4>4, <4>5, Zenon
    <3> QED BY <3>1 DEF HardwareOK
  <2>2. pim' \in PimRecord
    BY DEF PimRecord
  <2>3. ControlOK'
    BY DEF ControlOK
  <2>4. HistoryOK'
    BY DEF HistoryOK, Excuse
  <2> QED BY <2>1, <2>2, <2>3, <2>4 DEF TypeOK
<1>9. CASE Restart
  <2> USE <1>9 DEF Restart
  <2>1. HardwareOK'
    <3>1. signals' \in Seq(BOOLEAN) /\ Len(signals') <= MaxSignals
      <4>1. signals' = <<>>
        OBVIOUS
      <4> QED BY <4>1, MaintenanceAssumption
    <3> QED BY <3>1 DEF HardwareOK
  <2>2. ControlOK'
    BY DEF ControlOK, Pc, Job
  <2>3. HistoryOK'
    BY DEF HistoryOK, Excuse
  <2> QED BY <2>1, <2>2, <2>3 DEF TypeOK
<1>10. CASE UNCHANGED vars
  BY <1>10 DEF vars, TypeOK, HardwareOK, ControlOK, HistoryOK
<1> QED
  BY <1>1, <1>2, <1>3, <1>4, <1>5, <1>6, <1>7, <1>8, <1>9, <1>10 DEF Next

(* Whatever is plugged in and on PIM when the process starts.              *)
LEMMA InitTypeOK == ASSUME Init PROVE TypeOK
<1> USE MaintenanceAssumption DEF Init
<1>1. HardwareOK
  <2>1. signals \in Seq(BOOLEAN) /\ Len(signals) <= MaxSignals
    <3>1. signals = <<>>
      OBVIOUS
    <3> QED BY <3>1, MaintenanceAssumption
  <2> QED BY <2>1 DEF HardwareOK
<1>2. pim \in PimRecord
  BY DEF PimRecord, Record
<1>3. ControlOK
  BY DEF ControlOK, Pc, Job
<1>4. HistoryOK
  BY DEF HistoryOK, Excuse
<1> QED BY <1>1, <1>2, <1>3, <1>4 DEF TypeOK

(* Every variable has its type (worker.cpp, gpio_monitor.cpp and           *)
(* listener.cpp, with any number of parts).                                *)
THEOREM MaintenanceTypeCorrect == Spec => []TypeOK
<1>1. Init => TypeOK
  BY InitTypeOK
<1>2. TypeOK /\ [Next]_vars => TypeOK'
  BY TypeInductive
<1> QED BY <1>1, <1>2, PTL DEF Spec
-----------------------------------------------------------------------------
(* The steps only a deletion has.                                          *)
DeletePc == {"unbindFirst", "delete", "deleteRead", "lineOff", "unbind"}

(* What each job may be doing, and who may have it.                        *)
JobInv ==
  \A p \in Proc :
    /\ pc[p] = "idle" <=> job[p] = "none"
    /\ job[p] = "all" => p = "thread"
    /\ job[p] \in {"single", "change", "delete"} => p = "io"
    /\ job[p] \in {"all", "single"} => pc[p] \notin DeletePc
    /\ job[p] = "change" => pc[p] \in {"presence", "enable", "bind", "parse",
                                       "ccin", "postFail", "publish"}
    /\ job[p] = "delete" => pc[p] \in DeletePc \cup {"postFail"}
    /\ pc[p] = "absent" => p = "thread"

(* A record that is InProgress has a job that is still to set its Status.  *)
ProgressInv ==
  /\ pim.status = "InProgress" /\ excuse # "fault"
       => \E p \in Proc : /\ job[p] \in {"all", "single"}
                          /\ pc[p] \notin {"begin", "absent"}
  /\ alone /\ pc["thread"] = "absent" => pim.status # "InProgress"

(* A line that is on without use has a job that is to use it or to switch  *)
(* it off.                                                                 *)
PowerInv ==
  /\ HasPin /\ line /\ ~used /\ excuse # "fault"
       => \E p \in Proc : pc[p] \in {"bind", "parse", "ccin", "postFail"}
  /\ HasPin /\ line /\ ~used /\ alone
       => pc["thread"] \in {"begin", "presence", "enable", "bind", "parse",
                           "ccin", "postFail"}

(* The record has CCIN, and Present where it is handled, only with the     *)
(* other keywords; what is to be published is a part.                      *)
RecordInv ==
  /\ pim.ccin => pim.vpd # NoPart
  /\ pim.present /\ HandlesPresence => pim.vpd # NoPart
  /\ \A p \in Proc : pc[p] = "publish" => part[p] # NoPart

(* Who has the FRU for itself.                                             *)
AloneInv ==
  /\ alone => pc["thread"] # "idle" /\ pc["io"] = "idle"
  /\ excuse = "none" => \E p \in Proc : pc[p] = "idle"

(* No change is left to be handled that would delete the record.           *)
Expected ==
  CASE kind = "polled"    -> prev => Plugged
    [] kind = "monitored" -> \A i \in DOMAIN signals : signals[i] # FALSE
    [] OTHER              -> noticed

(* The record has the keywords of the part in the slot, or none.            *)
Fit == pim.vpd \in {slot, NoPart}

(* How far the job of p has brought the record to fit the slot.            *)
Good(p) ==
  /\ job[p] = "change" => Fit
  /\ pc[p] = "publish" => part[p] = slot
  /\ pc[p] \in {"emptyRead", "errorRead", "deleteRead"}
       => (saw[p] <=> pim.vpd # NoPart)
  /\ pc[p] \in {"completed", "failed", "absent"} => Fit
  /\ pc[p] \in {"lineOff", "unbind"} => pim.vpd = NoPart
  /\ job[p] = "delete" /\ pc[p] = "postFail" => pim.vpd = NoPart

GhostInv ==
  /\ excuse = "none" /\ Expected /\ Quiet => Fit
  /\ (excuse = "none" \/ alone) /\ Expected
       => \A p \in Proc : pc[p] # "idle" => Good(p)

IInv ==
  /\ TypeOK /\ JobInv /\ ProgressInv /\ PowerInv
  /\ RecordInv /\ AloneInv /\ GhostInv

(* A step of the only job that runs brings its record further; no other    *)
(* job is there to be disturbed.                                           *)
LEMMA OthersIdle ==
  ASSUME ControlOK, GhostInv, AloneInv, NEW p \in Proc,
         UNCHANGED <<kind, slot, signals, prev, noticed>>,
         pc[p] # "idle",
         \A q \in Proc : q # p => pc'[q] = pc[q],
         (excuse = "none" \/ alone)' => excuse = "none" \/ alone,
         (excuse = "none" \/ alone)' /\ Good(p)
           => IF pc'[p] = "idle" THEN Fit' ELSE Good(p)'
  PROVE  GhostInv'
<1>1. Expected' = Expected
  BY DEF Expected
<1>2. excuse = "none" \/ alone => \A q \in Proc : q # p => pc[q] = "idle"
  BY DEF AloneInv, Proc
<1>3. ASSUME (excuse = "none" \/ alone)', Expected'
      PROVE  /\ \A q \in Proc : q # p => pc'[q] = "idle"
             /\ IF pc'[p] = "idle" THEN Fit' ELSE Good(p)'
  <2>1. Good(p)
    BY <1>1, <1>3 DEF GhostInv
  <2> QED BY <1>2, <1>3, <2>1
<1>4. (excuse = "none" /\ Expected /\ Quiet => Fit)'
  BY <1>3
<1>5. ((excuse = "none" \/ alone) /\ Expected
         => \A q \in Proc : pc[q] # "idle" => Good(q))'
  BY <1>3
<1> QED BY <1>4, <1>5 DEF GhostInv

(* A step of a job, by a collection thread or by the io thread, keeps all  *)
(* parts of the invariant (worker.cpp, parseAndPublishVPD and what it and  *)
(* deleteFruVpd call).                                                     *)
LEMMA StepKeeps ==
  ASSUME IInv, NEW p \in Proc, Step(p)
  PROVE  IInv'
<1>0. /\ HardwareOK /\ ControlOK /\ HistoryOK /\ pim \in PimRecord
      /\ JobInv /\ ProgressInv /\ PowerInv /\ RecordInv /\ AloneInv /\ GhostInv
  BY DEF IInv, TypeOK
<1>a. TypeOK'
  BY TypeOfStep DEF IInv
<1> USE <1>0 DEF ControlOK, HistoryOK, Excuse, Proc
<1>1. CASE SetInProgress(p)
  <2> USE <1>1 DEF Step, SetInProgress, LoggedWrite
  <2>1. JobInv'
    BY DEF JobInv, DeletePc, FirstOfCollect
  <2>2. ProgressInv'
    BY DEF ProgressInv, JobInv, AloneInv, DeletePc, PimRecord, Job,
       FirstOfCollect
  <2>3. PowerInv'
    BY DEF PowerInv, HardwareOK, AloneInv, JobInv, DeletePc, Job,
       FirstOfCollect
  <2>4. RecordInv'
    BY DEF RecordInv, JobInv, DeletePc, PimRecord, HardwareOK, FirstOfCollect
  <2>5. AloneInv'
    BY DEF AloneInv, JobInv, DeletePc, Job, FirstOfCollect
  <2>6. GhostInv'
    <3>1. (excuse = "none" \/ alone)' /\ Good(p)
            => IF pc'[p] = "idle" THEN Fit' ELSE Good(p)'
      BY DEF Good, Fit, JobInv, DeletePc, RecordInv, PimRecord, Job,
         FirstOfCollect
    <3>2. /\ pc[p] # "idle"
          /\ \A q \in Proc : q # p => pc'[q] = pc[q]
          /\ (excuse = "none" \/ alone)' => excuse = "none" \/ alone
      OBVIOUS
    <3> QED BY <3>1, <3>2, OthersIdle
  <2> QED BY <1>a, <2>1, <2>2, <2>3, <2>4, <2>5, <2>6 DEF IInv
<1>2. CASE ReadPresence(p)
  <2> USE <1>2 DEF Step, ReadPresence
  <2>1. JobInv'
    BY DEF JobInv, DeletePc
  <2>2. ProgressInv'
    BY DEF ProgressInv, JobInv, AloneInv, DeletePc, PimRecord, Job
  <2>3. PowerInv'
    BY DEF PowerInv, HardwareOK, AloneInv, JobInv, DeletePc, Job
  <2>4. RecordInv'
    BY DEF RecordInv, JobInv, DeletePc, PimRecord, HardwareOK
  <2>5. AloneInv'
    BY DEF AloneInv, JobInv, DeletePc, Job
  <2>6. GhostInv'
    <3>1. (excuse = "none" \/ alone)' /\ Good(p)
            => IF pc'[p] = "idle" THEN Fit' ELSE Good(p)'
      BY DEF Good, Fit, JobInv, DeletePc, RecordInv, PimRecord, Job
    <3>2. /\ pc[p] # "idle"
          /\ \A q \in Proc : q # p => pc'[q] = pc[q]
          /\ (excuse = "none" \/ alone)' => excuse = "none" \/ alone
      OBVIOUS
    <3> QED BY <3>1, <3>2, OthersIdle
  <2> QED BY <1>a, <2>1, <2>2, <2>3, <2>4, <2>5, <2>6 DEF IInv
<1>3. CASE EnableLine(p)
  <2> USE <1>3 DEF Step, EnableLine
  <2>1. JobInv'
    BY DEF JobInv, DeletePc
  <2>2. ProgressInv'
    BY DEF ProgressInv, JobInv, AloneInv, DeletePc, PimRecord, Job
  <2>3. PowerInv'
    BY DEF PowerInv, HardwareOK, AloneInv, JobInv, DeletePc, Job
  <2>4. RecordInv'
    BY DEF RecordInv, JobInv, DeletePc, PimRecord, HardwareOK
  <2>5. AloneInv'
    BY DEF AloneInv, JobInv, DeletePc, Job
  <2>6. GhostInv'
    <3>1. (excuse = "none" \/ alone)' /\ Good(p)
            => IF pc'[p] = "idle" THEN Fit' ELSE Good(p)'
      BY DEF Good, Fit, JobInv, DeletePc, RecordInv, PimRecord, Job
    <3>2. /\ pc[p] # "idle"
          /\ \A q \in Proc : q # p => pc'[q] = pc[q]
          /\ (excuse = "none" \/ alone)' => excuse = "none" \/ alone
      OBVIOUS
    <3> QED BY <3>1, <3>2, OthersIdle
  <2> QED BY <1>a, <2>1, <2>2, <2>3, <2>4, <2>5, <2>6 DEF IInv
<1>4. CASE BindDriver(p)
  <2> USE <1>4 DEF Step, BindDriver
  <2>1. JobInv'
    BY DEF JobInv, DeletePc
  <2>2. ProgressInv'
    BY DEF ProgressInv, JobInv, AloneInv, DeletePc, PimRecord, Job
  <2>3. PowerInv'
    BY DEF PowerInv, HardwareOK, AloneInv, JobInv, DeletePc, Job
  <2>4. RecordInv'
    BY DEF RecordInv, JobInv, DeletePc, PimRecord, HardwareOK
  <2>5. AloneInv'
    BY DEF AloneInv, JobInv, DeletePc, Job
  <2>6. GhostInv'
    <3>1. (excuse = "none" \/ alone)' /\ Good(p)
            => IF pc'[p] = "idle" THEN Fit' ELSE Good(p)'
      BY DEF Good, Fit, JobInv, DeletePc, RecordInv, PimRecord, Job
    <3>2. /\ pc[p] # "idle"
          /\ \A q \in Proc : q # p => pc'[q] = pc[q]
          /\ (excuse = "none" \/ alone)' => excuse = "none" \/ alone
      OBVIOUS
    <3> QED BY <3>1, <3>2, OthersIdle
  <2> QED BY <1>a, <2>1, <2>2, <2>3, <2>4, <2>5, <2>6 DEF IInv
<1>5. CASE ClearCcin(p)
  <2> USE <1>5 DEF Step, ClearCcin, LoggedWrite
  <2>1. JobInv'
    BY DEF JobInv, DeletePc
  <2>2. ProgressInv'
    BY DEF ProgressInv, JobInv, AloneInv, DeletePc, PimRecord, Job
  <2>3. PowerInv'
    BY DEF PowerInv, HardwareOK, AloneInv, JobInv, DeletePc, Job
  <2>4. RecordInv'
    BY DEF RecordInv, JobInv, DeletePc, PimRecord, HardwareOK
  <2>5. AloneInv'
    BY DEF AloneInv, JobInv, DeletePc, Job
  <2>6. GhostInv'
    <3>1. (excuse = "none" \/ alone)' /\ Good(p)
            => IF pc'[p] = "idle" THEN Fit' ELSE Good(p)'
      BY DEF Good, Fit, JobInv, DeletePc, RecordInv, PimRecord, Job
    <3>2. /\ pc[p] # "idle"
          /\ \A q \in Proc : q # p => pc'[q] = pc[q]
          /\ (excuse = "none" \/ alone)' => excuse = "none" \/ alone
      OBVIOUS
    <3> QED BY <3>1, <3>2, OthersIdle
  <2> QED BY <1>a, <2>1, <2>2, <2>3, <2>4, <2>5, <2>6 DEF IInv
<1>6. CASE ParseFile(p)
  <2> USE <1>6 DEF Step, ParseFile
  <2>1. JobInv'
    BY DEF JobInv, DeletePc
  <2>2. ProgressInv'
    BY DEF ProgressInv, JobInv, AloneInv, DeletePc, PimRecord, Job
  <2>3. PowerInv'
    BY DEF PowerInv, HardwareOK, AloneInv, JobInv, DeletePc, Job
  <2>4. RecordInv'
    BY DEF RecordInv, JobInv, DeletePc, PimRecord, HardwareOK
  <2>5. AloneInv'
    BY DEF AloneInv, JobInv, DeletePc, Job
  <2>6. GhostInv'
    <3>1. (excuse = "none" \/ alone)' /\ Good(p)
            => IF pc'[p] = "idle" THEN Fit' ELSE Good(p)'
      BY DEF Good, Fit, JobInv, DeletePc, RecordInv, PimRecord, Job
    <3>2. /\ pc[p] # "idle"
          /\ \A q \in Proc : q # p => pc'[q] = pc[q]
          /\ (excuse = "none" \/ alone)' => excuse = "none" \/ alone
      OBVIOUS
    <3> QED BY <3>1, <3>2, OthersIdle
  <2> QED BY <1>a, <2>1, <2>2, <2>3, <2>4, <2>5, <2>6 DEF IInv
<1>7. CASE PostFail(p)
  <2> USE <1>7 DEF Step, PostFail, ExecutePostFailAction, End
  <2>1. JobInv'
    BY DEF JobInv, DeletePc
  <2>2. ProgressInv'
    BY DEF ProgressInv, JobInv, AloneInv, DeletePc, PimRecord, Job
  <2>3. PowerInv'
    BY DEF PowerInv, HardwareOK, AloneInv, JobInv, DeletePc, Job
  <2>4. RecordInv'
    BY DEF RecordInv, JobInv, DeletePc, PimRecord, HardwareOK
  <2>5. AloneInv'
    BY DEF AloneInv, JobInv, DeletePc, Job
  <2>6. GhostInv'
    <3>1. (excuse = "none" \/ alone)' /\ Good(p)
            => IF pc'[p] = "idle" THEN Fit' ELSE Good(p)'
      BY DEF Good, Fit, JobInv, DeletePc, RecordInv, PimRecord, Job
    <3>2. /\ pc[p] # "idle"
          /\ \A q \in Proc : q # p => pc'[q] = pc[q]
          /\ (excuse = "none" \/ alone)' => excuse = "none" \/ alone
      OBVIOUS
    <3> QED BY <3>1, <3>2, OthersIdle
  <2> QED BY <1>a, <2>1, <2>2, <2>3, <2>4, <2>5, <2>6 DEF IInv
<1>8. CASE Publish(p)
  <2> USE <1>8 DEF Step, Publish, Collected, EndLogged, End
  <2>1. JobInv'
    BY DEF JobInv, DeletePc
  <2>2. ProgressInv'
    <3>1. CASE job[p] = "change"
      <4>1. \A q \in Proc : q # p => job'[q] = job[q] /\ pc'[q] = pc[q]
        BY <3>1
      <4>2. ~alone /\ ~alone'
        BY <3>1 DEF AloneInv, JobInv
      <4>3. excuse' # "fault" => excuse # "fault" /\ pim'.status = pim.status
        <5>1. Collected(p).status = pim.status
          BY DEF PimRecord
        <5>2. \/ excuse' = excuse /\ pim' = Collected(p)
              \/ excuse' = "fault"
          BY <3>1, <4>2
        <5> QED BY <5>1, <5>2
      <4>4. ASSUME pim'.status = "InProgress", excuse' # "fault"
            PROVE  \E q \in Proc : /\ job'[q] \in {"all", "single"}
                                  /\ pc'[q] \notin {"begin", "absent"}
        <5>1. PICK q \in Proc : /\ job[q] \in {"all", "single"}
                               /\ pc[q] \notin {"begin", "absent"}
          BY <4>3, <4>4 DEF ProgressInv
        <5>2. q # p
          BY <3>1, <5>1
        <5> QED BY <4>1, <5>1, <5>2
      <4> QED BY <4>2, <4>4 DEF ProgressInv
    <3>2. CASE job[p] # "change"
      BY <3>2, ZenonT(40) DEF ProgressInv, JobInv, DeletePc, PimRecord, Job
    <3> QED BY <3>1, <3>2
  <2>3. PowerInv'
    BY DEF PowerInv, HardwareOK, AloneInv, JobInv, DeletePc, Job
  <2>4. RecordInv'
    BY ZenonT(40) DEF RecordInv, JobInv, DeletePc, PimRecord, HardwareOK
  <2>5. AloneInv'
    BY DEF AloneInv, JobInv, DeletePc, Job
  <2>6. GhostInv'
    <3>1. (excuse = "none" \/ alone)' /\ Good(p)
            => IF pc'[p] = "idle" THEN Fit' ELSE Good(p)'
      BY ZenonT(40) DEF Good, Fit, JobInv, DeletePc, RecordInv, PimRecord, Job
    <3>2. /\ pc[p] # "idle"
          /\ \A q \in Proc : q # p => pc'[q] = pc[q]
          /\ (excuse = "none" \/ alone)' => excuse = "none" \/ alone
      OBVIOUS
    <3> QED BY <3>1, <3>2, OthersIdle
  <2> QED BY <1>a, <2>1, <2>2, <2>3, <2>4, <2>5, <2>6 DEF IInv
<1>9. CASE ReadTree(p)
  <2> USE <1>9 DEF Step, ReadTree
  <2>1. JobInv'
    BY DEF JobInv, DeletePc
  <2>2. ProgressInv'
    BY DEF ProgressInv, JobInv, AloneInv, DeletePc, PimRecord, Job
  <2>3. PowerInv'
    BY DEF PowerInv, HardwareOK, AloneInv, JobInv, DeletePc, Job
  <2>4. RecordInv'
    BY DEF RecordInv, JobInv, DeletePc, PimRecord, HardwareOK
  <2>5. AloneInv'
    BY DEF AloneInv, JobInv, DeletePc, Job
  <2>6. GhostInv'
    <3>1. (excuse = "none" \/ alone)' /\ Good(p)
            => IF pc'[p] = "idle" THEN Fit' ELSE Good(p)'
      BY DEF Good, Fit, JobInv, DeletePc, RecordInv, PimRecord, Job
    <3>2. /\ pc[p] # "idle"
          /\ \A q \in Proc : q # p => pc'[q] = pc[q]
          /\ (excuse = "none" \/ alone)' => excuse = "none" \/ alone
      OBVIOUS
    <3> QED BY <3>1, <3>2, OthersIdle
  <2> QED BY <1>a, <2>1, <2>2, <2>3, <2>4, <2>5, <2>6 DEF IInv
<1>10. CASE ClearTree(p)
  <2> USE <1>10 DEF Step, ClearTree, Emptied, LoggedWrite
  <2>1. JobInv'
    BY DEF JobInv, DeletePc
  <2>2. ProgressInv'
    BY DEF ProgressInv, JobInv, AloneInv, DeletePc, PimRecord, Job
  <2>3. PowerInv'
    BY DEF PowerInv, HardwareOK, AloneInv, JobInv, DeletePc, Job
  <2>4. RecordInv'
    BY ZenonT(40) DEF RecordInv, JobInv, DeletePc, PimRecord, HardwareOK
  <2>5. AloneInv'
    BY DEF AloneInv, JobInv, DeletePc, Job
  <2>6. GhostInv'
    <3>1. (excuse = "none" \/ alone)' /\ Good(p)
            => IF pc'[p] = "idle" THEN Fit' ELSE Good(p)'
      BY DEF Good, Fit, JobInv, DeletePc, RecordInv, PimRecord, Job
    <3>2. /\ pc[p] # "idle"
          /\ \A q \in Proc : q # p => pc'[q] = pc[q]
          /\ (excuse = "none" \/ alone)' => excuse = "none" \/ alone
      OBVIOUS
    <3> QED BY <3>1, <3>2, OthersIdle
  <2> QED BY <1>a, <2>1, <2>2, <2>3, <2>4, <2>5, <2>6 DEF IInv
<1>11. CASE SetCompleted(p)
  <2> USE <1>11 DEF Step, SetCompleted, EndLogged, End
  <2>1. JobInv'
    BY DEF JobInv, DeletePc
  <2>2. ProgressInv'
    BY DEF ProgressInv, JobInv, AloneInv, DeletePc, PimRecord, Job
  <2>3. PowerInv'
    BY DEF PowerInv, HardwareOK, AloneInv, JobInv, DeletePc, Job
  <2>4. RecordInv'
    BY DEF RecordInv, JobInv, DeletePc, PimRecord, HardwareOK
  <2>5. AloneInv'
    BY DEF AloneInv, JobInv, DeletePc, Job
  <2>6. GhostInv'
    <3>1. (excuse = "none" \/ alone)' /\ Good(p)
            => IF pc'[p] = "idle" THEN Fit' ELSE Good(p)'
      BY DEF Good, Fit, JobInv, DeletePc, RecordInv, PimRecord, Job
    <3>2. /\ pc[p] # "idle"
          /\ \A q \in Proc : q # p => pc'[q] = pc[q]
          /\ (excuse = "none" \/ alone)' => excuse = "none" \/ alone
      OBVIOUS
    <3> QED BY <3>1, <3>2, OthersIdle
  <2> QED BY <1>a, <2>1, <2>2, <2>3, <2>4, <2>5, <2>6 DEF IInv
<1>12. CASE SetFailed(p)
  <2> USE <1>12 DEF Step, SetFailed, EndLogged, End, LoggedWrite
  <2>1. JobInv'
    BY DEF JobInv, DeletePc
  <2>2. ProgressInv'
    BY DEF ProgressInv, JobInv, AloneInv, DeletePc, PimRecord, Job
  <2>3. PowerInv'
    BY DEF PowerInv, HardwareOK, AloneInv, JobInv, DeletePc, Job
  <2>4. RecordInv'
    BY DEF RecordInv, JobInv, DeletePc, PimRecord, HardwareOK
  <2>5. AloneInv'
    BY DEF AloneInv, JobInv, DeletePc, Job
  <2>6. GhostInv'
    <3>1. (excuse = "none" \/ alone)' /\ Good(p)
            => IF pc'[p] = "idle" THEN Fit' ELSE Good(p)'
      BY DEF Good, Fit, JobInv, DeletePc, RecordInv, PimRecord, Job
    <3>2. /\ pc[p] # "idle"
          /\ \A q \in Proc : q # p => pc'[q] = pc[q]
          /\ (excuse = "none" \/ alone)' => excuse = "none" \/ alone
      OBVIOUS
    <3> QED BY <3>1, <3>2, OthersIdle
  <2> QED BY <1>a, <2>1, <2>2, <2>3, <2>4, <2>5, <2>6 DEF IInv
<1>13. CASE SetAbsent(p)
  <2> USE <1>13 DEF Step, SetAbsent, EndLogged, End
  <2>1. JobInv'
    BY DEF JobInv, DeletePc
  <2>2. ProgressInv'
    BY DEF ProgressInv, JobInv, AloneInv, DeletePc, PimRecord, Job
  <2>3. PowerInv'
    BY DEF PowerInv, HardwareOK, AloneInv, JobInv, DeletePc, Job
  <2>4. RecordInv'
    BY DEF RecordInv, JobInv, DeletePc, PimRecord, HardwareOK
  <2>5. AloneInv'
    BY DEF AloneInv, JobInv, DeletePc, Job
  <2>6. GhostInv'
    <3>1. (excuse = "none" \/ alone)' /\ Good(p)
            => IF pc'[p] = "idle" THEN Fit' ELSE Good(p)'
      BY DEF Good, Fit, JobInv, DeletePc, RecordInv, PimRecord, Job
    <3>2. /\ pc[p] # "idle"
          /\ \A q \in Proc : q # p => pc'[q] = pc[q]
          /\ (excuse = "none" \/ alone)' => excuse = "none" \/ alone
      OBVIOUS
    <3> QED BY <3>1, <3>2, OthersIdle
  <2> QED BY <1>a, <2>1, <2>2, <2>3, <2>4, <2>5, <2>6 DEF IInv
<1>14. CASE UnbindFirst(p)
  <2> USE <1>14 DEF Step, UnbindFirst
  <2>1. JobInv'
    BY DEF JobInv, DeletePc
  <2>2. ProgressInv'
    BY DEF ProgressInv, JobInv, AloneInv, DeletePc, PimRecord, Job
  <2>3. PowerInv'
    BY DEF PowerInv, HardwareOK, AloneInv, JobInv, DeletePc, Job
  <2>4. RecordInv'
    BY DEF RecordInv, JobInv, DeletePc, PimRecord, HardwareOK
  <2>5. AloneInv'
    BY DEF AloneInv, JobInv, DeletePc, Job
  <2>6. GhostInv'
    <3>1. (excuse = "none" \/ alone)' /\ Good(p)
            => IF pc'[p] = "idle" THEN Fit' ELSE Good(p)'
      BY DEF Good, Fit, JobInv, DeletePc, RecordInv, PimRecord, Job
    <3>2. /\ pc[p] # "idle"
          /\ \A q \in Proc : q # p => pc'[q] = pc[q]
          /\ (excuse = "none" \/ alone)' => excuse = "none" \/ alone
      OBVIOUS
    <3> QED BY <3>1, <3>2, OthersIdle
  <2> QED BY <1>a, <2>1, <2>2, <2>3, <2>4, <2>5, <2>6 DEF IInv
<1>15. CASE LineOff(p)
  <2> USE <1>15 DEF Step, LineOff, End
  <2>1. JobInv'
    BY DEF JobInv, DeletePc
  <2>2. ProgressInv'
    BY DEF ProgressInv, JobInv, AloneInv, DeletePc, PimRecord, Job
  <2>3. PowerInv'
    BY DEF PowerInv, HardwareOK, AloneInv, JobInv, DeletePc, Job
  <2>4. RecordInv'
    BY DEF RecordInv, JobInv, DeletePc, PimRecord, HardwareOK
  <2>5. AloneInv'
    BY DEF AloneInv, JobInv, DeletePc, Job
  <2>6. GhostInv'
    <3>1. (excuse = "none" \/ alone)' /\ Good(p)
            => IF pc'[p] = "idle" THEN Fit' ELSE Good(p)'
      BY DEF Good, Fit, JobInv, DeletePc, RecordInv, PimRecord, Job
    <3>2. /\ pc[p] # "idle"
          /\ \A q \in Proc : q # p => pc'[q] = pc[q]
          /\ (excuse = "none" \/ alone)' => excuse = "none" \/ alone
      OBVIOUS
    <3> QED BY <3>1, <3>2, OthersIdle
  <2> QED BY <1>a, <2>1, <2>2, <2>3, <2>4, <2>5, <2>6 DEF IInv
<1>16. CASE Unbind(p)
  <2> USE <1>16 DEF Step, Unbind, End
  <2>1. JobInv'
    BY DEF JobInv, DeletePc
  <2>2. ProgressInv'
    BY DEF ProgressInv, JobInv, AloneInv, DeletePc, PimRecord, Job
  <2>3. PowerInv'
    BY DEF PowerInv, HardwareOK, AloneInv, JobInv, DeletePc, Job
  <2>4. RecordInv'
    BY DEF RecordInv, JobInv, DeletePc, PimRecord, HardwareOK
  <2>5. AloneInv'
    BY DEF AloneInv, JobInv, DeletePc, Job
  <2>6. GhostInv'
    <3>1. (excuse = "none" \/ alone)' /\ Good(p)
            => IF pc'[p] = "idle" THEN Fit' ELSE Good(p)'
      BY DEF Good, Fit, JobInv, DeletePc, RecordInv, PimRecord, Job
    <3>2. /\ pc[p] # "idle"
          /\ \A q \in Proc : q # p => pc'[q] = pc[q]
          /\ (excuse = "none" \/ alone)' => excuse = "none" \/ alone
      OBVIOUS
    <3> QED BY <3>1, <3>2, OthersIdle
  <2> QED BY <1>a, <2>1, <2>2, <2>3, <2>4, <2>5, <2>6 DEF IInv
<1> QED
  BY <1>1, <1>2, <1>3, <1>4, <1>5, <1>6, <1>7, <1>8, <1>9, <1>10, <1>11,
     <1>12, <1>13, <1>14, <1>15, <1>16 DEF Step

(* A job that starts: it has the FRU for itself, or this is a race.        *)
LEMMA StartKeeps ==
  ASSUME IInv, NEW p \in Proc, NEW j \in Job, NEW first \in Pc,
         Start(p, j, first),
         pc[p] = "idle",
         UNCHANGED <<kind, hwVars, pim>>,
         \/ j = "all" /\ p = "thread" /\ first = "begin"
         \/ j = "single" /\ p = "io" /\ first = "begin"
         \/ j = "change" /\ p = "io" /\ first \in {"presence", "bind"}
         \/ j = "delete" /\ p = "io" /\ first \in {"delete", "unbindFirst"},
         j = "change" /\ first = "bind" => ~HasPin,
         j = "change" /\ excuse = "none" /\ Quiet /\ Expected' => Fit
  PROVE  /\ JobInv' /\ ProgressInv' /\ PowerInv'
         /\ RecordInv' /\ AloneInv' /\ GhostInv'
<1>0. /\ ControlOK /\ HistoryOK
      /\ JobInv /\ ProgressInv /\ PowerInv /\ RecordInv /\ AloneInv /\ GhostInv
  BY DEF IInv, TypeOK
<1> USE <1>0 DEF ControlOK, HistoryOK, Excuse, Proc, Start
<1>1. JobInv'
  BY DEF JobInv, DeletePc
<1>2. ProgressInv'
  BY DEF ProgressInv, JobInv
<1>3. PowerInv'
  BY DEF PowerInv
<1>4. RecordInv'
  BY DEF RecordInv
<1>5. AloneInv'
  BY DEF AloneInv
<1>6. GhostInv'
  <2>1. CASE Quiet
    <3>1. \A q \in Proc : q # p => pc'[q] = "idle"
      BY <2>1
    <3>2. pc'[p] = first /\ job'[p] = j /\ first # "idle"
      OBVIOUS
    <3>3. (excuse = "none" \/ alone)' /\ Expected' => Good(p)'
      BY <2>1, <3>2 DEF Good, Fit, AloneInv
    <3> QED BY <3>1, <3>2, <3>3 DEF GhostInv
  <2>2. CASE ~Quiet
    <3>1. excuse' # "none" /\ ~alone'
      BY <2>2
    <3> QED BY <3>1 DEF GhostInv
  <2> QED BY <2>1, <2>2
<1> QED BY <1>1, <1>2, <1>3, <1>4, <1>5, <1>6

(* A step in which nothing happens, as when the host runs and the FRU may  *)
(* not be replaced, keeps the invariant.                                   *)
LEMMA StutterKeeps ==
  ASSUME IInv, UNCHANGED vars
  PROVE  IInv'
<1> USE DEF vars
<1>1. TypeOK'
  BY TypeInductive DEF IInv
<1>2. JobInv' /\ ProgressInv' /\ PowerInv' /\ RecordInv' /\ AloneInv'
  BY DEF IInv, JobInv, ProgressInv, PowerInv, RecordInv, AloneInv
<1>3. GhostInv'
  BY DEF IInv, GhostInv, Good, Fit, Expected
<1> QED BY <1>1, <1>2, <1>3 DEF IInv

(* A part comes or goes.  The record still fits what it is expected to     *)
(* fit: nothing was in the slot before, or a deletion is to follow.        *)
LEMMA SlotChangeKeeps ==
  ASSUME IInv, SlotChange
  PROVE  /\ JobInv' /\ ProgressInv' /\ PowerInv'
         /\ RecordInv' /\ AloneInv' /\ GhostInv'
<1>0. /\ HardwareOK /\ ControlOK /\ HistoryOK /\ pim \in PimRecord
      /\ JobInv /\ ProgressInv /\ PowerInv /\ RecordInv /\ AloneInv /\ GhostInv
  BY DEF IInv, TypeOK
<1>1. PICK new \in Part \cup {NoPart} :
        /\ (new = NoPart) = Plugged
        /\ slot' = new
        /\ IF kind = "monitored"
           THEN /\ Len(signals) < MaxSignals
                /\ signals' = Append(signals, new # NoPart)
                /\ pim' = [pim EXCEPT !.present = (new # NoPart)]
           ELSE UNCHANGED <<signals, pim>>
        /\ excuse' = IF kind = "polled" /\ (new # NoPart) = prev
                     THEN Raced ELSE excuse
  BY Zenon DEF SlotChange
<1>2. /\ UNCHANGED <<kind, line, bound, prev, ctlVars, used>>
      /\ noticed' = FALSE /\ alone' = FALSE
  BY DEF SlotChange
<1>3. /\ pim'.vpd = pim.vpd /\ pim'.ccin = pim.ccin
      /\ pim'.status = pim.status
      /\ HandlesPresence => pim'.present = pim.present
  BY <1>0, <1>1 DEF PimRecord
<1>4. excuse' = "none" => excuse = "none"
  BY <1>1
<1>5. excuse' # "fault" => excuse # "fault"
  BY <1>1
<1>6. JobInv' /\ AloneInv'
  BY <1>0, <1>2, <1>4 DEF JobInv, AloneInv
<1>7. ProgressInv' /\ PowerInv'
  BY <1>0, <1>2, <1>3, <1>5 DEF ProgressInv, PowerInv
<1>8. RecordInv'
  BY <1>0, <1>2, <1>3 DEF RecordInv
<1>9. ASSUME excuse' = "none", Expected'
      PROVE  Expected /\ slot = NoPart
  <2>1. CASE kind = "polled"
    BY <1>0, <1>1, <1>2, <1>9, <2>1 DEF Expected, HardwareOK
  <2>2. CASE kind = "monitored"
    <3>1. signals' = Append(signals, new # NoPart) /\ signals \in Seq(BOOLEAN)
      BY <1>0, <1>1, <2>2 DEF HardwareOK
    <3>2. \A i \in DOMAIN signals' : signals'[i] # FALSE
      BY <1>2, <1>9, <2>2 DEF Expected
    <3>3. /\ \A i \in DOMAIN signals : signals[i] # FALSE
          /\ (new # NoPart) # FALSE
      <4> DEFINE b == new # NoPart
                 no == FALSE
                 Bool == BOOLEAN
      <4>1. /\ signals' = Append(signals, b)
            /\ b \in Bool /\ signals \in Seq(Bool)
        BY <3>1
      <4>2. \A i \in DOMAIN signals' : signals'[i] # no
        BY <3>2
      <4>3. (\A i \in DOMAIN signals : signals[i] # no) /\ b # no
        <5> HIDE DEF b, no, Bool
        <5>1. \A i \in DOMAIN Append(signals, b) : Append(signals, b)[i] # no
          BY <4>1, <4>2, Zenon
        <5> QED BY <4>1, <5>1, AbsentAfterAppend
      <4> QED BY <4>3
    <3> QED BY <1>1, <2>2, <3>3 DEF Expected
  <2>3. CASE kind \notin {"polled", "monitored"}
    BY <1>2, <1>9, <2>3 DEF Expected
  <2> QED BY <2>1, <2>2, <2>3
<1>10. GhostInv'
  <2>1. ASSUME excuse' = "none", Expected', Quiet'
        PROVE  Fit'
    <3>1. Fit /\ slot = NoPart
      BY <1>0, <1>2, <1>4, <1>9, <2>1 DEF GhostInv
    <3> QED BY <1>3, <3>1 DEF Fit
  <2>2. ASSUME excuse' = "none", Expected', NEW p \in Proc, pc'[p] # "idle"
        PROVE  Good(p)'
    <3>1. Good(p) /\ slot = NoPart
      BY <1>0, <1>2, <1>4, <1>9, <2>2 DEF GhostInv
    <3>2. pc[p] # "publish"
      BY <1>0, <3>1 DEF Good, RecordInv
    <3> QED BY <1>2, <1>3, <3>1, <3>2 DEF Good, Fit
  <2> QED BY <1>2, <2>1, <2>2 DEF GhostInv
<1> QED BY <1>6, <1>7, <1>8, <1>10

(* Every event and every step keep the invariant; a poll or a signal takes *)
(* away what made the record wait only by starting the job that sets it    *)
(* right.                                                                  *)
LEMMA NextKeeps ==
  ASSUME IInv, [Next]_vars
  PROVE  IInv'
<1>a. TypeOK'
  BY TypeInductive DEF IInv
<1>b. /\ "io" \in Proc /\ "thread" \in Proc
      /\ {"all", "single", "change", "delete"} \subseteq Job
      /\ {"begin", "presence", "bind", "delete", "unbindFirst"} \subseteq Pc
      /\ FirstOfDelete \in {"delete", "unbindFirst"}
  BY DEF Proc, Job, Pc, FirstOfDelete
<1>c. ASSUME Start("io", "single", "begin"), pc["io"] = "idle",
             UNCHANGED <<kind, hwVars, pim>>
      PROVE  IInv'
  BY <1>a, <1>b, <1>c, StartKeeps DEF IInv
<1>d. ASSUME Start("io", "delete", FirstOfDelete), pc["io"] = "idle",
             UNCHANGED <<kind, hwVars, pim>>
      PROVE  IInv'
  BY <1>a, <1>b, <1>d, StartKeeps DEF IInv
<1>1. CASE CollectAll
  BY <1>1, <1>a, <1>b, StartKeeps DEF CollectAll, IInv
<1>2. CASE CollectFruVpd
  <2>1. CASE Start("io", "single", "begin")
    BY <1>2, <1>c, <2>1 DEF CollectFruVpd
  <2>2. CASE UNCHANGED <<ctlVars, histVars>>
    BY <1>2, <2>2, StutterKeeps DEF CollectFruVpd, vars
  <2> QED BY <1>2, <2>1, <2>2 DEF CollectFruVpd, CollectSingle
<1>3. CASE DeleteFruVpd
  BY <1>3, <1>d DEF DeleteFruVpd
<1>4. CASE HandleTimerExpiry
  <2>1. PICK value \in {Plugged, TRUE} :
          value # prev /\ prev' = value /\ HandleChangeInGpioPin(value)
    BY <1>4 DEF HandleTimerExpiry
  <2>2. /\ kind = "polled" /\ pc["io"] = "idle"
        /\ UNCHANGED <<kind, hwVars, pim>>
    BY <1>4 DEF HandleTimerExpiry
  <2>3. CASE value = TRUE
    <3>1. Start("io", "change", "presence")
      BY <2>1, <2>2, <2>3 DEF HandleChangeInGpioPin, FirstOfCollect
    <3>2. Expected
      BY <2>1, <2>2, <2>3 DEF Expected, IInv, TypeOK, HardwareOK
    <3>3. excuse = "none" /\ Quiet => Fit
      BY <3>2 DEF IInv, GhostInv
    <3> QED BY <1>a, <1>b, <2>2, <3>1, <3>3, StartKeeps DEF IInv
  <2>4. CASE value = FALSE
    BY <1>d, <2>1, <2>2, <2>4 DEF HandleChangeInGpioPin
  <2> QED BY <2>1, <2>3, <2>4
<1>5. CASE PresentPropertyChange
  <2>1. CASE Start("io", "single", "begin")
    BY <1>5, <1>c, <2>1 DEF PresentPropertyChange
  <2>2. CASE Start("io", "delete", FirstOfDelete)
    BY <1>5, <1>d, <2>2 DEF PresentPropertyChange
  <2>3. CASE Head(signals) /\ UNCHANGED <<ctlVars, histVars>>
    <3>1. /\ signals # <<>> /\ signals' = Tail(signals)
          /\ UNCHANGED <<kind, hwVars, prev, pim>>
      BY <1>5 DEF PresentPropertyChange
    <3>2. signals \in Seq(BOOLEAN)
      BY DEF IInv, TypeOK, HardwareOK
    <3>3. (\A i \in DOMAIN signals' : signals'[i] # FALSE)
            => \A i \in DOMAIN signals : signals[i] # FALSE
      <4>1. Head(signals) # FALSE
        BY <2>3
      <4> QED BY <3>1, <3>2, <4>1, AbsentBeforeTail, Zenon
    <3>4. Expected' => Expected
      BY <2>3, <3>1, <3>3 DEF Expected
    <3>5. JobInv' /\ ProgressInv' /\ PowerInv' /\ RecordInv' /\ AloneInv'
      BY <2>3, <3>1, ZenonT(40)
         DEF IInv, JobInv, ProgressInv, PowerInv, RecordInv, AloneInv
    <3>6. GhostInv'
      BY <2>3, <3>1, <3>4 DEF IInv, GhostInv, Good, Fit
    <3> QED BY <1>a, <3>5, <3>6 DEF IInv
  <2> QED BY <1>5, <2>1, <2>2, <2>3 DEF PresentPropertyChange, CollectSingle
<1>6. CASE HostStateChange
  <2>1. CASE Start("io", "single", "begin")
    BY <1>6, <1>c, <2>1 DEF HostStateChange
  <2>2. CASE UNCHANGED <<ctlVars, histVars>>
    BY <1>6, <2>2, StutterKeeps DEF HostStateChange, vars
  <2> QED
    BY <1>6, <2>1, <2>2
       DEF HostStateChange, PerformVpdRecollection, CollectSingle
<1>7. CASE \E p \in Proc : Step(p)
  BY <1>7, StepKeeps
<1>8. CASE SlotChange
  BY <1>8, <1>a, SlotChangeKeeps DEF IInv
<1>9. CASE Restart
  <2>1. JobInv' /\ ProgressInv' /\ PowerInv' /\ AloneInv' /\ GhostInv'
    BY <1>9 DEF Restart, JobInv, ProgressInv, PowerInv, AloneInv, GhostInv
  <2>2. RecordInv'
    BY <1>9 DEF Restart, RecordInv, IInv
  <2> QED BY <1>a, <2>1, <2>2 DEF IInv
<1>10. CASE UNCHANGED vars
  BY <1>10, StutterKeeps
<1> QED
  BY <1>1, <1>2, <1>3, <1>4, <1>5, <1>6, <1>7, <1>8, <1>9, <1>10 DEF Next

(* The inductive invariant of the specification.                           *)
LEMMA MaintenanceInductive == Spec => []IInv
<1>1. Init => IInv
  <2> SUFFICES ASSUME Init PROVE IInv
    OBVIOUS
  <2>1. TypeOK
    BY InitTypeOK
  <2>2. /\ pc = [p \in Proc |-> "idle"] /\ job = [p \in Proc |-> "none"]
        /\ alone = FALSE /\ line = ~HasPin
        /\ "io" \in Proc /\ "thread" \in Proc
    BY DEF Init, Proc
  <2>3. JobInv /\ PowerInv /\ AloneInv
    BY <2>2 DEF JobInv, DeletePc, PowerInv, AloneInv
  <2>4. PICK p \in Part \cup {NoPart} :
          pim = [Record(p, IF p = NoPart THEN "NotStarted" ELSE "Completed")
                  EXCEPT !.present = IF HandlesPresence THEN @ ELSE Plugged]
    BY DEF Init
  <2>5. /\ pim.status # "InProgress"
        /\ pim.ccin => pim.vpd # NoPart
        /\ pim.present /\ HandlesPresence => pim.vpd # NoPart
    BY <2>4 DEF Record
  <2>6. ProgressInv /\ RecordInv
    BY <2>2, <2>5 DEF ProgressInv, RecordInv
  <2>7. GhostInv
    BY <2>2 DEF GhostInv, Fit, Init
  <2> QED BY <2>1, <2>3, <2>6, <2>7 DEF IInv
<1>2. IInv /\ [Next]_vars => IInv'
  BY NextKeeps
<1> QED BY <1>1, <1>2, PTL DEF Spec

(* Once every change of the slot has been handled, the record describes no *)
(* part that is not there (worker.cpp, gpio_monitor.cpp and listener.cpp): *)
(* for any number of parts and of signals that wait.                       *)
THEOREM NoGhostStays == Spec => []NoGhost
<1>1. IInv => NoGhost
  <2> SUFFICES ASSUME IInv, Quiet, UpToDate, excuse = "none"
               PROVE  /\ pim.vpd \in {slot, NoPart}
                      /\ pim.ccin => Plugged
                      /\ HandlesPresence /\ pim.present => Plugged
    BY DEF NoGhost
  <2>1. Expected
    <3>1. CASE kind = "polled"
      BY <3>1 DEF UpToDate, Expected
    <3>2. CASE kind = "monitored"
      <4>1. signals = <<>>
        BY <3>2 DEF UpToDate
      <4>2. DOMAIN signals = {}
        BY <4>1
      <4> QED BY <3>2, <4>2 DEF Expected
    <3>3. CASE kind = "slot"
      BY <3>3 DEF UpToDate, Expected
    <3> QED BY <3>1, <3>2, <3>3 DEF IInv, TypeOK, HardwareOK, FruKind
  <2>2. Fit
    BY <2>1 DEF IInv, GhostInv
  <2> QED BY <2>2 DEF IInv, RecordInv, Fit
<1> QED BY <1>1, MaintenanceInductive, PTL

(* Two flows on one FRU never leave it InProgress, whatever their order.   *)
THEOREM ProgressAlwaysEnds == Spec => []ProgressEnds
<1>1. IInv => ProgressEnds
  BY DEF IInv, ProgressInv, JobInv, ProgressEnds
<1> QED BY <1>1, MaintenanceInductive, PTL

(* No path through a collection or a deletion leaves an unused slot on     *)
(* (preAction, postFailAction and postAction of worker.cpp).               *)
THEOREM NoPowerStaysOn == Spec => []NoPowerLeftOn
<1>1. IInv => NoPowerLeftOn
  BY DEF IInv, PowerInv, NoPowerLeftOn
<1> QED BY <1>1, MaintenanceInductive, PTL
=============================================================================

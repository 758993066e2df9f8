-------------------------- MODULE SystemStartProofs --------------------------
(***************************************************************************)
(* Proofs of what the run system_start checks, for every set of IM values, *)
(* every limit of polls and every set of faults.                           *)
(***************************************************************************)
EXTENDS SystemStart, TLAPS

(* Where the manager has read the planar and chosen the JSON for it.       *)
Chosen == {"setenv", "reboot", "symlink", "create", "worker", "publish"}

(* Where it has found the device tree to be in the environment.            *)
TreeSet == {"symlink", "create", "worker", "publish"}

(* The process has just begun, or there is none.                           *)
Fresh == {"start", "down", "stopped", "off"}

(* The process: what it has chosen and opened fits the planar.             *)
ProcessInv ==
  /\ mgr \in Chosen => json = planar /\ planar # NoIm
  /\ mgr \in TreeSet => fitconfig = planar
  /\ mgr = "worker" => link = planar
  /\ worker # None => /\ mgr \in {"publish", "up"}
                      /\ worker = planar
                      /\ fitconfig = planar
  /\ status # "NotStarted" => mgr = "up"
  /\ byLink => ~dangling /\ mgr \notin Fresh
  /\ tool \in {"unlink", "forget", "start"} => mgr = "stopped"

TreeInv == tree = fitconfig \/ "tree" \in excused

(* The planar fits itself, as published, and no persisted IM at all.       *)
FitsItself ==
  /\ ~Refused(planar, planar, field, powerVs)
  /\ ~Refused(planar, NoIm, field, powerVs)

(* It fits what is persisted, too, once the system was started.            *)
ImInv ==
  /\ persisted \in OtherIm => planar \in OtherIm \cup {NoIm}
  /\ SingleFabBuild /\ "im" \notin excused /\ "misread" \notin excused =>
       /\ started \/ mgr \in Phase \ {"start"} => FitsItself
       /\ started => ~Refused(planar, persisted, field, powerVs)

(* Nothing that nobody saw went wrong with the environment: a device tree  *)
(* the BMC was rebooted for is in it, and a reboot is for a new one.       *)
EnvInv ==
  /\ planar \in rebootedFor => fitconfig = planar
  /\ mgr = "setenv" => fitconfig # planar
  /\ mgr = "reboot" => fitconfig = planar /\ json \notin rebootedFor

RebootInv ==
  /\ rebootedFor \subseteq P10Im \cup {planar}
  /\ planar \in P10Im => rebootedFor \subseteq {planar}
  /\ "env" \notin excused => EnvInv

(* The client: an old Completed is seen only as long as its request waits. *)
ClientInv ==
  /\ wait = "ok" => completed
  /\ wait = "poll" => polls > 0
  /\ wait = "poll" /\ status = "Completed" => completed \/ "wait" \in requests

IInv ==
  TypeOK /\ ProcessInv /\ TreeInv /\ ImInv /\ RebootInv /\ ClientInv

USE DEF Json, None, Goto, Fault, files, around, process, setupHist, setupVars,
        startVars, vars

(* Whatever planar, mode, image and device tree the BMC first starts with. *)
LEMMA InitInv == Init => IInv
<1> SUFFICES ASSUME Init PROVE IInv
  OBVIOUS
<1> USE SingleFabAssumption, PollAssumption DEF Init, SetupInit
<1>1. TypeOK
  <2>1. FilesOK /\ AroundOK /\ ProcessOK /\ HistoryOK
    BY DEF FilesOK, AroundOK, ProcessOK, HistoryOK, MgrState, Phase
  <2>2. polls \in 0 .. MaxPolls
    BY SMT
  <2>3. ClientOK
    BY <2>2 DEF ClientOK, WaitPc, ToolPc
  <2> QED BY <2>1, <2>3 DEF TypeOK, SetupTypeOK
<1>2. ProcessInv /\ TreeInv /\ ClientInv
  BY DEF ProcessInv, TreeInv, ClientInv, Chosen, TreeSet, Fresh
<1>3. ImInv /\ RebootInv
  BY DEF ImInv, RebootInv, EnvInv, Im, Phase
<1> QED BY <1>1, <1>2, <1>3 DEF IInv

(* A planar that is not refused is not refused after the override either,  *)
(* whether it is then compared with itself, as published, with what was    *)
(* persisted before, or with nothing.                                      *)
LEMMA OverrideFits ==
  ASSUME NEW p \in Im, NEW e \in Im \cup {NoIm}, NEW f, NEW v,
         ~Refused(p, e, f, v),
         e \in OtherIm => p \in OtherIm
  PROVE  /\ ~Refused(Overridden(p, e, f, v), Overridden(p, e, f, v), f, v)
         /\ ~Refused(Overridden(p, e, f, v), e, f, v)
         /\ ~Refused(Overridden(p, e, f, v), NoIm, f, v)
<1> USE SingleFabAssumption DEF Im
<1>1. CASE Converted(p, e, f, v)
  <2>1. Overridden(p, e, f, v) = ToP11[p] /\ ToP11[p] \in P11Im
    BY <1>1 DEF Overridden, Converted
  <2>2. ~v /\ e \in P11Im \cup {NoIm}
    BY <1>1 DEF Converted
  <2> QED BY <2>1, <2>2 DEF Refused
<1>2. CASE ~Converted(p, e, f, v)
  <2>1. Overridden(p, e, f, v) = p
    BY <1>2 DEF Overridden
  <2> QED BY <1>2, <2>1 DEF Refused, Converted
<1> QED BY <1>1, <1>2

(* A persisted IM that cannot be read is taken for none: a planar that is  *)
(* not refused then fits what is persisted after the override, if it did   *)
(* before, and it does not matter that it was not compared.                *)
LEMMA MisreadFits ==
  ASSUME NEW p \in Im, NEW e \in Im \cup {NoIm}, NEW f, NEW v,
         ~Refused(p, NoIm, f, v), ~Refused(p, e, f, v),
         e \in OtherIm => p \in OtherIm
  PROVE  ~Refused(Overridden(p, NoIm, f, v), e, f, v)
<1> USE SingleFabAssumption DEF Im
<1>1. CASE Converted(p, NoIm, f, v)
  <2>1. Overridden(p, NoIm, f, v) = ToP11[p] /\ ToP11[p] \in P11Im
    BY <1>1 DEF Overridden, Converted
  <2>2. ~v /\ f /\ e \notin P10Im
    BY <1>1 DEF Converted, Refused
  <2> QED BY <2>1, <2>2 DEF Refused
<1>2. CASE ~Converted(p, NoIm, f, v)
  <2>1. Overridden(p, NoIm, f, v) = p
    BY <1>2 DEF Overridden
  <2> QED BY <2>1
<1> QED BY <1>1, <1>2

(* The steps of the setup (manager.cpp and worker.cpp), one by one: a step *)
(* that reboots the BMC stops every other process with it.                 *)
LEMMA SetupKeeps ==
  ASSUME IInv, SetupStep, IF mgr' = "off" THEN AllStop ELSE UNCHANGED startVars
  PROVE  IInv'
<1>1. CASE SingleFabImOverride
  <2> USE SingleFabAssumption DEF IInv
  <2>1. /\ mgr = "start"
        /\ UNCHANGED <<persisted, link, dangling, fitconfig, tree, around,
                       process, rebootedFor, started, startVars>>
        /\ mgr' \in {"down", "setup"}
        /\ excused \subseteq excused'
        /\ excused' \subseteq excused \cup {"im", "misread"}
        /\ planar' = planar \/ (planar \in P10Im /\ planar' \in P11Im)
    BY <1>1 DEF SingleFabImOverride, OverrideWith, Overridden, Converted
  <2>2. TypeOK'
    <3>1. FilesOK' /\ AroundOK'
      BY <2>1 DEF TypeOK, SetupTypeOK, FilesOK, AroundOK, Im
    <3>2. ProcessOK' /\ HistoryOK'
      BY <2>1 DEF TypeOK, SetupTypeOK, ProcessOK, HistoryOK, MgrState, Phase,
         ExcuseNames
    <3>3. ClientOK'
      BY <2>1 DEF TypeOK, ClientOK
    <3> QED BY <3>1, <3>2, <3>3 DEF TypeOK, SetupTypeOK
  <2>3. ProcessInv'
    BY <2>1 DEF ProcessInv, Chosen, TreeSet, Fresh
  <2>4. TreeInv' /\ ClientInv'
    BY <2>1 DEF TreeInv, ClientInv
  <2>5. ImInv'
    <3>1. persisted' \in OtherIm => planar' \in OtherIm \cup {NoIm}
      BY <2>1 DEF ImInv, Im
    <3> SUFFICES ASSUME SingleFabBuild, "im" \notin excused',
                        "misread" \notin excused'
                 PROVE  /\ started' \/ mgr' = "setup" => FitsItself'
                        /\ started'
                             => ~Refused(planar', persisted', field', powerVs')
      BY <3>1, <2>1 DEF ImInv, Phase
    <3>2. "im" \notin excused /\ "misread" \notin excused
      BY <2>1
    <3>3. CASE mgr' = "down"
      <4>1. planar' = planar
        BY <1>1, <3>3 DEF SingleFabImOverride, OverrideWith
      <4> QED BY <2>1, <3>2, <3>3, <4>1 DEF ImInv, FitsItself
    <3>4. CASE mgr' = "setup"
      <4>1. ~chassisOn
        BY <1>1, <3>4 DEF SingleFabImOverride
      <4>2. PICK ebmc \in ReadPersisted, f \in ReadFieldMode,
                 v \in ReadPowerVs : OverrideWith(ebmc, f, v)
        BY <1>1, <4>1 DEF SingleFabImOverride
      <4>3. /\ planar # NoIm
            /\ ~Refused(planar, ebmc, f, v)
            /\ planar' = Overridden(planar, ebmc, f, v)
            /\ <<f, v>> = <<field, powerVs>>
        BY <3>4, <4>2 DEF OverrideWith
      <4>4. f = field /\ v = powerVs /\ ebmc \in {persisted, NoIm}
        BY <4>3 DEF ReadPersisted
      <4>5. planar \in Im /\ persisted \in Im \cup {NoIm}
        BY <4>3 DEF TypeOK, SetupTypeOK, FilesOK
      <4>6. persisted \in OtherIm => planar \in OtherIm
        BY <4>3 DEF ImInv
      <4>7. ebmc \in Im \cup {NoIm} /\ (ebmc \in OtherIm => planar \in OtherIm)
        BY <4>4, <4>5, <4>6 DEF Im
      <4>8. FitsItself'
        <5>1. UNCHANGED <<field, powerVs>>
          BY <2>1
        <5> QED BY <4>3, <4>4, <4>5, <4>7, <5>1, OverrideFits DEF FitsItself
      <4>9. ASSUME started
            PROVE  ~Refused(planar', persisted', field', powerVs')
        <5>1. UNCHANGED <<field, powerVs, persisted>>
          BY <2>1
        <5>2. CASE ebmc = persisted
          BY <4>3, <4>4, <4>5, <4>6, <5>1, <5>2, OverrideFits
        <5>3. CASE ebmc = NoIm
          <6>1. ~Refused(planar, persisted, field, powerVs)
            BY <3>2, <4>9 DEF ImInv
          <6> QED BY <4>3, <4>4, <4>5, <4>6, <5>1, <5>3, <6>1, MisreadFits
        <5> QED BY <4>4, <5>2, <5>3
      <4> QED BY <2>1, <4>8, <4>9
    <3> QED BY <2>1, <3>3, <3>4
  <2>6. RebootInv'
    <3>1. "env" \in excused' <=> "env" \in excused
      BY <2>1
    <3>2. /\ rebootedFor' \subseteq P10Im \cup {planar'}
          /\ planar' \in P10Im => rebootedFor' \subseteq {planar'}
      BY <2>1 DEF RebootInv, Im
    <3>3. EnvInv => EnvInv'
      BY <2>1 DEF RebootInv, EnvInv, Im
    <3> QED BY <3>1, <3>2, <3>3 DEF RebootInv
  <2> QED BY <2>2, <2>3, <2>4, <2>5, <2>6
<1>2. CASE SetDeviceTreeAndJson
  <2> USE SingleFabAssumption DEF IInv
  <2>1. /\ mgr = "setup"
        /\ UNCHANGED <<files, around, worker, status, rebootedFor, started,
                       startVars>>
        /\ byLink' = (link # None /\ ~dangling)
    BY <1>2 DEF SetDeviceTreeAndJson, Fail
  <2>2. \/ /\ mgr' = "up"
           /\ UNCHANGED <<json, excused>>
        \/ /\ mgr' = "symlink"
           /\ planar # NoIm /\ json' = planar /\ fitconfig = planar
           /\ excused' = excused \ {"env"}
        \/ /\ mgr' = "setenv"
           /\ planar # NoIm /\ json' = planar
           /\ \/ excused' = excused /\ fitconfig # planar
              \/ excused' = excused \cup {"env"}
    BY <1>2 DEF SetDeviceTreeAndJson, Fail, ReadFitConfig
  <2>3. TypeOK'
    <3>1. FilesOK' /\ AroundOK' /\ ClientOK'
      BY <2>1, <2>2 DEF TypeOK, SetupTypeOK, FilesOK, AroundOK, ClientOK
    <3>2. json' \in Json \cup {None} /\ mgr' \in MgrState
      BY <2>2 DEF TypeOK, SetupTypeOK, FilesOK, ProcessOK, MgrState, Phase
    <3>3. ProcessOK'
      BY <2>1, <3>2 DEF TypeOK, SetupTypeOK, ProcessOK
    <3>4. HistoryOK'
      BY <2>1, <2>2 DEF TypeOK, SetupTypeOK, HistoryOK, ExcuseNames
    <3> QED BY <3>1, <3>3, <3>4 DEF TypeOK, SetupTypeOK
  <2>4. ProcessInv'
    BY <2>1, <2>2 DEF ProcessInv, Chosen, TreeSet, Fresh
  <2>5. TreeInv' /\ ClientInv'
    BY <2>1, <2>2 DEF TreeInv, ClientInv
  <2>6. ImInv'
    BY <2>1, <2>2 DEF ImInv, FitsItself, Phase
  <2>7. RebootInv'
    BY <2>1, <2>2 DEF RebootInv, EnvInv
  <2> QED BY <2>3, <2>4, <2>5, <2>6, <2>7
<1>3. CASE SetEnv
  <2> USE SingleFabAssumption DEF IInv
  <2>1. /\ mgr = "setenv"
        /\ UNCHANGED <<planar, persisted, link, dangling, tree, around,
                       process, rebootedFor, started, startVars>>
    BY <1>3 DEF SetEnv, Fail
  <2>2. \/ /\ mgr' = "reboot"
           /\ fitconfig' = json
           /\ excused' = excused \cup {"tree"}
        \/ /\ mgr' = "reboot"
           /\ UNCHANGED fitconfig
           /\ excused' = excused \cup {"env"}
        \/ /\ mgr' = "up"
           /\ UNCHANGED <<fitconfig, excused>>
    BY <1>3 DEF SetEnv, FwSetenv, Fail
  <2>3. json = planar /\ planar # NoIm
    BY <2>1 DEF ProcessInv, Chosen
  <2>4. TypeOK'
    <3>1. FilesOK' /\ AroundOK' /\ ClientOK'
      BY <2>1, <2>2, <2>3 DEF TypeOK, SetupTypeOK, FilesOK, AroundOK, ClientOK
    <3>2. ProcessOK' /\ HistoryOK'
      BY <2>1, <2>2 DEF TypeOK, SetupTypeOK, ProcessOK, HistoryOK, MgrState,
         Phase, ExcuseNames
    <3> QED BY <3>1, <3>2 DEF TypeOK, SetupTypeOK
  <2>5. ProcessInv'
    BY <2>1, <2>2 DEF ProcessInv, Chosen, TreeSet, Fresh
  <2>6. TreeInv' /\ ClientInv'
    BY <2>1, <2>2 DEF TreeInv, ClientInv
  <2>7. ImInv'
    BY <2>1, <2>2 DEF ImInv, FitsItself, Phase
  <2>8. RebootInv'
    BY <2>1, <2>2, <2>3 DEF RebootInv, EnvInv
  <2> QED BY <2>4, <2>5, <2>6, <2>7, <2>8
<1>4. CASE RebootForDeviceTree
  <2> USE <1>4, SingleFabAssumption, PollAssumption DEF IInv,
     RebootForDeviceTree, NewProcess, AllStop, Fail
  <2>1. TypeOK'
    <3>1. FilesOK'
      BY DEF TypeOK, SetupTypeOK, FilesOK, ProcessInv, Chosen, Im
    <3>2. AroundOK'
      BY DEF TypeOK, SetupTypeOK, AroundOK
    <3>3. ProcessOK'
      BY DEF TypeOK, SetupTypeOK, ProcessOK, FilesOK, ProcessInv, Chosen,
         MgrState, Phase
    <3>4. HistoryOK'
      BY DEF TypeOK, SetupTypeOK, HistoryOK, ExcuseNames, FilesOK, ProcessOK,
         ProcessInv, Chosen
    <3>5. ClientOK'
      <4>1. polls' \in 0 .. MaxPolls
        BY SMT DEF TypeOK, ClientOK
      <4> QED BY <4>1 DEF TypeOK, ClientOK, Client, WaitPc, ToolPc, MgrState
    <3> QED BY <3>1, <3>2, <3>3, <3>4, <3>5 DEF TypeOK, SetupTypeOK
  <2>2. ProcessInv'
    BY DEF ProcessInv, TypeOK, SetupTypeOK, FilesOK, AroundOK, ProcessOK,
       HistoryOK, ClientOK, Chosen, TreeSet, Fresh
  <2>3. TreeInv'
    BY DEF TreeInv, ProcessInv
  <2>4. ImInv'
    BY DEF ImInv, FitsItself, Phase, ProcessInv, Chosen
  <2>5. RebootInv'
    BY DEF RebootInv, EnvInv, ProcessInv, Chosen, TreeSet
  <2>6. ClientInv'
    BY DEF ClientInv, TypeOK, SetupTypeOK, FilesOK, AroundOK, ProcessOK,
       HistoryOK, ClientOK, ProcessInv
  <2> QED BY <2>1, <2>2, <2>3, <2>4, <2>5, <2>6
<1>5. CASE SetJsonSymbolicLink
  BY <1>5, SingleFabAssumption DEF SetJsonSymbolicLink, Fail, IInv, TypeOK,
     SetupTypeOK, FilesOK, AroundOK, ProcessOK, HistoryOK, ExcuseNames,
     ClientOK, ProcessInv, TreeInv, ImInv, RebootInv, EnvInv, ClientInv,
     FitsItself, Im, MgrState, Phase, Chosen, TreeSet, Fresh, WaitPc, ToolPc,
     Client
<1>6. CASE CreateSymlink
  <2> USE <1>6, SingleFabAssumption DEF IInv, CreateSymlink, Fail
  <2>1. TypeOK'
    <3>1. FilesOK'
      BY DEF TypeOK, SetupTypeOK, FilesOK, ProcessInv, Chosen, Im
    <3>2. AroundOK'
      BY DEF TypeOK, SetupTypeOK, AroundOK
    <3>3. ProcessOK'
      BY DEF TypeOK, SetupTypeOK, ProcessOK, FilesOK, ProcessInv, Chosen,
         MgrState, Phase
    <3>4. HistoryOK'
      BY DEF TypeOK, SetupTypeOK, HistoryOK, ExcuseNames, FilesOK, ProcessOK,
         ProcessInv, Chosen
    <3>5. ClientOK'
      BY DEF TypeOK, SetupTypeOK, ClientOK, Client, WaitPc, ToolPc, MgrState
    <3> QED BY <3>1, <3>2, <3>3, <3>4, <3>5 DEF TypeOK, SetupTypeOK
  <2>2. ProcessInv'
    BY DEF ProcessInv, TypeOK, SetupTypeOK, FilesOK, AroundOK, ProcessOK,
       HistoryOK, ClientOK, Chosen, TreeSet, Fresh
  <2>3. TreeInv'
    BY DEF TreeInv, ProcessInv
  <2>4. ImInv'
    BY DEF ImInv, FitsItself, Phase, ProcessInv, Chosen
  <2>5. RebootInv'
    BY DEF RebootInv, EnvInv, ProcessInv, Chosen, TreeSet
  <2>6. ClientInv'
    BY DEF ClientInv, TypeOK, SetupTypeOK, FilesOK, AroundOK, ProcessOK,
       HistoryOK, ClientOK, ProcessInv
  <2> QED BY <2>1, <2>2, <2>3, <2>4, <2>5, <2>6
<1>7. CASE InitWorker
  BY <1>7, SingleFabAssumption DEF InitWorker, Fail, IInv, TypeOK, SetupTypeOK,
     FilesOK, AroundOK, ProcessOK, HistoryOK, ExcuseNames, ClientOK,
     ProcessInv, TreeInv, ImInv, RebootInv, EnvInv, ClientInv, FitsItself, Im,
     MgrState, Phase, Chosen, TreeSet, Fresh, WaitPc, ToolPc, Client
<1>8. CASE PublishSystemVpd
  <2> USE <1>8, SingleFabAssumption DEF IInv, PublishSystemVpd
  <2>1. TypeOK'
    <3>1. FilesOK'
      BY DEF TypeOK, SetupTypeOK, FilesOK, ProcessInv, Chosen, Im
    <3>2. AroundOK'
      BY DEF TypeOK, SetupTypeOK, AroundOK
    <3>3. ProcessOK'
      BY DEF TypeOK, SetupTypeOK, ProcessOK, FilesOK, ProcessInv, Chosen,
         MgrState, Phase
    <3>4. HistoryOK'
      BY DEF TypeOK, SetupTypeOK, HistoryOK, ExcuseNames, FilesOK, ProcessOK,
         ProcessInv, Chosen
    <3>5. ClientOK'
      BY DEF TypeOK, SetupTypeOK, ClientOK, Client, WaitPc, ToolPc, MgrState
    <3> QED BY <3>1, <3>2, <3>3, <3>4, <3>5 DEF TypeOK, SetupTypeOK
  <2>2. ProcessInv'
    BY DEF ProcessInv, TypeOK, SetupTypeOK, FilesOK, AroundOK, ProcessOK,
       HistoryOK, ClientOK, Chosen, TreeSet, Fresh
  <2>3. TreeInv'
    BY DEF TreeInv, ProcessInv
  <2>4. ImInv'
    BY DEF ImInv, FitsItself, Phase, ProcessInv, Chosen, Refused, Im
  <2>5. RebootInv'
    BY DEF RebootInv, EnvInv, ProcessInv, Chosen, TreeSet, Refused, Im
  <2>6. ClientInv'
    BY DEF ClientInv, TypeOK, SetupTypeOK, FilesOK, AroundOK, ProcessOK,
       HistoryOK, ClientOK, ProcessInv
  <2> QED BY <2>1, <2>2, <2>3, <2>4, <2>5, <2>6
<1> QED
  BY <1>1, <1>2, <1>3, <1>4, <1>5, <1>6, <1>7, <1>8 DEF SetupStep

(* Every step of the composition: the manager, its clients, the tool and   *)
(* the BMC.                                                                *)
LEMMA NextKeeps ==
  ASSUME IInv, [Next]_vars
  PROVE  IInv'
<1>1. CASE SetupStep /\ IF mgr' = "off" THEN AllStop ELSE UNCHANGED startVars
  BY <1>1, SetupKeeps
<1>2. CASE StartManager /\ UNCHANGED startVars
  BY <1>2, SingleFabAssumption DEF StartManager, IInv, TypeOK, SetupTypeOK,
     FilesOK, AroundOK, ProcessOK, HistoryOK, ExcuseNames, ClientOK,
     ProcessInv, TreeInv, ImInv, RebootInv, EnvInv, ClientInv, FitsItself, Im,
     MgrState, Phase, Chosen, TreeSet, Fresh, WaitPc, ToolPc, Client
<1>3. CASE /\ Crash
           /\ requests' = {}
           /\ UNCHANGED <<wait, polls, tool, completed>>
  <2> USE <1>3, SingleFabAssumption DEF IInv, Crash, Die, NewProcess
  <2>1. TypeOK'
    <3>1. FilesOK'
      BY DEF TypeOK, SetupTypeOK, FilesOK, ProcessInv, Chosen, Im
    <3>2. AroundOK'
      BY DEF TypeOK, SetupTypeOK, AroundOK
    <3>3. ProcessOK'
      BY DEF TypeOK, SetupTypeOK, ProcessOK, FilesOK, ProcessInv, Chosen,
         MgrState, Phase
    <3>4. HistoryOK'
      BY DEF TypeOK, SetupTypeOK, HistoryOK, ExcuseNames, FilesOK, ProcessOK,
         ProcessInv, Chosen
    <3>5. ClientOK'
      BY DEF TypeOK, SetupTypeOK, ClientOK, Client, WaitPc, ToolPc, MgrState
    <3> QED BY <3>1, <3>2, <3>3, <3>4, <3>5 DEF TypeOK, SetupTypeOK
  <2>2. ProcessInv'
    <3>1. mgr # "stopped"
      BY DEF Phase
    <3>2. tool \notin {"unlink", "forget", "start"}
      BY <3>1 DEF ProcessInv
    <3> QED
      BY <3>2 DEF ProcessInv, Chosen, TreeSet, Fresh
  <2>3. TreeInv'
    BY DEF TreeInv, ProcessInv
  <2>4. ImInv'
    BY DEF ImInv, FitsItself, Phase, ProcessInv, Chosen
  <2>5. RebootInv'
    BY DEF RebootInv, EnvInv, ProcessInv, Chosen, TreeSet
  <2>6. ClientInv'
    BY DEF ClientInv, TypeOK, SetupTypeOK, FilesOK, AroundOK, ProcessOK,
       HistoryOK, ClientOK, ProcessInv
  <2> QED BY <2>1, <2>2, <2>3, <2>4, <2>5, <2>6
<1>4. CASE CollectAllFruVpd
  <2> USE <1>4, SingleFabAssumption DEF IInv, CollectAllFruVpd, Die,
     NewProcess
  <2>1. TypeOK'
    <3>1. FilesOK'
      BY DEF TypeOK, SetupTypeOK, FilesOK, ProcessInv, Chosen, Im
    <3>2. AroundOK'
      BY DEF TypeOK, SetupTypeOK, AroundOK
    <3>3. ProcessOK'
      BY DEF TypeOK, SetupTypeOK, ProcessOK, FilesOK, ProcessInv, Chosen,
         MgrState, Phase
    <3>4. HistoryOK'
      BY DEF TypeOK, SetupTypeOK, HistoryOK, ExcuseNames, FilesOK, ProcessOK,
         ProcessInv, Chosen
    <3>5. ClientOK'
      BY DEF TypeOK, SetupTypeOK, ClientOK, Client, WaitPc, ToolPc, MgrState
    <3> QED BY <3>1, <3>2, <3>3, <3>4, <3>5 DEF TypeOK, SetupTypeOK
  <2>2. ProcessInv'
    BY DEF ProcessInv, TypeOK, SetupTypeOK, FilesOK, AroundOK, ProcessOK,
       HistoryOK, ClientOK, Chosen, TreeSet, Fresh
  <2>3. TreeInv'
    BY DEF TreeInv, ProcessInv
  <2>4. ImInv'
    BY DEF ImInv, FitsItself, Phase, ProcessInv, Chosen
  <2>5. RebootInv'
    BY DEF RebootInv, EnvInv, ProcessInv, Chosen, TreeSet
  <2>6. ClientInv'
    BY DEF ClientInv, TypeOK, SetupTypeOK, FilesOK, AroundOK, ProcessOK,
       HistoryOK, ClientOK, ProcessInv
  <2> QED BY <2>1, <2>2, <2>3, <2>4, <2>5, <2>6
<1>5. CASE CollectionCompleted
  BY <1>5, SingleFabAssumption DEF CollectionCompleted, IInv, TypeOK,
     SetupTypeOK, FilesOK, AroundOK, ProcessOK, HistoryOK, ExcuseNames,
     ClientOK, ProcessInv, TreeInv, ImInv, RebootInv, EnvInv, ClientInv,
     FitsItself, Im, MgrState, Phase, Chosen, TreeSet, Fresh, WaitPc, ToolPc,
     Client
<1>6. CASE OtherRequest
  BY <1>6, SingleFabAssumption DEF OtherRequest, Arrives, IInv, TypeOK,
     SetupTypeOK, FilesOK, AroundOK, ProcessOK, HistoryOK, ExcuseNames,
     ClientOK, ProcessInv, TreeInv, ImInv, RebootInv, EnvInv, ClientInv,
     FitsItself, Im, MgrState, Phase, Chosen, TreeSet, Fresh, WaitPc, ToolPc,
     Client
<1>7. CASE StartWait
  BY <1>7, SingleFabAssumption DEF StartWait, IInv, TypeOK, SetupTypeOK,
     FilesOK, AroundOK, ProcessOK, HistoryOK, ExcuseNames, ClientOK,
     ProcessInv, TreeInv, ImInv, RebootInv, EnvInv, ClientInv, FitsItself, Im,
     MgrState, Phase, Chosen, TreeSet, Fresh, WaitPc, ToolPc, Client
<1>8. CASE Trigger
  <2> USE <1>8, PollAssumption DEF IInv, Trigger, Arrives
  <2>1. TypeOK'
    <3>1. FilesOK'
      BY DEF TypeOK, SetupTypeOK, FilesOK, ProcessInv, Chosen, Im
    <3>2. AroundOK'
      BY DEF TypeOK, SetupTypeOK, AroundOK
    <3>3. ProcessOK'
      BY DEF TypeOK, SetupTypeOK, ProcessOK, FilesOK, ProcessInv, Chosen,
         MgrState, Phase
    <3>4. HistoryOK'
      BY DEF TypeOK, SetupTypeOK, HistoryOK, ExcuseNames, FilesOK, ProcessOK,
         ProcessInv, Chosen
    <3>5. ClientOK'
      <4>1. polls' \in 0 .. MaxPolls
        BY SMT DEF TypeOK, ClientOK
      <4> QED BY <4>1 DEF TypeOK, ClientOK, Client, WaitPc, ToolPc, MgrState
    <3> QED BY <3>1, <3>2, <3>3, <3>4, <3>5 DEF TypeOK, SetupTypeOK
  <2>2. ProcessInv'
    BY DEF ProcessInv, TypeOK, SetupTypeOK, FilesOK, AroundOK, ProcessOK,
       HistoryOK, ClientOK, Chosen, TreeSet, Fresh
  <2>3. TreeInv'
    BY DEF TreeInv, ProcessInv
  <2>4. ImInv'
    BY DEF ImInv, FitsItself, Phase, ProcessInv, Chosen
  <2>5. RebootInv'
    BY DEF RebootInv, EnvInv, ProcessInv, Chosen, TreeSet
  <2>6. ClientInv'
    BY DEF ClientInv, TypeOK, SetupTypeOK, FilesOK, AroundOK, ProcessOK,
       HistoryOK, ClientOK, ProcessInv
  <2> QED BY <2>1, <2>2, <2>3, <2>4, <2>5, <2>6
<1>9. CASE CheckVpdCollectionStatus
  BY <1>9, PollAssumption DEF CheckVpdCollectionStatus, IInv, TypeOK,
     SetupTypeOK, FilesOK, AroundOK, ProcessOK, HistoryOK, ExcuseNames,
     ClientOK, ProcessInv, TreeInv, ImInv, RebootInv, EnvInv, ClientInv,
     FitsItself, Im, MgrState, Phase, Chosen, TreeSet, Fresh, WaitPc, ToolPc,
     Client
<1>10. CASE Stop
  <2> USE <1>10, SingleFabAssumption DEF IInv, Stop, NewProcess
  <2>1. TypeOK'
    <3>1. FilesOK'
      BY DEF TypeOK, SetupTypeOK, FilesOK, ProcessInv, Chosen, Im
    <3>2. AroundOK'
      BY DEF TypeOK, SetupTypeOK, AroundOK
    <3>3. ProcessOK'
      BY DEF TypeOK, SetupTypeOK, ProcessOK, FilesOK, ProcessInv, Chosen,
         MgrState, Phase
    <3>4. HistoryOK'
      BY DEF TypeOK, SetupTypeOK, HistoryOK, ExcuseNames, FilesOK, ProcessOK,
         ProcessInv, Chosen
    <3>5. ClientOK'
      BY DEF TypeOK, SetupTypeOK, ClientOK, Client, WaitPc, ToolPc, MgrState
    <3> QED BY <3>1, <3>2, <3>3, <3>4, <3>5 DEF TypeOK, SetupTypeOK
  <2>2. ProcessInv'
    BY DEF ProcessInv, TypeOK, SetupTypeOK, FilesOK, AroundOK, ProcessOK,
       HistoryOK, ClientOK, Chosen, TreeSet, Fresh
  <2>3. TreeInv'
    BY DEF TreeInv, ProcessInv
  <2>4. ImInv'
    BY DEF ImInv, FitsItself, Phase, ProcessInv, Chosen
  <2>5. RebootInv'
    BY DEF RebootInv, EnvInv, ProcessInv, Chosen, TreeSet
  <2>6. ClientInv'
    BY DEF ClientInv, TypeOK, SetupTypeOK, FilesOK, AroundOK, ProcessOK,
       HistoryOK, ClientOK, ProcessInv
  <2> QED BY <2>1, <2>2, <2>3, <2>4, <2>5, <2>6
<1>11. CASE Unlink
  BY <1>11, SingleFabAssumption DEF Unlink, IInv, TypeOK, SetupTypeOK, FilesOK,
     AroundOK, ProcessOK, HistoryOK, ExcuseNames, ClientOK, ProcessInv,
     TreeInv, ImInv, RebootInv, EnvInv, ClientInv, FitsItself, Im, MgrState,
     Phase, Chosen, TreeSet, Fresh, WaitPc, ToolPc, Client
<1>12. CASE Forget
  BY <1>12, SingleFabAssumption DEF Forget, IInv, TypeOK, SetupTypeOK, FilesOK,
     AroundOK, ProcessOK, HistoryOK, ExcuseNames, ClientOK, ProcessInv,
     TreeInv, ImInv, RebootInv, EnvInv, ClientInv, FitsItself, Im, MgrState,
     Phase, Chosen, TreeSet, Fresh, WaitPc, ToolPc, Client
<1>13. CASE StartAgain
  BY <1>13, SingleFabAssumption DEF StartAgain, IInv, TypeOK, SetupTypeOK,
     FilesOK, AroundOK, ProcessOK, HistoryOK, ExcuseNames, ClientOK,
     ProcessInv, TreeInv, ImInv, RebootInv, EnvInv, ClientInv, FitsItself, Im,
     MgrState, Phase, Chosen, TreeSet, Fresh, WaitPc, ToolPc, Client
<1>14. CASE RestartWait
  <2> USE <1>14, SingleFabAssumption, PollAssumption DEF IInv, RestartWait
  <2>1. TypeOK'
    <3>1. FilesOK'
      BY DEF TypeOK, SetupTypeOK, FilesOK, ProcessInv, Chosen, Im
    <3>2. AroundOK'
      BY DEF TypeOK, SetupTypeOK, AroundOK
    <3>3. ProcessOK'
      BY DEF TypeOK, SetupTypeOK, ProcessOK, FilesOK, ProcessInv, Chosen,
         MgrState, Phase
    <3>4. HistoryOK'
      BY DEF TypeOK, SetupTypeOK, HistoryOK, ExcuseNames, FilesOK, ProcessOK,
         ProcessInv, Chosen
    <3>5. ClientOK'
      <4>1. polls' \in 0 .. MaxPolls
        BY SMT DEF TypeOK, ClientOK
      <4> QED BY <4>1 DEF TypeOK, ClientOK, Client, WaitPc, ToolPc, MgrState
    <3> QED BY <3>1, <3>2, <3>3, <3>4, <3>5 DEF TypeOK, SetupTypeOK
  <2>2. ProcessInv'
    BY DEF ProcessInv, TypeOK, SetupTypeOK, FilesOK, AroundOK, ProcessOK,
       HistoryOK, ClientOK, Chosen, TreeSet, Fresh
  <2>3. TreeInv'
    BY DEF TreeInv, ProcessInv
  <2>4. ImInv'
    BY DEF ImInv, FitsItself, Phase, ProcessInv, Chosen
  <2>5. RebootInv'
    BY DEF RebootInv, EnvInv, ProcessInv, Chosen, TreeSet
  <2>6. ClientInv'
    BY DEF ClientInv, TypeOK, SetupTypeOK, FilesOK, AroundOK, ProcessOK,
       HistoryOK, ClientOK, ProcessInv
  <2> QED BY <2>1, <2>2, <2>3, <2>4, <2>5, <2>6
<1>15. CASE Interrupt
  BY <1>15, SingleFabAssumption DEF Interrupt, IInv, TypeOK, SetupTypeOK,
     FilesOK, AroundOK, ProcessOK, HistoryOK, ExcuseNames, ClientOK,
     ProcessInv, TreeInv, ImInv, RebootInv, EnvInv, ClientInv, FitsItself, Im,
     MgrState, Phase, Chosen, TreeSet, Fresh, WaitPc, ToolPc, Client
<1>16. CASE PowerLoss
  <2> USE <1>16, SingleFabAssumption, PollAssumption DEF IInv, PowerLoss,
     NewProcess, AllStop
  <2>1. TypeOK'
    <3>1. FilesOK'
      BY DEF TypeOK, SetupTypeOK, FilesOK, ProcessInv, Chosen, Im
    <3>2. AroundOK'
      BY DEF TypeOK, SetupTypeOK, AroundOK
    <3>3. ProcessOK'
      BY DEF TypeOK, SetupTypeOK, ProcessOK, FilesOK, ProcessInv, Chosen,
         MgrState, Phase
    <3>4. HistoryOK'
      BY DEF TypeOK, SetupTypeOK, HistoryOK, ExcuseNames, FilesOK, ProcessOK,
         ProcessInv, Chosen
    <3>5. ClientOK'
      <4>1. polls' \in 0 .. MaxPolls
        BY SMT DEF TypeOK, ClientOK
      <4> QED BY <4>1 DEF TypeOK, ClientOK, Client, WaitPc, ToolPc, MgrState
    <3> QED BY <3>1, <3>2, <3>3, <3>4, <3>5 DEF TypeOK, SetupTypeOK
  <2>2. ProcessInv'
    BY DEF ProcessInv, TypeOK, SetupTypeOK, FilesOK, AroundOK, ProcessOK,
       HistoryOK, ClientOK, Chosen, TreeSet, Fresh
  <2>3. TreeInv'
    BY DEF TreeInv, ProcessInv
  <2>4. ImInv'
    BY DEF ImInv, FitsItself, Phase, ProcessInv, Chosen
  <2>5. RebootInv'
    BY DEF RebootInv, EnvInv, ProcessInv, Chosen, TreeSet
  <2>6. ClientInv'
    BY DEF ClientInv, TypeOK, SetupTypeOK, FilesOK, AroundOK, ProcessOK,
       HistoryOK, ClientOK, ProcessInv
  <2> QED BY <2>1, <2>2, <2>3, <2>4, <2>5, <2>6
<1>17. CASE Boot
  BY <1>17, SingleFabAssumption DEF Boot, IInv, TypeOK, SetupTypeOK, FilesOK,
     AroundOK, ProcessOK, HistoryOK, ExcuseNames, ClientOK, ProcessInv,
     TreeInv, ImInv, RebootInv, EnvInv, ClientInv, FitsItself, Im, MgrState,
     Phase, Chosen, TreeSet, Fresh, WaitPc, ToolPc, Client
<1>18. CASE Service
  <2> USE <1>18, SingleFabAssumption DEF IInv, Service
  <2>1. TypeOK'
    <3>1. FilesOK'
      BY DEF TypeOK, SetupTypeOK, FilesOK, ProcessInv, Chosen, Im
    <3>2. AroundOK'
      BY DEF TypeOK, SetupTypeOK, AroundOK
    <3>3. ProcessOK'
      BY DEF TypeOK, SetupTypeOK, ProcessOK, FilesOK, ProcessInv, Chosen,
         MgrState, Phase
    <3>4. HistoryOK'
      BY DEF TypeOK, SetupTypeOK, HistoryOK, ExcuseNames, FilesOK, ProcessOK,
         ProcessInv, Chosen
    <3>5. ClientOK'
      BY DEF TypeOK, SetupTypeOK, ClientOK, Client, WaitPc, ToolPc, MgrState
    <3> QED BY <3>1, <3>2, <3>3, <3>4, <3>5 DEF TypeOK, SetupTypeOK
  <2>2. ProcessInv'
    BY DEF ProcessInv, TypeOK, SetupTypeOK, FilesOK, AroundOK, ProcessOK,
       HistoryOK, ClientOK, Chosen, TreeSet, Fresh
  <2>3. TreeInv'
    BY DEF TreeInv, ProcessInv
  <2>4. ImInv'
    BY DEF ImInv, FitsItself, Phase, ProcessInv, Chosen
  <2>5. RebootInv'
    BY DEF RebootInv, EnvInv, ProcessInv, Chosen, TreeSet
  <2>6. ClientInv'
    BY DEF ClientInv, TypeOK, SetupTypeOK, FilesOK, AroundOK, ProcessOK,
       HistoryOK, ClientOK, ProcessInv
  <2> QED BY <2>1, <2>2, <2>3, <2>4, <2>5, <2>6
<1>19. CASE FactoryReset
  <2> USE <1>19, SingleFabAssumption DEF IInv, FactoryReset
  <2>1. TypeOK'
    <3>1. FilesOK'
      BY DEF TypeOK, SetupTypeOK, FilesOK, ProcessInv, Chosen, Im
    <3>2. AroundOK'
      BY DEF TypeOK, SetupTypeOK, AroundOK
    <3>3. ProcessOK'
      BY DEF TypeOK, SetupTypeOK, ProcessOK, FilesOK, ProcessInv, Chosen,
         MgrState, Phase
    <3>4. HistoryOK'
      BY DEF TypeOK, SetupTypeOK, HistoryOK, ExcuseNames, FilesOK, ProcessOK,
         ProcessInv, Chosen
    <3>5. ClientOK'
      BY DEF TypeOK, SetupTypeOK, ClientOK, Client, WaitPc, ToolPc, MgrState
    <3> QED BY <3>1, <3>2, <3>3, <3>4, <3>5 DEF TypeOK, SetupTypeOK
  <2>2. ProcessInv'
    BY DEF ProcessInv, TypeOK, SetupTypeOK, FilesOK, AroundOK, ProcessOK,
       HistoryOK, ClientOK, Chosen, TreeSet, Fresh
  <2>3. TreeInv'
    BY DEF TreeInv, ProcessInv
  <2>4. ImInv'
    BY DEF ImInv, FitsItself, Phase, ProcessInv, Chosen, Im
  <2>5. RebootInv'
    BY DEF RebootInv, EnvInv, ProcessInv, Chosen, TreeSet, Im
  <2>6. ClientInv'
    BY DEF ClientInv, TypeOK, SetupTypeOK, FilesOK, AroundOK, ProcessOK,
       HistoryOK, ClientOK, ProcessInv
  <2> QED BY <2>1, <2>2, <2>3, <2>4, <2>5, <2>6
<1>20. CASE ChassisChange /\ UNCHANGED startVars
  BY <1>20, SingleFabAssumption DEF ChassisChange, IInv, TypeOK, SetupTypeOK,
     FilesOK, AroundOK, ProcessOK, HistoryOK, ExcuseNames, ClientOK,
     ProcessInv, TreeInv, ImInv, RebootInv, EnvInv, ClientInv, FitsItself, Im,
     MgrState, Phase, Chosen, TreeSet, Fresh, WaitPc, ToolPc, Client
<1>21. CASE UNCHANGED vars
  BY <1>21 DEF IInv, TypeOK, SetupTypeOK, FilesOK, AroundOK, ProcessOK,
     HistoryOK, ClientOK, ProcessInv, TreeInv, ImInv, RebootInv, EnvInv,
     ClientInv, FitsItself, Im, MgrState, Phase, Chosen, TreeSet, Fresh,
     WaitPc, ToolPc, Client
<1> QED
  BY <1>1, <1>2, <1>3, <1>4, <1>5, <1>6, <1>7, <1>8, <1>9, <1>10, <1>11,
     <1>12, <1>13, <1>14, <1>15, <1>16, <1>17, <1>18, <1>19, <1>20, <1>21 DEF
     Next, ManagerStep, WaitStep, ToolStep, BmcStep

(* The inductive invariant holds in every reachable state.                 *)
LEMMA Inductive == Spec => []IInv
<1>1. Init => IInv
  BY InitInv
<1>2. IInv /\ [Next]_vars => IInv'
  BY NextKeeps
<1> QED BY <1>1, <1>2, PTL DEF Spec

(* Every variable has its type, requests wait only with a manager that     *)
(* runs, and wait-vpd-parser polls no more often than its limit            *)
(* (wait_vpd_parser.cpp, checkVpdCollectionStatus).                        *)
THEOREM TypeCorrect == Spec => []TypeOK
<1>1. IInv => TypeOK
  BY DEF IInv
<1> QED BY <1>1, Inductive, PTL

(* A worker uses the JSON of the planar it runs on, and the device tree is *)
(* the one for it unless a process died between fw_setenv and the reboot   *)
(* (Manager and Worker: initWorker, setDeviceTreeAndJson).                 *)
THEOREM WorkerAlwaysFits == Spec => []WorkerFits
<1>1. IInv => WorkerFits
  BY DEF IInv, ProcessInv, TreeInv, WorkerFits
<1> QED BY <1>1, Inductive, PTL

(* A system that was started in its mode with its image is never refused   *)
(* later (SingleFab::singleFabImOverride), whatever the IM values are,     *)
(* unless an IM could not be written or was left as it was with the        *)
(* chassis on, or the mode or the image was taken for another.             *)
THEOREM AlwaysStartsAgain == Spec => []StartsAgain
<1>1. IInv => StartsAgain
  BY DEF IInv, ImInv, StartsAgain
<1> QED BY <1>1, Inductive, PTL

(* wait-vpd-parser succeeds only after a collection that was completed     *)
(* since it asked for one (checkVpdCollectionStatus, Manager and its       *)
(* handler for CollectAllFRUVPD), for every limit of polls.                *)
THEOREM WaitAlwaysHonest == Spec => []WaitIsHonest
<1>1. IInv => WaitIsHonest
  BY DEF IInv, ClientInv, WaitIsHonest
<1> QED BY <1>1, Inductive, PTL

(* The BMC is rebooted twice for one device tree with the same planar and  *)
(* image only if fw_setenv or fw_printenv failed and nobody saw it         *)
(* (setEnvAndReboot, readFitConfigValue).                                  *)
THEOREM NeverRebootLoop == Spec => NoRebootLoop
<1>1. IInv /\ [Next]_vars
        => [RebootForDeviceTree /\ mgr' = "off"
              => json \notin rebootedFor \/ "env" \in excused]_setupVars
  BY DEF IInv, RebootInv, EnvInv, RebootForDeviceTree
<1> QED BY <1>1, Inductive, PTL DEF Spec, NoRebootLoop
=============================================================================

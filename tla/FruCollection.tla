---------------------------- MODULE FruCollection ----------------------------
(***************************************************************************)
(* Collection of the VPD of all FRUs: the D-Bus method CollectAllFRUVPD,   *)
(* the detached thread it creates for each FRU, the semaphore, counter and *)
(* flag the threads share, and the timer that polls the flag and sets the  *)
(* Status property.                                                        *)
(*                                                                         *)
(* The io thread runs one handler at a time (CollectAllFRUVPD, the timer); *)
(* the creation loop is a step per FRU, because threads run while it does. *)
(* A collection thread takes a step per access to something it shares.  A  *)
(* thread is named by the request that created it and by its FRU: nothing  *)
(* in the code stops a second request while threads of the first one are   *)
(* still waiting.                                                          *)
(***************************************************************************)
EXTENDS FruInventory, Integers

CONSTANTS
  PowerOffOnly,   \* FRUs that the JSON has read with the chassis off only
  Pass1Pcie,      \* PCIe cards of a pass 1 planar
  MaxThreads,     \* constants::MAX_THREADS
  MaxRetry,       \* MAX_RETRY of the collection timer
  MaxRounds,      \* bound: requests accepted by one process
  MaxRestarts,    \* bound: restarts of the process
  Env             \* what the environment may do: see EnvEvents

EnvEvents ==
  {"pim",         \* a call to PIM fails
   "thread",      \* std::thread cannot be created
   "chassis",     \* the chassis is powered on or off
   "restart"}     \* the process dies and systemd restarts it

ASSUME CollectionAssumption ==
  /\ PowerOffOnly \subseteq Fru
  /\ Pass1Pcie \subseteq Fru
  /\ MaxThreads \in Nat \ {0}
  /\ MaxRetry \in Nat
  /\ MaxRounds \in Nat
  /\ MaxRestarts \in Nat
  /\ Env \subseteq EnvEvents

Thread == (1 .. MaxRounds) \X Fru

FruOf(t) == t[2]

(***************************************************************************)
(* Where a thread is.  "none": not created in this process.                *)
(***************************************************************************)
HoldingPc ==
  {"acquired", "counted", "started", "parsed", "stored",
   "empty", "dataError", "error", "emptyRead", "dataErrorRead", "errorRead",
   "dataErrorReset", "errorReset", "failed", "finishing"}

CountedPc == (HoldingPc \ {"acquired"}) \cup {"returned"}

Pc == {"none", "created", "returned", "countedDown", "finished"} \cup HoldingPc

VARIABLES
  status,        \* Manager::m_vpdCollectionStatus, the D-Bus property
  round,         \* number of the current request
  io,            \* "spawning" inside collectFrusFromJson, else "idle"
  toVisit,       \* FRUs the creation loop has not reached
  timer,         \* the static l_timer: "idle" or "armed"
  retry,         \* the static l_timerRetry
  limit,         \* initial value of the semaphore
  permits,       \* Worker::m_semaphore
  activeCount,   \* Worker::m_activeCollectionThreadCount
  allCollected,  \* Worker::m_isAllFruCollected
  failedPaths,   \* Worker::m_failedEepromPaths
  pc,            \* where each thread is
  sawVpd,        \* threads whose clearing map empties keywords
  leaked,        \* history: threads that returned without release
  pim,           \* the records of PIM
  chassisOn,     \* power state of the chassis
  restarts       \* restarts so far

ioVars     == <<status, round, io, toVisit, timer, retry, failedPaths>>
workerVars ==
  <<limit, permits, activeCount, allCollected, pc, sawVpd, leaked>>
envVars    == <<chassisOn, restarts>>
vars       == <<ioVars, workerVars, pim, envVars>>

-----------------------------------------------------------------------------
(* initWorker: one thread at a time when the chassis is on.                *)
ThreadLimit(on) == IF on THEN 1 ELSE MaxThreads

(* The replies a call to PIM may get.                                      *)
PimReply == IF "pim" \in Env THEN BOOLEAN ELSE {TRUE}

Idle == [t \in Thread |-> "none"]

Init ==
  /\ status = "NotStarted"
  /\ round = 0
  /\ io = "idle"
  /\ toVisit = {}
  /\ timer = "idle"
  /\ retry = 0
  /\ chassisOn \in (IF "chassis" \in Env THEN BOOLEAN ELSE {FALSE})
  /\ limit = ThreadLimit(chassisOn)
  /\ permits = limit
  /\ activeCount = 0
  /\ allCollected = FALSE
  /\ failedPaths = {}
  /\ pc = Idle
  /\ sawVpd = {}
  /\ leaked = {}
  /\ pim \in {[f \in Fru |-> Primed], [f \in Fru |-> Leftover]}
  /\ restarts = 0

-----------------------------------------------------------------------------
(* The io thread.                                                          *)

(* Mutant: the Status property is not looked at.                           *)
CollectAlways ==
  /\ io = "idle"
  /\ round < MaxRounds
  /\ status' = "InProgress"
  /\ round' = round + 1
  /\ io' = "spawning"
  /\ toVisit' = Fru
  /\ UNCHANGED <<timer, retry, failedPaths, workerVars, pim, envVars>>

(* CollectAllFRUVPD; a request made while one is in progress is refused.   *)
CollectAllFRUVPD ==
  /\ io = "idle"
  /\ status # "InProgress"
  /\ round < MaxRounds
  /\ status' = "InProgress"
  /\ round' = round + 1
  /\ io' = "spawning"
  /\ toVisit' = Fru
  /\ UNCHANGED <<timer, retry, failedPaths, workerVars, pim, envVars>>

(* skipPathForCollection: no PCIe card is read while the chassis is on.    *)
Skipped(f) == chassisOn /\ f \in PowerOffOnly \cup Pass1Pcie

(* One turn of the loop of collectFrusFromJson.  The order of the keys of  *)
(* the JSON object does not matter and is left open.                       *)
VisitFru(f) ==
  /\ io = "spawning"
  /\ f \in toVisit
  /\ toVisit' = toVisit \ {f}
  /\ \/ /\ Skipped(f)
        /\ UNCHANGED <<pc, failedPaths>>
     \/ /\ ~Skipped(f)
        /\ pc' = [pc EXCEPT ![<<round, f>>] = "created"]
        /\ UNCHANGED failedPaths
     \/ /\ ~Skipped(f)
        /\ "thread" \in Env
        /\ failedPaths' = failedPaths \cup {f}
        /\ UNCHANGED pc
  /\ UNCHANGED <<status, round, io, timer, retry, limit, permits, activeCount,
                 allCollected, sawVpd, leaked, pim, envVars>>

(* The end of IbmHandler::collectAllFruVpd.                                *)
StartTimer ==
  /\ io = "spawning"
  /\ toVisit = {}
  /\ io' = "idle"
  /\ timer' = "armed"
  /\ UNCHANGED <<status, round, toVisit, retry, failedPaths, workerVars, pim,
                 envVars>>

(* Mutant: Completed at the first expiry, whatever the flag says.           *)
TimerDoneUnasked ==
  /\ io = "idle" /\ timer = "armed"
  /\ timer' = "idle"
  /\ failedPaths' = {}
  /\ status' = "Completed"
  /\ UNCHANGED <<round, io, toVisit, retry, workerVars, pim, envVars>>

(* The handler of the timer: it reads the flag and nothing else.           *)
TimerDone ==
  /\ io = "idle" /\ timer = "armed"
  /\ allCollected
  /\ timer' = "idle"
  /\ failedPaths' = {}
  /\ status' = "Completed"
  /\ UNCHANGED <<round, io, toVisit, retry, workerVars, pim, envVars>>

(* Mutant: the timer is restarted without end.                             *)
TimerRetryAlways ==
  /\ io = "idle" /\ timer = "armed"
  /\ ~allCollected
  /\ retry' = retry + 1
  /\ UNCHANGED <<status, round, io, toVisit, timer, failedPaths, workerVars,
                 pim, envVars>>

TimerRetry ==
  /\ io = "idle" /\ timer = "armed"
  /\ ~allCollected
  /\ retry # MaxRetry
  /\ retry' = retry + 1
  /\ UNCHANGED <<status, round, io, toVisit, timer, failedPaths, workerVars,
                 pim, envVars>>

(* Mutant: giving up starts the retries over.                              *)
TimerStartsOver ==
  /\ io = "idle" /\ timer = "armed"
  /\ ~allCollected
  /\ retry = MaxRetry
  /\ retry' = 0
  /\ UNCHANGED <<status, round, io, toVisit, timer, failedPaths, workerVars,
                 pim, envVars>>

TimerGivesUp ==
  /\ io = "idle" /\ timer = "armed"
  /\ ~allCollected
  /\ retry = MaxRetry
  /\ timer' = "idle"
  /\ UNCHANGED <<status, round, io, toVisit, retry, failedPaths, workerVars,
                 pim, envVars>>

-----------------------------------------------------------------------------
(* A collection thread: Worker::parseAndPublishVPD and the lambda that     *)
(* calls it.  Move is the control, WritePim a call whose failure is only   *)
(* logged.                                                                 *)
Move(t, from, to) ==
  /\ pc[t] = from
  /\ pc' = [pc EXCEPT ![t] = to]

WritePim(f, r) ==
  \E ok \in PimReply : pim' = IF ok THEN [pim EXCEPT ![f] = r] ELSE pim

(* Mutant: try_acquire with its result ignored.                            *)
AcquireAnyway(t) ==
  /\ Move(t, "created", "acquired")
  /\ permits' = permits - 1
  /\ UNCHANGED <<limit, activeCount, allCollected, leaked, sawVpd, pim>>

Acquire(t) ==
  /\ permits > 0
  /\ Move(t, "created", "acquired")
  /\ permits' = permits - 1
  /\ UNCHANGED <<limit, activeCount, allCollected, leaked, sawVpd, pim>>

(* Under m_mutex, after the semaphore has been acquired.                   *)
CountUp(t) ==
  /\ Move(t, "acquired", "counted")
  /\ activeCount' = activeCount + 1
  /\ UNCHANGED <<limit, permits, allCollected, leaked, sawVpd, pim>>

SetInProgress(t) ==
  /\ Move(t, "counted", "started")
  /\ WritePim(FruOf(t), WithStatus(pim[FruOf(t)], "InProgress"))
  /\ UNCHANGED <<limit, permits, activeCount, allCollected, leaked, sawVpd>>

(* parseVpdFile returns a parsed map, returns the empty variant (device    *)
(* absent, or no EEPROM file), or throws; a DataException is kept apart.   *)
ParseVpdFile(t) ==
  /\ \E outcome \in {"parsed", "empty", "dataError", "error"} :
       Move(t, "started", outcome)
  /\ UNCHANGED <<limit, permits, activeCount, allCollected, leaked, sawVpd, pim>>

(* Mutant: a failed publication returns at once.                           *)
PublishOrReturn(t) ==
  /\ \E ok \in PimReply :
       IF ok THEN /\ Move(t, "parsed", "stored")
                  /\ pim' = [pim EXCEPT ![FruOf(t)] = Published(FruOf(t), @)]
             ELSE /\ Move(t, "parsed", "returned")
                  /\ UNCHANGED pim
  /\ UNCHANGED <<limit, permits, activeCount, allCollected, leaked, sawVpd>>

(* populateDbus and publishVpdOnDBus: a failed call is thrown.             *)
Publish(t) ==
  /\ \E ok \in PimReply :
       IF ok THEN /\ Move(t, "parsed", "stored")
                  /\ pim' = [pim EXCEPT ![FruOf(t)] = Published(FruOf(t), @)]
             ELSE /\ Move(t, "parsed", "error")
                  /\ UNCHANGED pim
  /\ UNCHANGED <<limit, permits, activeCount, allCollected, leaked, sawVpd>>

(* resetObjTreeVpd reads the tree of the FRU from PIM, then writes a map    *)
(* that empties what it read: keywords published in between are kept.      *)
ReadTree(t) ==
  /\ \/ Move(t, "empty", "emptyRead")
     \/ Move(t, "dataError", "dataErrorRead")
     \/ Move(t, "error", "errorRead")
  /\ sawVpd' = IF pim[FruOf(t)].vpd = "none" THEN sawVpd ELSE sawVpd \cup {t}
  /\ UNCHANGED <<limit, permits, activeCount, allCollected, leaked, pim>>

(* Mutant: the catch block does not clear.                                 *)
ClearIfEmpty(t) ==
  /\ \/ /\ Move(t, "emptyRead", "stored")
        /\ WritePim(FruOf(t), Cleared(FruOf(t), pim[FruOf(t)], t \in sawVpd))
     \/ /\ \/ Move(t, "dataErrorRead", "dataErrorReset")
           \/ Move(t, "errorRead", "errorReset")
        /\ UNCHANGED pim
  /\ sawVpd' = sawVpd \ {t}
  /\ UNCHANGED <<limit, permits, activeCount, allCollected, leaked>>

ClearTree(t) ==
  /\ \/ Move(t, "emptyRead", "stored")
     \/ Move(t, "dataErrorRead", "dataErrorReset")
     \/ Move(t, "errorRead", "errorReset")
  /\ WritePim(FruOf(t), Cleared(FruOf(t), pim[FruOf(t)], t \in sawVpd))
  /\ sawVpd' = sawVpd \ {t}
  /\ UNCHANGED <<limit, permits, activeCount, allCollected, leaked>>

(* Mutant: the status of a FRU that is not there is left as reset.         *)
CompletedUnlessEmpty(t) ==
  /\ Move(t, "stored", "finishing")
  /\ WritePim(FruOf(t), IF pim[FruOf(t)].vpd = "none" THEN pim[FruOf(t)]
                        ELSE WithStatus(pim[FruOf(t)], "Completed"))
  /\ UNCHANGED <<limit, permits, activeCount, allCollected, leaked, sawVpd>>

SetCompleted(t) ==
  /\ Move(t, "stored", "finishing")
  /\ WritePim(FruOf(t), WithStatus(pim[FruOf(t)], "Completed"))
  /\ UNCHANGED <<limit, permits, activeCount, allCollected, leaked, sawVpd>>

(* The early return of a PCIe card on a pass 1 planar comes before the     *)
(* release; the planar is read from PIM, and is not pass 1 if that fails.  *)
SetFailed(t) ==
  /\ \/ /\ Move(t, "errorReset", "failed")
        /\ UNCHANGED leaked
     \/ /\ FruOf(t) \notin Pass1Pcie \/ FALSE \in PimReply
        /\ Move(t, "dataErrorReset", "failed")
        /\ UNCHANGED leaked
     \/ /\ FruOf(t) \in Pass1Pcie
        /\ Move(t, "dataErrorReset", "returned")
        /\ leaked' = leaked \cup {t}
  /\ WritePim(FruOf(t), WithStatus(pim[FruOf(t)], "Failed"))
  /\ UNCHANGED <<limit, permits, activeCount, allCollected, sawVpd>>

SetAbsent(t) ==
  /\ Move(t, "failed", "finishing")
  /\ WritePim(FruOf(t), MarkedAbsent(FruOf(t), pim[FruOf(t)]))
  /\ UNCHANGED <<limit, permits, activeCount, allCollected, leaked, sawVpd>>

Release(t) ==
  /\ Move(t, "finishing", "returned")
  /\ permits' = permits + 1
  /\ UNCHANGED <<limit, activeCount, allCollected, leaked, sawVpd, pim>>

(* Mutant: the decrement is skipped where the collection returned early.   *)
CountDownUnlessLeaked(t) ==
  /\ Move(t, "returned", "countedDown")
  /\ activeCount' = IF t \in leaked THEN activeCount ELSE activeCount - 1
  /\ UNCHANGED <<limit, permits, allCollected, leaked, sawVpd, pim>>

(* Under m_mutex, in the lambda.                                           *)
CountDown(t) ==
  /\ Move(t, "returned", "countedDown")
  /\ activeCount' = activeCount - 1
  /\ UNCHANGED <<limit, permits, allCollected, leaked, sawVpd, pim>>

(* Mutants: the counter read before its decrement; the flag raised only    *)
(* after a collection that succeeded.                                      *)
CheckOldCount(t) ==
  /\ Move(t, "countedDown", "finished")
  /\ allCollected' = (allCollected \/ activeCount + 1 = 0)
  /\ UNCHANGED <<limit, permits, activeCount, leaked, sawVpd, pim>>

CheckIfCollected(t) ==
  /\ Move(t, "countedDown", "finished")
  /\ allCollected' =
       \/ allCollected
       \/ activeCount = 0 /\ pim[FruOf(t)].status = "Completed"
  /\ UNCHANGED <<limit, permits, activeCount, leaked, sawVpd, pim>>

(* The counter is read again, outside m_mutex.  The read can see any value *)
(* the counter takes between the unlock and the end of the thread, which   *)
(* is what this step being apart from CountDown allows.                    *)
CheckCount(t) ==
  /\ Move(t, "countedDown", "finished")
  /\ allCollected' = (allCollected \/ activeCount = 0)
  /\ UNCHANGED <<limit, permits, activeCount, leaked, sawVpd, pim>>

ThreadStep(t) ==
  /\ \/ Acquire(t) \/ CountUp(t) \/ SetInProgress(t) \/ ParseVpdFile(t)
     \/ Publish(t) \/ ReadTree(t) \/ ClearTree(t) \/ SetCompleted(t)
     \/ SetFailed(t) \/ SetAbsent(t)
     \/ Release(t) \/ CountDown(t) \/ CheckCount(t)
  /\ UNCHANGED <<ioVars, envVars>>

-----------------------------------------------------------------------------
(* The environment.                                                        *)
ChassisChange ==
  /\ "chassis" \in Env
  /\ chassisOn' = ~chassisOn
  /\ UNCHANGED <<ioVars, workerVars, pim, restarts>>

(* Mutant: the flag has no initial value.                                  *)
RestartFlagKept ==
  /\ "restart" \in Env
  /\ restarts < MaxRestarts
  /\ restarts' = restarts + 1
  /\ status' = "NotStarted"
  /\ round' = 0
  /\ io' = "idle"
  /\ toVisit' = {}
  /\ timer' = "idle"
  /\ retry' = 0
  /\ failedPaths' = {}
  /\ limit' = ThreadLimit(chassisOn)
  /\ permits' = ThreadLimit(chassisOn)
  /\ activeCount' = 0
  /\ pc' = Idle
  /\ sawVpd' = {}
  /\ leaked' = {}
  /\ UNCHANGED <<allCollected, pim, chassisOn>>

(* Everything in memory is lost; PIM is another process and keeps its      *)
(* records.  The limit is chosen again from the power state.               *)
Restart ==
  /\ "restart" \in Env
  /\ restarts < MaxRestarts
  /\ restarts' = restarts + 1
  /\ status' = "NotStarted"
  /\ round' = 0
  /\ io' = "idle"
  /\ toVisit' = {}
  /\ timer' = "idle"
  /\ retry' = 0
  /\ failedPaths' = {}
  /\ limit' = ThreadLimit(chassisOn)
  /\ permits' = ThreadLimit(chassisOn)
  /\ activeCount' = 0
  /\ allCollected' = FALSE
  /\ pc' = Idle
  /\ sawVpd' = {}
  /\ leaked' = {}
  /\ UNCHANGED <<pim, chassisOn>>

-----------------------------------------------------------------------------
IoStep ==
  \/ CollectAllFRUVPD
  \/ \E f \in Fru : VisitFru(f)
  \/ StartTimer
  \/ TimerDone \/ TimerRetry \/ TimerGivesUp

Next ==
  \/ IoStep
  \/ \E t \in Thread : ThreadStep(t)
  \/ ChassisChange
  \/ Restart

Spec == Init /\ [][Next]_vars

(***************************************************************************)
(* The kernel runs every runnable thread, the io loop ends the creation    *)
(* loop and the timer expires.  Nobody has to make a request.  Acquire of a *)
(* thread is only weakly fair, as std::counting_semaphore promises no      *)
(* order among waiters.                                                    *)
(***************************************************************************)
Fairness ==
  /\ \A t \in Thread : WF_vars(ThreadStep(t))
  /\ WF_vars((\E f \in Fru : VisitFru(f)) \/ StartTimer)
  /\ WF_vars(TimerDone \/ TimerRetry \/ TimerGivesUp)

FairSpec == Spec /\ Fairness

-----------------------------------------------------------------------------
(* The values each variable takes; in particular the retries stay within    *)
(* MAX_RETRY and the number of requests within its bound.                  *)
TypeOK ==
  /\ status \in {"NotStarted", "InProgress", "Completed"}
  /\ round \in 0 .. MaxRounds
  /\ io \in {"idle", "spawning"}
  /\ toVisit \subseteq Fru
  /\ timer \in {"idle", "armed"}
  /\ retry \in 0 .. MaxRetry
  /\ limit \in {1, MaxThreads}
  /\ permits \in Int
  /\ activeCount \in Int
  /\ allCollected \in BOOLEAN
  /\ failedPaths \subseteq Fru
  /\ pc \in [Thread -> Pc]
  /\ sawVpd \subseteq Thread
  /\ leaked \subseteq Thread
  /\ pim \in [Fru -> PimRecord]
  /\ chassisOn \in BOOLEAN
  /\ restarts \in 0 .. MaxRestarts

Holders == {t \in Thread : pc[t] \in HoldingPc}
Counted == {t \in Thread : pc[t] \in CountedPc}

(* Every permit of the semaphore is free, held by a thread between acquire *)
(* and release, or lost by a thread that returned early; no permit is ever *)
(* created, so a release on a path that did not acquire, or two releases   *)
(* on one path, would show.                                                *)
PermitsAccounted ==
  /\ permits >= 0
  /\ permits + Cardinality(Holders) + Cardinality(leaked) = limit

(* The counter is exactly the number of threads between the increment and  *)
(* the decrement, on every path of parseAndPublishVPD; in particular the   *)
(* size_t never wraps below zero.                                          *)
CountIsExact == activeCount = Cardinality(Counted)

(* No completion is lost: once some thread has gone through the decrement  *)
(* and nothing is counted, the flag is set or a thread is about to look at *)
(* the counter, although the counter is read outside the mutex.            *)
NoLostCompletion ==
  (activeCount = 0 /\ \E t \in Thread : pc[t] \in {"countedDown", "finished"})
     => allCollected \/ \E t \in Thread : pc[t] = "countedDown"

(* The wait of the static timer is never started while another is          *)
(* outstanding (that would abort it, and its handler throws), and it only  *)
(* runs while Status says InProgress.                                      *)
OneTimer ==
  /\ io = "spawning" => timer = "idle" /\ status = "InProgress"
  /\ timer = "armed" => status = "InProgress"

(* Threads of f, by how far they are.                                      *)
Ran(f)     == {t \in Thread : FruOf(t) = f /\ pc[t] # "none"}
Settled(f) == Ran(f) # {} /\ \A t \in Ran(f) : pc[t] \in {"countedDown", "finished"}

(* When the threads of a FRU are over and PIM answered, its Status is a     *)
(* final one and what a previous boot left is gone, however the threads of *)
(* two requests interleaved on that FRU.                                   *)
SettledFru ==
  PimReply = {TRUE} =>
    \A f \in Fru : Settled(f) =>
      /\ pim[f].status \in {"Completed", "Failed"}
      /\ pim[f].vpd # "stale"

(* A FRU that one thread found unreadable has no keywords on PIM and, where *)
(* presence is handled, is not present.                                    *)
FailedIsCleared ==
  PimReply = {TRUE} =>
    \A f \in Fru :
      Settled(f) /\ Cardinality(Ran(f)) = 1 /\ pim[f].status = "Failed" =>
        /\ pim[f].vpd = "none"
        /\ f \in HandlesPresence => ~pim[f].present

Progress == INSTANCE CollectionProgress WITH
  collected <- {f \in Fru : \E t \in Thread : FruOf(t) = f /\ pc[t] = "finished"}

(* The collection keeps the promise of CollectionProgress to a client that  *)
(* watches Status: no request is accepted while one is in progress, and    *)
(* Completed is announced only for one that was, after some FRU came back. *)
KeepsProgress == Progress!Spec

(* Every thread that is created comes to its end, whatever fails on the    *)
(* way, or is lost with the process.                                       *)
ThreadsEnd ==
  \A t \in Thread : pc[t] = "created" ~> pc[t] \in {"finished", "none"}

(* A creation of a thread is enough for the flag to be set in the end.     *)
FlagIsSet ==
  \A t \in Thread : pc[t] = "created" ~> allCollected \/ pc[t] = "none"

(* The timer stops: it reports, gives up, or is lost with the process.     *)
TimerStops == timer = "armed" ~> timer = "idle"

-----------------------------------------------------------------------------
(* What the comments of the code say and the code does not do.             *)

(* ibm_handler.hpp: the timer checks "if all the threads were collected    *)
(* back" and sets Status "accordingly".                                    *)
CompletedMeansAllBack ==
  status = "Completed" => \A t \in Thread : pc[t] \in {"none", "finished"}
=============================================================================

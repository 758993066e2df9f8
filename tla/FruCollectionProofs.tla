------------------------- MODULE FruCollectionProofs -------------------------
(***************************************************************************)
(* Proofs about FruCollection, for every set of FRUs, every number of      *)
(* threads, requests, retries and restarts, and every choice of faults.    *)
(***************************************************************************)
EXTENDS FruCollection, FiniteSetTheorems, TLAPS

-----------------------------------------------------------------------------
(* Type correctness.                                                       *)

(* Every write to PIM makes a record of a record.                          *)
LEMMA RecordOps ==
  ASSUME NEW f \in Fru, NEW r \in PimRecord,
         NEW s \in CollectionStatus, NEW saw \in BOOLEAN
  PROVE  /\ WithStatus(r, s) \in PimRecord
         /\ Published(f, r) \in PimRecord
         /\ Cleared(f, r, saw) \in PimRecord
         /\ MarkedAbsent(f, r) \in PimRecord
<1>1. r = [status |-> r.status, vpd |-> r.vpd, present |-> r.present]
      /\ r.status \in CollectionStatus /\ r.vpd \in VpdContent
      /\ r.present \in BOOLEAN
  BY DEF PimRecord
<1>2. WithStatus(r, s) \in PimRecord
  BY <1>1 DEF WithStatus, PimRecord
<1>3. Published(f, r) \in PimRecord
  BY <1>1 DEF Published, PimRecord, VpdContent
<1>4. Cleared(f, r, saw) \in PimRecord
  BY <1>1 DEF Cleared, PimRecord, VpdContent, CollectionStatus
<1>5. MarkedAbsent(f, r) \in PimRecord
  BY <1>1 DEF MarkedAbsent, PimRecord
<1> QED BY <1>2, <1>3, <1>4, <1>5

(* A call to PIM that only logs its failure leaves PIM a function of records.*)
LEMMA WritePimType ==
  ASSUME pim \in [Fru -> PimRecord], NEW f \in Fru, NEW r \in PimRecord,
         WritePim(f, r)
  PROVE  pim' \in [Fru -> PimRecord]
BY DEF WritePim

(* A thread only ever moves to a program counter.                          *)
LEMMA MoveType ==
  ASSUME pc \in [Thread -> Pc], NEW t, NEW from, NEW to \in Pc,
         Move(t, from, to)
  PROVE  pc' \in [Thread -> Pc]
BY DEF Move

(* A step of a thread keeps the type of everything threads share.          *)
LEMMA ThreadStepType ==
  ASSUME TypeOK, NEW t \in Thread, ThreadStep(t)
  PROVE  TypeOK'
<1> USE CollectionAssumption
<1> USE DEF TypeOK
<1>f. FruOf(t) \in Fru
  BY DEF Thread, FruOf
<1>u. UNCHANGED <<ioVars, envVars>>
  BY DEF ThreadStep
<1>r. ASSUME NEW s \in CollectionStatus, NEW saw \in BOOLEAN
      PROVE /\ WithStatus(pim[FruOf(t)], s) \in PimRecord
            /\ Published(FruOf(t), pim[FruOf(t)]) \in PimRecord
            /\ Cleared(FruOf(t), pim[FruOf(t)], saw) \in PimRecord
            /\ MarkedAbsent(FruOf(t), pim[FruOf(t)]) \in PimRecord
  BY <1>f, RecordOps
<1> SUFFICES /\ limit' = limit /\ permits' \in Int /\ activeCount' \in Int
             /\ allCollected' \in BOOLEAN /\ pc' \in [Thread -> Pc]
             /\ sawVpd' \subseteq Thread /\ leaked' \subseteq Thread
             /\ pim' \in [Fru -> PimRecord]
  BY <1>u DEF ioVars, envVars
<1>1. CASE Acquire(t)
  BY <1>1, MoveType DEF Acquire, Pc, HoldingPc
<1>2. CASE CountUp(t)
  BY <1>2, MoveType DEF CountUp, Pc, HoldingPc
<1>3. CASE SetInProgress(t)
  <2>1. pc' \in [Thread -> Pc]
    BY <1>3, MoveType DEF SetInProgress, Pc, HoldingPc
  <2>2. pim' \in [Fru -> PimRecord]
    BY <1>3, <1>f, <1>r, WritePimType DEF SetInProgress, CollectionStatus
  <2> QED BY <1>3, <2>1, <2>2 DEF SetInProgress
<1>4. CASE ParseVpdFile(t)
  BY <1>4, MoveType DEF ParseVpdFile, Pc, HoldingPc
<1>5. CASE Publish(t)
  <2>1. pc' \in [Thread -> Pc]
    BY <1>5, MoveType DEF Publish, Pc, HoldingPc
  <2>2. pim' \in [Fru -> PimRecord]
    BY <1>5, <1>f, <1>r DEF Publish, CollectionStatus
  <2> QED BY <1>5, <2>1, <2>2 DEF Publish
<1>6. CASE ReadTree(t)
  BY <1>6, MoveType DEF ReadTree, Pc, HoldingPc
<1>7. CASE ClearTree(t)
  <2>1. pc' \in [Thread -> Pc]
    BY <1>7, MoveType DEF ClearTree, Pc, HoldingPc
  <2>2. Cleared(FruOf(t), pim[FruOf(t)], t \in sawVpd) \in PimRecord
    <3>1. pim[FruOf(t)] \in PimRecord
      BY <1>f
    <3>2. ASSUME NEW saw \in BOOLEAN
          PROVE  Cleared(FruOf(t), pim[FruOf(t)], saw) \in PimRecord
      BY <1>r DEF CollectionStatus
    <3>3. (t \in sawVpd) \in BOOLEAN
      OBVIOUS
    <3> QED BY ONLY <3>2, <3>3, Zenon
  <2>3. pim' \in [Fru -> PimRecord]
    BY <1>7, <1>f, <2>2, WritePimType DEF ClearTree
  <2> QED BY <1>7, <2>1, <2>3 DEF ClearTree
<1>8. CASE SetCompleted(t)
  <2>1. pc' \in [Thread -> Pc]
    BY <1>8, MoveType DEF SetCompleted, Pc, HoldingPc
  <2>2. pim' \in [Fru -> PimRecord]
    BY <1>8, <1>f, <1>r, WritePimType DEF SetCompleted, CollectionStatus
  <2> QED BY <1>8, <2>1, <2>2 DEF SetCompleted
<1>9. CASE SetFailed(t)
  <2>1. pc' \in [Thread -> Pc] /\ leaked' \subseteq Thread
    BY <1>9, MoveType DEF SetFailed, Pc, HoldingPc
  <2>2. pim' \in [Fru -> PimRecord]
    BY <1>9, <1>f, <1>r, WritePimType DEF SetFailed, CollectionStatus
  <2> QED BY <1>9, <2>1, <2>2 DEF SetFailed
<1>10. CASE SetAbsent(t)
  <2>1. pc' \in [Thread -> Pc]
    BY <1>10, MoveType DEF SetAbsent, Pc, HoldingPc
  <2>2. pim' \in [Fru -> PimRecord]
    BY <1>10, <1>f, <1>r, WritePimType DEF SetAbsent, CollectionStatus
  <2> QED BY <1>10, <2>1, <2>2 DEF SetAbsent
<1>11. CASE Release(t)
  BY <1>11, MoveType DEF Release, Pc, HoldingPc
<1>12. CASE CountDown(t)
  BY <1>12, MoveType DEF CountDown, Pc
<1>13. CASE CheckCount(t)
  BY <1>13, MoveType DEF CheckCount, Pc
<1> QED
  BY <1>1, <1>2, <1>3, <1>4, <1>5, <1>6, <1>7, <1>8, <1>9, <1>10, <1>11,
     <1>12, <1>13 DEF ThreadStep

(* What a new process starts with is well typed.                           *)
LEMMA InitType ==
  ASSUME Init
  PROVE  TypeOK
<1> USE CollectionAssumption
<1>1. pim \in [Fru -> PimRecord]
  <2>1. Primed \in PimRecord /\ Leftover \in PimRecord
    BY DEF PimRecord, Primed, Leftover, CollectionStatus, VpdContent
  <2> QED BY <2>1 DEF Init
<1>2. Idle \in [Thread -> Pc]
  BY DEF Idle, Pc
<1>3. chassisOn \in BOOLEAN
  BY DEF Init
<1>4. ThreadLimit(chassisOn) \in {1, MaxThreads}
  BY DEF ThreadLimit
<1>5. {1, MaxThreads} \subseteq Int
  OBVIOUS
<1>6. limit \in {1, MaxThreads} /\ permits \in Int
  BY <1>4, <1>5 DEF Init
<1>7. /\ status \in {"NotStarted", "InProgress", "Completed"}
      /\ round \in 0 .. MaxRounds /\ retry \in 0 .. MaxRetry
      /\ restarts \in 0 .. MaxRestarts /\ activeCount \in Int
  BY DEF Init
<1>8. /\ io \in {"idle", "spawning"} /\ timer \in {"idle", "armed"}
      /\ toVisit \subseteq Fru /\ failedPaths \subseteq Fru
      /\ allCollected \in BOOLEAN
      /\ sawVpd \subseteq Thread /\ leaked \subseteq Thread
  BY DEF Init
<1>9. pc \in [Thread -> Pc]
  BY <1>2 DEF Init
<1> QED BY <1>1, <1>3, <1>6, <1>7, <1>8, <1>9 DEF TypeOK

(* TypeOK is inductive: every variable keeps its type whatever the         *)
(* environment does.                                                       *)
THEOREM TypeCorrect == Spec => []TypeOK
<1> USE CollectionAssumption
<1>1. Init => TypeOK
  BY InitType
<1>2. TypeOK /\ [Next]_vars => TypeOK'
  <2> SUFFICES ASSUME TypeOK, [Next]_vars PROVE TypeOK'
    OBVIOUS
  <2>1. CASE CollectAllFRUVPD
    BY <2>1 DEF CollectAllFRUVPD, TypeOK, workerVars, envVars
  <2>2. ASSUME NEW f \in Fru, VisitFru(f) PROVE TypeOK'
    <3>1. pc' \in [Thread -> Pc]
      BY <2>2 DEF VisitFru, TypeOK, Pc
    <3> QED BY <2>2, <3>1 DEF VisitFru, TypeOK, envVars
  <2>3. CASE StartTimer
    BY <2>3 DEF StartTimer, TypeOK, workerVars, envVars
  <2>4. CASE TimerDone
    BY <2>4 DEF TimerDone, TypeOK, workerVars, envVars
  <2>5. CASE TimerRetry
    BY <2>5 DEF TimerRetry, TypeOK, workerVars, envVars
  <2>6. CASE TimerGivesUp
    BY <2>6 DEF TimerGivesUp, TypeOK, workerVars, envVars
  <2>7. ASSUME NEW t \in Thread, ThreadStep(t) PROVE TypeOK'
    BY <2>7, ThreadStepType
  <2>8. CASE ChassisChange
    BY <2>8 DEF ChassisChange, TypeOK, ioVars, workerVars
  <2>9. CASE Restart
    <3>1. Idle \in [Thread -> Pc]
      BY DEF Idle, Pc
    <3>2. limit' \in {1, MaxThreads} /\ permits' \in Int
      BY <2>9 DEF Restart, ThreadLimit
    <3>3. /\ status' \in {"NotStarted", "InProgress", "Completed"}
          /\ round' \in 0 .. MaxRounds /\ retry' \in 0 .. MaxRetry
          /\ restarts' \in 0 .. MaxRestarts
      BY <2>9 DEF Restart, TypeOK
    <3>4. /\ pim' \in [Fru -> PimRecord] 
      BY <2>9 DEF Restart, TypeOK
    <3>5. /\ pc' \in [Thread -> Pc]
      BY <2>9, <3>1 DEF Restart, TypeOK
    <3>6. /\ allCollected' \in BOOLEAN /\ chassisOn' \in BOOLEAN
      BY <2>9 DEF Restart, TypeOK
    <3>7. /\ io' \in {"idle", "spawning"}
          /\ toVisit' \subseteq Fru /\ failedPaths' \subseteq Fru
          /\ timer' \in {"idle", "armed"} /\ activeCount' \in Int
      BY <2>9 DEF Restart, TypeOK
    <3>8. sawVpd' \subseteq Thread /\ leaked' \subseteq Thread
      BY <2>9 DEF Restart, TypeOK
    <3> QED BY <3>2, <3>3, <3>4, <3>5, <3>6, <3>7, <3>8 DEF TypeOK
  <2>10. CASE UNCHANGED vars
    BY <2>10 DEF vars, ioVars, workerVars, envVars, TypeOK
  <2> QED
    BY <2>1, <2>2, <2>3, <2>4, <2>5, <2>6, <2>7, <2>8, <2>9, <2>10
       DEF Next, IoStep
<1> QED BY <1>1, <1>2, PTL DEF Spec

-----------------------------------------------------------------------------
(* The semaphore and the counter.                                          *)
(*                                                                         *)
(* PermitsAccounted and CountIsExact count threads by where they are, so   *)
(* they are inductive only together with two facts: a thread is created    *)
(* once (NewThreads: the loop never names a thread that already exists),   *)
(* and a thread leaks its permit at most once (LeakedPast).                *)

NewThreads ==
  /\ \A t \in Thread : pc[t] # "none" => t[1] <= round
  /\ io = "spawning" =>
       round # 0 /\ \A f \in toVisit : pc[<<round, f>>] = "none"

LeakedPast ==
  \A t \in leaked : pc[t] \in {"returned", "countedDown", "finished"}

Accounting ==
  /\ TypeOK
  /\ NewThreads
  /\ LeakedPast
  /\ PermitsAccounted
  /\ CountIsExact

(* There are finitely many threads, so the sets that are counted have a    *)
(* cardinality.                                                            *)
LEMMA ThreadFinite ==
  /\ IsFiniteSet(Thread)
  /\ \A S \in SUBSET Thread : IsFiniteSet(S) /\ Cardinality(S) \in Nat
<1>1. IsFiniteSet(1 .. MaxRounds)
  BY CollectionAssumption, FS_Interval
<1>2. IsFiniteSet(Thread)
  BY <1>1, FruAssumption, FS_Product DEF Thread
<1>3. ASSUME NEW S \in SUBSET Thread
      PROVE  IsFiniteSet(S) /\ Cardinality(S) \in Nat
  BY <1>2, FS_Subset, FS_CardinalityType
<1> QED BY <1>2, <1>3

(* A move of one thread changes the number of threads in a part of the     *)
(* program by what it enters and what it leaves.                           *)
Enters(p, S) == IF p \in S THEN 1 ELSE 0

LEMMA MoveCounts ==
  ASSUME pc \in [Thread -> Pc], NEW t \in Thread, NEW from, NEW to \in Pc,
         Move(t, from, to), NEW S
  PROVE  Cardinality({u \in Thread : pc'[u] \in S})
           = Cardinality({u \in Thread : pc[u] \in S})
               + Enters(to, S) - Enters(from, S)
<1> DEFINE Old == {u \in Thread : pc[u] \in S}
           New == {u \in Thread : pc'[u] \in S}
<1>1. IsFiniteSet(Old) /\ Cardinality(Old) \in Nat
  BY ThreadFinite
<1> HIDE DEF Old, New
<1> SUFFICES Cardinality(New) = Cardinality(Old) + Enters(to, S) - Enters(from, S)
  BY DEF Old, New
<1>2. pc[t] = from /\ pc' = [pc EXCEPT ![t] = to] /\ pc'[t] = to
  BY DEF Move
<1>3. \A u \in Thread \ {t} : pc'[u] = pc[u]
  BY <1>2
<1>4. CASE to \in S /\ from \in S
  <2>1. New = Old
    BY <1>2, <1>3, <1>4 DEF Old, New
  <2> QED BY <1>1, <1>4, <2>1 DEF Enters
<1>5. CASE to \in S /\ from \notin S
  <2>1. New = Old \cup {t} /\ t \notin Old
    BY <1>2, <1>3, <1>5 DEF Old, New
  <2>2. Cardinality(New) = Cardinality(Old) + 1
    BY <1>1, <2>1, FS_AddElement
  <2> QED BY <1>1, <1>5, <2>2 DEF Enters
<1>6. CASE to \notin S /\ from \in S
  <2>1. New = Old \ {t} /\ t \in Old
    BY <1>2, <1>3, <1>6 DEF Old, New
  <2>2. Cardinality(New) = Cardinality(Old) - 1
    BY <1>1, <2>1, FS_RemoveElement
  <2> QED BY <1>1, <1>6, <2>2 DEF Enters
<1>7. CASE to \notin S /\ from \notin S
  <2>1. New = Old
    BY <1>2, <1>3, <1>7 DEF Old, New
  <2> QED BY <1>1, <1>7, <2>1 DEF Enters
<1> QED BY <1>4, <1>5, <1>6, <1>7

(* The same for the two parts the invariants count, whose sizes are        *)
(* numbers.                                                                *)
LEMMA PartsAfterMove ==
  ASSUME pc \in [Thread -> Pc], NEW t \in Thread, NEW from, NEW to \in Pc,
         Move(t, from, to)
  PROVE  /\ Cardinality(Holders) \in Nat /\ Cardinality(Counted) \in Nat
         /\ Cardinality(Holders') = Cardinality(Holders)
              + Enters(to, HoldingPc) - Enters(from, HoldingPc)
         /\ Cardinality(Counted') = Cardinality(Counted)
              + Enters(to, CountedPc) - Enters(from, CountedPc)
<1>1. Cardinality(Holders) \in Nat /\ Cardinality(Counted) \in Nat
  BY ThreadFinite DEF Holders, Counted
<1>2. Cardinality(Holders') = Cardinality(Holders)
        + Enters(to, HoldingPc) - Enters(from, HoldingPc)
  BY MoveCounts DEF Holders
<1>3. Cardinality(Counted') = Cardinality(Counted)
        + Enters(to, CountedPc) - Enters(from, CountedPc)
  BY MoveCounts DEF Counted
<1> QED BY <1>1, <1>2, <1>3

(* A thread that moves has been created, so it stays one of the requests   *)
(* made so far.                                                            *)
LEMMA MoveKeepsNewThreads ==
  ASSUME TypeOK, NewThreads, NEW t \in Thread, NEW from, NEW to,
         Move(t, from, to), from # "none", UNCHANGED <<round, io, toVisit>>
  PROVE  NewThreads'
<1>1. pc' = [pc EXCEPT ![t] = to] /\ pc[t] # "none"
  BY DEF Move
<1>2. \A u \in Thread : pc'[u] # "none" => u[1] <= round
  BY <1>1 DEF TypeOK, NewThreads
<1>3. ASSUME io = "spawning", NEW f \in toVisit
      PROVE  pc'[<<round, f>>] = "none"
  <2>1. <<round, f>> \in Thread /\ pc[<<round, f>>] = "none"
    BY <1>3, CollectionAssumption DEF TypeOK, NewThreads, Thread
  <2> QED BY <1>1, <2>1 DEF TypeOK
<1> QED BY <1>2, <1>3 DEF NewThreads

(* A step of a thread keeps the books: what it takes from the semaphore or  *)
(* adds to the counter is what its move adds to the threads counted.       *)
LEMMA ThreadStepAccounting ==
  ASSUME Accounting, NEW t \in Thread, ThreadStep(t)
  PROVE  NewThreads' /\ LeakedPast' /\ PermitsAccounted' /\ CountIsExact'
<1> DEFINE H == Cardinality(Holders)
           C == Cardinality(Counted)
           L == Cardinality(leaked)
<1>1. /\ pc \in [Thread -> Pc] /\ leaked \in SUBSET Thread
      /\ permits \in Int /\ activeCount \in Int /\ limit \in Int
      /\ permits >= 0 /\ permits + H + L = limit /\ activeCount = C
  BY CollectionAssumption DEF Accounting, TypeOK, PermitsAccounted, CountIsExact
<1>2. IsFiniteSet(leaked) /\ L \in Nat
  BY <1>1, ThreadFinite
<1>3. UNCHANGED <<round, io, toVisit>>
  BY DEF ThreadStep, ioVars
<1>4. ASSUME NEW from, NEW to \in Pc, Move(t, from, to), from # "none"
      PROVE  /\ NewThreads'
             /\ H \in Nat /\ C \in Nat
             /\ H' = H + Enters(to, HoldingPc) - Enters(from, HoldingPc)
             /\ C' = C + Enters(to, CountedPc) - Enters(from, CountedPc)
  BY <1>1, <1>3, <1>4, MoveKeepsNewThreads, PartsAfterMove DEF Accounting
<1> HIDE DEF H, C, L
(* Moves between two program counters of the same parts.                   *)
<1>5. ASSUME NEW from \in CountedPc \cap HoldingPc,
             NEW to \in CountedPc \cap HoldingPc,
             Move(t, from, to), UNCHANGED <<limit, permits, activeCount, leaked>>
      PROVE  NewThreads' /\ LeakedPast' /\ PermitsAccounted' /\ CountIsExact'
  <2>1. from # "none" /\ to \in Pc
    BY DEF CountedPc, HoldingPc, Pc
  <2>2. NewThreads' /\ H' = H /\ C' = C
    BY <1>4, <1>5, <2>1 DEF Enters
  <2>3. LeakedPast'
    <3>1. t \notin leaked
      BY <1>5 DEF Accounting, LeakedPast, Move, CountedPc, HoldingPc
    <3> QED BY <1>1, <1>5, <3>1 DEF Accounting, LeakedPast, Move
  <2> QED
    BY <1>1, <1>5, <2>2, <2>3 DEF PermitsAccounted, CountIsExact, H, C, L
<1>6. CASE Acquire(t)
  <2>1. /\ Move(t, "created", "acquired") /\ permits > 0
        /\ permits' = permits - 1
        /\ UNCHANGED <<limit, activeCount, leaked>>
    BY <1>6 DEF Acquire
  <2>2. NewThreads' /\ H' = H + 1 /\ C' = C /\ H \in Nat /\ C \in Nat
    BY <1>4, <2>1 DEF Pc, HoldingPc, CountedPc, Enters
  <2>3. LeakedPast'
    <3>1. t \notin leaked
      BY <2>1 DEF Accounting, LeakedPast, Move
    <3> QED BY <1>1, <2>1, <3>1 DEF Accounting, LeakedPast, Move
  <2>4. permits' >= 0 /\ permits' + H' + L = limit
    BY <1>1, <1>2, <2>1, <2>2 DEF H, L
  <2> QED
    BY <1>1, <2>1, <2>2, <2>3, <2>4 DEF PermitsAccounted, CountIsExact, H, C, L
<1>7. CASE CountUp(t)
  <2>1. /\ Move(t, "acquired", "counted") /\ activeCount' = activeCount + 1
        /\ UNCHANGED <<limit, permits, leaked>>
    BY <1>7 DEF CountUp
  <2>2. NewThreads' /\ H' = H /\ C' = C + 1 /\ H \in Nat /\ C \in Nat
    BY <1>4, <2>1 DEF Pc, HoldingPc, CountedPc, Enters
  <2>3. LeakedPast'
    <3>1. t \notin leaked
      BY <2>1 DEF Accounting, LeakedPast, Move
    <3> QED BY <1>1, <2>1, <3>1 DEF Accounting, LeakedPast, Move
  <2> QED
    BY <1>1, <2>1, <2>2, <2>3 DEF PermitsAccounted, CountIsExact, H, C, L
<1>8. CASE SetInProgress(t)
  BY <1>5, <1>8 DEF SetInProgress, CountedPc, HoldingPc
<1>9. CASE ParseVpdFile(t)
  BY <1>5, <1>9 DEF ParseVpdFile, CountedPc, HoldingPc
<1>10. CASE Publish(t)
  BY <1>5, <1>10 DEF Publish, CountedPc, HoldingPc
<1>11. CASE ReadTree(t)
  BY <1>5, <1>11 DEF ReadTree, CountedPc, HoldingPc
<1>12. CASE ClearTree(t)
  BY <1>5, <1>12 DEF ClearTree, CountedPc, HoldingPc
<1>13. CASE SetCompleted(t)
  BY <1>5, <1>13 DEF SetCompleted, CountedPc, HoldingPc
<1>14. CASE SetFailed(t)
  <2>1. CASE UNCHANGED leaked
    <3>1. PICK from \in {"dataErrorReset", "errorReset"} :
            Move(t, from, "failed") \/ Move(t, from, "returned")
      BY <1>14 DEF SetFailed
    <3>2. t \notin leaked
      BY <3>1 DEF Accounting, LeakedPast, Move
    <3>3. Move(t, from, "failed")
      BY <1>14, <2>1, <3>1, <3>2 DEF SetFailed, Move
    <3> QED
      BY <1>5, <1>14, <2>1, <3>3 DEF SetFailed, CountedPc, HoldingPc
  <2>2. CASE /\ Move(t, "dataErrorReset", "returned")
             /\ leaked' = leaked \cup {t}
    <3>1. UNCHANGED <<limit, permits, activeCount>>
      BY <1>14 DEF SetFailed
    <3>2. NewThreads' /\ H' = H - 1 /\ C' = C /\ H \in Nat /\ C \in Nat
      BY <1>4, <2>2 DEF Pc, HoldingPc, CountedPc, Enters
    <3>3. t \notin leaked
      BY <2>2 DEF Accounting, LeakedPast, Move
    <3>4. Cardinality(leaked') = L + 1
      BY <1>2, <2>2, <3>3, FS_AddElement DEF L
    <3>5. LeakedPast'
      BY <1>1, <2>2 DEF Accounting, LeakedPast, Move
    <3>6. permits' + H' + L' = limit'
      BY <1>1, <1>2, <3>1, <3>2, <3>4 DEF L
    <3> QED
      BY <1>1, <3>1, <3>2, <3>5, <3>6
         DEF PermitsAccounted, CountIsExact, H, C, L
  <2> QED BY <1>14, <2>1, <2>2 DEF SetFailed
<1>15. CASE SetAbsent(t)
  BY <1>5, <1>15 DEF SetAbsent, CountedPc, HoldingPc
<1>16. CASE Release(t)
  <2>1. /\ Move(t, "finishing", "returned") /\ permits' = permits + 1
        /\ UNCHANGED <<limit, activeCount, leaked>>
    BY <1>16 DEF Release
  <2>2. NewThreads' /\ H' = H - 1 /\ C' = C /\ H \in Nat /\ C \in Nat
    BY <1>4, <2>1 DEF Pc, HoldingPc, CountedPc, Enters
  <2>3. LeakedPast'
    BY <1>1, <2>1 DEF Accounting, LeakedPast, Move
  <2>4. permits' >= 0 /\ permits' + H' + L = limit
    BY <1>1, <1>2, <2>1, <2>2
  <2> QED
    BY <1>1, <2>1, <2>2, <2>3, <2>4 DEF PermitsAccounted, CountIsExact, H, C, L
<1>17. CASE CountDown(t)
  <2>1. /\ Move(t, "returned", "countedDown") /\ activeCount' = activeCount - 1
        /\ UNCHANGED <<limit, permits, leaked>>
    BY <1>17 DEF CountDown
  <2>2. NewThreads' /\ H' = H /\ C' = C - 1 /\ H \in Nat /\ C \in Nat
    BY <1>4, <2>1 DEF Pc, HoldingPc, CountedPc, Enters
  <2>3. LeakedPast'
    BY <1>1, <2>1 DEF Accounting, LeakedPast, Move
  <2> QED
    BY <1>1, <2>1, <2>2, <2>3 DEF PermitsAccounted, CountIsExact, H, C, L
<1>18. CASE CheckCount(t)
  <2>1. /\ Move(t, "countedDown", "finished")
        /\ UNCHANGED <<limit, permits, activeCount, leaked>>
    BY <1>18 DEF CheckCount
  <2>2. NewThreads' /\ H' = H /\ C' = C /\ H \in Nat /\ C \in Nat
    BY <1>4, <2>1 DEF Pc, HoldingPc, CountedPc, Enters
  <2>3. LeakedPast'
    BY <1>1, <2>1 DEF Accounting, LeakedPast, Move
  <2> QED
    BY <1>1, <2>1, <2>2, <2>3 DEF PermitsAccounted, CountIsExact, H, C, L
<1> QED
  BY <1>6, <1>7, <1>8, <1>9, <1>10, <1>11, <1>12, <1>13, <1>14, <1>15, <1>16,
     <1>17, <1>18 DEF ThreadStep

(* The creation loop adds threads that are not counted yet.                *)
LEMMA VisitFruAccounting ==
  ASSUME Accounting, NEW f \in Fru, VisitFru(f)
  PROVE  NewThreads' /\ LeakedPast' /\ PermitsAccounted' /\ CountIsExact'
<1>1. /\ pc \in [Thread -> Pc] /\ io = "spawning" /\ f \in toVisit
      /\ round # 0 /\ round \in Nat /\ <<round, f>> \in Thread
      /\ \A g \in toVisit : <<round, g>> \in Thread /\ pc[<<round, g>>] = "none"
  BY CollectionAssumption
     DEF Accounting, TypeOK, NewThreads, VisitFru, Thread
<1>2. /\ UNCHANGED <<round, io, limit, permits, activeCount, leaked>>
      /\ toVisit' = toVisit \ {f}
  BY DEF VisitFru
<1>3. CASE UNCHANGED pc
  BY <1>1, <1>2, <1>3
     DEF Accounting, NewThreads, LeakedPast, PermitsAccounted, CountIsExact,
         Holders, Counted
<1>4. CASE pc' = [pc EXCEPT ![<<round, f>>] = "created"]
  <2>1. Move(<<round, f>>, "none", "created") /\ "created" \in Pc
    BY <1>1, <1>4 DEF Move, Pc
  <2>2. /\ Cardinality(Holders') = Cardinality(Holders)
        /\ Cardinality(Counted') = Cardinality(Counted)
    BY <1>1, <2>1, PartsAfterMove DEF Enters, HoldingPc, CountedPc
  <2>3. NewThreads'
    <3>1. \A u \in Thread : pc'[u] # "none" => u[1] <= round
      BY <1>1, <1>4 DEF Accounting, NewThreads
    <3>2. \A g \in toVisit \ {f} : pc'[<<round, g>>] = "none"
      BY <1>1, <1>4
    <3> QED BY <1>1, <1>2, <3>1, <3>2 DEF NewThreads
  <2>4. LeakedPast'
    <3>1. <<round, f>> \notin leaked
      BY <1>1 DEF Accounting, LeakedPast
    <3> QED BY <1>1, <1>2, <1>4, <3>1 DEF Accounting, TypeOK, LeakedPast
  <2> QED
    BY <1>2, <2>2, <2>3, <2>4 DEF Accounting, PermitsAccounted, CountIsExact
<1> QED BY <1>3, <1>4 DEF VisitFru

(* Accounting is inductive: io steps, thread steps, power changes and      *)
(* restarts of the process keep it.                                        *)
LEMMA AccountingStep ==
  ASSUME Accounting, TypeOK', [Next]_vars
  PROVE  Accounting'
<1> SUFFICES NewThreads' /\ LeakedPast' /\ PermitsAccounted' /\ CountIsExact'
  BY DEF Accounting
<1>1. CASE CollectAllFRUVPD
  <2>1. /\ UNCHANGED <<limit, permits, activeCount, pc, leaked>>
        /\ round' = round + 1 /\ toVisit' = Fru
    BY <1>1 DEF CollectAllFRUVPD, workerVars
  <2>2. round \in Nat /\ round' # 0
    BY <2>1, CollectionAssumption DEF Accounting, TypeOK
  <2>3. \A t \in Thread : t[1] \in Int
    BY DEF Thread
  <2>4. \A t \in Thread : pc'[t] # "none" => t[1] <= round'
    BY <2>1, <2>2, <2>3 DEF Accounting, NewThreads
  <2>5. \A f \in Fru : pc'[<<round', f>>] = "none"
    <3> SUFFICES ASSUME NEW f \in Fru PROVE pc'[<<round', f>>] = "none"
      OBVIOUS
    <3>1. <<round', f>> \in Thread
      BY <1>1, <2>1, <2>2, CollectionAssumption DEF CollectAllFRUVPD, Thread
    <3> QED BY <2>1, <2>2, <3>1 DEF Accounting, NewThreads
  <2> QED
    BY <2>1, <2>2, <2>4, <2>5
       DEF Accounting, NewThreads, LeakedPast, PermitsAccounted, CountIsExact,
           Holders, Counted
<1>2. ASSUME NEW f \in Fru, VisitFru(f)
      PROVE  NewThreads' /\ LeakedPast' /\ PermitsAccounted' /\ CountIsExact'
  BY <1>2, VisitFruAccounting
(* The other steps of the io thread, and of the environment, leave the     *)
(* threads alone.                                                          *)
<1>3. ASSUME UNCHANGED <<workerVars, round, toVisit>>, io' \in {io, "idle"}
      PROVE  NewThreads' /\ LeakedPast' /\ PermitsAccounted' /\ CountIsExact'
  BY <1>3 DEF workerVars, Accounting, NewThreads, LeakedPast, PermitsAccounted,
              CountIsExact, Holders, Counted
<1>4. CASE StartTimer \/ TimerDone \/ TimerRetry \/ TimerGivesUp
  BY <1>3, <1>4 DEF StartTimer, TimerDone, TimerRetry, TimerGivesUp
<1>5. ASSUME NEW t \in Thread, ThreadStep(t)
      PROVE  NewThreads' /\ LeakedPast' /\ PermitsAccounted' /\ CountIsExact'
  BY <1>5, ThreadStepAccounting
<1>6. CASE ChassisChange
  BY <1>3, <1>6 DEF ChassisChange, ioVars
<1>7. CASE Restart
  <2>1. /\ permits' = limit' /\ activeCount' = 0 /\ leaked' = {}
        /\ pc' = Idle /\ io' = "idle"
    BY <1>7 DEF Restart
  <2>2. Holders' = {} /\ Counted' = {}
    BY <2>1 DEF Holders, Counted, Idle, HoldingPc, CountedPc
  <2>3. limit' \in Nat
    BY CollectionAssumption DEF TypeOK
  <2> QED
    BY <2>1, <2>2, <2>3, FS_EmptySet
       DEF NewThreads, LeakedPast, PermitsAccounted, CountIsExact, Idle
<1>8. CASE UNCHANGED vars
  BY <1>3, <1>8 DEF vars, ioVars
<1> QED
  BY <1>1, <1>2, <1>4, <1>5, <1>6, <1>7, <1>8 DEF Next, IoStep

(* The books of the semaphore and of the counter hold in every state.      *)
THEOREM AccountingCorrect == Spec => []Accounting
<1>1. Init => Accounting
  <2> SUFFICES ASSUME Init PROVE Accounting
    OBVIOUS
  <2>1. TypeOK
    BY InitType
  <2>2. Holders = {} /\ Counted = {}
    BY DEF Init, Holders, Counted, Idle, HoldingPc, CountedPc
  <2>3. limit \in Nat /\ permits = limit /\ activeCount = 0 /\ leaked = {}
    BY <2>1, CollectionAssumption DEF Init, TypeOK
  <2>4. NewThreads
    BY DEF Init, NewThreads, Idle
  <2> QED
    BY <2>1, <2>2, <2>3, <2>4, FS_EmptySet
       DEF Accounting, LeakedPast, PermitsAccounted, CountIsExact
<1>2. Accounting /\ TypeOK' /\ [Next]_vars => Accounting'
  BY AccountingStep
<1> QED BY <1>1, <1>2, TypeCorrect, PTL DEF Spec

(* No permit is created, whatever path a thread takes and whatever fails;   *)
(* those lost are exactly those of the early return.                       *)
THEOREM PermitsCorrect == Spec => []PermitsAccounted
<1>1. Accounting => PermitsAccounted
  BY DEF Accounting
<1> QED BY <1>1, AccountingCorrect, PTL

(* The counter of active threads never differs from their number; in       *)
(* particular it does not wrap below zero.                                 *)
THEOREM CountCorrect == Spec => []CountIsExact
<1>1. Accounting => CountIsExact
  BY DEF Accounting
<1> QED BY <1>1, AccountingCorrect, PTL

-----------------------------------------------------------------------------
(* The flag.                                                               *)

(* What a step of a thread does to the set of threads that are over, and   *)
(* to what the flag depends on.                                            *)
Over(t) == pc[t] \in {"countedDown", "finished"}

LEMMA ThreadStepFlag ==
  ASSUME Accounting, NEW t \in Thread, ThreadStep(t)
  PROVE  /\ UNCHANGED <<ioVars, envVars>>
         /\ pc[t] # "none"
         /\ \A u \in Thread \ {t} : pc'[u] = pc[u]
         /\ \/ /\ ~Over(t) /\ ~Over(t)'
               /\ UNCHANGED allCollected
               /\ activeCount' = activeCount \/ activeCount' # 0
            \/ /\ pc[t] = "returned" /\ pc'[t] = "countedDown"
               /\ UNCHANGED allCollected
            \/ /\ pc[t] = "countedDown" /\ pc'[t] = "finished"
               /\ UNCHANGED activeCount
               /\ allCollected' = (allCollected \/ activeCount = 0)
<1>1. pc \in [Thread -> Pc]
  BY DEF Accounting, TypeOK
<1>2. UNCHANGED <<ioVars, envVars>>
  BY DEF ThreadStep
<1>3. ASSUME NEW from \in HoldingPc \cup {"created"},
             NEW to \in HoldingPc \cup {"returned"}, Move(t, from, to)
      PROVE  /\ pc[t] # "none" /\ ~Over(t) /\ ~Over(t)'
             /\ \A u \in Thread \ {t} : pc'[u] = pc[u]
  BY <1>1, <1>3 DEF Move, HoldingPc, Over
<1>4. CASE Acquire(t)
  BY <1>2, <1>3, <1>4 DEF Acquire, HoldingPc
<1>5. CASE CountUp(t)
  <2>1. activeCount \in Nat
    BY ThreadFinite DEF Accounting, CountIsExact, Counted
  <2>2. activeCount' # 0
    BY <1>5, <2>1 DEF CountUp
  <2> QED BY <1>2, <1>3, <1>5, <2>2 DEF CountUp, HoldingPc
<1>6. CASE SetInProgress(t)
  BY <1>2, <1>3, <1>6 DEF SetInProgress, HoldingPc
<1>7. CASE ParseVpdFile(t)
  BY <1>2, <1>3, <1>7 DEF ParseVpdFile, HoldingPc
<1>8. CASE Publish(t)
  BY <1>2, <1>3, <1>8 DEF Publish, HoldingPc
<1>9. CASE ReadTree(t)
  BY <1>2, <1>3, <1>9 DEF ReadTree, HoldingPc
<1>10. CASE ClearTree(t)
  BY <1>2, <1>3, <1>10 DEF ClearTree, HoldingPc
<1>11. CASE SetCompleted(t)
  BY <1>2, <1>3, <1>11 DEF SetCompleted, HoldingPc
<1>12. CASE SetFailed(t)
  BY <1>2, <1>3, <1>12 DEF SetFailed, HoldingPc
<1>13. CASE SetAbsent(t)
  BY <1>2, <1>3, <1>13 DEF SetAbsent, HoldingPc
<1>14. CASE Release(t)
  BY <1>2, <1>3, <1>14 DEF Release, HoldingPc
<1>15. CASE CountDown(t)
  BY <1>1, <1>2, <1>15 DEF CountDown, Move
<1>16. CASE CheckCount(t)
  BY <1>1, <1>2, <1>16 DEF CheckCount, Move
<1> QED
  BY <1>4, <1>5, <1>6, <1>7, <1>8, <1>9, <1>10, <1>11, <1>12, <1>13, <1>14,
     <1>15, <1>16 DEF ThreadStep

(* The flag is only raised by a thread that is over; and nothing has       *)
(* happened in a process that no request has reached.                      *)
FlagFromThread == allCollected => \E t \in Thread : pc[t] = "finished"
NothingBefore  == status = "NotStarted" => round = 0 /\ io = "idle"

FlagInv ==
  /\ Accounting
  /\ NoLostCompletion
  /\ OneTimer
  /\ FlagFromThread
  /\ NothingBefore

(* FlagInv is inductive, given that the books hold before the step.        *)
LEMMA FlagStep ==
  ASSUME FlagInv, Accounting', [Next]_vars
  PROVE  FlagInv'
<1> SUFFICES NoLostCompletion' /\ OneTimer' /\ FlagFromThread' /\ NothingBefore'
  BY DEF FlagInv
<1>1. ASSUME UNCHANGED workerVars
      PROVE  NoLostCompletion' /\ FlagFromThread'
  BY <1>1 DEF workerVars, FlagInv, NoLostCompletion, FlagFromThread
<1>2. CASE CollectAllFRUVPD
  <2>1. UNCHANGED workerVars
    BY <1>2 DEF CollectAllFRUVPD
  <2>2. OneTimer' /\ NothingBefore'
    BY <1>2, CollectionAssumption
       DEF CollectAllFRUVPD, FlagInv, Accounting, TypeOK, OneTimer, NothingBefore
  <2> QED BY <1>1, <2>1, <2>2
<1>3. ASSUME NEW f \in Fru, VisitFru(f)
      PROVE  NoLostCompletion' /\ OneTimer' /\ FlagFromThread' /\ NothingBefore'
  <2>1. /\ UNCHANGED <<status, round, io, timer, activeCount, allCollected>>
        /\ \/ UNCHANGED pc
           \/ pc' = [pc EXCEPT ![<<round, f>>] = "created"]
    BY <1>3 DEF VisitFru
  <2>2. pc \in [Thread -> Pc] /\ pc[<<round, f>>] = "none"
    BY <1>3 DEF VisitFru, FlagInv, Accounting, TypeOK, NewThreads
  <2>3. \A t \in Thread :
          /\ (pc[t] = "countedDown") <=> (pc'[t] = "countedDown")
          /\ (pc[t] = "finished") <=> (pc'[t] = "finished")
    BY <2>1, <2>2
  <2>4. OneTimer' /\ NothingBefore'
    BY <2>1 DEF FlagInv, OneTimer, NothingBefore
  <2>5. NoLostCompletion'
    BY <2>1, <2>3 DEF FlagInv, NoLostCompletion
  <2>6. FlagFromThread'
    BY <2>1, <2>3 DEF FlagInv, FlagFromThread
  <2> QED BY <2>4, <2>5, <2>6
<1>4. CASE StartTimer
  BY <1>1, <1>4 DEF StartTimer, FlagInv, OneTimer, NothingBefore
<1>5. CASE TimerDone
  BY <1>1, <1>5 DEF TimerDone, FlagInv, OneTimer, NothingBefore
<1>6. CASE TimerRetry
  BY <1>1, <1>6 DEF TimerRetry, FlagInv, OneTimer, NothingBefore
<1>7. CASE TimerGivesUp
  BY <1>1, <1>7 DEF TimerGivesUp, FlagInv, OneTimer, NothingBefore
<1>8. ASSUME NEW t \in Thread, ThreadStep(t)
      PROVE  NoLostCompletion' /\ OneTimer' /\ FlagFromThread' /\ NothingBefore'
  <2>1. OneTimer' /\ NothingBefore'
    BY <1>8, ThreadStepFlag DEF FlagInv, OneTimer, NothingBefore, ioVars
  <2>2. \A u \in Thread \ {t} : pc'[u] = pc[u]
    BY <1>8, ThreadStepFlag DEF FlagInv
  <2>3. CASE /\ ~Over(t) /\ ~Over(t)'
             /\ UNCHANGED allCollected
             /\ activeCount' = activeCount \/ activeCount' # 0
    BY <2>1, <2>2, <2>3 DEF FlagInv, NoLostCompletion, FlagFromThread, Over
  <2>4. CASE /\ pc[t] = "returned" /\ pc'[t] = "countedDown"
             /\ UNCHANGED allCollected
    BY <2>1, <2>2, <2>4 DEF FlagInv, NoLostCompletion, FlagFromThread
  <2>5. CASE /\ pc[t] = "countedDown" /\ pc'[t] = "finished"
             /\ UNCHANGED activeCount
             /\ allCollected' = (allCollected \/ activeCount = 0)
    BY <2>1, <2>2, <2>5 DEF FlagInv, NoLostCompletion, FlagFromThread
  <2> QED BY <1>8, <2>3, <2>4, <2>5, ThreadStepFlag DEF FlagInv
<1>9. CASE ChassisChange
  BY <1>1, <1>9 DEF ChassisChange, ioVars, FlagInv, OneTimer, NothingBefore
<1>10. CASE Restart
  BY <1>10 DEF Restart, Idle, NoLostCompletion, OneTimer, FlagFromThread,
               NothingBefore
<1>11. CASE UNCHANGED vars
  BY <1>1, <1>11 DEF vars, ioVars, FlagInv, OneTimer, NothingBefore
<1> QED
  BY <1>2, <1>3, <1>4, <1>5, <1>6, <1>7, <1>8, <1>9, <1>10, <1>11
     DEF Next, IoStep

(* The flag, the timer and the Status property agree in every state.       *)
THEOREM FlagCorrect == Spec => []FlagInv
<1>1. Init /\ Accounting => FlagInv
  BY DEF Init, Idle, FlagInv, NoLostCompletion, OneTimer, FlagFromThread,
         NothingBefore
<1>2. FlagInv /\ Accounting' /\ [Next]_vars => FlagInv'
  BY FlagStep
<1> QED BY <1>1, <1>2, AccountingCorrect, PTL DEF Spec

(* The last thread to leave sees the counter at zero, although it reads it  *)
(* outside the mutex: no interleaving of the threads leaves the flag down  *)
(* when all that were counted are gone.                                    *)
THEOREM NoCompletionLost == Spec => []NoLostCompletion
<1>1. FlagInv => NoLostCompletion
  BY DEF FlagInv
<1> QED BY <1>1, FlagCorrect, PTL

(* A timer that is waiting is never started again, so its handler never     *)
(* gets operation_aborted.                                                 *)
THEOREM OnlyOneTimer == Spec => []OneTimer
<1>1. FlagInv => OneTimer
  BY DEF FlagInv
<1> QED BY <1>1, FlagCorrect, PTL

-----------------------------------------------------------------------------
(* The refinement of CollectionProgress.                                   *)

Finished == {f \in Fru : \E t \in Thread : FruOf(t) = f /\ pc[t] = "finished"}

(* Every step of the collection is a step of CollectionProgress or leaves  *)
(* its variables alone.                                                    *)
LEMMA ProgressStep ==
  ASSUME FlagInv, [Next]_vars
  PROVE  [Progress!Next]_(Progress!vars)
<1> USE DEF Progress!vars, Progress!Next, Finished
<1>1. ASSUME UNCHANGED pc PROVE Finished' = Finished
  BY <1>1
<1>2. CASE CollectAllFRUVPD
  <2>1. Progress!Request
    BY <1>1, <1>2 DEF CollectAllFRUVPD, workerVars, Progress!Request
  <2> QED BY <2>1
<1>3. ASSUME NEW f \in Fru, VisitFru(f)
      PROVE  UNCHANGED <<status, Finished>>
  <2>1. pc \in [Thread -> Pc] /\ pc[<<round, f>>] = "none"
    BY <1>3 DEF VisitFru, FlagInv, Accounting, TypeOK, NewThreads
  <2>2. \A t \in Thread : (pc[t] = "finished") <=> (pc'[t] = "finished")
    BY <1>3, <2>1 DEF VisitFru
  <2> QED BY <1>3, <2>2 DEF VisitFru
<1>4. CASE StartTimer \/ TimerRetry \/ TimerGivesUp
  BY <1>1, <1>4 DEF StartTimer, TimerRetry, TimerGivesUp, workerVars
<1>5. CASE TimerDone
  <2>1. status = "InProgress"
    BY <1>5 DEF TimerDone, FlagInv, OneTimer
  <2>2. Finished # {}
    BY <1>5 DEF TimerDone, FlagInv, FlagFromThread, Thread, FruOf
  <2>3. Progress!Announce
    BY <1>1, <1>5, <2>1, <2>2 DEF TimerDone, workerVars, Progress!Announce
  <2> QED BY <2>3
<1>6. ASSUME NEW t \in Thread, ThreadStep(t)
      PROVE  \/ UNCHANGED <<status, Finished>>
             \/ FruOf(t) \in Fru /\ Progress!Collect(FruOf(t))
  <2>1. /\ UNCHANGED status /\ pc[t] # "none"
        /\ \A u \in Thread \ {t} : pc'[u] = pc[u]
        /\ FruOf(t) \in Fru
    BY <1>6, ThreadStepFlag DEF FlagInv, ioVars, Thread, FruOf
  <2>2. \/ pc[t] # "finished" /\ pc'[t] # "finished"
        \/ pc'[t] = "finished"
    BY <1>6, ThreadStepFlag DEF FlagInv, Over
  <2>3. CASE pc[t] # "finished" /\ pc'[t] # "finished"
    <3>1. \A u \in Thread : (pc[u] = "finished") <=> (pc'[u] = "finished")
      BY <2>1, <2>3
    <3>2. Finished' = Finished
      BY <3>1
    <3> QED BY <2>1, <3>2
  <2>4. CASE pc'[t] = "finished"
    <3>1. Finished' = Finished \cup {FruOf(t)}
      BY <2>1, <2>4
    <3>2. status # "NotStarted"
      BY <2>1 DEF FlagInv, Accounting, TypeOK, NewThreads, NothingBefore, Thread
    <3>3. Progress!Collect(FruOf(t))
      BY <2>1, <3>1, <3>2 DEF Progress!Collect
    <3> QED BY <2>1, <3>3
  <2> QED BY ONLY <2>2, <2>3, <2>4
<1>7. CASE ChassisChange
  <2>1. UNCHANGED <<status, pc>>
    BY <1>7 DEF ChassisChange, ioVars, workerVars
  <2> QED BY <1>1, <2>1
<1>8. CASE Restart
  <2>1. Finished' = {}
    BY <1>8 DEF Restart, Idle
  <2>2. Progress!StartOver
    BY <1>8, <2>1 DEF Restart, Progress!StartOver
  <2> QED BY <2>2
<1>9. CASE UNCHANGED vars
  <2>1. UNCHANGED <<status, pc>>
    BY <1>9 DEF vars, ioVars, workerVars
  <2> QED BY <1>1, <2>1
<1> QED
  BY <1>2, <1>3, <1>4, <1>5, <1>6, <1>7, <1>8, <1>9 DEF Next, IoStep

(* The collection keeps the promise of CollectionProgress: Completed is     *)
(* only ever announced for a request that was in progress, after some FRU  *)
(* came back, and a request is refused while one is in progress.           *)
THEOREM CollectionKeepsProgress == Spec => KeepsProgress
<1>1. Init => Progress!Init
  BY DEF Init, Idle, Progress!Init
<1>2. FlagInv /\ [Next]_vars => [Progress!Next]_(Progress!vars)
  BY ProgressStep
<1> QED
  BY <1>1, <1>2, FlagCorrect, PTL DEF Spec, KeepsProgress, Progress!Spec

-----------------------------------------------------------------------------
(* The record of a FRU on PIM: what is left there when the threads of the  *)
(* FRU are over, for every interleaving of them, as long as PIM answers.   *)

(* A thread has read what it is about to empty.                            *)
ReadPc == {"emptyRead", "dataErrorRead", "errorRead"}

(* It has emptied it and has yet to write Failed, or the presence.         *)
ResetPc == {"dataErrorReset", "errorReset", "failed"}

(* It has written a final status.                                          *)
WrittenPc == {"failed", "finishing", "returned", "countedDown", "finished"}

(* It has published or emptied the record.                                 *)
StoredPc == {"stored"} \cup ResetPc \cup WrittenPc

Record(t) == pim[FruOf(t)]

(* No other thread of this process has the same FRU.                       *)
Alone(t) == \A u \in Thread : FruOf(u) = FruOf(t) /\ pc[u] # "none" => u = t

(* The FRU has no keywords and is not present.                             *)
Clean(f) == pim[f].vpd = "none" /\ (f \in HandlesPresence => ~pim[f].present)

(* What a thread knows of the record, whoever else works on it: a record   *)
(* that is stale when the thread reads it is emptied by the thread.        *)
NotStale(t) ==
  /\ pc[t] \in ReadPc => t \in sawVpd \/ Record(t).vpd # "stale"
  /\ pc[t] \in StoredPc => Record(t).vpd # "stale"

(* What it knows when it is alone.                                         *)
Undisturbed(t) ==
  /\ pc[t] \in ReadPc => t \in sawVpd \/ Record(t).vpd = "none"
  /\ pc[t] \in ResetPc => Clean(FruOf(t))
  /\ pc[t] \in WrittenPc /\ Record(t).status = "Failed" => Clean(FruOf(t))

Final == {"Completed", "Failed"}

(* The last of the threads of f to write a status wrote a final one.       *)
FinalStatus(f) ==
  Ran(f) # {} /\ (\A t \in Ran(f) : pc[t] \in WrittenPc)
    => pim[f].status \in Final

RecordInv ==
  /\ \A t \in Thread : NotStale(t)
  /\ \A t \in Thread : Alone(t) => Undisturbed(t)
  /\ \A f \in Fru : FinalStatus(f)

-----------------------------------------------------------------------------
(* When PIM answers, every write takes place.                              *)
LEMMA WritePimDone ==
  ASSUME PimReply = {TRUE}, NEW f, NEW r, WritePim(f, r)
  PROVE  pim' = [pim EXCEPT ![f] = r]
BY DEF WritePim

(* What a step of a thread does to its own place and record.               *)
LEMMA ThreadStepRecord ==
  ASSUME TypeOK, PimReply = {TRUE}, NEW t \in Thread, ThreadStep(t)
  PROVE  /\ \A u \in Thread \ {t} :
              pc'[u] = pc[u] /\ (u \in sawVpd' <=> u \in sawVpd)
         /\ \A f \in Fru \ {FruOf(t)} : pim'[f] = pim[f]
         /\ Record(t)'.vpd = "stale" => Record(t).vpd = "stale"
         /\ pc[t] # "none" /\ pc'[t] # "none"
         /\ NotStale(t) => NotStale(t)'
         /\ Undisturbed(t) => Undisturbed(t)'
         /\ pc'[t] \in WrittenPc =>
              \/ Record(t)'.status \in Final
              \/ pc[t] \in WrittenPc /\ Record(t)'.status = Record(t).status
<1>f. FruOf(t) \in Fru
  BY DEF Thread, FruOf
<1>t. /\ pc \in [Thread -> Pc] /\ pim \in [Fru -> PimRecord]
      /\ pim[FruOf(t)] \in PimRecord
  BY <1>f DEF TypeOK
<1> USE <1>f, <1>t, WritePimDone
    DEF Move, Record, NotStale, Undisturbed, Clean, Final, ReadPc, ResetPc,
        WrittenPc, StoredPc, WithStatus, PimRecord, CollectionStatus
<1>1. CASE Acquire(t)
  BY <1>1 DEF Acquire
<1>2. CASE CountUp(t)
  BY <1>2 DEF CountUp
<1>3. CASE SetInProgress(t)
  BY <1>3 DEF SetInProgress
<1>4. CASE ParseVpdFile(t)
  BY <1>4 DEF ParseVpdFile
<1>5. CASE Publish(t)
  <2>1. /\ Move(t, "parsed", "stored")
        /\ pim' = [pim EXCEPT ![FruOf(t)] = Published(FruOf(t), @)]
        /\ UNCHANGED sawVpd
    BY <1>5 DEF Publish
  <2>2. /\ Record(t)'.vpd = "fresh"
        /\ \A f \in Fru \ {FruOf(t)} : pim'[f] = pim[f]
    BY <2>1 DEF Published
  <2> QED BY <2>1, <2>2
<1>6. CASE ReadTree(t)
  BY <1>6 DEF ReadTree
<1>7. CASE ClearTree(t)
  <2>1. /\ pc[t] \in ReadPc /\ pc'[t] \in {"stored", "dataErrorReset", "errorReset"}
        /\ \A u \in Thread \ {t} :
             pc'[u] = pc[u] /\ (u \in sawVpd' <=> u \in sawVpd)
    BY <1>7 DEF ClearTree
  <2>2. pim' = [pim EXCEPT ![FruOf(t)] =
                  Cleared(FruOf(t), pim[FruOf(t)], t \in sawVpd)]
    BY <1>7 DEF ClearTree
  <2>3. /\ Record(t)' = Cleared(FruOf(t), pim[FruOf(t)], t \in sawVpd)
        /\ \A f \in Fru \ {FruOf(t)} : pim'[f] = pim[f]
    BY <2>2
  <2>4. /\ Record(t)'.vpd = IF t \in sawVpd THEN "none" ELSE Record(t).vpd
        /\ FruOf(t) \in HandlesPresence => ~Record(t)'.present
    BY <2>3 DEF Cleared
  <2> QED BY <2>1, <2>3, <2>4
<1>8. CASE SetCompleted(t)
  BY <1>8 DEF SetCompleted
<1>9. CASE SetFailed(t)
  BY <1>9 DEF SetFailed
<1>10. CASE SetAbsent(t)
  BY <1>10 DEF SetAbsent, MarkedAbsent
<1>11. CASE Release(t)
  BY <1>11 DEF Release
<1>12. CASE CountDown(t)
  BY <1>12 DEF CountDown
<1>13. CASE CheckCount(t)
  BY <1>13 DEF CheckCount
<1> QED
  BY <1>1, <1>2, <1>3, <1>4, <1>5, <1>6, <1>7, <1>8, <1>9, <1>10, <1>11,
     <1>12, <1>13 DEF ThreadStep

(* A step of a thread keeps the invariant for the threads of its FRU and   *)
(* for those of the others.                                                *)
LEMMA ThreadStepRecordInv ==
  ASSUME TypeOK, PimReply = {TRUE}, RecordInv, NEW t \in Thread, ThreadStep(t)
  PROVE  RecordInv'
<1>f. \A u \in Thread : FruOf(u) \in Fru
  BY DEF Thread, FruOf
<1>1. /\ \A u \in Thread \ {t} :
           pc'[u] = pc[u] /\ (u \in sawVpd' <=> u \in sawVpd)
      /\ \A f \in Fru \ {FruOf(t)} : pim'[f] = pim[f]
      /\ Record(t)'.vpd = "stale" => Record(t).vpd = "stale"
      /\ pc[t] # "none" /\ pc'[t] # "none"
  BY ThreadStepRecord
<1>2. ASSUME NEW u \in Thread PROVE NotStale(u)'
  <2>1. CASE u = t
    BY <2>1, ThreadStepRecord DEF RecordInv
  <2>2. CASE u # t
    <3>1. Record(u)'.vpd = "stale" => Record(u).vpd = "stale"
      BY <1>f, <1>1 DEF Record
    <3> QED BY <1>1, <2>2, <3>1 DEF RecordInv, NotStale
  <2> QED BY <2>1, <2>2
<1>3. ASSUME NEW u \in Thread, Alone(u)' PROVE Undisturbed(u)'
  <2>1. Alone(u)
    BY <1>1, <1>3 DEF Alone
  <2>2. CASE u = t
    BY <2>1, <2>2, ThreadStepRecord DEF RecordInv
  <2>3. CASE u # t
    <3>1. pim'[FruOf(u)] = pim[FruOf(u)]
      BY <1>f, <1>1, <1>3, <2>3 DEF Alone
    <3> QED BY <1>1, <2>1, <2>3, <3>1
            DEF RecordInv, Undisturbed, Record, Clean
  <2> QED BY <2>2, <2>3
<1>4. ASSUME NEW f \in Fru PROVE FinalStatus(f)'
  <2>1. Ran(f)' = Ran(f)
    BY <1>1 DEF Ran
  <2>2. CASE f # FruOf(t)
    BY <1>1, <2>1, <2>2 DEF RecordInv, FinalStatus, Ran
  <2>3. CASE f = FruOf(t)
    <3>1. t \in Ran(f)
      BY <1>1, <2>3 DEF Ran
    <3>2. pc'[t] \in WrittenPc =>
            \/ pim'[f].status \in Final
            \/ pc[t] \in WrittenPc /\ pim'[f].status = pim[f].status
      BY <2>3, ThreadStepRecord DEF Record
    <3>3. SUFFICES ASSUME \A u \in Ran(f) : pc'[u] \in WrittenPc,
                          pim'[f].status \notin Final
                   PROVE  FALSE
      BY <2>1 DEF FinalStatus
    <3>4. \A u \in Ran(f) : pc[u] \in WrittenPc
      BY <1>1, <3>1, <3>2, <3>3 DEF Ran
    <3> QED BY <3>1, <3>2, <3>3, <3>4 DEF RecordInv, FinalStatus
  <2> QED BY <2>2, <2>3
<1> QED BY <1>2, <1>3, <1>4 DEF RecordInv

(* RecordInv is inductive as long as PIM answers: a new thread only takes  *)
(* away from what the others know.                                         *)
LEMMA RecordStep ==
  ASSUME Accounting, PimReply = {TRUE}, RecordInv, [Next]_vars
  PROVE  RecordInv'
<1>t. TypeOK
  BY DEF Accounting
<1>1. ASSUME UNCHANGED <<pc, pim, sawVpd>> PROVE RecordInv'
  BY <1>1 DEF RecordInv, NotStale, Undisturbed, FinalStatus, Ran, Alone,
              Record, Clean
<1>2. ASSUME NEW f \in Fru, VisitFru(f) PROVE RecordInv'
  <2>1. CASE UNCHANGED pc
    BY <1>1, <1>2, <2>1 DEF VisitFru
  <2>2. CASE pc' = [pc EXCEPT ![<<round, f>>] = "created"]
    <3> DEFINE n == <<round, f>>
    <3>1. UNCHANGED <<pim, sawVpd>> /\ pc[n] = "none"
      BY <1>2 DEF VisitFru, Accounting, NewThreads
    <3>2. pc \in [Thread -> Pc]
      BY <1>t DEF TypeOK
    <3>3. \A u \in Thread :
            /\ u # n => pc'[u] = pc[u]
            /\ u = n => pc'[u] = "created"
      BY <2>2, <3>2
    <3>4. ASSUME NEW u \in Thread PROVE NotStale(u)'
      BY <3>1, <3>3 DEF RecordInv, NotStale, Record, ReadPc, StoredPc, ResetPc,
                        WrittenPc
    <3>5. ASSUME NEW u \in Thread, Alone(u)' PROVE Undisturbed(u)'
      <4>1. Alone(u)
        BY <3>1, <3>3, <3>5 DEF Alone
      <4> QED BY <3>1, <3>3, <4>1 DEF RecordInv, Undisturbed, Record, Clean,
                                      ReadPc, ResetPc, WrittenPc
    <3>6. ASSUME NEW g \in Fru PROVE FinalStatus(g)'
      BY <3>1, <3>3 DEF RecordInv, FinalStatus, Ran, WrittenPc
    <3> QED BY <3>4, <3>5, <3>6 DEF RecordInv
  <2> QED BY <1>2, <2>1, <2>2 DEF VisitFru
<1>3. ASSUME NEW t \in Thread, ThreadStep(t) PROVE RecordInv'
  BY <1>t, <1>3, ThreadStepRecordInv
<1>4. CASE CollectAllFRUVPD \/ StartTimer \/ TimerDone \/ TimerRetry
           \/ TimerGivesUp \/ ChassisChange
  BY <1>1, <1>4 DEF CollectAllFRUVPD, StartTimer, TimerDone, TimerRetry,
                    TimerGivesUp, ChassisChange, workerVars
<1>5. CASE Restart
  BY <1>5 DEF Restart, Idle, RecordInv, NotStale, Undisturbed, FinalStatus,
              Ran, ReadPc, ResetPc, WrittenPc, StoredPc
<1>6. CASE UNCHANGED vars
  BY <1>1, <1>6 DEF vars, workerVars
<1> QED BY <1>2, <1>3, <1>4, <1>5, <1>6 DEF Next, IoStep

(* RecordInv holds in every state as long as PIM answers.                  *)
LEMMA RecordInvariant == Spec => [](PimReply = {TRUE} => RecordInv)
<1>1. Init => (PimReply = {TRUE} => RecordInv)
  BY DEF Init, Idle, RecordInv, NotStale, Undisturbed, FinalStatus, Ran,
         ReadPc, ResetPc, WrittenPc, StoredPc
<1>2. /\ (PimReply = {TRUE} => RecordInv) /\ Accounting /\ [Next]_vars
      => (PimReply = {TRUE} => RecordInv)'
  <2>1. (PimReply = {TRUE})' <=> PimReply = {TRUE}
    BY DEF PimReply
  <2> QED BY <2>1, RecordStep
<1> QED BY <1>1, <1>2, AccountingCorrect, PTL DEF Spec

(* When the threads of a FRU are over its Status is a final one and what a *)
(* previous boot left is gone, however the threads of any number of        *)
(* requests interleaved on it.                                             *)
THEOREM SettledIsFinal == Spec => []SettledFru
<1>1. TypeOK /\ (PimReply = {TRUE} => RecordInv) => SettledFru
  <2> SUFFICES ASSUME TypeOK, RecordInv, NEW f \in Fru, Settled(f)
               PROVE  pim[f].status \in Final /\ pim[f].vpd # "stale"
    BY DEF SettledFru, Final
  <2>1. pim[f].status \in Final
    BY DEF Settled, RecordInv, FinalStatus, WrittenPc
  <2>2. PICK t \in Ran(f) : pc[t] \in StoredPc
    BY DEF Settled, StoredPc, WrittenPc
  <2> QED BY <2>1, <2>2 DEF RecordInv, NotStale, Record, Ran
<1> QED BY <1>1, RecordInvariant, TypeCorrect, PTL

(* A FRU that its only thread found unreadable has no keywords and is not  *)
(* present.                                                                *)
THEOREM FailedIsAlwaysCleared == Spec => []FailedIsCleared
<1>1. TypeOK /\ (PimReply = {TRUE} => RecordInv) => FailedIsCleared
  <2> SUFFICES ASSUME TypeOK, RecordInv, NEW f \in Fru, Settled(f),
                      Cardinality(Ran(f)) = 1, pim[f].status = "Failed"
               PROVE  Clean(f)
    BY DEF FailedIsCleared, Clean
  <2>1. PICK t : Ran(f) = {t}
    <3>1. IsFiniteSet(Ran(f))
      BY ThreadFinite DEF Ran
    <3> QED BY <3>1, FS_Singleton
  <2>2. t \in Thread /\ FruOf(t) = f /\ Alone(t)
    BY <2>1 DEF Ran, Alone
  <2>3. pc[t] \in WrittenPc
    BY <2>1 DEF Settled, WrittenPc
  <2> QED BY <2>2, <2>3 DEF RecordInv, Undisturbed, Record
<1> QED BY <1>1, RecordInvariant, TypeCorrect, PTL
=============================================================================

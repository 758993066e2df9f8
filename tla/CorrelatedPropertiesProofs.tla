---------------------- MODULE CorrelatedPropertiesProofs ----------------------
(***************************************************************************)
(* Proofs about CorrelatedProperties, for any number of holders, of values *)
(* and of writers, every conversion and every choice of faults.            *)
(***************************************************************************)
EXTENDS CorrelatedProperties, FiniteSetTheorems, TLAPS

-----------------------------------------------------------------------------
(* The targets of a signal, and the signals of a write.                    *)

(* s has a change of p to v.                                               *)
Has(s, p, v) == \E i \in DOMAIN s : s[i].of = p /\ s[i].value = v

(* All changes in s are to v.                                              *)
Only(s, v) == \A i \in DOMAIN s : s[i].value = v

(* An injection of 1 .. n, n the number of elements of a finite set, into  *)
(* the set reaches every element.                                          *)
LEMMA ReachesAll ==
  ASSUME NEW S, IsFiniteSet(S), NEW f \in [1 .. Cardinality(S) -> S],
         \A i, j \in 1 .. Cardinality(S) : f[i] = f[j] => i = j
  PROVE  \A x \in S : \E i \in 1 .. Cardinality(S) : f[i] = x
<1> DEFINE n == Cardinality(S)
<1>1. n \in Nat
  BY FS_CardinalityType
<1>2. IsFiniteSet(1 .. n) /\ Cardinality(1 .. n) = n
  BY <1>1, FS_Interval
<1> SUFFICES ASSUME NEW x \in S, \A i \in 1 .. n : f[i] # x
             PROVE  FALSE
  OBVIOUS
<1>3. IsFiniteSet(S \ {x}) /\ Cardinality(S \ {x}) = n - 1
  BY FS_RemoveElement
<1>4. f \in [1 .. n -> S \ {x}]
  OBVIOUS
<1>5. \E i, j \in 1 .. n : i # j /\ f[i] = f[j]
  <2>1. Cardinality(S \ {x}) < Cardinality(1 .. n)
    BY <1>1, <1>2, <1>3
  <2>2. IsFiniteSet(1 .. n) /\ IsFiniteSet(S \ {x}) /\ f \in [1 .. n -> S \ {x}]
    BY <1>2, <1>3, <1>4
  <2> DEFINE D == 1 .. n
             T == S \ {x}
  <2> HIDE DEF n, D, T
  <2>3. /\ IsFiniteSet(D) /\ IsFiniteSet(T) /\ f \in [D -> T]
        /\ Cardinality(T) < Cardinality(D)
    BY <2>1, <2>2 DEF D, T
  <2>4. \E i, j \in D : i # j /\ f[i] = f[j]
    BY ONLY <2>3, FS_PigeonHole
  <2> QED BY <2>4 DEF D
<1> QED BY <1>5

(* There is a sequence of the holders, and it has all of them.             *)
LEMMA HoldersInSequence ==
  /\ SetToSeq(Holder) \in Seq(Holder)
  /\ \A h \in Holder :
       \E i \in DOMAIN SetToSeq(Holder) : SetToSeq(Holder)[i] = h
<1> DEFINE n == Cardinality(Holder)
           f == SetToSeq(Holder)
<1>1. IsFiniteSet(Holder) /\ n \in Nat
  BY CorrelatedAssumption, FS_CardinalityType
<1>2. \E g \in [1 .. n -> Holder] : IsInjective(g)
  BY <1>1, FS_CardinalityType
  DEF ExistsBijection, Bijection, Injection, IsInjective
<1>3. f \in [1 .. n -> Holder] /\ IsInjective(f)
  BY <1>2 DEF SetToSeq
<1>4. \A i, j \in 1 .. n : f[i] = f[j] => i = j
  BY <1>3 DEF IsInjective
<1>5. \A h \in Holder : \E i \in 1 .. n : f[i] = h
  <2> HIDE DEF f
  <2> QED BY <1>1, <1>3, <1>4, ReachesAll
<1>6. f \in Seq(Holder) /\ DOMAIN f = 1 .. n
  BY <1>1, <1>3
<1> QED BY <1>5, <1>6

(* A signal goes to the Asset, or to every holder.                         *)
LEMMA Targets ==
  ASSUME NEW p \in Property
  PROVE  /\ CorrelatedProps(p) \in Seq(Property)
         /\ p \in Holder =>
              \E i \in DOMAIN CorrelatedProps(p) : CorrelatedProps(p)[i] = "asset"
         /\ p = "asset" =>
              \A h \in Holder :
                \E i \in DOMAIN CorrelatedProps(p) : CorrelatedProps(p)[i] = h
<1>1. "asset" \notin Holder
  BY CorrelatedAssumption
<1>2. CASE p = "asset"
  BY <1>1, <1>2, HoldersInSequence DEF CorrelatedProps, Property
<1>3. CASE p # "asset"
  BY <1>3 DEF CorrelatedProps, Property
<1> QED BY <1>2, <1>3

(* A write signals each of the properties it changes, with its value.      *)
LEMMA SignalsType ==
  ASSUME NEW changed \in SUBSET Property, NEW v \in Text,
         NEW s \in Signals(changed, v)
  PROVE  /\ s \in Seq(Change)
         /\ \A p \in changed : Has(s, p, v)
         /\ Only(s, v)
         /\ changed = {} => s = <<>>
<1>1. IsFiniteSet(changed) /\ Cardinality(changed) \in Nat
  <2>1. IsFiniteSet(Holder \cup {"asset"})
    BY CorrelatedAssumption, FS_AddElement
  <2> QED BY <2>1, FS_Subset, FS_CardinalityType DEF Property
<1> DEFINE n == Cardinality(changed)
<1>2. PICK f \in [1 .. n -> changed] :
        /\ \A i, j \in 1 .. n : i # j => f[i] # f[j]
        /\ s = [i \in 1 .. n |-> [of |-> f[i], value |-> v]]
  BY DEF Signals, SetToSeqs
<1>3. \A p \in changed : \E i \in 1 .. n : f[i] = p
  BY <1>1, <1>2, ReachesAll
<1>4. s \in Seq(Change) /\ DOMAIN s = 1 .. n
  <2>1. \A i \in 1 .. n : [of |-> f[i], value |-> v] \in Change
    BY <1>2 DEF Change
  <2>2. n \in Nat
    BY <1>1
  <2> HIDE DEF n
  <2>3. s = [i \in 1 .. n |-> [of |-> f[i], value |-> v]]
    BY <1>2
  <2> QED BY <2>1, <2>2, <2>3
<1>5. changed = {} => n = 0
  BY FS_EmptySet
<1>6. \A p \in changed : Has(s, p, v)
  BY <1>2, <1>3, <1>4 DEF Has
<1>7. Only(s, v)
  BY <1>2, <1>4 DEF Only
<1>8. changed = {} => s = <<>>
  BY <1>2, <1>4, <1>5
<1> QED BY <1>4, <1>6, <1>7, <1>8

(* What a write does: nothing is lost from the queue, and who listens gets *)
(* a signal for everything that changes.                                   *)
LEMMA PublishStep ==
  ASSUME TypeOK, NEW ps \in SUBSET Property, NEW v \in Text, Publish(ps, v)
  PROVE  /\ bus' = [p \in Property |-> IF p \in ps THEN v ELSE bus[p]]
         /\ bus' \in [Property -> Text]
         /\ queue' \in Seq(Change)
         /\ \A p, w : Has(queue, p, w) => Has(queue', p, w)
         /\ registered =>
              \A p \in ps : bus[p] # v => Has(queue', p, v)
         /\ queue' = <<>> => queue = <<>>
         /\ Only(queue, v) => Only(queue', v)
         /\ (\A p \in ps : bus[p] = v) => queue' = queue
         /\ ~registered => queue' = queue
<1> DEFINE changed == {p \in ps : bus[p] # v}
<1>1. PICK s \in Signals(changed, v) :
        queue' = IF registered THEN queue \o s ELSE queue
  BY DEF Publish
<1>2. /\ s \in Seq(Change)
      /\ \A p \in changed : Has(s, p, v)
      /\ Only(s, v)
      /\ changed = {} => s = <<>>
  BY SignalsType
<1>3. queue \in Seq(Change)
  BY DEF TypeOK
<1> HIDE DEF changed
<1>4. /\ queue \o s \in Seq(Change)
      /\ \A p, w : Has(queue, p, w) \/ Has(s, p, w) => Has(queue \o s, p, w)
      /\ queue \o s = <<>> => queue = <<>>
      /\ Only(queue, v) => Only(queue \o s, v)
      /\ s = <<>> => queue \o s = queue
  <2>1. queue \o s \in Seq(Change)
    BY <1>2, <1>3
  <2>2. \A i \in DOMAIN queue : i \in DOMAIN (queue \o s)
                                /\ (queue \o s)[i] = queue[i]
    BY <1>2, <1>3
  <2>3. \A i \in DOMAIN s : Len(queue) + i \in DOMAIN (queue \o s)
                            /\ (queue \o s)[Len(queue) + i] = s[i]
    BY <1>2, <1>3
  <2>4. \A k \in DOMAIN (queue \o s) :
          \/ k \in DOMAIN queue /\ (queue \o s)[k] = queue[k]
          \/ k - Len(queue) \in DOMAIN s
             /\ (queue \o s)[k] = s[k - Len(queue)]
    BY <1>2, <1>3
  <2>5. \A p, w : Has(queue, p, w) \/ Has(s, p, w) => Has(queue \o s, p, w)
    BY <2>2, <2>3 DEF Has
  <2>6. Only(queue, v) => Only(queue \o s, v)
    BY <1>2, <2>4 DEF Only
  <2>7. /\ queue \o s = <<>> => queue = <<>>
        /\ s = <<>> => queue \o s = queue
    BY <1>2, <1>3
  <2> QED BY <2>1, <2>5, <2>6, <2>7
<1>5. /\ bus' = [p \in Property |-> IF p \in ps THEN v ELSE bus[p]]
      /\ bus' \in [Property -> Text]
  BY DEF Publish, TypeOK
<1>6. registered => \A p \in ps : bus[p] # v => Has(queue', p, v)
  BY <1>1, <1>2, <1>4 DEF changed
<1>7. (\A p \in ps : bus[p] = v) => queue' = queue
  BY <1>1, <1>2, <1>4 DEF changed
<1> QED BY <1>1, <1>3, <1>4, <1>5, <1>6, <1>7
-----------------------------------------------------------------------------
(* Type correctness.                                                       *)

(* A callback leaves one write for each target.                            *)
LEMMA TodoType ==
  ASSUME TypeOK, queue # <<>>, NEW todo1,
         todo1 = [i \in DOMAIN CorrelatedProps(Head(queue).of) |->
                    [of |-> CorrelatedProps(Head(queue).of)[i],
                     value |-> Head(queue).value]]
  PROVE  /\ todo1 \in Seq(Change)
         /\ Only(todo1, Head(queue).value)
         /\ Head(queue).of \in Holder => Has(todo1, "asset", Head(queue).value)
         /\ Head(queue).of = "asset" =>
              \A h \in Holder : Has(todo1, h, Head(queue).value)
<1> DEFINE c == Head(queue)
           targets == CorrelatedProps(c.of)
<1>1. c \in Change
  BY DEF TypeOK
<1>2. c.of \in Property /\ c.value \in Text
  BY <1>1 DEF Change
<1>3. /\ targets \in Seq(Property)
      /\ c.of \in Holder => \E i \in DOMAIN targets : targets[i] = "asset"
      /\ c.of = "asset" =>
           \A h \in Holder : \E i \in DOMAIN targets : targets[i] = h
  BY <1>2, Targets
<1>4. todo1 = [i \in DOMAIN targets |-> [of |-> targets[i], value |-> c.value]]
  OBVIOUS
<1> HIDE DEF c, targets
<1>5. todo1 \in Seq(Change) /\ DOMAIN todo1 = DOMAIN targets
  <2>1. \A i \in DOMAIN targets :
          [of |-> targets[i], value |-> c.value] \in Change
    BY <1>2, <1>3 DEF Change
  <2>2. DOMAIN targets = 1 .. Len(targets) /\ Len(targets) \in Nat
    BY <1>3
  <2> QED BY <1>4, <2>1, <2>2
<1>6. \A i \in DOMAIN targets :
        todo1[i].of = targets[i] /\ todo1[i].value = c.value
  BY <1>4
<1>7. /\ Only(todo1, c.value)
      /\ c.of \in Holder => Has(todo1, "asset", c.value)
      /\ c.of = "asset" => \A h \in Holder : Has(todo1, h, c.value)
  BY <1>3, <1>5, <1>6, ZenonT(40) DEF Has, Only
<1> QED BY <1>5, <1>7 DEF c

(* What is taken from a queue is its head; the others stay.                *)
LEMMA TailHas ==
  ASSUME NEW s \in Seq(Change), s # <<>>
  PROVE  /\ Tail(s) \in Seq(Change) /\ Head(s) \in Change
         /\ \A p, v : Has(s, p, v) =>
              Has(Tail(s), p, v) \/ (Head(s).of = p /\ Head(s).value = v)
         /\ \A v : Only(s, v) => Only(Tail(s), v) /\ Head(s).value = v
<1>1. /\ Tail(s) \in Seq(Change) /\ Head(s) \in Change /\ Head(s) = s[1]
      /\ 1 \in DOMAIN s
  OBVIOUS
<1>2. \A i \in DOMAIN s : i = 1 \/ (i - 1 \in DOMAIN Tail(s)
                                    /\ Tail(s)[i - 1] = s[i])
  OBVIOUS
<1>3. \A i \in DOMAIN Tail(s) : i + 1 \in DOMAIN s /\ Tail(s)[i] = s[i + 1]
  OBVIOUS
<1>4. \A p, v : Has(s, p, v) =>
        Has(Tail(s), p, v) \/ (Head(s).of = p /\ Head(s).value = v)
  BY <1>1, <1>2 DEF Has
<1>5. \A v : Only(s, v) => Only(Tail(s), v) /\ Head(s).value = v
  BY <1>1, <1>3 DEF Only
<1> QED BY <1>1, <1>4, <1>5

(* The value a target is written with is a value.                          *)
LEMMA ConvertedType ==
  ASSUME NEW c \in Change, Converted(c) # Invalid
  PROVE  Converted(c) \in Text /\ c.of \in Property
BY CorrelatedAssumption DEF Converted, Change

(* TypeOK is inductive.                                                    *)
LEMMA NextType == TypeOK /\ [Next]_vars => TypeOK'
<1> SUFFICES ASSUME TypeOK, [Next]_vars PROVE TypeOK'
  OBVIOUS
<1>0. MaxWriters \in Nat \ {0} /\ writers \in 0 .. MaxWriters
  BY CorrelatedAssumption DEF TypeOK
<1>1. ASSUME NEW p \in Property, NEW v \in Text, Publish({p}, v), Write,
             missed' = (missed \/ (~registered /\ bus[p] # v)),
             writers' = IF registered /\ (bus[p] # v \/ ~Idle)
                        THEN writers + 1 ELSE writers,
             origin' = [of |-> p, value |-> v]
      PROVE  TypeOK'
  <2>1. bus' \in [Property -> Text] /\ queue' \in Seq(Change)
    BY <1>1, PublishStep
  <2>2. writers' \in 0 .. MaxWriters
    BY <1>0, <1>1 DEF Write
  <2> QED BY <1>1, <2>1, <2>2 DEF Write, TypeOK, Change
<1>2. ASSUME NEW v \in Text, Publish(Property, v), Collect,
             missed' = (missed /\ ~(Idle /\ Decode[v] = v)),
             writers' = IF registered /\ (queue' # queue \/ ~Idle)
                        THEN writers + 1 ELSE writers,
             origin' = [of |-> "asset", value |-> v]
      PROVE  TypeOK'
  <2>1. bus' \in [Property -> Text] /\ queue' \in Seq(Change)
    BY <1>2, PublishStep
  <2>2. writers' \in 0 .. MaxWriters
    BY <1>0, <1>2 DEF Collect
  <2> QED BY <1>2, <2>1, <2>2 DEF Collect, TypeOK, Change, Property
<1>3. CASE RegisterCorrPropCallBack
  BY <1>3 DEF RegisterCorrPropCallBack, TypeOK
<1>4. CASE CorrelatedPropChanged
  <2>1. queue' \in Seq(Change)
    BY <1>4, TailHas DEF CorrelatedPropChanged, TypeOK
  <2>2. todo' \in Seq(Change) /\ missed' \in BOOLEAN
    BY <1>4, TodoType DEF CorrelatedPropChanged, TypeOK
  <2>3. writers' \in 0 .. MaxWriters
    BY <1>0, <1>4 DEF CorrelatedPropChanged, Counted
  <2> QED BY <1>4, <2>1, <2>2, <2>3 DEF CorrelatedPropChanged, TypeOK
<1>5. CASE UpdateCorrelatedProperty
  <2>1. todo' \in Seq(Change) /\ Head(todo) \in Change
    BY <1>5, TailHas DEF UpdateCorrelatedProperty, TypeOK
  <2>2. /\ bus' \in [Property -> Text] /\ queue' \in Seq(Change)
        /\ missed' \in BOOLEAN
    <3>1. CASE Converted(Head(todo)) # Invalid
               /\ Publish({Head(todo).of}, Converted(Head(todo)))
               /\ UNCHANGED missed
      BY <2>1, <3>1, ConvertedType, PublishStep DEF TypeOK
    <3>2. CASE missed' = TRUE /\ UNCHANGED <<bus, queue>>
      BY <3>2 DEF TypeOK
    <3> QED BY <1>5, <3>1, <3>2 DEF UpdateCorrelatedProperty
  <2>3. writers' \in 0 .. MaxWriters
    BY <1>0, <1>5 DEF UpdateCorrelatedProperty, Counted
  <2> QED BY <1>5, <2>1, <2>2, <2>3 DEF UpdateCorrelatedProperty, TypeOK
<1>6. CASE Restart
  <2>1. missed' \in BOOLEAN
    BY <1>6 DEF Restart
  <2>2. 0 \in 0 .. MaxWriters /\ <<>> \in Seq(Change)
    BY <1>0
  <2> QED BY <1>6, <2>1, <2>2 DEF Restart, TypeOK
<1>7. CASE UNCHANGED vars
  BY <1>7 DEF vars, TypeOK
<1>8. CASE Write
  BY <1>1, <1>8 DEF Write
<1>9. CASE Collect
  BY <1>2, <1>9 DEF Collect
<1> QED BY <1>3, <1>4, <1>5, <1>6, <1>7, <1>8, <1>9 DEF Next, Listener

(* Every variable keeps its type, whatever is written and fails.           *)
THEOREM CorrelatedTypeCorrect == Spec => []TypeOK
<1>1. Init => TypeOK
  <2> SUFFICES ASSUME Init PROVE TypeOK
    OBVIOUS
  <2>1. bus \in [Property -> Text] /\ "asset" \in Property
    BY DEF Init, Property
  <2>2. origin \in Change
    BY <2>1 DEF Init, Change
  <2>3. 0 \in 0 .. MaxWriters /\ <<>> \in Seq(Change)
    BY CorrelatedAssumption
  <2> QED BY <2>1, <2>2, <2>3 DEF Init, TypeOK
<1> QED BY <1>1, NextType, PTL DEF Spec
-----------------------------------------------------------------------------
(* Correlated properties remain in sync.                                   *)

(* SyncedWhenIdle says nothing of a listener that is at work.  What is     *)
(* inductive is that a holder is in sync with the Asset, or the signal or  *)
(* the write that brings it there is on its way, with the value that the   *)
(* one or the other side has now.                                          *)
Synced(h) == bus[h] \in {bus["asset"], Decode[bus["asset"]]}

OnItsWay(h) ==
  \/ Has(queue, "asset", bus["asset"])
  \/ Has(queue, h, bus[h])
  \/ Has(todo, h, bus["asset"])
  \/ Has(todo, "asset", bus[h])

SyncInv ==
  /\ ~registered => Idle
  /\ ~missed => \A h \in Holder : Synced(h) \/ OnItsWay(h)

(* A write that is signalled keeps a holder in sync or on its way, and so  *)
(* does the write of a target, which may be what was on its way.           *)
LEMMA PublishSync ==
  ASSUME TypeOK, registered, NEW ps \in SUBSET Property, NEW v \in Text,
         Publish(ps, v),
         \A p, w : Has(todo, p, w) =>
           \/ Has(todo', p, w)
           \/ p \in ps /\ v = IF p = "asset" THEN w ELSE Decode[w],
         NEW h \in Holder, Synced(h) \/ OnItsWay(h)
  PROVE  Synced(h)' \/ OnItsWay(h)'
<1>1. /\ bus' = [p \in Property |-> IF p \in ps THEN v ELSE bus[p]]
      /\ \A p, w : Has(queue, p, w) => Has(queue', p, w)
      /\ \A p \in ps : bus[p] # v => Has(queue', p, v)
  BY PublishStep
<1>2. h \in Property /\ "asset" \in Property /\ h # "asset"
  BY CorrelatedAssumption DEF Property
<1>3. CASE "asset" \in ps /\ bus["asset"] # v
  BY <1>1, <1>2, <1>3 DEF OnItsWay
<1>4. CASE h \in ps /\ bus[h] # v
  BY <1>1, <1>2, <1>4 DEF OnItsWay
<1>5. CASE /\ "asset" \in ps => bus["asset"] = v
           /\ h \in ps => bus[h] = v
  <2>1. bus'["asset"] = bus["asset"] /\ bus'[h] = bus[h]
    BY <1>1, <1>2, <1>5
  <2>2. CASE Has(todo, h, bus["asset"]) /\ ~Has(todo', h, bus["asset"])
    <3>1. h \in ps /\ v = Decode[bus["asset"]]
      BY <1>2, <2>2
    <3> QED BY <1>5, <2>1, <3>1 DEF Synced
  <2>3. CASE Has(todo, "asset", bus[h]) /\ ~Has(todo', "asset", bus[h])
    <3>1. "asset" \in ps /\ v = bus[h]
      BY <2>3
    <3> QED BY <1>5, <2>1, <3>1 DEF Synced
  <2> QED BY <1>1, <2>1, <2>2, <2>3 DEF Synced, OnItsWay
<1> QED BY <1>3, <1>4, <1>5

(* Nothing is on its way to an idle listener.                              *)
LEMMA IdleSync ==
  ASSUME Idle, NEW h, Synced(h) \/ OnItsWay(h)
  PROVE  Synced(h)
BY DEF Idle, OnItsWay, Has

(* SyncInv is inductive.                                                   *)
LEMMA NextSync == TypeOK /\ SyncInv /\ [Next]_vars => SyncInv'
<1> SUFFICES ASSUME TypeOK, SyncInv, [Next]_vars PROVE SyncInv'
  OBVIOUS
<1>1. ASSUME UNCHANGED <<bus, queue, todo, missed>>, registered => registered'
      PROVE  SyncInv'
  BY <1>1 DEF SyncInv, Idle, Synced, OnItsWay
<1>2. CASE Write
  <2>1. PICK p \in Property, v \in Text :
          /\ Publish({p}, v)
          /\ missed' = (missed \/ (~registered /\ bus[p] # v))
    BY <1>2 DEF Write
  <2>2. UNCHANGED <<registered, todo>>
    BY <1>2 DEF Write
  <2>3. CASE registered
    <3>1. ~missed' => ~missed
      BY <2>1
    <3>2. ASSUME ~missed, NEW h \in Holder
          PROVE  Synced(h)' \/ OnItsWay(h)'
      BY <2>1, <2>2, <2>3, <3>2, PublishSync DEF SyncInv
    <3> QED BY <2>2, <2>3, <3>1, <3>2 DEF SyncInv
  <2>4. CASE ~registered
    <3>1. queue' = queue
      BY <2>1, <2>4, PublishStep
    <3>2. ~missed' => ~missed /\ bus[p] = v
      BY <2>1, <2>4
    <3>3. bus[p] = v => bus' = bus
      <4>1. bus' = [q \in Property |-> IF q \in {p} THEN v ELSE bus[q]]
        BY <2>1 DEF Publish
      <4>2. bus \in [Property -> Text]
        BY DEF TypeOK
      <4> QED BY <4>1, <4>2
    <3> QED BY <2>2, <2>4, <3>1, <3>2, <3>3
            DEF SyncInv, Idle, Synced, OnItsWay
  <2> QED BY <2>3, <2>4
<1>3. CASE Collect
  <2>1. PICK v \in Text : Publish(Property, v)
    BY <1>3 DEF Collect
  <2>2. bus' = [p \in Property |-> v] /\ (~registered => queue' = queue)
    BY <2>1 DEF Publish
  <2>3. \A h \in Holder : Synced(h)'
    BY <2>2 DEF Synced, Property
  <2>4. UNCHANGED <<registered, todo>>
    BY <1>3 DEF Collect
  <2> QED BY <2>2, <2>3, <2>4 DEF SyncInv, Idle
<1>4. CASE RegisterCorrPropCallBack
  BY <1>1, <1>4 DEF RegisterCorrPropCallBack
<1>5. CASE CorrelatedPropChanged
  <2>1. /\ todo = <<>> /\ queue # <<>> /\ queue' = Tail(queue)
        /\ UNCHANGED <<bus, registered>> /\ queue \in Seq(Change)
    BY <1>5 DEF CorrelatedPropChanged, TypeOK
  <2>2. registered
    BY <2>1 DEF SyncInv, Idle
  <2>3. ASSUME ~missed', NEW h \in Holder
        PROVE  Synced(h)' \/ OnItsWay(h)'
    <3>1. /\ ~missed
          /\ todo' = [i \in DOMAIN CorrelatedProps(Head(queue).of) |->
                        [of |-> CorrelatedProps(Head(queue).of)[i],
                         value |-> Head(queue).value]]
      BY <1>5, <2>3 DEF CorrelatedPropChanged
    <3>2. /\ Head(queue).of \in Holder =>
               Has(todo', "asset", Head(queue).value)
          /\ Head(queue).of = "asset" =>
               \A g \in Holder : Has(todo', g, Head(queue).value)
      BY <2>1, <3>1, TodoType
    <3>3. \A q, w : Has(queue, q, w) =>
            Has(queue', q, w) \/ (Head(queue).of = q /\ Head(queue).value = w)
      BY <2>1, TailHas
    <3>4. ~Has(todo, h, bus["asset"]) /\ ~Has(todo, "asset", bus[h])
      BY <2>1 DEF Has
    <3>5. Synced(h) \/ OnItsWay(h)
      BY <3>1 DEF SyncInv
    <3> QED BY <2>1, <3>2, <3>3, <3>4, <3>5 DEF Synced, OnItsWay
  <2> QED BY <2>1, <2>2, <2>3 DEF SyncInv
<1>6. CASE UpdateCorrelatedProperty
  <2>1. /\ todo # <<>> /\ todo' = Tail(todo) /\ todo \in Seq(Change)
        /\ UNCHANGED registered
    BY <1>6 DEF UpdateCorrelatedProperty, TypeOK
  <2>2. registered
    BY <2>1 DEF SyncInv, Idle
  <2>3. ASSUME ~missed', NEW h \in Holder
        PROVE  Synced(h)' \/ OnItsWay(h)'
    <3> DEFINE c == Head(todo)
    <3>1. /\ ~missed
          /\ Converted(c) # Invalid
          /\ Publish({c.of}, Converted(c))
      BY <1>6, <2>3 DEF UpdateCorrelatedProperty
    <3>2. Converted(c) \in Text /\ c.of \in Property
      BY <2>1, <3>1, ConvertedType, TailHas
    <3>3. \A p, w : Has(todo, p, w) =>
            \/ Has(todo', p, w)
            \/ /\ p \in {c.of}
               /\ Converted(c) = IF p = "asset" THEN w ELSE Decode[w]
      BY <2>1, TailHas DEF Converted
    <3>4. Synced(h) \/ OnItsWay(h)
      BY <3>1 DEF SyncInv
    <3> HIDE DEF c
    <3> QED BY <2>2, <3>1, <3>2, <3>3, <3>4, PublishSync
  <2> QED BY <2>1, <2>2, <2>3 DEF SyncInv
<1>7. CASE Restart
  <2>1. Idle' /\ UNCHANGED bus /\ (~missed' => ~missed /\ Idle)
    BY <1>7 DEF Restart, Idle
  <2>2. ~missed' => \A h \in Holder : Synced(h)'
    BY <2>1, IdleSync DEF SyncInv, Synced
  <2> QED BY <2>1, <2>2 DEF SyncInv
<1>8. CASE UNCHANGED vars
  BY <1>1, <1>8 DEF vars
<1> QED BY <1>2, <1>3, <1>4, <1>5, <1>6, <1>7, <1>8 DEF Next, Listener

(* When the listener has nothing left to do every holder has the bytes of  *)
(* the Asset, for any number of holders and any crossing of writes.        *)
THEOREM SyncedAlways == Spec => []SyncedWhenIdle
<1>1. Init => SyncInv
  BY DEF Init, SyncInv, Idle, Synced, Property
<1>2. SyncInv => SyncedWhenIdle
  BY IdleSync DEF SyncInv, SyncedWhenIdle, Synced
<1> QED BY <1>1, <1>2, NextSync, CorrelatedTypeCorrect, PTL DEF Spec

-----------------------------------------------------------------------------
(* The echo of a write does not take it back.                              *)

(* The listener is idle exactly when no write is counted, and after one    *)
(* write of a value whose text stands for its bytes nothing else is under  *)
(* way.                                                                    *)
LoneInv ==
  /\ writers = 0 <=> Idle
  /\ writers = 1 /\ Decode[origin.value] = origin.value =>
       /\ bus[origin.of] = origin.value
       /\ Only(queue, origin.value)
       /\ Only(todo, origin.value)

(* A write of somebody else is the only one, or not counted, or one more.  *)
LEMMA WriteLone ==
  ASSUME TypeOK, SyncInv, LoneInv, NEW ps \in SUBSET Property, NEW p \in ps,
         NEW v \in Text, Publish(ps, v), UNCHANGED <<registered, todo>>,
         origin' = [of |-> p, value |-> v],
         \/ /\ registered /\ (queue' # queue \/ ~Idle)
            /\ writers' = writers + 1
         \/ /\ ~registered \/ (queue' = queue /\ Idle)
            /\ UNCHANGED writers
  PROVE  LoneInv'
<1>0. writers \in Nat
  BY DEF TypeOK
<1>1. /\ bus' = [q \in Property |-> IF q \in ps THEN v ELSE bus[q]]
      /\ queue' = <<>> => queue = <<>>
      /\ Only(queue, v) => Only(queue', v)
      /\ ~registered => queue' = queue
  BY PublishStep
<1>2. CASE ~registered \/ (queue' = queue /\ Idle)
  BY <1>0, <1>1, <1>2 DEF LoneInv, SyncInv, Idle
<1>3. CASE registered /\ (queue' # queue \/ ~Idle)
  <2>1. ~Idle' /\ writers' # 0
    BY <1>0, <1>1, <1>3 DEF Idle
  <2>2. CASE Idle
    <3>1. Only(queue', v) /\ Only(todo', v)
      BY <1>1, <2>2 DEF Idle, Only
    <3>2. bus'[p] = v
      BY <1>1
    <3> QED BY <2>1, <3>1, <3>2 DEF LoneInv
  <2>3. CASE ~Idle
    <3>1. writers' # 1
      BY <1>0, <1>3, <2>3 DEF LoneInv
    <3> QED BY <2>1, <3>1 DEF LoneInv
  <2> QED BY <2>2, <2>3
<1> QED BY <1>2, <1>3

(* LoneInv is inductive.                                                   *)
LEMMA NextLone == TypeOK /\ SyncInv /\ LoneInv /\ [Next]_vars => LoneInv'
<1> SUFFICES ASSUME TypeOK, SyncInv, LoneInv, [Next]_vars PROVE LoneInv'
  OBVIOUS
<1>1. CASE Write
  <2>1. PICK p \in Property, v \in Text :
          /\ Publish({p}, v)
          /\ writers' = IF registered /\ (bus[p] # v \/ ~Idle)
                        THEN writers + 1 ELSE writers
          /\ origin' = [of |-> p, value |-> v]
    BY <1>1 DEF Write
  <2>2. UNCHANGED <<registered, todo>>
    BY <1>1 DEF Write
  <2>3. /\ bus[p] = v => queue' = queue
        /\ registered /\ bus[p] # v => Has(queue', p, v)
    <3>1. {p} \in SUBSET Property
      OBVIOUS
    <3>2. /\ registered => \A q \in {p} : bus[q] # v => Has(queue', q, v)
          /\ (\A q \in {p} : bus[q] = v) => queue' = queue
      BY ONLY TypeOK, <2>1, <3>1, PublishStep
    <3> QED BY <3>2
  <2>4. registered /\ bus[p] # v /\ Idle => queue' # queue
    BY <2>3 DEF Idle, Has
  <2> QED BY <2>1, <2>2, <2>3, <2>4, WriteLone
<1>2. CASE Collect
  <2>1. PICK v \in Text :
          /\ Publish(Property, v)
          /\ writers' = IF registered /\ (queue' # queue \/ ~Idle)
                        THEN writers + 1 ELSE writers
          /\ origin' = [of |-> "asset", value |-> v]
    BY <1>2 DEF Collect
  <2>2. UNCHANGED <<registered, todo>> /\ "asset" \in Property
    BY <1>2 DEF Collect, Property
  <2> QED BY <2>1, <2>2, WriteLone
<1>3. CASE RegisterCorrPropCallBack
  BY <1>3 DEF RegisterCorrPropCallBack, LoneInv, Idle
<1>4. ASSUME ~Idle, Counted, UNCHANGED origin,
             writers = 1 /\ Decode[origin.value] = origin.value =>
               /\ bus'[origin.of] = origin.value
               /\ Only(queue', origin.value)
               /\ Only(todo', origin.value)
      PROVE  LoneInv'
  <2>1. writers # 0
    BY <1>4 DEF LoneInv
  <2>2. CASE Idle'
    <3>1. writers' = 0
      BY <1>4, <2>2 DEF Counted, Idle
    <3> QED BY <2>2, <3>1 DEF LoneInv
  <2>3. CASE ~Idle'
    <3>1. writers' = writers
      BY <1>4, <2>3 DEF Counted, Idle
    <3> QED BY <1>4, <2>1, <2>3, <3>1 DEF LoneInv
  <2> QED BY <2>2, <2>3
<1>5. CASE CorrelatedPropChanged
  <2>1. /\ ~Idle /\ Counted /\ UNCHANGED <<bus, origin>>
        /\ queue # <<>> /\ queue \in Seq(Change) /\ queue' = Tail(queue)
    BY <1>5 DEF CorrelatedPropChanged, TypeOK, Idle
  <2>2. todo' = todo \/ Only(todo', Head(queue).value)
    BY <1>5, TodoType DEF CorrelatedPropChanged
  <2>3. \A v : Only(queue, v) => Only(queue', v) /\ Head(queue).value = v
    BY <2>1, TailHas
  <2> QED BY <1>4, <2>1, <2>2, <2>3 DEF LoneInv
<1>6. CASE UpdateCorrelatedProperty
  <2> DEFINE c == Head(todo)
  <2>1. /\ ~Idle /\ Counted /\ UNCHANGED origin
        /\ todo # <<>> /\ todo \in Seq(Change) /\ todo' = Tail(todo)
    BY <1>6 DEF UpdateCorrelatedProperty, TypeOK, Idle
  <2>2. \A v : Only(todo, v) => Only(todo', v) /\ c.value = v
    BY <2>1, TailHas
  <2>3. ASSUME writers = 1, Decode[origin.value] = origin.value
        PROVE  bus'[origin.of] = origin.value /\ Only(queue', origin.value)
    <3>1. /\ bus[origin.of] = origin.value /\ Only(queue, origin.value)
          /\ c.value = origin.value
      BY <2>2, <2>3 DEF LoneInv
    <3>2. Converted(c) = origin.value
      BY <2>3, <3>1 DEF Converted
    <3>3. CASE /\ Converted(c) # Invalid
               /\ Publish({c.of}, Converted(c))
      <4>1. Converted(c) \in Text /\ c.of \in Property
        BY <2>1, <3>3, ConvertedType, TailHas
      <4>2. /\ bus' = [p \in Property |->
                        IF p \in {c.of} THEN Converted(c) ELSE bus[p]]
            /\ Only(queue, Converted(c)) => Only(queue', Converted(c))
        <5>1. {c.of} \in SUBSET Property
          BY <4>1
        <5> HIDE DEF c
        <5> QED BY ONLY TypeOK, <3>3, <4>1, <5>1, PublishStep
      <4>3. origin.of \in Property
        BY DEF TypeOK, Change
      <4> QED BY <3>1, <3>2, <4>2, <4>3
    <3>4. CASE UNCHANGED <<bus, queue>>
      BY <3>1, <3>4
    <3> QED BY <1>6, <3>3, <3>4 DEF UpdateCorrelatedProperty
  <2> QED BY <1>4, <2>1, <2>2, <2>3 DEF LoneInv
<1>7. CASE Restart
  BY <1>7 DEF Restart, LoneInv, Idle
<1>8. CASE UNCHANGED vars
  BY <1>8 DEF vars, LoneInv, Idle
<1> QED BY <1>1, <1>2, <1>3, <1>5, <1>6, <1>7, <1>8 DEF Next, Listener

(* A value that was written while nobody else was writing stays, however   *)
(* many copies of it come back as signals.                                 *)
THEOREM LoneWriteAlwaysStays == Spec => []LoneWriteStays
<1>1. Init => SyncInv /\ LoneInv
  BY DEF Init, SyncInv, LoneInv, Idle, Synced, Property
<1>2. LoneInv => LoneWriteStays
  BY DEF LoneInv, LoneWriteStays
<1> QED BY <1>1, <1>2, NextSync, NextLone, CorrelatedTypeCorrect, PTL DEF Spec
=============================================================================

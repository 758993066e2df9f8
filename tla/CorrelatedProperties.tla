------------------------ MODULE CorrelatedProperties ------------------------
(***************************************************************************)
(* The listener that keeps correlated properties in sync.  Following the   *)
(* configuration, a change of a property of Decorator.Asset (a string) on  *)
(* one object is copied to a keyword (bytes) on the objects that hold it,  *)
(* and a change of that keyword on any of these back to the Asset.  Serial *)
(* number of the system: Asset.SerialNumber of "system" and VSYS.SE of     *)
(* four objects.  For the other pairs there is one holder, the object      *)
(* itself.                                                                 *)
(*                                                                         *)
(* The listener handles one signal at a time on the io thread, with the    *)
(* value the signal carries, and writes each target with a call of its     *)
(* own; its writes are signalled to it as well.  Other properties, and     *)
(* what a client has to do to write one, are left out.                     *)
(***************************************************************************)
EXTENDS Sequences, SequencesExt, Naturals

CONSTANTS
  Holder,      \* the objects whose keyword is correlated with the Asset
  Text,        \* values; bytes are named by their printable form
  Invalid,     \* not a value
  Decode,      \* what convertToBinary makes of a text, or Invalid
  Faults,      \* what may fail, see FaultNames
  MaxWriters   \* bound: writes of others since the listener was idle

FaultNames ==
  { "lookup",    \* the name of the service cannot be found
    "pim",       \* a call to PIM fails
    "restart" }  \* the process ends and is started again

ASSUME CorrelatedAssumption ==
  /\ IsFiniteSet(Holder)
  /\ Invalid \notin Text
  /\ Decode \in [Text -> Text \cup {Invalid}]
  /\ Faults \subseteq FaultNames
  /\ MaxWriters \in Nat \ {0}
  /\ "asset" \notin Holder

Property == Holder \cup {"asset"}
Change   == [of : Property, value : Text]

VARIABLES
  bus,         \* the value of each property on PIM
  registered,  \* the matches of registerCorrPropCallBack exist
  queue,       \* signals not handled yet
  todo         \* the writes left to the callback that runs

(* History.                                                                *)
VARIABLES
  writers,     \* writes of others since the listener was idle
  origin,      \* the last of them
  missed       \* a change was not copied, or was not seen

vars == <<bus, registered, queue, todo, writers, origin, missed>>

Idle == queue = <<>> /\ todo = <<>>

Init ==
  /\ \E v \in Text : bus = [p \in Property |-> v]
  /\ registered = FALSE
  /\ queue = <<>>
  /\ todo = <<>>
  /\ writers = 0
  /\ origin = [of |-> "asset", value |-> bus["asset"]]
  /\ missed = FALSE

-----------------------------------------------------------------------------
(* PIM signals a property whose value changes, to whoever listens.         *)
Signals(changed, value) ==
  {[i \in DOMAIN s |-> [of |-> s[i], value |-> value]] :
     s \in SetToSeqs(changed)}

(* All properties in ps get the value with one call.                       *)
Publish(ps, value) ==
  LET changed == {p \in ps : bus[p] # value} IN
  /\ bus' = [p \in Property |-> IF p \in ps THEN value ELSE bus[p]]
  /\ \E s \in Signals(changed, value) :
       queue' = IF registered THEN queue \o s ELSE queue

(* Somebody else writes one property: a client, or another part of         *)
(* vpd-manager.  What happens before the matches exist is not seen.        *)
Write ==
  /\ writers < MaxWriters
  /\ \E p \in Property, v \in Text :
       /\ Publish({p}, v)
       /\ missed' = (missed \/ (~registered /\ bus[p] # v))
       /\ writers' = IF registered /\ (bus[p] # v \/ ~Idle)
                     THEN writers + 1 ELSE writers
       /\ origin' = [of |-> p, value |-> v]
  /\ UNCHANGED <<registered, todo>>

(* A collection publishes all of them, from the same bytes.                *)
Collect ==
  /\ writers < MaxWriters
  /\ \E v \in Text :
       /\ Publish(Property, v)
       /\ missed' = (missed /\ ~(Idle /\ Decode[v] = v))
       /\ writers' = IF registered /\ (queue' # queue \/ ~Idle)
                     THEN writers + 1 ELSE writers
       /\ origin' = [of |-> "asset", value |-> v]
  /\ UNCHANGED <<registered, todo>>

(* registerCorrPropCallBack, after a collection.  The matches of an        *)
(* earlier registration are replaced.                                      *)
RegisterCorrPropCallBack ==
  /\ registered' = TRUE
  /\ UNCHANGED <<bus, queue, todo, writers, origin, missed>>

-----------------------------------------------------------------------------
(* The listener.                                                           *)

(* History: the listener has nothing left to do.                           *)
Counted == writers' = IF queue' = <<>> /\ todo' = <<>> THEN 0 ELSE writers

(* getCorrelatedProps                                                      *)
CorrelatedProps(p) == IF p = "asset" THEN SetToSeq(Holder) ELSE <<"asset">>

(* Mutant of CorrelatedPropChanged: only the first target is written.      *)
CorrelatedPropChangedFirst ==
  /\ todo = <<>>
  /\ queue # <<>>
  /\ queue' = Tail(queue)
  /\ LET c == Head(queue)
         targets == CorrelatedProps(c.of)
     IN todo' = <<[of |-> Head(targets), value |-> c.value]>>
  /\ UNCHANGED missed
  /\ Counted
  /\ UNCHANGED <<bus, registered, origin>>

(* correlatedPropChangedCallBack: a signal whose sender is not known is    *)
(* dropped.                                                                *)
CorrelatedPropChanged ==
  /\ todo = <<>>
  /\ queue # <<>>
  /\ queue' = Tail(queue)
  /\ LET c == Head(queue)
         targets == CorrelatedProps(c.of)
     IN \/ /\ todo' = [i \in DOMAIN targets |->
                         [of |-> targets[i], value |-> c.value]]
           /\ UNCHANGED missed
        \/ /\ "lookup" \in Faults
           /\ missed' = TRUE
           /\ UNCHANGED todo
  /\ Counted
  /\ UNCHANGED <<bus, registered, origin>>

(* Mutant of Converted: bytes are always shown in hexadecimal.             *)
ConvertedToHex(c) ==
  IF c.of = "asset"
  THEN IF \E t \in Text : t # c.value /\ Decode[t] = c.value
       THEN CHOOSE t \in Text : t # c.value /\ Decode[t] = c.value
       ELSE c.value
  ELSE Decode[c.value]

(* convertToBinary for a keyword; getPrintableValue for the Asset, which   *)
(* names the bytes.                                                        *)
Converted(c) == IF c.of = "asset" THEN c.value ELSE Decode[c.value]

(* Mutant of UpdateCorrelatedProperty: an error of the conversion is not   *)
(* looked at.                                                              *)
UpdateUnchecked ==
  /\ todo # <<>>
  /\ todo' = Tail(todo)
  /\ \/ /\ Publish({Head(todo).of}, Converted(Head(todo)))
        /\ UNCHANGED missed
     \/ /\ "pim" \in Faults
        /\ missed' = TRUE
        /\ UNCHANGED <<bus, queue>>
  /\ Counted
  /\ UNCHANGED <<registered, origin>>

(* Mutant of UpdateCorrelatedProperty: a target that could not be written  *)
(* is tried again.                                                         *)
UpdateUntilDone ==
  /\ todo # <<>>
  /\ LET c == Head(todo)
         v == Converted(c)
     IN \/ /\ v # Invalid
           /\ todo' = Tail(todo)
           /\ Publish({c.of}, v)
           /\ UNCHANGED missed
        \/ /\ v = Invalid \/ "pim" \in Faults
           /\ missed' = TRUE
           /\ UNCHANGED <<bus, queue, todo>>
  /\ Counted
  /\ UNCHANGED <<registered, origin>>

(* updateCorrelatedProperty: a text that is no value, and a call that      *)
(* fails, are logged.                                                      *)
UpdateCorrelatedProperty ==
  /\ todo # <<>>
  /\ todo' = Tail(todo)
  /\ LET c == Head(todo)
         v == Converted(c)
     IN \/ /\ v # Invalid
           /\ Publish({c.of}, v)
           /\ UNCHANGED missed
        \/ /\ v = Invalid \/ "pim" \in Faults
           /\ missed' = TRUE
           /\ UNCHANGED <<bus, queue>>
  /\ Counted
  /\ UNCHANGED <<registered, origin>>

Restart ==
  /\ "restart" \in Faults
  /\ registered' = FALSE
  /\ missed' = (missed \/ ~Idle)
  /\ queue' = <<>>
  /\ todo' = <<>>
  /\ writers' = 0
  /\ UNCHANGED <<bus, origin>>

Listener == CorrelatedPropChanged \/ UpdateCorrelatedProperty

Next ==
  \/ Write
  \/ Collect
  \/ RegisterCorrPropCallBack
  \/ Listener
  \/ Restart

(* The io thread goes on with the signals it has.                          *)
Spec == Init /\ [][Next]_vars /\ WF_vars(Listener)

-----------------------------------------------------------------------------
(* Properties                                                              *)

(* The one type invariant.                                                 *)
TypeOK ==
  /\ bus \in [Property -> Text]
  /\ registered \in BOOLEAN
  /\ queue \in Seq(Change)
  /\ todo \in Seq(Change)
  /\ writers \in 0 .. MaxWriters
  /\ origin \in Change
  /\ missed \in BOOLEAN

(* Correlated properties "remain in sync" (listener.hpp): when the         *)
(* listener has nothing left to do, every holder has the bytes of the      *)
(* Asset, whatever was written on either side, in whatever order and       *)
(* while whatever signals were under way.  Excused are changes that the    *)
(* listener could not see or copy.                                         *)
SyncedWhenIdle ==
  registered /\ Idle /\ ~missed
     => \A h \in Holder : bus[h] \in {bus["asset"], Decode[bus["asset"]]}

(* The copies the listener makes, which come back to it as signals, do not *)
(* take back what somebody else wrote while nobody else was writing, if    *)
(* the text of the value stands for its bytes.                             *)
LoneWriteStays ==
  writers = 1 /\ Decode[origin.value] = origin.value
     => bus[origin.of] = origin.value

(* The echo of a write dies out, unless there is another one under way:    *)
(* two that cross each other, one on each side, are exchanged for ever.    *)
EchoEnds == writers = 1 ~> (Idle \/ writers > 1)
=============================================================================

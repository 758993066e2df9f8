------------------------- MODULE CollectionProgress -------------------------
(***************************************************************************)
(* What a D-Bus client may rely on when it watches the Status property of  *)
(* vpd-manager (wait-vpd-parser polls it, vpd-tool and the BMC state       *)
(* manager read it): the life cycle of the property, and the little it     *)
(* says about the collection behind it.                                    *)
(***************************************************************************)
CONSTANT Fru

VARIABLES
  status,      \* value of Status on xyz.openbmc_project.Common.Progress
  collected    \* FRUs some collection attempt of this process is over for

vars == <<status, collected>>

TypeOK ==
  /\ status \in {"NotStarted", "InProgress", "Completed"}
  /\ collected \subseteq Fru

Init ==
  /\ status = "NotStarted"
  /\ collected = {}

(* A request is accepted unless one is already under way.                  *)
Request ==
  /\ status # "InProgress"
  /\ status' = "InProgress"
  /\ UNCHANGED collected

(* FRUs are collected one at a time; a late thread may finish after the    *)
(* status has moved on.                                                    *)
Collect(f) ==
  /\ status # "NotStarted"
  /\ collected' = collected \cup {f}
  /\ UNCHANGED status

(* Completed is announced once, for a collection that was under way and    *)
(* that some FRU has come back from.                                       *)
Announce ==
  /\ status = "InProgress"
  /\ collected # {}
  /\ status' = "Completed"
  /\ UNCHANGED collected

(* The service is restarted by systemd and starts over.                    *)
StartOver ==
  /\ status' = "NotStarted"
  /\ collected' = {}

Next ==
  \/ Request
  \/ \E f \in Fru : Collect(f)
  \/ Announce
  \/ StartOver

Spec == Init /\ [][Next]_vars
=============================================================================

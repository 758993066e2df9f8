---------------------------- MODULE MCIpzUpdate ------------------------------
(***************************************************************************)
(* An instance of IpzUpdate for TLC: two records, one with a keyword whose *)
(* length needs its high byte, and data that looks like the last keyword.  *)
(***************************************************************************)
EXTENDS IpzUpdate

CONSTANTS VSYS, UTIL, LXR0, BR, PoundD, TM, D0, Zero, X

TwoBytes == {PoundD}

TwoRecords ==
  << [name |-> VSYS,
      keywords |-> << [name |-> BR, data |-> <<Zero>>],
                      [name |-> PoundD, data |-> <<Zero, Zero, Zero>>],
                      [name |-> TM, data |-> <<Zero, Zero>>] >>],
     [name |-> UTIL,
      keywords |-> << [name |-> D0, data |-> <<Zero>>] >>] >>

AllNames == {RT, PT, PF, Vtoc, VSYS, UTIL, LXR0, BR, PoundD, TM, D0}

AllBytes == {Zero, X, PF, TM}

AllTargets ==
  {[record |-> VSYS, keyword |-> n] : n \in {BR, PoundD, TM, D0, RT}}
    \cup {[record |-> r, keyword |-> D0] : r \in {UTIL, LXR0, Vtoc}}

SomeValues == {<<>>, <<X>>, <<X, PF>>, <<PF, TM, X, X>>}

AllFaults == {"ecc", "eeprom"}
=============================================================================

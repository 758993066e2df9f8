------------------------------ MODULE IpzRecord ------------------------------
(***************************************************************************)
(* How vpd-manager finds its way in VPD of the IPZ format.  The content of *)
(* an EEPROM is a sequence of cells: a name, a number, a byte of data, an  *)
(* entry of the table of contents, or the ECC of a record, which stands    *)
(* for the content it was made for.  The first cell points to the VTOC     *)
(* record; its PT keyword has one entry for every record.  A record is     *)
(*                                                                         *)
(*     id  RT 1 name   keyword length data   ...   keyword length data  PF *)
(*                                                                         *)
(* and the length of a keyword is one byte, or two, low byte first, when   *)
(* the name of the keyword begins with '#'.                                *)
(***************************************************************************)
EXTENDS Integers, Sequences

CONSTANTS
  Id, RT, PT, PF,  \* large resource id, names of the reserved keywords
  Vtoc,            \* name of the VTOC record
  Pound,           \* names of keywords that begin with '#'
  ByteSize         \* 256

ASSUME IpzAssumption ==
  /\ ByteSize \in Nat \ {0}
  /\ {RT, PT, PF} \cap Pound = {}
  /\ PF \notin {RT, PT}

-----------------------------------------------------------------------------
(* The walk along the keywords of a record; p is where a name is.          *)

SizeAt(mem, p) ==
  IF mem[p] \in Pound THEN mem[p + 1] + ByteSize * mem[p + 2] ELSE mem[p + 1]

DataAt(mem, p) == IF mem[p] \in Pound THEN p + 3 ELSE p + 2

NextKeyword(mem, p) == DataAt(mem, p) + SizeAt(mem, p)

ValueAt(mem, p) ==
  SubSeq(mem, DataAt(mem, p), DataAt(mem, p) + SizeAt(mem, p) - 1)

(* Where the walk from a name at p on is after i steps.                    *)
Walk(mem, p) ==
  LET at[i \in 0 .. Len(mem)] ==
        IF i = 0 THEN p ELSE NextKeyword(mem, at[i - 1])
  IN at

(* The steps it makes, to the first of the names it looks for.             *)
Steps(mem, p, names) ==
  CHOOSE i \in 0 .. Len(mem) :
    /\ mem[Walk(mem, p)[i]] \in names
    /\ \A j \in 0 .. i - 1 : mem[Walk(mem, p)[j]] \notin names

(* What a parse gets from the record at an offset: all keywords, RT too,   *)
(* the first one of those with the same name.                              *)
ReadKeywords(mem, offset) ==
  LET at == {Walk(mem, offset + 1)[i] :
               i \in 0 .. Steps(mem, offset + 1, {PF}) - 1}
  IN [n \in {mem[p] : p \in at} |->
        ValueAt(mem, CHOOSE p \in at :
                       mem[p] = n /\ \A q \in at : mem[q] = n => p <= q)]

(* Mutant of FindKeyword: the name is searched for, data not skipped.      *)
FindKeywordByName(mem, offset, n) ==
  LET at == {p \in offset + 4 .. Len(mem) : mem[p] \in {PF, n}}
      first == CHOOSE p \in at : \A q \in at : p <= q
  IN IF mem[first] = PF THEN 0 ELSE first

(* Where a read or a write of one keyword finds it: behind the name of the *)
(* record, so never RT, and 0 when PF is met first.                        *)
FindKeyword(mem, offset, n) ==
  LET p == Walk(mem, offset + 4)[Steps(mem, offset + 4, {PF, n})]
  IN IF mem[p] = PF THEN 0 ELSE p

-----------------------------------------------------------------------------
(* The table of contents.                                                  *)

Entries(mem) ==
  LET pt == ValueAt(mem, FindKeyword(mem, mem[1], PT))
  IN {pt[i] : i \in DOMAIN pt}

InTable(mem, r) == \E e \in Entries(mem) : e.name = r

Details(mem, r) == CHOOSE e \in Entries(mem) : e.name = r

Content(mem, e) == SubSeq(mem, e.offset, e.offset + e.length - 1)

(* vpdecc finds that the ECC was made for this content.                    *)
RecordEccCheck(mem, e) == mem[e.ecc] = Content(mem, e)

(* The value of one keyword; nothing when it is not found.                 *)
ReadKeywordFromHardware(mem, r, n) ==
  LET p == FindKeyword(mem, Details(mem, r).offset, n)
  IN IF p = 0 THEN <<>> ELSE ValueAt(mem, p)

(* Names of the records a parse reports as invalid; their keywords are     *)
(* taken all the same.                                                     *)
InvalidRecords(mem) ==
  {e.name : e \in {f \in Entries(mem) : ~RecordEccCheck(mem, f)}}
=============================================================================

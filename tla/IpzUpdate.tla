------------------------------ MODULE IpzUpdate ------------------------------
(***************************************************************************)
(* Writes to the keywords of an EEPROM and a collection thread that parses *)
(* it at the same time.  All writes are made by the io thread of           *)
(* vpd-manager, one after the other, each with a parser of its own: it     *)
(* reads the whole EEPROM, writes the data of the keyword, makes the ECC   *)
(* of the record from its copy and writes that.  The file stream holds     *)
(* back what is written until it is moved to the ECC, or closed: data that *)
(* no ECC was made for reaches the EEPROM even so, and an ECC that cannot  *)
(* be written is not noticed.  The process may end at any step.            *)
(***************************************************************************)
EXTENDS IpzRecord, FiniteSets

CONSTANTS
  Name,        \* names of records and keywords
  Byte,        \* bytes of data
  Programmed,  \* records as they were programmed: name and keywords
  Targets,     \* records and keywords that clients name
  Values,      \* data that clients write
  Faults,      \* what may fail: "ecc" cannot be made, "eeprom" not written
  MaxWrites    \* bound on the writes

ASSUME UpdateAssumption ==
  /\ {Vtoc, RT, PT, PF} \subseteq Name
  /\ Targets \subseteq [record : Name, keyword : Name]
  /\ Values \subseteq Seq(Byte)
  /\ Faults \subseteq {"ecc", "eeprom"}
  /\ MaxWrites \in Nat

(* The EEPROM is programmed with records, and records with keywords, of    *)
(* different names; no data is empty, or too long for its length.          *)
ASSUME ProgrammedAssumption ==
  /\ Programmed \in Seq([name : Name,
                         keywords : Seq([name : Name, data : Seq(Byte)])])
  /\ Len(Programmed) < ByteSize
  /\ \A i \in DOMAIN Programmed :
       LET ks == Programmed[i].keywords
       IN /\ Programmed[i].name # Vtoc
          /\ \A j \in DOMAIN Programmed :
               Programmed[j].name = Programmed[i].name => j = i
          /\ \A k \in DOMAIN ks :
               /\ ks[k].name \notin {RT, PF}
               /\ \A l \in DOMAIN ks : ks[l].name = ks[k].name => l = k
               /\ ks[k].data # <<>>
               /\ Len(ks[k].data) < IF ks[k].name \in Pound
                                      THEN ByteSize * ByteSize ELSE ByteSize

VARIABLES
  eeprom,   \* its cells
  pc,       \* where the writer is
  job,      \* what it writes: record, keyword and data
  vec,      \* its copy of the EEPROM
  buffer,   \* what its file stream holds back: cells and their place
  result,   \* what the last write has returned: bytes, or -1
  writes,   \* writes begun
  head,     \* what the thread has read of the EEPROM, <<>> for nothing
  invalid,  \* the records its last parse has reported
  made,     \* history: the keywords as the writes have made them
  suspect,  \* history: records with data that may have no ECC
  doubt     \* history: records that were suspect while the thread read

writerVars == <<pc, job, vec, buffer, result, writes>>
vars == <<eeprom, writerVars, head, invalid, made, suspect, doubt>>

Min2(a, b) == IF a <= b THEN a ELSE b

Fault(f) == f \in Faults

-----------------------------------------------------------------------------
(* An EEPROM as it is programmed: VTOC with its ECC, then the records.     *)

KeywordCells(k) ==
  LET low == Len(k.data) % ByteSize
      high == Len(k.data) \div ByteSize
  IN (IF k.name \in Pound THEN <<k.name, low, high>> ELSE <<k.name, low>>)
       \o k.data

(* The first i of a sequence of sequences, one behind the other.           *)
Prefixes(ss) ==
  LET cells[i \in 0 .. Len(ss)] ==
        IF i = 0 THEN <<>> ELSE cells[i - 1] \o ss[i]
  IN cells

RecordCells(name, ks) ==
  LET keywords == [k \in DOMAIN ks |-> KeywordCells(ks[k])]
  IN <<Id, RT, 1, name>> \o Prefixes(keywords)[Len(ks)] \o <<PF>>

RecordOf(i) == RecordCells(Programmed[i].name, Programmed[i].keywords)

(* Every record is followed by its ECC.                                    *)
Records == [i \in DOMAIN Programmed |-> RecordOf(i) \o <<RecordOf(i)>>]

(* VTOC: pointer, id, RT, 1, name, PT, length, entries, PF.                *)
Entry(i) ==
  LET at == 9 + Len(Programmed) + Len(Prefixes(Records)[i - 1])
  IN [name |-> Programmed[i].name, offset |-> at,
      length |-> Len(RecordOf(i)), ecc |-> at + Len(RecordOf(i))]

TableOfContents ==
  RecordCells(Vtoc,
    << [name |-> PT, data |-> [i \in DOMAIN Programmed |-> Entry(i)]] >>)

Image == <<2>> \o TableOfContents \o Prefixes(Records)[Len(Programmed)]

Names == {Programmed[i].name : i \in DOMAIN Programmed}

KeywordsOf(r) ==
  LET i == CHOOSE j \in DOMAIN Programmed : Programmed[j].name = r
      ks == Programmed[i].keywords
  IN [n \in {ks[k].name : k \in DOMAIN ks} |->
        ks[CHOOSE k \in DOMAIN ks : ks[k].name = n].data]

NoJob == [record |-> Vtoc, keyword |-> PF, data |-> <<>>]
NoBuffer == [at |-> 0, cells |-> <<>>]

Init ==
  /\ eeprom = Image
  /\ pc = "idle"
  /\ job = NoJob
  /\ vec = <<>>
  /\ buffer = NoBuffer
  /\ result = -1
  /\ writes = 0
  /\ head = <<>>
  /\ invalid = {}
  /\ made = [r \in Names |-> KeywordsOf(r)]
  /\ suspect = {}
  /\ doubt = {}

-----------------------------------------------------------------------------
(* The writer.                                                             *)

(* mem with cells in place of what is at p.                                *)
Overwrite(mem, p, cells) ==
  [i \in DOMAIN mem |->
     IF p <= i /\ i < p + Len(cells) THEN cells[i - p + 1] ELSE mem[i]]

(* The parser ends, with what it returns.                                  *)
Return(n) ==
  /\ pc' = "idle"
  /\ result' = n
  /\ job' = NoJob
  /\ vec' = <<>>
  /\ buffer' = NoBuffer

(* The first n cells of the buffer get to the EEPROM.                      *)
Flush(n) == eeprom' = Overwrite(eeprom, buffer.at, SubSeq(buffer.cells, 1, n))

(* History: n bytes of data have got there, and there is no ECC for them.  *)
DataWritten(n) ==
  /\ made' = [made EXCEPT ![job.record][job.keyword] =
                Overwrite(@, 1, SubSeq(buffer.cells, 1, n))]
  /\ suspect' = suspect \cup {job.record}

(* VHDR and VTOC, for which Vtoc stands, cannot be written, nor can empty  *)
(* data.                                                                   *)
WriteKeywordOnHardware ==
  /\ pc = "idle"
  /\ writes < MaxWrites
  /\ writes' = writes + 1
  /\ \E t \in Targets, d \in Values :
       \/ /\ t.record = Vtoc \/ d = <<>>
          /\ Return(-1)
       \/ /\ t.record # Vtoc /\ d # <<>>
          /\ job' = [record |-> t.record, keyword |-> t.keyword, data |-> d]
          /\ vec' = eeprom
          /\ pc' = "set"
          /\ UNCHANGED <<buffer, result>>
  /\ UNCHANGED <<eeprom, made, suspect>>

(* Mutant of LengthToUpdate: all of the data is written.                   *)
LengthUnchecked(d, size) == Len(d)

(* A keyword keeps its length, which is never 0: longer data is cut.       *)
LengthToUpdate(d, size) == Min2(Len(d), size)

(* The record is in the table of contents and has the keyword.             *)
Found ==
  /\ InTable(vec, job.record)
  /\ FindKeyword(vec, Details(vec, job.record).offset, job.keyword) # 0

SetKeywordValueInRecord ==
  /\ pc = "set"
  /\ \/ /\ ~Found
        /\ Return(-1)
     \/ /\ Found
        /\ LET p == FindKeyword(vec, Details(vec, job.record).offset,
                               job.keyword)
               n == LengthToUpdate(job.data, SizeAt(vec, p))
               data == SubSeq(job.data, 1, n)
           IN /\ n > 0
              /\ buffer' = [at |-> DataAt(vec, p), cells |-> data]
              /\ vec' = Overwrite(vec, DataAt(vec, p), data)
        /\ pc' = "ecc"
        /\ UNCHANGED <<job, result>>
  /\ UNCHANGED <<eeprom, writes, made, suspect>>

(* Mutant of EccCells: the ECC is made from what is on the EEPROM.         *)
EccCellsOfEeprom == << Content(eeprom, Details(vec, job.record)) >>

(* The ECC is made from the copy of the writer.                            *)
EccCells == << Content(vec, Details(vec, job.record)) >>

(* Moving the stream to the ECC brings the data to the EEPROM; so does     *)
(* closing it, when there is no ECC.                                       *)
UpdateRecordEcc ==
  /\ pc = "ecc"
  /\ \/ /\ Flush(Len(buffer.cells))
        /\ DataWritten(Len(buffer.cells))
        /\ buffer' = [at |-> Details(vec, job.record).ecc, cells |-> EccCells]
        /\ result' = Len(buffer.cells)
        /\ pc' = "close"
        /\ UNCHANGED <<job, vec>>
     \/ /\ Fault("ecc")
        /\ Flush(Len(buffer.cells))
        /\ DataWritten(Len(buffer.cells))
        /\ Return(-1)
     \/ /\ Fault("eeprom")
        /\ \E n \in 0 .. Len(buffer.cells) : Flush(n) /\ DataWritten(n)
        /\ Return(-1)
  /\ UNCHANGED writes

(* The stream is closed by its destructor, which throws nothing.           *)
Close ==
  /\ pc = "close"
  /\ \/ /\ Flush(1)
        /\ suspect' = suspect \ {job.record}
     \/ /\ Fault("eeprom")
        /\ UNCHANGED <<eeprom, suspect>>
  /\ Return(result)
  /\ UNCHANGED <<writes, made>>

WriterStep ==
  /\ \/ WriteKeywordOnHardware
     \/ SetKeywordValueInRecord
     \/ UpdateRecordEcc
     \/ Close
  /\ doubt' = IF head = <<>> THEN doubt ELSE doubt \cup suspect'
  /\ UNCHANGED <<head, invalid>>

-----------------------------------------------------------------------------
(* The thread: the EEPROM is read from its beginning, and a write may come *)
(* between two pieces.                                                     *)
ReadHead ==
  /\ head = <<>>
  /\ \E k \in 1 .. Len(eeprom) - 1 : head' = SubSeq(eeprom, 1, k)
  /\ doubt' = suspect
  /\ invalid' = {}
  /\ UNCHANGED <<eeprom, writerVars, made, suspect>>

Parse ==
  /\ head # <<>>
  /\ invalid' = InvalidRecords(
                  head \o SubSeq(eeprom, Len(head) + 1, Len(eeprom)))
  /\ head' = <<>>
  /\ UNCHANGED <<eeprom, writerVars, made, suspect, doubt>>

(* The process, or the BMC, ends while something is written.               *)
Reset ==
  /\ pc # "idle"
  /\ \/ /\ pc = "ecc"
        /\ \E n \in 0 .. Len(buffer.cells) : Flush(n) /\ DataWritten(n)
     \/ /\ pc # "ecc"
        /\ UNCHANGED <<eeprom, made, suspect>>
  /\ Return(-1)
  /\ head' = <<>>
  /\ invalid' = {}
  /\ doubt' = {}
  /\ UNCHANGED writes

Next == WriterStep \/ ReadHead \/ Parse \/ Reset

Spec == Init /\ [][Next]_vars

-----------------------------------------------------------------------------
(* Properties                                                              *)

(* The type invariant.  The EEPROM keeps its size, and a write has, and    *)
(* returns, no more bytes than the keyword.                                *)
TypeOK ==
  /\ DOMAIN eeprom = DOMAIN Image
  /\ pc \in {"idle", "set", "ecc", "close"}
  /\ job.record = Vtoc <=> pc = "idle"
  /\ vec = <<>> <=> pc = "idle"
  /\ buffer = NoBuffer <=> pc \in {"idle", "set"}
  /\ pc = "ecc" => Len(buffer.cells) \in
                     1 .. Len(KeywordsOf(job.record)[job.keyword])
  /\ result = -1 \/ \E r \in Names : \E n \in DOMAIN KeywordsOf(r) :
                      result \in 1 .. Len(KeywordsOf(r)[n])
  /\ writes \in 0 .. MaxWrites
  /\ Len(head) < Len(Image)
  /\ invalid \subseteq Names
  /\ suspect \subseteq Names
  /\ doubt \subseteq Names

(* A parse finds in every record the keywords that were programmed, with   *)
(* their lengths, and as data exactly what the writes have put there, no   *)
(* keyword changed by a write to another one and none hidden by data that  *)
(* looks like a name; a read of one keyword finds the same.  This holds    *)
(* at any step and after any failure.                                      *)
ValuesAsWritten ==
  \A r \in Names :
    LET e == Details(eeprom, r)
        read == ReadKeywords(eeprom, e.offset)
    IN /\ DOMAIN read = {RT} \cup DOMAIN made[r]
       /\ \A n \in DOMAIN made[r] :
            /\ read[n] = made[r][n]
            /\ ReadKeywordFromHardware(eeprom, r, n) = made[r][n]

(* A parse reports no record as invalid but one with data that no ECC was  *)
(* made for at some time while it read: one that was being written, or     *)
(* that a failed or unfinished write has left.  The next write to that     *)
(* record that comes to its end makes it valid again.                      *)
AlarmHasCause == invalid \subseteq doubt
=============================================================================

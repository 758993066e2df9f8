--------------------------- MODULE IpzUpdateProofs ---------------------------
(***************************************************************************)
(* Proofs about IpzUpdate: what every step keeps true of the EEPROM, of    *)
(* the writer and of what the thread has read.                             *)
(***************************************************************************)
EXTENDS IpzLayoutProofs

-----------------------------------------------------------------------------
(* The inductive invariant.                                                *)

(* The EEPROM has its layout, in it the data as the writes have made them, *)
(* and the ECC of every record that is not suspect.                        *)
EepromInv ==
  /\ Laid(eeprom)
  /\ DOMAIN made = Names
  /\ \A i \in 1 .. Count :
       /\ DOMAIN made[RecordName(i)] = NamesIn(Kws(i))
       /\ \A k \in 1 .. Len(Kws(i)) :
            made[RecordName(i)][Kws(i)[k].name] = DataOf(eeprom, i, k)
  /\ suspect \subseteq Names
  /\ \A i \in 1 .. Count : RecordName(i) \notin suspect => Good(eeprom, i)

(* The data of a keyword, all or the first of them, in the buffer.         *)
Buffered(i, k) ==
  /\ job.record = RecordName(i)
  /\ job.keyword = Kws(i)[k].name
  /\ buffer.at = DataAddress(i, k)
  /\ Len(buffer.cells) \in 1 .. Len(Kws(i)[k].data)
  /\ HasCells(buffer.cells, Len(buffer.cells))
  /\ vec = Overwrite(eeprom, buffer.at, buffer.cells)

(* The ECC of a record in the buffer, whose data are on the EEPROM.        *)
EccBuffered(i) ==
  /\ job.record = RecordName(i)
  /\ RecordName(i) \in suspect
  /\ buffer = [at |-> EccPlace(i), cells |-> << ContentOf(eeprom, i) >>]
  /\ vec = eeprom

(* A number of bytes that some keyword has room for.                       *)
IsLength(n) ==
  \E i \in 1 .. Count : \E k \in 1 .. Len(Kws(i)) : n \in 1 .. Len(Kws(i)[k].data)

WriterInv ==
  /\ pc \in {"idle", "set", "ecc", "close"}
  /\ pc = "idle" => job = NoJob /\ vec = <<>> /\ buffer = NoBuffer
  /\ pc = "set" => /\ job.record # Vtoc
                   /\ job.data \in Seq(Byte) /\ job.data # <<>>
                   /\ vec = eeprom
                   /\ buffer = NoBuffer
  /\ pc = "ecc" => \E i \in 1 .. Count :
                     \E k \in 1 .. Len(Kws(i)) : Buffered(i, k)
  /\ pc = "close" => IsLength(result) /\ \E i \in 1 .. Count : EccBuffered(i)
  /\ result = -1 \/ IsLength(result)
  /\ writes \in 0 .. MaxWrites

(* What the thread has read has the layout of the EEPROM, and all of a     *)
(* record that is not in doubt is still there.                             *)
ReadInv ==
  /\ Len(head) \in 1 .. Size - 1
  /\ HasCells(head, Len(head))
  /\ \A q \in Kept : q <= Len(head) => head[q] = Image[q]
  /\ suspect \subseteq doubt
  /\ \A i \in 1 .. Count : RecordName(i) \notin doubt =>
       \A q \in Offset(i) .. EccPlace(i) : q <= Len(head) => head[q] = eeprom[q]

ThreadInv ==
  /\ head # <<>> => ReadInv
  /\ invalid \subseteq doubt
  /\ doubt \subseteq Names

IInv == EepromInv /\ WriterInv /\ ThreadInv

-----------------------------------------------------------------------------
(* The EEPROM as it is programmed.                                         *)

LEMMA NamesFacts ==
  /\ Names = {RecordName(i) : i \in 1 .. Count}
  /\ \A i \in 1 .. Count : RecordName(i) \in Names /\ RecordName(i) # Vtoc
BY ProgrammedFacts DEF Names, RecordName

LEMMA KeywordsOfFacts ==
  ASSUME NEW i \in 1 .. Count
  PROVE  /\ DOMAIN KeywordsOf(RecordName(i)) = NamesIn(Kws(i))
         /\ \A k \in 1 .. Len(Kws(i)) :
              KeywordsOf(RecordName(i))[Kws(i)[k].name] = Kws(i)[k].data
<1> DEFINE r == RecordName(i)
           c == CHOOSE j \in DOMAIN Programmed : Programmed[j].name = r
           ks == Kws(i)
           n == Len(ks)
           Index(x) == CHOOSE k \in DOMAIN ks : ks[k].name = x
<1>1. /\ DOMAIN Programmed = 1 .. Count
      /\ \A j \in 1 .. Count : RecordName(j) = r => j = i
      /\ IsKeywords(Plain, ks) /\ Distinct(ks)
  BY ProgrammedFacts
<1>2. c = i
  BY <1>1 DEF RecordName
<1>3. DOMAIN ks = 1 .. n
  BY <1>1 DEF IsKeywords
<1>4. KeywordsOf(r) =
        [x \in {Programmed[c].keywords[k].name : k \in DOMAIN Programmed[c].keywords} |->
           Programmed[c].keywords[CHOOSE k \in DOMAIN Programmed[c].keywords :
                                    Programmed[c].keywords[k].name = x].data]
  BY DEF KeywordsOf
<1>5. Programmed[c].keywords = ks
  BY <1>2 DEF Kws
<1> HIDE DEF c
<1>6. KeywordsOf(r) = [x \in {ks[k].name : k \in DOMAIN ks} |-> ks[Index(x)].data]
  BY <1>4, <1>5
<1>7. {ks[k].name : k \in DOMAIN ks} = NamesIn(ks)
  BY <1>3 DEF NamesIn
<1>8. KeywordsOf(r) = [x \in NamesIn(ks) |-> ks[Index(x)].data]
  BY <1>6, <1>7
<1>9. ASSUME NEW k \in 1 .. n
      PROVE  Index(ks[k].name) = k
  <2>1. \A l \in 1 .. n : ks[l].name = ks[k].name => l = k
    BY <1>1 DEF Distinct
  <2> QED
    BY <1>3, <2>1
<1> HIDE DEF Index, ks
<1>10. \A k \in 1 .. n : ks[k].name \in NamesIn(ks)
  BY DEF NamesIn
<1>11. \A k \in 1 .. n : KeywordsOf(r)[ks[k].name] = ks[k].data
  BY <1>8, <1>9, <1>10
<1> QED
  BY <1>8, <1>11 DEF ks

LEMMA ImageIsGood ==
  /\ Laid(Image)
  /\ \A i \in 1 .. Count :
       /\ Good(Image, i)
       /\ \A k \in 1 .. Len(Kws(i)) : DataOf(Image, i, k) = Kws(i)[k].data
<1>1. HasCells(Image, Size) /\ Size \in Nat
  BY ImageFacts DEF Shape
<1>2. Laid(Image)
  BY <1>1 DEF Laid
<1>3. ASSUME NEW i \in 1 .. Count
      PROVE  Good(Image, i)
  <2> DEFINE o == Offset(i)
             r == RecordOf(i)
             l == Len(r)
             b == EccPlace(i) - 1
             c == SubSeq(Image, o, b)
  <2>1. /\ r \in Seq(Plain) /\ l \in Nat \ {0}
    BY RecordOfFacts
  <2>2. /\ Image[EccPlace(i)] = r
        /\ \A q \in 1 .. l : Image[o - 1 + q] = r[q]
    BY ImageFacts
  <2>3. /\ o \in Nat \ {0} /\ EccPlace(i) \in Nat /\ EccPlace(i) = o + l
        /\ EccPlace(i) <= Size
    BY RecordBounds, <1>2, LaidShape, RecordWithin DEF EccPlace
  <2>4. HasCells(r, l)
    BY <2>1 DEF HasCells
  <2> HIDE DEF o, r, l
  <2>5. b \in Nat /\ o <= b + 1 /\ b <= Size /\ b - o + 1 = l
    BY <1>1, <2>1, <2>3
  <2> HIDE DEF b
  <2>6. /\ HasCells(c, b - o + 1)
        /\ \A q \in 1 .. b - o + 1 : c[q] = Image[o - 1 + q]
    BY <1>1, <2>3, <2>5, SubSeqOf
  <2> HIDE DEF c
  <2>7. HasCells(c, l) /\ \A q \in 1 .. l : c[q] = r[q]
    BY <2>2, <2>5, <2>6
  <2>8. c = r
    BY <2>1, <2>4, <2>7, SameCells
  <2> QED
    BY <2>2, <2>8 DEF Good, ContentOf, c, o, b, r
<1>4. ASSUME NEW i \in 1 .. Count, NEW k \in 1 .. Len(Kws(i))
      PROVE  DataOf(Image, i, k) = Kws(i)[k].data
  <2> DEFINE f == Kws(i)[k].data
             s == Len(f)
             d == DataOf(Image, i, k)
             p == DataPlace(Kws(i), k)
             o == Offset(i)
             l == Len(RecordOf(i))
  <2>1. f \in Seq(Byte) /\ s \in Nat \ {0}
    BY ProgrammedFacts
  <2>2. HasCells(f, s)
    BY <2>1 DEF HasCells
  <2>3. /\ HasCells(d, s)
        /\ \A q \in 1 .. s : d[q] = Image[DataAddress(i, k) - 1 + q]
    BY <1>1, DataCells
  <2>4. /\ \A q \in 1 .. l : Image[o - 1 + q] = RecordOf(i)[q]
        /\ \A q \in 1 .. s : RecordOf(i)[p + q - 1] = f[q]
        /\ l = NamePlace(Kws(i), Len(Kws(i)) + 1) /\ l \in Nat
    BY ImageFacts, RecordOfFacts
  <2>5. /\ p \in Nat
        /\ \A q \in 1 .. s : p + q - 1 \in 7 .. l - 1
    BY FixedPlaces, ProgrammedFacts, <2>4
  <2>6. o \in Nat /\ DataAddress(i, k) = o - 1 + p
    BY RecordBounds DEF DataAddress
  <2> HIDE DEF f, s, d, p, o, l
  <2>7. ASSUME NEW q \in 1 .. s
        PROVE  d[q] = f[q]
    <3> DEFINE x == p + q - 1
    <3>1. x \in 7 .. l - 1 /\ l \in Nat
      BY <2>4, <2>5
    <3>2. x \in 1 .. l
      <4> HIDE DEF x
      <4> QED
        BY <3>1
    <3>3. DataAddress(i, k) - 1 + q = o - 1 + x
      <4>1. q \in Nat /\ p \in Nat /\ o \in Nat
        BY <2>1, <2>5, <2>6
      <4>2. DataAddress(i, k) = o - 1 + p
        BY <2>6
      <4> QED
        BY <4>1, <4>2
    <3>4. RecordOf(i)[x] = f[q]
      BY <2>4
    <3> HIDE DEF x
    <3> QED
      BY <2>3, <2>4, <3>2, <3>3, <3>4
  <2>8. d = f
    BY <2>1, <2>2, <2>3, <2>7, SameCells
  <2> QED
    BY <2>8 DEF d, f
<1> QED
  BY <1>2, <1>3, <1>4

LEMMA InitInv ==
  Init => IInv
<1> SUFFICES ASSUME Init
             PROVE  IInv
  OBVIOUS
<1>1. EepromInv
  <2>1. /\ eeprom = Image /\ suspect = {}
        /\ made = [r \in Names |-> KeywordsOf(r)]
    BY DEF Init
  <2>2. ASSUME NEW i \in 1 .. Count
        PROVE  made[RecordName(i)] = KeywordsOf(RecordName(i))
    BY <2>1, NamesFacts
  <2> QED
    BY <2>1, <2>2, ImageIsGood, KeywordsOfFacts DEF EepromInv
<1>2. WriterInv
  BY UpdateAssumption DEF Init, WriterInv, UpdateAssumption
<1>3. ThreadInv
  BY DEF Init, ThreadInv
<1> QED
  BY <1>1, <1>2, <1>3 DEF IInv

-----------------------------------------------------------------------------
(* What gets to the EEPROM.                                                *)

(* A step changes no record but one that is suspect before it or after it. *)
Changes ==
  \A i \in 1 .. Count :
    RecordName(i) \notin suspect /\ RecordName(i) \notin suspect' =>
      SameIn(eeprom, eeprom', i)

LEMMA DataStep ==
  ASSUME EepromInv, NEW i \in 1 .. Count, NEW k \in 1 .. Len(Kws(i)),
         NEW n \in 0 .. Len(Kws(i)[k].data), NEW cells, Len(cells) = n,
         eeprom' = Overwrite(eeprom, DataAddress(i, k), cells),
         made' = [made EXCEPT ![RecordName(i)][Kws(i)[k].name] =
                    Overwrite(@, 1, cells)],
         suspect' = suspect \cup {RecordName(i)}
  PROVE  EepromInv' /\ Changes
<1> DEFINE r == RecordName(i)
           ks == Kws(i)
           name == ks[k].name
<1>1. /\ Laid(eeprom)
      /\ DOMAIN made = Names
      /\ \A j \in 1 .. Count :
           /\ DOMAIN made[RecordName(j)] = NamesIn(Kws(j))
           /\ \A l \in 1 .. Len(Kws(j)) :
                made[RecordName(j)][Kws(j)[l].name] = DataOf(eeprom, j, l)
      /\ suspect \subseteq Names
      /\ \A j \in 1 .. Count : RecordName(j) \notin suspect => Good(eeprom, j)
  BY DEF EepromInv
<1>2. /\ Laid(eeprom')
      /\ \A j \in 1 .. Count : j # i => SameIn(eeprom, eeprom', j)
      /\ DataOf(eeprom', i, k) = Overwrite(DataOf(eeprom, i, k), 1, cells)
      /\ \A l \in 1 .. Len(ks) : l # k => DataOf(eeprom', i, l) = DataOf(eeprom, i, l)
  BY <1>1, DataWrite
<1>3. /\ \A j \in 1 .. Count : RecordName(j) = r => j = i
      /\ \A l \in 1 .. Len(ks) : ks[l].name = name => l = k
  BY ProgrammedFacts DEF Distinct
<1>4. r \in Names /\ name \in NamesIn(ks)
  BY NamesFacts DEF NamesIn
<1>5. made' = [made EXCEPT ![r] =
                 [made[r] EXCEPT ![name] = Overwrite(made[r][name], 1, cells)]]
  OBVIOUS
<1> HIDE DEF r, ks, name
<1>6. /\ DOMAIN made' = Names
      /\ made'[r] = [made[r] EXCEPT ![name] = Overwrite(made[r][name], 1, cells)]
      /\ \A x \in Names : x # r => made'[x] = made[x]
  BY <1>1, <1>4, <1>5
<1>7. /\ DOMAIN made[r] = NamesIn(ks)
      /\ \A l \in 1 .. Len(ks) : made[r][ks[l].name] = DataOf(eeprom, i, l)
  BY <1>1 DEF r, ks
<1>8. /\ DOMAIN made'[r] = NamesIn(ks)
      /\ \A l \in 1 .. Len(ks) : made'[r][ks[l].name] = DataOf(eeprom', i, l)
  <2>1. /\ DOMAIN made'[r] = NamesIn(ks)
        /\ made'[r][name] = Overwrite(made[r][name], 1, cells)
        /\ \A x \in NamesIn(ks) : x # name => made'[r][x] = made[r][x]
    BY <1>4, <1>6, <1>7
  <2>2. ASSUME NEW l \in 1 .. Len(ks)
        PROVE  made'[r][ks[l].name] = DataOf(eeprom', i, l)
    <3>1. CASE l = k
      <4>1. made[r][name] = DataOf(eeprom, i, k)
        BY <1>7, <2>2, <3>1 DEF name
      <4> QED
        BY <1>2, <2>1, <3>1, <4>1 DEF name
    <3>2. CASE l # k
      <4>1. ks[l].name # name /\ ks[l].name \in NamesIn(ks)
        BY <1>3, <3>2 DEF NamesIn
      <4> QED
        BY <1>2, <1>7, <2>1, <3>2, <4>1
    <3> QED
      BY <3>1, <3>2
  <2> QED
    BY <2>1, <2>2
<1>9. ASSUME NEW j \in 1 .. Count, j # i
      PROVE  /\ RecordName(j) # r
             /\ DOMAIN made'[RecordName(j)] = NamesIn(Kws(j))
             /\ \A l \in 1 .. Len(Kws(j)) :
                  made'[RecordName(j)][Kws(j)[l].name] = DataOf(eeprom', j, l)
             /\ Good(eeprom', j) <=> Good(eeprom, j)
  <2>1. RecordName(j) # r
    BY <1>3, <1>9
  <2>2. made'[RecordName(j)] = made[RecordName(j)]
    BY <1>6, <2>1, NamesFacts
  <2>3. /\ \A l \in 1 .. Len(Kws(j)) : DataOf(eeprom', j, l) = DataOf(eeprom, j, l)
        /\ Good(eeprom', j) <=> Good(eeprom, j)
    <3>1. SameIn(eeprom, eeprom', j)
      BY <1>2, <1>9
    <3>2. HasCells(eeprom, Size) /\ HasCells(eeprom', Size)
      BY <1>1, <1>2 DEF Laid
    <3> QED
      BY <3>1, <3>2, SameRecordFacts
  <2> QED
    BY <1>1, <2>1, <2>2, <2>3
<1>10. suspect' \subseteq Names
  BY <1>1, <1>4 DEF r
<1>11. ASSUME NEW j \in 1 .. Count, RecordName(j) \notin suspect'
       PROVE  Good(eeprom', j)
  <2>1. j # i /\ RecordName(j) \notin suspect
    BY <1>11
  <2> QED
    BY <1>1, <1>9, <2>1
<1>12. ASSUME NEW j \in 1 .. Count
       PROVE  /\ DOMAIN made'[RecordName(j)] = NamesIn(Kws(j))
              /\ \A l \in 1 .. Len(Kws(j)) :
                   made'[RecordName(j)][Kws(j)[l].name] = DataOf(eeprom', j, l)
  <2>1. CASE j = i
    BY <1>8, <2>1 DEF r, ks
  <2>2. CASE j # i
    BY <1>9, <2>2
  <2> QED
    BY <2>1, <2>2
<1>13. EepromInv'
  BY <1>2, <1>6, <1>10, <1>11, <1>12 DEF EepromInv
<1>14. Changes
  BY <1>2 DEF Changes
<1> QED
  BY <1>13, <1>14

LEMMA EccStep ==
  ASSUME EepromInv, NEW i \in 1 .. Count, RecordName(i) \in suspect,
         eeprom' = Overwrite(eeprom, EccPlace(i), << ContentOf(eeprom, i) >>),
         made' = made,
         suspect' = suspect \ {RecordName(i)}
  PROVE  EepromInv' /\ Changes
<1> DEFINE x == ContentOf(eeprom, i)
<1>1. /\ Laid(eeprom)
      /\ DOMAIN made = Names
      /\ \A j \in 1 .. Count :
           /\ DOMAIN made[RecordName(j)] = NamesIn(Kws(j))
           /\ \A l \in 1 .. Len(Kws(j)) :
                made[RecordName(j)][Kws(j)[l].name] = DataOf(eeprom, j, l)
      /\ suspect \subseteq Names
      /\ \A j \in 1 .. Count : RecordName(j) \notin suspect => Good(eeprom, j)
  BY DEF EepromInv
<1>2. /\ Laid(eeprom')
      /\ \A j \in 1 .. Count : j # i => SameIn(eeprom, eeprom', j)
      /\ \A k \in 1 .. Len(Kws(i)) : DataOf(eeprom', i, k) = DataOf(eeprom, i, k)
      /\ eeprom'[EccPlace(i)] = x
      /\ ContentOf(eeprom', i) = x
  <2> DEFINE mem == eeprom
             other == eeprom'
             cells == <<x>>
  <2>1. /\ Laid(mem) /\ cells = <<x>>
        /\ other = Overwrite(mem, EccPlace(i), cells)
    BY <1>1
  <2> HIDE DEF x, mem, other, cells
  <2>2. /\ Laid(other)
        /\ \A j \in 1 .. Count : j # i => SameIn(mem, other, j)
        /\ \A k \in 1 .. Len(Kws(i)) : DataOf(other, i, k) = DataOf(mem, i, k)
        /\ other[EccPlace(i)] = x
        /\ ContentOf(other, i) = ContentOf(mem, i)
    BY <2>1, EccWrite
  <2> QED
    BY <2>2 DEF x, mem, other
<1>3. Good(eeprom', i)
  BY <1>2 DEF Good
<1>4. ASSUME NEW j \in 1 .. Count, j # i
      PROVE  /\ \A l \in 1 .. Len(Kws(j)) :
                  DataOf(eeprom', j, l) = DataOf(eeprom, j, l)
             /\ Good(eeprom', j) <=> Good(eeprom, j)
             /\ RecordName(j) # RecordName(i)
  <2>1. SameIn(eeprom, eeprom', j)
    BY <1>2, <1>4
  <2>2. HasCells(eeprom, Size) /\ HasCells(eeprom', Size)
    BY <1>1, <1>2 DEF Laid
  <2>3. RecordName(j) # RecordName(i)
    BY <1>4, ProgrammedFacts
  <2> QED
    BY <2>1, <2>2, <2>3, SameRecordFacts
<1>5. EepromInv'
  <2>1. \A j \in 1 .. Count : \A l \in 1 .. Len(Kws(j)) :
          DataOf(eeprom', j, l) = DataOf(eeprom, j, l)
    BY <1>2, <1>4
  <2>2. \A j \in 1 .. Count : RecordName(j) \notin suspect' => Good(eeprom', j)
    BY <1>1, <1>3, <1>4
  <2> QED
    BY <1>1, <1>2, <2>1, <2>2 DEF EepromInv
<1>6. Changes
  BY <1>2 DEF Changes
<1> QED
  BY <1>5, <1>6

LEMMA NoEepromStep ==
  ASSUME EepromInv, UNCHANGED <<eeprom, made, suspect>>
  PROVE  EepromInv' /\ Changes
BY DEF EepromInv, Changes, SameIn

(* The thread, while the writer makes a step.                              *)
LEMMA ThreadStep ==
  ASSUME EepromInv, EepromInv', ThreadInv, Changes,
         doubt' = IF head = <<>> THEN doubt ELSE doubt \cup suspect',
         UNCHANGED <<head, invalid>>
  PROVE  ThreadInv'
<1>1. suspect' \subseteq Names
  BY DEF EepromInv
<1>2. invalid' \subseteq doubt' /\ doubt' \subseteq Names
  BY <1>1 DEF ThreadInv
<1>3. ASSUME head # <<>>
      PROVE  ReadInv'
  <2>1. ReadInv
    BY <1>3 DEF ThreadInv
  <2>2. doubt' = doubt \cup suspect' /\ head' = head /\ suspect \subseteq doubt
    BY <1>3, <2>1 DEF ReadInv
  <2>3. ASSUME NEW i \in 1 .. Count, RecordName(i) \notin doubt',
               NEW q \in Offset(i) .. EccPlace(i), q <= Len(head)
        PROVE  head[q] = eeprom'[q]
    <3>1. head[q] = eeprom[q]
      BY <2>1, <2>2, <2>3 DEF ReadInv
    <3>2. SameIn(eeprom, eeprom', i)
      BY <2>2, <2>3 DEF Changes
    <3>3. eeprom'[q] = eeprom[q]
      BY <3>2 DEF SameIn
    <3> QED
      BY <3>1, <3>3
  <2> QED
    BY <2>1, <2>2, <2>3 DEF ReadInv
<1> QED
  BY <1>2, <1>3 DEF ThreadInv

-----------------------------------------------------------------------------
(* The steps of the writer.                                                *)

(* What the writer finds for a record in the table of contents, and for a  *)
(* keyword in it.                                                          *)
FoundKeyword(mem, r, n, p) ==
  \E i \in 1 .. Count : \E k \in 1 .. Len(Kws(i)) :
    /\ r = RecordName(i) /\ n = Kws(i)[k].name
    /\ SizeAt(mem, p) = Len(Kws(i)[k].data)
    /\ DataAt(mem, p) = DataAddress(i, k)

LEMMA FoundFacts ==
  ASSUME NEW mem, Laid(mem), NEW r, NEW n, InTable(mem, r),
         NEW p, p = FindKeyword(mem, Details(mem, r).offset, n), p # 0
  PROVE  FoundKeyword(mem, r, n, p)
<1>1. Shape(mem)
  BY LaidShape
<1>2. PICK i \in 1 .. Count : r = RecordName(i)
  BY <1>1, TableFacts
<1>3. Details(mem, r).offset = Offset(i)
  <2>1. Details(mem, r) = Entry(i)
    BY <1>1, <1>2, TableFacts
  <2> QED
    BY <2>1 DEF Entry, Offset, Count
<1>4. PICK k \in 1 .. Len(Kws(i)) : n = Kws(i)[k].name
  BY <1>1, <1>3, NoKeyword
<1>5. p = FindKeyword(mem, Offset(i), Kws(i)[k].name)
  BY <1>3, <1>4
<1>6. SizeAt(mem, p) = Len(Kws(i)[k].data) /\ DataAt(mem, p) = DataAddress(i, k)
  BY <1>1, <1>5, KeywordFacts
<1> QED
  BY <1>2, <1>4, <1>6 DEF FoundKeyword

LEMMA DetailsFacts ==
  ASSUME NEW mem, Laid(mem), NEW i \in 1 .. Count
  PROVE  /\ Details(mem, RecordName(i)).ecc = EccPlace(i)
         /\ Content(mem, Details(mem, RecordName(i))) = ContentOf(mem, i)
<1>1. Details(mem, RecordName(i)) = Entry(i)
  BY LaidShape, TableFacts
<1>2. Entry(i).ecc = EccPlace(i)
  BY OffsetFacts
<1> QED
  BY <1>1, <1>2, ContentFacts

(* All cells of a buffer, and the first of them.                           *)
LEMMA AllCells ==
  ASSUME NEW n \in Nat, NEW cells, HasCells(cells, n)
  PROVE  /\ Len(cells) = n
         /\ SubSeq(cells, 1, n) = cells
         /\ \A m \in 0 .. n : Len(SubSeq(cells, 1, m)) = m
<1> DEFINE one == 1
<1>1. Len(cells) = n
  BY SeqOf
<1>2. one = 1 /\ one \in Nat \ {0}
  OBVIOUS
<1> HIDE DEF one
<1>3. ASSUME NEW m \in 0 .. n
      PROVE  /\ HasCells(SubSeq(cells, one, m), m)
             /\ Len(SubSeq(cells, one, m)) = m
             /\ \A q \in 1 .. m : SubSeq(cells, one, m)[q] = cells[q]
  <2> DEFINE c == SubSeq(cells, one, m)
  <2>1. m \in Nat /\ one <= m + 1 /\ m <= n /\ m - one + 1 = m
    BY <1>2
  <2>2. \A q \in 1 .. m : one - 1 + q = q
    BY <1>2
  <2>3. /\ HasCells(c, m - one + 1)
        /\ Len(c) = m - one + 1
        /\ \A q \in 1 .. m - one + 1 : c[q] = cells[one - 1 + q]
    BY <1>2, <2>1, SubSeqOf
  <2> HIDE DEF c
  <2>4. HasCells(c, m) /\ Len(c) = m /\ \A q \in 1 .. m : c[q] = cells[q]
    BY <2>1, <2>2, <2>3
  <2> QED
    BY <2>4 DEF c
<1>4. n \in 0 .. n
  OBVIOUS
<1>5. SubSeq(cells, one, n) = cells
  BY <1>3, <1>4, SameCells
<1> QED
  BY <1>1, <1>2, <1>3, <1>5

LEMMA LengthsInt ==
  ASSUME NEW n, IsLength(n)
  PROVE  n \in Nat \ {0}
BY ProgrammedFacts DEF IsLength

LEMMA ReturnFacts ==
  ASSUME NEW n, Return(n), n = -1 \/ IsLength(n), writes' \in 0 .. MaxWrites
  PROVE  WriterInv'
BY DEF Return, WriterInv, IsLength

LEMMA BeginStep ==
  ASSUME IInv, WriteKeywordOnHardware
  PROVE  EepromInv' /\ WriterInv' /\ Changes
<1>1. EepromInv' /\ Changes
  BY NoEepromStep DEF IInv, WriteKeywordOnHardware
<1>2. /\ writes' \in 0 .. MaxWrites
      /\ pc = "idle" /\ eeprom' = eeprom
  BY UpdateAssumption
     DEF IInv, WriterInv, WriteKeywordOnHardware, UpdateAssumption
<1>3. PICK t \in Targets, d \in Values :
        \/ Return(-1)
        \/ /\ t.record # Vtoc /\ d # <<>>
           /\ job' = [record |-> t.record, keyword |-> t.keyword, data |-> d]
           /\ vec' = eeprom
           /\ pc' = "set"
           /\ UNCHANGED <<buffer, result>>
  BY DEF WriteKeywordOnHardware
<1>4. CASE Return(-1)
  BY <1>1, <1>2, <1>4, ReturnFacts
<1>5. CASE /\ t.record # Vtoc /\ d # <<>>
           /\ job' = [record |-> t.record, keyword |-> t.keyword, data |-> d]
           /\ vec' = eeprom
           /\ pc' = "set"
           /\ UNCHANGED <<buffer, result>>
  <2>1. d \in Seq(Byte)
    BY UpdateAssumption DEF UpdateAssumption
  <2>2. job'.record = t.record /\ job'.data = d
    BY <1>5
  <2>3. buffer' = NoBuffer
    BY <1>2, <1>5 DEF IInv, WriterInv
  <2>4. result' = -1 \/ IsLength(result)'
    BY <1>5 DEF IInv, WriterInv, IsLength
  <2> QED
    BY <1>1, <1>2, <1>5, <2>1, <2>2, <2>3, <2>4 DEF WriterInv
<1> QED
  BY <1>3, <1>4, <1>5

LEMMA SetStep ==
  ASSUME IInv, SetKeywordValueInRecord
  PROVE  EepromInv' /\ WriterInv' /\ Changes
<1>1. EepromInv' /\ Changes
  BY NoEepromStep DEF IInv, SetKeywordValueInRecord
<1>2. /\ Laid(eeprom) /\ eeprom' = eeprom
      /\ vec = eeprom
      /\ job.data \in Seq(Byte) /\ job.data # <<>>
      /\ writes' \in 0 .. MaxWrites
      /\ result = -1 \/ IsLength(result)
  BY DEF IInv, EepromInv, WriterInv, SetKeywordValueInRecord
<1>3. CASE Return(-1)
  BY <1>1, <1>2, <1>3, ReturnFacts
<1>4. CASE Found /\ ~Return(-1)
  <2> DEFINE p == FindKeyword(vec, Details(vec, job.record).offset, job.keyword)
             n == LengthToUpdate(job.data, SizeAt(vec, p))
             data == SubSeq(job.data, 1, n)
  <2>1. /\ buffer' = [at |-> DataAt(vec, p), cells |-> data]
        /\ vec' = Overwrite(vec, DataAt(vec, p), data)
        /\ pc' = "ecc"
        /\ UNCHANGED <<job, result>>
    BY <1>4 DEF SetKeywordValueInRecord
  <2>2. PICK i \in 1 .. Count : \E k \in 1 .. Len(Kws(i)) :
          /\ job.record = RecordName(i) /\ job.keyword = Kws(i)[k].name
          /\ SizeAt(vec, p) = Len(Kws(i)[k].data)
          /\ DataAt(vec, p) = DataAddress(i, k)
    <3> DEFINE x == p
               r == job.record
               m == job.keyword
    <3>1. /\ Laid(vec) /\ InTable(vec, r)
          /\ x = FindKeyword(vec, Details(vec, r).offset, m) /\ x # 0
      BY <1>2, <1>4 DEF Found
    <3> HIDE DEF x, r, m
    <3>2. FoundKeyword(vec, r, m, x)
      BY <3>1, FoundFacts
    <3> QED
      BY <3>2 DEF x, r, m, FoundKeyword
  <2>3. PICK k \in 1 .. Len(Kws(i)) :
          /\ job.record = RecordName(i) /\ job.keyword = Kws(i)[k].name
          /\ SizeAt(vec, p) = Len(Kws(i)[k].data)
          /\ DataAt(vec, p) = DataAddress(i, k)
    BY <2>2
  <2> DEFINE s == Len(Kws(i)[k].data)
             l == Len(job.data)
  <2>4. s \in Nat \ {0}
    BY ProgrammedFacts
  <2>5. l \in Nat \ {0} /\ HasCells(job.data, l)
    BY <1>2 DEF HasCells
  <2>6. n = IF l <= s THEN l ELSE s
    BY <2>3 DEF LengthToUpdate, Min2
  <2> HIDE DEF p, n, s, l
  <2>7. n \in 1 .. s /\ n \in 0 .. l /\ n \in Nat /\ l \in Nat
    BY <2>4, <2>5, <2>6
  <2>8. HasCells(data, n) /\ Len(data) = n
    <3> DEFINE one == 1
    <3>1. one \in Nat \ {0} /\ one <= n + 1 /\ n <= l /\ n - one + 1 = n /\ one = 1
      BY <2>7
    <3> HIDE DEF one
    <3>2. /\ HasCells(SubSeq(job.data, one, n), n - one + 1)
          /\ Len(SubSeq(job.data, one, n)) = n - one + 1
      BY <2>5, <2>7, <3>1, SubSeqOf
    <3> QED
      BY <3>1, <3>2
  <2> HIDE DEF data
  <2>9. Buffered(i, k)'
    <3>1. buffer'.at = DataAddress(i, k) /\ buffer'.cells = data
      BY <2>1, <2>3
    <3>2. vec' = Overwrite(eeprom', buffer'.at, buffer'.cells)
      BY <1>2, <2>1, <2>3, <3>1
    <3> QED
      BY <2>1, <2>3, <2>7, <2>8, <3>1, <3>2 DEF Buffered, s
  <2>10. result' = -1 \/ IsLength(result)'
    BY <1>2, <2>1 DEF IsLength
  <2> QED
    BY <1>1, <1>2, <2>1, <2>9, <2>10 DEF WriterInv
<1> QED
  BY <1>3, <1>4 DEF SetKeywordValueInRecord

(* Some of the buffered data get to the EEPROM.                            *)
LEMMA FlushStep ==
  ASSUME IInv, NEW i \in 1 .. Count, NEW k \in 1 .. Len(Kws(i)), Buffered(i, k),
         NEW n \in 0 .. Len(buffer.cells), Flush(n), DataWritten(n)
  PROVE  EepromInv' /\ Changes
<1> DEFINE b == buffer.cells
           l == Len(b)
           c == SubSeq(b, 1, n)
           s == Len(Kws(i)[k].data)
<1>1. /\ job.record = RecordName(i) /\ job.keyword = Kws(i)[k].name
      /\ buffer.at = DataAddress(i, k)
      /\ l \in 1 .. s /\ HasCells(b, l) /\ n \in 0 .. l
  BY DEF Buffered
<1>2. s \in Nat
  BY ProgrammedFacts
<1> HIDE DEF s
<1>3. l \in Nat /\ n \in 0 .. s
  <2> HIDE DEF l
  <2> QED
    BY <1>1, <1>2
<1>4. Len(c) = n
  <2> HIDE DEF b, l
  <2> QED
    BY <1>1, <1>3, AllCells
<1>5. /\ eeprom' = Overwrite(eeprom, DataAddress(i, k), c)
      /\ made' = [made EXCEPT ![RecordName(i)][Kws(i)[k].name] =
                    Overwrite(@, 1, c)]
      /\ suspect' = suspect \cup {RecordName(i)}
  BY <1>1 DEF Flush, DataWritten
<1> HIDE DEF c, b, l
<1> QED
  BY <1>3, <1>4, <1>5, DataStep DEF IInv, s

LEMMA EccStepOfWriter ==
  ASSUME IInv, UpdateRecordEcc
  PROVE  EepromInv' /\ WriterInv' /\ Changes
<1>1. /\ Laid(eeprom) /\ pc = "ecc"
      /\ writes' \in 0 .. MaxWrites
  BY DEF IInv, EepromInv, WriterInv, UpdateRecordEcc
<1>2. PICK i \in 1 .. Count : \E k \in 1 .. Len(Kws(i)) : Buffered(i, k)
  BY <1>1 DEF IInv, WriterInv
<1>3. PICK k \in 1 .. Len(Kws(i)) : Buffered(i, k)
  BY <1>2
<1> DEFINE l == Len(buffer.cells)
           s == Len(Kws(i)[k].data)
<1>4. /\ job.record = RecordName(i) /\ l \in 1 .. s
      /\ HasCells(buffer.cells, l)
      /\ vec = Overwrite(eeprom, buffer.at, buffer.cells)
      /\ s \in Nat
  BY <1>3, ProgrammedFacts DEF Buffered
<1> HIDE DEF s
<1>5. l \in Nat /\ l \in 0 .. l
  <2> HIDE DEF l
  <2> QED
    BY <1>4
<1>6. ASSUME NEW n \in 0 .. l, Flush(n), DataWritten(n)
      PROVE  EepromInv' /\ Changes
  BY <1>3, <1>6, FlushStep
<1>7. CASE /\ Flush(l)
           /\ DataWritten(l)
           /\ buffer' = [at |-> Details(vec, job.record).ecc, cells |-> EccCells]
           /\ result' = l
           /\ pc' = "close"
           /\ UNCHANGED <<job, vec>>
  <2>1. EepromInv' /\ Changes
    BY <1>5, <1>6, <1>7
  <2>2. eeprom' = vec
    <3>1. SubSeq(buffer.cells, 1, l) = buffer.cells
      <4> HIDE DEF l
      <4> QED
        BY <1>4, <1>5, AllCells
    <3> HIDE DEF l
    <3> QED
      BY <1>4, <1>7, <3>1 DEF Flush
  <2>3. Laid(vec)
    BY <2>1, <2>2 DEF EepromInv
  <2>4. /\ Details(vec, job.record).ecc = EccPlace(i)
        /\ EccCells = << ContentOf(vec, i) >>
    BY <1>4, <2>3, DetailsFacts DEF EccCells
  <2>5. IsLength(result')
    BY <1>4, <1>7 DEF IsLength, s
  <2>6. EccBuffered(i)'
    <3>1. /\ job'.record = RecordName(i) /\ vec' = eeprom'
          /\ buffer' = [at |-> EccPlace(i), cells |-> << ContentOf(eeprom', i) >>]
      BY <1>4, <1>7, <2>2, <2>4
    <3>2. RecordName(i) \in suspect'
      BY <1>4, <1>7 DEF DataWritten
    <3> QED
      BY <3>1, <3>2 DEF EccBuffered
  <2>7. IsLength(result)' /\ pc' = "close"
    BY <1>7, <2>5 DEF IsLength
  <2> QED
    BY <1>1, <2>1, <2>6, <2>7 DEF WriterInv
<1>8. CASE Flush(l) /\ DataWritten(l) /\ Return(-1)
  BY <1>1, <1>5, <1>6, <1>8, ReturnFacts
<1>9. CASE (\E n \in 0 .. l : Flush(n) /\ DataWritten(n)) /\ Return(-1)
  BY <1>1, <1>6, <1>9, ReturnFacts
<1> QED
  BY <1>7, <1>8, <1>9 DEF UpdateRecordEcc

LEMMA CloseStep ==
  ASSUME IInv, Close
  PROVE  EepromInv' /\ WriterInv' /\ Changes
<1>1. /\ pc = "close" /\ Return(result) /\ IsLength(result)
      /\ writes' \in 0 .. MaxWrites /\ made' = made
  BY DEF IInv, WriterInv, Close
<1>2. WriterInv'
  BY <1>1, ReturnFacts
<1>3. PICK i \in 1 .. Count : EccBuffered(i)
  BY <1>1 DEF IInv, WriterInv
<1>4. CASE Flush(1) /\ suspect' = suspect \ {job.record}
  <2> DEFINE x == ContentOf(eeprom, i)
             c == <<x>>
             n == 1
  <2>1. /\ job.record = RecordName(i) /\ RecordName(i) \in suspect
        /\ buffer.at = EccPlace(i) /\ buffer.cells = c
    BY <1>3 DEF EccBuffered
  <2>2. HasCells(c, n) /\ n \in Nat /\ n = 1
    BY DEF HasCells
  <2> HIDE DEF c, n
  <2>3. SubSeq(c, 1, n) = c
    BY <2>2, AllCells
  <2>4. eeprom' = Overwrite(eeprom, EccPlace(i), c)
    BY <1>4, <2>1, <2>2, <2>3 DEF Flush
  <2> QED
    BY <1>1, <1>2, <1>4, <2>1, <2>4, EccStep DEF IInv, c
<1>5. CASE UNCHANGED <<eeprom, suspect>>
  BY <1>1, <1>2, <1>5, NoEepromStep DEF IInv
<1> QED
  BY <1>4, <1>5 DEF Close

-----------------------------------------------------------------------------
(* The steps of the thread, and the end of the process.                    *)

LEMMA ReadStep ==
  ASSUME IInv, ReadHead
  PROVE  IInv'
<1>1. EepromInv /\ Laid(eeprom) /\ HasCells(eeprom, Size) /\ Size \in Nat
  BY LaidShape DEF IInv, EepromInv
<1>2. UNCHANGED <<eeprom, writerVars, made, suspect>> /\ doubt' = suspect
      /\ invalid' = {}
  BY DEF ReadHead
<1>3. EepromInv'
  BY <1>1, <1>2, NoEepromStep
<1>4. WriterInv'
  BY <1>2 DEF IInv, WriterInv, writerVars, Buffered, EccBuffered, IsLength
<1>5. PICK n \in 1 .. Len(eeprom) - 1 : head' = SubSeq(eeprom, 1, n)
  BY DEF ReadHead
<1>6. n \in 1 .. Size - 1
  <2>1. Len(eeprom) = Size
    BY <1>1, SeqOf
  <2> QED
    BY <2>1
<1>7. HasCells(head', n) /\ Len(head') = n /\ \A q \in 1 .. n : head'[q] = eeprom[q]
  <2> DEFINE one == 1
             c == SubSeq(eeprom, one, n)
  <2>1. /\ one \in Nat \ {0} /\ n \in Nat /\ one <= n + 1 /\ n <= Size
        /\ n - one + 1 = n /\ \A q \in 1 .. n : one - 1 + q = q
    BY <1>1, <1>6
  <2>2. head' = c
    BY <1>5
  <2> HIDE DEF one
  <2>3. /\ HasCells(c, n - one + 1) /\ Len(c) = n - one + 1
        /\ \A q \in 1 .. n - one + 1 : c[q] = eeprom[one - 1 + q]
    BY <1>1, <2>1, SubSeqOf
  <2> HIDE DEF c
  <2> QED
    BY <2>1, <2>2, <2>3
<1>8. ReadInv'
  <2>1. \A q \in Kept : q <= n => q \in 1 .. n
    BY <1>1, <1>6, KeptPlaces
  <2>2. ASSUME NEW i \in 1 .. Count, NEW q \in Offset(i) .. EccPlace(i), q <= n
        PROVE  head'[q] = eeprom[q]
    <3>1. Offset(i) \in Nat \ {0} /\ EccPlace(i) \in Nat
      BY <1>1, LaidShape, RecordWithin, RecordBounds
    <3>2. q \in 1 .. n
      BY <1>6, <2>2, <3>1
    <3> QED
      BY <1>7, <3>2
  <2>3. \A q \in Kept : q <= n => head'[q] = Image[q]
    BY <1>1, <1>7, <2>1 DEF Laid
  <2> QED
    BY <1>2, <1>6, <1>7, <2>2, <2>3 DEF ReadInv
<1>9. ThreadInv'
  BY <1>1, <1>2, <1>8 DEF ThreadInv, EepromInv
<1> QED
  BY <1>3, <1>4, <1>9 DEF IInv

(* What a parse has before it: some cells that were read before, and the   *)
(* others as they are.                                                     *)
LEMMA MixedCells ==
  ASSUME NEW m \in Nat, NEW first, HasCells(first, m),
         NEW k \in Nat, NEW rest, HasCells(rest, k)
  PROVE  /\ HasCells(Join(first, rest), m + k)
         /\ \A q \in 1 .. m : Join(first, rest)[q] = first[q]
         /\ \A q \in 1 .. k : Join(first, rest)[m + q] = rest[q]
<1> DEFINE all == Join(first, rest)
           S == {first[q] : q \in 1 .. m}
           T == {rest[q] : q \in 1 .. k}
<1>1. first \in Seq(S) /\ Len(first) = m
  BY SeqOf
<1>2. rest \in Seq(T) /\ Len(rest) = k
  BY SeqOf
<1> HIDE DEF S, T
<1>3. first \in Seq(S \cup T) /\ rest \in Seq(S \cup T)
  BY <1>1, <1>2, SeqMonotonic
<1>4. all \in Seq(S \cup T) /\ Joined(first, rest, all)
  BY <1>3, JoinType
<1> HIDE DEF all
<1>5. /\ Len(all) = m + k
      /\ \A q \in 1 .. m : all[q] = first[q]
      /\ \A q \in 1 .. k : all[m + q] = rest[q]
  BY <1>1, <1>2, <1>4 DEF Joined
<1>6. HasCells(all, Len(all))
  BY <1>4 DEF HasCells
<1> QED
  BY <1>5, <1>6 DEF all

LEMMA ParseStep ==
  ASSUME IInv, Parse
  PROVE  IInv'
<1> DEFINE m == Len(head)
           n == Len(eeprom)
           all == head \o SubSeq(eeprom, m + 1, n)
<1>1. /\ EepromInv /\ Laid(eeprom) /\ HasCells(eeprom, Size) /\ Size \in Nat
      /\ doubt \subseteq Names
      /\ \A i \in 1 .. Count : RecordName(i) \notin suspect => Good(eeprom, i)
  BY LaidShape DEF IInv, EepromInv, ThreadInv
<1>2. UNCHANGED <<eeprom, writerVars, made, suspect, doubt>> /\ head' = <<>>
      /\ invalid' = InvalidRecords(all) /\ head # <<>>
  BY DEF Parse
<1>3. /\ m \in 1 .. Size - 1 /\ HasCells(head, m)
      /\ \A q \in Kept : q <= m => head[q] = Image[q]
      /\ suspect \subseteq doubt
      /\ \A i \in 1 .. Count : RecordName(i) \notin doubt =>
           \A q \in Offset(i) .. EccPlace(i) : q <= m => head[q] = eeprom[q]
  BY <1>2 DEF IInv, ThreadInv, ReadInv
<1>4. n = Size
  BY <1>1, SeqOf
<1> HIDE DEF m
<1>5. /\ HasCells(all, Size)
      /\ \A q \in 1 .. Size : all[q] = IF q <= m THEN head[q] ELSE eeprom[q]
  <2> DEFINE a == m + 1
             z == Size
             k == z - m
             rest == SubSeq(eeprom, a, z)
  <2>1. all = Join(head, rest)
    BY <1>4 DEF Join
  <2> HIDE DEF all
  <2>2. /\ a \in Nat \ {0} /\ z \in Nat /\ a <= z + 1 /\ z <= z
        /\ m \in Nat /\ k \in Nat /\ z - a + 1 = k /\ m + k = z
        /\ \A q \in 1 .. k : a - 1 + q = m + q
    BY <1>1, <1>3
  <2>3. HasCells(eeprom, z)
    BY <1>1
  <2> HIDE DEF a, k, z
  <2>4. /\ HasCells(rest, z - a + 1)
        /\ \A q \in 1 .. z - a + 1 : rest[q] = eeprom[a - 1 + q]
    BY <2>2, <2>3, SubSeqOf
  <2> HIDE DEF rest
  <2>5. HasCells(rest, k) /\ \A q \in 1 .. k : rest[q] = eeprom[m + q]
    BY <2>2, <2>4
  <2>6. /\ HasCells(all, m + k)
        /\ \A q \in 1 .. m : all[q] = head[q]
        /\ \A q \in 1 .. k : all[m + q] = rest[q]
    <3>1. HasCells(head, m) /\ m \in Nat /\ HasCells(rest, k) /\ k \in Nat
      BY <1>3, <2>2, <2>5
    <3>2. /\ HasCells(Join(head, rest), m + k)
          /\ \A q \in 1 .. m : Join(head, rest)[q] = head[q]
          /\ \A q \in 1 .. k : Join(head, rest)[m + q] = rest[q]
      BY <3>1, MixedCells
    <3> QED
      BY <2>1, <3>2
  <2>7. HasCells(all, z)
    BY <2>2, <2>6
  <2>8. ASSUME NEW q \in 1 .. z
        PROVE  all[q] = IF q <= m THEN head[q] ELSE eeprom[q]
    <3>1. CASE q <= m
      <4>1. q \in 1 .. m
        BY <2>2, <3>1
      <4> QED
        BY <2>6, <3>1, <4>1
    <3>2. CASE ~(q <= m)
      <4>1. q - m \in 1 .. k /\ m + (q - m) = q
        BY <2>2, <3>2
      <4>2. all[m + (q - m)] = rest[q - m] /\ rest[q - m] = eeprom[m + (q - m)]
        BY <2>5, <2>6, <4>1
      <4> QED
        BY <3>2, <4>1, <4>2
    <3> QED
      BY <3>1, <3>2
  <2> QED
    BY <2>7, <2>8 DEF z
<1> HIDE DEF all
<1>6. Shape(all)
  <2>1. \A q \in Kept : all[q] = Image[q]
    BY <1>1, <1>3, <1>5, KeptPlaces DEF Laid
  <2> QED
    BY <1>5, <2>1, LaidShape DEF Laid
<1>7. ASSUME NEW i \in 1 .. Count, RecordName(i) \notin doubt
      PROVE  Good(all, i)
  <2>1. Offset(i) \in Nat \ {0} /\ EccPlace(i) \in Nat /\ EccPlace(i) <= Size
    BY <1>1, LaidShape, RecordWithin, RecordBounds
  <2>2. \A q \in Offset(i) .. EccPlace(i) : q \in 1 .. Size
    BY <1>1, <2>1
  <2>3. \A q \in Offset(i) .. EccPlace(i) : all[q] = eeprom[q]
    BY <1>3, <1>5, <1>7, <2>2
  <2>4. SameIn(eeprom, all, i)
    BY <2>3 DEF SameIn
  <2>5. Good(all, i) <=> Good(eeprom, i)
    BY <1>1, <1>5, <2>4, SameRecordFacts
  <2> QED
    BY <1>1, <1>3, <1>7, <2>5
<1>8. invalid' \subseteq doubt
  <2>1. InvalidRecords(all) =
          {RecordName(i) : i \in {j \in 1 .. Count : ~Good(all, j)}}
    BY <1>6, InvalidFacts
  <2> QED
    BY <1>2, <1>7, <2>1
<1>9. ThreadInv'
  BY <1>1, <1>2, <1>8 DEF ThreadInv
<1>10. EepromInv'
  BY <1>1, <1>2, NoEepromStep
<1>11. WriterInv'
  BY <1>2 DEF IInv, WriterInv, writerVars, Buffered, EccBuffered, IsLength
<1> QED
  BY <1>9, <1>10, <1>11 DEF IInv

LEMMA ResetStep ==
  ASSUME IInv, Reset
  PROVE  IInv'
<1>1. /\ Return(-1) /\ writes' = writes
      /\ head' = <<>> /\ invalid' = {} /\ doubt' = {}
  BY DEF Reset
<1>2. WriterInv'
  <2>1. writes' \in 0 .. MaxWrites
    BY <1>1 DEF IInv, WriterInv
  <2> QED
    BY <1>1, <2>1, ReturnFacts
<1>3. EepromInv'
  <2>1. CASE /\ pc = "ecc"
             /\ \E n \in 0 .. Len(buffer.cells) : Flush(n) /\ DataWritten(n)
    <3>1. PICK n \in 0 .. Len(buffer.cells) : Flush(n) /\ DataWritten(n)
      BY <2>1
    <3>2. PICK i \in 1 .. Count : \E k \in 1 .. Len(Kws(i)) : Buffered(i, k)
      BY <2>1 DEF IInv, WriterInv
    <3>3. PICK k \in 1 .. Len(Kws(i)) : Buffered(i, k)
      BY <3>2
    <3> QED
      BY <3>1, <3>3, FlushStep
  <2>2. CASE UNCHANGED <<eeprom, made, suspect>>
    BY <2>2, NoEepromStep DEF IInv
  <2> QED
    BY <2>1, <2>2 DEF Reset
<1>4. ThreadInv'
  BY <1>1 DEF ThreadInv
<1> QED
  BY <1>2, <1>3, <1>4 DEF IInv

-----------------------------------------------------------------------------
(* The invariant, and what follows from it.                                *)

LEMMA WriterSteps ==
  ASSUME IInv, WriterStep
  PROVE  IInv'
<1>1. EepromInv' /\ WriterInv' /\ Changes
  BY BeginStep, SetStep, EccStepOfWriter, CloseStep DEF WriterStep
<1>2. ThreadInv'
  BY <1>1, ThreadStep DEF IInv, WriterStep
<1> QED
  BY <1>1, <1>2 DEF IInv

LEMMA Stutter ==
  ASSUME IInv, UNCHANGED vars
  PROVE  IInv'
BY DEF IInv, vars, writerVars, EepromInv, WriterInv, ThreadInv, ReadInv,
       Buffered, EccBuffered, IsLength

(* Whatever keywords are written by writeKeywordOnHardware, cut short or   *)
(* failing, while a thread parses: the EEPROM keeps its layout, the writer *)
(* has in its stream only cells of the keyword or the ECC it writes, and what *)
(* the thread has read of a record without doubt is what is there now.     *)
THEOREM LayoutInvariant ==
  Spec => []IInv
<1>1. IInv /\ [Next]_vars => IInv'
  BY WriterSteps, ReadStep, ParseStep, ResetStep, Stutter DEF Next
<1> QED
  BY <1>1, InitInv, PTL DEF Spec

LEMMA TypesHold ==
  IInv => TypeOK
<1> SUFFICES ASSUME IInv
             PROVE  TypeOK
  OBVIOUS
<1>1. /\ HasCells(eeprom, Size) /\ Size \in Nat /\ Size >= 8
      /\ HasCells(Image, Size)
  <2>1. HasCells(eeprom, Size) /\ HasCells(Image, Size)
    BY ImageFacts DEF IInv, EepromInv, Laid, Shape
  <2>2. Size \in Nat /\ Count \in Nat /\ Size >= 8 + Count
    BY SizeBound
  <2>3. Size >= 8
    BY <2>2
  <2> QED
    BY <2>1, <2>2, <2>3
<1>2. DOMAIN eeprom = DOMAIN Image
  BY <1>1 DEF HasCells
<1>3. eeprom # <<>>
  <2>1. Len(eeprom) = Size
    BY <1>1, SeqOf
  <2> QED
    BY <1>1, <2>1
<1>4. ASSUME NEW i \in 1 .. Count, NEW k \in 1 .. Len(Kws(i)), Buffered(i, k)
      PROVE  /\ job.record # Vtoc
             /\ vec # <<>>
             /\ buffer # NoBuffer
             /\ Len(buffer.cells) \in 1 .. Len(KeywordsOf(job.record)[job.keyword])
  <2>1. /\ job.record = RecordName(i) /\ job.keyword = Kws(i)[k].name
        /\ buffer.at = DataAddress(i, k)
        /\ Len(buffer.cells) \in 1 .. Len(Kws(i)[k].data)
        /\ vec = Overwrite(eeprom, buffer.at, buffer.cells)
    BY <1>4 DEF Buffered
  <2>2. job.record # Vtoc
    BY <2>1, NamesFacts
  <2>3. vec # <<>>
    <3>1. DOMAIN vec = 1 .. Size
      BY <1>1, <2>1 DEF Overwrite, HasCells
    <3>2. DOMAIN <<>> = {}
      OBVIOUS
    <3>3. 1 \in 1 .. Size
      BY <1>1
    <3> QED
      BY <3>1, <3>2, <3>3
  <2>4. buffer # NoBuffer
    <3>1. DataAddress(i, k) # 0
      BY RecordBounds
    <3> QED
      BY <2>1, <3>1 DEF NoBuffer
  <2>5. KeywordsOf(job.record)[job.keyword] = Kws(i)[k].data
    BY <2>1, KeywordsOfFacts
  <2> QED
    BY <2>1, <2>2, <2>3, <2>4, <2>5
<1>5. ASSUME NEW i \in 1 .. Count, EccBuffered(i)
      PROVE  job.record # Vtoc /\ vec # <<>> /\ buffer # NoBuffer
  <2>1. job.record = RecordName(i) /\ vec = eeprom /\ buffer.at = EccPlace(i)
    BY <1>5 DEF EccBuffered
  <2>2. EccPlace(i) # 0
    BY RecordBounds
  <2> QED
    BY <1>3, <2>1, <2>2, NamesFacts DEF NoBuffer
<1>6. ASSUME NEW n, IsLength(n)
      PROVE  \E r \in Names : \E x \in DOMAIN KeywordsOf(r) :
               n \in 1 .. Len(KeywordsOf(r)[x])
  <2>1. PICK i \in 1 .. Count : \E k \in 1 .. Len(Kws(i)) :
          n \in 1 .. Len(Kws(i)[k].data)
    BY <1>6 DEF IsLength
  <2>2. PICK k \in 1 .. Len(Kws(i)) : n \in 1 .. Len(Kws(i)[k].data)
    BY <2>1
  <2> DEFINE r == RecordName(i)
             x == Kws(i)[k].name
  <2>3. /\ r \in Names /\ x \in DOMAIN KeywordsOf(r)
        /\ KeywordsOf(r)[x] = Kws(i)[k].data
    BY NamesFacts, KeywordsOfFacts DEF NamesIn
  <2> HIDE DEF r, x
  <2> QED
    BY <2>2, <2>3
<1>7. Len(head) < Len(Image)
  <2>1. CASE head = <<>>
    BY <1>1, <2>1 DEF Size
  <2>2. CASE head # <<>>
    <3> DEFINE m == Len(head)
    <3>1. m \in 1 .. Size - 1
      BY <2>2 DEF IInv, ThreadInv, ReadInv
    <3> HIDE DEF m
    <3>2. m < Size
      BY <1>1, <3>1
    <3> QED
      BY <3>2 DEF m, Size
  <2> QED
    BY <2>1, <2>2
<1>8. /\ pc \in {"idle", "set", "ecc", "close"}
      /\ pc = "idle" => job = NoJob /\ vec = <<>> /\ buffer = NoBuffer
      /\ pc = "set" => job.record # Vtoc /\ vec = eeprom /\ buffer = NoBuffer
      /\ pc = "ecc" => \E i \in 1 .. Count :
                         \E k \in 1 .. Len(Kws(i)) : Buffered(i, k)
      /\ pc = "close" => \E i \in 1 .. Count : EccBuffered(i)
      /\ result = -1 \/ IsLength(result)
      /\ writes \in 0 .. MaxWrites
  BY DEF IInv, WriterInv
<1>9. /\ job.record = Vtoc <=> pc = "idle"
      /\ vec = <<>> <=> pc = "idle"
      /\ buffer = NoBuffer <=> pc \in {"idle", "set"}
      /\ pc = "ecc" => Len(buffer.cells) \in
                         1 .. Len(KeywordsOf(job.record)[job.keyword])
  <2>1. CASE pc = "idle"
    BY <1>8, <2>1 DEF NoJob
  <2>2. CASE pc = "set"
    BY <1>3, <1>8, <2>2
  <2>3. CASE pc = "ecc"
    BY <1>4, <1>8, <2>3
  <2>4. CASE pc = "close"
    BY <1>5, <1>8, <2>4
  <2> QED
    BY <1>8, <2>1, <2>2, <2>3, <2>4
<1>10. invalid \subseteq Names /\ suspect \subseteq Names /\ doubt \subseteq Names
  BY DEF IInv, EepromInv, ThreadInv
<1> QED
  BY <1>2, <1>6, <1>7, <1>8, <1>9, <1>10 DEF TypeOK

(* The EEPROM keeps its size, setKeywordValueInRecord writes, and returns  *)
(* as updated, no more bytes than the keyword has, and an idle writer holds *)
(* no stream and nothing in a buffer.                                      *)
THEOREM IpzTypeCorrect ==
  Spec => []TypeOK
BY LayoutInvariant, TypesHold, PTL

LEMMA ValuesHold ==
  IInv => ValuesAsWritten
<1> SUFFICES ASSUME IInv, NEW r \in Names
             PROVE  LET e == Details(eeprom, r)
                        read == ReadKeywords(eeprom, e.offset)
                    IN /\ DOMAIN read = {RT} \cup DOMAIN made[r]
                       /\ \A n \in DOMAIN made[r] :
                            /\ read[n] = made[r][n]
                            /\ ReadKeywordFromHardware(eeprom, r, n) = made[r][n]
  BY DEF ValuesAsWritten
<1>1. PICK i \in 1 .. Count : r = RecordName(i)
  BY NamesFacts
<1>2. Shape(eeprom)
  BY LaidShape DEF IInv, EepromInv
<1>3. Details(eeprom, r).offset = Offset(i)
  <2>1. Details(eeprom, r) = Entry(i)
    BY <1>1, <1>2, TableFacts
  <2> QED
    BY <2>1 DEF Entry, Offset, Count
<1>4. /\ DOMAIN made[r] = NamesIn(Kws(i))
      /\ \A k \in 1 .. Len(Kws(i)) : made[r][Kws(i)[k].name] = DataOf(eeprom, i, k)
  BY <1>1 DEF IInv, EepromInv
<1>5. DOMAIN ReadKeywords(eeprom, Offset(i)) = {RT} \cup NamesIn(Kws(i))
  BY <1>2, NoKeyword
<1>6. ASSUME NEW n \in NamesIn(Kws(i))
      PROVE  /\ ReadKeywords(eeprom, Offset(i))[n] = made[r][n]
             /\ ReadKeywordFromHardware(eeprom, r, n) = made[r][n]
  <2>1. PICK k \in 1 .. Len(Kws(i)) : n = Kws(i)[k].name
    BY DEF NamesIn
  <2> DEFINE p == FindKeyword(eeprom, Offset(i), Kws(i)[k].name)
  <2>2. p = FindKeyword(eeprom, Offset(i), Kws(i)[k].name)
    OBVIOUS
  <2> HIDE DEF p
  <2>3. /\ ReadKeywordFromHardware(eeprom, RecordName(i), Kws(i)[k].name) =
             DataOf(eeprom, i, k)
        /\ ReadKeywords(eeprom, Offset(i))[Kws(i)[k].name] = DataOf(eeprom, i, k)
    BY <1>2, <2>2, KeywordFacts
  <2> QED
    BY <1>1, <1>4, <2>1, <2>3
<1> QED
  BY <1>3, <1>4, <1>5, <1>6

(* Whatever was written, wherever it ended: a parse and a read of one      *)
(* keyword find what the writes have made of that keyword.                 *)
THEOREM ValuesAlwaysAsWritten ==
  Spec => []ValuesAsWritten
BY LayoutInvariant, ValuesHold, PTL

(* processInvalidRecords names a record only if a write of it ended before *)
(* its ECC, or went on while the thread read it; all other records of the  *)
(* EEPROM pass recordEccCheck, whatever was written to their neighbours.   *)
THEOREM AlarmAlwaysHasCause ==
  Spec => []AlarmHasCause
<1>1. IInv => AlarmHasCause
  BY DEF IInv, ThreadInv, AlarmHasCause
<1> QED
  BY <1>1, LayoutInvariant, PTL
=============================================================================

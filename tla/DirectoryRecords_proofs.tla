------------------------ MODULE DirectoryRecords_proofs ------------------------
(***************************************************************************)
(* Theorems about DirectoryRecords for every sector size and every list of *)
(* entries whose records' lengths fit a signed char.                       *)
(*                                                                         *)
(* Struct says how far each loop is and that the copy stays within the     *)
(* sector it has counted; FillInv and CopyInv relate the offset to what was*)
(* added up for the buffer; MeasureInv and AgreeInv relate it to the data  *)
(* length below the root, RootInv and Unpadded in the root, CountInv and   *)
(* CoverInv below it when records end exactly with their sectors.          *)
(***************************************************************************)
EXTENDS DirectoryRecords, SumLemmas, TLAPS

(* The assumptions on the constants, one by one.                           *)
LEMMA SectorFacts == Sector \in Nat /\ Sector > 223 /\ Listings \subseteq Seq(Entry)
BY RecordsAssumption DEF NavRecords, LongestRecord

(* Division by the size of a sector, as far as the proofs need it.         *)
LEMMA DivBounds ==
  ASSUME NEW a \in Nat
  PROVE  /\ a \div Sector \in Nat
         /\ Sector * (a \div Sector) <= a
         /\ a < Sector * (a \div Sector) + Sector
         /\ a % Sector = a - Sector * (a \div Sector)
BY SectorFacts, SMTT(20)

(* Multiplying by the sector's size keeps the order.                       *)
LEMMA MulMono ==
  ASSUME NEW a \in Int, NEW b \in Int, a <= b
  PROVE  Sector * a <= Sector * b
BY SectorFacts, SMTT(20)

(* A quotient is known by the multiples of the sector around the number.   *)
LEMMA DivIs ==
  ASSUME NEW a \in Nat, NEW q \in Nat, Sector * q <= a, a < Sector * q + Sector
  PROVE  a \div Sector = q /\ a % Sector = a - Sector * q
<1> DEFINE d == a \div Sector
           from == Sector * d
           low == Sector * q
<1>1. /\ d \in Nat /\ from <= a /\ a < from + Sector
      /\ a % Sector = a - from
  BY DivBounds
<1>2. /\ low \in Int /\ Sector * (q + 1) = low + Sector
      /\ from \in Int /\ Sector * (d + 1) = from + Sector
      /\ low <= a /\ a < low + Sector /\ Sector \in Int
  BY <1>1, SectorFacts
<1> HIDE DEF d
<1>3. ASSUME d < q PROVE FALSE
  <2>1. from + Sector <= low
    BY <1>1, <1>2, <1>3, MulMono
  <2> HIDE DEF from, low
  <2> QED BY ONLY <1>1, <1>2, <2>1, a \in Nat
<1>4. ASSUME q < d PROVE FALSE
  <2>1. low + Sector <= from
    BY <1>1, <1>2, <1>4, MulMono
  <2> HIDE DEF from, low
  <2> QED BY ONLY <1>1, <1>2, <2>1, a \in Nat
<1>5. d = q
  BY <1>1, <1>3, <1>4
<1> QED BY <1>1, <1>5 DEF d

(* A record is between 48 and 127 bytes long.                              *)
LEMMA RecLenBounds ==
  ASSUME NEW e \in Entry
  PROVE  RecLen(e) \in Nat /\ 48 <= RecLen(e) /\ RecLen(e) <= LongestRecord
BY DEF Entry, RecLen, LongestRecord

-----------------------------------------------------------------------------
Shape ==
  /\ Len(filled) = Len(dir_rec)
  /\ step = "measure" => Len(sized) = index /\ dir_rec = <<>> /\ file_buf = <<>>
  /\ step # "measure" => Len(sized) = Count
  /\ step = "fill" => Len(dir_rec) + Len(file_buf) = index
  /\ step \in {"measure", "fill"} =>
       starts = <<>> /\ offset = NavRecords /\ prev_sec = 0
  /\ step \in {"write", "done"} => Len(dir_rec) = Count /\ Len(starts) = index
  /\ step = "done" => index = Count

(* While records are left, the next one ends within the sector counted.    *)
Ahead ==
  step \in {"write", "done"} =>
    /\ Sector * prev_sec <= offset
    /\ index < Count =>
         offset + RecLen(dir_rec[index + 1]) < Sector * prev_sec + Sector

Struct == TypeOK /\ Shape /\ Ahead

Copying == step = "write" /\ index < Count
After == offset + RecLen(dir_rec[index + 1])

(* The step of the copy: either there is no padding and the next record    *)
(* ends in this sector, or the next sector begins right behind the padding.*)
LEMMA CopyStep ==
  ASSUME Struct, Copying
  PROVE  /\ After \in Nat /\ dir_rec[index + 1] \in Entry
         /\ After < Sector * prev_sec + Sector
         /\ Sector * prev_sec <= After
         /\ NextEndsIn(After) \in Nat
         /\ NextEndsIn(After) > prev_sec =>
              /\ index + 1 < Count
              /\ dir_rec[index + 2] \in Entry
              /\ NextEndsIn(After) = prev_sec + 1
              /\ Sector * NextEndsIn(After) = Sector * prev_sec + Sector
              /\ Sector * NextEndsIn(After) <= After + RecLen(dir_rec[index + 2])
         /\ ~(NextEndsIn(After) > prev_sec) /\ index + 1 < Count =>
              After + RecLen(dir_rec[index + 2]) < Sector * prev_sec + Sector
<1> DEFINE sec == NextEndsIn(After)
<1> DEFINE next == RecLen(dir_rec[index + 2])
<1>1. /\ index \in Nat /\ Count \in Nat /\ offset \in Nat /\ prev_sec \in Nat
      /\ Len(dir_rec) = Count /\ dir_rec \in Seq(Entry) /\ index < Count
  BY SectorFacts DEF Struct, TypeOK, Shape, Copying, Count
<1>2. dir_rec[index + 1] \in Entry
  BY <1>1
<1>3. After \in Nat /\ offset <= After
  BY <1>1, <1>2, RecLenBounds DEF After
<1>4. After < Sector * prev_sec + Sector /\ Sector * prev_sec <= offset
  BY <1>1 DEF Struct, Ahead, After, Copying
<1>5. Sector * prev_sec \in Nat /\ Sector \in Nat
  BY <1>1, SectorFacts
<1>6. CASE index + 1 = Count
  <2>1. NextEndsIn(After) = prev_sec
    BY <1>6 DEF NextEndsIn
  <2> QED BY <2>1, <1>1, <1>2, <1>3, <1>4, <1>5, <1>6
<1>7. CASE index + 1 # Count
  <2>1. dir_rec[index + 2] \in Entry
    BY <1>1, <1>7
  <2>2. next \in Nat /\ next <= 127
    BY <2>1, RecLenBounds DEF LongestRecord
  <2>3. sec = (After + next) \div Sector
    BY <1>7 DEF NextEndsIn
  <2>4. After + next \in Nat
    BY <1>3, <2>2
  <2>5. /\ sec \in Nat /\ Sector * sec <= After + next
        /\ After + next < Sector * sec + Sector
    BY <2>3, <2>4, DivBounds
  <2>6. ASSUME sec > prev_sec PROVE sec = prev_sec + 1
    <3>1. After + next < Sector * prev_sec + Sector + Sector
      BY <1>3, <1>4, <1>5, <2>2, SectorFacts
    <3>2. SUFFICES ASSUME prev_sec + 2 <= sec PROVE FALSE
      BY <2>5, <2>6, <1>1
    <3>3. Sector * (prev_sec + 2) <= Sector * sec
      BY <3>2, <2>5, <1>1, MulMono
    <3>4. Sector * (prev_sec + 2) = Sector * prev_sec + Sector + Sector
      BY <1>1, SectorFacts
    <3> QED BY <3>1, <3>3, <3>4, <2>5, <2>4, <1>5, <1>1, SectorFacts
  <2>7. Sector * (prev_sec + 1) = Sector * prev_sec + Sector
    BY <1>1, SectorFacts
  <2>8. ASSUME ~(sec > prev_sec) PROVE After + next < Sector * prev_sec + Sector
    <3>1. Sector * sec <= Sector * prev_sec
      BY <2>8, <2>5, <1>1, MulMono
    <3>2. Sector * sec \in Nat
      BY <2>5, SectorFacts
    <3> QED BY <3>1, <3>2, <2>5, <2>4, <1>5
  <2> QED BY <2>1, <2>2, <2>5, <2>6, <2>7, <2>8, <1>1, <1>2, <1>3, <1>4, <1>5, <1>7
<1> QED BY <1>6, <1>7

(* The counters start in range,                                            *)
LEMMA StructInit == Init => Struct
<1> SUFFICES ASSUME Init PROVE Struct
  OBVIOUS
<1>1. TypeOK
  BY SectorFacts DEF Init, TypeOK, Count, NavRecords
<1>2. Shape
  BY DEF Init, Shape, Count
<1>3. Ahead
  BY DEF Init, Ahead
<1> QED BY <1>1, <1>2, <1>3 DEF Struct

(* and every iteration of the three loops leaves them there.               *)
LEMMA StructNext == Struct /\ [Next]_vars => Struct'
<1> SUFFICES ASSUME Struct, [Next]_vars PROVE Struct'
  OBVIOUS
<1> USE SectorFacts
<1>0. TypeOK /\ Shape /\ Ahead
  BY DEF Struct
<1>t. /\ listing \in Seq(Entry) /\ Count \in Nat /\ index \in Nat
      /\ index <= Count
  BY <1>0 DEF TypeOK, Count
<1>1. CASE MeasureRoot
  <2>1. index < Count /\ RecLen(listing[index + 1]) \in Nat
    BY <1>1, <1>t, RecLenBounds DEF MeasureRoot, Count
  <2>2. TypeOK'
    BY <1>0, <1>1, <1>t, <2>1
       DEF TypeOK, MeasureRoot, filling, copying, Count
  <2>3. Shape'
    BY <1>0, <1>1, <1>t, <2>1
       DEF Shape, TypeOK, MeasureRoot, filling, copying, Count
  <2>4. Ahead'
    BY <1>1 DEF Ahead, MeasureRoot
  <2> QED BY <2>2, <2>3, <2>4 DEF Struct
<1>2. CASE Measure
  <2> DEFINE next == RecLen(listing[index + 1])
  <2> DEFINE at == IF dir_len + next > Sector * section
                     THEN dir_len + (Sector - (dir_len % Sector)) ELSE dir_len
  <2>1. index < Count /\ next \in Nat
    BY <1>2, <1>t, RecLenBounds DEF Measure, Count
  <2>2. dir_len \in Nat /\ section \in Nat
    BY <1>0 DEF TypeOK
  <2>3. at \in Nat
    <3>1. dir_len % Sector \in 0 .. Sector - 1
      BY <2>2
    <3> QED BY <3>1, <2>2
  <2>4. /\ sized' = Append(sized, at) /\ dir_len' = at + next
        /\ section' \in {section, section + 1}
    BY <1>2 DEF Measure
  <2> HIDE DEF next, at
  <2>5. TypeOK'
    BY <1>0, <1>2, <1>t, <2>1, <2>2, <2>3, <2>4
       DEF TypeOK, Measure, filling, copying, Count
  <2>6. Shape'
    BY <1>0, <1>2, <1>t, <2>1, <2>3, <2>4
       DEF Shape, TypeOK, Measure, filling, copying, Count
  <2>7. Ahead'
    BY <1>2 DEF Ahead, Measure
  <2> QED BY <2>5, <2>6, <2>7 DEF Struct
<1>3. CASE Measured
  <2>1. TypeOK'
    BY <1>0, <1>3, <1>t DEF TypeOK, Measured, measuring, filling, copying, Count
  <2>2. Shape'
    BY <1>0, <1>3, <1>t DEF Shape, TypeOK, Measured, measuring, filling, copying, Count
  <2>3. Ahead'
    BY <1>3 DEF Ahead, Measured
  <2> QED BY <2>1, <2>2, <2>3 DEF Struct
<1>4. CASE FillEntry
  <2>1. index < Count /\ listing[index + 1] \in Entry
    BY <1>4, <1>t DEF FillEntry, Count
  <2>2. RecLen(listing[index + 1]) \in Nat
    BY <2>1, RecLenBounds
  <2> DEFINE e == listing[index + 1]
  <2>3. /\ index' = index + 1 /\ step = "fill"
        /\ UNCHANGED <<listing, is_root, step, dir_len, section, sized,
                       needed_sectors, offset, prev_sec, starts>>
    BY <1>4 DEF FillEntry, measuring, copying
  <2>4. TypeOK' /\ Shape'
    <3>1. CASE is_root /\ ~e.dir
      <4>1. /\ file_buf' = Append(file_buf, e)
            /\ dir_rec' = dir_rec /\ needed_memory' = needed_memory
            /\ filled' = filled
        BY <1>4, <3>1 DEF FillEntry
      <4>2. TypeOK'
        BY <4>1, <2>3, <1>0, <1>t, <2>1 DEF TypeOK, Count
      <4>3. file_buf \in Seq(Entry) /\ Len(file_buf') = Len(file_buf) + 1
        BY <4>1, <1>0, <2>1 DEF TypeOK
      <4>4. Len(dir_rec) \in Nat /\ Len(file_buf) \in Nat
        BY <1>0, <4>3 DEF TypeOK
      <4>5. /\ Len(filled) = Len(dir_rec) /\ Len(sized) = Count
            /\ Len(dir_rec) + Len(file_buf) = index
            /\ starts = <<>> /\ offset = NavRecords /\ prev_sec = 0
        BY <2>3, <1>0 DEF Shape
      <4>6. Len(dir_rec') + Len(file_buf') = index' /\ Len(filled') = Len(dir_rec')
        <5>1. dir_rec' = dir_rec /\ filled' = filled /\ index' = index + 1
          BY <4>1, <2>3
        <5>2. Len(dir_rec') = Len(dir_rec) /\ Len(filled') = Len(dir_rec')
          BY <5>1, <4>5
        <5>3. Len(dir_rec) + (Len(file_buf) + 1) = index + 1
          BY <4>4, <4>5, <1>t
        <5> QED BY <5>1, <5>2, <5>3, <4>3
      <4>7. step' = "fill" /\ Len(sized') = Count'
        BY <4>5, <2>3 DEF Count
      <4>8. Shape'
        BY <4>5, <4>6, <4>7, <2>3 DEF Shape
      <4> QED BY <4>2, <4>8
    <3>2. CASE ~(is_root /\ ~e.dir)
      <4>1. /\ dir_rec' = Append(dir_rec, e) /\ file_buf' = file_buf
            /\ needed_memory' = needed_memory + RecLen(e)
            /\ filled' = Append(filled, needed_memory + RecLen(e))
        BY <1>4, <3>2 DEF FillEntry, FillDirectoryRecord
      <4>2. TypeOK'
        BY <4>1, <2>2, <2>3, <1>0, <1>t, <2>1, SMTT(30) DEF TypeOK, Count
      <4>3. Shape'
        BY <4>1, <2>2, <2>3, <1>0, <1>t, <2>1, SMTT(30) DEF TypeOK, Shape, Count
      <4> QED BY <4>2, <4>3
    <3> QED BY <3>1, <3>2
  <2>5. Ahead'
    BY <1>4 DEF Ahead, FillEntry
  <2> QED BY <2>4, <2>5 DEF Struct
<1>5. CASE FillFile
  <2>0. file_buf \in Seq(Entry) /\ file_buf # <<>>
    BY <1>0, <1>5 DEF FillFile, TypeOK
  <2>1. Head(file_buf) \in Entry /\ Tail(file_buf) \in Seq(Entry)
        /\ Len(Tail(file_buf)) = Len(file_buf) - 1
    BY <2>0
  <2>2. RecLen(Head(file_buf)) \in Nat
    BY <2>1, RecLenBounds
  <2>3. TypeOK'
    BY <1>0, <1>5, <1>t, <2>1, <2>2
       DEF TypeOK, FillFile, FillDirectoryRecord, measuring, copying, Count
  <2>4. Shape'
    <3>1. /\ dir_rec' = Append(dir_rec, Head(file_buf))
          /\ filled' = Append(filled, needed_memory')
          /\ needed_memory' = needed_memory + RecLen(Head(file_buf))
          /\ file_buf' = Tail(file_buf) /\ step = "fill"
          /\ UNCHANGED <<listing, is_root, step, index, sized, offset, prev_sec,
                         starts>>
      BY <1>5 DEF FillFile, FillDirectoryRecord, measuring, copying
    <3>2. /\ Len(dir_rec') = Len(dir_rec) + 1 /\ Len(dir_rec) \in Nat
          /\ Len(filled') = Len(filled) + 1 /\ Len(file_buf) \in Nat
      BY <3>1, <1>0, <2>0, <2>1, <2>2 DEF TypeOK
    <3>3. /\ Len(filled) = Len(dir_rec) /\ Len(sized) = Count
          /\ Len(dir_rec) + Len(file_buf) = index
          /\ starts = <<>> /\ offset = NavRecords /\ prev_sec = 0
      BY <3>1, <1>0 DEF Shape
    <3>4. Len(dir_rec') + Len(file_buf') = index' /\ Len(filled') = Len(dir_rec')
      <4>1. index' = index /\ Len(file_buf') = Len(file_buf) - 1
        BY <3>1, <2>1
      <4>2. (Len(dir_rec) + 1) + (Len(file_buf) - 1) = index
        BY <3>2, <3>3, <1>t
      <4> QED BY <3>2, <3>3, <4>1, <4>2
    <3>5. step' = "fill" /\ Len(sized') = Count'
      BY <3>1, <3>3 DEF Count
    <3> QED BY <3>1, <3>3, <3>4, <3>5 DEF Shape
  <2>5. Ahead'
    BY <1>5 DEF Ahead, FillFile
  <2> QED BY <2>3, <2>4, <2>5 DEF Struct
<1>6. CASE Allocate
  <2>0. needed_memory \in Nat /\ SectorsOf(needed_memory) \in Nat
    <3>1. needed_memory \in Nat /\ needed_memory + Sector - 1 \in Nat
      BY <1>0 DEF TypeOK
    <3> QED BY <3>1, DivBounds DEF SectorsOf
  <2>1. TypeOK'
    BY <1>0, <1>6, <1>t, <2>0 DEF TypeOK, Allocate, measuring, copying, Count
  <2>2. Shape'
    BY <1>0, <1>6, <1>t DEF Shape, TypeOK, Allocate, measuring, copying, Count
  <2>3. Ahead'
    <3>1. /\ offset' = NavRecords /\ prev_sec' = 0 /\ dir_rec' = dir_rec
          /\ index' = 0 /\ Count' = Count /\ Len(dir_rec) = Count
      BY <1>0, <1>6 DEF Allocate, Shape, TypeOK, copying, Count
    <3>2. dir_rec \in Seq(Entry)
      BY <1>0 DEF TypeOK
    <3>3. Count > 0 => RecLen(dir_rec[1]) \in Nat /\ RecLen(dir_rec[1]) <= 127
      BY <3>1, <3>2, RecLenBounds DEF LongestRecord
    <3>4. Sector * 0 = 0
      OBVIOUS
    <3>5. RecLen(dir_rec[1])' = RecLen(dir_rec'[1])
      BY DEF RecLen
    <3> QED BY <3>1, <3>3, <3>4, <3>5 DEF Ahead, NavRecords, RecLen
  <2> QED BY <2>1, <2>2, <2>3 DEF Struct
<1>7. CASE CopyRecord
  <2>1. Copying
    BY <1>7 DEF CopyRecord, Copying
  <2> DEFINE sec == NextEndsIn(After)
  <2>2. /\ After \in Nat /\ Sector * prev_sec <= After
        /\ After < Sector * prev_sec + Sector /\ sec \in Nat
        /\ sec > prev_sec =>
             /\ index + 1 < Count /\ dir_rec[index + 2] \in Entry
             /\ Sector * sec = Sector * prev_sec + Sector
        /\ ~(sec > prev_sec) /\ index + 1 < Count =>
             After + RecLen(dir_rec[index + 2]) < Sector * prev_sec + Sector
    BY <2>1, CopyStep DEF Struct
  <2>3. /\ prev_sec' = IF sec > prev_sec THEN sec ELSE prev_sec
        /\ offset' = IF sec > prev_sec THEN Sector * sec ELSE After
        /\ needed_memory' = IF sec > prev_sec
                              THEN needed_memory + (Sector * sec - After)
                              ELSE needed_memory
        /\ starts' = Append(starts, offset) /\ index' = index + 1
        /\ step' = step /\ step = "write"
        /\ UNCHANGED <<listing, is_root, measuring, filling>>
    BY <1>7 DEF CopyRecord, After
  <2>4. index < Count /\ Count' = Count
    BY <2>1, <2>3 DEF Copying, Count
  <2>5. Sector * prev_sec \in Nat /\ prev_sec \in Nat /\ needed_memory \in Nat
        /\ offset \in Nat
    BY <1>0 DEF TypeOK
  <2> HIDE DEF sec
  <2>6. prev_sec' \in Nat /\ offset' \in Nat /\ needed_memory' \in Nat
    BY <2>2, <2>3, <2>5
  <2>7. TypeOK'
    BY <1>0, <1>t, <2>3, <2>4, <2>5, <2>6 DEF TypeOK, measuring, filling
  <2>8. Shape'
    BY <1>0, <1>t, <2>3, <2>4, <2>5, SMTT(30) DEF Shape, TypeOK, measuring, filling
  <2>9. Ahead'
    <3>1. dir_rec' = dir_rec
      BY <2>3 DEF filling
    <3>2. CASE sec > prev_sec
      <4>1. RecLen(dir_rec[index + 2]) \in Nat /\ RecLen(dir_rec[index + 2]) <= 127
        BY <2>2, <3>2, RecLenBounds DEF LongestRecord
      <4>2. prev_sec' = sec /\ offset' = Sector * sec /\ index' + 1 = index + 2
        BY <2>3, <3>2, <1>t
      <4>3. offset' + RecLen(dir_rec[index + 2]) < Sector * prev_sec' + Sector
        BY <4>1, <4>2, <2>2
      <4> QED BY <4>2, <4>3, <2>6, <3>1 DEF Ahead, RecLen
    <3>3. CASE ~(sec > prev_sec)
      <4>1. prev_sec' = prev_sec /\ offset' = After /\ index' + 1 = index + 2
        BY <2>3, <3>3, <1>t
      <4>2. index' < Count => index + 1 < Count
        BY <2>3
      <4> QED BY <4>1, <4>2, <2>2, <2>4, <3>1, <3>3 DEF Ahead, RecLen
    <3> QED BY <3>2, <3>3
  <2> QED BY <2>7, <2>8, <2>9 DEF Struct
<1>8. CASE WriteBuffer
  <2>1. TypeOK'
    BY <1>0, <1>8, <1>t DEF TypeOK, WriteBuffer, measuring, filling, copying, Count
  <2>2. Shape'
    BY <1>0, <1>8, <1>t DEF Shape, TypeOK, WriteBuffer, measuring, filling, copying, Count
  <2>3. Ahead'
    BY <1>0, <1>8, <1>t DEF Ahead, WriteBuffer, filling, copying, Count, RecLen
  <2> QED BY <2>1, <2>2, <2>3 DEF Struct
<1>9. CASE UNCHANGED vars
  <2>1. TypeOK'
    BY <1>0, <1>9 DEF TypeOK, vars, measuring, filling, copying, Count
  <2>2. Shape'
    BY <1>0, <1>9 DEF Shape, vars, measuring, filling, copying, Count
  <2>3. Ahead'
    BY <1>0, <1>9 DEF Ahead, vars, measuring, filling, copying, Count, RecLen
  <2> QED BY <2>1, <2>2, <2>3 DEF Struct
<1> QED BY <1>1, <1>2, <1>3, <1>4, <1>5, <1>6, <1>7, <1>8, <1>9 DEF Next

(* TypeOK: the buffers and counters of API.cpp's three loops stay in their *)
(* types, in particular no padding is ever negative.                       *)
THEOREM TypeCorrect == Spec => []TypeOK
<1>1. Struct => TypeOK
  BY DEF Struct
<1> QED BY StructInit, StructNext, <1>1, PTL DEF Spec

(* The counters of a directory's loops are always where the control flow   *)
(* allows (API.cpp, lines 631 to 752).                                     *)
THEOREM StructInvariant == Spec => []Struct
BY StructInit, StructNext, PTL DEF Spec

-----------------------------------------------------------------------------
(* What has been added up for the buffer after the first j records.        *)
Filled(j) == IF j = 0 THEN NavRecords ELSE filled[j]

FillInv ==
  /\ step \in {"measure", "fill"} => needed_memory = Filled(Len(filled))
  /\ \A i \in 1 .. Len(filled) : filled[i] = Filled(i - 1) + RecLen(dir_rec[i])
  /\ \A i \in 1 .. Len(filled) : filled[i] <= Filled(Len(filled))
  /\ step \in {"write", "done"} => needed_sectors = SectorsOf(Filled(Count))

(* One more record added up.                                               *)
LEMMA FillRecord ==
  ASSUME NEW e \in Entry, Struct, FillInv, step = "fill", FillDirectoryRecord(e)
  PROVE  /\ needed_memory' = Filled(Len(filled))'
         /\ \A i \in 1 .. Len(filled') :
              filled'[i] = Filled(i - 1)' + RecLen(dir_rec'[i])
         /\ \A i \in 1 .. Len(filled') : filled'[i] <= Filled(Len(filled))'
<1> DEFINE n == Len(filled)
<1>1. /\ filled \in Seq(Nat) /\ dir_rec \in Seq(Entry) /\ needed_memory \in Nat
      /\ Len(dir_rec) = n
  BY DEF Struct, TypeOK, Shape
<1>2. RecLen(e) \in Nat /\ n \in Nat
  BY RecLenBounds, <1>1
<1>3. /\ filled' = Append(filled, needed_memory + RecLen(e))
      /\ dir_rec' = Append(dir_rec, e)
      /\ needed_memory' = needed_memory + RecLen(e)
  BY DEF FillDirectoryRecord
<1>4. needed_memory = Filled(n)
  BY DEF FillInv
<1>5. /\ Len(filled') = n + 1 /\ filled'[n + 1] = needed_memory + RecLen(e)
      /\ dir_rec'[n + 1] = e
      /\ \A i \in 1 .. n : filled'[i] = filled[i] /\ dir_rec'[i] = dir_rec[i]
  BY <1>1, <1>2, <1>3
<1>6. \A i \in 0 .. n : Filled(i)' = Filled(i)
  BY <1>5, <1>2 DEF Filled
<1>7. Filled(Len(filled))' = needed_memory + RecLen(e)
  BY <1>5, <1>2 DEF Filled
<1>8. ASSUME NEW i \in 1 .. n + 1
      PROVE  filled'[i] = Filled(i - 1)' + RecLen(dir_rec'[i])
  <2>1. CASE i = n + 1
    BY <2>1, <1>2, <1>4, <1>5, <1>6
  <2>2. CASE i \in 1 .. n
    <3>1. filled[i] = Filled(i - 1) + RecLen(dir_rec[i])
      BY <2>2 DEF FillInv
    <3>2. i - 1 \in 0 .. n
      BY <2>2, <1>2
    <3> QED BY <3>1, <3>2, <2>2, <1>5, <1>6
  <2> QED BY <2>1, <2>2, <1>2
<1>9. ASSUME NEW i \in 1 .. n + 1
      PROVE  filled'[i] <= Filled(Len(filled))'
  <2>1. CASE i = n + 1
    BY <2>1, <1>1, <1>2, <1>5, <1>7
  <2>2. CASE i \in 1 .. n
    <3>1. filled[i] <= needed_memory /\ filled[i] \in Nat
      BY <2>2, <1>1, <1>4 DEF FillInv
    <3> QED BY <3>1, <2>2, <1>1, <1>2, <1>5, <1>7
  <2> QED BY <2>1, <2>2, <1>2
<1> QED BY <1>3, <1>5, <1>7, <1>8, <1>9

(* Every step keeps the buffer's size the sum of the records.              *)
LEMMA FillInvNext == Struct /\ FillInv /\ [Next]_vars => FillInv'
<1> SUFFICES ASSUME Struct, FillInv, [Next]_vars PROVE FillInv'
  OBVIOUS
<1>0. ASSUME UNCHANGED <<filled, dir_rec, needed_memory, needed_sectors, step, listing>>
      PROVE  FillInv'
  BY <1>0 DEF FillInv, Filled, Count, RecLen, SectorsOf
<1>1. CASE MeasureRoot \/ Measure \/ WriteBuffer \/ Measured \/ UNCHANGED vars
  <2>1. /\ UNCHANGED <<filled, dir_rec, needed_memory, needed_sectors, listing>>
        /\ \/ step' = step
           \/ step = "measure" /\ step' = "fill"
           \/ step = "write" /\ step' = "done"
    BY <1>1 DEF MeasureRoot, Measure, Measured, WriteBuffer, vars, filling
  <2> QED BY <2>1 DEF FillInv, Filled, Count, RecLen, SectorsOf
<1>2. CASE FillEntry
  <2> DEFINE e == listing[index + 1]
  <2>1. e \in Entry
    BY <1>2, SectorFacts DEF FillEntry, Struct, TypeOK, Count
  <2>2. step = "fill" /\ step' = "fill" /\ UNCHANGED <<needed_sectors, listing>>
    BY <1>2 DEF FillEntry
  <2>3. CASE UNCHANGED <<dir_rec, needed_memory, filled>>
    BY <1>0, <2>2, <2>3
  <2>4. CASE FillDirectoryRecord(e)
    BY <2>1, <2>2, <2>4, FillRecord DEF FillInv
  <2> QED BY <1>2, <2>3, <2>4 DEF FillEntry
<1>3. CASE FillFile
  <2> DEFINE e == Head(file_buf)
  <2>1. e \in Entry
    BY <1>3 DEF FillFile, Struct, TypeOK
  <2>2. /\ step = "fill" /\ step' = "fill" /\ UNCHANGED <<needed_sectors, listing>>
        /\ FillDirectoryRecord(e)
    BY <1>3 DEF FillFile
  <2> QED BY <2>1, <2>2, FillRecord DEF FillInv
<1>4. CASE Allocate
  <2>1. /\ UNCHANGED <<filled, dir_rec, needed_memory, listing>>
        /\ needed_sectors' = SectorsOf(needed_memory)
        /\ step = "fill" /\ step' = "write" /\ index = Count /\ file_buf = <<>>
    BY <1>4 DEF Allocate
  <2>2. Len(filled) = Count
    BY <2>1 DEF Struct, Shape, TypeOK, Count
  <2>3. needed_memory = Filled(Count)
    BY <2>1, <2>2 DEF FillInv
  <2> QED BY <2>1, <2>2, <2>3 DEF FillInv, Filled, Count, RecLen, SectorsOf
<1>5. CASE CopyRecord
  <2>1. /\ UNCHANGED <<filled, dir_rec, needed_sectors, listing>>
        /\ step = "write" /\ step' = "write"
    BY <1>5 DEF CopyRecord, filling
  <2> QED BY <2>1 DEF FillInv, Filled, Count, RecLen, SectorsOf
<1> QED BY <1>1, <1>2, <1>3, <1>4, <1>5 DEF Next

(* The sum of the records starts at the two headings,                      *)
LEMMA FillInvInit == Init => FillInv
BY DEF Init, FillInv, Filled

(* The size of the buffer is always the sum of the records filled so far   *)
(* (API.cpp, lines 674 to 705).                                            *)
THEOREM FillInvariant == Spec => []FillInv
BY FillInvInit, FillInvNext, StructInvariant, PTL DEF Spec

-----------------------------------------------------------------------------
(* Packing.                                                                *)

LastEnd == IF index = 0 THEN NavRecords ELSE Ends(index)

(* The next record goes behind the last one or to the next sector.         *)
NextPlace ==
  step \in {"write", "done"} /\ index < Count =>
    offset \in {LastEnd, Sector * ((LastEnd \div Sector) + 1)}

(* The next record's place is always the end of the last one or a sector's *)
(* start.                                                                  *)
LEMMA NextPlaceNext == Struct /\ NextPlace /\ [Next]_vars => NextPlace'
<1> SUFFICES ASSUME Struct, NextPlace, [Next]_vars PROVE NextPlace'
  OBVIOUS
<1>1. CASE CopyRecord
  <2>1. Copying
    BY <1>1 DEF CopyRecord, Copying
  <2> DEFINE sec == NextEndsIn(After)
  <2>2. /\ After \in Nat /\ Sector * prev_sec <= After
        /\ After < Sector * prev_sec + Sector /\ sec \in Nat
        /\ sec > prev_sec => sec = prev_sec + 1
    BY <2>1, CopyStep
  <2>3. prev_sec \in Nat /\ index \in Nat /\ starts \in Seq(Nat) /\ offset \in Nat
        /\ Len(starts) = index /\ dir_rec[index + 1] \in Entry
    BY <2>1, CopyStep DEF Struct, TypeOK, Shape, Copying, Count
  <2>4. After \div Sector = prev_sec
    BY <2>2, <2>3, DivIs
  <2>5. /\ starts' = Append(starts, offset) /\ dir_rec' = dir_rec
        /\ index' = index + 1
        /\ offset' = IF sec > prev_sec THEN Sector * sec ELSE After
    BY <1>1 DEF CopyRecord, After, filling
  <2>6. starts'[index + 1] = offset
    BY <2>3, <2>5
  <2>7. LastEnd' = After
    BY <2>3, <2>5, <2>6 DEF LastEnd, Ends, After, RecLen
  <2> HIDE DEF sec
  <2>8. offset' = After \/ offset' = Sector * ((After \div Sector) + 1)
    BY <2>2, <2>4, <2>5
  <2> QED BY <2>7, <2>8 DEF NextPlace
<1>2. CASE Allocate
  BY <1>2 DEF Allocate, NextPlace, LastEnd, Struct, Shape, copying
<1>3. CASE MeasureRoot \/ Measure \/ Measured \/ FillEntry \/ FillFile
  BY <1>3 DEF MeasureRoot, Measure, Measured, FillEntry, FillFile, NextPlace
<1>4. CASE WriteBuffer \/ UNCHANGED vars
  BY <1>4 DEF WriteBuffer, vars, NextPlace, LastEnd, Ends, Count, RecLen, copying,
              filling
<1> QED BY <1>1, <1>2, <1>3, <1>4 DEF Next

(* and each of its steps is one of RecordPacking's, or changes nothing     *)
(* there.                                                                  *)
LEMMA PackingStep ==
  Struct /\ NextPlace /\ [Next]_vars => [Packing!Place]_Records
<1> SUFFICES ASSUME Struct, NextPlace, [Next]_vars, Records' # Records
             PROVE  Packing!Place
  OBVIOUS
<1>1. CASE CopyRecord
  <2> DEFINE len == RecLen(dir_rec[index + 1])
  <2> DEFINE n == Len(starts)
  <2>1. Copying
    BY <1>1 DEF CopyRecord, Copying
  <2>2. /\ index \in Nat /\ n = index /\ starts \in Seq(Nat) /\ offset \in Nat
        /\ prev_sec \in Nat /\ dir_rec[index + 1] \in Entry /\ index < Count
    BY <2>1, CopyStep DEF Struct, TypeOK, Shape, Copying, Count
  <2>3. len \in Nat /\ 48 <= len /\ len <= LongestRecord
    BY <2>2, RecLenBounds
  <2>4. /\ Sector * prev_sec <= offset
        /\ offset + len < Sector * prev_sec + Sector
    BY <2>1, <2>2 DEF Struct, Ahead, Copying
  <2>5. offset \div Sector = prev_sec /\ (offset + len - 1) \div Sector = prev_sec
    <3>1. offset < Sector * prev_sec + Sector
      BY <2>2, <2>3, <2>4, SectorFacts
    <3>2. /\ offset + len - 1 \in Nat /\ Sector * prev_sec <= offset + len - 1
          /\ offset + len - 1 < Sector * prev_sec + Sector
      BY <2>2, <2>3, <2>4, SectorFacts
    <3> QED BY <3>1, <3>2, <2>2, <2>4, DivIs
  <2>6. Packing!InOneSector(offset, len)
    BY <2>5 DEF Packing!InOneSector
  <2>7. /\ starts' = Append(starts, offset) /\ dir_rec' = dir_rec
    BY <1>1 DEF CopyRecord, filling
  <2> DEFINE r == [start |-> offset, len |-> len]
  <2>8. Records' = Append(Records, r)
    <3>1. /\ Len(starts') = n + 1 /\ starts'[n + 1] = offset
          /\ \A i \in 1 .. n : starts'[i] = starts[i]
      BY <2>2, <2>7
    <3>2. Records' = [i \in 1 .. n + 1 |->
                        [start |-> starts'[i], len |-> RecLen(dir_rec[i])]]
      BY <2>7, <3>1 DEF Records, RecLen
    <3>3. n \in Nat /\ Len(Records) = n /\ DOMAIN Records = 1 .. n
      BY <2>2 DEF Records
    <3>4. Append(Records, r) =
            [i \in 1 .. n + 1 |-> IF i = n + 1 THEN r ELSE Records[i]]
      BY <3>3
    <3>5. \A i \in 1 .. n + 1 :
            [start |-> starts'[i], len |-> RecLen(dir_rec[i])]
              = IF i = n + 1 THEN r ELSE Records[i]
      BY <3>1, <2>2 DEF Records
    <3> QED BY <3>2, <3>4, <3>5
  <2>9. Packing!End(Records) = LastEnd
    <3>1. Records = <<>> <=> n = 0
      BY <2>2 DEF Records
    <3>2. n # 0 => Len(Records) = n /\ Records[n].start + Records[n].len = Ends(n)
      BY <2>2 DEF Records, Ends
    <3> QED BY <3>1, <3>2, <2>2 DEF Packing!End, LastEnd
  <2>10. offset \in {LastEnd, Packing!NextSector(LastEnd)}
    BY <2>1, <2>2 DEF NextPlace, Packing!NextSector, Copying
  <2> QED BY <2>3, <2>6, <2>8, <2>9, <2>10 DEF Packing!Place
<1>2. CASE Allocate
  BY <1>2 DEF Allocate, Records, RecLen, copying
<1>3. CASE MeasureRoot \/ Measure \/ Measured \/ WriteBuffer \/ UNCHANGED vars
  BY <1>3 DEF MeasureRoot, Measure, Measured, WriteBuffer, vars, Records, RecLen,
              copying, filling
<1>4. CASE FillEntry \/ FillFile
  <2>1. starts = <<>> /\ starts' = <<>>
    BY <1>4 DEF FillEntry, FillFile, Struct, Shape, copying
  <2> QED BY <2>1 DEF Records
<1> QED BY <1>1, <1>2, <1>3, <1>4 DEF Next

(* The copy starts as RecordPacking does,                                  *)
LEMMA PackingInit == Init => Packing!Init /\ NextPlace
BY DEF Init, Packing!Init, Records, NextPlace

(* The copy of the records implements RecordPacking: whatever the names, no*)
(* record crosses a sector boundary, none overlaps the one before it, and  *)
(* only sectors' ends are left unused (API.cpp, lines 705 to 744).         *)
THEOREM RecordsArePacked == Spec => IsPacked
<1>1. Spec => [](Struct /\ NextPlace)
  BY StructInit, StructNext, PackingInit, NextPlaceNext, PTL DEF Spec
<1>2. Spec => Packing!Init
  BY PackingInit, PTL DEF Spec
<1> QED BY <1>1, <1>2, PackingStep, PTL DEF Spec, IsPacked, Packing!Spec

-----------------------------------------------------------------------------
(* The buffer.                                                             *)

(* Padding adds less than a record's length at each boundary passed.       *)
CopyInv ==
  step \in {"write", "done"} =>
    /\ offset <= Filled(index) + LongestRecord * prev_sec
    /\ RoomForPadding =>
         /\ Count > 0 => prev_sec < needed_sectors
         /\ \A i \in 1 .. index : Ends(i) <= Sector * needed_sectors

(* What the sums of the first records are to each other and to the buffer. *)
LEMMA FilledFacts ==
  ASSUME Struct, FillInv, step \in {"write", "done"}
  PROVE  /\ \A j \in 0 .. Count : Filled(j) \in Nat /\ Filled(j) <= Filled(Count)
         /\ \A j \in 0 .. Count - 1 :
              Filled(j + 1) = Filled(j) + RecLen(dir_rec[j + 1])
         /\ needed_sectors = SectorsOf(Filled(Count)) /\ needed_sectors \in Nat
         /\ Count > 0 => needed_sectors > 0
<1>1. /\ filled \in Seq(Nat) /\ Len(filled) = Count /\ dir_rec \in Seq(Entry)
      /\ Len(dir_rec) = Count /\ Count \in Nat /\ needed_sectors \in Nat
  BY SectorFacts DEF Struct, TypeOK, Shape, Count
<1>2. \A j \in 0 .. Count - 1 :
        Filled(j + 1) = Filled(j) + RecLen(dir_rec[j + 1])
  BY <1>1 DEF FillInv, Filled
<1>3. \A j \in 0 .. Count : Filled(j) \in Nat
  BY <1>1 DEF Filled, NavRecords
<1>4. \A j \in 1 .. Count : Filled(j) <= Filled(Count)
  BY <1>1 DEF FillInv, Filled
<1>5. Filled(0) <= Filled(Count)
  <2>1. CASE Count = 0
    BY <2>1, <1>3
  <2>2. CASE Count > 0
    <3>1. dir_rec[1] \in Entry /\ 0 \in 0 .. Count - 1 /\ 1 \in 1 .. Count
      BY <2>2, <1>1
    <3>2. RecLen(dir_rec[1]) \in Nat
      BY <3>1, RecLenBounds
    <3>3. Filled(1) = Filled(0) + RecLen(dir_rec[1])
      BY <3>1, <1>2
    <3> QED BY <3>1, <3>2, <3>3, <1>1, <1>3, <1>4
  <2> QED BY <2>1, <2>2, <1>1
<1>6. needed_sectors = SectorsOf(Filled(Count))
  BY DEF FillInv
<1>7. Count > 0 => needed_sectors > 0
  <2>1. Filled(0) = NavRecords /\ Filled(Count) \in Nat /\ Filled(0) <= Filled(Count)
    BY <1>1, <1>3, <1>5 DEF Filled
  <2> DEFINE a == Filled(Count) + Sector - 1
  <2>2. a \in Nat /\ a >= Sector
    BY <2>1, SectorFacts DEF NavRecords
  <2>3. a \div Sector \in Nat /\ a < Sector * (a \div Sector) + Sector
    BY <2>2, DivBounds
  <2>4. a \div Sector # 0
    BY <2>2, <2>3, SectorFacts
  <2> QED BY <2>3, <2>4, <1>6 DEF SectorsOf
<1> QED BY <1>1, <1>2, <1>3, <1>4, <1>5, <1>6, <1>7

Allocated ==
  step \in {"write", "done"} =>
    needed_sectors \in Nat /\ (Count > 0 => needed_sectors > 0)

(* The two headings alone need a sector.                                   *)
LEMMA SomeAllocated == Struct /\ FillInv => Allocated
BY FilledFacts DEF Allocated

(* and padding moves the offset by less than the record behind it.         *)
LEMMA CopyInvNext ==
  Struct /\ FillInv /\ CopyInv /\ [Next]_vars /\ Struct' /\ FillInv' => CopyInv'
<1> SUFFICES ASSUME Struct, FillInv, CopyInv, [Next]_vars, Struct', FillInv'
             PROVE  CopyInv'
  OBVIOUS
<1>1. CASE CopyRecord
  <2> DEFINE len == RecLen(dir_rec[index + 1])
  <2> DEFINE sec == NextEndsIn(After)
  <2> DEFINE next == RecLen(dir_rec[index + 2])
  <2> DEFINE N == needed_sectors
  <2>1. Copying /\ step = "write"
    BY <1>1 DEF CopyRecord, Copying
  <2>2. /\ After \in Nat /\ dir_rec[index + 1] \in Entry
        /\ sec \in Nat
        /\ sec > prev_sec =>
             /\ index + 1 < Count /\ dir_rec[index + 2] \in Entry
             /\ sec = prev_sec + 1 /\ Sector * sec <= After + next
    BY <2>1, CopyStep
  <2>3. len \in Nat /\ len <= LongestRecord
    BY <2>2, RecLenBounds
  <2>4. sec > prev_sec => next \in Nat /\ next <= LongestRecord
    BY <2>2, RecLenBounds
  <2>5. /\ index \in Nat /\ Count \in Nat /\ index < Count /\ offset \in Nat
        /\ prev_sec \in Nat /\ starts \in Seq(Nat) /\ Len(starts) = index
    BY <2>1, SectorFacts DEF Struct, TypeOK, Shape, Copying, Count
  <2>6. /\ prev_sec' = IF sec > prev_sec THEN sec ELSE prev_sec
        /\ offset' = IF sec > prev_sec THEN Sector * sec ELSE After
        /\ starts' = Append(starts, offset) /\ index' = index + 1
        /\ step' = step
        /\ UNCHANGED <<listing, dir_rec, filled, needed_sectors>>
    BY <1>1 DEF CopyRecord, After, filling
  <2>7. After = offset + len
    BY DEF After
  <2>8. /\ \A j \in 0 .. Count : Filled(j) \in Nat /\ Filled(j) <= Filled(Count)
        /\ Filled(index + 1) = Filled(index) + len
        /\ index + 1 < Count => Filled(index + 2) = Filled(index + 1) + next
        /\ N = SectorsOf(Filled(Count)) /\ N \in Nat /\ N > 0
    BY <2>1, <2>5, FilledFacts
  <2>9. offset <= Filled(index) + LongestRecord * prev_sec
    BY <2>1 DEF CopyInv
  <2>10. /\ Count' = Count /\ RoomForPadding' = RoomForPadding
         /\ Filled(index)' = Filled(index + 1)
    BY <2>6 DEF Count, RoomForPadding, Filled, SectorsOf
  <2>11. index \in 0 .. Count /\ index + 1 \in 0 .. Count
    BY <2>5
  <2>12. After <= Filled(index + 1) + LongestRecord * prev_sec
    BY <2>3, <2>5, <2>7, <2>8, <2>9, <2>11, SMTT(30) DEF LongestRecord
  <2> HIDE DEF len, sec, next
  <2>a. /\ Filled(index + 1) \in Nat /\ Filled(Count) \in Nat
        /\ Filled(index + 1) <= Filled(Count)
    BY <2>8, <2>11, <2>5
  <2>13. offset' <= Filled(index)' + LongestRecord * prev_sec'
    <3>1. CASE sec > prev_sec
      <4>1. offset' <= After + next /\ offset' \in Nat
        BY <3>1, <2>2, <2>6, SectorFacts
      <4>2. prev_sec' = prev_sec + 1
        BY <3>1, <2>2, <2>6
      <4>3. offset' <= Filled(index + 1) + LongestRecord * prev_sec + LongestRecord
        BY <3>1, <4>1, <2>a, <2>2, <2>4, <2>5, <2>12 DEF LongestRecord
      <4>4. LongestRecord * prev_sec + LongestRecord = LongestRecord * prev_sec'
        BY <4>2, <2>5 DEF LongestRecord
      <4> QED BY <4>1, <4>3, <4>4, <2>a, <2>5, <2>10 DEF LongestRecord
    <3>2. CASE ~(sec > prev_sec)
      BY <3>2, <2>6, <2>10, <2>12
    <3> QED BY <3>1, <3>2
  <2>14. ASSUME RoomForPadding
         PROVE  prev_sec' < N /\ \A i \in 1 .. index + 1 : Ends(i)' <= Sector * N
    <3>1. filled # <<>> /\ filled[Count] = Filled(Count)
      <4>1. filled \in Seq(Nat) /\ Len(filled) = Count /\ Count # 0
        BY <2>1, <2>5 DEF Struct, Shape, TypeOK
      <4> QED BY <4>1 DEF Filled
    <3>2. Filled(Count) + LongestRecord * (N - 1) < Sector * N
      BY <2>14, <2>8, <3>1 DEF RoomForPadding
    <3>3. prev_sec < N
      BY <2>1, <2>5, <2>14 DEF CopyInv
    <3>4. After < Sector * N
      <4>1. Sector * N \in Nat /\ N \in Nat
        BY <2>8, SectorFacts
      <4>2. LongestRecord * prev_sec <= LongestRecord * (N - 1)
        BY <4>1, <3>3, <2>5 DEF LongestRecord
      <4>3. LongestRecord * prev_sec \in Nat /\ LongestRecord * (N - 1) \in Int
        BY <4>1, <2>5 DEF LongestRecord
      <4> QED BY <4>1, <4>2, <4>3, <3>2, <2>a, <2>2, <2>12
    <3>5. prev_sec' < N
      <4>1. CASE sec > prev_sec
        <5>1. index + 2 \in 0 .. Count /\ Filled(index + 2) <= Filled(Count)
          BY <4>1, <2>2, <2>5, <2>8
        <5>2. After + next <= Filled(Count) + LongestRecord * prev_sec
          BY <4>1, <5>1, <2>2, <2>4, <2>5, <2>8, <2>11, <2>12, SMTT(30) DEF LongestRecord
        <5>a. Sector * N \in Nat /\ Sector * sec \in Nat /\ N \in Nat
          BY <2>2, <2>8, SectorFacts
        <5>b. /\ LongestRecord * prev_sec <= LongestRecord * (N - 1)
              /\ LongestRecord * prev_sec \in Nat
              /\ LongestRecord * (N - 1) \in Int
          BY <5>a, <3>3, <2>5 DEF LongestRecord
        <5>3. Sector * sec < Sector * N
          BY <5>a, <5>b, <5>2, <4>1, <3>2, <2>a, <2>2, <2>4
        <5>4. N <= sec => Sector * N <= Sector * sec
          BY <2>2, <2>8, MulMono
        <5>5. Sector * N \in Nat /\ Sector * sec \in Nat
          BY <2>2, <2>8, SectorFacts
        <5> QED BY <5>3, <5>4, <5>5, <4>1, <2>2, <2>6, <2>8
      <4>2. CASE ~(sec > prev_sec)
        BY <4>2, <3>3, <2>6
      <4> QED BY <4>1, <4>2
    <3>6. ASSUME NEW i \in 1 .. index + 1 PROVE Ends(i)' <= Sector * N
      <4>1. CASE i = index + 1
        <5>1. starts'[i] = offset
          BY <4>1, <2>5, <2>6
        <5>2. Ends(i)' = After
          BY <5>1, <4>1, <2>6, <2>7 DEF Ends, RecLen, len
        <5> QED BY <5>2, <3>4, <2>2, <2>8, SectorFacts
      <4>2. CASE i \in 1 .. index
        <5>1. Ends(i) <= Sector * N
          BY <4>2, <2>1, <2>14 DEF CopyInv
        <5>2. Ends(i)' = Ends(i)
          BY <4>2, <2>5, <2>6 DEF Ends, RecLen
        <5> QED BY <5>1, <5>2
      <4> QED BY <4>1, <4>2, <2>5
    <3> QED BY <3>5, <3>6
  <2> QED BY <2>6, <2>10, <2>13, <2>14 DEF CopyInv
<1>2. CASE Allocate
  <2>1. /\ index' = 0 /\ step' = "write" /\ offset' = NavRecords /\ prev_sec' = 0
        /\ Count' = Count
    BY <1>2 DEF Allocate, Struct, Shape, copying, Count
  <2>2. Count' > 0 => needed_sectors' \in Nat /\ needed_sectors' > 0
    <3>1. Allocated'
      BY SomeAllocated, PTL
    <3> QED BY <3>1, <2>1 DEF Allocated
  <2> QED BY <2>1, <2>2 DEF CopyInv, Filled, NavRecords, LongestRecord
<1>3. CASE MeasureRoot \/ Measure \/ Measured \/ FillEntry \/ FillFile
  BY <1>3 DEF MeasureRoot, Measure, Measured, FillEntry, FillFile, CopyInv
<1>4. CASE WriteBuffer \/ UNCHANGED vars
  BY <1>4 DEF WriteBuffer, vars, CopyInv, Ends, Count, RecLen, copying, filling,
              Filled, RoomForPadding, SectorsOf
<1> QED BY <1>1, <1>2, <1>3, <1>4 DEF Next

(* Before the copy nothing is past the bound,                              *)
LEMMA CopyInvInit == Init => CopyInv
BY DEF Init, CopyInv

(* RecordsInBuffer: when the records leave room for the longest padding at *)
(* each boundary, none is copied past the buffer sized before padding.     *)
THEOREM RecordsStayInBuffer == Spec => []RecordsInBuffer
<1>1. Struct /\ CopyInv => RecordsInBuffer
  BY DEF Struct, Shape, CopyInv, RecordsInBuffer
<1> QED BY <1>1, CopyInvInit, CopyInvNext, StructInvariant, FillInvariant, PTL
        DEF Spec

-----------------------------------------------------------------------------
(* The data length, below the root.                                        *)

(* Below the root records are written in the order they are listed in.     *)
SameOrder ==
  ~is_root => file_buf = <<>> /\ \A i \in 1 .. Len(dir_rec) : dir_rec[i] = listing[i]

(* The copy takes the entries in the order the length loop did.            *)
LEMMA SameOrderNext == Struct /\ SameOrder /\ [Next]_vars => SameOrder'
<1> SUFFICES ASSUME Struct, SameOrder, [Next]_vars, ~is_root' PROVE SameOrder'
  BY DEF SameOrder
<1>0. /\ is_root' = is_root /\ listing' = listing /\ ~is_root
      /\ file_buf = <<>> /\ \A i \in 1 .. Len(dir_rec) : dir_rec[i] = listing[i]
  BY DEF Next, MeasureRoot, Measure, Measured, FillEntry, FillFile, Allocate,
         CopyRecord, WriteBuffer, vars, SameOrder
<1>1. CASE FillEntry
  <2> DEFINE e == listing[index + 1]
  <2>1. dir_rec' = Append(dir_rec, e) /\ file_buf' = file_buf
    BY <1>0, <1>1 DEF FillEntry, FillDirectoryRecord
  <2>2. dir_rec \in Seq(Entry) /\ Len(dir_rec) = index /\ index \in Nat
    <3>1. step = "fill" /\ Len(file_buf) = 0
      BY <1>0, <1>1 DEF FillEntry
    <3>2. dir_rec \in Seq(Entry) /\ index \in Nat /\ Len(dir_rec) + Len(file_buf) = index
      BY <3>1, SectorFacts DEF Struct, TypeOK, Shape, Count
    <3> QED BY <3>1, <3>2
  <2>3. e \in Entry
    BY <1>1, SectorFacts DEF FillEntry, Struct, TypeOK, Count
  <2>4. /\ Len(dir_rec') = index + 1 /\ dir_rec'[index + 1] = e
        /\ \A i \in 1 .. index : dir_rec'[i] = dir_rec[i]
    BY <2>1, <2>2, <2>3
  <2> QED BY <1>0, <2>1, <2>2, <2>4 DEF SameOrder
<1>2. CASE FillFile
  BY <1>0, <1>2 DEF FillFile
<1>3. CASE ~(FillEntry \/ FillFile)
  <2>1. UNCHANGED <<file_buf, dir_rec>>
    BY <1>3 DEF Next, MeasureRoot, Measure, Measured, Allocate, CopyRecord,
                WriteBuffer, vars, filling
  <2> QED BY <2>1, <1>0 DEF SameOrder
<1> QED BY <1>1, <1>2, <1>3

SizedEnd(i) == sized[i] + RecLen(listing[i])

(* Where a record of length len goes behind byte e.                        *)
Behind(e, len) ==
  IF e + len > Sector * ((e \div Sector) + 1)
    THEN Sector * ((e \div Sector) + 1) ELSE e

MeasureInv ==
  ~is_root /\ ~ExactFit =>
    /\ step = "measure" =>
         Sector * section <= dir_len + Sector /\ dir_len < Sector * section
    /\ dir_len = IF Len(sized) = 0 THEN NavRecords ELSE SizedEnd(Len(sized))
    /\ Len(sized) > 0 => sized[1] = NavRecords
    /\ \A i \in 1 .. Len(sized) - 1 :
         sized[i + 1] = Behind(SizedEnd(i), RecLen(listing[i + 1]))

(* The length loop starts at the two headings,                             *)
LEMMA MeasureInvInit == Init => MeasureInv
BY SectorFacts DEF Init, MeasureInv, NavRecords

(* and counts what the records before it take.                             *)
LEMMA MeasureInvNext == Struct /\ MeasureInv /\ [Next]_vars => MeasureInv'
<1> SUFFICES ASSUME Struct, MeasureInv, [Next]_vars, ~is_root', ~ExactFit'
             PROVE  MeasureInv'
  BY DEF MeasureInv
<1>0. is_root' = is_root /\ listing' = listing /\ ~is_root
  BY DEF Next, MeasureRoot, Measure, Measured, FillEntry, FillFile, Allocate,
         CopyRecord, WriteBuffer, vars
<1>1. CASE Measure
  <2> DEFINE n == Len(sized)
  <2> DEFINE len == RecLen(listing[n + 1])
  <2> DEFINE crosses == dir_len + len > Sector * section
  <2> DEFINE at == IF crosses THEN dir_len + (Sector - (dir_len % Sector)) ELSE dir_len
  <2>1. /\ step = "measure" /\ step' = step /\ n = index /\ index < Count
        /\ sized \in Seq(Nat) /\ dir_len \in Nat /\ section \in Nat /\ n \in Nat
        /\ listing \in Seq(Entry)
    BY <1>1, SectorFacts DEF Measure, Struct, TypeOK, Shape
  <2>2. listing[n + 1] \in Entry
    BY <2>1 DEF Count
  <2>3. len \in Nat /\ 48 <= len /\ len <= 127
    BY <2>2, RecLenBounds DEF LongestRecord
  <2>4. /\ sized' = Append(sized, at) /\ dir_len' = at + len
        /\ section' = IF crosses THEN section + 1 ELSE section
    BY <1>1, <2>1 DEF Measure
  <2>5. at \in Nat
    <3>1. dir_len % Sector \in 0 .. Sector - 1
      BY <2>1, SectorFacts
    <3>2. dir_len + (Sector - (dir_len % Sector)) \in Nat
      BY <3>1, <2>1, SectorFacts
    <3> HIDE DEF crosses
    <3> QED BY <3>2, <2>1
  <2>6. /\ Len(sized') = n + 1 /\ sized'[n + 1] = at
        /\ \A i \in 1 .. n : sized'[i] = sized[i]
    BY <2>1, <2>4, <2>5, SMTT(30)
  <2>7. ~ExactFit /\ (at + len) % Sector # 0
    <3>1. \A i \in 1 .. n + 1 : (sized'[i] + RecLen(listing[i])) % Sector # 0
      BY <1>0, <2>6 DEF ExactFit, RecLen
    <3> QED BY <3>1, <2>1, <2>6 DEF ExactFit
  <2>8. /\ Sector * section <= dir_len + Sector /\ dir_len < Sector * section
        /\ dir_len = IF n = 0 THEN NavRecords ELSE SizedEnd(n)
        /\ n > 0 => sized[1] = NavRecords
        /\ \A i \in 1 .. n - 1 :
             sized[i + 1] = Behind(SizedEnd(i), RecLen(listing[i + 1]))
    BY <1>0, <2>1, <2>7 DEF MeasureInv
  <2>9. section > 0
    <3>1. section = 0 => Sector * section = 0
      BY SectorFacts
    <3> QED BY <3>1, <2>1, <2>8
  <2>10. /\ section - 1 \in Nat
         /\ Sector * (section - 1) = Sector * section - Sector
         /\ Sector * (section + 1) = Sector * section + Sector
         /\ Sector * section \in Nat
    BY <2>1, <2>9, SectorFacts
  <2>11. dir_len \div Sector = section - 1
         /\ dir_len % Sector = dir_len - (Sector * section - Sector)
    <3>1. Sector * (section - 1) <= dir_len /\ dir_len < Sector * (section - 1) + Sector
      BY <2>1, <2>8, <2>10, SectorFacts
    <3> QED BY <3>1, <2>1, <2>10, DivIs
  <2>12. crosses => at = Sector * section
    BY <2>1, <2>10, <2>11, SectorFacts, SMTT(30)
  <2> HIDE DEF at, crosses, len
  <2>13. at = Behind(dir_len, len)
    BY <2>1, <2>3, <2>9, <2>10, <2>11, <2>12 DEF Behind, at, crosses
  <2>14. /\ Sector * section' <= dir_len' + Sector
         /\ dir_len' < Sector * section'
    <3>1. CASE crosses
      BY <3>1, <2>3, <2>4, <2>5, <2>10, <2>12, SectorFacts, SMTT(30)
    <3>2. CASE ~crosses
      <4>1. at = dir_len /\ dir_len + len <= Sector * section
        BY <3>2, <2>1, <2>3, <2>10 DEF at, crosses
      <4>2. ASSUME dir_len + len = Sector * section PROVE FALSE
        <5> DEFINE a == dir_len + len
        <5>1. /\ a \in Nat /\ Sector * section <= a
              /\ a < Sector * section + Sector
          BY <4>2, <2>1, <2>3, <2>10, SectorFacts
        <5>2. a % Sector = a - Sector * section
          BY <5>1, <2>1, DivIs
        <5>3. a % Sector = 0
          BY <5>1, <5>2, <4>2, <2>10
        <5> QED BY <5>3, <4>1, <2>7
      <4>3. dir_len + len < Sector * section
        BY <4>1, <4>2, <2>1, <2>3, <2>10
      <4>4. section' = section /\ dir_len' = dir_len + len
        BY <3>2, <4>1, <2>4
      <4>5. Sector * section <= dir_len + len + Sector
        BY <2>1, <2>3, <2>8, <2>10, SectorFacts
      <4> QED BY <4>3, <4>4, <4>5
    <3> QED BY <3>1, <3>2
  <2>15. dir_len' = SizedEnd(Len(sized))'
    <3>1. dir_len' = sized'[n + 1] + RecLen(listing[n + 1])
      BY <2>4, <2>6 DEF len
    <3> QED BY <3>1, <1>0, <2>6 DEF SizedEnd, RecLen
  <2>16. sized'[1] = NavRecords
    <3>1. CASE n = 0
      <4>1. dir_len = NavRecords
        BY <3>1, <2>8
      <4>2. Sector * ((dir_len \div Sector) + 1) >= Sector
        <5>1. dir_len \div Sector = 0
          <6>1. dir_len \in Nat /\ Sector * 0 <= dir_len /\ dir_len < Sector * 0 + Sector
            BY <4>1, SectorFacts DEF NavRecords
          <6> QED BY <6>1, DivIs
        <5> QED BY <5>1, SectorFacts
      <4>3. at = dir_len
        BY <4>1, <4>2, <2>3, <2>13, SectorFacts DEF Behind, NavRecords
      <4> QED BY <3>1, <4>1, <4>3, <2>6
    <3>2. CASE n # 0
      BY <3>2, <2>1, <2>6, <2>8
    <3> QED BY <3>1, <3>2
  <2>17. ASSUME NEW i \in 1 .. n
         PROVE  sized'[i + 1] = Behind(SizedEnd(i), RecLen(listing[i + 1]))'
    <3>1. SizedEnd(i)' = SizedEnd(i)
      BY <1>0, <2>6 DEF SizedEnd, RecLen
    <3>2. Behind(SizedEnd(i), RecLen(listing[i + 1]))'
            = Behind(SizedEnd(i), RecLen(listing[i + 1]))
      BY <1>0, <3>1 DEF Behind, RecLen
    <3>3. CASE i = n
      BY <3>2, <3>3, <2>1, <2>6, <2>8, <2>13 DEF len
    <3>4. CASE i \in 1 .. n - 1
      <4>1. i + 1 \in 1 .. n
        BY <3>4, <2>1
      <4> QED BY <4>1, <3>2, <3>4, <2>6, <2>8
    <3> QED BY <3>3, <3>4, <2>1
  <2>18. Len(sized') # 0 /\ Len(sized') - 1 = n
    BY <2>1, <2>6
  <2> QED BY <2>6, <2>14, <2>15, <2>16, <2>17, <2>18 DEF MeasureInv
<1>2. CASE ~Measure
  <2>1. UNCHANGED <<dir_len, section, sized>> /\ (step' = "measure" => step = "measure")
    BY <1>0, <1>2 DEF Next, MeasureRoot, Measured, FillEntry, FillFile, Allocate,
                CopyRecord, WriteBuffer, vars, measuring
  <2>2. ~ExactFit
    BY <1>0, <2>1 DEF ExactFit, RecLen
  <2>3. \A i : SizedEnd(i)' = SizedEnd(i)
    BY <1>0, <2>1 DEF SizedEnd, RecLen
  <2> QED BY <1>0, <2>1, <2>2, <2>3 DEF MeasureInv, Behind, RecLen
<1> QED BY <1>1, <1>2

(* Before the copy no order can differ,                                    *)
LEMMA SameOrderInit == Init => SameOrder
BY DEF Init, SameOrder

AgreeInv ==
  ~is_root /\ ~ExactFit /\ step \in {"write", "done"} =>
    /\ \A i \in 1 .. index : starts[i] = sized[i]
    /\ offset = IF index < Count THEN sized[index + 1] ELSE dir_len

(* Before the copy nothing can disagree,                                   *)
LEMMA AgreeInvInit == Init => AgreeInv
BY DEF Init, AgreeInv

(* and each record copied is where the length loop counted it.             *)
LEMMA AgreeInvNext ==
  Struct /\ SameOrder /\ MeasureInv /\ AgreeInv /\ [Next]_vars => AgreeInv'
<1> SUFFICES ASSUME Struct, SameOrder, MeasureInv, AgreeInv, [Next]_vars,
                    ~is_root', ~ExactFit', step' \in {"write", "done"}
             PROVE  AgreeInv'
  BY DEF AgreeInv
<1>0. is_root' = is_root /\ listing' = listing /\ ~is_root
  BY DEF Next, MeasureRoot, Measure, Measured, FillEntry, FillFile, Allocate,
         CopyRecord, WriteBuffer, vars
<1>m. UNCHANGED <<dir_len, sized>>
  BY DEF Next, MeasureRoot, Measure, Measured, FillEntry, FillFile, Allocate,
         CopyRecord, WriteBuffer, vars, measuring, Struct, Shape
<1>e. ~ExactFit
  BY <1>0, <1>m DEF ExactFit, RecLen
<1>s. /\ listing \in Seq(Entry) /\ Count \in Nat /\ index \in Nat /\ Count' = Count
      /\ sized \in Seq(Nat) /\ dir_len \in Nat
  BY <1>0, SectorFacts DEF Struct, TypeOK, Count
<1>1. CASE CopyRecord
  <2> DEFINE sec == NextEndsIn(After)
  <2> DEFINE next == RecLen(listing[index + 2])
  <2>1. Copying
    BY <1>1 DEF CopyRecord, Copying
  <2>2. /\ index < Count /\ Len(dir_rec) = Count /\ Len(sized) = Count
        /\ starts \in Seq(Nat) /\ Len(starts) = index /\ offset \in Nat
        /\ prev_sec \in Nat
    BY <2>1 DEF Struct, TypeOK, Shape, Copying
  <2>3. /\ starts' = Append(starts, offset) /\ index' = index + 1
        /\ offset' = IF sec > prev_sec THEN Sector * sec ELSE After
    BY <1>1 DEF CopyRecord, After
  <2>4. /\ dir_rec[index + 1] = listing[index + 1]
        /\ index + 1 < Count => dir_rec[index + 2] = listing[index + 2]
    BY <1>0, <1>s, <2>2 DEF SameOrder
  <2>5. offset = sized[index + 1] /\ \A i \in 1 .. index : starts[i] = sized[i]
    BY <1>0, <1>e, <2>1, <2>2 DEF AgreeInv, Copying
  <2>6. After = SizedEnd(index + 1)
    BY <2>4, <2>5 DEF After, SizedEnd
  <2>7. \A i \in 1 .. index + 1 : starts'[i] = sized'[i]
    <3>1. /\ starts'[index + 1] = offset
          /\ \A i \in 1 .. index : starts'[i] = starts[i]
      BY <1>s, <2>2, <2>3
    <3> QED BY <1>m, <1>s, <2>5, <3>1
  <2>8. CASE index + 1 = Count
    <3>1. sec = prev_sec
      BY <2>8 DEF NextEndsIn
    <3>2. offset' = After
      BY <2>2, <2>3, <3>1
    <3>3. dir_len = SizedEnd(Count)
      BY <1>0, <1>e, <1>s, <2>2 DEF MeasureInv
    <3>4. offset' = dir_len'
      BY <1>m, <2>6, <2>8, <3>2, <3>3
    <3>5. index' = Count /\ Count' = Count
      BY <1>s, <2>3, <2>8
    <3>6. \A i \in 1 .. index' : starts'[i] = sized'[i]
      BY <2>7, <2>8, <3>5
    <3>7. ~(index' < Count')
      BY <1>s, <3>5
    <3> QED BY <3>4, <3>6, <3>7 DEF AgreeInv
  <2>9. CASE index + 1 < Count
    <3>1. /\ After \in Nat /\ After < Sector * prev_sec + Sector
          /\ Sector * prev_sec <= After
          /\ sec > prev_sec =>
               Sector * sec = Sector * prev_sec + Sector /\ Sector * sec <= After + next
          /\ ~(sec > prev_sec) => After + next < Sector * prev_sec + Sector
      BY <2>1, <2>4, <2>9, CopyStep
    <3>2. After \div Sector = prev_sec
      BY <2>2, <3>1, DivIs
    <3>3. Sector * (prev_sec + 1) = Sector * prev_sec + Sector
          /\ Sector * (prev_sec + 1) \in Nat
      BY <2>2, SectorFacts
    <3>4. next \in Nat
      <4>1. listing[index + 2] \in Entry
        BY <1>s, <2>9 DEF Count
      <4> QED BY <4>1, RecLenBounds
    <3>5. sized[index + 2] = Behind(After, next)
      <4>1. index + 1 \in 1 .. Len(sized) - 1
        BY <1>s, <2>2, <2>9
      <4>2. sized[(index + 1) + 1]
              = Behind(SizedEnd(index + 1), RecLen(listing[(index + 1) + 1]))
        BY <1>0, <1>e, <4>1 DEF MeasureInv
      <4>3. (index + 1) + 1 = index + 2
        BY <1>s
      <4> QED BY <2>6, <4>2, <4>3
    <3> HIDE DEF sec, next
    <3>6. Behind(After, next) = IF After + next > Sector * (prev_sec + 1)
                                  THEN Sector * (prev_sec + 1) ELSE After
      BY <3>2 DEF Behind
    <3>7. ASSUME After + next = Sector * (prev_sec + 1) PROVE FALSE
      <4>1. sized[index + 2] = After
        BY <3>1, <3>3, <3>4, <3>5, <3>6, <3>7
      <4>2. (After + next) % Sector = 0
        <5>1. /\ After + next \in Nat /\ prev_sec + 1 \in Nat
              /\ Sector * (prev_sec + 1) <= After + next
              /\ After + next < Sector * (prev_sec + 1) + Sector
          BY <2>2, <3>1, <3>3, <3>4, <3>7, SectorFacts
        <5>2. (After + next) % Sector = (After + next) - Sector * (prev_sec + 1)
          BY <5>1, DivIs
        <5> QED BY <5>2, <3>3, <3>7
      <4>3. index + 2 \in 1 .. Len(sized)
        BY <1>s, <2>2, <2>9
      <4> QED BY <4>1, <4>2, <4>3, <1>e DEF ExactFit, next
    <3>8. offset' = sized[index + 2]
      <4>1. CASE sec > prev_sec
        BY <4>1, <2>3, <3>1, <3>3, <3>4, <3>5, <3>6, <3>7
      <4>2. CASE ~(sec > prev_sec)
        <5>1. ~(After + next > Sector * (prev_sec + 1)) /\ offset' = After
          BY <4>2, <2>3, <3>1, <3>3, <3>4
        <5> QED BY <5>1, <3>5, <3>6
      <4> QED BY <4>1, <4>2
    <3>9. index' + 1 = index + 2 /\ index' < Count'
      BY <1>s, <2>3, <2>9
    <3>10. \A i \in 1 .. index' : starts'[i] = sized'[i]
      BY <2>3, <2>7
    <3>11. offset' = sized'[index' + 1]
      BY <1>m, <3>8, <3>9
    <3> QED BY <3>9, <3>10, <3>11 DEF AgreeInv
  <2> QED BY <1>s, <2>2, <2>8, <2>9
<1>2. CASE Allocate
  <2>1. /\ index' = 0 /\ offset' = NavRecords /\ Len(sized) = Count
    BY <1>2 DEF Allocate, Struct, Shape, copying
  <2>2. NavRecords = IF 0 < Count THEN sized[0 + 1] ELSE dir_len
    BY <1>0, <1>e, <1>s, <2>1 DEF MeasureInv
  <2> QED BY <1>m, <1>s, <2>1, <2>2 DEF AgreeInv
<1>3. CASE WriteBuffer \/ UNCHANGED vars
  <2>1. /\ UNCHANGED <<index, offset, starts>>
        /\ step \in {"write", "done"}
    BY <1>3 DEF WriteBuffer, vars, copying
  <2> QED BY <1>0, <1>m, <1>e, <1>s, <2>1 DEF AgreeInv
<1>4. CASE MeasureRoot \/ Measure \/ Measured \/ FillEntry \/ FillFile
  BY <1>4 DEF MeasureRoot, Measure, Measured, FillEntry, FillFile
<1> QED BY <1>1, <1>2, <1>3, <1>4 DEF Next

(* LengthsAgree, its part below the root: the data length and the copy     *)
(* agree on every record, in a directory of any length, unless a record    *)
(* ends exactly with its sector.                                           *)
THEOREM LengthsAgreeUnlessExact == Spec => []LengthsAgreeBelowRoot
<1>1. Struct /\ SameOrder /\ MeasureInv /\ AgreeInv => LengthsAgreeBelowRoot
  <2> SUFFICES ASSUME Struct, AgreeInv, step = "done", ~is_root, ~ExactFit
               PROVE  sized = starts /\ dir_len = offset
    BY DEF LengthsAgreeBelowRoot
  <2>1. /\ sized \in Seq(Nat) /\ starts \in Seq(Nat)
        /\ Len(sized) = Count /\ Len(starts) = Count /\ index = Count
        /\ Count \in Nat
    BY SectorFacts DEF Struct, TypeOK, Shape, Count
  <2>2. \A i \in 1 .. Count : starts[i] = sized[i]
    BY <2>1 DEF AgreeInv
  <2> QED BY <2>1, <2>2 DEF AgreeInv
<1> QED BY <1>1, SameOrderInit, SameOrderNext, MeasureInvInit, MeasureInvNext,
           AgreeInvInit, AgreeInvNext, StructInvariant, PTL DEF Spec

-----------------------------------------------------------------------------
(* The data length of the root.                                            *)

Lens == [e \in Entry |-> RecLen(e)]

(* The length loop adds up what the records and the files kept back take.  *)
RootInv ==
  is_root =>
    /\ step = "measure" => dir_len = NavRecords + SumTo(Lens, listing, index)
    /\ step # "measure" => dir_len = NavRecords + SumOf(Lens, listing)
    /\ step = "fill" => NavRecords + SumTo(Lens, listing, index)
                          = needed_memory + SumOf(Lens, file_buf)
    /\ step \in {"write", "done"} => dir_len = Filled(Count)

(* The length of a record as a term of a sum.                              *)
LEMMA LensIs ==
  /\ Lens \in [Entry -> Nat]
  /\ \A e \in Entry : Lens[e] = RecLen(e)
BY RecLenBounds DEF Lens

(* The first k entries and one more.                                       *)
LEMMA ListingNext ==
  ASSUME Struct, index < Count
  PROVE  /\ listing[index + 1] \in Entry
         /\ SumTo(Lens, listing, index + 1)
              = SumTo(Lens, listing, index) + RecLen(listing[index + 1])
         /\ SumTo(Lens, listing, index) \in Nat
<1>1. /\ listing \in Seq(Entry) /\ index \in Nat /\ index + 1 <= Len(listing)
      /\ index <= Len(listing) /\ listing[index + 1] \in Entry
  BY SectorFacts DEF Struct, TypeOK, Count
<1>2. SumTo(Lens, listing, index + 1)
        = SumTo(Lens, listing, index) + Lens[listing[index + 1]]
  BY ONLY <1>1, LensIs, SumToNext
<1>3. SumTo(Lens, listing, index) \in Nat
  BY ONLY <1>1, LensIs, SumToIsNat
<1> QED BY <1>1, <1>2, <1>3, LensIs

(* Nothing is added up at the start,                                       *)
LEMMA RootInvInit == Init => RootInv
BY SumToNone, SectorFacts DEF Init, RootInv, NavRecords

(* and every record is in one sum as it is in the other.                   *)
LEMMA RootInvNext == Struct /\ FillInv /\ RootInv /\ [Next]_vars => RootInv'
<1> SUFFICES ASSUME Struct, FillInv, RootInv, [Next]_vars, is_root'
             PROVE  RootInv'
  BY DEF RootInv
<1>0. is_root' = is_root /\ listing' = listing /\ is_root
  BY DEF Next, MeasureRoot, Measure, Measured, FillEntry, FillFile, Allocate,
         CopyRecord, WriteBuffer, vars
<1>t. /\ listing \in Seq(Entry) /\ Count \in Nat /\ index \in 0 .. Count
      /\ file_buf \in Seq(Entry) /\ dir_len \in Nat /\ needed_memory \in Nat
      /\ Count = Len(listing) /\ Count' = Count
  BY <1>0, SectorFacts DEF Struct, TypeOK, Count
<1>f. SumOf(Lens, file_buf) \in Nat
  BY ONLY <1>t, LensIs, Len(file_buf) \in Nat, Len(file_buf) <= Len(file_buf),
          SumToIsNat DEF SumOf
<1>1. CASE MeasureRoot
  <2>1. /\ step = "measure" /\ step' = "measure" /\ index < Count
        /\ index' = index + 1
        /\ dir_len' = dir_len + RecLen(listing[index + 1])
    BY <1>1 DEF MeasureRoot
  <2>2. RecLen(listing[index + 1]) \in Nat
    BY <2>1, ListingNext, RecLenBounds
  <2>3. dir_len' = NavRecords + SumTo(Lens, listing, index + 1)
    BY <1>0, <1>t, <2>1, <2>2, ListingNext DEF RootInv, NavRecords
  <2> QED BY <1>0, <2>1, <2>3 DEF RootInv
<1>2. CASE Measured
  <2>1. /\ step = "measure" /\ step' = "fill" /\ index = Count /\ index' = 0
        /\ UNCHANGED <<dir_len, needed_memory, file_buf>>
    BY <1>2 DEF Measured, measuring, filling
  <2>2. dir_len = NavRecords + SumOf(Lens, listing)
    BY <1>0, <1>t, <2>1 DEF RootInv, SumOf
  <2>3. needed_memory = NavRecords /\ file_buf = <<>>
    BY <2>1 DEF FillInv, Filled, Struct, Shape
  <2>4. SumOf(Lens, file_buf) = 0
    BY <2>3, SumToNone DEF SumOf
  <2> QED BY <1>0, <2>1, <2>2, <2>3, <2>4, SumToNone DEF RootInv, NavRecords
<1>3. CASE FillEntry
  <2> DEFINE e == listing[index + 1]
  <2>1. /\ step = "fill" /\ step' = "fill" /\ index < Count
        /\ index' = index + 1 /\ dir_len' = dir_len
    BY <1>3 DEF FillEntry, measuring
  <2>2. e \in Entry /\ RecLen(e) \in Nat
    BY <2>1, ListingNext, RecLenBounds
  <2>3. needed_memory' + SumOf(Lens, file_buf')
          = (needed_memory + SumOf(Lens, file_buf)) + RecLen(e)
    <3>1. CASE ~e.dir
      <4>1. file_buf' = Append(file_buf, e) /\ needed_memory' = needed_memory
        BY <1>0, <1>3, <3>1 DEF FillEntry
      <4>2. SumOf(Lens, file_buf') = SumOf(Lens, file_buf) + Lens[e]
        <5> HIDE DEF e
        <5> QED BY ONLY <1>t, <2>2, <4>1, LensIs, SumOfAppend
      <4> QED BY <1>t, <1>f, <2>2, <4>1, <4>2, LensIs
    <3>2. CASE e.dir
      <4>1. file_buf' = file_buf /\ needed_memory' = needed_memory + RecLen(e)
        BY <1>0, <1>3, <3>2 DEF FillEntry, FillDirectoryRecord
      <4> QED BY <1>t, <1>f, <2>2, <4>1
    <3> QED BY <3>1, <3>2
  <2>4. NavRecords + SumTo(Lens, listing, index)
          = needed_memory + SumOf(Lens, file_buf)
    BY <1>0, <2>1 DEF RootInv
  <2>5. NavRecords + SumTo(Lens, listing, index + 1)
          = needed_memory' + SumOf(Lens, file_buf')
    BY <2>1, <2>2, <2>3, <2>4, ListingNext DEF NavRecords
  <2> QED BY <1>0, <2>1, <2>5 DEF RootInv
<1>4. CASE FillFile
  <2>1. /\ step = "fill" /\ step' = "fill" /\ index' = index /\ dir_len' = dir_len
        /\ file_buf # <<>> /\ file_buf' = Tail(file_buf)
        /\ needed_memory' = needed_memory + RecLen(Head(file_buf))
    BY <1>4 DEF FillFile, FillDirectoryRecord, measuring
  <2>2. Head(file_buf) \in Entry /\ Tail(file_buf) \in Seq(Entry)
    BY <1>t, <2>1
  <2>3. SumOf(Lens, file_buf) = Lens[Head(file_buf)] + SumOf(Lens, Tail(file_buf))
    BY ONLY <1>t, <2>1, LensIs, SumOfTail
  <2>4. SumOf(Lens, Tail(file_buf)) \in Nat
    <3>1. Len(Tail(file_buf)) \in Nat /\ Len(Tail(file_buf)) <= Len(Tail(file_buf))
      BY <2>2
    <3> QED BY ONLY <2>2, <3>1, LensIs, SumToIsNat DEF SumOf
  <2>5. needed_memory' + SumOf(Lens, file_buf')
          = needed_memory + SumOf(Lens, file_buf)
    <3>1. /\ RecLen(Head(file_buf)) \in Nat
          /\ Lens[Head(file_buf)] = RecLen(Head(file_buf))
      BY <2>2, LensIs, RecLenBounds
    <3> QED BY ONLY <1>t, <2>1, <2>3, <2>4, <3>1, SMT
  <2> QED BY <1>0, <2>1, <2>5 DEF RootInv
<1>5. CASE Allocate
  <2>1. /\ step = "fill" /\ step' = "write" /\ index = Count /\ file_buf = <<>>
        /\ UNCHANGED <<dir_len, filled, needed_memory>>
    BY <1>5 DEF Allocate, measuring
  <2>2. SumOf(Lens, file_buf) = 0
    BY <2>1, SumToNone DEF SumOf
  <2>3. Len(filled) = Count
    BY <1>t, <2>1 DEF Struct, TypeOK, Shape
  <2>4. needed_memory = Filled(Count)
    BY <2>1, <2>3 DEF FillInv
  <2>5. dir_len = NavRecords + SumTo(Lens, listing, index)
    BY <1>0, <1>t, <2>1 DEF RootInv, SumOf
  <2>6. dir_len = needed_memory
    BY <1>0, <1>t, <2>1, <2>2, <2>5 DEF RootInv
  <2>7. Filled(Count)' = Filled(Count)
    BY <1>t, <2>1 DEF Filled
  <2> QED BY <1>0, <1>t, <2>1, <2>4, <2>6, <2>7 DEF RootInv
<1>6. CASE CopyRecord \/ WriteBuffer
  <2>1. /\ step \in {"write", "done"} /\ step' \in {"write", "done"}
        /\ UNCHANGED <<dir_len, filled>>
    BY <1>6 DEF CopyRecord, WriteBuffer, measuring, filling
  <2>2. Filled(Count)' = Filled(Count)
    BY <1>t, <2>1 DEF Filled
  <2> QED BY <1>0, <1>t, <2>1, <2>2 DEF RootInv
<1>7. CASE UNCHANGED vars
  <2>1. /\ UNCHANGED <<step, index, dir_len, filled, needed_memory, file_buf>>
    BY <1>7 DEF vars, measuring, filling
  <2>2. Filled(Count)' = Filled(Count)
    BY <1>t, <2>1 DEF Filled
  <2> QED BY <1>0, <1>t, <2>1, <2>2 DEF RootInv
<1>8. CASE Measure
  BY <1>0, <1>8 DEF Measure
<1> QED BY <1>1, <1>2, <1>3, <1>4, <1>5, <1>6, <1>7, <1>8 DEF Next

(* While one sector is enough, nothing is padded.                          *)
Unpadded ==
  is_root /\ step \in {"write", "done"} /\ dir_len < Sector =>
    prev_sec = 0 /\ offset = Filled(index)

(* The copy starts behind the headings,                                    *)
LEMMA UnpaddedInit == Init => Unpadded
BY DEF Init, Unpadded

(* and no record reaches the end of the sector.                            *)
LEMMA UnpaddedNext ==
  Struct /\ FillInv /\ RootInv /\ Unpadded /\ [Next]_vars => Unpadded'
<1> SUFFICES ASSUME Struct, FillInv, RootInv, Unpadded, [Next]_vars, is_root',
                    step' \in {"write", "done"}, dir_len' < Sector
             PROVE  prev_sec' = 0 /\ offset' = Filled(index)'
  BY DEF Unpadded
<1>0. is_root' = is_root /\ listing' = listing /\ is_root
  BY DEF Next, MeasureRoot, Measure, Measured, FillEntry, FillFile, Allocate,
         CopyRecord, WriteBuffer, vars
<1>1. CASE CopyRecord
  <2>1. Copying /\ step = "write" /\ dir_len' = dir_len /\ filled' = filled
        /\ index' = index + 1
    BY <1>1 DEF CopyRecord, Copying, measuring, filling
  <2>2. /\ index \in Nat /\ Count \in Nat /\ index < Count
        /\ prev_sec = 0 /\ offset = Filled(index)
        /\ dir_len = Filled(Count)
    BY <1>0, <2>1, SectorFacts
       DEF Struct, TypeOK, Copying, Count, Unpadded, RootInv
  <2>3. /\ Filled(index + 1) = Filled(index) + RecLen(dir_rec[index + 1])
        /\ index + 1 < Count => Filled(index + 2)
             = Filled(index + 1) + RecLen(dir_rec[index + 2])
        /\ index + 1 < Count => Filled(index + 2) <= Filled(Count)
        /\ Filled(index + 1) \in Nat /\ Filled(Count) \in Nat
        /\ index + 1 < Count => Filled(index + 2) \in Nat
    <3>1. /\ index \in 0 .. Count - 1 /\ index + 1 \in 0 .. Count
          /\ Count \in 0 .. Count
          /\ index + 1 < Count =>
               /\ index + 1 \in 0 .. Count - 1 /\ index + 2 \in 0 .. Count
               /\ (index + 1) + 1 = index + 2
      BY <2>2
    <3> QED BY <2>1, <3>1, FilledFacts
  <2>4. After = Filled(index + 1)
    BY <2>2, <2>3 DEF After
  <2>5. ASSUME NextEndsIn(After) > prev_sec PROVE FALSE
    <3>1. /\ index + 1 < Count
          /\ Sector * NextEndsIn(After) = Sector * prev_sec + Sector
          /\ Sector * NextEndsIn(After) <= After + RecLen(dir_rec[index + 2])
      BY <2>1, <2>5, CopyStep
    <3>2. Sector * prev_sec = 0
      BY <2>2, SectorFacts
    <3>3. Sector <= Filled(index + 2)
      BY <2>3, <2>4, <3>1, <3>2, SectorFacts
    <3> QED BY <2>1, <2>2, <2>3, <3>1, <3>3, SectorFacts
  <2>6. offset' = After /\ prev_sec' = prev_sec
    BY <1>1, <2>5 DEF CopyRecord, After
  <2>7. Filled(index)' = Filled(index + 1)
    BY <2>1, <2>2 DEF Filled
  <2> QED BY <2>2, <2>4, <2>6, <2>7
<1>2. CASE Allocate
  <2>1. step = "fill" /\ index' = 0 /\ offset' = offset /\ prev_sec' = prev_sec
    BY <1>2 DEF Allocate, copying
  <2> QED BY <2>1 DEF Struct, Shape, Filled
<1>3. CASE WriteBuffer \/ UNCHANGED vars
  <2>1. /\ UNCHANGED <<index, offset, prev_sec, filled, dir_len>>
        /\ step \in {"write", "done"}
    BY <1>3 DEF WriteBuffer, vars, copying, filling, measuring
  <2> QED BY <1>0, <2>1 DEF Unpadded, Filled
<1>4. CASE MeasureRoot \/ Measure \/ Measured \/ FillEntry \/ FillFile
  BY <1>4 DEF MeasureRoot, Measure, Measured, FillEntry, FillFile
<1> QED BY <1>1, <1>2, <1>3, <1>4 DEF Next

(* LengthsAgree: below the root by LengthsAgreeUnlessExact, and in the root*)
(* the unpadded length is where the copy ends, while one sector is enough. *)
THEOREM LengthsAreTrue == Spec => []LengthsAgree
<1>1. Struct /\ FillInv /\ RootInv /\ Unpadded /\ LengthsAgreeBelowRoot
        => LengthsAgree
  <2> SUFFICES ASSUME Struct, RootInv, Unpadded, step = "done", is_root,
                      dir_len < Sector
               PROVE  dir_len = offset
    BY DEF LengthsAgree
  <2>1. index = Count
    BY DEF Struct, Shape
  <2> QED BY <2>1 DEF RootInv, Unpadded
<1> QED BY <1>1, RootInvInit, RootInvNext, UnpaddedInit, UnpaddedNext,
           StructInvariant, FillInvariant, LengthsAgreeUnlessExact, PTL DEF Spec


-----------------------------------------------------------------------------
(* A reader who trusts the data length.                                    *)

(* The first byte of the next sector.                                      *)
NextSectorOf(e) == Sector * ((e \div Sector) + 1)

(* Where it is from a byte of the sector before.                           *)
LEMMA NextSectorFacts ==
  ASSUME NEW e \in Nat
  PROVE  /\ NextSectorOf(e) \in Nat
         /\ e < NextSectorOf(e) /\ NextSectorOf(e) <= e + Sector
         /\ e % Sector \in 0 .. Sector - 1
         /\ NextSectorOf(e) = e + (Sector - (e % Sector))
<1> DEFINE q == e \div Sector
<1>1. /\ q \in Nat /\ Sector * q <= e /\ e < Sector * q + Sector
  BY DivBounds
<1>2. e % Sector = e - Sector * q
  BY <1>1, DivIs
<1>3. Sector * (q + 1) = Sector * q + Sector /\ Sector * q \in Nat
  BY <1>1, SectorFacts
<1> HIDE DEF q
<1>4. NextSectorOf(e) = Sector * q + Sector
  BY <1>3 DEF NextSectorOf, q
<1> QED BY <1>1, <1>2, <1>3, <1>4, SectorFacts

(* No sector starts between a byte and it,                                 *)
LEMMA NoneBetween ==
  ASSUME NEW e \in Nat, NEW k \in Int, e < Sector * k
  PROVE  NextSectorOf(e) <= Sector * k
<1> DEFINE q == e \div Sector
<1>1. /\ q \in Nat /\ Sector * q <= e /\ Sector * q \in Int
  BY DivBounds, SectorFacts
<1> HIDE DEF q
<1>2. ASSUME k <= q PROVE FALSE
  <2>1. Sector * k <= Sector * q /\ Sector * k \in Int
    BY <1>1, <1>2, MulMono, SectorFacts
  <2> QED BY <1>1, <2>1
<1>3. q + 1 <= k
  BY <1>1, <1>2
<1>4. Sector * (q + 1) <= Sector * k
  BY <1>1, <1>3, MulMono
<1> QED BY <1>4 DEF NextSectorOf, q

(* so that it is a sector's start, the same for every byte of a sector and *)
(* a later one for a later byte.                                           *)
LEMMA NextSectorMono ==
  ASSUME NEW e \in Nat, NEW f \in Nat, e <= f
  PROVE  /\ NextSectorOf(e) <= NextSectorOf(f)
         /\ f < NextSectorOf(e) => NextSectorOf(f) = NextSectorOf(e)
<1> DEFINE a == (e \div Sector) + 1
           b == (f \div Sector) + 1
<1>1. a \in Int /\ b \in Int
  BY DivBounds
<1>2. NextSectorOf(e) = Sector * a /\ NextSectorOf(f) = Sector * b
  BY DEF NextSectorOf
<1> HIDE DEF a, b
<1>3. /\ NextSectorOf(e) \in Nat /\ NextSectorOf(f) \in Nat
      /\ f < NextSectorOf(f)
  BY NextSectorFacts
<1>4. e < Sector * b
  BY <1>2, <1>3
<1>5. NextSectorOf(e) <= NextSectorOf(f)
  BY <1>1, <1>2, <1>4, NoneBetween
<1>6. f < NextSectorOf(e) => NextSectorOf(f) <= NextSectorOf(e)
  BY <1>1, <1>2, NoneBetween
<1> QED BY <1>3, <1>5, <1>6

(* The number of bytes up to a sector's start.                             *)
LEMMA SectorStart ==
  ASSUME NEW e \in Nat, NEW f \in Nat
  PROVE  /\ e % Sector = 0 => \E k \in Nat : e = Sector * k
         /\ f = NextSectorOf(e) => f % Sector = 0
<1>1. ASSUME e % Sector = 0 PROVE \E k \in Nat : e = Sector * k
  <2>1. /\ e \div Sector \in Nat /\ Sector * (e \div Sector) <= e
        /\ e < Sector * (e \div Sector) + Sector
    BY DivBounds
  <2>2. e % Sector = e - Sector * (e \div Sector)
    BY <2>1, DivIs
  <2>3. Sector * (e \div Sector) \in Nat
    BY <2>1, SectorFacts
  <2> QED BY <1>1, <2>1, <2>2, <2>3
<1>2. ASSUME f = NextSectorOf(e) PROVE f % Sector = 0
  <2> DEFINE a == (e \div Sector) + 1
  <2>1. a \in Nat /\ f = Sector * a
    BY <1>2, DivBounds DEF NextSectorOf
  <2> HIDE DEF a
  <2>2. Sector * a <= f /\ f < Sector * a + Sector
    BY <2>1, SectorFacts
  <2>3. f % Sector = f - Sector * a
    BY <2>1, <2>2, DivIs
  <2> QED BY <2>1, <2>3
<1> QED BY <1>1, <1>2

(* A record of the length loop is counted right behind the one before, if  *)
(* it ends with the sector or before it, or from the next sector on.  After*)
(* one that ends exactly with its sector a whole sector is left out.       *)
Follows(e, len, at) ==
  \/ at = e /\ e % Sector # 0 /\ e + len <= NextSectorOf(e)
  \/ at = NextSectorOf(e)

(* section never runs ahead of the bytes counted, with or without records  *)
(* that fit exactly.                                                       *)
CountInv ==
  ~is_root =>
    /\ step = "measure" =>
         /\ index = 0 => section = 1
         /\ Sector * section <= NextSectorOf(dir_len)
         /\ dir_len % Sector = 0 => Sector * section <= dir_len
    /\ dir_len = IF Len(sized) = 0 THEN NavRecords ELSE SizedEnd(Len(sized))
    /\ Len(sized) > 0 => sized[1] = NavRecords
    /\ \A i \in 1 .. Len(sized) - 1 :
         Follows(SizedEnd(i), RecLen(listing[i + 1]), sized[i + 1])

(* The headings end within the first sector.                               *)
LEMMA HeadingsFit ==
  /\ NavRecords \in Nat /\ NavRecords % Sector # 0
  /\ NextSectorOf(NavRecords) = Sector * 1
<1>1. /\ NavRecords \in Nat /\ Sector * 0 <= NavRecords
      /\ NavRecords < Sector * 0 + Sector /\ NavRecords # 0 /\ Sector * 0 = 0
  BY SectorFacts DEF NavRecords
<1>2. NavRecords \div Sector = 0 /\ NavRecords % Sector = NavRecords
  BY <1>1, DivIs
<1> QED BY <1>1, <1>2 DEF NextSectorOf

(* The length loop starts there,                                           *)
LEMMA CountInvInit == Init => CountInv
<1> SUFFICES ASSUME Init PROVE CountInv
  OBVIOUS
<1>1. /\ section = 1 /\ dir_len = NavRecords /\ sized = <<>> /\ index = 0
  BY DEF Init
<1>2. Sector * section <= NextSectorOf(dir_len) /\ dir_len % Sector # 0
  BY <1>1, HeadingsFit, SectorFacts
<1> QED BY <1>1, <1>2 DEF CountInv

(* and no record is counted but behind the last or from the next sector on.*)
LEMMA CountInvNext == Struct /\ CountInv /\ [Next]_vars => CountInv'
<1> SUFFICES ASSUME Struct, CountInv, [Next]_vars, ~is_root'
             PROVE  CountInv'
  BY DEF CountInv
<1>0. is_root' = is_root /\ listing' = listing /\ ~is_root
  BY DEF Next, MeasureRoot, Measure, Measured, FillEntry, FillFile, Allocate,
         CopyRecord, WriteBuffer, vars
<1>1. CASE Measure
  <2> DEFINE n == Len(sized)
             len == RecLen(listing[n + 1])
             e == dir_len
             crosses == e + len > Sector * section
             at == IF crosses THEN e + (Sector - (e % Sector)) ELSE e
             limit == Sector * section
             nb == NextSectorOf(e)
  <2>1. /\ step = "measure" /\ step' = step /\ n = index /\ index < Count
        /\ sized \in Seq(Nat) /\ e \in Nat /\ section \in Nat /\ n \in Nat
        /\ listing \in Seq(Entry) /\ index' = index + 1
    BY <1>1, SectorFacts DEF Measure, Struct, TypeOK, Shape
  <2>2. listing[n + 1] \in Entry
    BY <2>1 DEF Count
  <2>3. len \in Nat /\ 48 <= len /\ len <= 127
    BY <2>2, RecLenBounds DEF LongestRecord
  <2>4. /\ sized' = Append(sized, at) /\ dir_len' = at + len
        /\ section' = IF crosses THEN section + 1 ELSE section
    BY <1>1, <2>1 DEF Measure
  <2>5. /\ nb \in Nat /\ e < nb /\ nb <= e + Sector
        /\ e % Sector \in 0 .. Sector - 1
        /\ nb = e + (Sector - (e % Sector))
    BY <2>1, NextSectorFacts
  <2>6. /\ n = 0 => section = 1
        /\ e = IF n = 0 THEN NavRecords ELSE SizedEnd(n)
        /\ n > 0 => sized[1] = NavRecords
        /\ \A i \in 1 .. n - 1 :
             Follows(SizedEnd(i), RecLen(listing[i + 1]), sized[i + 1])
    BY <1>0, <2>1 DEF CountInv
  <2>7. /\ limit \in Nat /\ Sector * (section + 1) = limit + Sector
        /\ limit <= nb
        /\ e % Sector = 0 => limit <= e
    BY <1>0, <2>1, SectorFacts DEF CountInv
  <2>8. at = IF crosses THEN nb ELSE e
    BY <2>5
  <2>s. crosses <=> e + len > limit
    OBVIOUS
  <2> HIDE DEF at, crosses, len, limit, nb
  <2>9. at \in Nat
    BY <2>1, <2>5, <2>8
  <2>10. Follows(e, len, at)
    <3>1. CASE crosses
      BY <3>1, <2>8 DEF Follows, nb
    <3>2. CASE ~crosses
      <4>1. e + len <= limit
        BY ONLY <3>2, <2>s, <2>1, <2>3, <2>7
      <4>2. e + len <= nb
        BY ONLY <4>1, <2>1, <2>3, <2>5, <2>7
      <4>3. e % Sector # 0
        BY ONLY <4>1, <2>1, <2>3, <2>7
      <4> QED BY <3>2, <4>2, <4>3, <2>8 DEF Follows, nb
    <3> QED BY <3>1, <3>2
  <2>11. /\ Len(sized') = n + 1 /\ sized'[n + 1] = at
         /\ \A i \in 1 .. n : sized'[i] = sized[i]
    BY <2>1, <2>4, <2>9, SMTT(30)
  <2>12. /\ Sector * section' <= NextSectorOf(at + len)
         /\ (at + len) % Sector = 0 => Sector * section' <= at + len
    <3>1. CASE crosses
      <4>1. at = nb /\ section' = section + 1
        BY <3>1, <2>4, <2>8
      <4>2. PICK q \in Nat : at = Sector * q
        BY <2>1, DivBounds, <4>1 DEF NextSectorOf, nb
      <4>3. /\ at + len \in Nat /\ Sector * q <= at + len
            /\ at + len < Sector * q + Sector
        BY <2>3, <2>9, <4>2, SectorFacts
      <4>4. (at + len) \div Sector = q /\ (at + len) % Sector = len
        <5>1. /\ (at + len) \div Sector = q
              /\ (at + len) % Sector = (at + len) - Sector * q
          BY <4>3, DivIs
        <5> QED BY <5>1, <4>2, <2>3, <2>9
      <4>5. NextSectorOf(at + len) = at + Sector
        BY <4>2, <4>4, SectorFacts DEF NextSectorOf
      <4>6. Sector * section' <= NextSectorOf(at + len)
        BY ONLY <2>5, <2>7, <4>1, <4>5, SectorFacts
      <4>7. (at + len) % Sector # 0
        BY <2>3, <4>4
      <4> QED BY <4>6, <4>7
    <3>2. CASE ~crosses
      <4>1. at = e /\ section' = section
        BY <3>2, <2>4, <2>8
      <4>2. e + len \in Nat /\ e < e + len
        BY <2>1, <2>3
      <4>3. nb <= NextSectorOf(e + len) /\ NextSectorOf(e + len) \in Nat
        <5> DEFINE f == e + len
        <5>1. e \in Nat /\ f \in Nat /\ e <= f
          BY <2>1, <4>2
        <5> HIDE DEF f
        <5> QED BY <5>1, NextSectorMono, NextSectorFacts DEF nb, f
      <4>4. ASSUME (e + len) % Sector = 0 PROVE limit <= e + len
        <5>1. PICK k \in Nat : e + len = Sector * k
          BY <4>2, <4>4, SectorStart
        <5>2. nb <= Sector * k
          BY <2>1, <4>2, <5>1, NoneBetween DEF nb
        <5> QED BY ONLY <2>5, <2>7, <4>2, <5>1, <5>2
      <4>5. limit <= NextSectorOf(e + len)
        BY ONLY <2>5, <2>7, <4>3
      <4> QED BY <4>1, <4>4, <4>5 DEF limit
    <3> QED BY <3>1, <3>2
  <2>13. dir_len' = SizedEnd(Len(sized))'
    <3>1. dir_len' = sized'[n + 1] + RecLen(listing[n + 1])
      BY <2>4, <2>11 DEF len
    <3> QED BY <3>1, <1>0, <2>11 DEF SizedEnd, RecLen
  <2>14. sized'[1] = NavRecords
    <3>1. CASE n = 0
      <4>1. e = NavRecords /\ section = 1 /\ Sector * 1 = Sector
        BY <3>1, <2>6, SectorFacts
      <4>2. ~crosses
        BY <4>1, <2>3, SectorFacts DEF crosses, NavRecords
      <4> QED BY <3>1, <4>1, <4>2, <2>8, <2>11
    <3>2. CASE n # 0
      BY <3>2, <2>1, <2>6, <2>11
    <3> QED BY <3>1, <3>2
  <2>15. ASSUME NEW i \in 1 .. n
         PROVE  Follows(SizedEnd(i), RecLen(listing[i + 1]), sized[i + 1])'
    <3>1. SizedEnd(i)' = SizedEnd(i)
      BY <1>0, <2>11 DEF SizedEnd, RecLen
    <3>2. Follows(SizedEnd(i), RecLen(listing[i + 1]), sized[i + 1])'
            = Follows(SizedEnd(i), RecLen(listing[i + 1]), sized'[i + 1])
      BY <1>0, <3>1 DEF Follows, NextSectorOf, RecLen
    <3>3. CASE i = n
      BY <3>2, <3>3, <2>1, <2>6, <2>10, <2>11 DEF len
    <3>4. CASE i \in 1 .. n - 1
      <4>1. i + 1 \in 1 .. n
        BY <3>4, <2>1
      <4> QED BY <4>1, <3>2, <3>4, <2>6, <2>11
    <3> QED BY <3>3, <3>4, <2>1
  <2>16. /\ Len(sized') # 0 /\ Len(sized') - 1 = n /\ index' # 0
    BY <2>1, <2>11
  <2>17. /\ (Sector * section <= NextSectorOf(dir_len))'
         /\ (dir_len % Sector = 0 => Sector * section <= dir_len)'
    BY <2>4, <2>12 DEF NextSectorOf
  <2> QED BY <2>11, <2>13, <2>14, <2>15, <2>16, <2>17 DEF CountInv
<1>2. CASE ~Measure
  <2>1. /\ UNCHANGED <<dir_len, section, sized>>
        /\ step' = "measure" => step = "measure" /\ index' = index
    BY <1>0, <1>2 DEF Next, MeasureRoot, Measured, FillEntry, FillFile, Allocate,
                CopyRecord, WriteBuffer, vars, measuring
  <2>2. \A i : SizedEnd(i)' = SizedEnd(i)
    BY <1>0, <2>1 DEF SizedEnd, RecLen
  <2> QED BY <1>0, <2>1, <2>2 DEF CountInv, Follows, NextSectorOf, RecLen
<1> QED BY <1>1, <1>2

(* What the length loop counts for a record reaches to where it is copied, *)
(* or ends with the sector behind which it is copied.                      *)
Covers(at, len, start) ==
  \/ start <= at
  \/ start <= at + len /\ (at + len) % Sector = 0

(* The next record, then, is covered as well.                              *)
LEMMA CoversNext ==
  ASSUME NEW at \in Nat, NEW len \in Nat, NEW start \in Nat, len < Sector,
         Covers(at, len, start),
         NEW next \in Nat, NEW at2 \in Nat, NEW start2 \in Nat,
         Follows(at + len, next, at2),
         \/ start2 = start + len
         \/ start2 = NextSectorOf(start + len) /\ start2 <= start + len + next
  PROVE  Covers(at2, next, start2)
<1> DEFINE E == at + len
           A == start + len
<1>1. E \in Nat /\ A \in Nat
  OBVIOUS
<1>2. /\ NextSectorOf(E) \in Nat /\ E < NextSectorOf(E)
      /\ NextSectorOf(A) \in Nat /\ A < NextSectorOf(A)
      /\ E % Sector = 0 => NextSectorOf(E) = E + Sector
  <2> HIDE DEF E, A
  <2>1. /\ NextSectorOf(E) \in Nat /\ E < NextSectorOf(E)
        /\ NextSectorOf(E) = E + (Sector - (E % Sector))
    BY <1>1, NextSectorFacts
  <2>2. NextSectorOf(A) \in Nat /\ A < NextSectorOf(A)
    BY <1>1, NextSectorFacts
  <2>3. E % Sector = 0 => NextSectorOf(E) = E + Sector
    BY ONLY <1>1, <2>1, SectorFacts
  <2> QED BY <2>1, <2>2, <2>3
<1>3. start2 = A \/ (start2 = NextSectorOf(A) /\ start2 <= A + next)
  OBVIOUS
<1>4. \/ at2 = E /\ E % Sector # 0 /\ E + next <= NextSectorOf(E)
      \/ at2 = NextSectorOf(E)
  BY DEF Follows
<1>5. start <= at \/ (start <= E /\ E % Sector = 0)
  BY DEF Covers
<1>6. A <= E \/ (A < NextSectorOf(E) /\ E % Sector = 0)
  BY <1>2, <1>5, SectorFacts
<1>7. A <= E => /\ NextSectorOf(A) <= NextSectorOf(E)
                /\ E < NextSectorOf(A) => NextSectorOf(E) = NextSectorOf(A)
  BY <1>1, NextSectorMono
<1>8. A < NextSectorOf(E) => NextSectorOf(A) <= NextSectorOf(E)
  <2>1. PICK k \in Int : NextSectorOf(E) = Sector * k
    BY <1>1, DivBounds DEF NextSectorOf
  <2> QED BY <1>1, <2>1, NoneBetween
<1> HIDE DEF E, A
<1>9. CASE at2 = NextSectorOf(E)
  <2>1. start2 <= at2
    BY <1>1, <1>2, <1>3, <1>6, <1>7, <1>8, <1>9
  <2> QED BY <2>1 DEF Covers
<1>10. CASE at2 = E /\ E % Sector # 0 /\ E + next <= NextSectorOf(E)
  <2>1. A <= E
    BY <1>6, <1>10
  <2>2. CASE start2 <= E
    BY <2>2, <1>10 DEF Covers
  <2>3. CASE E < start2
    <3>1. start2 = NextSectorOf(A) /\ start2 <= A + next
      BY <1>1, <1>3, <2>1, <2>3
    <3>2. NextSectorOf(E) = start2
      BY <1>7, <2>1, <2>3, <3>1
    <3>3. E + next = start2
      BY <1>1, <1>2, <1>10, <2>1, <3>1, <3>2
    <3>4. start2 % Sector = 0
      BY <1>1, <3>2, SectorStart
    <3> QED BY <1>10, <3>3, <3>4 DEF Covers
  <2> QED BY <1>1, <2>2, <2>3
<1> QED BY <1>4, <1>9, <1>10

CoverInv ==
  ~is_root /\ step \in {"write", "done"} =>
    /\ index < Count =>
         Covers(sized[index + 1], RecLen(listing[index + 1]), offset)
    /\ index = Count => offset <= dir_len \/ dir_len % Sector = 0

(* Before the copy there is nothing to cover,                              *)
LEMMA CoverInvInit == Init => CoverInv
BY DEF Init, CoverInv

(* and each record copied is covered because the one before was.           *)
LEMMA CoverInvNext ==
  Struct /\ SameOrder /\ CountInv /\ CoverInv /\ [Next]_vars => CoverInv'
<1> SUFFICES ASSUME Struct, SameOrder, CountInv, CoverInv, [Next]_vars,
                    ~is_root', step' \in {"write", "done"}
             PROVE  CoverInv'
  BY DEF CoverInv
<1>0. is_root' = is_root /\ listing' = listing /\ ~is_root
  BY DEF Next, MeasureRoot, Measure, Measured, FillEntry, FillFile, Allocate,
         CopyRecord, WriteBuffer, vars
<1>m. UNCHANGED <<dir_len, sized>>
  BY DEF Next, MeasureRoot, Measure, Measured, FillEntry, FillFile, Allocate,
         CopyRecord, WriteBuffer, vars, measuring, Struct, Shape
<1>s. /\ listing \in Seq(Entry) /\ Count \in Nat /\ index \in Nat
      /\ Count' = Count /\ Count = Len(listing)
      /\ sized \in Seq(Nat) /\ dir_len \in Nat
  BY <1>0, SectorFacts DEF Struct, TypeOK, Count
<1>1. CASE CopyRecord
  <2> DEFINE i == index + 1
             at == sized[i]
             len == RecLen(listing[i])
  <2>1. Copying /\ step = "write" /\ index' = index + 1
    BY <1>1 DEF CopyRecord, Copying
  <2>2. /\ index < Count /\ Len(dir_rec) = Count /\ Len(sized) = Count
        /\ offset \in Nat /\ prev_sec \in Nat
    BY <2>1 DEF Struct, TypeOK, Shape, Copying
  <2>3. /\ dir_rec[index + 1] = listing[index + 1]
        /\ i < Count => dir_rec[index + 2] = listing[index + 2]
    <3>1. \A k \in 1 .. Count : dir_rec[k] = listing[k]
      BY <1>0, <2>2 DEF SameOrder
    <3>2. index + 1 \in 1 .. Count /\ (i < Count => index + 2 \in 1 .. Count)
      BY ONLY <1>s, <2>2
    <3> QED BY <3>1, <3>2
  <2>4. at \in Nat /\ listing[i] \in Entry /\ SizedEnd(i) = at + len
    BY <1>s, <2>2 DEF SizedEnd
  <2>5. len \in Nat /\ len < Sector
    BY <2>4, RecLenBounds, SectorFacts DEF LongestRecord
  <2>6. Covers(at, len, offset)
    BY <1>0, <2>1, <2>2 DEF CoverInv
  <2>7. After = offset + len
    BY <2>3 DEF After
  <2>8. offset' = IF NextEndsIn(After) > prev_sec
                    THEN Sector * NextEndsIn(After) ELSE After
    BY <1>1 DEF CopyRecord, After
  <2>9. CASE i = Count
    <3>1. NextEndsIn(After) = prev_sec
      BY <2>9 DEF NextEndsIn
    <3>2. offset' = offset + len
      BY <2>2, <2>7, <2>8, <3>1
    <3>3. dir_len = at + len
      BY <1>0, <1>s, <2>2, <2>4, <2>9 DEF CountInv
    <3>4. offset' <= dir_len \/ dir_len % Sector = 0
      BY <2>2, <2>4, <2>5, <2>6, <3>2, <3>3 DEF Covers
    <3>5. index' = Count'
      BY <1>s, <2>1, <2>9
    <3> QED BY <1>m, <1>s, <3>4, <3>5 DEF CoverInv
  <2>10. CASE i < Count
    <3> DEFINE next == RecLen(listing[index + 2])
               at2 == sized[index + 2]
    <3>1. listing[index + 2] \in Entry /\ at2 \in Nat
      <4>1. index + 2 \in 1 .. Count
        BY ONLY <1>s, <2>2, <2>10
      <4> QED BY <1>s, <2>2, <4>1
    <3>2. next \in Nat
      BY <3>1, RecLenBounds
    <3>3. Follows(at + len, next, at2)
      <4>1. i \in 1 .. Len(sized) - 1 /\ i + 1 = index + 2
        BY <1>s, <2>2, <2>10
      <4>2. Follows(SizedEnd(i), RecLen(listing[i + 1]), sized[i + 1])
        BY <1>0, <4>1 DEF CountInv
      <4> QED BY <2>4, <4>1, <4>2
    <3>4. /\ After \in Nat /\ After < Sector * prev_sec + Sector
          /\ Sector * prev_sec <= After
          /\ NextEndsIn(After) > prev_sec =>
               /\ Sector * NextEndsIn(After) = Sector * prev_sec + Sector
               /\ Sector * NextEndsIn(After) <= After + next
      BY <2>1, <2>3, <2>10, CopyStep
    <3>5. NextSectorOf(After) = Sector * prev_sec + Sector
      <4>1. After \div Sector = prev_sec
        BY <2>2, <3>4, DivIs
      <4> QED BY <2>2, <4>1, SectorFacts DEF NextSectorOf
    <3>6. \/ offset' = After
          \/ offset' = NextSectorOf(After) /\ offset' <= After + next
      BY <2>8, <3>4, <3>5
    <3>7. offset' \in Nat
      BY <3>4, <3>6, NextSectorFacts
    <3>8. Covers(at2, next, offset')
      <4> HIDE DEF at, len, at2, next
      <4> QED BY <2>2, <2>4, <2>5, <2>6, <2>7, <3>1, <3>2, <3>3, <3>6, <3>7,
                 CoversNext
    <3>9. /\ index' + 1 = index + 2 /\ index' < Count'
      BY <1>s, <2>1, <2>10
    <3>10. Covers(sized[index + 1], RecLen(listing[index + 1]), offset)'
             = Covers(at2, next, offset')
      BY <1>0, <1>m, <3>9 DEF Covers, RecLen
    <3> QED BY <1>s, <3>8, <3>9, <3>10 DEF CoverInv
  <2> QED BY <1>s, <2>2, <2>9, <2>10
<1>2. CASE Allocate
  <2>1. /\ index' = 0 /\ offset' = NavRecords /\ Len(sized) = Count
    BY <1>2 DEF Allocate, Struct, Shape, copying
  <2>2. CASE Count = 0
    <3>1. dir_len = NavRecords
      BY <1>0, <2>1, <2>2 DEF CountInv
    <3> QED BY <1>m, <1>s, <2>1, <2>2, <3>1, HeadingsFit DEF CoverInv
  <2>3. CASE Count > 0
    <3>1. sized[1] = NavRecords
      BY <1>0, <2>1, <2>3 DEF CountInv
    <3>2. sized'[0 + 1] = NavRecords
      BY <1>m, <3>1
    <3> QED BY <1>s, <2>1, <2>3, <3>2, HeadingsFit DEF CoverInv, Covers
  <2> QED BY <1>s, <2>2, <2>3
<1>3. CASE WriteBuffer \/ UNCHANGED vars
  <2>1. /\ UNCHANGED <<index, offset>>
        /\ step \in {"write", "done"}
    BY <1>3 DEF WriteBuffer, vars, copying
  <2> QED BY <1>0, <1>m, <1>s, <2>1 DEF CoverInv, Covers, RecLen
<1>4. CASE MeasureRoot \/ Measure \/ Measured \/ FillEntry \/ FillFile
  BY <1>4 DEF MeasureRoot, Measure, Measured, FillEntry, FillFile
<1> QED BY <1>1, <1>2, <1>3, <1>4 DEF Next

(* LengthCovers: below the root a reader who trusts the data length misses *)
(* no record, even when records end exactly with their sectors, unless the *)
(* length itself does.                                                     *)
THEOREM LengthMissesNothing == Spec => []LengthCovers
<1>1. Struct /\ CoverInv => LengthCovers
  <2> SUFFICES ASSUME Struct, CoverInv, step = "done", ~is_root,
                      dir_len % Sector # 0
               PROVE  dir_len >= offset
    BY DEF LengthCovers
  <2>1. index = Count /\ offset \in Nat /\ dir_len \in Nat
    BY DEF Struct, Shape, TypeOK
  <2> QED BY <2>1 DEF CoverInv
<1> QED BY <1>1, SameOrderInit, SameOrderNext, CountInvInit, CountInvNext,
           CoverInvInit, CoverInvNext, StructInvariant, PTL DEF Spec
=============================================================================

--------------------------- MODULE DetachedLogProofs ---------------------------
(***************************************************************************)
(* Proofs about DetachedLog for every chunk size, file size and number of  *)
(* restarts, and for characters of one and of two bytes.                   *)
(***************************************************************************)
EXTENDS DetachedLog, FiniteSetTheorems, TLAPS

(* A chunk of n bytes decodes to at least one and at most n characters.    *)
LEMMA DecodedBounds ==
    ASSUME NEW from \in Nat, NEW to \in Nat, from < to
    PROVE  /\ Decoded(from, to) \in Nat
           /\ 0 < Decoded(from, to)
           /\ Decoded(from, to) <= to - from
  <1> DEFINE pairs == {i \in from + 1 .. to : i < to /\ file[i] = "H" /\ file[i + 1] = "L"}
             inner == from + 1 .. to - 1
  <1>1. IsFiniteSet(inner) /\ Cardinality(inner) = to - 1 - from
    <2>1. from + 1 \in Int /\ to - 1 \in Int
      OBVIOUS
    <2>2. /\ IsFiniteSet(inner)
          /\ Cardinality(inner) = IF from + 1 > to - 1 THEN 0 ELSE (to - 1) - (from + 1) + 1
      BY <2>1, FS_Interval
    <2> QED
      BY <2>2
  <1>2. pairs \subseteq inner
    OBVIOUS
  <1>3. Cardinality(pairs) \in Nat /\ Cardinality(pairs) <= Cardinality(inner)
    <2>1. IsFiniteSet(pairs) /\ Cardinality(pairs) <= Cardinality(inner)
      BY <1>1, <1>2, FS_Subset
    <2> QED
      BY <2>1, FS_CardinalityType
  <1> HIDE DEF inner, pairs
  <1>4. /\ (to - from) - Cardinality(pairs) \in Nat
        /\ 0 < (to - from) - Cardinality(pairs)
        /\ (to - from) - Cardinality(pairs) <= to - from
    BY <1>1, <1>3
  <1> QED
    BY <1>4 DEF Decoded, pairs

(* Decoding one-byte characters keeps their number.                        *)
LEMMA DecodedLength ==
    ASSUME OneByte, Len(file) \in Nat, NEW from \in Nat, NEW to \in Nat, from < to, to <= Len(file)
    PROVE  Decoded(from, to) = to - from
  <1> DEFINE pairs == {i \in from + 1 .. to : i < to /\ file[i] = "H" /\ file[i + 1] = "L"}
  <1>1. \A i \in from + 1 .. to : file[i] = "a"
    BY DEF OneByte
  <1>2. pairs = {}
    BY <1>1
  <1>3. Cardinality(pairs) = 0
    BY <1>2, FS_EmptySet
  <1> QED
    BY <1>3 DEF Decoded

(* The end of a chunk lies behind its start and within the file.           *)
LEMMA ChunkEndFacts ==
    ASSUME TypeOK, offset < Len(file)
    PROVE  ChunkEnd \in Nat /\ offset < ChunkEnd /\ ChunkEnd <= Len(file)
BY LogAssumption DEF TypeOK, ChunkEnd

(* The rows are typed and the stored bytes end within the file.            *)
LEMMA StoredFacts ==
    ASSUME TypeOK, LogInv
    PROVE  /\ Len(file) \in Nat /\ Len(rows) \in Nat
           /\ \A i \in 1..Len(rows) : rows[i] \in Row
           /\ Stored \in Nat /\ Stored <= Len(file)
  <1>1. Len(file) \in Nat /\ Len(rows) \in Nat /\ \A i \in 1..Len(rows) : rows[i] \in Row
    BY DEF TypeOK
  <1>2. CASE rows = <<>>
    BY <1>1, <1>2 DEF Stored
  <1>3. CASE rows # <<>>
    <2>1. Len(rows) \in 1..Len(rows)
      BY <1>3 DEF TypeOK
    <2>2. rows[Len(rows)].to \in Nat
      BY <1>1, <2>1 DEF Row
    <2>3. rows[Len(rows)].to <= Len(file)
      BY <2>1 DEF LogInv, RowsInv
    <2> QED
      BY <1>1, <1>3, <2>2, <2>3 DEF Stored
  <1> QED
    BY <1>2, <1>3

(* The row with the greatest offset is the last one: the resume offset is  *)
(* behind every stored offset and not behind the stored bytes, and it is   *)
(* their end when all characters have one byte or nothing is left to read. *)
LEMMA ResumeFacts ==
    ASSUME TypeOK, LogInv, NEW n \in ResumeOffsets
    PROVE  /\ n \in Nat /\ n <= Stored
           /\ \A i \in 1..Len(rows) : rows[i].offset < n
           /\ OneByte => n = Stored
  <1>1. CASE rows = <<>>
    BY <1>1 DEF ResumeOffsets, Stored
  <1>2. CASE rows # <<>>
    <2> DEFINE m == Len(rows)
    <2>1. m \in 1..Len(rows) /\ rows[m] \in Row /\ m \in Nat
      BY <1>2 DEF TypeOK
    <2>2. PICK i \in LastRows : n = ResumeAt(rows[i])
      BY <1>2 DEF ResumeOffsets
    <2>3. i \in 1..Len(rows) /\ rows[i] \in Row /\ rows[m].offset <= rows[i].offset
      BY <2>1, <2>2 DEF LastRows, TypeOK
    <2>4. i = m
      <3> SUFFICES ASSUME i < m PROVE FALSE
        BY <2>1, <2>3
      <3>1. rows[i].offset < rows[m].offset
        BY <2>1, <2>3 DEF LogInv, OffsetsIncrease
      <3> QED
        BY <2>1, <2>3, <3>1 DEF Row
    <2>5. /\ rows[m].offset <= rows[m].from
          /\ rows[m].from < rows[m].to /\ rows[m].to <= Len(file)
          /\ rows[m].offset \in Nat /\ rows[m].from \in Nat /\ rows[m].to \in Nat
      BY <2>1 DEF LogInv, RowsInv, Row
    <2> DEFINE d == Decoded(rows[m].from, rows[m].to)
    <2>6. d \in Nat /\ 0 < d /\ d <= rows[m].to - rows[m].from
      BY <2>5, DecodedBounds
    <2>7. n = rows[m].offset + d /\ Stored = rows[m].to
      BY <1>2, <2>2, <2>4 DEF ResumeAt, Stored
    <2>8. ASSUME NEW k \in 1..Len(rows) PROVE rows[k].offset <= rows[m].offset /\ rows[k].offset \in Nat
      <3>1. k < m => rows[k].offset < rows[m].offset
        BY <2>1 DEF LogInv, OffsetsIncrease
      <3>2. rows[k] \in Row
        BY DEF TypeOK
      <3> QED
        BY <2>1, <2>5, <3>1, <3>2 DEF Row
    <2>9. OneByte => n = Stored
      <3> SUFFICES ASSUME OneByte PROVE n = Stored
        OBVIOUS
      <3>1. rows[m].offset = rows[m].from
        BY <2>1 DEF LogInv, ByteOffsets
      <3>2. Len(file) \in Nat
        BY DEF TypeOK
      <3>3. d = rows[m].to - rows[m].from
        BY <2>5, <3>2, DecodedLength
      <3> HIDE DEF d
      <3> QED
        BY <2>5, <2>7, <3>1, <3>3
    <2> HIDE DEF d
    <2>10. n \in Nat /\ n <= Stored
      <3>1. \A o, f, e, k \in Nat : o <= f /\ k <= e - f => o + k \in Nat /\ o + k <= e
        OBVIOUS
      <3> QED
        BY <2>5, <2>6, <2>7, <3>1
    <2>11. \A k \in 1..Len(rows) : rows[k].offset < n
      BY <2>5, <2>6, <2>7, <2>8
    <2> QED
      BY <2>9, <2>10, <2>11
  <1> QED
    BY <1>1, <1>2

(* What storing a chunk does to the rows.                                  *)
LEMMA AppendFacts ==
    ASSUME TypeOK, NEW r \in Row
    PROVE  /\ Append(rows, r) \in Seq(Row)
           /\ Len(Append(rows, r)) = Len(rows) + 1
           /\ \A i \in 1..Len(rows) : Append(rows, r)[i] = rows[i]
           /\ Append(rows, r)[Len(rows) + 1] = r
BY DEF TypeOK

(* A step that leaves the file and the rows alone keeps what is said of    *)
(* them alone.                                                             *)
LEMMA RowsUntouched ==
    ASSUME LogInv, UNCHANGED <<file, rows>>
    PROVE  /\ RowsInv' /\ OffsetsIncrease' /\ LogIsPrefix'
           /\ Stored' = Stored /\ (OneByte' <=> OneByte)
BY DEF LogInv, RowsInv, OffsetsIncrease, LogIsPrefix, Consecutive, Stored, OneByte

-----------------------------------------------------------------------------
(* The inductive invariant of the log holds of every behaviour of the      *)
(* tailer, the crashes and the reattachments.                              *)
THEOREM LogInductive == Spec => [](TypeOK /\ LogInv)
<1> USE LogAssumption
<1>1. Init => TypeOK /\ LogInv
  <2> SUFFICES ASSUME Init PROVE TypeOK /\ LogInv
    OBVIOUS
  <2>1. TypeOK
    <3>1. 0 \in 0..MaxCrashes /\ NoChunk \in Row
      BY DEF LogAssumption, NoChunk, Row
    <3>2. file \in Seq(Byte) /\ rows \in Seq(Row)
      BY DEF Init
    <3>3. crashes \in 0..MaxCrashes /\ printed \in Nat /\ offset \in Nat /\ counter \in Nat /\ chunk \in Row
      BY <3>1 DEF Init
    <3> QED
      BY <3>2, <3>3 DEF Init, TypeOK
  <2>2. rows = <<>> /\ Len(rows) = 0 /\ Stored = 0 /\ Len(file) = 0
    BY DEF Init, Stored
  <2>3. RowsInv /\ OffsetsIncrease /\ LogIsPrefix
    BY <2>2 DEF RowsInv, OffsetsIncrease, LogIsPrefix, Consecutive
  <2>4. TailInv /\ DrainInv /\ ByteOffsets /\ WatchedIsComplete
    BY <2>2 DEF Init, TailInv, DrainInv, ByteOffsets, WatchedIsComplete, Status
  <2> QED
    BY <2>1, <2>3, <2>4 DEF LogInv
<1>2. TypeOK /\ LogInv /\ [Next]_vars => TypeOK' /\ LogInv'
  <2> SUFFICES ASSUME TypeOK, LogInv, [Next]_vars PROVE TypeOK' /\ LogInv'
    OBVIOUS
  <2>0. /\ Len(file) \in Nat /\ Len(rows) \in Nat
        /\ \A i \in 1..Len(rows) : rows[i] \in Row
        /\ Stored \in Nat /\ Stored <= Len(file)
    BY StoredFacts
  <2>1. ASSUME NEW c \in Character, CommandPrints(c) PROVE TypeOK' /\ LogInv'
    <3>1. c \in Seq(Byte) /\ Len(c) \in Nat \ {0}
      <4>1. "a" \in Byte /\ "H" \in Byte /\ "L" \in Byte
        BY DEF Byte
      <4>2. CASE c = <<"a">>
        BY <4>1, <4>2
      <4>3. CASE c = <<"H", "L">>
        BY <4>1, <4>3
      <4> QED
        BY <4>2, <4>3 DEF Character
    <3>2. /\ file' \in Seq(Byte) /\ Len(file') \in Nat /\ Len(file) < Len(file')
          /\ \A i \in 1..Len(file) : file'[i] = file[i]
      BY <2>1, <3>1 DEF CommandPrints, TypeOK
    <3>3. TypeOK'
      BY <2>1, <3>2 DEF CommandPrints, TypeOK
    <3>4. Stored' = Stored /\ (OneByte' => OneByte)
      BY <2>0, <2>1, <3>2 DEF CommandPrints, Stored, OneByte
    <3>5. RowsInv'
      <4> SUFFICES ASSUME NEW i \in 1..Len(rows)
                   PROVE  /\ rows[i].from < rows[i].to /\ rows[i].to <= Len(file')
                          /\ rows[i].offset <= rows[i].from
        BY <2>1 DEF CommandPrints, RowsInv
      <4>1. rows[i].from < rows[i].to /\ rows[i].to <= Len(file) /\ rows[i].offset <= rows[i].from
        BY DEF LogInv, RowsInv
      <4>2. rows[i].to \in Nat
        BY <2>0 DEF Row
      <4> QED
        BY <2>0, <3>2, <4>1, <4>2
    <3>6. OffsetsIncrease' /\ LogIsPrefix' /\ ByteOffsets'
      BY <2>1, <3>4 DEF CommandPrints, LogInv, OffsetsIncrease, LogIsPrefix, Consecutive, ByteOffsets
    <3>7. TailInv'
      <4>1. offset \in Nat /\ counter \in Nat /\ chunk.to \in Nat
        BY DEF TypeOK, Row
      <4>2. UNCHANGED <<up, rows, tail, offset, counter, chunk>>
        BY <2>1 DEF CommandPrints
      <4> QED
        BY <2>0, <3>2, <3>4, <4>1, <4>2 DEF LogInv, TailInv
    <3>8. ~Status /\ ~Status' /\ printed' = printed /\ printed \in Nat
      BY <2>1 DEF CommandPrints, Status, TypeOK
    <3>9. DrainInv' /\ WatchedIsComplete'
      BY <2>0, <2>1, <3>2, <3>4, <3>8 DEF CommandPrints, LogInv, DrainInv, WatchedIsComplete
    <3> QED
      BY <3>3, <3>5, <3>6, <3>7, <3>9 DEF LogInv
  <2>2. ASSUME TailRead PROVE TypeOK' /\ LogInv'
    <3>1. /\ offset \in Nat /\ counter \in Nat /\ counter <= offset
          /\ \A i \in 1..Len(rows) : rows[i].offset < counter
      BY <2>2 DEF TailRead, LogInv, TailInv, TypeOK
    <3>2. ChunkEnd \in Nat /\ offset < ChunkEnd /\ ChunkEnd <= Len(file)
      BY <2>2, ChunkEndFacts DEF TailRead
    <3> DEFINE d == Decoded(offset, ChunkEnd)
    <3>3. d \in Nat /\ 0 < d /\ d <= ChunkEnd - offset
      BY <3>1, <3>2, DecodedBounds
    <3>4. OneByte => d = ChunkEnd - offset
      BY <2>0, <3>1, <3>2, DecodedLength
    <3>5. chunk' = [offset |-> counter, from |-> offset, to |-> ChunkEnd] /\ counter' = counter + d
      BY <2>2 DEF TailRead
    <3> HIDE DEF d
    <3>6. TypeOK'
      <4>1. chunk' \in Row /\ counter' \in Nat /\ offset' \in Nat
        BY <2>2, <3>1, <3>2, <3>3, <3>5 DEF TailRead, Row
      <4> QED
        BY <2>2, <4>1 DEF TailRead, TypeOK
    <3>7. RowsInv' /\ OffsetsIncrease' /\ LogIsPrefix' /\ Stored' = Stored /\ (OneByte' <=> OneByte)
      BY <2>2, RowsUntouched DEF TailRead
    <3>8. TailInv'
      <4>1. /\ chunk'.offset = counter /\ chunk'.from = offset /\ chunk'.to = ChunkEnd
            /\ counter < counter' /\ counter' <= ChunkEnd
        BY <3>1, <3>2, <3>3, <3>5
      <4> QED
        BY <2>2, <3>1, <3>2, <4>1 DEF TailRead, LogInv, TailInv
    <3>9. ByteOffsets'
      <4> SUFFICES ASSUME OneByte PROVE ByteOffsets'
        BY <3>7 DEF ByteOffsets
      <4>1. offset = Stored /\ counter = Stored /\ \A i \in 1..Len(rows) : rows[i].offset = rows[i].from
        BY <2>2 DEF TailRead, LogInv, ByteOffsets
      <4>2. chunk'.offset = Stored /\ chunk'.from = Stored /\ counter' = chunk'.to
        BY <3>1, <3>2, <3>4, <3>5, <4>1
      <4> QED
        BY <2>2, <3>7, <4>1, <4>2 DEF TailRead, ByteOffsets
    <3>10. DrainInv' /\ WatchedIsComplete'
      BY <2>2, <3>7 DEF TailRead, LogInv, DrainInv, WatchedIsComplete, Status
    <3> QED
      BY <3>6, <3>7, <3>8, <3>9, <3>10 DEF LogInv
  <2>3. ASSUME TailAppend PROVE TypeOK' /\ LogInv'
    <3> DEFINE m == Len(rows)
    <3>1. /\ chunk \in Row /\ m \in Nat /\ rows \in Seq(Row)
          /\ chunk.offset <= chunk.from /\ chunk.from < chunk.to /\ chunk.to <= Len(file)
          /\ \A i \in 1..m : rows[i].offset < chunk.offset
          /\ chunk.offset < counter /\ counter <= offset /\ offset = chunk.to
      BY <2>3 DEF TailAppend, LogInv, TailInv, TypeOK
    <3>2. /\ rows' \in Seq(Row) /\ Len(rows') = m + 1 /\ rows'[m + 1] = chunk
          /\ \A i \in 1..m : rows'[i] = rows[i]
      BY <2>3, <3>1, AppendFacts DEF TailAppend
    <3>3. TypeOK'
      BY <2>3, <3>2 DEF TailAppend, TypeOK, NoChunk, Row
    <3>4. Stored' = chunk.to
      BY <3>1, <3>2 DEF Stored
    <3>5. m > 0 => Stored = rows[m].to
      BY <3>1 DEF Stored
    <3>6. m = 0 => Stored = 0
      BY <3>1 DEF Stored
    <3>7. \A i \in 1..m :
             /\ rows[i].from < rows[i].to /\ rows[i].to <= Len(file)
             /\ rows[i].offset <= rows[i].from /\ rows[i].offset \in Nat
      BY <2>0 DEF LogInv, RowsInv, Row
    <3>8. \A i, j \in 1..m : i < j => rows[i].offset < rows[j].offset
      BY DEF LogInv, OffsetsIncrease
    <3>9. OneByte =>
             /\ chunk.from = Stored /\ chunk.offset = Stored /\ counter = chunk.to
             /\ \A i \in 1..m : rows[i].offset = rows[i].from
             /\ \A i \in 1..m : rows[i].from = IF i = 1 THEN 0 ELSE rows[i - 1].to
      BY <2>3 DEF TailAppend, LogInv, ByteOffsets, LogIsPrefix, Consecutive
    <3>10. UNCHANGED file /\ (OneByte' <=> OneByte)
      BY <2>3 DEF TailAppend, OneByte
    <3> HIDE DEF m
    <3>11. RowsInv'
      <4> SUFFICES ASSUME NEW i \in 1..m + 1
                   PROVE  /\ rows'[i].from < rows'[i].to /\ rows'[i].to <= Len(file)
                          /\ rows'[i].offset <= rows'[i].from
        BY <3>2, <3>10 DEF RowsInv
      <4>1. CASE i = m + 1
        BY <3>1, <3>2, <4>1
      <4>2. CASE i \in 1..m
        BY <3>2, <3>7, <4>2
      <4> QED
        BY <3>1, <4>1, <4>2
    <3>12. OffsetsIncrease'
      <4> SUFFICES ASSUME NEW i \in 1..m + 1, NEW j \in 1..m + 1, i < j
                   PROVE  rows'[i].offset < rows'[j].offset
        BY <3>2 DEF OffsetsIncrease
      <4>1. i \in 1..m
        BY <3>1
      <4>2. CASE j = m + 1
        BY <3>1, <3>2, <4>1, <4>2
      <4>3. CASE j \in 1..m
        BY <3>2, <3>8, <4>1, <4>3
      <4> QED
        BY <3>1, <4>2, <4>3
    <3>13. LogIsPrefix'
      <4> SUFFICES ASSUME OneByte, NEW i \in 1..m + 1
                   PROVE  rows'[i].from = IF i = 1 THEN 0 ELSE rows'[i - 1].to
        BY <3>2, <3>10 DEF LogIsPrefix, Consecutive
      <4>1. CASE i = m + 1
        BY <3>1, <3>2, <3>5, <3>6, <3>9, <4>1
      <4>2. CASE i \in 1..m
        <5>1. rows'[i] = rows[i] /\ (i > 1 => rows'[i - 1] = rows[i - 1])
          BY <3>1, <3>2, <4>2
        <5> QED
          BY <3>9, <4>2, <5>1
      <4> QED
        BY <3>1, <4>1, <4>2
    <3>14. ByteOffsets'
      <4> SUFFICES ASSUME OneByte PROVE ByteOffsets'
        BY <3>10 DEF ByteOffsets
      <4>1. \A i \in 1..m + 1 : rows'[i].offset = rows'[i].from
        <5> TAKE i \in 1..m + 1
        <5>1. i = m + 1 \/ i \in 1..m
          BY <3>1
        <5> QED
          BY <3>2, <3>9, <5>1
      <4> QED
        BY <2>3, <3>1, <3>2, <3>4, <3>9, <4>1 DEF TailAppend, ByteOffsets
    <3>15. TailInv'
      <4>1. \A i \in 1..m + 1 : rows'[i].offset < counter
        <5> TAKE i \in 1..m + 1
        <5>1. i = m + 1 \/ i \in 1..m
          BY <3>1
        <5>2. counter \in Nat /\ chunk.offset \in Nat
          BY <3>1 DEF TypeOK, Row
        <5>3. CASE i = m + 1
          BY <3>1, <3>2, <5>3
        <5>4. CASE i \in 1..m
          <6>1. rows'[i].offset = rows[i].offset /\ rows[i].offset \in Nat /\ rows[i].offset < chunk.offset
            BY <3>1, <3>2, <3>7, <5>4
          <6> QED
            BY <3>1, <5>2, <6>1
        <5> QED
          BY <5>1, <5>3, <5>4
      <4> QED
        BY <2>3, <3>1, <3>2, <3>4, <3>10, <4>1 DEF TailAppend, LogInv, TailInv
    <3>16. DrainInv' /\ WatchedIsComplete'
      BY <2>3 DEF TailAppend, LogInv, DrainInv, WatchedIsComplete, Status
    <3> QED
      BY <3>3, <3>11, <3>12, <3>13, <3>14, <3>15, <3>16 DEF LogInv
  <2>4. ASSUME TailEmpty \/ TailCheck \/ Exit \/ LauncherDies PROVE TypeOK' /\ LogInv'
    <3> USE DEF TailEmpty, TailCheck, Exit, LauncherDies
    <3>1. TypeOK'
      BY <2>0, <2>4 DEF TypeOK
    <3>2. RowsInv' /\ OffsetsIncrease' /\ LogIsPrefix' /\ Stored' = Stored /\ (OneByte' <=> OneByte)
      BY <2>4, RowsUntouched
    <3>3. TailInv' /\ ByteOffsets'
      BY <2>4, <3>2 DEF LogInv, TailInv, ByteOffsets
    <3>4. DrainInv'
      <4>1. offset \in Nat /\ printed \in Nat /\ Len(file') = Len(file)
        BY <2>4 DEF TypeOK
      <4>2. CASE TailEmpty
        <5>1. offset = Len(file) /\ offset = Stored
          BY <2>0, <4>1, <4>2 DEF LogInv, TailInv
        <5> QED
          BY <3>2, <4>1, <4>2, <5>1 DEF LogInv, DrainInv, Status
      <4>3. CASE TailCheck
        BY <2>0, <3>2, <4>1, <4>3 DEF LogInv, DrainInv, Status
      <4>4. CASE Exit
        BY <3>2, <4>1, <4>4 DEF LogInv, DrainInv, Status
      <4>5. CASE LauncherDies
        BY <3>2, <4>1, <4>5 DEF LogInv, DrainInv, Status
      <4> QED
        BY <2>4, <4>2, <4>3, <4>4, <4>5
    <3>5. WatchedIsComplete'
      <4>1. CASE final # "watched"
        BY <2>4, <4>1 DEF WatchedIsComplete
      <4>2. CASE final = "watched"
        <5>1. tail = "off" /\ (exited \/ killed)
          BY <4>2 DEF LogInv, DrainInv
        <5> QED
          BY <2>4, <3>2, <4>2, <5>1 DEF LogInv, WatchedIsComplete, Status
      <4> QED
        BY <4>1, <4>2
    <3> QED
      BY <3>1, <3>2, <3>3, <3>4, <3>5 DEF LogInv
  <2>5. ASSUME Finish PROVE TypeOK' /\ LogInv'
    <3>1. TypeOK'
      BY <2>5 DEF Finish, TypeOK
    <3>2. RowsInv' /\ OffsetsIncrease' /\ LogIsPrefix' /\ Stored' = Stored /\ (OneByte' <=> OneByte)
      BY <2>5, RowsUntouched DEF Finish
    <3>3. /\ Stored = offset /\ printed <= offset /\ (Status => offset = Len(file))
          /\ (exited \/ killed) /\ printed <= Len(file)
      BY <2>0, <2>5 DEF Finish, LogInv, TailInv, DrainInv
    <3>4. TailInv' /\ ByteOffsets' /\ DrainInv'
      BY <2>5, <3>2, <3>3 DEF Finish, LogInv, TailInv, ByteOffsets, DrainInv
    <3>5. WatchedIsComplete'
      <4>1. printed \in Nat /\ offset \in Nat
        BY DEF TypeOK
      <4> QED
        BY <2>5, <3>2, <3>3, <4>1 DEF Finish, WatchedIsComplete, Status
    <3> QED
      BY <3>1, <3>2, <3>4, <3>5 DEF LogInv
  <2>6. ASSUME Crash \/ CancelTimesOut PROVE TypeOK' /\ LogInv'
    <3> USE DEF Crash, CancelTimesOut
    <3>1. TypeOK'
      <4>1. crashes' \in 0..MaxCrashes
        BY <2>6 DEF LogAssumption, TypeOK
      <4>2. NoChunk \in Row
        BY DEF NoChunk, Row
      <4> QED
        BY <2>6, <4>1, <4>2 DEF TypeOK
    <3>2. RowsInv' /\ OffsetsIncrease' /\ LogIsPrefix' /\ Stored' = Stored /\ (OneByte' <=> OneByte)
      BY <2>6, RowsUntouched
    <3>3. TailInv' /\ ByteOffsets'
      BY <2>6, <3>2 DEF LogInv, TailInv, ByteOffsets
    <3>4. DrainInv' /\ WatchedIsComplete'
      BY <2>6, <3>2 DEF LogInv, DrainInv, WatchedIsComplete, Status
    <3> QED
      BY <3>1, <3>2, <3>3, <3>4 DEF LogInv
  <2>7. ASSUME ReattachFinished \/ ReattachGone \/ BootTerminal PROVE TypeOK' /\ LogInv'
    <3>1. TypeOK'
      BY <2>7 DEF ReattachFinished, ReattachGone, BootTerminal, TypeOK
    <3>2. RowsInv' /\ OffsetsIncrease' /\ LogIsPrefix' /\ Stored' = Stored /\ (OneByte' <=> OneByte)
      BY <2>7, RowsUntouched DEF ReattachFinished, ReattachGone, BootTerminal
    <3>3. TailInv' /\ ByteOffsets' /\ DrainInv' /\ WatchedIsComplete'
      BY <2>7, <3>2 DEF ReattachFinished, ReattachGone, BootTerminal, LogInv, TailInv, ByteOffsets, DrainInv,
                        WatchedIsComplete, Status
    <3> QED
      BY <3>1, <3>2, <3>3 DEF LogInv
  <2>8. ASSUME ReattachAlive PROVE TypeOK' /\ LogInv'
    <3>1. /\ offset' \in Nat /\ offset' <= Stored /\ counter' = offset'
          /\ \A i \in 1..Len(rows) : rows[i].offset < offset'
          /\ OneByte => offset' = Stored
      BY <2>8, ResumeFacts DEF ReattachAlive
    <3>2. TypeOK'
      BY <2>8, <3>1 DEF ReattachAlive, TypeOK
    <3>3. RowsInv' /\ OffsetsIncrease' /\ LogIsPrefix' /\ Stored' = Stored /\ (OneByte' <=> OneByte)
      BY <2>8, RowsUntouched DEF ReattachAlive
    <3>4. offset' <= Len(file) /\ (offset' = Stored \/ offset' < Len(file))
      BY <2>0, <3>1
    <3>5. TailInv' /\ ByteOffsets'
      BY <2>8, <3>1, <3>3, <3>4 DEF ReattachAlive, LogInv, TailInv, ByteOffsets
    <3>6. DrainInv' /\ WatchedIsComplete'
      BY <2>8, <3>3 DEF ReattachAlive, LogInv, DrainInv, WatchedIsComplete, Status
    <3> QED
      BY <3>2, <3>3, <3>5, <3>6 DEF LogInv
  <2>9. CASE UNCHANGED vars
    <3>1. TypeOK'
      BY <2>9 DEF vars, TypeOK
    <3>2. RowsInv' /\ OffsetsIncrease' /\ LogIsPrefix' /\ Stored' = Stored /\ (OneByte' <=> OneByte)
      BY <2>9, RowsUntouched DEF vars
    <3>3. TailInv' /\ ByteOffsets' /\ DrainInv' /\ WatchedIsComplete'
      BY <2>9, <3>2 DEF vars, LogInv, TailInv, ByteOffsets, DrainInv, WatchedIsComplete, Status
    <3> QED
      BY <3>1, <3>2, <3>3 DEF LogInv
  <2> QED
    BY <2>1, <2>2, <2>3, <2>4, <2>5, <2>6, <2>7, <2>8, <2>9 DEF Next, TailStep, Boot
<1> QED
  BY <1>1, <1>2, PTL DEF Spec

(* One-byte output is stored byte for byte, once and in order, whatever    *)
(* crashes between a read of the log and the insert of its row.            *)
THEOREM OutputIsAPrefix == Spec => []LogIsPrefix
  <1>1. TypeOK /\ LogInv => LogIsPrefix
    BY DEF LogInv
  <1> QED
    BY <1>1, LogInductive, PTL

(* The offsets of the rows grow in the order of the inserts, for           *)
(* characters of any width, so sorting by them keeps the order.            *)
THEOREM RowsAreOrdered == Spec => []OffsetsIncrease
  <1>1. TypeOK /\ LogInv => OffsetsIncrease
    BY DEF LogInv
  <1> QED
    BY <1>1, LogInductive, PTL

(* A watcher that finalizes a task has stored what was printed before the  *)
(* completion was seen, and all of the output when the status file ended   *)
(* it: the drain before the future is resolved is enough.                  *)
THEOREM FinalOutputIsStored == Spec => []WatchedIsComplete
  <1>1. TypeOK /\ LogInv => WatchedIsComplete
    BY DEF LogInv
  <1> QED
    BY <1>1, LogInductive, PTL

(* The three together, for every chunk size and any number of crashes and  *)
(* with a launcher that may be killed: the log is a prefix of one-byte     *)
(* output, in order, and holds what the watcher had to wait for.           *)
THEOREM LogIsTheOutput == Spec => []LogIsFaithful
  <1>1. LogIsPrefix /\ OffsetsIncrease /\ WatchedIsComplete => LogIsFaithful
    BY DEF LogIsFaithful
  <1> QED
    BY <1>1, OutputIsAPrefix, RowsAreOrdered, FinalOutputIsStored, PTL
=============================================================================

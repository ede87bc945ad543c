-------------------------- MODULE OdTransferProofs --------------------------
(***************************************************************************)
(* Proofs about OdTransfer: for every buffer size, array length and        *)
(* payload, a transfer that ends with success has moved exactly its        *)
(* object, and the FILE* bookkeeping holds.                                *)
(*                                                                         *)
(* The properties are not inductive alone.  IInv adds Progress, which says *)
(* between two calls that the bytes moved so far are those before          *)
(* dataOffset; the last call then completes them.  Beside the arithmetic   *)
(* of a segment it rests on three facts about sequences: Extend, Prefix    *)
(* and ArrayIsSeq.                                                         *)
(***************************************************************************)
EXTENDS OdTransfer, SequenceTheorems, TLAPS

\* A C array is a sequence of its length.
LEMMA ArrayIsSeq ==
    ASSUME NEW a \in [1..DataMax -> Byte]
    PROVE  a \in Seq(Byte) /\ Len(a) = DataMax
<1>1. a \in Seq(Byte)
  BY DataMaxAssumption, SeqDef
<1>2. Len(a) = DataMax
  BY <1>1, DataMaxAssumption, LenProperties
<1> QED BY <1>1, <1>2

\* Adding the next n elements of s to its first k gives its first k + n.
LEMMA Extend ==
    ASSUME NEW s \in Seq(Byte), NEW k \in Nat, NEW n \in Nat, k + n =< Len(s)
    PROVE  /\ SubSeq(s, 1, k) \o SubSeq(s, k + 1, k + n) = SubSeq(s, 1, k + n)
           /\ SubSeq(s, 1, k + n) \in Seq(Byte)
           /\ Len(SubSeq(s, 1, k)) = k
           /\ SubSeq(s, k + 1, k + n) \in Seq(Byte)
           /\ Len(SubSeq(s, k + 1, k + n)) = n
           /\ \A i \in 1..n : SubSeq(s, k + 1, k + n)[i] = s[k + i]
<1>0. Len(s) \in Nat /\ \A i \in 1..Len(s) : s[i] \in Byte
  BY LenProperties, ElementOfSeq
<1>1. SubSeq(s, 1, k) \o SubSeq(s, k + 1, k + n) = SubSeq(s, 1, k + n)
  <2>1. 1 \in 1..Len(s) + 1 /\ k \in 1 - 1..Len(s) /\ k + n \in k..Len(s)
    BY <1>0
  <2> QED BY <2>1, ConcatAdjacentSubSeq, Zenon
<1>2. SubSeq(s, 1, k + n) \in Seq(Byte)
  <2>1. \A i \in 1..(k + n) : s[i] \in Byte
    BY <1>0
  <2> QED BY <2>1, SubSeqProperties
<1>3. Len(SubSeq(s, 1, k)) = k
  <2>1. \A i \in 1..k : s[i] \in Byte
    BY <1>0
  <2>2. Len(SubSeq(s, 1, k)) = IF 1 <= k THEN k - 1 + 1 ELSE 0
    BY <2>1, SubSeqProperties
  <2> QED BY <2>2
<1>4. /\ SubSeq(s, k + 1, k + n) \in Seq(Byte)
      /\ Len(SubSeq(s, k + 1, k + n)) = n
      /\ \A i \in 1..n : SubSeq(s, k + 1, k + n)[i] = s[k + i]
  <2>1. \A i \in (k + 1)..(k + n) : s[i] \in Byte
    BY <1>0
  <2>2. /\ SubSeq(s, k + 1, k + n) \in Seq(Byte)
        /\ Len(SubSeq(s, k + 1, k + n)) = IF k + 1 <= k + n THEN (k + n) - (k + 1) + 1 ELSE 0
        /\ \A i \in 1..(k + n) - (k + 1) + 1 :
              SubSeq(s, k + 1, k + n)[i] = s[(k + 1) + i - 1]
    BY <2>1, SubSeqProperties
  <2>3. (k + n) - (k + 1) + 1 = n /\ \A i \in 1..n : (k + 1) + i - 1 = k + i
    OBVIOUS
  <2> QED BY <2>2, <2>3
<1> QED BY <1>1, <1>2, <1>3, <1>4

\* The first n elements of s.
LEMMA Prefix ==
    ASSUME NEW s \in Seq(Byte), NEW n \in Nat, n =< Len(s)
    PROVE  /\ SubSeq(s, 1, n) \in Seq(Byte) /\ Len(SubSeq(s, 1, n)) = n
           /\ \A i \in 1..n : SubSeq(s, 1, n)[i] = s[i]
<1>1. \A i \in 1..n : s[i] \in Byte
  BY LenProperties, ElementOfSeq
<1>2. /\ SubSeq(s, 1, n) \in Seq(Byte)
      /\ Len(SubSeq(s, 1, n)) = IF 1 <= n THEN n - 1 + 1 ELSE 0
      /\ \A i \in 1..n - 1 + 1 : SubSeq(s, 1, n)[i] = s[1 + i - 1]
  BY <1>1, SubSeqProperties
<1>3. n - 1 + 1 = n /\ \A i \in 1..n : 1 + i - 1 = i
  OBVIOUS
<1> QED BY <1>2, <1>3

-----------------------------------------------------------------------------
(* The initial states and the steps of the SDO server.                     *)

\* The initial states satisfy the invariant.
LEMMA InitIInv == Init => IInv
<1> SUFFICES ASSUME Init PROVE IInv
  OBVIOUS
<1>1. TypeOK
  BY EmptySeq, DataMaxAssumption DEF Init, TypeOK, Reads, Writes, NULL, ODR
<1>2. HandleDiscipline /\ Progress /\ ReadExact /\ WriteExact
  BY DEF Init, HandleDiscipline, Progress, ReadExact, WriteExact, Completed, Reads,
         Writes, NULL
<1> QED BY <1>1, <1>2 DEF IInv

\* Opening a stream for a read preserves the invariant.
LEMMA BeginReadStep ==
    ASSUME IInv, NEW k \in Reads, BeginRead(k)
    PROVE  IInv'
<1> USE DEF IInv
<1>1. data \in Seq(Byte) /\ Len(data) = DataMax
  BY ArrayIsSeq DEF TypeOK
<1>2. SubSeq(data, 1, dataLen) \in Seq(Byte)
  BY <1>1, Extend, DataMaxAssumption, 0 + dataLen = dataLen DEF TypeOK
<1>3. SubSeq(data, 1, 0) = <<>> /\ SubSeq(file, 1, 0) = <<>>
  BY SubSeqEmpty
<1>4. TypeOK'
  BY <1>2, EmptySeq DEF TypeOK, BeginRead, Disk, Handle, Reads, Writes, ODR, NULL
<1>5. Progress'
  BY <1>3 DEF TypeOK, BeginRead, Progress, Disk, Handle, Reads, Writes
<1>6. (HandleDiscipline /\ ReadExact /\ WriteExact)'
  BY DEF HandleDiscipline, ReadExact, WriteExact, Completed, BeginRead, Disk, Handle
<1> QED BY <1>4, <1>5, <1>6

\* Opening a stream for a write preserves it, whatever length is indicated.
LEMMA BeginWriteStep ==
    ASSUME IInv, NEW k \in Writes, NEW p \in Payload \ {<<>>}, NEW q \in Payload,
           BeginWrite(k, p, Len(q))
    PROVE  IInv'
<1> USE DEF IInv
<1>1. p \in Seq(Byte) /\ q \in Seq(Byte) /\ Len(q) \in Nat /\ Len(p) \in Nat \ {0}
  BY PayloadAssumption, EmptySeq, LenProperties
<1>2. SubSeq(p, 1, 0) = <<>>
  BY SubSeqEmpty
<1>3. TypeOK'
  BY <1>1, EmptySeq DEF TypeOK, BeginWrite, Disk, Handle, Reads, Writes, ODR, NULL
<1>4. Progress'
  BY <1>1, <1>2 DEF TypeOK, BeginWrite, Progress, Disk, Handle, Reads, Writes
<1>5. (HandleDiscipline /\ ReadExact /\ WriteExact)'
  BY DEF HandleDiscipline, ReadExact, WriteExact, Completed, BeginWrite, Disk, Handle
<1> QED BY <1>3, <1>4, <1>5

\* An abort, and the owner's changes to the file between transfers, preserve it.
LEMMA QuietStep ==
    ASSUME IInv, Abort \/ OwnerRemovesFile \/ \E c \in Payload : OwnerSetsFile(c)
    PROVE  IInv'
<1> USE DEF IInv
<1>1. TypeOK'
  BY PayloadAssumption, EmptySeq
  DEF TypeOK, Abort, OwnerRemovesFile, OwnerSetsFile, Stream, Disk, Handle, ODR, NULL
<1>2. (HandleDiscipline /\ Progress /\ ReadExact /\ WriteExact)'
  BY DEF HandleDiscipline, Progress, ReadExact, WriteExact, Completed, Abort, Reads,
         Writes, OwnerRemovesFile, OwnerSetsFile, Stream, Disk, Handle
<1> QED BY <1>1, <1>2

-----------------------------------------------------------------------------
(* The steps of the four helpers.                                          *)

\* A call of od_ext_read_data preserves the invariant.
LEMMA ReadDataStep ==
    ASSUME IInv, NEW count \in 1..BufLen, od_ext_read_data(count)
    PROVE  IInv'
<1> USE DEF IInv
<1> DEFINE seg == Segment(dataOffset, dataLen, count)
<1>1. data \in Seq(Byte) /\ Len(data) = DataMax
  BY ArrayIsSeq DEF TypeOK
<1>2. /\ dataLen \in Nat /\ dataLen =< DataMax /\ dataOffset \in Nat
      /\ count \in Nat \ {0} /\ dataOffset < dataLen
      /\ src = SubSeq(data, 1, dataLen) /\ moved = SubSeq(data, 1, dataOffset)
  BY DataMaxAssumption, BufLenAssumption DEF TypeOK, Progress, od_ext_read_data
<1>3. /\ seg.ret \in {"OK", "PARTIAL"} /\ seg.n \in Nat /\ seg.off \in Nat
      /\ dataOffset + seg.n =< dataLen
      /\ seg.ret = "OK" => seg.off = 0 /\ dataOffset + seg.n = dataLen
      /\ seg.ret = "PARTIAL" => seg.off = dataOffset + seg.n /\ seg.off < dataLen
  BY <1>2 DEF Segment
<1>4. /\ moved \o SubSeq(data, dataOffset + 1, dataOffset + seg.n)
            = SubSeq(data, 1, dataOffset + seg.n)
      /\ SubSeq(data, 1, dataOffset + seg.n) \in Seq(Byte)
  <2> HIDE DEF seg
  <2>1. dataOffset + seg.n =< Len(data)
    BY <1>1, <1>2, <1>3
  <2>2. /\ SubSeq(data, 1, dataOffset) \o SubSeq(data, dataOffset + 1, dataOffset + seg.n)
              = SubSeq(data, 1, dataOffset + seg.n)
        /\ SubSeq(data, 1, dataOffset + seg.n) \in Seq(Byte)
    BY <1>1, <1>2, <1>3, <2>1, Extend, ZenonT(60)
  <2> QED BY <1>2, <2>2
<1> HIDE DEF seg
<1>5. /\ moved' = SubSeq(data, 1, dataOffset + seg.n)
      /\ ret' = seg.ret /\ active' = (seg.ret = "PARTIAL") /\ kind' = "read_data"
      /\ dataOffset' = seg.off /\ kind = "read_data"
      /\ dataLength' = IF dataOffset = 0 THEN dataLen ELSE dataLength
      /\ UNCHANGED <<data, dataLen, file, exists, fp, handles, src, lost>>
  BY <1>3, <1>4 DEF od_ext_read_data, Answer, From, Writes, Disk, Handle, seg
<1>6. TypeOK'
  BY <1>2, <1>3, <1>4, <1>5 DEF TypeOK, Reads, Writes, ODR
<1>7. Progress'
  BY <1>2, <1>3, <1>5 DEF Progress, Reads, Writes
<1>8. (HandleDiscipline /\ ReadExact /\ WriteExact)'
  BY <1>2, <1>3, <1>5 DEF HandleDiscipline, ReadExact, WriteExact, Completed
<1> QED BY <1>6, <1>7, <1>8

\* A file helper that fails before its first segment preserves it.
LEMMA FileRefusedStep ==
    ASSUME IInv, NEW code \in {"DEV_INCOMPAT", "NO_DATA"}, FileRefused(code),
           dataLength' \in Nat, UNCHANGED <<data, dataLen, file, exists, src, lost>>
    PROVE  IInv'
<1> USE DEF IInv
<1>1. Reopened = 1
  BY DEF Reopened, HandleDiscipline, TypeOK, NULL
<1>2. /\ fp' = NULL /\ handles' = 0 /\ dataOffset' = dataOffset
      /\ moved' = moved /\ kind' = kind
  BY <1>1 DEF FileRefused, Answer
<1>3. ret' \in {"DEV_INCOMPAT", "NO_DATA", "ABORT"} /\ active' \in BOOLEAN /\ ~active'
  BY DEF FileRefused, Answer
<1>4. TypeOK'
  BY <1>2, <1>3 DEF TypeOK, ODR
<1>5. (HandleDiscipline /\ Progress /\ ReadExact /\ WriteExact)'
  BY <1>2, <1>3 DEF HandleDiscipline, Progress, ReadExact, WriteExact, Completed
<1> QED BY <1>4, <1>5

\* A call of od_ext_read_file that reaches its segment preserves it.
LEMMA ReadFileSegmentStep ==
    ASSUME IInv, active, kind = "read_file", NEW count \in 1..BufLen,
           ReadFileSegment(count), UNCHANGED <<data, dataLen, file, exists, src, lost>>
    PROVE  IInv'
<1> USE DEF IInv
<1> DEFINE seg == Segment(dataOffset, Len(file), count)
<1>1. /\ file \in Seq(Byte) /\ Len(file) \in Nat /\ dataOffset \in Nat
      /\ count \in Nat \ {0}
      /\ src = file /\ moved = SubSeq(file, 1, dataOffset)
      /\ dataOffset > 0 => exists /\ dataLength = Len(file) /\ dataOffset < Len(file)
      /\ dataOffset > 0 => fp = dataOffset
  BY LenProperties, BufLenAssumption DEF TypeOK, Progress, HandleDiscipline
<1>2. Held = 1
  BY <1>1 DEF Held, Reopened, HandleDiscipline, TypeOK, NULL
<1>3. dataOffset < Len(file) /\ exists
  BY <1>1, EmptySeq DEF ReadFileSegment
<1>4. /\ seg.ret \in {"OK", "PARTIAL"} /\ seg.n \in Nat /\ seg.off \in Nat
      /\ dataOffset + seg.n =< Len(file)
      /\ seg.ret = "OK" => seg.off = 0 /\ dataOffset + seg.n = Len(file)
      /\ seg.ret = "PARTIAL" => seg.off = dataOffset + seg.n /\ seg.off < Len(file)
  BY <1>1, <1>3 DEF Segment
<1> HIDE DEF seg
<1>5. /\ SubSeq(file, 1, dataOffset) \o SubSeq(file, dataOffset + 1, dataOffset + seg.n)
            = SubSeq(file, 1, dataOffset + seg.n)
      /\ SubSeq(file, 1, dataOffset + seg.n) \in Seq(Byte)
  <2>1. file \in Seq(Byte) /\ dataOffset \in Nat /\ seg.n \in Nat
        /\ dataOffset + seg.n =< Len(file)
    BY <1>1, <1>4
  <2> QED BY ONLY <2>1, Extend, ZenonT(60)
<1>6. /\ dataLength' = Len(file)
      /\ FileMoved(seg, dataOffset + seg.n)
      /\ Answer(seg.ret, moved \o SubSeq(file, dataOffset + 1, dataOffset + seg.n))
  BY <1>1 DEF ReadFileSegment, seg
<1>7. /\ moved' = SubSeq(file, 1, dataOffset + seg.n)
      /\ ret' = seg.ret /\ active' = (seg.ret = "PARTIAL") /\ kind' = kind
  BY <1>1, <1>5, <1>6 DEF Answer, Writes
<1>8. /\ dataOffset' = seg.off
      /\ fp' = IF seg.ret = "PARTIAL" THEN dataOffset + seg.n ELSE NULL
      /\ handles' = IF seg.ret = "PARTIAL" THEN 1 ELSE 0
  BY <1>2, <1>6 DEF FileMoved
<1>9. TypeOK'
  BY <1>1, <1>4, <1>5, <1>6, <1>7, <1>8 DEF TypeOK, ODR, NULL
<1>10. Progress'
  BY <1>1, <1>3, <1>4, <1>6, <1>7, <1>8 DEF Progress, Reads, Writes
<1>11. SubSeq(file, 1, Len(file)) = file
  BY <1>1, SubSeqFull
<1>12. (HandleDiscipline /\ ReadExact /\ WriteExact)'
  BY <1>1, <1>4, <1>7, <1>8, <1>11
  DEF HandleDiscipline, ReadExact, WriteExact, Completed, NULL
<1> QED BY <1>9, <1>10, <1>12

\* A call of od_ext_read_file preserves the invariant.
LEMMA ReadFileStep ==
    ASSUME IInv, NEW count \in 1..BufLen, od_ext_read_file(count)
    PROVE  IInv'
<1>1. active /\ kind = "read_file" /\ UNCHANGED <<data, dataLen, file, exists, src, lost>>
  BY DEF od_ext_read_file, Disk
<1>2. CASE FileRefused("DEV_INCOMPAT") /\ UNCHANGED dataLength
  BY <1>1, <1>2, FileRefusedStep DEF IInv, TypeOK
<1>3. CASE FileRefused("NO_DATA") /\ dataLength' = 0
  BY <1>1, <1>3, FileRefusedStep
<1>4. CASE ReadFileSegment(count)
  BY <1>1, <1>4, ReadFileSegmentStep
<1> QED BY <1>2, <1>3, <1>4 DEF od_ext_read_file

\* The bytes of the payload that a call of a write helper is given: with the
\* ones already moved they are again the start of the payload.
LEMMA WriteChunk ==
    ASSUME IInv, active, kind \in Writes, NEW count \in ChunkSizes
    PROVE  /\ src \in Seq(Byte) /\ Len(src) \in Nat /\ dataOffset \in Nat
           /\ moved = SubSeq(src, 1, dataOffset) /\ dataOffset < Len(src)
           /\ count \in Nat \ {0} /\ dataOffset + count =< Len(src)
           /\ moved \o Chunk(count) = SubSeq(src, 1, dataOffset + count)
           /\ SubSeq(src, 1, dataOffset + count) \in Seq(Byte)
           /\ Len(SubSeq(src, 1, dataOffset + count)) = dataOffset + count
           /\ Chunk(count) \in Seq(Byte) /\ Len(Chunk(count)) = count
           /\ \A i \in 1..count : Chunk(count)[i] = src[dataOffset + i]
           /\ moved \o Chunk(0) = moved
<1> USE DEF IInv
<1>1. /\ src \in Seq(Byte) /\ Len(src) \in Nat /\ dataOffset \in Nat
      /\ moved = SubSeq(src, 1, dataOffset) /\ dataOffset < Len(src)
      /\ moved \in Seq(Byte)
  BY LenProperties DEF TypeOK, Progress
<1>2. Len(moved) = dataOffset
  <2>1. Len(SubSeq(src, 1, dataOffset)) = dataOffset
    BY <1>1, Extend, dataOffset + 0 = dataOffset
  <2> QED BY <1>1, <2>1
<1>3. count \in Nat \ {0} /\ dataOffset + count =< Len(src)
  BY <1>1, <1>2, BufLenAssumption DEF ChunkSizes
<1>4. Chunk(count) = SubSeq(src, dataOffset + 1, dataOffset + count)
  BY <1>2 DEF Chunk
<1>5. /\ SubSeq(src, 1, dataOffset) \o SubSeq(src, dataOffset + 1, dataOffset + count)
            = SubSeq(src, 1, dataOffset + count)
      /\ SubSeq(src, 1, dataOffset + count) \in Seq(Byte)
      /\ SubSeq(src, dataOffset + 1, dataOffset + count) \in Seq(Byte)
      /\ Len(SubSeq(src, dataOffset + 1, dataOffset + count)) = count
      /\ \A i \in 1..count :
            SubSeq(src, dataOffset + 1, dataOffset + count)[i] = src[dataOffset + i]
  <2>1. /\ src \in Seq(Byte) /\ dataOffset \in Nat /\ count \in Nat
        /\ dataOffset + count =< Len(src)
    BY <1>1, <1>3
  <2> HIDE DEF IInv
  <2> QED BY <2>1, Extend, ZenonT(60)
<1>6. Len(SubSeq(src, 1, dataOffset + count)) = dataOffset + count
  <2>1. dataOffset + count \in Nat /\ (dataOffset + count) + 0 =< Len(src)
    BY <1>1, <1>3
  <2> QED BY <1>1, <2>1, Extend, 0 \in Nat, Zenon
<1>7. moved \o Chunk(0) = moved
  <2>1. Chunk(0) = <<>>
    BY <1>1, <1>2, SubSeqEmpty DEF Chunk
  <2> QED BY <1>1, <2>1, ConcatEmptySeq
<1> QED BY <1>1, <1>3, <1>4, <1>5, <1>6, <1>7, Zenon

\* A write helper and its server end a call in one of three ways.
LEMMA WriteAnswer ==
    ASSUME IInv, active, kind \in Writes, NEW count \in ChunkSizes,
           NEW seg, seg.ret \in {"OK", "PARTIAL", "DEV_INCOMPAT", "DATA_LONG"},
           seg.ret \in {"OK", "PARTIAL"} => seg.n = count,
           seg.ret \in {"DEV_INCOMPAT", "DATA_LONG"} => seg.n = 0,
           Answer(seg.ret, moved \o Chunk(seg.n))
    PROVE  /\ moved' \in Seq(Byte) /\ active' \in BOOLEAN /\ kind' = kind
           /\ ret' \in {"OK", "PARTIAL", "DEV_INCOMPAT", "DATA_LONG", "ABORT"}
           /\ active' => /\ seg.ret = "PARTIAL" /\ ret' = "PARTIAL"
                         /\ dataOffset + count < Len(src)
                         /\ moved' = SubSeq(src, 1, dataOffset + count)
           /\ ret' = "OK" => /\ seg.ret = "OK" /\ ~active'
                             /\ dataOffset + count = Len(src)
                             /\ moved' = SubSeq(src, 1, dataOffset + count)
<1>1. /\ moved \o Chunk(count) = SubSeq(src, 1, dataOffset + count)
      /\ SubSeq(src, 1, dataOffset + count) \in Seq(Byte)
      /\ Len(SubSeq(src, 1, dataOffset + count)) = dataOffset + count
      /\ moved \o Chunk(0) = moved /\ dataOffset + count =< Len(src)
      /\ dataOffset \in Nat /\ count \in Nat /\ Len(src) \in Nat
  BY WriteChunk
<1>2. moved \in Seq(Byte)
  BY DEF IInv, TypeOK
<1>3. CASE seg.ret \in {"OK", "PARTIAL"}
  <2>1. moved \o Chunk(seg.n) = SubSeq(src, 1, dataOffset + count)
    BY <1>1, <1>3
  <2> DEFINE start == SubSeq(src, 1, dataOffset + count)
  <2>2. start \in Seq(Byte) /\ Len(start) = dataOffset + count
    BY <1>1
  <2>3. Answer(seg.ret, start)
    BY <2>1
  <2> HIDE DEF start
  <2>4. CASE seg.ret = "PARTIAL" /\ dataOffset + count # Len(src)
    <3>1. moved' = start /\ kind' = kind /\ ret' = "PARTIAL" /\ active' = TRUE
      BY <2>2, <2>3, <2>4 DEF Answer
    <3> QED BY <1>1, <2>2, <2>4, <3>1 DEF start
  <2>5. CASE seg.ret = "OK" /\ dataOffset + count = Len(src)
    <3>1. moved' = start /\ kind' = kind /\ ret' = "OK" /\ active' = FALSE
      BY <2>2, <2>3, <2>5 DEF Answer
    <3> QED BY <1>1, <2>2, <2>5, <3>1 DEF start
  <2>6. CASE \/ seg.ret = "PARTIAL" /\ dataOffset + count = Len(src)
             \/ seg.ret = "OK" /\ dataOffset + count # Len(src)
    <3>1. moved' = start /\ kind' = kind /\ ret' = "ABORT" /\ active' = FALSE
      BY <2>2, <2>3, <2>6 DEF Answer
    <3> QED BY <2>2, <3>1
  <2> QED BY <1>3, <2>4, <2>5, <2>6
<1>4. CASE seg.ret \in {"DEV_INCOMPAT", "DATA_LONG"}
  <2>1. moved \o Chunk(seg.n) = moved
    BY <1>1, <1>4
  <2> QED BY <1>2, <1>4, <2>1 DEF Answer
<1> QED BY <1>3, <1>4

\* A call of od_ext_write_data preserves the invariant.
LEMMA WriteDataStep ==
    ASSUME IInv, NEW count \in ChunkSizes, od_ext_write_data(count)
    PROVE  IInv'
<1> USE DEF IInv
<1> DEFINE seg == IF TooLong
                    THEN [ret |-> "DEV_INCOMPAT", n |-> 0, off |-> dataOffset]
                    ELSE WriteSegment(dataOffset, dataLength, count)
<1>1. active /\ kind = "write_data" /\ kind \in Writes /\ kind \notin Reads
  BY DEF od_ext_write_data, Reads, Writes
<1>2. /\ src \in Seq(Byte) /\ Len(src) \in Nat /\ dataOffset \in Nat
      /\ count \in Nat \ {0} /\ dataOffset + count =< Len(src)
      /\ Chunk(count) \in Seq(Byte) /\ Len(Chunk(count)) = count
      /\ \A i \in 1..count : Chunk(count)[i] = src[dataOffset + i]
  BY <1>1, WriteChunk
<1>3. /\ dataLength \in Nat /\ DataMax \in Nat /\ data \in [1..DataMax -> Byte]
      /\ \A i \in 1..dataOffset : data[i] = src[i]
  BY <1>1, DataMaxAssumption DEF TypeOK, Progress
<1>4. /\ seg.ret \in {"OK", "PARTIAL", "DEV_INCOMPAT", "DATA_LONG"} /\ seg.off \in Nat
      /\ seg.ret \in {"OK", "PARTIAL"} => /\ seg.n = count /\ dataLength =< DataMax
                                          /\ dataOffset + count =< dataLength
      /\ seg.ret = "OK" => dataOffset + count = dataLength
      /\ seg.ret = "PARTIAL" => seg.off = dataOffset + count /\ seg.off < dataLength
      /\ seg.ret \in {"DEV_INCOMPAT", "DATA_LONG"} => seg.n = 0
  BY <1>2, <1>3 DEF WriteSegment, Segment, TooLong
<1>5. /\ dataOffset' = seg.off
      /\ data' = IF seg.ret \in {"OK", "PARTIAL"}
                   THEN Overwrite(data, dataOffset, Chunk(seg.n)) ELSE data
      /\ Answer(seg.ret, moved \o Chunk(seg.n))
      /\ UNCHANGED <<dataLength, dataLen, file, exists, fp, handles, src, lost>>
  BY DEF od_ext_write_data, From, Disk, Handle, seg
<1> HIDE DEF seg
<1>6. /\ moved' \in Seq(Byte) /\ active' \in BOOLEAN /\ kind' = kind
      /\ ret' \in {"OK", "PARTIAL", "DEV_INCOMPAT", "DATA_LONG", "ABORT"}
      /\ active' => /\ seg.ret = "PARTIAL" /\ ret' = "PARTIAL"
                    /\ dataOffset + count < Len(src)
                    /\ moved' = SubSeq(src, 1, dataOffset + count)
      /\ ret' = "OK" => /\ seg.ret = "OK" /\ ~active'
                        /\ dataOffset + count = Len(src)
  BY <1>1, <1>4, <1>5, WriteAnswer
<1>7. /\ data' \in [1..DataMax -> Byte]
      /\ seg.ret \in {"OK", "PARTIAL"} => \A i \in 1..(dataOffset + count) : data'[i] = src[i]
  <2>1. CASE seg.ret \in {"OK", "PARTIAL"}
    <3>0. 1..DataMax \union ((dataOffset + 1)..(dataOffset + count)) = 1..DataMax
      BY <1>2, <1>3, <1>4, <2>1
    <3>1. data' = [i \in 1..DataMax |->
                     IF i > dataOffset /\ i =< dataOffset + count
                       THEN Chunk(count)[i - dataOffset] ELSE data[i]]
      BY <1>2, <1>3, <1>4, <1>5, <2>1, <3>0 DEF Overwrite
    <3>2. \A i \in 1..DataMax : i > dataOffset /\ i =< dataOffset + count =>
             /\ i - dataOffset \in 1..count
             /\ Chunk(count)[i - dataOffset] = src[i]
      BY <1>2, <1>3
    <3>3. \A i \in 1..Len(src) : src[i] \in Byte
      BY <1>2, ElementOfSeq
    <3>4. data' \in [1..DataMax -> Byte]
      BY <1>2, <1>3, <3>1, <3>2, <3>3
    <3>5. dataOffset + count =< DataMax
      BY <1>2, <1>3, <1>4, <2>1
    <3>6. ASSUME NEW i \in 1..(dataOffset + count)
          PROVE  data'[i] = src[i]
      <4>1. i \in 1..DataMax
        BY <1>2, <1>3, <3>5
      <4>2. CASE i > dataOffset
        BY <1>2, <3>1, <3>2, <4>1, <4>2
      <4>3. CASE i =< dataOffset
        BY <1>2, <1>3, <3>1, <4>1, <4>3
      <4> QED BY <1>2, <4>2, <4>3
    <3> QED BY <3>4, <3>6
  <2>2. CASE seg.ret \notin {"OK", "PARTIAL"}
    BY <1>3, <1>5, <2>2
  <2> QED BY <2>1, <2>2
<1>8. TypeOK'
  BY <1>1, <1>4, <1>5, <1>6, <1>7 DEF TypeOK, ODR
<1>9. Progress'
  BY <1>1, <1>2, <1>3, <1>4, <1>5, <1>6, <1>7 DEF Progress, Writes
<1>10. ret' = "OK" => SubSeq(data', 1, Len(src)) = src
  <2> SUFFICES ASSUME ret' = "OK" PROVE SubSeq(data', 1, Len(src)) = src
    OBVIOUS
  <2>1. Len(src) =< DataMax /\ \A i \in 1..Len(src) : data'[i] = src[i]
    BY <1>3, <1>4, <1>6, <1>7
  <2>2. data' \in Seq(Byte) /\ Len(data') = DataMax
    BY <1>7, ArrayIsSeq
  <2>3. /\ SubSeq(data', 1, Len(src)) \in Seq(Byte)
        /\ Len(SubSeq(data', 1, Len(src))) = Len(src)
        /\ \A i \in 1..Len(src) : SubSeq(data', 1, Len(src))[i] = data'[i]
    BY <1>2, <2>1, <2>2, Prefix
  <2> QED BY <1>2, <2>1, <2>3, SeqEqual
<1>11. (HandleDiscipline /\ ReadExact /\ WriteExact)'
  BY <1>1, <1>2, <1>4, <1>5, <1>6, <1>10
  DEF HandleDiscipline, ReadExact, WriteExact, Completed
<1> QED BY <1>8, <1>9, <1>11

\* What is on the disk after a call of fwrite that stores the first stored
\* bytes of a chunk.
LEMMA StoredStep ==
    ASSUME NEW b \in Seq(Byte), NEW c \in Seq(Byte), NEW stored \in 0..Len(c)
    PROVE  /\ b \o SubSeq(c, 1, stored) \in Seq(Byte)
           /\ Len(b \o SubSeq(c, 1, stored)) = Len(b) + stored
           /\ stored = Len(c) => b \o SubSeq(c, 1, stored) = b \o c
<1>1. /\ SubSeq(c, 1, stored) \in Seq(Byte) /\ Len(SubSeq(c, 1, stored)) = stored
  BY Prefix, LenProperties
<1>2. SubSeq(c, 1, Len(c)) = c
  BY SubSeqFull
<1> QED BY <1>1, <1>2, ConcatProperties

\* A call of od_ext_write_file that reaches its segment preserves the
\* invariant, however many bytes the disk takes.
LEMMA WriteFileSegmentStep ==
    ASSUME IInv, active, kind = "write_file", NEW count \in ChunkSizes,
           NEW stored \in 0..count,
           WriteFileSegment(count, stored), UNCHANGED <<dataLength, data, dataLen, src>>
    PROVE  IInv'
<1> USE DEF IInv
<1> DEFINE seg == WriteSegment(dataOffset, dataLength, count)
           base == IF dataOffset = 0 THEN <<>> ELSE file
           written == IF seg.n = 0 THEN base ELSE base \o SubSeq(Chunk(seg.n), 1, stored)
<1>1. kind \in Writes /\ kind \notin Reads
  BY DEF Reads, Writes
<1>2. /\ src \in Seq(Byte) /\ Len(src) \in Nat /\ dataOffset \in Nat
      /\ moved = SubSeq(src, 1, dataOffset)
      /\ count \in Nat \ {0} /\ dataOffset + count =< Len(src)
      /\ Chunk(count) \in Seq(Byte) /\ Len(Chunk(count)) = count
      /\ moved \o Chunk(count) = SubSeq(src, 1, dataOffset + count)
  BY <1>1, WriteChunk
<1>3. /\ dataLength \in Nat /\ lost \in Nat
      /\ dataOffset = 0 => lost = 0
      /\ dataOffset > 0 => exists /\ Stored(file, lost, dataOffset)
      /\ moved \in Seq(Byte) /\ file \in Seq(Byte)
  BY <1>1 DEF TypeOK, Progress
<1>4. base \in Seq(Byte) /\ Len(base) \in Nat
  BY <1>3, EmptySeq, LenProperties
<1>4a. Stored(base, lost, dataOffset)
  <2>1. SubSeq(src, 1, 0) = <<>> /\ Len(<<>>) = 0
    BY SubSeqEmpty, EmptySeq
  <2>2. CASE dataOffset = 0
    BY <1>3, <2>1, <2>2 DEF Stored
  <2>3. CASE dataOffset # 0
    BY <1>2, <1>3, <2>3 DEF Stored
  <2> QED BY <2>2, <2>3
<1>5. Held = 1
  BY <1>2 DEF Held, Reopened, HandleDiscipline, TypeOK, NULL
<1>6. /\ seg.ret \in {"OK", "PARTIAL", "DEV_INCOMPAT", "DATA_LONG"}
      /\ seg.off \in Nat /\ seg.n \in Nat
      /\ seg.ret \in {"OK", "PARTIAL"} => seg.n = count
      /\ seg.ret = "PARTIAL" => seg.off = dataOffset + count /\ seg.off < dataLength
      /\ seg.ret \in {"DEV_INCOMPAT", "DATA_LONG"} => seg.n = 0
  BY <1>2, <1>3 DEF WriteSegment, Segment
<1>7. /\ exists' = TRUE /\ file' = written
      /\ lost' = lost + (IF seg.n = 0 THEN 0 ELSE seg.n - stored)
      /\ FileMoved(seg, Len(written))
      /\ Answer(seg.ret, moved \o Chunk(seg.n))
  BY DEF WriteFileSegment, seg, base, written
<1> HIDE DEF seg, base
<1>8. /\ written \in Seq(Byte) /\ Len(written) \in Nat
      /\ lost' \in Nat
      /\ seg.ret \in {"OK", "PARTIAL"} => Stored(file', lost', dataOffset + count)
  <2>1. CASE seg.n = 0
    BY <1>2, <1>3, <1>4, <1>6, <1>7, <2>1
  <2>2. CASE seg.n # 0
    <3>1. seg.n = count /\ written = base \o SubSeq(Chunk(count), 1, stored)
      BY <1>6, <2>2
    <3>2. /\ written \in Seq(Byte) /\ Len(written) = Len(base) + stored
          /\ stored = count => written = base \o Chunk(count)
      <4> HIDE DEF written
      <4>1. /\ base \in Seq(Byte) /\ Chunk(count) \in Seq(Byte)
            /\ stored \in 0..Len(Chunk(count))
        BY <1>2, <1>4
      <4>2. /\ base \o SubSeq(Chunk(count), 1, stored) \in Seq(Byte)
            /\ Len(base \o SubSeq(Chunk(count), 1, stored)) = Len(base) + stored
            /\ stored = Len(Chunk(count)) =>
                  base \o SubSeq(Chunk(count), 1, stored) = base \o Chunk(count)
        BY <4>1, StoredStep, Zenon
      <4> QED BY <1>2, <3>1, <4>2
    <3>3. lost' = lost + (count - stored)
      BY <1>2, <1>7, <2>2, <3>1
    <3>4. Len(written) + lost' = dataOffset + count /\ lost' \in Nat
      <4> HIDE DEF written
      <4>1. Len(base) + lost = dataOffset
        BY <1>4a DEF Stored
      <4>2. stored \in Nat /\ stored =< count /\ count \in Nat /\ lost \in Nat
            /\ dataOffset \in Nat /\ Len(base) \in Nat
        BY <1>2, <1>3, <1>4
      <4>3. count - stored \in Nat
        BY <4>2
      <4>4. Len(written) = Len(base) + stored
        BY <3>2
      <4> HIDE DEF IInv
      <4> QED BY ONLY <3>3, <4>1, <4>2, <4>3, <4>4
    <3>5. ASSUME lost' = 0 PROVE written = SubSeq(src, 1, dataOffset + count)
      <4>1. lost = 0 /\ stored = count
        BY <1>2, <1>3, <3>3, <3>5
      <4> QED BY <1>2, <1>4a, <3>2, <4>1 DEF Stored
    <3> HIDE DEF written
    <3>6. Stored(file', lost', dataOffset + count)
      BY <1>7, <3>4, <3>5 DEF Stored
    <3> QED BY <1>4, <3>2, <3>4, <3>6, LenProperties
  <2> QED BY <2>1, <2>2
<1>9. /\ moved' \in Seq(Byte) /\ active' \in BOOLEAN /\ kind' = kind
      /\ ret' \in {"OK", "PARTIAL", "DEV_INCOMPAT", "DATA_LONG", "ABORT"}
      /\ active' => /\ seg.ret = "PARTIAL" /\ ret' = "PARTIAL"
                    /\ dataOffset + count < Len(src)
                    /\ moved' = SubSeq(src, 1, dataOffset + count)
      /\ ret' = "OK" => /\ seg.ret = "OK" /\ ~active'
                        /\ dataOffset + count = Len(src)
  BY <1>1, <1>6, <1>7, WriteAnswer
<1> HIDE DEF written
<1>10. /\ dataOffset' = seg.off
       /\ fp' = IF seg.ret = "PARTIAL" THEN Len(written) ELSE NULL
       /\ handles' = IF seg.ret = "PARTIAL" THEN 1 ELSE 0
  BY <1>5, <1>7 DEF FileMoved
<1>11. TypeOK'
  BY <1>2, <1>6, <1>7, <1>8, <1>9, <1>10 DEF TypeOK, ODR, NULL
<1>12. Progress'
  <2>1. active' => Stored(file', lost', dataOffset') /\ dataOffset' > 0
    <3> SUFFICES ASSUME active' PROVE Stored(file', lost', dataOffset') /\ dataOffset' > 0
      OBVIOUS
    <3>1. dataOffset' = dataOffset + count /\ Stored(file', lost', dataOffset + count)
      BY <1>6, <1>8, <1>9, <1>10
    <3> QED BY <1>2, <3>1 DEF Stored
  <2>2. (kind = "write_file" /\ kind \in Reads \union Writes)'
    BY <1>9 DEF Reads, Writes
  <2>3. active' => /\ moved' = SubSeq(src, 1, dataOffset')
                   /\ dataOffset' < Len(src) /\ dataOffset' < dataLength
    BY <1>6, <1>9, <1>10
  <2> HIDE DEF written
  <2> QED BY <1>7, <2>1, <2>2, <2>3 DEF Progress, Writes, Stored
<1>13. SubSeq(src, 1, Len(src)) = src
  BY <1>2, SubSeqFull
<1>14. HandleDiscipline'
  <2>1. /\ handles' = (IF fp' = NULL THEN 0 ELSE 1)
        /\ active' => fp' = Len(file')
    BY <1>2, <1>6, <1>7, <1>8, <1>9, <1>10 DEF NULL
  <2>2. ret' = "OK" => fp' = NULL
    BY <1>9, <1>10
  <2> QED BY <1>9, <2>1, <2>2 DEF HandleDiscipline, Completed
<1>15. ReadExact' /\ WriteExact'
  <2>1. ret' = "OK" => /\ exists' /\ Len(file') + lost' = Len(src)
                       /\ lost' = 0 => file' = src
    BY <1>7, <1>8, <1>9, <1>13 DEF Stored
  <2> QED BY <1>1, <1>9, <2>1 DEF ReadExact, WriteExact, Completed
<1> QED BY <1>11, <1>12, <1>14, <1>15

\* A call of od_ext_write_file preserves the invariant, whether or not fopen
\* succeeds.
LEMMA WriteFileStep ==
    ASSUME IInv, NEW count \in ChunkSizes, NEW openable \in BOOLEAN,
           NEW stored \in 0..count, od_ext_write_file(count, openable, stored)
    PROVE  IInv'
<1>1. active /\ kind = "write_file" /\ UNCHANGED <<dataLength, data, dataLen, src>>
  BY DEF od_ext_write_file
<1>2. CASE FileRefused("DEV_INCOMPAT") /\ UNCHANGED <<Disk, lost>>
  BY <1>1, <1>2, FileRefusedStep DEF IInv, TypeOK, Disk
<1>3. CASE WriteFileSegment(count, stored)
  BY <1>1, <1>3, WriteFileSegmentStep
<1> QED BY <1>2, <1>3 DEF od_ext_write_file

-----------------------------------------------------------------------------
(* The invariant is inductive, and what follows from it.                   *)

\* Every step of the specification preserves IInv.
LEMMA NextIInv == IInv /\ [Next]_vars => IInv'
<1> SUFFICES ASSUME IInv, [Next]_vars PROVE IInv'
  OBVIOUS
<1>1. CASE \E k \in Reads : BeginRead(k)
  BY <1>1, BeginReadStep
<1>2. CASE \E k \in Writes, p \in Payload \ {<<>>}, n \in {Len(q) : q \in Payload} :
              BeginWrite(k, p, n)
  <2>1. PICK k \in Writes, p \in Payload \ {<<>>}, n \in {Len(q) : q \in Payload} :
              BeginWrite(k, p, n)
    BY <1>2
  <2>2. PICK q \in Payload : n = Len(q)
    OBVIOUS
  <2> QED BY <2>1, <2>2, BeginWriteStep
<1>3. CASE Abort \/ OwnerRemovesFile \/ \E content \in Payload : OwnerSetsFile(content)
  BY <1>3, QuietStep
<1>4. CASE \E count \in 1..BufLen : od_ext_read_data(count)
  BY <1>4, ReadDataStep
<1>5. CASE \E count \in 1..BufLen : od_ext_read_file(count)
  BY <1>5, ReadFileStep
<1>6. CASE \E count \in ChunkSizes : od_ext_write_data(count)
  BY <1>6, WriteDataStep
<1>7. CASE \E count \in ChunkSizes, openable \in BOOLEAN :
              \E stored \in 0..count : od_ext_write_file(count, openable, stored)
  BY <1>7, WriteFileStep
<1>8. CASE UNCHANGED vars
  BY <1>8 DEF vars, IInv, TypeOK, HandleDiscipline, Progress, ReadExact, WriteExact,
              Completed, Stored
<1> QED BY <1>1, <1>2, <1>3, <1>4, <1>5, <1>6, <1>7, <1>8 DEF Next

\* The inductive invariant holds in every reachable state, for every buffer
\* size, array length and set of payloads.
THEOREM Invariance == Spec => []IInv
BY InitIInv, NextIInv, PTL DEF Spec

\* The variables keep their types: in particular memcpy of od_ext_write_data
\* stays within the array, whatever length the client indicates.
THEOREM TypeCorrect == Spec => []TypeOK
<1>1. IInv => TypeOK
  BY DEF IInv
<1> QED BY <1>1, Invariance, PTL

\* A segmented read that ends with ODR_OK handed out exactly the object,
\* however the segments were cut and whatever was aborted before.
THEOREM ReadsAreExact == Spec => []ReadExact
<1>1. IInv => ReadExact
  BY DEF IInv
<1> QED BY <1>1, Invariance, PTL

\* A segmented write that ends with ODR_OK stored exactly the payload in the
\* array, and in a file exactly when the disk took every byte.
THEOREM WritesAreExact == Spec => []WriteExact
<1>1. IInv => WriteExact
  BY DEF IInv
<1> QED BY <1>1, Invariance, PTL

\* At most one FILE is open, it is the one fp names, and no later segment of
\* a file transfer meets a NULL fp.
THEOREM HandlesAreDisciplined == Spec => []HandleDiscipline
<1>1. IInv => HandleDiscipline
  BY DEF IInv
<1> QED BY <1>1, Invariance, PTL
=============================================================================

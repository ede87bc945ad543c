-------------------------- MODULE SdoClientProofs --------------------------
(***************************************************************************)
(* Proofs about SdoClient, for every object, FIFO, buffer and segment      *)
(* size: the blocking transfers implement SdoTransfer.                     *)
(*                                                                         *)
(* The inductive invariant describes the bytes in flight.  An upload whose *)
(* caller takes everything leaves the FIFO empty after every turn, with    *)
(* each byte in its place or among those that the disk lost.  In a         *)
(* download, what the node has received and what is in the FIFO are        *)
(* consecutive parts of one stream: the data, followed by garbage.         *)
(***************************************************************************)
EXTENDS SdoClient, SequenceTheorems, TLAPS

\* What a download would put on the bus if nobody stopped it.
Stream(i) == IF i <= Len(obj) THEN obj[i] ELSE Garbage

\* The function transfers the content in whole.
TakesAll == op # "sdo_read" \/ Len(obj) <= BufLen

Buffers == fifo \in Seq(Byte \union {Garbage}) /\ buf \in Seq(Byte \union {Garbage})

UploadProgress ==
    busy /\ op \in Uploads =>
        /\ offset = Len(buf) + lost /\ tran = offset + Len(fifo)
        /\ op # "sdo_read_to_file" => lost = 0
        /\ TakesAll => fifo = <<>> /\ (lost = 0 => buf = SubSeq(obj, 1, tran))

DownloadProgress ==
    busy /\ op \in Downloads =>
        /\ lost = 0 /\ tran = Len(buf) /\ offset = Len(buf) + Len(fifo)
        /\ \A i \in 1..Len(buf) : buf[i] = Stream(i)
        /\ \A i \in 1..Len(fifo) : fifo[i] = Stream(tran + i)
        /\ Len(obj) <= FifoLen => offset \in {0, Len(obj)}

IInv == TypeOK /\ Buffers /\ UploadProgress /\ DownloadProgress

-----------------------------------------------------------------------------
(* Parts of sequences.                                                     *)

\* n elements after the first k.
LEMMA Slice ==
    ASSUME NEW S, NEW s \in Seq(S), NEW k \in Nat, NEW n \in Nat, k + n =< Len(s)
    PROVE  /\ SubSeq(s, k + 1, k + n) \in Seq(S)
           /\ Len(SubSeq(s, k + 1, k + n)) = n
           /\ \A i \in 1..n : SubSeq(s, k + 1, k + n)[i] = s[k + i]
<1>1. \A i \in (k + 1)..(k + n) : s[i] \in S
  BY LenProperties, ElementOfSeq
<1>2. /\ SubSeq(s, k + 1, k + n) \in Seq(S)
      /\ Len(SubSeq(s, k + 1, k + n)) = IF k + 1 <= k + n THEN (k + n) - (k + 1) + 1 ELSE 0
      /\ \A i \in 1..(k + n) - (k + 1) + 1 : SubSeq(s, k + 1, k + n)[i] = s[(k + 1) + i - 1]
  BY <1>1, SubSeqProperties
<1>3. (k + n) - (k + 1) + 1 = n /\ \A i \in 1..n : (k + 1) + i - 1 = k + i
  OBVIOUS
<1> QED BY <1>2, <1>3

\* A sequence cut in two.
LEMMA Cut ==
    ASSUME NEW S, NEW s \in Seq(S), NEW k \in Nat, k =< Len(s)
    PROVE  /\ SubSeq(s, 1, k) \in Seq(S) /\ Len(SubSeq(s, 1, k)) = k
           /\ \A i \in 1..k : SubSeq(s, 1, k)[i] = s[i]
           /\ SubSeq(s, k + 1, Len(s)) \in Seq(S) /\ Len(SubSeq(s, k + 1, Len(s))) = Len(s) - k
           /\ \A i \in 1..(Len(s) - k) : SubSeq(s, k + 1, Len(s))[i] = s[k + i]
<1>1. 0 + k =< Len(s) /\ 0 + k = k /\ 0 + 1 = 1 /\ Len(s) \in Nat
  BY LenProperties
<1>2. /\ SubSeq(s, 1, k) \in Seq(S) /\ Len(SubSeq(s, 1, k)) = k
      /\ \A i \in 1..k : SubSeq(s, 1, k)[i] = s[i]
  <2>1. /\ SubSeq(s, 0 + 1, 0 + k) \in Seq(S) /\ Len(SubSeq(s, 0 + 1, 0 + k)) = k
        /\ \A i \in 1..k : SubSeq(s, 0 + 1, 0 + k)[i] = s[0 + i]
    BY <1>1, Slice, 0 \in Nat
  <2> QED BY <1>1, <2>1
<1>3. Len(s) - k \in Nat /\ k + (Len(s) - k) = Len(s)
  BY <1>1
<1>4. /\ SubSeq(s, k + 1, k + (Len(s) - k)) \in Seq(S)
      /\ Len(SubSeq(s, k + 1, k + (Len(s) - k))) = Len(s) - k
      /\ \A i \in 1..(Len(s) - k) : SubSeq(s, k + 1, k + (Len(s) - k))[i] = s[k + i]
  <2>1. k + (Len(s) - k) =< Len(s)
    BY <1>1, <1>3
  <2> QED BY <1>3, <2>1, Slice, Zenon
<1> QED BY <1>2, <1>3, <1>4

LEMMA Extend ==
    ASSUME NEW S, NEW s \in Seq(S), NEW k \in Nat, NEW n \in Nat, k + n =< Len(s)
    PROVE  SubSeq(s, 1, k) \o SubSeq(s, k + 1, k + n) = SubSeq(s, 1, k + n)
<1>1. 1 \in 1..Len(s) + 1 /\ k \in 1 - 1..Len(s) /\ k + n \in k..Len(s)
  BY LenProperties
<1> QED BY <1>1, ConcatAdjacentSubSeq, Zenon

\* The objects are sequences of bytes.
LEMMA Objects ==
    ASSUME TypeOK
    PROVE  /\ obj \in Seq(Byte) /\ Len(obj) \in Nat
           /\ tran \in Nat /\ tran =< Len(obj) /\ offset \in Nat
           /\ FifoLen \in Nat \ {0} /\ BufLen \in Nat \ {0} /\ SegLen \in Nat \ {0}
           /\ Timeout \in Nat \ {0} /\ Len(fifo) =< FifoLen
<1>1. obj \in Seq(Byte) /\ Len(obj) \in Nat
  BY ObjectAssumption, EmptySeq, LenProperties DEF TypeOK
<1> QED BY <1>1, LenAssumption DEF TypeOK

-----------------------------------------------------------------------------
(* The invariant is inductive.                                             *)

LEMMA InitIInv == Init => IInv
<1> SUFFICES ASSUME Init PROVE IInv
  OBVIOUS
<1>1. TypeOK
  <2>1. Len(<<>>) = 0
    BY EmptySeq
  <2>2. /\ op \in Uploads \union Downloads /\ busy \in BOOLEAN /\ leaked \in BOOLEAN
        /\ obj \in Object \union {<<>>} /\ code = "GENERAL"
    BY DEF Init, Uploads, Downloads
  <2>3. Len(fifo) = 0 /\ Len(obj) = 0 /\ tran = 0 /\ offset = 0 /\ lost = 0 /\ timer = 0
    BY <2>1 DEF Init
  <2> QED BY <2>2, <2>3, LenAssumption DEF TypeOK
<1>2. Buffers /\ UploadProgress /\ DownloadProgress
  BY EmptySeq DEF Init, Buffers, UploadProgress, DownloadProgress
<1> QED BY <1>1, <1>2 DEF IInv

LEMMA BeginStep ==
    ASSUME IInv, NEW f \in Uploads \union Downloads, NEW o \in Object, Begin(f, o)
    PROVE  IInv'
<1>1. o \in Seq(Byte) /\ Len(o) \in Nat /\ SubSeq(o, 1, 0) = <<>> /\ Len(<<>>) = 0
  BY ObjectAssumption, LenProperties, SubSeqEmpty, EmptySeq
<1>2. TypeOK'
  BY <1>1, LenAssumption DEF IInv, TypeOK, Begin
<1>3. Buffers'
  BY EmptySeq DEF Buffers, Begin
<1>4. UploadProgress' /\ DownloadProgress'
  BY <1>1 DEF UploadProgress, DownloadProgress, Begin, Uploads, Downloads
<1> QED BY <1>2, <1>3, <1>4 DEF IInv

LEMMA BeginFailsStep ==
    ASSUME IInv, NEW f \in Uploads \union Downloads, NEW i \in BOOLEAN, BeginFails(f, i)
    PROVE  IInv'
<1>1. TypeOK'
  BY LenAssumption, EmptySeq DEF IInv, TypeOK, BeginFails
<1>2. Buffers'
  BY EmptySeq DEF Buffers, BeginFails
<1>3. UploadProgress' /\ DownloadProgress'
  BY DEF UploadProgress, DownloadProgress, BeginFails
<1> QED BY <1>1, <1>2, <1>3 DEF IInv

LEMMA AbortedStep ==
    ASSUME IInv, NEW c \in {"REMOTE", "TIMEOUT"}, Aborted(c)
    PROVE  IInv'
<1>1. TypeOK'
  <2>1. leaked' \in BOOLEAN
    BY DEF Aborted
  <2> QED BY <2>1 DEF IInv, TypeOK, Aborted, Ended
<1>2. Buffers' /\ UploadProgress' /\ DownloadProgress'
  BY DEF IInv, Buffers, UploadProgress, DownloadProgress, Aborted, Ended
<1> QED BY <1>1, <1>2 DEF IInv

\* The timer and the outcome of a turn, and of an end.
LEMMA TurnTimer ==
    ASSUME TypeOK, NEW n \in Nat, Clocked(n), UNCHANGED <<busy, code>>
    PROVE  timer' \in 0..Timeout
BY LenAssumption DEF TypeOK, Clocked, Elapsed

\* What one call of the client and the function move in an upload.
LEMMA UploadMovesStep ==
    ASSUME IInv, NEW n \in Received, UploadMoves(n),
           timer' \in 0..Timeout, busy' \in BOOLEAN, code' \in {"NONE", code}
    PROVE  /\ IInv'
           /\ TakesAll => Len(buf') + lost' = tran + n
           /\ TakesAll /\ lost' = 0 => buf' = SubSeq(obj, 1, tran + n)
           /\ lost' = 0 \/ op = "sdo_read_to_file"
<1> DEFINE full == fifo \o SubSeq(obj, tran + 1, tran + n)
           count == Least(Len(full), ReadCount(tran + n))
           BS == Byte \union {Garbage}
<1>1. /\ busy /\ op \in Uploads /\ op \notin Downloads
      /\ offset = Len(buf) + lost /\ tran = offset + Len(fifo) /\ lost \in Nat
      /\ op # "sdo_read_to_file" => lost = 0
      /\ TakesAll => fifo = <<>> /\ (lost = 0 => buf = SubSeq(obj, 1, tran))
      /\ fifo \in Seq(BS) /\ buf \in Seq(BS) /\ Len(fifo) \in Nat /\ Len(buf) \in Nat
  BY LenProperties DEF UploadMoves, IInv, TypeOK, UploadProgress, Buffers, Uploads, Downloads
<1>2. /\ obj \in Seq(Byte) /\ Len(obj) \in Nat /\ tran \in Nat /\ n \in Nat
      /\ FifoLen \in Nat \ {0} /\ BufLen \in Nat \ {0}
      /\ tran + n =< Len(obj) /\ Len(fifo) + n =< FifoLen
  BY Objects DEF IInv, Received, Least
<1>3. SubSeq(obj, tran + 1, tran + n) \in Seq(Byte) /\ Len(SubSeq(obj, tran + 1, tran + n)) = n
  BY <1>2, Slice
<1>4. full \in Seq(BS) /\ Len(full) = Len(fifo) + n
  <2>1. SubSeq(obj, tran + 1, tran + n) \in Seq(BS)
    BY <1>3, SeqMonotonic
  <2> QED BY <1>1, <1>3, <2>1, ConcatProperties
<1>5. PICK stored \in Stored(count) :
        /\ buf' = buf \o SubSeq(full, 1, stored) /\ lost' = lost + (count - stored)
        /\ tran' = tran + n
        /\ offset' = offset + count /\ fifo' = SubSeq(full, count + 1, Len(full))
        /\ UNCHANGED <<op, obj, leaked>>
  BY DEF UploadMoves
<1>6. count \in Nat /\ count =< Len(full)
  <2>1. ReadCount(tran + n) \in Nat
    BY <1>1, <1>2 DEF ReadCount, Uploads
  <2> QED BY <1>1, <1>2, <1>4, <2>1 DEF Least
<1>7. TakesAll => count = Len(full)
  <2>1. Len(full) =< tran + n /\ Len(full) =< Len(obj) /\ Len(full) =< FifoLen
    BY <1>1, <1>2, <1>4
  <2>2. TakesAll => Len(full) =< ReadCount(tran + n)
    <3>1. op \in Uploads /\ Len(full) \in Nat
      BY <1>1, <1>2, <1>4
    <3> HIDE DEF full
    <3> QED BY <1>2, <2>1, <3>1 DEF TakesAll, ReadCount, Uploads
  <2>3. Len(full) \in Nat
    BY <1>1, <1>2, <1>4
  <2>4. ReadCount(tran + n) \in Nat
    <3> HIDE DEF full
    <3>1. tran + n \in Nat /\ BufLen \in Nat /\ FifoLen \in Nat
      BY <1>2
    <3> QED BY <1>1, <3>1 DEF ReadCount, Uploads
  <2> HIDE DEF full
  <2> QED BY <2>2, <2>3, <2>4 DEF Least
<1> HIDE DEF full, count, BS
<1>8. stored \in 0..count /\ stored =< Len(full) /\ (op # "sdo_read_to_file" => stored = count)
  BY <1>4, <1>5, <1>6 DEF Stored
<1>9. /\ SubSeq(full, 1, stored) \in Seq(BS) /\ Len(SubSeq(full, 1, stored)) = stored
      /\ fifo' \in Seq(BS) /\ Len(fifo') = Len(full) - count
  <2>1. SubSeq(full, 1, stored) \in Seq(BS) /\ Len(SubSeq(full, 1, stored)) = stored
    BY <1>4, <1>6, <1>8, Cut
  <2>2. fifo' \in Seq(BS) /\ Len(fifo') = Len(full) - count
    BY <1>4, <1>5, <1>6, Cut
  <2> QED BY <2>1, <2>2
<1>10. buf' \in Seq(BS) /\ Len(buf') = Len(buf) + stored
  BY <1>1, <1>5, <1>9, ConcatProperties
<1>11. /\ lost' \in Nat /\ (lost' = 0 => lost = 0 /\ stored = count)
       /\ op # "sdo_read_to_file" => lost' = 0
       /\ offset' = Len(buf') + lost' /\ tran' = offset' + Len(fifo')
  <2>1. offset' = (Len(buf) + lost) + count /\ tran' = ((Len(buf) + lost) + Len(fifo)) + n
    BY <1>1, <1>5
  <2>2. /\ Len(buf') = Len(buf) + stored /\ Len(fifo') = (Len(fifo) + n) - count
        /\ lost' = lost + (count - stored)
    BY <1>4, <1>5, <1>9, <1>10
  <2>3. /\ count \in Nat /\ stored \in Nat /\ stored =< count /\ n \in Nat
        /\ lost \in Nat /\ Len(buf) \in Nat /\ Len(fifo) \in Nat
        /\ op # "sdo_read_to_file" => stored = count /\ lost = 0
    BY <1>1, <1>2, <1>6, <1>8
  <2>4. lost' \in Nat /\ (lost' = 0 => lost = 0 /\ stored = count)
    BY <2>2, <2>3
  <2>5. op # "sdo_read_to_file" => lost' = 0
    BY <2>2, <2>3
  <2>6. offset' = Len(buf') + lost'
    BY <2>1, <2>2, <2>3
  <2>7. tran' = offset' + Len(fifo')
    BY <2>1, <2>2, <2>3
  <2> QED BY <2>4, <2>5, <2>6, <2>7
<1>12. TakesAll => fifo' = <<>>
  BY <1>4, <1>7, <1>9, EmptySeq
<1>13. TakesAll /\ lost' = 0 => buf' = SubSeq(obj, 1, tran + n)
  <2> SUFFICES ASSUME TakesAll, lost' = 0 PROVE buf' = SubSeq(obj, 1, tran + n)
    OBVIOUS
  <2>1. stored = Len(full) /\ buf = SubSeq(obj, 1, tran)
    BY <1>1, <1>7, <1>11
  <2>2. full = SubSeq(obj, tran + 1, tran + n)
    BY <1>1, <1>3, ConcatEmptySeq DEF full
  <2>3. SubSeq(full, 1, stored) = full
    BY <1>4, <2>1, SubSeqFull
  <2>4. SubSeq(obj, 1, tran) \o SubSeq(obj, tran + 1, tran + n) = SubSeq(obj, 1, tran + n)
    BY <1>2, Extend
  <2> QED BY <1>5, <2>1, <2>2, <2>3, <2>4, Zenon
<1>14. TypeOK'
  <2>1. /\ Len(fifo') \in 0..FifoLen /\ tran' \in 0..Len(obj')
        /\ offset' \in 0..(Len(obj') + FifoLen) /\ (offset' > 0 => offset' < Len(obj') + FifoLen)
    <3>1. offset \in Nat /\ tran = offset + Len(fifo)
      BY <1>1
    <3>2. offset + count =< tran + n /\ offset + count \in Nat
      BY <1>1, <1>2, <1>4, <1>6, <3>1
    <3>3. Len(fifo') \in 0..FifoLen /\ obj' = obj
      BY <1>1, <1>2, <1>4, <1>5, <1>6, <1>9
    <3>4. offset' = offset + count /\ offset' =< Len(obj) /\ offset' \in Nat
      BY <1>2, <1>5, <3>2
    <3>5. tran' = tran + n
      BY <1>5
    <3> QED BY <1>2, <3>3, <3>4, <3>5
  <2> QED BY <1>5, <1>11, <2>1 DEF IInv, TypeOK
<1>15. Buffers'
  BY <1>9, <1>10 DEF Buffers, BS
<1>16. UploadProgress' /\ DownloadProgress'
  <2>1. TakesAll' = TakesAll
    BY <1>5 DEF TakesAll
  <2> QED BY <1>1, <1>5, <1>11, <1>12, <1>13, <2>1 DEF UploadProgress, DownloadProgress
<1>17. TakesAll => Len(buf') + lost' = tran + n
  <2> SUFFICES ASSUME TakesAll PROVE Len(buf') + lost' = tran + n
    OBVIOUS
  <2>1. Len(fifo') = 0
    BY <1>12
  <2>2. offset' \in Nat
    BY <1>1, <1>5, <1>6
  <2>3. tran' = offset' + 0
    BY <1>11, <2>1
  <2>4. offset' = tran + n
    BY <1>5, <2>2, <2>3
  <2> QED BY <1>11, <2>4
<1> QED BY <1>11, <1>13, <1>14, <1>15, <1>16, <1>17 DEF IInv

\* What a download has in the FIFO once it has been filled again: the stream
\* goes on behind the last byte sent, and the FIFO does not overflow.  If the
\* data fit into the FIFO, they are all there after the first time.
LEMMA FilledStream ==
    ASSUME IInv, busy, op \in Downloads
    PROVE  /\ FillCount \in Nat
           /\ Filled \in Seq(Byte \union {Garbage}) /\ Len(Filled) \in Nat
           /\ Len(Filled) =< FifoLen /\ tran + Len(Filled) = offset + FillCount
           /\ \A i \in 1..Len(Filled) : Filled[i] = Stream(tran + i)
           /\ offset + FillCount > 0 => offset + FillCount < Len(obj) + FifoLen
           /\ Len(obj) <= FifoLen => offset + FillCount = Len(obj)
<1> DEFINE BS == Byte \union {Garbage}
           more == [i \in 1..FillCount |-> Source(i)]
<1>1. /\ tran = Len(buf) /\ offset = Len(buf) + Len(fifo)
      /\ \A i \in 1..Len(fifo) : fifo[i] = Stream(tran + i)
      /\ Len(obj) <= FifoLen => offset \in {0, Len(obj)}
      /\ fifo \in Seq(BS) /\ Len(fifo) \in Nat /\ Len(buf) \in Nat
  BY LenProperties DEF IInv, DownloadProgress, Buffers
<1>2. /\ obj \in Seq(Byte) /\ Len(obj) \in Nat /\ tran \in Nat /\ offset \in Nat
      /\ FifoLen \in Nat \ {0} /\ Len(fifo) =< FifoLen
      /\ offset > 0 => offset < Len(obj) + FifoLen
  BY Objects DEF IInv, TypeOK
<1>3. /\ FillCount \in Nat /\ Len(fifo) + FillCount =< FifoLen
      /\ offset + FillCount > 0 => offset + FillCount < Len(obj) + FifoLen
  BY <1>2 DEF FillCount, Space, Least
<1>4. Len(obj) <= FifoLen => offset + FillCount = Len(obj)
  <2> SUFFICES ASSUME Len(obj) <= FifoLen PROVE offset + FillCount = Len(obj)
    OBVIOUS
  <2>1. CASE offset = 0
    <3>1. Len(fifo) = 0
      BY <1>1, <2>1
    <3>2. Space = FifoLen
      BY <1>2, <3>1 DEF Space
    <3> QED BY <1>2, <2>1, <3>2 DEF FillCount, Least
  <2>2. CASE offset = Len(obj)
    BY <1>2, <2>2 DEF FillCount
  <2> QED BY <1>1, <2>1, <2>2
<1>5. \A i \in 1..FillCount : Source(i) \in BS /\ Source(i) = Stream(offset + i)
  <2> TAKE i \in 1..FillCount
  <2>1. i \in Nat \ {0}
    BY <1>3
  <2>2. offset + i <= Len(obj) => obj[offset + i] \in Byte
    BY <1>2, <2>1, ElementOfSeq
  <2> QED BY <2>2 DEF Source, Stream
<1>6. more \in Seq(BS) /\ Len(more) = FillCount /\ \A i \in 1..FillCount : more[i] = Source(i)
  <2>1. more \in [1..FillCount -> BS]
    BY <1>5
  <2>2. more \in Seq(BS)
    BY <1>3, <2>1, IsASeq
  <2>3. DOMAIN more = 1..FillCount
    OBVIOUS
  <2>4. Len(more) = FillCount
    BY <1>3, <2>2, <2>3, LenProperties
  <2> QED BY <2>2, <2>4
<1> HIDE DEF more, BS
<1>7. /\ Filled \in Seq(BS) /\ Len(Filled) = Len(fifo) + FillCount
      /\ \A i \in 1..(Len(fifo) + FillCount) :
            Filled[i] = IF i <= Len(fifo) THEN fifo[i] ELSE more[i - Len(fifo)]
  <2>1. Filled = fifo \o more
    BY DEF Filled, more
  <2> QED BY <1>1, <1>6, <2>1, ConcatProperties
<1>8. \A i \in 1..Len(Filled) : Filled[i] = Stream(tran + i)
  <2> TAKE i \in 1..Len(Filled)
  <2>1. CASE i <= Len(fifo)
    <3>1. i \in 1..Len(fifo) /\ i \in 1..(Len(fifo) + FillCount)
      BY <1>1, <1>3, <1>7, <2>1
    <3> QED BY <1>1, <1>7, <2>1, <3>1
  <2>2. CASE ~(i <= Len(fifo))
    <3>1. /\ i \in 1..(Len(fifo) + FillCount) /\ i - Len(fifo) \in 1..FillCount
          /\ offset + (i - Len(fifo)) = tran + i
      BY <1>1, <1>2, <1>3, <1>7, <2>2
    <3> QED BY <1>5, <1>6, <1>7, <2>2, <3>1
  <2> QED BY <2>1, <2>2
<1>9. tran + Len(Filled) = offset + FillCount /\ Len(Filled) =< FifoLen /\ Len(Filled) \in Nat
  BY <1>1, <1>2, <1>3, <1>7
<1> QED BY <1>3, <1>4, <1>7, <1>8, <1>9 DEF BS

\* What one call of the client moves in a download.
LEMMA DownloadMovesStep ==
    ASSUME IInv, NEW n \in Sendable, tran + n <= Len(obj), DownloadMoves(n),
           timer' \in 0..Timeout, busy' \in BOOLEAN, code' \in {"NONE", code}
    PROVE  /\ IInv'
           /\ lost' = 0 /\ (tran + n = Len(obj) => buf' = obj)
<1> DEFINE BS == Byte \union {Garbage}
<1>1. /\ busy /\ op \in Downloads /\ op \notin Uploads
      /\ tran = Len(buf) /\ buf \in Seq(BS) /\ Len(buf) \in Nat /\ lost = 0
      /\ \A i \in 1..Len(buf) : buf[i] = Stream(i)
  BY LenProperties DEF DownloadMoves, IInv, DownloadProgress, Buffers, Uploads, Downloads
<1>2. /\ obj \in Seq(Byte) /\ Len(obj) \in Nat /\ tran \in Nat
      /\ FifoLen \in Nat \ {0} /\ offset \in Nat /\ SegLen \in Nat
  BY Objects DEF IInv
<1>3. /\ FillCount \in Nat /\ Filled \in Seq(BS) /\ Len(Filled) \in Nat
      /\ Len(Filled) =< FifoLen /\ tran + Len(Filled) = offset + FillCount
      /\ \A i \in 1..Len(Filled) : Filled[i] = Stream(tran + i)
      /\ offset + FillCount > 0 => offset + FillCount < Len(obj) + FifoLen
      /\ Len(obj) <= FifoLen => offset + FillCount = Len(obj)
  BY <1>1, FilledStream
<1>4. n \in Nat /\ n =< Len(Filled)
  BY <1>2, <1>3 DEF Sendable, Least
<1>5. /\ offset' = offset + FillCount /\ tran' = tran + n
      /\ buf' = buf \o SubSeq(Filled, 1, n) /\ fifo' = SubSeq(Filled, n + 1, Len(Filled))
      /\ UNCHANGED <<op, obj, lost, leaked>>
  BY DEF DownloadMoves
<1> HIDE DEF BS
<1>6. /\ SubSeq(Filled, 1, n) \in Seq(BS) /\ Len(SubSeq(Filled, 1, n)) = n
      /\ \A i \in 1..n : SubSeq(Filled, 1, n)[i] = Filled[i]
      /\ fifo' \in Seq(BS) /\ Len(fifo') = Len(Filled) - n
      /\ \A i \in 1..(Len(Filled) - n) : fifo'[i] = Filled[n + i]
  BY <1>3, <1>4, <1>5, Cut
<1>7. /\ buf' \in Seq(BS) /\ Len(buf') = tran + n
      /\ \A i \in 1..(tran + n) :
            buf'[i] = IF i <= Len(buf) THEN buf[i] ELSE SubSeq(Filled, 1, n)[i - Len(buf)]
  <2> DEFINE sent == SubSeq(Filled, 1, n)
  <2>1. sent \in Seq(BS) /\ Len(sent) = n /\ buf' = buf \o sent
    BY <1>5, <1>6
  <2> HIDE DEF sent
  <2>2. /\ buf \o sent \in Seq(BS) /\ Len(buf \o sent) = Len(buf) + Len(sent)
        /\ \A i \in 1..(Len(buf) + Len(sent)) :
              (buf \o sent)[i] = IF i <= Len(buf) THEN buf[i] ELSE sent[i - Len(buf)]
    BY <1>1, <2>1, ConcatProperties
  <2>3. Len(buf) + Len(sent) = tran + n
    BY <1>1, <2>1
  <2>4. /\ buf' \in Seq(BS) /\ Len(buf') = tran + n
        /\ \A i \in 1..(tran + n) : buf'[i] = IF i <= Len(buf) THEN buf[i] ELSE sent[i - Len(buf)]
    BY <2>1, <2>2, <2>3, Zenon
  <2> QED BY <2>4 DEF sent
<1>8. \A i \in 1..Len(buf') : buf'[i] = Stream(i)
  <2> TAKE i \in 1..Len(buf')
  <2>1. CASE i <= Len(buf)
    <3>1. i \in 1..Len(buf) /\ i \in 1..(tran + n)
      BY <1>1, <1>7, <2>1
    <3> QED BY <1>1, <1>7, <2>1, <3>1
  <2>2. CASE ~(i <= Len(buf))
    <3>1. /\ i \in 1..(tran + n) /\ i - Len(buf) \in 1..n /\ i - Len(buf) \in 1..Len(Filled)
          /\ tran + (i - Len(buf)) = i
      BY <1>1, <1>2, <1>3, <1>4, <1>7, <2>2
    <3> QED BY <1>3, <1>6, <1>7, <2>2, <3>1
  <2> QED BY <2>1, <2>2
<1>9. \A i \in 1..Len(fifo') : fifo'[i] = Stream(tran' + i)
  <2> TAKE i \in 1..Len(fifo')
  <2>1. /\ i \in 1..(Len(Filled) - n) /\ n + i \in 1..Len(Filled)
        /\ tran + (n + i) = tran' + i
    BY <1>2, <1>3, <1>4, <1>5, <1>6
  <2> QED BY <1>3, <1>6, <2>1
<1>10. TypeOK'
  <2>1. /\ Len(fifo') \in 0..FifoLen /\ tran' \in 0..Len(obj')
        /\ offset' \in 0..(Len(obj') + FifoLen) /\ (offset' > 0 => offset' < Len(obj') + FifoLen)
    BY <1>2, <1>3, <1>4, <1>5, <1>6
  <2> QED BY <1>5, <2>1 DEF IInv, TypeOK
<1>11. Buffers'
  BY <1>6, <1>7 DEF Buffers, BS
<1>12. UploadProgress' /\ DownloadProgress'
  <2>1. /\ tran' = Len(buf') /\ offset' = Len(buf') + Len(fifo')
        /\ Len(obj') <= FifoLen => offset' = Len(obj')
    <3>1. /\ tran' = tran + n /\ Len(buf') = tran + n /\ Len(fifo') = Len(Filled) - n
          /\ offset' = tran + Len(Filled) /\ obj' = obj
      BY <1>3, <1>5, <1>6, <1>7
    <3>2. Len(obj) <= FifoLen => offset' = Len(obj)
      BY <1>3, <1>5
    <3>3. tran + Len(Filled) = (tran + n) + (Len(Filled) - n)
      BY <1>2, <1>3, <1>4
    <3> QED BY <3>1, <3>2, <3>3
  <2>2. /\ \A i \in 1..Len(buf') : buf'[i] = (IF i <= Len(obj') THEN obj'[i] ELSE Garbage)
        /\ \A i \in 1..Len(fifo') :
              fifo'[i] = (IF tran' + i <= Len(obj') THEN obj'[tran' + i] ELSE Garbage)
    BY <1>5, <1>8, <1>9 DEF Stream
  <2> QED BY <1>1, <1>5, <2>1, <2>2 DEF UploadProgress, DownloadProgress, Stream
<1>13. ASSUME tran + n = Len(obj)
       PROVE  buf' = obj
  <2>1. obj \in Seq(BS)
    BY <1>2, SeqMonotonic DEF BS
  <2>2. \A i \in 1..Len(buf') : buf'[i] = obj[i]
    BY <1>2, <1>7, <1>8, <1>13 DEF Stream
  <2> QED BY <1>7, <1>13, <2>1, <2>2, SeqEqual
<1> QED BY <1>1, <1>5, <1>10, <1>11, <1>12, <1>13 DEF IInv

\* A refused download: the refill has been made all the same.
LEMMA DownloadRefusedStep ==
    ASSUME IInv, DownloadRefused
    PROVE  IInv'
<1>1. PICK n \in Sendable :
        /\ busy /\ op \in Downloads
        /\ tran + n > Len(obj) \/ (tran + n < Len(obj) /\ Last(n))
        /\ Ended(IF tran + n > Len(obj) THEN "DATA_LONG" ELSE "DATA_SHORT")
        /\ offset' = offset + FillCount /\ fifo' = Filled
        /\ UNCHANGED <<op, obj, tran, buf, lost, timer, leaked>>
  BY DEF DownloadRefused
<1>2. /\ FillCount \in Nat /\ Filled \in Seq(Byte \union {Garbage})
      /\ Len(Filled) \in Nat /\ Len(Filled) =< FifoLen
      /\ offset + FillCount > 0 => offset + FillCount < Len(obj) + FifoLen
  BY <1>1, FilledStream
<1>3. Len(obj) \in Nat /\ offset \in Nat /\ FifoLen \in Nat \ {0}
  BY Objects DEF IInv
<1>4. TypeOK'
  <2>1. /\ Len(fifo') \in 0..FifoLen
        /\ offset' \in 0..(Len(obj') + FifoLen) /\ (offset' > 0 => offset' < Len(obj') + FifoLen)
    BY <1>1, <1>2, <1>3
  <2> QED BY <1>1, <2>1 DEF IInv, TypeOK, Ended
<1>5. Buffers' /\ UploadProgress' /\ DownloadProgress'
  BY <1>1, <1>2 DEF IInv, Buffers, UploadProgress, DownloadProgress, Ended
<1> QED BY <1>4, <1>5 DEF IInv

LEMMA StutterStep == IInv /\ UNCHANGED vars => IInv'
BY DEF IInv, TypeOK, Buffers, UploadProgress, DownloadProgress, TakesAll, Stream, vars

\* Everything the transfers rely on about the bytes in flight holds in every
\* state, for every object, FIFO, buffer and segment size.
THEOREM Inductive == Spec => []IInv
<1>1. IInv /\ [Next]_vars => IInv'
  <2> SUFFICES ASSUME IInv, [Next]_vars PROVE IInv'
    OBVIOUS
  <2>1. ASSUME NEW f \in Uploads \union Downloads, NEW o \in Object, Begin(f, o) PROVE IInv'
    BY <2>1, BeginStep
  <2>2. ASSUME NEW f \in Uploads \union Downloads, NEW i \in BOOLEAN, BeginFails(f, i) PROVE IInv'
    BY <2>2, BeginFailsStep
  <2>3. ASSUME NEW n \in 0..FifoLen, UploadTurn(n) PROVE IInv'
    <3>1. n \in Nat
      BY LenAssumption
    <3>2. timer' \in 0..Timeout
      BY <2>3, <3>1, TurnTimer DEF UploadTurn, IInv
    <3> QED BY <2>3, <3>2, UploadMovesStep DEF UploadTurn, IInv, TypeOK
  <2>4. ASSUME NEW n \in 0..FifoLen, DownloadTurn(n) PROVE IInv'
    <3>1. n \in Nat
      BY LenAssumption
    <3>2. timer' \in 0..Timeout
      BY <2>4, <3>1, TurnTimer DEF DownloadTurn, IInv
    <3> QED BY <2>4, <3>2, DownloadMovesStep DEF DownloadTurn, IInv, TypeOK
  <2>5. CASE UploadEnd
    <3>1. timer' \in 0..Timeout /\ busy' \in BOOLEAN /\ code' \in {"NONE", code}
      <4>1. timer' = 0 /\ busy' = FALSE /\ code' = "NONE"
        BY <2>5, Zenon DEF UploadEnd, Ended
      <4>2. 0 \in 0..Timeout
        BY LenAssumption
      <4> QED BY <4>1, <4>2, Zenon
    <3> QED BY <2>5, <3>1, UploadMovesStep DEF UploadEnd
  <2>6. CASE DownloadEnd
    <3>1. timer' \in 0..Timeout /\ busy' \in BOOLEAN /\ code' \in {"NONE", code}
      <4>1. timer' = 0 /\ busy' = FALSE /\ code' = "NONE"
        BY <2>6, Zenon DEF DownloadEnd, Ended
      <4>2. 0 \in 0..Timeout
        BY LenAssumption
      <4> QED BY <4>1, <4>2, Zenon
    <3>2. PICK n \in Sendable : tran + n = Len(obj) /\ DownloadMoves(n)
      BY <2>6 DEF DownloadEnd
    <3>3. tran + n <= Len(obj)
      BY <3>2, Objects DEF IInv
    <3> QED BY <3>1, <3>2, <3>3, DownloadMovesStep
  <2>7. CASE DownloadRefused
    BY <2>7, DownloadRefusedStep
  <2>8. ASSUME NEW c \in {"REMOTE", "TIMEOUT"}, Aborted(c) PROVE IInv'
    BY <2>8, AbortedStep
  <2>9. CASE UNCHANGED vars
    BY <2>9, StutterStep
  <2> QED BY <2>1, <2>2, <2>3, <2>4, <2>5, <2>6, <2>7, <2>8, <2>9 DEF Next, Loop
<1> QED BY InitIInv, <1>1, PTL DEF Spec

\* The variables of a transfer stay in their types, and a download never gives
\* the FIFO more than one FIFO beyond its data (sdo_write, sdo_write_from_file).
THEOREM TypeCorrect == Spec => []TypeOK
<1>1. IInv => TypeOK
  BY DEF IInv
<1> QED BY <1>1, Inductive, PTL

-----------------------------------------------------------------------------
(* The transfers implement SdoTransfer.                                    *)

\* A function that is not running has returned.
LEMMA Returned == TypeOK => code # "PENDING"
BY DEF TypeOK

LEMMA BeginStarts ==
    ASSUME IInv, NEW f \in Uploads \union Downloads, NEW o \in Object, Begin(f, o)
    PROVE  Abstract!Next
<1>1. ~busy /\ busy' /\ op' = f /\ obj' = o /\ code # "PENDING"
  BY Returned DEF Begin, IInv
<1>2. Abstract!Start(f, o)
  BY <1>1 DEF Abstract!Start, Abstract!Pending, Success
<1> QED BY <1>2 DEF Abstract!Next

\* A failure before the loop is no refusal for the size.
LEMMA BeginFailsRefuses ==
    ASSUME IInv, NEW f \in Uploads \union Downloads, NEW i \in BOOLEAN, BeginFails(f, i)
    PROVE  Abstract!Next
<1>1. /\ ~busy /\ ~busy' /\ op' = f /\ obj' = <<>> /\ buf' = <<>> /\ code # "PENDING"
      /\ code' \in {"DATA_LOC_CTRL", "GENERAL"}
  BY Returned DEF BeginFails, IInv
<1>2. Abstract!Refuse(f)
  BY <1>1 DEF Abstract!Refuse, Abstract!Pending, Abstract!Success, Success
<1> QED BY <1>2 DEF Abstract!Next

\* A transfer in its loop has handed nothing over yet.
LEMMA TurnStutters ==
    ASSUME busy, busy', UNCHANGED <<op, obj>>
    PROVE  UNCHANGED Abstract!vars
BY DEF Abstract!vars, Success

LEMMA AbortFails ==
    ASSUME busy, ~busy', UNCHANGED <<op, obj>>, code' \notin {"NONE", "PENDING"},
           Len(obj) <= FifoLen => code' \notin {"DATA_LONG", "DATA_SHORT"}
    PROVE  Abstract!Next
<1>1. Abstract!Fail
  BY DEF Abstract!Fail, Abstract!Pending, Abstract!Success, Success
<1> QED BY <1>1 DEF Abstract!Next

LEMMA EndSucceeds ==
    ASSUME busy, Ended("NONE"), UNCHANGED <<op, obj>>,
           TakesAll /\ lost' = 0 => buf' = obj,
           TakesAll /\ lost' # 0 => op = "sdo_read_to_file" /\ Len(buf') + lost' = Len(obj)
    PROVE  Abstract!Next
<1>1. Abstract!Succeed
  BY DEF Abstract!Succeed, Abstract!Pending, Abstract!Success, Success, Ended, TakesAll
<1> QED BY <1>1 DEF Abstract!Next

\* What fits into the FIFO is filled once and whole: it is neither too long nor
\* too short at its end.
LEMMA SmallNotRefused ==
    ASSUME IInv, DownloadRefused
    PROVE  ~(Len(obj) <= FifoLen)
<1> SUFFICES ASSUME Len(obj) <= FifoLen PROVE FALSE
  OBVIOUS
<1>1. PICK n \in Sendable :
        /\ busy /\ op \in Downloads
        /\ tran + n > Len(obj) \/ (tran + n < Len(obj) /\ Last(n))
  BY DEF DownloadRefused
<1>2. /\ Len(Filled) \in Nat /\ tran + Len(Filled) = offset + FillCount
      /\ offset + FillCount = Len(obj)
  BY <1>1, FilledStream
<1>3. Len(obj) \in Nat /\ tran \in Nat /\ SegLen \in Nat
  BY Objects DEF IInv
<1>4. n \in Nat /\ n =< Len(Filled)
  BY <1>2, <1>3 DEF Sendable, Least
<1>5. tran + n =< Len(obj) /\ (n = Len(Filled) => tran + n = Len(obj))
  BY <1>2, <1>3, <1>4
<1> QED BY <1>1, <1>3, <1>4, <1>5 DEF Last

LEMMA StepRefines ==
    ASSUME IInv, [Next]_vars
    PROVE  [Abstract!Next]_(Abstract!vars)
<1>1. ASSUME NEW f \in Uploads \union Downloads, NEW o \in Object, Begin(f, o)
      PROVE  Abstract!Next
  BY <1>1, BeginStarts
<1>2. ASSUME NEW f \in Uploads \union Downloads, NEW i \in BOOLEAN, BeginFails(f, i)
      PROVE  Abstract!Next
  BY <1>2, BeginFailsRefuses
<1>3. ASSUME NEW n \in 0..FifoLen, UploadTurn(n) \/ DownloadTurn(n)
      PROVE  UNCHANGED Abstract!vars
  BY <1>3, TurnStutters DEF UploadTurn, DownloadTurn, UploadMoves, DownloadMoves
<1>4. CASE UploadEnd
  <2> DEFINE n == Len(obj) - tran
  <2>1. /\ n \in Received /\ UploadMoves(n) /\ Ended("NONE") /\ timer' = 0
        /\ busy /\ UNCHANGED <<op, obj>>
    BY <1>4 DEF UploadEnd, UploadMoves
  <2>2. 0 \in 0..Timeout /\ obj \in Seq(Byte) /\ tran + n = Len(obj)
    BY LenAssumption, Objects DEF IInv
  <2>3. timer' \in 0..Timeout /\ busy' \in BOOLEAN /\ code' \in {"NONE", code}
    BY <2>1, <2>2, Zenon DEF Ended
  <2> HIDE DEF n
  <2>4. /\ TakesAll => Len(buf') + lost' = Len(obj)
        /\ TakesAll /\ lost' = 0 => buf' = SubSeq(obj, 1, Len(obj))
        /\ lost' = 0 \/ op = "sdo_read_to_file"
    BY <2>1, <2>2, <2>3, UploadMovesStep
  <2>5. TakesAll /\ lost' = 0 => buf' = obj
    BY <2>2, <2>4, SubSeqFull
  <2> QED BY <2>1, <2>4, <2>5, EndSucceeds
<1>5. CASE DownloadEnd
  <2>1. PICK n \in Sendable :
          tran + n = Len(obj) /\ DownloadMoves(n) /\ Ended("NONE") /\ timer' = 0
    BY <1>5 DEF DownloadEnd
  <2>2. 0 \in 0..Timeout /\ tran + n <= Len(obj)
    BY <2>1, LenAssumption, Objects DEF IInv
  <2>3. timer' \in 0..Timeout /\ busy' \in BOOLEAN /\ code' \in {"NONE", code}
    BY <2>1, <2>2, Zenon DEF Ended
  <2>4. buf' = obj /\ lost' = 0
    BY <2>1, <2>2, <2>3, DownloadMovesStep
  <2>5. busy /\ UNCHANGED <<op, obj>>
    BY <2>1 DEF DownloadMoves
  <2> QED BY <2>1, <2>4, <2>5, EndSucceeds
<1>6. CASE DownloadRefused
  <2>1. /\ busy /\ ~busy' /\ UNCHANGED <<op, obj>> /\ code' \notin {"NONE", "PENDING"}
    BY <1>6 DEF DownloadRefused, Ended
  <2> QED BY <1>6, <2>1, SmallNotRefused, AbortFails
<1>7. ASSUME NEW c \in {"REMOTE", "TIMEOUT"}, Aborted(c)
      PROVE  Abstract!Next
  <2>1. busy /\ ~busy' /\ UNCHANGED <<op, obj>> /\ code' \in {"REMOTE", "TIMEOUT"}
    BY <1>7 DEF Aborted, Ended
  <2> QED BY <2>1, AbortFails
<1>8. CASE UNCHANGED vars
  BY <1>8 DEF vars, Abstract!vars, Success
<1> QED BY <1>1, <1>2, <1>3, <1>4, <1>5, <1>6, <1>7, <1>8 DEF Next, Loop

\* The five blocking functions of sdo_client.c promise what SdoTransfer states:
\* a success has moved exactly the data, but for the bytes of sdo_read_to_file
\* that the disk did not store and for an object larger than sdo_read's buffer,
\* and what fits into the FIFO is never refused for its size, whatever the bus
\* and the remote node do.
THEOREM Refinement == Spec => ImplementsSdoTransfer
<1>1. Init => Abstract!Init
  BY DEF Init, Abstract!Init, Abstract!Pending, Abstract!Success, Success
<1>2. IInv /\ [Next]_vars => [Abstract!Next]_(Abstract!vars)
  BY StepRefines
<1> QED BY <1>1, <1>2, Inductive, PTL DEF Spec, ImplementsSdoTransfer, Abstract!Spec
=============================================================================

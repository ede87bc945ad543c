----------------------------- MODULE OdTransfer -----------------------------
(***************************************************************************)
(* One object served by the four helpers of src/od_extensions/od_ext.c.    *)
(*                                                                         *)
(* The SDO server of CANopenNode (external) opens a stream, then calls the *)
(* extension's read or write function once per filled buffer until the     *)
(* transfer is complete, the extension refuses, or the client gives up (an *)
(* abort or a timeout, possible between any two calls).  The helpers keep  *)
(* no state of their own but the FILE* the caller lends them, which        *)
(* survives an aborted transfer.                                           *)
(*                                                                         *)
(* data is the C array behind a string or domain object, of which dataLen  *)
(* bytes are readable; file is the content of the temporary file that a    *)
(* file transfer goes through and fp its FILE*, NULL or a position.        *)
(***************************************************************************)
EXTENDS OdExt

CONSTANTS
    Byte,       \* the bytes told apart
    DataMax,    \* length of the C array (dataMaxLen)
    BufLen,     \* size of the SDO server's buffer: the largest count of a call
    Payload     \* what a client may write, what a file may hold

ASSUME DataMaxAssumption == DataMax \in Nat \ {0}
ASSUME BufLenAssumption == BufLen \in Nat \ {0}
ASSUME PayloadAssumption == Payload \subseteq Seq(Byte)

Reads == {"read_data", "read_file"}
Writes == {"write_data", "write_file"}
NULL == -1      \* fp when no file is open

VARIABLES
    active,      \* whether a transfer is in progress
    kind,        \* the helper the latest transfer calls ("none" at first)
    dataOffset,  \* OD_stream_t.dataOffset
    dataLength,  \* OD_stream_t.dataLength
    data,        \* the array
    dataLen,     \* readable bytes of the array
    file,        \* content of the temporary file
    exists,      \* whether the temporary file exists
    fp,          \* the extension's FILE*: NULL or the position in file
    handles,     \* FILE objects the process holds open for this extension
    src,         \* what the transfer in progress is to move
    moved,       \* what it has moved so far
    lost,        \* history: bytes of this transfer that fwrite did not store
    ret          \* the code the last call returned ("ABORT" when given up)

vars == <<active, kind, dataOffset, dataLength, data, dataLen, file, exists,
          fp, handles, src, moved, lost, ret>>

Stream == <<dataOffset, dataLength>>
Disk == <<file, exists>>
Handle == <<fp, handles>>

Init ==
    /\ active = FALSE /\ kind = "none"
    /\ dataOffset = 0 /\ dataLength = 0
    /\ data \in [1..DataMax -> Byte]
    /\ dataLen \in 1..DataMax
    /\ file = <<>> /\ exists = FALSE
    /\ fp = NULL /\ handles = 0
    /\ src = <<>> /\ moved = <<>> /\ lost = 0
    /\ ret = "OK"

-----------------------------------------------------------------------------
(* The SDO server opens a stream (OD_getSub) with the offset at zero.      *)

BeginRead(k) ==
    /\ ~active
    /\ active' = TRUE /\ kind' = k
    /\ dataOffset' = 0 /\ dataLength' = 0
    /\ src' = IF k = "read_data" THEN SubSeq(data, 1, dataLen) ELSE file
    /\ moved' = <<>> /\ lost' = 0
    /\ ret' = "PARTIAL"
    /\ UNCHANGED <<data, dataLen, Disk, Handle>>

\* A download starts with the length the client indicates, which the SDO
\* server leaves in the stream; nothing says that it is the right one.
BeginWrite(k, payload, indicated) ==
    /\ ~active
    /\ active' = TRUE /\ kind' = k
    /\ dataOffset' = 0 /\ dataLength' = indicated
    /\ src' = payload
    /\ moved' = <<>> /\ lost' = 0
    /\ ret' = "PARTIAL"
    /\ UNCHANGED <<data, dataLen, Disk, Handle>>

\* The server gives the transfer up between two calls.  Nothing tells the
\* extension.
Abort ==
    /\ active
    /\ active' = FALSE
    /\ ret' = "ABORT"
    /\ UNCHANGED <<kind, Stream, data, dataLen, Disk, Handle, src, moved, lost>>

\* What the server makes of the code a call returned: it goes on while the
\* answer is ODR_PARTIAL and there is more to move, and it refuses an end of
\* transfer that the two sides do not agree on.
Answer(code, sofar) ==
    LET disagree == /\ kind \in Writes
                    /\ \/ code = "PARTIAL" /\ Len(sofar) = Len(src)
                       \/ code = "OK" /\ Len(sofar) # Len(src)
    IN  /\ moved' = sofar
        /\ ret' = IF disagree THEN "ABORT" ELSE code
        /\ active' = (code = "PARTIAL" /\ ~disagree)
        /\ kind' = kind

-----------------------------------------------------------------------------
(* The four helpers, one call each.                                        *)

\* The next bytes of the payload that the server has buffered for a call.
Chunk(n) == SubSeq(src, Len(moved) + 1, Len(moved) + n)

\* Sizes a buffer can have when it reaches the extension: full, or short
\* only because the payload ends there.
ChunkSizes ==
    LET left == Len(src) - Len(moved)
    IN  {IF left < BufLen THEN left ELSE BufLen}

\* Mutant of From: the pointer is not moved by the bytes already copied.
FromStart == 0

\* Where in the array a segment starts (dataOrig += dataOffset).
From == dataOffset

od_ext_read_data(count) ==
    LET seg == Segment(dataOffset, dataLen, count)
    IN  /\ active /\ kind = "read_data"
        /\ dataLength' = IF dataOffset = 0 THEN dataLen ELSE dataLength
        /\ dataOffset' = seg.off
        /\ Answer(seg.ret, moved \o SubSeq(data, From + 1, From + seg.n))
        /\ UNCHANGED <<data, dataLen, Disk, Handle, src, lost>>

\* Mutant of TooLong: the length the client indicated is not compared.
TooLongNever == FALSE

\* The only check of the indicated length against the array.
TooLong == dataLength > DataMax

od_ext_write_data(count) ==
    LET seg == IF TooLong
                 THEN [ret |-> "DEV_INCOMPAT", n |-> 0, off |-> dataOffset]
                 ELSE WriteSegment(dataOffset, dataLength, count)
    IN  /\ active /\ kind = "write_data"
        /\ dataOffset' = seg.off
        /\ data' = IF seg.ret \in {"OK", "PARTIAL"}
                     THEN Overwrite(data, From, Chunk(seg.n)) ELSE data
        /\ Answer(seg.ret, moved \o Chunk(seg.n))
        /\ UNCHANGED <<dataLength, dataLen, Disk, Handle, src, lost>>

\* Mutant of Reopened: the file left by an aborted transfer stays open.
ReopenedLeaking == handles + 1

\* Handles held once the file of a new transfer is open: the one left by an
\* aborted transfer is closed first.
Reopened == (handles - (IF fp # NULL THEN 1 ELSE 0)) + 1

Held == IF dataOffset = 0 THEN Reopened ELSE handles

\* An error before the first segment: the file is closed, if it was opened.
FileRefused(code) ==
    /\ dataOffset = 0
    /\ fp' = NULL /\ handles' = Reopened - 1
    /\ Answer(code, moved)
    /\ UNCHANGED dataOffset

\* The file is closed after every outcome but ODR_PARTIAL; pos is where the
\* call leaves it.
FileMoved(seg, pos) ==
    /\ dataOffset' = seg.off
    /\ fp' = IF seg.ret = "PARTIAL" THEN pos ELSE NULL
    /\ handles' = IF seg.ret = "PARTIAL" THEN Held ELSE Held - 1

ReadFileSegment(count) ==
    LET len == IF dataOffset = 0 THEN Len(file) ELSE dataLength
        pos == IF dataOffset = 0 THEN 0 ELSE fp
        seg == Segment(dataOffset, len, count)
    IN  /\ dataOffset = 0 => exists /\ file # <<>>
        /\ dataLength' = len
        /\ FileMoved(seg, pos + seg.n)
        /\ Answer(seg.ret, moved \o SubSeq(file, pos + 1, pos + seg.n))

od_ext_read_file(count) ==
    /\ active /\ kind = "read_file"
    /\ \/ ~exists /\ FileRefused("DEV_INCOMPAT") /\ UNCHANGED dataLength
       \/ exists /\ file = <<>> /\ FileRefused("NO_DATA") /\ dataLength' = 0
       \/ ReadFileSegment(count)
    /\ UNCHANGED <<data, dataLen, Disk, src, lost>>

\* The file takes the first stored bytes of the chunk, all of them unless the
\* disk is full (fwrite stops, or fclose fails to flush).  Neither result is
\* looked at: offset, count and code are those of a complete write.
WriteFileSegment(count, stored) ==
    LET base == IF dataOffset = 0 THEN <<>> ELSE file
        seg == WriteSegment(dataOffset, dataLength, count)
        written == IF seg.n = 0 THEN base ELSE base \o SubSeq(Chunk(seg.n), 1, stored)
    IN  /\ exists' = TRUE
        /\ file' = written
        /\ lost' = lost + (IF seg.n = 0 THEN 0 ELSE seg.n - stored)
        /\ FileMoved(seg, Len(written))
        /\ Answer(seg.ret, moved \o Chunk(seg.n))

\* openable is FALSE when fopen fails (external: the path, or /tmp itself),
\* stored is what fwrite and fclose get onto the disk.
od_ext_write_file(count, openable, stored) ==
    /\ active /\ kind = "write_file"
    /\ \/ ~openable /\ FileRefused("DEV_INCOMPAT") /\ UNCHANGED <<Disk, lost>>
       \/ (dataOffset = 0 => openable) /\ WriteFileSegment(count, stored)
    /\ UNCHANGED <<dataLength, data, dataLen, src>>

\* Between transfers the owner of the extension replaces or removes the
\* temporary file (copy_file before a read, move_file after a write).
OwnerSetsFile(content) ==
    /\ ~active
    /\ kind' = "none"
    /\ file' = content /\ exists' = TRUE
    /\ UNCHANGED <<active, Stream, data, dataLen, Handle, src, moved, lost, ret>>

OwnerRemovesFile ==
    /\ ~active /\ exists
    /\ kind' = "none"
    /\ file' = <<>> /\ exists' = FALSE
    /\ UNCHANGED <<active, Stream, data, dataLen, Handle, src, moved, lost, ret>>

Next ==
    \/ \E k \in Reads : BeginRead(k)
    \/ \E k \in Writes, p \in Payload \ {<<>>}, n \in {Len(q) : q \in Payload} :
          BeginWrite(k, p, n)
    \/ Abort
    \/ \E count \in 1..BufLen : od_ext_read_data(count)
    \/ \E count \in 1..BufLen : od_ext_read_file(count)
    \/ \E count \in ChunkSizes : od_ext_write_data(count)
    \/ \E count \in ChunkSizes, openable \in BOOLEAN :
          \E stored \in 0..count : od_ext_write_file(count, openable, stored)
    \/ \E content \in Payload : OwnerSetsFile(content)
    \/ OwnerRemovesFile

Spec == Init /\ [][Next]_vars

-----------------------------------------------------------------------------
(* Properties.                                                             *)

\* The variables stay in their types.  The array has its elements and no
\* others: memcpy of od_ext_write_data stays within it, although the length
\* comes from the client and the offset from earlier calls.
TypeOK ==
    /\ active \in BOOLEAN
    /\ kind \in Reads \union Writes \union {"none"}
    /\ dataOffset \in Nat /\ dataLength \in Nat
    /\ data \in [1..DataMax -> Byte]
    /\ dataLen \in 1..DataMax
    /\ file \in Seq(Byte) /\ exists \in BOOLEAN
    /\ fp \in Nat \union {NULL} /\ handles \in Nat
    /\ src \in Seq(Byte) /\ moved \in Seq(Byte) /\ lost \in Nat
    /\ ret \in ODR \union {"ABORT"}

\* Completed: the server reported success of a transfer by one of kinds and
\* nobody has touched the file since.
Completed(kinds) == ~active /\ ret = "OK" /\ kind \in kinds

\* However the segments are cut, a read that ends with ODR_OK has handed out
\* the object, the whole object and nothing else, whatever transfers were
\* aborted before it.
ReadExact == Completed(Reads) => moved = src

\* A write that ends with ODR_OK has stored exactly the client's payload at
\* the front of the array, with the length od_ext_write_data reports in
\* dataWritten.  Of a file the code promises less, as it ignores what fwrite
\* and fclose return: the file is the payload if the disk took all of it and
\* lacks exactly the lost bytes if not, and the ODR_OK tells nobody which.
WriteExact ==
    /\ Completed({"write_data"}) =>
          /\ dataLength = Len(src)
          /\ SubSeq(data, 1, Len(src)) = src
    /\ Completed({"write_file"}) => 
          /\ exists /\ Len(file) + lost = Len(src)
          /\ lost = 0 => file = src

\* The FILE* bookkeeping: the process never holds more than the one file that
\* fp names (an aborted transfer's file is closed by the next one), none is
\* left after a completed transfer, and a later segment of a file transfer
\* never meets a NULL fp (fread and fwrite on NULL crash the daemon).
HandleDiscipline ==
    /\ handles = (IF fp = NULL THEN 0 ELSE 1)
    /\ Completed({"read_file", "write_file"}) => fp = NULL
    /\ active /\ kind = "read_file" /\ dataOffset > 0 => fp = dataOffset
    /\ active /\ kind = "write_file" /\ dataOffset > 0 => fp = Len(file)

\* f is what the disk has after n bytes of the payload, k of them lost.
Stored(f, k, n) ==
    /\ Len(f) + k = n
    /\ k = 0 => f = SubSeq(src, 1, n)

\* Where a transfer in progress stands between two calls: what has been moved
\* is the part of the object before dataOffset, and in a write that part is
\* already stored.  With the properties above it is inductive.
Progress ==
    active =>
        /\ kind \in Reads \union Writes
        /\ kind = "read_data" => /\ src = SubSeq(data, 1, dataLen)
                                 /\ moved = SubSeq(data, 1, dataOffset)
                                 /\ dataOffset < dataLen
        /\ kind = "read_file" => /\ src = file
                                 /\ moved = SubSeq(file, 1, dataOffset)
                                 /\ dataOffset > 0 => /\ exists
                                                      /\ dataLength = Len(file)
                                                      /\ dataOffset < Len(file)
        /\ kind \in Writes => /\ moved = SubSeq(src, 1, dataOffset)
                              /\ dataOffset < Len(src)
                              /\ dataOffset > 0 => dataOffset < dataLength
        /\ kind = "write_data" => /\ dataOffset > 0 => dataLength =< DataMax
                                  /\ \A i \in 1..dataOffset : data[i] = src[i]
        /\ kind = "write_file" => /\ dataOffset = 0 => lost = 0
                                  /\ dataOffset > 0 => exists /\ Stored(file, lost, dataOffset)

IInv == TypeOK /\ HandleDiscipline /\ Progress /\ ReadExact /\ WriteExact
=============================================================================

----------------------------- MODULE SdoClient -----------------------------
(***************************************************************************)
(* The blocking SDO transfers of src/canopenlinux/sdo_client.c, which the  *)
(* IPC responder thread (and the scripts) run against other nodes:         *)
(* sdo_read_dynamic, sdo_read, sdo_read_to_file, sdo_write and             *)
(* sdo_write_from_file.                                                    *)
(*                                                                         *)
(* Each one initiates a transfer and then turns a loop: it calls           *)
(* CANopenNode's client, which moves bytes between the bus and a FIFO, and *)
(* moves bytes between the FIFO and the caller's buffer or file.  The      *)
(* thread alone does both, so one action is one turn of the loop.          *)
(*                                                                         *)
(* CANopenNode and the remote node are external.  As the code uses them:   *)
(* a call moves what the bus gives and the FIFO holds, reports the end of  *)
(* the transfer, or aborts; it aborts by itself when no answer came for    *)
(* the timeout, counted in the time differences it is passed, and when a   *)
(* download is longer or shorter than the size it was initiated with.      *)
(***************************************************************************)
EXTENDS Integers, Sequences

CONSTANTS
    Byte,     \* the bytes of data
    Object,   \* contents of remote objects, and of what is written
    FifoLen,  \* bytes the client's FIFO holds
    BufLen,   \* buf_size of the caller of sdo_read
    SegLen,   \* most bytes one call puts on the bus
    Timeout,  \* SDO_TIMEOUT_MS, in turns of the loop
    Garbage   \* a byte from beyond the data

ASSUME LenAssumption ==
    FifoLen \in Nat \ {0} /\ BufLen \in Nat \ {0} /\ SegLen \in Nat \ {0} /\ Timeout \in Nat \ {0}
ASSUME ObjectAssumption == Object \subseteq Seq(Byte) /\ Garbage \notin Byte

Uploads == {"sdo_read_dynamic", "sdo_read", "sdo_read_to_file"}
Downloads == {"sdo_write", "sdo_write_from_file"}

VARIABLES
    op,      \* the function the thread is in, or was in last
    busy,    \* whether it is in its loop
    obj,     \* the object's content, or the data to be written
    fifo,    \* client->bufFifo
    tran,    \* bytes the client has moved over the bus
    offset,  \* offset of the function
    buf,     \* what the caller's buffer, tmp or the file holds; what the
             \* remote node has received
    lost,    \* history: bytes that fwrite did not store in the file
    timer,   \* time since the last answer
    code,    \* the abort code returned
    leaked   \* tmp of an earlier sdo_read_dynamic was never freed

vars == <<op, busy, obj, fifo, tran, offset, buf, lost, timer, code, leaked>>

Least(a, b) == IF a < b THEN a ELSE b

Init ==
    /\ op = "sdo_read" /\ busy = FALSE /\ obj = <<>>
    /\ fifo = <<>> /\ tran = 0 /\ offset = 0 /\ buf = <<>> /\ lost = 0 /\ timer = 0
    /\ code = "GENERAL" /\ leaked = FALSE

-----------------------------------------------------------------------------
(* Setup and initiation; opening the file where there is one.              *)

Begin(f, o) ==
    /\ ~busy
    /\ op' = f /\ busy' = TRUE /\ obj' = o
    /\ fifo' = <<>> /\ tran' = 0 /\ offset' = 0 /\ buf' = <<>> /\ lost' = 0 /\ timer' = 0
    /\ UNCHANGED <<code, leaked>>

\* The setup or the file fails, or the initiation does.
BeginFails(f, initiated) ==
    /\ ~busy
    /\ op' = f /\ obj' = <<>>
    /\ fifo' = <<>> /\ tran' = 0 /\ offset' = 0 /\ buf' = <<>> /\ lost' = 0 /\ timer' = 0
    /\ code' = IF f \in Downloads /\ ~initiated THEN "DATA_LOC_CTRL" ELSE "GENERAL"
    /\ UNCHANGED <<busy, leaked>>

-----------------------------------------------------------------------------
(* One call of CANopenNode's client.                                       *)

\* Mutant of Elapsed: the client is told that no time has passed.
ElapsedZero == 0

\* time_diff_us: one turn.
Elapsed == 1

\* A call that moves n bytes and does not end the transfer: without an answer
\* the time counts, and there is none left to count at the timeout.
Clocked(n) ==
    \/ n > 0 /\ timer' = 0
    \/ n = 0 /\ timer < Timeout /\ timer' = timer + Elapsed

Ended(c) == busy' = FALSE /\ code' = c

\* ret < 0 by the remote node, or by the timeout.  sdo_read_dynamic returns
\* without freeing tmp.
Aborted(c) ==
    /\ busy
    /\ c = "TIMEOUT" => timer = Timeout
    /\ Ended(c)
    /\ leaked' = (leaked \/ (op = "sdo_read_dynamic" /\ tran > 0))
    /\ UNCHANGED <<op, obj, fifo, tran, offset, buf, lost, timer>>

-----------------------------------------------------------------------------
(* Uploads.                                                                *)

\* How much the function asks of the FIFO when total bytes have been moved:
\* size_transfered, buf_size (whatever offset is), or all there can be.
ReadCount(total) ==
    CASE op = "sdo_read_dynamic" -> total
      [] op = "sdo_read" -> BufLen
      [] op = "sdo_read_to_file" -> FifoLen

\* How many of the count bytes taken get to their place.  sdo_read_to_file does
\* not look at what fwrite and fclose return: on a full disk some are lost, and
\* the transfer goes on.
Stored(count) == IF op = "sdo_read_to_file" THEN 0..count ELSE {count}

\* CO_SDOclientUpload puts n bytes into the FIFO, CO_SDOclientUploadBufRead
\* takes some out.
UploadMoves(n) ==
    LET full == fifo \o SubSeq(obj, tran + 1, tran + n)
        count == Least(Len(full), ReadCount(tran + n))
    IN  /\ busy /\ op \in Uploads
        /\ tran' = tran + n
        /\ \E stored \in Stored(count) :
              buf' = buf \o SubSeq(full, 1, stored) /\ lost' = lost + (count - stored)
        /\ offset' = offset + count
        /\ fifo' = SubSeq(full, count + 1, Len(full))
        /\ UNCHANGED <<op, obj, leaked>>

Received == 0..Least(FifoLen - Len(fifo), Len(obj) - tran)

UploadTurn(n) == n \in Received /\ UploadMoves(n) /\ Clocked(n) /\ UNCHANGED <<busy, code>>

\* ret == 0, with the last bytes or after them.
UploadEnd ==
    /\ Len(obj) - tran \in Received
    /\ UploadMoves(Len(obj) - tran)
    /\ Ended("NONE") /\ timer' = 0

-----------------------------------------------------------------------------
(* Downloads.                                                              *)

Space == FifoLen - Len(fifo)

\* Mutants of FillCount: the guard on offset is missing; the space alone counts.
FillCountAlways == Least(Space, Len(obj))
FillCountSpace == IF offset < Len(obj) THEN Space ELSE 0

\* CO_SDOclientDownloadBufWrite is given buf_size bytes, not what remains of
\* them, and takes what fits.
FillCount == IF offset < Len(obj) THEN Least(Space, Len(obj)) ELSE 0

\* The i-th byte given to it: sdo_write reads on behind the data,
\* sdo_write_from_file sends what an earlier fread left in its buffer.
Source(i) == IF offset + i <= Len(obj) THEN obj[offset + i] ELSE Garbage

Filled == fifo \o [i \in 1..FillCount |-> Source(i)]

\* buffer_partial, which stays true when there is nothing to write.
Partial == Len(obj) = 0 \/ offset + FillCount < Len(obj)

DownloadMoves(n) ==
    /\ busy /\ op \in Downloads
    /\ offset' = offset + FillCount
    /\ tran' = tran + n
    /\ buf' = buf \o SubSeq(Filled, 1, n)
    /\ fifo' = SubSeq(Filled, n + 1, Len(Filled))
    /\ UNCHANGED <<op, obj, lost, leaked>>

Sendable == 0..Least(SegLen, Len(Filled))

\* The FIFO has run dry and no more is to come.
Last(n) == n = Len(Filled) /\ ~Partial

DownloadTurn(n) ==
    /\ n \in Sendable
    /\ tran + n <= Len(obj)
    /\ DownloadMoves(n) /\ Clocked(n)
    /\ UNCHANGED <<busy, code>>

DownloadEnd ==
    \E n \in Sendable :
        /\ Last(n) /\ tran + n = Len(obj)
        /\ DownloadMoves(n)
        /\ Ended("NONE") /\ timer' = 0

\* The client's check of the indicated size: too much, or an end too soon.
DownloadRefused ==
    \E n \in Sendable :
        /\ busy /\ op \in Downloads
        /\ tran + n > Len(obj) \/ (tran + n < Len(obj) /\ Last(n))
        /\ Ended(IF tran + n > Len(obj) THEN "DATA_LONG" ELSE "DATA_SHORT")
        /\ offset' = offset + FillCount
        /\ fifo' = Filled
        /\ UNCHANGED <<op, obj, tran, buf, lost, timer, leaked>>

-----------------------------------------------------------------------------
Loop ==
    \/ \E n \in 0..FifoLen : UploadTurn(n) \/ DownloadTurn(n)
    \/ UploadEnd \/ DownloadEnd \/ DownloadRefused
    \/ \E c \in {"REMOTE", "TIMEOUT"} : Aborted(c)

Next ==
    \/ \E f \in Uploads \union Downloads, o \in Object : Begin(f, o)
    \/ \E f \in Uploads \union Downloads, i \in BOOLEAN : BeginFails(f, i)
    \/ Loop

\* The loop of a running thread turns.  Nothing is asked of the remote node: a
\* turn in which the bus moves nothing is a turn too, and the timeout is one.
Silence == UploadTurn(0) \/ DownloadTurn(0) \/ Aborted("TIMEOUT")

Spec == Init /\ [][Next]_vars /\ WF_vars(Silence)

-----------------------------------------------------------------------------
(* Properties.                                                             *)

\* The variables stay in their types, and the functions never give the FIFO
\* more than one FIFO beyond their data.
TypeOK ==
    /\ op \in Uploads \union Downloads
    /\ busy \in BOOLEAN /\ leaked \in BOOLEAN
    /\ obj \in Object \union {<<>>}
    /\ Len(fifo) \in 0..FifoLen
    /\ tran \in 0..Len(obj)
    /\ offset \in 0..(Len(obj) + FifoLen) /\ (offset > 0 => offset < Len(obj) + FifoLen)
    /\ lost \in Nat /\ timer \in 0..Timeout
    /\ code \in {"NONE", "GENERAL", "DATA_LOC_CTRL", "REMOTE", "TIMEOUT", "DATA_LONG", "DATA_SHORT"}

Success == ~busy /\ code = "NONE"

\* A transfer seen from its caller.
Abstract == INSTANCE SdoTransfer WITH
    Kinds <- Uploads \union Downloads,
    Contents <- Object,
    Whole <- LAMBDA k, d : k # "sdo_read" \/ Len(d) <= BufLen,
    Small <- LAMBDA d : Len(d) <= FifoLen,
    Unchecked <- {"sdo_read_to_file"},
    Refusals <- {"DATA_LONG", "DATA_SHORT"},
    kind <- op,
    data <- obj,
    outcome <- IF busy THEN "PENDING" ELSE code,
    moved <- IF Success THEN buf ELSE <<>>,
    missing <- IF Success THEN lost ELSE 0

\* A function that returns CO_SDO_AB_NONE has handed out, or left at the remote
\* node, exactly the data, however the bus cut them up and although the
\* downloads refill the FIFO from beyond their data.  There are two exceptions,
\* and no others: sdo_read_to_file counts as a success what a full disk did not
\* store, with every byte either in the file or among these; and nothing is
\* claimed of an object larger than the buffer of sdo_read, which may be
\* written past its end.  And what fits into the FIFO is never refused for its
\* size: the overlong refill bites only when a second one is needed.
ImplementsSdoTransfer == Abstract!Spec

\* A silent node cannot hold the responder thread: every transfer returns.
TransferEnds == busy ~> ~busy
=============================================================================

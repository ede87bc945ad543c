------------------------------- MODULE OdExt -------------------------------
(***************************************************************************)
(* The segment arithmetic of src/od_extensions/od_ext.c.                   *)
(*                                                                         *)
(* Every object dictionary extension of the daemon moves its data through  *)
(* four helpers: od_ext_read_data, od_ext_write_data, od_ext_read_file and *)
(* od_ext_write_file.  Each is called once per segment of a transfer and   *)
(* keeps its place in the OD_stream_t it is given (dataOffset and          *)
(* dataLength).  The operators below are what one call returns; the        *)
(* modules that own the buffers and files turn them into actions.          *)
(*                                                                         *)
(* The NULL-argument tests of the four functions are left out: every       *)
(* caller passes its own static buffers.                                   *)
(***************************************************************************)
EXTENDS Integers, Sequences

\* The ODR_t codes the extensions return.  ODR is an enumeration of
\* CANopenNode; only the codes that this repository's code uses are listed.
ODR == {"OK", "PARTIAL", "NO_DATA", "DEV_INCOMPAT", "DATA_LONG",
        "DATA_LOC_CTRL", "READONLY", "WRITEONLY", "SUB_NOT_EXIST"}

\* What one call decides from the offset reached so far, the length of the
\* whole object and the room (or the bytes) the caller brings: the code to
\* return, how many bytes to move, and the offset to leave in the stream.
Segment(offset, len, count) ==
    IF offset = 0 /\ len =< count
      THEN [ret |-> "OK", n |-> len, off |-> offset]
    ELSE IF offset >= len
      THEN [ret |-> "DEV_INCOMPAT", n |-> 0, off |-> offset]
    ELSE IF len - offset > count
      THEN [ret |-> "PARTIAL", n |-> count, off |-> offset + count]
      ELSE [ret |-> "OK", n |-> len - offset, off |-> 0]

\* The write variants run the same arithmetic and then refuse a buffer that
\* is longer than what was left of the object.  The offset has been moved by
\* then and stays moved.
WriteSegment(offset, len, count) ==
    LET seg == Segment(offset, len, count)
    IN  IF seg.ret # "DEV_INCOMPAT" /\ seg.n < count
          THEN [ret |-> "DATA_LONG", n |-> 0, off |-> seg.off]
          ELSE seg

\* memcpy(array + offset, buf, Len(buf)) on a C array.  Bytes that land behind
\* the end of the array are memory all the same: they show as elements that
\* the array does not have.
Overwrite(array, offset, buf) ==
    [i \in DOMAIN array \union ((offset + 1)..(offset + Len(buf))) |->
        IF i > offset /\ i =< offset + Len(buf) THEN buf[i - offset] ELSE array[i]]
=============================================================================

---------------------------- MODULE MCOdTransfer ----------------------------
(***************************************************************************)
(* OdTransfer over payloads of every length from 0 to DataMax + 1, so that *)
(* a download can be empty of room, fit in one buffer, need several, or    *)
(* exceed the array.  No payload is a prefix of another.                   *)
(***************************************************************************)
EXTENDS OdTransfer
MCPayload == {<<>>, <<1>>, <<2, 1>>, <<2, 2, 1>>, <<2, 2, 2, 1>>}
=============================================================================

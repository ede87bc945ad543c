--------------------------- MODULE MCFileTransfer ---------------------------
(***************************************************************************)
(* FileTransfer with files of one and of two blocks, all blocks distinct.  *)
(* Files are read by their bare names and written by names and paths.      *)
(***************************************************************************)
EXTENDS FileTransfer
MCBlock == {"a", "b", "c"}
MCContent == {<<"a">>, <<"b", "c">>}
MCOther == [n \in Name |-> <<"b", "c">>]
MCChosen == [e \in Ext |-> {s \in Selection : e = "fread" => s.dir = "cache"}]
=============================================================================

----------------------------- MODULE MCOdConfig -----------------------------
(***************************************************************************)
(* OdConfig with an internal dictionary of three objects, one of them the  *)
(* first TPDO, and files that redefine one of them, bring two RPDOs of     *)
(* different blocks of four, numbers at and beyond the limits of their     *)
(* types, an array, and strings.  8 and 16 bits are those of C; 32 and 64  *)
(* stand for 18 and 20 bits, which TLC's integers can hold.                *)
(***************************************************************************)
EXTENDS OdConfig

MCValues == [w \in Widths |-> CASE w = 8 -> 256 [] w = 16 -> 65536
                                [] w = 32 -> 262144 [] w = 64 -> 1048576]

Written(n, form, odd) ==
    [kind |-> "number", neg |-> n < 0, mag |-> IF n < 0 THEN -n ELSE n, form |-> form, odd |-> odd]
Number(n, odd) == Written(n, "plain", odd)
Word(kind) == [EmptyText EXCEPT !.kind = kind]
Object(type, index, total) ==
    [type |-> type, index |-> index, sub |-> -1, total |-> total,
     dtype |-> <<"invalid", 0>>, text |-> EmptyText]
Var(index, sub, dtype, text) ==
    [type |-> "VAR", index |-> index, sub |-> sub, total |-> 0, dtype |-> dtype, text |-> text]
U(w) == <<"UNSIGNED", w>>
I(w) == <<"INTERGER", w>>

OwnEntry(index, type, mem) ==
    [index |-> index, type |-> type, from |-> "internal", mem |-> mem]
MCInternal ==
    << OwnEntry(4096, "VAR", Cells(1, Int_(0))),
       OwnEntry(6144, "REC", <<[sub |-> 0, val |-> Int_(2)], [sub |-> 1, val |-> Int_(384)]>>),
       OwnEntry(12292, "VAR", Cells(1, Null)) >>

MCRow ==
    { Var(4096, -1, U(32), Number(5, TRUE)),
      Object("REC", 5120, 2), Var(5120, 1, U(32), Number(512, TRUE)),
      Object("REC", 5124, 3), Var(5124, 0, U(8), Number(2, TRUE)),
      Var(5124, 1, U(32), Number(513, TRUE)), Var(5124, 2, U(8), Number(256, TRUE)),
      Object("REC", 6144, 1), Var(6144, 1, U(32), Number(400, TRUE)),
      Object("ARR", 12300, 3), Var(12300, 0, U(8), Number(2, TRUE)),
      Var(12300, 1, U(16), Number(65535, TRUE)), Var(12300, 2, U(16), EmptyText),
      Var(12300, 2, <<"DOMAIN", 0>>, EmptyText),
      Var(16384, -1, I(8), Number(-128, FALSE)), Var(16384, -1, I(8), Number(-129, FALSE)),
      Var(16384, -1, U(16), Number(65536, TRUE)), Var(16384, -1, U(32), Number(262144, TRUE)),
      Var(16384, -1, I(64), Number(-524288, FALSE)), Var(16384, -1, U(64), EmptyText),
      Var(16384, -1, I(16), Written(-16, "unseen", TRUE)),
      Var(16384, -1, <<"BOOLEAN", 0>>, Word("true")),
      Var(16384, -1, <<"BOOLEAN", 0>>, Written(1, "other", FALSE)),
      Var(16384, -1, <<"REAL", 0>>, Word("word")),
      Var(16384, -1, <<"VISIBLE_STRING", 0>>, Number(7, TRUE)),
      Var(16385, -1, <<"OCTET_STRING", 0>>, EmptyText), Var(16385, 0, U(8), EmptyText),
      Var(16386, -1, <<"DOMAIN", 0>>, EmptyText), Object("invalid", 16386, 0) }
=============================================================================

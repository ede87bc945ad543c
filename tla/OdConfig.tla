------------------------------ MODULE OdConfig ------------------------------
(***************************************************************************)
(* How the daemon gets its object dictionary: od_config_load and           *)
(* od_config_free of src/load_configs.c, the node settings that decide     *)
(* which of two ways they go, and what main makes of the result            *)
(* (fix_cob_ids of src/main.c, fill_config of src/canopenlinux/config.c).  *)
(*                                                                         *)
(* The configuration file lists the objects of the card, sorted by index,  *)
(* each with a row of its own and one row per subindex.  A node that is    *)
(* not the network manager merges them into the internal dictionary that   *)
(* is compiled into the daemon; CANopenNode then finds an object by binary *)
(* search.  The file is read line by line: the model chooses each line     *)
(* when it is read.  Rows come in order, below their own index row, and no *)
(* more of them than that row announces; there is one objects comment at   *)
(* most, and its number may be wrong.  Lines end in a newline, every row   *)
(* has its six fields, and an array or a record has a subindex.            *)
(*                                                                         *)
(* The list is malloc'ed for size + 1 entries and filled from the front,   *)
(* so it is the sequence of the entries written; e of the code is          *)
(* Len(list) - 1, and the entries behind it are uninitialized memory.      *)
(***************************************************************************)
EXTENDS Str2Buf, Sequences, FiniteSets

CONSTANTS
    Internal,    \* the entries of the internal dictionary
    Row,         \* the rows that files are made of
    MaxRows,     \* bound: index rows in a file
    MaxRuns,     \* bound: starts of the daemon
    NodeId,      \* node ids
    None         \* no row

Cell == [sub : Nat, val : [tag : {"null", "int", "text", "bytes", "uninit"}, v : Int]]
Entry == [index : Nat \ {0}, type : {"VAR", "ARR", "REC"}, from : {"internal", "file"},
          mem : Seq(Cell)]
RowType == [type : {"VAR", "ARR", "REC", "invalid"}, index : Nat \ {0}, sub : Nat \union {-1},
            total : Nat, dtype : DType, text : Text]

ASSUME InternalAssumption ==
    /\ Internal \in Seq(Entry)
    /\ \A i \in 1..Len(Internal) : Internal[i].from = "internal"
    /\ \A i, j \in 1..Len(Internal) : i < j => Internal[i].index < Internal[j].index
ASSUME RowAssumption ==
    /\ Row \subseteq RowType /\ None \notin Row
    /\ \A r \in Row : r.type \in {"ARR", "REC"} => r.total > 0
ASSUME ConfigBoundAssumption == MaxRows \in Nat /\ MaxRuns \in Nat /\ NodeId \subseteq 0..255

VARIABLES
    conf,      \* the node settings file: "absent", or whether it has the
               \* NetworkManager key
    runs,      \* starts so far
    pc,        \* where the start-up is
    extend,    \* extend_internal_od: the node is not the network manager
    nodeId,
    header,    \* header_skipped
    comment,   \* object_comment_found
    declared,  \* the number in the objects comment
    size,      \* size
    list,      \* od_list up to e; od->list once it is loaded
    copied,    \* internal_od_offset
    lastInt,   \* last_interal_index
    row,       \* the index row whose place is being looked for, or None
    subOffset, \* sub_offset
    default,   \* what data.default_value holds behind its first byte: the
               \* parity of the length of the last default, or "uninit"
    stray,     \* a cell was written beyond the memory of its object
    loadedConf,\* loaded_od_conf
    counts,    \* CNT_RPDO and CNT_TPDO
    freed,     \* the pointers that od_config_free has handed to free(), each
               \* with the position of its entry in the list
    overread,  \* od_config_free ran past the entries that were written
    fileLast,  \* the index of the last index row, and the last subindex below
    subLast,   \* it: what keeps the file sorted
    rows,      \* history: index rows taken into account, and their indices
    given,
    asked      \* history: the rows whose values were taken into account

vars == <<conf, runs, pc, extend, nodeId, header, comment, declared, size, list,
          copied, lastInt, row, subOffset, default, stray, loadedConf, counts, freed,
          overread, fileLast, subLast, rows, given, asked>>

Node == <<conf, runs, extend, nodeId>>
Lines == <<header, comment, declared>>
Merge == <<copied, lastInt>>
Result == <<loadedConf, counts, freed, overread>>
File == <<fileLast, subLast>>
History == <<rows, given, asked>>

Init ==
    /\ conf \in {"absent", "key", "no key"}
    /\ runs = 0 /\ pc = "exited" /\ extend = TRUE /\ nodeId \in NodeId
    /\ header = FALSE /\ comment = FALSE /\ declared = 0
    /\ size = 0 /\ list = <<>> /\ copied = 0 /\ lastInt = 0 /\ row = None
    /\ subOffset = 0 /\ default = "uninit" /\ stray = FALSE
    /\ loadedConf = FALSE /\ counts = <<0, 0>> /\ freed = {} /\ overread = FALSE
    /\ fileLast = 0 /\ subLast = -1 /\ rows = 0 /\ given = {} /\ asked = {}

-----------------------------------------------------------------------------
(* The node settings.                                                      *)

\* Whether the settings make the node the network manager: any value of the
\* key does, as strncpy returns its argument.
node_config_load == conf = "key"

\* The settings written when there are none have the key.
make_node_config == IF conf = "absent" THEN "key" ELSE conf

\* main up to the object dictionary.  option is the -m of the command line.
Start(option) ==
    /\ pc = "exited" /\ runs < MaxRuns
    /\ runs' = runs + 1
    /\ conf' = make_node_config
    /\ extend' = ~(option \/ node_config_load)
    /\ size' = IF extend' THEN Len(Internal) ELSE 0
    /\ pc' = "reading"
    /\ header' = FALSE /\ comment' = FALSE /\ declared' = 0
    /\ list' = <<>> /\ copied' = 0 /\ lastInt' = 0 /\ row' = None
    /\ subOffset' = 0 /\ default' = "uninit" /\ stray' = FALSE
    /\ loadedConf' = FALSE /\ counts' = <<0, 0>> /\ freed' = {} /\ overread' = FALSE
    /\ fileLast' = 0 /\ subLast' = -1 /\ rows' = 0 /\ given' = {} /\ asked' = {}
    /\ UNCHANGED nodeId

-----------------------------------------------------------------------------
(* od_config_load, line by line.                                           *)

\* Reading goes on with the next line.
Reading == pc = "reading" /\ row = None

\* The first line that is not a comment.
HeaderLine ==
    /\ Reading /\ ~header
    /\ header' = TRUE
    /\ UNCHANGED <<Node, pc, comment, declared, size, list, Merge, row, subOffset,
                   default, stray, Result, File, History>>

\* ";objects=n"
ObjectsComment(n) ==
    /\ Reading /\ ~comment
    /\ comment' = TRUE /\ declared' = n
    /\ size' = size + n
    /\ UNCHANGED <<Node, pc, header, list, Merge, row, subOffset, default, stray,
                   Result, File, History>>

\* The rows a sorted file can have next.
NextIndexRow(r) == r.sub = -1 /\ r.index > fileLast
NextSubRow(r) == r.type = "VAR" /\ r.index = fileLast /\ r.sub > subLast

\* A row above the objects comment is dropped.
EarlyRow(r) ==
    /\ Reading /\ header /\ ~comment
    /\ NextIndexRow(r)
    /\ fileLast' = r.index
    /\ UNCHANGED <<Node, pc, Lines, size, list, Merge, row, subOffset, default, stray,
                   Result, subLast, History>>

\* goto error: what was read so far is freed, and main uses the internal
\* dictionary alone.  od_config_free walks the list up to an entry with index
\* 0, which nobody writes: it stops behind the last entry written only if that
\* memory happens to be zero.  Without internal entries and objects comment
\* there is no list at all.  Entries that are (or are named like) internal
\* ones, and an entry whose object could not be made, are passed over.
IsInternal(index) == \E i \in 1..Len(Internal) : Internal[i].index = index

\* The pointers of an object that are freed (a NULL is passed over, or freed to
\* no effect).  The structure behind odObject is given back for a record only.
FreedOf(entry) ==
    CASE entry.type = "VAR" -> {<<"dataOrig", 1>>}
      [] entry.type = "ARR" -> {<<"dataOrig0", 1>>, <<"dataOrig", 1>>}
      [] OTHER -> {<<"dataOrig", k>> : k \in 1..Len(entry.mem)} \union {<<"odObject", 1>>}

\* Mutant of FreedBy: the internal entries are not looked up.
FreedByAll(l, ext) ==
    UNION {{<<i, p>> : p \in FreedOf(l[i])} : i \in {j \in 1..Len(l) : l[j].mem # <<>>}}

FreedBy(l, ext) ==
    UNION {{<<i, p>> : p \in FreedOf(l[i])} :
           i \in {j \in 1..Len(l) : l[j].mem # <<>> /\ ~(ext /\ IsInternal(l[j].index))}}

Error(l, zero) ==
    /\ pc' = "selected"
    /\ freed' = FreedBy(l, extend)
    /\ overread' = (~zero /\ (extend \/ comment))
    /\ UNCHANGED <<loadedConf, counts>>

-----------------------------------------------------------------------------
(* Values.                                                                 *)

Stale == IF default = "uninit" THEN BOOLEAN ELSE {default = "odd"}

\* The values fill_var can store for a row; {} when it fails.  An octet string
\* that has a default gets that overwritten by "0"; one that has none gets
\* "0" and whatever an earlier row left in the buffer behind it.
fill_var(r) ==
    CASE r.dtype[1] = "invalid" -> {}
      [] r.dtype[1] = "DOMAIN" -> {Null}
      [] r.dtype[1] = "VISIBLE_STRING" ->
            {IF r.text.kind = "empty" THEN Null ELSE Tagged("text", r.text.mag)}
      [] r.dtype[1] = "OCTET_STRING" ->
            IF r.text.kind = "empty" THEN {str2buf_bytes(odd) : odd \in Stale} ELSE {Null}
      [] r.text.kind = "empty" -> {Int_(0)}
      [] OTHER -> {Convert(r.dtype, r.text)} \ {Null}

\* default_value after the row, used by fill_var or not.
Left(r, used) ==
    IF r.type # "VAR" \/ r.text.kind = "empty" THEN default
    ELSE IF r.text.odd \/ (used /\ r.dtype[1] = "OCTET_STRING") THEN "odd" ELSE "even"

Cells(n, val) == [i \in 1..n |-> [sub |-> i - 1, val |-> val]]

\* The entries fill_entry_index can make of a row.
fill_entry_index(r) ==
    LET made(mem) == [index |-> r.index, type |-> r.type, from |-> "file", mem |-> mem]
    IN  CASE r.type = "VAR" -> {made(Cells(1, v)) : v \in fill_var(r)}
          [] r.type = "ARR" -> {made(Cells(r.total, Uninit))}
          [] r.type = "REC" -> {made([i \in 1..r.total |-> [sub |-> 0, val |-> Null]])}
          [] OTHER -> {}

\* The entry that a failed fill_entry_index leaves: an index without object.
Unmade(r) == [index |-> r.index, type |-> "VAR", from |-> "file", mem |-> <<>>]

\* The cell that the value of a subindex goes to.  In an array cell 1 is that
\* of subindex 0 and the elements follow; sub_offset has counted the row of
\* subindex 0, and the offset in bytes is a uint8_t.  A DOMAIN element goes to no
\* cell: the pointers were all set to NULL when the first one came.
Size(dtype) == IF dtype[2] \in Widths THEN dtype[2] \div 8 ELSE 1
CellOf(entry, r) ==
    IF entry.type = "REC" THEN subOffset + 1
    ELSE IF r.sub = 0 THEN 1
    ELSE IF r.dtype[1] = "DOMAIN" THEN 0
    ELSE IF r.dtype[1] = "VISIBLE_STRING" \/ r.dtype[1] = "OCTET_STRING" THEN subOffset + 2
    ELSE ((subOffset * Size(r.dtype)) % 256) \div Size(r.dtype) + 2

-----------------------------------------------------------------------------
(* Rows.                                                                   *)

\* The check behind every row: e > size.
Beyond(l, n) == Len(l) - 1 > n

IndexRow(r) ==
    /\ Reading /\ header /\ comment /\ rows < MaxRows
    /\ NextIndexRow(r)
    /\ row' = r
    /\ fileLast' = r.index /\ subLast' = -1
    /\ UNCHANGED <<Node, pc, Lines, size, list, Merge, subOffset, default, stray,
                   Result, History>>

\* Mutant of Before: an internal entry of the same index is not copied.
BeforeOnly(index) == copied < Len(Internal) /\ index > Internal[copied + 1].index

\* The condition of the loop that copies internal entries.
Before(index) == copied < Len(Internal) /\ index >= Internal[copied + 1].index

\* One turn of it.
CopyInternal ==
    /\ row # None /\ extend /\ Before(row.index)
    /\ list' = Append(list, Internal[copied + 1])
    /\ lastInt' = Internal[copied + 1].index
    /\ copied' = copied + 1
    /\ UNCHANGED <<Node, pc, Lines, size, row, subOffset, default, stray, Result,
                   File, History>>

Redefines(index) == extend /\ index = lastInt

\* Mutant of Shrunk: the subindex rows of the object are counted down too.
ShrunkTwice == size - 2

\* size after a redefined object.
Shrunk == size - 1

\* The internal definition wins over that of the file.
SkipIndex(zero) ==
    /\ row # None /\ ~(extend /\ Before(row.index))
    /\ Redefines(row.index)
    /\ size' = Shrunk
    /\ row' = None /\ subOffset' = 0 /\ default' = Left(row, FALSE)
    /\ rows' = rows + 1 /\ given' = given \union {row.index}
    /\ IF Beyond(list, Shrunk) THEN Error(list, zero) ELSE UNCHANGED <<pc, Result>>
    /\ UNCHANGED <<Node, Lines, list, Merge, stray, File, asked>>

PlaceIndex(zero) ==
    /\ row # None /\ ~(extend /\ Before(row.index))
    /\ ~Redefines(row.index)
    /\ row' = None /\ subOffset' = 0 /\ default' = Left(row, TRUE)
    /\ rows' = rows + 1 /\ given' = given \union {row.index}
    /\ \/ \E entry \in fill_entry_index(row) :
             /\ list' = Append(list, entry)
             /\ asked' = IF row.type = "VAR"
                           THEN asked \union {[row EXCEPT !.sub = 0]} ELSE asked
             /\ IF Beyond(list', size) THEN Error(list', zero) ELSE UNCHANGED <<pc, Result>>
       \/ /\ fill_entry_index(row) = {}
          /\ list' = Append(list, Unmade(row)) /\ asked' = asked
          /\ Error(list', zero)
    /\ UNCHANGED <<Node, Lines, size, Merge, stray, File>>

\* The row of a subindex, for the entry last made.
SubRow(r, zero) ==
    LET at == CellOf(list[Len(list)], r)
        mem == list[Len(list)].mem
    IN
    /\ Reading /\ header /\ comment /\ rows > 0
    /\ NextSubRow(r)
    /\ subLast' = r.sub /\ subOffset' = subOffset + 1 /\ default' = Left(r, ~Redefines(r.index))
    /\ \/ /\ Redefines(r.index)
          /\ UNCHANGED <<list, stray, asked, pc, Result>>
       \/ /\ ~Redefines(r.index)
          /\ subOffset < Len(mem)
          /\ \/ /\ list[Len(list)].type # "VAR"
                /\ \E v \in fill_var(r) :
                      IF at \in 1..Len(mem)
                        THEN /\ list' = [list EXCEPT ![Len(list)].mem[at] = [sub |-> r.sub, val |-> v]]
                             /\ UNCHANGED stray
                        ELSE stray' = (stray \/ at > 0) /\ UNCHANGED list
                /\ asked' = asked \union {r}
                /\ UNCHANGED <<pc, Result>>
             \/ /\ list[Len(list)].type = "VAR" \/ fill_var(r) = {}
                /\ Error(list, zero)
                /\ UNCHANGED <<list, stray, asked>>
    /\ UNCHANGED <<Node, Lines, size, Merge, row, fileLast, rows, given>>

\* The end of the file.
Eof(zero) ==
    /\ Reading
    /\ IF comment
         THEN pc' = "selected" /\ loadedConf' = TRUE /\ UNCHANGED <<counts, freed, overread>>
         ELSE Error(list, zero)
    /\ UNCHANGED <<Node, Lines, size, list, Merge, row, subOffset, default, stray, File,
                   History>>

\* The file cannot be opened.
NoFile ==
    /\ Reading /\ ~header /\ ~comment
    /\ pc' = "selected"
    /\ UNCHANGED <<Node, Lines, size, list, Merge, row, subOffset, default, stray,
                   Result, File, History>>

-----------------------------------------------------------------------------
(* main, once the file is read.                                            *)

RPDO == 5120..5631      \* 0x1400 to 0x15FF
TPDO == 6144..6655      \* 0x1800 to 0x19FF

\* Mutant of DefaultCobId: the block of four is not added.
DefaultCobIdFirst(index) ==
    IF index \in RPDO
      THEN 512 + 256 * ((index - 5120) % 4)
      ELSE 384 + 256 * ((index - 6144) % 4)

\* The COB-ID of a PDO whose configuration leaves it to the node id.
DefaultCobId(index) ==
    IF index \in RPDO
      THEN 512 + 256 * ((index - 5120) % 4) + (index - 5120) \div 4
      ELSE 384 + 256 * ((index - 6144) % 4) + (index - 6144) \div 4

\* OD_getSub of CANopenNode (external) finds a subindex by its number: the
\* first cell that has it.
HasSub(entry, sub) == \E k \in 1..Len(entry.mem) : entry.mem[k].sub = sub
FirstSub(entry, sub) ==
    CHOOSE k \in 1..Len(entry.mem) :
        entry.mem[k].sub = sub /\ \A j \in 1..(k - 1) : entry.mem[j].sub # sub

\* OD_get_u32 and OD_set_u32 look at subindex 1.
HasCobId(entry) ==
    /\ entry.index \in RPDO \union TPDO
    /\ HasSub(entry, 1) /\ entry.mem[FirstSub(entry, 1)].val.tag = "int"
CobId(entry) == entry.mem[FirstSub(entry, 1)].val.v

Fixed(entry) ==
    IF HasCobId(entry) /\ CobId(entry) % 2048 = DefaultCobId(entry.index)
      THEN [entry EXCEPT !.mem[FirstSub(entry, 1)].val.v = @ + nodeId]
      ELSE entry

\* The dictionary in use: the merged one, or the internal one alone.
fix_cob_ids ==
    /\ pc = "selected"
    /\ LET od == IF loadedConf THEN list ELSE Internal IN
          list' = [i \in 1..Len(od) |-> Fixed(od[i])]
    /\ size' = IF loadedConf THEN size ELSE Len(Internal)
    /\ pc' = "fixed"
    /\ UNCHANGED <<Node, Lines, Merge, row, subOffset, default, stray, Result, File,
                   History>>

\* OD_find of CANopenNode (external) in the list l of n entries: a binary
\* search; 0 when there is none, and when it meets uninitialized memory.
Search(l, index, search, low, high) ==
    LET cur == (low + high) \div 2
        at == IF cur + 1 <= Len(l) THEN l[cur + 1].index ELSE 0
    IN  IF low > high THEN 0
        ELSE IF at = index THEN cur + 1
        ELSE IF low = high \/ at = 0 THEN 0
        ELSE IF index < at
          THEN IF cur = 0 THEN 0 ELSE search[<<low, cur - 1>>]
        ELSE search[<<cur + 1, high>>]
OD_find(l, n, index) ==
    LET search[b \in (0..n) \X (0..n)] == Search(l, index, search, b[1], b[2])
    IN  IF n = 0 THEN 0 ELSE search[<<0, n - 1>>]

\* The entries from position first on whose index is below end: the loops of
\* fill_config, which look at nothing but the index.
RunLength(l, first, end) ==
    IF first = 0 THEN 0
    ELSE Cardinality({i \in first..Len(l) : \A j \in first..i : l[j].index < end})

fill_config ==
    /\ pc = "fixed"
    /\ counts' = <<RunLength(list, OD_find(list, size, 5120), 5632),
                   RunLength(list, OD_find(list, size, 6144), 6656)>>
    /\ pc' = "running"
    /\ UNCHANGED <<Node, Lines, size, list, Merge, row, subOffset, default, stray,
                   loadedConf, freed, overread, File, History>>

\* The end of main: od_config_free, if a file was loaded.
Exit(zero) ==
    /\ pc = "running"
    /\ pc' = "exited"
    /\ IF loadedConf
         THEN freed' = FreedBy(list, extend) /\ overread' = ~zero
         ELSE UNCHANGED <<freed, overread>>
    /\ UNCHANGED <<Node, Lines, size, list, Merge, row, subOffset, default, stray,
                   loadedConf, counts, File, History>>

Next ==
    \/ \E option \in BOOLEAN : Start(option)
    \/ HeaderLine \/ NoFile \/ CopyInternal
    \/ \E n \in 0..MaxRows : ObjectsComment(n)
    \/ \E r \in Row : EarlyRow(r) \/ IndexRow(r)
    \/ \E zero \in BOOLEAN :
          \/ SkipIndex(zero) \/ PlaceIndex(zero) \/ Eof(zero) \/ Exit(zero)
          \/ \E r \in Row : SubRow(r, zero)
    \/ fix_cob_ids \/ fill_config

Spec == Init /\ [][Next]_vars

-----------------------------------------------------------------------------
(* Properties.                                                             *)

\* The variables stay in their types, sizes above zero; size is a uint32_t
\* that the skipped rows count down.
TypeOK ==
    /\ pc \in {"exited", "reading", "selected", "fixed", "running"}
    /\ {extend, header, comment, stray, loadedConf, overread} \subseteq BOOLEAN
    /\ declared \in Nat /\ size \in Nat /\ rows \in Nat /\ nodeId \in NodeId
    /\ list \in Seq(Entry)
    /\ copied \in 0..Len(Internal) /\ lastInt \in Nat /\ fileLast \in Nat
    /\ row \in Row \union {None}
    /\ subOffset \in Nat /\ subLast \in Nat \union {-1}
    /\ default \in {"uninit", "odd", "even"}
    /\ given \subseteq Nat /\ asked \subseteq RowType

Indices(l) == {l[i].index : i \in 1..Len(l)}
Sorted(l) == \A i, j \in 1..Len(l) : i < j => l[i].index < l[j].index

\* A file was loaded that has as many objects as its comment says, the last of
\* them behind the last internal one.
Whole ==
    /\ pc \in {"selected", "fixed", "running"} /\ loadedConf
    /\ rows = declared
    /\ extend => copied = Len(Internal)

\* The merge.  While a file has no more objects than its comment says, no entry
\* is written outside of the list, however many internal entries come in
\* between and however many objects of the file redefine one.  If in the end
\* it has exactly as many, and reaches behind the last internal entry, then
\* the size that was counted up and down is the number of entries written:
\* no uninitialized entry is left in the list; it is strictly sorted, as
\* OD_find needs it; and it has every object of both sides once, the
\* internal one where there are two.
ListExact ==
    /\ pc = "reading" /\ rows <= declared => Len(list) <= size
    /\ Whole =>
          /\ Len(list) = size
          /\ Sorted(list)
          /\ Indices(list) = given \union (IF extend THEN Indices(Internal) ELSE {})
          /\ extend => \A i \in 1..Len(list) :
                IsInternal(list[i].index) => list[i].from = "internal"

\* What a read of a subindex finds.
Read(entry, sub) ==
    IF HasSub(entry, sub) THEN entry.mem[FirstSub(entry, sub)].val ELSE Uninit

IsNumber(dtype) == dtype[1] \in {"INTERGER", "UNSIGNED"}

\* What a row says the value is, its number taken as the conversions read it;
\* for one that does not fit 32 or 64 bits nobody says.
AsWritten(entry, r) ==
    LET val == Read(entry, r.sub) IN
    /\ IsNumber(r.dtype) /\ r.text.kind = "empty" => val = Int_(0)
    /\ IsNumber(r.dtype) /\ Fits(r.dtype, r.text) => val = Int_(Denoted(r.text))

\* Every number that a loaded file gives to a variable or to a subindex of a
\* record is the value of that very subindex, whatever other rows of the file
\* are skipped, and no file is loaded whose number does not fit its 8 or 16
\* bits.
DefaultsKept ==
    pc = "selected" /\ loadedConf =>
        \A i \in 1..Len(list), r \in asked :
            list[i].index = r.index /\ list[i].type # "ARR" =>
                /\ AsWritten(list[i], r)
                /\ IsNumber(r.dtype) /\ Checked(r.dtype[2]) =>
                      r.text.kind = "empty" \/ Fits(r.dtype, r.text)

\* The pointers through which the memory of an object made of the file is
\* reached: fill_entry_index and fill_entry_subindex have allocated all of it.
Held(entry) ==
    {<<"odObject", 1>>} \union
    CASE entry.type = "VAR" -> {<<"dataOrig", 1>>}
      [] entry.type = "ARR" -> {<<"dataOrig0", 1>>, <<"dataOrig", 1>>}
                                 \union {<<"element", k>> : k \in 2..Len(entry.mem)}
      [] OTHER -> {<<"dataOrig", k>> : k \in 1..Len(entry.mem)}

\* What od_config_free leaks: the structure of a variable or an array, and the
\* strings that the elements of an array of strings point to.
Leaked(entry) ==
    IF entry.type = "REC" THEN {}
    ELSE {<<"odObject", 1>>} \union {<<"element", k>> : k \in 2..Len(entry.mem)}

\* od_config_free tells the objects that were made of the file from the internal
\* ones, whose memory is static, by their indices alone, after any merge: of the
\* former it gives back all but exactly what it is known to leak, of the latter
\* nothing, at the end and after a load that failed at any row.  (What it does
\* behind the entries written, if the memory there is not zero, is not said.)
FreeExact ==
    \/ pc = "selected" /\ ~loadedConf
    \/ pc = "exited" /\ loadedConf
    => freed = UNION {{<<i, p>> : p \in Held(list[i]) \ Leaked(list[i])} :
                      i \in {j \in 1..Len(list) : list[j].from = "file" /\ list[j].mem # <<>>}}

\* The first PDO of a kind and an object behind the last one are there.
Bounded(first, range) ==
    /\ \E i \in 1..Len(list) : list[i].index = first
    /\ \E i \in 1..Len(list) : \A n \in range : list[i].index > n

\* CANopenNode finds every object of the list by its index and is told the
\* right number of PDOs; and two PDOs of the node whose COB-IDs were left to
\* the node id never get the same one, although the blocks of 256 that the
\* numbers are taken from overlap.
PdosConfigured ==
    pc = "running" /\ (Whole \/ ~loadedConf) =>
        /\ \A i \in 1..Len(list) : OD_find(list, size, list[i].index) = i
        /\ Bounded(5120, RPDO) => counts[1] = Cardinality(Indices(list) \intersect RPDO)
        /\ Bounded(6144, TPDO) => counts[2] = Cardinality(Indices(list) \intersect TPDO)
        /\ LET ByNode == {i \in 1..Len(list) :
                  HasCobId(list[i]) /\ CobId(list[i]) % 2048 \in
                      {DefaultCobId(list[i].index), DefaultCobId(list[i].index) + nodeId}}
           IN  \A i, j \in ByNode :
                  i # j => CobId(list[i]) % 2048 # CobId(list[j]) % 2048

\* A loaded file's defaults are the values that are read, those of arrays too
\* ("don't include sub0"), none is written beyond its object, and an octet
\* string without default is empty ("default set by reset_tmp_data()").
DefaultsLoaded ==
    pc = "selected" /\ loadedConf =>
        /\ ~stray
        /\ \A i \in 1..Len(list), r \in asked :
              list[i].index = r.index =>
                  /\ AsWritten(list[i], r)
                  /\ r.dtype[1] = "OCTET_STRING" /\ r.text.kind = "empty" =>
                        Read(list[i], r.sub) = Null
=============================================================================

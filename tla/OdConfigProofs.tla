--------------------------- MODULE OdConfigProofs ---------------------------
(***************************************************************************)
(* Proofs about OdConfig, for every internal dictionary and every sorted   *)
(* configuration file: the merge, the values, what is freed, and what      *)
(* CANopenNode finds.                                                      *)
(*                                                                         *)
(* The inductive invariant is that of a merge of two sorted sequences,     *)
(* with the balance of its counters: the room left in the list is what the *)
(* file has announced and not brought plus the internal entries that are   *)
(* still to be copied.                                                     *)
(***************************************************************************)
EXTENDS OdConfig, SequenceTheorems, FiniteSetTheorems, FunctionTheorems, WellFoundedInduction,
        TLAPS

\* The list is being made of the file, or has been.
Merging == pc = "reading" \/ loadedConf

\* The list is what od_config_load has left.
Kept == Merging \/ pc = "selected"

\* The number of internal entries to merge.
Own == IF extend THEN Len(Internal) ELSE 0

\* Where the start-up is.
Phases ==
    /\ row # None => pc = "reading" /\ header /\ comment /\ row.index = fileLast /\ row.sub = -1
    /\ pc = "reading" => ~loadedConf
    /\ Kept /\ ~comment =>
          rows = 0 /\ given = {} /\ declared = 0 /\ list = <<>> /\ copied = 0 /\ asked = {}
    /\ loadedConf => comment

\* The room left in the list; skipped rows are below the entries copied.
Balance ==
    Merging =>
        /\ copied <= Own
        /\ size - Len(list) = (Own - copied) + (declared - rows)
        /\ rows <= Len(list)
        /\ copied > 0 /\ lastInt \notin given => rows < Len(list)

\* The two sides of the merge: what has come from each is below what is next.
Sides ==
    Kept =>
        /\ lastInt = IF copied = 0 THEN 0 ELSE Internal[copied].index
        /\ copied > 0 => extend
        /\ lastInt <= fileLast
        /\ \A g \in given : g <= fileLast /\ (row # None => g < fileLast)
        /\ \A g \in given : copied < Own => g < Internal[copied + 1].index
        /\ Indices(list) = given \union {Internal[k].index : k \in 1..copied}
        /\ Sorted(list)
        /\ \A i \in 1..Len(list) :
              (list[i].from = "internal") = (extend /\ IsInternal(list[i].index))

\* od_config_free runs over the list after a failed load and at the end.
Frees ==
    /\ pc = "reading" => freed = {}
    /\ pc = "selected" /\ ~loadedConf => freed = FreedBy(list, extend)
    /\ pc = "exited" /\ loadedConf => freed = FreedBy(list, extend)

\* The value stored for a row.
Stored(val, r) ==
    /\ IsNumber(r.dtype) /\ r.text.kind = "empty" => val = Int_(0)
    /\ IsNumber(r.dtype) /\ Fits(r.dtype, r.text) => val = Int_(Denoted(r.text))
    /\ IsNumber(r.dtype) /\ Checked(r.dtype[2]) => r.text.kind = "empty" \/ Fits(r.dtype, r.text)

\* Cell k is the first one with the subindex of the row, and has its value.
Holds(entry, r, k) ==
    /\ entry.mem[k].sub = r.sub /\ \A j \in 1..(k - 1) : entry.mem[j].sub # r.sub
    /\ Stored(entry.mem[k].val, r)

\* Values are where they belong.
Values_ ==
    pc = "reading" \/ (pc = "selected" /\ loadedConf) =>
        /\ \A r \in asked : r.index \in given
        /\ \A i \in 1..Len(list), r \in asked :
              list[i].index = r.index /\ list[i].type # "ARR" =>
                  \E k \in 1..Len(list[i].mem) : Holds(list[i], r, k)

\* The object whose subindices are being read: it is the last of the list, and
\* the cells of a record are filled in the order of their subindices.
Current ==
    pc = "reading" /\ row = None /\ rows > 0 /\ ~Redefines(fileLast) =>
        /\ list # <<>> /\ list[Len(list)].index = fileLast /\ fileLast \in given
        /\ list[Len(list)].type = "REC" =>
              /\ \A k \in 1..Len(list[Len(list)].mem) :
                    k <= subOffset => list[Len(list)].mem[k].sub <= subLast
              /\ \A r \in asked : r.index = fileLast =>
                    \E k \in 1..Len(list[Len(list)].mem) :
                        k <= subOffset /\ Holds(list[Len(list)], r, k)

\* A COB-ID that is left to the node id and does not have it.
Unfixed(entry) ==
    HasCobId(entry) /\ nodeId # 0 /\ CobId(entry) % 2048 = DefaultCobId(entry.index)

\* The dictionary that CANopenNode uses.
InUse ==
    pc \in {"fixed", "running"} =>
        /\ ~loadedConf => size = Len(list) /\ Sorted(list)
        /\ \A i \in 1..Len(list) : ~Unfixed(list[i])
        /\ pc = "running" =>
              counts = <<RunLength(list, OD_find(list, size, 5120), 5632),
                         RunLength(list, OD_find(list, size, 6144), 6656)>>

IInv == /\ TypeOK /\ Phases /\ Balance /\ Sides /\ Frees
        /\ Values_ /\ Current /\ InUse

-----------------------------------------------------------------------------
(* Values.                                                                 *)

Val == [tag : {"null", "int", "text", "bytes", "uninit"}, v : Int]

LEMMA TaggedType ==
    ASSUME NEW tag \in {"null", "int", "text", "bytes", "uninit"}, NEW v \in Int
    PROVE  Tagged(tag, v) \in Val
  BY DEF Tagged, Val

LEMMA NullType == Null \in Val /\ Uninit \in Val
  BY TaggedType DEF Null, Uninit

LEMMA IntType == ASSUME NEW v \in Int PROVE Int_(v) \in Val /\ Int_(v) # Null
  BY TaggedType DEF Int_, Null, Tagged

\* The sizes of the types, as numbers.
LEMMA Sizes ==
    ASSUME NEW w \in Widths
    PROVE  /\ Values[w] \in Nat \ {0} /\ Values[w] % 2 = 0
           /\ Values[w] = 2 * (Values[w] \div 2) /\ Values[w] \div 2 \in Nat
           /\ Total(w) \in Nat \ {0} /\ Total(w) = 2 * (Total(w) \div 2) /\ Total(w) \div 2 \in Nat
           /\ Values[w] <= Total(w)
           /\ Checked(w) => Values[w] < Total(w)
  <1>1. \A n \in Nat : n % 2 = 0 => n = 2 * (n \div 2) /\ n \div 2 \in Nat
    OBVIOUS
  <1>2. \A x \in Widths : Values[x] \in Nat \ {0} /\ Values[x] % 2 = 0
    BY ValuesAssumption
  <1>3. 8 \in Widths /\ 16 \in Widths /\ 32 \in Widths /\ 64 \in Widths
    BY DEF Widths
  <1>4. w = 8 \/ w = 16 \/ w = 32 \/ w = 64
    BY DEF Widths
  <1>5. Total(w) = Values[64] \/ (Total(w) = Values[32] /\ w # 64)
    BY ValuesAssumption DEF Total
  <1>6. Values[w] <= Total(w) /\ (Checked(w) => Values[w] < Total(w))
    BY <1>2, <1>3, <1>4, <1>5, ValuesAssumption DEF Checked
  <1>7. Total(w) \in Nat \ {0} /\ Total(w) % 2 = 0
    BY <1>2, <1>3, <1>5
  <1> QED BY <1>1, <1>2, <1>6, <1>7

LEMMA DenotedType ==
    ASSUME NEW t \in Text PROVE Denoted(t) \in Int /\ Magnitude(t) \in Nat /\ t.mag \in Nat /\ t.neg \in BOOLEAN
  <1>1. Magnitude(t) \in Nat /\ t.mag \in Nat /\ t.neg \in BOOLEAN
    BY DEF Text, Magnitude
  <1> QED BY <1>1 DEF Denoted

\* A number within the range of its type is converted to itself; a narrow
\* conversion that succeeds had such a number.
LEMMA UnsignedExact ==
    ASSUME NEW w \in Widths, NEW t \in Text
    PROVE  /\ str2buf_uint(w, t) \in Val
           /\ t.kind = "number" /\ ~t.neg /\ Magnitude(t) < Values[w] =>
                 str2buf_uint(w, t) = Int_(Denoted(t))
           /\ Checked(w) /\ str2buf_uint(w, t) # Null =>
                 t.kind = "number" /\ ~t.neg /\ Magnitude(t) < Values[w]
  <1> DEFINE V == Values[w]  T == Total(w)  m == Magnitude(t)  u == StrToU(w, t)
  <1>1. V \in Nat \ {0} /\ T \in Nat \ {0} /\ V <= T /\ (Checked(w) => V < T)
    BY Sizes
  <1>2. m \in Nat /\ Denoted(t) \in Int
    BY DenotedType
  <1>3. u = Clamp(m, 0, T - 1)
    BY DEF StrToU
  <1> HIDE DEF V, T, m, u
  <1>4. u \in Int /\ 0 <= u /\ (m <= T - 1 => u = m) /\ (m > T - 1 => u = T - 1)
    BY <1>1, <1>2, <1>3 DEF Clamp
  <1>5. u % V \in Int
    BY <1>1, <1>4
  <1>6. str2buf_uint(w, t) =
          IF t.kind # "number" \/ t.neg \/ (Checked(w) /\ u > V - 1) THEN Null ELSE Int_(u % V)
    BY DEF str2buf_uint, u, V
  <1>7. str2buf_uint(w, t) \in Val
    BY <1>5, <1>6, NullType, IntType
  <1>8. ASSUME t.kind = "number", ~t.neg, m < V
        PROVE  str2buf_uint(w, t) = Int_(Denoted(t))
    <2>1. u = m /\ ~(u > V - 1) /\ u % V = m
      BY <1>1, <1>2, <1>4, <1>8
    <2>2. Denoted(t) = m
      BY <1>8 DEF Denoted, m
    <2> QED BY <1>6, <1>8, <2>1, <2>2
  <1>9. ASSUME Checked(w), str2buf_uint(w, t) # Null
        PROVE  t.kind = "number" /\ ~t.neg /\ m < V
    <2>1. t.kind = "number" /\ ~t.neg /\ ~(u > V - 1)
      BY <1>6, <1>9
    <2> QED BY <1>1, <1>2, <1>4, <1>9, <2>1
  <1> QED BY <1>7, <1>8, <1>9 DEF V, m

LEMMA SignedExact ==
    ASSUME NEW w \in Widths, NEW t \in Text
    PROVE  LET half == Values[w] \div 2 IN
           /\ str2buf_int(w, t) \in Val
           /\ t.kind = "number" /\ -half <= Denoted(t) /\ Denoted(t) < half =>
                 str2buf_int(w, t) = Int_(Denoted(t))
           /\ Checked(w) /\ str2buf_int(w, t) # Null =>
                 t.kind = "number" /\ -half <= Denoted(t) /\ Denoted(t) < half
  <1> DEFINE V == Values[w]  half == V \div 2  T == Total(w) \div 2  d == Denoted(t)  x == StrToI(w, t)
  <1>1. /\ V \in Nat \ {0} /\ V = 2 * half /\ half \in Nat
        /\ T \in Nat /\ half <= T /\ (Checked(w) => half < T) /\ T > 0
    <2>1. V \in Nat \ {0} /\ V = 2 * half /\ half \in Nat
      BY Sizes
    <2>2. Total(w) \in Nat \ {0} /\ Total(w) = 2 * T /\ T \in Nat /\ V <= Total(w) /\ (Checked(w) => V < Total(w))
      BY Sizes
    <2> HIDE DEF V, half, T
    <2> QED BY <2>1, <2>2
  <1>2. d \in Int
    BY DenotedType
  <1>3. x = Clamp(d, -T, T - 1)
    BY DEF StrToI
  <1>4. str2buf_int(w, t) =
          IF t.kind # "number" \/ (Checked(w) /\ (x < -half \/ x > half - 1))
            THEN Null ELSE Int_(((x + half) % V) - half)
    BY DEF str2buf_int
  <1> HIDE DEF V, half, T, d, x
  <1>5. /\ x \in Int
        /\ -T <= d /\ d <= T - 1 => x = d
        /\ d < -T => x = -T
        /\ d > T - 1 => x = T - 1
    <2>1. -T \in Int /\ T - 1 \in Int /\ -T <= T - 1
      BY <1>1
    <2> QED BY <1>1, <1>2, <1>3, <2>1 DEF Clamp
  <1>6. ((x + half) % V) - half \in Int
    BY <1>1, <1>5
  <1>7. str2buf_int(w, t) \in Val
    BY <1>4, <1>6, NullType, IntType
  <1>8. ASSUME t.kind = "number", -half <= d, d < half
        PROVE  str2buf_int(w, t) = Int_(d)
    <2>1. x = d
      BY <1>1, <1>2, <1>5, <1>8
    <2>2. (d + half) % V = d + half
      BY <1>1, <1>2, <1>8
    <2>3. ((x + half) % V) - half = d
      BY <1>1, <1>2, <2>1, <2>2
    <2>4. ~(x < -half \/ x > half - 1)
      BY <1>1, <1>2, <1>8, <2>1
    <2> QED BY <1>4, <1>8, <2>3, <2>4
  <1>9. ASSUME Checked(w), str2buf_int(w, t) # Null
        PROVE  t.kind = "number" /\ -half <= d /\ d < half
    <2>1. t.kind = "number" /\ ~(x < -half \/ x > half - 1)
      BY <1>4, <1>9
    <2> QED BY <1>1, <1>2, <1>5, <1>9, <2>1
  <1> QED BY <1>7, <1>8, <1>9 DEF half, V, d

LEMMA IntTypesPairs ==
    ASSUME NEW d \in DType
    PROVE  /\ IsNumber(d) => d[2] \in Widths
           /\ d[1] \in {"INTERGER", "UNSIGNED", "BOOLEAN", "REAL", "VISIBLE_STRING", "OCTET_STRING",
                        "DOMAIN", "invalid"}
  BY DEF DType, IntTypes, IsNumber, Widths

LEMMA ConvertExact ==
    ASSUME NEW d \in DType, NEW t \in Text
    PROVE  /\ Convert(d, t) \in Val
           /\ IsNumber(d) /\ Fits(d, t) => Convert(d, t) = Int_(Denoted(t)) /\ Convert(d, t) # Null
           /\ IsNumber(d) /\ Checked(d[2]) /\ Convert(d, t) # Null => Fits(d, t)
  <1>1. CASE d[1] = "INTERGER"
    <2>1. d[2] \in Widths /\ IsNumber(d)
      BY <1>1, IntTypesPairs DEF IsNumber
    <2>2. Convert(d, t) = str2buf_int(d[2], t)
      BY <1>1 DEF Convert
    <2>3. Fits(d, t) <=> /\ t.kind = "number" /\ -(Values[d[2]] \div 2) <= Denoted(t)
                         /\ Denoted(t) < Values[d[2]] \div 2
      BY <1>1 DEF Fits
    <2> QED BY <2>1, <2>2, <2>3, SignedExact, DenotedType, IntType
  <1>2. CASE d[1] = "UNSIGNED"
    <2>1. d[2] \in Widths /\ IsNumber(d)
      BY <1>2, IntTypesPairs DEF IsNumber
    <2>2. Convert(d, t) = str2buf_uint(d[2], t)
      BY <1>2 DEF Convert
    <2>3. Fits(d, t) <=> t.kind = "number" /\ ~t.neg /\ Magnitude(t) < Values[d[2]]
      BY <1>2 DEF Fits
    <2> QED BY <2>1, <2>2, <2>3, UnsignedExact, DenotedType, IntType
  <1>3. CASE d[1] # "INTERGER" /\ d[1] # "UNSIGNED"
    <2>1. ~IsNumber(d)
      BY <1>3 DEF IsNumber
    <2>2. Convert(d, t) = IF d[1] = "BOOLEAN" THEN str2buf_bool(t) ELSE str2buf_float(t)
      BY <1>3 DEF Convert
    <2>3. str2buf_bool(t) \in Val
      BY NullType, IntType DEF str2buf_bool
    <2>4. str2buf_float(t) \in Val
      BY NullType, IntType, DenotedType DEF str2buf_float
    <2> QED BY <2>1, <2>2, <2>3, <2>4
  <1> QED BY <1>1, <1>2, <1>3

LEMMA RowFields ==
    ASSUME NEW r \in RowType
    PROVE  /\ r.type \in {"VAR", "ARR", "REC", "invalid"} /\ r.index \in Nat \ {0}
           /\ r.sub \in Nat \union {-1} /\ r.total \in Nat
           /\ r.dtype \in DType /\ r.text \in Text /\ r.text.mag \in Nat
  BY DEF RowType, Text

\* What fill_var stores is a value, and the value the row asks for.
LEMMA FillVar ==
    ASSUME NEW r \in RowType, NEW v \in fill_var(r)
    PROVE  v \in Val /\ Stored(v, r)
  <1> DEFINE d == r.dtype  t == r.text
  <1>1. d \in DType /\ t \in Text /\ t.mag \in Int
    BY RowFields
  <1>2. CASE IsNumber(d)
    <2>1. d[1] # "invalid" /\ d[1] # "DOMAIN" /\ d[1] # "VISIBLE_STRING" /\ d[1] # "OCTET_STRING"
      BY <1>2 DEF IsNumber
    <2>2. CASE t.kind = "empty"
      <3>1. v = Int_(0)
        BY <2>1, <2>2 DEF fill_var
      <3>2. ~Fits(d, t)
        BY <2>2 DEF Fits
      <3> QED BY <2>2, <3>1, <3>2, IntType DEF Stored
    <2>3. CASE t.kind # "empty"
      <3>1. v = Convert(d, t) /\ v # Null
        BY <2>1, <2>3 DEF fill_var
      <3>2. v \in Val /\ (Fits(d, t) => v = Int_(Denoted(t))) /\ (Checked(d[2]) => Fits(d, t))
        BY <1>1, <1>2, <3>1, ConvertExact
      <3> QED BY <2>3, <3>2 DEF Stored
    <2> QED BY <2>2, <2>3
  <1>3. CASE ~IsNumber(d)
    <2>1. Stored(v, r)
      BY <1>3 DEF Stored
    <2>2. Tagged("text", t.mag) \in Val /\ Null \in Val /\ Int_(0) \in Val /\ Convert(d, t) \in Val
      BY <1>1, TaggedType, NullType, IntType, ConvertExact
    <2>3. \A odd : str2buf_bytes(odd) \in Val
      BY TaggedType, NullType DEF str2buf_bytes
    <2>4. v \in Val
      BY <2>2, <2>3 DEF fill_var
    <2> QED BY <2>1, <2>4
  <1> QED BY <1>2, <1>3

LEMMA CellsType ==
    ASSUME NEW n \in Nat, NEW val \in Val
    PROVE  Cells(n, val) \in Seq(Cell) /\ Len(Cells(n, val)) = n
  <1>1. \A i \in 1..n : [sub |-> i - 1, val |-> val] \in Cell
    BY DEF Cell, Val
  <1>2. Cells(n, val) \in [1..n -> Cell]
    BY <1>1 DEF Cells
  <1> QED BY <1>2, SeqDef, LenProperties

\* What fill_entry_index makes of a row.
LEMMA FillEntry ==
    ASSUME NEW r \in RowType, NEW entry \in fill_entry_index(r)
    PROVE  /\ entry \in Entry /\ entry.index = r.index /\ entry.from = "file" /\ entry.type = r.type
           /\ r.type = "VAR" => \E v \in fill_var(r) : entry.mem = Cells(1, v)
  <1>1. r.index \in Nat \ {0} /\ r.total \in Nat
    BY RowFields
  <1>2. CASE r.type = "VAR"
    <2>1. PICK v \in fill_var(r) :
             entry = [index |-> r.index, type |-> r.type, from |-> "file", mem |-> Cells(1, v)]
      BY <1>2 DEF fill_entry_index
    <2>2. Cells(1, v) \in Seq(Cell)
      BY FillVar, CellsType
    <2> QED BY <1>1, <1>2, <2>1, <2>2 DEF Entry
  <1>3. CASE r.type = "ARR"
    <2>1. entry = [index |-> r.index, type |-> r.type, from |-> "file", mem |-> Cells(r.total, Uninit)]
      BY <1>3 DEF fill_entry_index
    <2>2. Cells(r.total, Uninit) \in Seq(Cell)
      BY <1>1, NullType, CellsType
    <2> QED BY <1>1, <1>3, <2>1, <2>2 DEF Entry
  <1>4. CASE r.type = "REC"
    <2> DEFINE m == [i \in 1..r.total |-> [sub |-> 0, val |-> Null]]
    <2>1. entry = [index |-> r.index, type |-> r.type, from |-> "file", mem |-> m]
      BY <1>4 DEF fill_entry_index
    <2>2. [sub |-> 0, val |-> Null] \in Cell
      BY NullType DEF Cell, Val
    <2>3. m \in [1..r.total -> Cell]
      BY <2>2
    <2>4. m \in Seq(Cell)
      BY <1>1, <2>3, SeqDef
    <2> HIDE DEF m
    <2> QED BY <1>1, <1>4, <2>1, <2>4 DEF Entry
  <1>5. CASE r.type \notin {"VAR", "ARR", "REC"}
    BY <1>5 DEF fill_entry_index
  <1> QED BY <1>2, <1>3, <1>4, <1>5

-----------------------------------------------------------------------------
(* Cells.                                                                  *)

\* A set of numbers that is not empty has a least one.
LEMMA LeastNat ==
    ASSUME NEW T, T \subseteq Nat, T # {}
    PROVE  \E x \in T : \A y \in T : x =< y
  <1> DEFINE R == OpToRel(<, Nat)
  <1>1. IsWellFoundedOn(R, Nat)
    BY NatLessThanWellFounded
  <1>2. \A x, y \in Nat : <<x, y>> \in R <=> x < y
    BY DEF OpToRel
  <1> HIDE DEF R
  <1>3. PICK x \in T : \A y \in T : ~ (<<y, x>> \in R)
    BY <1>1, WFMin, Zenon
  <1>4. \A y \in T : x =< y
    <2> TAKE y \in T
    <2>1. x \in Nat /\ y \in Nat
      OBVIOUS
    <2>2. ~(y < x)
      BY <1>2, <1>3, <2>1, Zenon
    <2> QED BY <2>1, <2>2
  <1> QED BY <1>4

LEMMA EntryFields ==
    ASSUME NEW entry \in Entry
    PROVE  /\ entry.index \in Nat \ {0} /\ entry.mem \in Seq(Cell) /\ Len(entry.mem) \in Nat
           /\ DOMAIN entry.mem = 1..Len(entry.mem)
           /\ \A k \in 1..Len(entry.mem) :
                 entry.mem[k] \in Cell /\ entry.mem[k].sub \in Nat /\ entry.mem[k].val.v \in Int
  <1>1. entry.index \in Nat \ {0} /\ entry.mem \in Seq(Cell)
    BY DEF Entry
  <1>2. Len(entry.mem) \in Nat /\ DOMAIN entry.mem = 1..Len(entry.mem)
    BY <1>1
  <1>3. \A k \in 1..Len(entry.mem) : entry.mem[k] \in Cell
    BY <1>1
  <1>4. \A c \in Cell : c.sub \in Nat /\ c.val.v \in Int
    BY DEF Cell
  <1> QED BY <1>1, <1>2, <1>3, <1>4

\* OD_getSub finds the first cell, if there is one.
LEMMA FirstSubFound ==
    ASSUME NEW entry \in Entry, NEW sub, HasSub(entry, sub)
    PROVE  /\ FirstSub(entry, sub) \in 1..Len(entry.mem)
           /\ entry.mem[FirstSub(entry, sub)].sub = sub
           /\ \A j \in 1..(FirstSub(entry, sub) - 1) : entry.mem[j].sub # sub
  <1> DEFINE S == {k \in 1..Len(entry.mem) : entry.mem[k].sub = sub}
  <1>1. Len(entry.mem) \in Nat
    BY EntryFields
  <1>2. S \subseteq Nat /\ S # {}
    BY <1>1 DEF HasSub
  <1>3. PICK k \in S : \A j \in S : k <= j
    <2> HIDE DEF S
    <2> QED BY <1>2, LeastNat
  <1>4. \A j \in 1..(k - 1) : entry.mem[j].sub # sub
    <2> SUFFICES ASSUME NEW j \in 1..(k - 1), entry.mem[j].sub = sub PROVE FALSE
      OBVIOUS
    <2>1. j \in 1..Len(entry.mem) /\ j < k
      BY <1>1, <1>3
    <2> QED BY <1>3, <2>1
  <1>5. \E i \in 1..Len(entry.mem) :
           entry.mem[i].sub = sub /\ \A j \in 1..(i - 1) : entry.mem[j].sub # sub
    BY <1>3, <1>4
  <1> QED BY <1>5 DEF FirstSub

LEMMA FirstSubUnique ==
    ASSUME NEW entry \in Entry, NEW k \in 1..Len(entry.mem),
           \A j \in 1..(k - 1) : entry.mem[j].sub # entry.mem[k].sub
    PROVE  HasSub(entry, entry.mem[k].sub) /\ FirstSub(entry, entry.mem[k].sub) = k
  <1> DEFINE s == entry.mem[k].sub  f == FirstSub(entry, s)
  <1>1. HasSub(entry, s)
    BY DEF HasSub
  <1>2. f \in 1..Len(entry.mem) /\ entry.mem[f].sub = s /\ \A j \in 1..(f - 1) : entry.mem[j].sub # s
    BY <1>1, FirstSubFound
  <1>3. Len(entry.mem) \in Nat
    BY EntryFields
  <1>4. ~(f < k) /\ ~(k < f)
    <2> HIDE DEF f
    <2>1. ~(f < k)
      BY <1>2, <1>3
    <2>2. ~(k < f)
      BY <1>2, <1>3
    <2> QED BY <2>1, <2>2
  <1>5. f = k
    <2> HIDE DEF f
    <2> QED BY <1>2, <1>3, <1>4
  <1> QED BY <1>1, <1>5

LEMMA DivisionByFour ==
    ASSUME NEW n \in 0..511
    PROVE  \E q \in 0..127, m \in 0..3 : n \div 4 = q /\ n % 4 = m /\ n = 4 * q + m
  <1> DEFINE q == n \div 4  m == n % 4
  <1>1. q \in Nat /\ m \in 0..3
    OBVIOUS
  <1>2. m = n - 4 * q
    BY SMTT(60)
  <1>3. n \div 4 = q /\ n % 4 = m
    OBVIOUS
  <1> HIDE DEF q, m
  <1>4. n = 4 * q + m /\ q \in 0..127
    BY <1>1, <1>2
  <1> QED BY <1>1, <1>3, <1>4

\* The number of a PDO in its block, and that of the block.
CobIdIs(x, a, m, q) ==
    /\ x = (IF a = 512 THEN 5120 ELSE 6144) + 4 * q + m
    /\ DefaultCobId(x) = a + 256 * m + q

LEMMA CobIdParts ==
    ASSUME NEW x \in RPDO \union TPDO
    PROVE  \E a \in {512, 384}, m \in 0..3, q \in 0..127 : CobIdIs(x, a, m, q)
  <1>1. CASE x \in RPDO
    <2> DEFINE n == x - 5120
    <2>1. n \in 0..511 /\ x = 5120 + n
      BY <1>1 DEF RPDO
    <2> HIDE DEF n
    <2>2. PICK q \in 0..127, m \in 0..3 : n \div 4 = q /\ n % 4 = m /\ n = 4 * q + m
      BY <2>1, DivisionByFour
    <2>3. DefaultCobId(x) = 512 + 256 * m + q
      BY <1>1, <2>2 DEF DefaultCobId, n
    <2>4. x = 5120 + 4 * q + m
      BY <2>1, <2>2
    <2>5. CobIdIs(x, 512, m, q)
      BY <2>3, <2>4 DEF CobIdIs
    <2> QED BY <2>5
  <1>2. CASE x \notin RPDO
    <2> DEFINE n == x - 6144
    <2>1. n \in 0..511 /\ x = 6144 + n
      BY <1>2 DEF TPDO
    <2> HIDE DEF n
    <2>2. PICK q \in 0..127, m \in 0..3 : n \div 4 = q /\ n % 4 = m /\ n = 4 * q + m
      BY <2>1, DivisionByFour
    <2>3. DefaultCobId(x) = 384 + 256 * m + q
      BY <1>2, <2>2 DEF DefaultCobId, n
    <2>4. x = 6144 + 4 * q + m
      BY <2>1, <2>2
    <2>5. CobIdIs(x, 384, m, q)
      BY <2>3, <2>4 DEF CobIdIs
    <2> QED BY <2>5
  <1> QED BY <1>1, <1>2

\* The default COB-IDs of two PDOs differ: the blocks of 256 are used up to
\* their half, in turns by the two kinds.
LEMMA DefaultCobIdDistinct ==
    ASSUME NEW x \in RPDO \union TPDO, NEW y \in RPDO \union TPDO
    PROVE  /\ DefaultCobId(x) \in 384..1407
           /\ DefaultCobId(x) = DefaultCobId(y) => x = y
  <1>1. PICK a \in {512, 384}, i \in 0..3, m \in 0..127 : CobIdIs(x, a, i, m)
    BY CobIdParts
  <1>2. PICK b \in {512, 384}, j \in 0..3, n \in 0..127 : CobIdIs(y, b, j, n)
    BY CobIdParts
  <1>3. DefaultCobId(x) = a + 256 * i + m /\ DefaultCobId(y) = b + 256 * j + n
    BY <1>1, <1>2 DEF CobIdIs
  <1>4. DefaultCobId(x) \in 384..1407
    BY <1>3
  <1>5. ASSUME DefaultCobId(x) = DefaultCobId(y) PROVE x = y
    <2>1. a = b /\ i = j /\ m = n
      BY <1>3, <1>5
    <2> QED BY <1>1, <1>2, <2>1 DEF CobIdIs
  <1> QED BY <1>4, <1>5

\* fix_cob_ids changes the value of one cell at most, and leaves no COB-ID
\* to the node id.
LEMMA FixedFacts ==
    ASSUME NEW entry \in Entry, nodeId \in 0..255
    PROVE  /\ Fixed(entry) \in Entry
           /\ Fixed(entry).index = entry.index /\ Fixed(entry).from = entry.from
           /\ ~Unfixed(Fixed(entry))
  <1> DEFINE k == FirstSub(entry, 1)  v == entry.mem[k].val.v
             D == DefaultCobId(entry.index)
             new == [entry EXCEPT !.mem[k].val.v = @ + nodeId]
  <1>1. CASE ~(HasCobId(entry) /\ CobId(entry) % 2048 = D)
    <2>1. Fixed(entry) = entry
      BY <1>1 DEF Fixed
    <2> QED BY <1>1, <2>1 DEF Unfixed
  <1>2. CASE HasCobId(entry) /\ CobId(entry) % 2048 = D
    <2>1. Fixed(entry) = new
      BY <1>2 DEF Fixed
    <2>2. /\ k \in 1..Len(entry.mem) /\ entry.mem[k].sub = 1
          /\ \A j \in 1..(k - 1) : entry.mem[j].sub # 1
      BY <1>2, FirstSubFound DEF HasCobId
    <2>3. v \in Int /\ entry.mem \in Seq(Cell) /\ entry.mem[k] \in Cell /\ Len(entry.mem) \in Nat
          /\ DOMAIN entry.mem = 1..Len(entry.mem)
      BY <2>2, EntryFields
    <2>4. v + nodeId \in Int
      BY <2>3
    <2> DEFINE cell == [entry.mem[k] EXCEPT !.val.v = v + nodeId]
               mem == [entry.mem EXCEPT ![k] = cell]
    <2>5. cell \in Cell /\ cell.sub = 1 /\ cell.val.v = v + nodeId /\ cell.val.tag = entry.mem[k].val.tag
      BY <2>2, <2>3, <2>4 DEF Cell
    <2>6. new = [entry EXCEPT !.mem = mem]
      BY <2>2, <2>3 DEF Entry
    <2>7. mem \in Seq(Cell) /\ Len(mem) = Len(entry.mem) /\ mem[k] = cell
          /\ \A j \in 1..(k - 1) : mem[j] = entry.mem[j]
      <3> HIDE DEF cell, k
      <3> QED BY <2>2, <2>3, <2>5
    <2>8. new \in Entry /\ new.index = entry.index /\ new.from = entry.from /\ new.mem = mem
      <3> HIDE DEF mem, new
      <3> QED BY <2>6, <2>7 DEF Entry
    <2>9. new.mem[k].sub = 1 /\ \A j \in 1..(k - 1) : new.mem[j].sub # 1
      <3> HIDE DEF mem, new, cell, k
      <3> QED BY <2>2, <2>5, <2>7, <2>8
    <2>10. FirstSub(new, 1) = k
      <3>1. k \in 1..Len(new.mem)
        <4> HIDE DEF mem, new, cell, k
        <4> QED BY <2>2, <2>7, <2>8
      <3> HIDE DEF mem, new, cell, k
      <3> QED BY <2>8, <2>9, <3>1, FirstSubUnique
    <2>11. CobId(new) = v + nodeId
      <3> HIDE DEF mem, new, cell, k
      <3> QED BY <2>5, <2>7, <2>8, <2>10 DEF CobId
    <2>12. D \in 384..1407
      BY <1>2, DefaultCobIdDistinct DEF HasCobId
    <2>13. v % 2048 = D
      BY <1>2 DEF CobId
    <2>14. nodeId # 0 => (v + nodeId) % 2048 # D
      <3> HIDE DEF v, D
      <3> QED BY <2>3, <2>12, <2>13
    <2>15. ~Unfixed(new)
      <3> HIDE DEF new, v
      <3> QED BY <2>8, <2>11, <2>14 DEF Unfixed
    <2> HIDE DEF new
    <2> QED BY <2>1, <2>8, <2>15
  <1> QED BY <1>1, <1>2

-----------------------------------------------------------------------------
(* Lists.                                                                  *)

LEMMA AppendList ==
    ASSUME NEW l \in Seq(Entry), NEW e \in Entry, Sorted(l),
           \A i \in 1..Len(l) : l[i].index < e.index
    PROVE  /\ Append(l, e) \in Seq(Entry) /\ Len(Append(l, e)) = Len(l) + 1
           /\ \A i \in 1..Len(l) : Append(l, e)[i] = l[i]
           /\ Append(l, e)[Len(l) + 1] = e
           /\ Sorted(Append(l, e))
           /\ Indices(Append(l, e)) = Indices(l) \union {e.index}
  <1> DEFINE m == Append(l, e)
  <1>1. /\ m \in Seq(Entry) /\ Len(m) = Len(l) + 1 /\ Len(l) \in Nat
        /\ \A i \in 1..Len(l) : m[i] = l[i]
        /\ m[Len(l) + 1] = e
    OBVIOUS
  <1> HIDE DEF m
  <1>2. \A i \in 1..Len(m) : i \in 1..Len(l) \/ i = Len(l) + 1
    BY <1>1
  <1>3. Sorted(m)
    <2> SUFFICES ASSUME NEW i \in 1..Len(m), NEW j \in 1..Len(m), i < j
                 PROVE  m[i].index < m[j].index
      BY DEF Sorted
    <2>1. i \in 1..Len(l) /\ m[i] = l[i]
      BY <1>1
    <2>2. CASE j \in 1..Len(l)
      BY <1>1, <2>1, <2>2 DEF Sorted
    <2>3. CASE j = Len(l) + 1
      BY <1>1, <2>1, <2>3
    <2> QED BY <1>2, <2>2, <2>3
  <1>4. Indices(m) = Indices(l) \union {e.index}
    <2>1. ASSUME NEW x \in Indices(m) PROVE x \in Indices(l) \union {e.index}
      <3>1. PICK i \in 1..Len(m) : x = m[i].index
        BY DEF Indices
      <3>2. CASE i \in 1..Len(l)
        BY <1>1, <3>1, <3>2 DEF Indices
      <3>3. CASE i = Len(l) + 1
        BY <1>1, <3>1, <3>3
      <3> QED BY <1>2, <3>2, <3>3
    <2>2. ASSUME NEW x \in Indices(l) PROVE x \in Indices(m)
      <3>1. PICK i \in 1..Len(l) : x = l[i].index
        BY DEF Indices
      <3>2. i \in 1..Len(m) /\ m[i] = l[i]
        BY <1>1
      <3> QED BY <3>1, <3>2 DEF Indices
    <2>3. e.index \in Indices(m)
      <3>1. Len(l) + 1 \in 1..Len(m)
        BY <1>1
      <3> QED BY <1>1, <3>1 DEF Indices
    <2> QED BY <2>1, <2>2, <2>3
  <1> QED BY <1>1, <1>3, <1>4 DEF m

LEMMA InternalFacts ==
    /\ Len(Internal) \in Nat
    /\ \A k \in 1..Len(Internal) :
          /\ Internal[k] \in Entry /\ Internal[k].index \in Nat \ {0}
          /\ Internal[k].from = "internal" /\ IsInternal(Internal[k].index)
    /\ \A k, n \in 1..Len(Internal) : k < n => Internal[k].index < Internal[n].index
  <1>1. Len(Internal) \in Nat /\ \A k \in 1..Len(Internal) : Internal[k] \in Entry
    BY InternalAssumption
  <1>2. \A k \in 1..Len(Internal) : Internal[k].index \in Nat \ {0}
    BY <1>1, EntryFields
  <1>3. \A k \in 1..Len(Internal) : IsInternal(Internal[k].index)
    BY DEF IsInternal
  <1> QED BY <1>1, <1>2, <1>3, InternalAssumption

LEMMA ListFields ==
    ASSUME TypeOK
    PROVE  /\ Len(list) \in Nat
           /\ \A i \in 1..Len(list) : list[i] \in Entry /\ list[i].index \in Nat \ {0}
  <1>1. list \in Seq(Entry)
    BY DEF TypeOK
  <1>2. Len(list) \in Nat /\ \A i \in 1..Len(list) : list[i] \in Entry
    BY <1>1
  <1> QED BY <1>2, EntryFields

-----------------------------------------------------------------------------
(* The invariant holds initially, and every action keeps it.               *)

LEMMA InitIInv == Init => IInv
  <1> SUFFICES ASSUME Init PROVE IInv
    OBVIOUS
  <1>1. list \in Seq(Entry) /\ Len(list) = 0
    <2>1. list = <<>>
      BY DEF Init
    <2> QED BY <2>1
  <1>2. TypeOK
    <2>1. 0 \in 0..Len(Internal)
      BY InternalFacts
    <2> QED BY <1>1, <2>1 DEF TypeOK, Init
  <1>3. ~Merging /\ ~Kept
    BY DEF Merging, Kept, Init
  <1>4. Phases /\ Balance /\ Sides /\ Frees
    BY <1>3 DEF Phases, Balance, Sides, Frees, Init
  <1>5. Values_ /\ Current /\ InUse
    BY DEF Values_, Current, InUse, Init
  <1> QED BY <1>2, <1>4, <1>5 DEF IInv

\* An empty list.
LEMMA StartStep == ASSUME IInv, NEW option \in BOOLEAN, Start(option) PROVE IInv'
  <1> USE DEF IInv
  <1>1. list' = <<>> /\ list' \in Seq(Entry) /\ Len(list') = 0
    BY DEF Start
  <1>2. extend' \in BOOLEAN /\ Len(Internal) \in Nat
    BY InternalFacts DEF Start
  <1>3. TypeOK'
    <2>1. 0 \in 0..Len(Internal)
      BY InternalFacts
    <2>2. size' \in Nat /\ nodeId' \in NodeId
      BY <1>2 DEF Start, TypeOK
    <2> QED BY <1>1, <1>2, <2>1, <2>2 DEF TypeOK, Start
  <1>4. Phases'
    BY DEF Phases, Kept, Merging, Start
  <1>5. Balance'
    <2>1. Own' \in Nat /\ size' = Own'
      BY <1>2 DEF Start, Own
    <2>2. copied' = 0 /\ declared' = 0 /\ rows' = 0 /\ lastInt' = 0
      BY DEF Start
    <2> QED BY <1>1, <2>1, <2>2 DEF Balance
  <1>6. Sides'
    <2>1. copied' = 0 /\ lastInt' = 0 /\ fileLast' = 0 /\ given' = {}
      BY DEF Start
    <2>2. Sorted(list') /\ Indices(list') = {}
      BY <1>1 DEF Sorted, Indices
    <2>3. {Internal[k].index : k \in 1..copied'} = {}
      BY <2>1
    <2> QED BY <1>1, <2>1, <2>2, <2>3 DEF Sides
  <1>7. Frees'
    BY DEF Frees, Start
  <1>8. Values_' /\ Current' /\ InUse'
    <2>1. asked' = {} /\ rows' = 0 /\ pc' = "reading"
      BY DEF Start
    <2> QED BY <2>1 DEF Values_, Current, InUse
  <1> QED BY <1>3, <1>4, <1>5, <1>6, <1>7, <1>8

LEMMA HeaderLineStep == ASSUME IInv, HeaderLine PROVE IInv'
  <1>1. /\ UNCHANGED <<conf, runs, extend, nodeId, pc, comment, declared, size, list, copied, lastInt>>
        /\ UNCHANGED <<row, subOffset, default, stray, loadedConf, counts, freed, overread, fileLast>>
        /\ UNCHANGED <<subLast, rows, given, asked>>
        /\ header' = TRUE /\ row = None /\ pc = "reading"
    BY DEF HeaderLine, Reading, Node, Merge, Result, File, History
  <1> USE <1>1 DEF IInv
  <1>2. TypeOK'
    BY DEF TypeOK
  <1>3. Phases'
    BY DEF Phases, Kept, Merging
  <1>4. Balance'
    BY DEF Balance, Merging, Own
  <1>5. Sides'
    BY DEF Sides, Kept, Merging, Own
  <1>6. Frees'
    BY DEF Frees
  <1>7. Values_' /\ Current'
    BY DEF Values_, Current, Redefines
  <1>8. InUse'
    BY DEF InUse
  <1> QED BY <1>2, <1>3, <1>4, <1>5, <1>6, <1>7, <1>8

LEMMA ObjectsCommentStep ==
    ASSUME IInv, NEW n \in 0..MaxRows, ObjectsComment(n) PROVE IInv'
  <1>1. /\ UNCHANGED <<conf, runs, extend, nodeId, pc, header, list, copied, lastInt>>
        /\ UNCHANGED <<row, subOffset, default, stray, loadedConf, counts, freed, overread, fileLast>>
        /\ UNCHANGED <<subLast, rows, given, asked>>
        /\ comment' = TRUE /\ declared' = n /\ size' = size + n
        /\ ~comment /\ row = None /\ pc = "reading" /\ Merging /\ Kept
    BY DEF ObjectsComment, Reading, Node, Merge, Result, File, History, Merging, Kept
  <1>2. n \in Nat /\ size \in Nat
    BY ConfigBoundAssumption DEF IInv, TypeOK
  <1>3. declared = 0 /\ rows = 0 /\ given = {} /\ copied = 0 /\ asked = {} /\ list = <<>>
    BY <1>1 DEF IInv, Phases
  <1> USE <1>1 DEF IInv
  <1>4. TypeOK'
    BY <1>2 DEF TypeOK
  <1>5. Phases'
    BY DEF Phases, Kept, Merging
  <1>6. Balance'
    <2>1. Own \in Nat /\ Own' = Own
      BY InternalFacts DEF Own
    <2>2. size - Len(list) = Own
      BY <1>3, <2>1 DEF Balance
    <2>3. Len(list) = 0
      BY <1>3
    <2>4. size' - Len(list') = (Own' - copied') + (declared' - rows')
      BY <1>2, <1>3, <2>1, <2>2, <2>3
    <2> QED BY <1>3, <2>1, <2>3, <2>4 DEF Balance
  <1>7. Sides'
    BY DEF Sides, Kept, Merging, Own
  <1>8. Frees'
    BY DEF Frees
  <1>9. Values_' /\ Current'
    BY <1>3 DEF Values_, Current
  <1>10. InUse'
    BY DEF InUse
  <1> QED BY <1>4, <1>5, <1>6, <1>7, <1>8, <1>9, <1>10

LEMMA EarlyRowStep == ASSUME IInv, NEW r \in Row, EarlyRow(r) PROVE IInv'
  <1>1. /\ UNCHANGED <<conf, runs, extend, nodeId, pc, header, comment, declared, size, list, copied>>
        /\ UNCHANGED <<lastInt, row, subOffset, default, stray, loadedConf, counts, freed, overread>>
        /\ UNCHANGED <<subLast, rows, given, asked>>
        /\ fileLast' = r.index /\ r.index > fileLast
        /\ ~comment /\ row = None /\ pc = "reading" /\ Merging /\ Kept
    BY DEF EarlyRow, Reading, NextIndexRow, Node, Lines, Merge, Result, History, Merging, Kept
  <1>2. r.index \in Nat
    BY RowAssumption, RowFields
  <1>3. rows = 0 /\ given = {} /\ copied = 0
    BY <1>1 DEF IInv, Phases
  <1> USE <1>1 DEF IInv
  <1>4. TypeOK'
    BY <1>2 DEF TypeOK
  <1>5. Phases'
    BY DEF Phases, Kept, Merging
  <1>6. Balance'
    BY DEF Balance, Merging, Own
  <1>7. Sides'
    <2>1. lastInt = 0
      BY <1>3 DEF Sides
    <2>2. lastInt' <= fileLast'
      BY <1>2, <2>1
    <2> QED BY <1>3, <2>2 DEF Sides, Kept, Merging, Own
  <1>8. Frees'
    BY DEF Frees
  <1>9. Values_' /\ Current'
    BY <1>3 DEF Values_, Current
  <1>10. InUse'
    BY DEF InUse
  <1> QED BY <1>4, <1>5, <1>6, <1>7, <1>8, <1>9, <1>10

LEMMA IndexRowStep == ASSUME IInv, NEW r \in Row, IndexRow(r) PROVE IInv'
  <1>1. /\ UNCHANGED <<conf, runs, extend, nodeId, pc, header, comment, declared, size, list, copied>>
        /\ UNCHANGED <<lastInt, subOffset, default, stray, loadedConf, counts, freed, overread>>
        /\ UNCHANGED <<rows, given, asked>>
        /\ fileLast' = r.index /\ r.index > fileLast /\ subLast' = -1 /\ row' = r
        /\ header /\ comment /\ pc = "reading" /\ Merging /\ Kept /\ r.sub = -1
    BY DEF IndexRow, Reading, NextIndexRow, Node, Lines, Merge, Result, History, Merging, Kept
  <1>2. r.index \in Nat /\ fileLast \in Nat /\ lastInt \in Nat /\ given \subseteq Nat /\ r # None
    BY RowAssumption, RowFields DEF IInv, TypeOK
  <1> USE <1>1 DEF IInv
  <1>3. TypeOK'
    BY <1>2 DEF TypeOK
  <1>4. Phases'
    BY DEF Phases, Kept, Merging
  <1>5. Balance'
    BY DEF Balance, Merging, Own
  <1>6. Sides'
    <2>1. lastInt <= fileLast /\ \A g \in given : g <= fileLast
      BY DEF Sides
    <2>2. lastInt' <= fileLast' /\ \A g \in given' : g <= fileLast' /\ g < fileLast'
      BY <1>2, <2>1
    <2> QED BY <2>2 DEF Sides, Own
  <1>7. Frees'
    BY DEF Frees
  <1>8. Values_' /\ Current'
    BY <1>2 DEF Values_, Current
  <1>9. InUse'
    BY DEF InUse
  <1> QED BY <1>3, <1>4, <1>5, <1>6, <1>7, <1>8, <1>9

\* The end of a load that failed: od_config_free has run over the list, and
\* nothing is said of its values.
LEMMA FailedLoad ==
    ASSUME IInv, pc = "reading", NEW zero \in BOOLEAN, Error(list', zero),
           TypeOK', Sides', row' = None, extend' = extend,
           comment' = comment, comment \/ UNCHANGED <<rows, given, declared, list, copied, asked>>
    PROVE  IInv'
  <1>1. pc' = "selected" /\ freed' = FreedBy(list', extend) /\ loadedConf' = loadedConf /\ ~loadedConf
    BY DEF Error, IInv, Phases
  <1>2. Phases'
    BY <1>1 DEF Phases, IInv, Kept, Merging
  <1>3. Balance'
    BY <1>1 DEF Balance, Merging
  <1>4. Frees'
    BY <1>1 DEF Frees
  <1>5. Values_' /\ Current' /\ InUse'
    BY <1>1 DEF Values_, Current, InUse
  <1> QED BY <1>2, <1>3, <1>4, <1>5 DEF IInv

LEMMA NoFileStep == ASSUME IInv, NoFile PROVE IInv'
  <1>1. /\ UNCHANGED <<conf, runs, extend, nodeId, header, comment, declared, size, list, copied>>
        /\ UNCHANGED <<lastInt, row, subOffset, default, stray, loadedConf, counts, freed, overread>>
        /\ UNCHANGED <<fileLast, subLast, rows, given, asked>>
        /\ pc' = "selected" /\ pc = "reading" /\ row = None /\ ~comment /\ Kept
    BY DEF NoFile, Reading, Node, Lines, Merge, Result, File, History, Kept, Merging
  <1>2. list = <<>> /\ ~loadedConf
    BY <1>1 DEF IInv, Phases
  <1> USE <1>1, <1>2 DEF IInv
  <1>3. TypeOK'
    BY DEF TypeOK
  <1>4. Phases'
    BY DEF Phases, Kept, Merging
  <1>5. Sides'
    BY DEF Sides, Kept, Merging, Own
  <1>6. Frees'
    <2>1. Len(list) = 0
      OBVIOUS
    <2>2. FreedBy(list, extend) = {}
      BY <2>1 DEF FreedBy
    <2> QED BY <2>2 DEF Frees
  <1>7. Balance' /\ Values_' /\ Current' /\ InUse'
    BY DEF Balance, Merging, Values_, Current, InUse
  <1> QED BY <1>3, <1>4, <1>5, <1>6, <1>7

LEMMA EofStep == ASSUME IInv, NEW zero \in BOOLEAN, Eof(zero) PROVE IInv'
  <1>1. /\ UNCHANGED <<conf, runs, extend, nodeId, header, comment, declared, size, list, copied>>
        /\ UNCHANGED <<lastInt, row, subOffset, default, stray, counts>>
        /\ UNCHANGED <<fileLast, subLast, rows, given, asked>>
        /\ pc = "reading" /\ row = None /\ Kept /\ Merging
        /\ pc' = "selected"
    BY DEF Eof, Error, Reading, Node, Lines, Merge, File, History, Kept, Merging
  <1>2. TypeOK'
    <2>1. {loadedConf', overread'} \subseteq BOOLEAN
      BY DEF Eof, Error, IInv, TypeOK
    <2> QED BY <1>1, <2>1 DEF TypeOK, IInv
  <1>3. Sides'
    BY <1>1 DEF Sides, Kept, Merging, Own, IInv
  <1>4. CASE comment
    <2>1. loadedConf' = TRUE
      BY <1>4 DEF Eof
    <2> USE <1>1, <1>4, <2>1 DEF IInv
    <2>2. Phases'
      BY DEF Phases, Kept, Merging
    <2>3. Balance'
      BY DEF Balance, Own
    <2>4. Frees'
      BY DEF Frees
    <2>5. Values_'
      BY DEF Values_
    <2>6. Current' /\ InUse'
      BY DEF Current, InUse
    <2> QED BY <1>2, <1>3, <2>2, <2>3, <2>4, <2>5, <2>6
  <1>5. CASE ~comment
    <2>1. Error(list', zero)
      BY <1>1, <1>5 DEF Eof
    <2> QED BY <1>1, <1>2, <1>3, <2>1, FailedLoad
  <1> QED BY <1>4, <1>5

\* The turn of the loop that copies an internal entry.
LEMMA CopyInternalStep == ASSUME IInv, CopyInternal PROVE IInv'
  <1> DEFINE e == Internal[copied + 1]
  <1>1. /\ UNCHANGED <<conf, runs, extend, nodeId, pc, header, comment, declared, size>>
        /\ UNCHANGED <<row, subOffset, default, stray, loadedConf, counts, freed, overread>>
        /\ UNCHANGED <<fileLast, subLast, rows, given, asked>>
        /\ row # None /\ extend /\ copied < Len(Internal) /\ row.index >= e.index
        /\ list' = Append(list, e) /\ lastInt' = e.index /\ copied' = copied + 1
    BY DEF CopyInternal, Before, Node, Lines, Result, File, History
  <1>2. pc = "reading" /\ comment /\ row.index = fileLast /\ Merging /\ Kept /\ ~loadedConf
    BY <1>1 DEF IInv, Phases, Merging, Kept
  <1>3. /\ Len(Internal) \in Nat /\ copied \in Nat /\ copied + 1 \in 1..Len(Internal)
        /\ fileLast \in Nat /\ given \subseteq Nat /\ list \in Seq(Entry)
        /\ size \in Nat /\ declared \in Nat /\ rows \in Nat
    BY <1>1, InternalFacts DEF IInv, TypeOK
  <1>4. e \in Entry /\ e.index \in Nat \ {0} /\ e.from = "internal" /\ IsInternal(e.index)
    BY <1>3, InternalFacts
  <1>5. \A k \in 1..copied : k \in 1..Len(Internal) /\ Internal[k].index < e.index
    BY <1>3, InternalFacts
  <1>6. Own = Len(Internal) /\ Own' = Own
    BY <1>1 DEF Own
  <1>7. \A g \in given : g < e.index
    BY <1>1, <1>2, <1>6 DEF IInv, Sides
  <1> HIDE DEF e
  <1>8. Sorted(list) /\ Indices(list) = given \union {Internal[k].index : k \in 1..copied}
    BY <1>2 DEF IInv, Sides
  <1>9. \A i \in 1..Len(list) : list[i].index < e.index
    <2> SUFFICES ASSUME NEW i \in 1..Len(list) PROVE list[i].index < e.index
      OBVIOUS
    <2>1. list[i].index \in Indices(list)
      BY DEF Indices
    <2> QED BY <1>5, <1>7, <1>8, <2>1
  <1>10. /\ list' \in Seq(Entry) /\ Len(list') = Len(list) + 1 /\ Len(list) \in Nat
         /\ \A i \in 1..Len(list) : list'[i] = list[i]
         /\ list'[Len(list) + 1] = e
         /\ Sorted(list') /\ Indices(list') = Indices(list) \union {e.index}
    BY <1>1, <1>3, <1>4, <1>8, <1>9, AppendList
  <1>11. \A i \in 1..Len(list') : i \in 1..Len(list) \/ i = Len(list) + 1
    BY <1>10
  <1>12. TypeOK'
    <2>1. copied' \in 0..Len(Internal) /\ lastInt' \in Nat
      BY <1>1, <1>3, <1>4
    <2> QED BY <1>1, <1>10, <2>1 DEF IInv, TypeOK
  <1>13. Phases'
    BY <1>1, <1>2 DEF IInv, Phases, Kept, Merging
  <1>14. Balance'
    <2>1. size - Len(list) = (Own - copied) + (declared - rows) /\ rows <= Len(list)
      BY <1>2 DEF IInv, Balance
    <2>2. size' - Len(list') = (Own' - copied') + (declared' - rows') /\ rows' < Len(list')
          /\ copied' <= Own' /\ rows' <= Len(list')
      BY <1>1, <1>3, <1>6, <1>10, <2>1
    <2> QED BY <2>2 DEF Balance
  <1>15. Sides'
    <2>1. lastInt' = IF copied' = 0 THEN 0 ELSE Internal[copied'].index
      BY <1>1, <1>3 DEF e
    <2>2. lastInt' <= fileLast'
      BY <1>1, <1>2, <1>3, <1>4
    <2>3. \A g \in given' : g <= fileLast' /\ (row' # None => g < fileLast')
      BY <1>1, <1>2 DEF IInv, Sides
    <2>4. ASSUME NEW g \in given', copied' < Own' PROVE g < Internal[copied' + 1].index
      <3>1. copied + 1 + 1 \in 1..Len(Internal)
        BY <1>1, <1>3, <1>6, <2>4
      <3>2. e.index < Internal[copied + 1 + 1].index /\ Internal[copied + 1 + 1].index \in Nat
        BY <1>3, <3>1, InternalFacts DEF e
      <3>3. g < e.index /\ g \in Nat
        BY <1>1, <1>3, <1>7
      <3> QED BY <1>1, <1>4, <3>2, <3>3
    <2>5. {Internal[k].index : k \in 1..copied'} = {Internal[k].index : k \in 1..copied} \union {e.index}
      <3>1. \A k : k \in 1..copied' <=> k \in 1..copied \/ k = copied + 1
        BY <1>1, <1>3
      <3> QED BY <3>1 DEF e
    <2>6. Indices(list') = given' \union {Internal[k].index : k \in 1..copied'}
      BY <1>1, <1>8, <1>10, <2>5
    <2>7. ASSUME NEW i \in 1..Len(list')
          PROVE  (list'[i].from = "internal") = (extend' /\ IsInternal(list'[i].index))
      <3>1. CASE i \in 1..Len(list)
        BY <1>1, <1>2, <1>10, <3>1 DEF IInv, Sides
      <3>2. CASE i = Len(list) + 1
        BY <1>1, <1>4, <1>10, <3>2
      <3> QED BY <1>11, <3>1, <3>2
    <2> QED BY <1>1, <1>10, <2>1, <2>2, <2>3, <2>4, <2>6, <2>7 DEF Sides
  <1>16. Frees'
    BY <1>1, <1>2 DEF IInv, Frees
  <1>17. Values_'
    <2>1. \A r \in asked : r.index \in given
      BY <1>2 DEF IInv, Values_
    <2>2. ASSUME NEW i \in 1..Len(list'), NEW r \in asked', list'[i].index = r.index, list'[i].type # "ARR"
          PROVE  \E k \in 1..Len(list'[i].mem) : Holds(list'[i], r, k)
      <3>1. CASE i \in 1..Len(list)
        BY <1>1, <1>2, <1>10, <2>2, <3>1 DEF IInv, Values_
      <3>2. CASE i = Len(list) + 1
        <4>1. r.index = e.index /\ r.index \in given
          BY <1>1, <1>10, <2>1, <2>2, <3>2
        <4> QED BY <1>3, <1>4, <1>7, <4>1
      <3> QED BY <1>11, <3>1, <3>2
    <2> QED BY <1>1, <2>1, <2>2 DEF Values_
  <1>18. Current' /\ InUse'
    BY <1>1, <1>2 DEF Current, InUse
  <1> QED BY <1>12, <1>13, <1>14, <1>15, <1>16, <1>17, <1>18 DEF IInv

LEMMA LeftType ==
    ASSUME TypeOK, NEW r, NEW used PROVE Left(r, used) \in {"uninit", "odd", "even"}
  BY DEF Left, TypeOK

\* A row whose index has an internal entry.
LEMMA SkipIndexStep == ASSUME IInv, NEW zero \in BOOLEAN, SkipIndex(zero) PROVE IInv'
  <1>1. /\ UNCHANGED <<conf, runs, extend, nodeId, header, comment, declared, list, copied, lastInt>>
        /\ UNCHANGED <<stray, fileLast, subLast, asked>>
        /\ row # None /\ ~Before(row.index) /\ extend /\ row.index = lastInt
        /\ size' = size - 1 /\ row' = None /\ subOffset' = 0 /\ default' = Left(row, FALSE)
        /\ rows' = rows + 1 /\ given' = given \union {row.index}
        /\ IF Beyond(list, size - 1) THEN Error(list, zero)
           ELSE UNCHANGED <<pc, loadedConf, counts, freed, overread>>
    BY DEF SkipIndex, Redefines, Shrunk, Node, Lines, Merge, File, Result
  <1>2. pc = "reading" /\ comment /\ row.index = fileLast /\ Merging /\ Kept /\ ~loadedConf
    BY <1>1 DEF IInv, Phases, Merging, Kept
  <1>3. /\ Len(Internal) \in Nat /\ copied \in Nat /\ copied \in 0..Len(Internal)
        /\ fileLast \in Nat /\ given \subseteq Nat /\ Len(list) \in Nat
        /\ size \in Nat /\ declared \in Nat /\ rows \in Nat
    BY InternalFacts, ListFields DEF IInv, TypeOK
  <1>4. row \in RowType /\ row.index \in Nat \ {0}
    BY <1>1, RowAssumption, RowFields DEF IInv, TypeOK
  <1>5. Own = Len(Internal) /\ Own' = Own
    BY <1>1 DEF Own
  <1>6. copied > 0 /\ lastInt = Internal[copied].index
    BY <1>1, <1>2, <1>3, <1>4 DEF IInv, Sides
  <1>7. lastInt \notin given
    BY <1>1, <1>2, <1>3 DEF IInv, Sides
  <1>8. size - Len(list) = (Own - copied) + (declared - rows) /\ rows < Len(list) /\ copied <= Own
    BY <1>2, <1>6, <1>7 DEF IInv, Balance
  <1>9. TypeOK'
    <2>1. size - 1 \in Nat
      BY <1>3, <1>5, <1>8
    <2>2. {pc'} \subseteq {"reading", "selected"} /\ {loadedConf', overread'} \subseteq BOOLEAN
      BY <1>1, <1>2 DEF IInv, TypeOK, Error
    <2>3. default' \in {"uninit", "odd", "even"}
      BY <1>1, LeftType DEF IInv
    <2>4. given' = given \union {row.index} /\ rows' = rows + 1
      BY <1>1
    <2>5. rows' \in Nat
      BY <1>3, <2>4
    <2>6. row.index \in Nat /\ given \subseteq Nat
      BY <1>3, <1>4
    <2>7. given' \subseteq Nat
      BY <2>4, <2>6, Zenon
    <2> QED BY <1>1, <2>1, <2>2, <2>3, <2>5, <2>7 DEF IInv, TypeOK
  <1>10. Sides'
    <2>1. \A g \in given' : g <= fileLast' /\ (row' # None => g < fileLast')
      BY <1>1, <1>2, <1>3 DEF IInv, Sides
    <2>2. \A g \in given' : copied' < Own' => g < Internal[copied' + 1].index
      <3>1. copied < Own => row.index < Internal[copied + 1].index
        <4>1. copied < Own => copied + 1 \in 1..Len(Internal)
          BY <1>3, <1>5
        <4>2. copied < Own => Internal[copied + 1].index \in Nat
          BY <4>1, InternalFacts
        <4> QED BY <1>1, <1>4, <1>5, <4>2 DEF Before
      <3> QED BY <1>1, <1>2, <1>5, <3>1 DEF IInv, Sides
    <2>3. row.index \in {Internal[k].index : k \in 1..copied}
      BY <1>1, <1>3, <1>6
    <2>4. Indices(list') = given' \union {Internal[k].index : k \in 1..copied'}
      BY <1>1, <1>2, <2>3 DEF IInv, Sides
    <2> QED BY <1>1, <1>2, <2>1, <2>2, <2>4 DEF IInv, Sides
  <1>11. CASE Beyond(list, size - 1)
    <2>1. Error(list', zero)
      BY <1>1, <1>11
    <2> QED BY <1>1, <1>2, <1>9, <1>10, <2>1, FailedLoad
  <1>12. CASE ~Beyond(list, size - 1)
    <2>1. UNCHANGED <<pc, loadedConf, counts, freed, overread>>
      BY <1>1, <1>12
    <2>2. Phases'
      BY <1>1, <1>2, <2>1 DEF IInv, Phases
    <2>3. Balance'
      <3>1. /\ size' - Len(list') = (Own' - copied') + (declared' - rows')
            /\ rows' <= Len(list') /\ copied' <= Own' /\ lastInt' \in given'
        BY <1>1, <1>3, <1>5, <1>8
      <3> QED BY <3>1 DEF Balance
    <2>4. Frees'
      BY <1>1, <1>2, <2>1 DEF IInv, Frees
    <2>5. Values_'
      BY <1>1, <1>2, <2>1 DEF IInv, Values_
    <2>6. Current'
      BY <1>1, <1>2, <2>1 DEF Current, Redefines
    <2>7. InUse'
      BY <1>2, <2>1 DEF InUse
    <2> QED BY <1>9, <1>10, <2>2, <2>3, <2>4, <2>5, <2>6, <2>7 DEF IInv
  <1> QED BY <1>11, <1>12

\* An entry made of a row, or the rest of one that could not be made.
LEMMA PlaceIndexStep == ASSUME IInv, NEW zero \in BOOLEAN, PlaceIndex(zero) PROVE IInv'
  <1>1. /\ UNCHANGED <<conf, runs, extend, nodeId, header, comment, declared, size, copied, lastInt>>
        /\ UNCHANGED <<stray, fileLast, subLast>>
        /\ row # None /\ ~(extend /\ Before(row.index)) /\ ~(extend /\ row.index = lastInt)
        /\ row' = None /\ subOffset' = 0 /\ default' = Left(row, TRUE)
        /\ rows' = rows + 1 /\ given' = given \union {row.index}
    BY DEF PlaceIndex, Redefines, Node, Lines, Merge, File
  <1>2. pc = "reading" /\ comment /\ row.index = fileLast /\ Merging /\ Kept /\ ~loadedConf
    BY <1>1 DEF IInv, Phases, Merging, Kept
  <1>3. /\ Len(Internal) \in Nat /\ copied \in Nat /\ copied \in 0..Len(Internal) /\ lastInt \in Nat
        /\ fileLast \in Nat /\ given \subseteq Nat /\ list \in Seq(Entry)
        /\ size \in Nat /\ declared \in Nat /\ rows \in Nat /\ extend \in BOOLEAN
    BY InternalFacts DEF IInv, TypeOK
  <1>4. row \in RowType /\ row.index \in Nat \ {0}
    BY <1>1, RowAssumption, RowFields DEF IInv, TypeOK
  <1>5. /\ lastInt = IF copied = 0 THEN 0 ELSE Internal[copied].index
        /\ copied > 0 => extend
        /\ lastInt <= fileLast
        /\ \A g \in given : g <= fileLast /\ g < fileLast
        /\ \A g \in given : copied < Own => g < Internal[copied + 1].index
        /\ Indices(list) = given \union {Internal[k].index : k \in 1..copied}
        /\ Sorted(list)
        /\ \A i \in 1..Len(list) :
              (list[i].from = "internal") = (extend /\ IsInternal(list[i].index))
    BY <1>1, <1>2 DEF IInv, Sides
  <1>6. \A k \in 1..copied : Internal[k].index < row.index
    <2> SUFFICES ASSUME NEW k \in 1..copied PROVE Internal[k].index < row.index
      OBVIOUS
    <2>1. copied > 0 /\ copied \in 1..Len(Internal) /\ k \in 1..Len(Internal)
      BY <1>3
    <2>2. lastInt = Internal[copied].index /\ lastInt < row.index
      BY <1>1, <1>2, <1>3, <1>4, <1>5, <2>1
    <2>3. k = copied \/ Internal[k].index < Internal[copied].index
      BY <1>3, <2>1, InternalFacts
    <2>4. Internal[k].index \in Nat
      BY <2>1, InternalFacts
    <2> QED BY <1>3, <1>4, <2>2, <2>3, <2>4
  <1>7. ASSUME extend PROVE /\ copied < Own => row.index < Internal[copied + 1].index
                            /\ ~IsInternal(row.index)
    <2>1. Own = Len(Internal)
      BY <1>7 DEF Own
    <2>2. copied < Len(Internal) => copied + 1 \in 1..Len(Internal) /\ Internal[copied + 1].index \in Nat
      <3>1. copied < Len(Internal) => copied + 1 \in 1..Len(Internal)
        BY <1>3
      <3> QED BY <3>1, InternalFacts
    <2>3. copied < Len(Internal) => row.index < Internal[copied + 1].index
      BY <1>1, <1>4, <1>7, <2>2 DEF Before
    <2>4. ASSUME NEW k \in 1..Len(Internal), Internal[k].index = row.index PROVE FALSE
      <3>1. CASE k \in 1..copied
        BY <1>4, <1>6, <2>4, <3>1
      <3>2. CASE k = copied + 1
        <4>1. copied < Len(Internal)
          BY <1>3, <3>2
        <4> QED BY <1>4, <2>3, <2>4, <3>2, <4>1
      <3>3. CASE k > copied + 1
        <4>1. copied < Len(Internal)
          BY <1>3, <3>3
        <4>2. Internal[copied + 1].index < Internal[k].index
          BY <2>2, <3>3, <4>1, InternalFacts
        <4> QED BY <1>4, <2>2, <2>3, <2>4, <4>1, <4>2
      <3> QED BY <1>3, <3>1, <3>2, <3>3
    <2> QED BY <2>1, <2>3, <2>4 DEF IsInternal
  <1>8. \A i \in 1..Len(list) : list[i].index < row.index
    <2> SUFFICES ASSUME NEW i \in 1..Len(list) PROVE list[i].index < row.index
      OBVIOUS
    <2>1. list[i].index \in Indices(list)
      BY DEF Indices
    <2> QED BY <1>2, <1>5, <1>6, <2>1
  <1>9. Own' = Own /\ Own \in Nat
    BY <1>1, <1>3 DEF Own
  <1>10. ASSUME NEW e \in Entry, e.index = row.index, e.from = "file", list' = Append(list, e),
                {pc'} \subseteq {"reading", "selected"}, {loadedConf', overread'} \subseteq BOOLEAN,
                asked' \subseteq RowType
         PROVE  /\ TypeOK' /\ Sides' /\ Len(list') = Len(list) + 1 /\ Len(list) \in Nat
                /\ \A i \in 1..Len(list) : list'[i] = list[i]
                /\ list'[Len(list) + 1] = e
    <2>1. /\ list' \in Seq(Entry) /\ Len(list') = Len(list) + 1 /\ Len(list) \in Nat
          /\ \A i \in 1..Len(list) : list'[i] = list[i]
          /\ list'[Len(list) + 1] = e
          /\ Sorted(list') /\ Indices(list') = Indices(list) \union {e.index}
      BY <1>3, <1>5, <1>8, <1>10, AppendList
    <2>2. TypeOK'
      <3>1. default' \in {"uninit", "odd", "even"}
        BY <1>1, LeftType DEF IInv
      <3>2. rows' \in Nat
        BY <1>1, <1>3
      <3>3. row.index \in Nat /\ given \subseteq Nat
        BY <1>3, <1>4
      <3>4. given' \subseteq Nat
        BY <1>1, <3>3, Zenon
      <3> QED BY <1>1, <1>10, <2>1, <3>1, <3>2, <3>4 DEF IInv, TypeOK
    <2>3. Sides'
      <3>1. \A g \in given' : g <= fileLast'
        BY <1>1, <1>2, <1>3, <1>5
      <3>2. \A g \in given' : copied' < Own' => g < Internal[copied' + 1].index
        <4>1. copied < Own => extend
          BY <1>3 DEF Own
        <4> QED BY <1>1, <1>5, <1>7, <1>9, <4>1
      <3>3. Indices(list') = given' \union {Internal[k].index : k \in 1..copied'}
        BY <1>1, <1>5, <1>10, <2>1
      <3>4. ASSUME NEW i \in 1..Len(list')
            PROVE  (list'[i].from = "internal") = (extend' /\ IsInternal(list'[i].index))
        <4>1. i \in 1..Len(list) \/ i = Len(list) + 1
          BY <2>1
        <4>2. CASE i \in 1..Len(list)
          BY <1>1, <1>5, <2>1, <4>2
        <4>3. CASE i = Len(list) + 1
          <5>1. list'[i] = e
            BY <2>1, <4>3
          <5>2. e.from # "internal" /\ ~(extend' /\ IsInternal(e.index))
            BY <1>1, <1>7, <1>10
          <5> QED BY <5>1, <5>2
        <4> QED BY <4>1, <4>2, <4>3
      <3>5. lastInt' <= fileLast' /\ lastInt' = (IF copied' = 0 THEN 0 ELSE Internal[copied'].index)
            /\ (copied' > 0 => extend')
        BY <1>1, <1>5
      <3> QED BY <1>1, <2>1, <3>1, <3>2, <3>3, <3>4, <3>5 DEF Sides
    <2> QED BY <2>1, <2>2, <2>3
  <1>11. CASE \E entry \in fill_entry_index(row) :
                 /\ list' = Append(list, entry)
                 /\ asked' = IF row.type = "VAR" THEN asked \union {[row EXCEPT !.sub = 0]} ELSE asked
                 /\ IF Beyond(list', size) THEN Error(list', zero) ELSE UNCHANGED <<pc, Result>>
    <2>1. PICK e \in fill_entry_index(row) :
             /\ list' = Append(list, e)
             /\ asked' = IF row.type = "VAR" THEN asked \union {[row EXCEPT !.sub = 0]} ELSE asked
             /\ IF Beyond(list', size) THEN Error(list', zero) ELSE UNCHANGED <<pc, Result>>
      BY <1>11
    <2>2. /\ e \in Entry /\ e.index = row.index /\ e.from = "file" /\ e.type = row.type
          /\ row.type = "VAR" => \E v \in fill_var(row) : e.mem = Cells(1, v)
      BY <1>4, FillEntry
    <2>3. {pc'} \subseteq {"reading", "selected"} /\ {loadedConf', overread'} \subseteq BOOLEAN
      BY <1>2, <2>1 DEF IInv, TypeOK, Error, Result
    <2>4. asked' \subseteq RowType
      <3>1. [row EXCEPT !.sub = 0] \in RowType
        BY <1>4 DEF RowType
      <3>2. asked \subseteq RowType
        BY DEF IInv, TypeOK
      <3> QED BY <2>1, <3>1, <3>2
    <2>5. /\ TypeOK' /\ Sides' /\ Len(list') = Len(list) + 1 /\ Len(list) \in Nat
          /\ \A i \in 1..Len(list) : list'[i] = list[i]
          /\ list'[Len(list) + 1] = e
      BY <1>10, <2>1, <2>2, <2>3, <2>4
    <2>6. CASE Beyond(list', size)
      <3>1. Error(list', zero)
        BY <2>1, <2>6
      <3> QED BY <1>1, <1>2, <2>5, <3>1, FailedLoad
    <2>7. CASE ~Beyond(list', size)
      <3>1. UNCHANGED <<pc, loadedConf, counts, freed, overread>>
        BY <2>1, <2>7 DEF Result
      <3>2. Phases'
        BY <1>1, <1>2, <3>1 DEF IInv, Phases
      <3>3. Balance'
        <4>1. /\ copied <= Own /\ size - Len(list) = (Own - copied) + (declared - rows)
              /\ rows <= Len(list) /\ (copied > 0 /\ lastInt \notin given => rows < Len(list))
          BY <1>2 DEF IInv, Balance
        <4>2. /\ copied' <= Own' /\ size' - Len(list') = (Own' - copied') + (declared' - rows')
              /\ rows' <= Len(list') /\ (rows < Len(list) => rows' < Len(list'))
          BY <1>1, <1>3, <1>9, <2>5, <4>1
        <4>3. copied' > 0 /\ lastInt' \notin given' => rows' < Len(list')
          BY <1>1, <4>1, <4>2
        <4> QED BY <4>2, <4>3 DEF Balance
      <3>4. Frees'
        BY <1>2, <3>1 DEF IInv, Frees
      <3>5. \A r \in asked : r.index \in given
        BY <1>2 DEF IInv, Values_
      <3>6. \A r \in asked' : r \in asked \/ (row.type = "VAR" /\ r = [row EXCEPT !.sub = 0])
        BY <2>1
      <3>7. /\ [row EXCEPT !.sub = 0].index = row.index /\ [row EXCEPT !.sub = 0].sub = 0
            /\ [row EXCEPT !.sub = 0].dtype = row.dtype /\ [row EXCEPT !.sub = 0].text = row.text
        BY <1>4 DEF RowType
      <3>8. Values_'
        <4>1. \A r \in asked' : r.index \in given'
          BY <1>1, <3>5, <3>6, <3>7
        <4>2. ASSUME NEW i \in 1..Len(list'), NEW r \in asked', list'[i].index = r.index, list'[i].type # "ARR"
              PROVE  \E k \in 1..Len(list'[i].mem) : Holds(list'[i], r, k)
          <5>1. i \in 1..Len(list) \/ i = Len(list) + 1
            BY <2>5
          <5>2. CASE r \in asked /\ i \in 1..Len(list)
            BY <1>2, <2>5, <4>2, <5>2 DEF IInv, Values_
          <5>3. CASE r \in asked /\ i = Len(list) + 1
            <6>1. r.index = row.index /\ r.index \in given
              BY <2>2, <2>5, <3>5, <4>2, <5>3
            <6> QED BY <1>2, <1>3, <1>5, <6>1
          <5>4. CASE r \notin asked /\ i \in 1..Len(list)
            <6>1. list[i].index = row.index
              BY <2>5, <3>6, <3>7, <4>2, <5>4
            <6> QED BY <1>4, <1>8, <5>4, <6>1
          <5>5. CASE r \notin asked /\ i = Len(list) + 1
            <6>1. row.type = "VAR" /\ r = [row EXCEPT !.sub = 0] /\ list'[i] = e
              BY <2>5, <3>6, <5>5
            <6>2. PICK v \in fill_var(row) : e.mem = Cells(1, v)
              BY <2>2, <6>1
            <6>3. v \in Val /\ Stored(v, row)
              BY <1>4, FillVar
            <6>4. Stored(v, r)
              BY <3>7, <6>1, <6>3 DEF Stored
            <6>5. Len(e.mem) = 1 /\ e.mem[1] = [sub |-> 0, val |-> v]
              BY <6>2, <6>3, CellsType DEF Cells
            <6>6. Holds(e, r, 1)
              BY <3>7, <6>1, <6>4, <6>5 DEF Holds
            <6>7. 1 \in 1..Len(e.mem)
              BY <6>5
            <6> QED BY <6>1, <6>6, <6>7
          <5> QED BY <5>1, <5>2, <5>3, <5>4, <5>5
        <4> QED BY <4>1, <4>2 DEF Values_
      <3>9. Current'
        <4>1. /\ list' # <<>> /\ list'[Len(list')] = e /\ e.index = fileLast' /\ fileLast' \in given'
          BY <1>1, <1>2, <2>2, <2>5
        <4>2. ASSUME e.type = "REC" PROVE \A r \in asked' : r.index # fileLast'
          <5>1. asked' = asked
            BY <2>1, <2>2, <4>2
          <5> QED BY <1>1, <1>3, <1>5, <3>5, <5>1
        <4>3. \A k \in 1..Len(e.mem) : ~(k <= subOffset')
          BY <1>1
        <4> QED BY <4>1, <4>2, <4>3 DEF Current
      <3>10. InUse'
        BY <1>2, <3>1 DEF InUse
      <3> QED BY <2>5, <3>2, <3>3, <3>4, <3>8, <3>9, <3>10 DEF IInv
    <2> QED BY <2>6, <2>7
  <1>12. CASE list' = Append(list, Unmade(row)) /\ asked' = asked /\ Error(list', zero)
    <2>1. Unmade(row) \in Entry /\ Unmade(row).index = row.index /\ Unmade(row).from = "file"
      <3>1. <<>> \in Seq(Cell)
        OBVIOUS
      <3> QED BY <1>4, <3>1 DEF Unmade, Entry
    <2>2. {pc'} \subseteq {"reading", "selected"} /\ {loadedConf', overread'} \subseteq BOOLEAN
      BY <1>12 DEF IInv, TypeOK, Error
    <2>3. asked' \subseteq RowType
      BY <1>12 DEF IInv, TypeOK
    <2>4. TypeOK' /\ Sides'
      BY <1>10, <1>12, <2>1, <2>2, <2>3
    <2> QED BY <1>1, <1>2, <1>12, <2>4, FailedLoad
  <1> QED BY <1>11, <1>12 DEF PlaceIndex

\* Lists of the same objects.
LEMMA SameKeys ==
    ASSUME NEW l, NEW m, Len(m) = Len(l), \A i \in 1..Len(l) : m[i].index = l[i].index
    PROVE  Indices(m) = Indices(l) /\ (Sorted(l) => Sorted(m))
  BY DEF Indices, Sorted

\* A value is stored in an object of the list.
Put(l, n, at, c) == [l EXCEPT ![n].mem[at] = c]

\* What that does.
IsPut(m, l, n, at, c) ==
    /\ m \in Seq(Entry) /\ Len(m) = Len(l)
    /\ \A i \in 1..Len(l) : i # n => m[i] = l[i]
    /\ m[n].index = l[n].index /\ m[n].from = l[n].from /\ m[n].type = l[n].type
    /\ Len(m[n].mem) = Len(l[n].mem) /\ m[n].mem[at] = c
    /\ \A k \in 1..Len(l[n].mem) : k # at => m[n].mem[k] = l[n].mem[k]

LEMMA PutCell ==
    ASSUME NEW l \in Seq(Entry), NEW n \in 1..Len(l), NEW at \in 1..Len(l[n].mem), NEW c \in Cell,
           NEW m, m = Put(l, n, at, c)
    PROVE  IsPut(m, l, n, at, c)
  <1> DEFINE e == l[n]  mem == [e.mem EXCEPT ![at] = c]  f == [e EXCEPT !.mem = mem]
  <1>1. e \in Entry /\ Len(l) \in Nat /\ DOMAIN l = 1..Len(l)
    OBVIOUS
  <1>2. e.mem \in Seq(Cell) /\ DOMAIN e.mem = 1..Len(e.mem) /\ Len(e.mem) \in Nat
    BY <1>1, EntryFields
  <1>3. m = [l EXCEPT ![n] = f]
    BY DEF Put
  <1> HIDE DEF e
  <1>4. at \in 1..Len(e.mem)
    BY DEF e
  <1>5. mem \in Seq(Cell) /\ Len(mem) = Len(e.mem) /\ mem[at] = c
        /\ \A k \in 1..Len(e.mem) : k # at => mem[k] = e.mem[k]
    BY <1>2, <1>4
  <1> HIDE DEF mem
  <1>6. f \in Entry /\ f.mem = mem /\ f.index = e.index /\ f.from = e.from /\ f.type = e.type
    BY <1>1, <1>5 DEF Entry
  <1> HIDE DEF f
  <1>7. m \in Seq(Entry) /\ Len(m) = Len(l) /\ m[n] = f /\ \A i \in 1..Len(l) : i # n => m[i] = l[i]
    BY <1>1, <1>3, <1>6
  <1> QED BY <1>5, <1>6, <1>7 DEF e, IsPut

\* The row of a subindex.
LEMMA SubRowStep ==
    ASSUME IInv, NEW zero \in BOOLEAN, NEW r \in Row, SubRow(r, zero) PROVE IInv'
  <1> DEFINE L == Len(list)  e == list[L]  at == CellOf(e, r)
  <1>1. /\ UNCHANGED <<conf, runs, extend, nodeId, header, comment, declared, size, copied, lastInt>>
        /\ UNCHANGED <<row, fileLast, rows, given>>
        /\ pc = "reading" /\ row = None /\ comment /\ rows > 0
        /\ r.type = "VAR" /\ r.index = fileLast /\ r.sub > subLast
        /\ subLast' = r.sub /\ subOffset' = subOffset + 1
        /\ default' = Left(r, ~Redefines(r.index))
    BY DEF SubRow, Reading, NextSubRow, Node, Lines, Merge
  <1>2. Merging /\ Kept /\ ~loadedConf /\ Own' = Own /\ (Redefines(fileLast)' <=> Redefines(fileLast))
    BY <1>1 DEF IInv, Phases, Merging, Kept, Own, Redefines
  <1>3. r \in RowType /\ r.sub \in Nat \union {-1} /\ subLast \in Nat \union {-1} /\ subOffset \in Nat
    BY RowAssumption, RowFields DEF IInv, TypeOK
  <1>4. r.sub \in Nat /\ subOffset + 1 \in Nat /\ default' \in {"uninit", "odd", "even"}
    <2>1. default' \in {"uninit", "odd", "even"}
      BY <1>1, LeftType DEF IInv
    <2> QED BY <1>1, <1>3, <2>1
  <1>5. asked \subseteq RowType /\ asked \union {r} \subseteq RowType
    BY <1>3 DEF IInv, TypeOK
  <1>6. CASE Redefines(r.index)
    <2>1. UNCHANGED <<list, stray, asked, pc, loadedConf, counts, freed, overread>>
      BY <1>6 DEF SubRow, Result
    <2> USE <1>1, <1>2, <2>1 DEF IInv
    <2>2. TypeOK'
      BY <1>4 DEF TypeOK
    <2>3. Phases'
      BY DEF Phases, Kept, Merging
    <2>4. Balance'
      BY DEF Balance, Merging
    <2>5. Sides'
      BY DEF Sides, Kept, Merging
    <2>6. Frees' /\ Values_'
      BY DEF Frees, Values_
    <2>7. Current'
      BY <1>6 DEF Current, Redefines
    <2>8. InUse'
      BY DEF InUse
    <2> QED BY <2>2, <2>3, <2>4, <2>5, <2>6, <2>7, <2>8
  <1>7. CASE ~Redefines(r.index)
    <2>1. /\ list # <<>> /\ e.index = fileLast /\ fileLast \in given
          /\ e.type = "REC" =>
                /\ \A k \in 1..Len(e.mem) : k <= subOffset => e.mem[k].sub <= subLast
                /\ \A q \in asked : q.index = fileLast =>
                      \E k \in 1..Len(e.mem) : k <= subOffset /\ Holds(e, q, k)
      BY <1>1, <1>7 DEF IInv, Current
    <2>2. list \in Seq(Entry) /\ L \in Nat /\ L \in 1..Len(list) /\ e \in Entry
      <3>1. list \in Seq(Entry)
        BY DEF IInv, TypeOK
      <3> QED BY <2>1, <3>1
    <2>3. /\ Len(e.mem) \in Nat
          /\ \A k \in 1..Len(e.mem) : e.mem[k] \in Cell /\ e.mem[k].sub \in Nat
      BY <2>2, EntryFields
    <2>4. subOffset < Len(e.mem)
      BY <1>7 DEF SubRow
    <2>5. ASSUME Error(list, zero), UNCHANGED <<list, stray, asked>>
          PROVE  IInv'
      <3>1. TypeOK'
        <4>1. {loadedConf', overread'} \subseteq BOOLEAN /\ pc' = "selected"
          BY <2>5 DEF Error, IInv, TypeOK
        <4> QED BY <1>1, <1>4, <2>5, <4>1 DEF IInv, TypeOK
      <3>2. Sides'
        BY <1>1, <1>2, <2>5 DEF IInv, Sides
      <3>3. Error(list', zero)
        BY <2>5
      <3> QED BY <1>1, <2>5, <3>1, <3>2, <3>3, FailedLoad
    <2>6. ASSUME NEW v \in fill_var(r), e.type # "VAR",
                 asked' = asked \union {r}, UNCHANGED <<pc, loadedConf, counts, freed, overread>>,
                 IF at \in 1..Len(e.mem)
                   THEN /\ list' = [list EXCEPT ![L].mem[at] = [sub |-> r.sub, val |-> v]]
                        /\ UNCHANGED stray
                   ELSE stray' = (stray \/ at > 0) /\ UNCHANGED list
          PROVE  IInv'
      <3> DEFINE c == [sub |-> r.sub, val |-> v]
      <3>1. c \in Cell /\ Stored(v, r)
        <4>1. v \in Val /\ Stored(v, r)
          BY <1>3, FillVar
        <4> QED BY <1>4, <4>1 DEF Cell, Val
      <3>2. e.type = "REC" => at = subOffset + 1 /\ at \in 1..Len(e.mem)
        BY <1>3, <2>3, <2>4 DEF CellOf
      <3>3. /\ list' \in Seq(Entry) /\ Len(list') = L
            /\ \A i \in 1..L : i # L => list'[i] = list[i]
            /\ list'[L].index = e.index /\ list'[L].from = e.from /\ list'[L].type = e.type
            /\ e.type = "REC" =>
                  /\ Len(list'[L].mem) = Len(e.mem) /\ list'[L].mem[at] = c
                  /\ \A k \in 1..Len(e.mem) : k # at => list'[L].mem[k] = e.mem[k]
            /\ stray' \in BOOLEAN
        <4>1. CASE at \in 1..Len(e.mem)
          <5>1. list' = [list EXCEPT ![L].mem[at] = c] /\ stray' = stray
            BY <2>6, <4>1
          <5>2. stray \in BOOLEAN
            BY DEF IInv, TypeOK
          <5> HIDE DEF c, at
          <5>3. /\ list' \in Seq(Entry) /\ Len(list') = Len(list)
                /\ \A i \in 1..Len(list) : i # L => list'[i] = list[i]
                /\ list'[L].index = e.index /\ list'[L].from = e.from /\ list'[L].type = e.type
                /\ Len(list'[L].mem) = Len(e.mem) /\ list'[L].mem[at] = c
                /\ \A k \in 1..Len(e.mem) : k # at => list'[L].mem[k] = e.mem[k]
            <6>1. list' = Put(list, L, at, c)
              BY <5>1 DEF Put
            <6>2. IsPut(list', list, L, at, c)
              <7> HIDE DEF L
              <7> QED BY <2>2, <3>1, <4>1, <6>1, PutCell, Zenon
            <6> HIDE DEF L
            <6> QED BY <6>2 DEF IsPut
          <5> QED BY <5>1, <5>2, <5>3
        <4>2. CASE at \notin 1..Len(e.mem)
          <5>1. list' = list /\ {stray'} \subseteq BOOLEAN
            <6> HIDE DEF at
            <6>1. list' = list /\ stray' = (stray \/ at > 0)
              BY <2>6, <4>2
            <6> QED BY <6>1, Zenon
          <5>2. e.type # "REC"
            BY <3>2, <4>2
          <5> QED BY <2>2, <5>1, <5>2
        <4> QED BY <4>1, <4>2
      <3> HIDE DEF at
      <3>4. /\ \A i \in 1..L : list'[i].index = list[i].index /\ list'[i].from = list[i].from
                                /\ list'[i].type = list[i].type
        BY <3>3
      <3>5. Indices(list') = Indices(list) /\ (Sorted(list) => Sorted(list'))
        BY <3>3, <3>4, SameKeys
      <3>6. TypeOK'
        BY <1>1, <1>4, <1>5, <2>6, <3>3 DEF IInv, TypeOK
      <3>7. Phases'
        BY <1>1, <2>6 DEF IInv, Phases
      <3>8. Balance'
        BY <1>1, <1>2, <2>6, <3>3 DEF IInv, Balance
      <3>9. Sides'
        <4>1. \A i \in 1..Len(list') :
                 (list'[i].from = "internal") = (extend' /\ IsInternal(list'[i].index))
          BY <1>1, <1>2, <3>3, <3>4 DEF IInv, Sides
        <4> QED BY <1>1, <1>2, <3>5, <4>1 DEF IInv, Sides
      <3>10. Frees'
        BY <1>1, <2>6 DEF IInv, Frees
      <3>11. ASSUME e.type = "REC" PROVE Holds(list'[L], r, at)
        <4>1. list'[L].mem[at].sub = r.sub /\ list'[L].mem[at].val = v
          BY <3>3, <3>11
        <4>2. ASSUME NEW j \in 1..(at - 1) PROVE list'[L].mem[j].sub # r.sub
          <5>1. j \in 1..Len(e.mem) /\ j # at /\ j <= subOffset
            BY <1>3, <2>3, <3>2, <3>11
          <5>2. e.mem[j].sub <= subLast /\ e.mem[j].sub \in Nat
            BY <2>1, <2>3, <3>11, <5>1
          <5>3. list'[L].mem[j] = e.mem[j]
            BY <3>3, <3>11, <5>1
          <5> QED BY <1>1, <1>3, <1>4, <5>2, <5>3
        <4> QED BY <3>1, <4>1, <4>2 DEF Holds
      <3>12. ASSUME e.type = "REC", NEW q \in asked, q.index = fileLast
             PROVE  \E k \in 1..Len(list'[L].mem) : k <= subOffset /\ Holds(list'[L], q, k)
        <4>1. PICK k \in 1..Len(e.mem) : k <= subOffset /\ Holds(e, q, k)
          BY <2>1, <3>12
        <4>2. k # at /\ \A j \in 1..(k - 1) : j \in 1..Len(e.mem) /\ j # at
          BY <1>3, <2>3, <3>2, <3>12, <4>1
        <4>3. list'[L].mem[k] = e.mem[k] /\ \A j \in 1..(k - 1) : list'[L].mem[j] = e.mem[j]
          BY <3>3, <3>12, <4>1, <4>2
        <4>4. Holds(list'[L], q, k)
          BY <4>1, <4>3 DEF Holds
        <4> QED BY <3>3, <3>12, <4>1, <4>4
      <3>13. Values_'
        <4>1. \A q \in asked' : q.index \in given'
          BY <1>1, <2>1, <2>6 DEF IInv, Values_
        <4>2. ASSUME NEW i \in 1..Len(list'), NEW q \in asked', list'[i].index = q.index, list'[i].type # "ARR"
              PROVE  \E k \in 1..Len(list'[i].mem) : Holds(list'[i], q, k)
          <5>1. CASE i # L
            <6>1. i \in 1..L /\ list'[i] = list[i]
              BY <3>3, <5>1
            <6>2. CASE q \in asked
              BY <1>1, <4>2, <6>1, <6>2 DEF IInv, Values_
            <6>3. CASE q = r
              <7>1. list[i].index = list[L].index
                BY <1>1, <2>1, <4>2, <6>1, <6>3
              <7>2. list[i].index < list[L].index
                <8>1. Sorted(list) /\ i < L
                  BY <1>2, <2>2, <5>1, <6>1 DEF IInv, Sides
                <8> QED BY <2>2, <6>1, <8>1 DEF Sorted
              <7>3. list[L].index \in Nat
                BY <2>2, ListFields DEF IInv
              <7> QED BY <7>1, <7>2, <7>3
            <6> QED BY <2>6, <6>2, <6>3
          <5>2. CASE i = L
            <6>1. e.type = "REC"
              <7>1. e.type \in {"VAR", "ARR", "REC"} /\ e.type # "ARR"
                BY <2>2, <3>3, <4>2, <5>2 DEF Entry
              <7> QED BY <2>6, <7>1
            <6>2. q.index = fileLast
              BY <2>1, <3>3, <4>2, <5>2
            <6>3. CASE q \in asked
              BY <3>12, <5>2, <6>1, <6>2, <6>3
            <6>4. CASE q = r
              BY <3>2, <3>3, <3>11, <5>2, <6>1, <6>4
            <6> QED BY <2>6, <6>3, <6>4
          <5> QED BY <5>1, <5>2
        <4> QED BY <4>1, <4>2 DEF Values_
      <3>14. Current'
        <4>1. list' # <<>> /\ list'[Len(list')].index = fileLast' /\ fileLast' \in given'
          BY <1>1, <2>1, <2>2, <3>3
        <4>2. ASSUME e.type = "REC", NEW k \in 1..Len(list'[L].mem), k <= subOffset'
              PROVE  list'[L].mem[k].sub <= subLast'
          <5>1. k \in 1..Len(e.mem)
            BY <3>3, <4>2
          <5>2. CASE k = at
            BY <1>1, <1>4, <3>3, <4>2, <5>2
          <5>3. CASE k # at
            <6>1. k <= subOffset
              BY <1>1, <1>3, <2>3, <3>2, <4>2, <5>1, <5>3
            <6>2. e.mem[k].sub <= subLast /\ e.mem[k].sub \in Nat /\ list'[L].mem[k] = e.mem[k]
              BY <2>1, <2>3, <3>3, <4>2, <5>1, <5>3, <6>1
            <6> QED BY <1>1, <1>3, <1>4, <6>2
          <5> QED BY <5>2, <5>3
        <4>3. ASSUME e.type = "REC", NEW q \in asked', q.index = fileLast'
              PROVE  \E k \in 1..Len(list'[L].mem) : k <= subOffset' /\ Holds(list'[L], q, k)
          <5>1. CASE q \in asked
            <6>1. PICK k \in 1..Len(list'[L].mem) : k <= subOffset /\ Holds(list'[L], q, k)
              BY <1>1, <3>12, <4>3, <5>1
            <6>2. k <= subOffset' /\ k \in Nat
              BY <1>1, <1>3, <2>3, <3>3, <4>3, <6>1
            <6> QED BY <6>1, <6>2
          <5>2. CASE q = r
            <6>1. at \in 1..Len(list'[L].mem) /\ at <= subOffset'
              BY <1>1, <1>3, <3>2, <3>3, <4>3
            <6> QED BY <3>11, <4>3, <5>2, <6>1
          <5> QED BY <2>6, <4>3, <5>1, <5>2
        <4> QED BY <3>3, <4>1, <4>2, <4>3 DEF Current
      <3>15. InUse'
        BY <1>1, <2>6 DEF InUse
      <3> QED BY <3>6, <3>7, <3>8, <3>9, <3>10, <3>13, <3>14, <3>15 DEF IInv
    <2>7. \/ /\ e.type # "VAR"
             /\ \E v \in fill_var(r) :
                   IF at \in 1..Len(e.mem)
                     THEN /\ list' = [list EXCEPT ![L].mem[at] = [sub |-> r.sub, val |-> v]]
                          /\ UNCHANGED stray
                     ELSE stray' = (stray \/ at > 0) /\ UNCHANGED list
             /\ asked' = asked \union {r}
             /\ UNCHANGED <<pc, loadedConf, counts, freed, overread>>
          \/ Error(list, zero) /\ UNCHANGED <<list, stray, asked>>
      BY <1>7, Zenon DEF SubRow, Result
    <2> HIDE DEF L, e, at
    <2> QED BY <2>5, <2>6, <2>7
  <1> QED BY <1>6, <1>7

-----------------------------------------------------------------------------
(* The binary search.                                                      *)

\* p is the position of index x between low and high, or 0 if there is none.
IsPlace(l, x, low, high, p) ==
    \/ p \in 1..Len(l) /\ low < p /\ p <= high + 1 /\ l[p].index = x
    \/ p = 0 /\ \A k \in 1..Len(l) : low < k /\ k <= high + 1 => l[k].index # x

Place(l, x, low, high) == CHOOSE p : IsPlace(l, x, low, high, p)

LEMMA PlaceUnique ==
    ASSUME NEW l \in Seq(Entry), Sorted(l), NEW x, NEW low, NEW high
    PROVE  /\ IsPlace(l, x, low, high, Place(l, x, low, high))
           /\ \A p : IsPlace(l, x, low, high, p) => p = Place(l, x, low, high)
  <1>1. \E p : IsPlace(l, x, low, high, p)
    <2>1. CASE \E k \in 1..Len(l) : low < k /\ k <= high + 1 /\ l[k].index = x
      BY <2>1 DEF IsPlace
    <2>2. CASE ~\E k \in 1..Len(l) : low < k /\ k <= high + 1 /\ l[k].index = x
      <3>1. IsPlace(l, x, low, high, 0)
        BY <2>2 DEF IsPlace
      <3> QED BY <3>1
    <2> QED BY <2>1, <2>2
  <1>2. IsPlace(l, x, low, high, Place(l, x, low, high))
    BY <1>1 DEF Place
  <1>3. \A p, q \in 1..Len(l) : l[p].index = l[q].index => p = q
    <2> SUFFICES ASSUME NEW p \in 1..Len(l), NEW q \in 1..Len(l), l[p].index = l[q].index, p # q
                 PROVE  FALSE
      OBVIOUS
    <2>1. l[p] \in Entry /\ l[q] \in Entry
      OBVIOUS
    <2>2. l[p].index \in Nat /\ l[q].index \in Nat
      BY <2>1, EntryFields
    <2>3. p < q \/ q < p
      OBVIOUS
    <2> QED BY <2>2, <2>3 DEF Sorted
  <1>4. ASSUME NEW p, NEW q, IsPlace(l, x, low, high, p), IsPlace(l, x, low, high, q)
        PROVE  p = q
    <2>1. CASE p = 0
      BY <1>4, <2>1 DEF IsPlace
    <2>2. CASE p # 0
      BY <1>3, <1>4, <2>2 DEF IsPlace
    <2> QED BY <2>1, <2>2
  <1> QED BY <1>2, <1>4

LEMMA Middle ==
    ASSUME NEW low \in Nat, NEW high \in Nat, low <= high
    PROVE  \E cur \in Nat : /\ cur = (low + high) \div 2 /\ low <= cur /\ cur <= high
                            /\ low < high => cur < high
  <1> DEFINE cur == (low + high) \div 2
  <1>1. cur \in Nat /\ low <= cur /\ cur <= high /\ (low < high => cur < high)
    OBVIOUS
  <1> QED BY <1>1

\* G finds the place in every interval shorter than d.
Finds(l, x, G, d) == \A a, b \in 0..Len(l) : b - a < d => G[<<a, b>>] = Place(l, x, a, b)

\* One turn of the search is right if the next one is.
LEMMA SearchTurn ==
    ASSUME NEW l \in Seq(Entry), Sorted(l), NEW x \in Nat \ {0}, NEW G,
           NEW low \in 0..Len(l), NEW high \in 0..Len(l), Finds(l, x, G, high - low)
    PROVE  Search(l, x, G, low, high) = Place(l, x, low, high)
  <1> DEFINE s == Search(l, x, G, low, high)
  <1> USE DEF Finds
  <1>1. Len(l) \in Nat /\ low \in Nat /\ high \in Nat
    OBVIOUS
  <1>2. \A k \in 1..Len(l) : l[k].index \in Nat \ {0}
    <2> TAKE k \in 1..Len(l)
    <2>1. l[k] \in Entry
      OBVIOUS
    <2> QED BY <2>1, EntryFields
  <1>3. \A j, k \in 1..Len(l) : j <= k => l[j].index <= l[k].index
    <2> TAKE j, k \in 1..Len(l)
    <2>1. j = k \/ j < k \/ k < j
      OBVIOUS
    <2> QED BY <1>2, <2>1 DEF Sorted
  <1>4. IsPlace(l, x, low, high, s)
    <2>1. CASE low > high
      <3>1. s = 0
        BY <2>1 DEF Search
      <3>2. \A k \in 1..Len(l) : ~(low < k /\ k <= high + 1)
        BY <1>1, <2>1
      <3> QED BY <3>1, <3>2 DEF IsPlace
    <2>2. CASE low <= high
      <3>1. PICK cur \in Nat : /\ cur = (low + high) \div 2 /\ low <= cur /\ cur <= high
                               /\ low < high => cur < high
        BY <1>1, <2>2, Middle
      <3> DEFINE at == IF cur + 1 <= Len(l) THEN l[cur + 1].index ELSE 0
      <3>2. s = IF at = x THEN cur + 1
                ELSE IF low = high \/ at = 0 THEN 0
                ELSE IF x < at THEN IF cur = 0 THEN 0 ELSE G[<<low, cur - 1>>]
                ELSE G[<<cur + 1, high>>]
        <4>1. ~(low > high)
          BY <1>1, <2>2
        <4> QED BY <3>1, <4>1 DEF Search
      <3>3. CASE at = x
        <4>1. cur + 1 \in 1..Len(l) /\ l[cur + 1].index = x
          BY <1>1, <3>3
        <4>2. s = cur + 1 /\ low < cur + 1 /\ cur + 1 <= high + 1
          BY <1>1, <3>1, <3>2, <3>3
        <4> QED BY <4>1, <4>2 DEF IsPlace
      <3>4. CASE at # x /\ low = high
        <4>1. s = 0
          BY <3>2, <3>4
        <4>2. ASSUME NEW k \in 1..Len(l), low < k, k <= high + 1 PROVE l[k].index # x
          <5>1. k = cur + 1
            BY <1>1, <3>1, <3>4, <4>2
          <5> QED BY <3>4, <5>1
        <4> QED BY <4>1, <4>2 DEF IsPlace
      <3>5. CASE at # x /\ low # high
        <4>1. low < high /\ cur < high
          BY <1>1, <2>2, <3>1, <3>5
        <4>2. cur + 1 \in 1..Len(l)
          BY <1>1, <3>1, <4>1
        <4>3. at = l[cur + 1].index /\ at \in Nat \ {0}
          BY <1>2, <4>2
        <4>4. CASE x < at
          <5>1. \A k \in 1..Len(l) : cur + 1 <= k => l[k].index # x
            <6> SUFFICES ASSUME NEW k \in 1..Len(l), cur + 1 <= k PROVE l[k].index # x
              OBVIOUS
            <6>1. at <= l[k].index /\ l[k].index \in Nat
              BY <1>2, <1>3, <4>2, <4>3
            <6> HIDE DEF at
            <6> QED BY <4>3, <4>4, <6>1
          <5>2. CASE cur = 0
            <6>1. s = 0
              BY <3>2, <3>5, <4>3, <4>4, <5>2
            <6> QED BY <5>1, <5>2, <6>1 DEF IsPlace
          <5>3. CASE cur # 0
            <6> DEFINE h == cur - 1
            <6>1. h \in 0..Len(l) /\ h - low < high - low
              BY <1>1, <3>1, <4>1, <4>2, <5>3
            <6>2. s = G[<<low, h>>]
              BY <3>2, <3>5, <4>3, <4>4, <5>3
            <6> HIDE DEF h, s
            <6>3. IsPlace(l, x, low, h, s)
              BY <6>1, <6>2, PlaceUnique
            <6>4. h + 1 = cur
              BY <5>3 DEF h
            <6>5. CASE s = 0 /\ \A k \in 1..Len(l) : low < k /\ k <= h + 1 => l[k].index # x
              <7>1. \A k \in 1..Len(l) : k <= h + 1 \/ cur + 1 <= k
                BY <6>4
              <7> QED BY <5>1, <6>5, <7>1 DEF IsPlace
            <6>6. CASE s \in 1..Len(l) /\ low < s /\ s <= h + 1 /\ l[s].index = x
              <7>1. s <= high + 1
                BY <1>1, <3>1, <6>4, <6>6
              <7> QED BY <6>6, <7>1 DEF IsPlace
            <6> QED BY <6>3, <6>5, <6>6 DEF IsPlace
          <5> QED BY <5>2, <5>3
        <4>5. CASE ~(x < at)
          <5>0. at < x
            <6> HIDE DEF at
            <6> QED BY <3>5, <4>3, <4>5
          <5>1. \A k \in 1..Len(l) : k <= cur + 1 => l[k].index # x
            <6> SUFFICES ASSUME NEW k \in 1..Len(l), k <= cur + 1 PROVE l[k].index # x
              OBVIOUS
            <6>1. l[k].index <= at /\ l[k].index \in Nat
              BY <1>2, <1>3, <4>2, <4>3
            <6> HIDE DEF at
            <6> QED BY <4>3, <5>0, <6>1
          <5> DEFINE a == cur + 1
          <5>2. a \in 0..Len(l) /\ high - a < high - low
            BY <1>1, <3>1, <4>1, <4>2
          <5>3. s = G[<<a, high>>]
            BY <3>2, <3>5, <4>3, <4>5
          <5>4. a \in Nat /\ low < a
            BY <1>1, <3>1
          <5> HIDE DEF s
          <5>5. \A k \in 1..Len(l) : k <= a => l[k].index # x
            BY <5>1
          <5> HIDE DEF a
          <5>6. IsPlace(l, x, a, high, s)
            BY <5>2, <5>3, PlaceUnique
          <5>7. CASE s = 0 /\ \A k \in 1..Len(l) : a < k /\ k <= high + 1 => l[k].index # x
            <6>1. \A k \in 1..Len(l) : k <= a \/ a < k
              BY <5>4
            <6> QED BY <5>5, <5>7, <6>1 DEF IsPlace
          <5>8. CASE s \in 1..Len(l) /\ a < s /\ s <= high + 1 /\ l[s].index = x
            <6>1. low < s
              BY <1>1, <5>4, <5>8
            <6> QED BY <5>8, <6>1 DEF IsPlace
          <5> QED BY <5>6, <5>7, <5>8 DEF IsPlace
        <4> QED BY <4>4, <4>5
      <3> QED BY <3>3, <3>4, <3>5
    <2> QED BY <1>1, <2>1, <2>2
  <1> QED BY <1>4, PlaceUnique

\* OD_find finds every object of a sorted list without uninitialized entries.
\* The function the search defines exists, as Place satisfies its equation,
\* and is equal to Place: consider a shortest interval where it is not.
LEMMA FindExact ==
    ASSUME NEW l \in Seq(Entry), Sorted(l), NEW i \in 1..Len(l)
    PROVE  OD_find(l, Len(l), l[i].index) = i
  <1> DEFINE n == Len(l)  D == (0..n) \X (0..n)  x == l[i].index
             F == [b \in D |-> Place(l, x, b[1], b[2])]
  <1>1. n \in Nat /\ n # 0 /\ x \in Nat \ {0}
    <2>1. l[i] \in Entry
      OBVIOUS
    <2> QED BY <2>1, EntryFields
  <1> HIDE DEF x
  <1>2. F = [b \in D |-> Search(l, x, F, b[1], b[2])]
    <2>1. \A a, c \in 0..n : F[<<a, c>>] = Place(l, x, a, c)
      OBVIOUS
    <2> HIDE DEF F
    <2>2. \A low, high \in 0..n : Search(l, x, F, low, high) = Place(l, x, low, high)
      <3> TAKE low, high \in 0..n
      <3>1. Finds(l, x, F, high - low)
        BY <2>1 DEF Finds
      <3> QED BY <1>1, <3>1, SearchTurn
    <2>3. \A b \in D : b[1] \in 0..n /\ b[2] \in 0..n
      OBVIOUS
    <2>4. \A b \in D : Search(l, x, F, b[1], b[2]) = Place(l, x, b[1], b[2])
      BY <2>2, <2>3, Zenon
    <2>5. [b \in D |-> Search(l, x, F, b[1], b[2])] = [b \in D |-> Place(l, x, b[1], b[2])]
      BY <2>4, Zenon
    <2> QED BY <2>5, Zenon DEF F
  <1> DEFINE G == CHOOSE f : f = [b \in D |-> Search(l, x, f, b[1], b[2])]
  <1>3. G = [b \in D |-> Search(l, x, G, b[1], b[2])]
    <2> HIDE DEF F, D
    <2> QED BY <1>2, Zenon
  <1>4. OD_find(l, n, x) = G[<<0, n - 1>>]
    BY <1>1, Zenon DEF OD_find
  <1> HIDE DEF F, G
  <1>5. \A low, high \in 0..n : G[<<low, high>>] = Search(l, x, G, low, high)
    <2> TAKE low, high \in 0..n
    <2>1. <<low, high>> \in D /\ <<low, high>>[1] = low /\ <<low, high>>[2] = high
      OBVIOUS
    <2> HIDE DEF D
    <2> QED BY <1>3, <2>1
  <1>6. \A low, high \in 0..n : G[<<low, high>>] = Place(l, x, low, high)
    <2> DEFINE Wrong(low, high) == G[<<low, high>>] # Place(l, x, low, high)
               S == {d \in Nat : \E low, high \in 0..n : d = high - low + n /\ Wrong(low, high)}
    <2> SUFFICES ASSUME NEW p \in 0..n, NEW q \in 0..n, Wrong(p, q) PROVE FALSE
      OBVIOUS
    <2>1. q - p + n \in S
      <3>1. q - p + n \in Nat
        BY <1>1
      <3> HIDE DEF Wrong, n
      <3> QED BY <3>1
    <2>2. PICK d \in S : \A e \in S : d <= e
      <3>1. S \subseteq Nat /\ S # {}
        BY <2>1
      <3> HIDE DEF S
      <3> QED BY <3>1, LeastNat
    <2>3. PICK low \in 0..n, high \in 0..n : d = high - low + n /\ Wrong(low, high)
      BY <2>2
    <2>4. ASSUME NEW a \in 0..n, NEW b \in 0..n, b - a < high - low
          PROVE  G[<<a, b>>] = Place(l, x, a, b)
      <3> SUFFICES ASSUME Wrong(a, b) PROVE FALSE
        OBVIOUS
      <3>1. b - a + n \in Nat
        BY <1>1
      <3> HIDE DEF Wrong
      <3>2. b - a + n \in S
        BY <3>1
      <3> HIDE DEF S
      <3>3. d <= b - a + n
        BY <2>2, <3>2
      <3> QED BY <1>1, <2>3, <2>4, <3>1, <3>3
    <2>5. Finds(l, x, G, high - low)
      BY <2>4 DEF Finds
    <2>6. Search(l, x, G, low, high) = Place(l, x, low, high)
      BY <1>1, <2>5, SearchTurn
    <2> QED BY <1>5, <2>3, <2>6
  <1>7. G[<<0, n - 1>>] = Place(l, x, 0, n - 1)
    <2>1. 0 \in 0..n /\ n - 1 \in 0..n
      BY <1>1
    <2> QED BY <1>6, <2>1
  <1>8. IsPlace(l, x, 0, n - 1, i)
    <2>1. i \in 1..n /\ 0 < i /\ i <= (n - 1) + 1
      BY <1>1
    <2> QED BY <2>1 DEF IsPlace, x
  <1>9. Place(l, x, 0, n - 1) = i
    BY <1>8, PlaceUnique
  <1> QED BY <1>4, <1>7, <1>9 DEF x

-----------------------------------------------------------------------------
(* From the file to CANopenNode.                                           *)

LEMMA FixStep == ASSUME IInv, fix_cob_ids PROVE IInv'
  <1> DEFINE dict == IF loadedConf THEN list ELSE Internal
  <1>1. /\ UNCHANGED <<conf, runs, extend, nodeId, header, comment, declared, copied, lastInt>>
        /\ UNCHANGED <<row, subOffset, default, stray, loadedConf, counts, freed, overread>>
        /\ UNCHANGED <<fileLast, subLast, rows, given, asked>>
        /\ pc = "selected" /\ pc' = "fixed"
        /\ list' = [i \in 1..Len(dict) |-> Fixed(dict[i])]
        /\ size' = IF loadedConf THEN size ELSE Len(Internal)
    BY DEF fix_cob_ids, Node, Lines, Merge, Result, File, History
  <1>2. row = None /\ nodeId \in 0..255 /\ loadedConf \in BOOLEAN
    BY <1>1, ConfigBoundAssumption DEF IInv, Phases, TypeOK
  <1>3. dict \in Seq(Entry) /\ Len(dict) \in Nat /\ \A i \in 1..Len(dict) : dict[i] \in Entry
    BY InternalAssumption DEF IInv, TypeOK
  <1> HIDE DEF dict
  <1>4. \A i \in 1..Len(dict) :
           /\ Fixed(dict[i]) \in Entry /\ ~Unfixed(Fixed(dict[i]))
           /\ Fixed(dict[i]).index = dict[i].index /\ Fixed(dict[i]).from = dict[i].from
    BY <1>2, <1>3, FixedFacts
  <1>5. list' \in Seq(Entry) /\ Len(list') = Len(dict) /\ Len(list') \in Nat
        /\ \A i \in 1..Len(dict) : list'[i] = Fixed(dict[i])
    BY <1>1, <1>3, <1>4
  <1>6. \A i \in 1..Len(dict) :
           list'[i].index = dict[i].index /\ list'[i].from = dict[i].from /\ ~Unfixed(list'[i])
    BY <1>4, <1>5
  <1>7. Indices(list') = Indices(dict) /\ (Sorted(dict) => Sorted(list'))
    BY <1>5, <1>6, SameKeys
  <1>8. TypeOK'
    <2>1. size' \in Nat
      BY <1>1, InternalFacts DEF IInv, TypeOK
    <2> QED BY <1>1, <1>5, <2>1 DEF IInv, TypeOK
  <1>9. \A i \in 1..Len(list') : ~Unfixed(list[i])'
    BY <1>1, <1>5, <1>6 DEF Unfixed
  <1>10. Own' = Own
    BY <1>1 DEF Own
  <1>11. CASE loadedConf
    <2>1. dict = list /\ Kept /\ Merging /\ size' = size
      BY <1>1, <1>11 DEF dict, Kept, Merging
    <2>2. Phases'
      <3>1. comment
        BY <1>11 DEF IInv, Phases
      <3> QED BY <1>1, <1>2, <3>1 DEF IInv, Phases
    <2>3. Balance'
      BY <1>1, <1>5, <1>10, <2>1 DEF IInv, Balance
    <2>4. Sides'
      <3>1. \A i \in 1..Len(list') :
               (list'[i].from = "internal") = (extend' /\ IsInternal(list'[i].index))
        BY <1>1, <1>5, <1>6, <2>1 DEF IInv, Sides
      <3> QED BY <1>1, <1>7, <1>10, <2>1, <3>1 DEF IInv, Sides
    <2>5. Frees' /\ Values_' /\ Current'
      BY <1>1 DEF Frees, Values_, Current
    <2>6. InUse'
      BY <1>1, <1>9, <1>11 DEF InUse
    <2> QED BY <1>8, <2>2, <2>3, <2>4, <2>5, <2>6 DEF IInv
  <1>12. CASE ~loadedConf
    <2>1. dict = Internal /\ size' = Len(list')
      BY <1>1, <1>5, <1>12 DEF dict
    <2>2. Sorted(list')
      BY <1>7, <2>1, InternalAssumption DEF Sorted
    <2>3. ~Kept' /\ ~Merging'
      BY <1>1, <1>12 DEF Kept, Merging
    <2>4. Phases' /\ Balance' /\ Sides'
      BY <1>1, <1>2, <1>12, <2>3 DEF Phases, Balance, Sides
    <2>5. Frees' /\ Values_' /\ Current'
      BY <1>1 DEF Frees, Values_, Current
    <2>6. InUse'
      BY <1>1, <1>9, <2>1, <2>2 DEF InUse
    <2> QED BY <1>8, <2>4, <2>5, <2>6 DEF IInv
  <1> QED BY <1>11, <1>12

LEMMA FillConfigStep == ASSUME IInv, fill_config PROVE IInv'
  <1>1. /\ UNCHANGED <<conf, runs, extend, nodeId, header, comment, declared, size, list, copied, lastInt>>
        /\ UNCHANGED <<row, subOffset, default, stray, loadedConf, freed, overread>>
        /\ UNCHANGED <<fileLast, subLast, rows, given, asked>>
        /\ pc = "fixed" /\ pc' = "running"
        /\ counts' = <<RunLength(list, OD_find(list, size, 5120), 5632),
                       RunLength(list, OD_find(list, size, 6144), 6656)>>
    BY DEF fill_config, Node, Lines, Merge, File, History
  <1>2. TypeOK'
    BY <1>1 DEF IInv, TypeOK
  <1>3. Phases'
    BY <1>1 DEF IInv, Phases, Kept, Merging
  <1>4. Balance'
    BY <1>1 DEF IInv, Balance, Merging, Own
  <1>5. Sides'
    BY <1>1 DEF IInv, Sides, Kept, Merging, Own
  <1>6. Frees' /\ Values_' /\ Current'
    BY <1>1 DEF Frees, Values_, Current
  <1>7. InUse'
    <2>1. \A i \in 1..Len(list) : ~Unfixed(list[i])
      BY <1>1 DEF IInv, InUse
    <2>2. \A i \in 1..Len(list') : ~Unfixed(list[i])'
      BY <1>1, <2>1 DEF Unfixed
    <2>3. ~loadedConf' => size' = Len(list') /\ Sorted(list')
      BY <1>1 DEF IInv, InUse
    <2> QED BY <1>1, <2>2, <2>3 DEF InUse
  <1> QED BY <1>2, <1>3, <1>4, <1>5, <1>6, <1>7 DEF IInv

LEMMA ExitStep == ASSUME IInv, NEW zero \in BOOLEAN, Exit(zero) PROVE IInv'
  <1>1. /\ UNCHANGED <<conf, runs, extend, nodeId, header, comment, declared, size, list, copied, lastInt>>
        /\ UNCHANGED <<row, subOffset, default, stray, loadedConf, counts>>
        /\ UNCHANGED <<fileLast, subLast, rows, given, asked>>
        /\ pc = "running" /\ pc' = "exited"
        /\ loadedConf => freed' = FreedBy(list, extend)
    BY DEF Exit, Node, Lines, Merge, File, History
  <1>2. TypeOK'
    <2>1. {overread'} \subseteq BOOLEAN
      BY DEF Exit, IInv, TypeOK
    <2> QED BY <1>1, <2>1 DEF IInv, TypeOK
  <1>3. Phases'
    BY <1>1 DEF IInv, Phases, Kept, Merging
  <1>4. Balance'
    BY <1>1 DEF IInv, Balance, Merging, Own
  <1>5. Sides'
    BY <1>1 DEF IInv, Sides, Kept, Merging, Own
  <1>6. Frees' /\ Values_' /\ Current' /\ InUse'
    BY <1>1 DEF Frees, Values_, Current, InUse
  <1> QED BY <1>2, <1>3, <1>4, <1>5, <1>6 DEF IInv

LEMMA StutterStep == ASSUME IInv, UNCHANGED vars PROVE IInv'
  <1>1. /\ UNCHANGED <<conf, runs, pc, extend, nodeId, header, comment, declared, size, list, copied>>
        /\ UNCHANGED <<lastInt, row, subOffset, default, stray, loadedConf, counts, freed, overread>>
        /\ UNCHANGED <<fileLast, subLast, rows, given, asked>>
    BY DEF vars
  <1>2. TypeOK'
    BY <1>1 DEF IInv, TypeOK
  <1>3. Phases'
    BY <1>1 DEF IInv, Phases, Kept, Merging
  <1>4. Balance'
    BY <1>1 DEF IInv, Balance, Merging, Own
  <1>5. Sides'
    BY <1>1 DEF IInv, Sides, Kept, Merging, Own
  <1>6. Frees' /\ Values_'
    BY <1>1 DEF IInv, Frees, Values_
  <1>7. Current'
    BY <1>1 DEF IInv, Current, Redefines
  <1>8. InUse'
    BY <1>1 DEF IInv, InUse, Unfixed
  <1> QED BY <1>2, <1>3, <1>4, <1>5, <1>6, <1>7, <1>8 DEF IInv

\* The merge, the values and the dictionary in use are as described after
\* every line of every sorted file, for every internal dictionary.
THEOREM Inductive == Spec => []IInv
  <1>1. IInv /\ [Next]_vars => IInv'
    <2> SUFFICES ASSUME IInv, [Next]_vars PROVE IInv'
      OBVIOUS
    <2>1. ASSUME NEW option \in BOOLEAN, Start(option) PROVE IInv'
      BY <2>1, StartStep
    <2>2. CASE HeaderLine
      BY <2>2, HeaderLineStep
    <2>3. CASE NoFile
      BY <2>3, NoFileStep
    <2>4. CASE CopyInternal
      BY <2>4, CopyInternalStep
    <2>5. ASSUME NEW n \in 0..MaxRows, ObjectsComment(n) PROVE IInv'
      BY <2>5, ObjectsCommentStep
    <2>6. ASSUME NEW r \in Row, EarlyRow(r) PROVE IInv'
      BY <2>6, EarlyRowStep
    <2>7. ASSUME NEW r \in Row, IndexRow(r) PROVE IInv'
      BY <2>7, IndexRowStep
    <2>8. ASSUME NEW zero \in BOOLEAN, SkipIndex(zero) PROVE IInv'
      BY <2>8, SkipIndexStep
    <2>9. ASSUME NEW zero \in BOOLEAN, PlaceIndex(zero) PROVE IInv'
      BY <2>9, PlaceIndexStep
    <2>10. ASSUME NEW zero \in BOOLEAN, Eof(zero) PROVE IInv'
      BY <2>10, EofStep
    <2>11. ASSUME NEW zero \in BOOLEAN, Exit(zero) PROVE IInv'
      BY <2>11, ExitStep
    <2>12. ASSUME NEW zero \in BOOLEAN, NEW r \in Row, SubRow(r, zero) PROVE IInv'
      BY <2>12, SubRowStep
    <2>13. CASE fix_cob_ids
      BY <2>13, FixStep
    <2>14. CASE fill_config
      BY <2>14, FillConfigStep
    <2>15. CASE UNCHANGED vars
      BY <2>15, StutterStep
    <2> QED
      BY <2>1, <2>2, <2>3, <2>4, <2>5, <2>6, <2>7, <2>8, <2>9, <2>10, <2>11, <2>12, <2>13,
         <2>14, <2>15 DEF Next
  <1> QED BY InitIInv, <1>1, PTL DEF Spec

-----------------------------------------------------------------------------
(* The properties.                                                         *)

\* The variables stay in their types, whatever the file says: the size that
\* the skipped rows count down never falls below zero.
THEOREM TypeCorrect == Spec => []TypeOK
  <1>1. IInv => TypeOK
    BY DEF IInv
  <1> QED BY <1>1, Inductive, PTL

\* A whole file leaves a sorted list of the size that was counted.
LEMMA WholeList ==
    ASSUME IInv, Whole
    PROVE  /\ Len(list) = size /\ Sorted(list)
           /\ Indices(list) = given \union (IF extend THEN Indices(Internal) ELSE {})
  <1>1. Merging /\ Kept /\ loadedConf /\ rows = declared /\ (extend => copied = Len(Internal))
    BY DEF Whole, Merging, Kept
  <1>2. /\ copied <= Own /\ size - Len(list) = (Own - copied) + (declared - rows)
        /\ copied > 0 => extend
        /\ Sorted(list) /\ Indices(list) = given \union {Internal[k].index : k \in 1..copied}
    BY <1>1 DEF IInv, Balance, Sides
  <1>3. copied \in Nat /\ size \in Nat /\ declared \in Nat /\ Len(list) \in Nat /\ Len(Internal) \in Nat
    BY ListFields, InternalFacts DEF IInv, TypeOK
  <1>4. Own = copied
    BY <1>1, <1>2, <1>3 DEF Own
  <1>5. Len(list) = size
    BY <1>1, <1>2, <1>3, <1>4
  <1>6. {Internal[k].index : k \in 1..copied} = IF extend THEN Indices(Internal) ELSE {}
    <2>1. CASE extend
      BY <1>1, <2>1 DEF Indices
    <2>2. CASE ~extend
      <3>1. 1..copied = {}
        BY <1>2, <1>3, <2>2
      <3> QED BY <2>2, <3>1
    <2> QED BY <2>1, <2>2
  <1> QED BY <1>2, <1>5, <1>6

\* The merge of od_config_load stays within the memory of the list, and a whole
\* file gives the sorted union of the two dictionaries, in which the internal
\* entries win.
THEOREM MergeIsExact == Spec => []ListExact
  <1>1. IInv => ListExact
    <2> SUFFICES ASSUME IInv PROVE ListExact
      OBVIOUS
    <2>1. ASSUME pc = "reading", rows <= declared PROVE Len(list) <= size
      <3>1. copied <= Own /\ size - Len(list) = (Own - copied) + (declared - rows)
        BY <2>1 DEF IInv, Balance, Merging
      <3>2. /\ copied \in Nat /\ size \in Nat /\ declared \in Nat /\ rows \in Nat /\ Len(list) \in Nat
            /\ Len(Internal) \in Nat
        BY ListFields, InternalFacts DEF IInv, TypeOK
      <3>3. Own \in Nat
        BY <3>2 DEF Own
      <3> QED BY <2>1, <3>1, <3>2, <3>3
    <2>2. ASSUME Whole, extend, NEW i \in 1..Len(list), IsInternal(list[i].index)
          PROVE  list[i].from = "internal"
      <3>1. Kept
        BY <2>2 DEF Whole, Kept, Merging
      <3> QED BY <2>2, <3>1 DEF IInv, Sides
    <2> QED BY <2>1, <2>2, WholeList DEF ListExact
  <1> QED BY <1>1, Inductive, PTL

\* Every number of a loaded file that is not an array's is read back from its
\* subindex, for every width of long.
THEOREM DefaultsAreKept == Spec => []DefaultsKept
  <1>1. IInv => DefaultsKept
    <2> SUFFICES ASSUME IInv, pc = "selected", loadedConf,
                        NEW i \in 1..Len(list), NEW r \in asked,
                        list[i].index = r.index, list[i].type # "ARR"
                 PROVE  /\ AsWritten(list[i], r)
                        /\ IsNumber(r.dtype) /\ Checked(r.dtype[2]) =>
                              r.text.kind = "empty" \/ Fits(r.dtype, r.text)
      BY DEF DefaultsKept
    <2>1. PICK k \in 1..Len(list[i].mem) : Holds(list[i], r, k)
      BY DEF IInv, Values_
    <2>2. list[i] \in Entry
      BY ListFields DEF IInv
    <2>3. /\ list[i].mem[k].sub = r.sub /\ \A j \in 1..(k - 1) : list[i].mem[j].sub # list[i].mem[k].sub
          /\ Stored(list[i].mem[k].val, r)
      BY <2>1 DEF Holds
    <2>4. HasSub(list[i], r.sub) /\ FirstSub(list[i], r.sub) = k
      <3>1. HasSub(list[i], list[i].mem[k].sub) /\ FirstSub(list[i], list[i].mem[k].sub) = k
        BY <2>2, <2>3, FirstSubUnique
      <3> QED BY <2>3, <3>1
    <2>5. Read(list[i], r.sub) = list[i].mem[k].val
      BY <2>4 DEF Read
    <2> QED BY <2>3, <2>5 DEF AsWritten, Stored
  <1> QED BY <1>1, Inductive, PTL

\* What the free of an object and its allocation differ in.
LEMMA FreedAndLeaked ==
    ASSUME NEW entry, entry.type \in {"VAR", "ARR", "REC"}
    PROVE  FreedOf(entry) = Held(entry) \ Leaked(entry)
  <1>1. CASE entry.type = "VAR"
    BY <1>1 DEF FreedOf, Held, Leaked
  <1>2. CASE entry.type = "ARR"
    BY <1>2 DEF FreedOf, Held, Leaked
  <1>3. CASE entry.type = "REC"
    BY <1>3 DEF FreedOf, Held, Leaked
  <1> QED BY <1>1, <1>2, <1>3

\* od_config_free gives back what it should of the objects made of the file and
\* nothing of the others: the test by index tells them apart, although it never
\* looks where they are.
THEOREM FreesAreExact == Spec => []FreeExact
  <1>1. IInv => FreeExact
    <2> SUFFICES ASSUME IInv, \/ pc = "selected" /\ ~loadedConf
                              \/ pc = "exited" /\ loadedConf
                 PROVE  freed = UNION {{<<i, p>> : p \in Held(list[i]) \ Leaked(list[i])} :
                           i \in {j \in 1..Len(list) : list[j].from = "file" /\ list[j].mem # <<>>}}
      BY DEF FreeExact
    <2>1. Kept /\ freed = FreedBy(list, extend)
      BY DEF IInv, Frees, Kept, Merging
    <2>2. \A i \in 1..Len(list) : (list[i].from = "internal") = (extend /\ IsInternal(list[i].index))
      BY <2>1 DEF IInv, Sides
    <2>3. \A i \in 1..Len(list) : list[i].from \in {"internal", "file"}
      BY ListFields DEF IInv, Entry
    <2>4. \A i \in 1..Len(list) : list[i].from = "file" <=> ~(extend /\ IsInternal(list[i].index))
      BY <2>2, <2>3
    <2>5. {j \in 1..Len(list) : list[j].mem # <<>> /\ ~(extend /\ IsInternal(list[j].index))}
            = {j \in 1..Len(list) : list[j].from = "file" /\ list[j].mem # <<>>}
      BY <2>4
    <2>6. \A i \in 1..Len(list) : FreedOf(list[i]) = Held(list[i]) \ Leaked(list[i])
      <3> SUFFICES ASSUME NEW i \in 1..Len(list)
                   PROVE  FreedOf(list[i]) = Held(list[i]) \ Leaked(list[i])
        OBVIOUS
      <3>1. list[i].type \in {"VAR", "ARR", "REC"}
        BY ListFields DEF IInv, Entry
      <3> QED BY <3>1, FreedAndLeaked
    <2>7. freed = UNION {{<<i, p>> : p \in FreedOf(list[i])} :
                           i \in {j \in 1..Len(list) : list[j].from = "file" /\ list[j].mem # <<>>}}
      BY <2>1, <2>5, Zenon DEF FreedBy
    <2> QED BY <2>6, <2>7
  <1> QED BY <1>1, Inductive, PTL

\* The loops of fill_config count the PDOs of a kind, if the first one is there.
LEMMA RunLengthExact ==
    ASSUME NEW l \in Seq(Entry), Sorted(l), NEW i \in 1..Len(l), NEW end \in Nat
    PROVE  RunLength(l, i, end) = Cardinality(Indices(l) \intersect (l[i].index..(end - 1)))
  <1> DEFINE A == {k \in i..Len(l) : \A j \in i..k : l[j].index < end}
             B == Indices(l) \intersect (l[i].index..(end - 1))
             f == [k \in A |-> l[k].index]
  <1>1. Len(l) \in Nat /\ \A k \in 1..Len(l) : l[k].index \in Nat
    <2>1. \A k \in 1..Len(l) : l[k] \in Entry
      OBVIOUS
    <2> QED BY <2>1, EntryFields
  <1>2. \A j, k \in 1..Len(l) : (j < k => l[j].index < l[k].index) /\ (j <= k => l[j].index <= l[k].index)
    <2> TAKE j, k \in 1..Len(l)
    <2>1. j = k \/ j < k \/ k < j
      OBVIOUS
    <2> QED BY <1>1, <2>1 DEF Sorted
  <1>3. A \subseteq 1..Len(l) /\ IsFiniteSet(A)
    <2>1. A \subseteq 1..Len(l)
      BY <1>1
    <2>2. IsFiniteSet(1..Len(l))
      BY <1>1, FS_Interval
    <2> QED BY <2>1, <2>2, FS_Subset
  <1>4. \A k \in A : l[k].index \in B
    <2> TAKE k \in A
    <2>1. k \in 1..Len(l) /\ i <= k /\ l[k].index < end
      BY <1>1
    <2>2. l[k].index \in l[i].index..(end - 1)
      BY <1>1, <1>2, <2>1
    <2> QED BY <2>1, <2>2 DEF Indices
  <1>5. \A j, k \in A : l[j].index = l[k].index => j = k
    <2> HIDE DEF A
    <2> QED BY <1>1, <1>2, <1>3
  <1>6. \A b \in B : \E k \in A : l[k].index = b
    <2> TAKE b \in B
    <2>1. PICK k \in 1..Len(l) : b = l[k].index
      BY DEF Indices
    <2>2. b \in Nat /\ l[i].index <= b /\ b < end
      BY <1>1, <2>1
    <2>3. i <= k
      BY <1>1, <1>2, <2>1, <2>2
    <2>4. ASSUME NEW j \in i..k PROVE l[j].index < end
      <3>1. j \in 1..Len(l) /\ j <= k
        BY <1>1
      <3>2. l[j].index <= b /\ l[j].index \in Nat
        BY <1>1, <1>2, <2>1, <3>1
      <3> QED BY <2>2, <3>2
    <2> QED BY <2>1, <2>3, <2>4
  <1> HIDE DEF A, B
  <1>7. f \in [A -> B]
    BY <1>4
  <1>8. \A j, k \in A : f[j] = f[k] => j = k
    BY <1>5
  <1>9. \A b \in B : \E k \in A : f[k] = b
    BY <1>6
  <1>10. f \in Bijection(A, B)
    <2> HIDE DEF f
    <2> QED BY <1>7, <1>8, <1>9, Fun_IsBij
  <1>11. ExistsBijection(A, B)
    <2> HIDE DEF f
    <2> QED BY <1>10, Fun_ExistsBij
  <1>12. Cardinality(B) = Cardinality(A)
    BY <1>3, <1>11, FS_Bijection
  <1>13. RunLength(l, i, end) = Cardinality(A)
    BY DEF RunLength, A
  <1> QED BY <1>12, <1>13 DEF B

\* An entry whose COB-ID is the default one or that plus the node id.
ByNodeId(entry) ==
    /\ HasCobId(entry)
    /\ CobId(entry) % 2048 \in {DefaultCobId(entry.index), DefaultCobId(entry.index) + nodeId}

HasNodeCobId(entry) ==
    /\ entry.index \in RPDO \union TPDO
    /\ DefaultCobId(entry.index) \in 384..1407
    /\ CobId(entry) % 2048 = DefaultCobId(entry.index) + nodeId

\* Once the COB-IDs are fixed, it is the default one plus the node id.
LEMMA ByNodeIdFacts ==
    ASSUME NEW entry, ByNodeId(entry), ~Unfixed(entry), nodeId \in 0..255
    PROVE  HasNodeCobId(entry)
  <1> DEFINE c == CobId(entry) % 2048  D == DefaultCobId(entry.index)  ix == entry.index
  <1>1. HasCobId(entry) /\ c \in {D, D + nodeId}
    BY DEF ByNodeId
  <1>2. ix \in RPDO \union TPDO
    BY <1>1 DEF HasCobId
  <1>3. D \in 384..1407
    <2> HIDE DEF ix
    <2> QED BY <1>2, DefaultCobIdDistinct DEF ix
  <1>4. nodeId = 0 \/ c # D
    BY <1>1 DEF Unfixed
  <1>5. c = D + nodeId
    <2> HIDE DEF c, D
    <2> QED BY <1>1, <1>3, <1>4
  <1> QED BY <1>2, <1>3, <1>5 DEF HasNodeCobId

\* CANopenNode finds every object of a dictionary that was loaded whole, or of
\* the internal one, and is told the right numbers of PDOs; no two PDOs left to
\* the node id get the same COB-ID, for every node id.
THEOREM PdosAreConfigured == Spec => []PdosConfigured
  <1>1. IInv => PdosConfigured
    <2> SUFFICES ASSUME IInv, pc = "running", Whole \/ ~loadedConf
                 PROVE  PdosConfigured
      BY DEF PdosConfigured
    <2>1. list \in Seq(Entry) /\ Len(list) \in Nat /\ \A i \in 1..Len(list) : list[i] \in Entry
      BY ListFields DEF IInv, TypeOK
    <2>2. size = Len(list) /\ Sorted(list)
      BY WholeList DEF IInv, InUse
    <2>3. \A i \in 1..Len(list) : OD_find(list, size, list[i].index) = i
      BY <2>1, <2>2, FindExact
    <2>4. \A first, end \in Nat : (\E i \in 1..Len(list) : list[i].index = first) =>
             RunLength(list, OD_find(list, size, first), end) =
                Cardinality(Indices(list) \intersect (first..(end - 1)))
      <3> SUFFICES ASSUME NEW first \in Nat, NEW end \in Nat,
                          NEW i \in 1..Len(list), list[i].index = first
                   PROVE  RunLength(list, OD_find(list, size, first), end) =
                             Cardinality(Indices(list) \intersect (first..(end - 1)))
        OBVIOUS
      <3>1. OD_find(list, size, first) = i
        BY <2>3
      <3>2. RunLength(list, i, end) = Cardinality(Indices(list) \intersect (list[i].index..(end - 1)))
        BY <2>1, <2>2, RunLengthExact
      <3> QED BY <3>1, <3>2
    <2>5. ASSUME NEW first \in Nat, NEW end \in Nat, NEW range, NEW n,
                 range = first..(end - 1),
                 n = RunLength(list, OD_find(list, size, first), end)
          PROVE  Bounded(first, range) => n = Cardinality(Indices(list) \intersect range)
      BY <2>4, <2>5, Zenon DEF Bounded
    <2>6. counts[1] = RunLength(list, OD_find(list, size, 5120), 5632)
          /\ counts[2] = RunLength(list, OD_find(list, size, 6144), 6656)
      BY DEF IInv, InUse
    <2>7. Bounded(5120, RPDO) => counts[1] = Cardinality(Indices(list) \intersect RPDO)
      <3> DEFINE first == 5120  end == 5632
      <3>1. RPDO = first..(end - 1) /\ first \in Nat /\ end \in Nat
        BY DEF RPDO
      <3>2. counts[1] = RunLength(list, OD_find(list, size, first), end)
        BY <2>6
      <3>3. Bounded(first, RPDO) => counts[1] = Cardinality(Indices(list) \intersect RPDO)
        <4> HIDE DEF first, end
        <4> QED BY <2>5, <3>1, <3>2, Zenon
      <3> QED BY <3>3
    <2>8. Bounded(6144, TPDO) => counts[2] = Cardinality(Indices(list) \intersect TPDO)
      <3> DEFINE first == 6144  end == 6656
      <3>1. TPDO = first..(end - 1) /\ first \in Nat /\ end \in Nat
        BY DEF TPDO
      <3>2. counts[2] = RunLength(list, OD_find(list, size, first), end)
        BY <2>6
      <3>3. Bounded(first, TPDO) => counts[2] = Cardinality(Indices(list) \intersect TPDO)
        <4> HIDE DEF first, end
        <4> QED BY <2>5, <3>1, <3>2, Zenon
      <3> QED BY <3>3
    <2>9. nodeId \in 0..255
      BY ConfigBoundAssumption DEF IInv, TypeOK
    <2>10. ASSUME NEW i \in 1..Len(list), NEW j \in 1..Len(list),
                  ByNodeId(list[i]), ByNodeId(list[j]), i # j
           PROVE  CobId(list[i]) % 2048 # CobId(list[j]) % 2048
      <3> DEFINE x == list[i].index  y == list[j].index
                 c == CobId(list[i]) % 2048  d == CobId(list[j]) % 2048
                 D == DefaultCobId(x)  E == DefaultCobId(y)
      <3>1. ~Unfixed(list[i]) /\ ~Unfixed(list[j])
        BY DEF IInv, InUse
      <3>2. x \in RPDO \union TPDO /\ D \in 384..1407 /\ c = D + nodeId
        <4>1. HasNodeCobId(list[i])
          BY <2>9, <2>10, <3>1, ByNodeIdFacts, Zenon
        <4> QED BY <4>1 DEF HasNodeCobId
      <3>3. y \in RPDO \union TPDO /\ E \in 384..1407 /\ d = E + nodeId
        <4>1. HasNodeCobId(list[j])
          BY <2>9, <2>10, <3>1, ByNodeIdFacts, Zenon
        <4> QED BY <4>1 DEF HasNodeCobId
      <3>4. x # y
        <4>1. x \in Nat /\ y \in Nat
          BY ListFields DEF IInv
        <4>2. i < j \/ j < i
          BY <2>10
        <4> QED BY <2>2, <4>1, <4>2 DEF Sorted
      <3>5. D # E
        <4> HIDE DEF x, y
        <4> QED BY <3>2, <3>3, <3>4, DefaultCobIdDistinct
      <3>6. c # d
        <4> HIDE DEF c, d, D, E
        <4> QED BY <2>9, <3>2, <3>3, <3>5
      <3> QED BY <3>6
    <2> QED BY <2>3, <2>7, <2>8, <2>10 DEF PdosConfigured, ByNodeId
  <1> QED BY <1>1, Inductive, PTL
=============================================================================

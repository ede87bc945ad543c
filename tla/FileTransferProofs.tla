------------------------- MODULE FileTransferProofs -------------------------
(***************************************************************************)
(* Proofs about FileTransfer, for any names and contents: the caches hold  *)
(* complete files, what a client wrote under a bare name is in the cache   *)
(* unless the disk failed, and what it reads is one version of a file.     *)
(*                                                                         *)
(* The inductive invariant has one part for each of the two mutexes and    *)
(* one for each loop: the responder's copy into the fread cache, the       *)
(* segments and the move of a write, the copy and the segments of a read,  *)
(* and the segments of a list.  A copy that has met nothing unusual is     *)
(* over after its first turn, because the offset is counted twice; one     *)
(* that has is known by its length alone.                                  *)
(***************************************************************************)
EXTENDS FileTransfer, SequenceTheorems, FiniteSetTheorems, FunctionTheorems, TLAPS

File == Seq(Block) \union {Absent}
Cached == Content \union {Absent}

\* The responder before and during its copy.
Waiting == [pc : {"lock"}, name : Name]
Copying == [pc : {"copy"}, name : Name, content : Content, avail : Nat, pos : Nat, sent : Nat]

Types ==
    /\ fs \in [Dir -> [Name -> File]]
    /\ resp \in {Idle} \union Waiting \union Copying

\* Who holds the mutexes.
Locks ==
    /\ lock["fwrite"] # "responder" /\ (lock["fwrite"] = "main" <=> main = "moving")
    /\ lock["fread"] # "main" /\ (lock["fread"] = "responder" <=> resp.pc = "copy")

\* A cached file is complete unless its last copy fell short or is under way.
Caches ==
    /\ fs["other"] = Other
    /\ \A n \in Name \ failed["fread"] :
          fs["fread"][n] \in Cached \/ (resp.pc = "copy" /\ n = resp.name)
    /\ \A n \in Name \ failed["fwrite"] :
          fs["fwrite"][n] \in Cached \/ (main = "moving" /\ n = sel["fwrite"].name)

\* The first k elements of a sequence.
FirstOf(s, k) == SubSeq(s, 1, k)

\* The responder's copy: the offset runs ahead of what is in the file.
Adding ==
    resp.pc = "copy" =>
        /\ fs["fread"][resp.name] \in Seq(Block)
        /\ Len(fs["fread"][resp.name]) <= resp.pos + resp.sent
        /\ resp.avail <= Len(resp.content)

\* The segments of a write go into the temporary file, all of them unless the
\* write is dirty, and that is moved.
Writing ==
    LET n == sel["fwrite"].name
        part == fs["tmp"][n]
        kept == fs["fwrite"][n]
    IN
    /\ main \in {"write", "adding", "moving"} => src \in Content /\ last = "write"
    /\ main = "write" =>
          /\ length = Len(src) /\ offset < length /\ moved = FirstOf(src, offset)
          /\ offset > 0 => /\ sel["fwrite"] # None /\ part \in Seq(Block)
                           /\ Len(part) <= offset /\ (~dirty => part = moved)
    /\ main \in {"adding", "moving"} =>
          /\ sel["fwrite"] # None /\ part \in Seq(Block)
          /\ Len(part) <= Len(src) /\ (~dirty => part = src)
    /\ main = "moving" =>
          /\ sel["fwrite"].dir = "cache"
          /\ kept \in Seq(Block) /\ pos = 2 * Len(kept)
          /\ n \notin failed["fwrite"] => ~dirty /\ (kept = <<>> \/ kept = src)

\* The selected file is copied to /tmp, and its segments are read from there.
Reading ==
    LET copy == fs["tmp"][tmp["fread"]]
    IN
    /\ main \in {"copying", "copied", "read"} =>
          /\ last = "read" /\ ret = "PARTIAL"
          /\ sel["fread"] # None /\ tmp["fread"] = sel["fread"].name
          /\ src \in Seq(Block) /\ copy \in Seq(Block)
    /\ main \in {"copying", "copied"} => offset = 0 /\ moved = <<>>
    /\ main = "copying" =>
          /\ FileOf("fread", sel["fread"]) # Absent
          /\ sel["fread"].dir = "tmp" => src = <<>>
          /\ pos = 2 * Len(copy)
          /\ ~dirty => copy = <<>> \/ (copy = src /\ src \in Content)
    /\ main \in {"copied", "read"} /\ ~dirty => copy = src /\ (src = <<>> \/ src \in Content)
    /\ main = "read" => 0 < offset /\ offset < length /\ length = Len(copy)
                        /\ moved = FirstOf(copy, offset)

\* The segments of a list.
Lists ==
    main \in {"list_fread", "list_fwrite"} =>
        /\ offset > 0 /\ length = Len(src)
        /\ ~dirty => moved = FirstOf(src, offset)

IInv == /\ TypeOK /\ Types /\ Locks /\ Caches /\ Adding /\ Writing /\ Reading /\ Lists
        /\ WriteDelivered /\ ReadSnapshot

-----------------------------------------------------------------------------
(* Files and their parts.                                                  *)

\* A part of a sequence, by the number of elements that are left.
LEMMA PartFacts ==
    ASSUME NEW S, NEW file \in Seq(S), NEW skip \in Nat, NEW count \in Nat
    PROVE  /\ Part(file, skip, count) \in Seq(S)
           /\ Len(Part(file, skip, count)) =
                 IF skip + count < Len(file) THEN count
                 ELSE IF skip < Len(file) THEN Len(file) - skip ELSE 0
           /\ Len(Part(file, skip, count)) \in 0..count
  <1> DEFINE to == IF skip + count < Len(file) THEN skip + count ELSE Len(file)
             part == SubSeq(file, skip + 1, to)
  <1>1. Len(file) \in Nat /\ \A i \in 1..Len(file) : file[i] \in S
    BY LenProperties, ElementOfSeq
  <1>2. to \in Nat /\ to <= Len(file)
    BY <1>1
  <1>3. \A i \in (skip + 1)..to : file[i] \in S
    BY <1>1, <1>2
  <1>4. part \in Seq(S) /\ Len(part) = IF skip + 1 <= to THEN to - (skip + 1) + 1 ELSE 0
    <2> HIDE DEF to
    <2> QED BY <1>2, <1>3, SubSeqProperties
  <1>5. Part(file, skip, count) = part
    BY DEF Part
  <1> HIDE DEF part
  <1> QED BY <1>1, <1>4, <1>5

\* Adding the next n elements of s to its first k gives its first k + n.
LEMMA FirstExtends ==
    ASSUME NEW S, NEW s \in Seq(S), NEW k \in Nat, NEW n \in Nat, k + n =< Len(s)
    PROVE  /\ FirstOf(s, k) \o Part(s, k, n) = FirstOf(s, k + n)
           /\ FirstOf(s, k) \in Seq(S) /\ Len(FirstOf(s, k)) = k
  <1>1. Len(s) \in Nat /\ \A i \in 1..Len(s) : s[i] \in S
    BY LenProperties, ElementOfSeq
  <1>2. Part(s, k, n) = SubSeq(s, k + 1, k + n)
    BY <1>1 DEF Part
  <1>3. SubSeq(s, 1, k) \o SubSeq(s, k + 1, k + n) = SubSeq(s, 1, k + n)
    <2>1. 1 \in 1..Len(s) + 1 /\ k \in 1 - 1..Len(s) /\ k + n \in k..Len(s)
      BY <1>1
    <2> QED BY <2>1, ConcatAdjacentSubSeq, Zenon
  <1>4. \A i \in 1..k : s[i] \in S
    BY <1>1
  <1>5. SubSeq(s, 1, k) \in Seq(S) /\ Len(SubSeq(s, 1, k)) = IF 1 <= k THEN k - 1 + 1 ELSE 0
    BY <1>4, SubSeqProperties
  <1> QED BY <1>2, <1>3, <1>5 DEF FirstOf

\* The first none and the first all.
LEMMA FirstWhole ==
    ASSUME NEW S, NEW s \in Seq(S)
    PROVE  FirstOf(s, Len(s)) = s /\ FirstOf(s, 0) = <<>> /\ Part(s, 0, Len(s)) = s
  <1>1. Len(s) \in Nat
    BY LenProperties
  <1>2. SubSeq(s, 1, Len(s)) = s
    BY SubSeqFull
  <1>3. SubSeq(s, 1, 0) = <<>>
    BY SubSeqEmpty
  <1>4. Part(s, 0, Len(s)) = SubSeq(s, 1, Len(s))
    BY <1>1 DEF Part
  <1> QED BY <1>2, <1>3, <1>4 DEF FirstOf

\* A file is written.
Put(f, d, n, v) == [f EXCEPT ![d][n] = v]
IsPut(g, f, d, n, v) ==
    /\ g \in [Dir -> [Name -> File]]
    /\ g[d][n] = v
    /\ \A m \in Name : m # n => g[d][m] = f[d][m]
    /\ \A c \in Dir : c # d => g[c] = f[c]
    /\ \A c \in Dir, m \in Name : g[c][m] = f[c][m] \/ (c = d /\ m = n)

LEMMA PutFile ==
    ASSUME NEW f \in [Dir -> [Name -> File]], NEW d \in Dir, NEW n \in Name, NEW v \in File,
           NEW g, g = Put(f, d, n, v)
    PROVE  IsPut(g, f, d, n, v)
  <1>1. g \in [Dir -> [Name -> File]]
    BY DEF Put
  <1>2. g[d] = [f[d] EXCEPT ![n] = v] /\ \A c \in Dir : c # d => g[c] = f[c]
    BY DEF Put
  <1>3. f[d] \in [Name -> File]
    OBVIOUS
  <1>4. g[d][n] = v /\ \A m \in Name : m # n => g[d][m] = f[d][m]
    BY <1>2, <1>3
  <1> QED BY <1>1, <1>2, <1>4 DEF IsPut

\* One call of a transfer whose buffer is one block.
LEMMA Segments ==
    ASSUME NEW off \in Nat, NEW len \in Nat, NEW seg, seg = Segment(off, len, BlocksPerCall)
    PROVE  /\ seg.ret \in ODR /\ seg.off \in Nat /\ seg.n \in 0..1
           /\ seg.ret = "OK" =>
                 seg.off = 0 /\ off + seg.n = len /\ (len > 0 => seg.n = 1)
           /\ seg.ret = "PARTIAL" =>
                 seg.n = 1 /\ seg.off = off + 1 /\ off + 1 < len
           /\ off < len => seg.ret \in {"OK", "PARTIAL"}
  <1> USE DEF BlocksPerCall, ODR
  <1>1. CASE off = 0 /\ len =< 1
    BY <1>1 DEF Segment
  <1>2. CASE ~(off = 0 /\ len =< 1) /\ off >= len
    BY <1>2 DEF Segment
  <1>3. CASE ~(off = 0 /\ len =< 1) /\ ~(off >= len) /\ len - off > 1
    BY <1>3 DEF Segment
  <1>4. CASE ~(off = 0 /\ len =< 1) /\ ~(off >= len) /\ ~(len - off > 1)
    BY <1>4 DEF Segment
  <1> QED BY <1>1, <1>2, <1>3, <1>4

LEMMA WriteSegments ==
    ASSUME NEW off \in Nat, NEW len \in Nat, off < len
    PROVE  WriteSegment(off, len, BlocksPerCall) = Segment(off, len, BlocksPerCall)
  <1> DEFINE seg == Segment(off, len, BlocksPerCall)
  <1>1. seg.n = 1
    BY Segments
  <1>2. ~(seg.n < BlocksPerCall)
    BY <1>1 DEF BlocksPerCall
  <1> HIDE DEF seg
  <1>3. WriteSegment(off, len, BlocksPerCall) =
          IF seg.ret # "DEV_INCOMPAT" /\ seg.n < BlocksPerCall
          THEN [ret |-> "DATA_LONG", n |-> 0, off |-> seg.off] ELSE seg
    BY DEF WriteSegment, seg
  <1> QED BY <1>2, <1>3 DEF seg

\* The list of files is a sequence of two elements or more.
LEMMA ListIsSeq ==
    ASSUME NEW e \in Ext
    PROVE  /\ ListOf(e) \in Seq(Name \union {"[", "]"})
           /\ Len(ListOf(e)) \in Nat /\ Len(ListOf(e)) > 1
  <1> DEFINE T == {n \in Name : fs[e][n] # Absent}
             I == Name \union {"[", "]"}
  <1>1. IsFiniteSet(T)
    <2>1. T \in SUBSET Name
      OBVIOUS
    <2> HIDE DEF T
    <2> QED BY <2>1, NameAssumption, FS_Subset
  <1>2. T \subseteq I
    OBVIOUS
  <1> HIDE DEF T
  <1>3. Listed(T) \in Seq(T)
    <2>1. Cardinality(T) \in Nat /\ ExistsBijection(1..Cardinality(T), T)
      BY <1>1, FS_CardinalityType
    <2>2. Listed(T) \in Bijection(1..Cardinality(T), T)
      BY <2>1 DEF ExistsBijection, Listed
    <2>3. Listed(T) \in [1..Cardinality(T) -> T]
      BY <2>2, Fun_BijectionProperties
    <2> QED BY <2>1, <2>3, SeqDef
  <1>4. Listed(T) \in Seq(I)
    BY <1>2, <1>3
  <1>5. <<"[">> \in Seq(I) /\ <<"]">> \in Seq(I) /\ Len(<<"[">>) = 1 /\ Len(<<"]">>) = 1
    OBVIOUS
  <1>6. ListOf(e) = <<"[">> \o Listed(T) \o <<"]">>
    BY DEF ListOf, T
  <1> QED BY <1>4, <1>5, <1>6, ConcatProperties, LenProperties

-----------------------------------------------------------------------------
(* What several steps have in common.                                      *)

\* A file within the limit of TypeOK.
Limited(file) == file = Absent \/ \E c \in Content : Len(file) <= 2 * Len(c)

LEMMA ContentFacts ==
    ASSUME NEW c \in Content
    PROVE  /\ c \in Seq(Block) /\ c \in File /\ c # Absent /\ c # <<>>
           /\ Len(c) \in Nat /\ Len(c) > 0 /\ Limited(c)
  <1>1. c \in Seq(Block) /\ c # <<>>
    BY ContentAssumption
  <1>2. Len(c) \in Nat /\ Len(c) > 0
    BY <1>1, EmptySeq, LenProperties
  <1>3. Len(c) <= 2 * Len(c)
    BY <1>2
  <1> QED BY <1>1, <1>2, <1>3, AbsentAssumption DEF File, Limited

LEMMA EmptyFile ==
    ASSUME NEW c \in Content
    PROVE  <<>> \in File /\ <<>> \in Seq(Block) /\ Limited(<<>>) /\ <<>> # Absent
  <1>1. Len(<<>>) <= 2 * Len(c)
    BY ContentFacts
  <1>2. <<>> \in Seq(Block)
    BY EmptySeq
  <1>3. <<>> # Absent
    BY <1>2, AbsentAssumption
  <1>4. Limited(<<>>)
    BY <1>1, Zenon DEF Limited
  <1> QED BY <1>2, <1>3, <1>4 DEF File

LEMMA SelectionFacts ==
    ASSUME TypeOK, NEW e \in Ext, sel[e] # None
    PROVE  /\ sel[e] \in Selection /\ sel[e].name \in Name /\ sel[e].name # None
           /\ sel[e].dir \in {"cache", "tmp", "other"} /\ DirOf(e, sel[e]) \in Dir
  <1>1. sel[e] \in Selection
    BY DEF TypeOK
  <1>2. sel[e].name \in Name /\ sel[e].dir \in {"cache", "tmp", "other"}
    BY <1>1 DEF Selection
  <1>3. DirOf(e, sel[e]) \in Dir
    BY <1>2 DEF DirOf, Dir, Ext
  <1> QED BY <1>1, <1>2, <1>3, AbsentAssumption

LEMMA ResponderFacts ==
    ASSUME Types, resp.pc \in {"lock", "copy"}
    PROVE  /\ resp.name \in Name
           /\ resp.pc = "lock" => resp \in Waiting
           /\ resp.pc = "copy" => resp \in Copying
  BY DEF Types, Idle, Waiting, Copying

\* One file is written.
LEMMA Written ==
    ASSUME TypeOK, Types, NEW d \in Dir, NEW n \in Name, NEW v \in File, Limited(v),
           fs' = Put(fs, d, n, v)
    PROVE  /\ IsPut(fs', fs, d, n, v)
           /\ fs' \in [Dir -> [Name -> File]]
           /\ \A c \in Dir, m \in Name : Limited(fs'[c][m])
  <1>1. IsPut(fs', fs, d, n, v)
    BY PutFile DEF Types
  <1>2. \A c \in Dir, m \in Name : Limited(fs[c][m])
    BY DEF TypeOK, Limited
  <1> QED BY <1>1, <1>2 DEF IsPut

\* No transfer is under way, and no outcome is of use.
LEMMA IdleStep ==
    ASSUME main' = "idle", ret' = "none", TypeOK', Types', Locks', Caches', Adding'
    PROVE  IInv'
  <1>1. Writing' /\ Reading' /\ Lists'
    BY DEF Writing, Reading, Lists
  <1>2. WriteDelivered' /\ ReadSnapshot'
    BY DEF WriteDelivered, ReadSnapshot
  <1> QED BY <1>1, <1>2 DEF IInv

\* A transfer ends without success, and files, caches and responder stay.
LEMMA DropStep ==
    ASSUME IInv, main # "moving", main' = "idle", ret' = "none", offset' = 0, length' = 0,
           dirty' = FALSE, pos' \in Nat, UNCHANGED <<fs, failed, resp>>,
           sel' \in [Ext -> Selection \union {None}], tmp' \in [Ext -> Name \union {None}],
           UNCHANGED lock
    PROVE  IInv'
  <1>1. lock' \in [Ext -> {"free", "main", "responder", "leaked"}]
    BY DEF IInv, TypeOK
  <1>2. TypeOK'
    BY <1>1 DEF IInv, TypeOK
  <1>3. Types'
    BY DEF IInv, Types
  <1>4. Locks'
    <2>1. lock["fwrite"] # "main"
      BY DEF IInv, Locks
    <2>2. "fread" \in Ext /\ "fwrite" \in Ext
      BY DEF Ext
    <2> QED BY <2>1, <2>2 DEF IInv, TypeOK, Locks
  <1>5. Caches' /\ Adding'
    BY DEF IInv, Caches, Adding
  <1> QED BY <1>2, <1>3, <1>4, <1>5, IdleStep

\* The responder moves: what the main thread looks at stays, but the fread
\* cache.
LEMMA BesideMain ==
    ASSUME IInv, UNCHANGED <<sel, tmp, main, offset, length, src, moved, ret, last, pos, dirty>>,
           fs'["tmp"] = fs["tmp"], fs'["fwrite"] = fs["fwrite"], fs'["other"] = fs["other"],
           failed'["fwrite"] = failed["fwrite"],
           \A n \in Name : fs'["fread"][n] = Absent => fs["fread"][n] = Absent,
           \A e \in Ext : lock[e] = "leaked" => lock'[e] = "leaked"
    PROVE  Writing' /\ Reading' /\ Lists' /\ WriteDelivered' /\ ReadSnapshot'
  <1>1. Writing'
    BY DEF IInv, Writing
  <1>2. Reading'
    <2>1. main = "copying" => FileOf("fread", sel["fread"])' # Absent
      <3> SUFFICES ASSUME main = "copying" PROVE FileOf("fread", sel["fread"])' # Absent
        OBVIOUS
      <3>1. sel["fread"] # None /\ FileOf("fread", sel["fread"]) # Absent
        BY DEF IInv, Reading
      <3>2. sel["fread"].name \in Name /\ sel["fread"].dir \in {"cache", "tmp", "other"}
        BY <3>1, SelectionFacts DEF IInv, Ext
      <3> QED BY <3>1, <3>2 DEF FileOf, DirOf
    <2> QED BY <2>1 DEF IInv, Reading
  <1>3. Lists'
    BY DEF IInv, Lists
  <1>4. WriteDelivered'
    BY DEF IInv, WriteDelivered
  <1>5. ReadSnapshot'
    BY DEF IInv, ReadSnapshot
  <1> QED BY <1>1, <1>2, <1>3, <1>4, <1>5

-----------------------------------------------------------------------------
(* The initial states and the responder.                                   *)

\* The initial states satisfy the invariant.
LEMMA InitIInv == Init => IInv
  <1> SUFFICES ASSUME Init PROVE IInv
    OBVIOUS
  <1>1. \A n \in Name : Other[n] \in Cached /\ Other[n] \in File /\ Limited(Other[n])
    <2> TAKE n \in Name
    <2>1. Other[n] \in Content \union {Absent}
      BY OtherAssumption
    <2> QED BY <2>1, ContentFacts DEF Cached, File, Limited
  <1>2. /\ fs["other"] = Other
        /\ \A d \in Dir : d # "other" => fs[d] = [n \in Name |-> Absent]
    BY DEF Init, Dir
  <1>3. fs \in [Dir -> [Name -> File]]
    <2>1. \A d \in Dir : fs[d] \in [Name -> File]
      BY <1>1, <1>2, OtherAssumption DEF File
    <2>2. fs = [d \in Dir |-> fs[d]]
      BY DEF Init
    <2> QED BY <2>1, <2>2
  <1>4. \A d \in Dir, n \in Name : Limited(fs[d][n])
    BY <1>1, <1>2 DEF Limited
  <1>5. TypeOK
    BY <1>4 DEF Init, TypeOK, Limited
  <1>6. Types
    BY <1>3 DEF Init, Types
  <1>7. Locks /\ Adding
    BY DEF Init, Locks, Adding, Idle, Ext
  <1>8. Caches
    <2>1. "fread" \in Dir /\ "fwrite" \in Dir
      BY DEF Dir, Ext
    <2> QED BY <1>2, <2>1 DEF Caches, Cached
  <1>9. Writing /\ Reading /\ Lists
    BY DEF Init, Writing, Reading, Lists
  <1>10. WriteDelivered /\ ReadSnapshot
    BY DEF Init, WriteDelivered, ReadSnapshot
  <1> QED BY <1>5, <1>6, <1>7, <1>8, <1>9, <1>10 DEF IInv

\* The responder is asked to add a file, or refuses.
LEMMA AddFileStep ==
    ASSUME IInv, (\E n \in Name : AddFile(n)) \/ AddRefused
    PROVE  IInv'
  <1>1. /\ UNCHANGED <<fs, lock, failed>>
        /\ UNCHANGED <<sel, tmp, main, offset, length, src, moved, ret, last, pos, dirty>>
    BY DEF AddFile, AddRefused, Transfer
  <1>2. /\ resp.pc # "copy" /\ resp'.pc # "copy"
        /\ resp' \in {Idle} \union Waiting
    BY DEF AddFile, AddRefused, Idle, Waiting
  <1>3. Writing' /\ Reading' /\ Lists' /\ WriteDelivered' /\ ReadSnapshot'
    BY <1>1, BesideMain
  <1>4. TypeOK'
    BY <1>1 DEF IInv, TypeOK
  <1>5. Types' /\ Locks'
    BY <1>1, <1>2 DEF IInv, Types, Locks
  <1>6. Caches' /\ Adding'
    BY <1>1, <1>2 DEF IInv, Caches, Adding
  <1> QED BY <1>3, <1>4, <1>5, <1>6 DEF IInv

\* The mutex, and an older file is emptied.
LEMMA AddLockStep ==
    ASSUME IInv, NEW c \in Content, NEW avail \in {0, Len(c)}, AddLock(c, avail)
    PROVE  IInv'
  <1>1. /\ resp.pc = "lock" /\ lock["fread"] = "free"
        /\ lock' = [lock EXCEPT !["fread"] = "responder"]
        /\ fs' = Put(fs, "fread", resp.name, <<>>)
        /\ resp' = [pc |-> "copy", name |-> resp.name, content |-> c, avail |-> avail,
                    pos |-> 0, sent |-> 0]
        /\ UNCHANGED <<failed, sel, tmp, main, offset, length, src, moved, ret, last, pos, dirty>>
    BY DEF AddLock, Transfer, Put
  <1>2. resp.name \in Name
    BY <1>1, ResponderFacts DEF IInv
  <1>3. /\ resp'.pc = "copy" /\ resp'.name = resp.name /\ resp'.content = c
        /\ resp'.avail <= Len(c) /\ resp'.pos + resp'.sent = 0
        /\ resp' \in Copying
    <2>1. Len(c) \in Nat
      BY ContentFacts
    <2> QED BY <1>1, <1>2, <2>1 DEF Copying
  <1>4. <<>> \in File /\ <<>> \in Seq(Block) /\ Limited(<<>>) /\ <<>> # Absent
    BY EmptyFile
  <1>5. "fread" \in Dir /\ "fwrite" \in Dir /\ "tmp" \in Dir /\ "other" \in Dir
    BY DEF Dir, Ext
  <1>6. /\ IsPut(fs', fs, "fread", resp.name, <<>>)
        /\ fs' \in [Dir -> [Name -> File]]
        /\ \A d \in Dir, m \in Name : Limited(fs'[d][m])
    BY <1>1, <1>2, <1>4, <1>5, Written DEF IInv
  <1>7. /\ fs'["tmp"] = fs["tmp"] /\ fs'["fwrite"] = fs["fwrite"] /\ fs'["other"] = fs["other"]
        /\ fs'["fread"][resp.name] = <<>>
        /\ \A m \in Name : m # resp.name => fs'["fread"][m] = fs["fread"][m]
    BY <1>5, <1>6 DEF IsPut
  <1>8. /\ lock' \in [Ext -> {"free", "main", "responder", "leaked"}]
        /\ \A e \in Ext : lock[e] = "leaked" => lock'[e] = "leaked"
    BY <1>1 DEF IInv, TypeOK
  <1>9. Writing' /\ Reading' /\ Lists' /\ WriteDelivered' /\ ReadSnapshot'
    BY <1>1, <1>4, <1>7, <1>8, BesideMain
  <1>10. TypeOK'
    BY <1>1, <1>6, <1>8 DEF IInv, TypeOK, Limited
  <1>11. Types' /\ Locks'
    BY <1>1, <1>3, <1>6 DEF IInv, TypeOK, Types, Locks, Ext
  <1>12. Caches'
    BY <1>1, <1>3, <1>7 DEF IInv, Caches
  <1>13. Adding'
    <2>1. Len(<<>>) = 0
      OBVIOUS
    <2> QED BY <1>3, <1>4, <1>7, <2>1 DEF Adding
  <1> QED BY <1>9, <1>10, <1>11, <1>12, <1>13 DEF IInv

\* A block of the responder's copy.
LEMMA AddCopyStep == ASSUME IInv, AddCopy PROVE IInv'
  <1> DEFINE done == fs["fread"][resp.name]
             at == resp.pos + resp.sent
             longer == Append(done, resp.content[at + 1])
  <1>1. /\ resp.pc = "copy" /\ at < resp.avail
        /\ fs' = Put(fs, "fread", resp.name, longer)
        /\ resp' = [resp EXCEPT !.sent = resp.sent + 1]
        /\ UNCHANGED <<lock, failed>>
        /\ UNCHANGED <<sel, tmp, main, offset, length, src, moved, ret, last, pos, dirty>>
    BY DEF AddCopy, Transfer, Put
  <1>2. resp \in Copying /\ resp.name \in Name
    BY <1>1, ResponderFacts DEF IInv
  <1>3. /\ resp.content \in Content /\ resp.pos \in Nat /\ resp.sent \in Nat
        /\ resp.avail \in Nat
        /\ resp'.pc = "copy" /\ resp'.name = resp.name /\ resp'.content = resp.content
        /\ resp'.pos = resp.pos /\ resp'.sent = resp.sent + 1 /\ resp'.avail = resp.avail
        /\ resp' \in Copying
    BY <1>1, <1>2 DEF Copying
  <1>4. done \in Seq(Block) /\ Len(done) <= at /\ resp.avail <= Len(resp.content)
    BY <1>1 DEF IInv, Adding
  <1>5. resp.content \in Seq(Block) /\ Len(resp.content) \in Nat
    BY <1>3, ContentFacts
  <1>6. resp.content[at + 1] \in Block
    <2>1. at + 1 \in 1..Len(resp.content)
      BY <1>1, <1>3, <1>4, <1>5
    <2> HIDE DEF at
    <2> QED BY <1>5, <2>1, ElementOfSeq
  <1>7. longer \in Seq(Block) /\ Len(longer) = Len(done) + 1 /\ Len(done) \in Nat
    <2> HIDE DEF done, at
    <2> QED BY <1>4, <1>6, AppendProperties, LenProperties
  <1> HIDE DEF longer, done
  <1>8. longer \in File /\ Limited(longer) /\ longer # Absent
    <2>1. Len(longer) <= 2 * Len(resp.content)
      BY <1>1, <1>3, <1>4, <1>5, <1>7
    <2> QED BY <1>3, <1>7, <2>1, AbsentAssumption DEF File, Limited
  <1>9. "fread" \in Dir /\ "fwrite" \in Dir /\ "tmp" \in Dir /\ "other" \in Dir
    BY DEF Dir, Ext
  <1>10. /\ IsPut(fs', fs, "fread", resp.name, longer)
         /\ fs' \in [Dir -> [Name -> File]]
         /\ \A d \in Dir, m \in Name : Limited(fs'[d][m])
    BY <1>1, <1>2, <1>8, <1>9, Written DEF IInv
  <1>11. /\ fs'["tmp"] = fs["tmp"] /\ fs'["fwrite"] = fs["fwrite"] /\ fs'["other"] = fs["other"]
         /\ fs'["fread"][resp.name] = longer
         /\ \A m \in Name : m # resp.name => fs'["fread"][m] = fs["fread"][m]
    BY <1>9, <1>10 DEF IsPut
  <1>12. Writing' /\ Reading' /\ Lists' /\ WriteDelivered' /\ ReadSnapshot'
    BY <1>1, <1>8, <1>11, BesideMain
  <1>13. TypeOK'
    BY <1>1, <1>10 DEF IInv, TypeOK, Limited
  <1>14. Types' /\ Locks'
    BY <1>1, <1>3, <1>10 DEF IInv, Types, Locks
  <1>15. Caches'
    BY <1>1, <1>3, <1>11 DEF IInv, Caches
  <1>16. Adding'
    <2>1. Len(longer) <= resp.pos + (resp.sent + 1)
      BY <1>3, <1>4, <1>7
    <2> QED BY <1>3, <1>4, <1>7, <1>11, <2>1 DEF Adding
  <1> QED BY <1>12, <1>13, <1>14, <1>15, <1>16 DEF IInv

\* sendfile comes back, and the copy goes on from an offset that has skipped.
LEMMA AddTurnStep ==
    ASSUME IInv, resp.pc = "copy",
           resp' = [resp EXCEPT !.pos = resp.pos + 2 * resp.sent, !.sent = 0],
           UNCHANGED <<fs, lock, failed>>,
           UNCHANGED <<sel, tmp, main, offset, length, src, moved, ret, last, pos, dirty>>
    PROVE  IInv'
  <1>1. resp \in Copying /\ resp.name \in Name
    BY ResponderFacts DEF IInv
  <1>2. /\ resp.pos \in Nat /\ resp.sent \in Nat
        /\ resp'.pc = "copy" /\ resp'.name = resp.name /\ resp'.content = resp.content
        /\ resp'.pos = resp.pos + 2 * resp.sent /\ resp'.sent = 0 /\ resp'.avail = resp.avail
        /\ resp' \in Copying
    <2> DEFINE p == resp.pos + 2 * resp.sent
               mid == [resp EXCEPT !.pos = p]
    <2>1. resp.pos \in Nat /\ resp.sent \in Nat
      BY <1>1 DEF Copying
    <2>2. p \in Nat
      BY <2>1
    <2>3. resp' = [mid EXCEPT !.sent = 0]
      OBVIOUS
    <2> HIDE DEF p
    <2>5. /\ mid \in Copying /\ mid.pc = "copy" /\ mid.name = resp.name
          /\ mid.content = resp.content /\ mid.pos = p /\ mid.avail = resp.avail
      BY <1>1, <2>2 DEF Copying
    <2> HIDE DEF mid
    <2>4. /\ resp'.pc = "copy" /\ resp'.name = resp.name /\ resp'.content = resp.content
          /\ resp'.pos = p /\ resp'.sent = 0 /\ resp'.avail = resp.avail
          /\ resp' \in Copying
      BY ONLY <2>3, <2>5 DEF Copying
    <2> QED BY <2>1, <2>4 DEF p
  <1>3. Writing' /\ Reading' /\ Lists' /\ WriteDelivered' /\ ReadSnapshot'
    BY BesideMain
  <1>4. TypeOK'
    BY DEF IInv, TypeOK
  <1>5. Types' /\ Locks'
    BY <1>2 DEF IInv, Types, Locks
  <1>6. Caches'
    BY <1>2 DEF IInv, Caches
  <1>7. Adding'
    <2>1. /\ fs["fread"][resp.name] \in Seq(Block) /\ resp.avail <= Len(resp.content)
          /\ Len(fs["fread"][resp.name]) <= resp.pos + resp.sent
      BY DEF IInv, Adding
    <2>2. Len(fs["fread"][resp.name]) \in Nat
      BY <2>1, LenProperties
    <2>3. Len(fs["fread"][resp.name]) <= resp'.pos + resp'.sent
      BY <1>2, <2>1, <2>2
    <2> QED BY <1>2, <2>1, <2>3 DEF Adding
  <1> QED BY <1>3, <1>4, <1>5, <1>6, <1>7 DEF IInv

\* The end of the responder's copy: the file is complete or known not to be.
LEMMA AddUnlockStep ==
    ASSUME IInv, resp.pc = "copy", AddUnlock,
           UNCHANGED <<fs, sel, tmp, main, offset, length, src, moved, ret, last, pos, dirty>>
    PROVE  IInv'
  <1>1. /\ resp' = Idle
        /\ failed' = [failed EXCEPT !["fread"] =
                     IF fs["fread"][resp.name] = resp.content
                     THEN failed["fread"] \ {resp.name} ELSE failed["fread"] \union {resp.name}]
        /\ lock' = [lock EXCEPT !["fread"] = "free"]
    BY DEF AddUnlock, Unlocked
  <1>2. resp.name \in Name /\ resp.content \in Content /\ resp'.pc = "idle"
    BY <1>1, ResponderFacts DEF IInv, Idle, Copying
  <1>3. "fread" \in Ext /\ "fwrite" \in Ext /\ failed \in [Ext -> SUBSET Name]
    BY DEF Ext, IInv, TypeOK
  <1>4. /\ failed' \in [Ext -> SUBSET Name] /\ failed'["fwrite"] = failed["fwrite"]
        /\ failed'["fread"] = IF fs["fread"][resp.name] = resp.content
                              THEN failed["fread"] \ {resp.name} ELSE failed["fread"] \union {resp.name}
    BY <1>1, <1>2, <1>3
  <1>5. /\ lock' \in [Ext -> {"free", "main", "responder", "leaked"}]
        /\ \A e \in Ext : lock[e] = "leaked" => lock'[e] = "leaked"
    <2>1. lock["fread"] = "responder"
      BY DEF IInv, Locks
    <2> QED BY <1>1, <2>1 DEF IInv, TypeOK
  <1>6. Writing' /\ Reading' /\ Lists' /\ WriteDelivered' /\ ReadSnapshot'
    BY <1>4, <1>5, BesideMain
  <1>7. TypeOK'
    BY <1>4, <1>5 DEF IInv, TypeOK
  <1>8. Types'
    BY <1>1 DEF IInv, Types
  <1>9. Locks'
    BY <1>1, <1>2, <1>3 DEF IInv, TypeOK, Locks
  <1>10. Caches' /\ Adding'
    BY <1>1, <1>2, <1>4 DEF IInv, Caches, Cached, Adding
  <1> QED BY <1>6, <1>7, <1>8, <1>9, <1>10 DEF IInv

\* sendfile returns, and the copy goes on or is over.
LEMMA AddReturnStep == ASSUME IInv, AddReturn PROVE IInv'
  <1>1. /\ resp.pc = "copy"
        /\ UNCHANGED <<fs, sel, tmp, main, offset, length, src, moved, ret, last, pos, dirty>>
    BY DEF AddReturn, Transfer
  <1>2. CASE AddUnlock
    BY <1>1, <1>2, AddUnlockStep
  <1>3. CASE /\ resp' = [resp EXCEPT !.pos = resp.pos + 2 * resp.sent, !.sent = 0]
             /\ UNCHANGED <<lock, failed>>
    BY <1>1, <1>3, AddTurnStep
  <1> QED BY <1>2, <1>3 DEF AddReturn

-----------------------------------------------------------------------------
(* The main thread.                                                        *)

\* Nothing the responder looks at changes.
LEMMA BesideResponder ==
    ASSUME IInv, UNCHANGED resp, fs'["fread"] = fs["fread"]
    PROVE  /\ resp' \in {Idle} \union Waiting \union Copying
           /\ Adding'
  BY DEF IInv, Types, Adding

\* The stutter, for no variable changes.
LEMMA StutterStep == ASSUME IInv, UNCHANGED vars PROVE IInv'
  <1> USE DEF vars
  <1>1. TypeOK' /\ Types' /\ Locks' /\ Caches' /\ Adding'
    BY DEF IInv, TypeOK, Types, Locks, Caches, Adding
  <1>2. Writing' /\ Lists'
    BY DEF IInv, Writing, Lists
  <1>3. Reading'
    BY DEF IInv, Reading, FileOf
  <1>4. WriteDelivered' /\ ReadSnapshot'
    BY DEF IInv, WriteDelivered, ReadSnapshot
  <1> QED BY <1>1, <1>2, <1>3, <1>4 DEF IInv

\* A name is written.
LEMMA NameStep ==
    ASSUME IInv, NEW e \in Ext, NEW s \in Selection, WriteName(e, s)
    PROVE  IInv'
  <1>1. sel' \in [Ext -> Selection \union {None}] /\ tmp' \in [Ext -> Name \union {None}]
        /\ pos' \in Nat
    BY DEF IInv, TypeOK, WriteName
  <1> QED BY <1>1, DropStep DEF WriteName, Forget

\* The transfer is aborted between two calls.
LEMMA AbortStep == ASSUME IInv, Abort PROVE IInv'
  <1>1. sel' \in [Ext -> Selection \union {None}] /\ tmp' \in [Ext -> Name \union {None}]
        /\ pos' \in Nat
    BY DEF IInv, TypeOK, Abort
  <1> QED BY <1>1, DropStep DEF Abort, Drop, Forget

\* A write begins.
LEMMA BeginWriteStep == ASSUME IInv, NEW c \in Content, BeginWrite(c) PROVE IInv'
  <1>1. /\ main = "idle" /\ main' = "write" /\ offset' = 0 /\ length' = Len(c)
        /\ src' = c /\ moved' = <<>> /\ last' = "write" /\ dirty' = FALSE /\ ret' = "PARTIAL"
        /\ UNCHANGED <<fs, sel, tmp, lock, pos, failed, resp>>
    BY DEF BeginWrite
  <1>2. Len(c) \in Nat /\ Len(c) > 0 /\ FirstOf(c, 0) = <<>>
    BY ContentFacts, FirstWhole
  <1>3. TypeOK'
    BY <1>1, <1>2 DEF IInv, TypeOK, ODR
  <1>4. Types' /\ Locks' /\ Caches' /\ Adding'
    BY <1>1 DEF IInv, Types, Locks, Caches, Adding
  <1>5. Writing'
    BY <1>1, <1>2 DEF Writing
  <1>6. Reading' /\ Lists' /\ WriteDelivered' /\ ReadSnapshot'
    BY <1>1 DEF Reading, Lists, WriteDelivered, ReadSnapshot
  <1> QED BY <1>3, <1>4, <1>5, <1>6 DEF IInv

\* What a write to a file in /tmp leaves alone.
LEMMA WrittenTmp ==
    ASSUME IInv, NEW n \in Name, NEW v \in File, Limited(v), fs' = Put(fs, "tmp", n, v)
    PROVE  /\ fs' \in [Dir -> [Name -> File]]
           /\ \A d \in Dir, m \in Name : Limited(fs'[d][m])
           /\ fs'["tmp"][n] = v /\ \A m \in Name : m # n => fs'["tmp"][m] = fs["tmp"][m]
           /\ fs'["fread"] = fs["fread"] /\ fs'["fwrite"] = fs["fwrite"]
           /\ fs'["other"] = fs["other"]
  <1>1. "fread" \in Dir /\ "fwrite" \in Dir /\ "tmp" \in Dir /\ "other" \in Dir
    BY DEF Dir, Ext
  <1>2. /\ IsPut(fs', fs, "tmp", n, v)
        /\ fs' \in [Dir -> [Name -> File]]
        /\ \A d \in Dir, m \in Name : Limited(fs'[d][m])
    BY <1>1, Written DEF IInv
  <1> QED BY <1>1, <1>2 DEF IsPut

\* A segment of a write.
LEMMA WriteDataStep == ASSUME IInv, WriteData PROVE IInv'
  <1>1. CASE sel["fwrite"] = None
    <2>1. /\ main = "write" /\ main' = "idle" /\ ret' = "none" /\ offset' = 0 /\ length' = 0
          /\ dirty' = FALSE /\ UNCHANGED <<fs, failed, resp>> /\ UNCHANGED <<sel, tmp, lock, pos>>
      BY <1>1 DEF WriteData, Drop, Forget
    <2>2. sel' \in [Ext -> Selection \union {None}] /\ tmp' \in [Ext -> Name \union {None}]
          /\ pos' \in Nat
      BY <2>1 DEF IInv, TypeOK
    <2> QED BY <2>1, <2>2, DropStep
  <1>2. CASE sel["fwrite"] # None
    <2> DEFINE n == sel["fwrite"].name
               seg == Segment(offset, length, BlocksPerCall)
               block == Part(src, offset, seg.n)
               more == FirstOf(src, offset + seg.n)
    <2>1. /\ main = "write" /\ offset \in Nat /\ length \in Nat /\ src \in Content
          /\ length = Len(src) /\ offset < length /\ moved = FirstOf(src, offset)
          /\ offset > 0 => /\ fs["tmp"][n] \in Seq(Block) /\ Len(fs["tmp"][n]) <= offset
                           /\ (~dirty => fs["tmp"][n] = moved)
          /\ last = "write"
      BY DEF WriteData, IInv, TypeOK, Writing
    <2>2. /\ seg.ret \in {"OK", "PARTIAL"} /\ seg.off \in Nat /\ seg.n = 1
          /\ seg.ret = "OK" => seg.off = 0 /\ offset + seg.n = length
          /\ seg.ret = "PARTIAL" => seg.off = offset + 1 /\ offset + 1 < length
      <3>1. length > 0
        BY <2>1
      <3> QED BY <2>1, <3>1, Segments
    <2>3. WriteSegment(offset, length, BlocksPerCall) = seg
      BY <2>1, WriteSegments
    <2> HIDE DEF seg
    <2>4. src \in Seq(Block) /\ Len(src) \in Nat
      BY <2>1, ContentFacts
    <2>5. /\ moved \o block = more /\ Len(moved) = offset /\ moved \in Seq(Block)
          /\ more \in Seq(Block) /\ Len(more) = offset + seg.n
      <3>1. offset + seg.n <= Len(src) /\ (offset + seg.n) + 0 <= Len(src)
            /\ offset + seg.n \in Nat /\ seg.n \in Nat
        BY <2>1, <2>2, <2>4
      <3> QED BY <2>1, <2>4, <3>1, FirstExtends
    <2>6. Base(n) \in Seq(Block) /\ Len(Base(n)) <= offset /\ (~dirty => Base(n) = moved)
      <3>1. CASE offset = 0
        <4>1. <<>> \in Seq(Block) /\ Len(<<>>) = 0
          BY EmptySeq
        <4>2. moved = <<>> /\ Base(n) = <<>>
          BY <2>1, <2>4, <3>1, FirstWhole DEF Base
        <4> QED BY <3>1, <4>1, <4>2
      <3>2. CASE offset # 0
        BY <2>1, <3>2 DEF Base
      <3> QED BY <3>1, <3>2
    <2>7. PICK stored \in 0..seg.n :
             /\ fs' = Put(fs, "tmp", n, Base(n) \o Part(block, 0, stored))
             /\ dirty' = (dirty \/ stored < seg.n)
      <3>1. Part(src, Len(moved), seg.n) = block
        BY <2>5
      <3>2. \E stored \in 0..seg.n :
               /\ fs' = Put(fs, "tmp", n, Base(n) \o Part(Part(src, Len(moved), seg.n), 0, stored))
               /\ dirty' = (dirty \/ stored < seg.n)
        BY <1>2, <2>3 DEF WriteData, Put
      <3> HIDE DEF block
      <3> QED BY <3>1, <3>2
    <2> DEFINE part == Base(n) \o Part(block, 0, stored)
    <2>8. block \in Seq(Block) /\ Len(block) \in 0..seg.n
      BY <2>1, <2>2, <2>4, PartFacts
    <2>9. part \in Seq(Block) /\ Len(part) <= offset + seg.n
      <3> HIDE DEF block
      <3>1. stored \in Nat /\ 0 \in Nat /\ stored <= seg.n
        BY <2>2, <2>7
      <3>2. Part(block, 0, stored) \in Seq(Block) /\ Len(Part(block, 0, stored)) \in 0..stored
        BY <2>8, <3>1, PartFacts
      <3>3. part \in Seq(Block) /\ Len(part) = Len(Base(n)) + Len(Part(block, 0, stored))
        BY <2>6, <3>2, ConcatProperties
      <3>4. Len(Base(n)) \in Nat
        BY <2>6, LenProperties
      <3> HIDE DEF part
      <3> QED BY <2>1, <2>2, <2>6, <3>1, <3>2, <3>3, <3>4
    <2>10. ~dirty' => ~dirty /\ part = more
      <3> SUFFICES ASSUME ~dirty' PROVE ~dirty /\ part = more
        OBVIOUS
      <3>1. ~dirty /\ ~(stored < seg.n)
        BY <2>7, Zenon
      <3>2. stored = seg.n /\ stored >= Len(block) /\ stored \in Nat
        <4> HIDE DEF block, part, more
        <4>1. seg.n \in Nat /\ stored \in 0..seg.n /\ Len(block) \in 0..seg.n
          BY <2>2, <2>7, <2>8
        <4> HIDE DEF seg
        <4> QED BY <3>1, <4>1
      <3>3. Part(block, 0, stored) = block
        <4> HIDE DEF block
        <4>1. (IF 0 + stored < Len(block) THEN 0 + stored ELSE Len(block)) = Len(block)
          BY <2>2, <2>8, <3>2
        <4>2. Part(block, 0, stored) = SubSeq(block, 0 + 1, Len(block))
          BY <4>1, Zenon DEF Part
        <4>3. SubSeq(block, 1, Len(block)) = block
          BY <2>8, FirstWhole DEF FirstOf
        <4> QED BY <4>2, <4>3
      <3>4. Base(n) = moved
        BY <2>6, <3>1
      <3> HIDE DEF block, more
      <3> QED BY <2>5, <3>1, <3>3, <3>4
    <2>11. /\ tmp' = (IF offset = 0 THEN [tmp EXCEPT !["fwrite"] = n] ELSE tmp)
           /\ moved' = more /\ offset' = seg.off /\ ret' = seg.ret
           /\ main' = IF seg.ret = "PARTIAL" THEN "write" ELSE "adding"
           /\ UNCHANGED <<length, src, last>> /\ UNCHANGED <<sel, lock, pos, failed, resp>>
      <3>1. Part(src, Len(moved), seg.n) = block
        BY <2>5
      <3>2. /\ tmp' = (IF offset = 0 THEN [tmp EXCEPT !["fwrite"] = n] ELSE tmp)
            /\ UNCHANGED <<length, src, last>> /\ UNCHANGED <<sel, lock, pos, failed, resp>>
        BY <1>2 DEF WriteData
      <3>3. moved' = moved \o Part(src, Len(moved), seg.n)
        BY <1>2, <2>3 DEF WriteData
      <3>4. /\ offset' = seg.off /\ ret' = seg.ret
            /\ main' = IF seg.ret = "PARTIAL" THEN "write" ELSE "adding"
        BY <1>2, <2>3 DEF WriteData, Finish
      <3> HIDE DEF n, block, more
      <3>5. moved' = more
        BY <2>5, <3>1, <3>3
      <3> QED BY <3>2, <3>4, <3>5
    <2>12. sel["fwrite"] \in Selection /\ n \in Name
      BY <1>2, SelectionFacts DEF IInv, Ext
    <2> HIDE DEF block, part
    <2>13. part \in File /\ Limited(part)
      <3>1. Len(part) <= 2 * Len(src)
        BY <2>1, <2>2, <2>4, <2>9, LenProperties
      <3> QED BY <2>1, <2>9, <3>1 DEF File, Limited
    <2> HIDE DEF n, more
    <2>14. /\ fs' \in [Dir -> [Name -> File]]
           /\ \A d \in Dir, m \in Name : Limited(fs'[d][m])
           /\ fs'["tmp"][n] = part
           /\ fs'["fread"] = fs["fread"] /\ fs'["fwrite"] = fs["fwrite"]
           /\ fs'["other"] = fs["other"]
      <3>1. fs' = Put(fs, "tmp", n, part)
        BY <2>7 DEF part
      <3> QED BY <2>12, <2>13, <3>1, WrittenTmp
    <2>15. TypeOK'
      <3>1. tmp' \in [Ext -> Name \union {None}]
        BY <2>11, <2>12 DEF IInv, TypeOK
      <3>2. ret' \in ODR \union {"none"}
        BY <2>2, <2>11 DEF ODR
      <3>3. {dirty'} \subseteq BOOLEAN
        BY <2>7, Zenon DEF IInv, TypeOK
      <3>4. dirty' \in BOOLEAN
        BY <3>3, Zenon
      <3>5. main' \in {"write", "adding"}
        BY <2>11
      <3> QED BY <2>2, <2>11, <2>14, <3>1, <3>2, <3>4, <3>5 DEF IInv, TypeOK, Limited
    <2>16. Types' /\ Adding'
      BY <2>11, <2>14, BesideResponder DEF Types
    <2>17. Locks' /\ Caches'
      BY <2>1, <2>11, <2>14 DEF IInv, Locks, Caches
    <2>18. Writing'
      <3>1. CASE seg.ret = "PARTIAL"
        <4>1. /\ main' = "write" /\ offset' = offset + 1 /\ offset' > 0 /\ offset' < length'
              /\ moved' = FirstOf(src, offset') /\ Len(part) <= offset'
          BY <2>1, <2>2, <2>9, <2>11, <3>1 DEF more
        <4>2. ~dirty' => fs'["tmp"][n] = moved'
          BY <2>10, <2>11, <2>14
        <4> QED BY <1>2, <2>1, <2>9, <2>11, <2>14, <4>1, <4>2 DEF Writing, n
      <3>2. CASE seg.ret = "OK"
        <4>1. main' = "adding" /\ more = src /\ Len(part) <= Len(src)
          BY <2>1, <2>2, <2>4, <2>9, <2>11, <3>2, FirstWhole DEF more
        <4>2. ~dirty' => fs'["tmp"][n] = src
          BY <2>10, <2>14, <4>1
        <4> QED BY <1>2, <2>1, <2>9, <2>11, <2>14, <4>1, <4>2 DEF Writing, n
      <3> QED BY <2>2, <3>1, <3>2
    <2>19. Reading' /\ Lists' /\ WriteDelivered' /\ ReadSnapshot'
      <3>1. main' \in {"write", "adding"}
        BY <2>2, <2>11
      <3> QED BY <3>1 DEF Reading, Lists, WriteDelivered, ReadSnapshot
    <2> QED BY <2>15, <2>16, <2>17, <2>18, <2>19 DEF IInv
  <1> QED BY <1>1, <1>2

\* What a write to a file in the fwrite cache leaves alone.
LEMMA WrittenFwrite ==
    ASSUME IInv, NEW n \in Name, NEW v \in File, Limited(v), fs' = Put(fs, "fwrite", n, v)
    PROVE  /\ fs' \in [Dir -> [Name -> File]]
           /\ \A d \in Dir, m \in Name : Limited(fs'[d][m])
           /\ fs'["fwrite"][n] = v /\ \A m \in Name : m # n => fs'["fwrite"][m] = fs["fwrite"][m]
           /\ fs'["fread"] = fs["fread"] /\ fs'["tmp"] = fs["tmp"]
           /\ fs'["other"] = fs["other"]
  <1>1. "fread" \in Dir /\ "fwrite" \in Dir /\ "tmp" \in Dir /\ "other" \in Dir
    BY DEF Dir, Ext
  <1>2. /\ IsPut(fs', fs, "fwrite", n, v)
        /\ fs' \in [Dir -> [Name -> File]]
        /\ \A d \in Dir, m \in Name : Limited(fs'[d][m])
    BY <1>1, Written DEF IInv
  <1> QED BY <1>1, <1>2 DEF IsPut

LEMMA AbsentFile == Absent \in File /\ Limited(Absent)
  BY DEF File, Limited

\* The last call of a write is over.
LEMMA WriteOver ==
    ASSUME IInv, main \in {"adding", "moving"}, main' = "idle",
           UNCHANGED <<sel, tmp, offset, length, src, moved, ret, last, dirty, resp>>,
           pos' \in Nat, fs' \in [Dir -> [Name -> File]],
           \A d \in Dir, m \in Name : Limited(fs'[d][m]),
           fs'["fread"] = fs["fread"], fs'["other"] = fs["other"],
           failed' \in [Ext -> SUBSET Name], failed'["fread"] = failed["fread"],
           lock' = lock \/ lock' = [lock EXCEPT !["fwrite"] = "free"],
           lock'["fwrite"] # "main",
           \A m \in Name \ failed'["fwrite"] : fs'["fwrite"][m] \in Cached,
           WriteDelivered'
    PROVE  IInv'
  <1>1. "fread" \in Ext /\ "fwrite" \in Ext
    BY DEF Ext
  <1>2. lock' \in [Ext -> {"free", "main", "responder", "leaked"}]
        /\ lock'["fread"] = lock["fread"]
        /\ (lock'["fwrite"] = lock["fwrite"] \/ lock'["fwrite"] = "free")
    BY <1>1 DEF IInv, TypeOK
  <1>3. TypeOK'
    BY <1>2 DEF IInv, TypeOK, Limited
  <1>4. Types' /\ Adding'
    BY BesideResponder DEF Types
  <1>5. Locks'
    BY <1>2 DEF IInv, Locks
  <1>6. Caches'
    BY DEF IInv, Caches
  <1>7. Writing' /\ Reading' /\ Lists' /\ ReadSnapshot'
    <2>1. last' = "write" /\ \A e \in Ext : last' # Listing[e]
      BY DEF IInv, Writing, Listing, Ext
    <2> QED BY <2>1 DEF Writing, Reading, Lists, ReadSnapshot
  <1> QED BY <1>3, <1>4, <1>5, <1>6, <1>7 DEF IInv

\* A complete file is handed on.
LEMMA WriteEndStep == ASSUME IInv, WriteEnd PROVE IInv'
  <1> DEFINE n == sel["fwrite"].name
             dest == Destination(sel["fwrite"])
  <1>1. /\ main = "adding" /\ UNCHANGED <<sel, tmp, offset, length, src, moved, ret, last, dirty, resp>>
    BY DEF WriteEnd, Transfer
  <1>2. /\ sel["fwrite"] # None /\ src \in Content /\ last = "write"
        /\ fs["tmp"][n] \in Seq(Block) /\ Len(fs["tmp"][n]) <= Len(src)
        /\ ~dirty => fs["tmp"][n] = src
    BY <1>1 DEF IInv, Writing
  <1>3. sel["fwrite"] \in Selection /\ n \in Name /\ sel["fwrite"].dir \in {"cache", "tmp", "other"}
    BY <1>2, SelectionFacts DEF IInv, Ext
  <1>4. /\ fs \in [Dir -> [Name -> File]] /\ failed \in [Ext -> SUBSET Name] /\ pos \in Nat
        /\ lock \in [Ext -> {"free", "main", "responder", "leaked"}]
        /\ \A d \in Dir, m \in Name : Limited(fs[d][m])
        /\ lock["fwrite"] # "main"
        /\ \A m \in Name \ failed["fwrite"] : fs["fwrite"][m] \in Cached
    BY <1>1 DEF IInv, TypeOK, Types, Limited, Locks, Caches
  <1>5. "fread" \in Ext /\ "fwrite" \in Ext
    BY DEF Ext
  <1>6. CASE dest = "other" /\ main' = "idle" /\ UNCHANGED <<fs, lock, pos, failed>>
    <2>1. sel["fwrite"].dir = "other"
      BY <1>6 DEF Destination
    <2>2. WriteDelivered'
      BY <1>1, <1>2, <1>6, <2>1 DEF WriteDelivered
    <2> QED BY <1>1, <1>4, <1>6, <2>2, WriteOver
  <1>7. CASE /\ dest = "tmp" /\ main' = "idle"
             /\ fs' = Put(fs, "tmp", n, Absent)
             /\ UNCHANGED <<lock, pos, failed>>
    <2>1. sel["fwrite"].dir = "tmp"
      BY <1>7 DEF Destination
    <2>2. /\ fs' \in [Dir -> [Name -> File]]
          /\ \A d \in Dir, m \in Name : Limited(fs'[d][m])
          /\ fs'["tmp"][n] = Absent
          /\ fs'["fread"] = fs["fread"] /\ fs'["fwrite"] = fs["fwrite"]
          /\ fs'["other"] = fs["other"]
      BY <1>3, <1>7, AbsentFile, WrittenTmp
    <2>3. WriteDelivered'
      BY <1>1, <2>1, <2>2 DEF WriteDelivered
    <2> QED BY <1>1, <1>4, <1>7, <2>2, <2>3, WriteOver
  <1>8. CASE /\ dest = "fwrite" /\ lock["fwrite"] = "free"
             /\ lock' = [lock EXCEPT !["fwrite"] = "main"]
             /\ fs' = Put(fs, "fwrite", n, <<>>)
             /\ failed' = [failed EXCEPT !["fwrite"] =
                              IF dirty THEN failed["fwrite"] \union {n} ELSE failed["fwrite"] \ {n}]
             /\ pos' = 0 /\ main' = "moving"
    <2>1. sel["fwrite"].dir = "cache"
      BY <1>3, <1>8 DEF Destination
    <2>2. <<>> \in File /\ <<>> \in Seq(Block) /\ Limited(<<>>)
      BY <1>2, EmptyFile
    <2>3. /\ fs' \in [Dir -> [Name -> File]]
          /\ \A d \in Dir, m \in Name : Limited(fs'[d][m])
          /\ fs'["fwrite"][n] = <<>> /\ \A m \in Name : m # n => fs'["fwrite"][m] = fs["fwrite"][m]
          /\ fs'["fread"] = fs["fread"] /\ fs'["tmp"] = fs["tmp"]
          /\ fs'["other"] = fs["other"]
      BY <1>3, <1>8, <2>2, WrittenFwrite
    <2>4. /\ failed' \in [Ext -> SUBSET Name] /\ failed'["fread"] = failed["fread"]
          /\ failed'["fwrite"] =
                IF dirty THEN failed["fwrite"] \union {n} ELSE failed["fwrite"] \ {n}
          /\ lock' \in [Ext -> {"free", "main", "responder", "leaked"}]
          /\ lock'["fread"] = lock["fread"] /\ lock'["fwrite"] = "main"
      BY <1>3, <1>4, <1>5, <1>8
    <2>5. TypeOK'
      BY <1>1, <1>8, <2>3, <2>4 DEF IInv, TypeOK, Limited
    <2>6. Types' /\ Adding'
      BY <1>1, <2>3, BesideResponder DEF Types
    <2>7. Locks'
      BY <1>1, <1>8, <2>4 DEF IInv, Locks
    <2>8. Caches'
      BY <1>1, <1>4, <1>8, <2>3, <2>4 DEF IInv, Caches
    <2>9. Writing'
      <3>1. 2 * Len(<<>>) = 0
        OBVIOUS
      <3>2. n \notin failed'["fwrite"] => ~dirty
        BY <2>4, Zenon
      <3> QED BY <1>1, <1>2, <1>8, <2>1, <2>2, <2>3, <3>1, <3>2 DEF Writing
    <2>10. Reading' /\ Lists' /\ WriteDelivered' /\ ReadSnapshot'
      BY <1>8 DEF Reading, Lists, WriteDelivered, ReadSnapshot
    <2> QED BY <2>5, <2>6, <2>7, <2>8, <2>9, <2>10 DEF IInv
  <1>9. CASE /\ dest = "fwrite"
             /\ failed' = [failed EXCEPT !["fwrite"] = failed["fwrite"] \union {n}]
             /\ main' = "idle"
             /\ UNCHANGED <<fs, lock, pos>>
    <2>1. sel["fwrite"].dir = "cache"
      BY <1>3, <1>9 DEF Destination
    <2>2. /\ failed' \in [Ext -> SUBSET Name] /\ failed'["fread"] = failed["fread"]
          /\ failed'["fwrite"] = failed["fwrite"] \union {n}
      BY <1>3, <1>4, <1>5, <1>9
    <2>3. WriteDelivered'
      BY <1>1, <1>2, <1>9, <2>1, <2>2 DEF WriteDelivered
    <2> QED BY <1>1, <1>4, <1>9, <2>2, <2>3, WriteOver
  <1> QED BY <1>6, <1>7, <1>8, <1>9 DEF WriteEnd, Put

\* One turn of copy_file: with the offset p at twice the blocks done that were
\* copied, k of the can blocks that sendfile could move follow.
Turn(file, done, size, p, can, k, more) ==
    /\ p = 2 * Len(done) /\ p < size /\ can = Len(Part(file, p, size))
    /\ k \in 0..can /\ k > 0 /\ more = done \o Part(file, p, k)
Turned(file, done, size, p, can, k, more) ==
    /\ more \in Seq(Block) /\ p + 2 * k = 2 * Len(more)
    /\ Len(more) <= Len(file) /\ k <= size
    /\ done = <<>> /\ k = Len(file) => more = file
    /\ Len(file) = size /\ k = can => k = size - p

LEMMA CopyCounts ==
    ASSUME NEW d \in Nat, NEW p, p = 2 * d, NEW len \in Nat, NEW size \in Nat, p < size,
           NEW can, can = (IF p + size < len THEN size ELSE IF p < len THEN len - p ELSE 0),
           NEW k \in 0..can, k > 0
    PROVE  /\ p \in Nat /\ k \in Nat /\ k <= size /\ p < len /\ p + k <= len
           /\ p + 2 * k = 2 * (d + k) /\ d + k <= len
           /\ len = size /\ k = can => k = size - p
  OBVIOUS

LEMMA CopyTurn ==
    ASSUME NEW file \in Seq(Block), NEW done \in Seq(Block), NEW size \in Nat,
           NEW p, NEW can, NEW k, NEW more, Turn(file, done, size, p, can, k, more)
    PROVE  Turned(file, done, size, p, can, k, more)
  <1> DEFINE d == Len(done)
             len == Len(file)
  <1>1. d \in Nat /\ len \in Nat
    BY LenProperties
  <1>2. p = 2 * d /\ p < size /\ k \in 0..can /\ k > 0
    BY DEF Turn
  <1>3. p \in Nat
    BY <1>1, <1>2
  <1>4. can = IF p + size < len THEN size ELSE IF p < len THEN len - p ELSE 0
    BY <1>3, PartFacts DEF Turn
  <1>5. /\ k \in Nat /\ k <= size /\ p < len /\ p + k <= len
        /\ p + 2 * k = 2 * (d + k) /\ d + k <= len
        /\ len = size /\ k = can => k = size - p
    <2> HIDE DEF d, len
    <2> QED BY <1>1, <1>2, <1>4, CopyCounts
  <1>6. Part(file, p, k) \in Seq(Block) /\ Len(Part(file, p, k)) = k
    <2>1. /\ Part(file, p, k) \in Seq(Block)
          /\ Len(Part(file, p, k)) = IF p + k < len THEN k ELSE IF p < len THEN len - p ELSE 0
      BY <1>3, <1>5, PartFacts
    <2> HIDE DEF len
    <2> QED BY <1>1, <1>3, <1>5, <2>1
  <1>7. more = done \o Part(file, p, k)
    BY DEF Turn
  <1>8. more \in Seq(Block) /\ Len(more) = d + k
    BY <1>6, <1>7, ConcatProperties
  <1>9. done = <<>> /\ k = len => more = file
    <2> SUFFICES ASSUME done = <<>>, k = len PROVE more = file
      OBVIOUS
    <2>1. p = 0
      <3>1. d = 0
        OBVIOUS
      <3> HIDE DEF d
      <3> QED BY <1>2, <3>1
    <2>2. Part(file, p, k) = file
      BY <2>1, FirstWhole
    <2> QED BY <1>7, <2>2, ConcatEmptySeq
  <1>10. p + 2 * k = 2 * Len(more) /\ Len(more) <= len
    BY <1>5, <1>8
  <1> QED BY <1>5, <1>8, <1>9, <1>10 DEF Turned

\* The move of a written file into the fwrite cache, turn by turn.
LEMMA MoveFileStep == ASSUME IInv, MoveFile PROVE IInv'
  <1> DEFINE n == sel["fwrite"].name
             kept == fs["fwrite"][n]
             part == fs["tmp"][n]
             size == Len(part)
             can == Len(Part(part, pos, size))
             Sent(k) ==
                /\ pos < size /\ k > 0
                /\ fs' = Put(fs, "fwrite", n, kept \o Part(part, pos, k)) /\ pos' = pos + 2 * k
                /\ failed' = IF k < can THEN [failed EXCEPT !["fwrite"] = failed["fwrite"] \union {n}]
                             ELSE failed
                /\ UNCHANGED <<lock, main>>
  <1>1. main = "moving" /\ UNCHANGED <<sel, tmp, offset, length, src, moved, ret, last, dirty, resp>>
    BY DEF MoveFile, Transfer
  <1>2. /\ sel["fwrite"] # None /\ src \in Content /\ last = "write"
        /\ part \in Seq(Block) /\ Len(part) <= Len(src) /\ (~dirty => part = src)
        /\ sel["fwrite"].dir = "cache" /\ kept \in Seq(Block) /\ pos = 2 * Len(kept)
        /\ n \notin failed["fwrite"] => ~dirty /\ (kept = <<>> \/ kept = src)
    BY <1>1 DEF IInv, Writing
  <1>3. sel["fwrite"] \in Selection /\ n \in Name
    BY <1>2, SelectionFacts DEF IInv, Ext
  <1>4. /\ fs \in [Dir -> [Name -> File]] /\ failed \in [Ext -> SUBSET Name]
        /\ lock \in [Ext -> {"free", "main", "responder", "leaked"}]
        /\ \A d \in Dir, m \in Name : Limited(fs[d][m])
        /\ \A m \in Name \ failed["fwrite"] : m # n => fs["fwrite"][m] \in Cached
    BY <1>1 DEF IInv, TypeOK, Types, Limited, Caches
  <1>5. "fread" \in Ext /\ "fwrite" \in Ext
    BY DEF Ext
  <1>6. /\ src \in Seq(Block) /\ Len(src) \in Nat /\ Len(src) > 0 /\ size \in Nat
        /\ Len(kept) \in Nat /\ pos \in Nat
        /\ kept # Absent
    BY <1>2, ContentFacts, LenProperties, AbsentAssumption
  <1>7. ASSUME NEW k \in 0..can, Sent(k) PROVE IInv'
    <2> DEFINE more == kept \o Part(part, pos, k)
    <2>1. /\ more \in Seq(Block) /\ pos + 2 * k = 2 * Len(more)
          /\ Len(more) <= size /\ k <= size
          /\ kept = <<>> /\ k = size => more = part
          /\ k = can => k = size - pos
      <3>1. Turn(part, kept, size, pos, can, k, more)
        BY <1>2, <1>7 DEF Turn
      <3> HIDE DEF kept, part, can, size, more
      <3>2. Turned(part, kept, size, pos, can, k, more)
        BY <1>2, <1>6, <3>1, CopyTurn, Zenon
      <3>3. size = Len(part)
        BY DEF size
      <3> QED BY <3>2, <3>3 DEF Turned
    <2>2. more \in File /\ Limited(more)
      <3>1. Len(more) <= 2 * Len(src)
        <4> HIDE DEF more, part
        <4> QED BY <1>2, <1>6, <2>1, LenProperties
      <3> QED BY <1>2, <2>1, <3>1 DEF File, Limited
    <2>3. /\ fs' \in [Dir -> [Name -> File]]
          /\ \A d \in Dir, m \in Name : Limited(fs'[d][m])
          /\ fs'["fwrite"][n] = more /\ \A m \in Name : m # n => fs'["fwrite"][m] = fs["fwrite"][m]
          /\ fs'["fread"] = fs["fread"] /\ fs'["tmp"] = fs["tmp"]
          /\ fs'["other"] = fs["other"]
      <3>1. fs' = Put(fs, "fwrite", n, more)
        BY <1>7 DEF more
      <3> HIDE DEF n
      <3> QED BY <1>3, <2>2, <3>1, WrittenFwrite
    <2>4. /\ failed' \in [Ext -> SUBSET Name] /\ failed'["fread"] = failed["fread"]
          /\ failed'["fwrite"] = IF k < can THEN failed["fwrite"] \union {n} ELSE failed["fwrite"]
      BY <1>3, <1>4, <1>5, <1>7
    <2>5. n \notin failed'["fwrite"] => more = src
      <3> SUFFICES ASSUME n \notin failed'["fwrite"] PROVE more = src
        OBVIOUS
      <3>1. can \in Nat
        BY <1>6, PartFacts
      <3>2. n \notin failed["fwrite"] /\ k = can
        <4> HIDE DEF can
        <4> QED BY <2>4, <3>1
      <3>7. part = src
        BY <1>2, <3>2
      <3>3. kept # src
        <4> SUFFICES ASSUME kept = src PROVE FALSE
          OBVIOUS
        <4>1. pos = 2 * size
          BY <1>2, <3>7
        <4> QED BY <1>6, <1>7, <4>1
      <3>4. kept = <<>>
        BY <1>2, <3>2, <3>3
      <3>5. pos = 0
        <4>1. Len(kept) = 0
          BY <3>4
        <4> QED BY <1>2, <4>1
      <3>6. k = size
        <4> HIDE DEF size, can, more, kept, part
        <4> QED BY <1>6, <2>1, <3>2, <3>5
      <3> HIDE DEF kept, part, more
      <3> QED BY <2>1, <3>4, <3>6, <3>7
    <2>6. TypeOK'
      <3>1. pos' \in Nat
        BY <1>6, <1>7
      <3> QED BY <1>1, <1>7, <2>3, <2>4, <3>1 DEF IInv, TypeOK, Limited
    <2>7. Types' /\ Adding'
      BY <1>1, <2>3, BesideResponder DEF Types
    <2>8. Locks'
      BY <1>1, <1>7 DEF IInv, Locks
    <2>9. Caches'
      <3>1. \A m \in Name \ failed'["fwrite"] : m # n => fs'["fwrite"][m] \in Cached
        BY <1>4, <2>3, <2>4
      <3>2. main' = "moving" /\ sel' = sel /\ resp' = resp /\ failed'["fread"] = failed["fread"]
        BY <1>1, <1>7, <2>4
      <3> QED BY <2>3, <3>1, <3>2 DEF IInv, Caches
    <2>10. Writing'
      <3>1. main' = "moving" /\ sel' = sel /\ src' = src /\ last' = last
        BY <1>1, <1>7
      <3>2. pos' = 2 * Len(more) /\ more \in Seq(Block)
        BY <1>7, <2>1
      <3>3. n \notin failed'["fwrite"] => ~dirty'
        BY <1>1, <1>2, <2>4
      <3> QED BY <1>1, <1>2, <2>3, <2>5, <3>1, <3>2, <3>3 DEF Writing
    <2>11. Reading' /\ Lists' /\ WriteDelivered' /\ ReadSnapshot'
      BY <1>1, <1>7 DEF Reading, Lists, WriteDelivered, ReadSnapshot
    <2> QED BY <2>6, <2>7, <2>8, <2>9, <2>10, <2>11 DEF IInv
  <1>8. ASSUME failed' = [failed EXCEPT !["fwrite"] = failed["fwrite"] \union {n}],
               lock' = [lock EXCEPT !["fwrite"] = "free"],
               main' = "idle", pos' = 0, UNCHANGED fs
        PROVE  IInv'
    <2>1. /\ failed' \in [Ext -> SUBSET Name] /\ failed'["fread"] = failed["fread"]
          /\ failed'["fwrite"] = failed["fwrite"] \union {n}
          /\ lock'["fwrite"] # "main"
      BY <1>3, <1>4, <1>5, <1>8
    <2>2. WriteDelivered'
      BY <1>1, <1>2, <1>8, <2>1 DEF WriteDelivered
    <2>3. \A m \in Name \ failed'["fwrite"] : fs'["fwrite"][m] \in Cached
      BY <1>4, <1>8, <2>1
    <2> QED BY <1>1, <1>4, <1>8, <2>1, <2>2, <2>3, WriteOver
  <1>9. ASSUME pos >= size, fs' = Put(fs, "tmp", n, Absent),
               lock' = [lock EXCEPT !["fwrite"] = "free"],
               main' = "idle", pos' = 0, UNCHANGED failed
        PROVE  IInv'
    <2>1. /\ fs' \in [Dir -> [Name -> File]]
          /\ \A d \in Dir, m \in Name : Limited(fs'[d][m])
          /\ fs'["tmp"][n] = Absent
          /\ fs'["fread"] = fs["fread"] /\ fs'["fwrite"] = fs["fwrite"]
          /\ fs'["other"] = fs["other"]
      <3> HIDE DEF n
      <3> QED BY <1>3, <1>9, AbsentFile, WrittenTmp
    <2>2. n \notin failed["fwrite"] => kept = src
      <3> SUFFICES ASSUME n \notin failed["fwrite"], kept = <<>> PROVE FALSE
        BY <1>2
      <3>1. Len(kept) = 0 /\ part = src
        BY <1>2
      <3> QED BY <1>2, <1>6, <1>9, <3>1
    <2>4. WriteDelivered'
      <3>1. fs'["fwrite"][n] = kept
        BY <2>1
      <3> HIDE DEF kept
      <3> QED BY <1>1, <1>2, <1>6, <1>9, <2>1, <2>2, <3>1 DEF WriteDelivered
    <2>5. \A m \in Name \ failed'["fwrite"] : fs'["fwrite"][m] \in Cached
      BY <1>2, <1>4, <1>9, <2>1, <2>2 DEF Cached
    <2>6. lock'["fwrite"] # "main" /\ pos' \in Nat
      BY <1>4, <1>5, <1>9
    <2> QED BY <1>1, <1>4, <1>9, <2>1, <2>4, <2>5, <2>6, WriteOver
  <1>10. CASE /\ failed' = [failed EXCEPT !["fwrite"] = failed["fwrite"] \union {n}]
              /\ lock' = [lock EXCEPT !["fwrite"] = "free"]
              /\ main' = "idle" /\ pos' = 0 /\ UNCHANGED fs
    BY <1>8, <1>10
  <1>11. CASE /\ pos >= size /\ fs' = Put(fs, "tmp", n, Absent)
              /\ lock' = [lock EXCEPT !["fwrite"] = "free"]
              /\ main' = "idle" /\ pos' = 0 /\ UNCHANGED failed
    BY <1>9, <1>11
  <1>12. pos >= size <=> ~(pos < size)
    BY <1>6
  <1>13. Len(fs["tmp"][n]) = size /\ Sendable("tmp", n, size) = can
    BY DEF Sendable
  <1>14. CASE /\ ~CopyEnds(pos, size)
              /\ \E k \in 0..can :
                    /\ SendFile("tmp", "fwrite", n, size, k)
                    /\ IF k < can THEN failed' = [failed EXCEPT !["fwrite"] = failed["fwrite"] \union {n}]
                       ELSE UNCHANGED failed
              /\ UNCHANGED <<lock, main>>
    <2>1. PICK k \in 0..can :
                    /\ SendFile("tmp", "fwrite", n, size, k)
                    /\ IF k < can THEN failed' = [failed EXCEPT !["fwrite"] = failed["fwrite"] \union {n}]
                       ELSE UNCHANGED failed
      BY <1>14
    <2>2. fs' = Put(fs, "fwrite", n, kept \o Part(part, pos, k)) /\ pos' = pos + 2 * k /\ k > 0
      BY <1>2, <2>1 DEF SendFile, Put
    <2>3. pos < size
      BY <1>12, <1>14 DEF CopyEnds
    <2>4. failed' = IF k < can THEN [failed EXCEPT !["fwrite"] = failed["fwrite"] \union {n}]
                    ELSE failed
      BY <2>1
    <2>5. Sent(k)
      BY <1>14, <2>2, <2>3, <2>4
    <2> HIDE DEF can, Sent
    <2> QED BY <1>7, <2>5
  <1> HIDE DEF size, can
  <1> QED BY <1>10, <1>11, <1>13, <1>14 DEF MoveFile, CopyEnds, Put

\* A read is opened, and its copy begins.
LEMMA ReadOpenStep == ASSUME IInv, ReadOpen PROVE IInv'
  <1> DEFINE s == sel["fread"]
             from == DirOf("fread", s)
             found == s # None /\ FileOf("fread", s) # Absent
  <1>1. main = "idle" /\ UNCHANGED <<sel, lock, failed, resp>>
    BY DEF ReadOpen
  <1>2. CASE Drop /\ UNCHANGED <<fs, pos>>
             /\ (tmp' = tmp \/ (found /\ tmp' = [tmp EXCEPT !["fread"] = s.name]))
    <2>1. tmp' \in [Ext -> Name \union {None}]
      BY <1>2, SelectionFacts DEF IInv, TypeOK, Ext
    <2>2. sel' \in [Ext -> Selection \union {None}] /\ pos' \in Nat
      BY <1>1, <1>2 DEF IInv, TypeOK
    <2>3. main' = "idle" /\ ret' = "none" /\ offset' = 0 /\ length' = 0 /\ dirty' = FALSE
      BY <1>2 DEF Drop, Forget
    <2>4. UNCHANGED <<fs, failed, resp>> /\ lock' = lock
      BY <1>1, <1>2
    <2> QED BY <1>1, <2>1, <2>2, <2>3, <2>4, DropStep
  <1>3. CASE /\ found
             /\ fs' = Put(fs, "tmp", s.name, <<>>)
             /\ tmp' = [tmp EXCEPT !["fread"] = s.name]
             /\ src' = Put(fs, "tmp", s.name, <<>>)[from][s.name]
             /\ offset' = 0 /\ length' = 0 /\ moved' = <<>>
             /\ ret' = "PARTIAL" /\ last' = "read" /\ dirty' = FALSE
             /\ pos' = 0 /\ main' = "copying"
    <2>1. s \in Selection /\ s.name \in Name /\ s.dir \in {"cache", "tmp", "other"} /\ from \in Dir
      BY <1>3, SelectionFacts DEF IInv, Ext
    <2>2. fs[from][s.name] # Absent /\ fs[from][s.name] \in File
      BY <1>3, <2>1 DEF FileOf, IInv, Types
    <2>3. PICK c \in Content : TRUE
      BY <2>1, <2>2 DEF IInv, TypeOK
    <2>4. <<>> \in File /\ <<>> \in Seq(Block) /\ Limited(<<>>) /\ <<>> # Absent
      BY <2>3, EmptyFile
    <2>5. /\ fs' \in [Dir -> [Name -> File]]
          /\ \A d \in Dir, m \in Name : Limited(fs'[d][m])
          /\ fs'["tmp"][s.name] = <<>>
          /\ fs'["fread"] = fs["fread"] /\ fs'["fwrite"] = fs["fwrite"]
          /\ fs'["other"] = fs["other"]
      <3>1. /\ s.name \in Name /\ fs' = Put(fs, "tmp", s.name, <<>>)
        BY <1>3, <2>1
      <3> HIDE DEF s
      <3> QED BY <2>4, <3>1, WrittenTmp
    <2>6. src' = fs'[from][s.name]
      BY <1>3
    <2>7. /\ src' \in Seq(Block) /\ fs'[from][s.name] # Absent
          /\ s.dir = "tmp" => src' = <<>>
      <3>1. CASE s.dir = "tmp"
        <4>1. from = "tmp"
          BY <3>1 DEF DirOf
        <4> QED BY <2>4, <2>5, <2>6, <4>1
      <3>2. CASE s.dir # "tmp"
        <4>1. from \in {"fread", "other"}
          BY <2>1, <3>2 DEF DirOf
        <4>2. fs'[from] = fs[from]
          BY <2>5, <4>1
        <4>3. fs'[from][s.name] # Absent /\ fs'[from][s.name] \in Seq(Block)
          BY <2>2, <4>2 DEF File
        <4> QED BY <2>6, <3>2, <4>3
      <3> QED BY <3>1, <3>2
    <2>8. tmp' \in [Ext -> Name \union {None}] /\ tmp'["fread"] = s.name
      BY <1>3, <2>1 DEF IInv, TypeOK, Ext
    <2>9. TypeOK'
      <3>1. ret' \in ODR \union {"none"}
        BY <1>3 DEF ODR
      <3> QED BY <1>1, <1>3, <2>5, <2>8, <3>1 DEF IInv, TypeOK, Limited
    <2>10. Types' /\ Adding'
      BY <1>1, <2>5, BesideResponder DEF Types
    <2>11. Locks' /\ Caches'
      BY <1>1, <1>3, <2>5 DEF IInv, Locks, Caches
    <2>12. Reading'
      <3>1. FileOf("fread", sel["fread"])' # Absent
        BY <1>1, <2>7 DEF FileOf, DirOf
      <3>2. fs'["tmp"][tmp'["fread"]] = <<>> /\ 0 = 2 * Len(<<>>)
        BY <2>5, <2>8
      <3>3. sel'["fread"] = s /\ s # None
        BY <1>1, <1>3
      <3> HIDE DEF s
      <3> QED BY <1>3, <2>4, <2>7, <2>8, <3>1, <3>2, <3>3 DEF Reading
    <2>13. Writing' /\ Lists' /\ WriteDelivered' /\ ReadSnapshot'
      BY <1>3 DEF Writing, Lists, WriteDelivered, ReadSnapshot
    <2> QED BY <2>9, <2>10, <2>11, <2>12, <2>13 DEF IInv
  <1> QED BY <1>2, <1>3 DEF ReadOpen, Put

\* What a read knows of its copy.
LEMMA CopyFacts ==
    ASSUME IInv, main \in {"copying", "copied", "read"}
    PROVE  /\ last = "read" /\ sel["fread"] # None /\ sel["fread"] \in Selection
           /\ sel["fread"].name \in Name /\ sel["fread"].dir \in {"cache", "tmp", "other"}
           /\ DirOf("fread", sel["fread"]) \in Dir
           /\ tmp["fread"] = sel["fread"].name /\ src \in Seq(Block) /\ Len(src) \in Nat
           /\ fs["tmp"][sel["fread"].name] \in Seq(Block)
           /\ offset \in Nat /\ length \in Nat /\ pos \in Nat
  <1>1. /\ last = "read" /\ sel["fread"] # None /\ tmp["fread"] = sel["fread"].name
        /\ src \in Seq(Block) /\ fs["tmp"][sel["fread"].name] \in Seq(Block)
    BY DEF IInv, Reading
  <1>2. offset \in Nat /\ length \in Nat /\ pos \in Nat
    BY DEF IInv, TypeOK
  <1> QED BY <1>1, <1>2, SelectionFacts, LenProperties DEF IInv, Ext

\* The copy of a read, turn by turn.  A turn that met nothing unusual has
\* copied all of a complete file.
LEMMA ReadCopyStep == ASSUME IInv, ReadCopy PROVE IInv'
  <1> DEFINE s == sel["fread"]
             n == s.name
             from == DirOf("fread", s)
             file == fs[from][n]
             copy == fs["tmp"][n]
             size == Len(src)
             can == Len(Part(file, pos, size))
             unusual(k) == dirty \/ k < size \/ file # src \/ lock["fread"] = "responder"
                           \/ (from = "fread" /\ n \in failed["fread"])
             Sent(k) == /\ pos < size /\ k > 0
                        /\ fs' = Put(fs, "tmp", n, copy \o Part(file, pos, k))
                        /\ pos' = pos + 2 * k /\ dirty' = unusual(k)
                        /\ UNCHANGED <<main, offset, length, src, moved, ret, last>>
  <1>1. main = "copying" /\ UNCHANGED <<sel, tmp, lock, failed, resp>>
    BY DEF ReadCopy
  <1>2. /\ last = "read" /\ s # None /\ s \in Selection /\ n \in Name
        /\ s.dir \in {"cache", "tmp", "other"} /\ from \in Dir
        /\ tmp["fread"] = n /\ src \in Seq(Block) /\ size \in Nat /\ copy \in Seq(Block)
        /\ offset \in Nat /\ length \in Nat /\ pos \in Nat
    BY <1>1, CopyFacts
  <1>3. /\ ret = "PARTIAL" /\ offset = 0 /\ moved = <<>> /\ file # Absent
        /\ s.dir = "tmp" => src = <<>>
        /\ pos = 2 * Len(copy)
        /\ ~dirty => copy = <<>> \/ (copy = src /\ src \in Content)
    BY <1>1, <1>2 DEF IInv, Reading, FileOf
  <1>4. file \in Seq(Block) /\ Limited(file)
    <2>1. file \in File
      BY <1>2 DEF IInv, Types
    <2> QED BY <1>2, <1>3, <2>1 DEF File, IInv, TypeOK, Limited
  <1>5. Len(copy) \in Nat /\ Len(file) \in Nat
    BY <1>2, <1>4, LenProperties
  <1>6. ASSUME NEW k \in 0..can, Sent(k) PROVE IInv'
    <2> DEFINE more == copy \o Part(file, pos, k)
    <2>1. /\ more \in Seq(Block) /\ pos + 2 * k = 2 * Len(more)
          /\ Len(more) <= Len(file) /\ k <= size
          /\ copy = <<>> /\ k = Len(file) => more = file
      <3>1. Turn(file, copy, size, pos, can, k, more)
        BY <1>3, <1>6 DEF Turn
      <3> HIDE DEF file, copy, can, size, more
      <3>2. Turned(file, copy, size, pos, can, k, more)
        BY <1>2, <1>4, <3>1, CopyTurn, Zenon
      <3> QED BY <3>2 DEF Turned
    <2>2. more = copy \o Part(file, pos, k)
      OBVIOUS
    <2>3. from \in {"fread", "other"} /\ from # "tmp"
      <3>1. s.dir # "tmp"
        <4> SUFFICES ASSUME src = <<>> PROVE FALSE
          BY <1>3
        <4>1. size = 0
          OBVIOUS
        <4> QED BY <1>2, <1>6, <4>1
      <3> QED BY <1>2, <3>1 DEF DirOf
    <2> HIDE DEF more
    <2>4. more \in File /\ Limited(more)
      <3>1. PICK c \in Content : Len(file) <= 2 * Len(c)
        BY <1>3, <1>4 DEF Limited
      <3>2. Len(more) <= 2 * Len(c)
        <4>1. Len(c) \in Nat /\ Len(more) \in Nat
          BY <2>1, ContentFacts, LenProperties
        <4> HIDE DEF file
        <4> QED BY <1>5, <2>1, <3>1, <4>1
      <3> QED BY <2>1, <3>2 DEF File, Limited
    <2>5. /\ fs' \in [Dir -> [Name -> File]]
          /\ \A d \in Dir, m \in Name : Limited(fs'[d][m])
          /\ fs'["tmp"][n] = more
          /\ fs'["fread"] = fs["fread"] /\ fs'["fwrite"] = fs["fwrite"]
          /\ fs'["other"] = fs["other"]
      <3>1. fs' = Put(fs, "tmp", n, more)
        BY <1>6, <2>2
      <3> HIDE DEF n
      <3> QED BY <1>2, <2>4, <3>1, WrittenTmp
    <2>6. ~dirty' => more = src /\ src \in Content
      <3> SUFFICES ASSUME ~dirty' PROVE more = src /\ src \in Content
        OBVIOUS
      <3>1. /\ ~dirty /\ ~(k < size) /\ file = src /\ lock["fread"] # "responder"
            /\ ~(from = "fread" /\ n \in failed["fread"])
        <4> HIDE DEF file, from, size, n
        <4> QED BY <1>6
      <3>2. copy = <<>>
        <4>1. copy # src
          <5> SUFFICES ASSUME copy = src PROVE FALSE
            OBVIOUS
          <5>1. pos = 2 * size
            BY <1>3
          <5> QED BY <1>2, <1>6, <5>1
        <4> QED BY <1>3, <3>1, <4>1
      <3>3. k = Len(file)
        <4>1. Len(file) = size
          BY <3>1
        <4>2. k \in Nat
          BY <1>6
        <4> QED BY <1>2, <2>1, <3>1, <4>1, <4>2
      <3>4. more = src
        BY <2>1, <3>1, <3>2, <3>3
      <3>5. file \in Content
        <4>1. file \in Cached
          <5>1. CASE from = "other"
            <6>1. file = Other[n]
              BY <5>1 DEF IInv, Caches
            <6> QED BY <1>2, <6>1, OtherAssumption DEF Cached
          <5>2. CASE from = "fread"
            <6>1. resp.pc # "copy"
              BY <3>1 DEF IInv, Locks
            <6>2. n \in Name \ failed["fread"]
              BY <1>2, <3>1, <5>2
            <6> QED BY <5>2, <6>1, <6>2 DEF IInv, Caches
          <5> QED BY <2>3, <5>1, <5>2
        <4> QED BY <1>3, <4>1 DEF Cached
      <3> QED BY <3>1, <3>4, <3>5
    <2>7. TypeOK'
      <3>1. pos' \in Nat
        BY <1>2, <1>6
      <3>2. dirty' \in BOOLEAN
        BY <1>6, Zenon DEF IInv, TypeOK
      <3> QED BY <1>1, <1>6, <2>5, <3>1, <3>2 DEF IInv, TypeOK, Limited
    <2>8. Types' /\ Adding'
      BY <1>1, <2>5, BesideResponder DEF Types
    <2>9. Locks' /\ Caches'
      BY <1>1, <1>6, <2>5 DEF IInv, Locks, Caches
    <2>10. Reading'
      <3>1. FileOf("fread", sel["fread"])' # Absent
        <4>1. fs'[from] = fs[from]
          BY <2>3, <2>5
        <4> QED BY <1>1, <1>3, <4>1 DEF FileOf, DirOf
      <3>2. fs'["tmp"][tmp'["fread"]] = more /\ pos' = 2 * Len(more)
        BY <1>1, <1>2, <1>6, <2>1, <2>5
      <3>3. sel'["fread"] = s /\ tmp'["fread"] = n /\ main' = "copying" /\ last' = "read"
            /\ ret' = "PARTIAL" /\ offset' = 0 /\ moved' = <<>> /\ src' = src
        BY <1>1, <1>2, <1>3, <1>6
      <3>4. s # None /\ n = s.name /\ (s.dir = "tmp" => src = <<>>)
        BY <1>2, <1>3
      <3> HIDE DEF s, n
      <3> QED BY <1>2, <2>1, <2>6, <3>1, <3>2, <3>3, <3>4 DEF Reading
    <2>11. Writing' /\ Lists' /\ WriteDelivered' /\ ReadSnapshot'
      BY <1>1, <1>6 DEF Writing, Lists, WriteDelivered, ReadSnapshot
    <2> QED BY <2>7, <2>8, <2>9, <2>10, <2>11 DEF IInv
  <1>7. CASE Drop /\ pos' = 0 /\ UNCHANGED fs
    <2>1. sel' \in [Ext -> Selection \union {None}] /\ tmp' \in [Ext -> Name \union {None}]
          /\ pos' \in Nat
      BY <1>1, <1>7 DEF IInv, TypeOK
    <2>2. main' = "idle" /\ ret' = "none" /\ offset' = 0 /\ length' = 0 /\ dirty' = FALSE
      BY <1>7 DEF Drop, Forget
    <2>3. UNCHANGED <<fs, failed, resp>> /\ lock' = lock /\ main # "moving"
      BY <1>1, <1>7
    <2> QED BY <2>1, <2>2, <2>3, DropStep
  <1>8. CASE /\ CopyEnds(pos, size) /\ main' = "copied" /\ pos' = 0
             /\ UNCHANGED <<fs, offset, length, src, moved, ret, last, dirty>>
    <2>1. TypeOK' /\ Types' /\ Locks' /\ Caches' /\ Adding'
      BY <1>1, <1>8 DEF IInv, TypeOK, Types, Locks, Caches, Adding
    <2>2. ~dirty => copy = src /\ (src = <<>> \/ src \in Content)
      <3>1. copy = <<>> => src = <<>>
        <4> SUFFICES ASSUME copy = <<>> PROVE src = <<>>
          OBVIOUS
        <4>1. Len(copy) = 0
          OBVIOUS
        <4>2. size = 0
          BY <1>2, <1>3, <1>8, <4>1 DEF CopyEnds
        <4> QED BY <1>2, <4>2, EmptySeq
      <3> QED BY <1>3, <3>1
    <2>3. Reading'
      BY <1>1, <1>2, <1>3, <1>8, <2>2 DEF Reading
    <2>4. Writing' /\ Lists' /\ WriteDelivered' /\ ReadSnapshot'
      BY <1>8 DEF Writing, Lists, WriteDelivered, ReadSnapshot
    <2> QED BY <2>1, <2>3, <2>4 DEF IInv
  <1>9. CASE /\ ~CopyEnds(pos, size)
             /\ \E k \in 0..can :
                   SendFile(from, "tmp", n, size, k) /\ dirty' = unusual(k)
             /\ UNCHANGED <<main, offset, length, src, moved, ret, last>>
    <2>1. PICK k \in 0..can : SendFile(from, "tmp", n, size, k) /\ dirty' = unusual(k)
      BY <1>9
    <2>2. fs' = Put(fs, "tmp", n, copy \o Part(file, pos, k)) /\ pos' = pos + 2 * k /\ k > 0
      BY <2>1 DEF SendFile, Put
    <2>3. pos < size
      BY <1>2, <1>9 DEF CopyEnds
    <2>4. Sent(k)
      BY <1>9, <2>1, <2>2, <2>3
    <2> HIDE DEF can, Sent
    <2> QED BY <1>6, <2>4
  <1>10. Sendable(from, n, size) = can
    BY DEF Sendable
  <1> HIDE DEF size, can
  <1> QED BY <1>7, <1>8, <1>9, <1>10 DEF ReadCopy, Transfer, size

\* A segment of a read.
LEMMA ReadDataStep == ASSUME IInv, ReadData PROVE IInv'
  <1> DEFINE copy == fs["tmp"][tmp["fread"]]
             len == Len(copy)
             seg == Segment(offset, len, BlocksPerCall)
             more == FirstOf(copy, offset + seg.n)
  <1>1. main \in {"copied", "read"} /\ UNCHANGED <<fs, sel, tmp, lock, pos, failed, resp>>
    BY DEF ReadData
  <1>2. copy \in Seq(Block) /\ len \in Nat /\ offset \in Nat /\ last = "read"
        /\ sel["fread"] # None /\ tmp["fread"] = sel["fread"].name /\ src \in Seq(Block)
    BY <1>1, CopyFacts, LenProperties
  <1>3. /\ moved = FirstOf(copy, offset)
        /\ (IF offset = 0 THEN Len(ReadSource) ELSE length) = len
        /\ offset = 0 \/ offset < len
        /\ ~dirty => copy = src /\ (src = <<>> \/ src \in Content)
    <2>1. CASE main = "copied"
      <3>1. offset = 0 /\ moved = <<>> /\ FirstOf(copy, 0) = <<>>
        BY <1>2, <2>1, FirstWhole DEF IInv, Reading
      <3> QED BY <2>1, <3>1 DEF IInv, Reading, ReadSource
    <2>2. CASE main = "read"
      <3>1. 0 < offset /\ offset < length /\ length = len
        BY <2>2 DEF IInv, Reading
      <3>2. offset # 0
        BY <1>2, <3>1
      <3> QED BY <2>2, <3>1, <3>2 DEF IInv, Reading
    <2> QED BY <1>1, <2>1, <2>2
  <1>4. CASE Drop
    <2>1. sel' \in [Ext -> Selection \union {None}] /\ tmp' \in [Ext -> Name \union {None}]
          /\ pos' \in Nat
      BY <1>1 DEF IInv, TypeOK
    <2>2. main' = "idle" /\ ret' = "none" /\ offset' = 0 /\ length' = 0 /\ dirty' = FALSE
      BY <1>4 DEF Drop, Forget
    <2>3. UNCHANGED <<fs, failed, resp>> /\ lock' = lock /\ main # "moving"
      BY <1>1
    <2> QED BY <2>1, <2>2, <2>3, DropStep
  <1>5. CASE /\ ~(offset = 0 /\ len = 0) /\ length' = len
             /\ moved' = moved \o Part(copy, offset, seg.n)
             /\ offset' = seg.off /\ ret' = seg.ret
             /\ main' = (IF seg.ret = "PARTIAL" THEN "read" ELSE "idle")
             /\ UNCHANGED <<src, last, dirty>>
    <2>1. offset < len /\ len > 0
      <3> HIDE DEF len
      <3> QED BY <1>2, <1>3, <1>5
    <2>2. /\ seg.ret \in {"OK", "PARTIAL"} /\ seg.off \in Nat /\ seg.n = 1
          /\ seg.ret = "OK" => offset + seg.n = len
          /\ seg.ret = "PARTIAL" => seg.off = offset + 1 /\ offset + 1 < len
      <3> HIDE DEF len
      <3> QED BY <1>2, <2>1, Segments
    <2> HIDE DEF seg
    <2>3. moved' = more
      <3>1. offset + seg.n <= Len(copy) /\ seg.n \in Nat
        <4> HIDE DEF copy
        <4> QED BY <1>2, <2>1, <2>2
      <3>2. FirstOf(copy, offset) \o Part(copy, offset, seg.n) = FirstOf(copy, offset + seg.n)
        <4> HIDE DEF copy
        <4> QED BY <1>2, <3>1, FirstExtends
      <3> QED BY <1>3, <1>5, <3>2
    <2>4. TypeOK'
      <3>1. ret' \in ODR \union {"none"}
        BY <1>5, <2>2 DEF ODR
      <3>2. main' \in {"read", "idle"}
        BY <1>5
      <3> QED BY <1>1, <1>2, <1>5, <2>2, <3>1, <3>2 DEF IInv, TypeOK
    <2>5. Types' /\ Locks' /\ Caches' /\ Adding'
      <3>1. main' \in {"read", "idle"}
        BY <1>5
      <3> QED BY <1>1, <3>1 DEF IInv, Types, Locks, Caches, Adding
    <2>6. Writing' /\ Lists' /\ WriteDelivered'
      <3>1. main' \in {"read", "idle"} /\ last' = "read"
        BY <1>2, <1>5
      <3> QED BY <3>1 DEF Writing, Lists, WriteDelivered
    <2>7. CASE seg.ret = "PARTIAL"
      <3>1. /\ main' = "read" /\ ret' = "PARTIAL" /\ offset' = offset + 1
            /\ 0 < offset' /\ offset' < length' /\ moved' = FirstOf(copy, offset')
        <4> HIDE DEF copy
        <4> QED BY <1>2, <1>5, <2>2, <2>3, <2>7
      <3>2. fs'["tmp"][tmp'["fread"]] = copy /\ length' = Len(copy)
        BY <1>1, <1>5
      <3>3. /\ sel'["fread"] # None /\ tmp'["fread"] = sel'["fread"].name /\ last' = "read"
            /\ src' = src /\ dirty' = dirty
        BY <1>1, <1>2, <1>5
      <3>4. Reading'
        <4> HIDE DEF copy
        <4> QED BY <1>2, <1>3, <3>1, <3>2, <3>3 DEF Reading
      <3>5. ReadSnapshot'
        BY <3>1 DEF ReadSnapshot
      <3> QED BY <2>4, <2>5, <2>6, <3>4, <3>5 DEF IInv
    <2>8. CASE seg.ret = "OK"
      <3>1. main' = "idle"
        BY <1>5, <2>8
      <3>2. moved' = copy
        BY <1>2, <2>2, <2>3, <2>8, FirstWhole
      <3>3. ~dirty => moved' = src /\ moved' \in Content
        <4>1. src # <<>> \/ copy # src
          <5> SUFFICES ASSUME copy = <<>> PROVE FALSE
            OBVIOUS
          <5>1. len = 0
            OBVIOUS
          <5> QED BY <2>1, <5>1
        <4> QED BY <1>3, <3>2, <4>1
      <3>4. ReadSnapshot'
        BY <1>2, <1>5, <3>3 DEF ReadSnapshot
      <3>5. Reading'
        BY <3>1 DEF Reading
      <3> QED BY <2>4, <2>5, <2>6, <3>4, <3>5 DEF IInv
    <2> QED BY <2>2, <2>7, <2>8
  <1> HIDE DEF len
  <1> QED BY <1>3, <1>4, <1>5 DEF ReadData, ReadSource

\* A file is removed from its cache, and its temporary file with it.
LEMMA RemoveStep == ASSUME IInv, NEW e \in Ext, Remove(e) PROVE IInv'
  <1> DEFINE gone(d, n) == (d = e /\ n = sel[e].name) \/ (d = "tmp" /\ n = tmp[e])
  <1>1. /\ main = "idle" /\ main' = "idle" /\ lock[e] = "free" /\ sel[e] # None
        /\ fs' = [d \in Dir |-> [n \in Name |-> IF gone(d, n) THEN Absent ELSE fs[d][n]]]
        /\ sel' = [sel EXCEPT ![e] = None] /\ tmp' = [tmp EXCEPT ![e] = None]
        /\ ret' = "none" /\ failed' = [failed EXCEPT ![e] = failed[e] \ {sel[e].name}]
        /\ offset' = 0 /\ length' = 0 /\ dirty' = FALSE
        /\ UNCHANGED <<lock, pos, resp>>
    BY DEF Remove, Forget
  <1>2. fs \in [Dir -> [Name -> File]] /\ failed \in [Ext -> SUBSET Name]
        /\ sel[e].name \in Name
    BY <1>1, SelectionFacts DEF IInv, Types, TypeOK
  <1>3. \A d \in Dir, n \in Name : fs'[d][n] = IF gone(d, n) THEN Absent ELSE fs[d][n]
    BY <1>1
  <1>4. fs' \in [Dir -> [Name -> File]]
    <2>1. \A d \in Dir : [n \in Name |-> IF gone(d, n) THEN Absent ELSE fs[d][n]] \in [Name -> File]
      BY <1>2 DEF File
    <2> HIDE DEF gone
    <2> QED BY <1>1, <2>1
  <1>5. "fread" \in Dir /\ "fwrite" \in Dir /\ "tmp" \in Dir /\ "other" \in Dir
        /\ "fread" \in Ext /\ "fwrite" \in Ext /\ e \in {"fread", "fwrite"}
    BY DEF Dir, Ext
  <1>6. failed' \in [Ext -> SUBSET Name]
        /\ \A x \in Ext : failed'[x] = IF x = e THEN failed[x] \ {sel[e].name} ELSE failed[x]
    BY <1>1, <1>2
  <1>7. TypeOK'
    <2>1. \A d \in Dir, n \in Name : Limited(fs'[d][n])
      <3>1. \A d \in Dir, n \in Name : Limited(fs[d][n])
        BY DEF IInv, TypeOK, Limited
      <3> HIDE DEF gone
      <3> QED BY <1>3, <3>1 DEF Limited
    <2>2. sel' \in [Ext -> Selection \union {None}] /\ tmp' \in [Ext -> Name \union {None}]
      BY <1>1 DEF IInv, TypeOK
    <2> QED BY <1>1, <1>6, <2>1, <2>2 DEF IInv, TypeOK, Limited
  <1>8. Types'
    BY <1>1, <1>4 DEF IInv, Types
  <1>9. Locks'
    BY <1>1 DEF IInv, Locks
  <1>10. resp.pc = "copy" => e # "fread"
    BY <1>1 DEF IInv, Locks
  <1>11. Caches'
    <2>1. fs'["other"] = Other
      <3>1. \A n \in Name : ~gone("other", n)
        BY <1>5
      <3>2. \A n \in Name : fs'["other"][n] = fs["other"][n]
        BY <1>3, <1>5, <3>1
      <3>3. fs'["other"] \in [Name -> File] /\ fs["other"] \in [Name -> File]
        BY <1>2, <1>4, <1>5
      <3>4. fs'["other"] = fs["other"]
        BY <3>2, <3>3
      <3> QED BY <3>4 DEF IInv, Caches
    <2>2. ASSUME NEW x \in Ext, NEW n \in Name, n \notin failed'[x]
          PROVE  /\ fs'[x][n] = Absent \/ fs'[x][n] = fs[x][n]
                 /\ n \in failed[x] => fs'[x][n] = Absent
      <3>1. x \in Dir
        BY DEF Dir
      <3>2. n \in failed[x] => x = e /\ n = sel[e].name
        BY <1>6, <2>2
      <3> QED BY <1>3, <3>1, <3>2
    <2>3. \A n \in Name \ failed'["fread"] :
             fs'["fread"][n] \in Cached \/ (resp'.pc = "copy" /\ n = resp'.name)
      <3> TAKE n \in Name \ failed'["fread"]
      <3>1. /\ fs'["fread"][n] = Absent \/ fs'["fread"][n] = fs["fread"][n]
            /\ n \in failed["fread"] => fs'["fread"][n] = Absent
        BY <1>5, <2>2
      <3>2. n \notin failed["fread"] =>
               fs["fread"][n] \in Cached \/ (resp.pc = "copy" /\ n = resp.name)
        BY DEF IInv, Caches
      <3> QED BY <1>1, <3>1, <3>2 DEF Cached
    <2>4. \A n \in Name \ failed'["fwrite"] : fs'["fwrite"][n] \in Cached
      <3> TAKE n \in Name \ failed'["fwrite"]
      <3>1. /\ fs'["fwrite"][n] = Absent \/ fs'["fwrite"][n] = fs["fwrite"][n]
            /\ n \in failed["fwrite"] => fs'["fwrite"][n] = Absent
        BY <1>5, <2>2
      <3>2. n \notin failed["fwrite"] => fs["fwrite"][n] \in Cached
        BY <1>1 DEF IInv, Caches
      <3> QED BY <3>1, <3>2 DEF Cached
    <2> QED BY <2>1, <2>3, <2>4 DEF Caches
  <1>12. Adding'
    <2> SUFFICES ASSUME resp.pc = "copy" PROVE Adding'
      BY <1>1 DEF Adding
    <2>1. resp.name \in Name
      BY ResponderFacts DEF IInv
    <2>2. fs'["fread"][resp.name] = fs["fread"][resp.name]
      <3>1. ~gone("fread", resp.name)
        BY <1>10
      <3> QED BY <1>3, <1>5, <2>1, <3>1
    <2> QED BY <1>1, <2>2 DEF IInv, Adding
  <1> QED BY <1>1, <1>7, <1>8, <1>9, <1>11, <1>12, IdleStep

\* A segment of a list, the first or a later one.
LEMMA ListSegmentStep ==
    ASSUME IInv, NEW e \in Ext, NEW off \in Nat, NEW first, NEW sent,
           main \in {"idle", "list_fread", "list_fwrite"},
           Len(first) \in Nat,
           (off = 0 /\ sent = <<>>) \/ (off > 0 /\ (~dirty => sent = FirstOf(first, off))),
           ListSegment(e, off, first, sent)
    PROVE  IInv'
  <1> DEFINE list == ListOf(e)
             seg == Segment(off, Len(list), BlocksPerCall)
  <1>1. UNCHANGED <<fs, sel, tmp, pos, failed, resp>> /\ lock[e] = "free"
    BY DEF ListSegment
  <1>2. CASE /\ lock' = [lock EXCEPT ![e] = "leaked"]
             /\ length' = Len(first) /\ offset' = off /\ ret' = "OK"
             /\ dirty' = (off > 0 /\ dirty) /\ main' = "idle" /\ last' = Listing[e]
    <2>1. /\ lock' \in [Ext -> {"free", "main", "responder", "leaked"}] /\ lock'[e] = "leaked"
          /\ \A x \in Ext : lock'[x] = lock[x] \/ (lock[x] = "free" /\ lock'[x] = "leaked")
      BY <1>1, <1>2 DEF IInv, TypeOK
    <2>2. TypeOK'
      <3>1. {dirty'} \subseteq BOOLEAN
        BY <1>2, Zenon DEF IInv, TypeOK
      <3>2. dirty' \in BOOLEAN
        BY <3>1, Zenon
      <3> QED BY <1>1, <1>2, <2>1, <3>2 DEF IInv, TypeOK, ODR
    <2>3. Types' /\ Caches' /\ Adding'
      BY <1>1, <1>2 DEF IInv, Types, Caches, Adding
    <2>4. Locks'
      <3>1. "fread" \in Ext /\ "fwrite" \in Ext
        BY DEF Ext
      <3> QED BY <1>1, <1>2, <2>1, <3>1 DEF IInv, Locks
    <2>5. Writing' /\ Reading' /\ Lists'
      BY <1>2 DEF Writing, Reading, Lists
    <2>6. last' \notin {"write", "read"} /\ \A x \in Ext : last' = Listing[x] => x = e
      BY <1>2 DEF Listing, Ext
    <2>7. WriteDelivered' /\ ReadSnapshot'
      BY <2>1, <2>6 DEF WriteDelivered, ReadSnapshot
    <2> QED BY <2>2, <2>3, <2>4, <2>5, <2>7 DEF IInv
  <1>3. CASE /\ length' = Len(first) /\ src' = first
             /\ moved' = sent \o Part(list, off, seg.n)
             /\ offset' = seg.off /\ ret' = seg.ret /\ last' = Listing[e]
             /\ dirty' = (list # first \/ (off > 0 /\ dirty))
             /\ main' = (IF seg.ret = "PARTIAL" THEN Listing[e] ELSE "idle")
             /\ UNCHANGED lock
    <2>1. list \in Seq(Name \union {"[", "]"}) /\ Len(list) \in Nat
      BY ListIsSeq
    <2> HIDE DEF list
    <2>2. /\ seg.ret \in ODR /\ seg.off \in Nat /\ seg.n \in Nat
          /\ seg.ret = "OK" => off + seg.n = Len(list)
          /\ seg.ret = "PARTIAL" => seg.n = 1 /\ seg.off = off + 1 /\ off + 1 < Len(list)
      BY <2>1, Segments
    <2> HIDE DEF seg
    <2>3. main' \in {"idle", "list_fread", "list_fwrite"}
      BY <1>3 DEF Listing, Ext
    <2>4. main' # "idle" => seg.ret = "PARTIAL"
      BY <1>3
    <2>5. TypeOK'
      <3>1. {dirty'} \subseteq BOOLEAN
        BY <1>3, Zenon DEF IInv, TypeOK
      <3>2. dirty' \in BOOLEAN
        BY <3>1, Zenon
      <3> QED BY <1>1, <1>3, <2>2, <2>3, <3>2 DEF IInv, TypeOK
    <2>6. Types' /\ Locks' /\ Caches' /\ Adding'
      BY <1>1, <1>3, <2>3 DEF IInv, Types, Locks, Caches, Adding
    <2>7. ~dirty' => list = first /\ sent = FirstOf(list, off)
      <3> SUFFICES ASSUME ~dirty' PROVE list = first /\ sent = FirstOf(list, off)
        OBVIOUS
      <3>1. list = first /\ ~(off > 0 /\ dirty)
        BY <1>3
      <3> QED BY <2>1, <3>1, FirstWhole
    <2>8. ~dirty' /\ seg.ret \in {"OK", "PARTIAL"} => moved' = FirstOf(first, off + seg.n)
      <3> SUFFICES ASSUME ~dirty', seg.ret \in {"OK", "PARTIAL"}
                   PROVE  moved' = FirstOf(first, off + seg.n)
        OBVIOUS
      <3>1. off + seg.n <= Len(list)
        BY <2>1, <2>2
      <3>2. FirstOf(list, off) \o Part(list, off, seg.n) = FirstOf(list, off + seg.n)
        BY <2>1, <2>2, <3>1, FirstExtends
      <3> QED BY <1>3, <2>7, <3>2
    <2>9. Lists'
      <3> SUFFICES ASSUME main' # "idle" PROVE Lists'
        BY DEF Lists
      <3>1. seg.ret = "PARTIAL" /\ offset' = off + seg.n /\ offset' > 0
        BY <1>3, <2>2, <2>4
      <3>2. ~dirty' => moved' = FirstOf(first, offset')
        BY <2>8, <3>1
      <3> QED BY <1>3, <3>1, <3>2 DEF Lists
    <2>10. ReadSnapshot'
      <3> SUFFICES ASSUME ret' = "OK", ~dirty' PROVE moved' = src'
        BY <1>3 DEF ReadSnapshot, Listing, Ext
      <3>1. off + seg.n = Len(list)
        BY <1>3, <2>2
      <3> QED BY <1>3, <2>1, <2>7, <2>8, <3>1, FirstWhole
    <2>11. Writing' /\ Reading' /\ WriteDelivered'
      BY <1>3, <2>3 DEF Writing, Reading, WriteDelivered, Listing, Ext
    <2> QED BY <2>5, <2>6, <2>9, <2>10, <2>11 DEF IInv
  <1>4. last' = Listing[e]
    BY DEF ListSegment
  <1> QED BY <1>2, <1>3, <1>4 DEF ListSegment

LEMMA ListStep == ASSUME IInv, NEW e \in Ext, BeginList(e) \/ ListFiles(e) PROVE IInv'
  <1>1. CASE BeginList(e)
    <2>1. Len(ListOf(e)) \in Nat
      BY ListIsSeq
    <2> QED BY <1>1, <2>1, ListSegmentStep DEF BeginList
  <1>2. CASE ListFiles(e)
    <2>1. main \in {"list_fread", "list_fwrite"}
      BY <1>2 DEF ListFiles, Listing, Ext
    <2>2. offset \in Nat /\ offset > 0 /\ Len(src) \in Nat
          /\ (~dirty => moved = FirstOf(src, offset))
      BY <2>1 DEF IInv, TypeOK, Lists
    <2>3. ListSegment(e, offset, src, moved)
      BY <1>2 DEF ListFiles
    <2> QED BY <2>1, <2>2, <2>3, ListSegmentStep
  <1> QED BY <1>1, <1>2

-----------------------------------------------------------------------------
(* The theorems.                                                           *)

\* Every step preserves the invariant.
LEMMA NextIInv == IInv /\ [Next]_vars => IInv'
  <1> SUFFICES ASSUME IInv, [Next]_vars PROVE IInv'
    OBVIOUS
  <1>1. CASE \E e \in Ext : \E s \in Chosen[e] : WriteName(e, s)
    <2>1. \A e \in Ext : \A s \in Chosen[e] : s \in Selection
      BY ChosenAssumption
    <2> QED BY <1>1, <2>1, NameStep
  <1>2. CASE \E c \in Content : BeginWrite(c)
    BY <1>2, BeginWriteStep
  <1>3. CASE Abort
    BY <1>3, AbortStep
  <1>4. CASE WriteData
    BY <1>4, WriteDataStep
  <1>5. CASE WriteEnd
    BY <1>5, WriteEndStep
  <1>6. CASE MoveFile
    BY <1>6, MoveFileStep
  <1>7. CASE ReadOpen
    BY <1>7, ReadOpenStep
  <1>8. CASE ReadCopy
    BY <1>8, ReadCopyStep
  <1>9. CASE ReadData
    BY <1>9, ReadDataStep
  <1>10. CASE \E e \in Ext : Remove(e)
    BY <1>10, RemoveStep
  <1>11. CASE \E e \in Ext : BeginList(e) \/ ListFiles(e)
    BY <1>11, ListStep
  <1>12. CASE (\E n \in Name : AddFile(n)) \/ AddRefused
    BY <1>12, AddFileStep
  <1>13. CASE \E c \in Content : \E avail \in {0, Len(c)} : AddLock(c, avail)
    BY <1>13, AddLockStep
  <1>14. CASE AddCopy
    BY <1>14, AddCopyStep
  <1>15. CASE AddReturn
    BY <1>15, AddReturnStep
  <1>16. CASE UNCHANGED vars
    BY <1>16, StutterStep
  <1> QED BY <1>1, <1>2, <1>3, <1>4, <1>5, <1>6, <1>7, <1>8, <1>9, <1>10, <1>11, <1>12,
             <1>13, <1>14, <1>15, <1>16 DEF Next, Main, Responder

\* The invariant holds in every reachable state.
LEMMA Invariance == Spec => []IInv
  BY InitIInv, NextIInv, PTL DEF Spec

\* TypeOK: the variables of the two objects, the caches and the threads keep
\* their types, and no file of /tmp or a cache, however often copy_file's
\* offset skips and a copy meets a file that changes, outgrows twice a
\* complete file.
THEOREM TypeCorrect == Spec => []TypeOK
  BY Invariance, PTL DEF IInv

\* CacheComplete: for any names and contents, whatever is cut short, aborted or
\* added meanwhile by the responder's fcache_add, a cache whose mutex is not
\* held has only complete files, but for those that a full disk cut.
THEOREM CachesAreComplete == Spec => []CacheComplete
  <1>1. IInv => CacheComplete
    <2> SUFFICES ASSUME IInv, NEW e \in Ext, lock[e] \in {"free", "leaked"},
                        NEW n \in Name \ failed[e]
                 PROVE  fs[e][n] \in Content \union {Absent}
      BY DEF CacheComplete
    <2>1. CASE e = "fread"
      BY <2>1 DEF IInv, Locks, Caches, Cached
    <2>2. CASE e = "fwrite"
      BY <2>2 DEF IInv, Locks, Caches, Cached
    <2> QED BY <2>1, <2>2 DEF Ext
  <1> QED BY <1>1, Invariance, PTL

\* WriteDelivered: file_transfer_write answers ODR_OK before fcache_add has
\* moved the file, and yet a file written under a bare name is whole in the
\* cache, for any content, unless the disk failed; and then the temporary file
\* is whole or gone, wherever copy_file stops or its offset skips.
THEOREM WritesAreDelivered == Spec => []WriteDelivered
  BY Invariance, PTL DEF IInv

\* ReadSnapshot: the segments that file_transfer_read hands out, one call at a
\* time, put together one complete version of the selected file, or one list,
\* unless the copy or the list met a change, or opendir failed and the list was
\* answered ODR_OK without its rest, which leaves the cache's mutex locked.
THEOREM ReadsAreSnapshots == Spec => []ReadSnapshot
  BY Invariance, PTL DEF IInv
=============================================================================

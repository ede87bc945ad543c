---------------------------- MODULE FileTransfer ----------------------------
(***************************************************************************)
(* The two file transfer objects of src/od_extensions/file_transfer_ext.c, *)
(* fread_cache (0x3004) and fwrite_cache (0x3005), over the caches of      *)
(* src/common/fcache.c and the file copies of src/common/system.c.         *)
(*                                                                         *)
(* The main thread serves the SDO client: it selects a file by name or by  *)
(* absolute path, moves its data through /tmp in segments, lists and       *)
(* removes.  The IPC responder thread puts files of the local application  *)
(* into the fread cache meanwhile (fcache_add).  Each cache has a mutex,   *)
(* which the fcache functions take and file_transfer_read does not.        *)
(*                                                                         *)
(* A file is a sequence of blocks, one block being what one call of the    *)
(* extension moves.  fs gives every directory's files by name: the two     *)
(* caches, /tmp, and one other directory that absolute paths can name.     *)
(* The SDO server, the client and what open, opendir and the file system   *)
(* do are external.  The file name is short enough for one SDO buffer      *)
(* (PATH_LEN is 256), so it is written in one call.  The FILE* of a file   *)
(* transfer is left to OdTransfer.                                         *)
(***************************************************************************)
EXTENDS OdExt, FiniteSets, Functions

CONSTANTS
    Name,      \* file names
    Block,     \* the blocks told apart
    Content,   \* what a complete file may hold: non-empty block sequences
    Other,     \* the files of a directory that is not the daemon's
    Chosen,    \* Chosen[e]: the selections clients make of object e
    Absent,    \* no file of that name
    None       \* no selection, no temporary file

\* A selection: the raw name, relative ("cache") or in an absolute directory.
Selection == [dir : {"cache", "tmp", "other"}, name : Name]

Ext == {"fread", "fwrite"}
Dir == Ext \union {"tmp", "other"}
BlocksPerCall == 1

ASSUME NameAssumption == IsFiniteSet(Name)
ASSUME ContentAssumption == Content \subseteq Seq(Block) \ {<<>>}
ASSUME AbsentAssumption == Absent \notin Seq(Block) /\ None \notin Name /\ None \notin Selection
ASSUME OtherAssumption == Other \in [Name -> Content \union {Absent}]
ASSUME ChosenAssumption == Chosen \in [Ext -> SUBSET Selection]

VARIABLES
    fs,      \* the files
    sel,     \* per object: raw, file_name, file_cached and file_path
    tmp,     \* per object: the name in tmp_file_path
    lock,    \* per cache: who holds its mutex
    main,    \* the main thread: idle, or inside a transfer
    offset,  \* dataOffset of its stream
    length,  \* dataLength of its stream
    src,     \* payload of the write in progress, or the file a read copies
    moved,   \* blocks moved so far
    ret,     \* code of the transfer's last call; "none" once it is of no use
    last,    \* history: the transfer the outcome belongs to
    pos,     \* offset in the copy_file the main thread is in
    dirty,   \* history: the copy of this read met another copy, or fell short;
             \* an fwrite of this write did not store its segment
    failed,  \* history: per cache, the files whose last way into it fell short
    resp     \* the responder: idle, or adding a file

vars == <<fs, sel, tmp, lock, main, offset, length, src, moved, ret, last,
          pos, dirty, failed, resp>>
Transfer == <<offset, length, src, moved>>

Idle == [pc |-> "idle"]

\* The stream belongs to the SDO server, which drops it with the transfer.
Forget == offset' = 0 /\ length' = 0 /\ src' = <<>> /\ moved' = <<>> /\ dirty' = FALSE

Init ==
    /\ fs = [d \in Dir |-> IF d = "other" THEN Other ELSE [n \in Name |-> Absent]]
    /\ sel = [e \in Ext |-> None] /\ tmp = [e \in Ext |-> None]
    /\ lock = [e \in Ext |-> "free"]
    /\ main = "idle"
    /\ offset = 0 /\ length = 0 /\ src = <<>> /\ moved = <<>>
    /\ ret = "none" /\ last = "none" /\ pos = 0
    /\ dirty = FALSE /\ failed = [e \in Ext |-> {}]
    /\ resp = Idle

-----------------------------------------------------------------------------
(* Files (src/common/system.c).                                            *)

\* The directory and the file that a selection of object e stands for.
DirOf(e, s) == IF s.dir = "cache" THEN e ELSE s.dir
FileOf(e, s) == fs[DirOf(e, s)][s.name]

\* The blocks after the first skip ones, count of them or as many as there are.
Part(file, skip, count) ==
    SubSeq(file, skip + 1, IF skip + count < Len(file) THEN skip + count ELSE Len(file))

\* Mutant of CopyEnds: the loop goes on until sendfile fails.
CopyNeverEnds(p, size) == FALSE

\* The condition of copy_file's loop: its offset has reached the size that
\* fstat found.
CopyEnds(p, size) == p >= size

\* One turn of copy_file's loop, from file to file, size being what fstat
\* found.  sendfile moves k blocks; fewer than it could when the disk is full.
\* It advances the offset itself and the loop adds the same number again, so a
\* short call skips as many blocks as it moved.  Beyond the end of a file that
\* has shrunk it moves nothing and the loop spins.
SendFile(from, to, n, size, k) ==
    /\ k > 0
    /\ fs' = [fs EXCEPT ![to][n] = @ \o Part(fs[from][n], pos, k)]
    /\ pos' = pos + 2 * k

\* How many blocks the call can move.
Sendable(from, n, size) == Len(Part(fs[from][n], pos, size))

-----------------------------------------------------------------------------
(* The main thread: the SDO server's calls.                                *)

\* Writing the file name subindex: raw, and all that is derived from it.
WriteName(e, s) ==
    /\ main = "idle"
    /\ sel' = [sel EXCEPT ![e] = s]
    /\ ret' = "none" /\ last' = "none"
    /\ Forget
    /\ UNCHANGED <<fs, tmp, lock, main, pos, failed, resp>>

\* The server opens a stream on the data subindex of fwrite_cache, which is
\* write only; fread_cache's is read only (od.yaml).
BeginWrite(payload) ==
    /\ main = "idle"
    /\ main' = "write"
    /\ offset' = 0 /\ length' = Len(payload)
    /\ src' = payload /\ moved' = <<>>
    /\ last' = "write" /\ dirty' = FALSE
    /\ ret' = "PARTIAL"
    /\ UNCHANGED <<fs, sel, tmp, lock, pos, failed, resp>>

\* The transfer ends without success; the code it ends with is left out.
Drop == main' = "idle" /\ ret' = "none" /\ last' = "none" /\ Forget

\* The client or a timeout ends the transfer between two calls.
Abort ==
    /\ main \in {"write", "read", "list_fread", "list_fwrite"}
    /\ Drop
    /\ UNCHANGED <<fs, sel, tmp, lock, pos, failed, resp>>

\* Mutant of Finish: every segment is handed on, the last one or not.
FinishEarly(seg) == "adding"

\* What a write call does next: more segments, or the file's destination.
Finish(seg) == IF seg.ret = "PARTIAL" THEN "write" ELSE "adding"

\* Mutant of Base: what an aborted write left in /tmp is not truncated.
BaseAppend(n) == IF fs["tmp"][n] = Absent THEN <<>> ELSE fs["tmp"][n]

\* What the temporary file holds when the segment is written: the first one
\* opens it with "wb".
Base(n) == IF offset = 0 THEN <<>> ELSE fs["tmp"][n]

\* file_transfer_write on the data subindex, up to and including
\* od_ext_write_file: the segment goes into /tmp/<name>.  What fwrite returns is
\* not looked at: on a full disk it stores less, and the transfer goes on.
WriteData ==
    LET n == sel["fwrite"].name
        seg == WriteSegment(offset, length, BlocksPerCall)
        block == Part(src, Len(moved), seg.n)
    IN  /\ main = "write"
        /\ \/ sel["fwrite"] = None /\ Drop /\ UNCHANGED <<fs, tmp>>
           \/ /\ sel["fwrite"] # None
              /\ tmp' = IF offset = 0 THEN [tmp EXCEPT !["fwrite"] = n] ELSE tmp
              /\ \E stored \in 0..seg.n :
                    /\ fs' = [fs EXCEPT !["tmp"][n] = Base(n) \o Part(block, 0, stored)]
                    /\ dirty' = (dirty \/ stored < seg.n)
              /\ moved' = moved \o block
              /\ offset' = seg.off
              /\ ret' = seg.ret
              /\ main' = Finish(seg)
              /\ UNCHANGED <<length, src, last>>
        /\ UNCHANGED <<sel, lock, pos, failed, resp>>

\* Mutant of Destination: a name without a directory stays in /tmp.
DestinationNowhere(s) == "tmp"

\* Where the rest of file_transfer_write moves a complete file: into the cache
\* for a bare name; an absolute path only if it is the temporary file's own
\* (line 217 compares for equality), anywhere else the file stays in /tmp.
Destination(s) == IF s.dir = "cache" THEN "fwrite" ELSE s.dir

\* The rest of the last call, up to copy_file's open of the destination, which
\* empties an older file or fails.  Nothing but the log tells of a failure.
\* Moving a file onto itself empties it in that open and then removes it.
WriteEnd ==
    LET n == sel["fwrite"].name
        dest == Destination(sel["fwrite"])
    IN  /\ main = "adding"
        /\ \/ dest = "other" /\ main' = "idle" /\ UNCHANGED <<fs, lock, pos, failed>>
           \/ /\ dest = "tmp" /\ main' = "idle"
              /\ fs' = [fs EXCEPT !["tmp"][n] = Absent]
              /\ UNCHANGED <<lock, pos, failed>>
           \/ /\ dest = "fwrite" /\ lock["fwrite"] = "free"
              /\ lock' = [lock EXCEPT !["fwrite"] = "main"]
              /\ fs' = [fs EXCEPT !["fwrite"][n] = <<>>]
              /\ failed' = [failed EXCEPT !["fwrite"] =
                               IF dirty THEN @ \union {n} ELSE @ \ {n}]
              /\ pos' = 0 /\ main' = "moving"
           \/ /\ dest = "fwrite" /\ lock["fwrite"] = "free"
              /\ failed' = [failed EXCEPT !["fwrite"] = @ \union {n}]
              /\ main' = "idle"
              /\ UNCHANGED <<fs, lock, pos>>
        /\ UNCHANGED <<sel, tmp, Transfer, ret, last, dirty, resp>>

\* move_file of fcache_add, under the mutex: turns of the copy, and then the
\* removal of the temporary file, unless the copy failed.
MoveFile ==
    LET n == sel["fwrite"].name
        size == Len(fs["tmp"][n])
        can == Sendable("tmp", n, size)
        Short == failed' = [failed EXCEPT !["fwrite"] = @ \union {n}]
    IN  /\ main = "moving"
        /\ \/ /\ ~CopyEnds(pos, size)
              /\ \E k \in 0..can :
                    /\ SendFile("tmp", "fwrite", n, size, k)
                    /\ IF k < can THEN Short ELSE UNCHANGED failed
              /\ UNCHANGED <<lock, main>>
           \/ /\ ~CopyEnds(pos, size) /\ can > 0
              /\ Short
              /\ lock' = [lock EXCEPT !["fwrite"] = "free"]
              /\ main' = "idle" /\ pos' = 0
              /\ UNCHANGED fs
           \/ /\ CopyEnds(pos, size)
              /\ fs' = [fs EXCEPT !["tmp"][n] = Absent]
              /\ lock' = [lock EXCEPT !["fwrite"] = "free"]
              /\ main' = "idle" /\ pos' = 0
              /\ UNCHANGED failed
        /\ UNCHANGED <<sel, tmp, Transfer, ret, last, dirty, resp>>

\* The opening of a stream on fread_cache's data subindex and its first call:
\* is_file, then copy_file up to its fstat.  The temporary file is created or
\* truncated; when the selected file is the temporary file itself, that
\* empties it.  An open that fails refuses the read.
ReadOpen ==
    LET s == sel["fread"]
        found == s # None /\ FileOf("fread", s) # Absent
        cleared == [fs EXCEPT !["tmp"][s.name] = <<>>]
    IN  /\ main = "idle"
        /\ \/ ~found /\ Drop /\ UNCHANGED <<fs, tmp, pos>>
           \/ /\ found
              /\ fs' = cleared
              /\ tmp' = [tmp EXCEPT !["fread"] = s.name]
              /\ src' = cleared[DirOf("fread", s)][s.name]
              /\ offset' = 0 /\ length' = 0 /\ moved' = <<>>
              /\ ret' = "PARTIAL" /\ last' = "read" /\ dirty' = FALSE
              /\ pos' = 0 /\ main' = "copying"
           \/ /\ found
              /\ tmp' = [tmp EXCEPT !["fread"] = s.name]
              /\ Drop
              /\ UNCHANGED <<fs, pos>>
        /\ UNCHANGED <<sel, lock, failed, resp>>

\* The rest of copy_file, without the mutex of the cache it copies from.
ReadCopy ==
    LET s == sel["fread"]
        from == DirOf("fread", s)
        size == Len(src)
        can == Sendable(from, s.name, size)
    IN  /\ main = "copying"
        /\ \/ /\ ~CopyEnds(pos, size)
              /\ \E k \in 0..can :
                    /\ SendFile(from, "tmp", s.name, size, k)
                    /\ dirty' = (dirty \/ k < size \/ fs[from][s.name] # src
                                  \/ lock["fread"] = "responder"
                                  \/ (from = "fread" /\ s.name \in failed["fread"]))
              /\ UNCHANGED <<main, Transfer, ret, last>>
           \/ /\ ~CopyEnds(pos, size) /\ can > 0
              /\ Drop /\ pos' = 0
              /\ UNCHANGED fs
           \/ /\ CopyEnds(pos, size) /\ main' = "copied" /\ pos' = 0
              /\ UNCHANGED <<fs, Transfer, ret, last, dirty>>
        /\ UNCHANGED <<sel, tmp, lock, failed, resp>>

\* Mutant of ReadSource: later segments come from the selected file itself.
ReadSourceDirect == FileOf("fread", sel["fread"])

\* The file that od_ext_read_file reads: the copy in /tmp.
ReadSource == fs["tmp"][tmp["fread"]]

\* od_ext_read_file, one segment.
ReadData ==
    LET len == IF offset = 0 THEN Len(ReadSource) ELSE length
        seg == Segment(offset, len, BlocksPerCall)
    IN  /\ main \in {"copied", "read"}
        /\ \/ offset = 0 /\ len = 0 /\ Drop
           \/ /\ ~(offset = 0 /\ len = 0)
              /\ length' = len
              /\ moved' = moved \o Part(ReadSource, offset, seg.n)
              /\ offset' = seg.off
              /\ ret' = seg.ret
              /\ main' = IF seg.ret = "PARTIAL" THEN "read" ELSE "idle"
              /\ UNCHANGED <<src, last, dirty>>
        /\ UNCHANGED <<fs, sel, tmp, lock, pos, failed, resp>>

\* Writing the remove subindex.  The test of line 232 is on the buffer's
\* address, so the value is not looked at: writing false removes too.  The
\* cache's file of that base name goes, whatever directory was selected.
\* Without a selection the write does nothing.
Remove(e) ==
    /\ main = "idle"
    /\ lock[e] = "free"
    /\ sel[e] # None
    /\ fs' = [d \in Dir |-> [n \in Name |->
                 IF \/ d = e /\ n = sel[e].name
                    \/ d = "tmp" /\ n = tmp[e] THEN Absent ELSE fs[d][n]]]
    /\ sel' = [sel EXCEPT ![e] = None]
    /\ tmp' = [tmp EXCEPT ![e] = None]
    /\ ret' = "none" /\ last' = "none"
    /\ failed' = [failed EXCEPT ![e] = @ \ {sel[e].name}]
    /\ Forget
    /\ UNCHANGED <<lock, main, pos, resp>>

\* Reading the files_json subindex: the names between brackets, a block each.
\* readdir gives the same names in the same order.
Listed(names) == CHOOSE s \in Bijection(1..Cardinality(names), names) : TRUE
ListOf(e) == <<"[">> \o Listed({n \in Name : fs[e][n] # Absent}) \o <<"]">>
Listing == [e \in Ext |-> IF e = "fread" THEN "list_fread" ELSE "list_fwrite"]

\* One segment, from offset off on, of a read that found the list first when it
\* began and has moved sent so far.  fcache_list_files_as_json makes the list
\* anew, under the mutex.  When opendir fails it returns NULL with the mutex
\* locked, and the read is answered ODR_OK without any further data.
ListSegment(e, off, first, sent) ==
    LET list == ListOf(e)
        seg == Segment(off, Len(list), BlocksPerCall)
    IN  /\ lock[e] = "free"
        /\ \/ /\ length' = Len(first) /\ src' = first
              /\ moved' = sent \o Part(list, off, seg.n)
              /\ offset' = seg.off
              /\ ret' = seg.ret
              /\ dirty' = (list # first \/ (off > 0 /\ dirty))
              /\ main' = IF seg.ret = "PARTIAL" THEN Listing[e] ELSE "idle"
              /\ UNCHANGED lock
           \/ /\ lock' = [lock EXCEPT ![e] = "leaked"]
              /\ length' = Len(first) /\ src' = first
              /\ moved' = sent /\ offset' = off
              /\ ret' = "OK"
              /\ dirty' = (off > 0 /\ dirty)
              /\ main' = "idle"
        /\ last' = Listing[e]
        /\ UNCHANGED <<fs, sel, tmp, pos, failed, resp>>

\* The first segment, together with the opening of the stream, and the others.
BeginList(e) == main = "idle" /\ ListSegment(e, 0, ListOf(e), <<>>)
ListFiles(e) == main = Listing[e] /\ ListSegment(e, offset, src, moved)

Main ==
    \/ \E e \in Ext : \E s \in Chosen[e] : WriteName(e, s)
    \/ \E c \in Content : BeginWrite(c)
    \/ Abort
    \/ WriteData \/ WriteEnd \/ MoveFile
    \/ ReadOpen \/ ReadCopy \/ ReadData
    \/ \E e \in Ext : Remove(e)
    \/ \E e \in Ext : BeginList(e) \/ ListFiles(e)

-----------------------------------------------------------------------------
(* The responder thread: fcache_add(fread_cache, path, false).             *)

AddFile(n) ==
    /\ resp = Idle
    /\ resp' = [pc |-> "lock", name |-> n]
    /\ UNCHANGED <<fs, sel, tmp, lock, main, Transfer, ret, last, pos, dirty, failed>>

\* The mutex, then copy_file up to its fstat, which finds c in the application's
\* file: the open of the destination truncates an older file.  Nothing keeps
\* the application from emptying its file before sendfile reads it, avail being
\* what is there then.
AddLock(c, avail) ==
    /\ resp.pc = "lock"
    /\ lock["fread"] = "free"
    /\ lock' = [lock EXCEPT !["fread"] = "responder"]
    /\ fs' = [fs EXCEPT !["fread"][resp.name] = <<>>]
    /\ resp' = [pc |-> "copy", name |-> resp.name, content |-> c, avail |-> avail,
                pos |-> 0, sent |-> 0]
    /\ UNCHANGED <<sel, tmp, main, Transfer, ret, last, pos, dirty, failed>>

\* The source or the destination cannot be opened: nothing is touched.
AddRefused ==
    /\ resp.pc = "lock"
    /\ lock["fread"] = "free"
    /\ resp' = Idle
    /\ UNCHANGED <<fs, sel, tmp, lock, main, Transfer, ret, last, pos, dirty, failed>>

\* sendfile's progress within one call, which the main thread can see block by
\* block.
AddCopy ==
    LET at == resp.pos + resp.sent
        done == fs["fread"][resp.name]
    IN  /\ resp.pc = "copy"
        /\ at < resp.avail
        /\ fs' = [fs EXCEPT !["fread"][resp.name] = Append(done, resp.content[at + 1])]
        /\ resp' = [resp EXCEPT !.sent = @ + 1]
        /\ UNCHANGED <<sel, tmp, lock, main, Transfer, ret, last, pos, dirty, failed>>

\* Mutant of Unlocked: the mutex is not given back.
UnlockForgotten == lock

\* pthread_mutex_unlock at the end of fcache_add.
Unlocked == [lock EXCEPT !["fread"] = "free"]

\* fcache_add returns, with the file complete or not.
AddUnlock ==
    /\ failed' = [failed EXCEPT !["fread"] =
                     IF fs["fread"][resp.name] = resp.content
                     THEN @ \ {resp.name} ELSE @ \union {resp.name}]
    /\ lock' = Unlocked
    /\ resp' = Idle

\* sendfile returns with what it has moved, and the loop's offset counts it
\* twice; or it fails.  When there is nothing for it to move it returns zero,
\* and the loop spins with the mutex held.
AddReturn ==
    LET p == resp.pos + 2 * resp.sent
    IN  /\ resp.pc = "copy"
        /\ \/ resp.sent = 0 /\ resp.pos < resp.avail /\ AddUnlock
           \/ resp.sent > 0 /\ CopyEnds(p, Len(resp.content)) /\ AddUnlock
           \/ /\ resp.sent > 0 /\ ~CopyEnds(p, Len(resp.content))
              /\ resp' = [resp EXCEPT !.pos = p, !.sent = 0]
              /\ UNCHANGED <<lock, failed>>
        /\ UNCHANGED <<fs, sel, tmp, main, Transfer, ret, last, pos, dirty>>

Responder ==
    \/ \E n \in Name : AddFile(n)
    \/ \E c \in Content : \E avail \in {0, Len(c)} : AddLock(c, avail)
    \/ AddRefused \/ AddCopy \/ AddReturn

Next == Main \/ Responder

\* The responder's steps, and the turns of the main thread's copy, are those of
\* running threads.  A mutex that is free over and over is taken in the end,
\* which is strong fairness of AddLock.
Fairness ==
    /\ WF_vars(AddCopy \/ AddReturn)
    /\ SF_vars(\E c \in Content : \E avail \in {0, Len(c)} : AddLock(c, avail))
    /\ WF_vars(ReadCopy)

Spec == Init /\ [][Next]_vars /\ Fairness

-----------------------------------------------------------------------------
(* Properties.                                                             *)

\* The variables stay in their types, and a file never grows past what the
\* skipping copies of one transfer can make of it.
TypeOK ==
    /\ \A d \in Dir, n \in Name :
          fs[d][n] = Absent \/ \E c \in Content : Len(fs[d][n]) <= 2 * Len(c)
    /\ sel \in [Ext -> Selection \union {None}]
    /\ tmp \in [Ext -> Name \union {None}]
    /\ lock \in [Ext -> {"free", "main", "responder", "leaked"}]
    /\ main \in {"idle", "write", "adding", "moving", "read", "copying", "copied",
                 "list_fread", "list_fwrite"}
    /\ offset \in Nat /\ length \in Nat /\ pos \in Nat
    /\ ret \in ODR \union {"none"}
    /\ dirty \in BOOLEAN
    /\ failed \in [Ext -> SUBSET Name]

\* However transfers are cut, aborted and repeated, and whatever the responder
\* does, a cache whose mutex nobody holds has complete files only, except those
\* that a full disk cut on their way into it (a copy, or a segment of a write)
\* and that have not been repeated or removed since.
\* This is what the detour through /tmp and the mutex are for.
CacheComplete ==
    \A e \in Ext : lock[e] \in {"free", "leaked"} =>
        \A n \in Name \ failed[e] : fs[e][n] \in Content \union {Absent}

\* The client is told that its write succeeded before anyone looks at whether
\* the file reached the cache.  A file written under a bare name did, whole and
\* with the temporary file gone, over any history of aborted and repeated
\* transfers, unless the disk failed: and then the temporary file is still
\* whole, or gone with whatever was copied (the doubled offset hides a short
\* copy), never a part of what was sent.  Nothing is claimed for an absolute
\* path, to which the code never delivers (line 217), and for a segment that
\* fwrite did not store, which the code does not look at.
WriteDelivered ==
    LET n == sel["fwrite"].name
        kept == fs["fwrite"][n]
        left == fs["tmp"][n]
    IN  main = "idle" /\ last = "write" /\ ret = "OK" /\ ~dirty
        /\ sel["fwrite"].dir = "cache" =>
            IF n \in failed["fwrite"] THEN left \in {src, Absent}
            ELSE kept = src /\ left = Absent

\* A read that ends with ODR_OK hands out one version of the file, the one
\* selected when it began: files the responder adds under the same name between
\* two segments do not show, unless they were being copied at the very moment
\* of the unlocked copy to /tmp, or a copy fell short.  A list of files, which
\* is not copied but made anew for every segment, is one of the cache as it was
\* when the read began, unless a file came into the cache before it ended; when
\* it is not, because opendir failed and the client was told ODR_OK over a list
\* cut short, the cache's mutex is left locked for good.
ReadSnapshot ==
    main = "idle" /\ ret = "OK" /\ ~dirty =>
        /\ last = "read" => moved = src /\ moved \in Content
        /\ \A e \in Ext : last = Listing[e] => moved = src \/ lock[e] = "leaked"

\* fcache_add comes back to the responder, which answers no other client
\* meanwhile, with the file in the cache or not.  It does not in the two cases
\* in which the code hangs: a listing has left the mutex locked for good, or
\* the application's file became shorter than fstat found it, and the copy
\* spins.
AddCompletes ==
    (resp # Idle) ~>
        \/ resp = Idle \/ lock["fread"] = "leaked"
        \/ resp.pc = "copy" /\ resp.avail < Len(resp.content)

\* The copy that starts a read ends, unless the file has become shorter than
\* fstat found it: then sendfile moves nothing and the main thread spins.
ReadCopyEnds ==
    (main = "copying") ~>
        (main # "copying" \/ Len(FileOf("fread", sel["fread"])) < Len(src))
=============================================================================

# oresat-cand in TLA+

A verification project for `oresat-cand`, the CAN daemon of the OreSat cards: a
CANopen node with a few vendor objects, which applications on the same card
reach over ZeroMQ. The modules model the parts where threads, partial transfers,
lost connections and failing steps meet, and the building of the object dictionary
that all of them work on; TLC checks them on small instances, two of them against
abstract specifications of what they promise, and TLAPS proves all their safety
properties, and both refinements, for every value of the constants.

## The system

| Part | State | Operations | Module |
|---|---|---|---|
| `od_ext.c` helpers | stream offset and length, C array, file, `FILE*` | `od_ext_read_data`, `od_ext_write_data`, `od_ext_read_file`, `od_ext_write_file` | `OdExt`, `OdTransfer` |
| OS command object (0x1023) | `status`, `command`, `reply`, `running`, a worker thread | write, read, worker loop, `run_bash_command`, free | `OsCommand`, abstractly `CommandObject` |
| file transfer objects (0x3004, 0x3005), `fcache.c`, `copy_file`, `move_file` | two cache directories with a mutex each, `/tmp`, the selected file | select, read, write, list, remove; `fcache_add` by the responder | `FileTransfer` |
| IPC responder | ROUTER socket, one request at a time | receive, dispatch, serve, answer | `IpcRespond` |
| OD writes over IPC | the entry, the applications' cached values, the counter of clients | `ipc_broadcast_data`, `ipc_consume_od_write`, `od_write`, resend after a connection | `IpcOd` |
| broadcasts and bus requests | counter of clients, queues, `_bus_state`, `_connected`, `sendRequest` | heartbeat, emergency and bus state broadcasts; TPDO, EMCY and SYNC requests | `IpcBus` |
| SDO client | CANopenNode's FIFO, offset, caller's buffer or file | `sdo_read_dynamic`, `sdo_read`, `sdo_read_to_file`, `sdo_write`, `sdo_write_from_file` | `SdoClient`, abstractly `SdoTransfer` |
| life cycle (`main.c`, `ipc.c`) | `CO_endProgram`, reset command, four threads, the OS command's worker, sockets, exit status | start, communication loop, resets, end, joins, frees; the supervisor | `Daemon` |
| configuration (`load_configs.c`, `config.c`, parts of `main.c`) | node settings, the object dictionary built at start | `od_config_load` row by row, `od_config_free`, `fix_cob_ids`, `fill_config` | `OdConfig` |
| value conversions (`str2buf.c`) | none | text to number, boolean, string or bytes | `Str2Buf` |
| `ecss_time*.c`, `system_ext.c`, `logger.c`, scripts, Python entry encodings | none or trivial | conversions and I/O | none |

How they interact. The daemon's **main thread** runs the CANopen stack; its SDO
server calls the extensions, once per segment of a client's transfer, and its
callbacks publish heartbeats, emergencies and the bus state. The **rt thread**
processes SYNC and PDOs. The **responder** thread serves requests (SDO transfers
to other nodes through `SdoClient`, files into the fread cache), the
**consumer** thread takes what applications publish (OD writes, TPDO, EMCY, SYNC
and configurations), and the **broadcaster** thread counts connections. The OS
command object has a worker thread of its own. Applications run the Python
`NodeClient` with a consumer thread and a thread that follows the connection.

What is hard here:

* transfers in segments, aborted between any two of them, over state that
  outlives the transfer (`fp`, `raw`, `tmp_file_path`, the command array);
* data shared by threads without a lock (`status`, `command`, `reply`, the cached
  file that `file_transfer_read` copies, the counter of clients, the OD);
* connections that come and go while messages, answers and connection events are
  under way, each with its own delay;
* steps that fail half way (copies, thread creation, SDO transfers) and whose
  failure is told to somebody, or not;
* resets, the end of the program, and the exit status that the supervisor sees;
* a list that is sized by one number of the file, grown and shrunk by others, mixed
  from static and allocated objects, and freed after a failure at any row.

`PROJECT.json` lists the hazards at their lines, each with the properties that
would catch it.

## Modules

Every module says in its header what it models and what it takes as external:
CANopenNode (an empty submodule in the repository), ZeroMQ, the shell and Linux,
each as the code uses it. An action is one function, or one turn or step of it
where another thread can come in between. Definitions keep the names of the code
where they stand for a function. Variables called history in the comments record
what happened for a property and guide nothing.

**OdExt** holds the return codes and the arithmetic of one segment, used by the
three modules of extensions.

**OdTransfer**: one object, its four helpers and the SDO server's calls. A
transfer is opened, moved by calls with any buffer size up to `BufLen`, and ends
by success, refusal or abort. The owner of a file may replace or remove it
between transfers. An `fwrite` may store less than it is given; as in the code nobody
looks, and `lost` counts the bytes. A `memcpy` behind the end of the array shows as
elements that the array does not have (`OdExt!Overwrite`), so that the type invariant is
broken by a bounds check that lets it happen.

**OsCommand**: the server's calls against the worker, whose steps are split
wherever shared data is touched: poll, take, each byte of output, status,
terminator. `Output` and `Hangs` give what a shell prints and which commands
never end. It is shown to implement **CommandObject**, which has two steps: a whole
command is accepted, and the execution ends with its answer in place. The mapping
(`Abstract`): `command` counts only while EXECUTING, and `reply` only outside of it,
where it is the terminated string in the array; meanwhile the abstract reply is that
of the last command.

**FileTransfer**: both objects over four directories. `copy_file` is a loop of
`SendFile` steps with the doubled offset of the code and short or failing
`sendfile` calls; the responder's `fcache_add` runs beside the main thread, under
the mutex that `file_transfer_read` does not take, with the same loop block by block
(`AddCopy`, `AddReturn`): it can fall short silently, and spins when the application's file
became shorter. A segment of a write that the disk did not take makes it `dirty`. The list
of files is read in segments too, each from a list made anew, in which the names stand in
the order in which `readdir` finds them (`Listed`, an arbitrary one); when `opendir` fails
the read is answered `ODR_OK` with what it has, and the mutex stays locked. The name that
selects a file arrives in one call, as it does when it fits the SDO server's buffer. Which
code a refused transfer ends with is left out.

**IpcRespond**: clients with one outstanding request, the daemon's thread, and
restarts of clients. A request is its version, id, length class and value; a reply its
version, id, the length field of its data and the data. Where the two sides lay a message
out differently, each reads what its own layout says: the answer to an SDO read carries
its data behind a length of zero and is unpacked as empty, a file request is read with
index, subindex and path from other bytes than the client packed and may hit any object,
and so is the path of `add_file`. `fate` and `moved` record how far the transfer of a
client's request got and what it carried, `phase` "hung" an `fcache_add` that does not return.

**IpcOd**: one OD entry and its cached copies. The two threads of the daemon that write
the entry each write and then publish, as two steps. So do two threads of each
application: `od_write` sets the cache and then sends, the monitor thread reads the cache
and then sends it after a connection (`sending`), and the consume thread may change the cache
in between (`stale`). `Silent` values are those that `ipc_broadcast_data` does not publish for
their length. `crossed` and `raced` record the ways in which agreement is lost: an unechoed
write that met another value anywhere between the cache and the entry, and two threads
publishing in the other order than they wrote. The property says that there are no more.

**IpcBus**: broadcasts through queues that drop, the counter that suppresses
them, and the application's two threads. The length checks of `ipc_consume.c` are
applied to the lengths `message.py` packs, so EMCY_SEND and SYNC_SEND change
nothing in the daemon. A node whose heartbeat is overdue is published as UNKNOWN,
which the application's `NodeState` refuses (`Decodes`).

**SdoClient**: the five functions as turns of their loops over the FIFO. The
source of refills runs past the data, as in the code. They are shown to implement
**SdoTransfer**, what a caller is promised: an outcome, and with a success exactly the
data on the other side. `sdo_read_to_file` promises less, as it ignores the result of
`fwrite`: bytes may be `missing` (`Unchecked`). `IpcRespond` takes the outcomes of its transfers from there.

**Daemon**: `main` from start to exit, the four threads, the start and the join of the
OS command's worker, signals, resets, the CONFIG message and systemd's `Restart=on-failure`, in
both roles of the node (`manager`). A step that fails is reported by the exit status
(`SetupFails`, `InitFails`), or is not, where the code only logs it: an od configuration that
cannot be loaded (`conf`), sockets that could not be made (`sockets` "none"), a copy of a new
configuration that breaks off (`NewConfigTorn`, `file` "torn"). What may never return is in the
model as well: a receiver whose socket is closed under it (`RecvStuck`), a message handler
(`HandlerStuck`), a file transfer in the main thread (`Hang`), the shell of the worker
(`WorkerHangs`), and the worker that sets `running` only after the free has cleared it.
`told` records who has told the daemon to end. `DaemonInit`, `DaemonSpec` and the like are
named after it, since its proofs stand in one module with those of its responder thread.

**OdConfig**: a start of the daemon from the node settings to the PDO counts, and its
end. The configuration file is not a constant: the model chooses each line when it is
read, so that one run covers every file of the bounded size. A row is its object
type, index, subindex, number of subindices, data type and the text of its default;
an entry is a sequence of cells with subindex and value, where values that were
never written are told apart. The list is the sequence of entries written; what lies
behind it in the `malloc`ed memory is uninitialized, and `od_config_free`, which looks
for an entry with index 0, stops there or not (`zero`). `default` is what the buffer of
the default value keeps from row to row, reduced to the parity of its length, which
is all that `str2buf_bytes` refuses by. CANopenNode's two lookups are external:
`OD_find` is the binary search, `Search` one turn of it, and `FirstSub` the first cell
with a subindex. `freed` is the set of pointers that `od_config_free` has given back:
`FreedOf` those of one object, which are not all that `Held` it.

**Str2Buf**: the conversions as operators on such texts, with the widths of the types
and of `long` as constants. A number has a `form`: `get_str_base` takes the base from the
first two characters, so that `0X10` and `-0x10` are read as 0, and `str2buf_bool` compares
text, so that only a plain 1 or 0 is a boolean.

**MC...** modules give the constants of each run.

## Runs

| Run | Shows | Bounds |
|---|---|---|
| `od_transfer` | transfers are exact however cut and aborted; the `FILE*` bookkeeping | array of 3, buffer of 2, two bytes: transfers of one, two and three calls, exact fits and refusals |
| `os_command` | refinement of `CommandObject`; only accepted commands run; replies are read in whole; commands complete, free returns | arrays of 4, buffer of 2: commands and replies of several segments; an empty, a failing, a hanging and a long command, and output with a NUL in it |
| `os_command_overrun` | violation: the terminator one past the reply array | the same, with a reply array the output fills |
| `file_transfer` | caches hold complete files; files written under a bare name are in the cache, or after a failure of the disk whole in `/tmp` or gone, never in part; reads of files and of the list are one version, or the mutex is leaked; adds and copies end | one name in every directory, read by bare names, written by names and by both kinds of paths, contents of one and of two blocks: transfers of several calls, copies cut before, within and after |
| `ipc_respond` | own answers; SDO answers say whether a transfer was begun and carried out; every accepted request is answered unless `fcache_add` hangs | two clients, one of which restarts; a request for each handler, each length class, a wrong version and an unknown id |
| `ipc_od` | the counter is exact, applications and OD agree | two applications, one with a callback, three writes, two connections, one value that no message holds, counter modulo 4 |
| `ipc_bus` | bus state and heartbeats as the applications see them | one application connecting twice, queue of two, two pieces of news |
| `daemon` | exclusive resets, safe frees, never down with success unless told to, termination | one reset, two runs, both roles |
| `daemon_config` | violation: a new configuration is never loaded | no reset, two runs |
| `sdo_client` | refinement of `SdoTransfer` (exact transfers, no refusal of what fits), termination | FIFO of 3, buffer of 2, objects of 0, 1, 2, 3 and 5 bytes, timeout of 3 turns |
| `od_config` | the merged list is sorted, complete and of the counted size; numbers are at their subindex; the free gives back all but what it is known to leak, and nothing static; PDOs are found, counted and have distinct COB-IDs | an internal dictionary of three objects, files of up to three objects out of 29 rows, every announced number of objects from 0 to 3, two starts, node ids 1 and 0x7C |
| `od_config_defaults` | violation: strings and array elements without their defaults | the same |

The bounds reach every case the code tells apart: data shorter than, equal to and
longer than each buffer; an operation before, between and after the steps of
each other thread; a second connection while traces of the first are under way;
a file that has fewer, as many and more objects than it says,
before, at and behind the internal ones, with a row that fails at any place; numbers at
and next to the limits of their types (8 and 16 bits as they are; 32 and 64 bits are
represented by 18 and 20, which TLC can count). Every property has a mutant of the modelled code that
violates it (`PROJECT.json`). Three cases are reached by proofs only: files read by
absolute paths (`Chosen` of `MCFileTransfer`; liveness is costly there), the wrap of the client
counter, for which the runs have too few clients (`IpcOdProofs!Counter` has any number), and
a second turn of a copy that moves something, for which their files are too short
(`FileTransferProofs` has any length).

Deadlock is checked where the system never stops (`od_transfer`, `sdo_client`,
`ipc_bus`). It is off where it may: a leaked mutex, an unanswered client, a
receiver stuck on a closed socket, an exited daemon, an exhausted bound.

### Fairness

* Threads run: weak fairness of the worker, the responder, the consumer, the
  broadcaster, the applications' threads and `main`, whose loops only wait for
  what the models show. Nothing is asked of clients, applications or the bus.
* `FileTransfer`: strong fairness of taking a mutex that is free again and again
  (`AddLock`); the main thread holds it only for single calls.
* `IpcBus`: strong fairness of a bus check that is not in vain: the check recurs
  every `BUS_CHECK_INTERVAL_S`, and the queue is not full at every one of them.
* `SdoClient`: weak fairness of turns in which the bus moves nothing and of the
  timeout, so that termination does not rest on the remote node.
* Nothing is assumed of what the code may wait for in vain: a shell in `Hangs` need not
  end, a receiver may stay stuck on a closed socket, `fcache_add` may wait for a leaked mutex
  or spin, and the worker may start after its free. The liveness properties name these as
  their exceptions (`Hangs` of `Daemon` lists those of the whole process); no fairness
  makes one of them happen either.

### What the violations show

1. `run_bash_command` writes its terminator at `out[out_max_len]` when the
   output is too long (`system.c:69-75`).
2. After "resetting app to load new config" the daemon exits with success and is
   not restarted (`ipc_consume.c:157`, `oresat-cand.service`).
3. An octet string without default gets what earlier rows left in the buffer
   (`strncpy` for `strncmp`, `load_configs.c:662`), and the elements of an array are
   stored one place too far (`load_configs.c:521` and `:553`).

Further disagreements that the models contain as behaviour, without a run of their own:
the remove subindex tests the pointer to the value, so false removes too
(`file_transfer_ext.c:232` against `od.yaml:161`); `ipc_respond_add_file` tests the result
of `fcache_add` the wrong way round (`ipc_respond.c:234`); any `NetworkManager` key makes
the node the manager (`load_configs.c:156`), the one of the default settings included;
a file written under an absolute path is never delivered, as the test for `/tmp` is inverted
(`file_transfer_ext.c:217` against the comment in lines 20-22 and the `dest` argument of
`scripts/fwrite_main.c`), and one to its place in `/tmp` is lost; what `fwrite` returns is ignored
(`od_ext.c:253`, `sdo_client.c:224`), so success is told of data that the disk did not take; the
answer to an SDO read is unpacked as empty (`ipc_respond.c:180-182` against `message.py:56-58`)
and the file requests are packed without the fields of `ipc_msg_sdo_file_t`
(`message.py:155-168` against `ipc_msg.h:92-98`); a list of files that cannot be made is answered
`ODR_OK` with the mutex left locked (`fcache.c:170-173`, `file_transfer_ext.c:140-144`);
`od_config_free` leaks the structures of variables and arrays and the strings of string arrays
(`load_configs.c:396-408`).

Where a property has an exception in its statement, the exception is a behaviour of the
code that the models reach, and the hazard at its line says so: a torn copy or a lost
segment (`dirty`, `lost`), a copy that fell short (`failed`), an absolute path, a leaked
mutex, a source that shrank, a header that is dropped, `crossed` and `raced`, `late`, `missed`, a
heartbeat that does not decode, a carrier file that cannot be read, an object larger than
`sdo_read`'s buffer, a list with wrong counts or without an entry behind the PDOs, and the
hangs above. Such a property does not catch that hazard, which is there; it says that
nothing else goes wrong in its place, and what still holds when it does.

## Proofs

Eight modules named `...Proofs` hold the theorems: one for each component, and one for
the daemon together with its responder thread. Each component has the same shape: an
inductive invariant `IInv` (`DaemonInv`), which TLC has checked on the instance of the
component's run before it was proved; a lemma or a step for the initial states; one lemma
per action; `Inductive` (or `Invariance`), that the specification keeps `IInv`; and the
theorems, which follow from it. Every invariant that a passing run checks is a theorem. The
constants are arbitrary but for the assumptions named in the modules, which TLC evaluates
on every run: positive lengths, payloads and objects that are sequences of bytes, files
that are non-empty sequences of blocks under finitely many names, special values
(`None`, `Garbage`, `Absent`) that are no ordinary ones, and what is said below.

**OdTransferProofs** (`TypeCorrect`, `ReadsAreExact`, `WritesAreExact`,
`HandlesAreDisciplined`). `ReadExact` and `WriteExact` speak of finished transfers only,
so they say nothing of the step that finishes one: `Progress` adds what holds between
two calls, namely that the bytes moved are those before `dataOffset` and, in a write,
that they are stored already or counted as lost; `HandleDiscipline` adds where `fp` stands. A
step then needs that appending the next segment of a sequence to a prefix gives the
longer prefix (`Extend`), that a whole prefix is the sequence (`Prefix`), and that an
array is a sequence of its length (`ArrayIsSeq`).

**DaemonProofs**, of the process (`DaemonTypeCorrect`, `ResetsAreExclusive`, `FreesAreAlone`,
`DownOnlyAsTold`), for any number of resets and runs. `Threads` says that threads
exist only once the first pass has created them, each one once, and that `CANnormal` is
clear from the head of the loop to normal mode: without that, nothing keeps the rt
thread from entering its work after main has let go of the lock. `Joins` says which
threads main has joined so far, the worker last, which is what `FreedAlone` needs at the
free. `Orderly` says that the loop is left only when somebody has told the daemon to end or
the exit status is the failure, on every path of failing steps and resets.

**DaemonProofs**, of the responder thread (`TypeCorrect`, `Correlation`, `SdoAnswers`), for any
number of clients, requests and restarts. `OnePerRoute` says that a route has at most one
message in the inbox, in the responder's hands and in the outbox together; `Views` that the
one on a client's current route is about the request it waits for and that its answer says
what has become of that: not begun, begun, or carried out with this data. Messages on older routes were overtaken by a restart, and ROUTER drops them.

**OsCommandProofs** (`TypeCorrect`, `CommandIsolation`, `ReplyIntegrity`, `Refinement`), for
every length of the two arrays. `TypeCorrect` includes that no payload and no terminator is
stored behind the command array, which rests on the length check (`Room`) and on the
progress of the segments. The data race is harmless because of who owns what:
`Execution` says for each place of the worker what `reply` holds (the first bytes of the
output while it is drained, the terminated output from there on, and that the late
terminator rewrites a NUL), and that `command` stands still while EXECUTING;
`WriteProgress` and `ReadProgress` follow a client's segments. `Refinement` shows each step
to be one of `CommandObject` or a stutter under the mapping `Abstract`. What the string in an
array is, is found at its first NUL (`LeastNat`), with no induction. The outputs of the
shell are assumed to be sequences of bytes (`OutputAssumption`).

**SdoClientProofs** (`TypeCorrect`, `Refinement`), for every size of object, FIFO, buffer and
segment. Refills run past the end of the data, so what has been received cannot be
described by the data alone: `DownloadProgress` says that what the node has received and
what is in the FIFO are consecutive parts of one `Stream`, the data followed by garbage;
`UploadProgress` says that a caller who takes everything leaves the FIFO empty after
every turn, with each byte in its place or among those the disk lost. `Refinement` shows each turn of the five loops to be a step of `SdoTransfer` or
a stutter.

**FileTransferProofs** (`TypeCorrect`, `CachesAreComplete`, `WritesAreDelivered`,
`ReadsAreSnapshots`), for any names, blocks and contents. The properties speak of the moments
when nobody holds a mutex and no transfer is under way; the invariant says what happens
in between:

* `Locks`: the mutex of the fwrite cache is held exactly during a move, that of the fread
  cache exactly during the responder's copy.
* `Caches`: `CacheComplete`, with the one file that is being copied as the exception, and the
  directory that is not the daemon's as it was.
* `Adding`: the offset of the responder's copy is ahead of what is in the file.
* `Writing`: the segments that have been written are a prefix of what the client sends and,
  unless the write is `dirty`, all of `/tmp/<name>`, also over what an aborted write left
  there; then the temporary file stays whole until the move has ended. During the move only lengths are known in general
  (`pos` is twice the blocks copied); but as long as no copy has fallen short, the
  destination is empty or the whole file. This is the argument for the doubled offset: after
  a first turn that moves everything it is past the end, and any other turn is short
  (`CopyTurn`).
* `Reading`: the same for the unlocked copy of a read: if it is not `dirty`, it is empty or
  one complete version. The segments are then a prefix of the copy, which only the main
  thread can touch. A selected file that is the temporary file itself has been emptied by
  the open, and nothing is copied.
* `Lists`: while every list made anew was the first one, the segments are a prefix of it;
  one that could not be made leaves the mutex leaked.

That a step adds the right blocks rests on one fact about sequences (`FirstExtends`: the first
`k` elements and the next `n` are the first `k + n`) and on the arithmetic of one call
(`Segments`).

**IpcOdProofs** (`TypeCorrect`, `Counter`, `Settling`), for any number of applications,
connections and writes and every width of the counter. `CounterExact` is inductive with
the types, given that remainders add up (`Remainder` and the lemmas behind it). For
`CachesSettle` the invariant speaks of the value an application *will* cache once it has
consumed what is on its way: `Fresh` of what an application's threads are about to send,
`OwnWrites` of those whose own write has not arrived, `Publications` of the value a thread of
the daemon has written and not yet published, `Agreement` that otherwise all are the same,
and `Faithful` that they are the entry's.

**IpcBusProofs** (`TypeCorrect`, `LossNoticed`, `NodeKnown`), for any number of applications and
any queue length. `Alternation` says that the events of a connection alternate and lead
from what the application believes to what is the case, so it never handles a loss while
it believes itself unconnected; `Heartbeats` that for whoever was sent the node's last
change, the last heartbeat in its queue tells it.

**OdConfigProofs** (`TypeCorrect`, `MergeIsExact`, `DefaultsAreKept`, `FreesAreExact`,
`PdosAreConfigured`), for every sorted internal dictionary, every sorted file and every node
id of 8 bits. Its invariant has these parts:

* `Balance`: the room left in the list, `size - Len(list)`, is what the file has announced
  and not brought plus the internal entries still to be copied. It is why the unsigned
  `size` never falls below zero, and why a file with as many objects as announced leaves
  no uninitialized entry.
* `Sides`: the merge. What has come from either side is below what is next on it, and
  the indices of the list are exactly those that have come.
* `Frees`, and that the entries `od_config_free` takes for internal ones by their index are
  those that are (also in `Sides`); with what each type of object holds and leaks, this is
  `FreeExact`.
* `Values_` and `Current`: each row taken into account has its value in the first cell
  with its subindex; the cells of the record being filled are in the order of their
  subindices, so that a later row hides none of them.
* `InUse`: after `fix_cob_ids` no COB-ID is left at its default.

Two facts about algorithms come with it. `FindExact`: the binary search finds every
entry of a sorted list, by a least counterexample over the width of the interval, with
one turn of the search (`SearchTurn`) as its step. `DefaultCobIdDistinct`: the COB-IDs of all
1024 PDOs are distinct although the blocks of 256 overlap. `Str2Buf` enters through the
range of each conversion: a value that fits is stored as it is, and one that does not
fit 8 or 16 bits is refused.

Only model-checked:

* all liveness, as the prover has neither fairness nor ENABLED: `CommandCompletes`,
  `FreeReturns`, `AddCompletes`, `ReadCopyEnds`, `AcceptedIsAnswered`, `BusStateSettles`, `Stops`
  and `TransferEnds`;
* the three violations.

## Not modelled

* ECSS time: conversions between the clock and two formats, without state of their own.
* The system object: reads of `/proc` and the clock, and a reboot command.
* Logging, command line scripts, and the value encodings of the Python entries.
* Within `OdConfig`: where the configuration files are looked for, failing `malloc`s,
  lines with missing or extra fields, unsorted files, access attributes (`strncpy` for
  `strncmp` again: every object is read-write), and the counts of `fill_config` that
  are one lookup each.
* Within `FileTransfer`: the characters of the list, its growing buffer and hard limit, and
  a name that comes in several segments.
* The wire formats of the messages beyond the fields named above. Messages longer than `IPC_MSG_MAX_LEN`, values that `OD_set_value` refuses, the use of
  one PUB socket by several threads (taken as atomic sends), and what the responder
  and the consumer see of the stack while it is re-initialized.

## Plan

Proofs: what is left is liveness, which the prover cannot state.

Models: the remaining wire formats of `message.py` against `ipc_msg.h`, and `IpcRespond` with
the detailed `SdoClient` in the place of `SdoTransfer`.

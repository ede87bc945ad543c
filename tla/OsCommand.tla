----------------------------- MODULE OsCommand -----------------------------
(***************************************************************************)
(* The OS command object (CiA 301 object 0x1023) of                        *)
(* src/od_extensions/os_command_ext.c.                                     *)
(*                                                                         *)
(* Two threads share status, command and reply without a lock.  The main   *)
(* thread runs the SDO server, which calls os_command_write and            *)
(* os_command_read once per segment of the client's transfers.  The worker *)
(* os_command_thread polls status every 250 ms, and when it finds          *)
(* EXECUTING gives command to a shell and copies the shell's output into   *)
(* reply byte by byte (run_bash_command of src/common/system.c).           *)
(*                                                                         *)
(* What the shell prints is external: Output(s) is the output of the       *)
(* command s, or Failed when popen fails; the commands in Hangs print      *)
(* their output and then never end.                                        *)
(***************************************************************************)
EXTENDS OdExt, FiniteSets

CONSTANTS
    Byte,        \* the bytes told apart
    NUL,         \* the string terminator, one of them
    CommandLen,  \* COMMAND_BUFFER_LEN
    ReplyLen,    \* REPLY_BUFFER_LEN
    BufLen,      \* size of the SDO server's buffer
    Payload,     \* what a client may write to the command subindex
    Failed,      \* the outcome of a failed popen
    Hangs,       \* the command strings whose shell never ends
    Output(_)    \* what the shell prints for a command string

ASSUME ByteAssumption == NUL \in Byte
ASSUME LengthAssumption ==
    /\ CommandLen \in Nat \ {0} /\ ReplyLen \in Nat \ {0} /\ BufLen \in Nat \ {0}
ASSUME CommandPayloadAssumption == Payload \subseteq Seq(Byte) \ {<<>>}

VARIABLES
    status,    \* the object's status subindex
    command,   \* the command array
    reply,     \* the reply array
    overrun,   \* a byte has been written past the end of reply
    running,   \* the worker's loop flag
    worker,    \* where the worker is
    shell,     \* the command string the shell was started with
    out,       \* what the shell printed
    outLen,    \* out_len of run_bash_command
    main,      \* the main thread: serving, stopping (in pthread_join), joined
    xfer,      \* the SDO transfer in progress
    offset,    \* its stream's dataOffset
    src,       \* the payload of a command write
    moved,     \* what the transfer has moved so far
    ret,       \* the code of the transfer's last call
    accepted,  \* history: the string of the last command accepted
    lastOut,   \* history: what the last command that was run printed
    settled    \* history: the reply read in progress began outside EXECUTING

vars == <<status, command, reply, overrun, running, worker, shell, out, outLen,
          main, xfer, offset, src, moved, ret, accepted, lastOut, settled>>
WorkerVars == <<running, worker, shell, out, outLen, overrun, reply, lastOut>>
ServerVars == <<main, xfer, offset, src, moved, ret, settled>>

\* The statuses this code stores; ERROR_REPLY of the enumeration is not one.
Status == {"NO_ERROR_NO_REPLY", "NO_ERROR_REPLY", "ERROR_NO_REPLY", "EXECUTING"}
NoTransfer == "none"

\* strlen: the bytes before the first NUL (all of them when there is none).
Ends(array, n) ==
    /\ \A i \in 1..n : array[i] # NUL
    /\ n < Len(array) => array[n + 1] = NUL
StrLen(array) == CHOOSE n \in 0..Len(array) : Ends(array, n)
Str(array) == SubSeq(array, 1, StrLen(array))

ASSUME OutputAssumption ==
    \A p \in Payload : Output(Str(p)) = Failed \/ Output(Str(p)) \in Seq(Byte)

Init ==
    /\ status = "ERROR_NO_REPLY"
    /\ command = [i \in 1..CommandLen |-> NUL]
    /\ reply = [i \in 1..ReplyLen |-> NUL]
    /\ overrun = FALSE
    /\ running = FALSE
    /\ worker = "created"
    /\ shell = <<>> /\ out = <<>> /\ outLen = 0
    /\ main = "serving"
    /\ xfer = NoTransfer /\ offset = 0 /\ src = <<>> /\ moved = <<>> /\ ret = "OK"
    /\ accepted = <<>> /\ lastOut = <<>> /\ settled = FALSE

-----------------------------------------------------------------------------
(* The worker thread.                                                      *)

\* The thread's first statement, running = true.
ThreadStart ==
    /\ worker = "created"
    /\ running' = TRUE
    /\ worker' = "loop"
    /\ UNCHANGED <<status, command, reply, overrun, shell, out, outLen, accepted,
                   lastOut, ServerVars>>

\* Mutant of LoopTest: the loop ignores its flag.
LoopForever ==
    /\ worker = "loop"
    /\ worker' = "asleep"
    /\ UNCHANGED <<status, command, reply, overrun, running, shell, out, outLen,
                   accepted, lastOut, ServerVars>>

\* while (running): leave the thread, or sleep and look at status.
LoopTest ==
    /\ worker = "loop"
    /\ worker' = IF running THEN "asleep" ELSE "exited"
    /\ UNCHANGED <<status, command, reply, overrun, running, shell, out, outLen,
                   accepted, lastOut, ServerVars>>

\* Mutant of Wake: the status test the wrong way round.
WakeInverted ==
    /\ worker = "asleep"
    /\ worker' = IF status = "EXECUTING" THEN "loop" ELSE "take"
    /\ UNCHANGED <<status, command, reply, overrun, running, shell, out, outLen,
                   accepted, lastOut, ServerVars>>

\* The status test after the sleep.
Wake ==
    /\ worker = "asleep"
    /\ worker' = IF status = "EXECUTING" THEN "take" ELSE "loop"
    /\ UNCHANGED <<status, command, reply, overrun, running, shell, out, outLen,
                   accepted, lastOut, ServerVars>>

\* An empty command is answered at once; any other one goes to popen.
TakeCommand ==
    /\ worker = "take"
    /\ IF StrLen(command) = 0
         THEN /\ status' = "ERROR_NO_REPLY"
              /\ worker' = "loop"
              /\ UNCHANGED <<shell, out, outLen, reply>>
         ELSE /\ status' = status
              /\ shell' = Str(command)
              /\ out' = IF Output(shell') = Failed THEN <<>> ELSE Output(shell')
              /\ outLen' = 0
              /\ IF Output(shell') = Failed
                   THEN reply' = [reply EXCEPT ![1] = NUL] /\ worker' = "popen_failed"
                   ELSE reply' = reply /\ worker' = "drain"
    /\ UNCHANGED <<command, overrun, running, accepted, lastOut, ServerVars>>

PopenFailed ==
    /\ worker = "popen_failed"
    /\ status' = "ERROR_NO_REPLY"
    /\ lastOut' = <<>>
    /\ worker' = "loop"
    /\ UNCHANGED <<command, reply, overrun, running, shell, out, outLen, accepted,
                   ServerVars>>

\* Mutant of TerminateAt: the terminator is forgotten.
TerminateNever(i) == UNCHANGED <<reply, overrun>>

\* Storing a terminator in the i-th byte of reply, or past its end.
TerminateAt(i) ==
    IF i =< ReplyLen
      THEN reply' = [reply EXCEPT ![i] = NUL] /\ UNCHANGED overrun
      ELSE overrun' = TRUE /\ UNCHANGED reply

\* out[out_len] = c, once per byte the shell prints, until max len is reached.
DrainByte ==
    /\ worker = "drain"
    /\ outLen < Len(out) /\ outLen =< ReplyLen - 1
    /\ reply' = [reply EXCEPT ![outLen + 1] = out[outLen + 1]]
    /\ outLen' = outLen + 1
    /\ UNCHANGED <<status, command, overrun, running, worker, shell, out, accepted,
                   lastOut, ServerVars>>

\* End of output, or of the buffer: pclose waits for the shell, then the
\* terminator is written after the last byte.
DrainEnd ==
    /\ worker = "drain"
    /\ outLen = Len(out) \/ outLen > ReplyLen - 1
    /\ shell \notin Hangs
    /\ TerminateAt(outLen + 1)
    /\ worker' = "publish"
    /\ UNCHANGED <<status, command, running, shell, out, outLen, accepted, lastOut,
                   ServerVars>>

\* run_bash_command returned outLen + 1, which is never 0.
PublishStatus ==
    /\ worker = "publish"
    /\ status' = IF outLen + 1 = 0 THEN "NO_ERROR_NO_REPLY" ELSE "NO_ERROR_REPLY"
    /\ lastOut' = Str(SubSeq(out, 1, outLen))
    /\ worker' = "terminate"
    /\ UNCHANGED <<command, reply, overrun, running, shell, out, outLen, accepted,
                   ServerVars>>

\* reply[reply_len - 1] = '\0', after the status is already visible.
TerminateReply ==
    /\ worker = "terminate"
    /\ TerminateAt(outLen + 1)
    /\ worker' = "loop"
    /\ UNCHANGED <<status, command, running, shell, out, outLen, accepted, lastOut,
                   ServerVars>>

Worker ==
    \/ ThreadStart \/ LoopTest \/ Wake \/ TakeCommand \/ PopenFailed
    \/ DrainByte \/ DrainEnd \/ PublishStatus \/ TerminateReply

-----------------------------------------------------------------------------
(* The SDO server (external) and the extension's callbacks.                *)

BeginWrite(payload) ==
    /\ main = "serving" /\ xfer = NoTransfer
    /\ xfer' = "write" /\ src' = payload
    /\ offset' = 0 /\ moved' = <<>> /\ ret' = "PARTIAL"
    /\ UNCHANGED <<status, command, accepted, main, settled, WorkerVars>>

BeginRead ==
    /\ main = "serving" /\ xfer = NoTransfer
    /\ xfer' = "read" /\ src' = <<>>
    /\ offset' = 0 /\ moved' = <<>> /\ ret' = "PARTIAL"
    /\ settled' = (status # "EXECUTING")
    /\ UNCHANGED <<status, command, accepted, main, WorkerVars>>

\* The client or a timeout ends the transfer between two segments.
Abort ==
    /\ main = "serving" /\ xfer # NoTransfer
    /\ xfer' = NoTransfer /\ ret' = "DEV_INCOMPAT"
    /\ UNCHANGED <<status, command, accepted, main, offset, src, moved, settled,
                   WorkerVars>>

Answer(code) ==
    /\ ret' = code
    /\ xfer' = IF code = "PARTIAL" THEN xfer ELSE NoTransfer

\* Mutant of Busy: a write is never refused.
NeverBusy == FALSE

\* The early return of os_command_write.
Busy == status = "EXECUTING"

\* Mutant of Room: the whole array, the terminator forgotten.
RoomWhole == CommandLen

\* The longest payload os_command_write lets od_ext_write_data take.
Room == CommandLen - 1

\* os_command_write on the command subindex, one segment of the payload (the
\* next bytes, cut to the server's buffer).
os_command_write ==
    LET left == Len(src) - Len(moved)
        count == IF left < BufLen THEN left ELSE BufLen
        chunk == SubSeq(src, Len(moved) + 1, Len(moved) + count)
        seg == WriteSegment(offset, Len(src), count)
        stored == Overwrite(command, offset, chunk)
    IN  /\ main = "serving" /\ xfer = "write"
        /\ IF Busy
             THEN /\ Answer("DATA_LOC_CTRL")
                  /\ UNCHANGED <<status, command, accepted, offset, moved>>
           ELSE IF Len(src) > Room
             THEN /\ Answer("DEV_INCOMPAT")
                  /\ UNCHANGED <<status, command, accepted, offset, moved>>
             ELSE /\ Answer(seg.ret)
                  /\ offset' = seg.off
                  /\ moved' = moved \o chunk
                  /\ command' = IF seg.ret = "OK"
                                  THEN Overwrite(stored, Len(src), <<NUL>>)
                                  ELSE stored
                  /\ status' = IF seg.ret = "OK" THEN "EXECUTING" ELSE status
                  /\ accepted' = IF seg.ret = "OK" THEN Str(src) ELSE accepted
        /\ UNCHANGED <<main, src, settled, WorkerVars>>

\* Mutant of ReplyReadLen: the terminator is not counted.
ReplyReadLenShort == StrLen(reply)

\* The length of the reply as each segment of a read finds it.
ReplyReadLen == StrLen(reply) + 1

\* os_command_read on the reply subindex, into a buffer with room for count.
os_command_read(count) ==
    LET seg == Segment(offset, ReplyReadLen, count)
        bytes == Str(reply) \o <<NUL>>
    IN  /\ main = "serving" /\ xfer = "read"
        /\ IF reply[1] = NUL
             THEN Answer("NO_DATA") /\ UNCHANGED <<offset, moved>>
             ELSE /\ Answer(seg.ret)
                  /\ offset' = seg.off
                  /\ moved' = moved \o SubSeq(bytes, offset + 1, offset + seg.n)
        /\ UNCHANGED <<status, command, accepted, main, src, settled, WorkerVars>>

\* os_command_extension_free: clear the flag, then pthread_join.
Free ==
    /\ main = "serving"
    /\ main' = "stopping"
    /\ running' = FALSE
    /\ UNCHANGED <<status, command, reply, overrun, worker, shell, out, outLen, xfer,
                   offset, src, moved, ret, accepted, lastOut, settled>>

Joined ==
    /\ main = "stopping" /\ worker = "exited"
    /\ main' = "joined"
    /\ UNCHANGED <<status, command, accepted, xfer, offset, src, moved, ret, settled,
                   WorkerVars>>

Server ==
    \/ \E p \in Payload : BeginWrite(p)
    \/ BeginRead
    \/ Abort
    \/ os_command_write
    \/ \E count \in 1..BufLen : os_command_read(count)
    \/ Free
    \/ Joined

Next == Worker \/ Server

\* The worker is a thread the kernel schedules and its sleeps end; a join
\* returns once the thread has exited.  Nothing is assumed of the client.
Fairness == WF_vars(Worker) /\ WF_vars(Joined)

Spec == Init /\ [][Next]_vars /\ Fairness

-----------------------------------------------------------------------------
(* Properties.                                                             *)

\* The variables stay in their types.  The command array has its elements and
\* no others: neither a payload that is accepted segment by segment nor the
\* terminator stored behind it lands outside.
TypeOK ==
    /\ status \in Status
    /\ command \in [1..CommandLen -> Byte]
    /\ reply \in [1..ReplyLen -> Byte]
    /\ overrun \in BOOLEAN /\ running \in BOOLEAN /\ settled \in BOOLEAN
    /\ worker \in {"created", "loop", "asleep", "take", "popen_failed", "drain",
                   "publish", "terminate", "exited"}
    /\ shell \in Seq(Byte) /\ out \in Seq(Byte) /\ lastOut \in Seq(Byte)
    /\ outLen \in Nat
    /\ main \in {"serving", "stopping", "joined"}
    /\ xfer \in {NoTransfer, "write", "read"}
    /\ offset \in Nat
    /\ src \in Seq(Byte) /\ moved \in Seq(Byte) /\ accepted \in Seq(Byte)
    /\ ret \in ODR

\* The shell runs the accepted command and nothing else.  Segments of a later
\* write go straight into the array the worker reads, so this rests on the
\* refusal of every segment while EXECUTING, not only of the first, and on
\* EXECUTING being set by the last segment only: a half-written command, or
\* one mixed from two writes, is never run.
RunsAcceptedCommand ==
    /\ worker \in {"drain", "publish", "popen_failed"} => shell = accepted
    /\ status = "EXECUTING" => Str(command) = accepted

\* The answer to a command string: what fits the reply of the shell's output,
\* up to the first NUL; nothing when popen fails.
Answers(s) ==
    IF Output(s) = Failed THEN <<>>
    ELSE Str(SubSeq(Output(s), 1, IF Len(Output(s)) < ReplyLen THEN Len(Output(s)) ELSE ReplyLen))

\* The object seen from outside.  While EXECUTING the reply array is scratch
\* memory of the worker.
Executing == status = "EXECUTING"
Abstract == INSTANCE CommandObject WITH
    Commands <- {Str(p) : p \in Payload},
    Answer <- Answers,
    executing <- Executing,
    command <- IF Executing THEN Str(command) ELSE <<>>,
    reply <- IF Executing THEN lastOut ELSE Str(reply)

\* Two threads and three unprotected variables implement the command object:
\* the array of a command in execution is never touched, a command is taken
\* whole or not at all, leaving EXECUTING and having the terminated output of
\* that command (and of no other) in reply are one step to a client, although
\* the worker writes reply in place and publishes the status before its last
\* store to it, and outside EXECUTING neither thread changes the reply.
ImplementsCommandObject == Abstract!Spec

\* A client that starts to read the reply outside EXECUTING, as
\* os_command_main.c does, gets the output of the last command in whole, or
\* ODR_NO_DATA when that is empty: no segment of it is torn, whatever the
\* worker does between two segments.
ReplyReadWhole ==
    settled /\ xfer = NoTransfer /\ ~overrun =>
        /\ ret = "OK" /\ src = <<>> => moved = lastOut \o <<NUL>>
        /\ ret = "NO_DATA" => lastOut = <<>>

\* Every accepted command whose shell ends leaves EXECUTING, so that the object
\* can be used again.
CommandCompletes ==
    (status = "EXECUTING" /\ running /\ accepted \notin Hangs)
        ~> (status # "EXECUTING" \/ ~running)

\* os_command_extension_free returns, if the worker had started before it and
\* is not waiting for a shell that never ends.
FreeReturns ==
    (main = "stopping" /\ ~running /\ worker # "created" /\ accepted \notin Hangs)
        ~> (main = "joined")

\* The reply array is never written past its end: run_bash_command stops at
\* out_max_len ("max len reached").
ReplyWithinBuffer == ~overrun
=============================================================================

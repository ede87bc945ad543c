-------------------------- MODULE OsCommandProofs --------------------------
(***************************************************************************)
(* Proofs about OsCommand, for every buffer size, payload and output: the  *)
(* shell runs the accepted command and nothing else, a settled reply is    *)
(* read whole, and the two threads implement CommandObject.                *)
(*                                                                         *)
(* The inductive invariant says who owns what.  Outside EXECUTING the      *)
(* worker does not touch reply (its late terminator rewrites a byte that   *)
(* is NUL already); in EXECUTING the server does not touch command.        *)
(***************************************************************************)
EXTENDS OsCommand, SequenceTheorems, WellFoundedInduction, TLAPS

\* The strings that clients send.
Command == {Str(p) : p \in Payload}

\* The command is being run: reply is the worker's scratch memory.
InShell == worker \in {"popen_failed", "drain", "publish"}

\* The segments of a write so far are in the command array.
WriteProgress ==
    xfer = "write" =>
        /\ src \in Payload
        /\ offset = Len(moved) /\ offset < Len(src) /\ moved = SubSeq(src, 1, offset)
        /\ offset > 0 => Len(src) < CommandLen
        /\ \A i \in 1..offset : command[i] = src[i]

\* EXECUTING lasts from the last segment of a command to the worker's answer.
Execution ==
    /\ status = "EXECUTING" => Str(command) = accepted /\ accepted \in Command
    /\ InShell \/ worker = "take" => status = "EXECUTING"
    /\ InShell => shell = accepted /\ shell # <<>>
    /\ worker = "popen_failed" => Output(shell) = Failed /\ reply[1] = NUL
    /\ worker \in {"drain", "publish"} =>
          /\ Output(shell) # Failed /\ out = Output(shell)
          /\ outLen =< Len(out) /\ outLen =< ReplyLen
          /\ \A i \in 1..outLen : reply[i] = out[i]
    /\ worker = "publish" => outLen = Len(out) \/ outLen = ReplyLen
    /\ worker \in {"publish", "terminate"} /\ outLen < ReplyLen => reply[outLen + 1] = NUL
    /\ ~InShell => Str(reply) = lastOut

\* A settled read, and what is left of it once it is over.
ReadProgress ==
    /\ xfer = "read" => src = <<>>
    /\ settled /\ src = <<>> => status # "EXECUTING"
    /\ settled /\ xfer = "read" =>
          offset =< Len(lastOut) /\ moved = SubSeq(lastOut \o <<NUL>>, 1, offset)
    /\ settled /\ xfer = NoTransfer /\ src = <<>> /\ ret = "OK" => moved = lastOut \o <<NUL>>
    /\ ret = "NO_DATA" => src = <<>> /\ xfer = NoTransfer /\ (settled => lastOut = <<>>)

IInv == TypeOK /\ WriteProgress /\ Execution /\ ReadProgress

-----------------------------------------------------------------------------
(* Strings in arrays.                                                      *)

\* Every set of natural numbers has a least one.
LEMMA LeastNat ==
    ASSUME NEW T, T \subseteq Nat, T # {}
    PROVE  \E x \in T : \A y \in T : x =< y
<1> DEFINE R == OpToRel(<, Nat)
<1>1. IsWellFoundedOn(R, Nat)
  BY NatLessThanWellFounded
<1>2. \A x, y \in Nat : <<x, y>> \in R <=> x < y
  BY DEF OpToRel
<1> HIDE DEF R
<1>3. PICK x \in T : \A y \in T : ~ (<<y, x>> \in R)
  BY <1>1, WFMin, Zenon
<1>4. \A y \in T : x =< y
  <2> TAKE y \in T
  <2>1. x \in Nat /\ y \in Nat
    OBVIOUS
  <2>2. ~(y < x)
    BY <1>2, <1>3, <2>1, Zenon
  <2> QED BY <2>1, <2>2
<1> QED BY <1>4

\* strlen has a result, and only one.
LEMMA StrLenEnds ==
    ASSUME NEW S, NEW a \in Seq(S)
    PROVE  /\ StrLen(a) \in 0..Len(a) /\ Ends(a, StrLen(a))
           /\ \A n \in 0..Len(a) : Ends(a, n) => n = StrLen(a)
<1> DEFINE Nuls == {i \in Nat : i < Len(a) /\ a[i + 1] = NUL}
<1>0. Len(a) \in Nat
  BY LenProperties
<1>1. \E n \in 0..Len(a) : Ends(a, n)
  <2>1. CASE Nuls = {}
    <3>1. \A i \in 1..Len(a) : a[i] # NUL
      <4> TAKE i \in 1..Len(a)
      <4>1. i - 1 \in Nat /\ i - 1 < Len(a) /\ (i - 1) + 1 = i
        BY <1>0
      <4> QED BY <2>1, <4>1
    <3> QED BY <1>0, <3>1 DEF Ends
  <2>2. CASE Nuls # {}
    <3>1. PICK x \in Nuls : \A y \in Nuls : x =< y
      BY <2>2, LeastNat, Nuls \subseteq Nat
    <3>2. x \in Nat /\ x < Len(a) /\ a[x + 1] = NUL
      BY <3>1
    <3>3. \A i \in 1..x : a[i] # NUL
      <4> TAKE i \in 1..x
      <4>1. i - 1 \in Nat /\ i - 1 < Len(a) /\ (i - 1) + 1 = i /\ ~(x =< i - 1)
        BY <1>0, <3>2
      <4> QED BY <3>1, <4>1
    <3> QED BY <1>0, <3>2, <3>3 DEF Ends
  <2> QED BY <2>1, <2>2
<1>2. StrLen(a) \in 0..Len(a) /\ Ends(a, StrLen(a))
  BY <1>1 DEF StrLen
<1>3. ASSUME NEW m \in 0..Len(a), NEW n \in 0..Len(a), Ends(a, m), Ends(a, n)
      PROVE  ~(m < n)
  BY <1>0, <1>3 DEF Ends
<1> QED BY <1>0, <1>2, <1>3

LEMMA StrProperties ==
    ASSUME NEW S, NEW a \in Seq(S)
    PROVE  /\ Str(a) \in Seq(S) /\ Len(Str(a)) = StrLen(a) /\ StrLen(a) \in Nat
           /\ \A i \in 1..StrLen(a) : Str(a)[i] = a[i]
           /\ (StrLen(a) = 0) = (Str(a) = <<>>)
           /\ Len(a) > 0 => (a[1] = NUL) = (StrLen(a) = 0)
<1>1. StrLen(a) \in 0..Len(a) /\ Ends(a, StrLen(a)) /\ Len(a) \in Nat
  BY StrLenEnds, LenProperties
<1>2. /\ Str(a) \in Seq(S) /\ Len(Str(a)) = StrLen(a)
      /\ \A i \in 1..StrLen(a) : Str(a)[i] = a[i]
  BY <1>1, SubSeqProperties DEF Str
<1>3. (StrLen(a) = 0) = (Str(a) = <<>>)
  BY <1>1, <1>2, EmptySeq
<1>4. Len(a) > 0 => (a[1] = NUL) = (StrLen(a) = 0)
  BY <1>1 DEF Ends
<1> QED BY <1>1, <1>2, <1>3, <1>4

\* An array that starts with b, and then has a terminator or ends, holds the
\* same string as b.
LEMMA SameStr ==
    ASSUME NEW S, NEW a \in Seq(S), NEW b \in Seq(S), Len(b) =< Len(a),
           \A i \in 1..Len(b) : a[i] = b[i],
           Len(b) < Len(a) => a[Len(b) + 1] = NUL
    PROVE  Str(a) = Str(b)
<1>1. StrLen(b) \in 0..Len(b) /\ Ends(b, StrLen(b)) /\ Len(a) \in Nat /\ Len(b) \in Nat
  BY StrLenEnds, LenProperties
<1>2. StrLen(b) \in 0..Len(a) /\ Ends(a, StrLen(b))
  BY <1>1 DEF Ends
<1>3. StrLen(a) = StrLen(b)
  BY <1>2, StrLenEnds
<1>4. /\ Str(a) \in Seq(S) /\ Str(b) \in Seq(S) /\ Len(Str(a)) = Len(Str(b))
      /\ \A i \in 1..Len(Str(a)) : Str(a)[i] = Str(b)[i]
  <2>1. /\ Str(a) \in Seq(S) /\ Len(Str(a)) = StrLen(a)
        /\ \A i \in 1..StrLen(a) : Str(a)[i] = a[i]
    BY StrProperties
  <2>2. /\ Str(b) \in Seq(S) /\ Len(Str(b)) = StrLen(b)
        /\ \A i \in 1..StrLen(b) : Str(b)[i] = b[i]
    BY StrProperties
  <2> QED BY <1>1, <1>3, <2>1, <2>2
<1> QED BY <1>4, SeqEqual, Zenon

\* A start of a sequence and what follows it are a longer start.
LEMMA Extend ==
    ASSUME NEW S, NEW s \in Seq(S), NEW k \in Nat, NEW n \in Nat, k + n =< Len(s)
    PROVE  SubSeq(s, 1, k) \o SubSeq(s, k + 1, k + n) = SubSeq(s, 1, k + n)
<1>1. 1 \in 1..Len(s) + 1 /\ k \in 1 - 1..Len(s) /\ k + n \in k..Len(s)
  BY LenProperties
<1> QED BY <1>1, ConcatAdjacentSubSeq, Zenon

\* The two arrays are sequences.
LEMMA Arrays ==
    ASSUME TypeOK
    PROVE  /\ command \in Seq(Byte) /\ Len(command) = CommandLen
           /\ reply \in Seq(Byte) /\ Len(reply) = ReplyLen
<1>1. ASSUME NEW n \in Nat, NEW f \in [1..n -> Byte]
      PROVE  f \in Seq(Byte) /\ Len(f) = n
  BY LenProperties, SeqDef
<1> QED BY <1>1, LengthAssumption DEF TypeOK

-----------------------------------------------------------------------------
(* The invariant is inductive.                                             *)

LEMMA InitIInv == Init => IInv
<1> SUFFICES ASSUME Init PROVE IInv
  OBVIOUS
<1> USE DEF Init
<1>1. TypeOK
  BY ByteAssumption, LengthAssumption, EmptySeq DEF TypeOK, Status, NoTransfer, ODR
<1>2. Str(reply) = <<>>
  <2>1. reply \in Seq(Byte) /\ Len(reply) > 0 /\ reply[1] = NUL
    BY <1>1, Arrays, LengthAssumption
  <2> QED BY <2>1, StrProperties
<1>3. WriteProgress /\ Execution /\ ReadProgress
  BY <1>2 DEF WriteProgress, Execution, ReadProgress, InShell, NoTransfer
<1> QED BY <1>1, <1>3 DEF IInv

\* The worker outside of the shell, and the end of the join.
LEMMA IdleStep ==
    ASSUME IInv, ThreadStart \/ LoopTest \/ Wake \/ Free \/ Joined
    PROVE  IInv'
<1> USE DEF IInv, ServerVars, WorkerVars
<1>1. TypeOK'
  BY DEF TypeOK, ThreadStart, LoopTest, Wake, Free, Joined
<1>2. WriteProgress'
  BY DEF WriteProgress, ThreadStart, LoopTest, Wake, Free, Joined
<1>3. Execution'
  BY DEF Execution, InShell, ThreadStart, LoopTest, Wake, Free, Joined
<1>4. ReadProgress'
  <2>1. UNCHANGED <<status, xfer, offset, src, moved, ret, settled, lastOut>>
    BY DEF ThreadStart, LoopTest, Wake, Free, Joined
  <2> QED BY <2>1, Zenon DEF ReadProgress
<1> QED BY <1>1, <1>2, <1>3, <1>4

\* What popen is given is the accepted command, so its output is known.
LEMMA TakeCommandStep ==
    ASSUME IInv, TakeCommand
    PROVE  IInv'
<1> USE DEF IInv, ServerVars
<1>1. /\ worker = "take" /\ status = "EXECUTING" /\ Str(command) = accepted
      /\ accepted \in Command /\ ~InShell /\ Str(reply) = lastOut
  BY DEF TakeCommand, Execution, InShell
<1>2. CASE StrLen(command) = 0
  <2>1. /\ status' = "ERROR_NO_REPLY" /\ worker' = "loop"
        /\ UNCHANGED <<shell, out, outLen, reply, command, overrun, running, accepted,
                       lastOut, main, xfer, offset, src, moved, ret, settled>>
    BY <1>2 DEF TakeCommand
  <2>2. TypeOK'
    BY <2>1 DEF TypeOK, Status
  <2>3. WriteProgress' /\ Execution' /\ ReadProgress'
    BY <1>1, <2>1 DEF WriteProgress, Execution, ReadProgress, InShell
  <2> QED BY <2>2, <2>3
<1>3. CASE StrLen(command) # 0
  <2>1. /\ status' = status /\ shell' = accepted /\ outLen' = 0
        /\ out' = IF Output(accepted) = Failed THEN <<>> ELSE Output(accepted)
        /\ IF Output(accepted) = Failed
             THEN reply' = [reply EXCEPT ![1] = NUL] /\ worker' = "popen_failed"
             ELSE reply' = reply /\ worker' = "drain"
        /\ UNCHANGED <<command, overrun, running, accepted,
                       lastOut, main, xfer, offset, src, moved, ret, settled>>
    BY <1>1, <1>3 DEF TakeCommand
  <2>0. accepted # <<>>
    BY <1>1, <1>3, Arrays, StrProperties
  <2>2. out' \in Seq(Byte) /\ Len(out') \in Nat
    BY <1>1, <2>1, OutputAssumption, EmptySeq, LenProperties DEF Command
  <2>3. reply' \in [1..ReplyLen -> Byte] /\ (worker' = "popen_failed" => reply'[1] = NUL)
    <3>1. reply \in [1..ReplyLen -> Byte] /\ 1 \in 1..ReplyLen
      BY LengthAssumption DEF TypeOK
    <3> QED BY <2>1, <3>1, ByteAssumption
  <2>4. TypeOK'
    BY <1>1, <2>1, <2>2, <2>3 DEF TypeOK
  <2>5. WriteProgress' /\ ReadProgress'
    BY <2>1 DEF WriteProgress, ReadProgress
  <2>6. Execution'
    BY <1>1, <2>0, <2>1, <2>2, <2>3, LengthAssumption DEF Execution, InShell
  <2> QED BY <2>4, <2>5, <2>6
<1> QED BY <1>2, <1>3

\* A failed popen leaves an empty reply.
LEMMA PopenFailedStep ==
    ASSUME IInv, PopenFailed
    PROVE  IInv'
<1> USE DEF IInv, ServerVars
<1>1. worker = "popen_failed" /\ status = "EXECUTING" /\ reply[1] = NUL
  BY DEF PopenFailed, Execution, InShell
<1>2. Str(reply) = <<>>
  BY <1>1, Arrays, StrProperties, LengthAssumption
<1>3. TypeOK'
  BY EmptySeq DEF PopenFailed, TypeOK, Status
<1>4. settled => src # <<>>
  BY <1>1 DEF ReadProgress
<1>5. WriteProgress' /\ ReadProgress'
  BY <1>4 DEF PopenFailed, WriteProgress, ReadProgress
<1>6. Execution'
  BY <1>1, <1>2 DEF PopenFailed, Execution, InShell
<1> QED BY <1>3, <1>5, <1>6

LEMMA DrainByteStep ==
    ASSUME IInv, DrainByte
    PROVE  IInv'
<1> USE DEF IInv, ServerVars
<1>1. /\ worker = "drain" /\ outLen \in Nat /\ out \in Seq(Byte) /\ Len(out) \in Nat
      /\ outLen < Len(out) /\ outLen < ReplyLen /\ ReplyLen \in Nat
      /\ out[outLen + 1] \in Byte /\ outLen + 1 \in 1..ReplyLen
  BY LengthAssumption, ElementOfSeq, LenProperties DEF DrainByte, TypeOK
<1>2. /\ reply' \in [1..ReplyLen -> Byte] /\ reply'[outLen + 1] = out[outLen + 1]
      /\ \A i \in 1..outLen : reply'[i] = reply[i]
      /\ outLen' = outLen + 1
      /\ UNCHANGED <<status, command, overrun, running, worker, shell, out, accepted, lastOut,
                     main, xfer, offset, src, moved, ret, settled>>
  BY <1>1 DEF DrainByte, TypeOK
<1>3. TypeOK' /\ WriteProgress' /\ ReadProgress'
  <2>1. TypeOK'
    BY <1>1, <1>2 DEF TypeOK
  <2>2. WriteProgress' /\ ReadProgress'
    BY <1>2 DEF WriteProgress, ReadProgress
  <2> QED BY <2>1, <2>2
<1>4. \A i \in 1..outLen' : reply'[i] = out[i]
  BY <1>1, <1>2 DEF Execution
<1>5. Execution'
  BY <1>1, <1>2, <1>4 DEF Execution, InShell
<1> QED BY <1>3, <1>5

\* The terminator goes behind the bytes of the output.
LEMMA DrainEndStep ==
    ASSUME IInv, DrainEnd
    PROVE  IInv'
<1> USE DEF IInv, ServerVars
<1>1. /\ worker = "drain" /\ worker' = "publish" /\ outLen \in Nat /\ ReplyLen \in Nat
      /\ outLen = Len(out) \/ outLen = ReplyLen
      /\ UNCHANGED <<status, command, running, shell, out, outLen, accepted, lastOut,
                     main, xfer, offset, src, moved, ret, settled>>
  BY LengthAssumption DEF DrainEnd, TypeOK, Execution
<1>2. /\ reply' \in [1..ReplyLen -> Byte] /\ overrun' \in BOOLEAN
      /\ \A i \in 1..outLen : i =< ReplyLen => reply'[i] = reply[i]
      /\ outLen < ReplyLen => reply'[outLen + 1] = NUL
  <2>1. CASE outLen + 1 =< ReplyLen
    BY <1>1, <2>1, ByteAssumption DEF DrainEnd, TerminateAt, TypeOK
  <2>2. CASE ~(outLen + 1 =< ReplyLen)
    BY <1>1, <2>2 DEF DrainEnd, TerminateAt, TypeOK
  <2> QED BY <2>1, <2>2
<1>3. TypeOK'
  BY <1>1, <1>2 DEF TypeOK
<1>4. WriteProgress' /\ ReadProgress'
  BY <1>1 DEF WriteProgress, ReadProgress
<1>5. Execution'
  BY <1>1, <1>2 DEF Execution, InShell
<1> QED BY <1>3, <1>4, <1>5

\* When the status is published, reply holds the answer to the command: what
\* fits it of the output, cut at the first NUL.
LEMMA Published ==
    ASSUME IInv, worker = "publish"
    PROVE  /\ SubSeq(out, 1, outLen) \in Seq(Byte)
           /\ Str(reply) = Str(SubSeq(out, 1, outLen))
           /\ Str(reply) = Answers(accepted)
<1> USE DEF IInv
<1>1. /\ shell = accepted /\ Output(shell) # Failed /\ out = Output(shell)
      /\ outLen =< Len(out) /\ outLen =< ReplyLen /\ outLen \in Nat
      /\ \A i \in 1..outLen : reply[i] = out[i]
      /\ outLen = Len(out) \/ outLen = ReplyLen
      /\ outLen < ReplyLen => reply[outLen + 1] = NUL
      /\ out \in Seq(Byte) /\ Len(out) \in Nat /\ ReplyLen \in Nat
  BY LengthAssumption, LenProperties DEF Execution, InShell, TypeOK
<1> DEFINE b == SubSeq(out, 1, outLen)
<1>2. b \in Seq(Byte) /\ Len(b) = outLen /\ \A i \in 1..outLen : b[i] = out[i]
  BY <1>1, SubSeqProperties
<1>3. reply \in Seq(Byte) /\ Len(reply) = ReplyLen
  BY Arrays
<1> HIDE DEF b
<1>4. Str(reply) = Str(b)
  <2>1. /\ Len(b) =< Len(reply) /\ \A i \in 1..Len(b) : reply[i] = b[i]
        /\ Len(b) < Len(reply) => reply[Len(b) + 1] = NUL
    BY <1>1, <1>2, <1>3
  <2> QED BY <1>2, <1>3, <2>1, SameStr
<1>5. outLen = IF Len(out) < ReplyLen THEN Len(out) ELSE ReplyLen
  BY <1>1
<1>6. Answers(accepted) = Str(b)
  BY <1>1, <1>5 DEF Answers, b
<1> QED BY <1>2, <1>4, <1>6 DEF b

LEMMA PublishStatusStep ==
    ASSUME IInv, PublishStatus
    PROVE  IInv'
<1> USE DEF IInv, ServerVars
<1>1. /\ worker = "publish" /\ status = "EXECUTING" /\ outLen \in Nat
  BY DEF PublishStatus, Execution, InShell, TypeOK
<1>2. /\ status' = "NO_ERROR_REPLY" /\ worker' = "terminate"
      /\ lastOut' = Str(SubSeq(out, 1, outLen))
      /\ UNCHANGED <<command, reply, overrun, running, shell, out, outLen, accepted,
                     main, xfer, offset, src, moved, ret, settled>>
  BY <1>1 DEF PublishStatus
<1>3. lastOut' = Str(reply) /\ lastOut' \in Seq(Byte)
  BY <1>1, <1>2, Published, StrProperties
<1>4. TypeOK'
  BY <1>2, <1>3 DEF TypeOK, Status
<1>5. settled => src # <<>>
  BY <1>1 DEF ReadProgress
<1>6. WriteProgress'
  BY <1>2 DEF WriteProgress
<1>7. ReadProgress'
  BY <1>2, <1>5 DEF ReadProgress
<1>8. Execution'
  BY <1>1, <1>2, <1>3 DEF Execution, InShell
<1> QED BY <1>4, <1>6, <1>7, <1>8

\* The last store of the worker, which a client may already read around,
\* changes nothing.
LEMMA Terminated ==
    ASSUME IInv, TerminateReply
    PROVE  reply' = reply
<1>1. /\ worker = "terminate" /\ outLen \in Nat /\ ReplyLen \in Nat
      /\ outLen < ReplyLen => reply[outLen + 1] = NUL
      /\ reply \in [1..ReplyLen -> Byte]
  BY LengthAssumption DEF IInv, TerminateReply, Execution, TypeOK
<1>2. CASE outLen + 1 =< ReplyLen
  <2>1. reply' = [reply EXCEPT ![outLen + 1] = NUL]
    BY <1>2 DEF TerminateReply, TerminateAt
  <2>2. outLen + 1 \in 1..ReplyLen /\ reply[outLen + 1] = NUL
    BY <1>1, <1>2
  <2> QED BY <1>1, <2>1, <2>2
<1>3. CASE ~(outLen + 1 =< ReplyLen)
  BY <1>3 DEF TerminateReply, TerminateAt
<1> QED BY <1>2, <1>3

LEMMA TerminateReplyStep ==
    ASSUME IInv, TerminateReply
    PROVE  IInv'
<1>1. /\ worker = "terminate" /\ worker' = "loop" /\ reply' = reply /\ overrun' \in BOOLEAN
      /\ UNCHANGED <<status, command, running, shell, out, outLen, accepted, lastOut,
                     main, xfer, offset, src, moved, ret, settled>>
  <2>1. overrun' = overrun \/ overrun' = TRUE
    BY DEF TerminateReply, TerminateAt
  <2> QED BY <2>1, Terminated DEF TerminateReply, ServerVars, IInv, TypeOK
<1> USE DEF IInv
<1>2. TypeOK'
  BY <1>1 DEF TypeOK
<1>3. WriteProgress' /\ ReadProgress'
  BY <1>1 DEF WriteProgress, ReadProgress
<1>4. Execution'
  BY <1>1 DEF Execution, InShell
<1> QED BY <1>2, <1>3, <1>4

\* A transfer begins.
LEMMA BeginStep ==
    ASSUME IInv, BeginRead \/ \E p \in Payload : BeginWrite(p)
    PROVE  IInv'
<1> USE DEF IInv, WorkerVars
<1>1. CASE BeginRead
  <2>1. TypeOK'
    BY <1>1, EmptySeq DEF BeginRead, TypeOK, NoTransfer, ODR
  <2>2. WriteProgress' /\ Execution'
    <3>1. WriteProgress'
      BY <1>1 DEF BeginRead, WriteProgress
    <3>2. UNCHANGED <<status, command, reply, worker, shell, out, outLen, accepted, lastOut>>
      BY <1>1 DEF BeginRead
    <3>3. Execution'
      BY <3>2 DEF Execution, InShell
    <3> QED BY <3>1, <3>3
  <2>3. /\ xfer' = "read" /\ src' = <<>> /\ offset' = 0 /\ moved' = <<>> /\ ret' = "PARTIAL"
        /\ settled' = (status # "EXECUTING") /\ UNCHANGED <<status, lastOut>>
    BY <1>1 DEF BeginRead
  <2>4. Len(lastOut) \in Nat /\ SubSeq(lastOut \o <<NUL>>, 1, 0) = <<>>
    <3>1. lastOut \o <<NUL>> \in Seq(Byte)
      BY ByteAssumption, ConcatProperties DEF TypeOK
    <3> QED BY <3>1, SubSeqEmpty, LenProperties DEF TypeOK
  <2>5. ReadProgress'
    <3>1. /\ (xfer = "read" => src = <<>>)' /\ xfer' # NoTransfer /\ ret' # "NO_DATA"
          /\ (settled /\ src = <<>> => status # "EXECUTING")'
      BY <2>3 DEF NoTransfer
    <3>2. offset' =< Len(lastOut') /\ moved' = SubSeq(lastOut' \o <<NUL>>, 1, offset')
      BY <2>3, <2>4
    <3> QED BY <3>1, <3>2, Zenon DEF ReadProgress
  <2> QED BY <2>1, <2>2, <2>5
<1>2. ASSUME NEW p \in Payload, BeginWrite(p)
      PROVE  IInv'
  <2>1. p \in Seq(Byte) /\ p # <<>> /\ Len(p) \in Nat /\ Len(p) > 0
    BY CommandPayloadAssumption, EmptySeq, LenProperties
  <2>2. TypeOK'
    BY <1>2, <2>1, EmptySeq DEF BeginWrite, TypeOK, NoTransfer, ODR
  <2>3. SubSeq(p, 1, 0) = <<>> /\ Len(<<>>) = 0
    BY <2>1, SubSeqEmpty, EmptySeq
  <2>4. WriteProgress'
    BY <1>2, <2>1, <2>3 DEF BeginWrite, WriteProgress
  <2>5. Execution' /\ ReadProgress'
    BY <1>2, <2>1 DEF BeginWrite, Execution, InShell, ReadProgress, NoTransfer
  <2> QED BY <2>2, <2>4, <2>5
<1> QED BY <1>1, <1>2

LEMMA AbortStep ==
    ASSUME IInv, Abort
    PROVE  IInv'
<1> USE DEF IInv, WorkerVars
<1>1. TypeOK'
  BY DEF Abort, TypeOK, ODR
<1>2. WriteProgress' /\ Execution'
  BY DEF Abort, WriteProgress, Execution, InShell, NoTransfer
<1>3. ReadProgress'
  BY DEF Abort, ReadProgress, NoTransfer
<1> QED BY <1>1, <1>2, <1>3

\* The next segment of a write: its size, its bytes, what the helper decides
\* and what the array holds then.
Count == IF Len(src) - Len(moved) < BufLen THEN Len(src) - Len(moved) ELSE BufLen
Chunk == SubSeq(src, Len(moved) + 1, Len(moved) + Count)
Seg == WriteSegment(offset, Len(src), Count)
Stored == Overwrite(command, offset, Chunk)
Final == Overwrite(Stored, Len(src), <<NUL>>)

\* If it is not refused, the array starts with the payload as far as it has
\* come, and after the last segment it holds the payload's string.
LEMMA WriteSegmentMoves ==
    ASSUME IInv, xfer = "write", Len(src) < CommandLen
    PROVE  /\ Seg.ret \in {"OK", "PARTIAL"} /\ Seg.off \in Nat
           /\ moved \o Chunk = SubSeq(src, 1, offset + Count)
           /\ moved \o Chunk \in Seq(Byte) /\ Len(moved \o Chunk) = offset + Count
           /\ Stored \in [1..CommandLen -> Byte]
           /\ \A i \in 1..(offset + Count) : Stored[i] = src[i]
           /\ Seg.ret = "PARTIAL" => Seg.off = offset + Count /\ Seg.off < Len(src)
           /\ Seg.ret = "OK" => Final \in [1..CommandLen -> Byte] /\ Str(Final) = Str(src)
<1>1. /\ src \in Payload /\ offset < Len(src) /\ moved = SubSeq(src, 1, offset)
      /\ \A i \in 1..offset : command[i] = src[i]
      /\ src \in Seq(Byte) /\ Len(src) \in Nat /\ offset \in Nat
      /\ command \in [1..CommandLen -> Byte]
      /\ CommandLen \in Nat \ {0} /\ BufLen \in Nat \ {0}
  BY LengthAssumption, LenProperties DEF IInv, WriteProgress, TypeOK
<1>2. /\ Len(moved) = offset
      /\ Count \in Nat \ {0} /\ offset + Count =< Len(src)
  <2>1. Len(moved) = offset
    BY DEF IInv, WriteProgress
  <2> QED BY <1>1, <2>1 DEF Count
<1>3. /\ Seg.ret \in {"OK", "PARTIAL"} /\ Seg.off \in Nat
      /\ Seg.ret = "PARTIAL" => Seg.off = offset + Count /\ Seg.off < Len(src)
      /\ Seg.ret = "OK" => offset + Count = Len(src)
  <2>1. /\ Len(src) \in Nat /\ offset \in Nat /\ Count \in Nat \ {0}
        /\ offset + Count =< Len(src)
    BY <1>1, <1>2
  <2> QED BY <2>1 DEF Seg, WriteSegment, Segment
<1>4. /\ Chunk \in Seq(Byte) /\ Len(Chunk) = Count
      /\ \A i \in 1..Count : Chunk[i] = src[offset + i]
  <2>1. Chunk = SubSeq(src, offset + 1, offset + Count)
    BY <1>2 DEF Chunk
  <2> QED BY <1>1, <1>2, <2>1, SubSeqProperties
<1>5. /\ moved \o Chunk = SubSeq(src, 1, offset + Count)
      /\ moved \o Chunk \in Seq(Byte) /\ Len(moved \o Chunk) = offset + Count
  <2>1. Chunk = SubSeq(src, offset + 1, offset + Count)
    BY <1>2 DEF Chunk
  <2>2. SubSeq(src, 1, offset) \o SubSeq(src, offset + 1, offset + Count)
          = SubSeq(src, 1, offset + Count)
    BY <1>1, <1>2, Extend
  <2>3. moved \o Chunk = SubSeq(src, 1, offset + Count)
    BY <1>1, <2>1, <2>2
  <2>4. SubSeq(src, 1, offset + Count) \in Seq(Byte) /\ Len(SubSeq(src, 1, offset + Count)) = offset + Count
    BY <1>1, <1>2, SubSeqProperties
  <2> QED BY <2>3, <2>4
<1>6. /\ Stored \in [1..CommandLen -> Byte]
      /\ \A i \in 1..(offset + Count) : Stored[i] = src[i]
  <2>1. \A i \in 1..CommandLen : i > offset /\ i =< offset + Count =>
             i - offset \in 1..Count /\ Chunk[i - offset] = src[i] /\ src[i] \in Byte
    <3> SUFFICES ASSUME NEW i \in 1..CommandLen, i > offset, i =< offset + Count
                 PROVE  i - offset \in 1..Count /\ Chunk[i - offset] = src[i] /\ src[i] \in Byte
      OBVIOUS
    <3>1. i - offset \in 1..Count /\ offset + (i - offset) = i /\ i \in 1..Len(src)
      BY <1>1, <1>2
    <3> QED BY <1>1, <1>4, <3>1, ElementOfSeq
  <2>2. Stored = [i \in 1..CommandLen |->
             IF i > offset /\ i =< offset + Count THEN Chunk[i - offset] ELSE command[i]]
    <3>1. (1..CommandLen) \union ((offset + 1)..(offset + Count)) = 1..CommandLen
      BY <1>1, <1>2
    <3>2. DOMAIN command = 1..CommandLen
      BY <1>1
    <3> QED BY <1>1, <1>4, <3>1, <3>2 DEF Stored, Overwrite
  <2>3. Stored \in [1..CommandLen -> Byte]
    BY <1>1, <2>1, <2>2
  <2>4. \A i \in 1..(offset + Count) : i \in 1..CommandLen
    BY <1>1, <1>2
  <2>5. \A i \in 1..CommandLen : ~(i > offset) => i \in 1..offset
    BY <1>1
  <2>6. \A i \in 1..(offset + Count) : Stored[i] = src[i]
    BY <1>1, <1>2, <2>1, <2>2, <2>4, <2>5
  <2> QED BY <2>3, <2>6
<1>7. ASSUME Seg.ret = "OK"
      PROVE  Final \in [1..CommandLen -> Byte] /\ Str(Final) = Str(src)
  <2>0. Final = [i \in 1..CommandLen |-> IF i = Len(src) + 1 THEN NUL ELSE Stored[i]]
    <3>1. (1..CommandLen) \union ((Len(src) + 1)..(Len(src) + 1)) = 1..CommandLen
      BY <1>1
    <3>2. DOMAIN Stored = 1..CommandLen
      BY <1>6
    <3>3. \A i \in 1..CommandLen : (i > Len(src) /\ i =< Len(src) + 1) <=> i = Len(src) + 1
      BY <1>1
    <3>4. Len(<<NUL>>) = 1 /\ <<NUL>>[1] = NUL
      OBVIOUS
    <3>5. Final = [i \in 1..CommandLen |->
                     IF i > Len(src) /\ i =< Len(src) + 1 THEN <<NUL>>[i - Len(src)] ELSE Stored[i]]
      BY <3>1, <3>2, <3>4 DEF Final, Overwrite
    <3>6. \A i \in 1..CommandLen : i = Len(src) + 1 => i - Len(src) = 1
      BY <1>1
    <3> QED BY <3>3, <3>4, <3>5, <3>6
  <2>1. Final \in [1..CommandLen -> Byte] /\ Final[Len(src) + 1] = NUL
    <3>1. Len(src) + 1 \in 1..CommandLen
      BY <1>1
    <3> QED BY <1>6, <2>0, <3>1, ByteAssumption
  <2>2. Final \in Seq(Byte) /\ Len(Final) = CommandLen
    BY <1>1, <2>1, LenProperties, SeqDef
  <2>3. \A i \in 1..Len(src) : Final[i] = src[i]
    <3>1. \A i \in 1..Len(src) : i \in 1..CommandLen /\ i # Len(src) + 1
      BY <1>1
    <3>2. offset + Count = Len(src)
      BY <1>3, <1>7
    <3> QED BY <1>6, <2>0, <3>1, <3>2
  <2>4. Str(Final) = Str(src)
    BY <1>1, <2>1, <2>2, <2>3, SameStr
  <2> QED BY <2>1, <2>4
<1> QED BY <1>3, <1>5, <1>6, <1>7

\* A segment of a write is refused, or stored; the last one starts the
\* execution.
LEMMA WriteStep ==
    ASSUME IInv, os_command_write
    PROVE  IInv'
<1>1. /\ xfer = "write" /\ src \in Payload /\ src \in Seq(Byte) /\ src # <<>>
      /\ UNCHANGED <<main, src, settled, running, worker, shell, out, outLen, overrun, reply, lastOut>>
  BY CommandPayloadAssumption DEF os_command_write, IInv, WriteProgress, WorkerVars
<1>2. CASE Busy \/ Len(src) > Room
  <2>1. /\ ret' \in {"DATA_LOC_CTRL", "DEV_INCOMPAT"} /\ xfer' = NoTransfer
        /\ UNCHANGED <<status, command, accepted, offset, moved>>
    BY <1>2 DEF os_command_write, Answer
  <2>2. TypeOK'
    BY <1>1, <2>1 DEF IInv, TypeOK, ODR
  <2>3. WriteProgress' /\ Execution'
    <3>1. WriteProgress'
      BY <1>1, <2>1 DEF WriteProgress, NoTransfer
    <3>2. Execution'
      BY <1>1, <2>1 DEF IInv, Execution, InShell
    <3> QED BY <3>1, <3>2
  <2>4. ReadProgress'
    BY <1>1, <2>1 DEF IInv, ReadProgress, NoTransfer
  <2> QED BY <2>2, <2>3, <2>4 DEF IInv
<1>3. CASE ~(Busy \/ Len(src) > Room)
  <2>1. status # "EXECUTING" /\ Len(src) < CommandLen /\ Len(src) \in Nat
    BY <1>1, <1>3, LengthAssumption, LenProperties DEF Busy, Room
  <2>2. /\ Answer(Seg.ret) /\ offset' = Seg.off /\ moved' = moved \o Chunk
        /\ command' = IF Seg.ret = "OK" THEN Final ELSE Stored
        /\ status' = IF Seg.ret = "OK" THEN "EXECUTING" ELSE status
        /\ accepted' = IF Seg.ret = "OK" THEN Str(src) ELSE accepted
    BY <1>3 DEF os_command_write, Seg, Chunk, Count, Stored, Final
  <2>3. /\ Seg.ret \in {"OK", "PARTIAL"} /\ Seg.off \in Nat
        /\ moved \o Chunk = SubSeq(src, 1, offset + Count)
        /\ moved \o Chunk \in Seq(Byte) /\ Len(moved \o Chunk) = offset + Count
        /\ Stored \in [1..CommandLen -> Byte]
        /\ \A i \in 1..(offset + Count) : Stored[i] = src[i]
        /\ Seg.ret = "PARTIAL" => Seg.off = offset + Count /\ Seg.off < Len(src)
        /\ Seg.ret = "OK" => Final \in [1..CommandLen -> Byte] /\ Str(Final) = Str(src)
    BY <1>1, <2>1, WriteSegmentMoves
  <2>4. InShell => status = "EXECUTING"
    BY DEF IInv, Execution
  <2>5. CASE Seg.ret = "PARTIAL"
    <3>1. /\ ret' = "PARTIAL" /\ xfer' = "write" /\ offset' = offset + Count
          /\ offset + Count < Len(src) /\ offset + Count \in Nat
          /\ moved' = SubSeq(src, 1, offset + Count) /\ moved' \in Seq(Byte)
          /\ Len(moved') = offset + Count
          /\ command' = Stored /\ status' = status /\ accepted' = accepted
      BY <1>1, <2>2, <2>3, <2>5 DEF Answer
    <3>2. TypeOK'
      BY <1>1, <2>3, <3>1 DEF IInv, TypeOK, ODR
    <3>3. WriteProgress'
      BY <1>1, <2>1, <2>3, <3>1 DEF WriteProgress
    <3>4. Execution'
      BY <1>1, <2>1, <3>1 DEF IInv, Execution, InShell
    <3>5. ReadProgress'
      BY <1>1, <3>1 DEF IInv, ReadProgress, NoTransfer
    <3> QED BY <3>2, <3>3, <3>4, <3>5 DEF IInv
  <2>6. CASE Seg.ret = "OK"
    <3>1. /\ ret' = "OK" /\ xfer' = NoTransfer /\ offset' \in Nat /\ moved' \in Seq(Byte)
          /\ command' \in [1..CommandLen -> Byte] /\ Str(command') = Str(src)
          /\ status' = "EXECUTING" /\ accepted' = Str(src)
      BY <2>2, <2>3, <2>6 DEF Answer
    <3>2. accepted' \in Seq(Byte) /\ accepted' \in Command
      BY <1>1, <3>1, StrProperties DEF Command
    <3>3. TypeOK'
      BY <1>1, <3>1, <3>2 DEF IInv, TypeOK, ODR, Status
    <3>4. WriteProgress'
      BY <3>1 DEF WriteProgress, NoTransfer
    <3>5. Execution'
      BY <1>1, <2>1, <2>4, <3>1, <3>2 DEF IInv, Execution, InShell
    <3>6. ReadProgress'
      BY <1>1, <3>1 DEF IInv, ReadProgress, NoTransfer
    <3> QED BY <3>3, <3>4, <3>5, <3>6 DEF IInv
  <2> QED BY <2>3, <2>5, <2>6
<1> QED BY <1>2, <1>3

\* A segment of a read: in a settled read it comes from the reply of the last
\* command, where the previous one ended.
LEMMA ReadStep ==
    ASSUME IInv, NEW count \in 1..BufLen, os_command_read(count)
    PROVE  IInv'
<1> DEFINE seg == Segment(offset, ReplyReadLen, count)
           bytes == Str(reply) \o <<NUL>>
<1>1. /\ xfer = "read" /\ src = <<>> /\ count \in Nat \ {0} /\ offset \in Nat
      /\ moved \in Seq(Byte) /\ lastOut \in Seq(Byte)
      /\ UNCHANGED <<main, src, settled, running, worker, shell, out, outLen, overrun, reply,
                     lastOut, status, command, accepted>>
  BY LengthAssumption DEF os_command_read, IInv, ReadProgress, TypeOK, WorkerVars
<1>2. /\ bytes \in Seq(Byte) /\ Len(bytes) = ReplyReadLen /\ ReplyReadLen \in Nat \ {0}
      /\ Str(reply) \in Seq(Byte) /\ Len(Str(reply)) + 1 = ReplyReadLen
      /\ (reply[1] = NUL) = (Str(reply) = <<>>)
  <2>1. reply \in Seq(Byte) /\ Len(reply) > 0
    BY Arrays, LengthAssumption DEF IInv
  <2>2. /\ Str(reply) \in Seq(Byte) /\ Len(Str(reply)) = StrLen(reply) /\ StrLen(reply) \in Nat
        /\ (reply[1] = NUL) = (Str(reply) = <<>>)
    BY <2>1, StrProperties
  <2>3. <<NUL>> \in Seq(Byte) /\ Len(<<NUL>>) = 1
    BY ByteAssumption
  <2> QED BY <2>2, <2>3, ConcatProperties DEF ReplyReadLen
<1>3. settled => /\ status # "EXECUTING" /\ Str(reply) = lastOut /\ bytes = lastOut \o <<NUL>>
                 /\ offset < ReplyReadLen /\ moved = SubSeq(bytes, 1, offset)
  <2>1. settled => status # "EXECUTING" /\ Str(reply) = lastOut
    BY <1>1 DEF IInv, ReadProgress, Execution
  <2> QED BY <1>1, <1>2, <2>1 DEF IInv, ReadProgress
<1>4. Execution'
  BY <1>1 DEF IInv, Execution, InShell
<1>5. CASE reply[1] = NUL
  <2>1. ret' = "NO_DATA" /\ xfer' = NoTransfer /\ UNCHANGED <<offset, moved>>
    BY <1>5 DEF os_command_read, Answer
  <2>2. TypeOK'
    BY <1>1, <2>1 DEF IInv, TypeOK, ODR
  <2>3. WriteProgress'
    BY <2>1 DEF WriteProgress, NoTransfer
  <2>4. ReadProgress'
    BY <1>1, <1>2, <1>3, <1>5, <2>1 DEF ReadProgress, NoTransfer
  <2> QED BY <1>4, <2>2, <2>3, <2>4 DEF IInv
<1>6. CASE reply[1] # NUL
  <2>1. /\ Answer(seg.ret) /\ offset' = seg.off
        /\ moved' = moved \o SubSeq(bytes, offset + 1, offset + seg.n)
    BY <1>6 DEF os_command_read
  <2>2. /\ seg.ret \in {"OK", "PARTIAL", "DEV_INCOMPAT"} /\ seg.n \in Nat /\ seg.off \in Nat
        /\ seg.ret = "OK" => offset + seg.n = ReplyReadLen
        /\ seg.ret = "PARTIAL" => seg.off = offset + seg.n /\ seg.off < ReplyReadLen
        /\ offset =< ReplyReadLen => offset + seg.n =< ReplyReadLen
        /\ seg.n = 0 \/ offset + seg.n =< ReplyReadLen
    BY <1>1, <1>2 DEF Segment
  <2> HIDE DEF seg, bytes
  <2>3. moved' \in Seq(Byte)
    <3>1. SubSeq(bytes, offset + 1, offset + seg.n) \in Seq(Byte)
      <4>1. \A i \in (offset + 1)..(offset + seg.n) : i \in 1..Len(bytes)
        BY <1>1, <1>2, <2>2
      <4>2. \A i \in (offset + 1)..(offset + seg.n) : bytes[i] \in Byte
        BY <1>2, <4>1, ElementOfSeq
      <4>3. offset + 1 \in Int /\ offset + seg.n \in Int
        BY <1>1, <2>2
      <4> QED BY <4>2, <4>3, SubSeqProperties, Zenon
    <3> QED BY <1>1, <2>1, <3>1, ConcatProperties
  <2>4. settled => moved' = SubSeq(bytes, 1, offset + seg.n)
    <3> SUFFICES ASSUME settled PROVE moved' = SubSeq(bytes, 1, offset + seg.n)
      OBVIOUS
    <3>1. offset + seg.n =< Len(bytes)
      BY <1>1, <1>2, <1>3, <2>2
    <3>2. SubSeq(bytes, 1, offset) \o SubSeq(bytes, offset + 1, offset + seg.n)
            = SubSeq(bytes, 1, offset + seg.n)
      BY <1>1, <1>2, <2>2, <3>1, Extend, ZenonT(60)
    <3> QED BY <1>3, <2>1, <3>2, Zenon
  <2>5. xfer' = (IF seg.ret = "PARTIAL" THEN "read" ELSE NoTransfer) /\ ret' = seg.ret
    BY <1>1, <2>1 DEF Answer
  <2>6. TypeOK'
    BY <1>1, <2>1, <2>2, <2>3, <2>5 DEF IInv, TypeOK, ODR
  <2>7. WriteProgress'
    BY <2>5 DEF WriteProgress, NoTransfer
  <2>8. settled /\ seg.ret = "OK" => moved' = bytes
    <3>1. SubSeq(bytes, 1, Len(bytes)) = bytes
      BY <1>2, SubSeqFull
    <3> QED BY <1>2, <2>2, <2>4, <3>1
  <2>9. ReadProgress'
    <3>1. ASSUME settled, xfer' = "read"
          PROVE  offset' =< Len(lastOut) /\ moved' = SubSeq(lastOut \o <<NUL>>, 1, offset')
      <4>1. offset' = offset + seg.n /\ offset' < ReplyReadLen /\ offset' \in Nat
        BY <2>1, <2>2, <2>5, <3>1 DEF NoTransfer
      <4>2. offset' =< Len(lastOut)
        BY <1>1, <1>2, <1>3, <3>1, <4>1, LenProperties
      <4> QED BY <1>3, <2>4, <3>1, <4>1, <4>2, Zenon
    <3>2. settled /\ ret' = "OK" => moved' = lastOut \o <<NUL>>
      BY <1>3, <2>5, <2>8
    <3>3. ret' # "NO_DATA" /\ (settled => status' # "EXECUTING") /\ src' = <<>>
      BY <1>1, <1>3, <2>2, <2>5
    <3> QED BY <1>1, <3>1, <3>2, <3>3, Zenon DEF ReadProgress
  <2> QED BY <1>4, <2>6, <2>7, <2>9 DEF IInv
<1> QED BY <1>5, <1>6

LEMMA StutterStep ==
    ASSUME IInv, UNCHANGED vars
    PROVE  IInv'
<1>1. UNCHANGED <<status, command, reply, overrun, running, worker, shell, out, outLen,
                  main, xfer, offset, src, moved, ret, accepted, lastOut, settled>>
  BY DEF vars
<1>2. TypeOK' /\ WriteProgress'
  BY <1>1 DEF IInv, TypeOK, WriteProgress
<1>3. Execution' /\ ReadProgress'
  BY <1>1 DEF IInv, Execution, InShell, ReadProgress
<1> QED BY <1>2, <1>3 DEF IInv

\* Every step of the two threads preserves the invariant.
THEOREM Inductive == Spec => []IInv
<1>1. IInv /\ [Next]_vars => IInv'
  <2> SUFFICES ASSUME IInv, [Next]_vars PROVE IInv'
    OBVIOUS
  <2>1. CASE Worker
    BY <2>1, IdleStep, TakeCommandStep, PopenFailedStep, DrainByteStep, DrainEndStep,
       PublishStatusStep, TerminateReplyStep DEF Worker
  <2>2. CASE Server
    BY <2>2, BeginStep, AbortStep, WriteStep, ReadStep, IdleStep DEF Server
  <2>3. CASE UNCHANGED vars
    BY <2>3, StutterStep
  <2> QED BY <2>1, <2>2, <2>3 DEF Next
<1> QED BY <1>1, InitIInv, PTL DEF Spec

\* The variables of the OS command object stay in their types: no accepted
\* payload leaves the command array.
THEOREM TypeCorrect == Spec => []TypeOK
<1>1. IInv => TypeOK
  BY DEF IInv
<1> QED BY <1>1, Inductive, PTL

\* The shell runs the accepted command and nothing else, for every buffer
\* size and every way in which writes are cut into segments.
THEOREM CommandIsolation == Spec => []RunsAcceptedCommand
<1>1. IInv => RunsAcceptedCommand
  BY DEF IInv, Execution, InShell, RunsAcceptedCommand
<1> QED BY <1>1, Inductive, PTL

\* A reply whose read began outside EXECUTING is read in whole.
THEOREM ReplyIntegrity == Spec => []ReplyReadWhole
<1>1. IInv => ReplyReadWhole
  BY DEF IInv, ReadProgress, ReplyReadWhole
<1> QED BY <1>1, Inductive, PTL

-----------------------------------------------------------------------------
(* The refinement.                                                         *)

\* A step that keeps status and command, and the reply where it counts, is a
\* stuttering step of the command object.
LEMMA Hidden ==
    ASSUME status' = status, status = "EXECUTING" => command' = command /\ lastOut' = lastOut,
           status # "EXECUTING" => Str(reply)' = Str(reply)
    PROVE  UNCHANGED Abstract!vars
BY DEF Abstract!vars, Executing

\* Every step of the two threads is one of the command object, or is hidden.
LEMMA StepRefines ==
    ASSUME IInv, IInv', [Next]_vars
    PROVE  [Abstract!Next]_(Abstract!vars)
<1> USE DEF ServerVars, WorkerVars
<1>1. CASE ThreadStart \/ LoopTest \/ Wake \/ Free \/ Joined \/ BeginRead \/ Abort
  BY <1>1, Hidden DEF ThreadStart, LoopTest, Wake, Free, Joined, BeginRead, Abort
<1>2. CASE \E p \in Payload : BeginWrite(p)
  BY <1>2, Hidden DEF BeginWrite
<1>3. CASE \E count \in 1..BufLen : os_command_read(count)
  BY <1>3, Hidden DEF os_command_read
<1>4. CASE UNCHANGED vars
  BY <1>4, Hidden DEF vars
<1>5. CASE DrainByte \/ DrainEnd
  <2>1. status = "EXECUTING"
    BY <1>5 DEF IInv, Execution, InShell, DrainByte, DrainEnd
  <2> QED BY <1>5, <2>1, Hidden DEF DrainByte, DrainEnd
<1>6. CASE TerminateReply
  BY <1>6, Terminated, Hidden DEF TerminateReply
<1>7. CASE TakeCommand
  <2>1. status = "EXECUTING" /\ Str(reply) = lastOut
    BY <1>7 DEF IInv, Execution, InShell, TakeCommand
  <2>2. CASE StrLen(command) # 0
    BY <1>7, <2>1, <2>2, Hidden DEF TakeCommand
  <2>3. CASE StrLen(command) = 0
    <3>1. status' = "ERROR_NO_REPLY" /\ UNCHANGED <<command, reply, lastOut>>
      BY <1>7, <2>3 DEF TakeCommand
    <3>2. Str(command) = <<>>
      BY <2>3, Arrays, StrProperties DEF IInv
    <3>3. Abstract!Complete
      BY <2>1, <3>1, <3>2 DEF Abstract!Complete, Executing
    <3> QED BY <3>3 DEF Abstract!Next
  <2> QED BY <2>2, <2>3
<1>8. CASE PopenFailed \/ PublishStatus
  <2>1. /\ status = "EXECUTING" /\ Str(command) = accepted /\ shell = accepted
        /\ status' # "EXECUTING" /\ reply' = reply
    BY <1>8 DEF IInv, TypeOK, Execution, InShell, PopenFailed, PublishStatus
  <2>2. Str(reply) = Answers(accepted)
    <3>1. CASE PopenFailed
      <4>1. Answers(accepted) = <<>> /\ reply[1] = NUL
        BY <2>1, <3>1 DEF IInv, Execution, PopenFailed, Answers
      <4>2. reply \in Seq(Byte) /\ Len(reply) > 0
        BY Arrays, LengthAssumption DEF IInv
      <4> QED BY <4>1, <4>2, StrProperties
    <3>2. CASE PublishStatus
      BY <3>2, Published DEF PublishStatus
    <3> QED BY <1>8, <3>1, <3>2
  <2>3. accepted # <<>>
    BY <1>8 DEF IInv, Execution, InShell, PopenFailed, PublishStatus
  <2>4. Abstract!Complete
    BY <2>1, <2>2, <2>3 DEF Abstract!Complete, Executing
  <2> QED BY <2>4 DEF Abstract!Next
<1>9. CASE os_command_write
  <2>1. UNCHANGED <<reply, lastOut, src, worker>> /\ src \in Payload
    BY <1>9 DEF os_command_write, IInv, WriteProgress
  <2>2. CASE status = "EXECUTING" \/ status' # "EXECUTING"
    <3>1. status' = status /\ (status = "EXECUTING" => command' = command)
      BY <1>9, <2>2 DEF os_command_write, Busy
    <3> QED BY <2>1, <3>1, Hidden
  <2>3. CASE status # "EXECUTING" /\ status' = "EXECUTING"
    <3>1. accepted' = Str(src) /\ Str(command') = accepted'
      BY <1>9, <2>3 DEF os_command_write, Busy, IInv, Execution
    <3>2. Str(reply) = lastOut
      BY <2>3 DEF IInv, Execution
    <3>3. Abstract!Accept(Str(src))
      BY <2>1, <2>3, <3>1, <3>2 DEF Abstract!Accept, Executing
    <3>4. Str(src) \in {Str(p) : p \in Payload}
      BY <2>1
    <3> QED BY <3>3, <3>4 DEF Abstract!Next
  <2> QED BY <2>2, <2>3
<1> QED BY <1>1, <1>2, <1>3, <1>4, <1>5, <1>6, <1>7, <1>8, <1>9 DEF Next, Worker, Server

\* Two threads and three unprotected variables implement the command object.
THEOREM Refinement == Spec => ImplementsCommandObject
<1>1. Init => Abstract!Init
  <2> SUFFICES ASSUME Init PROVE Abstract!Init
    OBVIOUS
  <2>1. Str(reply) = <<>>
    BY InitIInv DEF IInv, Execution, InShell, Init
  <2> QED BY <2>1 DEF Init, Abstract!Init, Executing
<1>2. IInv /\ IInv' /\ [Next]_vars => [Abstract!Next]_(Abstract!vars)
  BY StepRefines
<1> QED BY <1>1, <1>2, Inductive, PTL DEF Spec, ImplementsCommandObject, Abstract!Spec
=============================================================================

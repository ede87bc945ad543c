---------------------------- MODULE DaemonProofs ----------------------------
(***************************************************************************)
(* Proofs about the process and about the one of its threads that answers. *)
(*                                                                         *)
(* Daemon, for any number of resets and of runs: the stack is initialized  *)
(* alone and freed alone, and the daemon goes down for good only when told *)
(* to.  DaemonInv is inductive.  The steps fall into groups by what they   *)
(* can disturb: start-up, the communication loop, the shutdown and the     *)
(* threads. The only fact about data is what ThreadOrder lists.            *)
(*                                                                         *)
(* IpcRespond, for any number of clients, requests, values and restarts:   *)
(* no client is handed the answer to a request of its predecessor, and     *)
(* what an SDO call tells its caller is what has become of the transfer.   *)
(* The inductive invariant IInv follows a request through the daemon.      *)
(* Each route has at most one message in the inbox, in the responder's     *)
(* hands or in the outbox.  The one on the current route of a client is    *)
(* about the request the client waits for, and says what has become of it; *)
(* the others have been overtaken by a restart.                            *)
(***************************************************************************)
EXTENDS Daemon, IpcRespond, FiniteSetTheorems, TLAPS

-----------------------------------------------------------------------------
(* The process.                                                            *)

\* ThreadOrder lists every thread once.
LEMMA Order ==
    /\ Len(ThreadOrder) = 4
    /\ \A i \in 1..4 : ThreadOrder[i] \in Thread
    /\ \A i, j \in 1..4 : ThreadOrder[i] = ThreadOrder[j] => i = j
    /\ \A t \in Thread : \E i \in 1..4 : ThreadOrder[i] = t
<1>1. Len(ThreadOrder) = 4
  BY DEF ThreadOrder
<1>2. /\ ThreadOrder[1] = "rt" /\ ThreadOrder[2] = "responder"
      /\ ThreadOrder[3] = "consumer" /\ ThreadOrder[4] = "broadcaster"
  BY DEF ThreadOrder
<1>3. \A i \in 1..4 : i = 1 \/ i = 2 \/ i = 3 \/ i = 4
  OBVIOUS
<1>4. \A i \in 1..4 : ThreadOrder[i] \in Thread
  BY <1>2, <1>3 DEF Thread
<1>5. \A i, j \in 1..4 : ThreadOrder[i] = ThreadOrder[j] => i = j
  BY <1>2, <1>3
<1>6. \A t \in Thread : \E i \in 1..4 : ThreadOrder[i] = t
  BY <1>2, <1>3 DEF Thread
<1> QED BY <1>1, <1>4, <1>5, <1>6

LEMMA DaemonStarts == DaemonInit => DaemonInv
<1> SUFFICES ASSUME DaemonInit PROVE DaemonInv
  OBVIOUS
<1> USE DEF DaemonInit, Fresh
<1>1. DaemonTypeOK
  <2>1. step \in 1..Len(ThreadOrder) + 1
    BY Order
  <2>2. {end, handlers, firstRun, normal, running, conf, manager} \subseteq BOOLEAN
    OBVIOUS
  <2>3. /\ thread \in [Thread -> {"none", "test", "work", "flag", "stuck", "done"}]
        /\ spawned \in [Thread -> 0..1]
    OBVIOUS
  <2> QED BY <2>1, <2>2, <2>3 DEF DaemonTypeOK
<1>2. Threads
  BY DEF Threads
<1>3. Joins /\ Orderly
  BY DEF Joins, Orderly
<1> QED BY <1>1, <1>2, <1>3 DEF DaemonInv

\* Start-up keeps the threads uncreated; a failing set-up is reported.
LEMMA StartStep ==
    ASSUME DaemonInv, Load \/ Setup \/ SetupFails
    PROVE  DaemonInv'
<1>1. DaemonTypeOK'
  BY DEF DaemonInv, DaemonTypeOK, Load, Setup, SetupFails, Stack, Process, Worker, Files, Counts
<1>2. Threads'
  BY DEF DaemonInv, Threads, Load, Setup, SetupFails, Stack, Process, Worker, Files, Counts
<1>3. Joins'
  BY DEF DaemonInv, Joins, Orderly, Load, Setup, SetupFails, Stack, Process, Worker, Files, Counts
<1>4. Orderly'
  BY DEF DaemonInv, Orderly, Load, Setup, SetupFails, Stack, Process, Worker, Files, Counts
<1> QED BY <1>1, <1>2, <1>3, <1>4 DEF DaemonInv

\* The head of the loop clears CANnormal with the rt thread outside; in the
\* first pass there is no rt thread.
LEMMA LoopHeadStep ==
    ASSUME DaemonInv, LoopHead
    PROVE  DaemonInv'
<1>0. "rt" \in Thread
  BY DEF Thread
<1>1. DaemonTypeOK'
  BY DEF DaemonInv, DaemonTypeOK, LoopHead, Quiesced, Process, Worker, Files, Counts
<1>2. Threads'
  BY <1>0 DEF DaemonInv, Threads, LoopHead, Quiesced, LockFree, Process, Worker, Files, Counts
<1>3. Joins' /\ Orderly'
  BY DEF DaemonInv, Joins, Orderly, LoopHead, Process, Worker, Files, Counts
<1> QED BY <1>1, <1>2, <1>3 DEF DaemonInv

LEMMA InitStackStep ==
    ASSUME DaemonInv, InitStack
    PROVE  DaemonInv'
<1>1. DaemonTypeOK'
  BY Order DEF DaemonInv, DaemonTypeOK, InitStack, Stack, Process, Worker, Files, Counts
<1>2. Threads'
  BY Order DEF DaemonInv, Threads, InitStack, Stack, Process, Worker, Files, Counts
<1>3. Joins' /\ Orderly'
  BY DEF DaemonInv, Joins, Orderly, InitStack, Stack, Process, Worker, Files, Counts
<1> QED BY <1>1, <1>2, <1>3 DEF DaemonInv

\* The thread created was never created before, and the later ones are still
\* to come.
LEMMA CreateStep ==
    ASSUME DaemonInv, Create
    PROVE  DaemonInv'
<1> DEFINE t0 == ThreadOrder[step]
<1>1. /\ main = "create" /\ step \in 1..4 /\ t0 \in Thread
      /\ \A i \in step..4 : spawned[ThreadOrder[i]] = 0
      /\ thread' = [thread EXCEPT ![t0] = "test"]
      /\ spawned' = [spawned EXCEPT ![t0] = 1]
      /\ firstRun' = FALSE /\ step' = step + 1
      /\ main' = IF step = 4 THEN "pdo" ELSE "create"
      /\ UNCHANGED <<end, reset, normal, code, freed, conf, told, manager, worker,
                     running, file, handlers, sockets>>
  <2>1. main = "create" /\ step \in 1..4 /\ \A i \in step..4 : spawned[ThreadOrder[i]] = 0
    BY Order DEF DaemonInv, Threads, Create
  <2>2. t0 \in Thread /\ spawned[t0] = 0
    BY <2>1, Order
  <2>3. /\ thread' = [thread EXCEPT ![t0] = "test"]
        /\ spawned' = [spawned EXCEPT ![t0] = spawned[t0] + 1]
        /\ firstRun' = FALSE /\ step' = step + 1
        /\ main' = IF step = 4 THEN "pdo" ELSE "create"
        /\ UNCHANGED <<end, reset, normal, code, freed, conf, told, manager, worker,
                     running, file, handlers, sockets>>
    BY Order DEF Create, FirstRunOver, Process, Worker, Files, Counts
  <2>4. spawned[t0] + 1 = 1
    BY <2>2
  <2> QED BY <2>1, <2>2, <2>3, <2>4
<1>2. DaemonTypeOK'
  <2>1. step' \in 1..Len(ThreadOrder) + 1
    BY <1>1, Order
  <2>2. spawned' \in [Thread -> 0..1]
    BY <1>1 DEF DaemonInv, DaemonTypeOK
  <2>3. thread' \in [Thread -> {"none", "test", "work", "flag", "stuck", "done"}]
    BY <1>1 DEF DaemonInv, DaemonTypeOK
  <2>4. {end', handlers', firstRun', normal', running', conf', manager'} \subseteq BOOLEAN
    BY <1>1, Zenon DEF DaemonInv, DaemonTypeOK
  <2>5. main' \in {"create", "pdo"}
    BY <1>1
  <2> QED BY <1>1, <2>1, <2>2, <2>3, <2>4, <2>5 DEF DaemonInv, DaemonTypeOK
<1>3. \A i \in (step + 1)..4 : ThreadOrder[i] # t0 /\ ThreadOrder[i] \in Thread
  BY <1>1, Order
<1>4. Threads'
  BY <1>1, <1>3, Order DEF DaemonInv, DaemonTypeOK, Threads
<1>5. Joins' /\ Orderly'
  BY <1>1 DEF DaemonInv, Joins, Orderly
<1> QED BY <1>2, <1>4, <1>5 DEF DaemonInv

LEMMA LoopStep ==
    ASSUME DaemonInv,
           InitFails \/ Run \/ SeeEnd \/ Hang \/ \E cmd \in {"COMM", "APP", "QUIT"} : ResetCommand(cmd)
    PROVE  DaemonInv'
<1> USE DEF Stack, Process, Worker, Files, Counts
<1>1. CASE InitFails
  <2>1. DaemonTypeOK'
    BY <1>1 DEF DaemonInv, DaemonTypeOK, InitFails, ExitCode
  <2>2. Threads'
    BY <1>1 DEF DaemonInv, Threads, InitFails, ExitCode
  <2>3. Joins' /\ Orderly'
    BY <1>1 DEF DaemonInv, Joins, Orderly, InitFails, ExitCode
  <2> QED BY <2>1, <2>2, <2>3 DEF DaemonInv
<1>2. CASE Run
  <2>1. DaemonTypeOK'
    BY <1>2 DEF DaemonInv, DaemonTypeOK, Run
  <2>2. Threads'
    BY <1>2 DEF DaemonInv, Threads, Run
  <2>3. Joins' /\ Orderly'
    BY <1>2 DEF DaemonInv, Joins, Orderly, Run
  <2> QED BY <2>1, <2>2, <2>3 DEF DaemonInv
<1>3. CASE SeeEnd \/ Hang
  <2>1. DaemonTypeOK'
    BY <1>3 DEF DaemonInv, DaemonTypeOK, SeeEnd, Hang
  <2>2. Threads'
    BY <1>3 DEF DaemonInv, Threads, SeeEnd, Hang
  <2>3. Joins' /\ Orderly'
    BY <1>3 DEF DaemonInv, Joins, Orderly, SeeEnd, Hang
  <2> QED BY <2>1, <2>2, <2>3 DEF DaemonInv
<1>4. CASE \E cmd \in {"COMM", "APP", "QUIT"} : ResetCommand(cmd)
  <2>1. DaemonTypeOK'
    BY <1>4 DEF DaemonInv, DaemonTypeOK, ResetCommand
  <2>2. Threads'
    BY <1>4 DEF DaemonInv, Threads, ResetCommand
  <2>3. Joins' /\ Orderly'
    BY <1>4 DEF DaemonInv, Joins, Orderly, ResetCommand
  <2> QED BY <2>1, <2>2, <2>3 DEF DaemonInv
<1> QED BY <1>1, <1>2, <1>3, <1>4

\* main joins the threads in the order of ThreadOrder.
LEMMA JoinStep ==
    ASSUME DaemonInv, Join
    PROVE  DaemonInv'
<1> USE DEF Stack, Process, Worker, Files, Counts
<1>1. /\ main = "join" /\ step \in 1..4
      /\ UNCHANGED <<end, reset, firstRun, normal, freed, told, handlers, thread, spawned,
                     sockets, worker, running, conf, file, manager>>
      /\ \A i \in 1..(step - 1) : thread[ThreadOrder[i]] = "done"
      /\ \/ /\ thread[ThreadOrder[step]] = "done" /\ step' = step + 1 /\ code' = code
            /\ main' = IF step = 4 THEN "free" ELSE "join"
         \/ main' = "exited" /\ code' = "FAILURE" /\ step' = step
  BY Order DEF DaemonInv, Joins, Join, Joined
<1>2. DaemonTypeOK'
  <2>1. step' \in 1..Len(ThreadOrder) + 1
    BY <1>1, Order
  <2>2. {end', handlers', firstRun', normal', running', conf', manager'} \subseteq BOOLEAN
    BY <1>1, Zenon DEF DaemonInv, DaemonTypeOK
  <2>3. code' \in {"SUCCESS", "FAILURE"} /\ main' \in {"join", "free", "exited"}
    BY <1>1 DEF DaemonInv, DaemonTypeOK
  <2> QED BY <1>1, <2>1, <2>2, <2>3 DEF DaemonInv, DaemonTypeOK
<1>3. Threads'
  BY <1>1 DEF DaemonInv, Threads
<1>4. Orderly'
  BY <1>1 DEF DaemonInv, Orderly
<1>5. Joins'
  <2>1. ASSUME main' = "exited" PROVE Joins'
    BY <1>1, <2>1 DEF DaemonInv, Joins
  <2>2. ASSUME main' # "exited" PROVE Joins'
    <3>1. \A i \in 1..step : thread[ThreadOrder[i]] = "done"
      BY <1>1, <2>2
    <3>2. step = 4 => \A t \in Thread : thread[t] = "done"
      BY <3>1, Order
    <3> QED BY <1>1, <2>2, <3>1, <3>2, Order DEF DaemonInv, Joins
  <2> QED BY <2>1, <2>2
<1> QED BY <1>2, <1>3, <1>4, <1>5 DEF DaemonInv

\* main joins the worker after the last thread, and frees then.
LEMMA StopStep ==
    ASSUME DaemonInv, Leave \/ StopWorker \/ JoinWorker \/ Free
    PROVE  DaemonInv'
<1> USE DEF Stack, Process, Worker, Files, Counts
<1>1. DaemonTypeOK'
  <2>1. CASE Leave
    BY <2>1, Order DEF DaemonInv, DaemonTypeOK, Leave
  <2>2. CASE StopWorker \/ JoinWorker
    BY <2>2 DEF DaemonInv, DaemonTypeOK, StopWorker, JoinWorker
  <2>3. CASE Free
    BY <2>3 DEF DaemonInv, DaemonTypeOK, Free
  <2> QED BY <2>1, <2>2, <2>3
<1>2. Threads'
  BY DEF DaemonInv, Threads, Leave, StopWorker, JoinWorker, Free
<1>3. Orderly'
  BY DEF DaemonInv, Orderly, Leave, StopWorker, JoinWorker, Free
<1>4. Joins'
  <2>1. CASE Leave
    BY <2>1, Order DEF DaemonInv, Joins, Leave
  <2>2. CASE StopWorker \/ JoinWorker
    BY <2>2 DEF DaemonInv, DaemonTypeOK, Joins, StopWorker, JoinWorker
  <2>3. CASE Free
    BY <2>3 DEF DaemonInv, DaemonTypeOK, Joins, Free
  <2> QED BY <2>1, <2>2, <2>3
<1> QED BY <1>1, <1>2, <1>3, <1>4 DEF DaemonInv

\* A thread moves only while the process lives, never out of "done" or "none",
\* and the rt thread enters its work only when CANnormal is set.
LEMMA ThreadStep ==
    ASSUME DaemonInv,
           NewConfig \/ NewConfigTorn \/ SetEnd \/ (\E t \in Thread : Test(t) \/ Pass(t))
             \/ (\E t \in IpcThread : RecvFails(t) \/ RecvStuck(t) \/ HandlerStuck(t))
    PROVE  DaemonInv'
<1>1. PICK t \in Thread, s \in {"test", "work", "flag", "stuck", "done"} :
        /\ thread' = [thread EXCEPT ![t] = s]
        /\ thread[t] \in {"test", "work", "flag"}
        /\ t = "rt" /\ s = "work" => normal
        /\ main # "exited"
        /\ UNCHANGED <<main, step, handlers, reset, firstRun, normal, code, spawned, sockets,
                       worker, running, freed, conf, manager>>
        /\ file' \in {"read", "new", "torn"}
        /\ \/ UNCHANGED <<end, told>>
           \/ end' = TRUE /\ told' \in {"config", "other"}
  <2>0. /\ {"consumer"} \subseteq Thread /\ IpcThread \subseteq Thread
        /\ file \in {"read", "new", "torn"} /\ told \in {"nothing", "config", "other"}
    BY DEF DaemonInv, DaemonTypeOK, Thread, IpcThread
  <2>1. CASE NewConfig \/ NewConfigTorn
    BY <2>0, <2>1 DEF NewConfig, NewConfigTorn, Others, Alive, Worker, Counts
  <2>2. CASE SetEnd
    BY <2>0, <2>2 DEF SetEnd, Others, Alive, Worker, Counts
  <2>3. CASE \E t \in Thread : Test(t) \/ Pass(t)
    BY <2>0, <2>3 DEF Test, Pass, Ends, Others, Alive, Worker, Counts
  <2>4. CASE \E t \in IpcThread : RecvFails(t) \/ RecvStuck(t) \/ HandlerStuck(t)
    BY <2>0, <2>4 DEF RecvFails, RecvStuck, HandlerStuck, IpcThread, Others, Alive, Worker, Counts
  <2> QED BY <2>1, <2>2, <2>3, <2>4
<1>2. DaemonTypeOK'
  <2>1. {end', handlers', firstRun', normal', running', conf', manager'} \subseteq BOOLEAN
    <3>1. UNCHANGED <<handlers, firstRun, normal, running, conf, manager>> /\ (end' = end \/ end' = TRUE)
      BY <1>1
    <3> QED BY <3>1, Zenon DEF DaemonInv, DaemonTypeOK
  <2>2. thread' \in [Thread -> {"none", "test", "work", "flag", "stuck", "done"}]
    BY <1>1 DEF DaemonInv, DaemonTypeOK
  <2>3. told' \in {"nothing", "config", "other"}
    BY <1>1 DEF DaemonInv, DaemonTypeOK
  <2> QED BY <1>1, <2>1, <2>2, <2>3 DEF DaemonInv, DaemonTypeOK
<1>3. Threads'
  BY <1>1 DEF DaemonInv, DaemonTypeOK, Threads
<1>4. Joins'
  BY <1>1, Order DEF DaemonInv, DaemonTypeOK, Joins
<1>5. Orderly'
  BY <1>1 DEF DaemonInv, Orderly
<1> QED BY <1>2, <1>3, <1>4, <1>5 DEF DaemonInv

\* Only a node that is not the network manager has a worker, and one that has
\* ended stays so.
LEMMA WorkerStep ==
    ASSUME DaemonInv, WorkerStarts \/ WorkerEnds \/ WorkerHangs
    PROVE  DaemonInv'
<1> USE DEF OthersOfWorker, Stack, Process, Files, Counts, Alive
<1>1. DaemonTypeOK'
  BY DEF DaemonInv, DaemonTypeOK, WorkerStarts, WorkerEnds, WorkerHangs
<1>2. Threads'
  BY DEF DaemonInv, Threads, WorkerStarts, WorkerEnds, WorkerHangs
<1>3. Joins'
  BY DEF DaemonInv, Joins, WorkerStarts, WorkerEnds, WorkerHangs
<1>4. Orderly'
  BY DEF DaemonInv, Orderly, WorkerStarts, WorkerEnds, WorkerHangs
<1> QED BY <1>1, <1>2, <1>3, <1>4 DEF DaemonInv

LEMMA OutsideStep ==
    ASSUME DaemonInv, Signal \/ Supervise
    PROVE  DaemonInv'
<1>1. DaemonTypeOK'
  <2>1. CASE Signal
    BY <2>1 DEF DaemonInv, DaemonTypeOK, Signal, Stack, Process, Worker, Files, Counts
  <2>2. CASE Supervise
    <3>1. step' \in 1..Len(ThreadOrder) + 1
      BY <2>2, Order DEF Supervise
    <3>2. {end', handlers', firstRun', normal', running', conf', manager'} \subseteq BOOLEAN
      <4>1. /\ UNCHANGED manager /\ end' = FALSE /\ handlers' = FALSE /\ firstRun' = TRUE
            /\ normal' = FALSE /\ running' = FALSE /\ conf' = FALSE
        BY <2>2 DEF Supervise
      <4> QED BY <4>1, Zenon DEF DaemonInv, DaemonTypeOK
    <3>3. /\ thread' \in [Thread -> {"none", "test", "work", "flag", "stuck", "done"}]
          /\ spawned' \in [Thread -> 0..1]
      BY <2>2 DEF Supervise
    <3> QED BY <2>2, <3>1, <3>2, <3>3 DEF DaemonInv, DaemonTypeOK, Supervise
  <2> QED BY <2>1, <2>2
<1>2. Threads'
  BY DEF DaemonInv, Threads, Signal, Supervise, Stack, Process, Worker, Files, Counts
<1>3. Joins' /\ Orderly'
  BY DEF DaemonInv, Joins, Orderly, Signal, Supervise, Alive, Stack, Process, Worker, Files, Counts
<1> QED BY <1>1, <1>2, <1>3 DEF DaemonInv

LEMMA DaemonMoves == DaemonInv /\ [DaemonNext]_daemonVars => DaemonInv'
<1> SUFFICES ASSUME DaemonInv, [DaemonNext]_daemonVars PROVE DaemonInv'
  OBVIOUS
<1>1. CASE Load \/ Setup \/ SetupFails
  BY <1>1, StartStep
<1>2. CASE LoopHead
  BY <1>2, LoopHeadStep
<1>3. CASE InitStack
  BY <1>3, InitStackStep
<1>4. CASE Create
  BY <1>4, CreateStep
<1>5. CASE InitFails \/ Run \/ SeeEnd \/ Hang \/ \E cmd \in {"COMM", "APP", "QUIT"} : ResetCommand(cmd)
  BY <1>5, LoopStep
<1>6. CASE Leave \/ StopWorker \/ JoinWorker \/ Free
  BY <1>6, StopStep
<1>7. CASE NewConfig \/ NewConfigTorn \/ SetEnd \/ (\E t \in Thread : Test(t) \/ Pass(t))
             \/ (\E t \in IpcThread : RecvFails(t) \/ RecvStuck(t) \/ HandlerStuck(t))
  BY <1>7, ThreadStep
<1>10. CASE Join
  BY <1>10, JoinStep
<1>11. CASE WorkerStarts \/ WorkerEnds \/ WorkerHangs
  BY <1>11, WorkerStep
<1>8. CASE Signal \/ Supervise
  BY <1>8, OutsideStep
<1>9. CASE UNCHANGED daemonVars
  BY <1>9 DEF daemonVars, DaemonInv, DaemonTypeOK, Threads, Joins, Orderly
<1> QED
  BY <1>1, <1>2, <1>3, <1>4, <1>5, <1>6, <1>7, <1>8, <1>9, <1>10, <1>11
  DEF DaemonNext, Main

\* The inductive invariant holds throughout.
THEOREM DaemonInductive == DaemonSpec => []DaemonInv
BY DaemonStarts, DaemonMoves, PTL DEF DaemonSpec

\* The variables of main.c stay in their types, and no thread is created twice.
THEOREM DaemonTypeCorrect == DaemonSpec => []DaemonTypeOK
<1>1. DaemonInv => DaemonTypeOK
  BY DEF DaemonInv
<1> QED BY <1>1, DaemonInductive, PTL

\* The rt thread is outside the stack while main initializes it, after any
\* number of communication resets.
THEOREM ResetsAreExclusive == DaemonSpec => []ResetExclusive
<1>1. DaemonInv => ResetExclusive
  BY DEF DaemonInv, Threads, ResetExclusive
<1> QED BY <1>1, DaemonInductive, PTL

\* Nothing is freed under a thread, whichever steps failed before.
THEOREM FreesAreAlone == DaemonSpec => []FreedAlone
<1>1. DaemonInv => FreedAlone
  BY DEF DaemonInv, Joins, Orderly, FreedAlone
<1> QED BY <1>1, DaemonInductive, PTL

\* The daemon goes down with the status of success only when it was told to
\* end and has cleared up, whatever failed and however often it was reset.
THEOREM DownOnlyAsTold == DaemonSpec => []DownAsTold
<1>1. DaemonInv => DownAsTold
  BY DEF DaemonInv, DaemonTypeOK, Orderly, DownAsTold
<1> QED BY <1>1, DaemonInductive, PTL

-----------------------------------------------------------------------------
(* The responder thread.                                                   *)

Replies ==
    [version : {0, 130},
     id : Ids \union {"ERROR", "ERROR_UNKNOWN_ID", "ERROR_ABORT", "EMCY_SEND"},
     len : {0, 1}, data : Value \union {None}]

Answer == [to : Client, route : Nat, reply : Replies]

Types ==
    /\ sdoClient \in BOOLEAN /\ freadCache \in BOOLEAN
    /\ route \in [Client -> Nat] /\ \A c \in Client : route[c] =< MaxRestarts[c]
    /\ asked \in [Client -> Sent \union {None}]
    /\ inbox \subseteq Message /\ outbox \subseteq Answer
    /\ job \in Message \union {None}
    /\ phase \in {"recv", "sdo", "add", "send", "hung"}
    /\ (job = None) = (phase = "recv")
    /\ phase = "send" => reply \in Replies
    /\ phase = "add" => job.req.id = "ADD_FILE"
    /\ phase = "sdo" => job.req.id \in SdoIds
    /\ node \in Value
    /\ fate \in [Client -> {"none", "started", "done"}]
    /\ moved \in [Client -> Value \union {None}]
    /\ DOMAIN view = Client

\* Requests on the same route; a request and the answer on its route.
SameRoute(m, n) == m.from = n.from /\ m.route = n.route
OnRoute(m, a) == m.from = a.to /\ m.route = a.route

\* One message per route.
OnePerRoute ==
    /\ \A m, n \in inbox : SameRoute(m, n) => m = n
    /\ \A a, b \in outbox : a.to = b.to /\ a.route = b.route => a = b
    /\ \A m \in inbox, a \in outbox : ~OnRoute(m, a)
    /\ job # None => /\ \A m \in inbox : ~SameRoute(m, job)
                     /\ \A a \in outbox : ~OnRoute(job, a)

\* An answer to a request: one of the errors, or the request's id; for an SDO
\* request it tells how far the transfer got (f) and what it carried (d).
Truthful(req, r, f, d) ==
    /\ r.id \in {"ERROR", "ERROR_UNKNOWN_ID", "ERROR_ABORT", "EMCY_SEND", req.id}
    /\ req.id \in SdoIds =>
          /\ r.version = 0 /\ r.id \in {"ERROR", "ERROR_ABORT", req.id}
          /\ (r.id = "ERROR") = (f = "none")
          /\ req.id \notin FileIds => (r.id = req.id) = (f = "done")
          /\ r.id = req.id /\ r.len # 0 => r.data = d

\* A request has come on the current route of its client or on an earlier one.
Queued(m) ==
    /\ m.route =< route[m.from]
    /\ Waits(m) => asked[m.from] = m.req

Queues ==
    /\ \A m \in inbox : Queued(m) /\ (Waits(m) => fate[m.from] = "none")
    /\ job # None =>
          /\ Queued(job)
          /\ phase = "sdo" /\ Waits(job) => fate[job.from] = "started"
          /\ phase = "send" /\ Waits(job) => Truthful(job.req, reply, fate[job.from], moved[job.from])
    /\ \A a \in outbox :
          /\ a.route =< route[a.to]
          /\ a.route = route[a.to] =>
                asked[a.to] # None /\ Truthful(asked[a.to], a.reply, fate[a.to], moved[a.to])

\* The outcome of a call is seen only between two calls.
Views == \A c \in Client : asked[c] # None => view[c] = NoView

IInv == Types /\ OnePerRoute /\ Queues /\ Views /\ SdoTruthful

-----------------------------------------------------------------------------
(* The invariant is inductive.                                             *)

\* A call that has not ended tells nothing.
LEMMA NothingTold == \A f, d : Told(NoView, f, d)
<1>1. NoView.id \notin SdoIds
  BY DEF NoView, SdoIds, FileIds
<1> QED BY <1>1 DEF Told

LEMMA InitIInv == Init => IInv
<1> SUFFICES ASSUME Init PROVE IInv
  OBVIOUS
<1>1. Types
  <2>1. \A c \in Client : 0 =< MaxRestarts[c]
    BY RestartsAssumption
  <2> QED BY <2>1 DEF Init, Types
<1>2. OnePerRoute /\ Queues /\ Views
  BY DEF Init, OnePerRoute, Queues, Views
<1>3. SdoTruthful
  BY NothingTold DEF Init, SdoTruthful
<1> QED BY <1>1, <1>2, <1>3 DEF IInv

\* A new request is the only message on its route.
LEMMA AskStep ==
    ASSUME IInv, NEW c \in Client, NEW req \in Sent, Ask(c, req)
    PROVE  IInv'
<1> DEFINE new == [from |-> c, route |-> route[c], req |-> req]
<1>1. /\ asked[c] = None /\ asked' = [asked EXCEPT ![c] = req]
      /\ inbox' = inbox \union {new}
      /\ view' = [view EXCEPT ![c] = NoView]
      /\ fate' = [fate EXCEPT ![c] = "none"] /\ moved' = [moved EXCEPT ![c] = None]
      /\ UNCHANGED <<sdoClient, freadCache, route, job, phase, reply, outbox, node>>
  BY DEF Ask, Fixed
<1>2. new \in Message /\ new.from = c /\ new.route = route[c] /\ new.req = req
  BY DEF IInv, Types, Message
<1>3. req # None
  BY NoneAssumption
<1>4. Types'
  BY <1>1, <1>2 DEF IInv, Types
<1>5. /\ \A m \in inbox : ~SameRoute(m, new)
      /\ \A a \in outbox : ~OnRoute(new, a)
      /\ job # None => ~SameRoute(job, new)
  <2>1. ASSUME NEW m \in Message, Queued(m), SameRoute(m, new) PROVE FALSE
    BY <1>1, <1>2, <2>1, NoneAssumption DEF Queued, SameRoute, Waits, Message
  <2>2. ASSUME NEW a \in outbox, OnRoute(new, a) PROVE FALSE
    BY <1>1, <1>2, <2>2 DEF OnRoute, IInv, Queues
  <2> QED BY <2>1, <2>2 DEF IInv, Queues, Types
<1> HIDE DEF new
<1>6. OnePerRoute'
  <2>1. \A m, n \in inbox' : SameRoute(m, n) => m = n
    BY <1>1, <1>5 DEF IInv, OnePerRoute, SameRoute
  <2>2. \A m \in inbox', a \in outbox' : ~OnRoute(m, a)
    BY <1>1, <1>5 DEF IInv, OnePerRoute, OnRoute
  <2>3. job' # None => \A m \in inbox' : ~SameRoute(m, job')
    BY <1>1, <1>5 DEF IInv, OnePerRoute, SameRoute
  <2> QED BY <1>1, <2>1, <2>2, <2>3 DEF IInv, OnePerRoute, SameRoute, OnRoute
<1>7. ASSUME NEW m \in Message, Queued(m), ~SameRoute(m, new)
      PROVE  /\ Queued(m)'
             /\ Waits(m)' => m.from # c
             /\ Waits(m)' = Waits(m)
  BY <1>1, <1>2, <1>7 DEF Queued, Waits, SameRoute, Message, IInv, Types
<1>8. Queues'
  <2>1. \A m \in inbox' : Queued(m)' /\ (Waits(m)' => fate'[m.from] = "none")
    <3> TAKE m \in inbox'
    <3>1. CASE m = new
      BY <1>1, <1>2, <3>1 DEF Queued, Waits, IInv, Types
    <3>2. CASE m \in inbox
      <4>1. m \in Message /\ Queued(m) /\ ~SameRoute(m, new) /\ (Waits(m) => fate[m.from] = "none")
        BY <1>5, <3>2 DEF IInv, Types, Queues
      <4>2. Queued(m)' /\ (Waits(m)' => m.from # c) /\ Waits(m)' = Waits(m)
        BY <4>1, <1>7
      <4>3. m.from \in Client
        BY <4>1 DEF Message
      <4> QED BY <1>1, <4>1, <4>2, <4>3 DEF IInv, Types
    <3> QED BY <1>1, <3>1, <3>2
  <2>2. job' # None =>
          /\ Queued(job)'
          /\ phase' = "sdo" /\ Waits(job)' => fate'[job'.from] = "started"
          /\ phase' = "send" /\ Waits(job)' => Truthful(job.req, reply, fate[job.from], moved[job.from])'
    <3> SUFFICES ASSUME job # None
                 PROVE  /\ Queued(job)'
                        /\ phase = "sdo" /\ Waits(job)' => fate'[job.from] = "started"
                        /\ phase = "send" /\ Waits(job)' => Truthful(job.req, reply, fate'[job.from], moved'[job.from])
      BY <1>1
    <3>1. /\ job \in Message /\ Queued(job) /\ ~SameRoute(job, new)
          /\ phase = "sdo" /\ Waits(job) => fate[job.from] = "started"
          /\ phase = "send" /\ Waits(job) => Truthful(job.req, reply, fate[job.from], moved[job.from])
      BY <1>5 DEF IInv, Types, Queues
    <3>2. job.from \in Client /\ job' = job /\ route' = route /\ (Waits(job) => job.from # c)
      BY <1>1, <1>2, <3>1 DEF Message, Waits, SameRoute
    <3>3. Waits(job)' = Waits(job) /\ Queued(job)'
      BY <1>1, <3>1, <3>2 DEF Queued, Waits, IInv, Types
    <3>4. Waits(job) => fate'[job.from] = fate[job.from] /\ moved'[job.from] = moved[job.from]
      BY <1>1, <3>2 DEF IInv, Types
    <3> QED BY <3>1, <3>3, <3>4
  <2>3. \A a \in outbox' :
          /\ a.route =< route'[a.to]
          /\ a.route = route'[a.to] =>
                asked'[a.to] # None /\ Truthful(asked'[a.to], a.reply, fate'[a.to], moved'[a.to])
    <3> TAKE a \in outbox'
    <3>1. a \in outbox /\ a.to \in Client /\ (a.route = route[a.to] => a.to # c)
      BY <1>1, <1>2, <1>5 DEF IInv, Types, Answer, OnRoute
    <3>2. a.to # c => asked'[a.to] = asked[a.to] /\ fate'[a.to] = fate[a.to] /\ moved'[a.to] = moved[a.to]
      BY <1>1, <3>1 DEF IInv, Types
    <3> QED BY <1>1, <3>1, <3>2 DEF IInv, Queues
  <2> QED BY <2>1, <2>2, <2>3 DEF Queues, Queued, Waits, Truthful
<1>9. Views' /\ SdoTruthful'
  <2>1. view'[c] = NoView /\ \A d \in Client \ {c} : view'[d] = view[d] /\ asked'[d] = asked[d] /\ fate'[d] = fate[d] /\ moved'[d] = moved[d]
    BY <1>1 DEF IInv, Types
  <2>2. \A f, d : Told(NoView, f, d)
    BY NothingTold
  <2> QED BY <2>1, <2>2 DEF Views, SdoTruthful, IInv
<1> QED BY <1>4, <1>6, <1>8, <1>9 DEF IInv

\* A restart leaves all messages of the old process on earlier routes.
LEMMA RestartStep ==
    ASSUME IInv, NEW c \in Client, Restart(c)
    PROVE  IInv'
<1>1. /\ route[c] < MaxRestarts[c] /\ route' = [route EXCEPT ![c] = @ + 1]
      /\ asked' = [asked EXCEPT ![c] = None]
      /\ view' = [view EXCEPT ![c] = NoView]
      /\ fate' = [fate EXCEPT ![c] = "none"] /\ moved' = [moved EXCEPT ![c] = None]
      /\ UNCHANGED <<sdoClient, freadCache, inbox, job, phase, reply, outbox, node>>
  BY DEF Restart, Fixed
<1>2. /\ route' \in [Client -> Nat] /\ route'[c] = route[c] + 1 /\ route[c] \in Nat
      /\ \A d \in Client \ {c} : /\ route'[d] = route[d] /\ asked'[d] = asked[d]
                                 /\ view'[d] = view[d] /\ fate'[d] = fate[d] /\ moved'[d] = moved[d]
  BY <1>1 DEF IInv, Types
<1>3. Types'
  <2>1. \A d \in Client : route'[d] =< MaxRestarts[d]
    BY <1>1, <1>2, RestartsAssumption DEF IInv, Types
  <2> QED BY <1>1, <1>2, <2>1 DEF IInv, Types
<1>4. OnePerRoute'
  BY <1>1 DEF IInv, OnePerRoute, SameRoute, OnRoute
<1>5. Queues'
  <2>1. ASSUME NEW m \in Message, m.route =< route[m.from]
        PROVE  /\ m.route =< route'[m.from] /\ m.from \in Client
               /\ m.route = route'[m.from] => m.from # c /\ m.route = route[m.from]
    BY <1>2, <2>1 DEF Message
  <2>2. \A m \in inbox' : Queued(m)' /\ (Waits(m)' => fate'[m.from] = "none")
    <3> TAKE m \in inbox'
    <3>1. m \in Message /\ Queued(m) /\ (Waits(m) => fate[m.from] = "none")
      BY <1>1 DEF IInv, Types, Queues
    <3> QED BY <1>2, <2>1, <3>1 DEF Queued, Waits
  <2>3. job' # None =>
          /\ Queued(job)'
          /\ phase' = "sdo" /\ Waits(job)' => fate'[job'.from] = "started"
          /\ phase' = "send" /\ Waits(job)' => Truthful(job.req, reply, fate[job.from], moved[job.from])'
    <3> SUFFICES ASSUME job # None
                 PROVE  /\ Queued(job)'
                        /\ phase = "sdo" /\ Waits(job)' => fate'[job.from] = "started"
                        /\ phase = "send" /\ Waits(job)' => Truthful(job.req, reply, fate'[job.from], moved'[job.from])
      BY <1>1
    <3>1. /\ job \in Message /\ Queued(job) /\ job' = job
          /\ phase = "sdo" /\ Waits(job) => fate[job.from] = "started"
          /\ phase = "send" /\ Waits(job) => Truthful(job.req, reply, fate[job.from], moved[job.from])
      BY <1>1 DEF IInv, Types, Queues
    <3>2. /\ job.route =< route'[job.from] /\ job.from \in Client
          /\ job.route = route'[job.from] => job.from # c /\ job.route = route[job.from]
      BY <2>1, <3>1 DEF Queued
    <3>3. Waits(job)' => Waits(job) /\ fate'[job.from] = fate[job.from] /\ moved'[job.from] = moved[job.from] /\ asked'[job.from] = asked[job.from]
      BY <1>2, <3>1, <3>2 DEF Waits
    <3> QED BY <3>1, <3>2, <3>3 DEF Queued
  <2>4. \A a \in outbox' :
          /\ a.route =< route'[a.to]
          /\ a.route = route'[a.to] =>
                asked'[a.to] # None /\ Truthful(asked'[a.to], a.reply, fate'[a.to], moved'[a.to])
    <3> TAKE a \in outbox'
    <3>1. a \in outbox /\ a.to \in Client /\ a.route \in Nat /\ a.route =< route[a.to]
      BY <1>1 DEF IInv, Types, Answer, Queues
    <3>2. /\ a.route =< route'[a.to]
          /\ a.route = route'[a.to] => a.to # c /\ a.route = route[a.to]
      BY <1>2, <3>1
    <3> QED BY <1>2, <3>1, <3>2 DEF IInv, Queues
  <2> QED BY <2>2, <2>3, <2>4 DEF Queues, Truthful
<1>6. Views' /\ SdoTruthful'
  <2>1. asked'[c] = None /\ view'[c] = NoView
    BY <1>1 DEF IInv, Types
  <2>2. \A f, d : Told(NoView, f, d)
    BY NothingTold
  <2> QED BY <1>2, <2>1, <2>2 DEF Views, SdoTruthful, IInv
<1> QED BY <1>3, <1>4, <1>5, <1>6 DEF IInv

\* What a client makes of a truthful answer to an SDO request.
LEMMA OutcomeTruthful ==
    ASSUME NEW req \in Request, NEW r \in Replies, NEW f, NEW d,
           Truthful(req, r, f, d), req.id \in SdoIds
    PROVE  /\ Outcome(req, r) \in {"returned", "abort", "generic error"}
           /\ (Outcome(req, r) = "generic error") = (f = "none")
           /\ req.id \notin FileIds => (Outcome(req, r) = "returned") = (f = "done")
           /\ Outcome(req, r) = "returned" /\ Unpacked(r) # None => Unpacked(r) = d
<1>1. /\ r.version = 0 /\ r.id \in {"ERROR", "ERROR_ABORT", req.id}
      /\ (r.id = "ERROR") = (f = "none")
      /\ req.id \notin FileIds => (r.id = req.id) = (f = "done")
      /\ r.id = req.id /\ r.len # 0 => r.data = d
  BY DEF Truthful
<1>2. req.id \notin {"ERROR", "ERROR_ABORT", "ERROR_UNKNOWN_ID"}
  BY DEF SdoIds, FileIds
<1>3. CASE r.id = "ERROR"
  BY <1>1, <1>2, <1>3 DEF Outcome
<1>4. CASE r.id = "ERROR_ABORT"
  BY <1>1, <1>2, <1>4 DEF Outcome
<1>5. CASE r.id = req.id
  BY <1>1, <1>2, <1>5 DEF Outcome, Unpacked
<1> QED BY <1>1, <1>3, <1>4, <1>5

\* An answer arrives: no other message is on the client's current route.
LEMMA ReceiveStep ==
    ASSUME IInv, NEW c \in Client, Receive(c)
    PROVE  IInv'
<1>1. PICK a \in outbox :
        /\ a.to = c /\ outbox' = outbox \ {a}
        /\ IF a.route = route[c]
             THEN /\ asked' = [asked EXCEPT ![c] = None]
                  /\ view' = [view EXCEPT ![c] =
                        [id |-> asked[c].id, how |-> Outcome(asked[c], a.reply),
                         data |-> IF Outcome(asked[c], a.reply) = "returned"
                                    THEN Unpacked(a.reply) ELSE None]]
             ELSE UNCHANGED <<asked, view>>
  BY DEF Receive
<1>2. UNCHANGED <<sdoClient, freadCache, route, inbox, job, phase, reply, node, fate, moved>>
  BY DEF Receive, Fixed, World
<1>3. /\ \A d \in Client \ {c} : asked'[d] = asked[d] /\ view'[d] = view[d]
      /\ a.route # route[c] => asked' = asked /\ view' = view
      /\ asked' \in [Client -> Sent \union {None}] /\ DOMAIN view' = Client
  BY <1>1 DEF IInv, Types
<1>4. Types'
  BY <1>1, <1>2, <1>3 DEF IInv, Types
<1>5. OnePerRoute'
  BY <1>1, <1>2 DEF IInv, OnePerRoute, SameRoute, OnRoute
<1>6. Queues'
  <2>1. ASSUME NEW m \in inbox PROVE Waits(m) => asked'[m.from] = asked[m.from]
    <3>1. m.from \in Client /\ ~OnRoute(m, a)
      BY <1>1 DEF IInv, Types, Message, OnePerRoute
    <3> QED BY <1>1, <1>3, <3>1 DEF OnRoute, Waits
  <2>2. job # None => (Waits(job) => asked'[job.from] = asked[job.from])
    <3> SUFFICES ASSUME job # None, Waits(job) PROVE asked'[job.from] = asked[job.from]
      OBVIOUS
    <3>1. job.from \in Client /\ ~OnRoute(job, a)
      BY <1>1 DEF IInv, Types, Message, OnePerRoute
    <3> QED BY <1>1, <1>3, <3>1 DEF OnRoute, Waits
  <2>3. ASSUME NEW b \in outbox' PROVE b.route = route[b.to] => asked'[b.to] = asked[b.to]
    <3>1. b \in outbox /\ b # a /\ b.to \in Client
      BY <1>1 DEF IInv, Types, Answer
    <3>2. ~(a.to = b.to /\ a.route = b.route)
      BY <3>1 DEF IInv, OnePerRoute
    <3> QED BY <1>1, <1>3, <3>1, <3>2
  <2>4. \A m \in inbox' : Queued(m)' /\ (Waits(m)' => fate'[m.from] = "none")
    BY <1>2, <2>1 DEF IInv, Queues, Queued, Waits
  <2>5. job' # None =>
          /\ Queued(job)'
          /\ phase' = "sdo" /\ Waits(job)' => fate'[job'.from] = "started"
          /\ phase' = "send" /\ Waits(job)' => Truthful(job.req, reply, fate[job.from], moved[job.from])'
    <3>1. job # None =>
            /\ Queued(job)
            /\ phase = "sdo" /\ Waits(job) => fate[job.from] = "started"
            /\ phase = "send" /\ Waits(job) => Truthful(job.req, reply, fate[job.from], moved[job.from])
      BY DEF IInv, Queues
    <3> QED BY <1>2, <2>2, <3>1 DEF Queued, Waits, Truthful
  <2>6. \A b \in outbox' :
          /\ b.route =< route'[b.to]
          /\ b.route = route'[b.to] =>
                asked'[b.to] # None /\ Truthful(asked'[b.to], b.reply, fate'[b.to], moved'[b.to])
    <3> TAKE b \in outbox'
    <3>1. /\ b.route =< route[b.to]
          /\ b.route = route[b.to] =>
                asked[b.to] # None /\ Truthful(asked[b.to], b.reply, fate[b.to], moved[b.to])
      BY <1>1 DEF IInv, Queues
    <3> QED BY <1>2, <2>3, <3>1
  <2> QED BY <2>4, <2>5, <2>6 DEF Queues, Truthful
<1>7. Views' /\ SdoTruthful'
  <2>1. CASE a.route # route[c]
    BY <1>2, <1>3, <2>1 DEF IInv, Views, SdoTruthful
  <2>2. CASE a.route = route[c]
    <3>1. asked'[c] = None
      BY <1>1, <2>2 DEF IInv, Types
    <3>2. view'[c] = [id |-> asked[c].id, how |-> Outcome(asked[c], a.reply),
                      data |-> IF Outcome(asked[c], a.reply) = "returned"
                                 THEN Unpacked(a.reply) ELSE None]
      BY <1>1, <2>2 DEF IInv, Types
    <3>3. asked[c] \in Sent /\ Truthful(asked[c], a.reply, fate[c], moved[c])
      BY <1>1, <2>2 DEF IInv, Types, Queues
    <3>4. asked[c] \in Request /\ a.reply \in Replies
      BY <3>3, SentAssumption DEF IInv, Types, Answer
    <3>5. asked[c].id \in SdoIds =>
            /\ Outcome(asked[c], a.reply) \in {"returned", "abort", "generic error"}
            /\ (Outcome(asked[c], a.reply) = "generic error") = (fate[c] = "none")
            /\ asked[c].id \notin FileIds =>
                  (Outcome(asked[c], a.reply) = "returned") = (fate[c] = "done")
            /\ Outcome(asked[c], a.reply) = "returned" /\ Unpacked(a.reply) # None =>
                  Unpacked(a.reply) = moved[c]
      BY <3>3, <3>4, OutcomeTruthful
    <3>6. /\ view'[c].id = asked[c].id /\ view'[c].how = Outcome(asked[c], a.reply)
          /\ view'[c].data # None =>
                Outcome(asked[c], a.reply) = "returned" /\ view'[c].data = Unpacked(a.reply)
      BY <3>2
    <3>7. Views'
      BY <1>3, <3>1 DEF IInv, Views
    <3>8. SdoTruthful'
      <4>1. Told(view'[c], fate[c], moved[c])
        BY <3>5, <3>6 DEF Told
      <4> QED BY <1>2, <1>3, <4>1 DEF IInv, SdoTruthful
    <3> QED BY <3>7, <3>8
  <2> QED BY <2>1, <2>2
<1> QED BY <1>4, <1>5, <1>6, <1>7 DEF IInv

\* A request is taken: dropped, refused or begun.
LEMMA TakeStep ==
    ASSUME IInv, NEW c \in Client, Take(c)
    PROVE  IInv'
<1>1. PICK m \in inbox :
        /\ m.from = c /\ phase = "recv" /\ inbox' = inbox \ {m}
        /\ \/ UNCHANGED <<job, phase, reply, fate>>
           \/ /\ job' = m /\ phase' = "sdo" /\ m.req.id \in SdoIds /\ reply' = reply
              /\ fate' = IF Waits(m) THEN [fate EXCEPT ![c] = "started"] ELSE fate
           \/ /\ job' = m /\ phase' = "add" /\ m.req.id = "ADD_FILE"
              /\ UNCHANGED <<reply, fate>>
           \/ job' = m /\ phase' = "send" /\ reply' = Refusal(m.req) /\ fate' = fate
  BY DEF Take, Adds, Transfers
<1>2. UNCHANGED <<sdoClient, freadCache, outbox, route, asked, view, node, moved>>
  BY DEF Take, Fixed, Clients
<1>3. /\ m \in Message /\ m # None /\ m.req \in Request /\ job = None
      /\ Queued(m) /\ (Waits(m) => fate[c] = "none")
  BY <1>1, NoneAssumption, SentAssumption DEF IInv, Types, Queues, Message
<1>4. /\ Refusal(m.req) \in Replies
      /\ Truthful(m.req, Refusal(m.req), "none", moved[c])
  BY <1>3 DEF Refusal, UnknownId, Error, Short, Replies, Truthful, SdoIds, FileIds, Ids, Request
<1>5. /\ fate' \in [Client -> {"none", "started", "done"}]
      /\ \A d \in Client : d # c \/ ~Waits(m) => fate'[d] = fate[d]
      /\ phase' = "sdo" /\ Waits(m) => fate'[c] = "started"
      /\ phase' # "sdo" => fate' = fate
  BY <1>1 DEF IInv, Types
<1>6. Types'
  <2>1. /\ job' \in Message \union {None}
        /\ phase' \in {"recv", "sdo", "add", "send", "hung"}
        /\ (job' = None) = (phase' = "recv")
        /\ phase' = "send" => reply' \in Replies
        /\ phase' = "add" => job'.req.id = "ADD_FILE"
        /\ phase' = "sdo" => job'.req.id \in SdoIds
    BY <1>1, <1>3, <1>4
  <2> QED BY <1>1, <1>2, <1>5, <2>1 DEF IInv, Types
<1>7. \A n \in inbox' : ~SameRoute(n, m)
  BY <1>1 DEF IInv, OnePerRoute
<1>8. \A a \in outbox : ~OnRoute(m, a)
  BY <1>1 DEF IInv, OnePerRoute
<1>9. OnePerRoute'
  <2>1. job' \in {m, None}
    BY <1>1, <1>3
  <2> QED BY <1>1, <1>2, <1>7, <1>8, <2>1 DEF IInv, OnePerRoute, SameRoute, OnRoute
<1>10. Queues'
  <2>1. \A n \in inbox' : Queued(n)' /\ (Waits(n)' => fate'[n.from] = "none")
    <3> TAKE n \in inbox'
    <3>1. n \in inbox /\ n.from \in Client /\ Queued(n) /\ (Waits(n) => fate[n.from] = "none")
      BY <1>1 DEF IInv, Types, Queues, Message
    <3>2. Waits(n) => n.from # c \/ ~Waits(m)
      BY <1>1, <1>7 DEF SameRoute, Waits
    <3> QED BY <1>2, <1>5, <3>1, <3>2 DEF Queued, Waits
  <2>2. job' # None =>
          /\ Queued(job)'
          /\ phase' = "sdo" /\ Waits(job)' => fate'[job'.from] = "started"
          /\ phase' = "send" /\ Waits(job)' => Truthful(job.req, reply, fate[job.from], moved[job.from])'
    <3>1. job' # None => job' = m /\ m.from = c
      BY <1>1, <1>3
    <3>2. phase' = "send" => reply' = Refusal(m.req) /\ fate' = fate
      BY <1>1
    <3> QED BY <1>2, <1>3, <1>4, <1>5, <3>1, <3>2 DEF Queued, Waits
  <2>3. \A a \in outbox' :
          /\ a.route =< route'[a.to]
          /\ a.route = route'[a.to] =>
                asked'[a.to] # None /\ Truthful(asked'[a.to], a.reply, fate'[a.to], moved'[a.to])
    <3> TAKE a \in outbox'
    <3>1. a \in outbox /\ a.to \in Client /\ ~OnRoute(m, a)
      BY <1>2, <1>8 DEF IInv, Types, Answer
    <3>2. a.route = route[a.to] => fate'[a.to] = fate[a.to]
      BY <1>1, <1>5, <3>1 DEF Waits, OnRoute
    <3> QED BY <1>2, <3>1, <3>2 DEF IInv, Queues
  <2> QED BY <2>1, <2>2, <2>3 DEF Queues, Truthful
<1>11. Views' /\ SdoTruthful'
  <2>1. Waits(m) => view[c] = NoView
    BY <1>1, <1>3, NoneAssumption DEF IInv, Views, Queued, Message
  <2>2. \A f, d : Told(NoView, f, d)
    BY NothingTold
  <2> QED BY <1>2, <1>5, <2>1, <2>2 DEF IInv, Views, SdoTruthful
<1> QED BY <1>6, <1>9, <1>10, <1>11 DEF IInv

\* The operation of a request has ended with an answer that tells the truth
\* about it; of the daemon's state only the answer and the phase change.
LEMMA OperationStep ==
    ASSUME IInv, job # None, phase # "send", phase' = "send", reply' \in Replies,
           fate' \in [Client -> {"none", "started", "done"}],
           moved' \in [Client -> Value \union {None}],
           \A e \in Client : e # job.from \/ ~Waits(job) =>
                fate'[e] = fate[e] /\ moved'[e] = moved[e],
           Waits(job) => Truthful(job.req, reply', fate'[job.from], moved'[job.from]),
           node' \in Value,
           UNCHANGED <<sdoClient, freadCache, route, asked, inbox, job, outbox, view>>
    PROVE  IInv'
<1>1. job \in Message /\ Queued(job) /\ job.from \in Client
  BY DEF IInv, Types, Queues, Message
<1>4. Types'
  BY <1>1 DEF IInv, Types
<1>5. OnePerRoute'
  BY DEF IInv, OnePerRoute, SameRoute, OnRoute
<1>6. Queues'
  <2>1. \A m \in inbox' : Queued(m)' /\ (Waits(m)' => fate'[m.from] = "none")
    <3> TAKE m \in inbox'
    <3>1. m \in inbox /\ m.from \in Client /\ ~SameRoute(m, job)
      BY DEF IInv, Types, Message, OnePerRoute
    <3>2. Waits(m) => fate'[m.from] = fate[m.from]
      BY <3>1 DEF Waits, SameRoute
    <3> QED BY <3>1, <3>2 DEF IInv, Queues, Queued, Waits
  <2>2. Queued(job)' /\ (Waits(job)' => Truthful(job.req, reply, fate[job.from], moved[job.from])')
    BY <1>1 DEF Queued, Waits
  <2>3. \A a \in outbox' :
          /\ a.route =< route'[a.to]
          /\ a.route = route'[a.to] =>
                asked'[a.to] # None /\ Truthful(asked'[a.to], a.reply, fate'[a.to], moved'[a.to])
    <3> TAKE a \in outbox'
    <3>1. a \in outbox /\ a.to \in Client /\ ~OnRoute(job, a)
      BY DEF IInv, Types, Answer, OnePerRoute
    <3>2. a.route = route[a.to] => fate'[a.to] = fate[a.to] /\ moved'[a.to] = moved[a.to]
      BY <3>1 DEF Waits, OnRoute
    <3> QED BY <3>1, <3>2 DEF IInv, Queues
  <2> QED BY <2>1, <2>2, <2>3 DEF Queues, Truthful
<1>7. Views' /\ SdoTruthful'
  <2>1. Waits(job) => view[job.from] = NoView
    BY <1>1, NoneAssumption DEF IInv, Views, Queued, Message
  <2>2. \A f, d : Told(NoView, f, d)
    BY NothingTold
  <2> QED BY <1>1, <2>1, <2>2 DEF IInv, Views, SdoTruthful
<1> QED BY <1>4, <1>5, <1>6, <1>7 DEF IInv

LEMMA SdoEndStep ==
    ASSUME IInv, NEW res \in {"done", "aborted", "long"}, SdoEnd(res)
    PROVE  IInv'
<1> DEFINE carried == res = "done" /\ job.req.id \notin FileIds
<1>1. /\ phase = "sdo" /\ phase' = "send" /\ reply' = SdoReply(job.req, res, node')
      /\ node' \in NodeAfter(job.req, res)
      /\ IF Waits(job) /\ carried
           THEN /\ fate' = [fate EXCEPT ![job.from] = "done"]
                /\ moved' = [moved EXCEPT ![job.from] = node']
           ELSE UNCHANGED <<fate, moved>>
      /\ UNCHANGED <<sdoClient, freadCache, route, asked, inbox, job, outbox, view>>
  BY DEF SdoEnd, Fixed, Clients
<1>2. /\ job # None /\ job \in Message /\ job.from \in Client
      /\ job.req \in Request /\ job.req.id \in SdoIds
  BY <1>1, SentAssumption DEF IInv, Types, Message
<1>3. Waits(job) => fate[job.from] = "started"
  BY <1>1, <1>2 DEF IInv, Queues
<1>4. /\ node' \in Value
      /\ job.req.id = "SDO_WRITE" /\ res = "done" => node' = job.req.value
  BY <1>1, <1>2 DEF NodeAfter, IInv, Types, Request
<1>5. /\ reply' \in Replies /\ reply'.version = 0
      /\ reply'.id = IF res = "done" THEN job.req.id ELSE "ERROR_ABORT"
      /\ res = "done" /\ reply'.len # 0 => job.req.id = "SDO_WRITE" /\ reply'.data = job.req.value
  <2>1. CASE res # "done"
    BY <1>1, <2>1 DEF SdoReply, make_sdo_abort_msg, Short, Replies
  <2>2. CASE res = "done" /\ job.req.id = "SDO_WRITE"
    BY <1>1, <1>2, <2>2 DEF SdoReply, Echo, Replies, Request, Ids
  <2>3. CASE res = "done" /\ job.req.id = "SDO_READ"
    <3>1. Echo(job.req) = [version |-> 0, id |-> "SDO_READ", len |-> 0, data |-> None]
      BY <2>3 DEF Echo, Short
    <3>2. reply' = [version |-> 0, id |-> "SDO_READ", len |-> 0, data |-> node']
      BY <1>1, <2>3, <3>1 DEF SdoReply
    <3> QED BY <1>4, <2>3, <3>2 DEF Replies, Ids, SdoIds
  <2>4. CASE res = "done" /\ job.req.id \in FileIds
    BY <1>1, <1>2, <2>4 DEF SdoReply, Echo, Short, Replies, FileIds, Ids, SdoIds
  <2> QED BY <1>2, <2>1, <2>2, <2>3, <2>4 DEF SdoIds
<1>6. /\ fate' \in [Client -> {"none", "started", "done"}]
      /\ moved' \in [Client -> Value \union {None}]
      /\ \A e \in Client : e # job.from \/ ~Waits(job) =>
            fate'[e] = fate[e] /\ moved'[e] = moved[e]
  BY <1>1, <1>2, <1>4 DEF IInv, Types
<1>7. ASSUME Waits(job)
      PROVE  Truthful(job.req, reply', fate'[job.from], moved'[job.from])
  <2>1. /\ carried => fate'[job.from] = "done" /\ moved'[job.from] = node'
        /\ ~carried => fate'[job.from] = "started"
    BY <1>1, <1>2, <1>3, <1>7 DEF IInv, Types
  <2>2. job.req.id \notin {"ERROR", "ERROR_ABORT"}
    BY <1>2 DEF SdoIds, FileIds
  <2>3. "SDO_WRITE" \notin FileIds
    BY DEF FileIds
  <2> HIDE DEF SdoIds, FileIds
  <2> QED BY <1>2, <1>4, <1>5, <2>1, <2>2, <2>3 DEF Truthful
<1> HIDE DEF carried
<1> QED BY <1>1, <1>2, <1>4, <1>5, <1>6, <1>7, OperationStep

LEMMA AddEndStep ==
    ASSUME IInv, NEW fails \in BOOLEAN, AddEnd(fails)
    PROVE  IInv'
<1>1. /\ phase = "add" /\ phase' = "send" /\ reply' = AddReply(job.req, fails)
      /\ UNCHANGED <<sdoClient, freadCache, route, asked, inbox, job, outbox, view, node, fate, moved>>
  BY DEF AddEnd, Fixed, Clients, World
<1>2. /\ job # None /\ job \in Message /\ job.req \in Request /\ job.req.id = "ADD_FILE"
      /\ node' \in Value
  BY <1>1, SentAssumption DEF IInv, Types, Message
<1>3. reply' \in Replies
  BY <1>1, <1>2 DEF AddReply, Echo, Short, Replies, Request, Ids
<1>4. Truthful(job.req, reply', fate'[job.from], moved'[job.from])
  BY <1>1, <1>2 DEF Truthful, AddReply, Echo, Short, SdoIds, FileIds
<1>5. /\ fate' \in [Client -> {"none", "started", "done"}]
      /\ moved' \in [Client -> Value \union {None}]
      /\ \A e \in Client : fate'[e] = fate[e] /\ moved'[e] = moved[e]
  BY <1>1 DEF IInv, Types
<1> QED BY <1>1, <1>2, <1>3, <1>4, <1>5, OperationStep

\* An fcache_add that does not return changes nothing else.
LEMMA AddHangsStep ==
    ASSUME IInv, AddHangs
    PROVE  IInv'
<1>1. /\ phase = "add" /\ phase' = "hung"
      /\ UNCHANGED <<sdoClient, freadCache, route, asked, inbox, job, reply, outbox, view,
                     node, fate, moved>>
  BY DEF AddHangs, Fixed, Clients, World
<1>2. Types' /\ OnePerRoute'
  BY <1>1 DEF IInv, Types, OnePerRoute, SameRoute, OnRoute
<1>3. Queues'
  <2>1. job' # None => Queued(job)'
    BY <1>1 DEF IInv, Queues, Queued, Waits
  <2>2. \A m \in inbox' : Queued(m)' /\ (Waits(m)' => fate'[m.from] = "none")
    BY <1>1 DEF IInv, Queues, Queued, Waits
  <2> QED BY <1>1, <2>1, <2>2 DEF IInv, Queues, Truthful
<1>4. Views' /\ SdoTruthful'
  BY <1>1 DEF IInv, Views, SdoTruthful
<1> QED BY <1>2, <1>3, <1>4 DEF IInv

\* The answer leaves on the route its request came on.
LEMMA SendStep ==
    ASSUME IInv, Send
    PROVE  IInv'
<1> DEFINE new == [to |-> job.from, route |-> job.route, reply |-> reply]
<1>1. /\ phase = "send" /\ outbox' = outbox \union {new} /\ job' = None /\ phase' = "recv"
      /\ UNCHANGED <<sdoClient, freadCache, inbox, route, asked, view, node, fate, moved>>
  BY DEF Send, Header, Fixed, Clients, World
<1>2. /\ job # None /\ job \in Message /\ new \in Answer
      /\ new.to = job.from /\ new.route = job.route /\ new.reply = reply
  BY <1>1 DEF IInv, Types, Message, Answer
<1>3. Queued(job) /\ (Waits(job) => Truthful(job.req, reply, fate[job.from], moved[job.from]))
  BY <1>1, <1>2 DEF IInv, Queues
<1> HIDE DEF new
<1>4. Types'
  BY <1>1, <1>2 DEF IInv, Types
<1>5. OnePerRoute'
  <2>1. \A a \in outbox : ~(a.to = new.to /\ a.route = new.route)
    BY <1>2 DEF IInv, OnePerRoute, OnRoute
  <2>2. \A m \in inbox : ~OnRoute(m, new)
    BY <1>2 DEF IInv, OnePerRoute, OnRoute, SameRoute
  <2>3. \A a, b \in outbox' : a.to = b.to /\ a.route = b.route => a = b
    BY <1>1, <2>1 DEF IInv, OnePerRoute
  <2> QED BY <1>1, <2>2, <2>3 DEF IInv, OnePerRoute, OnRoute, SameRoute
<1>6. Queues'
  <2>1. /\ new.route =< route[new.to]
        /\ new.route = route[new.to] =>
              asked[new.to] # None /\ Truthful(asked[new.to], new.reply, fate[new.to], moved[new.to])
    BY <1>2, <1>3, NoneAssumption DEF Queued, Waits, Message
  <2>2. \A a \in outbox' :
          /\ a.route =< route'[a.to]
          /\ a.route = route'[a.to] =>
                asked'[a.to] # None /\ Truthful(asked'[a.to], a.reply, fate'[a.to], moved'[a.to])
    BY <1>1, <2>1 DEF IInv, Queues
  <2>3. \A m \in inbox' : Queued(m)' /\ (Waits(m)' => fate'[m.from] = "none")
    BY <1>1 DEF IInv, Queues, Queued, Waits
  <2> QED BY <1>1, <2>2, <2>3 DEF Queues, Truthful
<1>7. Views' /\ SdoTruthful'
  BY <1>1 DEF IInv, Views, SdoTruthful
<1> QED BY <1>4, <1>5, <1>6, <1>7 DEF IInv

LEMMA StutterStep == IInv /\ UNCHANGED vars => IInv'
<1> SUFFICES ASSUME IInv, UNCHANGED vars PROVE IInv'
  OBVIOUS
<1>1. Types' /\ OnePerRoute'
  BY DEF IInv, Types, OnePerRoute, SameRoute, OnRoute, vars
<1>2. Queues'
  BY DEF IInv, Queues, Queued, Waits, Truthful, vars
<1>3. Views' /\ SdoTruthful'
  BY DEF IInv, Views, SdoTruthful, vars
<1> QED BY <1>1, <1>2, <1>3 DEF IInv

\* What the daemon and its clients know of each other's requests holds in every
\* state, for any number of clients and restarts.
THEOREM Inductive == Spec => []IInv
<1>1. IInv /\ [Next]_vars => IInv'
  <2> SUFFICES ASSUME IInv, [Next]_vars PROVE IInv'
    OBVIOUS
  <2>1. ASSUME NEW c \in Client, Take(c) PROVE IInv'
    BY <2>1, TakeStep
  <2>2. ASSUME NEW res \in {"done", "aborted", "long"}, SdoEnd(res) PROVE IInv'
    BY <2>2, SdoEndStep
  <2>3. ASSUME NEW fails \in BOOLEAN, AddEnd(fails) PROVE IInv'
    BY <2>3, AddEndStep
  <2>9. CASE AddHangs
    BY <2>9, AddHangsStep
  <2>4. CASE Send
    BY <2>4, SendStep
  <2>5. ASSUME NEW c \in Client, Receive(c) PROVE IInv'
    BY <2>5, ReceiveStep
  <2>6. ASSUME NEW c \in Client, Restart(c) PROVE IInv'
    BY <2>6, RestartStep
  <2>7. ASSUME NEW c \in Client, NEW req \in Sent, Ask(c, req) PROVE IInv'
    BY <2>7, AskStep
  <2>8. CASE UNCHANGED vars
    BY <2>8, StutterStep
  <2> QED BY <2>1, <2>2, <2>3, <2>4, <2>5, <2>6, <2>7, <2>8, <2>9 DEF Next, Responder
<1> QED BY InitIInv, <1>1, PTL DEF Spec

\* A set whose elements are all equal has at most one.
LEMMA AtMostOne ==
    ASSUME NEW S, \A x, y \in S : x = y
    PROVE  Cardinality(S) \in {0, 1} /\ (Cardinality(S) = 1 => S # {})
<1>1. CASE S = {}
  BY <1>1, FS_EmptySet
<1>2. ASSUME NEW x \in S PROVE Cardinality(S) = 1
  <2>1. S = {x}
    OBVIOUS
  <2> QED BY <2>1, FS_Singleton
<1> QED BY <1>1, <1>2

\* The variables stay in their types, and no more than one request per route
\* is in the hands of the daemon: a REQ socket has one request under way.
THEOREM TypeCorrect == Spec => []TypeOK
<1>1. IInv => TypeOK
  <2> SUFFICES ASSUME IInv PROVE TypeOK
    OBVIOUS
  <2>1. ASSUME NEW c \in Client, NEW r \in 0..MaxRestarts[c]
        PROVE    Cardinality({m \in inbox : m.from = c /\ m.route = r})
               + Cardinality({m \in outbox : m.to = c /\ m.route = r})
               + (IF job # None /\ job.from = c /\ job.route = r THEN 1 ELSE 0) =< 1
    <3> DEFINE I == {m \in inbox : m.from = c /\ m.route = r}
               O == {m \in outbox : m.to = c /\ m.route = r}
    <3>1. Cardinality(I) \in {0, 1} /\ (Cardinality(I) = 1 => I # {})
      <4>1. \A x, y \in I : x = y
        BY DEF IInv, OnePerRoute, SameRoute
      <4> QED BY <4>1, AtMostOne
    <3>2. Cardinality(O) \in {0, 1} /\ (Cardinality(O) = 1 => O # {})
      <4>1. \A x, y \in O : x = y
        BY DEF IInv, OnePerRoute
      <4> QED BY <4>1, AtMostOne
    <3>3. I = {} \/ O = {}
      BY DEF IInv, OnePerRoute, OnRoute
    <3>4. job # None /\ job.from = c /\ job.route = r => I = {} /\ O = {}
      BY DEF IInv, OnePerRoute, OnRoute, SameRoute
    <3> HIDE DEF I, O
    <3>5. Cardinality(I) + Cardinality(O)
            + (IF job # None /\ job.from = c /\ job.route = r THEN 1 ELSE 0) =< 1
      BY <3>1, <3>2, <3>3, <3>4
    <3> QED BY <3>5 DEF I, O
  <2>2. /\ \A c \in Client : route[c] \in 0..MaxRestarts[c]
        /\ \A c \in Client : asked[c] \in Sent \union {None}
    BY RestartsAssumption DEF IInv, Types
  <2> QED BY <2>1, <2>2 DEF IInv, Types, TypeOK
<1> QED BY <1>1, Inductive, PTL

\* A client that has been restarted while its request was queued or served is
\* never handed the answer to it (ipc_respond.c answers by routing id).
THEOREM Correlation == Spec => []AnswersOwnRequest
<1>1. IInv => AnswersOwnRequest
  BY DEF IInv, Queues, Truthful, AnswersOwnRequest
<1> QED BY <1>1, Inductive, PTL

\* An SDO call that raises the generic error never began its transfer, any
\* other began it; a plain read or write returns to its caller exactly if the
\* transfer has been carried out, and data it hands out is what was carried.
THEOREM SdoAnswers == Spec => []SdoTruthful
<1>1. IInv => SdoTruthful
  BY DEF IInv
<1> QED BY <1>1, Inductive, PTL
=============================================================================

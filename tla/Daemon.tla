------------------------------- MODULE Daemon -------------------------------
(***************************************************************************)
(* The life of the daemon: src/main.c, with ipc_init and ipc_free of       *)
(* src/ipc/ipc.c, the CONFIG message of src/ipc/ipc_consume.c and the      *)
(* start and stop of the worker of src/od_extensions/os_command_ext.c.     *)
(*                                                                         *)
(* main starts four threads during the first pass of its communication     *)
(* loop, runs the CANopen stack until a reset command, a signal or a new   *)
(* configuration ends it, closes the IPC sockets under the threads that    *)
(* wait on them, joins the threads, then the worker of the OS command, and *)
(* frees everything.  The supervisor (oresat-cand.service,                 *)
(* Restart=on-failure) starts a failed daemon again.                       *)
(*                                                                         *)
(* A ZeroMQ socket must not be closed while another thread uses it.  What  *)
(* then becomes of a blocked receiver is undefined: it returns with an     *)
(* error, or it stays blocked.  Joining a thread that was never created    *)
(* (its id is uninitialized) is undefined too and ends the process with a  *)
(* failure here.  Peers are assumed to take what was sent to them, so that *)
(* zmq_ctx_term, with its infinite linger, returns.                        *)
(*                                                                         *)
(* Some failures stop nothing and are only logged, or not even that: the   *)
(* od configuration cannot be loaded (the internal one is used), ZeroMQ    *)
(* has no context (the sockets stay NULL), the copy of a new configuration *)
(* breaks off.  The result of zmq_bind is not looked at; a socket that is  *)
(* not bound is one on which no message ever arrives, which an open one    *)
(* includes.                                                               *)
(*                                                                         *)
(* The definitions every specification has carry the daemon's name, so     *)
(* that the module can be extended beside that of one of its threads.      *)
(***************************************************************************)
EXTENDS Naturals, Sequences

CONSTANTS
    MaxResets,  \* bound: communication resets
    MaxRuns     \* bound: starts by the supervisor

ASSUME BoundAssumption == MaxResets \in Nat /\ MaxRuns \in Nat \ {0}

\* In the order in which they are created and joined.
ThreadOrder == <<"rt", "responder", "consumer", "broadcaster">>
Thread == {"rt", "responder", "consumer", "broadcaster"}
IpcThread == Thread \ {"rt"}

VARIABLES
    main,      \* where main is
    step,      \* which thread main creates or joins next
    end,       \* CO_endProgram
    handlers,  \* whether the signal handlers are installed
    reset,     \* the reset command of the stack
    firstRun,
    normal,    \* co->CANmodule->CANnormal
    code,      \* programExit, and the exit status in the end
    thread,    \* thread[t]: "none", "test" (the loop's condition), "work" (the
               \* rt thread processes, an IPC thread waits for a message),
               \* "flag" (the consumer is to set CO_endProgram), "stuck", "done"
    spawned,   \* spawned[t]: how often t was created in this run
    sockets,   \* the IPC sockets: "none" (NULL), "open" or "closed"
    worker,    \* the thread of the OS command: "none", "starts", "runs", "hung"
               \* (in a shell that never ends) or "done"
    running,   \* the flag that keeps the worker in its loop
    freed,     \* "none"; "stack": the stack, the caches and the extensions are
               \* freed; "all": the loaded od too
    conf,      \* loaded_od_conf: the od comes from the configuration file
    file,      \* the od configuration file: the one main has read ("read"), one
               \* copied since ("new"), or a copy that broke off ("torn")
    told,      \* history: what has told the daemon to end in this run: "nothing",
               \* only a new configuration ("config"), or a signal or a reset
               \* command too ("other")
    manager,   \* network_manager_node, an option of the command line
    resets, runs

daemonVars == <<main, step, end, handlers, reset, firstRun, normal, code, thread, spawned,
          sockets, worker, running, freed, conf, file, told, manager,
          resets, runs>>

\* What an action of main leaves alone unless it says otherwise.
Files == <<conf, file>>
Stack == <<reset, firstRun, normal>>
Process == <<code, freed, told, handlers>>
Worker == <<worker, running>>
Counts == <<manager, resets, runs>>

Fresh ==
    /\ main = "interface" /\ step = 1
    /\ end = FALSE /\ handlers = FALSE /\ reset = "NOT" /\ firstRun = TRUE
    /\ normal = FALSE /\ code = "SUCCESS"
    /\ thread = [t \in Thread |-> "none"] /\ spawned = [t \in Thread |-> 0]
    /\ sockets = "none" /\ worker = "none" /\ running = FALSE
    /\ freed = "none" /\ conf = FALSE /\ told = "nothing"

DaemonInit ==
    /\ Fresh
    /\ file = "read"
    /\ manager \in BOOLEAN /\ resets = 0 /\ runs = 1

-----------------------------------------------------------------------------
(* Start-up.                                                               *)

\* main waits for the CAN interface, then loads the od configuration.  If that
\* fails it goes on with the internal od, and the exit status says nothing.
Load ==
    /\ main = "interface"
    /\ main' = "setup"
    /\ file' = "read" /\ conf' \in BOOLEAN
    /\ UNCHANGED <<step, end, Stack, Process, thread, spawned, sockets, Worker, Counts>>

\* CO_new, the signal handlers, the epoll objects, the extensions (on a node
\* that is not the network manager), ipc_init.  The OS command has no worker if
\* the od lacks its entry or the thread cannot be created, and there are no
\* sockets without a context; neither is noticed.
Setup ==
    /\ main = "setup"
    /\ main' = "loop"
    /\ handlers' = TRUE /\ sockets' \in {"none", "open"}
    /\ worker' \in IF manager THEN {"none"} ELSE {"none", "starts"}
    /\ UNCHANGED <<step, end, Stack, code, freed, told, thread, spawned, running,
                   Files, Counts>>

\* One of the steps that are checked fails, and main exits at once.
SetupFails ==
    /\ main = "setup"
    /\ main' = "exited" /\ code' = "FAILURE"
    /\ UNCHANGED <<step, end, Stack, freed, told, handlers, thread, spawned, sockets,
                   Worker, Files, Counts>>

-----------------------------------------------------------------------------
(* The communication loop.                                                 *)

\* Mutant of Quiesced: CANnormal stays set during a communication reset.
NotQuiesced == normal

\* CANnormal after the head of the loop: cleared under the OD lock before the
\* stack is initialized again (and not yet set in the first pass).
Quiesced == FALSE

\* The OD lock is free: the rt thread holds it while it processes.
LockFree == thread["rt"] # "work"

LoopHead ==
    /\ main = "loop"
    /\ IF reset \notin {"APP", "QUIT"} /\ ~end
         THEN /\ firstRun \/ LockFree
              /\ main' = "init"
              /\ normal' = Quiesced
         ELSE main' = "leave" /\ UNCHANGED normal
    /\ UNCHANGED <<step, end, reset, firstRun, Process, thread, spawned, sockets, Worker,
                   Files, Counts>>

\* CO_CANinit and CO_CANopenInit.
InitStack ==
    /\ main = "init"
    /\ main' = IF firstRun THEN "create" ELSE "pdo"
    /\ step' = 1
    /\ UNCHANGED <<end, Stack, Process, thread, spawned, sockets, Worker, Files, Counts>>

\* Mutant of FirstRunOver: firstRun is never cleared.
FirstRunNever == TRUE

\* firstRun once the threads are being created.
FirstRunOver == FALSE

Create ==
    /\ main = "create"
    /\ LET t == ThreadOrder[step] IN
          /\ thread' = [thread EXCEPT ![t] = "test"]
          /\ spawned' = [spawned EXCEPT ![t] = @ + 1]
    /\ firstRun' = FirstRunOver
    /\ step' = step + 1
    /\ main' = IF step = Len(ThreadOrder) THEN "pdo" ELSE "create"
    /\ UNCHANGED <<end, reset, normal, Process, sockets, Worker, Files, Counts>>

\* Mutant of ExitCode: the exit status is not changed by a failure.
ExitCodeKept == code

\* programExit after an initialization step has failed.
ExitCode == "FAILURE"

\* One of the initialization steps of a pass fails: CO_CANinit or
\* CO_CANopenInit, pthread_create or pthread_setschedparam, CO_CANopenInitPDO.
InitFails ==
    /\ main \in {"init", "create", "pdo"}
    /\ main' = "loop"
    /\ firstRun' = IF main = "create" THEN FALSE ELSE firstRun
    /\ code' = ExitCode /\ end' = TRUE
    /\ UNCHANGED <<step, reset, normal, freed, told, handlers, thread, spawned, sockets,
                   Worker, Files, Counts>>

\* CO_CANopenInitPDO succeeds and the module goes to normal mode.
Run ==
    /\ main = "pdo"
    /\ main' = "running"
    /\ normal' = TRUE /\ reset' = "NOT"
    /\ UNCHANGED <<step, end, firstRun, Process, thread, spawned, sockets, Worker, Files, Counts>>

\* The inner loop ends by a reset command of the NMT master.
ResetCommand(cmd) ==
    /\ main = "running"
    /\ cmd = "COMM" => resets < MaxResets
    /\ reset' = cmd
    /\ resets' = IF cmd = "COMM" THEN resets + 1 ELSE resets
    /\ told' = IF cmd = "COMM" THEN told ELSE "other"
    /\ main' = "loop"
    /\ UNCHANGED <<step, end, firstRun, normal, code, freed, handlers, thread, spawned,
                   sockets, Worker, Files, manager, runs>>

\* Or because CO_endProgram is set, at the latest when CO_epoll_wait times out.
SeeEnd ==
    /\ main = "running" /\ end
    /\ main' = "loop"
    /\ UNCHANGED <<step, end, Stack, Process, thread, spawned, sockets, Worker, Files, Counts>>

\* Or never: a file transfer in the main thread waits for the mutex that a
\* failed listing has left locked, or copies a file that has become shorter.
Hang ==
    /\ main = "running" /\ ~manager
    /\ main' = "hung"
    /\ UNCHANGED <<step, end, Stack, Process, thread, spawned, sockets, Worker, Files, Counts>>

-----------------------------------------------------------------------------
(* Shutdown.                                                               *)

\* CO_endProgram = 1, then ipc_free.
Leave ==
    /\ main = "leave"
    /\ end' = TRUE
    /\ sockets' = IF sockets = "open" THEN "closed" ELSE sockets
    /\ main' = "join" /\ step' = 1
    /\ UNCHANGED <<Stack, Process, thread, spawned, Worker, Files, Counts>>

\* Mutant of Joined: nothing is waited for.
JoinedNow(t) == TRUE

\* pthread_join(t) has returned.
Joined(t) == thread[t] = "done"

Join ==
    /\ main = "join"
    /\ LET t == ThreadOrder[step] IN
          \/ /\ spawned[t] > 0 /\ Joined(t)
             /\ step' = step + 1
             /\ main' = IF step = Len(ThreadOrder) THEN "free" ELSE "join"
             /\ code' = code
          \/ /\ spawned[t] = 0
             /\ main' = "exited" /\ code' = "FAILURE" /\ step' = step
    /\ UNCHANGED <<end, Stack, freed, told, handlers, thread, spawned, sockets, Worker,
                   Files, Counts>>

\* os_command_extension_free asks the worker to end ...
StopWorker ==
    /\ main = "free" /\ ~manager
    /\ running' = FALSE
    /\ main' = "worker"
    /\ UNCHANGED <<step, end, Stack, Process, thread, spawned, sockets, worker, Files, Counts>>

\* ... and joins it (a worker that was never created is undefined as above).
JoinWorker ==
    /\ main = "worker"
    /\ \/ worker = "done" /\ main' = "delete" /\ code' = code
       \/ worker = "none" /\ main' = "exited" /\ code' = "FAILURE"
    /\ UNCHANGED <<step, end, Stack, freed, told, handlers, thread, spawned, sockets,
                   Worker, Files, Counts>>

\* The caches, the epoll objects and the stack, and the od if it was loaded.
Free ==
    /\ main = "delete" \/ (main = "free" /\ manager)
    /\ freed' = IF conf THEN "all" ELSE "stack"
    /\ main' = "exited"
    /\ UNCHANGED <<step, end, Stack, code, told, handlers, thread, spawned, sockets,
                   Worker, Files, Counts>>

Main ==
    \/ Load \/ Setup \/ SetupFails
    \/ LoopHead \/ InitStack \/ Create \/ InitFails \/ Run \/ SeeEnd
    \/ \E cmd \in {"COMM", "APP", "QUIT"} : ResetCommand(cmd)
    \/ Leave \/ Join \/ StopWorker \/ JoinWorker \/ Free

-----------------------------------------------------------------------------
(* The threads.                                                            *)

\* What a step of a thread leaves alone.
Others == <<main, step, handlers, reset, firstRun, normal, code, spawned, sockets,
            Worker, freed, conf, Counts>>

Alive == main # "exited"

\* Mutant of Ends: the loop's condition is not tested again.
EndsNever == FALSE

\* while (CO_endProgram == 0) is left.
Ends == end

\* The loop's condition.  The rt thread then processes when CANnormal is set.
Test(t) ==
    /\ Alive /\ thread[t] = "test"
    /\ \/ Ends /\ thread' = [thread EXCEPT ![t] = "done"]
       \/ ~Ends /\ (t = "rt" => normal) /\ thread' = [thread EXCEPT ![t] = "work"]
    /\ UNCHANGED <<Others, end, told, file>>

\* One pass of the body: the rt thread has processed, or an IPC thread has
\* handled a message (or a monitor event); for the consumer also a CONFIG
\* message whose file cannot be opened, or cannot be written.
Pass(t) ==
    /\ Alive /\ thread[t] = "work"
    /\ t # "rt" => sockets = "open"
    /\ thread' = [thread EXCEPT ![t] = "test"]
    /\ UNCHANGED <<Others, end, told, file>>

\* The consumer gets a CONFIG message with a file that differs from the
\* daemon's, and copies it.
NewConfig ==
    /\ Alive /\ thread["consumer"] = "work" /\ sockets = "open"
    /\ file' = "new"
    /\ thread' = [thread EXCEPT !["consumer"] = "flag"]
    /\ UNCHANGED <<Others, end, told>>

\* The copy breaks off (copy_file fails after it has emptied the file): the
\* error is logged and the daemon goes on with what it has loaded.
NewConfigTorn ==
    /\ Alive /\ thread["consumer"] = "work" /\ sockets = "open"
    /\ file' = "torn"
    /\ thread' = [thread EXCEPT !["consumer"] = "test"]
    /\ UNCHANGED <<Others, end, told>>

\* ipc_reset is set, and so CO_endProgram.
SetEnd ==
    /\ Alive /\ thread["consumer"] = "flag"
    /\ end' = TRUE
    /\ told' = IF told = "nothing" THEN "config" ELSE told
    /\ thread' = [thread EXCEPT !["consumer"] = "test"]
    /\ UNCHANGED <<Others, file>>

\* The socket is NULL, or closed under a receiver: the call fails, ...
RecvFails(t) ==
    /\ Alive /\ thread[t] = "work" /\ sockets # "open"
    /\ thread' = [thread EXCEPT ![t] = "test"]
    /\ UNCHANGED <<Others, end, told, file>>

\* ... or, if it was closed, never returns.
RecvStuck(t) ==
    /\ Alive /\ thread[t] = "work" /\ sockets = "closed"
    /\ thread' = [thread EXCEPT ![t] = "stuck"]
    /\ UNCHANGED <<Others, end, told, file>>

\* A handler never returns: copy_file turns for ever on a file that has become
\* shorter, or fcache_add waits for the mutex that a failed listing has left
\* locked (the network manager has no cache).
HandlerStuck(t) ==
    /\ Alive /\ thread[t] = "work" /\ sockets = "open"
    /\ t = "consumer" \/ (t = "responder" /\ ~manager)
    /\ thread' = [thread EXCEPT ![t] = "stuck"]
    /\ UNCHANGED <<Others, end, told, file>>

\* What a step of the worker leaves alone.
OthersOfWorker == <<main, step, end, Stack, Process, thread, spawned, sockets, Files, Counts>>

\* The worker starts, whenever the scheduler lets it, and sets running.
WorkerStarts ==
    /\ Alive /\ worker = "starts"
    /\ worker' = "runs" /\ running' = TRUE
    /\ UNCHANGED OthersOfWorker

\* It finds running cleared at the head of its loop ...
WorkerEnds ==
    /\ Alive /\ worker = "runs" /\ ~running
    /\ worker' = "done"
    /\ UNCHANGED <<OthersOfWorker, running>>

\* ... or runs a command that never ends.
WorkerHangs ==
    /\ Alive /\ worker = "runs"
    /\ worker' = "hung"
    /\ UNCHANGED <<OthersOfWorker, running>>

\* SIGINT or SIGTERM.  Before the handlers are installed it kills the process,
\* which the supervisor takes for a clean stop.
Signal ==
    /\ Alive /\ ~end
    /\ IF handlers THEN end' = TRUE /\ main' = main ELSE main' = "exited" /\ end' = end
    /\ told' = "other"
    /\ UNCHANGED <<step, Stack, code, freed, handlers, thread, spawned, sockets, Worker,
                   Files, Counts>>

\* The supervisor starts a daemon that failed (external: systemd).
Supervise ==
    /\ main = "exited" /\ code = "FAILURE"
    /\ runs < MaxRuns
    /\ runs' = runs + 1
    /\ main' = "interface" /\ step' = 1
    /\ end' = FALSE /\ handlers' = FALSE /\ reset' = "NOT" /\ firstRun' = TRUE
    /\ normal' = FALSE /\ code' = "SUCCESS"
    /\ thread' = [t \in Thread |-> "none"] /\ spawned' = [t \in Thread |-> 0]
    /\ sockets' = "none" /\ worker' = "none" /\ running' = FALSE
    /\ freed' = "none" /\ conf' = FALSE /\ told' = "nothing"
    /\ UNCHANGED <<file, manager, resets>>

DaemonNext ==
    \/ Main \/ Hang \/ NewConfig \/ NewConfigTorn \/ SetEnd \/ Signal \/ Supervise
    \/ \E t \in Thread : Test(t) \/ Pass(t)
    \/ \E t \in IpcThread : RecvFails(t) \/ RecvStuck(t) \/ HandlerStuck(t)
    \/ WorkerStarts \/ WorkerEnds \/ WorkerHangs

\* The CAN interface turns up, main and the threads run, a reset command, a
\* message and a signal are up to the world, the supervisor does its work.
DaemonFairness ==
    /\ WF_daemonVars(Main /\ main # "running") /\ WF_daemonVars(SeeEnd)
    /\ WF_daemonVars(SetEnd) /\ WF_daemonVars(Supervise)
    /\ WF_daemonVars(Pass("rt"))
    /\ \A t \in Thread : WF_daemonVars(Test(t))
    /\ \A t \in IpcThread : WF_daemonVars(RecvFails(t))
    /\ WF_daemonVars(WorkerStarts) /\ WF_daemonVars(WorkerEnds)

DaemonSpec == DaemonInit /\ [][DaemonNext]_daemonVars /\ DaemonFairness

-----------------------------------------------------------------------------
(* Properties.                                                             *)

\* The variables stay in their types; each thread is created at most once in
\* a run, however often the communication is reset.
DaemonTypeOK ==
    /\ main \in {"interface", "setup", "loop", "init", "create", "pdo", "running", "hung",
                 "leave", "join", "free", "worker", "delete", "exited"}
    /\ step \in 1..Len(ThreadOrder) + 1
    /\ {end, handlers, firstRun, normal, running, conf, manager} \subseteq BOOLEAN
    /\ file \in {"read", "new", "torn"} /\ told \in {"nothing", "config", "other"}
    /\ reset \in {"NOT", "COMM", "APP", "QUIT"} /\ code \in {"SUCCESS", "FAILURE"}
    /\ thread \in [Thread -> {"none", "test", "work", "flag", "stuck", "done"}]
    /\ spawned \in [Thread -> 0..1]
    /\ sockets \in {"none", "open", "closed"} /\ freed \in {"none", "stack", "all"}
    /\ worker \in {"none", "starts", "runs", "hung", "done"}

\* While main initializes the stack again after a communication reset, the rt
\* thread is not processing it.
ResetExclusive == main \in {"init", "pdo"} => thread["rt"] # "work"

\* The stack, the caches and the extensions are freed only when every thread
\* that uses them has ended, the worker of the OS command included.
FreedAlone ==
    freed # "none" => /\ \A t \in Thread : thread[t] = "done"
                      /\ worker = IF manager THEN "none" ELSE "done"

\* The daemon never goes down with the status of success, on which the
\* supervisor leaves it down, unless it was told to end (a signal, a reset
\* command, a new configuration); and then it has freed what it held, unless
\* the signal came before the handlers were installed.  Whatever fails after
\* any number of communication resets, the supervisor hears of it.
DownAsTold ==
    main = "exited" /\ code = "SUCCESS" => told # "nothing" /\ (freed # "none" \/ ~handlers)

\* The inductive invariant behind the safety properties.  Threads exist once
\* the first pass has created them, in order and never again; while the stack
\* is initialized CANnormal is clear, which keeps the rt thread from it; main
\* joins in order and the worker last; the loop is left only when told to or
\* with the failure in the exit status.
Threads ==
    /\ \A t \in Thread : spawned[t] = 0 <=> thread[t] = "none"
    /\ firstRun => \A t \in Thread : spawned[t] = 0
    /\ main \in {"interface", "setup"} => firstRun
    /\ main \in {"interface", "setup", "init", "create", "pdo"} => normal = FALSE
    /\ main = "create" => /\ step \in 1..Len(ThreadOrder)
                          /\ \A i \in step..Len(ThreadOrder) : spawned[ThreadOrder[i]] = 0
    /\ main \in {"init", "create", "pdo"} => thread["rt"] # "work"
Joins ==
    /\ main = "join" => /\ step \in 1..Len(ThreadOrder)
                        /\ \A i \in 1..(step - 1) : thread[ThreadOrder[i]] = "done"
    /\ main \in {"free", "worker", "delete"} \/ freed # "none" =>
          \A t \in Thread : thread[t] = "done"
    /\ main \in {"worker", "delete"} => manager = FALSE
    /\ main = "delete" => worker = "done"
    /\ manager = TRUE => worker = "none"
    /\ freed # "none" => main = "exited" /\ worker = IF manager THEN "none" ELSE "done"
Orderly ==
    /\ end = TRUE \/ reset \in {"APP", "QUIT"}
          \/ main \in {"leave", "join", "free", "worker", "delete", "exited"} =>
          told # "nothing" \/ code = "FAILURE"
    /\ main = "exited" /\ code = "SUCCESS" => freed # "none" \/ handlers = FALSE
DaemonInv == DaemonTypeOK /\ Threads /\ Joins /\ Orderly

\* What can keep the process from ending: a receiver whose socket was closed
\* under it, a message handler or a file transfer that never returns, a shell of
\* the OS command that never ends, and a worker that was created but set running
\* only after os_command_extension_free had cleared it.
Hangs ==
    \/ \E t \in IpcThread : thread[t] = "stuck"
    \/ main = "hung" \/ worker = "hung"
    \/ (main = "worker" /\ worker = "runs" /\ running)

\* Once CO_endProgram is set the process ends, unless it hangs in one of the
\* ways above: nothing else that main waits for, on any path through its loop
\* and its shutdown, fails to come.
Stops == end ~> (main = "exited" \/ Hangs)

\* "resetting app to load new config": a configuration that the daemon has
\* taken over is eventually the one it runs with, unless the daemon hangs, is
\* told to end by somebody else too, or has failed as often as the bound allows.
NewConfigLoaded ==
    file = "new" ~> \/ file # "new" \/ Hangs \/ told = "other"
                    \/ (code = "FAILURE" /\ runs = MaxRuns)
=============================================================================

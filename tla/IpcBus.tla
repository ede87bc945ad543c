------------------------------- MODULE IpcBus -------------------------------
(***************************************************************************)
(* What the daemon and the applications tell each other about the bus:     *)
(* heartbeats, emergencies and the bus state on their way to the           *)
(* applications (src/ipc/ipc_broadcast.c, the callbacks of src/main.c,     *)
(* _consume_thread_run and _monitor_thread_run of                          *)
(* libs/python/oresat_cand/node_client.py), and their requests for a TPDO, *)
(* an emergency or a SYNC (src/ipc/ipc_consume.c).                         *)
(*                                                                         *)
(* The daemon's main thread publishes, if the counter of its broadcaster   *)
(* thread is not zero.  An application has two threads: one consumes, the  *)
(* other follows the events of the connection, each event some time after  *)
(* it happened.  ZeroMQ is external: a publisher drops what a full queue   *)
(* does not take, and a message that has arrived outlives the connection.  *)
(***************************************************************************)
EXTENDS Integers, Sequences, FiniteSets

CONSTANTS
    Client,      \* the applications
    Carrier,     \* states of the CAN interface; UNREADABLE: set down, so that
                 \* its carrier file opens but cannot be read
    NodeState,   \* NMT states of the one remote node; UNKNOWN: its heartbeat
                 \* is overdue, or none has come yet
    QueueLen,    \* the publisher's queue per subscriber (ZMQ_SNDHWM)
    CounterMod,  \* the counter of clients wraps at this value (256: uint8_t)
    MaxConnects, \* bound: connections made
    MaxNews,     \* bound: heartbeat changes and emergencies
    BaseTpdos,   \* base_config->CNT_TPDO
    Tpdos        \* config->CNT_TPDO

ASSUME CarrierAssumption == Carrier \subseteq {"NOT_FOUND", "DOWN", "UP", "UNREADABLE"}
ASSUME NodeAssumption == "UNKNOWN" \in NodeState
ASSUME NumberAssumption ==
    /\ QueueLen \in Nat \ {0} /\ CounterMod \in Nat \ {0}
    /\ BaseTpdos \in Nat /\ Tpdos \in Nat /\ BaseTpdos <= Tpdos

VARIABLES
    carrier,    \* what ipc_broadcast_bus_status finds
    node,       \* the remote node's state
    connected,  \* applications with a connection
    events,     \* the broadcaster's monitor socket: +1 accepted, -1 disconnected
    clients,    \* the counter
    down,       \* down[c]: messages to c
    monitor,    \* monitor[c]: connection events c has not handled
    isConn,     \* isConn[c]: _connected
    busState,   \* busState[c]: _bus_state
    seen,       \* seen[c]: the node's state as last told by the heartbeat callback,
                \* UNKNOWN before it was called
    missed,     \* history: applications that were not sent the node's last change
    late,       \* history: applications that consumed a status while not _connected
    request,    \* indices in co->TPDO whose sendRequest is set (some beyond its end)
    connects, news

vars == <<carrier, node, connected, events, clients, down, monitor, isConn, busState,
          seen, missed, late, request, connects, news>>
World == <<carrier, node, news>>
Net == <<connected, events, monitor, connects>>
App == <<isConn, busState, seen>>

Status(s) == [id |-> "BUS_STATUS", state |-> s]
Heartbeat(s) == [id |-> "HB_RECV", state |-> s]
Emergency == [id |-> "EMCY_RECV"]

Init ==
    /\ carrier \in Carrier /\ node = "UNKNOWN"
    /\ connected = {} /\ events = <<>> /\ clients = 0
    /\ down = [c \in Client |-> <<>>] /\ monitor = [c \in Client |-> <<>>]
    /\ isConn = [c \in Client |-> FALSE]
    /\ busState = [c \in Client |-> "NOT_FOUND"]
    /\ seen = [c \in Client |-> "UNKNOWN"]
    /\ missed = Client /\ late = {} /\ request = {}
    /\ connects = 0 /\ news = 0

-----------------------------------------------------------------------------
(* Connections, and the thread that counts them.                           *)

Connect(c) ==
    /\ c \notin connected /\ connects < MaxConnects
    /\ connects' = connects + 1
    /\ connected' = connected \union {c}
    /\ events' = Append(events, 1)
    /\ monitor' = [monitor EXCEPT ![c] = Append(@, "HANDSHAKE_SUCCEEDED")]
    /\ UNCHANGED <<World, clients, down, App, missed, late, request>>

\* The first k messages have arrived.
Disconnect(c, k) ==
    /\ c \in connected
    /\ connected' = connected \ {c}
    /\ events' = Append(events, -1)
    /\ monitor' = [monitor EXCEPT ![c] = Append(@, "DISCONNECTED")]
    /\ down' = [down EXCEPT ![c] = SubSeq(@, 1, k)]
    /\ missed' = missed \union {c}
    /\ UNCHANGED <<World, clients, App, late, request, connects>>

ipc_broadcast_process ==
    /\ events # <<>>
    /\ clients' = (clients + Head(events)) % CounterMod
    /\ events' = Tail(events)
    /\ UNCHANGED <<World, connected, down, monitor, App, missed, late, request, connects>>

-----------------------------------------------------------------------------
(* The daemon's main thread.                                               *)

\* Mutant of NoClients: an off-by-one in the guard of the broadcasts.
NoClients1 == clients <= 1

\* The guard of the broadcasts: (clients == 0).
NoClients == clients = 0

\* zmq_send to the subscribers whose queue has room.
Publish(m) ==
    down' = [c \in Client |->
        IF c \in connected /\ ~NoClients /\ Len(down[c]) < QueueLen
          THEN Append(down[c], m) ELSE down[c]]

\* What is published of the interface: the variable "up" is not initialised,
\* so that a read that fails leaves either answer.
Told == IF carrier = "UNREADABLE" THEN {"DOWN", "UP"} ELSE {carrier}

\* ipc_broadcast_bus_status, every BUS_CHECK_INTERVAL_S.
ipc_broadcast_bus_status ==
    /\ \E s \in Told : Publish(Status(s))
    /\ UNCHANGED <<World, Net, clients, App, missed, late, request>>

\* HeartbeatNmtChangedCallback: called for a change, and never again for it.
ipc_broadcast_hb(s) ==
    /\ s # node /\ news < MaxNews
    /\ node' = s /\ news' = news + 1
    /\ Publish(Heartbeat(s))
    /\ missed' = {c \in Client : c \notin connected \/ clients = 0 \/ Len(down[c]) >= QueueLen}
    /\ UNCHANGED <<carrier, Net, clients, App, late, request>>

\* EmergencyRxCallback.
ipc_broadcast_emcy ==
    /\ news < MaxNews
    /\ news' = news + 1
    /\ Publish(Emergency)
    /\ UNCHANGED <<carrier, node, Net, clients, App, missed, late, request>>

\* The interface goes up or down, or away.
CarrierChanges(s) ==
    /\ s # carrier
    /\ carrier' = s
    /\ UNCHANGED <<node, news, Net, clients, down, App, missed, late, request>>

-----------------------------------------------------------------------------
(* The consumer thread: requests of the applications.                      *)

Header == 2

\* The bytes message.py packs: the header, then "II", "B" and "".
Packed(id) == CASE id = "EMCY_SEND" -> Header + 4 + 4
                [] id = "TPDO_SEND" -> Header + 1
                [] id = "SYNC_SEND" -> Header

\* What ipc_msg.h declares: a uint16_t and a uint32_t, and a uint8_t.
Sizeof(id) == IF id = "EMCY_SEND" THEN Header + 2 + 4 ELSE Header + 1

\* The checks of ipc_consume_process and of the handlers.
Taken(id) == Packed(id) > Header /\ (id # "SYNC_SEND" => Packed(id) = Sizeof(id))

\* Mutant of InConfig: the number is checked with <=.
InConfigEqual(number) == number <= Tpdos

InConfig(number) == number < Tpdos

TpdosOffset == IF BaseTpdos # Tpdos THEN BaseTpdos ELSE 0

\* TPDO_SEND.  EMCY_SEND and SYNC_SEND do not pass the checks: nothing of the
\* daemon changes.
ipc_consume_process(id, number) ==
    /\ connected # {}
    /\ request' = IF id = "TPDO_SEND" /\ Taken(id) /\ InConfig(number)
                    THEN request \union {number + TpdosOffset}
                    ELSE request
    /\ UNCHANGED <<World, Net, clients, down, App, missed, late>>

\* CANopenNode sends the TPDO and clears sendRequest.
TpdoSent ==
    /\ request # {}
    /\ request' = {}
    /\ UNCHANGED <<World, Net, clients, down, App, missed, late>>

-----------------------------------------------------------------------------
(* The application's two threads.                                          *)

\* The values of the enumeration NodeState; any other makes it raise, and the
\* heartbeat callback is not called.
Decodes(s) == s # "UNKNOWN"

_consume_thread_run(c) ==
    LET m == Head(down[c])
    IN  /\ down[c] # <<>>
        /\ down' = [down EXCEPT ![c] = Tail(@)]
        /\ busState' = IF m.id = "BUS_STATUS" THEN [busState EXCEPT ![c] = m.state] ELSE busState
        /\ seen' = IF m.id = "HB_RECV" /\ Decodes(m.state)
                     THEN [seen EXCEPT ![c] = m.state] ELSE seen
        /\ late' = IF m.id = "BUS_STATUS" /\ ~isConn[c] THEN late \union {c} ELSE late
        /\ UNCHANGED <<World, Net, clients, isConn, missed, request>>

\* Mutant of AfterLoss: the bus state is kept.
AfterLossKept(c) == busState[c]

\* _bus_state once a lost connection has been noticed.
AfterLoss(c) == "NOT_FOUND"

_monitor_thread_run(c) ==
    LET up == Head(monitor[c]) = "HANDSHAKE_SUCCEEDED"
    IN  /\ monitor[c] # <<>>
        /\ monitor' = [monitor EXCEPT ![c] = Tail(@)]
        /\ isConn' = [isConn EXCEPT ![c] = up]
        /\ busState' = IF ~up /\ isConn[c] THEN [busState EXCEPT ![c] = AfterLoss(c)] ELSE busState
        /\ late' = late \ {c}
        /\ UNCHANGED <<World, connected, events, connects, clients, down, seen, missed, request>>

-----------------------------------------------------------------------------
Next ==
    \/ \E c \in Client : Connect(c) \/ \E k \in 0..Len(down[c]) : Disconnect(c, k)
    \/ ipc_broadcast_process \/ ipc_broadcast_bus_status \/ ipc_broadcast_emcy
    \/ \E s \in NodeState : ipc_broadcast_hb(s)
    \/ \E s \in Carrier : CarrierChanges(s)
    \/ \E id \in {"EMCY_SEND", "TPDO_SEND", "SYNC_SEND"}, n \in 0..Tpdos :
          ipc_consume_process(id, n)
    \/ TpdoSent
    \/ \E c \in Client : _consume_thread_run(c) \/ _monitor_thread_run(c)

\* The daemon's threads and the applications' threads run.  The main thread
\* comes to its check of the bus again and again, whether the queues are full
\* at the moment or not: strong fairness of the check that is not in vain.
Fairness ==
    /\ WF_vars(ipc_broadcast_process) /\ SF_vars(ipc_broadcast_bus_status)
    /\ \A c \in Client : WF_vars(_consume_thread_run(c)) /\ WF_vars(_monitor_thread_run(c))

Spec == Init /\ [][Next]_vars /\ Fairness

-----------------------------------------------------------------------------
(* Properties.                                                             *)

\* The variables stay in their types, the queues within their limit, and a
\* request within what the check of its number leaves possible.
TypeOK ==
    /\ carrier \in Carrier /\ node \in NodeState
    /\ connected \subseteq Client /\ missed \subseteq Client /\ late \subseteq Client
    /\ clients \in 0..(CounterMod - 1)
    /\ \A c \in Client : Len(down[c]) <= QueueLen
    /\ busState \in [Client -> {"NOT_FOUND", "DOWN", "UP"}] /\ seen \in [Client -> NodeState]
    /\ isConn \in [Client -> BOOLEAN]
    /\ request \subseteq 0..(Tpdos - 1 + TpdosOffset)

\* An application that has noticed the loss of its connection knows nothing of
\* the bus, unless its other thread consumed a status that had arrived before.
LostMeansUnknown ==
    \A c \in Client \ late : ~isConn[c] => busState[c] = "NOT_FOUND"

\* Whoever was sent the node's last change, and has consumed what it was sent,
\* knows the node's state: no older heartbeat comes behind a newer one.  Only
\* that the node has fallen silent is never told.
HeartbeatKnown ==
    \A c \in Client \ missed : down[c] = <<>> /\ Decodes(node) => seen[c] = node

\* If an application stays connected and the interface as it is, readable, the
\* application's bus state becomes that of the interface, although statuses
\* are dropped by full queues, suppressed until the broadcaster has counted the
\* application, and undone by a late event of an earlier connection.
BusStateSettles ==
    \A c \in Client, s \in Carrier \ {"UNREADABLE"} :
        <>[](c \in connected /\ carrier = s) => <>[](busState[c] = s)
=============================================================================

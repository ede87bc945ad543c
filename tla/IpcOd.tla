------------------------------- MODULE IpcOd -------------------------------
(***************************************************************************)
(* One object dictionary entry shared by the CAN bus and the applications: *)
(* src/ipc/ipc_broadcast.c, the od_write half of src/ipc/ipc_consume.c and *)
(* the cached values of libs/python/oresat_cand/node_client.py.            *)
(*                                                                         *)
(* Every application caches the entry.  Its od_write changes the cache and *)
(* then publishes the value; the daemon's consumer thread writes it to the *)
(* OD.  After a handshake its monitor thread reads the cache and publishes *)
(* what it has read.  Its consume thread, which takes no lock either, can  *)
(* change the cache between the two halves of both.                        *)
(* A write by the bus (an SDO download or an RPDO, serialized by the OD    *)
(* lock) goes through the extension ipc_broadcast_data, which writes the   *)
(* entry and then publishes it to every application.  The consumer thread, *)
(* which does not take the OD lock, uses the same extension, so that the   *)
(* other applications learn of the value, unless the broadcaster thread    *)
(* has counted no more than one client.                                    *)
(*                                                                         *)
(* Messages of one connection keep their order.  The publisher's queue     *)
(* limit (ZMQ_SNDHWM) is never reached here, and a send by one thread is   *)
(* taken to be atomic although both sides share their PUB socket between   *)
(* threads.  Values that OD_set_value refuses and values that cannot be    *)
(* encoded (od_write raises, with the cache changed) are left out.         *)
(***************************************************************************)
EXTENDS Integers, Sequences, FiniteSets

CONSTANTS
    Client,       \* the applications
    WriteCb,      \* those with a write callback on the entry
    Value,        \* values of the entry
    Silent,       \* those that no message holds: empty, or longer than
                  \* IPC_STR_MAX_LEN; only the bus writes them
    Default,      \* the value everybody starts from
    CounterMod,   \* the counter of clients wraps at this value (256: uint8_t)
    MaxWrites,    \* bound: writes by applications and by the bus
    MaxConnects,  \* bound: connections made
    None          \* nothing to publish

ASSUME ValueAssumption == Default \in Value \ Silent /\ None \notin Value
ASSUME ModAssumption == CounterMod \in Nat \ {0}

Sayable == Value \ Silent        \* the values that messages carry
Thread == {"bus", "consumer"}    \* of the daemon: who writes the entry
Sender == {"app", "monitor"}     \* of an application: who publishes

VARIABLES
    od,         \* the entry
    local,      \* local[c]: the value c caches
    connected,  \* applications with a connection
    resync,     \* applications whose monitor thread has yet to resend its values
    sending,    \* sending[s][c]: the value that thread s of c has put in the cache
                \* or read from it, and has not yet published
    up,         \* up[c]: what c published and the consumer has not taken
    down,       \* down[c]: what was published to c and c has not consumed
    events,     \* the broadcaster's monitor socket: +1 accepted, -1 disconnected
    clients,    \* the counter
    unsent,     \* unsent[t]: the value t has written and not yet published
    last,       \* the thread that wrote the entry last
    told,       \* applications the last change of the entry was for or is from
    stale,      \* stale[s]: applications whose cache another of their threads
                \* has changed since s put or read the value it is sending
    met,        \* applications whose cache has changed under the last value
                \* they published before the daemon had taken it
    crossed,    \* an unechoed write was taken that its author's cache had left
                \* behind, or that crossed a value on its way to its author
    raced,      \* a value was published after the one that replaced it
    writes, connects

vars == <<od, local, connected, resync, sending, up, down, events, clients, unsent,
          last, told, stale, met, crossed, raced, writes, connects>>

Ghosts == <<told, stale, met, crossed, raced>>
Bounds == <<writes, connects>>

Init ==
    /\ od = Default
    /\ local = [c \in Client |-> Default]
    /\ connected = {} /\ resync = {}
    /\ sending = [s \in Sender |-> [c \in Client |-> None]]
    /\ up = [c \in Client |-> <<>>] /\ down = [c \in Client |-> <<>>]
    /\ events = <<>> /\ clients = 0
    /\ unsent = [t \in Thread |-> None] /\ last = "bus"
    /\ told = {} /\ stale = [s \in Sender |-> {}] /\ met = {} /\ crossed = FALSE /\ raced = FALSE
    /\ writes = 0 /\ connects = 0

-----------------------------------------------------------------------------
(* Connections (external: ZeroMQ) and the broadcaster thread that counts   *)
(* them.                                                                   *)

Connect(c) ==
    /\ c \notin connected /\ up[c] = <<>>
    /\ connects < MaxConnects
    /\ connects' = connects + 1
    /\ connected' = connected \union {c}
    /\ resync' = resync \union {c}
    /\ events' = Append(events, 1)
    /\ UNCHANGED <<od, local, sending, up, down, clients, unsent, last, Ghosts, writes>>

\* What c has published may be lost with the connection or already be at the
\* daemon; what was on its way to c is lost.
Disconnect(c, lost) ==
    /\ c \in connected
    /\ connected' = connected \ {c}
    /\ resync' = resync \ {c}
    /\ told' = told \ {c}
    /\ events' = Append(events, -1)
    /\ down' = [down EXCEPT ![c] = <<>>]
    /\ up' = IF lost THEN [up EXCEPT ![c] = <<>>] ELSE up
    /\ UNCHANGED <<od, local, sending, clients, unsent, last, stale, met, crossed,
                   raced, Bounds>>

\* Mutant of Counted: a disconnection is not counted.
CountedUp(e) == IF e > 0 THEN 1 ELSE 0

\* clients++ or clients--.
Counted(e) == e

ipc_broadcast_process ==
    /\ events # <<>>
    /\ clients' = (clients + Counted(Head(events))) % CounterMod
    /\ events' = Tail(events)
    /\ UNCHANGED <<od, local, connected, resync, sending, up, down, unsent, last,
                   Ghosts, Bounds>>

-----------------------------------------------------------------------------
(* The applications.                                                       *)

\* The threads of c, other than s, that are about to send.
Overtaken(c, s) == {r \in Sender \ {s} : sending[r][c] # None}

\* stale, once a thread of c has changed the cache under the threads in R.
StaleAfter(c, R) == [r \in Sender |-> IF r \in R THEN stale[r] \union {c} ELSE stale[r]]

\* The first half of od_write: the cache.
od_write(c, v) ==
    /\ sending["app"][c] = None
    /\ writes < MaxWrites
    /\ writes' = writes + 1
    /\ local' = [local EXCEPT ![c] = v]
    /\ sending' = [sending EXCEPT !["app"][c] = v]
    /\ stale' = [StaleAfter(c, Overtaken(c, "app")) EXCEPT !["app"] = @ \ {c}]
    /\ UNCHANGED <<od, connected, resync, up, down, events, clients, unsent, last,
                   told, met, crossed, raced, connects>>

\* The monitor thread, a moment after the handshake, reads what c caches of the
\* entries it has a callback for, to send it again.
Resync(c) ==
    /\ c \in resync /\ sending["monitor"][c] = None
    /\ resync' = resync \ {c}
    /\ IF c \in WriteCb
         THEN /\ sending' = [sending EXCEPT !["monitor"][c] = local[c]]
              /\ stale' = [stale EXCEPT !["monitor"] = @ \ {c}]
         ELSE UNCHANGED <<sending, stale>>
    /\ UNCHANGED <<od, local, connected, up, down, events, clients, unsent, last,
                   told, met, crossed, raced, Bounds>>

\* The second half of both.  Without a connection there is no subscriber and
\* PUB drops the message.
_broadcast(c, s) ==
    /\ sending[s][c] # None
    /\ sending' = [sending EXCEPT ![s][c] = None]
    /\ up' = IF c \in connected THEN [up EXCEPT ![c] = Append(@, sending[s][c])] ELSE up
    /\ met' = IF c \in stale[s] THEN met \union {c} ELSE met \ {c}
    /\ UNCHANGED <<od, local, connected, resync, down, events, clients, unsent, last,
                   told, stale, crossed, raced, Bounds>>

\* Mutant of Cached: a value is taken only by an application with a callback.
CachedWithCallback(c, v) == IF c \in WriteCb THEN v ELSE local[c]

\* The value c caches after it has consumed v.
Cached(c, v) == v

\* The consume thread; a value equal to the cached one changes nothing.
Consume(c) ==
    /\ down[c] # <<>>
    /\ local' = [local EXCEPT ![c] = Cached(c, Head(down[c]))]
    /\ down' = [down EXCEPT ![c] = Tail(@)]
    /\ met' = IF up[c] # <<>> THEN met \union {c} ELSE met
    /\ stale' = StaleAfter(c, {s \in Sender : sending[s][c] # None})
    /\ UNCHANGED <<od, connected, resync, sending, up, events, clients, unsent, last,
                   told, crossed, raced, Bounds>>

-----------------------------------------------------------------------------
(* The daemon's writers.                                                   *)

Other(t) == CHOOSE u \in Thread : u # t

\* The first half of ipc_broadcast_data: OD_writeOriginal.
WriteOriginal(t, v) ==
    /\ od' = v
    /\ last' = t
    /\ unsent' = [unsent EXCEPT ![t] = v]

\* Mutant of Fits: the length is not checked.
FitsAlways(v) == TRUE

\* The message has room for the value.
Fits(v) == v \notin Silent

\* The second half: the value just written is published to everybody who is
\* connected, whoever wrote it, or to nobody if no message can hold it.
ipc_broadcast_data(t) ==
    /\ unsent[t] # None
    /\ unsent' = [unsent EXCEPT ![t] = None]
    /\ IF Fits(unsent[t])
         THEN /\ down' = [c \in Client |-> IF c \in connected
                            THEN Append(down[c], unsent[t]) ELSE down[c]]
              /\ told' = connected
         ELSE /\ down' = down
              /\ told' = IF last = t THEN {} ELSE told
    /\ raced' = (raced \/ (last = t /\ unsent[Other(t)] # None))
    /\ UNCHANGED <<od, local, connected, resync, sending, up, events, clients, last,
                   stale, met, crossed, Bounds>>

\* The bus writes the entry.
BusWrite(v) ==
    /\ unsent["bus"] = None
    /\ writes < MaxWrites
    /\ writes' = writes + 1
    /\ WriteOriginal("bus", v)
    /\ UNCHANGED <<local, connected, resync, sending, up, down, events, clients, Ghosts,
                   connects>>

\* The odOrig argument of OD_set_value: write without the extension.
odOrig == clients =< 1

ipc_consume_od_write(c) ==
    /\ up[c] # <<>> /\ unsent["consumer"] = None
    /\ up' = [up EXCEPT ![c] = Tail(@)]
    /\ met' = IF Tail(up[c]) = <<>> THEN met \ {c} ELSE met
    /\ IF odOrig
         THEN /\ od' = Head(up[c]) /\ last' = "consumer"
              /\ told' = {c} \intersect connected
              /\ crossed' = (crossed \/ c \in met \/ down[c] # <<>> \/ unsent["bus"] # None)
              /\ UNCHANGED unsent
         ELSE WriteOriginal("consumer", Head(up[c])) /\ UNCHANGED <<told, crossed>>
    /\ UNCHANGED <<local, connected, resync, sending, down, events, clients, stale,
                   raced, Bounds>>

Daemon ==
    \/ ipc_broadcast_process
    \/ \E t \in Thread : ipc_broadcast_data(t)
    \/ \E c \in Client : ipc_consume_od_write(c)

Next ==
    \/ Daemon
    \/ \E c \in Client : \/ Connect(c) \/ Resync(c) \/ Consume(c)
                         \/ \E lost \in BOOLEAN : Disconnect(c, lost)
                         \/ \E v \in Sayable : od_write(c, v)
                         \/ \E s \in Sender : _broadcast(c, s)
    \/ \E v \in Value : BusWrite(v)

Spec == Init /\ [][Next]_vars

-----------------------------------------------------------------------------
(* Properties.                                                             *)

\* The variables stay in their types; in particular no message carries a value
\* that its buffer cannot hold, though the bus may write such a value.
TypeOK ==
    /\ od \in Value /\ local \in [Client -> Sayable]
    /\ connected \subseteq Client /\ resync \subseteq connected
    /\ told \subseteq connected
    /\ sending \in [Sender -> [Client -> Sayable \union {None}]]
    /\ \A c \in Client : up[c] \in Seq(Sayable) /\ down[c] \in Seq(Sayable)
    /\ \A c \in Client : down[c] # <<>> => c \in connected
    /\ events \in Seq({-1, 1}) /\ clients \in 0..(CounterMod - 1)
    /\ unsent \in [Thread -> Value \union {None}]

\* The counter and the events it has not seen yet make up the number of
\* connections, modulo the wrap of a uint8_t.
Pending == Cardinality({i \in DOMAIN events : events[i] = 1})
         - Cardinality({i \in DOMAIN events : events[i] = -1})
CounterExact == (clients + Pending) % CounterMod = Cardinality(connected) % CounterMod

\* Nothing is on its way.
Quiet ==
    /\ \A c \in Client : up[c] = <<>> /\ down[c] = <<>>
    /\ \A c \in Client, s \in Sender : sending[s][c] = None
    /\ \A t \in Thread : unsent[t] = None

\* Once nothing is on its way, every application that the last change was
\* published to, or came from, caches the same value: neither the order in
\* which the two threads publish nor the echo of its own older writes can
\* leave one of them behind.  And that value is the entry's, unless the two
\* threads published in another order than they wrote.  Applications and object
\* dictionary drift apart in no other way than these: raced; crossed, by a
\* write without echo that met another value anywhere between the cache and
\* the entry (in the author's own threads, on the connection, or in the thread
\* of the bus); and the ways out of told, a connection that is lost and a
\* value that no message holds.
CachesSettle ==
    Quiet /\ ~crossed =>
        /\ \A c, d \in told : local[c] = local[d]
        /\ ~raced => \A c \in told : local[c] = od
=============================================================================

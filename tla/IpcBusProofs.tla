---------------------------- MODULE IpcBusProofs ----------------------------
(***************************************************************************)
(* Proofs about IpcBus, for any number of applications, connections and    *)
(* news and any queue length: a lost connection leaves no stale bus state  *)
(* behind, and no heartbeat is overtaken by an older one.                  *)
(*                                                                         *)
(* Two things have to be known of the queues.  The events of an            *)
(* application's connection alternate and lead from what it believes to    *)
(* what is the case, so that it never handles a loss while it believes     *)
(* itself unconnected.  And for whoever was sent the node's last change,   *)
(* the last heartbeat on its way tells that change.                        *)
(***************************************************************************)
EXTENDS IpcBus, SequenceTheorems, TLAPS

BusStates == {"NOT_FOUND", "DOWN", "UP"}
Message == {Status(s) : s \in BusStates} \union {Heartbeat(s) : s \in NodeState} \union {Emergency}
Event == {"HANDSHAKE_SUCCEEDED", "DISCONNECTED"}

Queues ==
    /\ events \in Seq({-1, 1})
    /\ down \in [Client -> Seq(Message)]
    /\ monitor \in [Client -> Seq(Event)]

\* The event that makes the connection what it is.
Towards(b) == IF b THEN "HANDSHAKE_SUCCEEDED" ELSE "DISCONNECTED"

\* The events q lead from one state of a connection to another.
Leads(q, from, to) ==
    /\ q = <<>> => from = to
    /\ q # <<>> => q[1] = Towards(~from) /\ q[Len(q)] = Towards(to)
    /\ \A i \in 1..(Len(q) - 1) : q[i] # q[i + 1]

Alternation == \A c \in Client : Leads(monitor[c], isConn[c], c \in connected)

\* The last heartbeat in the queue tells s, or there is none and n is s.
Tells(q, n, s) ==
    \/ n = s /\ \A j \in 1..Len(q) : q[j].id # "HB_RECV"
    \/ \E i \in 1..Len(q) :
          /\ q[i] = Heartbeat(s)
          /\ \A j \in (i + 1)..Len(q) : q[j].id # "HB_RECV"

Heartbeats ==
    \A c \in Client \ missed : Decodes(node) => Tells(down[c], seen[c], node)

IInv == TypeOK /\ Queues /\ Alternation /\ LostMeansUnknown /\ Heartbeats

-----------------------------------------------------------------------------
(* The queues.                                                             *)

\* Append and Tail, element by element.
LEMMA AppendElements ==
    ASSUME NEW S, NEW q \in Seq(S), NEW e \in S
    PROVE  /\ Append(q, e) \in Seq(S) /\ Append(q, e) # <<>> /\ Len(q) \in Nat
           /\ Len(Append(q, e)) = Len(q) + 1
           /\ \A i \in 1..Len(q) : Append(q, e)[i] = q[i]
           /\ Append(q, e)[Len(q) + 1] = e
BY AppendProperties, LenProperties

LEMMA TailElements ==
    ASSUME NEW S, NEW q \in Seq(S), q # <<>>
    PROVE  /\ Tail(q) \in Seq(S) /\ Head(q) \in S /\ Head(q) = q[1] /\ Len(q) \in Nat \ {0}
           /\ Len(Tail(q)) = Len(q) - 1
           /\ \A i \in 1..(Len(q) - 1) : Tail(q)[i] = q[i + 1]
           /\ Tail(q) = <<>> <=> Len(q) = 1
<1>1. /\ Tail(q) \in Seq(S) /\ Head(q) \in S /\ Len(Tail(q)) = Len(q) - 1
      /\ \A i \in 1..Len(Tail(q)) : Tail(q)[i] = q[i + 1]
  BY HeadTailProperties
<1>2. Len(q) \in Nat \ {0} /\ Head(q) = q[1]
  BY LenProperties, EmptySeq
<1>3. Tail(q) = <<>> <=> Len(Tail(q)) = 0
  BY <1>1, EmptySeq
<1> DEFINE m == Len(Tail(q))
           k == Len(q)
<1>4. k \in Nat /\ m = k - 1
  BY <1>1, <1>2
<1> HIDE DEF m, k
<1>5. m = 0 <=> k = 1
  BY <1>4
<1>6. Tail(q) = <<>> <=> Len(q) = 1
  BY <1>3, <1>5 DEF m, k
<1> QED BY <1>1, <1>2, <1>6

LEMMA TowardsTwo ==
    ASSUME NEW a \in BOOLEAN, NEW b \in BOOLEAN
    PROVE  /\ Towards(a) \in Event
           /\ Towards(a) = Towards(b) => a = b
           /\ Towards(~a) # Towards(a)
           /\ \A e \in Event : e # Towards(a) => e = Towards(~a)
BY DEF Towards, Event

LEMMA LeadsAppend ==
    ASSUME NEW q \in Seq(Event), NEW from \in BOOLEAN, NEW to \in BOOLEAN, Leads(q, from, to)
    PROVE  Leads(Append(q, Towards(~to)), from, ~to)
<1> DEFINE e == Towards(~to)
           r == Append(q, e)
<1>1. e \in Event /\ e # Towards(to)
  BY TowardsTwo
<1>2. /\ r # <<>> /\ Len(q) \in Nat /\ Len(r) = Len(q) + 1
      /\ \A i \in 1..Len(q) : r[i] = q[i]
      /\ r[Len(q) + 1] = e
  BY <1>1, AppendElements
<1> HIDE DEF r
<1>3. r[1] = Towards(~from)
  <2>1. CASE q = <<>>
    <3>1. from = to /\ Len(q) = 0
      BY <2>1, EmptySeq DEF Leads
    <3> QED BY <1>2, <3>1
  <2>2. CASE q # <<>>
    <3>1. Len(q) # 0 /\ q[1] = Towards(~from)
      BY <2>2, EmptySeq DEF Leads
    <3> QED BY <1>2, <3>1
  <2> QED BY <2>1, <2>2
<1>4. \A i \in 1..(Len(r) - 1) : r[i] # r[i + 1]
  <2> TAKE i \in 1..(Len(r) - 1)
  <2>1. CASE i = Len(q)
    <3>1. q # <<>> /\ r[i] = q[Len(q)] /\ r[i + 1] = e
      BY <1>2, <2>1, EmptySeq
    <3> QED BY <1>1, <3>1 DEF Leads
  <2>2. CASE i # Len(q)
    <3>1. i \in 1..(Len(q) - 1) /\ i \in 1..Len(q) /\ i + 1 \in 1..Len(q)
      BY <1>2, <2>2
    <3> QED BY <1>2, <3>1 DEF Leads
  <2> QED BY <2>1, <2>2
<1>5. r[Len(r)] = Towards(~to)
  BY <1>2
<1>6. Leads(r, from, ~to)
  BY <1>2, <1>3, <1>4, <1>5 DEF Leads
<1> QED BY <1>6 DEF r

LEMMA LeadsTail ==
    ASSUME NEW q \in Seq(Event), q # <<>>, NEW from \in BOOLEAN, NEW to \in BOOLEAN,
           Leads(q, from, to)
    PROVE  Head(q) = Towards(~from) /\ Leads(Tail(q), ~from, to)
<1> DEFINE r == Tail(q)
<1>1. /\ r \in Seq(Event) /\ Head(q) = q[1] /\ Len(q) \in Nat \ {0}
      /\ Len(r) = Len(q) - 1
      /\ \A i \in 1..(Len(q) - 1) : r[i] = q[i + 1]
      /\ r = <<>> <=> Len(q) = 1
  BY TailElements
<1>2. /\ q[1] = Towards(~from) /\ q[Len(q)] = Towards(to)
      /\ \A i \in 1..(Len(q) - 1) : q[i] # q[i + 1]
  BY DEF Leads
<1> HIDE DEF r
<1>3. r = <<>> => (~from) = to
  <2>1. (~from) \in BOOLEAN
    OBVIOUS
  <2>2. r = <<>> => Towards(~from) = Towards(to)
    BY <1>1, <1>2
  <2> QED BY <2>1, <2>2, TowardsTwo
<1>4. r # <<>> => r[1] = Towards(~(~from)) /\ r[Len(r)] = Towards(to)
  <2> SUFFICES ASSUME r # <<>> PROVE r[1] = Towards(~(~from)) /\ r[Len(r)] = Towards(to)
    OBVIOUS
  <2>1. 1 \in 1..(Len(q) - 1) /\ Len(r) \in 1..(Len(q) - 1) /\ Len(r) + 1 = Len(q) /\ 1 + 1 = 2
    BY <1>1
  <2>2. r[1] = q[2] /\ q[2] # Towards(~from) /\ r[1] \in Event
    BY <1>1, <1>2, <2>1, ElementOfSeq
  <2>3. (~from) \in BOOLEAN
    OBVIOUS
  <2>4. r[1] = Towards(~(~from))
    BY <2>2, <2>3, TowardsTwo
  <2>5. r[Len(r)] = Towards(to)
    BY <1>1, <1>2, <2>1
  <2> QED BY <2>4, <2>5
<1>5. \A i \in 1..(Len(r) - 1) : r[i] # r[i + 1]
  <2> TAKE i \in 1..(Len(r) - 1)
  <2>1. /\ i \in 1..(Len(q) - 1) /\ i + 1 \in 1..(Len(q) - 1)
    BY <1>1
  <2>2. r[i] = q[i + 1] /\ r[i + 1] = q[(i + 1) + 1] /\ q[i + 1] # q[(i + 1) + 1]
    BY <1>1, <1>2, <2>1
  <2> QED BY <2>2
<1>6. Leads(r, ~from, to)
  BY <1>3, <1>4, <1>5 DEF Leads
<1> QED BY <1>1, <1>2, <1>6 DEF r

\* Anything but a heartbeat leaves the last heartbeat the last.
LEMMA TellsAppend ==
    ASSUME NEW S, NEW q \in Seq(S), NEW m \in S, NEW n, NEW s,
           m = Heartbeat(s) \/ (m.id # "HB_RECV" /\ Tells(q, n, s))
    PROVE  Tells(Append(q, m), n, s)
<1> DEFINE r == Append(q, m)
<1>1. /\ Len(q) \in Nat /\ Len(r) = Len(q) + 1
      /\ \A i \in 1..Len(q) : r[i] = q[i]
      /\ r[Len(q) + 1] = m
  BY AppendElements
<1> HIDE DEF r
<1>2. CASE m = Heartbeat(s)
  <2>1. Len(q) + 1 \in 1..Len(r) /\ r[Len(q) + 1] = Heartbeat(s)
        /\ \A j \in ((Len(q) + 1) + 1)..Len(r) : r[j].id # "HB_RECV"
    BY <1>1, <1>2
  <2> QED BY <2>1 DEF Tells, r
<1>3. CASE m.id # "HB_RECV" /\ n = s /\ \A j \in 1..Len(q) : q[j].id # "HB_RECV"
  <2>1. \A j \in 1..Len(r) : j \in 1..Len(q) \/ j = Len(q) + 1
    BY <1>1
  <2>2. \A j \in 1..Len(r) : r[j].id # "HB_RECV"
    BY <1>1, <1>3, <2>1
  <2> QED BY <1>3, <2>2 DEF Tells, r
<1>4. ASSUME m.id # "HB_RECV", NEW i \in 1..Len(q), q[i] = Heartbeat(s),
             \A j \in (i + 1)..Len(q) : q[j].id # "HB_RECV"
      PROVE  Tells(r, n, s)
  <2>1. i \in 1..Len(r) /\ r[i] = Heartbeat(s)
    BY <1>1, <1>4
  <2>2. \A j \in (i + 1)..Len(r) : (j \in (i + 1)..Len(q) /\ j \in 1..Len(q)) \/ j = Len(q) + 1
    BY <1>1
  <2>3. \A j \in (i + 1)..Len(r) : r[j].id # "HB_RECV"
    BY <1>1, <1>4, <2>2
  <2> QED BY <2>1, <2>3 DEF Tells
<1> QED BY <1>2, <1>3, <1>4 DEF Tells, r

\* Consuming keeps the tale: what was first is seen.
LEMMA TellsTail ==
    ASSUME NEW S, NEW q \in Seq(S), q # <<>>, NEW n, NEW s, Decodes(s), Tells(q, n, s),
           NEW o, o = IF Head(q).id = "HB_RECV" /\ Decodes(Head(q).state)
                        THEN Head(q).state ELSE n
    PROVE  Tells(Tail(q), o, s)
<1> DEFINE r == Tail(q)
<1>1. /\ Head(q) = q[1] /\ Len(q) \in Nat \ {0} /\ Len(r) = Len(q) - 1
      /\ \A i \in 1..(Len(q) - 1) : r[i] = q[i + 1]
  BY TailElements
<1> HIDE DEF r
<1>2. CASE n = s /\ \A j \in 1..Len(q) : q[j].id # "HB_RECV"
  <2>1. 1 \in 1..Len(q) /\ \A j \in 1..Len(r) : j \in 1..(Len(q) - 1) /\ j + 1 \in 1..Len(q)
    BY <1>1
  <2>2. o = s /\ \A j \in 1..Len(r) : r[j].id # "HB_RECV"
    BY <1>1, <1>2, <2>1
  <2> QED BY <2>2 DEF Tells, r
<1>3. ASSUME NEW i \in 1..Len(q), q[i] = Heartbeat(s),
             \A j \in (i + 1)..Len(q) : q[j].id # "HB_RECV"
      PROVE  Tells(r, o, s)
  <2>1. CASE i = 1
    <3>1. o = s
      BY <1>1, <1>3, <2>1 DEF Heartbeat
    <3>2. \A j \in 1..Len(r) : j \in 1..(Len(q) - 1) /\ j + 1 \in (i + 1)..Len(q)
      BY <1>1, <2>1
    <3>3. \A j \in 1..Len(r) : r[j].id # "HB_RECV"
      BY <1>1, <1>3, <3>2
    <3> QED BY <3>1, <3>3 DEF Tells
  <2>2. CASE i # 1
    <3>1. i - 1 \in 1..Len(r) /\ i - 1 \in 1..(Len(q) - 1) /\ (i - 1) + 1 = i
      BY <1>1, <2>2
    <3>2. r[i - 1] = Heartbeat(s)
      BY <1>1, <1>3, <3>1
    <3>3. \A j \in ((i - 1) + 1)..Len(r) : j \in 1..(Len(q) - 1) /\ j + 1 \in (i + 1)..Len(q)
      BY <1>1, <3>1
    <3>4. \A j \in ((i - 1) + 1)..Len(r) : r[j].id # "HB_RECV"
      BY <1>1, <1>3, <3>3
    <3> QED BY <3>1, <3>2, <3>4 DEF Tells
  <2> QED BY <2>1, <2>2
<1> QED BY <1>2, <1>3 DEF Tells, r

-----------------------------------------------------------------------------
(* The invariant is inductive.                                             *)

\* The types of the shorter names.
LEMMA Numbers ==
    /\ QueueLen \in Nat \ {0} /\ CounterMod \in Nat \ {0} /\ Tpdos \in Nat /\ TpdosOffset \in Nat
BY NumberAssumption DEF TpdosOffset

LEMMA Messages ==
    /\ \A s \in BusStates : Status(s) \in Message /\ Status(s).id # "HB_RECV"
    /\ \A s \in NodeState : Heartbeat(s) \in Message
    /\ Emergency \in Message /\ Emergency.id # "HB_RECV"
    /\ \A m \in Message : /\ m.id = "BUS_STATUS" => m.state \in BusStates
                          /\ m.id = "HB_RECV" => m.state \in NodeState
<1>1. \A s : Status(s).id = "BUS_STATUS" /\ Status(s).state = s
  BY DEF Status
<1>2. \A s : Heartbeat(s).id = "HB_RECV" /\ Heartbeat(s).state = s
  BY DEF Heartbeat
<1>3. Emergency.id = "EMCY_RECV"
  BY DEF Emergency
<1> QED BY <1>1, <1>2, <1>3 DEF Message

LEMMA InitIInv == Init => IInv
<1> SUFFICES ASSUME Init PROVE IInv
  OBVIOUS
<1>1. \A S : <<>> \in Seq(S) /\ Len(<<>>) = 0
  BY EmptySeq
<1>2. TypeOK
  <2>1. 0 \in 0..(CounterMod - 1) /\ 0 <= QueueLen
    BY Numbers
  <2> QED BY <1>1, <2>1, NodeAssumption DEF Init, TypeOK
<1>3. Queues
  BY <1>1 DEF Init, Queues
<1>4. Alternation
  <2>1. \A i \in 1..(Len(<<>>) - 1) : FALSE
    BY <1>1
  <2>2. Leads(<<>>, FALSE, FALSE)
    BY <2>1 DEF Leads
  <2>3. \A c \in Client : monitor[c] = <<>> /\ isConn[c] = FALSE /\ (c \in connected) = FALSE
    BY DEF Init
  <2> QED BY <2>2, <2>3, Zenon DEF Alternation
<1>5. LostMeansUnknown /\ Heartbeats
  BY DEF Init, LostMeansUnknown, Heartbeats
<1> QED BY <1>2, <1>3, <1>4, <1>5 DEF IInv

\* A connection made or lost: its event is put behind the others.
LEMMA MonitorAppend ==
    ASSUME IInv, NEW c \in Client, NEW b \in BOOLEAN, (c \in connected) = ~b,
           monitor' = [monitor EXCEPT ![c] = Append(@, Towards(b))],
           connected' = IF b THEN connected \union {c} ELSE connected \ {c},
           isConn' = isConn
    PROVE  monitor' \in [Client -> Seq(Event)] /\ Alternation'
<1>1. /\ monitor[c] \in Seq(Event) /\ monitor \in [Client -> Seq(Event)]
      /\ isConn[c] \in BOOLEAN /\ Leads(monitor[c], isConn[c], c \in connected)
  BY DEF IInv, Queues, TypeOK, Alternation
<1>2. Towards(b) \in Event
  BY TowardsTwo
<1>3. Append(monitor[c], Towards(b)) \in Seq(Event)
  BY <1>1, <1>2, AppendElements
<1>4. /\ monitor' \in [Client -> Seq(Event)] /\ monitor'[c] = Append(monitor[c], Towards(b))
      /\ \A d \in Client \ {c} : monitor'[d] = monitor[d] /\ (d \in connected' <=> d \in connected)
      /\ c \in connected' <=> b
  BY <1>1, <1>3
<1>5. Leads(monitor'[c], isConn[c], b)
  <2>1. (~b) \in BOOLEAN /\ Leads(monitor[c], isConn[c], ~b)
    BY <1>1
  <2>2. Leads(Append(monitor[c], Towards(~~b)), isConn[c], ~~b)
    BY <1>1, <2>1, LeadsAppend
  <2>3. (~~b) = b
    OBVIOUS
  <2> QED BY <1>4, <2>2, <2>3
<1>6. ASSUME NEW d \in Client PROVE Leads(monitor'[d], isConn'[d], d \in connected')
  <2>1. CASE d = c
    <3>1. (d \in connected') = b
      BY <1>4, <2>1
    <3> QED BY <1>5, <2>1, <3>1
  <2>2. CASE d # c
    <3>1. (d \in connected') = (d \in connected) /\ monitor'[d] = monitor[d]
      BY <1>4, <2>2
    <3> QED BY <3>1 DEF IInv, Alternation
  <2> QED BY <2>1, <2>2
<1> QED BY <1>4, <1>6 DEF Alternation, Leads

LEMMA ConnectStep ==
    ASSUME IInv, NEW c \in Client, Connect(c)
    PROVE  IInv'
<1>1. /\ c \notin connected /\ connected' = connected \union {c} /\ events' = Append(events, 1)
      /\ monitor' = [monitor EXCEPT ![c] = Append(@, "HANDSHAKE_SUCCEEDED")]
      /\ UNCHANGED <<carrier, node, clients, down, isConn, busState, seen, missed, late, request>>
  BY DEF Connect, World, App
<1>2. monitor' \in [Client -> Seq(Event)] /\ Alternation'
  <2>1. Towards(TRUE) = "HANDSHAKE_SUCCEEDED" /\ TRUE \in BOOLEAN
    BY DEF Towards
  <2>2. /\ (c \in connected) = ~TRUE
        /\ connected' = IF TRUE THEN connected \union {c} ELSE connected \ {c}
    BY <1>1
  <2> QED BY <1>1, <2>1, <2>2, MonitorAppend
<1>3. events' \in Seq({-1, 1})
  BY <1>1, AppendProperties DEF IInv, Queues
<1>4. TypeOK' /\ Queues'
  BY <1>1, <1>2, <1>3 DEF IInv, TypeOK, Queues, TpdosOffset
<1>5. LostMeansUnknown' /\ Heartbeats'
  BY <1>1 DEF IInv, LostMeansUnknown, Heartbeats
<1> QED BY <1>2, <1>4, <1>5 DEF IInv

LEMMA DisconnectStep ==
    ASSUME IInv, NEW c \in Client, NEW k \in 0..Len(down[c]), Disconnect(c, k)
    PROVE  IInv'
<1>1. /\ c \in connected /\ connected' = connected \ {c} /\ events' = Append(events, -1)
      /\ monitor' = [monitor EXCEPT ![c] = Append(@, "DISCONNECTED")]
      /\ down' = [down EXCEPT ![c] = SubSeq(@, 1, k)] /\ missed' = missed \union {c}
      /\ UNCHANGED <<carrier, node, clients, isConn, busState, seen, late, request>>
  BY DEF Disconnect, World, App
<1>2. monitor' \in [Client -> Seq(Event)] /\ Alternation'
  <2>1. Towards(FALSE) = "DISCONNECTED" /\ FALSE \in BOOLEAN
    BY DEF Towards
  <2>2. /\ (c \in connected) = ~FALSE
        /\ connected' = IF FALSE THEN connected \union {c} ELSE connected \ {c}
    BY <1>1
  <2> QED BY <1>1, <2>1, <2>2, MonitorAppend
<1>3. events' \in Seq({-1, 1})
  BY <1>1, AppendProperties DEF IInv, Queues
<1>4. /\ down' \in [Client -> Seq(Message)] /\ Len(down'[c]) <= QueueLen
      /\ \A d \in Client \ {c} : down'[d] = down[d]
  <2>1. /\ down[c] \in Seq(Message) /\ down \in [Client -> Seq(Message)]
        /\ Len(down[c]) <= QueueLen /\ Len(down[c]) \in Nat
    BY LenProperties DEF IInv, Queues, TypeOK
  <2>2. \A i \in 1..k : down[c][i] \in Message
    BY <2>1, ElementOfSeq
  <2>3. /\ SubSeq(down[c], 1, k) \in Seq(Message)
        /\ Len(SubSeq(down[c], 1, k)) = IF 1 <= k THEN k - 1 + 1 ELSE 0
    BY <2>1, <2>2, SubSeqProperties
  <2>4. Len(SubSeq(down[c], 1, k)) <= QueueLen
    BY <2>1, <2>3, Numbers
  <2> QED BY <1>1, <2>1, <2>3, <2>4
<1>5. TypeOK' /\ Queues'
  BY <1>1, <1>2, <1>3, <1>4 DEF IInv, TypeOK, Queues, TpdosOffset
<1>6. LostMeansUnknown'
  BY <1>1 DEF IInv, LostMeansUnknown
<1>7. Heartbeats'
  BY <1>1, <1>4 DEF IInv, Heartbeats
<1> QED BY <1>2, <1>5, <1>6, <1>7 DEF IInv

LEMMA CountStep ==
    ASSUME IInv, ipc_broadcast_process
    PROVE  IInv'
<1>1. /\ events # <<>> /\ clients' = (clients + Head(events)) % CounterMod /\ events' = Tail(events)
      /\ UNCHANGED <<carrier, node, connected, down, monitor, isConn, busState, seen, missed,
                     late, request>>
  BY DEF ipc_broadcast_process, World, App
<1>2. Head(events) \in {-1, 1} /\ events' \in Seq({-1, 1})
  BY <1>1, HeadTailProperties DEF IInv, Queues
<1>3. clients' \in 0..(CounterMod - 1)
  <2> DEFINE x == clients + Head(events)
  <2>1. x \in Int
    BY <1>2, Numbers DEF IInv, TypeOK
  <2> HIDE DEF x
  <2>2. x % CounterMod \in 0..(CounterMod - 1)
    BY <2>1, Numbers
  <2> QED BY <1>1, <2>2 DEF x
<1>4. TypeOK' /\ Queues'
  BY <1>1, <1>2, <1>3 DEF IInv, TypeOK, Queues, TpdosOffset
<1>5. Alternation' /\ LostMeansUnknown' /\ Heartbeats'
  BY <1>1 DEF IInv, Alternation, LostMeansUnknown, Heartbeats
<1> QED BY <1>4, <1>5 DEF IInv

\* A publication leaves the queues within their limit.
LEMMA PublishDown ==
    ASSUME IInv, NEW m \in Message, Publish(m)
    PROVE  /\ down' \in [Client -> Seq(Message)]
           /\ \A c \in Client : Len(down'[c]) <= QueueLen
           /\ \A c \in Client : down'[c] = down[c] \/ down'[c] = Append(down[c], m)
           /\ \A c \in Client : c \in connected /\ clients # 0 /\ Len(down[c]) < QueueLen
                                   => down'[c] = Append(down[c], m)
<1>1. down' = [c \in Client |-> IF c \in connected /\ ~(clients = 0) /\ Len(down[c]) < QueueLen
                                  THEN Append(down[c], m) ELSE down[c]]
  BY DEF Publish, NoClients
<1>2. \A c \in Client : /\ down[c] \in Seq(Message) /\ Len(down[c]) \in Nat /\ Len(down[c]) <= QueueLen
                        /\ Append(down[c], m) \in Seq(Message)
                        /\ Len(Append(down[c], m)) = Len(down[c]) + 1
  BY AppendElements DEF IInv, Queues, TypeOK
<1>3. ASSUME NEW c \in Client PROVE down'[c] \in Seq(Message) /\ Len(down'[c]) <= QueueLen
  <2>1. CASE c \in connected /\ ~(clients = 0) /\ Len(down[c]) < QueueLen
    <3>1. down'[c] = Append(down[c], m)
      BY <1>1, <2>1
    <3> QED BY <1>2, <2>1, <3>1, Numbers
  <2>2. CASE ~(c \in connected /\ ~(clients = 0) /\ Len(down[c]) < QueueLen)
    BY <1>1, <1>2, <2>2
  <2> QED BY <2>1, <2>2
<1> QED BY <1>1, <1>3

\* A publication that is no heartbeat.
LEMMA OtherNewsStep ==
    ASSUME IInv, NEW m \in Message, m.id # "HB_RECV", Publish(m),
           UNCHANGED <<carrier, node, connected, events, clients, monitor, isConn, busState,
                       seen, missed, late, request>>
    PROVE  IInv'
<1>1. /\ down' \in [Client -> Seq(Message)] /\ \A c \in Client : Len(down'[c]) <= QueueLen
      /\ \A c \in Client : down'[c] = down[c] \/ down'[c] = Append(down[c], m)
  BY PublishDown
<1>2. TypeOK' /\ Queues'
  BY <1>1 DEF IInv, TypeOK, Queues, TpdosOffset
<1>3. Alternation' /\ LostMeansUnknown'
  BY DEF IInv, Alternation, LostMeansUnknown
<1>4. ASSUME NEW c \in Client \ missed, Decodes(node) PROVE Tells(down'[c], seen[c], node)
  <2>1. Tells(down[c], seen[c], node) /\ down[c] \in Seq(Message)
    BY <1>4 DEF IInv, Heartbeats, Queues
  <2>2. Tells(Append(down[c], m), seen[c], node)
    BY <2>1, TellsAppend
  <2> QED BY <1>1, <2>1, <2>2
<1>5. Heartbeats'
  BY <1>4 DEF Heartbeats, Decodes
<1> QED BY <1>2, <1>3, <1>5 DEF IInv

LEMMA BusStatusStep ==
    ASSUME IInv, ipc_broadcast_bus_status
    PROVE  IInv'
<1>1. PICK s \in Told : Publish(Status(s))
  BY DEF ipc_broadcast_bus_status
<1>2. s \in BusStates
  BY <1>1, CarrierAssumption DEF Told, BusStates, IInv, TypeOK
<1>3. UNCHANGED <<carrier, node, connected, events, clients, monitor, isConn, busState, seen,
                  missed, late, request>>
  BY DEF ipc_broadcast_bus_status, World, Net, App
<1> QED BY <1>1, <1>2, <1>3, Messages, OtherNewsStep

LEMMA EmergencyStep ==
    ASSUME IInv, ipc_broadcast_emcy
    PROVE  IInv'
<1>1. /\ Publish(Emergency)
      /\ UNCHANGED <<carrier, node, connected, events, clients, monitor, isConn, busState, seen,
                     missed, late, request>>
  BY DEF ipc_broadcast_emcy, Net, App
<1> QED BY <1>1, Messages, OtherNewsStep

\* A change of the node's state: whoever has missed it is marked.
LEMMA HeartbeatStep ==
    ASSUME IInv, NEW s \in NodeState, ipc_broadcast_hb(s)
    PROVE  IInv'
<1>1. /\ node' = s /\ Publish(Heartbeat(s))
      /\ missed' = {c \in Client : c \notin connected \/ clients = 0 \/ Len(down[c]) >= QueueLen}
      /\ UNCHANGED <<carrier, connected, events, clients, monitor, isConn, busState, seen,
                     late, request>>
  BY DEF ipc_broadcast_hb, Net, App
<1>2. Heartbeat(s) \in Message
  BY Messages
<1>3. /\ down' \in [Client -> Seq(Message)] /\ \A c \in Client : Len(down'[c]) <= QueueLen
      /\ \A c \in Client : c \in connected /\ clients # 0 /\ Len(down[c]) < QueueLen
                              => down'[c] = Append(down[c], Heartbeat(s))
  BY <1>1, <1>2, PublishDown
<1>4. TypeOK' /\ Queues'
  BY <1>1, <1>3 DEF IInv, TypeOK, Queues, TpdosOffset
<1>5. Alternation' /\ LostMeansUnknown'
  BY <1>1 DEF IInv, Alternation, LostMeansUnknown
<1>6. ASSUME NEW c \in Client \ missed' PROVE Tells(down'[c], seen[c], s)
  <2>1. down[c] \in Seq(Message) /\ Len(down[c]) \in Nat
    BY LenProperties DEF IInv, Queues
  <2>2. c \in connected /\ clients # 0 /\ Len(down[c]) < QueueLen
    BY <1>1, <1>6, <2>1, Numbers
  <2>3. Tells(Append(down[c], Heartbeat(s)), seen[c], s)
    BY <1>2, <2>1, TellsAppend
  <2> QED BY <1>3, <1>6, <2>2, <2>3
<1>7. Heartbeats'
  BY <1>1, <1>6 DEF Heartbeats
<1> QED BY <1>4, <1>5, <1>7 DEF IInv

LEMMA CarrierStep ==
    ASSUME IInv, NEW s \in Carrier, CarrierChanges(s)
    PROVE  IInv'
<1>1. /\ carrier' = s
      /\ UNCHANGED <<node, connected, events, clients, down, monitor, isConn, busState, seen,
                     missed, late, request>>
  BY DEF CarrierChanges, Net, App
<1>2. TypeOK' /\ Queues'
  BY <1>1 DEF IInv, TypeOK, Queues, TpdosOffset
<1>3. Alternation' /\ LostMeansUnknown' /\ Heartbeats'
  BY <1>1 DEF IInv, Alternation, LostMeansUnknown, Heartbeats
<1> QED BY <1>2, <1>3 DEF IInv

\* Requests for TPDOs change nothing else.
LEMMA RequestStep ==
    ASSUME IInv, request' \subseteq 0..(Tpdos - 1 + TpdosOffset),
           UNCHANGED <<carrier, node, connected, events, clients, down, monitor, isConn, busState,
                       seen, missed, late>>
    PROVE  IInv'
<1>1. TypeOK' /\ Queues'
  BY DEF IInv, TypeOK, Queues, TpdosOffset
<1>2. Alternation' /\ LostMeansUnknown' /\ Heartbeats'
  BY DEF IInv, Alternation, LostMeansUnknown, Heartbeats
<1> QED BY <1>1, <1>2 DEF IInv

LEMMA ConsumeProcessStep ==
    ASSUME IInv, NEW id, NEW n \in 0..Tpdos, ipc_consume_process(id, n)
    PROVE  IInv'
<1>1. /\ request' = request \/ (n < Tpdos /\ request' = request \union {n + TpdosOffset})
      /\ UNCHANGED <<carrier, node, connected, events, clients, down, monitor, isConn, busState,
                     seen, missed, late>>
  BY DEF ipc_consume_process, InConfig, World, Net, App
<1>2. n < Tpdos => n + TpdosOffset \in 0..(Tpdos - 1 + TpdosOffset)
  BY Numbers
<1>3. request' \subseteq 0..(Tpdos - 1 + TpdosOffset)
  BY <1>1, <1>2 DEF IInv, TypeOK
<1> QED BY <1>1, <1>3, RequestStep

LEMMA TpdoSentStep ==
    ASSUME IInv, TpdoSent
    PROVE  IInv'
<1>1. /\ request' = {}
      /\ UNCHANGED <<carrier, node, connected, events, clients, down, monitor, isConn, busState,
                     seen, missed, late>>
  BY DEF TpdoSent, World, Net, App
<1> QED BY <1>1, RequestStep

LEMMA ConsumeStep ==
    ASSUME IInv, NEW c \in Client, _consume_thread_run(c)
    PROVE  IInv'
<1> DEFINE m == Head(down[c])
<1>1. /\ down[c] # <<>> /\ down' = [down EXCEPT ![c] = Tail(@)]
      /\ busState' = IF m.id = "BUS_STATUS" THEN [busState EXCEPT ![c] = m.state] ELSE busState
      /\ seen' = IF m.id = "HB_RECV" /\ Decodes(m.state) THEN [seen EXCEPT ![c] = m.state] ELSE seen
      /\ late' = IF m.id = "BUS_STATUS" /\ ~isConn[c] THEN late \union {c} ELSE late
      /\ UNCHANGED <<carrier, node, connected, events, clients, monitor, isConn, missed, request>>
  BY DEF _consume_thread_run, World, Net
<1>2. down[c] \in Seq(Message) /\ down \in [Client -> Seq(Message)] /\ Len(down[c]) <= QueueLen
  BY DEF IInv, Queues, TypeOK
<1>3. /\ Tail(down[c]) \in Seq(Message) /\ m \in Message /\ Len(down[c]) \in Nat \ {0}
      /\ Len(Tail(down[c])) = Len(down[c]) - 1
  BY <1>1, <1>2, TailElements
<1>4. /\ m.id = "BUS_STATUS" => m.state \in BusStates
      /\ m.id = "HB_RECV" => m.state \in NodeState
  BY <1>3, Messages
<1> HIDE DEF m
<1>5. /\ down' \in [Client -> Seq(Message)] /\ down'[c] = Tail(down[c])
      /\ \A d \in Client \ {c} : down'[d] = down[d] /\ busState'[d] = busState[d] /\ seen'[d] = seen[d]
      /\ busState' \in [Client -> BusStates] /\ seen' \in [Client -> NodeState]
      /\ seen'[c] = IF m.id = "HB_RECV" /\ Decodes(m.state) THEN m.state ELSE seen[c]
      /\ m.id # "BUS_STATUS" => busState'[c] = busState[c]
  <2>1. busState \in [Client -> BusStates] /\ seen \in [Client -> NodeState]
    BY DEF IInv, TypeOK, BusStates
  <2>2. down' \in [Client -> Seq(Message)] /\ down'[c] = Tail(down[c])
        /\ \A d \in Client \ {c} : down'[d] = down[d]
    BY <1>1, <1>2, <1>3
  <2>3. /\ busState' \in [Client -> BusStates]
        /\ \A d \in Client \ {c} : busState'[d] = busState[d]
        /\ m.id # "BUS_STATUS" => busState'[c] = busState[c]
    BY <1>1, <1>4, <2>1
  <2>4. /\ seen' \in [Client -> NodeState]
        /\ \A d \in Client \ {c} : seen'[d] = seen[d]
        /\ seen'[c] = IF m.id = "HB_RECV" /\ Decodes(m.state) THEN m.state ELSE seen[c]
    BY <1>1, <1>4, <2>1
  <2> QED BY <2>2, <2>3, <2>4
<1>6. TypeOK' /\ Queues'
  <2>1. \A d \in Client : Len(down'[d]) <= QueueLen
    <3>1. Len(down'[c]) <= QueueLen
      BY <1>2, <1>3, <1>5, Numbers
    <3> QED BY <1>5, <3>1 DEF IInv, TypeOK
  <2>2. late' \subseteq Client
    BY <1>1 DEF IInv, TypeOK
  <2> QED BY <1>1, <1>5, <2>1, <2>2 DEF IInv, TypeOK, Queues, TpdosOffset, BusStates
<1>7. Alternation'
  BY <1>1 DEF IInv, Alternation
<1>8. LostMeansUnknown'
  BY <1>1, <1>5 DEF IInv, LostMeansUnknown
<1>9. Heartbeats'
  <2> SUFFICES ASSUME NEW d \in Client \ missed, Decodes(node)
               PROVE  Tells(down'[d], seen'[d], node)
    BY <1>1 DEF Heartbeats, Decodes
  <2>1. Tells(down[d], seen[d], node)
    BY DEF IInv, Heartbeats
  <2>2. CASE d = c
    <3>1. Tells(Tail(down[c]), seen'[c], node)
      BY <1>1, <1>2, <1>5, <2>1, <2>2, TellsTail DEF m
    <3> QED BY <1>5, <2>2, <3>1
  <2>3. CASE d # c
    BY <1>5, <2>1, <2>3
  <2> QED BY <2>2, <2>3
<1> QED BY <1>6, <1>7, <1>8, <1>9 DEF IInv

\* An application only ever handles a loss when it believes itself connected.
LEMMA MonitorStep ==
    ASSUME IInv, NEW c \in Client, _monitor_thread_run(c)
    PROVE  IInv'
<1> DEFINE u == Head(monitor[c]) = "HANDSHAKE_SUCCEEDED"
<1>1. /\ monitor[c] # <<>> /\ monitor' = [monitor EXCEPT ![c] = Tail(@)]
      /\ isConn' = [isConn EXCEPT ![c] = u]
      /\ busState' = IF ~u /\ isConn[c] THEN [busState EXCEPT ![c] = "NOT_FOUND"] ELSE busState
      /\ late' = late \ {c}
      /\ UNCHANGED <<carrier, node, connected, events, clients, down, seen, missed, request>>
  BY DEF _monitor_thread_run, AfterLoss, World
<1>2. /\ monitor[c] \in Seq(Event) /\ monitor \in [Client -> Seq(Event)] /\ isConn[c] \in BOOLEAN
      /\ Leads(monitor[c], isConn[c], c \in connected) /\ isConn \in [Client -> BOOLEAN]
  BY DEF IInv, Queues, TypeOK, Alternation
<1>3. Head(monitor[c]) = Towards(~isConn[c]) /\ Leads(Tail(monitor[c]), ~isConn[c], c \in connected)
  <2>1. (c \in connected) \in BOOLEAN
    OBVIOUS
  <2> QED BY <1>1, <1>2, <2>1, LeadsTail, Zenon
<1>4. Tail(monitor[c]) \in Seq(Event)
  BY <1>1, <1>2, TailElements
<1>5. u = ~isConn[c]
  <2>1. CASE isConn[c] = TRUE
    BY <1>3, <2>1 DEF Towards
  <2>2. CASE isConn[c] = FALSE
    BY <1>3, <2>2 DEF Towards
  <2> QED BY <1>2, <2>1, <2>2
<1> HIDE DEF u
<1>6. /\ monitor' \in [Client -> Seq(Event)] /\ monitor'[c] = Tail(monitor[c])
      /\ isConn' \in [Client -> BOOLEAN] /\ isConn'[c] = ~isConn[c]
      /\ \A d \in Client \ {c} : monitor'[d] = monitor[d] /\ isConn'[d] = isConn[d]
  <2>1. monitor' \in [Client -> Seq(Event)] /\ monitor'[c] = Tail(monitor[c])
        /\ \A d \in Client \ {c} : monitor'[d] = monitor[d]
    BY <1>1, <1>2, <1>4
  <2>2. isConn' \in [Client -> BOOLEAN] /\ isConn'[c] = ~isConn[c]
        /\ \A d \in Client \ {c} : isConn'[d] = isConn[d]
    BY <1>1, <1>2, <1>5
  <2> QED BY <2>1, <2>2
<1>7. /\ busState' \in [Client -> BusStates]
      /\ isConn[c] => busState'[c] = "NOT_FOUND"
      /\ \A d \in Client \ {c} : busState'[d] = busState[d]
  <2>1. busState \in [Client -> BusStates] /\ "NOT_FOUND" \in BusStates
    BY DEF IInv, TypeOK, BusStates
  <2> QED BY <1>1, <1>5, <2>1
<1>8. TypeOK' /\ Queues'
  BY <1>1, <1>6, <1>7 DEF IInv, TypeOK, Queues, TpdosOffset, BusStates
<1>9. Alternation'
  <2> SUFFICES ASSUME NEW d \in Client PROVE Leads(monitor'[d], isConn'[d], d \in connected)
    BY <1>1 DEF Alternation, Leads
  <2>1. CASE d = c
    BY <1>3, <1>6, <2>1, Zenon
  <2>2. CASE d # c
    BY <1>6, <2>2 DEF IInv, Alternation
  <2> QED BY <2>1, <2>2
<1>10. LostMeansUnknown'
  <2>1. ~isConn'[c] => busState'[c] = "NOT_FOUND"
    BY <1>2, <1>6, <1>7
  <2> QED BY <1>1, <1>6, <1>7, <2>1 DEF IInv, LostMeansUnknown
<1>11. Heartbeats'
  BY <1>1 DEF IInv, Heartbeats
<1> QED BY <1>8, <1>9, <1>10, <1>11 DEF IInv

LEMMA StutterStep == IInv /\ UNCHANGED vars => IInv'
<1> SUFFICES ASSUME IInv, UNCHANGED vars PROVE IInv'
  OBVIOUS
<1>1. TypeOK' /\ Queues'
  BY DEF IInv, TypeOK, Queues, TpdosOffset, vars
<1>2. Alternation' /\ LostMeansUnknown' /\ Heartbeats'
  BY DEF IInv, Alternation, LostMeansUnknown, Heartbeats, vars
<1> QED BY <1>1, <1>2 DEF IInv

\* What is on its way between daemon and applications holds together in every
\* state, for any number of applications, connections and news.
THEOREM Inductive == Spec => []IInv
<1>1. IInv /\ [Next]_vars => IInv'
  <2> SUFFICES ASSUME IInv, [Next]_vars PROVE IInv'
    OBVIOUS
  <2>1. ASSUME NEW c \in Client, Connect(c) PROVE IInv'
    BY <2>1, ConnectStep
  <2>2. ASSUME NEW c \in Client, NEW k \in 0..Len(down[c]), Disconnect(c, k) PROVE IInv'
    BY <2>2, DisconnectStep
  <2>3. CASE ipc_broadcast_process
    BY <2>3, CountStep
  <2>4. CASE ipc_broadcast_bus_status
    BY <2>4, BusStatusStep
  <2>5. CASE ipc_broadcast_emcy
    BY <2>5, EmergencyStep
  <2>6. ASSUME NEW s \in NodeState, ipc_broadcast_hb(s) PROVE IInv'
    BY <2>6, HeartbeatStep
  <2>7. ASSUME NEW s \in Carrier, CarrierChanges(s) PROVE IInv'
    BY <2>7, CarrierStep
  <2>8. ASSUME NEW id \in {"EMCY_SEND", "TPDO_SEND", "SYNC_SEND"}, NEW n \in 0..Tpdos,
               ipc_consume_process(id, n)
        PROVE  IInv'
    BY <2>8, ConsumeProcessStep
  <2>9. CASE TpdoSent
    BY <2>9, TpdoSentStep
  <2>10. ASSUME NEW c \in Client, _consume_thread_run(c) PROVE IInv'
    BY <2>10, ConsumeStep
  <2>11. ASSUME NEW c \in Client, _monitor_thread_run(c) PROVE IInv'
    BY <2>11, MonitorStep
  <2>12. CASE UNCHANGED vars
    BY <2>12, StutterStep
  <2> QED BY <2>1, <2>2, <2>3, <2>4, <2>5, <2>6, <2>7, <2>8, <2>9, <2>10, <2>11, <2>12 DEF Next
<1> QED BY InitIInv, <1>1, PTL DEF Spec

\* The variables stay in their types, the publisher's queues within their limit
\* and the requested TPDOs within what the check of their number leaves.
THEOREM TypeCorrect == Spec => []TypeOK
<1>1. IInv => TypeOK
  BY DEF IInv
<1> QED BY <1>1, Inductive, PTL

\* An application that has noticed the loss of its connection shows no bus
\* state of before, unless its consume thread took a late one.
THEOREM LossNoticed == Spec => []LostMeansUnknown
<1>1. IInv => LostMeansUnknown
  BY DEF IInv
<1> QED BY <1>1, Inductive, PTL

\* Whoever was sent the node's last change and has consumed its queue knows the
\* node's state.
THEOREM NodeKnown == Spec => []HeartbeatKnown
<1>1. IInv => HeartbeatKnown
  <2> SUFFICES ASSUME IInv, NEW c \in Client \ missed, down[c] = <<>>, Decodes(node)
               PROVE  seen[c] = node
    BY DEF HeartbeatKnown
  <2>1. Tells(down[c], seen[c], node) /\ Len(down[c]) = 0
    BY EmptySeq DEF IInv, Heartbeats
  <2> QED BY <2>1 DEF Tells
<1> QED BY <1>1, Inductive, PTL
=============================================================================

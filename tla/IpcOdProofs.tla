---------------------------- MODULE IpcOdProofs ----------------------------
(***************************************************************************)
(* Proofs about IpcOd, for any number of applications, values, writes and  *)
(* connections and any width of the counter: the counter of clients is     *)
(* exact up to its wrap and its delay, and the cached values settle.       *)
(*                                                                         *)
(* The inductive invariant looks at the value an application will cache    *)
(* once it has consumed what is on its way to it.  Between publications    *)
(* these agree, except for those whose own write has not reached the       *)
(* daemon; each write that does reach it publishes to everybody, leaves    *)
(* its author as the only one that is told, or, when no message can hold   *)
(* it, leaves nobody.  What an application's threads are about to send is  *)
(* what it caches unless it is marked as stale.                            *)
(***************************************************************************)
EXTENDS IpcOd, SequenceTheorems, FiniteSetTheorems, FunctionTheorems, TLAPS

Shapes ==
    /\ up \in [Client -> Seq(Sayable)] /\ down \in [Client -> Seq(Sayable)]
    /\ crossed \in BOOLEAN /\ raced \in BOOLEAN
    /\ last \in Thread /\ IsFiniteSet(connected)
    /\ unsent["consumer"] \in Sayable \union {None}
    /\ stale \in [Sender -> SUBSET Client]

Latest(s) == s[Len(s)]

\* What c will cache once it has consumed what is on its way to it.
Settled(c) == IF down[c] = <<>> THEN local[c] ELSE Latest(down[c])

\* A write of c is between its cache and the daemon.
Own(c) == up[c] # <<>> \/ sending["app"][c] # None

\* Nothing is between its write to the entry and its publication.
Published == \A t \in Thread : unsent[t] = None

\* What a thread of an application is about to publish is what the application
\* caches, unless another of its threads has changed that.
Fresh ==
    \A s \in Sender, c \in Client :
        sending[s][c] # None /\ c \notin stale[s] => sending[s][c] = local[c]

\* The last value of a connected application that the daemon has not taken is
\* the one it caches, unless that has been changed since.
OwnWrites ==
    \A c \in connected :
        up[c] # <<>> /\ sending["app"][c] = None /\ c \notin met =>
            local[c] = Latest(up[c])

\* The thread that wrote the entry last has not published before the other.
Publications == ~crossed /\ ~raced /\ ~Published => unsent[last] = od

\* Those without writes of their own on the way agree.
Agreement ==
    ~crossed /\ unsent["consumer"] = None =>
        \A c, d \in told : ~Own(c) /\ ~Own(d) => Settled(c) = Settled(d)

\* They agree with the entry.
Faithful ==
    ~crossed /\ ~raced /\ Published => \A c \in told : ~Own(c) => Settled(c) = od

IInv ==
    /\ TypeOK /\ Shapes /\ CounterExact
    /\ Fresh /\ OwnWrites /\ Publications /\ Agreement /\ Faithful

-----------------------------------------------------------------------------
(* Remainders: the counter wraps.                                          *)

\* The remainder.
LEMMA Remainder ==
    ASSUME NEW M \in Nat \ {0}, NEW x \in Int
    PROVE  x % M \in 0..(M - 1) /\ \E q \in Int : x % M = x - q * M
<1>1. x % M \in 0..(M - 1) /\ x \div M \in Int
  OBVIOUS
<1>2. x % M = x - (x \div M) * M
  BY SMTT(90)
<1> QED BY <1>1, <1>2

\* Two remainders of the same number are equal.
LEMMA RemainderUnique ==
    ASSUME NEW M \in Nat \ {0}, NEW r \in 0..(M - 1), NEW s \in 0..(M - 1),
           NEW n \in Int, r = s + n * M
    PROVE  r = s
<1>1. CASE n = 0
  BY <1>1
<1>2. CASE n >= 1
  <2>1. n * M >= M
    BY <1>2
  <2> QED BY <2>1
<1>3. CASE n =< -1
  <2>1. n * M =< -M
    BY <1>3
  <2> QED BY <2>1
<1> QED BY <1>1, <1>2, <1>3

\* Numbers that differ by a multiple have the same remainder.
LEMMA Congruent ==
    ASSUME NEW M \in Nat \ {0}, NEW a \in Int, NEW b \in Int, NEW k \in Int, a = b + k * M
    PROVE  a % M = b % M
<1>1. PICK p \in Int : a % M = a - p * M
  BY Remainder
<1>2. PICK q \in Int : b % M = b - q * M
  BY Remainder
<1>3. a % M = (b % M) + ((k - p) + q) * M
  <2>1. ((k - p) + q) * M = (k * M - p * M) + q * M
    OBVIOUS
  <2>2. k * M \in Int /\ p * M \in Int /\ q * M \in Int
    OBVIOUS
  <2>3. a % M = (b + k * M) - p * M /\ b % M = b - q * M
    BY <1>1, <1>2
  <2> QED BY <2>1, <2>2, <2>3
<1>4. a % M \in 0..(M - 1) /\ b % M \in 0..(M - 1) /\ ((k - p) + q) \in Int
  BY Remainder
<1> QED BY <1>3, <1>4, RemainderUnique

\* Remainders follow an addition.
LEMMA RemainderShift ==
    ASSUME NEW M \in Nat \ {0}, NEW a \in Int, NEW b \in Int, NEW d \in Int, a % M = b % M
    PROVE  (a + d) % M = (b + d) % M
<1>1. PICK p \in Int : a % M = a - p * M
  BY Remainder
<1>2. PICK q \in Int : b % M = b - q * M
  BY Remainder
<1>3. (p - q) * M = p * M - q * M /\ p * M \in Int /\ q * M \in Int
  OBVIOUS
<1>4. a + d = (b + d) + (p - q) * M
  BY <1>1, <1>2, <1>3
<1> DEFINE k == p - q
           x == a + d
           y == b + d
<1>5. k \in Int /\ x \in Int /\ y \in Int /\ x = y + k * M
  BY <1>4
<1> HIDE DEF k, x, y
<1>6. x % M = y % M
  BY <1>5, Congruent
<1> QED BY <1>6 DEF x, y

LEMMA RemainderReduce ==
    ASSUME NEW M \in Nat \ {0}, NEW a \in Int, NEW d \in Int
    PROVE  ((a % M) + d) % M = (a + d) % M
<1>1. PICK q \in Int : a % M = a - q * M
  BY Remainder
<1>2. a % M \in Int /\ q * M \in Int /\ (-q) * M = -(q * M)
  BY Remainder
<1>3. (a % M) + d = (a + d) + (-q) * M
  BY <1>1, <1>2
<1>4. (a % M) + d \in Int /\ a + d \in Int /\ -q \in Int
  BY <1>2
<1> QED BY <1>3, <1>4, Congruent, Zenon

-----------------------------------------------------------------------------
(* The events of the monitor socket.                                       *)

Places(s, x) == {i \in DOMAIN s : s[i] = x}

LEMMA PlacesFinite ==
    ASSUME NEW S, NEW s \in Seq(S), NEW x
    PROVE  IsFiniteSet(Places(s, x)) /\ Cardinality(Places(s, x)) \in Nat
<1>1. DOMAIN s = 1..Len(s) /\ Len(s) \in Nat
  BY LenProperties
<1>2. IsFiniteSet(DOMAIN s)
  BY <1>1, FS_Interval
<1>3. Places(s, x) \in SUBSET DOMAIN s
  BY DEF Places
<1>4. IsFiniteSet(Places(s, x))
  BY <1>2, <1>3, FS_Subset
<1> QED BY <1>4, FS_CardinalityType

LEMMA PlacesAppend ==
    ASSUME NEW S, NEW s \in Seq(S), NEW e \in S, NEW x
    PROVE  Cardinality(Places(Append(s, e), x)) = Cardinality(Places(s, x)) + (IF e = x THEN 1 ELSE 0)
<1> DEFINE t == Append(s, e)
<1>1. /\ DOMAIN s = 1..Len(s) /\ Len(s) \in Nat /\ DOMAIN t = 1..(Len(s) + 1)
      /\ \A i \in 1..Len(s) : t[i] = s[i]
      /\ t[Len(s) + 1] = e
  BY LenProperties, AppendProperties
<1>2. IsFiniteSet(Places(s, x)) /\ Cardinality(Places(s, x)) \in Nat
  BY PlacesFinite
<1>3. Len(s) + 1 \notin Places(s, x)
  BY <1>1 DEF Places
<1> HIDE DEF t
<1>4. CASE e = x
  <2>1. Places(t, x) = Places(s, x) \union {Len(s) + 1}
    BY <1>1, <1>4 DEF Places
  <2>2. Cardinality(Places(t, x)) = Cardinality(Places(s, x)) + 1
    BY <1>2, <1>3, <2>1, FS_AddElement
  <2> QED BY <1>4, <2>2 DEF t
<1>5. CASE e # x
  <2>1. Places(t, x) = Places(s, x)
    BY <1>1, <1>5 DEF Places
  <2> QED BY <1>2, <1>5, <2>1 DEF t
<1> QED BY <1>4, <1>5

LEMMA PlacesTail ==
    ASSUME NEW S, NEW s \in Seq(S), s # <<>>, NEW x
    PROVE  Cardinality(Places(Tail(s), x)) = Cardinality(Places(s, x)) - (IF Head(s) = x THEN 1 ELSE 0)
<1> DEFINE t == Tail(s)
           A == Places(s, x) \ {1}
           B == Places(t, x)
           f == [i \in B |-> i + 1]
<1>1. /\ DOMAIN s = 1..Len(s) /\ Len(s) \in Nat \ {0} /\ DOMAIN t = 1..(Len(s) - 1)
      /\ \A i \in 1..(Len(s) - 1) : t[i] = s[i + 1]
      /\ Head(s) = s[1]
  <2>1. Len(s) \in Nat \ {0} /\ DOMAIN s = 1..Len(s)
    BY LenProperties, EmptySeq
  <2>2. t \in Seq(S) /\ Len(t) = Len(s) - 1 /\ \A i \in 1..Len(t) : t[i] = s[i + 1]
    BY HeadTailProperties
  <2>3. DOMAIN t = 1..Len(t)
    BY <2>2, LenProperties
  <2> QED BY <2>1, <2>2, <2>3
<1> HIDE DEF t
<1>2. IsFiniteSet(Places(s, x)) /\ Cardinality(Places(s, x)) \in Nat
  BY PlacesFinite
<1>3. f \in [B -> A]
  <2> SUFFICES ASSUME NEW i \in B PROVE i + 1 \in A
    OBVIOUS
  <2> QED BY <1>1 DEF Places
<1>4. \A i, j \in B : f[i] = f[j] => i = j
  BY <1>1 DEF Places
<1>5. \A a \in A : \E i \in B : f[i] = a
  <2> TAKE a \in A
  <2>1. a - 1 \in B /\ (a - 1) + 1 = a
    BY <1>1 DEF Places
  <2> QED BY <2>1
<1>6. f \in Bijection(B, A)
  BY <1>3, <1>4, <1>5, Fun_IsBij
<1>7. ExistsBijection(A, B)
  BY <1>6, Fun_ExistsBij, Fun_ExistsBijSymmetric
<1>8. /\ IsFiniteSet(A)
      /\ Cardinality(A) = IF 1 \in Places(s, x) THEN Cardinality(Places(s, x)) - 1
                          ELSE Cardinality(Places(s, x))
  BY <1>2, FS_RemoveElement
<1>9. Cardinality(B) = Cardinality(A)
  BY <1>7, <1>8, FS_Bijection
<1>10. 1 \in Places(s, x) <=> Head(s) = x
  BY <1>1 DEF Places
<1> HIDE DEF A, B
<1>11. Cardinality(B) = Cardinality(Places(s, x)) - (IF Head(s) = x THEN 1 ELSE 0)
  BY <1>2, <1>8, <1>9, <1>10
<1> QED BY <1>11 DEF B, t

\* What a queue of events adds to the counter.
Net(s) == Cardinality(Places(s, 1)) - Cardinality(Places(s, -1))

LEMMA NetInt ==
    ASSUME NEW s \in Seq({-1, 1}) PROVE Net(s) \in Int
BY PlacesFinite DEF Net

LEMMA NetAppend ==
    ASSUME NEW s \in Seq({-1, 1}), NEW e \in {-1, 1}
    PROVE  Append(s, e) \in Seq({-1, 1}) /\ Net(Append(s, e)) = Net(s) + e
<1>1. Append(s, e) \in Seq({-1, 1})
  BY AppendProperties
<1>2. /\ Cardinality(Places(Append(s, e), 1)) = Cardinality(Places(s, 1)) + (IF e = 1 THEN 1 ELSE 0)
      /\ Cardinality(Places(Append(s, e), -1)) = Cardinality(Places(s, -1)) + (IF e = -1 THEN 1 ELSE 0)
  BY PlacesAppend
<1>3. Cardinality(Places(s, 1)) \in Nat /\ Cardinality(Places(s, -1)) \in Nat
  BY PlacesFinite
<1> QED BY <1>1, <1>2, <1>3 DEF Net

LEMMA NetTail ==
    ASSUME NEW s \in Seq({-1, 1}), s # <<>>
    PROVE  /\ Tail(s) \in Seq({-1, 1}) /\ Head(s) \in {-1, 1}
           /\ Net(Tail(s)) = Net(s) - Head(s)
<1>1. Tail(s) \in Seq({-1, 1}) /\ Head(s) \in {-1, 1}
  BY HeadTailProperties
<1>2. /\ Cardinality(Places(Tail(s), 1)) = Cardinality(Places(s, 1)) - (IF Head(s) = 1 THEN 1 ELSE 0)
      /\ Cardinality(Places(Tail(s), -1)) = Cardinality(Places(s, -1)) - (IF Head(s) = -1 THEN 1 ELSE 0)
  BY PlacesTail
<1>3. Cardinality(Places(s, 1)) \in Nat /\ Cardinality(Places(s, -1)) \in Nat
  BY PlacesFinite
<1> QED BY <1>1, <1>2, <1>3 DEF Net

\* The counter in terms of Net.
LEMMA CounterNet ==
    /\ CounterExact <=> (clients + Net(events)) % CounterMod = Cardinality(connected) % CounterMod
    /\ CounterExact' <=> (clients' + Net(events')) % CounterMod = Cardinality(connected') % CounterMod
BY DEF CounterExact, Pending, Net, Places

\* A connection made or lost, with its event.
LEMMA CounterMoves ==
    ASSUME TypeOK, Shapes, CounterExact, NEW e \in {-1, 1},
           events' = Append(events, e), clients' = clients,
           IsFiniteSet(connected'), Cardinality(connected') = Cardinality(connected) + e
    PROVE  CounterExact' /\ events' \in Seq({-1, 1})
<1>1. events \in Seq({-1, 1}) /\ clients \in Nat /\ CounterMod \in Nat \ {0}
  BY ModAssumption DEF TypeOK
<1>2. Net(events') = Net(events) + e /\ Net(events) \in Int /\ events' \in Seq({-1, 1})
  BY <1>1, NetAppend, NetInt
<1> DEFINE a == clients + Net(events)
           b == Cardinality(connected)
<1>3. a \in Int /\ b \in Int /\ a % CounterMod = b % CounterMod
  <2>1. a \in Int
    BY <1>1, <1>2
  <2>2. b \in Int
    BY FS_CardinalityType DEF Shapes
  <2> QED BY <2>1, <2>2, CounterNet
<1>4. clients' + Net(events') = a + e /\ Cardinality(connected') = b + e
  BY <1>1, <1>2
<1> HIDE DEF a, b
<1>5. (a + e) % CounterMod = (b + e) % CounterMod
  <2>1. e \in Int
    OBVIOUS
  <2> QED BY <1>1, <1>3, <2>1, RemainderShift, Zenon
<1> QED BY <1>2, <1>4, <1>5, CounterNet

\* The broadcaster thread counts an event.
LEMMA CounterCounts ==
    ASSUME TypeOK, Shapes, CounterExact, ipc_broadcast_process
    PROVE  CounterExact' /\ events' \in Seq({-1, 1}) /\ clients' \in 0..(CounterMod - 1)
<1>1. events \in Seq({-1, 1}) /\ clients \in Nat /\ CounterMod \in Nat \ {0} /\ events # <<>>
  BY ModAssumption DEF TypeOK, ipc_broadcast_process
<1> DEFINE e == Head(events)
           n == Net(events)
           a == clients + e
           d == n - e
<1>2. events' \in Seq({-1, 1}) /\ e \in {-1, 1} /\ Net(events') = n - e /\ n \in Int
  BY <1>1, NetTail, NetInt DEF ipc_broadcast_process
<1>3. clients' = (clients + e) % CounterMod /\ connected' = connected
  BY DEF ipc_broadcast_process, Counted
<1> HIDE DEF e, n
<1>4. a \in Int /\ d \in Int /\ a + d = clients + n
  BY <1>1, <1>2
<1>5. clients' = a % CounterMod /\ Net(events') = d
  BY <1>2, <1>3
<1> HIDE DEF a, d
<1>6. ((a % CounterMod) + d) % CounterMod = (a + d) % CounterMod
  BY <1>1, <1>4, RemainderReduce
<1>7. (clients + n) % CounterMod = Cardinality(connected) % CounterMod
  BY CounterNet DEF n
<1>8. CounterExact'
  BY <1>3, <1>4, <1>5, <1>6, <1>7, CounterNet
<1>9. clients' \in 0..(CounterMod - 1)
  BY <1>1, <1>4, <1>5, Remainder
<1> QED BY <1>2, <1>8, <1>9

LEMMA CounterRests ==
    ASSUME CounterExact, UNCHANGED <<events, clients, connected>>
    PROVE  CounterExact'
BY CounterNet

-----------------------------------------------------------------------------
(* Queues of values.                                                       *)

LEMMA AppendLatest ==
    ASSUME NEW S, NEW s \in Seq(S), NEW v \in S
    PROVE  Append(s, v) \in Seq(S) /\ Append(s, v) # <<>> /\ Latest(Append(s, v)) = v
BY AppendProperties DEF Latest

LEMMA TailLatest ==
    ASSUME NEW S, NEW s \in Seq(S), s # <<>>
    PROVE  /\ Head(s) \in S /\ Tail(s) \in Seq(S)
           /\ Tail(s) = <<>> => Latest(s) = Head(s)
           /\ Tail(s) # <<>> => Latest(Tail(s)) = Latest(s)
<1>1. /\ Head(s) \in S /\ Tail(s) \in Seq(S) /\ Len(Tail(s)) = Len(s) - 1
      /\ \A i \in 1..Len(Tail(s)) : Tail(s)[i] = s[i + 1]
  BY HeadTailProperties
<1>2. Len(s) \in Nat \ {0} /\ Len(Tail(s)) \in Nat /\ Head(s) = s[1]
  BY <1>1, LenProperties, EmptySeq
<1>3. Tail(s) = <<>> => Latest(s) = Head(s)
  <2>1. Tail(s) = <<>> => Len(Tail(s)) = 0
    BY EmptySeq
  <2>2. Len(Tail(s)) = 0 => Len(s) = 1
    <3> DEFINE m == Len(Tail(s))
               k == Len(s)
    <3>1. k \in Nat /\ m = k - 1
      BY <1>1, <1>2
    <3> HIDE DEF m, k
    <3>2. m = 0 => k = 1
      BY <3>1
    <3> QED BY <3>2 DEF m, k
  <2> QED BY <1>2, <2>1, <2>2 DEF Latest
<1>4. Tail(s) # <<>> => Latest(Tail(s)) = Latest(s)
  <2> SUFFICES ASSUME Tail(s) # <<>> PROVE Latest(Tail(s)) = Latest(s)
    OBVIOUS
  <2>1. Len(Tail(s)) # 0
    BY <1>1, EmptySeq
  <2>2. Len(Tail(s)) \in 1..Len(Tail(s)) /\ Len(Tail(s)) + 1 = Len(s)
    BY <1>1, <1>2, <2>1
  <2>3. Tail(s)[Len(Tail(s))] = s[Len(Tail(s)) + 1]
    BY <1>1, <2>2
  <2> QED BY <2>2, <2>3 DEF Latest
<1> QED BY <1>1, <1>3, <1>4

-----------------------------------------------------------------------------
(* The invariant is inductive.                                             *)

LEMMA InitIInv == Init => IInv
<1> SUFFICES ASSUME Init PROVE IInv
  OBVIOUS
<1>1. \A S : <<>> \in Seq(S)
  BY EmptySeq
<1>2. TypeOK
  <2>1. 0 \in 0..(CounterMod - 1)
    BY ModAssumption
  <2> QED BY <1>1, <2>1, ValueAssumption DEF Init, TypeOK, Sayable
<1>3. Shapes
  BY <1>1, FS_EmptySet DEF Init, Shapes, Thread
<1>4. CounterExact
  <2>1. DOMAIN <<>> = {}
    BY EmptySeq, LenProperties
  <2>2. Places(<<>>, 1) = {} /\ Places(<<>>, -1) = {}
    BY <2>1 DEF Places
  <2>3. Net(<<>>) = 0 /\ Cardinality({}) = 0
    BY <2>2, FS_EmptySet DEF Net
  <2>4. clients + Net(events) = 0 /\ Cardinality(connected) = 0
    BY <2>3 DEF Init
  <2> QED BY <2>4, CounterNet
<1>5. Fresh
  BY DEF Init, Fresh
<1>6. OwnWrites /\ Publications /\ Agreement /\ Faithful
  BY DEF Init, OwnWrites, Publications, Published, Agreement, Faithful
<1> QED BY <1>2, <1>3, <1>4, <1>5, <1>6 DEF IInv

\* Steps that touch neither the entry nor what is published.
LEMMA ConnectStep ==
    ASSUME IInv, NEW c \in Client, Connect(c)
    PROVE  IInv'
<1>1. /\ c \notin connected /\ up[c] = <<>> /\ connected' = connected \union {c}
      /\ resync' = resync \union {c} /\ events' = Append(events, 1)
      /\ UNCHANGED <<od, local, sending, up, down, clients, unsent, last, told, stale,
                     met, crossed, raced>>
  BY DEF Connect, Ghosts
<1>2. IsFiniteSet(connected') /\ Cardinality(connected') = Cardinality(connected) + 1
  BY <1>1, FS_AddElement DEF IInv, Shapes
<1>3. CounterExact' /\ events' \in Seq({-1, 1})
  BY <1>1, <1>2, CounterMoves DEF IInv
<1>4. TypeOK'
  BY <1>1, <1>3 DEF IInv, TypeOK
<1>5. Shapes'
  BY <1>1, <1>2 DEF IInv, Shapes
<1>6. Fresh' /\ OwnWrites'
  BY <1>1 DEF IInv, Fresh, OwnWrites
<1>7. Publications' /\ Agreement' /\ Faithful'
  BY <1>1 DEF IInv, Publications, Published, Agreement, Faithful, Own, Settled
<1> QED BY <1>3, <1>4, <1>5, <1>6, <1>7 DEF IInv

LEMMA DisconnectStep ==
    ASSUME IInv, NEW c \in Client, NEW lost \in BOOLEAN, Disconnect(c, lost)
    PROVE  IInv'
<1>1. /\ c \in connected /\ connected' = connected \ {c} /\ resync' = resync \ {c}
      /\ told' = told \ {c} /\ events' = Append(events, -1)
      /\ down' = [down EXCEPT ![c] = <<>>]
      /\ up' = IF lost THEN [up EXCEPT ![c] = <<>>] ELSE up
      /\ UNCHANGED <<od, local, sending, clients, unsent, last, stale, met, crossed, raced>>
  BY DEF Disconnect
<1>2. /\ up' \in [Client -> Seq(Sayable)] /\ down' \in [Client -> Seq(Sayable)]
      /\ down'[c] = <<>>
      /\ \A d \in Client \ {c} : up'[d] = up[d] /\ down'[d] = down[d]
  <2>1. <<>> \in Seq(Sayable)
    BY EmptySeq
  <2> QED BY <1>1, <2>1 DEF IInv, Shapes
<1>3. IsFiniteSet(connected') /\ Cardinality(connected') = Cardinality(connected) + (-1)
  <2>1. IsFiniteSet(connected') /\ Cardinality(connected') = Cardinality(connected) - 1
    BY <1>1, FS_RemoveElement DEF IInv, Shapes
  <2>2. Cardinality(connected) \in Nat
    BY FS_CardinalityType DEF IInv, Shapes
  <2> QED BY <2>1, <2>2
<1>4. CounterExact' /\ events' \in Seq({-1, 1})
  BY <1>1, <1>3, CounterMoves DEF IInv
<1>5. TypeOK'
  BY <1>1, <1>2, <1>4 DEF IInv, TypeOK
<1>6. Shapes'
  BY <1>1, <1>2, <1>3 DEF IInv, Shapes
<1>7. connected \subseteq Client /\ told \subseteq Client
  BY DEF IInv, TypeOK
<1>8. Fresh' /\ OwnWrites'
  BY <1>1, <1>2, <1>7 DEF IInv, Fresh, OwnWrites
<1>9. Publications' /\ Agreement' /\ Faithful'
  <2>1. \A d \in told' : d \in told /\ Own(d)' = Own(d) /\ Settled(d)' = Settled(d)
    BY <1>1, <1>2, <1>7 DEF Settled, Own
  <2>2. Published' = Published
    BY <1>1 DEF Published
  <2> QED BY <1>1, <2>1, <2>2 DEF IInv, Publications, Agreement, Faithful
<1> QED BY <1>4, <1>5, <1>6, <1>8, <1>9 DEF IInv

LEMMA CountStep ==
    ASSUME IInv, ipc_broadcast_process
    PROVE  IInv'
<1>1. UNCHANGED <<od, local, connected, resync, sending, up, down, unsent, last, told,
                  stale, met, crossed, raced>>
  BY DEF ipc_broadcast_process, Ghosts
<1>2. CounterExact' /\ events' \in Seq({-1, 1}) /\ clients' \in 0..(CounterMod - 1)
  BY CounterCounts DEF IInv
<1>3. TypeOK' /\ Shapes'
  BY <1>1, <1>2 DEF IInv, TypeOK, Shapes
<1>4. Fresh' /\ OwnWrites'
  BY <1>1 DEF IInv, Fresh, OwnWrites
<1>5. Publications' /\ Agreement' /\ Faithful'
  BY <1>1 DEF IInv, Publications, Published, Agreement, Faithful, Own, Settled
<1> QED BY <1>2, <1>3, <1>4, <1>5 DEF IInv

-----------------------------------------------------------------------------
(* The threads of an application.                                          *)

\* sending after one of its places has changed.
LEMMA SendingMoves ==
    ASSUME TypeOK, NEW s \in Sender, NEW c \in Client, NEW v \in Sayable \union {None},
           sending' = [sending EXCEPT ![s][c] = v]
    PROVE  /\ sending' \in [Sender -> [Client -> Sayable \union {None}]]
           /\ sending'[s][c] = v
           /\ \A r \in Sender, d \in Client : r # s \/ d # c => sending'[r][d] = sending[r][d]
BY DEF TypeOK

\* od_write changes the cache; what the monitor thread is sending becomes stale.
LEMMA od_writeStep ==
    ASSUME IInv, NEW c \in Client, NEW v \in Sayable, od_write(c, v)
    PROVE  IInv'
<1>1. /\ local' = [local EXCEPT ![c] = v]
      /\ sending' = [sending EXCEPT !["app"][c] = v]
      /\ stale' = [StaleAfter(c, Overtaken(c, "app")) EXCEPT !["app"] = @ \ {c}]
      /\ UNCHANGED <<od, connected, resync, up, down, events, clients, unsent, last,
                     told, met, crossed, raced>>
  BY DEF od_write
<1>2. /\ local' \in [Client -> Sayable] /\ local'[c] = v
      /\ \A d \in Client \ {c} : local'[d] = local[d]
  BY <1>1 DEF IInv, TypeOK
<1>3. "app" \in Sender /\ v # None
  BY ValueAssumption DEF Sender, Sayable
<1>4. /\ sending' \in [Sender -> [Client -> Sayable \union {None}]]
      /\ sending'["app"][c] = v
      /\ \A r \in Sender, d \in Client : r # "app" \/ d # c => sending'[r][d] = sending[r][d]
  BY <1>1, <1>3, SendingMoves DEF IInv
<1>5. /\ stale' \in [Sender -> SUBSET Client]
      /\ \A r \in Sender, d \in Client \ {c} : d \in stale'[r] <=> d \in stale[r]
      /\ \A r \in Sender \ {"app"} : sending[r][c] # None => c \in stale'[r]
  <2>1. stale \in [Sender -> SUBSET Client]
    BY DEF IInv, Shapes
  <2>2. \A r \in Sender : stale'[r] = IF r = "app" THEN StaleAfter(c, Overtaken(c, "app"))[r] \ {c}
                                      ELSE StaleAfter(c, Overtaken(c, "app"))[r]
    BY <1>1, <1>3 DEF StaleAfter
  <2>3. DOMAIN stale' = Sender /\ \A r \in Sender : StaleAfter(c, Overtaken(c, "app"))[r] =
            IF r \in Overtaken(c, "app") THEN stale[r] \union {c} ELSE stale[r]
    BY <1>1 DEF StaleAfter
  <2>4. stale' = [r \in Sender |-> stale'[r]]
    BY <1>1 DEF StaleAfter
  <2>5. \A r \in Sender : stale'[r] \in SUBSET Client
    BY <2>1, <2>2, <2>3
  <2>6. stale' \in [Sender -> SUBSET Client]
    BY <2>4, <2>5
  <2>7. \A r \in Sender \ {"app"} : sending[r][c] # None => r \in Overtaken(c, "app")
    BY DEF Overtaken
  <2> QED BY <2>2, <2>3, <2>6, <2>7
<1>6. TypeOK' /\ Shapes'
  BY <1>1, <1>2, <1>4, <1>5 DEF IInv, TypeOK, Shapes
<1>7. CounterExact'
  BY <1>1, CounterRests DEF IInv
<1>8. Fresh'
  <2> SUFFICES ASSUME NEW r \in Sender, NEW d \in Client,
                      sending'[r][d] # None, d \notin stale'[r]
               PROVE  sending'[r][d] = local'[d]
    BY DEF Fresh
  <2>1. CASE d = c /\ r = "app"
    BY <1>2, <1>4, <2>1
  <2>2. CASE d = c /\ r # "app"
    BY <1>4, <1>5, <2>2
  <2>3. CASE d # c
    BY <1>2, <1>4, <1>5, <2>3 DEF IInv, Fresh
  <2> QED BY <2>1, <2>2, <2>3
<1>9. OwnWrites'
  BY <1>1, <1>2, <1>3, <1>4 DEF IInv, TypeOK, OwnWrites
<1>10. Publications' /\ Agreement' /\ Faithful'
  <2>1. \A d \in told' : ~Own(d)' => d \in told /\ ~Own(d) /\ Settled(d)' = Settled(d)
    BY <1>1, <1>2, <1>3, <1>4 DEF IInv, TypeOK, Settled, Own
  <2>2. Published' = Published
    BY <1>1 DEF Published
  <2> QED BY <1>1, <2>1, <2>2 DEF IInv, Publications, Agreement, Faithful
<1> QED BY <1>6, <1>7, <1>8, <1>9, <1>10 DEF IInv

\* The monitor thread reads the cache.
LEMMA ResyncStep ==
    ASSUME IInv, NEW c \in Client, Resync(c)
    PROVE  IInv'
<1>1. /\ resync' = resync \ {c}
      /\ IF c \in WriteCb
           THEN /\ sending' = [sending EXCEPT !["monitor"][c] = local[c]]
                /\ stale' = [stale EXCEPT !["monitor"] = @ \ {c}]
           ELSE UNCHANGED <<sending, stale>>
      /\ UNCHANGED <<od, local, connected, up, down, events, clients, unsent, last,
                     told, met, crossed, raced>>
  BY DEF Resync
<1>2. "monitor" \in Sender /\ "app" \in Sender /\ local[c] \in Sayable
  BY DEF Sender, IInv, TypeOK
<1>3. /\ sending' \in [Sender -> [Client -> Sayable \union {None}]]
      /\ \A r \in Sender, d \in Client :
            r # "monitor" \/ d # c \/ c \notin WriteCb => sending'[r][d] = sending[r][d]
      /\ c \in WriteCb => sending'["monitor"][c] = local[c]
  <2>1. CASE c \in WriteCb
    BY <1>1, <1>2, <2>1, SendingMoves DEF IInv
  <2>2. CASE c \notin WriteCb
    BY <1>1, <2>2 DEF IInv, TypeOK
  <2> QED BY <2>1, <2>2
<1>4. /\ stale' \in [Sender -> SUBSET Client]
      /\ \A r \in Sender, d \in Client :
            r # "monitor" \/ d # c \/ c \notin WriteCb => (d \in stale'[r] <=> d \in stale[r])
  BY <1>1, <1>2 DEF IInv, Shapes
<1>5. TypeOK' /\ Shapes'
  BY <1>1, <1>3, <1>4 DEF IInv, TypeOK, Shapes
<1>6. CounterExact'
  BY <1>1, CounterRests DEF IInv
<1>7. Fresh'
  <2> SUFFICES ASSUME NEW r \in Sender, NEW d \in Client,
                      sending'[r][d] # None, d \notin stale'[r]
               PROVE  sending'[r][d] = local[d]
    BY <1>1 DEF Fresh
  <2>1. CASE r = "monitor" /\ d = c /\ c \in WriteCb
    BY <1>3, <2>1
  <2>2. CASE ~(r = "monitor" /\ d = c /\ c \in WriteCb)
    <3>1. sending'[r][d] = sending[r][d] /\ d \notin stale[r]
      BY <1>3, <1>4, <2>2
    <3> QED BY <3>1 DEF IInv, Fresh
  <2> QED BY <2>1, <2>2
<1>8. \A d \in Client : sending'["app"][d] = sending["app"][d]
  BY <1>2, <1>3
<1>9. OwnWrites'
  BY <1>1, <1>8 DEF IInv, TypeOK, OwnWrites
<1>10. Publications' /\ Agreement' /\ Faithful'
  <2>1. \A d \in Client : Own(d)' = Own(d) /\ Settled(d)' = Settled(d)
    BY <1>1, <1>8 DEF Settled, Own
  <2>2. Published' = Published /\ told \subseteq Client
    BY <1>1 DEF Published, IInv, TypeOK
  <2> QED BY <1>1, <2>1, <2>2 DEF IInv, Publications, Agreement, Faithful
<1> QED BY <1>5, <1>6, <1>7, <1>9, <1>10 DEF IInv

\* A thread of an application publishes.
LEMMA SendStep ==
    ASSUME IInv, NEW c \in Client, NEW s \in Sender, _broadcast(c, s)
    PROVE  IInv'
<1> DEFINE v == sending[s][c]
<1>1. /\ v # None /\ sending' = [sending EXCEPT ![s][c] = None]
      /\ up' = IF c \in connected THEN [up EXCEPT ![c] = Append(@, v)] ELSE up
      /\ met' = IF c \in stale[s] THEN met \union {c} ELSE met \ {c}
      /\ UNCHANGED <<od, local, connected, resync, down, events, clients, unsent, last,
                     told, stale, crossed, raced>>
  BY DEF _broadcast
<1>2. v \in Sayable /\ up \in [Client -> Seq(Sayable)] /\ "app" \in Sender
  BY <1>1 DEF IInv, TypeOK, Shapes, Sender
<1>3. c \notin stale[s] => v = local[c]
  BY <1>1 DEF IInv, Fresh
<1> HIDE DEF v
<1>4. /\ sending' \in [Sender -> [Client -> Sayable \union {None}]]
      /\ sending'[s][c] = None
      /\ \A r \in Sender, d \in Client : r # s \/ d # c => sending'[r][d] = sending[r][d]
  <2>1. None \in Sayable \union {None}
    OBVIOUS
  <2> QED BY <1>1, <2>1, SendingMoves DEF IInv
<1>5. /\ up' \in [Client -> Seq(Sayable)]
      /\ \A d \in Client \ {c} : up'[d] = up[d]
      /\ c \in connected => up'[c] # <<>> /\ Latest(up'[c]) = v
  <2>1. /\ Append(up[c], v) \in Seq(Sayable) /\ Append(up[c], v) # <<>>
        /\ Latest(Append(up[c], v)) = v
    BY <1>2, AppendLatest
  <2>2. CASE c \in connected
    BY <1>1, <1>2, <2>1, <2>2
  <2>3. CASE c \notin connected
    BY <1>1, <1>2, <2>3
  <2> QED BY <2>2, <2>3
<1>6. TypeOK' /\ Shapes'
  BY <1>1, <1>4, <1>5 DEF IInv, TypeOK, Shapes
<1>7. CounterExact'
  BY <1>1, CounterRests DEF IInv
<1>8. Fresh'
  BY <1>1, <1>4 DEF IInv, Fresh
<1>9. OwnWrites'
  <2> SUFFICES ASSUME NEW d \in connected, up'[d] # <<>>, sending'["app"][d] = None,
                      d \notin met'
               PROVE  local[d] = Latest(up'[d])
    BY <1>1 DEF OwnWrites
  <2>1. d \in Client
    BY DEF IInv, TypeOK
  <2>2. CASE d = c
    BY <1>1, <1>3, <1>5, <2>2
  <2>3. CASE d # c
    <3>1. /\ up'[d] = up[d] /\ sending'["app"][d] = sending["app"][d]
          /\ d \notin met
      BY <1>1, <1>2, <1>4, <1>5, <2>1, <2>3
    <3> QED BY <3>1 DEF IInv, OwnWrites
  <2> QED BY <2>2, <2>3
<1>10. Publications' /\ Agreement' /\ Faithful'
  <2>1. \A d \in told' : ~Own(d)' => d \in told /\ ~Own(d) /\ Settled(d)' = Settled(d)
    <3> TAKE d \in told'
    <3> HAVE ~Own(d)'
    <3>1. d \in told /\ d \in connected /\ d \in Client
      BY <1>1 DEF IInv, TypeOK
    <3>2. d # c
      BY <1>5, <3>1 DEF Own
    <3>3. up'[d] = up[d] /\ sending'["app"][d] = sending["app"][d]
      BY <1>2, <1>4, <1>5, <3>1, <3>2
    <3> QED BY <1>1, <3>1, <3>3 DEF Own, Settled
  <2>2. Published' = Published
    BY <1>1 DEF Published
  <2> QED BY <1>1, <2>1, <2>2 DEF IInv, Publications, Agreement, Faithful
<1> QED BY <1>6, <1>7, <1>8, <1>9, <1>10 DEF IInv

\* Consuming does not change what the application will cache in the end.
LEMMA ConsumeStep ==
    ASSUME IInv, NEW c \in Client, Consume(c)
    PROVE  IInv'
<1> DEFINE R == {s \in Sender : sending[s][c] # None}
<1>1. /\ down[c] # <<>> /\ local' = [local EXCEPT ![c] = Head(down[c])]
      /\ down' = [down EXCEPT ![c] = Tail(@)]
      /\ met' = IF up[c] # <<>> THEN met \union {c} ELSE met
      /\ stale' = StaleAfter(c, R)
      /\ UNCHANGED <<od, connected, resync, sending, up, events, clients, unsent, last,
                     told, crossed, raced>>
  BY DEF Consume, Cached
<1>2. down[c] \in Seq(Sayable) /\ down \in [Client -> Seq(Sayable)] /\ local \in [Client -> Sayable]
  BY DEF IInv, TypeOK, Shapes
<1>3. /\ Head(down[c]) \in Sayable /\ Tail(down[c]) \in Seq(Sayable)
      /\ Tail(down[c]) = <<>> => Latest(down[c]) = Head(down[c])
      /\ Tail(down[c]) # <<>> => Latest(Tail(down[c])) = Latest(down[c])
  BY <1>1, <1>2, TailLatest
<1>4. /\ local' \in [Client -> Sayable] /\ local'[c] = Head(down[c])
      /\ down' \in [Client -> Seq(Sayable)] /\ down'[c] = Tail(down[c])
      /\ \A d \in Client \ {c} : local'[d] = local[d] /\ down'[d] = down[d]
  BY <1>1, <1>2, <1>3
<1>5. /\ stale' \in [Sender -> SUBSET Client]
      /\ \A r \in Sender, d \in Client \ {c} : d \in stale'[r] <=> d \in stale[r]
      /\ \A r \in Sender : sending[r][c] # None => c \in stale'[r]
  <2>1. stale \in [Sender -> SUBSET Client]
    BY DEF IInv, Shapes
  <2>2. stale' = [r \in Sender |-> IF r \in R THEN stale[r] \union {c} ELSE stale[r]]
    BY <1>1 DEF StaleAfter
  <2>3. \A r \in Sender : sending[r][c] # None => r \in R
    OBVIOUS
  <2> HIDE DEF R
  <2> QED BY <2>1, <2>2, <2>3
<1> HIDE DEF R
<1>6. TypeOK' /\ Shapes'
  <2>1. \A d \in Client : down'[d] # <<>> => d \in connected
    BY <1>1, <1>4 DEF IInv, TypeOK
  <2> QED BY <1>1, <1>4, <1>5, <2>1 DEF IInv, TypeOK, Shapes
<1>7. CounterExact'
  BY <1>1, CounterRests DEF IInv
<1>8. Fresh'
  BY <1>1, <1>4, <1>5 DEF IInv, Fresh
<1>9. OwnWrites'
  BY <1>1, <1>4 DEF IInv, TypeOK, OwnWrites
<1>10. Publications' /\ Agreement' /\ Faithful'
  <2>1. \A d \in Client : Own(d)' = Own(d) /\ Settled(d)' = Settled(d)
    BY <1>1, <1>3, <1>4 DEF Settled, Own
  <2>2. Published' = Published /\ told \subseteq Client
    BY <1>1 DEF Published, IInv, TypeOK
  <2> QED BY <1>1, <2>1, <2>2 DEF IInv, Publications, Agreement, Faithful
<1> QED BY <1>6, <1>7, <1>8, <1>9, <1>10 DEF IInv

-----------------------------------------------------------------------------
(* The daemon's writers.                                                   *)

LEMMA OtherThread == \A t \in Thread : Other(t) \in Thread /\ Other(t) # t /\ Thread = {t, Other(t)}
<1> TAKE t \in Thread
<1>1. \E u \in Thread : u # t
  BY DEF Thread
<1>2. Other(t) \in Thread /\ Other(t) # t
  BY <1>1 DEF Other
<1> QED BY <1>2 DEF Thread

\* A value that a message holds reaches everybody who is connected, and is for
\* all of them; another one reaches nobody.
LEMMA BroadcastStep ==
    ASSUME IInv, NEW t \in Thread, ipc_broadcast_data(t)
    PROVE  IInv'
<1> DEFINE v == unsent[t]
<1>1. /\ v # None /\ unsent' = [unsent EXCEPT ![t] = None]
      /\ raced' = (raced \/ (last = t /\ unsent[Other(t)] # None))
      /\ UNCHANGED <<od, local, connected, resync, sending, up, events, clients, last,
                     stale, met, crossed>>
  BY DEF ipc_broadcast_data
<1>2. IF v \in Sayable
        THEN /\ down' = [c \in Client |-> IF c \in connected THEN Append(down[c], v) ELSE down[c]]
             /\ told' = connected
        ELSE down' = down /\ told' = IF last = t THEN {} ELSE told
  BY <1>1 DEF ipc_broadcast_data, Fits, Sayable, IInv, TypeOK
<1>3. v \in Value /\ unsent \in [Thread -> Value \union {None}] /\ connected \subseteq Client
  BY <1>1 DEF IInv, TypeOK
<1>4. t = "consumer" => v \in Sayable
  BY <1>1 DEF IInv, Shapes
<1>5. Published' = (unsent[Other(t)] = None) /\ ~Published
  <2>1. ~Published
    BY <1>1 DEF Published
  <2>2. Published' <=> unsent'[t] = None /\ unsent'[Other(t)] = None
    BY OtherThread DEF Published
  <2>3. unsent'[t] = None /\ unsent'[Other(t)] = unsent[Other(t)]
    BY <1>1, <1>3, OtherThread
  <2>4. Published' \in BOOLEAN
    BY DEF Published
  <2> QED BY <2>1, <2>2, <2>3, <2>4
<1>6. v \in Sayable =>
      /\ down' \in [Client -> Seq(Sayable)]
      /\ \A c \in connected : down'[c] # <<>> /\ Latest(down'[c]) = v
      /\ \A c \in Client : down'[c] # <<>> => c \in connected
  <2> SUFFICES ASSUME v \in Sayable
               PROVE  /\ down' \in [Client -> Seq(Sayable)]
                      /\ \A c \in connected : down'[c] # <<>> /\ Latest(down'[c]) = v
                      /\ \A c \in Client : down'[c] # <<>> => c \in connected
    OBVIOUS
  <2> HIDE DEF v
  <2>1. \A c \in Client : /\ down[c] \in Seq(Sayable) /\ Append(down[c], v) \in Seq(Sayable)
                          /\ Append(down[c], v) # <<>> /\ Latest(Append(down[c], v)) = v
    BY AppendLatest DEF IInv, Shapes
  <2>2. \A c \in Client : down'[c] = IF c \in connected THEN Append(down[c], v) ELSE down[c]
    BY <1>2
  <2>3. \A c \in Client : down[c] # <<>> => c \in connected
    BY DEF IInv, TypeOK
  <2> QED BY <1>2, <1>3, <2>1, <2>2, <2>3
<1> HIDE DEF v
<1>7. /\ unsent' \in [Thread -> Value \union {None}] /\ unsent'[t] = None
      /\ unsent'[Other(t)] = unsent[Other(t)]
      /\ unsent'["consumer"] \in Sayable \union {None}
  BY <1>1, <1>3, OtherThread DEF IInv, Shapes, Thread
<1>8. told' \subseteq connected
  BY <1>2 DEF IInv, TypeOK
<1>9. TypeOK' /\ Shapes'
  <2>1. /\ down' \in [Client -> Seq(Sayable)]
        /\ \A c \in Client : down'[c] # <<>> => c \in connected
    BY <1>2, <1>6 DEF IInv, TypeOK, Shapes
  <2>2. TypeOK'
    BY <1>1, <1>7, <1>8, <2>1 DEF IInv, TypeOK
  <2>3. Shapes'
    BY <1>1, <1>7, <2>1 DEF IInv, Shapes
  <2> QED BY <2>2, <2>3
<1>10. CounterExact'
  BY <1>1, CounterRests DEF IInv
<1>11. Fresh' /\ OwnWrites'
  BY <1>1 DEF IInv, Fresh, OwnWrites
<1>12. Publications'
  <2> SUFFICES ASSUME ~crossed, ~raced', ~Published' PROVE unsent'[last] = od
    BY <1>1 DEF Publications
  <2>1. ~raced /\ unsent[Other(t)] # None /\ last # t /\ last \in Thread
    BY <1>1, <1>5 DEF IInv, Shapes
  <2>2. last = Other(t)
    BY <2>1, OtherThread
  <2>3. unsent[last] = od
    BY <1>5, <2>1 DEF IInv, Publications
  <2> QED BY <1>7, <2>2, <2>3
<1>13. Agreement'
  <2> SUFFICES ASSUME ~crossed, unsent'["consumer"] = None,
                      NEW c \in told', NEW d \in told', ~Own(c)', ~Own(d)'
               PROVE  Settled(c)' = Settled(d)'
    BY <1>1 DEF Agreement
  <2>1. CASE v \in Sayable
    BY <1>2, <1>6, <2>1 DEF Settled
  <2>2. CASE v \notin Sayable
    <3>1. t # "consumer" /\ "consumer" = Other(t)
      BY <1>4, <2>2, OtherThread DEF Thread
    <3>2. unsent["consumer"] = None
      BY <1>7, <3>1
    <3>3. c \in told /\ d \in told /\ down' = down
      BY <1>2, <2>2
    <3>4. /\ Own(c)' = Own(c) /\ Own(d)' = Own(d)
          /\ Settled(c)' = Settled(c) /\ Settled(d)' = Settled(d)
      BY <1>1, <3>3 DEF Own, Settled
    <3> QED BY <3>2, <3>3, <3>4 DEF IInv, Agreement
  <2> QED BY <2>1, <2>2
<1>14. Faithful'
  <2> SUFFICES ASSUME ~crossed, ~raced', Published', NEW c \in told' PROVE Settled(c)' = od
    BY <1>1 DEF Faithful
  <2>1. ~raced /\ unsent[Other(t)] = None
    BY <1>1, <1>5
  <2>2. unsent[last] = od
    BY <1>5, <2>1 DEF IInv, Publications
  <2>3. od # None /\ last \in Thread
    BY ValueAssumption DEF IInv, TypeOK, Shapes
  <2>4. last = t
    BY <2>1, <2>2, <2>3, OtherThread
  <2>5. v = od
    BY <2>2, <2>4 DEF v
  <2>6. v \in Sayable
    BY <1>2, <2>4
  <2> QED BY <1>2, <1>6, <2>5, <2>6 DEF Settled
<1> QED BY <1>9, <1>10, <1>11, <1>12, <1>13, <1>14 DEF IInv

\* A write to the entry that is going to be published.
LEMMA WriteOriginalStep ==
    ASSUME IInv, NEW t \in Thread, NEW v \in Value, WriteOriginal(t, v)
    PROVE  /\ od' \in Value /\ unsent' \in [Thread -> Value \union {None}] /\ last' = t
           /\ ~Published' /\ unsent'[last'] = od' /\ unsent'[t] = v
           /\ \A u \in Thread \ {t} : unsent'[u] = unsent[u]
<1>1. od' = v /\ last' = t /\ unsent' = [unsent EXCEPT ![t] = v] /\ v # None
  BY ValueAssumption DEF WriteOriginal
<1>2. /\ unsent' \in [Thread -> Value \union {None}] /\ unsent'[t] = v
      /\ \A u \in Thread \ {t} : unsent'[u] = unsent[u]
  BY <1>1 DEF IInv, TypeOK
<1> QED BY <1>1, <1>2 DEF Published

LEMMA BusWriteStep ==
    ASSUME IInv, NEW v \in Value, BusWrite(v)
    PROVE  IInv'
<1>1. /\ WriteOriginal("bus", v)
      /\ UNCHANGED <<local, connected, resync, sending, up, down, events, clients, told,
                     stale, met, crossed, raced>>
  BY DEF BusWrite, Ghosts
<1>2. "bus" \in Thread /\ "consumer" \in Thread \ {"bus"}
  BY DEF Thread
<1>3. /\ od' \in Value /\ unsent' \in [Thread -> Value \union {None}] /\ last' = "bus"
      /\ ~Published' /\ unsent'[last'] = od' /\ unsent'["consumer"] = unsent["consumer"]
  BY <1>1, <1>2, WriteOriginalStep
<1>4. TypeOK' /\ Shapes'
  BY <1>1, <1>2, <1>3 DEF IInv, TypeOK, Shapes
<1>5. CounterExact'
  BY <1>1, CounterRests DEF IInv
<1>6. Fresh' /\ OwnWrites'
  BY <1>1 DEF IInv, Fresh, OwnWrites
<1>7. Publications' /\ Faithful'
  BY <1>3 DEF Publications, Faithful
<1>8. Agreement'
  BY <1>1, <1>3 DEF IInv, Agreement, Own, Settled
<1> QED BY <1>4, <1>5, <1>6, <1>7, <1>8 DEF IInv

\* The consumer thread takes a write: it is going to be published, or its
\* author is the only one that is told.
LEMMA ConsumeOdWriteStep ==
    ASSUME IInv, NEW c \in Client, ipc_consume_od_write(c)
    PROVE  IInv'
<1> DEFINE s == up[c]
           v == Head(s)
<1>1. /\ s # <<>> /\ unsent["consumer"] = None /\ up' = [up EXCEPT ![c] = Tail(s)]
      /\ met' = IF Tail(s) = <<>> THEN met \ {c} ELSE met
      /\ \/ /\ od' = v /\ last' = "consumer" /\ told' = {c} \intersect connected
            /\ crossed' = (crossed \/ c \in met \/ down[c] # <<>> \/ unsent["bus"] # None)
            /\ UNCHANGED unsent
         \/ WriteOriginal("consumer", v) /\ UNCHANGED <<told, crossed>>
      /\ UNCHANGED <<local, connected, resync, sending, down, events, clients, stale, raced>>
  BY DEF ipc_consume_od_write
<1>2. s \in Seq(Sayable) /\ up \in [Client -> Seq(Sayable)] /\ "consumer" \in Thread /\ "bus" \in Thread
  BY DEF IInv, Shapes, Thread
<1> HIDE DEF s
<1>3. /\ v \in Sayable /\ Tail(s) \in Seq(Sayable)
      /\ Tail(s) = <<>> => Latest(s) = v
      /\ Tail(s) # <<>> => Latest(Tail(s)) = Latest(s)
  BY <1>1, <1>2, TailLatest
<1> HIDE DEF v
<1>4. /\ up' \in [Client -> Seq(Sayable)] /\ up'[c] = Tail(s)
      /\ \A d \in Client \ {c} : up'[d] = up[d]
  BY <1>1, <1>2, <1>3
<1>5. OwnWrites'
  <2> SUFFICES ASSUME NEW d \in connected, up'[d] # <<>>, sending["app"][d] = None,
                      d \notin met'
               PROVE  local[d] = Latest(up'[d])
    BY <1>1 DEF OwnWrites
  <2>1. d \in Client
    BY DEF IInv, TypeOK
  <2>2. CASE d = c
    <3>1. Tail(s) # <<>> /\ c \notin met /\ up[c] # <<>>
      BY <1>1, <1>4, <2>2 DEF s
    <3>2. local[c] = Latest(s)
      BY <2>2, <3>1 DEF IInv, OwnWrites, s
    <3> QED BY <1>3, <1>4, <2>2, <3>1, <3>2
  <2>3. CASE d # c
    BY <1>1, <1>4, <2>1, <2>3 DEF IInv, OwnWrites
  <2> QED BY <2>2, <2>3
<1>6. CounterExact'
  BY <1>1, CounterRests DEF IInv
<1>7. v \in Value
  BY <1>3 DEF Sayable
<1>8. Fresh'
  BY <1>1 DEF IInv, Fresh
<1>9. CASE WriteOriginal("consumer", v) /\ UNCHANGED <<told, crossed>>
  <2>1. /\ od' \in Value /\ unsent' \in [Thread -> Value \union {None}] /\ last' = "consumer"
        /\ ~Published' /\ unsent'[last'] = od' /\ unsent'["consumer"] = v
    BY <1>2, <1>7, <1>9, WriteOriginalStep
  <2>2. TypeOK' /\ Shapes'
    BY <1>1, <1>2, <1>3, <1>4, <1>9, <2>1 DEF IInv, TypeOK, Shapes
  <2>3. v # None
    BY <1>7, ValueAssumption
  <2>4. Publications' /\ Agreement' /\ Faithful'
    BY <2>1, <2>3 DEF Publications, Agreement, Faithful
  <2> QED BY <1>5, <1>6, <1>8, <2>2, <2>4 DEF IInv
<1>10. CASE /\ od' = v /\ last' = "consumer" /\ told' = {c} \intersect connected
            /\ crossed' = (crossed \/ c \in met \/ down[c] # <<>> \/ unsent["bus"] # None)
            /\ UNCHANGED unsent
  <2>1. TypeOK' /\ Shapes'
    BY <1>1, <1>2, <1>4, <1>7, <1>10 DEF IInv, TypeOK, Shapes
  <2>2. ~crossed' => ~crossed /\ c \notin met /\ down[c] = <<>> /\ Published'
    BY <1>1, <1>10 DEF Published, Thread
  <2>3. Publications'
    BY <2>2 DEF Publications
  <2>4. ASSUME ~crossed', NEW d \in told', ~Own(d)'
        PROVE  Settled(d)' = od'
    <3>1. d = c /\ c \in connected /\ up'[c] = <<>> /\ sending["app"][c] = None
      BY <1>1, <1>10, <2>4 DEF Own
    <3>2. local[c] = Latest(s)
      BY <1>1, <2>2, <2>4, <3>1 DEF IInv, OwnWrites, s
    <3>3. Latest(s) = od'
      BY <1>3, <1>4, <1>10, <3>1
    <3>4. local'[d] = local[c] /\ down'[d] = <<>>
      BY <1>1, <2>2, <2>4, <3>1
    <3> QED BY <3>2, <3>3, <3>4 DEF Settled
  <2>5. Agreement' /\ Faithful'
    BY <2>4 DEF Agreement, Faithful
  <2> QED BY <1>5, <1>6, <1>8, <2>1, <2>3, <2>5 DEF IInv
<1> QED BY <1>1, <1>9, <1>10

LEMMA StutterStep == IInv /\ UNCHANGED vars => IInv'
<1> SUFFICES ASSUME IInv, UNCHANGED vars PROVE IInv'
  OBVIOUS
<1>1. TypeOK' /\ Shapes'
  BY DEF IInv, TypeOK, Shapes, vars
<1>2. CounterExact'
  BY CounterRests DEF IInv, vars
<1>3. Fresh' /\ OwnWrites'
  BY DEF IInv, Fresh, OwnWrites, vars
<1>4. Publications' /\ Agreement' /\ Faithful'
  BY DEF IInv, Publications, Published, Agreement, Faithful, Own, Settled, vars
<1> QED BY <1>1, <1>2, <1>3, <1>4 DEF IInv

\* What is known of the entry, the queues and the caches holds in every state,
\* for any number of applications, writes and connections.
THEOREM Inductive == Spec => []IInv
<1>1. IInv /\ [Next]_vars => IInv'
  <2> SUFFICES ASSUME IInv, [Next]_vars PROVE IInv'
    OBVIOUS
  <2>1. CASE ipc_broadcast_process
    BY <2>1, CountStep
  <2>2. ASSUME NEW t \in Thread, ipc_broadcast_data(t) PROVE IInv'
    BY <2>2, BroadcastStep
  <2>3. ASSUME NEW c \in Client, ipc_consume_od_write(c) PROVE IInv'
    BY <2>3, ConsumeOdWriteStep
  <2>4. ASSUME NEW c \in Client, Connect(c) PROVE IInv'
    BY <2>4, ConnectStep
  <2>5. ASSUME NEW c \in Client, Resync(c) PROVE IInv'
    BY <2>5, ResyncStep
  <2>6. ASSUME NEW c \in Client, Consume(c) PROVE IInv'
    BY <2>6, ConsumeStep
  <2>7. ASSUME NEW c \in Client, NEW lost \in BOOLEAN, Disconnect(c, lost) PROVE IInv'
    BY <2>7, DisconnectStep
  <2>8. ASSUME NEW c \in Client, NEW v \in Sayable, od_write(c, v) PROVE IInv'
    BY <2>8, od_writeStep
  <2>11. ASSUME NEW c \in Client, NEW s \in Sender, _broadcast(c, s) PROVE IInv'
    BY <2>11, SendStep
  <2>9. ASSUME NEW v \in Value, BusWrite(v) PROVE IInv'
    BY <2>9, BusWriteStep
  <2>10. CASE UNCHANGED vars
    BY <2>10, StutterStep
  <2> QED
    BY <2>1, <2>2, <2>3, <2>4, <2>5, <2>6, <2>7, <2>8, <2>9, <2>10, <2>11 DEF Next, Daemon
<1> QED BY InitIInv, <1>1, PTL DEF Spec

\* The variables stay in their types: in particular no message carries a value
\* that its buffer cannot hold, whatever the bus writes.
THEOREM TypeCorrect == Spec => []TypeOK
<1>1. IInv => TypeOK
  BY DEF IInv
<1> QED BY <1>1, Inductive, PTL

\* The broadcaster's counter and the events it has not seen make up the number
\* of connections, for every number of clients and every width of the counter.
THEOREM Counter == Spec => []CounterExact
<1>1. IInv => CounterExact
  BY DEF IInv
<1> QED BY <1>1, Inductive, PTL

\* Two daemon threads that write and publish without a common lock, three
\* threads of an application that share its cache, echoes and resent values:
\* once nothing is on its way, the applications that the last change was for
\* agree, and with the object dictionary unless it was raced or crossed.
THEOREM Settling == Spec => []CachesSettle
<1>1. IInv => CachesSettle
  <2> SUFFICES ASSUME IInv, Quiet, ~crossed
               PROVE  /\ \A c, d \in told : local[c] = local[d]
                      /\ ~raced => \A c \in told : local[c] = od
    BY DEF CachesSettle
  <2>1. Published /\ unsent["consumer"] = None /\ told \subseteq Client /\ "app" \in Sender
    BY DEF Quiet, Published, IInv, TypeOK, Thread, Sender
  <2>2. \A c \in told : ~Own(c) /\ Settled(c) = local[c]
    BY <2>1 DEF Quiet, Settled, Own
  <2> QED BY <2>1, <2>2 DEF IInv, Agreement, Faithful
<1> QED BY <1>1, Inductive, PTL
=============================================================================

----------------------------- MODULE IpcRespond -----------------------------
(***************************************************************************)
(* Requests and replies: src/ipc/ipc_respond.c and the request half of the *)
(* Python client (NodeClientBase._send_and_recv).                          *)
(*                                                                         *)
(* Applications talk to the daemon's responder thread over REQ sockets     *)
(* that connect to its ROUTER socket.  A REQ socket allows one request at  *)
(* a time and the client waits for the answer without a timeout.  The      *)
(* thread takes one request after the other, performs it (an SDO transfer  *)
(* on the CAN bus may take seconds) and answers through the routing id of  *)
(* the request.  A client process may die and come back while its request  *)
(* is queued or being served: it then has a new routing id, and ROUTER     *)
(* drops what is sent to the old one.                                      *)
(*                                                                         *)
(* A message is its version, its id, the class of its length (see Size),   *)
(* the length field of its data (1: one value, 0: none) and the value that *)
(* follows.  The two sides do not agree on every layout: an answer to      *)
(* SDO_READ has its data behind a length field of zero, and the requests   *)
(* about files are packed without the index and subindex that the daemon   *)
(* reads out of them.  A message longer than IPC_MSG_MAX_LEN and a client  *)
(* that chooses its own routing id are outside the model.                  *)
(***************************************************************************)
EXTENDS Naturals, FiniteSets

CONSTANTS
    Client,       \* the applications
    Value,        \* values of the remote object that SDO requests are about
    Sent,         \* the requests that clients send
    MaxRestarts,  \* bound: how often each client comes back with a new route
    None          \* no request, no job, no data

FileIds == {"SDO_READ_TO_FILE", "SDO_WRITE_FROM_FILE"}
SdoIds == {"SDO_READ", "SDO_WRITE"} \union FileIds
Ids == SdoIds \union {"ADD_FILE", "OTHER"}    \* OTHER: any id not in the switch

\* Length classes: at most the header; less than the message's minimum (also a
\* file request with a path of less than three bytes); a length its struct can
\* have; more than its struct.
Size == {"header", "short", "fit", "long"}

Request == [version : {0, 1}, id : Ids, size : Size, value : Value]

ASSUME RestartsAssumption == MaxRestarts \in [Client -> Nat]
ASSUME SentAssumption == Sent \subseteq Request

\* A request with the route it came on, as ROUTER hands it out.
Message == [from : Client, route : Nat, req : Sent]

ASSUME NoneAssumption == None \notin Sent /\ None \notin Message /\ None \notin Value

VARIABLES
    sdoClient,   \* co->SDOclient: whether the node's OD makes it an SDO client
    freadCache,  \* whether there is a fread cache (none on the manager node)
    route,       \* route[c]: the routing id of c's current connection
    asked,       \* asked[c]: the request c waits for, or None
    inbox,       \* requests queued at the ROUTER socket
    job,         \* the request in the responder's hands, or None
    phase,       \* where ipc_respond_process is: "recv", "sdo", "add", "send",
                 \* or "hung" in an fcache_add that does not return
    reply,       \* buffer_out, while it matters
    outbox,      \* replies on their way
    view,        \* view[c]: how c's last call ended, the id of its request and
                 \* the data handed to the caller
    node,        \* the object of the remote node that requests are about
    fate,        \* fate[c]: "none", or whether the SDO transfer of c's latest
                 \* request has been "started" and carried out: "done"
    moved        \* moved[c]: the data that transfer carried

vars == <<sdoClient, freadCache, route, asked, inbox, job, phase, reply, outbox,
          view, node, fate, moved>>

Fixed == <<sdoClient, freadCache>>
World == <<node, fate, moved>>
Clients == <<route, asked, view>>

NoView == [id |-> "none", how |-> "none", data |-> None]
NoReply == [version |-> 0, id |-> "none", len |-> 0, data |-> None]

Init ==
    /\ sdoClient \in BOOLEAN /\ freadCache \in BOOLEAN
    /\ route = [c \in Client |-> 0]
    /\ asked = [c \in Client |-> None]
    /\ inbox = {} /\ outbox = {}
    /\ job = None /\ phase = "recv" /\ reply = NoReply
    /\ view = [c \in Client |-> NoView]
    /\ node \in Value
    /\ fate = [c \in Client |-> "none"]
    /\ moved = [c \in Client |-> None]

-----------------------------------------------------------------------------
(* The client side.                                                        *)

Ask(c, req) ==
    /\ asked[c] = None
    /\ asked' = [asked EXCEPT ![c] = req]
    /\ inbox' = inbox \union {[from |-> c, route |-> route[c], req |-> req]}
    /\ view' = [view EXCEPT ![c] = NoView]
    /\ fate' = [fate EXCEPT ![c] = "none"]
    /\ moved' = [moved EXCEPT ![c] = None]
    /\ UNCHANGED <<Fixed, route, job, phase, reply, outbox, node>>

\* The client process dies while it waits and is started again.
Restart(c) ==
    /\ asked[c] # None
    /\ route[c] < MaxRestarts[c]
    /\ route' = [route EXCEPT ![c] = @ + 1]
    /\ asked' = [asked EXCEPT ![c] = None]
    /\ view' = [view EXCEPT ![c] = NoView]
    /\ fate' = [fate EXCEPT ![c] = "none"]
    /\ moved' = [moved EXCEPT ![c] = None]
    /\ UNCHANGED <<Fixed, inbox, job, phase, reply, outbox, node>>

\* What _send_and_recv makes of a reply: three ids raise, then unpack checks
\* the version and the id, and anything else is the result of the call.
Outcome(req, r) ==
    IF r.id = "ERROR" THEN "generic error"
    ELSE IF r.id = "ERROR_UNKNOWN_ID" THEN "unknown id"
    ELSE IF r.id = "ERROR_ABORT" THEN "abort"
    ELSE IF r.version # 0 \/ r.id # req.id THEN "version error"
    ELSE "returned"

\* The data a reply is unpacked to: as much as its length field says.
Unpacked(r) == IF r.len = 0 THEN None ELSE r.data

\* A reply arrives; the one to a route that is gone has been dropped.
Receive(c) ==
    \E m \in outbox :
        /\ m.to = c
        /\ outbox' = outbox \ {m}
        /\ IF m.route = route[c]
             THEN /\ asked' = [asked EXCEPT ![c] = None]
                  /\ view' = [view EXCEPT ![c] =
                        [id |-> asked[c].id, how |-> Outcome(asked[c], m.reply),
                         data |-> IF Outcome(asked[c], m.reply) = "returned"
                                    THEN Unpacked(m.reply) ELSE None]]
             ELSE UNCHANGED <<asked, view>>
        /\ UNCHANGED <<Fixed, route, inbox, job, phase, reply, World>>

-----------------------------------------------------------------------------
(* The responder thread.                                                   *)

Short(id) == [version |-> 0, id |-> id, len |-> 0, data |-> None]
Error == Short("ERROR")
UnknownId == Short("ERROR_UNKNOWN_ID")
make_sdo_abort_msg == Short("ERROR_ABORT")

\* The request sent back as it came; only an SDO write carries a value.
Echo(req) ==
    IF req.id = "SDO_WRITE"
      THEN [version |-> 0, id |-> req.id, len |-> 1, data |-> req.value]
      ELSE Short(req.id)

\* Mutant of Dropped: a request that fails its length check is dropped too.
DroppedShort(req) == req.size \in {"header", "short"} \/ req.version # 0

\* Requests that ipc_respond_process returns from without an answer.
Dropped(req) == req.size = "header" \/ req.version # 0

\* The handler gets to its SDO transfer.
Transfers(req) == req.id \in SdoIds /\ sdoClient /\ req.size = "fit"

\* The handler gets to fcache_add.
Adds(req) == req.id = "ADD_FILE" /\ freadCache /\ req.size = "fit"

\* The answer when no handler reaches its operation: a handler that returns 0
\* is turned into the generic error.
Refusal(req) == IF req.id = "OTHER" THEN UnknownId ELSE Error

\* The client that waits for the job still does.
Waits(m) == route[m.from] = m.route

\* One request is taken: frame by frame, its three frames are always there
\* together.  Dropped requests and refusals need nothing from outside.
Take(c) ==
    \E m \in inbox :
        /\ m.from = c
        /\ phase = "recv"
        /\ inbox' = inbox \ {m}
        /\ \/ /\ Dropped(m.req)
              /\ UNCHANGED <<job, phase, reply, fate>>
           \/ /\ ~Dropped(m.req) /\ Transfers(m.req)
              /\ job' = m /\ phase' = "sdo" /\ reply' = reply
              /\ fate' = IF Waits(m) THEN [fate EXCEPT ![c] = "started"] ELSE fate
           \/ /\ ~Dropped(m.req) /\ Adds(m.req)
              /\ job' = m /\ phase' = "add" /\ UNCHANGED <<reply, fate>>
           \/ /\ ~Dropped(m.req) /\ ~Transfers(m.req) /\ ~Adds(m.req)
              /\ job' = m /\ phase' = "send" /\ reply' = Refusal(m.req) /\ fate' = fate
        /\ UNCHANGED <<Fixed, outbox, Clients, node, moved>>

\* Mutant of SdoReply: the test of the abort code is the wrong way round.
SdoReplyInverted(req, res, data) ==
    IF res = "aborted" THEN Echo(req) ELSE make_sdo_abort_msg

\* The transfer ended without an abort and its data, if any, fits in the
\* answer; otherwise the abort code is sent.  What was read is put behind the
\* request, whose length field still says that there is no data.
SdoReply(req, res, data) ==
    IF res # "done" THEN make_sdo_abort_msg
    ELSE IF req.id = "SDO_READ" THEN [Echo(req) EXCEPT !.data = data]
    ELSE Echo(req)

\* The object of the remote node after a transfer (external).  A write that
\* is reported as aborted may have reached the node all the same.  The index,
\* subindex and path of a file request are taken from other bytes than the
\* ones the client packed: it may hit any object, with any file's contents.
NodeAfter(req, res) ==
    IF req.id = "SDO_WRITE"
      THEN IF res = "done" THEN {req.value} ELSE {node, req.value}
    ELSE IF req.id = "SDO_WRITE_FROM_FILE" THEN Value
    ELSE {node}

\* The end of the SDO transfer (external: the remote node and the bus).  An
\* upload may succeed with more data than the answer can hold.  A file request
\* counts as no more than started: the transfer is not the one that was meant.
SdoEnd(res) ==
    /\ phase = "sdo"
    /\ res = "long" => job.req.id = "SDO_READ"
    /\ node' \in NodeAfter(job.req, res)
    /\ IF Waits(job) /\ res = "done" /\ job.req.id \notin FileIds
         THEN /\ fate' = [fate EXCEPT ![job.from] = "done"]
              /\ moved' = [moved EXCEPT ![job.from] = node']
         ELSE UNCHANGED <<fate, moved>>
    /\ reply' = SdoReply(job.req, res, node')
    /\ phase' = "send"
    /\ UNCHANGED <<Fixed, job, inbox, outbox, Clients>>

\* The answer of ipc_respond_add_file, whose test of fcache_add's result is
\* the wrong way round and which puts the id where the version belongs and
\* the error, 0, where the id belongs (0 is the id of EMCY_SEND).
AddReply(req, failed) ==
    IF failed THEN Echo(req)
    ELSE [version |-> 130, id |-> "EMCY_SEND", len |-> 0, data |-> None]

\* fcache_add gets the path read through ipc_msg_sdo_file_t: four bytes too
\* far into the message and followed by what longer messages left in the
\* static buffer.  Which file that names, if any, is left open.
AddEnd(failed) ==
    /\ phase = "add"
    /\ reply' = AddReply(job.req, failed)
    /\ phase' = "send"
    /\ UNCHANGED <<Fixed, job, inbox, outbox, Clients, World>>

\* fcache_add does not return: the mutex of the cache was leaked by a listing
\* that could not open the directory, or copy_file's loop never gets to the
\* length of a file that shrank.
AddHangs ==
    /\ phase = "add"
    /\ phase' = "hung"
    /\ UNCHANGED <<Fixed, job, reply, inbox, outbox, Clients, World>>

\* Mutant of Header: the answer goes to whoever is connected now.
HeaderNow(m) == [to |-> m.from, route |-> route[m.from]]

\* The routing id the answer is sent to: the one the request came with.
Header(m) == [to |-> m.from, route |-> m.route]

\* Mutant of Send: the answer is sent and the handler does not return.
SendAgain ==
    /\ phase = "send"
    /\ outbox' = outbox \union
          {[to |-> Header(job).to, route |-> Header(job).route, reply |-> reply]}
    /\ UNCHANGED <<Fixed, job, phase, reply, inbox, Clients, World>>

Send ==
    /\ phase = "send"
    /\ outbox' = outbox \union
          {[to |-> Header(job).to, route |-> Header(job).route, reply |-> reply]}
    /\ job' = None /\ phase' = "recv" /\ reply' = NoReply
    /\ UNCHANGED <<Fixed, inbox, Clients, World>>

Responder ==
    \/ \E c \in Client : Take(c)
    \/ \E res \in {"done", "aborted", "long"} : SdoEnd(res)
    \/ \E failed \in BOOLEAN : AddEnd(failed)
    \/ AddHangs
    \/ Send

Next ==
    \/ Responder
    \/ \E c \in Client : Receive(c) \/ Restart(c)
    \/ \E c \in Client, req \in Sent : Ask(c, req)

\* The responder thread runs, an SDO transfer ends (the SDO client gives up
\* after SDO_TIMEOUT_MS without a frame), fcache_add returns or is known never
\* to, ROUTER takes its peers in turn, and the connection delivers.
Fairness ==
    /\ \A c \in Client : SF_vars(Take(c)) /\ WF_vars(Receive(c))
    /\ WF_vars(phase # "recv" /\ Responder)

Spec == Init /\ [][Next]_vars /\ Fairness

-----------------------------------------------------------------------------
(* Properties.                                                             *)

\* The variables stay in their types, and no more than one request per route
\* is ever in the hands of the daemon.
TypeOK ==
    /\ sdoClient \in BOOLEAN /\ freadCache \in BOOLEAN
    /\ \A c \in Client : route[c] \in 0..MaxRestarts[c]
    /\ \A c \in Client : asked[c] \in Sent \union {None}
    /\ phase \in {"recv", "sdo", "add", "send", "hung"}
    /\ (job = None) = (phase = "recv")
    /\ node \in Value
    /\ \A c \in Client : \A r \in 0..MaxRestarts[c] :
          Cardinality({m \in inbox : m.from = c /\ m.route = r})
        + Cardinality({m \in outbox : m.to = c /\ m.route = r})
        + (IF job # None /\ job.from = c /\ job.route = r THEN 1 ELSE 0) =< 1

\* A client is never handed the answer to a request of its predecessor: what
\* arrives on its route is what it waits for.
AnswersOwnRequest ==
    \A m \in outbox : m.route = route[m.to] =>
        /\ asked[m.to] # None
        /\ m.reply.id \in {"ERROR", "ERROR_UNKNOWN_ID", "ERROR_ABORT", "EMCY_SEND",
                           asked[m.to].id}

\* What call v, whose transfer got as far as f and carried d, tells its caller.
Told(v, f, d) ==
    v.id \in SdoIds =>
        /\ v.how \in {"returned", "abort", "generic error"}
        /\ (v.how = "generic error") = (f = "none")
        /\ v.id \notin FileIds => (v.how = "returned") = (f = "done")
        /\ v.data # None => v.data = d

\* What an SDO call tells its caller is true.  The generic error means that no
\* transfer was begun; anything else that one was.  A plain read or write
\* returns exactly if its transfer was carried out, and data that is handed
\* out is what the transfer carried.  Not claimed, because the layouts differ:
\* that a read hands out its data (its length field says there is none), and
\* that a file request which returns has done what was meant.
SdoTruthful == \A c \in Client : Told(view[c], fate[c], moved[c])

\* Every request with a header the daemon accepts is answered, however
\* malformed the requests of the others are: no client waits for ever, unless
\* an fcache_add never returns, which leaves every client without an answer.
\* A request that is dropped for its header is never answered at all.
AcceptedIsAnswered ==
    \A c \in Client :
        (asked[c] # None /\ asked[c].size # "header" /\ asked[c].version = 0)
            ~> (asked[c] = None \/ phase = "hung")
=============================================================================

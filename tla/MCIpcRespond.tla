---------------------------- MODULE MCIpcRespond ----------------------------
(* Two clients and a request for every way through the responder: every    *)
(* handler, each length class, a wrong version and an id of another        *)
(* socket.  Symmetry is not used because liveness is checked.              *)
EXTENDS IpcRespond, TLC

CONSTANTS c1, c2, v1, v2

Kinds == {<<"SDO_READ", "fit">>, <<"SDO_WRITE", "fit">>, <<"SDO_WRITE", "short">>,
          <<"SDO_READ_TO_FILE", "fit">>, <<"SDO_WRITE_FROM_FILE", "long">>,
          <<"ADD_FILE", "fit">>, <<"OTHER", "fit">>, <<"SDO_READ", "header">>}

MCSent == {[version |-> 0, id |-> k[1], size |-> k[2], value |-> v1] : k \in Kinds}
          \union {[version |-> 1, id |-> "SDO_READ", size |-> "fit", value |-> v1]}

MCRestarts == (c1 :> 1) @@ (c2 :> 0)
=============================================================================

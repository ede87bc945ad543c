------------------------------ MODULE MCIpcBus ------------------------------
(***************************************************************************)
(* IpcBus with one application that connects twice, a queue of two         *)
(* messages, two pieces of news and one base TPDO among two.  The state    *)
(* DOWN reaches the application from the unreadable interface.  One        *)
(* application is enough: applications meet only in the counter, which the *)
(* events of an earlier connection disturb as a second application would.  *)
(***************************************************************************)
EXTENDS IpcBus
=============================================================================

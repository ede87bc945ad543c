------------------------------ MODULE MCIpcOd ------------------------------
(* Two applications, one with a callback, and a counter that wraps at 4.   *)
EXTENDS IpcOd

CONSTANTS c1, c2
=============================================================================

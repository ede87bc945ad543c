---------------------------- MODULE MCSdoClient ----------------------------
(***************************************************************************)
(* SdoClient with objects of no, one, two, three and five distinct bytes:  *)
(* they fit the caller's buffer or not, and the FIFO or not.               *)
(***************************************************************************)
EXTENDS SdoClient
MCObject == {[i \in 1..n |-> i] : n \in {0, 1, 2, 3, 5}}
=============================================================================

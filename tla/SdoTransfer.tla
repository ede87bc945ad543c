---------------------------- MODULE SdoTransfer ----------------------------
(***************************************************************************)
(* What a blocking SDO transfer promises to its caller, without bus, FIFO  *)
(* and segments: it ends with an outcome, and at the end the data are on   *)
(* the other side in whole, or the transfer is reported as failed.  Some   *)
(* functions do not check the other side: they call a success what has     *)
(* gaps, missing being the bytes that are not there.                       *)
(***************************************************************************)
EXTENDS Naturals, Sequences

CONSTANTS
    Kinds,           \* the functions that can be called
    Contents,        \* what can be transferred
    Whole(_, _),     \* the function transfers the content in whole
    Unchecked,       \* the functions that may lose bytes without telling
    Small(_),        \* contents that must not be refused for their size
    Refusals         \* the outcomes that stand for a refusal for the size

Success == "NONE"
Pending == "PENDING"

VARIABLES
    kind, data,      \* the transfer in progress
    outcome,         \* Pending, Success, or why it failed
    moved,           \* after a success, what is on the other side
    missing          \* after a success, how many bytes are not

vars == <<kind, data, outcome, moved, missing>>

Init == outcome \notin {Pending, Success} /\ moved = <<>> /\ missing = 0

Start(k, d) ==
    /\ outcome # Pending
    /\ kind' = k /\ data' = d
    /\ outcome' = Pending /\ moved' = <<>> /\ missing' = 0

\* The transfer does not even begin.
Refuse(k) ==
    /\ outcome # Pending
    /\ kind' = k /\ data' = <<>>
    /\ outcome' \notin {Pending, Success} \union Refusals
    /\ moved' = <<>> /\ missing' = 0

Succeed ==
    /\ outcome = Pending
    /\ outcome' = Success
    /\ Whole(kind, data) =>
          IF missing' = 0 THEN moved' = data
          ELSE kind \in Unchecked /\ Len(moved') + missing' = Len(data)
    /\ UNCHANGED <<kind, data>>

Fail ==
    /\ outcome = Pending
    /\ outcome' \notin {Pending, Success}
    /\ Small(data) => outcome' \notin Refusals
    /\ UNCHANGED <<kind, data, moved, missing>>

Next ==
    \/ \E k \in Kinds, d \in Contents : Start(k, d)
    \/ \E k \in Kinds : Refuse(k)
    \/ Succeed
    \/ Fail

Spec == Init /\ [][Next]_vars
=============================================================================

--------------------------- MODULE CommandObject ---------------------------
(***************************************************************************)
(* What the OS command object promises to its clients, without threads,    *)
(* buffers or segments: it takes one command at a time, whole, and the     *)
(* step that ends the execution is the step that puts the answer in place. *)
(* Between two such steps the reply that can be read does not change.      *)
(***************************************************************************)
CONSTANTS
    Commands,   \* the command strings clients send
    Answer(_)   \* the answer to each of them

VARIABLES
    executing,  \* the status subindex says so
    command,    \* the command being executed, or <<>>
    reply       \* the reply of the last command that was executed

vars == <<executing, command, reply>>

Init == executing = FALSE /\ command = <<>> /\ reply = <<>>

Accept(c) ==
    /\ ~executing
    /\ executing' = TRUE /\ command' = c
    /\ UNCHANGED reply

\* An empty command is refused after all and leaves the old reply.
Complete ==
    /\ executing
    /\ executing' = FALSE /\ command' = <<>>
    /\ reply' = IF command = <<>> THEN reply ELSE Answer(command)

Next == Complete \/ \E c \in Commands : Accept(c)

Spec == Init /\ [][Next]_vars
=============================================================================

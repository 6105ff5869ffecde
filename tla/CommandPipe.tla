----------------------------- MODULE CommandPipe -----------------------------
(* What a connection promises those who exchange commands over it, as the    *)
(* module Exchange assumes: commands come whole and in the order they were   *)
(* sent, until the connection breaks.                                        *)
EXTENDS Sequences, Naturals

CONSTANT Cmd               \* commands
VARIABLES sent, received   \* sequences of commands

PipeInit == sent = << >> /\ received = << >>
Send == /\ \E cmd \in Cmd : sent' = Append(sent, cmd)
        /\ UNCHANGED received
Receive == /\ Len(received) < Len(sent)
           /\ received' = Append(received, sent[Len(received) + 1])
           /\ UNCHANGED sent
PipeSpec == PipeInit /\ [][Send \/ Receive]_<<sent, received>>
=============================================================================

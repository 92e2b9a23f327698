--------------------------- MODULE MessageChannel ---------------------------
(***************************************************************************)
(* What two ends of a peer connection expect of it: messages come out      *)
(* whole, in the order they went in, and none that did not go in.  How     *)
(* many come out before the connection breaks is open.                     *)
(***************************************************************************)
EXTENDS Integers, Sequences

VARIABLES
    channel,   \* messages sent and not yet received
    received,  \* the messages the receiver holds: none, or the one just received
    broken     \* nothing can be sent any more

vars == <<channel, received, broken>>

Init == channel = <<>> /\ received = {} /\ broken = FALSE

\* Any message is put behind the others.
Send == /\ ~broken
        /\ Len(channel') = Len(channel) + 1
        /\ SubSeq(channel', 1, Len(channel)) = channel
        /\ UNCHANGED <<received, broken>>

Receive == /\ channel # <<>>
           /\ received' = {Head(channel)}
           /\ channel' = Tail(channel)
           /\ UNCHANGED broken

\* The receiver has dealt with the message.
Handle == received' = {} /\ UNCHANGED <<channel, broken>>

Break == broken' = TRUE /\ UNCHANGED <<channel, received>>

Next == Send \/ Receive \/ Handle \/ Break

Spec == Init /\ [][Next]_vars
=============================================================================

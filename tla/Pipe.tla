---------------------------------- MODULE Pipe ---------------------------------
(***************************************************************************)
(* What the segment queue promises to the downloader and the processor of  *)
(* a stream: segments arrive in the order in which they were sent, each    *)
(* one once, and no more than Capacity of them are under way.              *)
(***************************************************************************)
EXTENDS Naturals

VARIABLES
    room,       \* how many may be under way, not for the pipe to decide
    sent,       \* how many segments have been sent
    received    \* the last one that has been received

vars == << sent, received >>

Init == sent = 0 /\ received = 0

Send == sent - received < room /\ sent' = sent + 1 /\ UNCHANGED received

Receive == received < sent /\ received' = received + 1 /\ UNCHANGED sent

Next == Send \/ Receive

Spec == Init /\ [][Next]_vars
================================================================================

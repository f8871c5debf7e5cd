---------------------------- MODULE IcomChannel ----------------------------
(***************************************************************************)
(* What CIcomRepeaterProtocolHandler promises the gateway thread about the *)
(* frames it is given: they reach the repeater controller one at a time,   *)
(* in the order they were queued and once each, but for those a full ring  *)
(* drops.                                                                  *)
(***************************************************************************)
EXTENDS Naturals, Sequences

CONSTANTS
    Length,       \* QUEUE_LENGTH
    Frames,
    NoFrame

VARIABLES
    waiting,      \* frames queued
    sending,      \* the frame on its way
    delivered     \* frames the controller has accepted, in order

Put(q, f) == IF Len(q) = Length - 1 THEN <<>> ELSE Append(q, f)

Init == waiting = <<>> /\ sending = NoFrame /\ delivered = <<>>

Queue ==
    /\ \E f \in Frames : waiting' = Put(waiting, f)
    /\ UNCHANGED <<sending, delivered>>

Pick ==
    /\ sending = NoFrame /\ waiting # <<>>
    /\ sending' = Head(waiting) /\ waiting' = Tail(waiting)
    /\ UNCHANGED delivered

Deliver ==
    /\ sending # NoFrame /\ sending' = NoFrame
    /\ delivered' = Append(delivered, sending)
    /\ UNCHANGED waiting

Next == Queue \/ Pick \/ Deliver

Spec == Init /\ [][Next]_<<waiting, sending, delivered>>
=============================================================================

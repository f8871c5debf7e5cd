------------------------------- MODULE MCIcom -------------------------------
(***************************************************************************)
(* The two parts the driver of an Icom repeater is made of, side by side:  *)
(* the rings its threads share (RingBuffer) and the exchange with the      *)
(* controller (IcomLink).  They have no variable in common, so a behaviour *)
(* moves one of them while the other stands in an initial state.           *)
(***************************************************************************)
EXTENDS RingBuffer, IcomLink

VARIABLE part      \* the one that moves: "ring" or "link"

RingIdle == buffer = [k \in Places |-> NoItem] /\ iPtr = 0 /\ oPtr = 0 /\ returned = NoItem
LinkIdle == IcomInit /\ prompt /\ ~over1 /\ seqNo = 0

\* Numbers go round: one first number is as good as another.  The longer
\* replies, of a controller with several repeaters, go with late answers.
DriverInit ==
    \/ part = "ring" /\ Init /\ LinkIdle
    \/ part = "link" /\ RingIdle /\ IcomInit /\ seqNo = 0 /\ over1 # prompt

DriverNext ==
    \/ part = "ring" /\ Next /\ UNCHANGED icomVars
    \/ part = "link" /\ IcomNext /\ UNCHANGED vars

DriverFairness ==
    LET Moves(A) == part = "link" /\ A
    IN  /\ WF_moving(Moves(HandlerThread)) /\ SF_moving(Moves(ReadNothing /\ timer' = "expired"))
        /\ SF_moving(Moves(SendGwyPackets /\ toRptr' # toRptr))
        /\ WF_moving(Moves(Controller /\ toRptr' # toRptr))
        /\ SF_moving(Moves(RptrReceivesFrame /\ toGwy' # toGwy))

DriverSpec ==
    DriverInit /\ [][DriverNext /\ UNCHANGED part]_<<part, vars, icomVars>> /\ DriverFairness

(* Indices inside the ring; a retry timer that runs while, and only while, *)
(* a frame is being tried; numbers and queues in their ranges.             *)
DriverTypeOK == TypeOK /\ IcomTypeOK
=============================================================================

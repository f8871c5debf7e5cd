----------------------------- MODULE MCTraffic -----------------------------
(***************************************************************************)
(* Voice, data and control as they cross a gateway: routed streams         *)
(* (G2Routes), streams of links (LinkStreams), the layout of their frames  *)
(* (WireFrames) and of connects and polls (WireControl), the time server   *)
(* (TimeServer), digital data (DigitalData) and D-RATS text (DRats).  None *)
(* has a variable of another, so a behaviour moves one of them while the   *)
(* others stand in an initial state.                                       *)
(***************************************************************************)
EXTENDS MCG2Routes, LinkStreams, WireFrames, WireControl, TimeServer, DigitalData, DRats

VARIABLE part      \* the one that moves

trafficVars == <<g2Vars, streamVars, wireVars, controlVars, timeVars, ddVars, drVars>>

One(S) == CHOOSE x \in S : TRUE

LinksIdle   == protocol = "DExtra" /\ LinkStreamsInit
WireIdle    == /\ original = LET bands == One(Bands) IN
                      [header |-> [id |-> 1, calls |-> One(Calls), flags |-> One(Flags), bands |-> bands],
                       voice  |-> [id |-> 1, mark |-> 0, data |-> Speech, bands |-> bands]]
               /\ held = original /\ hops = 0
ControlIdle == written = One({m \in Message : Sent(m)}) /\ got = Unread /\ phase = "sent"
TimeIdle    == /\ hour = 1 /\ min = 0 /\ passing = FALSE
               /\ language = "DEUTSCH_1" /\ format = "voice" /\ interval = 60 /\ TimeInit
DDIdle      == tap = TRUE /\ DDInit

TrafficInit ==
    \/ part = "g2"      /\ G2Init /\ LinksIdle /\ WireIdle /\ ControlIdle /\ TimeIdle /\ DDIdle /\ DRatsInit
    \/ part = "links"   /\ G2Init /\ LinkStreamsInit /\ WireIdle /\ ControlIdle /\ TimeIdle /\ DDIdle /\ DRatsInit
    \/ part = "wire"    /\ G2Init /\ LinksIdle /\ WireInit /\ ControlIdle /\ TimeIdle /\ DDIdle /\ DRatsInit
    \/ part = "control" /\ G2Init /\ LinksIdle /\ WireIdle /\ ControlInit /\ TimeIdle /\ DDIdle /\ DRatsInit
    \/ part = "time"    /\ G2Init /\ LinksIdle /\ WireIdle /\ ControlIdle /\ TimeInit /\ DDIdle /\ DRatsInit
    \/ part = "dd"      /\ G2Init /\ LinksIdle /\ WireIdle /\ ControlIdle /\ TimeIdle /\ DDInit /\ DRatsInit
    \/ part = "drats"   /\ G2Init /\ LinksIdle /\ WireIdle /\ ControlIdle /\ TimeIdle /\ DDIdle /\ DRatsInit

TrafficNext ==
    \/ part = "g2"      /\ G2Next
                        /\ UNCHANGED <<streamVars, wireVars, controlVars, timeVars, ddVars, drVars>>
    \/ part = "links"   /\ LinkStreamsNext
                        /\ UNCHANGED <<g2Vars, wireVars, controlVars, timeVars, ddVars, drVars>>
    \/ part = "wire"    /\ WireNext
                        /\ UNCHANGED <<g2Vars, streamVars, controlVars, timeVars, ddVars, drVars>>
    \/ part = "control" /\ ControlNext
                        /\ UNCHANGED <<g2Vars, streamVars, wireVars, timeVars, ddVars, drVars>>
    \/ part = "time"    /\ TimeNext
                        /\ UNCHANGED <<g2Vars, streamVars, wireVars, controlVars, ddVars, drVars>>
    \/ part = "dd"      /\ DDNext
                        /\ UNCHANGED <<g2Vars, streamVars, wireVars, controlVars, timeVars, drVars>>
    \/ part = "drats"   /\ DRatsNext
                        /\ UNCHANGED <<g2Vars, streamVars, wireVars, controlVars, timeVars, ddVars>>

(* The fairness of the part that moves: the actions of G2FairSpec and of   *)
(* LinkStreamsFairness, enabled while their part is the one that moves.    *)
TrafficFairness ==
    /\ WF_g2Vars(part = "g2" /\ EnterG2) /\ WF_g2Vars(part = "g2" /\ ReadPacket)
    /\ WF_g2Vars(part = "g2" /\ Pick)
    /\ \A i \in Slots : WF_streamVars(part = "links" /\ ~crashed /\ Inactive(i))

TrafficSpec ==
    TrafficInit /\ [][TrafficNext /\ UNCHANGED part]_<<part, trafficVars>> /\ TrafficFairness

(* A frame or message that one gateway writes, the next one reads as what  *)
(* it was written for (StreamArrives of WireFrames, ReadAsMeant of         *)
(* WireControl).                                                           *)
ReadAsWritten == StreamArrives /\ ReadAsMeant

(* One handler per sender and an index into the pool that moves under it;  *)
(* slots, tables, buffers and counters within their ranges.                *)
TrafficTypeOK == G2TypeOK /\ LinkStreamsTypeOK /\ DDTypeOK /\ DRatsTypeOK
=============================================================================

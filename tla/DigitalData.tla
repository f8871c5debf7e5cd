----------------------------- MODULE DigitalData -----------------------------
(***************************************************************************)
(* Digital data: Ethernet frames between the radio users of a DD repeater  *)
(* and the gateway's tap interface (src/Common/DDHandler.cpp, and the DD   *)
(* handlers of RepeaterHandler.cpp).  The gateway bridges like a switch: a *)
(* table of routes learns from the radio side which callsign has which     *)
(* Ethernet address, and a frame from the tap goes out on the radio to the *)
(* callsign of its destination address.  The first entries of the table    *)
(* are the addresses that go to everyone; nothing ever leaves it.          *)
(***************************************************************************)
EXTENDS Naturals, FiniteSets

CONSTANTS Groups, Stations,   \* Ethernet addresses: of everyone, of one station
          Users,              \* callsigns
          Everyone,           \* the callsign the dummy entries have: CQCQCQ or blanks
          NoCall, NoRoute,
          MaxEthernet

ASSUME EthernetAssumption == MaxEthernet \in Nat /\ Cardinality(Groups) <= MaxEthernet

\* A station has an address of its own, and a user a callsign.
ASSUME AddressesApart ==
  /\ Groups \cap Stations = {} /\ NoRoute \notin Groups \cup Stations
  /\ NoCall \notin Users

VARIABLES
    ethernet,    \* m_list, the entries in use
    tap,         \* m_fd: whether the tap interface could be opened
    ddCallsign,  \* m_ddCallsign of the repeater
    heardTimer,  \* m_timer: ircDDB is told of DD users once in two minutes
    radio,       \* the last frame given to the repeater
    onTap        \* history: the stations whose frames went out on the tap, with
                 \* the user each was first heard with

ddVars == <<ethernet, tap, ddCallsign, heardTimer, radio, onTap>>

Addresses == Groups \cup Stations
EthernetRoute == [address: Addresses, callsign: Users \cup {Everyone}]
NoFrame == [to |-> NoRoute, your |-> NoCall, my |-> NoCall]

DDTypeOK ==
  /\ ethernet \subseteq EthernetRoute
  /\ tap \in BOOLEAN /\ heardTimer \in BOOLEAN
  /\ ddCallsign \in Users \cup {NoCall}
  /\ radio \in [to: Addresses \cup {NoRoute}, your: Users \cup {Everyone, NoCall},
               my: Users \cup {NoCall}]

RouteTo(address) == {r \in ethernet: r.address = address}
Full == Cardinality(ethernet) = MaxEthernet

-----------------------------------------------------------------------------
DDInit ==
  /\ ethernet = {[address |-> g, callsign |-> Everyone] : g \in Groups}
  /\ tap \in BOOLEAN
  /\ ddCallsign = NoCall /\ heardTimer = FALSE
  /\ radio = NoFrame
  /\ onTap = {}

Entry(source, my) == [address |-> source, callsign |-> my]

\* The frame of a station is written to the tap.
GoesOut(source, my) ==
  onTap' = IF \E o \in onTap: o.address = source THEN onTap ELSE onTap \cup {Entry(source, my)}

(* Variant: a frame of a station there is no room for goes out all the     *)
(* same.                                                                   *)
LearnAndPass(source, my) ==
  /\ ethernet' = IF RouteTo(source) # {} \/ Full THEN ethernet
                 ELSE ethernet \cup {Entry(source, my)}
  /\ GoesOut(source, my)

(* The source of a frame is looked up, entered if it is new, and the frame *)
(* is written to the tap unless there was no room.                         *)
Learn(source, my) ==
  \/ /\ RouteTo(source) # {}
     /\ UNCHANGED ethernet /\ GoesOut(source, my)
  \/ /\ RouteTo(source) = {} /\ ~Full
     /\ ethernet' = ethernet \cup {Entry(source, my)} /\ GoesOut(source, my)
  \/ /\ RouteTo(source) = {} /\ Full
     /\ UNCHANGED <<ethernet, onTap>>

(* CRepeaterHandler::processRepeater(CDDData&): the first frame names the  *)
(* callsign the repeater is called by; CDDHandler::process.                *)
FromRadio(source, my, your) ==
  /\ ddCallsign' = IF ddCallsign = NoCall THEN your ELSE ddCallsign
  /\ heardTimer' = TRUE
  /\ IF tap THEN Learn(source, my) ELSE UNCHANGED <<ethernet, onTap>>
  /\ UNCHANGED <<tap, radio>>

HeardTime ==
  /\ heardTimer /\ heardTimer' = FALSE
  /\ UNCHANGED <<ethernet, tap, ddCallsign, radio, onTap>>

(* CDDHandler::read and CRepeaterHandler::process(CDDData&): a frame for   *)
(* an address nobody was heard with is dropped.                            *)
ToRadio(dest) ==
  /\ tap
  /\ \E r \in RouteTo(dest): radio' = [to |-> dest, your |-> r.callsign, my |-> ddCallsign]
  /\ UNCHANGED <<ethernet, tap, ddCallsign, heardTimer, onTap>>

DDNext == \/ \E source \in Stations, my \in Users, your \in Users: FromRadio(source, my, your)
          \/ HeardTime
          \/ \E dest \in Addresses: ToRadio(dest)
DDSpec == DDInit /\ [][DDNext]_ddVars

-----------------------------------------------------------------------------
(* Whatever went out on the tap can be answered: its station stays         *)
(* reachable, under one callsign, the one it was first heard with, however *)
(* full the table gets; and the answer carries the repeater's own callsign *)
(* (DDHandler.cpp:172-225, 292-325).                                       *)
Answerable ==
  /\ \A o \in onTap: RouteTo(o.address) = {o}
  /\ radio.to \in Stations => radio.my # NoCall /\ Entry(radio.to, radio.your) \in onTap
=============================================================================

---------------------------- MODULE LinkTables ----------------------------
(***************************************************************************)
(* The outgoing half of the three reflector tables of the gateway:         *)
(* CDExtraHandler::m_reflectors, CDPlusHandler::m_reflectors and           *)
(* CDCSHandler::m_reflectors, fixed arrays of MaxLinks slots.  All of them *)
(* are only touched by the gateway thread, so an operation is one step; it *)
(* is written as an operator from one "world" to the next:                 *)
(*    w.link   CRepeaterHandler's link fields, for each repeater           *)
(*    w.slots  for each protocol its table                                 *)
(*    w.wire   requests sent to reflectors and not yet answered or lost    *)
(***************************************************************************)
EXTENDS Naturals, FiniteSets, FiniteSetsExt

CONSTANTS
    Repeaters,     \* local DV repeaters (CRepeaterHandler objects)
    Targets,       \* callsigns one can link to, module letter included
    GatewayOf,     \* [Targets -> callsign without the module letter]
    ViaOf,         \* [Targets -> Vias]: the protocol the cache records
    Known,         \* targets CCacheManager::findRepeater finds
    Reserved,      \* targets whose callsign starts with REF, XRF, DCS or XLX
    Enabled,       \* protocols enabled in the configuration
    HasIrc,        \* m_irc # NULL
    MaxLinks,      \* MAX_DEXTRA_LINKS, MAX_DPLUS_LINKS, MAX_DCS_LINKS: 5
    MaxWire,       \* bound on the requests in flight
    NoTarget,      \* the empty callsign
    Free,          \* an empty slot (NULL)
    Incoming       \* a slot taken by a link somebody else opened to us

Protocols == {"DEXTRA", "DPLUS", "DCS"}
Vias      == Protocols \cup {"LOOPBACK"}

\* A loopback link is a DCS link to the gateway's own address.
TableOf(via) == IF via = "LOOPBACK" THEN "DCS" ELSE via

Slots == 1 .. MaxLinks
Ports == 1 .. MaxLinks      \* offsets from the pool's base port

Phases == {"none", "pending", "linking", "linked"}

\* m_linkStatus (LS_LINKING_DCS is phase "linking" via "DCS"), m_linkRepeater,
\* m_linkRelink, m_queryTimer.isRunning().
LinkState == {l \in [phase : Phases, via : Vias \cup {"-"}, target : Targets \cup {NoTarget},
                     relink : BOOLEAN, query : BOOLEAN] :
                 l.phase \in {"linking", "linked"} <=> l.via # "-"}

\* m_destination, m_reflector, m_linkState, m_tryTimer.isRunning(), m_myPort.
Handler == [dest : Repeaters, ref : Targets,
            state : {"LINKING", "LINKED", "UNLINKING"},
            trying : BOOLEAN, port : Ports]

ASSUME LinkAssumption ==
    /\ MaxLinks \in 1 .. 5 /\ MaxWire \in Nat \ {0}
    /\ DOMAIN GatewayOf = Targets
    /\ ViaOf \in [Targets -> Vias]
    /\ Known \subseteq Targets /\ Reserved \subseteq Targets
    /\ Enabled \subseteq Protocols /\ HasIrc \in BOOLEAN
    /\ NoTarget \notin Targets
    /\ Free # Incoming /\ {Free, Incoming} \cap Handler = {}

\* A request on its way, or one a reflector has and may still answer.
Request == [proto : Protocols, kind : {"LINK1", "LINK2", "UNLINK"},
            port : Ports, rpt : Repeaters, ref : Targets]

World == [link  : [Repeaters -> LinkState],
          slots : [Protocols -> [Slots -> Handler \cup {Free, Incoming}]],
          wire  : SUBSET Request]

Outgoing(w, p)   == {i \in Slots : w.slots[p][i] \notin {Free, Incoming}}
LinksOf(w, p, r) == {i \in Outgoing(w, p) : w.slots[p][i].dest = r}
PortsInUse(w, p) == {w.slots[p][i].port : i \in Outgoing(w, p)}

(* writeConnect.  The network may lose the datagram at once (MaxWire). *)
Send(w, p, kind, h) ==
    LET m == [proto |-> p, kind |-> kind, port |-> h.port, rpt |-> h.dest, ref |-> h.ref]
    IN  IF Cardinality(w.wire) < MaxWire \/ m \in w.wire
        THEN [w EXCEPT !.wire = @ \cup {m}] ELSE w

SetSlot(w, p, i, h) == [w EXCEPT !.slots[p][i] = h]
FreeSlot(w, p, i)   == SetSlot(w, p, i, Free)

\* Variant: the pool begins with its base port, where the incoming links are.
HandlerLinkBasePort(w, p, r, t) ==
    LET idle == {i \in Slots : w.slots[p][i] = Free}
        h    == [dest |-> r, ref |-> t, state |-> "LINKING", trying |-> TRUE,
                 port |-> Min(Ports \ PortsInUse(w, p)) - 1]
    IN  IF idle = {} THEN w ELSE Send(SetSlot(w, p, Min(idle), h), p, "LINK1", h)

(* CDExtraHandler::link, CDPlusHandler::link and CDCSHandler::link.  The   *)
(* pool opens the lowest unused port; without a free slot the new handler  *)
(* is deleted again and the caller is not told.  Only DCS looks for a link *)
(* the repeater already has.                                               *)
HandlerLink(w, p, r, t) ==
    LET idle == {i \in Slots : w.slots[p][i] = Free}
        h    == [dest |-> r, ref |-> t, state |-> "LINKING", trying |-> TRUE,
                 port |-> Min(Ports \ PortsInUse(w, p))]
        busy == p = "DCS" /\ \E i \in LinksOf(w, p, r) : w.slots[p][i].state # "UNLINKING"
    IN  IF busy \/ idle = {} THEN w
        ELSE Send(SetSlot(w, p, Min(idle), h), p, "LINK1", h)

(* CDPlusHandler::relink: D-Plus has no module in its handshake, so the    *)
(* first link of the repeater is just renamed.                             *)
DPlusRelink(w, r, t) ==
    LET mine == LinksOf(w, "DPLUS", r)
    IN  IF mine = {} THEN w ELSE [w EXCEPT !.slots["DPLUS"][Min(mine)].ref = t]
=============================================================================

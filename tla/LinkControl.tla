---------------------------- MODULE LinkControl ----------------------------
(***************************************************************************)
(* How a repeater of the gateway gets linked to a reflector and loses the  *)
(* link again.  The commands of radio users, of the remote control and of  *)
(* the reconnect timer, the answers of ircDDB, the datagrams of reflectors *)
(* and the timers of the links arrive in any order; each is handled whole  *)
(* by the gateway thread (CDStarGatewayThread::run), so each is one step.  *)
(*                                                                         *)
(* Reflectors and the network are the environment: a request may be lost,  *)
(* late, or answered more than once, and a reflector may dismiss a link    *)
(* at any time after it has seen a request for it.                         *)
(***************************************************************************)
EXTENDS ReflectorLinks

CONSTANTS
    Startup,      \* m_linkStartup of each repeater, or NoTarget
    AtStartup,    \* repeaters with m_linkAtStartup
    Fixed,        \* repeaters with m_linkReconnect = RECONNECT_FIXED
    Timed,        \* repeaters with m_linkReconnect = RECONNECT_nMINS
    RemoteModes,  \* reconnect modes the remote control sends: "timed", "never"
    OpenTo        \* protocols over which others can open a link to us

ASSUME ControlAssumption ==
    /\ Startup \in [Repeaters -> Targets \cup {NoTarget}]
    /\ AtStartup \subseteq Repeaters /\ Fixed \subseteq Repeaters
    /\ Timed \subseteq Repeaters \ Fixed /\ RemoteModes \subseteq {"timed", "never"}
    /\ OpenTo \subseteq Protocols

(* CCacheManager::findRepeater finds all modules of a gateway in one cache *)
(* record, and the prefix of a reflector's callsign is that of its modules.*)
ASSUME CacheAssumption ==
    \A t, u \in Targets : GatewayOf[t] = GatewayOf[u] =>
        (t \in Known <=> u \in Known) /\ ViaOf[t] = ViaOf[u]

VARIABLES
    link,         \* m_linkStatus, m_linkRepeater, m_linkRelink, m_queryTimer
    slots,        \* the three tables
    wire,         \* requests in flight
    g2query,      \* m_g2Status is G2_USER or G2_REPEATER
    recon,        \* m_linkReconnectTimer: no timeout yet, stopped, running
    starting      \* repeaters CRepeaterHandler::startup has yet to visit

vars == <<link, slots, wire, g2query, recon, starting>>

W == [link |-> link, slots |-> slots, wire |-> wire]
Becomes(w) == link' = w.link /\ slots' = w.slots /\ wire' = w.wire /\ UNCHANGED starting

TypeOK ==
    /\ W \in World
    /\ g2query \in [Repeaters -> BOOLEAN]
    /\ recon \in [Repeaters -> {"unset", "stopped", "running"}]
    /\ starting \subseteq Repeaters

(* CRepeaterHandler::startupInt: unlike linkInt it does not ignore an      *)
(* unknown reflector.                                                      *)
StartupInt(w, r) ==
    LET t == Startup[r]
    IN  IF r \notin AtStartup \/ t = NoTarget THEN w
        ELSE IF t \in Known THEN LinkInt(w, r, t)
        ELSE IF HasIrc THEN [SetLink(w, r, "pending", "-", t) EXCEPT !.link[r].query = TRUE]
        ELSE SetLink(w, r, "none", "-", t)

Unlinked0 == [phase |-> "none", via |-> "-", target |-> NoTarget, relink |-> FALSE, query |-> FALSE]

(* The constructors *)
Init ==
    /\ link = [r \in Repeaters |-> Unlinked0]
    /\ slots = [p \in Protocols |-> [i \in Slots |-> Free]]
    /\ wire = {}
    /\ g2query = [r \in Repeaters |-> FALSE]
    /\ recon = [r \in Repeaters |-> "unset"]
    /\ starting = Repeaters

(* CRepeaterHandler::startup visits every repeater before the main loop. *)
Start(r) ==
    LET w == StartupInt(W, r)
    IN  /\ r \in starting /\ starting' = starting \ {r}
        /\ link' = w.link /\ slots' = w.slots /\ wire' = w.wire
        /\ recon' = [recon EXCEPT ![r] = IF r \in Timed THEN "running" ELSE @]
        /\ UNCHANGED g2query

---------------------------------------------------------------------------
(* Commands *)

(* "Just a change of port?": the same reflector, another module. *)
ChangeModule(w, r, t) ==
    LET l   == w.link[r]
        new == [w EXCEPT !.link[r].relink = TRUE, !.link[r].target = t]
        p   == TableOf(l.via)
    IN  CASE l.phase = "pending" -> w
          [] l.via = "DPLUS" -> DPlusRelink([w EXCEPT !.link[r].target = t], r, t)
          [] OTHER -> SetLink(UnlinkExcept(new, p, r, t), r, "linking", l.via, t)

\* Variant: any two reflectors are taken for modules of one.
SameGatewayAlways(l, t) == l.phase # "none" /\ l.target # NoTarget

SameGateway(l, t) == l.phase # "none" /\ l.target # NoTarget /\ GatewayOf[l.target] = GatewayOf[t]

(* The tail shared by reflectorCommandHandler, link and the reconnect timer *)
LinkTo(w, r, t) ==
    IF SameGateway(w.link[r], t) THEN ChangeModule(w, r, t) ELSE LinkInt(UnlinkAll(w, r), r, t)

Unlink(w, r) == ClearLink(UnlinkAll(w, r), r)

\* m_linkReconnectTimer.start() without a timeout does nothing.
Restart(c) == IF c = "unset" THEN c ELSE "running"
\* setReconnectTimer(m_linkReconnect)
Rearmed(r) == IF r \in Timed THEN [recon EXCEPT ![r] = "running"] ELSE recon

(* processRepeater(CHeaderData&), up to the commands: a header restarts    *)
(* the reconnect timer and ends a pending G2 query.                        *)
AfterHeader(r) ==
    [W EXCEPT !.link[r].query = IF g2query[r] THEN FALSE ELSE @]

RfHeader(r) ==
    /\ recon' = [recon EXCEPT ![r] = Restart(@)]
    /\ g2query' = [g2query EXCEPT ![r] = FALSE]
    /\ Becomes(AfterHeader(r))

(* reflectorCommandHandler, reached from a header ("UR Call") or, in the   *)
(* middle of a transmission, from DTMF tones.                              *)
Command(r, w) ==
    IF r \in Fixed THEN w ELSE [w EXCEPT !.link[r].query = FALSE]

RfUnlinkEffect(r, w) ==
    IF r \in Fixed \/ w.link[r].phase = "none" THEN Command(r, w) ELSE Unlink(Command(r, w), r)

\* Variant: RECONNECT_FIXED is not looked at.
RfLinkEffectFree(r, t, w) ==
    IF w.link[r].phase # "none" /\ w.link[r].target = t THEN Command(r, w)
    ELSE LinkTo(Command(r, w), r, t)

RfLinkEffect(r, t, w) ==
    IF r \in Fixed \/ (w.link[r].phase # "none" /\ w.link[r].target = t) THEN Command(r, w)
    ELSE LinkTo(Command(r, w), r, t)

RfUnlink(r) ==
    \/ /\ recon' = [recon EXCEPT ![r] = Restart(@)]
       /\ g2query' = [g2query EXCEPT ![r] = FALSE]
       /\ Becomes(RfUnlinkEffect(r, AfterHeader(r)))
    \/ /\ UNCHANGED <<recon, g2query>>
       /\ Becomes(RfUnlinkEffect(r, W))

RfLink(r, t) ==
    \/ /\ recon' = [recon EXCEPT ![r] = Restart(@)]
       /\ g2query' = [g2query EXCEPT ![r] = FALSE]
       /\ Becomes(RfLinkEffect(r, t, AfterHeader(r)))
    \/ /\ UNCHANGED <<recon, g2query>>
       /\ Becomes(RfLinkEffect(r, t, W))

(* CRepeaterHandler::link, from the remote control; t may be NoTarget. *)
RemoteLink(r, t, mode) ==
    LET l == link[r]
    IN  /\ recon' = [recon EXCEPT ![r] = IF mode = "timed" THEN "running"
                                          ELSE IF @ = "unset" THEN @ ELSE "stopped"]
        /\ UNCHANGED g2query
        /\ Becomes(CASE (l.phase = "none" /\ t = NoTarget) \/ (l.phase # "none" /\ l.target = t) -> W
                     [] l.phase # "none" /\ l.target # t /\ t = NoTarget -> Unlink(W, r)
                     [] OTHER -> LinkTo(W, r, t))

(* CRepeaterHandler::unlink, from the remote control: m_linkStatus is left *)
(* to the callbacks of the table.                                          *)
RemoteUnlink(r, p, t) ==
    /\ ~(r \in Fixed /\ link[r].target = t)
    /\ UNCHANGED <<g2query, recon>>
    /\ Becomes(UnlinkOnly(W, p, r, t))

(* clockInt, m_linkReconnectTimer expired.  The branch for a change of     *)
(* module returns before the timer is restarted.                           *)
ReconnectExpires(r) ==
    LET l == link[r]  t == Startup[r]
    IN  /\ recon[r] = "running"
        /\ UNCHANGED g2query
        /\ \/ /\ l.phase # "none" /\ t = NoTarget
              /\ Becomes(Unlink(W, r)) /\ recon' = Rearmed(r)
           \/ /\ t # NoTarget /\ (l.phase = "none" \/ l.target # t)
              /\ Becomes(LinkTo(W, r, t))
              /\ recon' = IF SameGateway(l, t) THEN recon ELSE Rearmed(r)
           \/ /\ IF t = NoTarget THEN l.phase = "none" ELSE l.phase # "none" /\ l.target = t
              /\ Becomes(W) /\ recon' = Rearmed(r)

---------------------------------------------------------------------------
(* ircDDB and the query timer, which a G2 route shares with a link *)

(* g2CommandHandler: a header asks for an unknown user or repeater. *)
G2Query(r) ==
    /\ HasIrc
    /\ recon' = [recon EXCEPT ![r] = Restart(@)]
    /\ g2query' = [g2query EXCEPT ![r] = TRUE]
    /\ Becomes([W EXCEPT !.link[r].query = TRUE])

(* resolveRepeaterInt for the G2 route, or the end of the transmission *)
G2Done(r) ==
    /\ g2query[r]
    /\ g2query' = [g2query EXCEPT ![r] = FALSE]
    /\ Becomes([W EXCEPT !.link[r].query = FALSE])
    /\ UNCHANGED recon

(* resolveRepeaterInt for a pending link; ircDDB always says DP_DEXTRA. *)
IrcReply(r, found) ==
    LET t == link[r].target
        w == [W EXCEPT !.link[r].query = FALSE]
    IN  /\ link[r].phase = "pending" /\ t # NoTarget
        /\ UNCHANGED <<g2query, recon>>
        /\ Becomes(IF found /\ "DEXTRA" \in Enabled
                   THEN HandlerLink(SetLink(w, r, "linking", "DEXTRA", t), "DEXTRA", r, t)
                   ELSE ClearLink(w, r))

(* clockInt, m_queryTimer expired *)
QueryExpires(r) ==
    LET w == [W EXCEPT !.link[r].query = FALSE]
    IN  /\ link[r].query
        /\ UNCHANGED recon
        /\ g2query' = [g2query EXCEPT ![r] = FALSE]
        /\ Becomes(IF ~g2query[r] /\ link[r].phase = "pending" THEN ClearLink(w, r) ELSE w)

---------------------------------------------------------------------------
(* Reflectors and the network *)

PortOpen(p, q) == q \in PortsInUse(W, p)

\* An answered request may stay to be answered again (a duplicate).
Delivered(m) == {W, [W EXCEPT !.wire = @ \ {m}]}

Ack(m) ==
    /\ m.kind = IF m.proto = "DPLUS" THEN "LINK2" ELSE "LINK1"
    /\ PortOpen(m.proto, m.port)
    /\ \E w \in Delivered(m) : Becomes(AckAll(w, m))
    /\ UNCHANGED <<g2query, recon>>

(* A DCS reflector answers CT_UNLINK with a NAK. *)
Nak(m) ==
    /\ m.kind \in (CASE m.proto = "DEXTRA" -> {"LINK1"} [] m.proto = "DPLUS" -> {"LINK2"}
                     [] m.proto = "DCS" -> {"LINK1", "UNLINK"})
    /\ PortOpen(m.proto, m.port)
    /\ \E w \in Delivered(m) : Becomes(NakAll(w, m))
    /\ UNCHANGED <<g2query, recon>>

Greet(m) ==
    /\ m.proto = "DPLUS" /\ m.kind = "LINK1"
    /\ PortOpen(m.proto, m.port)
    /\ \E w \in Delivered(m) : Becomes(GreetAll(w, m))
    /\ UNCHANGED <<g2query, recon>>

Lose(m) ==
    /\ Becomes([W EXCEPT !.wire = @ \ {m}])
    /\ UNCHANGED <<g2query, recon>>

(* A reflector closes the link a handler stands for. *)
ReflectorDrops(p, i) ==
    /\ i \in Outgoing(W, p)
    /\ Becomes(Dismiss(W, p, slots[p][i].port, slots[p][i].ref))
    /\ UNCHANGED <<g2query, recon>>

(* processIrcDDB, IDRT_GATEWAY without an address *)
GatewayRemoved(g) ==
    /\ Becomes(GatewayGone(GatewayGone(W, "DEXTRA", g), "DPLUS", g))
    /\ UNCHANGED <<g2query, recon>>

---------------------------------------------------------------------------
(* The timers of a handler, and links opened to us *)

\* Variant: CT_UNLINK is sent once.
TryExpiresLinking(p, i) ==
    /\ i \in Outgoing(W, p)
    /\ slots[p][i].state = "LINKING" /\ slots[p][i].trying
    /\ Becomes(Send(W, p, "LINK1", slots[p][i]))
    /\ UNCHANGED <<g2query, recon>>

(* clockInt, m_tryTimer expired: repeat the request *)
TryExpires(p, i) ==
    /\ i \in Outgoing(W, p)
    /\ LET h == slots[p][i]
       IN  \/ /\ h.state = "LINKING" /\ h.trying
              /\ Becomes(Send(W, p, "LINK1", h))
           \/ /\ h.state = "UNLINKING" /\ p = "DCS"
              /\ Becomes(Send(W, p, "UNLINK", h))
    /\ UNCHANGED <<g2query, recon>>

PollInactivity(p, i) ==
    /\ i \in Outgoing(W, p)
    /\ Becomes(Inactive(W, p, i))
    /\ UNCHANGED <<g2query, recon>>

IncomingOpens(p) ==
    /\ p \in OpenTo /\ \E i \in Slots : slots[p][i] = Free
    /\ Becomes(SetSlot(W, p, Min({i \in Slots : slots[p][i] = Free}), Incoming))
    /\ UNCHANGED <<g2query, recon>>

IncomingCloses(p, i) ==
    /\ slots[p][i] = Incoming
    /\ Becomes(FreeSlot(W, p, i))
    /\ UNCHANGED <<g2query, recon>>

---------------------------------------------------------------------------
(* One turn of the main loop, as far as links are concerned *)
Turn ==
    \/ \E r \in Repeaters :
          \/ RfHeader(r) \/ RfUnlink(r) \/ \E t \in Targets : RfLink(r, t)
          \/ \E t \in Targets \cup {NoTarget}, mode \in RemoteModes : RemoteLink(r, t, mode)
          \/ \E p \in Protocols, t \in Targets : RemoteUnlink(r, p, t)
          \/ ReconnectExpires(r) \/ G2Query(r) \/ G2Done(r) \/ QueryExpires(r)
          \/ \E found \in BOOLEAN : IrcReply(r, found)
    \/ \E m \in wire : Ack(m) \/ Nak(m) \/ Greet(m) \/ Lose(m)
    \/ \E g \in {GatewayOf[t] : t \in Targets} : GatewayRemoved(g)
    \/ \E p \in Protocols, i \in Slots :
          TryExpires(p, i) \/ PollInactivity(p, i) \/ ReflectorDrops(p, i) \/ IncomingCloses(p, i)
    \/ \E p \in Protocols : IncomingOpens(p)

Next == (\E r \in Repeaters : Start(r)) \/ (starting = {} /\ Turn)

Spec == Init /\ [][Next]_vars

\* The first answer to a request of the link in slot i, while it waits for one.
Answered(p, i) ==
    /\ i \in Outgoing(W, p)
    /\ \E m \in wire : Ack(m) \/ Nak(m)
    /\ slots'[p][i] # slots[p][i]

(* Timers are clocked on every turn of the gateway's loop, so a try timer  *)
(* does expire.  The reflector's side is an assumption: it answers a link  *)
(* that keeps asking.                                                      *)
Fairness ==
    /\ WF_vars(\E r \in Repeaters : Start(r))
    /\ \A p \in {"DEXTRA", "DCS"}, i \in Slots :
          WF_vars(TryExpires(p, i)) /\ SF_vars(Answered(p, i))

FairSpec == Spec /\ Fairness

---------------------------------------------------------------------------
(* Nobody ever asks for another module of a reflector: the traffic for     *)
(* which the next two properties hold (LateFailureIgnored shows why).      *)
NoOtherModules == \A t, u \in Targets : GatewayOf[t] = GatewayOf[u] => t = u

(* No DExtra or D-Plus link stays behind when its repeater goes elsewhere  *)
(* or gives up: as long as a link is in the table, its repeater's status   *)
(* names that protocol and that reflector.  The status lives in            *)
(* CRepeaterHandler and the links in the tables, which change it and are   *)
(* changed by it from inside their loops.                                  *)
LinksMatchStatus ==
    NoOtherModules =>
        \A p \in {"DEXTRA", "DPLUS"} : \A i \in Outgoing(W, p) :
            LET h == slots[p][i]
            IN  link[h.dest].via = p /\ link[h.dest].target = h.ref

(* A repeater that tells its users it is linked over DExtra has a DExtra   *)
(* link to that very module which the reflector has acknowledged.          *)
DExtraLinkedIsReal ==
    NoOtherModules =>
        \A r \in Repeaters :
            link[r].phase = "linked" /\ link[r].via = "DEXTRA" =>
                \E i \in LinksOf(W, "DEXTRA", r) :
                    /\ slots["DEXTRA"][i].state = "LINKED"
                    /\ slots["DEXTRA"][i].ref = link[r].target

(* A reflector is only ever contacted over its own protocol, and a status  *)
(* never names another: not after a change of module, which keeps the      *)
(* protocol without a new look into the cache, nor after an ircDDB answer, *)
(* which always means DExtra and belongs to a target the cache lacks.      *)
OfProtocol(via, t) == IF t \in Known THEN via = ViaOf[t] ELSE via = "DEXTRA"
OfTable(p, t)      == IF t \in Known THEN p = TableOf(ViaOf[t]) ELSE p = "DEXTRA"

StatusAgrees(l) ==
    /\ l.phase \in {"linking", "linked"} => OfProtocol(l.via, l.target)
    /\ l.phase = "pending" => l.target \notin Known

Agrees(w) ==
    /\ \A r \in Repeaters : StatusAgrees(w.link[r])
    /\ \A p \in Protocols : \A i \in Outgoing(w, p) : OfTable(p, w.slots[p][i].ref)

ProtocolsAgree == Agrees(W)

(* Radio users, timers and reflectors never take a repeater with a fixed   *)
(* link anywhere but to its startup reflector.                             *)
FixedStaysHome == \A r \in Fixed : link[r].target \in {Startup[r], NoTarget}

(* A repeater becomes linked only when a link of its own over the same     *)
(* protocol, still waiting for its answer, is acknowledged: neither a late *)
(* answer to a link being closed nor one for another repeater does it.     *)
OnlyAnAckLinks ==
    [][\A r \in Repeaters :
          link'[r].phase = "linked" /\ link[r].phase # "linked" =>
              /\ link[r].phase = "linking"
              /\ \E i \in LinksOf(W, TableOf(link[r].via), r) :
                    /\ slots[TableOf(link[r].via)][i].state = "LINKING"
                    /\ slots'[TableOf(link[r].via)][i].state = "LINKED"]_vars

CommandTo(r) ==
    \/ RfHeader(r) \/ RfUnlink(r) \/ \E t \in Targets : RfLink(r, t)
    \/ \E t \in Targets \cup {NoTarget}, mode \in RemoteModes : RemoteLink(r, t, mode)
    \/ \E p \in Protocols, t \in Targets : RemoteUnlink(r, p, t)
    \/ ReconnectExpires(r) \/ QueryExpires(r) \/ \E found \in BOOLEAN : IrcReply(r, found)

(* What one repeater is told to do leaves the status and the links of the  *)
(* others alone, although they share the tables and the ports.             *)
Isolation ==
    [][\A r \in Repeaters : CommandTo(r) =>
          \A o \in Repeaters \ {r} :
              /\ link'[o] = link[o]
              /\ \A p \in Protocols : \A i \in LinksOf(W, p, o) : slots'[p][i] = slots[p][i]]_vars

(* A DExtra or DCS link does not wait for ever for an answer: datagrams    *)
(* may be lost, but each request is repeated until the reflector answers.  *)
Waiting(p, i, state) == i \in Outgoing(W, p) /\ slots[p][i].state = state
HandshakeEnds ==
    \A p \in {"DEXTRA", "DCS"}, i \in Slots, state \in {"LINKING", "UNLINKING"} :
        Waiting(p, i, state) ~> ~Waiting(p, i, state)

(* "Have we linked to something else in the meantime?" (linkFailed): the   *)
(* late end of a DCS link the repeater has left does not disturb the link  *)
(* it has now.                                                             *)
LateFailureIgnored ==
    [][\A i \in Outgoing(W, "DCS") :
          LET h == slots["DCS"][i]
          IN  /\ h.state = "UNLINKING" /\ slots'["DCS"][i] = Free
              /\ link[h.dest].phase = "linked" /\ link[h.dest].target # h.ref
              => link'[h.dest].phase = "linked"]_vars

(* "Ensure duplicate link requests aren't acted on" (                      *)
(* reflectorCommandHandler): asking again for the link the repeater        *)
(* already has, or waits for, changes nothing about it.                    *)
DuplicateIgnored ==
    [][\A r \in Repeaters, t \in Targets :
          RfLink(r, t) /\ ~g2query[r] /\ link[r].phase # "none" /\ link[r].target = t
              => link'[r] = link[r]]_vars

(* "If we're querying for a user or repeater, kill the query timer"        *)
(* (processRepeater): what is killed is the timer of the G2 query; a link  *)
(* that waits for ircDDB still has its own.                                *)
OwnTimerKilled ==
    [][\A r \in Repeaters :
          RfHeader(r) /\ g2query[r] /\ link[r].phase = "pending" /\ link[r].query
              => link'[r].query]_vars
=============================================================================

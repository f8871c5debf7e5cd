----------------------------- MODULE G2Routes -----------------------------
(***************************************************************************)
(* Routed streams from other gateways: the socket all of them share, the   *)
(* pool with one handler and one buffer per sender                         *)
(* (CG2ProtocolHandlerPool, CG2ProtocolHandler), and the table of routes   *)
(* to our repeaters (CG2Handler).  The network repeats, loses and reorders *)
(* datagrams as it likes and works while the gateway thread does.          *)
(***************************************************************************)
EXTENDS Naturals, Sequences, FiniteSets, SequencesExt

CONSTANTS
    Senders,       \* address and port of other gateways
    Streams,       \* streams they send
    SenderOf,      \* [Streams -> Senders]
    IdOf,          \* the 16-bit number a stream's gateway gave it: streams of
                   \* other gateways, and later ones, may have the same
    RepeaterOf,    \* [Streams -> our repeaters], or Nobody
    MaxRoutes,     \* MAX_ROUTES
    MaxSocket,     \* bound on datagrams that wait in the socket
    MaxArrivals,   \* bound on datagrams that arrive at all
    Nobody,        \* no such repeater here
    NoStream       \* m_id = 0, an empty buffer, a free route

ASSUME G2Assumption ==
    /\ DOMAIN RepeaterOf = Streams /\ SenderOf \in [Streams -> Senders]
    /\ MaxRoutes \in Nat \ {0} /\ MaxSocket \in Nat \ {0} /\ MaxArrivals \in Nat
    /\ DOMAIN IdOf = Streams /\ NoStream \notin Streams

\* "junk" is a NAT traversal packet, or anything else that is not DSVT.
G2Kinds    == {"header", "voice", "end", "junk"}
G2Datagram == [stream : Streams, kind : G2Kinds]

\* m_type, with an end being a GT_AMBE; the stream in m_buffer; m_id
Handler == [from : Senders, type : {"none", "header", "voice", "end"},
            stream : Streams \cup {NoStream}, id : Streams \cup {NoStream}]

\* m_id and m_repeater of a CG2Handler
Addressed == {RepeaterOf[s] : s \in Streams}
Route == [id : {IdOf[s] : s \in Streams}, to : Addressed \ {Nobody}]

(* A frame that the repeater "to" has been given, out of a stream.         *)
HeardFrame == [kind : {"header", "voice"}, stream : Streams, to : Addressed]
Given(kind, s, r) == [kind |-> kind, stream |-> s, to |-> r]

VARIABLES
    socket,     \* datagrams waiting in m_socket
    pool,       \* m_pool
    index,      \* m_index, a position in the pool; Len(pool) + 1 is end()
    routes,     \* m_routes
    pc,         \* the gateway thread: "away", or in processG2
    arrived,    \* how many datagrams have arrived
    heard       \* what the repeaters have been given

g2Vars == <<socket, pool, index, routes, pc, arrived, heard>>

Routes == 1 .. MaxRoutes
End    == Len(pool) + 1

(* A handler per sender, and an index that points into the pool or to its  *)
(* end: the pool grows and shrinks under it.                               *)
G2TypeOK ==
    /\ socket \in Seq(G2Datagram) /\ Len(socket) <= MaxSocket
    /\ pool \in Seq(Handler)
    /\ \A i, j \in DOMAIN pool : pool[i].from = pool[j].from => i = j
    /\ index \in 1 .. End
    /\ routes \in [Routes -> Route \cup {NoStream}]
    /\ pc \in {"away", "read", "pick"}
    /\ arrived \in 0 .. MaxArrivals
    /\ heard \subseteq HeardFrame

G2Init ==
    /\ socket = <<>> /\ pool = <<>> /\ index = 1
    /\ routes = [i \in Routes |-> NoStream]
    /\ pc = "away" /\ arrived = 0 /\ heard = {}

NewHandler(g) == [from |-> g, type |-> "none", stream |-> NoStream, id |-> NoStream]

Positions(g) == {i \in DOMAIN pool : pool[i].from = g}

---------------------------------------------------------------------------
(* The network *)
Arrive(s, kind) ==
    /\ arrived < MaxArrivals /\ Len(socket) < MaxSocket
    /\ arrived' = arrived + 1
    /\ socket' = Append(socket, [stream |-> s, kind |-> kind])
    /\ UNCHANGED <<pool, index, routes, pc, heard>>

---------------------------------------------------------------------------
(* CDStarGatewayThread::processG2 *)
EnterG2 == pc = "away" /\ pc' = "read" /\ UNCHANGED <<socket, pool, index, routes, arrived, heard>>

\* Variant: a new header does not reset the number of the last.
SetBufferKeepsId(h, d) ==
    IF d.kind = "junk" THEN [h EXCEPT !.type = "none"]
    ELSE [h EXCEPT !.type = d.kind, !.stream = d.stream]

(* CG2ProtocolHandler::setBuffer: whatever the buffer still held is lost. *)
SetBuffer(h, d) ==
    IF d.kind = "junk" THEN [h EXCEPT !.type = "none"]
    ELSE [h EXCEPT !.type = d.kind, !.stream = d.stream,
                   !.id = IF d.kind = "header" THEN NoStream ELSE @]

(* readPackets, which read calls until it gets a packet of a stream *)
ReadPacket ==
    /\ pc = "read"
    /\ IF socket = <<>>
       THEN pc' = "pick" /\ UNCHANGED <<socket, pool, index>>
       ELSE LET d == Head(socket)
                g == SenderOf[d.stream]
            IN  /\ socket' = Tail(socket)
                /\ pc' = IF d.kind = "junk" THEN "read" ELSE "pick"
                /\ IF Positions(g) = {}
                   THEN /\ pool' = Append(pool, SetBuffer(NewHandler(g), d))
                        /\ index' = Len(pool) + 2
                   ELSE /\ \E i \in Positions(g) : pool' = [pool EXCEPT ![i] = SetBuffer(@, d)]
                        /\ UNCHANGED index
    /\ UNCHANGED <<routes, arrived, heard>>

\* Variant: the search goes on where it ended.
OfferedOnwards == {i \in DOMAIN pool : i >= index /\ pool[i].type # "none"}

(* The search of read: from the index on, or from the start if it is at    *)
(* the end.                                                                *)
Offered ==
    {i \in DOMAIN pool : (index = End \/ i >= index) /\ pool[i].type # "none"}

\* Variant: the first route is taken for that of the stream.
MatchingAny(s) == {i \in Routes : routes[i] # NoStream}

(* The routes CG2Handler::process(CAMBEData&) finds; it uses the first.    *)
(* Only the number tells, whoever sent the stream.                         *)
Matching(s) == {i \in Routes : routes[i] # NoStream /\ routes[i].id = IdOf[s]}

(* CG2Handler::process(CHeaderData&): no look for a route of this number. *)
RouteHeader(s) ==
    LET free == {i \in Routes : routes[i] = NoStream}
    IN  IF RepeaterOf[s] = Nobody \/ free = {} THEN UNCHANGED <<routes, heard>>
        ELSE /\ routes' = [routes EXCEPT ![Min(free)] = [id |-> IdOf[s], to |-> RepeaterOf[s]]]
             /\ heard' = heard \cup {Given("header", s, RepeaterOf[s])}

(* CG2Handler::process(CAMBEData&) *)
RouteVoice(s, end) ==
    IF Matching(s) = {} THEN UNCHANGED <<routes, heard>>
    ELSE LET i == Min(Matching(s))
         IN  /\ routes' = [routes EXCEPT ![i] = IF end THEN NoStream ELSE @]
             /\ heard' = heard \cup {Given("voice", s, routes[i].to)}

(* The rest of read, readHeader or readAMBE, and CG2Handler::process.      *)
(* readHeader leaves a header it takes for a duplicate in the buffer.      *)
Pick ==
    /\ pc = "pick"
    /\ IF Offered = {}
       THEN pc' = "away" /\ index' = End /\ UNCHANGED <<pool, routes, heard>>
       ELSE LET i == Min(Offered)
                h == pool[i]
            IN  /\ pc' = "read" /\ index' = i
                /\ IF h.type = "header"
                   THEN IF h.id # NoStream THEN UNCHANGED <<pool, routes, heard>>
                        ELSE /\ pool' = [pool EXCEPT ![i].type = "none", ![i].id = h.stream]
                             /\ RouteHeader(h.stream)
                   ELSE /\ pool' = [pool EXCEPT ![i].type = "none",
                                                ![i].id = IF h.type = "end" THEN NoStream ELSE @]
                        /\ RouteVoice(h.stream, h.type = "end")
    /\ UNCHANGED <<socket, arrived>>

---------------------------------------------------------------------------
(* Elsewhere in the main loop *)

(* CG2ProtocolHandlerPool::writeHeader and writeAMBE to a gateway that has *)
(* no handler yet                                                          *)
WriteTo(g) ==
    /\ pc = "away" /\ Positions(g) = {}
    /\ pool' = Append(pool, NewHandler(g))
    /\ index' = Len(pool) + 2
    /\ UNCHANGED <<socket, routes, pc, arrived, heard>>

\* Variant: the index is left where it was.
HandlerExpiresKeepsIndex(i) ==
    /\ pc = "away" /\ pool[i].type = "none"
    /\ pool' = RemoveAt(pool, i)
    /\ UNCHANGED <<socket, index, routes, pc, arrived, heard>>

(* CG2ProtocolHandlerPool::clock.  In the 29 seconds until a handler is    *)
(* inactive, the main loop has long emptied its buffer.                    *)
HandlerExpires(i) ==
    /\ pc = "away" /\ pool[i].type = "none"
    /\ pool' = RemoveAt(pool, i)
    /\ index' = Len(pool)
    /\ UNCHANGED <<socket, routes, pc, arrived, heard>>

(* CG2Handler::clock *)
RouteExpires(i) ==
    /\ pc = "away" /\ routes[i] # NoStream
    /\ routes' = [routes EXCEPT ![i] = NoStream]
    /\ UNCHANGED <<socket, pool, index, pc, arrived, heard>>

G2Next ==
    \/ \E s \in Streams, kind \in G2Kinds : Arrive(s, kind)
    \/ EnterG2 \/ ReadPacket \/ Pick
    \/ \E g \in Senders : WriteTo(g)
    \/ \E i \in DOMAIN pool : HandlerExpires(i)
    \/ \E i \in Routes : RouteExpires(i)

G2Spec == G2Init /\ [][G2Next]_g2Vars

(* The gateway thread runs. *)
G2FairSpec == G2Spec /\ WF_g2Vars(EnterG2) /\ WF_g2Vars(ReadPacket) /\ WF_g2Vars(Pick)

---------------------------------------------------------------------------
(* A repeater is only given headers addressed to it, and only voice that   *)
(* bears the number of one of them: so voice of a stream whose number no   *)
(* other stream has comes out at the repeater it was sent to and nowhere   *)
(* else, although routes come and go under the streams and the headers of  *)
(* others take them over.  Of two streams with one number, the voice may   *)
(* come out at the repeater of either.                                     *)
Announced(number, r) ==
    \E s \in Streams : IdOf[s] = number /\ RepeaterOf[s] = r /\ Given("header", s, r) \in heard
ToTheirRepeater == \A frame \in heard : Announced(IdOf[frame.stream], frame.to)

(* A packet read from the socket does not lie in its buffer for ever: the  *)
(* search of one turn may pass it over, and the next packet of its sender  *)
(* may take its place, but a later turn begins at the start of the pool.   *)
Waits(g) == \E i \in Positions(g) : pool[i].type # "none"
Served   == \A g \in Senders : Waits(g) ~> ~Waits(g)

(* processG2 does come to an end when datagrams stop arriving: no handler  *)
(* offers the same packet for ever.                                        *)
LoopEnds == pc # "away" ~> pc = "away"

(* "remember the id so we do not read it duplicate"                        *)
(* (CG2ProtocolHandler::readHeader): repeated headers of a stream make no  *)
(* second route for it.                                                    *)
OneRoutePerStream ==
    \A i, j \in Routes : routes[i] # NoStream /\ routes[i] = routes[j] => i = j
=============================================================================

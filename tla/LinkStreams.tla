---------------------------- MODULE LinkStreams ----------------------------
(***************************************************************************)
(* The voice streams that come over links: what CDExtraHandler,            *)
(* CDPlusHandler and CDCSHandler do with the frames of reflectors, of      *)
(* gateways that link to us and of dongles, while links come and go.       *)
(* The handshake of an outgoing link is in LinkControl; here it is one     *)
(* step.  Datagrams may be lost, doubled and reordered at will, so any     *)
(* frame may come at any time; none is kept, until the network falls       *)
(* silent.                                                                 *)
(***************************************************************************)
EXTENDS Naturals, FiniteSets, FiniteSetsExt

CONSTANTS
    Protocols,     \* among "DExtra", "DPlus", "DCS"
    Repeaters,     \* ours: DV repeaters
    Reflectors,    \* what we link to: addresses of reflectors and gateways
    Callers,       \* what links to us: addresses (and ports) of gateways and dongles
    Modules,       \* of each reflector
    MaxLinks,      \* m_maxReflectors
    MaxDongles,    \* m_maxDongles
    Numbers,       \* tell the transmissions of one module or caller apart
    Free, None, Lost

ASSUME LinkStreamsAssumption ==
    /\ Protocols \subseteq {"DExtra", "DPlus", "DCS"}
    /\ MaxLinks \in 1 .. 5 /\ MaxDongles \in Nat
    /\ IsFiniteSet(Repeaters) /\ Reflectors \cap Callers = {}

Slots == 1 .. MaxLinks

\* Our own end of a link: a port of the pool, the slot's, or the one for all
\* that comes from outside
Incoming == 0
Ports    == Slots \cup {Incoming}

\* A module of a reflector, as named in headers
Targets == Reflectors \X Modules

\* Stream ids, by where the stream comes from: no two are equal, none is 0x00.
Ids == (Targets \cup Callers) \X Numbers
Source(id) == id[1]
Peer(id)   == IF Source(id) \in Callers THEN Source(id) ELSE Source(id)[1]

\* What a header names: where it comes from, or where it goes to; None if neither
\* of its two repeater fields is a repeater of ours
Named(id) == IF Source(id) \in Callers THEN Repeaters \cup {None} ELSE {Source(id)}

Link == [dir : {"out", "in"}, dongle : BOOLEAN, peer : Reflectors \cup Callers,
         target : Targets \cup {None}, dest : Repeaters \cup {None}, port : Ports,
         state : {"linking", "linked", "unlinking"},
         id : Ids \cup {None}, header : Ids \cup {None}, running : BOOLEAN]

ASSUME NamesApart ==
    /\ None # Lost /\ {None, Lost} \cap Ids = {} /\ Free \notin Link
    /\ None \notin Repeaters \cup Targets

VARIABLES
    protocol,   \* which of the three handlers this is
    slot,       \* m_reflectors[]; running is whether m_inactivityTimer runs
    air,        \* what each repeater was last given by each slot: the id of
                \* the stream whose header it got, None after its end, Lost
                \* if the slot let go of the stream without one
    silent,     \* the network is silent for good
    crashed     \* m_destination was NULL and has been called

streamVars == <<protocol, slot, air, silent, crashed>>

LinkStreamsTypeOK ==
    /\ protocol \in Protocols
    /\ slot \in [Slots -> Link \cup {Free}]
    /\ air \in [Repeaters -> [Slots -> Ids \cup {None, Lost}]]
    /\ silent \in BOOLEAN /\ crashed \in BOOLEAN

LinkStreamsInit ==
    /\ protocol \in Protocols
    /\ slot = [i \in Slots |-> Free]
    /\ air = [r \in Repeaters |-> [i \in Slots |-> None]]
    /\ silent = FALSE /\ crashed = FALSE

Used == {i \in Slots : slot[i] # Free}

\* The first free slot, if any: the place of a new link
FirstFree == IF Used = Slots THEN {} ELSE {Min(Slots \ Used)}

---------------------------------------------------------------------------
(* Links *)

NewLink == [dir |-> "out", dongle |-> FALSE, peer |-> None, target |-> None, dest |-> None,
            port |-> Incoming, state |-> "linked", id |-> None, header |-> None, running |-> FALSE]

\* A new link in slot i: nothing has been heard of it.
Enter(i, link) ==
    /\ slot' = [slot EXCEPT ![i] = link]
    /\ air' = [r \in Repeaters |-> [air[r] EXCEPT ![i] = None]]

\* What the repeaters are left with when the streams of the slots S stop
\* without an end frame
Cut(S) == [r \in Repeaters |->
              [i \in Slots |-> IF i \in S /\ slot[i].dest = r /\ slot[i].id # None /\ air[r][i] \in Ids
                               THEN Lost ELSE air[r][i]]]

Vacate(S) == slot' = [i \in Slots |-> IF i \in S THEN Free ELSE slot[i]]

OutgoingOf(r) == {i \in Used : slot[i].dir = "out" /\ slot[i].dest = r}

(* link, and the ACK; a DCS link that is going away does not count. *)
LinkTo(r, m) ==
    /\ ~silent
    /\ \A i \in OutgoingOf(r) : slot[i].state = "unlinking"
    /\ \E i \in FirstFree : Enter(i, [NewLink EXCEPT !.peer = m[1], !.target = m, !.dest = r, !.port = i])
    /\ UNCHANGED <<protocol, silent, crashed>>

\* Variant: the stream of the old module goes on.
RelinkedKeepsId(link, m) == [link EXCEPT !.target = m]

Relinked(link, m) == [link EXCEPT !.target = m, !.id = None]

(* relink: D-Plus changes the module of a link without a word to anyone. *)
Relink(r, m) ==
    /\ protocol = "DPlus"
    /\ \E i \in OutgoingOf(r) :
          /\ slot[i].peer = m[1] /\ slot[i].target # m
          /\ slot' = [slot EXCEPT ![i] = Relinked(@, m)]
          /\ air' = Cut({i})
    /\ UNCHANGED <<protocol, silent, crashed>>

\* An end frame for each stream the slots S carry, to the repeaters they go to
Eot(S) == [r \in Repeaters |->
              [i \in Slots |-> IF i \in S /\ slot[i].dest = r /\ slot[i].id # None THEN None
                               ELSE air[r][i]]]

(* unlink(handler, callsign, exclude) by a command of repeater r: without  *)
(* exclude it takes incoming links from the reflector too.                 *)
Unlink(r, m, exclude) ==
    LET S == {i \in Used : /\ slot[i].dest = r
                           /\ IF exclude THEN slot[i].dir = "out" /\ slot[i].target # m
                              ELSE slot[i].target = m}
    IN  /\ S # {}
        /\ IF protocol = "DCS"
           THEN slot' = [i \in Slots |-> IF i \in S THEN [slot[i] EXCEPT !.state = "unlinking"]
                                         ELSE slot[i]]
           ELSE Vacate(S)
        /\ air' = Eot(S)
        /\ UNCHANGED <<protocol, silent, crashed>>

(* The other end goes away, or answers that we may: CT_UNLINK, a NAK of a  *)
(* DCS reflector to our UNLINK; gatewayUpdate without an address.          *)
Goes(S) ==
    /\ S # {} /\ Vacate(S) /\ air' = Cut(S)
    /\ UNCHANGED <<protocol, silent, crashed>>

PeerUnlinks(i) == ~silent /\ i \in Used /\ Goes({i})
PeerUnknown(p) == Goes({i \in Used : slot[i].peer = p})

\* A link that starts again from the beginning
GivenUp(link) == [link EXCEPT !.id = None, !.header = None, !.state = "linking"]

(* clockInt, m_pollInactivityTimer expired: linkFailed says whether to try *)
(* again.                                                                  *)
PollsStop(i) ==
    /\ i \in Used
    /\ \/ Goes({i})
       \/ /\ slot[i].dir = "out"
          /\ slot' = [slot EXCEPT ![i] = GivenUp(@)]
          /\ air' = Cut({i})
          /\ UNCHANGED <<protocol, silent, crashed>>

(* A second ACK; LINK2 of a D-Plus dongle *)
Linked(i) ==
    /\ ~silent
    /\ i \in Used /\ slot[i].state = "linking"
    /\ slot' = [slot EXCEPT ![i].state = "linked"]
    /\ UNCHANGED <<protocol, air, silent, crashed>>

\* "Check that it isn't a duplicate"
Duplicate(c, r) ==
    \E i \in Used : slot[i].dir = "in" /\ slot[i].peer = c /\ slot[i].dest = r /\ ~slot[i].dongle

(* process(CConnectData&), LINK1 of a gateway: DExtra and DCS.  An unknown *)
(* repeater, and a table that is full, get a NAK.                          *)
Connects(c, r) ==
    /\ ~silent /\ protocol # "DPlus" /\ ~Duplicate(c, r)
    /\ \E i \in FirstFree :
          Enter(i, [NewLink EXCEPT !.dir = "in", !.peer = c, !.dest = r])
    /\ UNCHANGED <<protocol, silent, crashed>>

Dongles == {i \in Used : slot[i].dongle}

(* A poll of a dongle nobody knows (DExtra), LINK1 of one (D-Plus) *)
DongleComes(c) ==
    /\ ~silent /\ protocol # "DCS"
    /\ Cardinality(Dongles) < MaxDongles
    /\ IF protocol = "DPlus" THEN \A i \in Used : slot[i].peer # c
       ELSE \A i \in Used : slot[i].peer = c => ~slot[i].dongle
    /\ \E i \in FirstFree :
          Enter(i, [NewLink EXCEPT !.dir = "in", !.dongle = TRUE, !.peer = c,
                                   !.state = IF protocol = "DPlus" THEN "linking" ELSE "linked"])
    /\ UNCHANGED <<protocol, silent, crashed>>

---------------------------------------------------------------------------
(* Streams.  A frame is a header, or voice: first of 21 or not, last or    *)
(* not.  DCS has no headers, each of its frames holds all of one.  Headers *)
(* name where they come from or go to, and a user who may be on a list.    *)

Kinds == {"first", "voice", "end", "first and end"}

(* process(CHeaderData&), process(CAMBEData&): DExtra does not look at the *)
(* port.                                                                   *)
Matches(link, peer, port) == link.peer = peer /\ (protocol # "DExtra" => link.port = port)

\* The slots that get a datagram: D-Plus and DCS stop at the first.
Reached(peer, port) ==
    LET S == {i \in Used : Matches(slot[i], peer, port)}
    IN  IF S = {} \/ protocol = "DExtra" THEN S ELSE {Min(S)}

\* Whether a header concerns a link; to is what it names
Concerns(link, to) ==
    CASE link.dongle      -> TRUE
      [] link.dir = "out" -> to = link.target
      [] OTHER            -> to = link.dest

(* What a frame does to a slot and to what it has given the repeaters, a   *)
(* pair: processInt(CHeaderData&) and processInt(CAMBEData&).              *)
Pair(i) == [link |-> slot[i], air |-> [r \in Repeaters |-> air[r][i]]]

\* Variant: the timer of the stream is not started.
BegunUntimed(w, id) ==
    [link |-> [w.link EXCEPT !.id = id, !.header = IF protocol = "DCS" THEN None ELSE id],
     air  |-> [w.air EXCEPT ![w.link.dest] = id]]

(* A stream starts: its header goes to the repeater. *)
Begun(w, id) ==
    [link |-> [w.link EXCEPT !.id = id, !.running = TRUE,
                             !.header = IF protocol = "DCS" THEN None ELSE id],
     air  |-> [w.air EXCEPT ![w.link.dest] = id]]

(* The user is on the black list or not on the white list. *)
Rejected(w) ==
    IF w.link.id = None THEN w
    ELSE [link |-> [w.link EXCEPT !.id = None],
          air  |-> [r \in Repeaters |-> IF r = w.link.dest /\ w.air[r] \in Ids THEN Lost
                                        ELSE w.air[r]]]

(* A dongle goes where its header says, even in the middle of a stream and *)
(* even if that is nowhere.                                                *)
Headed(w, to) ==
    IF ~w.link.dongle \/ w.link.dest = to THEN w
    ELSE [link |-> [w.link EXCEPT !.dest = to],
          air  |-> [r \in Repeaters |-> IF r = w.link.dest /\ w.link.id # None THEN Lost
                                        ELSE w.air[r]]]

(* The lists come before the state of the link and whether the header is   *)
(* for it.                                                                 *)
WithHeader(w, id, to, listed) ==
    IF listed THEN Rejected(w)
    ELSE IF w.link.state # "linked" \/ ~Concerns(w.link, to) THEN w
    ELSE LET h == Headed(w, to)
         IN  IF h.link.id # None \/ h.link.dest = None THEN h ELSE Begun(h, id)

(* D-Plus does not look at the state of the link. *)
OfStream(link, id) == link.id = id /\ (protocol = "DExtra" => link.state = "linked")

WithVoice(w, id, kind) ==
    IF ~OfStream(w.link, id) THEN w
    ELSE IF kind \notin {"end", "first and end"} THEN [w EXCEPT !.link.running = TRUE]
    ELSE [link |-> [w.link EXCEPT !.id = None, !.header = None, !.running = FALSE],
          air  |-> [w.air EXCEPT ![w.link.dest] = None]]

(* CDCSHandler::processInt: a stream starts with the first of 21 frames. *)
WithBoth(w, id, kind, to, listed) ==
    IF listed THEN Rejected(w)
    ELSE IF w.link.state # "linked" \/ ~Concerns(w.link, to) THEN w
    ELSE WithVoice(IF w.link.id = None /\ kind \in {"first", "first and end"} THEN Begun(w, id)
                   ELSE w, id, kind)

(* A datagram reaches some slots; after is what it makes of them. *)
Datagram(after) ==
    /\ ~silent
    /\ \E i \in DOMAIN after : after[i] # Pair(i)
    /\ slot' = [i \in Slots |-> IF i \in DOMAIN after THEN after[i].link ELSE slot[i]]
    /\ air' = [r \in Repeaters |->
                  [i \in Slots |-> IF i \in DOMAIN after THEN after[i].air[r] ELSE air[r][i]]]
    /\ UNCHANGED <<protocol, silent, crashed>>

HeaderFrom(peer, port, id, to, listed) ==
    /\ protocol # "DCS"
    /\ Datagram([i \in Reached(peer, port) |-> WithHeader(Pair(i), id, to, listed)])

(* Voice of a stream whose dongle has no repeater any more is passed on to *)
(* the null pointer.                                                       *)
VoiceFrom(peer, port, id, kind) ==
    /\ protocol # "DCS"
    /\ \A i \in Reached(peer, port) : OfStream(slot[i], id) => slot[i].dest # None
    /\ Datagram([i \in Reached(peer, port) |-> WithVoice(Pair(i), id, kind)])

VoiceFromNowhere(peer, port, id) ==
    /\ protocol # "DCS" /\ ~silent
    /\ \E i \in Reached(peer, port) : OfStream(slot[i], id) /\ slot[i].dest = None
    /\ crashed' = TRUE /\ UNCHANGED <<protocol, slot, air, silent>>

DCSFrameFrom(peer, port, id, kind, to, listed) ==
    /\ protocol = "DCS"
    /\ Datagram([i \in Reached(peer, port) |-> WithBoth(Pair(i), id, kind, to, listed)])

(* clockInt, m_inactivityTimer expired *)
Inactive(i) ==
    /\ i \in Used /\ slot[i].running
    /\ slot' = [slot EXCEPT ![i] = [@ EXCEPT !.id = None, !.header = None, !.running = FALSE]]
    /\ air' = Cut({i})
    /\ UNCHANGED <<protocol, silent, crashed>>

FallsSilent == ~silent /\ silent' = TRUE /\ UNCHANGED <<protocol, slot, air, crashed>>

Comes ==
    \E id \in Ids, port \in Ports :
        \/ \E to \in Named(id), listed \in BOOLEAN :
               \/ HeaderFrom(Peer(id), port, id, to, listed)
               \/ \E kind \in Kinds : DCSFrameFrom(Peer(id), port, id, kind, to, listed)
        \/ \E kind \in Kinds : VoiceFrom(Peer(id), port, id, kind)
        \/ VoiceFromNowhere(Peer(id), port, id)

Step ==
    \/ \E r \in Repeaters, m \in Targets :
          LinkTo(r, m) \/ Relink(r, m) \/ \E exclude \in BOOLEAN : Unlink(r, m, exclude)
    \/ \E i \in Slots : PeerUnlinks(i) \/ PollsStop(i) \/ Linked(i) \/ Inactive(i)
    \/ \E p \in Reflectors : PeerUnknown(p)
    \/ \E c \in Callers : DongleComes(c) \/ \E r \in Repeaters : Connects(c, r)
    \/ Comes
    \/ FallsSilent

LinkStreamsNext == ~crashed /\ Step

(* clock is called on every turn of the main loop. *)
LinkStreamsFairness == \A i \in Slots : WF_streamVars(~crashed /\ Inactive(i))

LinkStreamsSpec == LinkStreamsInit /\ [][LinkStreamsNext]_streamVars /\ LinkStreamsFairness

---------------------------------------------------------------------------
\* The slot carries a stream to repeater r: voice of it would be passed on.
Carries(i, r) ==
    /\ slot[i] # Free /\ slot[i].id # None /\ slot[i].dest = r
    /\ protocol = "DPlus" \/ slot[i].state = "linked"

OfDongle(i) == slot[i] # Free /\ slot[i].dongle

(* Whoever hears voice from a link has been given the header of that       *)
(* stream, and the header repeated every 21 frames is that stream's too,   *)
(* although relink, the lists, polls that stop and a new link in the old   *)
(* place each clear other parts of the state.  A dongle is excepted, see   *)
(* NewHeaderIgnored.                                                       *)
HeardFromTheStart ==
    \A i \in Slots, r \in Repeaters :
        Carries(i, r) =>
            /\ slot[i].header \in {None, slot[i].id}
            /\ ~OfDongle(i) => air[r][i] = slot[i].id

(* A repeater that unlinks in the middle of a stream is given its end:     *)
(* "If an active link with incoming traffic, send an EOT to the repeater"  *)
(* (unlink).  Streams that are cut by others are Lost.                     *)
EndedByUnlink ==
    \A i \in Slots, r \in Repeaters :
        air[r][i] \in Ids => Carries(i, r) /\ slot[i].id = air[r][i]

(* What comes from a link comes from the module it is linked to, or from   *)
(* the gateway that linked to us, whatever module the link had before.     *)
FromWhereLinked ==
    \A i \in Used : slot[i].id # None =>
        IF slot[i].dir = "out" THEN Source(slot[i].id) = slot[i].target
        ELSE Source(slot[i].id) = slot[i].peer

(* What a repeater hears from a link is a stream of that link, from its    *)
(* header to its end.                                                      *)
WholeStreams == HeardFromTheStart /\ EndedByUnlink /\ FromWhereLinked

(* When the network falls silent every link is free again, whatever became *)
(* of its last stream: nothing that happens to a link stops the timer and  *)
(* leaves the id.                                                          *)
LinkFreed == silent ~> crashed \/ \A i \in Slots : slot[i] # Free => slot[i].id = None

(* "If we're already processing, ignore the new header" (processInt):      *)
(* while a stream goes on it stays with its repeater.                      *)
NewHeaderIgnored ==
    [][\A i \in Slots :
          slot[i] # Free /\ slot[i].id # None /\ slot'[i] # Free /\ slot'[i].id = slot[i].id =>
              slot'[i].dest = slot[i].dest]_streamVars
=============================================================================

-------------------------- MODULE RepeaterStreams --------------------------
(***************************************************************************)
(* Transmissions through CRepeaterHandler: what a repeater's radio sends   *)
(* ("RF"), what its controller reports while the gateway talks ("busy"),   *)
(* what links and G2 routes bring, and the gateway's own announcements.    *)
(* The radio is only trusted to number its transmissions: headers, voice   *)
(* and ends may be lost, repeated or late, and it may die at any time.     *)
(*                                                                         *)
(* A repeater is a record of the fields of CRepeaterHandler that outlive a *)
(* frame; the last four are what its listeners have been told.  One link   *)
(* it made (the outgoing link) and any one of the links made to it stand   *)
(* for all: each is LINKED or not and free or taken by a stream of its own *)
(* whatever the others are.                                                *)
(***************************************************************************)
EXTENDS Naturals

CONSTANTS
    NRepeaters,   \* repeaters, in the order of m_repeaters
    Ids,          \* stream numbers the radios use
    Commands,     \* what the headers of this instance ask for
    Linked,       \* links come and go in this instance
    Net,          \* any stream of a link or a G2 route
    Own,          \* any announcement of the gateway
    None          \* the number 0: no stream, no header, no repeater

Repeaters == 1 .. NRepeaters
Streams   == Ids \cup {Net, Own}

\* UR and RPT2 of a header: RPT2 is "silly", another repeater or nobody we know;
\* then CQCQCQ or a link command, E, I, V, a route that is refused, one the cache
\* knows, one for which ircDDB is asked.
AllCommands == {"silly", "crossband", "nobody", "talk", "echo", "info", "version",
                "refused", "cached", "user", "repeater"}

ASSUME StreamAssumption ==
    /\ NRepeaters \in Nat \ {0}
    /\ Commands \subseteq AllCommands /\ Linked \in BOOLEAN
    /\ None \notin Streams \cup Repeaters /\ {Net, Own} \cap Ids = {}
    /\ {"closed", "late"} \cap (Streams \cup {None}) = {}

Querying == {"USER", "REPEATER"}
G2Statuses == {"NONE", "LOCAL", "OK", "XBAND", "ECHO", "VERSION"} \cup Querying

\* A link, by the last header it was given: "closed" while it is not LINKED or in
\* use (m_dExtraId, m_dPlusId, m_dcsId # 0), "late" if that ended after the
\* header of the transmission under way was sent.
Links == Streams \cup {None, "closed", "late"}

\* An echo unit that is idle holds no frames (m_in = 0).
Repeater == {s \in [
    radioId    : Ids \cup {None},          \* m_repeaterId
    busyId     : Ids \cup {None},          \* m_busyId
    watchdog   : BOOLEAN,                  \* m_watchdogTimer.isRunning()
    g2Status   : G2Statuses,               \* m_g2Status
    g2Header   : Ids \cup {None},          \* m_g2Header
    xBand      : Repeaters \cup {None},    \* m_xBandRptr
    query      : BOOLEAN,                  \* m_queryTimer.isRunning()
    infoNeeded : BOOLEAN,                  \* m_infoNeeded
    info       : {"idle", "wait", "play"}, \* CAudioUnit::m_status
    version    : {"idle", "wait", "play"}, \* CVersionUnit::m_status
    echo       : {"idle", "receive", "wait", "play"},  \* CEchoUnit::m_status
    recorded   : SUBSET Ids,               \* whose voice CEchoUnit::m_data holds
    answered   : BOOLEAN,                  \* ircDDB has answered the G2 query
    incoming   : Links,                    \* a link to this repeater
    outgoing   : Links,                    \* the link it made
    routed     : Ids \cup {None}]          \* last header sent to a G2 gateway
    : s.echo = "idle" => s.recorded = {}}

VARIABLES
    rpt,      \* the repeaters
    dead,     \* repeaters whose radio has stopped
    down,     \* the gateway has crashed
    ambe      \* the voice files of the announcements could be read

vars == <<rpt, dead, down, ambe>>

TypeOK ==
    /\ rpt \in [Repeaters -> Repeater] /\ dead \subseteq Repeaters
    /\ down \in BOOLEAN /\ ambe \in BOOLEAN

Idle == [radioId |-> None, busyId |-> None, watchdog |-> FALSE, g2Status |-> "NONE",
         g2Header |-> None, xBand |-> None, query |-> FALSE, infoNeeded |-> FALSE,
         info |-> "idle", version |-> "idle", echo |-> "idle", recorded |-> {},
         answered |-> FALSE, incoming |-> "closed", outgoing |-> "closed",
         routed |-> None]

Init == rpt = [r \in Repeaters |-> Idle] /\ dead = {} /\ down = FALSE /\ ambe \in BOOLEAN

Becomes(r, s) == rpt' = [rpt EXCEPT ![r] = s] /\ UNCHANGED <<dead, down, ambe>>

(* writeHeaderInt of the reflector handlers: a link that is not LINKED, or *)
(* in use, is passed over.                                                 *)
Given(link, id) == IF link = "closed" THEN "closed" ELSE id

\* A link that starts afresh now
Opened(s) == IF s.radioId # None THEN "late" ELSE None

---------------------------------------------------------------------------
(* Streams that come from the network or from the gateway itself *)

(* CRepeaterHandler::process(CHeaderData&): only what comes from a link is *)
(* passed on to the outgoing link.                                         *)
Process(s, id, fromLink) ==
    IF s.radioId # None THEN s
    ELSE [s EXCEPT !.incoming = Given(@, id), !.outgoing = IF fromLink THEN Given(@, id) ELSE @]

(* CAudioUnit::sendStatus, CVersionUnit::sendVersion *)
SendStatus(s)  == IF ambe /\ s.info = "idle" THEN [s EXCEPT !.info = "wait"] ELSE s
SendVersion(s) == IF s.version = "idle" THEN [s EXCEPT !.version = "wait"] ELSE s

(* "queue it until the end of the transmission" *)
SendQueuedInfo(s) ==
    IF s.infoNeeded THEN [SendStatus(s) EXCEPT !.infoNeeded = FALSE] ELSE s

(* CRepeaterHandler::triggerInfo *)
TriggerInfo(s) ==
    IF s.radioId # None \/ s.busyId # None THEN [s EXCEPT !.infoNeeded = TRUE]
    ELSE [SendStatus(s) EXCEPT !.infoNeeded = FALSE]

\* A link command, by header or by DTMF, may change the link, and so the
\* announcement; it stops the query timer and may start it again.  The link goes
\* down, or a D-Plus link goes on, free of its stream, with another module.
WithLink(s, running, link) == [s EXCEPT !.query = running, !.outgoing = link]
OutgoingMoves(s) == {s.outgoing} \cup IF Linked THEN {"closed", Opened(s)} ELSE {}

MayChangeLink(s) ==
    {s} \cup {WithLink(t, running, link) :
                 t \in {s, TriggerInfo(s)}, running \in BOOLEAN, link \in OutgoingMoves(s)}

---------------------------------------------------------------------------
(* RF *)

\* Variants: the version goes on; the frames of a cancelled echo are kept.
CancelledNotVersion(s) == [s EXCEPT !.info = "idle", !.echo = "idle", !.recorded = {}]
CancelledKeepsFrames(s) == [s EXCEPT !.info = "idle", !.version = "idle", !.echo = "idle"]

(* CAudioUnit::cancel, CEchoUnit::cancel, CVersionUnit::cancel *)
Cancelled(s) ==
    [s EXCEPT !.info = "idle", !.version = "idle", !.echo = "idle", !.recorded = {}]

\* Variant: the route of the last transmission is kept.
InterruptedByKeepsRoute(s, id) ==
    [Cancelled(s) EXCEPT !.incoming = Given(@, id), !.radioId = id, !.busyId = None, !.watchdog = TRUE]

(* processRepeater(CHeaderData&), up to the commands: "a new header resets *)
(* fields and G2 routing status"                                           *)
InterruptedBy(s, id) ==
    [Cancelled(s) EXCEPT
        !.incoming = Given(@, id), !.radioId = id, !.busyId = None, !.watchdog = TRUE,
        !.query = s.g2Status \notin Querying /\ @,
        !.g2Status = "NONE", !.g2Header = None, !.xBand = None, !.answered = FALSE]

(* The commands of processRepeater(CHeaderData&) and g2CommandHandler that *)
(* concern this repeater only.  "talk" includes commands to link, unlink:  *)
(* these change the link before the header is sent to it.                  *)
Commanded(s, id, cmd) ==
    CASE cmd = "silly" -> {s}
      [] cmd \in {"nobody", "refused"} -> {[s EXCEPT !.g2Status = "LOCAL"]}
      [] cmd = "talk" -> {[t EXCEPT !.outgoing = Given(@, id)] : t \in MayChangeLink(s)}
      [] cmd = "echo" -> {[s EXCEPT !.g2Status = "ECHO", !.echo = "receive"]}
      [] cmd = "info" -> {[s EXCEPT !.g2Status = "LOCAL", !.infoNeeded = TRUE]}
      [] cmd = "version" -> {[s EXCEPT !.g2Status = "VERSION",
                                          !.outgoing = Given(@, id)]}
      [] cmd = "cached" -> {[s EXCEPT !.g2Status = "OK", !.routed = id]}
      [] cmd = "user" -> {[s EXCEPT !.g2Status = "USER", !.g2Header = id, !.query = TRUE]}
      [] cmd = "repeater" -> {[s EXCEPT !.g2Status = "REPEATER", !.g2Header = id, !.query = TRUE]}

RfHeader(r, id, cmd) ==
    LET s == InterruptedBy(rpt[r], id)
    IN  /\ id # rpt[r].radioId
        /\ cmd # "crossband"
        /\ \E t \in Commanded(s, id, cmd) : Becomes(r, t)

(* Cross-band routing: RPT2 is another repeater of this gateway. *)
RfCrossBand(r, id, other) ==
    /\ "crossband" \in Commands
    /\ id # rpt[r].radioId
    /\ other # r
    /\ rpt' = [rpt EXCEPT ![r] = [InterruptedBy(@, id) EXCEPT !.g2Status = "XBAND",
                                                              !.xBand = other],
                          ![other] = Process(@, id, FALSE)]
    /\ UNCHANGED <<dead, down, ambe>>

\* Variant: the route is forgotten, but not that there was one.
EndOfRfKeepsStatus(s) ==
    LET t == [s EXCEPT !.radioId = None, !.watchdog = FALSE,
                       !.query = s.g2Status \notin Querying /\ @,
                       !.g2Header = IF s.g2Status \in Querying THEN None ELSE @,
                       !.xBand = IF s.g2Status = "XBAND" THEN None ELSE @,
                       !.echo = IF s.g2Status = "ECHO" /\ @ = "receive" THEN "wait" ELSE @]
    IN  SendQueuedInfo(IF s.g2Status = "VERSION" THEN SendVersion(t) ELSE t)

(* What the last frame and the watchdog both do; CEchoUnit::writeData and  *)
(* CEchoUnit::end.                                                         *)
EndOfRf(s) ==
    LET t == [s EXCEPT !.radioId = None, !.watchdog = FALSE, !.g2Status = "NONE",
                       !.query = s.g2Status \notin Querying /\ @,
                       !.g2Header = IF s.g2Status \in Querying THEN None ELSE @,
                       !.xBand = IF s.g2Status = "XBAND" THEN None ELSE @,
                       !.echo = IF s.g2Status = "ECHO" /\ @ = "receive" THEN "wait" ELSE @]
    IN  SendQueuedInfo(IF s.g2Status = "VERSION" THEN SendVersion(t) ELSE t)

(* findDVRepeater(CAMBEData&, bool): the first repeater of the array that  *)
(* receives this stream, or is busy with it.                               *)
First(S) == {r \in S : \A q \in S : r <= q}
Receiving(id) == First({r \in Repeaters : rpt[r].radioId = id})
Busy(id)      == First({r \in Repeaters : rpt[r].busyId = id})

(* CEchoUnit::writeData stores the frame while it receives. *)
Record(s, id) ==
    IF s.g2Status = "ECHO" /\ s.echo = "receive" THEN [s EXCEPT !.recorded = @ \cup {id}] ELSE s

(* processRepeater(CAMBEData&).  DTMF is decoded unless on cross-band, and *)
(* obeyed if UR is CQCQCQ: a busy message may have changed UR meanwhile.   *)
RfVoice(id, end) ==
    \E r \in Receiving(id) :
        LET s == Record([rpt[r] EXCEPT !.watchdog = TRUE], id)
        IN  \E t \in IF s.g2Status # "XBAND" THEN MayChangeLink(s) ELSE {s} :
                Becomes(r, IF end THEN EndOfRf(t) ELSE t)

---------------------------------------------------------------------------
(* Busy: the controller tells what the radio hears while we transmit *)

\* Variant: the watchdog is not started.
BusyWithUnwatched(s, id) == [s EXCEPT !.busyId = id, !.radioId = None]

BusyWith(s, id) == [s EXCEPT !.busyId = id, !.radioId = None, !.watchdog = TRUE]

(* processBusy(CHeaderData&), RPT2 being the gateway: the G2 status is     *)
(* left as it is.                                                          *)
BusyHeader(r, id) ==
    /\ id # rpt[r].busyId
    /\ \E t \in MayChangeLink(BusyWith(rpt[r], id)) : Becomes(r, t)


\* Variant: the G2 status is left as the busy transmission found it.
EndOfBusyKeepsStatus(s) ==
    LET t == SendQueuedInfo(s)
    IN  [IF t.g2Status = "VERSION" THEN SendVersion(t) ELSE t
            EXCEPT !.busyId = None, !.watchdog = FALSE]

(* What the last frame of processBusy(CAMBEData&) and the watchdog both do *)
EndOfBusy(s) ==
    LET t == SendQueuedInfo(s)
    IN  [IF t.g2Status = "VERSION" THEN SendVersion(t) ELSE t
            EXCEPT !.g2Status = "NONE", !.busyId = None, !.watchdog = FALSE]

BusyVoice(id, end) ==
    \E r \in Busy(id) :
        LET s == [rpt[r] EXCEPT !.watchdog = TRUE]
        IN  \E t \in MayChangeLink(s) : Becomes(r, IF end THEN EndOfBusy(t) ELSE t)

---------------------------------------------------------------------------
(* Timers, ircDDB, links *)

Expired(s) ==
    LET t == IF s.radioId # None THEN EndOfRf(s) ELSE s
    IN  IF t.busyId # None THEN EndOfBusy(t) ELSE [t EXCEPT !.watchdog = FALSE]

(* clockInt, m_watchdogTimer expired *)
WatchdogExpires(r) ==
    /\ rpt[r].watchdog
    /\ Becomes(r, Expired(rpt[r]))

(* resolveRepeaterInt: the header kept for the route goes out now. *)
RepeaterResolved(r, found) ==
    LET s == rpt[r]
    IN  /\ s.g2Status = "REPEATER"
        /\ Becomes(r, IF found
               THEN [s EXCEPT !.query = FALSE, !.g2Status = "OK", !.answered = TRUE,
                              !.routed = s.g2Header, !.g2Header = None]
               ELSE [s EXCEPT !.query = FALSE, !.g2Status = "LOCAL", !.answered = TRUE,
                              !.g2Header = None])

(* processIrcDDB, IDRT_USER: at most the cache learns of it. *)
UserResolved(r) ==
    /\ rpt[r].g2Status = "USER"
    /\ Becomes(r, [rpt[r] EXCEPT !.answered = TRUE])

(* clockInt, m_queryTimer expired.  The link shares the timer: one that    *)
(* waited for ircDDB is given up, and that is announced.                   *)
QueryExpires(r) ==
    LET s == rpt[r]
    IN  /\ s.query
        /\ \/ /\ s.g2Status \in Querying
              /\ Becomes(r, [s EXCEPT !.query = FALSE, !.g2Status = "LOCAL", !.g2Header = None])
           \/ /\ s.g2Status \notin Querying
              /\ \E t \in {s, TriggerInfo(s)} : Becomes(r, [t EXCEPT !.query = FALSE])

(* The link of the repeater goes up or down, is relinked by the reconnect  *)
(* timer, ends its stream, or asks ircDDB on its own account: linkInt      *)
(* starts the query timer, an answer stops it.                             *)
LinkChanges(r) == \E t \in MayChangeLink(rpt[r]) : Becomes(r, t)

(* So does a link another gateway has made to it. *)
OtherLinkChanges(r) ==
    LET s == rpt[r]
    IN  /\ Linked
        /\ \E link \in IF s.incoming = "closed" THEN {Opened(s)} ELSE {"closed"} :
               Becomes(r, [s EXCEPT !.incoming = link])

(* A header of a G2 route, of the link or of one made to the repeater, in  *)
(* use from now on, or of another link (CDExtraHandler::processInt).       *)
NetHeader(r, source) ==
    LET s == rpt[r]
    IN  \/ /\ source \in {"g2", "other"}
           /\ Becomes(r, Process(s, Net, source = "other"))
        \/ /\ source = "outgoing" /\ s.outgoing # "closed"
           /\ Becomes(r, Process([s EXCEPT !.outgoing = "closed"], Net, TRUE))
        \/ /\ source = "incoming" /\ s.incoming # "closed"
           /\ Becomes(r, Process([s EXCEPT !.incoming = "closed"], Net, TRUE))

---------------------------------------------------------------------------
(* Announcements, clocked by clockInt *)

InfoTurn(r) ==
    LET s == rpt[r]
    IN  \/ /\ s.info = "wait"
           /\ Becomes(r, [Process(s, Own, FALSE) EXCEPT !.info = "play"])
        \/ /\ s.info = "play"
           /\ Becomes(r, [s EXCEPT !.info = "idle"])

VersionTurn(r) ==
    LET s == rpt[r]
    IN  \/ /\ s.version = "wait"
           /\ Becomes(r, [Process(s, Own, FALSE) EXCEPT !.version = "play"])
        \/ /\ s.version = "play"
           /\ Becomes(r, [s EXCEPT !.version = "idle"])

(* CEchoUnit::clock.  With no frame stored it takes the first one all the  *)
(* same, a null pointer.                                                   *)
EchoTurn(r) ==
    LET s == rpt[r]
    IN  \/ /\ s.echo = "wait"
           /\ Becomes(r, [Process(s, Own, FALSE) EXCEPT !.echo = "play"])
        \/ /\ s.echo = "play" /\ s.recorded # {}
           /\ Becomes(r, [s EXCEPT !.echo = "idle", !.recorded = {}])
        \/ /\ s.echo = "play" /\ s.recorded = {}
           /\ down' = TRUE /\ UNCHANGED <<rpt, dead, ambe>>

---------------------------------------------------------------------------
(* The controller of a repeater, or its cable, fails for good. *)
RadioDies(r) == dead' = dead \cup {r} /\ UNCHANGED <<rpt, down, ambe>>

FromRadio(r) ==
    \/ \E id \in Ids :
          \/ \E cmd \in Commands : RfHeader(r, id, cmd)
          \/ \E other \in Repeaters : RfCrossBand(r, id, other)
          \/ BusyHeader(r, id)

FromAnyRadio == \E id \in Ids, end \in BOOLEAN : RfVoice(id, end) \/ BusyVoice(id, end)

Clock(r) == WatchdogExpires(r) \/ QueryExpires(r) \/ InfoTurn(r) \/ VersionTurn(r) \/ EchoTurn(r)

FromNetwork(r) ==
    \/ \E found \in BOOLEAN : RepeaterResolved(r, found)
    \/ UserResolved(r)
    \/ LinkChanges(r) \/ OtherLinkChanges(r)
    \/ \E source \in {"g2", "outgoing", "incoming", "other"} : NetHeader(r, source)

Next ==
    /\ ~down
    /\ \/ \E r \in Repeaters \ dead : FromRadio(r) \/ RadioDies(r)
       \/ dead # Repeaters /\ FromAnyRadio
       \/ \E r \in Repeaters : Clock(r) \/ FromNetwork(r)

Spec == Init /\ [][Next]_vars

(* The main loop clocks every repeater on every turn, but a frame of any   *)
(* radio may start the watchdog anew: it is sure to expire only once the   *)
(* radios are silent.                                                      *)
Fairness == \A r \in Repeaters : WF_vars(~down /\ dead = Repeaters /\ WatchdogExpires(r))

FairSpec == Spec /\ Fairness

---------------------------------------------------------------------------
(* A status never points to what is gone: while ircDDB is asked the header *)
(* that will be sent is kept, and a cross-band route has its repeater.     *)
(* The status, the two pointers and the two stream numbers are cleared by  *)
(* different functions, and a busy header leaves the status in place.      *)
PointersHeld ==
    \A r \in Repeaters :
        /\ rpt[r].g2Status \in Querying => rpt[r].g2Header # None
        /\ rpt[r].g2Status = "XBAND" => rpt[r].xBand # None

(* A link that is free from before a transmission to now, and the gateway  *)
(* a G2 route leads to, have been given the header of that transmission    *)
(* when its voice comes.  Commands and the network close and open links    *)
(* and take them into use meanwhile, a header may have waited for ircDDB,  *)
(* and transmissions interrupt one another.  (RejectedNotSent tells why    *)
(* "silly" is excepted.  A link that comes up, or becomes free, in the     *)
(* middle is sent the rest of the voice without a header.)                 *)
Free(link) == link \notin {"closed", "late"}

HeaderFirst ==
    \A r \in Repeaters :
        LET s == rpt[r]
        IN  s.radioId # None =>
                /\ Free(s.incoming) => s.incoming = s.radioId
                /\ /\ s.g2Status \in {"NONE", "VERSION"} /\ "silly" \notin Commands
                   /\ Free(s.outgoing)
                   => s.outgoing = s.radioId
                /\ s.g2Status = "OK" => s.routed = s.radioId
                /\ s.g2Status \in Querying => s.g2Header = s.radioId

(* No announcement is on the air, or about to be, while the radio sends,   *)
(* and an echo being recorded holds the voice of this transmission only.   *)
PlayersYield ==
    \A r \in Repeaters :
        LET s == rpt[r]
        IN  s.radioId # None =>
                /\ s.info = "idle" /\ s.version = "idle"
                /\ s.echo = IF s.g2Status = "ECHO" THEN "receive" ELSE "idle"
                /\ s.recorded \subseteq {s.radioId}

(* The watchdog runs exactly while a transmission is under way, and a      *)
(* repeater is never in an RF and a busy transmission at once: otherwise   *)
(* a lost end would block the repeater, or a watchdog cut a live one.  An  *)
(* announcement is queued only behind a transmission, whose end serves it. *)
Watched ==
    \A r \in Repeaters :
        LET s == rpt[r]
        IN  /\ s.watchdog <=> s.radioId # None \/ s.busyId # None
            /\ s.radioId = None \/ s.busyId = None
            /\ s.infoNeeded => s.radioId # None \/ s.busyId # None


(* Radios that die in the middle of a transmission leave nothing behind    *)
(* that blocks their repeaters: network streams get through again.         *)
Released(s) == s.radioId = None /\ s.busyId = None /\ s.g2Status = "NONE"
Recovers == \A r \in Repeaters : dead = Repeaters ~> Released(rpt[r]) \/ down

(* "Reject silly RPT2 values" (processRepeater): the voice of a            *)
(* transmission goes to a free link only if its header went there.         *)
RejectedNotSent ==
    \A r \in Repeaters :
        LET s == rpt[r]
        IN  s.radioId # None /\ s.g2Status \in {"NONE", "VERSION"} /\ Free(s.outgoing) =>
                s.outgoing = s.radioId

(* "ircDDB did not reply within five seconds" (clockInt) is true when the  *)
(* query of a G2 route is given up.                                        *)
GivesUpUnanswered ==
    [][\A r \in Repeaters :
          rpt[r].g2Status \in Querying /\ QueryExpires(r) => ~rpt[r].answered]_vars

(* "If the watchdog timer has expired, clean up" (clockInt): the gateway   *)
(* goes on after a transmission that was cut off.                          *)
Survives == ~down
=============================================================================

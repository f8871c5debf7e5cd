----------------------- MODULE RepeaterStreamsProofs -----------------------
(***************************************************************************)
(* The safety invariants of the streams, for any number of repeaters and   *)
(* streams.  A repeater is Sound if its fields satisfy them all; every     *)
(* operator of RepeaterStreams takes a sound repeater to a sound one, and  *)
(* every action applies operators to one repeater, or to two.              *)
(***************************************************************************)
EXTENDS RepeaterStreams, TLAPS

Inv == TypeOK /\ PointersHeld /\ HeaderFirst /\ PlayersYield /\ Watched

---------------------------------------------------------------------------
(* Types, field by field *)

Fields == {"radioId", "busyId", "watchdog", "g2Status", "g2Header", "xBand", "query",
           "infoNeeded", "info", "version", "echo", "recorded", "answered",
           "incoming", "outgoing", "routed"}

HasFields(s) == s = [x \in Fields |-> s[x]]

Typed(s) ==
    /\ HasFields(s)
    /\ s.radioId \in Ids \cup {None} /\ s.busyId \in Ids \cup {None}
    /\ s.watchdog \in BOOLEAN
    /\ s.g2Status \in G2Statuses
    /\ s.g2Header \in Ids \cup {None} /\ s.xBand \in Repeaters \cup {None}
    /\ s.query \in BOOLEAN /\ s.infoNeeded \in BOOLEAN /\ s.answered \in BOOLEAN
    /\ s.info \in {"idle", "wait", "play"} /\ s.version \in {"idle", "wait", "play"}
    /\ s.echo \in {"idle", "receive", "wait", "play"}
    /\ s.recorded \in SUBSET Ids /\ (s.echo = "idle" => s.recorded = {})
    /\ s.incoming \in Links /\ s.outgoing \in Links
    /\ s.routed \in Ids \cup {None}

USE DEF Querying, G2Statuses, Streams, Links, Free

(* The types field by field are those of the record set. *)
LEMMA TypedIsRepeater ==
    ASSUME NEW s
    PROVE  Typed(s) <=> s \in Repeater
<1>1. ASSUME Typed(s) PROVE s \in Repeater
  BY <1>1 DEF Typed, HasFields, Fields, Repeater
<1>2. ASSUME s \in Repeater PROVE Typed(s)
  BY <1>2 DEF Typed, HasFields, Fields, Repeater
<1> QED
  BY <1>1, <1>2

---------------------------------------------------------------------------
(* The invariants of one repeater *)

Pointers(s) ==
    /\ s.g2Status \in Querying => s.g2Header # None
    /\ s.g2Status = "XBAND" => s.xBand # None

Headed(s) ==
    s.radioId # None =>
        /\ Free(s.incoming) => s.incoming = s.radioId
        /\ s.g2Status \in {"NONE", "VERSION"} /\ "silly" \notin Commands /\ Free(s.outgoing) =>
               s.outgoing = s.radioId
        /\ s.g2Status = "OK" => s.routed = s.radioId
        /\ s.g2Status \in Querying => s.g2Header = s.radioId

Yielding(s) ==
    s.radioId # None =>
        /\ s.info = "idle" /\ s.version = "idle"
        /\ s.echo = IF s.g2Status = "ECHO" THEN "receive" ELSE "idle"
        /\ s.recorded \subseteq {s.radioId}

WatchedOne(s) ==
    /\ s.watchdog <=> s.radioId # None \/ s.busyId # None
    /\ s.radioId = None \/ s.busyId = None
    /\ s.infoNeeded => s.radioId # None \/ s.busyId # None

SameBut(s, t, F) == \A f \in Fields \ F : t[f] = s[f]

Sound(s) == Typed(s) /\ Pointers(s) /\ Headed(s) /\ Yielding(s) /\ WatchedOne(s)

AllSound ==
    /\ rpt = [r \in Repeaters |-> rpt[r]] /\ \A r \in Repeaters : Sound(rpt[r])
    /\ dead \subseteq Repeaters /\ down \in BOOLEAN /\ ambe \in BOOLEAN

(* The invariants say the same of all repeaters as Sound says of each. *)
LEMMA InvIsSound == Inv <=> AllSound
  BY TypedIsRepeater DEF AllSound, Inv, TypeOK, PointersHeld, HeaderFirst, PlayersYield, Watched,
     Sound, Pointers, Headed, Yielding, WatchedOne

---------------------------------------------------------------------------
(* The operators *)

(* A header from elsewhere is refused while the radio sends. *)
LEMMA ProcessSound ==
    ASSUME NEW s, Sound(s), NEW id \in Streams, NEW fromLink \in BOOLEAN
    PROVE  Sound(Process(s, id, fromLink)) /\ Process(s, id, fromLink).radioId = s.radioId
<1> DEFINE t == Process(s, id, fromLink)
<1>1. CASE s.radioId # None
  BY <1>1 DEF Process
<1>2. CASE s.radioId = None
  <2>1. HasFields(t) /\ SameBut(s, t, {"incoming", "outgoing"})
    BY <1>2 DEF Process, Sound, Typed, HasFields, Fields, SameBut
  <2>2. t.incoming \in {"closed", id} /\ t.outgoing \in {s.outgoing, "closed", id}
    BY <1>2 DEF Process, Given, Sound, Typed, HasFields, Fields
  <2> HIDE DEF t
  <2>3. Typed(t)
    BY <2>1, <2>2 DEF SameBut, Fields, Typed, Sound
  <2>4. Sound(t) /\ t.radioId = s.radioId
    BY <1>2, <2>1, <2>3 DEF SameBut, Fields, Sound, Pointers, Headed, Yielding, WatchedOne
  <2> QED
    BY <2>4 DEF t
<1> QED
  BY <1>1, <1>2

\* What the announcements' operators leave alone
Same(s, t) ==
    /\ t.radioId = s.radioId /\ t.busyId = s.busyId /\ t.watchdog = s.watchdog
    /\ t.g2Status = s.g2Status /\ t.g2Header = s.g2Header /\ t.xBand = s.xBand
    /\ t.incoming = s.incoming /\ t.outgoing = s.outgoing /\ t.routed = s.routed
    /\ t.echo = s.echo /\ t.recorded = s.recorded

(* Starting the announcement disturbs nothing else. *)
LEMMA SendStatusTyped ==
    ASSUME NEW s, Typed(s)
    PROVE  Typed(SendStatus(s)) /\ Same(s, SendStatus(s)) /\ SendStatus(s).version = s.version
  BY DEF SendStatus, Typed, HasFields, Fields, Same

(* Starting the version disturbs nothing else. *)
LEMMA SendVersionTyped ==
    ASSUME NEW s, Typed(s)
    PROVE  /\ Typed(SendVersion(s)) /\ Same(s, SendVersion(s))
           /\ SendVersion(s).infoNeeded = s.infoNeeded
  BY DEF SendVersion, Typed, HasFields, Fields, Same

(* Nor does starting the announcement that was queued. *)
LEMMA QueuedInfoTyped ==
    ASSUME NEW s, Typed(s)
    PROVE  Typed(SendQueuedInfo(s)) /\ Same(s, SendQueuedInfo(s)) /\ ~SendQueuedInfo(s).infoNeeded
<1> DEFINE u == SendStatus(s)
<1>1. Typed(u) /\ Same(s, u)
  BY SendStatusTyped
<1> HIDE DEF u
<1>2. HasFields([u EXCEPT !.infoNeeded = FALSE])
  BY <1>1 DEF Typed, HasFields, Fields
<1>3. /\ Typed([u EXCEPT !.infoNeeded = FALSE]) /\ Same(u, [u EXCEPT !.infoNeeded = FALSE])
      /\ ~[u EXCEPT !.infoNeeded = FALSE].infoNeeded
  BY <1>1, <1>2 DEF Typed, HasFields, Fields, Same
<1>4. SendQueuedInfo(s) = IF s.infoNeeded THEN [u EXCEPT !.infoNeeded = FALSE] ELSE s
  BY DEF SendQueuedInfo, u
<1> QED
  BY <1>1, <1>3, <1>4 DEF Same

(* The announcement of a change of link is queued while anybody sends. *)
LEMMA TriggerSound ==
    ASSUME NEW s, Sound(s)
    PROVE  Sound(TriggerInfo(s)) /\ Same(s, TriggerInfo(s))
<1> DEFINE u == SendStatus(s)
           t == TriggerInfo(s)
<1>1. Typed(u) /\ Same(s, u) /\ u.version = s.version
  BY SendStatusTyped DEF Sound
<1> HIDE DEF u
<1>2. CASE s.radioId # None \/ s.busyId # None
  <2>1. t = [s EXCEPT !.infoNeeded = TRUE]
    BY <1>2 DEF TriggerInfo
  <2> HIDE DEF t
  <2>2. HasFields(t) /\ SameBut(s, t, {"infoNeeded"}) /\ t.infoNeeded
    BY <2>1 DEF Sound, Typed, HasFields, Fields, SameBut
  <2>3. Typed(t) /\ Same(s, t) /\ t.info = s.info /\ t.version = s.version
    BY <2>2 DEF Sound, SameBut, Fields, Typed, Same
  <2>4. Sound(t)
    BY <1>2, <2>3 DEF Sound, Same, Pointers, Headed, Yielding, WatchedOne
  <2> QED
    BY <2>3, <2>4 DEF t
<1>3. CASE ~(s.radioId # None \/ s.busyId # None)
  <2>1. t = [u EXCEPT !.infoNeeded = FALSE]
    BY <1>3 DEF TriggerInfo, u
  <2> HIDE DEF t
  <2>2. HasFields(t) /\ SameBut(u, t, {"infoNeeded"}) /\ ~t.infoNeeded
    BY <1>1, <2>1 DEF Typed, HasFields, Fields, SameBut
  <2>3. t.infoNeeded \in BOOLEAN
    BY <1>1, <2>1 DEF Typed, HasFields, Fields
  <2>4. Typed(t) /\ Same(u, t)
    BY <1>1, <2>2, <2>3 DEF SameBut, Fields, Typed, Same
  <2>5. Sound(t) /\ Same(s, t)
    BY <1>1, <1>3, <2>2, <2>4 DEF Sound, Same, Pointers, Headed, Yielding, WatchedOne
  <2> QED
    BY <2>5 DEF t
<1> QED
  BY <1>2, <1>3

(* No invariant speaks of the query timer. *)
LEMMA QueryTimerSound ==
    ASSUME NEW s, Sound(s), NEW b \in BOOLEAN
    PROVE  Sound([s EXCEPT !.query = b]) /\ Same(s, [s EXCEPT !.query = b])
<1> DEFINE t == [s EXCEPT !.query = b]
<1>1. HasFields(t) /\ SameBut(s, t, {"query"})
  BY DEF Sound, Typed, HasFields, Fields, SameBut
<1>2. t.query = b
  BY DEF Sound, Typed, HasFields, Fields
<1>3. Sound(t) /\ Same(s, t)
  <2> HIDE DEF t
  <2>1. Typed(t)
    BY <1>1, <1>2 DEF SameBut, Fields, Typed, Sound
  <2> QED
    BY <1>1, <1>2, <2>1
    DEF SameBut, Fields, Same, Sound, Pointers, Headed, Yielding, WatchedOne
<1> QED
  BY <1>3

(* A link that closes, or opens afresh, is owed no header. *)
LEMMA OutgoingMovesSound ==
    ASSUME NEW s, Sound(s), NEW link \in {s.outgoing, "closed", Opened(s)}
    PROVE  LET t == [s EXCEPT !.outgoing = link]
           IN  Sound(t) /\ t.radioId = s.radioId /\ t.busyId = s.busyId
<1> DEFINE t == [s EXCEPT !.outgoing = link]
<1>1. HasFields(t) /\ SameBut(s, t, {"outgoing"}) /\ t.outgoing = link
  BY DEF Sound, Typed, HasFields, Fields, SameBut
<1>2. link = s.outgoing \/ ~Free(link) \/ s.radioId = None
  BY DEF Opened
<1>3. link \in Links
  BY DEF Opened, Sound, Typed
<1>4. Sound(t) /\ t.radioId = s.radioId /\ t.busyId = s.busyId
  <2> HIDE DEF t
  <2>1. Typed(t)
    BY <1>1, <1>3 DEF SameBut, Fields, Typed, Sound
  <2> QED
    BY <1>1, <1>2, <2>1 DEF SameBut, Fields, Sound, Pointers, Headed, Yielding, WatchedOne
<1> QED
  BY <1>4

(* The same of a link made to the repeater. *)
LEMMA IncomingMovesSound ==
    ASSUME NEW s, Sound(s), NEW link \in {"closed", Opened(s)}
    PROVE  Sound([s EXCEPT !.incoming = link])
<1> DEFINE t == [s EXCEPT !.incoming = link]
<1>1. HasFields(t) /\ SameBut(s, t, {"incoming"}) /\ t.incoming = link
  BY DEF Sound, Typed, HasFields, Fields, SameBut
<1>2. ~Free(link) \/ s.radioId = None
  BY DEF Opened
<1>3. link \in Links
  BY DEF Opened
<1>4. Sound(t)
  <2> HIDE DEF t
  <2>1. Typed(t)
    BY <1>1, <1>3 DEF SameBut, Fields, Typed, Sound
  <2> QED
    BY <1>1, <1>2, <2>1 DEF SameBut, Fields, Sound, Pointers, Headed, Yielding, WatchedOne
<1> QED
  BY <1>4

(* A command sets the timer and the link of a repeater that may have been  *)
(* told to announce it.                                                    *)
LEMMA MayChangeLinkCases ==
    ASSUME NEW s, NEW t \in MayChangeLink(s)
    PROVE  \/ t = s
           \/ \E u \in {s, TriggerInfo(s)}, b \in BOOLEAN,
                link \in {s.outgoing, "closed", Opened(s)} : t = WithLink(u, b, link)
<1>1. \/ t = s
      \/ \E u \in {s, TriggerInfo(s)}, b \in BOOLEAN, link \in OutgoingMoves(s) :
            t = WithLink(u, b, link)
  BY DEF MayChangeLink
<1>2. OutgoingMoves(s) \subseteq {s.outgoing, "closed", Opened(s)}
  BY DEF OutgoingMoves
<1> QED
  BY <1>1, <1>2

(* A change of the link leaves the transmission alone. *)
LEMMA LinkChangeSound ==
    ASSUME NEW s, Sound(s), NEW t \in MayChangeLink(s)
    PROVE  Sound(t) /\ t.radioId = s.radioId /\ t.busyId = s.busyId
<1>1. Sound(TriggerInfo(s)) /\ Same(s, TriggerInfo(s))
  BY TriggerSound
<1>2. ASSUME NEW u \in {s, TriggerInfo(s)}, NEW b \in BOOLEAN,
             NEW link \in {s.outgoing, "closed", Opened(s)}, t = WithLink(u, b, link)
      PROVE  Sound(t) /\ t.radioId = s.radioId /\ t.busyId = s.busyId
  <2>1. Sound(u) /\ Same(s, u)
    BY <1>1 DEF Same
  <2> DEFINE v == [u EXCEPT !.query = b]
             w == [v EXCEPT !.outgoing = link]
  <2>2. Sound(v) /\ Same(u, v)
    BY <2>1, QueryTimerSound
  <2>3. t = w
    <3>1. HasFields(u)
      BY <2>1 DEF Sound, Typed
    <3> QED
      BY <1>2, <3>1 DEF WithLink, HasFields, Fields
  <2> HIDE DEF v
  <2>4. link \in {v.outgoing, "closed", Opened(v)}
    BY <2>1, <2>2 DEF Same, Opened
  <2>5. Sound(w) /\ w.radioId = v.radioId /\ w.busyId = v.busyId
    BY <2>2, <2>4, OutgoingMovesSound
  <2> QED
    BY <2>1, <2>2, <2>3, <2>5 DEF Same
<1> QED
  BY <1>2, MayChangeLinkCases

(* After the end of a transmission, nothing is left of it. *)
LEMMA EndOfRfSound ==
    ASSUME NEW s, Sound(s), s.radioId # None
    PROVE  Sound(EndOfRf(s)) /\ EndOfRf(s).radioId = None /\ EndOfRf(s).busyId = None
<1> DEFINE t == [s EXCEPT !.radioId = None, !.watchdog = FALSE, !.g2Status = "NONE",
                          !.query = s.g2Status \notin Querying /\ @,
                          !.g2Header = IF s.g2Status \in Querying THEN None ELSE @,
                          !.xBand = IF s.g2Status = "XBAND" THEN None ELSE @,
                          !.echo = IF s.g2Status = "ECHO" /\ @ = "receive" THEN "wait" ELSE @]
           u == IF s.g2Status = "VERSION" THEN SendVersion(t) ELSE t
<1>1. HasFields(t)
  BY DEF Sound, Typed, HasFields, Fields
<1>2. /\ t.radioId = None /\ t.busyId = s.busyId /\ t.watchdog = FALSE /\ t.g2Status = "NONE"
       /\ t.infoNeeded = s.infoNeeded /\ t.info = s.info /\ t.version = s.version
       /\ t.recorded = s.recorded /\ t.answered = s.answered
       /\ t.incoming = s.incoming /\ t.outgoing = s.outgoing /\ t.routed = s.routed
  BY DEF Sound, Typed, HasFields, Fields
<1>3. t.query \in BOOLEAN
  BY DEF Sound, Typed, HasFields, Fields
<1>4. t.g2Header \in {s.g2Header, None}
  BY DEF Sound, Typed, HasFields, Fields
<1>5. t.xBand \in {s.xBand, None}
  BY DEF Sound, Typed, HasFields, Fields
<1>6. t.echo = s.echo \/ (s.echo = "receive" /\ t.echo = "wait")
  BY DEF Sound, Typed, HasFields, Fields
<1>7. /\ Typed(t) /\ t.radioId = None /\ t.busyId = None /\ t.watchdog = FALSE
      /\ t.g2Status = "NONE"
  <2> HIDE DEF t
  <2> QED
    BY <1>1, <1>2, <1>3, <1>4, <1>5, <1>6 DEF Sound, Typed, WatchedOne
<1>8. EndOfRf(s) = SendQueuedInfo(u)
  BY DEF EndOfRf
<1> HIDE DEF t
<1>9. Typed(u) /\ Same(t, u)
  BY <1>7, SendVersionTyped DEF Same
<1> HIDE DEF u
<1>10. Typed(EndOfRf(s)) /\ Same(u, EndOfRf(s)) /\ ~EndOfRf(s).infoNeeded
  BY <1>8, <1>9, QueuedInfoTyped
<1> QED
  BY <1>7, <1>9, <1>10 DEF Sound, Same, Pointers, Headed, Yielding, WatchedOne

(* The end of a busy transmission clears the status the RF one left. *)
LEMMA EndOfBusySound ==
    ASSUME NEW s, Sound(s), s.busyId # None
    PROVE  Sound(EndOfBusy(s))
<1> DEFINE t == SendQueuedInfo(s)
           u == IF t.g2Status = "VERSION" THEN SendVersion(t) ELSE t
<1>1. Typed(t) /\ Same(s, t) /\ ~t.infoNeeded
  BY QueuedInfoTyped DEF Sound
<1>2. EndOfBusy(s) = [u EXCEPT !.g2Status = "NONE", !.busyId = None, !.watchdog = FALSE]
  BY DEF EndOfBusy
<1> HIDE DEF t
<1>3. Typed(u) /\ Same(t, u) /\ ~u.infoNeeded
  BY <1>1, SendVersionTyped DEF Same
<1> HIDE DEF u
<1> DEFINE v == EndOfBusy(s)
<1>4. HasFields(v) /\ SameBut(u, v, {"g2Status", "busyId", "watchdog"})
  BY <1>2, <1>3 DEF Typed, HasFields, Fields, SameBut
<1>5. v.g2Status = "NONE" /\ v.busyId = None /\ v.watchdog = FALSE
  BY <1>2, <1>3 DEF Typed, HasFields, Fields
<1> HIDE DEF v
<1>6. Typed(v)
  BY <1>3, <1>4, <1>5 DEF SameBut, Fields, Typed
<1>7. v.radioId = None /\ ~v.infoNeeded
  BY <1>1, <1>3, <1>4 DEF SameBut, Fields, Same, Sound, WatchedOne
<1>8. Sound(v)
  BY <1>5, <1>6, <1>7 DEF Sound, Pointers, Headed, Yielding, WatchedOne
<1> QED
  BY <1>8 DEF v

(* A new header: all but the header of the outgoing link is in place. *)
LEMMA InterruptedSound ==
    ASSUME NEW s, Sound(s), NEW id \in Ids
    PROVE  LET t == InterruptedBy(s, id)
           IN  /\ Typed(t) /\ Pointers(t) /\ Yielding(t) /\ WatchedOne(t)
               /\ t.radioId = id /\ t.incoming \in {"closed", id} /\ t.g2Status = "NONE"
<1> DEFINE c == Cancelled(s)
           t == InterruptedBy(s, id)
<1>1. Typed(c) /\ c.info = "idle" /\ c.version = "idle" /\ c.echo = "idle" /\ c.recorded = {}
  <2>1. HasFields(c) /\ SameBut(s, c, {"info", "version", "echo", "recorded"})
    BY DEF Cancelled, Sound, Typed, HasFields, Fields, SameBut
  <2>2. c.info = "idle" /\ c.version = "idle" /\ c.echo = "idle" /\ c.recorded = {}
    BY DEF Cancelled, Sound, Typed, HasFields, Fields
  <2> HIDE DEF c
  <2> QED
    BY <2>1, <2>2 DEF SameBut, Fields, Typed, Sound
<1>2. t = [c EXCEPT
             !.incoming = Given(@, id), !.radioId = id, !.busyId = None, !.watchdog = TRUE,
             !.query = s.g2Status \notin Querying /\ @,
             !.g2Status = "NONE", !.g2Header = None, !.xBand = None, !.answered = FALSE]
  BY DEF InterruptedBy
<1> HIDE DEF c, t
<1>3. HasFields(t)
  BY <1>1, <1>2 DEF Typed, HasFields, Fields
<1>4. /\ t.radioId = id /\ t.busyId = None /\ t.watchdog = TRUE
      /\ t.g2Status = "NONE" /\ t.g2Header = None /\ t.xBand = None /\ t.answered = FALSE
      /\ t.info = "idle" /\ t.version = "idle" /\ t.echo = "idle" /\ t.recorded = {}
      /\ t.infoNeeded = c.infoNeeded /\ t.outgoing = c.outgoing /\ t.routed = c.routed
  BY <1>1, <1>2 DEF Typed, HasFields, Fields
<1>5. t.query \in BOOLEAN /\ t.incoming \in {"closed", id}
  BY <1>1, <1>2 DEF Typed, HasFields, Fields, Given
<1>6. Typed(t)
  BY <1>1, <1>3, <1>4, <1>5 DEF Typed
<1>7. id # None
  BY StreamAssumption
<1> QED
  BY <1>4, <1>5, <1>6, <1>7 DEF Pointers, Yielding, WatchedOne, t

(* Each command gives the listeners of its status their header. *)
LEMMA CommandedSound ==
    ASSUME NEW s, Sound(s), NEW id \in Ids, NEW cmd \in Commands, cmd # "crossband",
           NEW t \in Commanded(InterruptedBy(s, id), id, cmd)
    PROVE  Sound(t)
<1> DEFINE i == InterruptedBy(s, id)
<1>1. /\ Typed(i) /\ Pointers(i) /\ Yielding(i) /\ WatchedOne(i)
      /\ i.radioId = id /\ i.incoming \in {"closed", id} /\ i.g2Status = "NONE"
  BY InterruptedSound
<1>2. id # None /\ cmd \in AllCommands
  BY StreamAssumption
<1>3. t \in Commanded(i, id, cmd)
  OBVIOUS
<1> HIDE DEF i
<1>4. CASE cmd = "silly"
  BY <1>1, <1>2, <1>3, <1>4 DEF Commanded, Sound, Headed
<1>5. CASE cmd \in {"nobody", "refused"}
  <2>1. t = [i EXCEPT !.g2Status = "LOCAL"]
    BY <1>3, <1>5 DEF Commanded
  <2>2. HasFields(t) /\ SameBut(i, t, {"g2Status"})
    BY <1>1, <2>1 DEF Typed, HasFields, Fields, SameBut
  <2>3. t.g2Status = "LOCAL"
    BY <1>1, <2>1 DEF Typed, HasFields, Fields
  <2> QED
    BY <1>1, <1>2, <2>2, <2>3
    DEF SameBut, Fields, Typed, Sound, Pointers, Headed, Yielding, WatchedOne
<1>6. CASE cmd = "echo"
  <2>1. t = [i EXCEPT !.g2Status = "ECHO", !.echo = "receive"]
    BY <1>3, <1>6 DEF Commanded
  <2>2. HasFields(t) /\ SameBut(i, t, {"g2Status", "echo"})
    BY <1>1, <2>1 DEF Typed, HasFields, Fields, SameBut
  <2>3. t.g2Status = "ECHO" /\ t.echo = "receive"
    BY <1>1, <2>1 DEF Typed, HasFields, Fields
  <2> QED
    BY <1>1, <1>2, <2>2, <2>3
    DEF SameBut, Fields, Typed, Sound, Pointers, Headed, Yielding, WatchedOne
<1>7. CASE cmd = "info"
  <2>1. t = [i EXCEPT !.g2Status = "LOCAL", !.infoNeeded = TRUE]
    BY <1>3, <1>7 DEF Commanded
  <2>2. HasFields(t) /\ SameBut(i, t, {"g2Status", "infoNeeded"})
    BY <1>1, <2>1 DEF Typed, HasFields, Fields, SameBut
  <2>3. t.g2Status = "LOCAL" /\ t.infoNeeded \in BOOLEAN
    BY <1>1, <2>1 DEF Typed, HasFields, Fields
  <2> QED
    BY <1>1, <1>2, <2>2, <2>3
    DEF SameBut, Fields, Typed, Sound, Pointers, Headed, Yielding, WatchedOne
<1>8. CASE cmd = "version"
  <2>1. t = [i EXCEPT !.g2Status = "VERSION", !.outgoing = Given(@, id)]
    BY <1>3, <1>8 DEF Commanded
  <2>2. HasFields(t) /\ SameBut(i, t, {"g2Status", "outgoing"})
    BY <1>1, <2>1 DEF Typed, HasFields, Fields, SameBut
  <2>3. t.g2Status = "VERSION" /\ t.outgoing \in {"closed", id}
    BY <1>1, <2>1 DEF Typed, HasFields, Fields, Given
  <2> QED
    BY <1>1, <1>2, <2>2, <2>3
    DEF SameBut, Fields, Typed, Sound, Pointers, Headed, Yielding, WatchedOne
<1>9. CASE cmd = "cached"
  <2>1. t = [i EXCEPT !.g2Status = "OK", !.routed = id]
    BY <1>3, <1>9 DEF Commanded
  <2>2. HasFields(t) /\ SameBut(i, t, {"g2Status", "routed"})
    BY <1>1, <2>1 DEF Typed, HasFields, Fields, SameBut
  <2>3. t.g2Status = "OK" /\ t.routed = id
    BY <1>1, <2>1 DEF Typed, HasFields, Fields
  <2> QED
    BY <1>1, <1>2, <2>2, <2>3
    DEF SameBut, Fields, Typed, Sound, Pointers, Headed, Yielding, WatchedOne
<1>10. CASE cmd = "user"
  <2>1. t = [i EXCEPT !.g2Status = "USER", !.g2Header = id, !.query = TRUE]
    BY <1>3, <1>10 DEF Commanded
  <2>2. HasFields(t) /\ SameBut(i, t, {"g2Status", "g2Header", "query"})
    BY <1>1, <2>1 DEF Typed, HasFields, Fields, SameBut
  <2>3. t.g2Status = "USER" /\ t.g2Header = id /\ t.query \in BOOLEAN
    BY <1>1, <2>1 DEF Typed, HasFields, Fields
  <2> QED
    BY <1>1, <1>2, <2>2, <2>3
    DEF SameBut, Fields, Typed, Sound, Pointers, Headed, Yielding, WatchedOne
<1>11. CASE cmd = "repeater"
  <2>1. t = [i EXCEPT !.g2Status = "REPEATER", !.g2Header = id, !.query = TRUE]
    BY <1>3, <1>11 DEF Commanded
  <2>2. HasFields(t) /\ SameBut(i, t, {"g2Status", "g2Header", "query"})
    BY <1>1, <2>1 DEF Typed, HasFields, Fields, SameBut
  <2>3. t.g2Status = "REPEATER" /\ t.g2Header = id /\ t.query \in BOOLEAN
    BY <1>1, <2>1 DEF Typed, HasFields, Fields
  <2> QED
    BY <1>1, <1>2, <2>2, <2>3
    DEF SameBut, Fields, Typed, Sound, Pointers, Headed, Yielding, WatchedOne
<1>12. CASE cmd = "talk"
  <2>1. PICK u \in MayChangeLink(i) : t = [u EXCEPT !.outgoing = Given(@, id)]
    BY <1>3, <1>12 DEF Commanded
  <2>2. TriggerInfo(i) = [i EXCEPT !.infoNeeded = TRUE]
    BY <1>1, <1>2 DEF TriggerInfo
  <2>3. HasFields(TriggerInfo(i)) /\ SameBut(i, TriggerInfo(i), {"infoNeeded"})
    BY <1>1, <2>2 DEF Typed, HasFields, Fields, SameBut
  <2>4. TriggerInfo(i).infoNeeded \in BOOLEAN
    BY <1>1, <2>2 DEF Typed, HasFields, Fields
  <2>5. /\ HasFields(u) /\ SameBut(i, u, {"infoNeeded", "query", "outgoing"})
        /\ u.infoNeeded \in BOOLEAN /\ u.query \in BOOLEAN
    <3>1. CASE u = i
      BY <1>1, <3>1 DEF Typed, SameBut
    <3>2. ASSUME NEW v \in {i, TriggerInfo(i)}, NEW b \in BOOLEAN,
                 NEW link \in {i.outgoing, "closed", Opened(i)}, u = WithLink(v, b, link)
          PROVE  /\ HasFields(u) /\ SameBut(i, u, {"infoNeeded", "query", "outgoing"})
                 /\ u.infoNeeded \in BOOLEAN /\ u.query \in BOOLEAN
      <4>1. HasFields(v) /\ SameBut(i, v, {"infoNeeded"}) /\ v.infoNeeded \in BOOLEAN
        BY <1>1, <2>3, <2>4 DEF Typed, SameBut
      <4>2. HasFields(u) /\ SameBut(v, u, {"query", "outgoing"}) /\ u.query = b
        BY <3>2, <4>1 DEF WithLink, HasFields, Fields, SameBut
      <4> QED
        BY <4>1, <4>2 DEF SameBut, Fields
    <3> QED
      BY <3>1, <3>2, MayChangeLinkCases
  <2>6. HasFields(t) /\ SameBut(u, t, {"outgoing"}) /\ t.outgoing \in {"closed", id}
    BY <2>1, <2>5 DEF HasFields, Fields, SameBut, Given
  <2> QED
    BY <1>1, <1>2, <2>5, <2>6
    DEF SameBut, Fields, Typed, Sound, Pointers, Headed, Yielding, WatchedOne
<1> QED
  BY <1>2, <1>4, <1>5, <1>6, <1>7, <1>8, <1>9, <1>10, <1>11, <1>12 DEF AllCommands
---------------------------------------------------------------------------
(* Cross-band, voice, busy *)

(* The same for a route to another repeater. *)
LEMMA CrossBandSound ==
    ASSUME NEW s, Sound(s), NEW id \in Ids, NEW other \in Repeaters
    PROVE  Sound([InterruptedBy(s, id) EXCEPT !.g2Status = "XBAND", !.xBand = other])
<1> DEFINE i == InterruptedBy(s, id)
           t == [i EXCEPT !.g2Status = "XBAND", !.xBand = other]
<1>1. /\ Typed(i) /\ Pointers(i) /\ Yielding(i) /\ WatchedOne(i)
      /\ i.radioId = id /\ i.incoming \in {"closed", id} /\ i.g2Status = "NONE"
  BY InterruptedSound
<1>2. id # None /\ other # None
  BY StreamAssumption
<1> HIDE DEF i
<1>3. HasFields(t) /\ SameBut(i, t, {"g2Status", "xBand"})
  BY <1>1 DEF Typed, HasFields, Fields, SameBut
<1>4. t.g2Status = "XBAND" /\ t.xBand = other
  BY <1>1 DEF Typed, HasFields, Fields
<1>5. Sound(t)
  <2> HIDE DEF t
  <2> QED
    BY <1>1, <1>2, <1>3, <1>4 DEF SameBut, Fields, Typed, Sound, Pointers, Headed, Yielding, WatchedOne
<1> QED
  BY <1>5 DEF i

(* During a transmission the watchdog runs already. *)
LEMMA RewatchedSound ==
    ASSUME NEW s, Sound(s), s.radioId # None \/ s.busyId # None
    PROVE  [s EXCEPT !.watchdog = TRUE] = s
<1>1. s.watchdog = TRUE
  BY DEF Sound, Typed, WatchedOne
<1> QED
  BY <1>1 DEF Sound, Typed, HasFields, Fields

(* An echo records the frames of its transmission. *)
LEMMA RecordSound ==
    ASSUME NEW s, Sound(s), NEW id \in Ids, s.radioId = id
    PROVE  Sound(Record(s, id)) /\ Record(s, id).radioId = id
<1> DEFINE t == [s EXCEPT !.recorded = @ \cup {id}]
<1>1. CASE s.g2Status = "ECHO" /\ s.echo = "receive"
  <2>1. Record(s, id) = t
    BY <1>1 DEF Record
  <2>2. HasFields(t) /\ SameBut(s, t, {"recorded"}) /\ t.recorded = s.recorded \cup {id}
    BY DEF Sound, Typed, HasFields, Fields, SameBut
  <2> HIDE DEF t
  <2> QED
    BY <1>1, <2>1, <2>2 DEF SameBut, Fields, Typed, Sound, Pointers, Headed, Yielding, WatchedOne
<1>2. CASE ~(s.g2Status = "ECHO" /\ s.echo = "receive")
  BY <1>2 DEF Record
<1> QED
  BY <1>1, <1>2

(* A busy header ends the RF transmission but not its status. *)
LEMMA BusyWithSound ==
    ASSUME NEW s, Sound(s), NEW id \in Ids
    PROVE  Sound(BusyWith(s, id))
<1> DEFINE t == BusyWith(s, id)
<1>1. HasFields(t) /\ SameBut(s, t, {"radioId", "busyId", "watchdog"})
  BY DEF BusyWith, Sound, Typed, HasFields, Fields, SameBut
<1>2. t.radioId = None /\ t.busyId = id /\ t.watchdog = TRUE
  BY DEF BusyWith, Sound, Typed, HasFields, Fields
<1>3. id # None
  BY StreamAssumption
<1> HIDE DEF t
<1>4. Typed(t)
  BY <1>1, <1>2 DEF SameBut, Fields, Typed, Sound
<1>5. Sound(t)
  BY <1>1, <1>2, <1>3, <1>4 DEF SameBut, Fields, Sound, Pointers, Headed, Yielding, WatchedOne
<1> QED
  BY <1>5 DEF t

(* The watchdog cleans up whichever transmission it guards. *)
LEMMA ExpiredSound ==
    ASSUME NEW s, Sound(s), s.watchdog
    PROVE  Sound(Expired(s))
<1>1. CASE s.radioId # None
  <2> DEFINE t == EndOfRf(s)
  <2>1. Sound(t) /\ t.radioId = None /\ t.busyId = None
    BY <1>1, EndOfRfSound
  <2>2. Expired(s) = [t EXCEPT !.watchdog = FALSE]
    BY <1>1, <2>1 DEF Expired
  <2> HIDE DEF t
  <2>3. t.watchdog = FALSE
    BY <2>1 DEF Sound, Typed, WatchedOne
  <2>4. [t EXCEPT !.watchdog = FALSE] = t
    BY <2>1, <2>3 DEF Sound, Typed, HasFields, Fields
  <2> QED
    BY <2>1, <2>2, <2>4
<1>2. CASE s.radioId = None
  <2>1. s.busyId # None
    BY <1>2 DEF Sound, WatchedOne
  <2> QED
    BY <1>2, <2>1, EndOfBusySound DEF Expired
<1> QED
  BY <1>1, <1>2

---------------------------------------------------------------------------
(* The steps *)

(* A step that changes one repeater to a sound one. *)
LEMMA BecomesSound ==
    ASSUME AllSound, NEW r \in Repeaters, NEW t, Sound(t), Becomes(r, t)
    PROVE  AllSound'
  BY DEF AllSound, Becomes

(* At the start nothing is under way. *)
LEMMA InitSound == Init => AllSound
<1>1. Sound(Idle)
  BY DEF Idle, Sound, Typed, HasFields, Fields, Pointers, Headed, Yielding, WatchedOne
<1> QED
  BY <1>1 DEF Init, AllSound

(* Headers of one radio. *)
LEMMA FromRadioSound ==
    ASSUME AllSound, NEW r \in Repeaters, FromRadio(r)
    PROVE  AllSound'
<1>1. Sound(rpt[r])
  BY DEF AllSound
<1>2. PICK id \in Ids : \/ \E cmd \in Commands : RfHeader(r, id, cmd)
                        \/ \E other \in Repeaters : RfCrossBand(r, id, other)
                        \/ BusyHeader(r, id)
  BY DEF FromRadio
<1>3. CASE \E cmd \in Commands : RfHeader(r, id, cmd)
  <2>1. PICK cmd \in Commands : RfHeader(r, id, cmd)
    BY <1>3
  <2>2. cmd # "crossband"
    BY <2>1 DEF RfHeader
  <2>3. PICK t \in Commanded(InterruptedBy(rpt[r], id), id, cmd) : Becomes(r, t)
    BY <2>1 DEF RfHeader
  <2>4. Sound(t)
    BY <1>1, <2>2, <2>3, CommandedSound
  <2> QED
    BY <2>3, <2>4, BecomesSound
<1>4. CASE \E other \in Repeaters : RfCrossBand(r, id, other)
  <2>1. PICK other \in Repeaters : RfCrossBand(r, id, other)
    BY <1>4
  <2> DEFINE t == [InterruptedBy(rpt[r], id) EXCEPT !.g2Status = "XBAND", !.xBand = other]
             u == Process(rpt[other], id, FALSE)
  <2>2. Sound(t)
    BY <1>1, CrossBandSound
  <2>3. Sound(u)
    BY ProcessSound DEF AllSound
  <2>4. other # r /\ rpt' = [rpt EXCEPT ![r] = t, ![other] = u] /\ UNCHANGED <<dead, down, ambe>>
    BY <2>1 DEF RfCrossBand, AllSound
  <2> HIDE DEF t, u
  <2> QED
    BY <2>2, <2>3, <2>4 DEF AllSound
<1>5. CASE BusyHeader(r, id)
  <2>1. PICK t \in MayChangeLink(BusyWith(rpt[r], id)) : Becomes(r, t)
    BY <1>5 DEF BusyHeader
  <2>2. Sound(t)
    BY <1>1, <2>1, BusyWithSound, LinkChangeSound
  <2> QED
    BY <2>1, <2>2, BecomesSound
<1> QED
  BY <1>2, <1>3, <1>4, <1>5

(* Frames, which name no radio but a stream. *)
LEMMA FromAnyRadioSound ==
    ASSUME AllSound, FromAnyRadio
    PROVE  AllSound'
<1>1. PICK id \in Ids, end \in BOOLEAN : RfVoice(id, end) \/ BusyVoice(id, end)
  BY DEF FromAnyRadio
<1>2. id # None
  BY StreamAssumption
<1>3. CASE RfVoice(id, end)
  <2>1. PICK r \in Receiving(id) :
            LET s == Record([rpt[r] EXCEPT !.watchdog = TRUE], id)
            IN  \E t \in IF s.g2Status # "XBAND" THEN MayChangeLink(s) ELSE {s} :
                    Becomes(r, IF end THEN EndOfRf(t) ELSE t)
    BY <1>3 DEF RfVoice
  <2>2. r \in Repeaters /\ rpt[r].radioId = id
    BY DEF Receiving, First
  <2>3. Sound(rpt[r]) /\ [rpt[r] EXCEPT !.watchdog = TRUE] = rpt[r]
    BY <1>2, <2>2, RewatchedSound DEF AllSound
  <2> DEFINE s == Record(rpt[r], id)
  <2>4. PICK t \in MayChangeLink(s) : Becomes(r, IF end THEN EndOfRf(t) ELSE t)
    <3>1. \E t \in IF s.g2Status # "XBAND" THEN MayChangeLink(s) ELSE {s} :
              Becomes(r, IF end THEN EndOfRf(t) ELSE t)
      BY <2>1, <2>3
    <3>2. s \in MayChangeLink(s)
      BY DEF MayChangeLink
    <3> HIDE DEF s
    <3> QED
      BY <3>1, <3>2
  <2>5. Sound(s) /\ s.radioId = id
    BY <2>2, <2>3, RecordSound
  <2> HIDE DEF s
  <2>6. Sound(t) /\ t.radioId # None
    BY <1>2, <2>4, <2>5, LinkChangeSound
  <2>7. Sound(IF end THEN EndOfRf(t) ELSE t)
    BY <2>6, EndOfRfSound
  <2> QED
    BY <2>2, <2>4, <2>7, BecomesSound
<1>4. CASE BusyVoice(id, end)
  <2>1. PICK r \in Busy(id) :
            LET s == [rpt[r] EXCEPT !.watchdog = TRUE]
            IN  \E t \in MayChangeLink(s) : Becomes(r, IF end THEN EndOfBusy(t) ELSE t)
    BY <1>4 DEF BusyVoice
  <2>2. r \in Repeaters /\ rpt[r].busyId = id
    BY DEF Busy, First
  <2>3. Sound(rpt[r]) /\ [rpt[r] EXCEPT !.watchdog = TRUE] = rpt[r]
    BY <1>2, <2>2, RewatchedSound DEF AllSound
  <2>4. PICK t \in MayChangeLink(rpt[r]) : Becomes(r, IF end THEN EndOfBusy(t) ELSE t)
    BY <2>1, <2>3
  <2>5. Sound(t) /\ t.busyId # None
    BY <1>2, <2>2, <2>3, <2>4, LinkChangeSound
  <2>6. Sound(IF end THEN EndOfBusy(t) ELSE t)
    BY <2>5, EndOfBusySound
  <2> QED
    BY <2>2, <2>4, <2>6, BecomesSound
<1> QED
  BY <1>1, <1>3, <1>4
---------------------------------------------------------------------------
(* Single fields *)

(* An answer of ircDDB sends the header that was kept. *)
LEMMA RouteFoundSound ==
    ASSUME NEW s, Sound(s), s.g2Status = "REPEATER"
    PROVE  Sound([s EXCEPT !.query = FALSE, !.g2Status = "OK", !.answered = TRUE,
                      !.routed = s.g2Header, !.g2Header = None])
<1> DEFINE t == [s EXCEPT !.query = FALSE, !.g2Status = "OK", !.answered = TRUE,
                      !.routed = s.g2Header, !.g2Header = None]
<1>1. HasFields(t) /\ SameBut(s, t, {"query", "g2Status", "answered", "routed", "g2Header"})
  BY DEF Sound, Typed, HasFields, Fields, SameBut
<1>2. /\ t.query \in BOOLEAN /\ t.g2Status = "OK" /\ t.answered \in BOOLEAN
      /\ t.routed = s.g2Header /\ t.g2Header = None
  BY DEF Sound, Typed, HasFields, Fields
<1>3. Sound(t)
  <2> HIDE DEF t
  <2>1. Typed(t)
    BY <1>1, <1>2 DEF SameBut, Fields, Typed, Sound
  <2> QED
    BY <1>1, <1>2, <2>1 DEF SameBut, Fields, Sound, Pointers, Headed, Yielding, WatchedOne
<1> QED
  BY <1>3

(* Without a route the transmission stays local. *)
LEMMA RouteLostSound ==
    ASSUME NEW s, Sound(s), s.g2Status \in Querying
    PROVE  Sound([s EXCEPT !.query = FALSE, !.g2Status = "LOCAL", !.answered = TRUE,
                      !.g2Header = None])
<1> DEFINE t == [s EXCEPT !.query = FALSE, !.g2Status = "LOCAL", !.answered = TRUE,
                      !.g2Header = None]
<1>1. HasFields(t) /\ SameBut(s, t, {"query", "g2Status", "answered", "g2Header"})
  BY DEF Sound, Typed, HasFields, Fields, SameBut
<1>2. t.query \in BOOLEAN /\ t.g2Status = "LOCAL" /\ t.answered \in BOOLEAN /\ t.g2Header = None
  BY DEF Sound, Typed, HasFields, Fields
<1>3. Sound(t)
  <2> HIDE DEF t
  <2>1. Typed(t)
    BY <1>1, <1>2 DEF SameBut, Fields, Typed, Sound
  <2> QED
    BY <1>1, <1>2, <2>1 DEF SameBut, Fields, Sound, Pointers, Headed, Yielding, WatchedOne
<1> QED
  BY <1>3

(* So it does without an answer. *)
LEMMA QueryGivenUpSound ==
    ASSUME NEW s, Sound(s), s.g2Status \in Querying
    PROVE  Sound([s EXCEPT !.query = FALSE, !.g2Status = "LOCAL", !.g2Header = None])
<1> DEFINE t == [s EXCEPT !.query = FALSE, !.g2Status = "LOCAL", !.g2Header = None]
<1>1. HasFields(t) /\ SameBut(s, t, {"query", "g2Status", "g2Header"})
  BY DEF Sound, Typed, HasFields, Fields, SameBut
<1>2. t.query \in BOOLEAN /\ t.g2Status = "LOCAL" /\ t.g2Header = None
  BY DEF Sound, Typed, HasFields, Fields
<1>3. Sound(t)
  <2> HIDE DEF t
  <2>1. Typed(t)
    BY <1>1, <1>2 DEF SameBut, Fields, Typed, Sound
  <2> QED
    BY <1>1, <1>2, <2>1 DEF SameBut, Fields, Sound, Pointers, Headed, Yielding, WatchedOne
<1> QED
  BY <1>3

(* No invariant speaks of the answers. *)
LEMMA AnsweredSound ==
    ASSUME NEW s, Sound(s)
    PROVE  Sound([s EXCEPT !.answered = TRUE])
<1> DEFINE t == [s EXCEPT !.answered = TRUE]
<1>1. HasFields(t) /\ SameBut(s, t, {"answered"})
  BY DEF Sound, Typed, HasFields, Fields, SameBut
<1>2. t.answered \in BOOLEAN
  BY DEF Sound, Typed, HasFields, Fields
<1>3. Sound(t)
  <2> HIDE DEF t
  <2>1. Typed(t)
    BY <1>1, <1>2 DEF SameBut, Fields, Typed, Sound
  <2> QED
    BY <1>1, <1>2, <2>1 DEF SameBut, Fields, Sound, Pointers, Headed, Yielding, WatchedOne
<1> QED
  BY <1>3

(* An announcement may end at any time. *)
LEMMA InfoStopsSound ==
    ASSUME NEW s, Sound(s)
    PROVE  Sound([s EXCEPT !.info = "idle"])
<1> DEFINE t == [s EXCEPT !.info = "idle"]
<1>1. HasFields(t) /\ SameBut(s, t, {"info"})
  BY DEF Sound, Typed, HasFields, Fields, SameBut
<1>2. t.info = "idle"
  BY DEF Sound, Typed, HasFields, Fields
<1>3. Sound(t)
  <2> HIDE DEF t
  <2>1. Typed(t)
    BY <1>1, <1>2 DEF SameBut, Fields, Typed, Sound
  <2> QED
    BY <1>1, <1>2, <2>1 DEF SameBut, Fields, Sound, Pointers, Headed, Yielding, WatchedOne
<1> QED
  BY <1>3

(* It starts only while the radio is silent. *)
LEMMA InfoPlaysSound ==
    ASSUME NEW s, Sound(s), s.radioId = None
    PROVE  Sound([s EXCEPT !.info = "play"])
<1> DEFINE t == [s EXCEPT !.info = "play"]
<1>1. HasFields(t) /\ SameBut(s, t, {"info"})
  BY DEF Sound, Typed, HasFields, Fields, SameBut
<1>2. t.info = "play"
  BY DEF Sound, Typed, HasFields, Fields
<1>3. Sound(t)
  <2> HIDE DEF t
  <2>1. Typed(t)
    BY <1>1, <1>2 DEF SameBut, Fields, Typed, Sound
  <2> QED
    BY <1>1, <1>2, <2>1 DEF SameBut, Fields, Sound, Pointers, Headed, Yielding, WatchedOne
<1> QED
  BY <1>3

(* The version may end at any time. *)
LEMMA VersionStopsSound ==
    ASSUME NEW s, Sound(s)
    PROVE  Sound([s EXCEPT !.version = "idle"])
<1> DEFINE t == [s EXCEPT !.version = "idle"]
<1>1. HasFields(t) /\ SameBut(s, t, {"version"})
  BY DEF Sound, Typed, HasFields, Fields, SameBut
<1>2. t.version = "idle"
  BY DEF Sound, Typed, HasFields, Fields
<1>3. Sound(t)
  <2> HIDE DEF t
  <2>1. Typed(t)
    BY <1>1, <1>2 DEF SameBut, Fields, Typed, Sound
  <2> QED
    BY <1>1, <1>2, <2>1 DEF SameBut, Fields, Sound, Pointers, Headed, Yielding, WatchedOne
<1> QED
  BY <1>3

(* It starts only while the radio is silent. *)
LEMMA VersionPlaysSound ==
    ASSUME NEW s, Sound(s), s.radioId = None
    PROVE  Sound([s EXCEPT !.version = "play"])
<1> DEFINE t == [s EXCEPT !.version = "play"]
<1>1. HasFields(t) /\ SameBut(s, t, {"version"})
  BY DEF Sound, Typed, HasFields, Fields, SameBut
<1>2. t.version = "play"
  BY DEF Sound, Typed, HasFields, Fields
<1>3. Sound(t)
  <2> HIDE DEF t
  <2>1. Typed(t)
    BY <1>1, <1>2 DEF SameBut, Fields, Typed, Sound
  <2> QED
    BY <1>1, <1>2, <2>1 DEF SameBut, Fields, Sound, Pointers, Headed, Yielding, WatchedOne
<1> QED
  BY <1>3

(* The echo ends when the radio is silent. *)
LEMMA EchoStopsSound ==
    ASSUME NEW s, Sound(s), s.radioId = None
    PROVE  Sound([s EXCEPT !.echo = "idle", !.recorded = {}])
<1> DEFINE t == [s EXCEPT !.echo = "idle", !.recorded = {}]
<1>1. HasFields(t) /\ SameBut(s, t, {"echo", "recorded"})
  BY DEF Sound, Typed, HasFields, Fields, SameBut
<1>2. t.echo = "idle" /\ t.recorded = {}
  BY DEF Sound, Typed, HasFields, Fields
<1>3. Sound(t)
  <2> HIDE DEF t
  <2>1. Typed(t)
    BY <1>1, <1>2 DEF SameBut, Fields, Typed, Sound
  <2> QED
    BY <1>1, <1>2, <2>1 DEF SameBut, Fields, Sound, Pointers, Headed, Yielding, WatchedOne
<1> QED
  BY <1>3

(* So does it start. *)
LEMMA EchoPlaysSound ==
    ASSUME NEW s, Sound(s), s.radioId = None
    PROVE  Sound([s EXCEPT !.echo = "play"])
<1> DEFINE t == [s EXCEPT !.echo = "play"]
<1>1. HasFields(t) /\ SameBut(s, t, {"echo"})
  BY DEF Sound, Typed, HasFields, Fields, SameBut
<1>2. t.echo = "play"
  BY DEF Sound, Typed, HasFields, Fields
<1>3. Sound(t)
  <2> HIDE DEF t
  <2>1. Typed(t)
    BY <1>1, <1>2 DEF SameBut, Fields, Typed, Sound
  <2> QED
    BY <1>1, <1>2, <2>1 DEF SameBut, Fields, Sound, Pointers, Headed, Yielding, WatchedOne
<1> QED
  BY <1>3

---------------------------------------------------------------------------
(* Clock and network *)

(* The timers and announcements of one repeater. *)
LEMMA ClockSound ==
    ASSUME AllSound, NEW r \in Repeaters, Clock(r)
    PROVE  AllSound'
<1> DEFINE s == rpt[r]
<1>1. Sound(s)
  BY DEF AllSound
<1>2. CASE WatchdogExpires(r)
  <2>1. Sound(Expired(s))
    BY <1>1, <1>2, ExpiredSound DEF WatchdogExpires
  <2> QED
    BY <1>2, <2>1, BecomesSound DEF WatchdogExpires
<1>3. CASE QueryExpires(r)
  <2>1. CASE s.g2Status \in Querying
    <3>1. Becomes(r, [s EXCEPT !.query = FALSE, !.g2Status = "LOCAL", !.g2Header = None])
      BY <1>3, <2>1 DEF QueryExpires
    <3>2. Sound([s EXCEPT !.query = FALSE, !.g2Status = "LOCAL", !.g2Header = None])
      BY <1>1, <2>1, QueryGivenUpSound
    <3> QED
      BY <3>1, <3>2, BecomesSound
  <2>2. CASE s.g2Status \notin Querying
    <3>1. PICK t \in {s, TriggerInfo(s)} : Becomes(r, [t EXCEPT !.query = FALSE])
      BY <1>3, <2>2 DEF QueryExpires
    <3>2. Sound(t)
      BY <1>1, TriggerSound
    <3>3. Sound([t EXCEPT !.query = FALSE])
      BY <3>2, QueryTimerSound
    <3> QED
      BY <3>1, <3>3, BecomesSound
  <2> QED
    BY <2>1, <2>2
<1>4. CASE InfoTurn(r)
  <2>1. CASE s.info = "wait" /\ Becomes(r, [Process(s, Own, FALSE) EXCEPT !.info = "play"])
    <3>1. s.radioId = None
      BY <1>1, <2>1 DEF Sound, Yielding
    <3> DEFINE t == Process(s, Own, FALSE)
    <3>2. Sound(t) /\ t.radioId = None
      BY <1>1, <3>1, ProcessSound
    <3> HIDE DEF t
    <3>3. Sound([t EXCEPT !.info = "play"])
      BY <3>2, InfoPlaysSound
    <3> QED
      BY <2>1, <3>3, BecomesSound DEF t
  <2>2. CASE s.info = "play" /\ Becomes(r, [s EXCEPT !.info = "idle"])
    BY <1>1, <2>2, InfoStopsSound, BecomesSound
  <2> QED
    BY <1>4, <2>1, <2>2 DEF InfoTurn
<1>5. CASE VersionTurn(r)
  <2>1. CASE s.version = "wait" /\ Becomes(r, [Process(s, Own, FALSE) EXCEPT !.version = "play"])
    <3>1. s.radioId = None
      BY <1>1, <2>1 DEF Sound, Yielding
    <3> DEFINE t == Process(s, Own, FALSE)
    <3>2. Sound(t) /\ t.radioId = None
      BY <1>1, <3>1, ProcessSound
    <3> HIDE DEF t
    <3>3. Sound([t EXCEPT !.version = "play"])
      BY <3>2, VersionPlaysSound
    <3> QED
      BY <2>1, <3>3, BecomesSound DEF t
  <2>2. CASE s.version = "play" /\ Becomes(r, [s EXCEPT !.version = "idle"])
    BY <1>1, <2>2, VersionStopsSound, BecomesSound
  <2> QED
    BY <1>5, <2>1, <2>2 DEF VersionTurn
<1>6. CASE EchoTurn(r)
  <2>1. CASE s.echo = "wait" /\ Becomes(r, [Process(s, Own, FALSE) EXCEPT !.echo = "play"])
    <3>1. s.radioId = None
      BY <1>1, <2>1 DEF Sound, Yielding
    <3> DEFINE t == Process(s, Own, FALSE)
    <3>2. Sound(t) /\ t.radioId = None
      BY <1>1, <3>1, ProcessSound
    <3> HIDE DEF t
    <3>3. Sound([t EXCEPT !.echo = "play"])
      BY <3>2, EchoPlaysSound
    <3> QED
      BY <2>1, <3>3, BecomesSound DEF t
  <2>2. CASE s.echo = "play" /\ Becomes(r, [s EXCEPT !.echo = "idle", !.recorded = {}])
    <3>1. s.radioId = None
      BY <1>1, <2>2 DEF Sound, Yielding
    <3> QED
      BY <1>1, <2>2, <3>1, EchoStopsSound, BecomesSound
  <2>3. CASE down' = TRUE /\ UNCHANGED <<rpt, dead, ambe>>
    BY <2>3 DEF AllSound
  <2> QED
    BY <1>6, <2>1, <2>2, <2>3 DEF EchoTurn
<1> QED
  BY <1>2, <1>3, <1>4, <1>5, <1>6 DEF Clock

(* ircDDB, links and routes. *)
LEMMA FromNetworkSound ==
    ASSUME AllSound, NEW r \in Repeaters, FromNetwork(r)
    PROVE  AllSound'
<1> DEFINE s == rpt[r]
<1>1. Sound(s)
  BY DEF AllSound
<1>2. ASSUME NEW found \in BOOLEAN, RepeaterResolved(r, found) PROVE AllSound'
  <2>1. s.g2Status = "REPEATER"
    BY <1>2 DEF RepeaterResolved
  <2>2. Sound([s EXCEPT !.query = FALSE, !.g2Status = "OK", !.answered = TRUE,
                        !.routed = s.g2Header, !.g2Header = None])
    BY <1>1, <2>1, RouteFoundSound
  <2>3. Sound([s EXCEPT !.query = FALSE, !.g2Status = "LOCAL", !.answered = TRUE,
                        !.g2Header = None])
    BY <1>1, <2>1, RouteLostSound
  <2>4. \/ Becomes(r, [s EXCEPT !.query = FALSE, !.g2Status = "OK", !.answered = TRUE,
                                !.routed = s.g2Header, !.g2Header = None])
        \/ Becomes(r, [s EXCEPT !.query = FALSE, !.g2Status = "LOCAL", !.answered = TRUE,
                                !.g2Header = None])
    BY <1>2 DEF RepeaterResolved
  <2> QED
    BY <2>2, <2>3, <2>4, BecomesSound
<1>3. CASE UserResolved(r)
  BY <1>1, <1>3, AnsweredSound, BecomesSound DEF UserResolved
<1>4. CASE LinkChanges(r)
  <2>1. PICK t \in MayChangeLink(s) : Becomes(r, t)
    BY <1>4 DEF LinkChanges
  <2> QED
    BY <1>1, <2>1, LinkChangeSound, BecomesSound
<1>5. CASE OtherLinkChanges(r)
  <2>1. PICK link \in {"closed", Opened(s)} : Becomes(r, [s EXCEPT !.incoming = link])
    BY <1>5 DEF OtherLinkChanges
  <2> QED
    BY <1>1, <2>1, IncomingMovesSound, BecomesSound
<1>6. ASSUME NEW source \in {"g2", "outgoing", "incoming", "other"}, NetHeader(r, source)
      PROVE  AllSound'
  <2>1. CASE Becomes(r, Process(s, Net, source = "other"))
    BY <1>1, <2>1, ProcessSound, BecomesSound
  <2>2. CASE Becomes(r, Process([s EXCEPT !.outgoing = "closed"], Net, TRUE))
    BY <1>1, <2>2, OutgoingMovesSound, ProcessSound, BecomesSound
  <2>3. CASE Becomes(r, Process([s EXCEPT !.incoming = "closed"], Net, TRUE))
    BY <1>1, <2>3, IncomingMovesSound, ProcessSound, BecomesSound
  <2> QED
    BY <1>6, <2>1, <2>2, <2>3 DEF NetHeader
<1> QED
  BY <1>2, <1>3, <1>4, <1>5, <1>6 DEF FromNetwork

---------------------------------------------------------------------------
(* Each step keeps every repeater sound *)

(* Sound repeaters stay sound. *)
LEMMA NextSound == AllSound /\ [Next]_vars => AllSound'
<1> SUFFICES ASSUME AllSound, [Next]_vars PROVE AllSound'
  OBVIOUS
<1>1. ASSUME NEW r \in Repeaters, RadioDies(r) PROVE AllSound'
  BY <1>1 DEF RadioDies, AllSound
<1>2. CASE UNCHANGED vars
  BY <1>2 DEF AllSound, vars
<1>3. CASE Next
  BY <1>1, <1>3, FromRadioSound, FromAnyRadioSound, ClockSound, FromNetworkSound DEF Next
<1> QED
  BY <1>2, <1>3

(* The repeaters keep their types, for any number of them, of stream       *)
(* numbers and of commands.                                                *)
THEOREM StreamsTypeCorrect == Spec => []TypeOK
<1>1. AllSound => TypeOK
  BY InvIsSound DEF Inv
<1> QED
  BY InitSound, NextSound, <1>1, PTL DEF Spec

(* A query's header and a cross-band route's repeater are there as long as *)
(* the status says so.                                                     *)
THEOREM PointersAlwaysHeld == Spec => []PointersHeld
<1>1. AllSound => PointersHeld
  BY InvIsSound DEF Inv
<1> QED
  BY InitSound, NextSound, <1>1, PTL DEF Spec

(* A link that was free all along, and the gateway of a G2 route, get the  *)
(* voice of a transmission only after its header, whatever links open,     *)
(* close and are taken into use and whoever interrupts whom.               *)
THEOREM HeaderAlwaysFirst == Spec => []HeaderFirst
<1>1. AllSound => HeaderFirst
  BY InvIsSound DEF Inv
<1> QED
  BY InitSound, NextSound, <1>1, PTL DEF Spec

(* The gateway's announcements never play over the radio, and an echo      *)
(* returns the voice of one transmission.                                  *)
THEOREM PlayersAlwaysYield == Spec => []PlayersYield
<1>1. AllSound => PlayersYield
  BY InvIsSound DEF Inv
<1> QED
  BY InitSound, NextSound, <1>1, PTL DEF Spec

(* The watchdog runs exactly during a transmission, RF or busy, never both *)
(* at once, and an announcement is only queued behind one.                 *)
THEOREM AlwaysWatched == Spec => []Watched
<1>1. AllSound => Watched
  BY InvIsSound DEF Inv
<1> QED
  BY InitSound, NextSound, <1>1, PTL DEF Spec
=============================================================================

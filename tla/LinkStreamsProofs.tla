------------------------- MODULE LinkStreamsProofs -------------------------
(***************************************************************************)
(* What repeaters hear from links is whole streams of those links, for any *)
(* number of repeaters, peers, links and transmissions.  What a slot and   *)
(* the repeaters know of its stream is a pair, as in LinkStreams; a pair   *)
(* is Sound if it satisfies the invariants.  Every frame takes a sound     *)
(* pair to a sound one, and every change of a link leaves one behind.      *)
(***************************************************************************)
EXTENDS LinkStreams, TLAPS

(* A nonempty set of slots has a least element. *)
LEMMA MinInSlots ==
    ASSUME NEW S, S \subseteq Slots, S # {}
    PROVE  Min(S) \in S
<1>1. \E x \in S : \A y \in S : x =< y
  <2>1. \A y \in S : y \in {1, 2, 3, 4, 5}
    BY LinkStreamsAssumption DEF Slots
  <2>2. CASE 1 \in S
    BY <2>1, <2>2
  <2>3. CASE 1 \notin S /\ 2 \in S
    BY <2>1, <2>3
  <2>4. CASE 1 \notin S /\ 2 \notin S /\ 3 \in S
    BY <2>1, <2>4
  <2>5. CASE 1 \notin S /\ 2 \notin S /\ 3 \notin S
    BY <2>1, <2>5
  <2> QED
    BY <2>2, <2>3, <2>4, <2>5
<1> QED
  BY <1>1 DEF Min

---------------------------------------------------------------------------
(* The invariant of one slot in use *)

Typed(w) == w.link \in Link /\ w.air \in [Repeaters -> Ids \cup {None, Lost}]

(* Who is at the other end of a link, and which repeater at this one *)
Attached(p, link) ==
    IF link.dir = "out"
    THEN /\ link.peer \in Reflectors /\ link.target \in Targets /\ link.target[1] = link.peer
         /\ link.dest \in Repeaters /\ ~link.dongle
    ELSE link.peer \in Callers /\ IF link.dongle THEN p # "DCS" ELSE link.dest \in Repeaters

(* A stream is that of the link's other end; a link that is not up yet has *)
(* none.  (That of a dongle may have lost its repeater.)                   *)
OwnStream(link) ==
    link.id # None =>
        /\ link.state # "linking"
        /\ link.header \in {None, link.id}
        /\ IF link.dir = "out" THEN Source(link.id) = link.target ELSE Source(link.id) = link.peer

\* The slot's stream is passed on to its repeater.
Flows(p, link) == link.id # None /\ (p = "DPlus" \/ link.state = "linked")

(* The repeater is in the middle of that stream and of no other. *)
InStep(p, w) ==
    /\ Flows(p, w.link) /\ ~w.link.dongle => w.air[w.link.dest] = w.link.id
    /\ \A r \in Repeaters : w.air[r] \in Ids =>
           Flows(p, w.link) /\ r = w.link.dest /\ w.air[r] = w.link.id

Sound(p, w) == Typed(w) /\ Attached(p, w.link) /\ OwnStream(w.link) /\ InStep(p, w)

(* A free slot is silent. *)
SlotSound(i) ==
    IF slot[i] = Free THEN \A r \in Repeaters : air[r][i] \notin Ids
    ELSE Sound(protocol, Pair(i))

Inv == LinkStreamsTypeOK /\ \A i \in Slots : SlotSound(i)

---------------------------------------------------------------------------
(* Frames.  One that is passed on is passed to the repeater of the link. *)

(* A stream that starts is the link's, and the repeater is told. *)
LEMMA BegunSound ==
    ASSUME NEW p \in {"DExtra", "DPlus", "DCS"}, p = protocol, NEW w, Sound(p, w),
           w.link.state = "linked", w.link.id = None, w.link.dest \in Repeaters, NEW id \in Ids,
           IF w.link.dir = "out" THEN Source(id) = w.link.target ELSE Source(id) = w.link.peer
    PROVE  Sound(p, Begun(w, id))
<1> DEFINE v == Begun(w, id)
<1>1. /\ v.link = [w.link EXCEPT !.id = id, !.running = TRUE,
                                !.header = IF protocol = "DCS" THEN None ELSE id]
      /\ v.air = [w.air EXCEPT ![w.link.dest] = id]
  BY DEF Begun
<1> HIDE DEF v
<1>2. Typed(v)
  <2> DEFINE header == IF protocol = "DCS" THEN None ELSE id
  <2>1. header \in Ids \cup {None} /\ w.link \in Link
    BY DEF Sound, Typed
  <2>2. v.link = [w.link EXCEPT !.id = id, !.running = TRUE, !.header = header]
    BY <1>1
  <2> HIDE DEF header
  <2>3. v.link \in Link
    BY <2>1, <2>2 DEF Link
  <2>4. v.air \in [Repeaters -> Ids \cup {None, Lost}]
    BY <1>1 DEF Sound, Typed
  <2> QED
    BY <2>3, <2>4 DEF Typed
<1>3. /\ v.link.id = id /\ v.link.header \in {None, id} /\ v.link.dir = w.link.dir
      /\ v.link.dongle = w.link.dongle /\ v.link.peer = w.link.peer /\ v.link.target = w.link.target
      /\ v.link.dest = w.link.dest /\ v.link.state = "linked"
  BY <1>1 DEF Sound, Typed, Link
<1>4. Attached(p, v.link) /\ OwnStream(v.link)
  BY <1>3 DEF Sound, Attached, OwnStream
<1>5. InStep(p, v)
  BY <1>1, <1>3, NamesApart DEF Sound, Typed, InStep, Flows
<1> QED
  BY <1>2, <1>4, <1>5 DEF Sound, v

(* A listed user's header stops the stream: what the repeater heard of it  *)
(* is Lost.                                                                *)
LEMMA RejectedSound ==
    ASSUME NEW p \in {"DExtra", "DPlus", "DCS"}, NEW w, Sound(p, w)
    PROVE  Sound(p, Rejected(w))
<1> DEFINE v == Rejected(w)
<1>1. CASE w.link.id = None
  BY <1>1 DEF Rejected
<1>2. CASE w.link.id # None
  <2>1. /\ v.link = [w.link EXCEPT !.id = None]
        /\ v.air = [r \in Repeaters |-> IF r = w.link.dest /\ w.air[r] \in Ids THEN Lost
                                        ELSE w.air[r]]
    BY <1>2 DEF Rejected
  <2> HIDE DEF v
  <2>2. Typed(v) /\ v.link.id = None
    <3>1. v.link \in Link /\ v.link.id = None
      BY <2>1 DEF Sound, Typed, Link
    <3>2. v.air \in [Repeaters -> Ids \cup {None, Lost}]
      BY <2>1 DEF Sound, Typed
    <3> QED
      BY <3>1, <3>2 DEF Typed
  <2>3. Attached(p, v.link) /\ OwnStream(v.link)
    BY <2>1, <2>2 DEF Sound, Typed, Link, Attached, OwnStream
  <2>4. \A r \in Repeaters : v.air[r] \notin Ids
    BY <2>1, NamesApart DEF Sound, Typed, InStep
  <2> QED
    BY <2>2, <2>3, <2>4 DEF Sound, InStep, Flows, v
<1> QED
  BY <1>1, <1>2

(* A dongle that turns to another repeater leaves the first one without an *)
(* end.                                                                    *)
LEMMA HeadedSound ==
    ASSUME NEW p \in {"DExtra", "DPlus", "DCS"}, NEW w, Sound(p, w),
           NEW to, w.link.dongle => to \in Repeaters \cup {None}
    PROVE  /\ Sound(p, Headed(w, to))
           /\ Headed(w, to).link.id = w.link.id /\ Headed(w, to).link.state = w.link.state
           /\ Headed(w, to).link.dir = w.link.dir /\ Headed(w, to).link.peer = w.link.peer
           /\ Headed(w, to).link.target = w.link.target
           /\ Headed(w, to).link.dest \in Repeaters \cup {None}
<1> DEFINE v == Headed(w, to)
<1>1. CASE ~w.link.dongle \/ w.link.dest = to
  BY <1>1 DEF Headed, Sound, Typed, Link
<1>2. CASE w.link.dongle /\ w.link.dest # to
  <2>1. /\ v.link = [w.link EXCEPT !.dest = to]
        /\ v.air = [r \in Repeaters |-> IF r = w.link.dest /\ w.link.id # None THEN Lost ELSE w.air[r]]
    BY <1>2 DEF Headed
  <2> HIDE DEF v
  <2>2. Typed(v)
    BY <1>2, <2>1 DEF Sound, Typed, Link
  <2>3. /\ v.link.id = w.link.id /\ v.link.header = w.link.header /\ v.link.dir = w.link.dir
        /\ v.link.dongle /\ v.link.peer = w.link.peer /\ v.link.target = w.link.target
        /\ v.link.dest = to /\ to \in Repeaters \cup {None} /\ v.link.state = w.link.state
    BY <1>2, <2>1 DEF Sound, Typed, Link
  <2>4. Attached(p, v.link) /\ OwnStream(v.link)
    BY <1>2, <2>3 DEF Sound, Attached, OwnStream
  <2>5. \A r \in Repeaters : v.air[r] \notin Ids
    BY <1>2, <2>1, NamesApart DEF Sound, Typed, InStep, Flows
  <2>6. InStep(p, v)
    BY <2>3, <2>5 DEF InStep
  <2> QED
    BY <2>2, <2>3, <2>4, <2>6 DEF Sound, v
<1> QED
  BY <1>1, <1>2

(* A header that concerns the link came from its other end. *)
LEMMA ConcernsOwn ==
    ASSUME NEW p, NEW w, Sound(p, w), NEW id \in Ids, NEW to \in Named(id),
           w.link.peer = Peer(id), Concerns(w.link, to)
    PROVE  /\ w.link.dongle => to \in Repeaters \cup {None}
           /\ IF w.link.dir = "out" THEN Source(id) = w.link.target ELSE Source(id) = w.link.peer
<1>1. Source(id) \in Targets \cup Callers
  BY DEF Ids, Source
<1>2. Reflectors \cap Callers = {}
  BY LinkStreamsAssumption
<1>3. w.link.dir \in {"in", "out"} /\ w.link.dongle \in BOOLEAN
  BY DEF Sound, Typed, Link
<1>4. CASE Source(id) \in Callers
  <2>1. Peer(id) = Source(id) /\ to \in Repeaters \cup {None}
    BY <1>4 DEF Peer, Named
  <2>2. w.link.dir = "in"
    BY <1>2, <1>3, <1>4, <2>1 DEF Sound, Attached
  <2> QED
    BY <2>1, <2>2
<1>5. CASE Source(id) \notin Callers
  <2>1. Peer(id) = Source(id)[1] /\ to = Source(id) /\ Source(id)[1] \in Reflectors
    BY <1>1, <1>5 DEF Peer, Named, Targets
  <2>2. w.link.dir = "out"
    BY <1>2, <1>3, <2>1 DEF Sound, Attached
  <2>3. ~w.link.dongle
    BY <2>2 DEF Sound, Attached
  <2> QED
    BY <1>3, <2>1, <2>2, <2>3 DEF Concerns
<1> QED
  BY <1>4, <1>5

LEMMA WithHeaderSound ==
    ASSUME NEW p \in {"DExtra", "DPlus", "DCS"}, p = protocol, NEW w, Sound(p, w), NEW id \in Ids,
           NEW to \in Named(id), NEW listed \in BOOLEAN, w.link.peer = Peer(id)
    PROVE  Sound(p, WithHeader(w, id, to, listed))
<1>1. CASE listed \/ w.link.state # "linked" \/ ~Concerns(w.link, to)
  BY <1>1, RejectedSound DEF WithHeader
<1>2. CASE ~listed /\ w.link.state = "linked" /\ Concerns(w.link, to)
  <2> DEFINE h == Headed(w, to)
  <2>1. WithHeader(w, id, to, listed) =
           IF h.link.id # None \/ h.link.dest = None THEN h ELSE Begun(h, id)
    BY <1>2 DEF WithHeader
  <2>2. /\ w.link.dongle => to \in Repeaters \cup {None}
        /\ IF w.link.dir = "out" THEN Source(id) = w.link.target ELSE Source(id) = w.link.peer
    BY <1>2, ConcernsOwn
  <2>3. /\ Sound(p, h) /\ h.link.state = "linked" /\ h.link.dest \in Repeaters \cup {None}
        /\ IF h.link.dir = "out" THEN Source(id) = h.link.target ELSE Source(id) = h.link.peer
    BY <1>2, <2>2, HeadedSound
  <2> HIDE DEF h
  <2>4. h.link.id = None /\ h.link.dest # None => Sound(p, Begun(h, id))
    BY <2>3, BegunSound
  <2> QED
    BY <2>1, <2>3, <2>4
<1> QED
  BY <1>1, <1>2

(* Voice of the stream starts its timer again; its end ends it. *)
LEMMA WithVoiceSound ==
    ASSUME NEW p \in {"DExtra", "DPlus", "DCS"}, p = protocol, NEW w, Sound(p, w), NEW id \in Ids,
           NEW kind \in Kinds
    PROVE  Sound(p, WithVoice(w, id, kind))
<1> DEFINE v == WithVoice(w, id, kind)
<1>1. CASE ~OfStream(w.link, id)
  BY <1>1 DEF WithVoice
<1>2. CASE /\ OfStream(w.link, id)
           /\ kind \notin {"end", "first and end"}
  <2>1. v = [w EXCEPT !.link.running = TRUE]
    BY <1>2 DEF WithVoice
  <2>2. v.link = [w.link EXCEPT !.running = TRUE] /\ v.air = w.air
    BY <2>1 DEF Typed
  <2> HIDE DEF v
  <2>3. Typed(v)
    BY <2>2 DEF Sound, Typed, Link
  <2>4. /\ v.link.id = w.link.id /\ v.link.header = w.link.header /\ v.link.dir = w.link.dir
        /\ v.link.dongle = w.link.dongle /\ v.link.peer = w.link.peer /\ v.link.target = w.link.target
        /\ v.link.dest = w.link.dest /\ v.link.state = w.link.state
    BY <2>2 DEF Sound, Typed, Link
  <2> QED
    BY <2>2, <2>3, <2>4 DEF Sound, Attached, OwnStream, InStep, Flows, v
<1>3. CASE /\ OfStream(w.link, id)
           /\ kind \in {"end", "first and end"}
  <2>1. /\ v.link = [w.link EXCEPT !.id = None, !.header = None, !.running = FALSE]
        /\ v.air = [w.air EXCEPT ![w.link.dest] = None]
    BY <1>3 DEF WithVoice
  <2> HIDE DEF v
  <2>2. Typed(v) /\ v.link.id = None
    BY <2>1, ZenonT(40) DEF Sound, Typed, Link
  <2>3. Attached(p, v.link) /\ OwnStream(v.link)
    BY <2>1, <2>2 DEF Sound, Typed, Link, Attached, OwnStream
  <2>4. \A r \in Repeaters : v.air[r] \notin Ids
    BY <2>1, NamesApart DEF Sound, Typed, InStep
  <2> QED
    BY <2>2, <2>3, <2>4 DEF Sound, InStep, Flows, v
<1> QED
  BY <1>1, <1>2, <1>3

LEMMA WithBothSound ==
    ASSUME NEW p \in {"DExtra", "DPlus", "DCS"}, p = protocol, NEW w, Sound(p, w), NEW id \in Ids,
           NEW kind \in Kinds, NEW to \in Named(id), NEW listed \in BOOLEAN, w.link.peer = Peer(id),
           p = "DCS"
    PROVE  Sound(p, WithBoth(w, id, kind, to, listed))
<1>1. CASE listed \/ w.link.state # "linked" \/ ~Concerns(w.link, to)
  BY <1>1, RejectedSound DEF WithBoth
<1>2. CASE ~listed /\ w.link.state = "linked" /\ Concerns(w.link, to)
  <2> DEFINE b == IF w.link.id = None /\ kind \in {"first", "first and end"} THEN Begun(w, id) ELSE w
  <2>1. WithBoth(w, id, kind, to, listed) = WithVoice(b, id, kind)
    BY <1>2 DEF WithBoth
  <2>2. IF w.link.dir = "out" THEN Source(id) = w.link.target ELSE Source(id) = w.link.peer
    BY <1>2, ConcernsOwn
  <2>3. w.link.dest \in Repeaters
    BY DEF Sound, Attached
  <2>4. Sound(p, b)
    BY <1>2, <2>2, <2>3, BegunSound
  <2> HIDE DEF b
  <2> QED
    BY <2>1, <2>4, WithVoiceSound
<1> QED
  BY <1>1, <1>2

---------------------------------------------------------------------------
(* Steps.  Whatever a step does not touch stays sound. *)

LEMMA PairFields ==
    ASSUME Inv, NEW i \in Slots
    PROVE  /\ Pair(i).link = slot[i] /\ \A r \in Repeaters : Pair(i).air[r] = air[r][i]
           /\ Pair(i).air \in [Repeaters -> Ids \cup {None, Lost}]
  BY DEF Inv, LinkStreamsTypeOK, Pair

LEMMA SameSlotSound ==
    ASSUME Inv, NEW i \in Slots, protocol' = protocol, slot'[i] = slot[i],
           \A r \in Repeaters : air'[r][i] = air[r][i]
    PROVE  SlotSound(i)'
<1>1. SlotSound(i)
  BY DEF Inv
<1>2. Pair(i)' = Pair(i)
  BY DEF Pair
<1> QED
  BY <1>1, <1>2 DEF SlotSound

\* Nobody is in the middle of a stream of this slot, and none is to go on.
Quiet(p, link) == Attached(p, link) /\ OwnStream(link) /\ ~Flows(p, link)

LEMMA QuietSlotSound ==
    ASSUME NEW i \in Slots, slot'[i] \in Link \cup {Free},
           slot'[i] # Free => Quiet(protocol', slot'[i]),
           \A r \in Repeaters : air'[r][i] \in {None, Lost}
    PROVE  SlotSound(i)'
<1>1. \A r \in Repeaters : air'[r][i] \notin Ids
  BY NamesApart
<1>2. CASE slot'[i] # Free
  <2>1. Pair(i)'.link = slot'[i] /\ Pair(i)'.air = [r \in Repeaters |-> air'[r][i]]
    BY DEF Pair
  <2>2. Typed(Pair(i)')
    BY <1>2, <2>1 DEF Typed
  <2>3. InStep(protocol', Pair(i)')
    BY <1>1, <1>2, <2>1 DEF InStep, Quiet
  <2> QED
    BY <1>2, <2>1, <2>2, <2>3 DEF SlotSound, Sound, Quiet
<1> QED
  BY <1>1, <1>2 DEF SlotSound

(* A new link starts without a stream. *)
LEMMA EnterSound ==
    ASSUME Inv, NEW i, NEW link \in Link, Attached(protocol, link), link.id = None, Enter(i, link),
           UNCHANGED <<protocol, silent, crashed>>
    PROVE  Inv'
<1>1. LinkStreamsTypeOK'
  BY DEF Inv, LinkStreamsTypeOK, Enter
<1>2. ASSUME NEW j \in Slots PROVE SlotSound(j)'
  <2>1. CASE j # i
    <3>1. slot'[j] = slot[j] /\ \A r \in Repeaters : air'[r][j] = air[r][j]
      BY <2>1 DEF Inv, LinkStreamsTypeOK, Enter
    <3> QED
      BY <3>1, SameSlotSound
  <2>2. CASE j = i
    <3>1. slot'[j] = link /\ \A r \in Repeaters : air'[r][j] = None
      BY <2>2 DEF Inv, LinkStreamsTypeOK, Enter
    <3>2. Quiet(protocol', slot'[j])
      BY <3>1 DEF Quiet, OwnStream, Flows
    <3> QED
      BY <3>1, <3>2, QuietSlotSound
  <2> QED
    BY <2>1, <2>2
<1> QED
  BY <1>1, <1>2 DEF Inv

(* The streams of some slots stop: whoever hears one is given its end or   *)
(* what it has is Lost.                                                    *)
LEMMA StopSound ==
    ASSUME Inv, NEW S, S \subseteq Slots, air' = Cut(S) \/ air' = Eot(S),
           slot' = [i \in Slots |-> slot'[i]], UNCHANGED <<protocol, silent, crashed>>,
           \A i \in S : slot[i] # Free,
           \A i \in Slots \ S : slot'[i] = slot[i],
           \A i \in S : slot'[i] = Free \/ (slot'[i] \in Link /\ Quiet(protocol, slot'[i]))
    PROVE  Inv'
<1>1. air' \in [Repeaters -> [Slots -> Ids \cup {None, Lost}]]
  BY DEF Inv, LinkStreamsTypeOK, Cut, Eot
<1>2. slot' \in [Slots -> Link \cup {Free}]
  BY DEF Inv, LinkStreamsTypeOK
<1>3. ASSUME NEW j \in Slots \ S PROVE SlotSound(j)'
  <2>1. \A r \in Repeaters : air'[r][j] = air[r][j]
    BY <1>3 DEF Cut, Eot
  <2> QED
    BY <1>3, <2>1, SameSlotSound
<1>4. ASSUME NEW j \in S PROVE SlotSound(j)'
  <2>1. \A r \in Repeaters : air[r][j] \in Ids => slot[j].dest = r /\ slot[j].id # None
    BY <1>4, PairFields DEF Inv, SlotSound, Sound, InStep, Flows
  <2>2. \A r \in Repeaters : air'[r][j] \in {None, Lost}
    BY <1>4, <2>1 DEF Inv, LinkStreamsTypeOK, Cut, Eot
  <2>3. slot'[j] \in Link \cup {Free} /\ (slot'[j] # Free => Quiet(protocol', slot'[j]))
    BY <1>4
  <2> QED
    BY <1>4, <2>2, <2>3, QuietSlotSound
<1>5. \A j \in Slots : SlotSound(j)'
  BY <1>3, <1>4
<1>6. LinkStreamsTypeOK'
  BY <1>1, <1>2 DEF Inv, LinkStreamsTypeOK
<1> QED
  BY <1>5, <1>6 DEF Inv

(* One of them *)
LEMMA StopOneSound ==
    ASSUME Inv, NEW i \in Slots, slot[i] # Free, NEW link \in Link, Quiet(protocol, link),
           slot' = [slot EXCEPT ![i] = link], air' = Cut({i}), UNCHANGED <<protocol, silent, crashed>>
    PROVE  Inv'
<1> DEFINE S == {i}
<1>1. /\ slot' = [j \in Slots |-> slot'[j]] /\ \A j \in Slots \ S : slot'[j] = slot[j]
      /\ slot'[i] = link
  BY DEF Inv, LinkStreamsTypeOK
<1>2. \A j \in S : slot'[j] = link /\ slot[j] # Free
  BY <1>1
<1>3. S \subseteq Slots /\ air' = Cut(S)
  OBVIOUS
<1> HIDE DEF S
<1> QED
  BY <1>1, <1>2, <1>3, StopSound

(* A datagram changes the pairs of the slots it reaches. *)
LEMMA DatagramSound ==
    ASSUME Inv, NEW after, DOMAIN after \subseteq Slots, Datagram(after),
           \A i \in DOMAIN after : slot[i] # Free /\ Sound(protocol, after[i])
    PROVE  Inv'
<1>1. \A i \in DOMAIN after : /\ after[i].link \in Link
                              /\ after[i].air \in [Repeaters -> Ids \cup {None, Lost}]
  BY DEF Sound, Typed
<1>2. LinkStreamsTypeOK'
  <2>1. air' \in [Repeaters -> [Slots -> Ids \cup {None, Lost}]]
    BY <1>1 DEF Inv, LinkStreamsTypeOK, Datagram
  <2>2. slot' \in [Slots -> Link \cup {Free}]
    BY <1>1 DEF Inv, LinkStreamsTypeOK, Datagram
  <2> QED
    BY <2>1, <2>2 DEF Inv, LinkStreamsTypeOK, Datagram
<1>3. ASSUME NEW j \in Slots PROVE SlotSound(j)'
  <2>1. CASE j \notin DOMAIN after
    <3>1. slot'[j] = slot[j] /\ protocol' = protocol /\ \A r \in Repeaters : air'[r][j] = air[r][j]
      BY <2>1 DEF Datagram
    <3> QED
      BY <3>1, SameSlotSound
  <2>2. CASE j \in DOMAIN after
    <3>1. slot'[j] = after[j].link /\ \A r \in Repeaters : air'[r][j] = after[j].air[r]
      BY <2>2 DEF Datagram
    <3>2. /\ Pair(j)'.link = after[j].link
          /\ Pair(j)'.air = after[j].air
      BY <1>1, <2>2, <3>1 DEF Pair
    <3>3. Sound(protocol, Pair(j)')
      BY <2>2, <3>2 DEF Sound, Typed, InStep
    <3>4. protocol' = protocol /\ slot'[j] # Free
      BY <1>1, <2>2, <3>1, NamesApart DEF Datagram
    <3> QED
      BY <3>3, <3>4 DEF SlotSound
  <2> QED
    BY <2>1, <2>2
<1> QED
  BY <1>2, <1>3 DEF Inv

---------------------------------------------------------------------------
(* The actions *)

LEMMA UsedSound ==
    ASSUME Inv, NEW i \in Used
    PROVE  /\ i \in Slots /\ slot[i] \in Link /\ slot[i] # Free
           /\ Sound(protocol, Pair(i)) /\ Pair(i).link = slot[i]
           /\ Attached(protocol, slot[i]) /\ OwnStream(slot[i])
<1>1. i \in Slots /\ slot[i] \in Link /\ slot[i] # Free
  BY DEF Inv, LinkStreamsTypeOK, Used
<1>2. Pair(i).link = slot[i] /\ Sound(protocol, Pair(i))
  BY <1>1 DEF Inv, SlotSound, Pair
<1> QED
  BY <1>1, <1>2 DEF Sound

LEMMA LinkToSound ==
    ASSUME Inv, NEW r \in Repeaters, NEW m \in Targets, LinkTo(r, m)
    PROVE  Inv'
<1> PICK i \in FirstFree : Enter(i, [NewLink EXCEPT !.peer = m[1], !.target = m, !.dest = r, !.port = i])
  BY DEF LinkTo
<1> DEFINE link == [NewLink EXCEPT !.peer = m[1], !.target = m, !.dest = r, !.port = i]
<1>1. i \in Slots
  BY MinInSlots DEF FirstFree, Used
<1>2. m[1] \in Reflectors /\ i \in Ports /\ Incoming \in Ports
  BY <1>1 DEF Targets, Ports
<1>3. link \in Link /\ Attached(protocol, link) /\ link.id = None
  BY <1>2 DEF NewLink, Link, Attached
<1> HIDE DEF link
<1>4. Enter(i, link)
  BY DEF link
<1> QED
  BY <1>3, <1>4, EnterSound DEF LinkTo

LEMMA RelinkSound ==
    ASSUME Inv, NEW r \in Repeaters, NEW m \in Targets, Relink(r, m)
    PROVE  Inv'
<1> PICK i \in OutgoingOf(r) : /\ slot[i].peer = m[1]
                              /\ slot' = [slot EXCEPT ![i] = Relinked(@, m)] /\ air' = Cut({i})
  BY DEF Relink
<1>1. i \in Used /\ slot[i].dir = "out"
  BY DEF OutgoingOf
<1>2. i \in Slots /\ slot[i] \in Link /\ slot[i] # Free /\ Attached(protocol, slot[i])
  BY <1>1, UsedSound
<1> DEFINE link == Relinked(slot[i], m)
<1>3. link = [slot[i] EXCEPT !.target = m, !.id = None]
  BY DEF Relinked
<1> HIDE DEF link
<1>4. link \in Link /\ link.id = None
  BY <1>2, <1>3 DEF Link
<1>5. Attached(protocol, link)
  BY <1>1, <1>2, <1>3 DEF Link, Attached
<1>6. Quiet(protocol, link)
  BY <1>4, <1>5 DEF Quiet, OwnStream, Flows
<1>7. slot' = [slot EXCEPT ![i] = link]
  BY <1>2 DEF link, Inv, LinkStreamsTypeOK
<1> QED
  BY <1>2, <1>4, <1>6, <1>7, StopOneSound DEF Relink

LEMMA UnlinkSound ==
    ASSUME Inv, NEW r \in Repeaters, NEW m \in Targets, NEW exclude \in BOOLEAN, Unlink(r, m, exclude)
    PROVE  Inv'
<1> DEFINE S == {i \in Used : /\ slot[i].dest = r
                             /\ IF exclude THEN slot[i].dir = "out" /\ slot[i].target # m
                                ELSE slot[i].target = m}
<1>1. /\ air' = Eot(S) /\ UNCHANGED <<protocol, silent, crashed>>
      /\ IF protocol = "DCS"
         THEN slot' = [i \in Slots |-> IF i \in S THEN [slot[i] EXCEPT !.state = "unlinking"] ELSE slot[i]]
         ELSE Vacate(S)
  BY DEF Unlink
<1>2. S \subseteq Used /\ S \subseteq Slots
  BY DEF Used
<1> HIDE DEF S
<1>3. \A i \in S : slot[i] # Free /\ slot[i] \in Link /\ Attached(protocol, slot[i]) /\ OwnStream(slot[i])
  BY <1>2, UsedSound
<1>4. slot' = [i \in Slots |-> slot'[i]] /\ \A i \in Slots \ S : slot'[i] = slot[i]
  BY <1>1 DEF Vacate
<1>5. ASSUME NEW i \in S PROVE slot'[i] = Free \/ (slot'[i] \in Link /\ Quiet(protocol, slot'[i]))
  <2>1. CASE protocol # "DCS"
    BY <1>1, <1>2, <1>5, <2>1 DEF Vacate
  <2>2. CASE protocol = "DCS"
    <3>1. slot'[i] = [slot[i] EXCEPT !.state = "unlinking"]
      BY <1>1, <1>2, <1>5, <2>2
    <3>2. slot'[i] \in Link /\ slot'[i].state = "unlinking"
      BY <1>3, <1>5, <3>1 DEF Link
    <3>3. Attached(protocol, slot'[i]) /\ OwnStream(slot'[i])
      BY <1>3, <1>5, <3>1 DEF Link, Attached, OwnStream
    <3> QED
      BY <2>2, <3>2, <3>3 DEF Quiet, Flows
  <2> QED
    BY <2>1, <2>2
<1> QED
  BY <1>1, <1>2, <1>3, <1>4, <1>5, StopSound

LEMMA GoesSound ==
    ASSUME Inv, NEW S, S \subseteq Used, Goes(S)
    PROVE  Inv'
<1>1. S \subseteq Slots /\ \A i \in S : slot[i] # Free
  BY DEF Used
<1>2. /\ slot' = [i \in Slots |-> slot'[i]] /\ \A i \in Slots \ S : slot'[i] = slot[i]
      /\ \A i \in S : slot'[i] = Free
  BY <1>1 DEF Goes, Vacate
<1> QED
  BY <1>1, <1>2, StopSound DEF Goes

LEMMA PollsStopSound ==
    ASSUME Inv, NEW i \in Slots, PollsStop(i)
    PROVE  Inv'
<1>1. CASE Goes({i})
  BY <1>1, GoesSound DEF PollsStop
<1>2. CASE /\ slot[i].dir = "out"
           /\ slot' = [slot EXCEPT ![i] = GivenUp(@)] /\ air' = Cut({i})
           /\ UNCHANGED <<protocol, silent, crashed>>
  <2>1. slot[i] \in Link /\ slot[i] # Free /\ Attached(protocol, slot[i])
    BY UsedSound DEF PollsStop
  <2> DEFINE link == GivenUp(slot[i])
  <2>2. link = [slot[i] EXCEPT !.id = None, !.header = None, !.state = "linking"]
    BY DEF GivenUp
  <2>3. slot' = [slot EXCEPT ![i] = link]
    BY <1>2 DEF Inv, LinkStreamsTypeOK
  <2> HIDE DEF link
  <2>4. link \in Link /\ link.id = None
    BY <2>1, <2>2 DEF Link
  <2>5. Attached(protocol, link)
    BY <2>1, <2>2 DEF Link, Attached
  <2>6. Quiet(protocol, link)
    BY <2>4, <2>5 DEF Quiet, OwnStream, Flows
  <2> QED
    BY <1>2, <2>1, <2>3, <2>4, <2>6, StopOneSound
<1> QED
  BY <1>1, <1>2 DEF PollsStop

LEMMA InactiveSound ==
    ASSUME Inv, NEW i \in Slots, Inactive(i)
    PROVE  Inv'
<1>1. slot[i] \in Link /\ slot[i] # Free /\ Attached(protocol, slot[i])
  BY UsedSound DEF Inactive
<1> DEFINE link == [slot[i] EXCEPT !.id = None, !.header = None, !.running = FALSE]
<1>2. slot' = [slot EXCEPT ![i] = link]
  BY DEF Inactive, Inv, LinkStreamsTypeOK
<1>3. link \in Link /\ link.id = None /\ Attached(protocol, link)
  BY <1>1 DEF Link, Attached
<1> HIDE DEF link
<1>4. Quiet(protocol, link)
  BY <1>3 DEF Quiet, OwnStream, Flows
<1> QED
  BY <1>1, <1>2, <1>3, <1>4, StopOneSound DEF Inactive

(* A link that comes up has had no stream before. *)
LEMMA LinkedSound ==
    ASSUME Inv, NEW i \in Slots, Linked(i)
    PROVE  Inv'
<1>1. /\ slot[i] \in Link /\ slot[i] # Free /\ Attached(protocol, slot[i]) /\ slot[i].id = None
      /\ Sound(protocol, Pair(i)) /\ Pair(i).link = slot[i]
  BY UsedSound DEF Linked, OwnStream
<1> DEFINE link == [slot[i] EXCEPT !.state = "linked"]
<1>2. slot' = [slot EXCEPT ![i] = link] /\ slot'[i] = link
  BY DEF Linked, Inv, LinkStreamsTypeOK
<1>3. link \in Link /\ link.id = None /\ Attached(protocol, link)
  BY <1>1 DEF Link, Attached
<1> HIDE DEF link
<1>4. Quiet(protocol, link)
  BY <1>3 DEF Quiet, OwnStream, Flows
<1>5. \A r \in Repeaters : air[r][i] \notin Ids
  BY <1>1, PairFields DEF Sound, InStep, Flows
<1>6. \A r \in Repeaters : air'[r][i] \in {None, Lost}
  BY <1>5 DEF Linked, Inv, LinkStreamsTypeOK
<1>7. SlotSound(i)'
  BY <1>2, <1>3, <1>4, <1>6, QuietSlotSound DEF Linked
<1>8. ASSUME NEW j \in Slots, j # i PROVE SlotSound(j)'
  <2>1. slot'[j] = slot[j]
    BY <1>2, <1>8 DEF Inv, LinkStreamsTypeOK
  <2> QED
    BY <2>1, SameSlotSound DEF Linked
<1>9. LinkStreamsTypeOK'
  BY <1>2, <1>3 DEF Linked, Inv, LinkStreamsTypeOK
<1> QED
  BY <1>7, <1>8, <1>9 DEF Inv

LEMMA ConnectsSound ==
    ASSUME Inv, NEW c \in Callers, NEW r \in Repeaters, Connects(c, r)
    PROVE  Inv'
<1> PICK i \in FirstFree : Enter(i, [NewLink EXCEPT !.dir = "in", !.peer = c, !.dest = r])
  BY DEF Connects
<1> DEFINE link == [NewLink EXCEPT !.dir = "in", !.peer = c, !.dest = r]
<1>1. Incoming \in Ports
  BY DEF Ports
<1>2. link \in Link /\ Attached(protocol, link) /\ link.id = None
  BY <1>1 DEF NewLink, Link, Attached
<1> HIDE DEF link
<1>3. Enter(i, link)
  BY DEF link
<1> QED
  BY <1>2, <1>3, EnterSound DEF Connects

LEMMA DongleSound ==
    ASSUME Inv, NEW c \in Callers, DongleComes(c)
    PROVE  Inv'
<1> DEFINE state == IF protocol = "DPlus" THEN "linking" ELSE "linked"
           link  == [NewLink EXCEPT !.dir = "in", !.dongle = TRUE, !.peer = c, !.state = state]
<1> PICK i \in FirstFree : Enter(i, link)
  BY DEF DongleComes
<1>1. Incoming \in Ports /\ state \in {"linking", "linked"} /\ protocol # "DCS"
  BY DEF Ports, DongleComes
<1> HIDE DEF state
<1>2. link \in Link /\ Attached(protocol, link) /\ link.id = None
  BY <1>1 DEF NewLink, Link, Attached
<1> HIDE DEF link
<1> QED
  BY <1>2, EnterSound DEF DongleComes

(* The slots a datagram reaches are links with the peer it came from. *)
LEMMA ReachedSound ==
    ASSUME Inv, NEW peer, NEW port, NEW i \in Reached(peer, port)
    PROVE  /\ i \in Slots /\ slot[i] # Free /\ Sound(protocol, Pair(i))
           /\ Pair(i).link = slot[i] /\ slot[i].peer = peer
<1> DEFINE S == {j \in Used : Matches(slot[j], peer, port)}
<1>1. S \subseteq Slots
  BY DEF Used
<1>2. i \in S
  BY <1>1, MinInSlots DEF Reached
<1> QED
  BY <1>2, UsedSound DEF Matches

LEMMA HeaderFromSound ==
    ASSUME Inv, NEW id \in Ids, NEW port \in Ports, NEW to \in Named(id), NEW listed \in BOOLEAN,
           HeaderFrom(Peer(id), port, id, to, listed)
    PROVE  Inv'
<1> DEFINE after == [i \in Reached(Peer(id), port) |-> WithHeader(Pair(i), id, to, listed)]
<1>1. Datagram(after)
  BY DEF HeaderFrom
<1>2. protocol \in {"DExtra", "DPlus", "DCS"}
  BY LinkStreamsAssumption DEF Inv, LinkStreamsTypeOK
<1>3. ASSUME NEW i \in Reached(Peer(id), port) PROVE Sound(protocol, WithHeader(Pair(i), id, to, listed))
  BY <1>2, <1>3, ReachedSound, WithHeaderSound
<1>4. DOMAIN after \subseteq Slots /\ \A i \in DOMAIN after : slot[i] # Free /\ Sound(protocol, after[i])
  BY <1>3, ReachedSound
<1> HIDE DEF after
<1> QED
  BY <1>1, <1>4, DatagramSound

LEMMA VoiceFromSound ==
    ASSUME Inv, NEW id \in Ids, NEW port \in Ports, NEW kind \in Kinds, VoiceFrom(Peer(id), port, id, kind)
    PROVE  Inv'
<1> DEFINE after == [i \in Reached(Peer(id), port) |-> WithVoice(Pair(i), id, kind)]
<1>1. Datagram(after)
  BY DEF VoiceFrom
<1>2. protocol \in {"DExtra", "DPlus", "DCS"}
  BY LinkStreamsAssumption DEF Inv, LinkStreamsTypeOK
<1>3. ASSUME NEW i \in Reached(Peer(id), port) PROVE Sound(protocol, WithVoice(Pair(i), id, kind))
  BY <1>2, <1>3, ReachedSound, WithVoiceSound
<1>4. DOMAIN after \subseteq Slots /\ \A i \in DOMAIN after : slot[i] # Free /\ Sound(protocol, after[i])
  BY <1>3, ReachedSound
<1> HIDE DEF after
<1> QED
  BY <1>1, <1>4, DatagramSound

LEMMA DCSFrameFromSound ==
    ASSUME Inv, NEW id \in Ids, NEW port \in Ports, NEW kind \in Kinds, NEW to \in Named(id),
           NEW listed \in BOOLEAN, DCSFrameFrom(Peer(id), port, id, kind, to, listed)
    PROVE  Inv'
<1> DEFINE after == [i \in Reached(Peer(id), port) |-> WithBoth(Pair(i), id, kind, to, listed)]
<1>1. Datagram(after) /\ protocol = "DCS"
  BY DEF DCSFrameFrom
<1>2. ASSUME NEW i \in Reached(Peer(id), port) PROVE Sound(protocol, WithBoth(Pair(i), id, kind, to, listed))
  BY <1>1, <1>2, ReachedSound, WithBothSound
<1>3. DOMAIN after \subseteq Slots /\ \A i \in DOMAIN after : slot[i] # Free /\ Sound(protocol, after[i])
  BY <1>2, ReachedSound
<1> HIDE DEF after
<1> QED
  BY <1>1, <1>3, DatagramSound

LEMMA StutterSound ==
    ASSUME Inv, UNCHANGED <<protocol, slot, air>>, silent' \in BOOLEAN, crashed' \in BOOLEAN
    PROVE  Inv'
<1>1. \A i \in Slots : SlotSound(i)'
  BY SameSlotSound
<1>2. LinkStreamsTypeOK'
  BY DEF Inv, LinkStreamsTypeOK
<1> QED
  BY <1>1, <1>2 DEF Inv

LEMMA ComesSound ==
    ASSUME Inv, Comes
    PROVE  Inv'
<1> PICK id \in Ids, port \in Ports :
        \/ \E to \in Named(id), listed \in BOOLEAN :
               \/ HeaderFrom(Peer(id), port, id, to, listed)
               \/ \E kind \in Kinds : DCSFrameFrom(Peer(id), port, id, kind, to, listed)
        \/ \E kind \in Kinds : VoiceFrom(Peer(id), port, id, kind)
        \/ VoiceFromNowhere(Peer(id), port, id)
  BY DEF Comes
<1>1. CASE \E to \in Named(id), listed \in BOOLEAN : HeaderFrom(Peer(id), port, id, to, listed)
  BY <1>1, HeaderFromSound
<1>2. CASE \E to \in Named(id), listed \in BOOLEAN, kind \in Kinds :
               DCSFrameFrom(Peer(id), port, id, kind, to, listed)
  BY <1>2, DCSFrameFromSound
<1>3. CASE \E kind \in Kinds : VoiceFrom(Peer(id), port, id, kind)
  BY <1>3, VoiceFromSound
<1>4. CASE VoiceFromNowhere(Peer(id), port, id)
  BY <1>4, StutterSound DEF VoiceFromNowhere, Inv, LinkStreamsTypeOK
<1> QED
  BY <1>1, <1>2, <1>3, <1>4

LEMMA InitSound == LinkStreamsInit => Inv
<1> SUFFICES ASSUME LinkStreamsInit PROVE Inv
  OBVIOUS
<1>1. LinkStreamsTypeOK
  BY DEF LinkStreamsInit, LinkStreamsTypeOK
<1>2. \A i \in Slots : SlotSound(i)
  BY NamesApart DEF LinkStreamsInit, SlotSound
<1> QED
  BY <1>1, <1>2 DEF Inv

LEMMA StepSound ==
    ASSUME Inv, [LinkStreamsNext]_streamVars
    PROVE  Inv'
<1>1. CASE UNCHANGED streamVars
  BY <1>1, StutterSound DEF streamVars, Inv, LinkStreamsTypeOK
<1>2. ASSUME NEW r \in Repeaters, NEW m \in Targets, LinkTo(r, m) PROVE Inv'
  BY <1>2, LinkToSound
<1>3. ASSUME NEW r \in Repeaters, NEW m \in Targets, Relink(r, m) PROVE Inv'
  BY <1>3, RelinkSound
<1>4. ASSUME NEW r \in Repeaters, NEW m \in Targets, NEW exclude \in BOOLEAN, Unlink(r, m, exclude) PROVE Inv'
  BY <1>4, UnlinkSound
<1>5. ASSUME NEW i \in Slots, PeerUnlinks(i) PROVE Inv'
  BY <1>5, GoesSound DEF PeerUnlinks
<1>6. ASSUME NEW i \in Slots, PollsStop(i) PROVE Inv'
  BY <1>6, PollsStopSound
<1>7. ASSUME NEW i \in Slots, Linked(i) PROVE Inv'
  BY <1>7, LinkedSound
<1>8. ASSUME NEW i \in Slots, Inactive(i) PROVE Inv'
  BY <1>8, InactiveSound
<1>9. ASSUME NEW p \in Reflectors, PeerUnknown(p) PROVE Inv'
  BY <1>9, GoesSound DEF PeerUnknown
<1>10. ASSUME NEW c \in Callers, DongleComes(c) PROVE Inv'
  BY <1>10, DongleSound
<1>11. ASSUME NEW c \in Callers, NEW r \in Repeaters, Connects(c, r) PROVE Inv'
  BY <1>11, ConnectsSound
<1>12. CASE FallsSilent
  BY <1>12, StutterSound DEF FallsSilent, Inv, LinkStreamsTypeOK
<1> QED
  BY <1>1, <1>2, <1>3, <1>4, <1>5, <1>6, <1>7, <1>8, <1>9, <1>10, <1>11, <1>12, ComesSound
  DEF LinkStreamsNext, Step

---------------------------------------------------------------------------
(* Slots, links and streams keep their types. *)
THEOREM LinkStreamsTypeCorrect == LinkStreamsSpec => []LinkStreamsTypeOK
<1>1. Inv => LinkStreamsTypeOK
  BY DEF Inv
<1> QED
  BY InitSound, StepSound, <1>1, PTL DEF LinkStreamsSpec

LEMMA InvIsWhole == Inv => WholeStreams
<1> SUFFICES ASSUME Inv PROVE WholeStreams
  OBVIOUS
<1>1. ASSUME NEW i \in Slots, slot[i] # Free
      PROVE  /\ Sound(protocol, Pair(i)) /\ Pair(i).link = slot[i]
             /\ \A r \in Repeaters : Pair(i).air[r] = air[r][i]
  BY <1>1, UsedSound, PairFields DEF Used
<1>2. HeardFromTheStart
  BY <1>1 DEF HeardFromTheStart, Carries, OfDongle, Sound, OwnStream, InStep, Flows
<1>3. EndedByUnlink
  BY <1>1 DEF Inv, SlotSound, EndedByUnlink, Carries, Sound, InStep, Flows
<1>4. FromWhereLinked
  BY <1>1 DEF FromWhereLinked, Used, Sound, OwnStream
<1> QED
  BY <1>2, <1>3, <1>4 DEF WholeStreams

(* Whoever hears voice from a link was given its header, a stream heard is *)
(* one the slot passes on, and it comes from where the link leads: under   *)
(* every order of frames, connects, relinks, unlinks, lists and timers.    *)
THEOREM StreamsAreWhole == LinkStreamsSpec => []WholeStreams
BY InitSound, StepSound, InvIsWhole, PTL DEF LinkStreamsSpec
=============================================================================

------------------------- MODULE LinkStatusProofs -------------------------
(***************************************************************************)
(* What one repeater's commands and one reflector's answers may change.    *)
(*                                                                         *)
(* Moves(w, v, r, t) bounds the change from w to v when repeater r is told *)
(* something that may take it to t: the statuses and the slots of the      *)
(* others stay.  It is transitive, so it follows the calls of the code     *)
(* from the bottom up and gives Isolation and FixedStaysHome.              *)
(* Acks(w, v) bounds what an acknowledgement changes: OnlyAnAckLinks.      *)
(* SoundFor(w, r) is the inductive form of LinksMatchStatus and            *)
(* DExtraLinkedIsReal: a repeater has at most one DExtra and one D-Plus    *)
(* link, of the protocol and to the reflector its status names.            *)
(***************************************************************************)
EXTENDS LinkProtocolProofs

(* The slots repeater r may change: the empty ones and its own. *)
Own(r) == {Free} \cup {h \in Handler : h.dest = r}

Moves(w, v, r, t) ==
    /\ \A o \in Repeaters \ {r} : v.link[o] = w.link[o]
    /\ v.link[r].target \in {w.link[r].target, NoTarget, t}
    /\ v.link[r].phase = "linked" => w.link[r].phase = "linked"
    /\ \A p \in Protocols, i \in Slots :
          v.slots[p][i] = w.slots[p][i] \/ {v.slots[p][i], w.slots[p][i]} \subseteq Own(r)

LEMMA MovesTrans ==
    ASSUME NEW w, NEW u, NEW v, NEW r, NEW t, Moves(w, u, r, t), Moves(u, v, r, t)
    PROVE  Moves(w, v, r, t)
BY DEF Moves

LEMMA MovesChain ==
    ASSUME NEW r, NEW t, NEW w0, NEW w1, NEW w2, NEW w3, NEW w4, NEW w5,
           Moves(w0, w1, r, t), Moves(w1, w2, r, t), Moves(w2, w3, r, t),
           Moves(w3, w4, r, t), Moves(w4, w5, r, t)
    PROVE  Moves(w0, w5, r, t)
<1>1. Moves(w0, w2, r, t) /\ Moves(w2, w4, r, t)
  BY MovesTrans
<1>. QED BY <1>1, MovesTrans

LEMMA MovesWider ==
    ASSUME NEW w, NEW v, NEW r, NEW t, Moves(w, v, r, NoTarget)
    PROVE  Moves(w, v, r, t)
BY DEF Moves

LEMMA MovesNot ==
    ASSUME NEW w, NEW v, v.link = w.link, v.slots = w.slots, NEW r, NEW t
    PROVE  Moves(w, v, r, t)
BY DEF Moves

LEMMA MovesOwn ==
    ASSUME NEW w, NEW v, NEW r, NEW t, Moves(w, v, r, t), NEW p \in Protocols, NEW i \in Slots,
           w.slots[p][i] \in Own(r)
    PROVE  v.slots[p][i] \in Own(r)
BY DEF Moves

LEMMA StatusMoves ==
    ASSUME NEW w, NEW v, NEW r \in Repeaters, NEW t, v.slots = w.slots,
           \A o \in Repeaters \ {r} : v.link[o] = w.link[o],
           v.link[r].target \in {w.link[r].target, NoTarget, t},
           v.link[r].phase = "linked" => w.link[r].phase = "linked"
    PROVE  Moves(w, v, r, t)
BY DEF Moves

LEMMA SetSlotMoves ==
    ASSUME NEW w \in World, NEW r \in Repeaters, NEW t, NEW p \in Protocols, NEW i \in Slots,
           w.slots[p][i] \in Own(r), NEW h \in Own(r)
    PROVE  SetSlot(w, p, i, h) \in World /\ Moves(w, SetSlot(w, p, i, h), r, t)
<1> DEFINE v == SetSlot(w, p, i, h)
<1>1. h \in Handler \cup {Free, Incoming}
  BY DEF Own
<1>2. /\ v \in World /\ v.link = w.link /\ v.slots[p][i] = h
      /\ \A q \in Protocols, j \in Slots : q # p \/ j # i => v.slots[q][j] = w.slots[q][j]
  BY <1>1, SetSlotType
<1> HIDE DEF v
<1>3. Moves(w, v, r, t)
  BY <1>2 DEF Moves
<1>. QED BY <1>2, <1>3 DEF v

LEMMA SendMoves ==
    ASSUME NEW w \in World, NEW r \in Repeaters, NEW t, NEW p \in Protocols, NEW h \in Handler,
           NEW kind \in {"LINK1", "LINK2", "UNLINK"}
    PROVE  Send(w, p, kind, h) \in World /\ Moves(w, Send(w, p, kind, h), r, t)
BY SendType, MovesNot

(* What SetLink and the flags change. *)
LEMMA SetLinkShape ==
    ASSUME NEW w \in World, NEW r \in Repeaters, NEW phase, NEW via, NEW t
    PROVE  /\ SetLink(w, r, phase, via, t).slots = w.slots
           /\ \A o \in Repeaters \ {r} : SetLink(w, r, phase, via, t).link[o] = w.link[o]
           /\ SetLink(w, r, phase, via, t).link[r].phase = phase
           /\ SetLink(w, r, phase, via, t).link[r].via = via
           /\ SetLink(w, r, phase, via, t).link[r].target = t
           /\ SetLink(w, r, phase, via, t).link[r].relink = w.link[r].relink
BY DEF World, LinkState, SetLink

LEMMA FlagShape ==
    ASSUME NEW w \in World, NEW r \in Repeaters, NEW b
    PROVE  /\ [w EXCEPT !.link[r].query = b].slots = w.slots
           /\ \A o \in Repeaters \ {r} : [w EXCEPT !.link[r].query = b].link[o] = w.link[o]
           /\ [w EXCEPT !.link[r].query = b].link[r].phase = w.link[r].phase
           /\ [w EXCEPT !.link[r].query = b].link[r].via = w.link[r].via
           /\ [w EXCEPT !.link[r].query = b].link[r].target = w.link[r].target
           /\ [w EXCEPT !.link[r].query = b].link[r].relink = w.link[r].relink
           /\ [w EXCEPT !.link[r].relink = b].slots = w.slots
           /\ \A o \in Repeaters \ {r} : [w EXCEPT !.link[r].relink = b].link[o] = w.link[o]
           /\ [w EXCEPT !.link[r].relink = b].link[r].phase = w.link[r].phase
           /\ [w EXCEPT !.link[r].relink = b].link[r].target = w.link[r].target
           /\ [w EXCEPT !.link[r].relink = b].link[r].via = w.link[r].via
BY DEF World, LinkState

LEMMA SetLinkMoves ==
    ASSUME NEW w \in World, NEW r \in Repeaters, NEW phase \in Phases \ {"linked"},
           NEW via, NEW t
    PROVE  Moves(w, SetLink(w, r, phase, via, t), r, t)
<1> DEFINE v == SetLink(w, r, phase, via, t)
<1>1. /\ v.slots = w.slots /\ \A o \in Repeaters \ {r} : v.link[o] = w.link[o]
      /\ v.link[r].phase = phase /\ v.link[r].target = t
  BY SetLinkShape
<1> HIDE DEF v
<1>2. Moves(w, v, r, t)
  BY <1>1, StatusMoves
<1>. QED BY <1>2 DEF v

LEMMA FlagMoves ==
    ASSUME NEW w \in World, NEW r \in Repeaters, NEW b, NEW t
    PROVE  /\ Moves(w, [w EXCEPT !.link[r].query = b], r, t)
           /\ Moves(w, [w EXCEPT !.link[r].relink = b], r, t)
<1> DEFINE v == [w EXCEPT !.link[r].query = b]
           u == [w EXCEPT !.link[r].relink = b]
<1>1. /\ v.slots = w.slots /\ \A o \in Repeaters \ {r} : v.link[o] = w.link[o]
      /\ v.link[r].phase = w.link[r].phase /\ v.link[r].target = w.link[r].target
  BY FlagShape
<1>2. /\ u.slots = w.slots /\ \A o \in Repeaters \ {r} : u.link[o] = w.link[o]
      /\ u.link[r].phase = w.link[r].phase /\ u.link[r].target = w.link[r].target
  BY FlagShape
<1> HIDE DEF u, v
<1>3. Moves(w, v, r, t) /\ Moves(w, u, r, t)
  BY <1>1, <1>2, StatusMoves
<1>. QED BY <1>3 DEF u, v

LEMMA ClearLinkMoves ==
    ASSUME NEW w \in World, NEW r \in Repeaters
    PROVE  ClearLink(w, r) \in World /\ Moves(w, ClearLink(w, r), r, NoTarget)
BY ClearLinkType, SetLinkMoves DEF ClearLink, Phases

(* A handler's link either changes nothing or takes a free slot. *)
LEMMA HandlerLinkShape ==
    ASSUME NEW w \in World, NEW p \in Protocols, NEW r \in Repeaters, NEW t \in Targets
    PROVE  \/ HandlerLink(w, p, r, t) = w
           \/ \E i \in Slots, h \in Handler :
                 /\ w.slots[p][i] = Free
                 /\ h.dest = r /\ h.ref = t /\ h.state = "LINKING"
                 /\ HandlerLink(w, p, r, t) = Send(SetSlot(w, p, i, h), p, "LINK1", h)
<1> DEFINE idle == {i \in Slots : w.slots[p][i] = Free}
           h == [dest |-> r, ref |-> t, state |-> "LINKING", trying |-> TRUE,
                 port |-> Min(Ports \ PortsInUse(w, p))]
           busy == p = "DCS" /\ \E i \in LinksOf(w, p, r) : w.slots[p][i].state # "UNLINKING"
<1>1. CASE busy \/ idle = {}
  BY <1>1 DEF HandlerLink
<1>2. CASE ~(busy \/ idle = {})
  <2>1. Min(idle) \in idle
    BY <1>2, MinOfSlots DEF Slots
  <2>2. Min(Ports \ PortsInUse(w, p)) \in Ports
    BY <1>2, PortToSpare, MinOfSlots DEF Ports
  <2>3. h \in Handler /\ h.dest = r /\ h.ref = t /\ h.state = "LINKING"
    BY <2>2 DEF Handler
  <2>4. HandlerLink(w, p, r, t) = Send(SetSlot(w, p, Min(idle), h), p, "LINK1", h)
    BY <1>2 DEF HandlerLink
  <2>5. Min(idle) \in Slots /\ w.slots[p][Min(idle)] = Free
    BY <2>1
  <2> HIDE DEF h, idle
  <2>. QED BY <2>3, <2>4, <2>5
<1>. QED BY <1>1, <1>2

LEMMA HandlerLinkMoves ==
    ASSUME NEW w \in World, NEW p \in Protocols, NEW r \in Repeaters, NEW t \in Targets, NEW u
    PROVE  HandlerLink(w, p, r, t) \in World /\ Moves(w, HandlerLink(w, p, r, t), r, u)
<1>1. HandlerLink(w, p, r, t) \in World
  BY HandlerLinkType
<1>2. CASE HandlerLink(w, p, r, t) = w
  BY <1>1, <1>2, MovesNot
<1>3. CASE HandlerLink(w, p, r, t) # w
  <2>1. PICK i \in Slots, h \in Handler :
                 /\ w.slots[p][i] = Free /\ h.dest = r
                 /\ HandlerLink(w, p, r, t) = Send(SetSlot(w, p, i, h), p, "LINK1", h)
    BY <1>3, HandlerLinkShape
  <2>2. SetSlot(w, p, i, h) \in World /\ Moves(w, SetSlot(w, p, i, h), r, u)
    BY <2>1, SetSlotMoves DEF Own
  <2>3. Moves(SetSlot(w, p, i, h), Send(SetSlot(w, p, i, h), p, "LINK1", h), r, u)
    BY <2>2, SendMoves
  <2>. QED BY <1>1, <2>1, <2>2, <2>3, MovesTrans
<1>. QED BY <1>2, <1>3

LEMMA LinkIntMoves ==
    ASSUME NEW w \in World, NEW r \in Repeaters, NEW t \in Targets \cup {NoTarget}
    PROVE  LinkInt(w, r, t) \in World /\ Moves(w, LinkInt(w, r, t), r, t)
<1>0. LinkInt(w, r, t) \in World
  BY LinkIntType
<1>1. CASE t \in Reserved \ Known
  BY <1>0, <1>1, MovesNot DEF LinkInt
<1>2. CASE t \in Known
  <2> DEFINE v == SetLink(w, r, "linking", ViaOf[t], t)
  <2>1. t \in Targets /\ ViaOf[t] \in Vias /\ ViaOf[t] # "-" /\ TableOf(ViaOf[t]) \in Protocols
    BY <1>2, LinkAssumption DEF Vias, Protocols, TableOf
  <2>2. v \in World /\ Moves(w, v, r, t) /\ Moves(w, SetLink(w, r, "none", "-", t), r, t)
    BY <2>1, SetLinkType, SetLinkMoves DEF Phases
  <2>3. LinkInt(w, r, t) \in {HandlerLink(v, TableOf(ViaOf[t]), r, t), SetLink(w, r, "none", "-", t)}
    BY <1>2 DEF LinkInt
  <2> HIDE DEF v
  <2>4. Moves(v, HandlerLink(v, TableOf(ViaOf[t]), r, t), r, t)
    BY <2>1, <2>2, HandlerLinkMoves
  <2>5. Moves(w, HandlerLink(v, TableOf(ViaOf[t]), r, t), r, t)
    BY <2>2, <2>4, MovesTrans
  <2>. QED BY <1>0, <2>2, <2>3, <2>5
<1>3. CASE t \notin Known /\ t \notin Reserved
  <2> DEFINE v == SetLink(w, r, "pending", "-", t)
  <2>1. v \in World /\ Moves(w, v, r, t) /\ Moves(w, SetLink(w, r, "none", "-", t), r, t)
    BY SetLinkType, SetLinkMoves DEF Phases
  <2>2. LinkInt(w, r, t) \in {[v EXCEPT !.link[r].query = TRUE], SetLink(w, r, "none", "-", t)}
    BY <1>3 DEF LinkInt
  <2> HIDE DEF v
  <2>3. Moves(w, [v EXCEPT !.link[r].query = TRUE], r, t)
    BY <2>1, FlagMoves, MovesTrans
  <2>. QED BY <1>0, <2>1, <2>2, <2>3
<1>. QED BY <1>1, <1>2, <1>3

LEMMA CallbacksMove ==
    ASSUME NEW w \in World, NEW r \in Repeaters, NEW t \in Targets
    PROVE  /\ LinkLost(w, r, t) \in World /\ Moves(w, LinkLost(w, r, t), r, NoTarget)
           /\ LinkRefused(w, r, t) \in World /\ Moves(w, LinkRefused(w, r, t), r, NoTarget)
           /\ w.link[r].phase \in {"linking", "linked"} =>
                 LinkRetry(w, r) \in World /\ Moves(w, LinkRetry(w, r), r, NoTarget)
<1>1. LinkLost(w, r, t) \in World /\ LinkRefused(w, r, t) \in World
  BY LinkLostType, LinkRefusedType
<1>2. Moves(w, LinkLost(w, r, t), r, NoTarget)
  <2> DEFINE u == [w EXCEPT !.link[r].relink = FALSE]
             s == w.link[r].target
  <2>1. CASE w.link[r].relink
    <3>1. s \in Targets \cup {NoTarget} /\ u \in World /\ Moves(w, u, r, NoTarget)
      BY SetFlagType, FlagMoves DEF World, LinkState
    <3>2. u.link[r].target = s
      BY FlagShape
    <3>3. LinkLost(w, r, t) = LinkInt(u, r, s)
      BY <2>1 DEF LinkLost
    <3> HIDE DEF u, s
    <3>4. Moves(u, LinkInt(u, r, s), r, s)
      BY <3>1, LinkIntMoves
    <3>5. Moves(u, LinkInt(u, r, s), r, NoTarget)
      BY <3>2, <3>4 DEF Moves
    <3>. QED BY <3>1, <3>3, <3>5, MovesTrans
  <2>2. CASE ~w.link[r].relink
    <3>1. LinkLost(w, r, t) \in {w, ClearLink(w, r)}
      BY <2>2 DEF LinkLost
    <3>. QED BY <3>1, ClearLinkMoves, MovesNot
  <2>. QED BY <2>1, <2>2
<1>3. Moves(w, LinkRefused(w, r, t), r, NoTarget)
  BY ClearLinkMoves, MovesNot DEF LinkRefused
<1>4. ASSUME w.link[r].phase \in {"linking", "linked"}
      PROVE  LinkRetry(w, r) \in World /\ Moves(w, LinkRetry(w, r), r, NoTarget)
  <2>1. LinkRetry(w, r) = SetLink(w, r, "linking", w.link[r].via, w.link[r].target)
    BY DEF LinkRetry, SetLink, World, LinkState
  <2>2. Moves(w, LinkRetry(w, r), r, w.link[r].target)
    BY <2>1, SetLinkMoves DEF Phases
  <2>3. Moves(w, LinkRetry(w, r), r, NoTarget)
    BY <2>2 DEF Moves
  <2>. QED BY <1>4, <2>3, LinkRetryType
<1>. QED BY <1>1, <1>2, <1>3, <1>4

(* A link, once let go, moves only the repeater it belongs to. *)
LEMMA OwnHandler ==
    ASSUME NEW w \in World, NEW p \in Protocols, NEW i \in Outgoing(w, p)
    PROVE  /\ i \in Slots /\ w.slots[p][i] \in Handler /\ w.slots[p][i] \in Own(w.slots[p][i].dest)
           /\ w.slots[p][i].dest \in Repeaters /\ w.slots[p][i].ref \in Targets
BY OutgoingHandler DEF Own

LEMMA FreeSlotMoves ==
    ASSUME NEW w \in World, NEW r \in Repeaters, NEW t, NEW p \in Protocols, NEW i \in Slots,
           w.slots[p][i] \in Own(r)
    PROVE  FreeSlot(w, p, i) \in World /\ Moves(w, FreeSlot(w, p, i), r, t)
<1>1. Free \in Own(r)
  BY DEF Own
<1>. QED BY <1>1, SetSlotMoves DEF FreeSlot

LEMMA OwnChanges ==
    ASSUME NEW r, NEW h \in Handler, h.dest = r, NEW b \in BOOLEAN,
           NEW s \in {"LINKING", "LINKED", "UNLINKING"}
    PROVE  /\ [h EXCEPT !.state = s] \in Own(r) /\ [h EXCEPT !.trying = b] \in Own(r)
           /\ [h EXCEPT !.state = s, !.trying = b] \in Own(r)
<1>1. /\ [h EXCEPT !.state = s] \in Handler /\ [h EXCEPT !.trying = b] \in Handler
      /\ [h EXCEPT !.state = s, !.trying = b] \in Handler
  BY HandlerChanges
<1>2. \A k \in Handler : k.dest = r => k \in Own(r)
  BY DEF Own
<1>. QED BY <1>1, <1>2 DEF Handler

LEMMA DropMoves ==
    ASSUME NEW w \in World, NEW p \in Protocols, NEW i \in Outgoing(w, p)
    PROVE  Moves(w, Drop(w, p, i), w.slots[p][i].dest, NoTarget)
<1> DEFINE h == w.slots[p][i]
           r == h.dest
<1>1. i \in Slots /\ h \in Handler /\ h \in Own(r) /\ r \in Repeaters /\ h.ref \in Targets
  BY OwnHandler
<1>2. CASE p = "DEXTRA"
  <2> DEFINE v == SetSlot(w, p, i, [h EXCEPT !.state = "UNLINKING"])
             u == Send(v, p, "UNLINK", h)
             x == LinkLost(u, r, h.ref)
  <2>1. v \in World /\ Moves(w, v, r, NoTarget)
    BY <1>1, OwnChanges, SetSlotMoves
  <2>2. Drop(w, p, i) = FreeSlot(x, p, i)
    BY <1>2 DEF Drop, DExtraDrop
  <2>3. h = w.slots[p][i]
    OBVIOUS
  <2> HIDE DEF h, v
  <2>4. u \in World /\ Moves(v, u, r, NoTarget)
    BY <1>1, <2>1, SendMoves
  <2> HIDE DEF u
  <2>5. x \in World /\ Moves(u, x, r, NoTarget)
    BY <1>1, <2>4, CallbacksMove
  <2> HIDE DEF x, r
  <2>6. Moves(w, x, r, NoTarget)
    BY <2>1, <2>4, <2>5, MovesTrans
  <2>7. x.slots[p][i] \in Own(r)
    BY <1>1, <2>3, <2>6, MovesOwn
  <2>8. Moves(x, FreeSlot(x, p, i), r, NoTarget)
    BY <1>1, <2>5, <2>7, FreeSlotMoves
  <2>9. Moves(w, Drop(w, p, i), r, NoTarget)
    BY <2>2, <2>6, <2>8, MovesTrans
  <2>. QED BY <2>9, SMTT(40) DEF r, h
<1>3. CASE p = "DPLUS"
  <2> DEFINE u == Send(w, p, "UNLINK", h)
  <2>1. u \in World /\ Moves(w, u, r, NoTarget) /\ u.slots = w.slots
    BY <1>1, SendMoves, SendType
  <2>2. Drop(w, p, i) = FreeSlot(u, p, i)
    BY <1>3 DEF Drop, DPlusDrop
  <2> HIDE DEF u
  <2>3. Moves(u, FreeSlot(u, p, i), r, NoTarget)
    BY <1>1, <2>1, FreeSlotMoves
  <2>. QED BY <2>1, <2>2, <2>3, MovesTrans
<1>4. CASE p = "DCS"
  <2> DEFINE v == SetSlot(w, p, i, [h EXCEPT !.state = "UNLINKING", !.trying = TRUE])
  <2>1. v \in World /\ Moves(w, v, r, NoTarget)
    BY <1>1, OwnChanges, SetSlotMoves
  <2>2. Drop(w, p, i) \in {w, Send(v, p, "UNLINK", h)}
    BY <1>4 DEF Drop, DCSDrop
  <2> HIDE DEF v
  <2>3. Moves(v, Send(v, p, "UNLINK", h), r, NoTarget)
    BY <1>1, <2>1, SendMoves
  <2>4. Moves(w, Send(v, p, "UNLINK", h), r, NoTarget)
    BY <2>1, <2>3, MovesTrans
  <2>. QED BY <1>1, <2>2, <2>4, MovesNot, SMTT(40)
<1>. QED BY <1>2, <1>3, <1>4 DEF Protocols

LEMMA UnlinkMoves ==
    ASSUME NEW w \in World, NEW p \in Protocols, NEW r \in Repeaters, NEW t
    PROVE  /\ Moves(w, UnlinkExcept(w, p, r, t), r, NoTarget)
           /\ Moves(w, UnlinkOnly(w, p, r, t), r, NoTarget)
<1>1. \A u \in World : \A i :
          /\ DropOther(u, p, r, t, i) \in World /\ Moves(u, DropOther(u, p, r, t, i), r, NoTarget)
          /\ DropThat(u, p, r, t, i) \in World /\ Moves(u, DropThat(u, p, r, t, i), r, NoTarget)
  <2> SUFFICES ASSUME NEW u \in World, NEW i
               PROVE  /\ DropOther(u, p, r, t, i) \in World
                      /\ Moves(u, DropOther(u, p, r, t, i), r, NoTarget)
                      /\ DropThat(u, p, r, t, i) \in World
                      /\ Moves(u, DropThat(u, p, r, t, i), r, NoTarget)
    OBVIOUS
  <2>1. i \in LinksOf(u, p, r) => Drop(u, p, i) \in World /\ Moves(u, Drop(u, p, i), r, NoTarget)
    BY DropType, DropMoves DEF LinksOf
  <2>2. Moves(u, u, r, NoTarget)
    BY MovesNot
  <2>. QED BY <2>1, <2>2 DEF DropOther, DropThat
<1>2. Moves(w, UnlinkExcept(w, p, r, t), r, NoTarget)
  <2> DEFINE w1 == DropOther(w, p, r, t, 1)   w2 == DropOther(w1, p, r, t, 2)
             w3 == DropOther(w2, p, r, t, 3)  w4 == DropOther(w3, p, r, t, 4)
             w5 == DropOther(w4, p, r, t, 5)
  <2>1. UnlinkExcept(w, p, r, t) = w5
    BY DEF UnlinkExcept, ForEachSlot
  <2>2. w1 \in World /\ w2 \in World /\ w3 \in World /\ w4 \in World
    BY <1>1
  <2>3. /\ Moves(w, w1, r, NoTarget) /\ Moves(w1, w2, r, NoTarget) /\ Moves(w2, w3, r, NoTarget)
        /\ Moves(w3, w4, r, NoTarget) /\ Moves(w4, w5, r, NoTarget)
    BY <1>1, <2>2
  <2> HIDE DEF w1, w2, w3, w4, w5
  <2>. QED BY <2>1, <2>3, MovesChain
<1>3. Moves(w, UnlinkOnly(w, p, r, t), r, NoTarget)
  <2> DEFINE w1 == DropThat(w, p, r, t, 1)   w2 == DropThat(w1, p, r, t, 2)
             w3 == DropThat(w2, p, r, t, 3)  w4 == DropThat(w3, p, r, t, 4)
             w5 == DropThat(w4, p, r, t, 5)
  <2>1. UnlinkOnly(w, p, r, t) = w5
    BY DEF UnlinkOnly, ForEachSlot
  <2>2. w1 \in World /\ w2 \in World /\ w3 \in World /\ w4 \in World
    BY <1>1
  <2>3. /\ Moves(w, w1, r, NoTarget) /\ Moves(w1, w2, r, NoTarget) /\ Moves(w2, w3, r, NoTarget)
        /\ Moves(w3, w4, r, NoTarget) /\ Moves(w4, w5, r, NoTarget)
    BY <1>1, <2>2
  <2> HIDE DEF w1, w2, w3, w4, w5
  <2>. QED BY <2>1, <2>3, MovesChain
<1>. QED BY <1>2, <1>3

LEMMA UnlinkAllMoves ==
    ASSUME NEW w \in World, NEW r \in Repeaters
    PROVE  UnlinkAll(w, r) \in World /\ Moves(w, UnlinkAll(w, r), r, NoTarget)
<1> DEFINE u == UnlinkExcept(w, "DEXTRA", r, NoTarget)
           v == UnlinkExcept(u, "DPLUS", r, NoTarget)
           x == UnlinkExcept(v, "DCS", r, NoTarget)
<1>1. UnlinkAll(w, r) = x
  BY DEF UnlinkAll
<1>2. "DEXTRA" \in Protocols /\ "DPLUS" \in Protocols /\ "DCS" \in Protocols
  BY DEF Protocols
<1>3. u \in World /\ Moves(w, u, r, NoTarget)
  BY <1>2, UnlinkType, UnlinkMoves
<1> HIDE DEF u
<1>4. v \in World /\ Moves(u, v, r, NoTarget)
  BY <1>2, <1>3, UnlinkType, UnlinkMoves
<1> HIDE DEF v
<1>5. x \in World /\ Moves(v, x, r, NoTarget)
  BY <1>2, <1>4, UnlinkType, UnlinkMoves
<1> HIDE DEF x
<1>. QED BY <1>1, <1>3, <1>4, <1>5, MovesTrans

---------------------------------------------------------------------------
(* Commands *)

LEMMA DPlusRelinkMoves ==
    ASSUME NEW w \in World, NEW r \in Repeaters, NEW t \in Targets
    PROVE  Moves(w, DPlusRelink(w, r, t), r, t)
<1> DEFINE mine == LinksOf(w, "DPLUS", r)
           i == Min(mine)
           h == [w.slots["DPLUS"][i] EXCEPT !.ref = t]
<1>1. CASE mine = {}
  BY <1>1, MovesNot DEF DPlusRelink
<1>2. CASE mine # {}
  <2>1. "DPLUS" \in Protocols /\ i \in mine
    BY <1>2, MinOfSlots DEF LinksOf, Outgoing, Slots, Protocols
  <2>2. i \in Slots /\ w.slots["DPLUS"][i] \in Handler /\ w.slots["DPLUS"][i].dest = r
    BY <2>1, OutgoingHandler DEF LinksOf
  <2>3. h \in Own(r) /\ w.slots["DPLUS"][i] \in Own(r)
    BY <2>2 DEF Handler, Own
  <2>4. DPlusRelink(w, r, t) = SetSlot(w, "DPLUS", i, h)
    BY <1>2 DEF DPlusRelink, SetSlot
  <2> HIDE DEF i, h
  <2>. QED BY <2>1, <2>2, <2>3, <2>4, SetSlotMoves
<1>. QED BY <1>1, <1>2

LEMMA SetTargetMoves ==
    ASSUME NEW w \in World, NEW r \in Repeaters, NEW t \in Targets
    PROVE  /\ [w EXCEPT !.link[r].target = t] \in World
           /\ Moves(w, [w EXCEPT !.link[r].target = t], r, t)
<1> DEFINE v == [w EXCEPT !.link[r].target = t]
<1>1. v \in World
  BY SetTargetType
<1>2. /\ v.slots = w.slots /\ \A o \in Repeaters \ {r} : v.link[o] = w.link[o]
      /\ v.link[r].target = t /\ v.link[r].phase = w.link[r].phase
  BY DEF World, LinkState
<1> HIDE DEF v
<1>3. Moves(w, v, r, t)
  BY <1>2, StatusMoves
<1>. QED BY <1>1, <1>3 DEF v

LEMMA ChangeModuleMoves ==
    ASSUME NEW w \in World, NEW r \in Repeaters, NEW t \in Targets, w.link[r].phase # "none"
    PROVE  Moves(w, ChangeModule(w, r, t), r, t)
<1> DEFINE l == w.link[r]
           u == [w EXCEPT !.link[r].relink = TRUE]
           new == [w EXCEPT !.link[r].relink = TRUE, !.link[r].target = t]
           v == [w EXCEPT !.link[r].target = t]
<1>1. l \in LinkState
  BY DEF World
<1>2. CASE l.phase = "pending"
  <2>1. l.via = "-"
    BY <1>1, <1>2 DEF LinkState
  <2>. QED BY <1>2, <2>1, MovesNot DEF ChangeModule
<1>3. CASE l.phase # "pending" /\ l.via = "DPLUS"
  <2>1. v \in World /\ Moves(w, v, r, t)
    BY SetTargetMoves
  <2>2. ChangeModule(w, r, t) = DPlusRelink(v, r, t)
    BY <1>3 DEF ChangeModule
  <2> HIDE DEF v
  <2>. QED BY <2>1, <2>2, DPlusRelinkMoves, MovesTrans
<1>4. CASE l.phase # "pending" /\ l.via # "DPLUS"
  <2> DEFINE p == TableOf(l.via)
             x == UnlinkExcept(new, p, r, t)
  <2>1. l.via \in Vias /\ l.via # "-" /\ p \in Protocols
    BY <1>1, <1>4 DEF LinkState, Phases, Vias, Protocols, TableOf
  <2>2. u \in World /\ Moves(w, u, r, t) /\ new = [u EXCEPT !.link[r].target = t]
    BY SetFlagType, FlagMoves
  <2>3. ChangeModule(w, r, t) = SetLink(x, r, "linking", l.via, t)
    BY <1>4 DEF ChangeModule
  <2> HIDE DEF u, new, p, l
  <2>4. new \in World /\ Moves(u, new, r, t)
    BY <2>2, SetTargetMoves
  <2>5. x \in World /\ Moves(new, x, r, t)
    BY <2>1, <2>4, UnlinkType, UnlinkMoves, MovesWider
  <2> HIDE DEF x
  <2>6. Moves(x, SetLink(x, r, "linking", l.via, t), r, t)
    BY <2>5, SetLinkMoves DEF Phases
  <2>. QED BY <2>2, <2>3, <2>4, <2>5, <2>6, MovesTrans
<1>. QED BY <1>2, <1>3, <1>4

LEMMA LinkToMoves ==
    ASSUME NEW w \in World, NEW r \in Repeaters, NEW t \in Targets
    PROVE  Moves(w, LinkTo(w, r, t), r, t)
<1>1. CASE SameGateway(w.link[r], t)
  BY <1>1, ChangeModuleMoves DEF LinkTo, SameGateway
<1>2. CASE ~SameGateway(w.link[r], t)
  <2> DEFINE u == UnlinkAll(w, r)
  <2>1. u \in World /\ Moves(w, u, r, t)
    BY UnlinkAllMoves, MovesWider
  <2>2. LinkTo(w, r, t) = LinkInt(u, r, t)
    BY <1>2 DEF LinkTo
  <2> HIDE DEF u
  <2>. QED BY <2>1, <2>2, LinkIntMoves, MovesTrans
<1>. QED BY <1>1, <1>2

LEMMA CommandsMove ==
    ASSUME NEW w \in World, NEW r \in Repeaters
    PROVE  /\ Moves(w, Unlink(w, r), r, NoTarget)
           /\ Moves(w, RfUnlinkEffect(r, w), r, NoTarget)
           /\ \A t \in Targets : Moves(w, RfLinkEffect(r, t, w), r, IF r \in Fixed THEN NoTarget ELSE t)
           /\ Moves(w, StartupInt(w, r), r, Startup[r])
<1>1. ASSUME NEW x \in World PROVE Moves(x, Unlink(x, r), r, NoTarget)
  <2> DEFINE u == UnlinkAll(x, r)
  <2>1. u \in World /\ Moves(x, u, r, NoTarget)
    BY UnlinkAllMoves
  <2>2. Unlink(x, r) = ClearLink(u, r)
    BY DEF Unlink
  <2> HIDE DEF u
  <2>. QED BY <2>1, <2>2, ClearLinkMoves, MovesTrans
<1> DEFINE c == Command(r, w)
<1>2. c \in World /\ \A t : Moves(w, c, r, t)
  BY SetFlagType, FlagMoves, MovesNot DEF Command
<1>3. Moves(w, RfUnlinkEffect(r, w), r, NoTarget)
  <2>1. RfUnlinkEffect(r, w) \in {c, Unlink(c, r)}
    BY DEF RfUnlinkEffect
  <2> HIDE DEF c
  <2>. QED BY <1>1, <1>2, <2>1, MovesTrans
<1>4. ASSUME NEW t \in Targets
      PROVE  Moves(w, RfLinkEffect(r, t, w), r, IF r \in Fixed THEN NoTarget ELSE t)
  <2>1. RfLinkEffect(r, t, w) = c \/ (r \notin Fixed /\ RfLinkEffect(r, t, w) = LinkTo(c, r, t))
    BY DEF RfLinkEffect
  <2> HIDE DEF c
  <2>2. Moves(c, LinkTo(c, r, t), r, t)
    BY <1>2, LinkToMoves
  <2>3. Moves(w, LinkTo(c, r, t), r, t)
    BY <1>2, <2>2, MovesTrans
  <2>. QED BY <1>2, <2>1, <2>3
<1>5. Moves(w, StartupInt(w, r), r, Startup[r])
  <2> DEFINE t == Startup[r]
             v == SetLink(w, r, "pending", "-", t)
  <2>1. t \in Targets \cup {NoTarget}
    BY ControlAssumption
  <2>2. v \in World /\ Moves(w, v, r, t) /\ Moves(w, SetLink(w, r, "none", "-", t), r, t)
    BY <2>1, SetLinkType, SetLinkMoves DEF Phases
  <2>3. StartupInt(w, r) \in {w, LinkInt(w, r, t), [v EXCEPT !.link[r].query = TRUE],
                                SetLink(w, r, "none", "-", t)}
    BY DEF StartupInt
  <2> HIDE DEF v
  <2>4. Moves(w, [v EXCEPT !.link[r].query = TRUE], r, t)
    BY <2>2, FlagMoves, MovesTrans
  <2>5. Moves(w, LinkInt(w, r, t), r, t) /\ Moves(w, w, r, t)
    BY <2>1, LinkIntMoves, MovesNot
  <2> HIDE DEF t
  <2>6. Moves(w, StartupInt(w, r), r, t)
    BY <2>2, <2>3, <2>4, <2>5
  <2>. QED BY <2>6 DEF t
<1>. QED BY <1>1, <1>3, <1>4, <1>5

---------------------------------------------------------------------------
(* The steps of one repeater *)

LEMMA AfterHeaderMoves ==
    ASSUME TypeOK, NEW r \in Repeaters
    PROVE  AfterHeader(r) \in World /\ \A t : Moves(W, AfterHeader(r), r, t)
<1> DEFINE b == IF g2query[r] THEN FALSE ELSE W.link[r].query
<1>1. W \in World /\ W.link[r] \in LinkState
  BY DEF TypeOK, World
<1>2. b \in BOOLEAN
  BY <1>1 DEF LinkState
<1>3. AfterHeader(r) = [W EXCEPT !.link[r].query = b]
  BY <1>1 DEF AfterHeader, World
<1> HIDE DEF b
<1>4. \A c \in BOOLEAN : /\ [W EXCEPT !.link[r].query = c] \in World
                         /\ \A t : Moves(W, [W EXCEPT !.link[r].query = c], r, t)
  BY <1>1, SetFlagType, FlagMoves
<1>. QED BY <1>2, <1>3, <1>4

(* A command moves its own repeater, and a fixed one only home. *)
LEMMA RepeaterStepMoves ==
    ASSUME TypeOK, NEW r \in Repeaters, CommandTo(r) \/ G2Query(r) \/ G2Done(r) \/ Start(r)
    PROVE  \E v \in World : \E t :
              /\ link' = v.link /\ slots' = v.slots /\ Moves(W, v, r, t)
              /\ RemoteModes = {} /\ r \in Fixed => t \in {Startup[r], NoTarget}
<1> DEFINE Goal == \E v \in World : \E t :
              /\ link' = v.link /\ slots' = v.slots /\ Moves(W, v, r, t)
              /\ RemoteModes = {} /\ r \in Fixed => t \in {Startup[r], NoTarget}
<1> SUFFICES Goal
  OBVIOUS
<1>0. /\ W \in World /\ link[r] = W.link[r] /\ link[r] \in LinkState
      /\ Startup[r] \in Targets \cup {NoTarget}
  BY ControlAssumption DEF TypeOK, W, World
<1>1. ASSUME NEW v \in World, Becomes(v), NEW t, Moves(W, v, r, t),
             RemoteModes = {} /\ r \in Fixed => t \in {Startup[r], NoTarget}
      PROVE  Goal
  BY <1>1 DEF Becomes
<1> HIDE DEF Goal
<1>n. ASSUME NEW v \in World, Becomes(v), Moves(W, v, r, NoTarget) PROVE Goal
  <2>1. RemoteModes = {} /\ r \in Fixed => NoTarget \in {Startup[r], NoTarget}
    OBVIOUS
  <2>. QED BY <1>1, <1>n, <2>1
<1>h. ASSUME NEW v \in World, Becomes(v), Moves(W, v, r, Startup[r]) PROVE Goal
  <2>1. RemoteModes = {} /\ r \in Fixed => Startup[r] \in {Startup[r], NoTarget}
    OBVIOUS
  <2>. QED BY <1>1, <1>h, <2>1
<1>2. AfterHeader(r) \in World /\ \A t : Moves(W, AfterHeader(r), r, t)
  BY AfterHeaderMoves
<1>3. CASE RfHeader(r)
  BY <1>n, <1>2, <1>3 DEF RfHeader
<1>4. CASE RfUnlink(r)
  <2>1. PICK w \in {W, AfterHeader(r)} : Becomes(RfUnlinkEffect(r, w))
    BY <1>4 DEF RfUnlink
  <2>2. w \in World /\ Moves(W, w, r, NoTarget)
    BY <1>0, <1>2, MovesNot
  <2>3. RfUnlinkEffect(r, w) \in World /\ Moves(w, RfUnlinkEffect(r, w), r, NoTarget)
    BY <2>2, CommandTypes, CommandsMove
  <2>. QED BY <1>n, <2>1, <2>2, <2>3, MovesTrans
<1>5. ASSUME NEW t \in Targets, RfLink(r, t) PROVE Goal
  <2> DEFINE s == IF r \in Fixed THEN NoTarget ELSE t
  <2>1. PICK w \in {W, AfterHeader(r)} : Becomes(RfLinkEffect(r, t, w))
    BY <1>5 DEF RfLink
  <2>2. w \in World /\ Moves(W, w, r, s)
    BY <1>0, <1>2, MovesNot
  <2>3. RfLinkEffect(r, t, w) \in World /\ Moves(w, RfLinkEffect(r, t, w), r, s)
    BY <2>2, CommandTypes, CommandsMove
  <2>4. r \in Fixed => s = NoTarget
    OBVIOUS
  <2> HIDE DEF s
  <2>. QED BY <1>1, <2>1, <2>2, <2>3, <2>4, MovesTrans
<1>6. ASSUME NEW t \in Targets \cup {NoTarget}, NEW mode \in RemoteModes, RemoteLink(r, t, mode)
      PROVE  Goal
  <2>1. Unlink(W, r) \in World /\ Moves(W, Unlink(W, r), r, t)
    BY <1>0, CommandTypes, CommandsMove, MovesWider
  <2>2. t # NoTarget => LinkTo(W, r, t) \in World /\ Moves(W, LinkTo(W, r, t), r, t)
    BY <1>0, LinkToType, LinkToMoves
  <2>3. Becomes(W) \/ Becomes(Unlink(W, r)) \/ (t # NoTarget /\ Becomes(LinkTo(W, r, t)))
    BY <1>6 DEF RemoteLink
  <2>4. Moves(W, W, r, t) /\ RemoteModes # {}
    BY MovesNot
  <2>. QED BY <1>0, <1>1, <2>1, <2>2, <2>3, <2>4
<1>7. ASSUME NEW p \in Protocols, NEW t \in Targets, RemoteUnlink(r, p, t) PROVE Goal
  <2>1. UnlinkOnly(W, p, r, t) \in World /\ Moves(W, UnlinkOnly(W, p, r, t), r, NoTarget)
    BY <1>0, UnlinkType, UnlinkMoves
  <2>. QED BY <1>n, <1>7, <2>1 DEF RemoteUnlink
<1>8. CASE ReconnectExpires(r)
  <2> DEFINE t == Startup[r]
  <2>1. Unlink(W, r) \in World /\ Moves(W, Unlink(W, r), r, NoTarget) /\ Moves(W, W, r, NoTarget)
    BY <1>0, CommandTypes, CommandsMove, MovesNot
  <2>2. t # NoTarget => LinkTo(W, r, t) \in World /\ Moves(W, LinkTo(W, r, t), r, t)
    BY <1>0, LinkToType, LinkToMoves
  <2>3. Becomes(W) \/ Becomes(Unlink(W, r)) \/ (t # NoTarget /\ Becomes(LinkTo(W, r, t)))
    BY <1>8 DEF ReconnectExpires
  <2>. QED BY <1>0, <1>n, <1>h, <2>1, <2>2, <2>3
<1>9. \A b \in BOOLEAN : /\ [W EXCEPT !.link[r].query = b] \in World
                         /\ Moves(W, [W EXCEPT !.link[r].query = b], r, NoTarget)
  BY <1>0, SetFlagType, FlagMoves
<1>10. CASE G2Query(r) \/ G2Done(r)
  BY <1>n, <1>9, <1>10 DEF G2Query, G2Done
<1> DEFINE q == [W EXCEPT !.link[r].query = FALSE]
<1>11. q \in World /\ Moves(W, q, r, NoTarget) /\ q.link[r].target = link[r].target
  <2>1. q.link[r].target = W.link[r].target
    BY <1>0, FlagShape
  <2>. QED BY <1>0, <1>9, <2>1
<1>12. ClearLink(q, r) \in World /\ Moves(W, ClearLink(q, r), r, NoTarget)
  <2> HIDE DEF q
  <2>. QED BY <1>11, ClearLinkMoves, MovesTrans
<1>13. CASE QueryExpires(r)
  <2>1. Becomes(q) \/ Becomes(ClearLink(q, r))
    BY <1>13 DEF QueryExpires
  <2> HIDE DEF q
  <2>. QED BY <1>n, <1>11, <1>12, <2>1
<1>14. ASSUME NEW found \in BOOLEAN, IrcReply(r, found) PROVE Goal
  <2> DEFINE t == link[r].target
             u == SetLink(q, r, "linking", "DEXTRA", t)
             v == HandlerLink(u, "DEXTRA", r, t)
  <2>1. t \in Targets /\ (Becomes(v) \/ Becomes(ClearLink(q, r)))
    BY <1>0, <1>14 DEF IrcReply, LinkState
  <2> HIDE DEF q, t
  <2>2. u \in World /\ Moves(q, u, r, t)
    BY <1>11, <2>1, SetLinkType, SetLinkMoves DEF Phases, Vias, Protocols
  <2> HIDE DEF u
  <2>3. v \in World /\ Moves(u, v, r, t)
    BY <2>1, <2>2, HandlerLinkMoves DEF Protocols
  <2> HIDE DEF v
  <2>4. Moves(q, v, r, t)
    BY <2>2, <2>3, MovesTrans
  <2>5. Moves(q, v, r, NoTarget)
    BY <1>11, <2>4 DEF Moves, t
  <2>6. Moves(W, v, r, NoTarget)
    BY <1>11, <2>5, MovesTrans
  <2>. QED BY <1>n, <1>12, <2>1, <2>3, <2>6
<1>15. CASE Start(r)
  <2>1. StartupInt(W, r) \in World /\ Moves(W, StartupInt(W, r), r, Startup[r])
    BY <1>0, CommandTypes, CommandsMove
  <2>. QED BY <1>15, <2>1 DEF Start, Goal
<1>. QED
  BY <1>3, <1>4, <1>5, <1>6, <1>7, <1>8, <1>10, <1>13, <1>14, <1>15 DEF CommandTo

---------------------------------------------------------------------------
(* What a reflector, a timer or the cache does moves the repeater of the   *)
(* link it concerns, and takes no repeater anywhere.                       *)

LEMMA FreeAfter ==
    ASSUME NEW w, NEW x \in World, NEW r \in Repeaters, Moves(w, x, r, NoTarget),
           NEW p \in Protocols, NEW i \in Slots, w.slots[p][i] \in Own(r)
    PROVE  FreeSlot(x, p, i) \in World /\ Moves(w, FreeSlot(x, p, i), r, NoTarget)
<1>1. x.slots[p][i] \in Own(r)
  BY MovesOwn
<1>. QED BY <1>1, FreeSlotMoves, MovesTrans

LEMMA AnswerMoves ==
    ASSUME NEW w \in World, NEW p \in Protocols, NEW i \in Outgoing(w, p)
    PROVE  /\ Moves(w, Naked(w, p, i), w.slots[p][i].dest, NoTarget)
           /\ Moves(w, Unlinked(w, p, i), w.slots[p][i].dest, NoTarget)
           /\ Moves(w, Inactive(w, p, i), w.slots[p][i].dest, NoTarget)
<1> DEFINE h == w.slots[p][i]
           r == h.dest
           refused == LinkRefused(w, r, h.ref)
           lost == LinkLost(w, r, h.ref)
           retry == LinkRetry(w, r)
           again == [h EXCEPT !.state = "LINKING", !.trying = TRUE]
<1>1. i \in Slots /\ h \in Handler /\ h \in Own(r) /\ r \in Repeaters /\ h.ref \in Targets
  BY OwnHandler
<1>2. /\ refused \in World /\ Moves(w, refused, r, NoTarget)
      /\ lost \in World /\ Moves(w, lost, r, NoTarget) /\ Moves(w, w, r, NoTarget)
      /\ w.link[r].phase \in {"linking", "linked"} => retry \in World /\ Moves(w, retry, r, NoTarget)
  BY <1>1, CallbacksMove, MovesNot
<1>3. Naked(w, p, i) \in {w, FreeSlot(w, p, i), FreeSlot(refused, p, i), FreeSlot(lost, p, i),
                           Send(FreeSlot(refused, p, i), p, "UNLINK", h)}
  BY DEF Naked
<1>4. Unlinked(w, p, i) \in {FreeSlot(w, p, i), FreeSlot(lost, p, i)}
  BY DEF Unlinked
<1>5. \/ Inactive(w, p, i) = FreeSlot(w, p, i)
      \/ /\ w.link[r].phase \in {"linking", "linked"}
         /\ Inactive(w, p, i) = Send(SetSlot(retry, p, i, again), p, "LINK1", again)
  BY SMTT(40) DEF Inactive, WantsReconnect
<1>6. again \in Handler /\ again \in Own(r) /\ h = w.slots[p][i]
  BY <1>1, HandlerChanges, OwnChanges
<1> HIDE DEF h, refused, lost, retry, again
<1>7. \A u \in {w, refused, lost} :
          FreeSlot(u, p, i) \in World /\ Moves(w, FreeSlot(u, p, i), r, NoTarget)
  BY <1>1, <1>2, <1>6, FreeAfter
<1>8. Moves(w, Send(FreeSlot(refused, p, i), p, "UNLINK", h), r, NoTarget)
  BY <1>1, <1>7, SendMoves, MovesTrans
<1>9. ASSUME w.link[r].phase \in {"linking", "linked"}
      PROVE  Moves(w, Send(SetSlot(retry, p, i, again), p, "LINK1", again), r, NoTarget)
  <2>1. retry.slots[p][i] \in Own(r)
    BY <1>1, <1>2, <1>6, <1>9, MovesOwn
  <2>2. /\ SetSlot(retry, p, i, again) \in World
        /\ Moves(retry, SetSlot(retry, p, i, again), r, NoTarget)
    BY <1>1, <1>2, <1>6, <1>9, <2>1, SetSlotMoves
  <2>3. Moves(SetSlot(retry, p, i, again), Send(SetSlot(retry, p, i, again), p, "LINK1", again), r, NoTarget)
    BY <1>1, <1>6, <2>2, SendMoves
  <2>. QED BY <1>2, <1>9, <2>2, <2>3, MovesTrans
<1>10. /\ Moves(w, Naked(w, p, i), r, NoTarget) /\ Moves(w, Unlinked(w, p, i), r, NoTarget)
       /\ Moves(w, Inactive(w, p, i), r, NoTarget)
  BY <1>2, <1>3, <1>4, <1>5, <1>7, <1>8, <1>9
<1>. QED BY <1>10 DEF h

LEMMA GreetMoves ==
    ASSUME NEW w \in World, NEW m, m.proto = "DPLUS", NEW i, AnswerReaches(w, m, i)
    PROVE  /\ GreetAt(w, m, i) \in World
           /\ Moves(w, GreetAt(w, m, i), w.slots["DPLUS"][i].dest, NoTarget)
<1> DEFINE h == w.slots["DPLUS"][i]
           r == h.dest
           v == SetSlot(w, "DPLUS", i, [h EXCEPT !.trying = FALSE])
<1>1. i \in Outgoing(w, "DPLUS") /\ "DPLUS" \in Protocols
  BY DEF AnswerReaches, Reaches, Protocols
<1>2. i \in Slots /\ h \in Handler /\ h \in Own(r) /\ r \in Repeaters
  BY <1>1, OwnHandler
<1>3. GreetAt(w, m, i) = Send(v, "DPLUS", "LINK2", h)
  BY SMTT(40) DEF GreetAt
<1>4. v \in World /\ Moves(w, v, r, NoTarget)
  BY <1>1, <1>2, OwnChanges, SetSlotMoves
<1> HIDE DEF v
<1>5. Send(v, "DPLUS", "LINK2", h) \in World /\ Moves(v, Send(v, "DPLUS", "LINK2", h), r, NoTarget)
  BY <1>1, <1>2, <1>4, SendMoves
<1>. QED BY <1>3, <1>4, <1>5, MovesTrans

LEMMA GoneMoves ==
    ASSUME NEW w \in World, NEW p \in Protocols, NEW i \in Outgoing(w, p)
    PROVE  /\ FreeSlot(LinkLost(w, w.slots[p][i].dest, w.slots[p][i].ref), p, i) \in World
           /\ Moves(w, FreeSlot(LinkLost(w, w.slots[p][i].dest, w.slots[p][i].ref), p, i),
                    w.slots[p][i].dest, NoTarget)
<1> DEFINE h == w.slots[p][i]
<1>1. i \in Slots /\ h \in Handler /\ h \in Own(h.dest) /\ h.dest \in Repeaters /\ h.ref \in Targets
  BY OwnHandler
<1>2. LinkLost(w, h.dest, h.ref) \in World /\ Moves(w, LinkLost(w, h.dest, h.ref), h.dest, NoTarget)
  BY <1>1, CallbacksMove
<1>. QED BY <1>1, <1>2, FreeAfter

(* No repeater gets linked, or another target. *)
Kept(w, v) ==
    \A r \in Repeaters :
        /\ v.link[r].target \in {w.link[r].target, NoTarget}
        /\ v.link[r].phase = "linked" => w.link[r].phase = "linked"

LEMMA KeptChain ==
    ASSUME NEW w0, NEW w1, NEW w2, NEW w3, NEW w4, NEW w5,
           Kept(w0, w1), Kept(w1, w2), Kept(w2, w3), Kept(w3, w4), Kept(w4, w5)
    PROVE  Kept(w0, w5)
<1>1. Kept(w0, w3)
  BY DEF Kept
<1>. QED BY <1>1 DEF Kept

LEMMA MovesKept ==
    ASSUME NEW w, NEW v, NEW r \in Repeaters, Moves(w, v, r, NoTarget)
    PROVE  Kept(w, v)
BY DEF Moves, Kept

LEMMA KeptNot ==
    ASSUME NEW w, NEW v, v.link = w.link
    PROVE  Kept(w, v)
BY DEF Kept

LEMMA LoopsKeep ==
    ASSUME NEW w \in World
    PROVE  /\ \A m \in Request : Kept(w, NakAll(w, m))
           /\ \A m \in Request : m.proto = "DPLUS" => Kept(w, GreetAll(w, m))
           /\ \A p \in Protocols : \A q, t : Kept(w, Dismiss(w, p, q, t))
           /\ \A p \in Protocols : \A g : Kept(w, GatewayGone(w, p, g))
<1>0. \A u : Kept(u, u)
  BY DEF Kept
<1>1. ASSUME NEW m \in Request PROVE Kept(w, NakAll(w, m))
  <2>1. \A u \in World : \A i : NakAt(u, m, i) \in World /\ Kept(u, NakAt(u, m, i))
    <3> SUFFICES ASSUME NEW u \in World, NEW i, AnswerReaches(u, m, i)
                 PROVE  Naked(u, m.proto, i) \in World /\ Kept(u, Naked(u, m.proto, i))
      BY <1>0 DEF NakAt
    <3>1. m.proto \in Protocols /\ i \in Outgoing(u, m.proto)
      BY DEF AnswerReaches, Reaches, Request
    <3>. QED BY <3>1, AnswerType, AnswerMoves, OwnHandler, MovesKept
  <2> DEFINE w1 == NakAt(w, m, 1)   w2 == NakAt(w1, m, 2)  w3 == NakAt(w2, m, 3)
             w4 == NakAt(w3, m, 4)  w5 == NakAt(w4, m, 5)
  <2>2. NakAll(w, m) = w5
    BY DEF NakAll, ForEachSlot
  <2>3. w1 \in World /\ w2 \in World /\ w3 \in World /\ w4 \in World
    BY <2>1
  <2>4. Kept(w, w1) /\ Kept(w1, w2) /\ Kept(w2, w3) /\ Kept(w3, w4) /\ Kept(w4, w5)
    BY <2>1, <2>3
  <2> HIDE DEF w1, w2, w3, w4, w5
  <2>. QED BY <2>2, <2>4, KeptChain
<1>2. ASSUME NEW m \in Request, m.proto = "DPLUS" PROVE Kept(w, GreetAll(w, m))
  <2>1. \A u \in World : \A i : GreetAt(u, m, i) \in World /\ Kept(u, GreetAt(u, m, i))
    <3> SUFFICES ASSUME NEW u \in World, NEW i
                 PROVE  GreetAt(u, m, i) \in World /\ Kept(u, GreetAt(u, m, i))
      OBVIOUS
    <3>1. CASE ~AnswerReaches(u, m, i)
      BY <1>0, <3>1 DEF GreetAt
    <3>2. CASE AnswerReaches(u, m, i)
      <4>1. i \in Outgoing(u, "DPLUS") /\ "DPLUS" \in Protocols
        BY <1>2, <3>2 DEF AnswerReaches, Reaches, Protocols
      <4>. QED BY <1>2, <3>2, <4>1, GreetMoves, OwnHandler, MovesKept
    <3>. QED BY <3>1, <3>2
  <2> DEFINE w1 == GreetAt(w, m, 1)   w2 == GreetAt(w1, m, 2)  w3 == GreetAt(w2, m, 3)
             w4 == GreetAt(w3, m, 4)  w5 == GreetAt(w4, m, 5)
  <2>2. GreetAll(w, m) = w5
    BY DEF GreetAll, ForEachSlot
  <2>3. w1 \in World /\ w2 \in World /\ w3 \in World /\ w4 \in World
    BY <2>1
  <2>4. Kept(w, w1) /\ Kept(w1, w2) /\ Kept(w2, w3) /\ Kept(w3, w4) /\ Kept(w4, w5)
    BY <2>1, <2>3
  <2> HIDE DEF w1, w2, w3, w4, w5
  <2>. QED BY <2>2, <2>4, KeptChain
<1>3. ASSUME NEW p \in Protocols, NEW q, NEW t PROVE Kept(w, Dismiss(w, p, q, t))
  <2>1. \A u \in World : \A i :
            DismissAt(u, p, q, t, i) \in World /\ Kept(u, DismissAt(u, p, q, t, i))
    <3> SUFFICES ASSUME NEW u \in World, NEW i, i \in Outgoing(u, p)
                 PROVE  Unlinked(u, p, i) \in World /\ Kept(u, Unlinked(u, p, i))
      BY <1>0 DEF DismissAt, Reaches
    <3>. QED BY AnswerType, AnswerMoves, OwnHandler, MovesKept
  <2> DEFINE w1 == DismissAt(w, p, q, t, 1)   w2 == DismissAt(w1, p, q, t, 2)
             w3 == DismissAt(w2, p, q, t, 3)  w4 == DismissAt(w3, p, q, t, 4)
             w5 == DismissAt(w4, p, q, t, 5)
  <2>2. Dismiss(w, p, q, t) = w5
    BY DEF Dismiss, ForEachSlot
  <2>3. w1 \in World /\ w2 \in World /\ w3 \in World /\ w4 \in World
    BY <2>1
  <2>4. Kept(w, w1) /\ Kept(w1, w2) /\ Kept(w2, w3) /\ Kept(w3, w4) /\ Kept(w4, w5)
    BY <2>1, <2>3
  <2> HIDE DEF w1, w2, w3, w4, w5
  <2>. QED BY <2>2, <2>4, KeptChain
<1>4. ASSUME NEW p \in Protocols, NEW g PROVE Kept(w, GatewayGone(w, p, g))
  <2>1. \A u \in World : \A i : GoneAt(u, p, g, i) \in World /\ Kept(u, GoneAt(u, p, g, i))
    <3> SUFFICES ASSUME NEW u \in World, NEW i
                 PROVE  GoneAt(u, p, g, i) \in World /\ Kept(u, GoneAt(u, p, g, i))
      OBVIOUS
    <3>1. GoneAt(u, p, g, i) = u \/ i \in Outgoing(u, p)
      BY DEF GoneAt
    <3>. QED BY <1>0, <3>1, GoneMoves, OwnHandler, MovesKept DEF GoneAt
  <2> DEFINE w1 == GoneAt(w, p, g, 1)   w2 == GoneAt(w1, p, g, 2)  w3 == GoneAt(w2, p, g, 3)
             w4 == GoneAt(w3, p, g, 4)  w5 == GoneAt(w4, p, g, 5)
  <2>2. GatewayGone(w, p, g) = w5
    BY DEF GatewayGone, ForEachSlot
  <2>3. w1 \in World /\ w2 \in World /\ w3 \in World /\ w4 \in World
    BY <2>1
  <2>4. Kept(w, w1) /\ Kept(w1, w2) /\ Kept(w2, w3) /\ Kept(w3, w4) /\ Kept(w4, w5)
    BY <2>1, <2>3
  <2> HIDE DEF w1, w2, w3, w4, w5
  <2>. QED BY <2>2, <2>4, KeptChain
<1>. QED BY <1>1, <1>2, <1>3, <1>4

LEMMA NetworkStepKeeps ==
    ASSUME TypeOK,
           \/ \E m \in wire : Nak(m) \/ Greet(m) \/ Lose(m)
           \/ \E g \in {GatewayOf[t] : t \in Targets} : GatewayRemoved(g)
           \/ \E p \in Protocols, i \in Slots :
                 TryExpires(p, i) \/ PollInactivity(p, i) \/ ReflectorDrops(p, i) \/ IncomingCloses(p, i)
           \/ \E p \in Protocols : IncomingOpens(p)
    PROVE  \E v : link' = v.link /\ Kept(W, v)
<1> DEFINE Goal == \E v : link' = v.link /\ Kept(W, v)
<1> SUFFICES Goal
  OBVIOUS
<1>0. W \in World /\ wire \subseteq Request
  BY DEF TypeOK, W, World
<1>1. ASSUME NEW v, Becomes(v), Kept(W, v) PROVE Goal
  BY <1>1 DEF Becomes
<1>2. ASSUME NEW v, Becomes(v), v.link = W.link PROVE Goal
  BY <1>2, KeptNot DEF Becomes
<1> HIDE DEF Goal
<1>3. ASSUME NEW m \in wire, NEW v \in Delivered(m)
      PROVE  v \in World /\ v.link = W.link /\ m \in Request
  BY <1>0 DEF Delivered, World
<1>4. ASSUME NEW v, Kept(v, W), v.link = W.link, NEW u, Kept(v, u) PROVE Kept(W, u)
  BY <1>4 DEF Kept
<1>5. ASSUME NEW m \in wire, Nak(m) \/ Greet(m) PROVE Goal
  <2>1. PICK v \in Delivered(m) : 
              Becomes(NakAll(v, m)) \/ (m.proto = "DPLUS" /\ Becomes(GreetAll(v, m)))
    BY <1>5 DEF Nak, Greet
  <2>2. v \in World /\ v.link = W.link /\ m \in Request /\ Kept(v, W)
    BY <1>3, KeptNot
  <2>3. Kept(W, NakAll(v, m)) /\ (m.proto = "DPLUS" => Kept(W, GreetAll(v, m)))
    BY <1>4, <2>2, LoopsKeep
  <2>. QED BY <1>1, <2>1, <2>3
<1>6. ASSUME NEW m \in wire, Lose(m) PROVE Goal
  <2>1. [W EXCEPT !.wire = @ \ {m}].link = W.link
    BY <1>0 DEF World
  <2>. QED BY <1>2, <1>6, <2>1 DEF Lose
<1>7. ASSUME NEW g, GatewayRemoved(g) PROVE Goal
  <2> DEFINE u == GatewayGone(W, "DEXTRA", g)
             v == GatewayGone(u, "DPLUS", g)
  <2>1. u \in World /\ Kept(W, u) /\ Becomes(v)
    BY <1>0, <1>7, GatewayGoneType, LoopsKeep DEF Protocols, GatewayRemoved
  <2> HIDE DEF u
  <2>2. Kept(u, v)
    BY <2>1, LoopsKeep DEF Protocols
  <2>3. Kept(W, v)
    BY <2>1, <2>2 DEF Kept
  <2>. QED BY <1>1, <2>1, <2>3
<1>8. ASSUME NEW p \in Protocols, NEW i \in Slots, TryExpires(p, i) PROVE Goal
  <2>1. slots[p][i] \in Handler
    BY <1>0, <1>8, OutgoingHandler DEF TryExpires, W
  <2>2. /\ Send(W, p, "LINK1", slots[p][i]).link = W.link
        /\ Send(W, p, "UNLINK", slots[p][i]).link = W.link
    BY <1>0, <2>1, SendType
  <2>. QED BY <1>2, <1>8, <2>2 DEF TryExpires
<1>9. ASSUME NEW p \in Protocols, NEW i \in Slots, PollInactivity(p, i) PROVE Goal
  BY <1>0, <1>1, <1>9, AnswerMoves, OwnHandler, MovesKept DEF PollInactivity
<1>10. ASSUME NEW p \in Protocols, NEW i \in Slots, ReflectorDrops(p, i) PROVE Goal
  BY <1>0, <1>1, <1>10, LoopsKeep DEF ReflectorDrops
<1>11. ASSUME NEW p \in Protocols, NEW i \in Slots, IncomingCloses(p, i) PROVE Goal
  <2>1. FreeSlot(W, p, i).link = W.link
    BY <1>0, SetSlotType DEF FreeSlot
  <2>. QED BY <1>2, <1>11, <2>1 DEF IncomingCloses
<1>12. ASSUME NEW p \in Protocols, IncomingOpens(p) PROVE Goal
  <2> DEFINE idle == {i \in Slots : slots[p][i] = Free}
  <2>1. Min(idle) \in Slots
    BY <1>12, MinOfSlots DEF IncomingOpens, Slots
  <2>2. SetSlot(W, p, Min(idle), Incoming).link = W.link
    BY <1>0, <2>1, SetSlotType
  <2>. QED BY <1>2, <1>12, <2>2 DEF IncomingOpens
<1>. QED BY <1>5, <1>6, <1>7, <1>8, <1>9, <1>10, <1>11, <1>12

(* What an acknowledgement may change: a waiting link comes up, and with   *)
(* it the status that waits for a link over its protocol.                  *)
ComesUp(w, v, p, i, r) ==
    /\ i \in LinksOf(w, p, r)
    /\ w.slots[p][i].state = "LINKING" /\ v.slots[p][i].state = "LINKED"

Acks(w, v) ==
    /\ \A r \in Repeaters :
          /\ v.link[r].target = w.link[r].target /\ v.link[r].via = w.link[r].via
          /\ \/ v.link[r].phase = w.link[r].phase
             \/ /\ w.link[r].phase = "linking" /\ v.link[r].phase = "linked"
                /\ \E i \in Slots : ComesUp(w, v, TableOf(w.link[r].via), i, r)
    /\ \A p \in Protocols, i \in Slots :
          \/ v.slots[p][i] = w.slots[p][i]
          \/ /\ w.slots[p][i] \in Handler /\ v.slots[p][i] \in Handler
             /\ v.slots[p][i].dest = w.slots[p][i].dest
             /\ w.slots[p][i].state = "LINKING" /\ v.slots[p][i].state = "LINKED"

LEMMA HandlersOutgoing ==
    ASSUME NEW w, NEW p \in Protocols, NEW i \in Slots, w.slots[p][i] \in Handler
    PROVE  i \in Outgoing(w, p)
BY LinkAssumption DEF Outgoing

LEMMA AcksTrans ==
    ASSUME NEW w \in World, NEW u \in World, NEW v \in World, Acks(w, u), Acks(u, v)
    PROVE  Acks(w, v)
<1>1. ASSUME NEW r \in Repeaters, NEW i \in Slots, NEW p \in Protocols, ComesUp(w, u, p, i, r)
      PROVE  ComesUp(w, v, p, i, r)
  <2>1. u.slots[p][i].state = "LINKED" /\ u.slots[p][i].state # "LINKING"
    BY <1>1 DEF ComesUp
  <2>2. v.slots[p][i] = u.slots[p][i]
    BY <2>1 DEF Acks
  <2>. QED BY <1>1, <2>2 DEF ComesUp
<1>2. ASSUME NEW r \in Repeaters, NEW i \in Slots, NEW p \in Protocols, ComesUp(u, v, p, i, r)
      PROVE  ComesUp(w, v, p, i, r)
  <2>1. u.slots[p][i].state = "LINKING" /\ u.slots[p][i].state # "LINKED"
    BY <1>2 DEF ComesUp
  <2>2. u.slots[p][i] = w.slots[p][i]
    BY <2>1 DEF Acks
  <2>. QED BY <1>2, <2>2 DEF ComesUp, LinksOf, Outgoing
<1>3. ASSUME NEW r \in Repeaters
      PROVE  /\ v.link[r].target = w.link[r].target /\ v.link[r].via = w.link[r].via
             /\ \/ v.link[r].phase = w.link[r].phase
                \/ /\ w.link[r].phase = "linking" /\ v.link[r].phase = "linked"
                   /\ \E i \in Slots : ComesUp(w, v, TableOf(w.link[r].via), i, r)
  <2>1. u.link[r].via = w.link[r].via
    BY DEF Acks
  <2>2. w.link[r].phase = "linking" => TableOf(w.link[r].via) \in Protocols
    BY DEF World, LinkState, TableOf, Vias, Protocols
  <2>3. CASE u.link[r].phase = w.link[r].phase
    BY <1>2, <2>1, <2>2, <2>3 DEF Acks
  <2>4. CASE u.link[r].phase # w.link[r].phase
    <3>1. /\ w.link[r].phase = "linking" /\ u.link[r].phase = "linked"
          /\ \E i \in Slots : ComesUp(w, u, TableOf(w.link[r].via), i, r)
      BY <2>4 DEF Acks
    <3>2. v.link[r].phase = "linked"
      BY <3>1 DEF Acks
    <3>3. \E i \in Slots : ComesUp(w, v, TableOf(w.link[r].via), i, r)
      BY <1>1, <2>2, <3>1
    <3>4. v.link[r].target = w.link[r].target /\ v.link[r].via = w.link[r].via
      BY DEF Acks
    <3>. QED BY <3>1, <3>2, <3>3, <3>4
  <2>. QED BY <2>3, <2>4
<1>4. ASSUME NEW p \in Protocols, NEW i \in Slots
      PROVE  \/ v.slots[p][i] = w.slots[p][i]
             \/ /\ w.slots[p][i] \in Handler /\ v.slots[p][i] \in Handler
                /\ v.slots[p][i].dest = w.slots[p][i].dest
                /\ w.slots[p][i].state = "LINKING" /\ v.slots[p][i].state = "LINKED"
  BY DEF Acks
<1>. QED BY <1>3, <1>4 DEF Acks

LEMMA LinkUpShape ==
    ASSUME NEW w \in World, NEW r \in Repeaters, NEW p \in Protocols
    PROVE  /\ LinkUp(w, r, p) \in World /\ LinkUp(w, r, p).slots = w.slots
           /\ \A o \in Repeaters \ {r} : LinkUp(w, r, p).link[o] = w.link[o]
           /\ LinkUp(w, r, p).link[r].target = w.link[r].target
           /\ LinkUp(w, r, p).link[r].via = w.link[r].via
           /\ LinkUp(w, r, p).link[r].relink = w.link[r].relink
           /\ \/ LinkUp(w, r, p).link[r].phase = w.link[r].phase
              \/ /\ w.link[r].phase = "linking" /\ LinkUp(w, r, p).link[r].phase = "linked"
                 /\ TableOf(w.link[r].via) = p
<1>1. CASE w.link[r].phase = "linking" /\ TableOf(w.link[r].via) = p
  <2>1. LinkUp(w, r, p) = SetLink(w, r, "linked", w.link[r].via, w.link[r].target)
    BY <1>1 DEF LinkUp, SetLink, World, LinkState
  <2>. QED BY <1>1, <2>1, LinkUpType, SetLinkShape
<1>2. CASE ~(w.link[r].phase = "linking" /\ TableOf(w.link[r].via) = p)
  BY <1>2 DEF LinkUp
<1>. QED BY <1>1, <1>2

LEMMA AckedAcks ==
    ASSUME NEW w \in World, NEW p \in Protocols, NEW i \in Outgoing(w, p)
    PROVE  Acks(w, Acked(w, p, i))
<1> DEFINE h == w.slots[p][i]
           r == h.dest
           u == LinkUp(w, r, p)
           k == [h EXCEPT !.state = "LINKED", !.trying = FALSE]
           v == SetSlot(u, p, i, k)
<1>1. i \in Slots /\ h \in Handler /\ r \in Repeaters
  BY OutgoingHandler
<1>2. CASE h.state # "LINKING"
  BY <1>2 DEF Acked, Acks
<1>3. CASE h.state = "LINKING"
  <2>1. Acked(w, p, i) = v
    BY <1>3 DEF Acked
  <2>2. /\ u \in World /\ u.slots = w.slots
        /\ \A o \in Repeaters \ {r} : u.link[o] = w.link[o]
        /\ u.link[r].target = w.link[r].target /\ u.link[r].via = w.link[r].via
        /\ \/ u.link[r].phase = w.link[r].phase
           \/ /\ w.link[r].phase = "linking" /\ u.link[r].phase = "linked"
              /\ TableOf(w.link[r].via) = p
    BY <1>1, LinkUpShape, SMTT(40)
  <2>3. k \in Handler /\ k.dest = r /\ k.state = "LINKED" /\ i \in LinksOf(w, p, r)
        /\ h = w.slots[p][i] /\ w.slots[p][i].dest = r
    BY <1>1, HandlerChanges DEF Handler, LinksOf
  <2> HIDE DEF u, h, k, r
  <2>4. /\ v.link = u.link /\ v.slots[p][i] = k
        /\ \A q \in Protocols, j \in Slots : q # p \/ j # i => v.slots[q][j] = w.slots[q][j]
    <3>1. u \in World /\ u.slots = w.slots
      BY <2>2
    <3>2. /\ v \in World /\ v.link = u.link /\ v.slots[p][i] = k
          /\ \A q \in Protocols, j \in Slots : q # p \/ j # i => v.slots[q][j] = u.slots[q][j]
      BY <1>1, <2>3, <3>1, SetSlotType
    <3>. QED BY <3>1, <3>2
  <2> HIDE DEF v
  <2>5. ComesUp(w, v, p, i, r)
    BY <1>3, <2>3, <2>4 DEF ComesUp
  <2>6. Acks(w, v)
    <3>1. ASSUME NEW o \in Repeaters
          PROVE  /\ v.link[o].target = w.link[o].target /\ v.link[o].via = w.link[o].via
                 /\ \/ v.link[o].phase = w.link[o].phase
                    \/ /\ w.link[o].phase = "linking" /\ v.link[o].phase = "linked"
                       /\ \E j \in Slots : ComesUp(w, v, TableOf(w.link[o].via), j, o)
      <4>1. CASE o = r
        BY <1>1, <2>2, <2>4, <2>5, <4>1
      <4>2. CASE o # r
        BY <2>2, <2>4, <4>2
      <4>. QED BY <4>1, <4>2
    <3>2. ASSUME NEW q \in Protocols, NEW j \in Slots
          PROVE  \/ v.slots[q][j] = w.slots[q][j]
                 \/ /\ w.slots[q][j] \in Handler /\ v.slots[q][j] \in Handler
                    /\ v.slots[q][j].dest = w.slots[q][j].dest
                    /\ w.slots[q][j].state = "LINKING" /\ v.slots[q][j].state = "LINKED"
      BY <1>1, <1>3, <2>3, <2>4
    <3>. QED BY <3>1, <3>2 DEF Acks
  <2>. QED BY <2>1, <2>6
<1>. QED BY <1>2, <1>3

LEMMA AckAllAcks ==
    ASSUME NEW w \in World, NEW m \in Request
    PROVE  Acks(w, AckAll(w, m))
<1>1. \A u \in World : \A i : AckAt(u, m, i) \in World /\ Acks(u, AckAt(u, m, i))
  <2> SUFFICES ASSUME NEW u \in World, NEW i
               PROVE  AckAt(u, m, i) \in World /\ Acks(u, AckAt(u, m, i))
    OBVIOUS
  <2>1. CASE ~AnswerReaches(u, m, i)
    BY <2>1 DEF AckAt, Acks
  <2>2. CASE AnswerReaches(u, m, i)
    <3>1. m.proto \in Protocols /\ i \in Outgoing(u, m.proto)
      BY <2>2 DEF AnswerReaches, Reaches, Request
    <3>. QED BY <2>2, <3>1, AnswerType, AckedAcks DEF AckAt
  <2>. QED BY <2>1, <2>2
<1> DEFINE w1 == AckAt(w, m, 1)   w2 == AckAt(w1, m, 2)  w3 == AckAt(w2, m, 3)
           w4 == AckAt(w3, m, 4)  w5 == AckAt(w4, m, 5)
<1>2. AckAll(w, m) = w5
  BY DEF AckAll, ForEachSlot
<1>3. w1 \in World /\ w2 \in World /\ w3 \in World /\ w4 \in World /\ w5 \in World
  BY <1>1
<1>4. Acks(w, w1) /\ Acks(w1, w2) /\ Acks(w2, w3) /\ Acks(w3, w4) /\ Acks(w4, w5)
  BY <1>1, <1>3
<1> HIDE DEF w1, w2, w3, w4, w5
<1>5. Acks(w, w2) /\ Acks(w2, w4)
  BY <1>3, <1>4, AcksTrans
<1>6. Acks(w, w4)
  BY <1>3, <1>5, AcksTrans
<1>. QED BY <1>2, <1>3, <1>4, <1>6, AcksTrans

(* Every step is one of a repeater, an acknowledgement, or one that keeps. *)
LEMMA StepKinds ==
    ASSUME TypeOK, [Next]_vars
    PROVE  \/ \E r \in Repeaters, v \in World : \E t :
                 /\ link' = v.link /\ slots' = v.slots /\ Moves(W, v, r, t)
                 /\ RemoteModes = {} /\ r \in Fixed => t \in {Startup[r], NoTarget}
           \/ \E v \in World : link' = v.link /\ slots' = v.slots /\ Acks(W, v)
           \/ \E v : link' = v.link /\ Kept(W, v)
<1>0. W \in World /\ wire \subseteq Request /\ W.link = link
  BY DEF TypeOK, W, World
<1>1. CASE \E r \in Repeaters : CommandTo(r) \/ G2Query(r) \/ G2Done(r) \/ Start(r)
  BY <1>1, RepeaterStepMoves
<1>2. ASSUME NEW m \in wire, Ack(m)
      PROVE  \E v \in World : link' = v.link /\ slots' = v.slots /\ Acks(W, v)
  <2>1. PICK w \in Delivered(m) : Becomes(AckAll(w, m))
    BY <1>2 DEF Ack
  <2>2. w \in World /\ w.link = W.link /\ w.slots = W.slots /\ m \in Request
    BY <1>0 DEF Delivered, World
  <2>3. AckAll(w, m) \in World /\ Acks(w, AckAll(w, m)) /\ Acks(W, w)
    BY <2>2, AnswersType, AckAllAcks DEF Acks
  <2>4. Acks(W, AckAll(w, m))
    BY <1>0, <2>2, <2>3, AcksTrans
  <2>. QED BY <2>1, <2>3, <2>4 DEF Becomes
<1>3. CASE UNCHANGED vars
  BY <1>0, <1>3, KeptNot DEF vars
<1>4. CASE (\E r \in Repeaters : Start(r)) \/ Turn
  BY <1>1, <1>2, <1>4, NetworkStepKeeps DEF Turn, CommandTo
<1>. QED BY <1>3, <1>4 DEF Next

(* What one repeater is told to do leaves the status and the links of the  *)
(* others alone, although they share the tables, the ports and the wire:   *)
(* the loops of unlink compare m_destination, a callback only changes the  *)
(* repeater the link belongs to, and a new link takes a free slot.         *)
THEOREM RepeatersIsolated == Spec => Isolation
<1> DEFINE Step == \A r \in Repeaters : CommandTo(r) =>
          \A o \in Repeaters \ {r} :
              /\ link'[o] = link[o]
              /\ \A p \in Protocols : \A i \in LinksOf(W, p, o) : slots'[p][i] = slots[p][i]
<1>1. TypeOK => Step
  <2> SUFFICES ASSUME TypeOK, NEW r \in Repeaters, CommandTo(r), NEW o \in Repeaters \ {r}
               PROVE  /\ link'[o] = link[o]
                      /\ \A p \in Protocols : \A i \in LinksOf(W, p, o) : slots'[p][i] = slots[p][i]
    OBVIOUS
  <2>1. PICK v \in World : \E t : link' = v.link /\ slots' = v.slots /\ Moves(W, v, r, t)
    BY RepeaterStepMoves
  <2>2. W.link = link /\ W.slots = slots
    BY DEF W
  <2>3. link'[o] = link[o]
    BY <2>1, <2>2 DEF Moves
  <2>4. ASSUME NEW p \in Protocols, NEW i \in LinksOf(W, p, o) PROVE slots'[p][i] = slots[p][i]
    <3>1. i \in Slots /\ slots[p][i] \notin Own(r)
      BY <2>2 DEF LinksOf, Outgoing, Own
    <3>. QED BY <2>1, <2>2, <3>1 DEF Moves
  <2>. QED BY <2>3, <2>4
<1>2. TypeOK /\ [Next]_vars => [Step]_vars
  BY <1>1
<1>. QED BY <1>2, TypeCorrect, PTL DEF Spec, Isolation

(* Where the remote control may not change a link, a repeater with a fixed *)
(* one is at its startup reflector or on its way there, or nowhere: no     *)
(* command of a radio user, no timer and no answer names another one.      *)
THEOREM FixedAlwaysHome == RemoteModes = {} => (Spec => []FixedStaysHome)
<1> SUFFICES ASSUME RemoteModes = {} PROVE Spec => []FixedStaysHome
  OBVIOUS
<1>1. Init => FixedStaysHome
  BY ControlAssumption DEF Init, FixedStaysHome, Unlinked0
<1>2. TypeOK /\ FixedStaysHome /\ [Next]_vars => FixedStaysHome'
  <2> SUFFICES ASSUME TypeOK, FixedStaysHome, [Next]_vars, NEW o \in Fixed
               PROVE  link'[o].target \in {Startup[o], NoTarget}
    BY DEF FixedStaysHome
  <2>1. o \in Repeaters /\ W.link[o].target \in {Startup[o], NoTarget}
    BY ControlAssumption DEF FixedStaysHome, W
  <2>2. CASE \E r \in Repeaters, v \in World : \E t :
                 /\ link' = v.link /\ Moves(W, v, r, t)
                 /\ RemoteModes = {} /\ r \in Fixed => t \in {Startup[r], NoTarget}
    <3>1. PICK r \in Repeaters, v \in World : \E t :
                 /\ link' = v.link /\ Moves(W, v, r, t)
                 /\ RemoteModes = {} /\ r \in Fixed => t \in {Startup[r], NoTarget}
      BY <2>2
    <3>2. CASE o = r
      BY <2>1, <3>1, <3>2 DEF Moves
    <3>3. CASE o # r
      BY <2>1, <3>1, <3>3 DEF Moves
    <3>. QED BY <3>2, <3>3
  <2>3. CASE \E v : link' = v.link /\ (Acks(W, v) \/ Kept(W, v))
    BY <2>1, <2>3 DEF Acks, Kept
  <2>. QED BY <2>2, <2>3, StepKinds
<1>. QED BY <1>1, <1>2, TypeCorrect, PTL DEF Spec

(* A repeater becomes linked only when a link of its own over the protocol *)
(* of its status, still waiting for its answer, is acknowledged.           *)
THEOREM OnlyAcksLink == Spec => OnlyAnAckLinks
<1> DEFINE Step == \A r \in Repeaters :
          link'[r].phase = "linked" /\ link[r].phase # "linked" =>
              /\ link[r].phase = "linking"
              /\ \E i \in LinksOf(W, TableOf(link[r].via), r) :
                    /\ slots[TableOf(link[r].via)][i].state = "LINKING"
                    /\ slots'[TableOf(link[r].via)][i].state = "LINKED"
<1>1. TypeOK /\ [Next]_vars => Step
  <2> SUFFICES ASSUME TypeOK, [Next]_vars, NEW r \in Repeaters,
                      link'[r].phase = "linked", link[r].phase # "linked"
               PROVE  /\ link[r].phase = "linking"
                      /\ \E i \in LinksOf(W, TableOf(link[r].via), r) :
                            /\ slots[TableOf(link[r].via)][i].state = "LINKING"
                            /\ slots'[TableOf(link[r].via)][i].state = "LINKED"
    OBVIOUS
  <2>1. W.link = link /\ W.slots = slots
    BY DEF W
  <2>2. ASSUME NEW v, link' = v.link, Kept(W, v) PROVE FALSE
    BY <2>1, <2>2 DEF Kept
  <2>3. ASSUME NEW v, link' = v.link, NEW o \in Repeaters, NEW t, Moves(W, v, o, t) PROVE FALSE
    <3>1. CASE o = r
      BY <2>1, <2>3, <3>1 DEF Moves
    <3>2. CASE o # r
      BY <2>1, <2>3, <3>2 DEF Moves
    <3>. QED BY <3>1, <3>2
  <2>4. PICK v \in World : link' = v.link /\ slots' = v.slots /\ Acks(W, v)
    BY <2>2, <2>3, StepKinds
  <2>5. /\ link[r].phase = "linking"
        /\ \E i \in Slots : ComesUp(W, v, TableOf(link[r].via), i, r)
    BY <2>1, <2>4 DEF Acks
  <2>. QED BY <2>1, <2>4, <2>5 DEF ComesUp
<1>2. TypeOK /\ [Next]_vars => [Step]_vars
  BY <1>1
<1>. QED BY <1>2, TypeCorrect, PTL DEF Spec, OnlyAnAckLinks

---------------------------------------------------------------------------
(* The DExtra and D-Plus links of a repeater and its status.  At most one  *)
(* link, because a repeater unlinks before it links; no relink, because    *)
(* that belongs to a change of module.                                     *)
SoundFor(w, r) ==
    /\ ~w.link[r].relink
    /\ \A p \in {"DEXTRA", "DPLUS"} :
          /\ \A i \in LinksOf(w, p, r) : w.link[r].via = p /\ w.link[r].target = w.slots[p][i].ref
          /\ \A i, j \in LinksOf(w, p, r) : i = j
    /\ w.link[r].phase = "linked" /\ w.link[r].via = "DEXTRA" =>
          \E i \in LinksOf(w, "DEXTRA", r) : w.slots["DEXTRA"][i].state = "LINKED"

LEMMA SameLinksSound ==
    ASSUME NEW w \in World, NEW v \in World, NEW r \in Repeaters, SoundFor(w, r),
           v.link[r] = w.link[r],
           \A p \in {"DEXTRA", "DPLUS"} :
              /\ LinksOf(v, p, r) = LinksOf(w, p, r)
              /\ \A i \in LinksOf(w, p, r) : v.slots[p][i] = w.slots[p][i]
    PROVE  SoundFor(v, r)
BY DEF SoundFor

(* What one repeater moves leaves the others sound. *)
Others(w, v, r) ==
    /\ \A o \in Repeaters \ {r} : v.link[o] = w.link[o]
    /\ \A p \in Protocols, i \in Slots :
          v.slots[p][i] = w.slots[p][i] \/ {v.slots[p][i], w.slots[p][i]} \subseteq Own(r)

LEMMA OthersSound ==
    ASSUME NEW w \in World, NEW v \in World, NEW r \in Repeaters, NEW o \in Repeaters \ {r},
           Others(w, v, r), SoundFor(w, o)
    PROVE  SoundFor(v, o)
<1>1. ASSUME NEW p \in {"DEXTRA", "DPLUS"}, NEW i \in Slots
      PROVE  /\ i \in LinksOf(v, p, o) <=> i \in LinksOf(w, p, o)
             /\ i \in LinksOf(w, p, o) => v.slots[p][i] = w.slots[p][i]
  <2>1. p \in Protocols
    BY DEF Protocols
  <2>2. CASE v.slots[p][i] = w.slots[p][i]
    BY <2>2 DEF LinksOf, Outgoing
  <2>3. CASE {v.slots[p][i], w.slots[p][i]} \subseteq Own(r)
    BY <2>3 DEF LinksOf, Outgoing, Own
  <2>. QED BY <2>1, <2>2, <2>3 DEF Others
<1>2. \A p \in {"DEXTRA", "DPLUS"} :
              /\ LinksOf(v, p, o) = LinksOf(w, p, o)
              /\ \A i \in LinksOf(w, p, o) : v.slots[p][i] = w.slots[p][i]
  <2>1. \A p, u : LinksOf(u, p, o) \subseteq Slots
    BY DEF LinksOf, Outgoing
  <2>. QED BY <1>1, <2>1
<1>. QED BY <1>2, SameLinksSound DEF Others

(* A link may be renewed as long as its reflector stays, ... *)
Renews(w, v, r) ==
    /\ v.link[r].relink = w.link[r].relink
    /\ v.link[r].via = w.link[r].via /\ v.link[r].target = w.link[r].target
    /\ \A p \in {"DEXTRA", "DPLUS"}, i \in Slots :
          \/ v.slots[p][i] = w.slots[p][i]
          \/ /\ v.slots[p][i] \in Handler /\ w.slots[p][i] \in Handler
             /\ v.slots[p][i].dest = w.slots[p][i].dest
             /\ v.slots[p][i].ref = w.slots[p][i].ref
    /\ v.link[r].phase = "linked" /\ v.link[r].via = "DEXTRA" =>
          \E i \in LinksOf(v, "DEXTRA", r) : v.slots["DEXTRA"][i].state = "LINKED"

LEMMA RenewsSound ==
    ASSUME NEW w \in World, NEW v \in World, NEW r \in Repeaters, Renews(w, v, r), SoundFor(w, r)
    PROVE  SoundFor(v, r)
<1>1. ASSUME NEW p \in {"DEXTRA", "DPLUS"}, NEW i \in LinksOf(v, p, r)
      PROVE  i \in LinksOf(w, p, r) /\ v.slots[p][i].ref = w.slots[p][i].ref
  <2>1. i \in Slots /\ p \in Protocols
    BY DEF LinksOf, Outgoing, Protocols
  <2>2. CASE v.slots[p][i] = w.slots[p][i]
    BY <2>1, <2>2 DEF LinksOf, Outgoing
  <2>3. CASE /\ v.slots[p][i] \in Handler /\ w.slots[p][i] \in Handler
             /\ v.slots[p][i].dest = w.slots[p][i].dest
             /\ v.slots[p][i].ref = w.slots[p][i].ref
    BY <2>1, <2>3, HandlersOutgoing DEF LinksOf
  <2>. QED BY <2>1, <2>2, <2>3 DEF Renews
<1>. QED BY <1>1 DEF SoundFor, Renews

(* ... or dropped, with the status unless that does not depend on it. *)
Shrinks(w, v, r) ==
    /\ v.link[r].relink = w.link[r].relink
    /\ \A p \in {"DEXTRA", "DPLUS"}, i \in Slots : v.slots[p][i] \in {w.slots[p][i], Free}
    /\ \/ /\ v.link[r].via = w.link[r].via /\ v.link[r].target = w.link[r].target
          /\ v.link[r].phase = w.link[r].phase
          /\ w.link[r].phase = "linked" /\ w.link[r].via = "DEXTRA" =>
                \A i \in LinksOf(w, "DEXTRA", r) : v.slots["DEXTRA"][i] = w.slots["DEXTRA"][i]
       \/ /\ v.link[r].phase # "linked"
          /\ LinksOf(v, "DEXTRA", r) = {} /\ LinksOf(v, "DPLUS", r) = {}

LEMMA ShrinksSound ==
    ASSUME NEW w \in World, NEW v \in World, NEW r \in Repeaters, Shrinks(w, v, r), SoundFor(w, r)
    PROVE  /\ SoundFor(v, r)
           /\ \A p \in {"DEXTRA", "DPLUS"} : LinksOf(v, p, r) \subseteq LinksOf(w, p, r)
<1>1. ASSUME NEW p \in {"DEXTRA", "DPLUS"}, NEW i \in LinksOf(v, p, r)
      PROVE  i \in LinksOf(w, p, r) /\ v.slots[p][i] = w.slots[p][i]
  BY DEF LinksOf, Outgoing, Shrinks
<1>2. CASE /\ v.link[r].via = w.link[r].via /\ v.link[r].target = w.link[r].target
           /\ v.link[r].phase = w.link[r].phase
           /\ w.link[r].phase = "linked" /\ w.link[r].via = "DEXTRA" =>
                \A i \in LinksOf(w, "DEXTRA", r) : v.slots["DEXTRA"][i] = w.slots["DEXTRA"][i]
  <2>1. ASSUME v.link[r].phase = "linked", v.link[r].via = "DEXTRA"
        PROVE  \E i \in LinksOf(v, "DEXTRA", r) : v.slots["DEXTRA"][i].state = "LINKED"
    <3>1. PICK i \in LinksOf(w, "DEXTRA", r) : w.slots["DEXTRA"][i].state = "LINKED"
      BY <1>2, <2>1 DEF SoundFor
    <3>2. v.slots["DEXTRA"][i] = w.slots["DEXTRA"][i]
      BY <1>2, <2>1
    <3>. QED BY <3>1, <3>2 DEF LinksOf, Outgoing
  <2>. QED BY <1>1, <1>2, <2>1 DEF SoundFor, Shrinks
<1>3. CASE /\ v.link[r].phase # "linked"
           /\ LinksOf(v, "DEXTRA", r) = {} /\ LinksOf(v, "DPLUS", r) = {}
  BY <1>3 DEF SoundFor, Shrinks
<1>. QED BY <1>1, <1>2, <1>3 DEF Shrinks

(* The one link of a repeater goes with its status. *)
LEMMA LastGone ==
    ASSUME NEW w \in World, NEW v, NEW r \in Repeaters, SoundFor(w, r),
           NEW p \in {"DEXTRA", "DPLUS"}, NEW i \in LinksOf(w, p, r),
           v.slots[p][i] = Free,
           \A q \in Protocols, j \in Slots : q # p \/ j # i => v.slots[q][j] = w.slots[q][j]
    PROVE  /\ \A q \in {"DEXTRA", "DPLUS"} : LinksOf(v, q, r) = {}
           /\ \A q \in {"DEXTRA", "DPLUS"}, j \in Slots : v.slots[q][j] \in {w.slots[q][j], Free}
<1>1. w.link[r].via = p
  BY DEF SoundFor
<1>2. ASSUME NEW q \in {"DEXTRA", "DPLUS"}, NEW j \in LinksOf(v, q, r) PROVE FALSE
  <2>1. j \in Slots /\ q \in Protocols /\ v.slots[q][j] # Free
    BY DEF LinksOf, Outgoing, Protocols
  <2>2. q # p \/ j # i
    BY <2>1
  <2>3. v.slots[q][j] = w.slots[q][j]
    BY <2>1, <2>2
  <2>4. j \in LinksOf(w, q, r)
    BY <2>1, <2>3 DEF LinksOf, Outgoing
  <2>5. q = p
    BY <1>1, <2>4 DEF SoundFor
  <2>6. j = i
    BY <2>4, <2>5 DEF SoundFor
  <2>. QED BY <2>2, <2>5, <2>6
<1>3. \A q \in {"DEXTRA", "DPLUS"}, j \in Slots : v.slots[q][j] \in {w.slots[q][j], Free}
  BY DEF Protocols
<1>. QED BY <1>2, <1>3

(* linkFailed and linkRefused where no module was changed. *)
LEMMA CallbackShape ==
    ASSUME NEW w \in World, NEW r \in Repeaters, NEW t \in Targets, ~w.link[r].relink
    PROVE  /\ LinkLost(w, r, t) = IF w.link[r].phase # "none" /\ w.link[r].target = t
                                  THEN ClearLink(w, r) ELSE w
           /\ LinkRefused(w, r, t) = IF w.link[r].target = t THEN ClearLink(w, r) ELSE w
           /\ ClearLink(w, r) \in World /\ ClearLink(w, r).slots = w.slots
           /\ ClearLink(w, r).link[r].phase = "none"
           /\ ClearLink(w, r).link[r].relink = w.link[r].relink
BY ClearLinkType, SetLinkShape DEF LinkLost, LinkRefused, ClearLink

(* A DExtra or D-Plus link is the one its repeater's status names. *)
LEMMA StatusOfLink ==
    ASSUME NEW w \in World, NEW p \in {"DEXTRA", "DPLUS"}, NEW i \in Outgoing(w, p),
           SoundFor(w, w.slots[p][i].dest)
    PROVE  LET h == w.slots[p][i]
               l == w.link[h.dest]
           IN  /\ i \in LinksOf(w, p, h.dest) /\ ~l.relink
               /\ l.via = p /\ l.target = h.ref /\ l.phase \in {"linking", "linked"}
               /\ p = "DEXTRA" /\ l.phase = "linked" => h.state = "LINKED"
<1> DEFINE h == w.slots[p][i]
           l == w.link[h.dest]
<1>1. i \in LinksOf(w, p, h.dest) /\ h.dest \in Repeaters
  BY OutgoingHandler DEF LinksOf, Protocols
<1>2. l \in LinkState
  BY <1>1 DEF World
<1>3. ~l.relink /\ l.via = p /\ l.target = h.ref
  BY <1>1 DEF SoundFor
<1>4. l.phase \in {"linking", "linked"}
  BY <1>2, <1>3 DEF LinkState
<1>5. ASSUME p = "DEXTRA", l.phase = "linked" PROVE h.state = "LINKED"
  <2>1. PICK j \in LinksOf(w, p, h.dest) : w.slots[p][j].state = "LINKED"
    BY <1>3, <1>5 DEF SoundFor
  <2>2. i = j
    BY <1>1, <2>1 DEF SoundFor
  <2>. QED BY <2>1, <2>2
<1>. QED BY <1>1, <1>3, <1>4, <1>5

(* FreeSlot after the repeater was told, or not. *)
LEMMA FreeShape ==
    ASSUME NEW w \in World, NEW p \in Protocols, NEW i \in Slots
    PROVE  /\ FreeSlot(w, p, i) \in World /\ FreeSlot(w, p, i).link = w.link
           /\ FreeSlot(w, p, i).slots[p][i] = Free
           /\ \A q \in Protocols, j \in Slots :
                 q # p \/ j # i => FreeSlot(w, p, i).slots[q][j] = w.slots[q][j]
BY SetSlotType DEF FreeSlot

(* Clearing the status and freeing the slot of a DExtra or D-Plus link *)
LEMMA ClearedShrinks ==
    ASSUME NEW w \in World, NEW p \in {"DEXTRA", "DPLUS"}, NEW i \in Outgoing(w, p),
           SoundFor(w, w.slots[p][i].dest), NEW x \in World,
           x.link = ClearLink(w, w.slots[p][i].dest).link,
           \A q \in Protocols, j \in Slots : q # p \/ j # i => x.slots[q][j] = w.slots[q][j]
    PROVE  Shrinks(w, FreeSlot(x, p, i), w.slots[p][i].dest)
<1> DEFINE r == w.slots[p][i].dest
           v == FreeSlot(x, p, i)
           c == ClearLink(w, r)
<1>1. i \in Slots /\ p \in Protocols /\ i \in LinksOf(w, p, r) /\ r \in Repeaters
      /\ ~w.link[r].relink /\ w.slots[p][i].ref \in Targets
  BY StatusOfLink, OutgoingHandler DEF Protocols
<1>2. c.link[r].phase = "none" /\ c.link[r].relink = w.link[r].relink
  BY <1>1, CallbackShape
<1>3. /\ v.link = x.link /\ v.slots[p][i] = Free
      /\ \A q \in Protocols, j \in Slots : q # p \/ j # i => v.slots[q][j] = x.slots[q][j]
  BY <1>1, FreeShape
<1> HIDE DEF r, v, c
<1>4. x.link = c.link /\ SoundFor(w, r)
  BY DEF r, c
<1>5. \A q \in Protocols, j \in Slots : q # p \/ j # i => v.slots[q][j] = w.slots[q][j]
  BY <1>3
<1>6. /\ \A q \in {"DEXTRA", "DPLUS"} : LinksOf(v, q, r) = {}
      /\ \A q \in {"DEXTRA", "DPLUS"}, j \in Slots : v.slots[q][j] \in {w.slots[q][j], Free}
  BY <1>1, <1>3, <1>4, <1>5, LastGone
<1>7. Shrinks(w, v, r)
  BY <1>2, <1>3, <1>4, <1>6 DEF Shrinks
<1>. QED BY <1>7, SMTT(40) DEF v, r

(* Freeing a slot quietly: a D-Plus link, or a DExtra link that is not up. *)
LEMMA QuietShrinks ==
    ASSUME NEW w \in World, NEW p \in Protocols, NEW i \in Outgoing(w, p),
           SoundFor(w, w.slots[p][i].dest), p = "DEXTRA" => w.slots[p][i].state # "LINKED"
    PROVE  Shrinks(w, FreeSlot(w, p, i), w.slots[p][i].dest)
<1> DEFINE r == w.slots[p][i].dest
           v == FreeSlot(w, p, i)
<1>1. i \in Slots
  BY OutgoingHandler
<1>2. /\ v.link = w.link /\ v.slots[p][i] = Free
      /\ \A q \in Protocols, j \in Slots : q # p \/ j # i => v.slots[q][j] = w.slots[q][j]
  BY <1>1, FreeShape
<1>3. ASSUME w.link[r].phase = "linked", w.link[r].via = "DEXTRA", NEW j \in LinksOf(w, "DEXTRA", r)
      PROVE  v.slots["DEXTRA"][j] = w.slots["DEXTRA"][j]
  <2>1. p # "DEXTRA"
    BY <1>3, StatusOfLink
  <2>. QED BY <1>2, <2>1, SMTT(40) DEF LinksOf, Outgoing, Protocols
<1> HIDE DEF v
<1>4. \A q \in {"DEXTRA", "DPLUS"}, j \in Slots : v.slots[q][j] \in {w.slots[q][j], Free}
  BY <1>2 DEF Protocols
<1> HIDE DEF r
<1>5. Shrinks(w, v, r)
  BY <1>2, <1>3, <1>4 DEF Shrinks
<1>. QED BY <1>5 DEF v, r

LEMMA SentShrinks ==
    ASSUME NEW w, NEW v, NEW u, NEW r, Shrinks(w, v, r), u.link = v.link, u.slots = v.slots
    PROVE  Shrinks(w, u, r)
BY DEF Shrinks, LinksOf, Outgoing

(* unlink, one slot *)
LEMMA DropShrinks ==
    ASSUME NEW w \in World, NEW p \in Protocols, NEW i \in Outgoing(w, p),
           SoundFor(w, w.slots[p][i].dest)
    PROVE  /\ Shrinks(w, Drop(w, p, i), w.slots[p][i].dest)
           /\ p # "DCS" => Drop(w, p, i).slots[p][i] = Free
<1> DEFINE h == w.slots[p][i]
           r == h.dest
<1>1. i \in Slots /\ h \in Handler /\ r \in Repeaters /\ h.ref \in Targets
  BY OutgoingHandler
<1>2. CASE p = "DEXTRA"
  <2> DEFINE k == [h EXCEPT !.state = "UNLINKING"]
             b == SetSlot(w, p, i, k)
             u == Send(b, p, "UNLINK", h)
             x == LinkLost(u, r, h.ref)
  <2>1. ~w.link[r].relink /\ w.link[r].target = h.ref /\ w.link[r].phase # "none"
    BY <1>2, StatusOfLink
  <2>2. /\ b \in World /\ b.link = w.link
        /\ \A q \in Protocols, j \in Slots : q # p \/ j # i => b.slots[q][j] = w.slots[q][j]
    <3>1. k \in Handler
      BY <1>1, HandlerChanges
    <3> HIDE DEF k
    <3>. QED BY <1>1, <3>1, SetSlotType
  <2>3. Drop(w, p, i) = FreeSlot(x, p, i)
    BY <1>2 DEF Drop, DExtraDrop
  <2>4. h = w.slots[p][i]
    OBVIOUS
  <2> HIDE DEF b, h, k
  <2>5. u \in World /\ u.link = w.link /\ u.slots = b.slots
    BY <1>1, <2>2, SendType
  <2> HIDE DEF u
  <2>6. x = ClearLink(u, r)
    BY <1>1, <2>1, <2>5, CallbackShape
  <2>7. x \in World /\ x.slots = u.slots /\ x.link = ClearLink(w, r).link
    <3>1. ClearLink(u, r).link = ClearLink(w, r).link
      BY <2>5 DEF ClearLink, SetLink, World
    <3>. QED BY <1>1, <2>1, <2>5, <2>6, <3>1, CallbackShape
  <2>8. \A q \in Protocols, j \in Slots : q # p \/ j # i => x.slots[q][j] = w.slots[q][j]
    BY <2>2, <2>5, <2>7
  <2>9. FreeSlot(x, p, i).slots[p][i] = Free
    BY <1>1, <2>7, FreeShape
  <2> HIDE DEF x
  <2>10. r = w.slots[p][i].dest
    BY DEF h
  <2>11. Shrinks(w, FreeSlot(x, p, i), w.slots[p][i].dest)
    BY <1>2, <2>7, <2>8, <2>10, ClearedShrinks
  <2>. QED BY <2>3, <2>9, <2>11, SMTT(40)
<1>3. CASE p = "DPLUS"
  <2> DEFINE u == Send(w, p, "UNLINK", h)
  <2>1. u \in World /\ u.link = w.link /\ u.slots = w.slots
    BY <1>1, SendType
  <2>2. Drop(w, p, i) = FreeSlot(u, p, i)
    BY <1>3 DEF Drop, DPlusDrop
  <2> HIDE DEF u
  <2>3. /\ FreeSlot(u, p, i).link = FreeSlot(w, p, i).link
        /\ FreeSlot(u, p, i).slots = FreeSlot(w, p, i).slots
    BY <2>1 DEF FreeSlot, SetSlot, World
  <2>4. Shrinks(w, FreeSlot(w, p, i), r)
    BY <1>3, QuietShrinks, SMTT(40)
  <2>5. Shrinks(w, FreeSlot(u, p, i), r)
    BY <2>3, <2>4, SentShrinks
  <2>6. FreeSlot(u, p, i).slots[p][i] = Free
    BY <1>1, <2>1, FreeShape
  <2>. QED BY <2>2, <2>5, <2>6
<1>4. CASE p = "DCS"
  <2> DEFINE k == [h EXCEPT !.state = "UNLINKING", !.trying = TRUE]
             b == SetSlot(w, p, i, k)
  <2>1. /\ b \in World /\ b.link = w.link
        /\ \A q \in Protocols, j \in Slots : q # p \/ j # i => b.slots[q][j] = w.slots[q][j]
    <3>1. k \in Handler
      BY <1>1, HandlerChanges
    <3> HIDE DEF k
    <3>. QED BY <1>1, <3>1, SetSlotType
  <2>2. Drop(w, p, i) = w \/ Drop(w, p, i) = Send(b, p, "UNLINK", h)
    BY <1>4 DEF Drop, DCSDrop
  <2> HIDE DEF b
  <2>3. Send(b, p, "UNLINK", h).link = b.link /\ Send(b, p, "UNLINK", h).slots = b.slots
    BY <1>1, <2>1, SendType
  <2> DEFINE v == Drop(w, p, i)
  <2>4. v.link = w.link /\ \A q \in {"DEXTRA", "DPLUS"}, j \in Slots : v.slots[q][j] = w.slots[q][j]
    BY <1>4, <2>1, <2>2, <2>3 DEF Protocols
  <2> HIDE DEF v
  <2>5. Shrinks(w, v, r)
    BY <2>4 DEF Shrinks, LinksOf, Outgoing
  <2>. QED BY <1>4, <2>5 DEF v
<1>. QED BY <1>2, <1>3, <1>4 DEF Protocols

(* The end of a DCS link, late or not, is not taken for that of a DExtra   *)
(* or D-Plus link: no reflector is contacted over two protocols.           *)
LEMMA DCSEndShrinks ==
    ASSUME NEW w \in World, NEW i \in Outgoing(w, "DCS"), Agrees(w),
           SoundFor(w, w.slots["DCS"][i].dest),
           NEW x \in {w, LinkLost(w, w.slots["DCS"][i].dest, w.slots["DCS"][i].ref),
                      LinkRefused(w, w.slots["DCS"][i].dest, w.slots["DCS"][i].ref)}
    PROVE  Shrinks(w, FreeSlot(x, "DCS", i), w.slots["DCS"][i].dest)
<1> DEFINE h == w.slots["DCS"][i]
           r == h.dest
           v == FreeSlot(x, "DCS", i)
<1>1. /\ i \in Slots /\ h \in Handler /\ r \in Repeaters /\ h.ref \in Targets /\ OfTable("DCS", h.ref)
      /\ "DCS" \in Protocols
  BY OutgoingHandler, OutgoingAgrees DEF Protocols
<1>2. ~w.link[r].relink
  BY DEF SoundFor
<1>3. x = w \/ (x = ClearLink(w, r) /\ w.link[r].target = h.ref)
  BY <1>1, <1>2, CallbackShape
<1>4. x \in World /\ x.slots = w.slots
  BY <1>1, <1>2, <1>3, CallbackShape
<1>5. /\ v.link = x.link
      /\ \A q \in {"DEXTRA", "DPLUS"}, j \in Slots : v.slots[q][j] = w.slots[q][j]
  <2>1. /\ v.link = x.link
        /\ \A q \in Protocols, j \in Slots : q # "DCS" \/ j # i => v.slots[q][j] = x.slots[q][j]
    BY <1>1, <1>4, FreeShape
  <2> HIDE DEF v
  <2>. QED BY <1>4, <2>1 DEF Protocols
<1>6. \A q \in {"DEXTRA", "DPLUS"} : LinksOf(v, q, r) = LinksOf(w, q, r)
  <2> HIDE DEF v
  <2>. QED BY <1>5 DEF LinksOf, Outgoing
<1>7. CASE x = w
  <2> HIDE DEF v, r, h
  <2>. QED BY <1>5, <1>7 DEF Shrinks, LinksOf, Outgoing, r, h, v
<1>8. CASE x = ClearLink(w, r) /\ w.link[r].target = h.ref
  <2>1. ASSUME NEW q \in {"DEXTRA", "DPLUS"}, NEW j \in LinksOf(w, q, r) PROVE FALSE
    <3>1. w.slots[q][j].ref = h.ref
      BY <1>8, <2>1 DEF SoundFor
    <3>2. OfTable(q, h.ref)
      BY <2>1, <3>1 DEF Agrees, LinksOf, Protocols
    <3>. QED BY <1>1, <3>2, SMTT(40) DEF OfTable
  <2>2. LinksOf(v, "DEXTRA", r) = {} /\ LinksOf(v, "DPLUS", r) = {}
    BY <1>6, <2>1
  <2>3. x.link[r].phase = "none" /\ x.link[r].relink = w.link[r].relink
    BY <1>1, <1>2, <1>8, CallbackShape, SMTT(40)
  <2> HIDE DEF v
  <2>4. Shrinks(w, v, r)
    BY <1>5, <2>2, <2>3 DEF Shrinks
  <2>. QED BY <2>4 DEF v
<1>. QED BY <1>3, <1>7, <1>8

(* CT_NAK, CT_UNLINK, the cache and an inactive link *)
LEMMA AnswerShrinks ==
    ASSUME NEW w \in World, NEW p \in Protocols, NEW i \in Outgoing(w, p), Agrees(w),
           SoundFor(w, w.slots[p][i].dest)
    PROVE  LET h == w.slots[p][i]
           IN  /\ Shrinks(w, Naked(w, p, i), h.dest)
               /\ Shrinks(w, Unlinked(w, p, i), h.dest)
               /\ Shrinks(w, FreeSlot(LinkLost(w, h.dest, h.ref), p, i), h.dest)
<1> DEFINE h == w.slots[p][i]
           r == h.dest
           lost == LinkLost(w, r, h.ref)
           refused == LinkRefused(w, r, h.ref)
<1>1. i \in Slots /\ h \in Handler /\ r \in Repeaters /\ h.ref \in Targets
      /\ h.state \in {"LINKING", "LINKED", "UNLINKING"}
  BY OutgoingHandler DEF Handler
<1>2. Shrinks(w, w, r)
  BY DEF Shrinks
<1>3. lost \in World /\ refused \in World
  BY <1>1, LinkLostType, LinkRefusedType
<1>4. ASSUME p # "DCS"
      PROVE  Shrinks(w, FreeSlot(lost, p, i), r) /\ Shrinks(w, FreeSlot(refused, p, i), r)
  <2>1. p \in {"DEXTRA", "DPLUS"}
    BY <1>4, SMTT(40) DEF Protocols
  <2>2. ~w.link[r].relink /\ w.link[r].target = h.ref /\ w.link[r].phase # "none"
    BY <2>1, StatusOfLink
  <2>3. lost = ClearLink(w, r) /\ refused = ClearLink(w, r)
    BY <1>1, <2>2, CallbackShape
  <2>4. lost.slots = w.slots
    BY <1>1, <2>2, <2>3, CallbackShape
  <2>5. Shrinks(w, FreeSlot(lost, p, i), w.slots[p][i].dest)
    BY <1>3, <2>1, <2>3, <2>4, ClearedShrinks
  <2>. QED BY <2>3, <2>5
<1>5. ASSUME p = "DCS"
      PROVE  /\ Shrinks(w, FreeSlot(w, p, i), r) /\ Shrinks(w, FreeSlot(lost, p, i), r)
             /\ Shrinks(w, FreeSlot(refused, p, i), r)
  BY <1>5, DCSEndShrinks
<1>6. p # "DCS" /\ (p = "DEXTRA" => h.state # "LINKED") => Shrinks(w, FreeSlot(w, p, i), r)
  BY QuietShrinks
<1>7. Shrinks(w, Naked(w, p, i), r)
  <2>1. CASE h.state = "LINKING" /\ p = "DPLUS"
    <3>1. Naked(w, p, i) = Send(FreeSlot(refused, p, i), p, "UNLINK", h)
      BY <2>1 DEF Naked
    <3>2. FreeSlot(refused, p, i) \in World /\ Shrinks(w, FreeSlot(refused, p, i), r)
      BY <1>1, <1>3, <1>4, <2>1, FreeSlotType
    <3> HIDE DEF h, refused
    <3>3. /\ Send(FreeSlot(refused, p, i), p, "UNLINK", h).link = FreeSlot(refused, p, i).link
          /\ Send(FreeSlot(refused, p, i), p, "UNLINK", h).slots = FreeSlot(refused, p, i).slots
      BY <1>1, <3>2, SendType
    <3>. QED BY <3>1, <3>2, <3>3, SentShrinks
  <2>2. CASE h.state = "LINKING" /\ p # "DPLUS"
    <3>1. Naked(w, p, i) = FreeSlot(refused, p, i)
      BY <2>2 DEF Naked
    <3>. QED BY <1>4, <1>5, <3>1
  <2>3. CASE h.state # "LINKING" /\ p = "DPLUS"
    <3>1. Naked(w, p, i) = FreeSlot(w, p, i)
      BY <2>3 DEF Naked
    <3>. QED BY <1>6, <2>3, <3>1
  <2>4. CASE h.state = "UNLINKING" /\ p = "DCS"
    <3>1. Naked(w, p, i) = FreeSlot(lost, p, i)
      BY <2>4 DEF Naked
    <3>. QED BY <1>5, <2>4, <3>1
  <2>5. CASE h.state # "LINKING" /\ p # "DPLUS" /\ ~(h.state = "UNLINKING" /\ p = "DCS")
    <3>1. Naked(w, p, i) = w
      BY <2>5 DEF Naked
    <3>. QED BY <1>2, <3>1
  <2>. QED BY <2>1, <2>2, <2>3, <2>4, <2>5
<1>8. Shrinks(w, Unlinked(w, p, i), r)
  <2>1. CASE p # "DPLUS" /\ h.state = "LINKED"
    <3>1. Unlinked(w, p, i) = FreeSlot(lost, p, i)
      BY <2>1 DEF Unlinked
    <3>. QED BY <1>4, <1>5, <3>1
  <2>2. CASE ~(p # "DPLUS" /\ h.state = "LINKED")
    <3>1. Unlinked(w, p, i) = FreeSlot(w, p, i)
      BY <2>2 DEF Unlinked
    <3>. QED BY <1>5, <1>6, <2>2, <3>1
  <2>. QED BY <2>1, <2>2
<1>. QED BY <1>4, <1>5, <1>7, <1>8

LEMMA InactiveSound ==
    ASSUME NEW w \in World, NEW p \in Protocols, NEW i \in Outgoing(w, p), Agrees(w),
           SoundFor(w, w.slots[p][i].dest)
    PROVE  Inactive(w, p, i) \in World /\ SoundFor(Inactive(w, p, i), w.slots[p][i].dest)
<1> DEFINE h == w.slots[p][i]
           r == h.dest
           again == [h EXCEPT !.state = "LINKING", !.trying = TRUE]
           retry == LinkRetry(w, r)
           u == SetSlot(retry, p, i, again)
           v == Inactive(w, p, i)
<1>1. i \in Slots /\ h \in Handler /\ r \in Repeaters /\ h.ref \in Targets /\ v \in World
  BY OutgoingHandler, InactiveType
<1>2. CASE WantsReconnect(w, r, p, h.ref)
  <2>1. retry = SetLink(w, r, "linking", w.link[r].via, w.link[r].target)
    BY <1>1 DEF LinkRetry, SetLink, World, LinkState
  <2>2. /\ retry.slots = w.slots /\ retry.link[r].phase = "linking"
        /\ retry.link[r].via = w.link[r].via /\ retry.link[r].target = w.link[r].target
        /\ retry.link[r].relink = w.link[r].relink /\ retry \in World
    <3>1. retry \in World
      BY <1>1, <1>2, LinkRetryType DEF WantsReconnect
    <3> HIDE DEF retry
    <3> DEFINE via == w.link[r].via   t == w.link[r].target
    <3> HIDE DEF via, t
    <3>3. retry = SetLink(w, r, "linking", via, t)
      BY <2>1, SMTT(40) DEF via, t
    <3>4. /\ retry.slots = w.slots /\ retry.link[r].phase = "linking"
          /\ retry.link[r].via = via /\ retry.link[r].target = t
          /\ retry.link[r].relink = w.link[r].relink
      BY <1>1, <3>3, SetLinkShape
    <3>. QED BY <3>1, <3>4 DEF via, t
  <2>3. again \in Handler /\ again.dest = r /\ again.ref = h.ref
    BY <1>1, HandlerChanges DEF Handler
  <2>4. v = Send(u, p, "LINK1", again)
    BY <1>2 DEF Inactive
  <2>5. h = w.slots[p][i]
    OBVIOUS
  <2> HIDE DEF h, r, again, retry, v
  <2>6. /\ u \in World /\ u.link = retry.link /\ u.slots[p][i] = again
        /\ \A q \in Protocols, j \in Slots : q # p \/ j # i => u.slots[q][j] = retry.slots[q][j]
    BY <1>1, <2>2, <2>3, SetSlotType, SMTT(40)
  <2>7. v.link = u.link /\ v.slots = u.slots
    BY <2>3, <2>4, <2>6, SendType
  <2> HIDE DEF u
  <2>8. ASSUME NEW q \in {"DEXTRA", "DPLUS"}, NEW j \in Slots
        PROVE  \/ v.slots[q][j] = w.slots[q][j]
               \/ /\ v.slots[q][j] \in Handler /\ w.slots[q][j] \in Handler
                  /\ v.slots[q][j].dest = w.slots[q][j].dest
                  /\ v.slots[q][j].ref = w.slots[q][j].ref
    <3>1. CASE q = p /\ j = i
      BY <1>1, <2>3, <2>5, <2>6, <2>7, <3>1 DEF r
    <3>2. CASE q # p \/ j # i
      BY <2>2, <2>6, <2>7, <3>2 DEF Protocols
    <3>. QED BY <3>1, <3>2
  <2>9. Renews(w, v, r)
    BY <2>2, <2>6, <2>7, <2>8 DEF Renews
  <2>10. SoundFor(w, r)
    BY DEF r, h
  <2>11. SoundFor(v, r)
    BY <1>1, <2>9, <2>10, RenewsSound
  <2>. QED BY <1>1, <2>11 DEF r, h, v
<1>3. CASE ~WantsReconnect(w, r, p, h.ref)
  <2>1. p = "DCS"
    <3> SUFFICES ASSUME p \in {"DEXTRA", "DPLUS"} PROVE FALSE
      BY SMTT(40) DEF Protocols
    <3>1. w.link[r].via = p /\ w.link[r].target = h.ref /\ w.link[r].phase \in {"linking", "linked"}
      BY StatusOfLink
    <3>. QED BY <1>3, <3>1 DEF WantsReconnect, TableOf
  <2>2. v = FreeSlot(w, p, i)
    BY <1>3 DEF Inactive
  <2>3. Shrinks(w, v, r)
    BY <2>1, <2>2, DCSEndShrinks
  <2>. QED BY <1>1, <2>3, ShrinksSound
<1>. QED BY <1>2, <1>3

(* CT_ACK brings up the link the status waits for, or a DCS link. *)
LEMMA AckedSound ==
    ASSUME NEW w \in World, NEW p \in Protocols, NEW i \in Outgoing(w, p),
           SoundFor(w, w.slots[p][i].dest)
    PROVE  /\ SoundFor(Acked(w, p, i), w.slots[p][i].dest)
           /\ Others(w, Acked(w, p, i), w.slots[p][i].dest)
<1> DEFINE h == w.slots[p][i]
           r == h.dest
           u == LinkUp(w, r, p)
           k == [h EXCEPT !.state = "LINKED", !.trying = FALSE]
           v == SetSlot(u, p, i, k)
<1>1. i \in Slots /\ h \in Handler /\ r \in Repeaters
  BY OutgoingHandler
<1>2. CASE h.state # "LINKING"
  <2>1. Acked(w, p, i) = w
    BY <1>2 DEF Acked
  <2>. QED BY <2>1 DEF Others
<1>3. CASE h.state = "LINKING"
  <2>1. Acked(w, p, i) = v
    BY <1>3, SMTT(40) DEF Acked
  <2>2. /\ u \in World /\ u.slots = w.slots
        /\ \A o \in Repeaters \ {r} : u.link[o] = w.link[o]
        /\ u.link[r].target = w.link[r].target /\ u.link[r].via = w.link[r].via
        /\ u.link[r].relink = w.link[r].relink
        /\ \/ u.link[r].phase = w.link[r].phase
           \/ /\ w.link[r].phase = "linking" /\ u.link[r].phase = "linked"
              /\ TableOf(w.link[r].via) = p
    BY <1>1, LinkUpShape, SMTT(40)
  <2>3. k \in Handler /\ k.dest = r /\ k.state = "LINKED" /\ k.ref = h.ref
        /\ h = w.slots[p][i] /\ r = h.dest /\ SoundFor(w, r)
    BY <1>1, HandlerChanges DEF Handler
  <2> HIDE DEF u, h, k, r
  <2>4. /\ v \in World /\ v.link = u.link /\ v.slots[p][i] = k
        /\ \A q \in Protocols, j \in Slots : q # p \/ j # i => v.slots[q][j] = w.slots[q][j]
    <3>1. u \in World /\ u.slots = w.slots
      BY <2>2
    <3>2. /\ v \in World /\ v.link = u.link /\ v.slots[p][i] = k
          /\ \A q \in Protocols, j \in Slots : q # p \/ j # i => v.slots[q][j] = u.slots[q][j]
      BY <1>1, <2>3, <3>1, SetSlotType
    <3>. QED BY <3>1, <3>2
  <2> HIDE DEF v
  <2>5. ASSUME NEW q \in {"DEXTRA", "DPLUS"}, NEW j \in Slots
        PROVE  \/ v.slots[q][j] = w.slots[q][j]
               \/ /\ v.slots[q][j] \in Handler /\ w.slots[q][j] \in Handler
                  /\ v.slots[q][j].dest = w.slots[q][j].dest
                  /\ v.slots[q][j].ref = w.slots[q][j].ref
    <3>1. CASE q = p /\ j = i
      BY <1>1, <2>3, <2>4, <3>1
    <3>2. CASE q # p \/ j # i
      BY <2>4, <3>2 DEF Protocols
    <3>. QED BY <3>1, <3>2
  <2>6. ASSUME v.link[r].phase = "linked", v.link[r].via = "DEXTRA"
        PROVE  \E j \in LinksOf(v, "DEXTRA", r) : v.slots["DEXTRA"][j].state = "LINKED"
    <3>1. CASE p = "DEXTRA"
      <4>1. i \in Outgoing(v, p)
        BY <1>1, <2>3, <2>4, HandlersOutgoing
      <4>. QED BY <2>3, <2>4, <3>1, <4>1 DEF LinksOf
    <3>2. CASE p # "DEXTRA"
      <4>1. w.link[r].phase = "linked"
        BY <2>2, <2>4, <2>6, <3>2, SMTT(40) DEF TableOf
      <4>2. PICK j \in LinksOf(w, "DEXTRA", r) : w.slots["DEXTRA"][j].state = "LINKED"
        BY <2>2, <2>3, <2>4, <2>6, <4>1 DEF SoundFor
      <4>3. j \in Slots /\ v.slots["DEXTRA"][j] = w.slots["DEXTRA"][j]
        BY <2>4, <3>2 DEF LinksOf, Outgoing, Protocols
      <4>. QED BY <4>2, <4>3 DEF LinksOf, Outgoing
    <3>. QED BY <3>1, <3>2
  <2>7. Renews(w, v, r)
    BY <2>2, <2>4, <2>5, <2>6 DEF Renews
  <2>8. SoundFor(v, r)
    BY <1>1, <2>3, <2>4, <2>7, RenewsSound
  <2>9. Others(w, v, r)
    <3>1. ASSUME NEW q \in Protocols, NEW j \in Slots
          PROVE  v.slots[q][j] = w.slots[q][j] \/ {v.slots[q][j], w.slots[q][j]} \subseteq Own(r)
      BY <1>1, <2>3, <2>4 DEF Own
    <3>. QED BY <2>2, <2>4, <3>1 DEF Others
  <2>. QED BY <2>1, <2>3, <2>8, <2>9
<1>. QED BY <1>2, <1>3

LEMMA GreetSound ==
    ASSUME NEW w \in World, NEW m, m.proto = "DPLUS", NEW i, AnswerReaches(w, m, i),
           SoundFor(w, w.slots["DPLUS"][i].dest)
    PROVE  SoundFor(GreetAt(w, m, i), w.slots["DPLUS"][i].dest)
<1> DEFINE h == w.slots["DPLUS"][i]
           r == h.dest
           k == [h EXCEPT !.trying = FALSE]
           u == SetSlot(w, "DPLUS", i, k)
           v == GreetAt(w, m, i)
<1>1. i \in Outgoing(w, "DPLUS") /\ "DPLUS" \in Protocols
  BY DEF AnswerReaches, Reaches, Protocols
<1>2. i \in Slots /\ h \in Handler /\ r \in Repeaters
  BY <1>1, OutgoingHandler
<1>3. v = Send(u, "DPLUS", "LINK2", h)
  BY DEF GreetAt
<1>4. v \in World
  BY GreetMoves
<1>5. k \in Handler /\ k.dest = r /\ k.ref = h.ref /\ h = w.slots["DPLUS"][i] /\ SoundFor(w, r)
  BY <1>2, HandlerChanges DEF Handler
<1> HIDE DEF h, r, k, v
<1>6. /\ u \in World /\ u.link = w.link /\ u.slots["DPLUS"][i] = k
      /\ \A q \in Protocols, j \in Slots : q # "DPLUS" \/ j # i => u.slots[q][j] = w.slots[q][j]
  BY <1>1, <1>2, <1>5, SetSlotType
<1>7. v.link = u.link /\ v.slots = u.slots
  BY <1>1, <1>2, <1>3, <1>6, SendType
<1> HIDE DEF u
<1>8. ASSUME NEW q \in {"DEXTRA", "DPLUS"}, NEW j \in Slots
      PROVE  \/ v.slots[q][j] = w.slots[q][j]
             \/ /\ v.slots[q][j] \in Handler /\ w.slots[q][j] \in Handler
                /\ v.slots[q][j].dest = w.slots[q][j].dest
                /\ v.slots[q][j].ref = w.slots[q][j].ref
  <2>1. CASE q = "DPLUS" /\ j = i
    BY <1>2, <1>5, <1>6, <1>7, <2>1 DEF r
  <2>2. CASE q # "DPLUS" \/ j # i
    BY <1>6, <1>7, <2>2 DEF Protocols
  <2>. QED BY <2>1, <2>2
<1>9. ASSUME v.link[r].phase = "linked", v.link[r].via = "DEXTRA"
      PROVE  \E j \in LinksOf(v, "DEXTRA", r) : v.slots["DEXTRA"][j].state = "LINKED"
  <2>1. PICK j \in LinksOf(w, "DEXTRA", r) : w.slots["DEXTRA"][j].state = "LINKED"
    BY <1>5, <1>6, <1>7, <1>9 DEF SoundFor
  <2>2. j \in Slots /\ v.slots["DEXTRA"][j] = w.slots["DEXTRA"][j]
    BY <1>6, <1>7 DEF LinksOf, Outgoing, Protocols
  <2>. QED BY <2>1, <2>2 DEF LinksOf, Outgoing
<1>10. Renews(w, v, r)
  BY <1>6, <1>7, <1>8, <1>9 DEF Renews
<1>11. SoundFor(v, r)
  BY <1>2, <1>4, <1>5, <1>10, RenewsSound
<1>. QED BY <1>11 DEF v, r, h

---------------------------------------------------------------------------
(* Every answer, timer and cache update leaves all repeaters sound. *)
AllSound(w) == \A r \in Repeaters : SoundFor(w, r)

LEMMA MovesOthers ==
    ASSUME NEW w, NEW v, NEW r, NEW t, Moves(w, v, r, t)
    PROVE  Others(w, v, r)
BY DEF Moves, Others

LEMMA OneMoved ==
    ASSUME NEW w \in World, NEW v \in World, NEW r \in Repeaters, Others(w, v, r), AllSound(w),
           SoundFor(v, r)
    PROVE  AllSound(v)
<1>1. ASSUME NEW o \in Repeaters PROVE SoundFor(v, o)
  <2>1. CASE o = r
    BY <2>1
  <2>2. CASE o # r
    BY <2>2, OthersSound DEF AllSound
  <2>. QED BY <2>1, <2>2
<1>. QED BY <1>1 DEF AllSound

(* Where the slots of a table change only between free and incoming, or    *)
(* just the wire does. *)
LEMMA NoneMoved ==
    ASSUME NEW w \in World, NEW v \in World, AllSound(w), v.link = w.link,
           \A p \in Protocols, i \in Slots :
              v.slots[p][i] = w.slots[p][i] \/ {v.slots[p][i], w.slots[p][i]} \subseteq {Free, Incoming}
    PROVE  AllSound(v)
<1>1. ASSUME NEW p \in Protocols, NEW r
      PROVE  /\ LinksOf(v, p, r) = LinksOf(w, p, r)
             /\ \A i \in LinksOf(w, p, r) : v.slots[p][i] = w.slots[p][i]
  BY DEF LinksOf, Outgoing
<1>. QED BY <1>1, SameLinksSound DEF AllSound, Protocols

LEMMA VisitsSound ==
    ASSUME NEW w \in World, NEW p \in Protocols, NEW i \in Outgoing(w, p), Agrees(w), AllSound(w)
    PROVE  /\ AllSound(Acked(w, p, i)) /\ AllSound(Naked(w, p, i)) /\ AllSound(Unlinked(w, p, i))
           /\ AllSound(Inactive(w, p, i))
           /\ AllSound(FreeSlot(LinkLost(w, w.slots[p][i].dest, w.slots[p][i].ref), p, i))
<1> DEFINE r == w.slots[p][i].dest
           gone == FreeSlot(LinkLost(w, r, w.slots[p][i].ref), p, i)
<1>1. r \in Repeaters /\ SoundFor(w, r)
  BY OutgoingHandler DEF AllSound
<1>2. AllSound(Acked(w, p, i))
  BY <1>1, AckedSound, AnswerType, OneMoved
<1>3. ASSUME NEW v \in World, Moves(w, v, r, NoTarget), Shrinks(w, v, r) PROVE AllSound(v)
  <2>1. SoundFor(v, r)
    BY <1>1, <1>3, ShrinksSound
  <2>. QED BY <1>1, <1>3, <2>1, MovesOthers, OneMoved
<1>4. /\ Naked(w, p, i) \in World /\ Moves(w, Naked(w, p, i), r, NoTarget)
      /\ Unlinked(w, p, i) \in World /\ Moves(w, Unlinked(w, p, i), r, NoTarget)
      /\ gone \in World /\ Moves(w, gone, r, NoTarget)
  BY AnswerType, AnswerMoves, GoneMoves
<1>5. Shrinks(w, Naked(w, p, i), r) /\ Shrinks(w, Unlinked(w, p, i), r) /\ Shrinks(w, gone, r)
  BY <1>1, AnswerShrinks
<1>6. AllSound(Inactive(w, p, i))
  <2>1. /\ Inactive(w, p, i) \in World /\ SoundFor(Inactive(w, p, i), r)
        /\ Moves(w, Inactive(w, p, i), r, NoTarget)
    BY <1>1, InactiveSound, AnswerMoves
  <2>. QED BY <1>1, <2>1, MovesOthers, OneMoved
<1> HIDE DEF r, gone
<1>7. AllSound(Naked(w, p, i)) /\ AllSound(Unlinked(w, p, i)) /\ AllSound(gone)
  BY <1>3, <1>4, <1>5
<1>. QED BY <1>2, <1>6, <1>7 DEF gone, r

LEMMA LoopsSound ==
    ASSUME NEW w \in World, Agrees(w), AllSound(w)
    PROVE  /\ \A m \in Request : AllSound(AckAll(w, m)) /\ AllSound(NakAll(w, m))
           /\ \A m \in Request : m.proto = "DPLUS" => AllSound(GreetAll(w, m))
           /\ \A p \in Protocols : \A q, t : AllSound(Dismiss(w, p, q, t))
           /\ \A p \in Protocols : \A g : AllSound(GatewayGone(w, p, g))
<1>1. ASSUME NEW m \in Request PROVE AllSound(AckAll(w, m)) /\ AllSound(NakAll(w, m))
  <2>1. m.proto \in Protocols
    BY DEF Request
  <2>2. \A u \in World : \A i : Agrees(u) /\ AllSound(u) =>
            /\ AckAt(u, m, i) \in World /\ Agrees(AckAt(u, m, i)) /\ AllSound(AckAt(u, m, i))
            /\ NakAt(u, m, i) \in World /\ Agrees(NakAt(u, m, i)) /\ AllSound(NakAt(u, m, i))
    BY <2>1, AnswerType, AnswerAgrees, VisitsSound DEF AckAt, NakAt, AnswerReaches, Reaches
  <2>. QED BY <2>2 DEF AckAll, NakAll, ForEachSlot
<1>2. ASSUME NEW m \in Request, m.proto = "DPLUS" PROVE AllSound(GreetAll(w, m))
  <2>1. \A u \in World : \A i : AllSound(u) => GreetAt(u, m, i) \in World /\ AllSound(GreetAt(u, m, i))
    <3> SUFFICES ASSUME NEW u \in World, NEW i, AllSound(u)
                 PROVE  GreetAt(u, m, i) \in World /\ AllSound(GreetAt(u, m, i))
      OBVIOUS
    <3>1. CASE ~AnswerReaches(u, m, i)
      BY <3>1 DEF GreetAt
    <3>2. CASE AnswerReaches(u, m, i)
      <4>1. i \in Outgoing(u, "DPLUS") /\ "DPLUS" \in Protocols
        BY <1>2, <3>2 DEF AnswerReaches, Reaches, Protocols
      <4>2. u.slots["DPLUS"][i].dest \in Repeaters
        BY <4>1, OutgoingHandler
      <4>3. /\ GreetAt(u, m, i) \in World
            /\ Moves(u, GreetAt(u, m, i), u.slots["DPLUS"][i].dest, NoTarget)
        BY <1>2, <3>2, GreetMoves
      <4>4. SoundFor(GreetAt(u, m, i), u.slots["DPLUS"][i].dest)
        BY <1>2, <3>2, <4>2, GreetSound DEF AllSound
      <4>. QED BY <4>2, <4>3, <4>4, MovesOthers, OneMoved
    <3>. QED BY <3>1, <3>2
  <2>. QED BY <2>1 DEF GreetAll, ForEachSlot
<1>3. ASSUME NEW p \in Protocols, NEW q, NEW t PROVE AllSound(Dismiss(w, p, q, t))
  <2>1. \A u \in World : \A i : Agrees(u) /\ AllSound(u) =>
            /\ DismissAt(u, p, q, t, i) \in World /\ Agrees(DismissAt(u, p, q, t, i))
            /\ AllSound(DismissAt(u, p, q, t, i))
    BY AnswerType, AnswerAgrees, VisitsSound DEF DismissAt, Reaches
  <2>. QED BY <2>1 DEF Dismiss, ForEachSlot
<1>4. ASSUME NEW p \in Protocols, NEW g PROVE AllSound(GatewayGone(w, p, g))
  <2>1. \A u \in World : \A i : Agrees(u) /\ AllSound(u) =>
            GoneAt(u, p, g, i) \in World /\ Agrees(GoneAt(u, p, g, i)) /\ AllSound(GoneAt(u, p, g, i))
    BY OutgoingHandler, LinkLostType, CallbacksAgree, FreeSlotType, FreeSlotAgrees, VisitsSound
       DEF GoneAt
  <2>. QED BY <2>1 DEF GatewayGone, ForEachSlot
<1>. QED BY <1>1, <1>2, <1>3, <1>4

LEMMA BecomesSound ==
    ASSUME NEW v, link' = v.link, slots' = v.slots, AllSound(v)
    PROVE  AllSound(W)'
BY DEF AllSound, SoundFor, LinksOf, Outgoing, W

LEMMA NetworkStepSound ==
    ASSUME TypeOK, ProtocolsAgree, AllSound(W),
           \/ \E m \in wire : Ack(m) \/ Nak(m) \/ Greet(m) \/ Lose(m)
           \/ \E g \in {GatewayOf[t] : t \in Targets} : GatewayRemoved(g)
           \/ \E p \in Protocols, i \in Slots :
                 TryExpires(p, i) \/ PollInactivity(p, i) \/ ReflectorDrops(p, i) \/ IncomingCloses(p, i)
           \/ \E p \in Protocols : IncomingOpens(p)
    PROVE  AllSound(W)'
<1>0. W \in World /\ Agrees(W) /\ wire \subseteq Request
  BY DEF TypeOK, ProtocolsAgree, W, World
<1>1. ASSUME NEW v, Becomes(v), AllSound(v) PROVE AllSound(W)'
  BY <1>1, BecomesSound DEF Becomes
<1>2. ASSUME NEW v \in World, Becomes(v), v.link = W.link, v.slots = W.slots PROVE AllSound(W)'
  <2>1. AllSound(v)
    BY <1>0, <1>2, NoneMoved
  <2>. QED BY <1>1, <1>2, <2>1
<1>3. ASSUME NEW m \in wire, NEW v \in Delivered(m)
      PROVE  v \in World /\ v.link = W.link /\ v.slots = W.slots /\ m \in Request
             /\ Agrees(v) /\ AllSound(v)
  <2>1. v \in World /\ v.link = W.link /\ v.slots = W.slots /\ m \in Request
    BY <1>0, <1>3 DEF Delivered, World
  <2>2. Agrees(v) /\ AllSound(v)
    BY <1>0, <2>1, SameTablesAgree, NoneMoved
  <2>. QED BY <2>1, <2>2
<1>4. ASSUME NEW m \in wire, Ack(m) \/ Nak(m) \/ Greet(m) PROVE AllSound(W)'
  <2>1. PICK v \in Delivered(m) : \/ Becomes(AckAll(v, m)) \/ Becomes(NakAll(v, m))
                                  \/ (m.proto = "DPLUS" /\ Becomes(GreetAll(v, m)))
    BY <1>4 DEF Ack, Nak, Greet
  <2>2. v \in World /\ m \in Request /\ Agrees(v) /\ AllSound(v)
    BY <1>3
  <2>3. /\ AllSound(AckAll(v, m)) /\ AllSound(NakAll(v, m))
        /\ m.proto = "DPLUS" => AllSound(GreetAll(v, m))
    BY <2>2, LoopsSound
  <2>. QED BY <1>1, <2>1, <2>3
<1>5. ASSUME NEW m \in wire, Lose(m) PROVE AllSound(W)'
  <2>1. [W EXCEPT !.wire = @ \ {m}] \in Delivered(m)
    BY DEF Delivered
  <2>. QED BY <1>2, <1>3, <1>5, <2>1 DEF Lose
<1>6. ASSUME NEW g, GatewayRemoved(g) PROVE AllSound(W)'
  <2> DEFINE u == GatewayGone(W, "DEXTRA", g)
             v == GatewayGone(u, "DPLUS", g)
  <2>1. u \in World /\ Agrees(u) /\ AllSound(u) /\ Becomes(v)
    BY <1>0, <1>6, GatewayGoneType, GatewayGoneAgrees, LoopsSound DEF Protocols, GatewayRemoved
  <2> HIDE DEF u
  <2>2. AllSound(v)
    BY <2>1, LoopsSound DEF Protocols
  <2>. QED BY <1>1, <2>1, <2>2
<1>7. ASSUME NEW p \in Protocols, NEW i \in Slots, TryExpires(p, i) PROVE AllSound(W)'
  <2>1. slots[p][i] \in Handler
    BY <1>0, <1>7, OutgoingHandler DEF TryExpires, W
  <2>2. \A kind \in {"LINK1", "UNLINK"} :
           /\ Send(W, p, kind, slots[p][i]) \in World
           /\ Send(W, p, kind, slots[p][i]).link = W.link
           /\ Send(W, p, kind, slots[p][i]).slots = W.slots
    BY <1>0, <2>1, SendType
  <2>. QED BY <1>2, <1>7, <2>2 DEF TryExpires
<1>8. ASSUME NEW p \in Protocols, NEW i \in Slots, PollInactivity(p, i) PROVE AllSound(W)'
  BY <1>0, <1>1, <1>8, VisitsSound DEF PollInactivity
<1>9. ASSUME NEW p \in Protocols, NEW i \in Slots, ReflectorDrops(p, i) PROVE AllSound(W)'
  BY <1>0, <1>1, <1>9, LoopsSound DEF ReflectorDrops
<1>10. ASSUME NEW p \in Protocols, NEW i \in Slots, NEW h \in {Free, Incoming},
              W.slots[p][i] \in {Free, Incoming}, Becomes(SetSlot(W, p, i, h))
       PROVE  AllSound(W)'
  <2> DEFINE v == SetSlot(W, p, i, h)
  <2>1. /\ v \in World /\ v.link = W.link /\ v.slots[p][i] = h
        /\ \A q \in Protocols, j \in Slots : q # p \/ j # i => v.slots[q][j] = W.slots[q][j]
    BY <1>0, SetSlotType
  <2> HIDE DEF v
  <2>2. \A q \in Protocols, j \in Slots :
           v.slots[q][j] = W.slots[q][j] \/ {v.slots[q][j], W.slots[q][j]} \subseteq {Free, Incoming}
    BY <1>10, <2>1
  <2>3. AllSound(v)
    BY <1>0, <2>1, <2>2, NoneMoved
  <2>4. AllSound(SetSlot(W, p, i, h))
    BY <2>3 DEF v
  <2>. QED BY <1>1, <1>10, <2>4
<1>11. ASSUME NEW p \in Protocols, NEW i \in Slots, IncomingCloses(p, i) PROVE AllSound(W)'
  BY <1>10, <1>11 DEF IncomingCloses, FreeSlot, W
<1>12. ASSUME NEW p \in Protocols, IncomingOpens(p) PROVE AllSound(W)'
  <2> DEFINE idle == {i \in Slots : slots[p][i] = Free}
  <2>1. Min(idle) \in idle
    BY <1>12, MinOfSlots DEF IncomingOpens, Slots
  <2>2. Min(idle) \in Slots /\ W.slots[p][Min(idle)] \in {Free, Incoming}
    BY <2>1 DEF W
  <2>3. Becomes(SetSlot(W, p, Min(idle), Incoming))
    BY <1>12 DEF IncomingOpens
  <2> HIDE DEF idle
  <2>. QED BY <1>10, <2>2, <2>3
<1>. QED BY <1>4, <1>5, <1>6, <1>7, <1>8, <1>9, <1>11, <1>12

---------------------------------------------------------------------------
(* Commands: a repeater unlinks before it links. *)
Dead(w, r) == ~w.link[r].relink /\ LinksOf(w, "DEXTRA", r) = {} /\ LinksOf(w, "DPLUS", r) = {}

LEMMA DeadSound ==
    ASSUME NEW w, NEW r, Dead(w, r), w.link[r].phase # "linked"
    PROVE  SoundFor(w, r)
BY DEF Dead, SoundFor

LEMMA DeadStatus ==
    ASSUME NEW w, NEW v, NEW r, Dead(w, r), v.slots = w.slots, v.link[r].relink = w.link[r].relink
    PROVE  Dead(v, r)
BY DEF Dead, LinksOf, Outgoing

(* The first link of a repeater fits the status it was opened for. *)
LEMMA HandlerLinkSound ==
    ASSUME NEW w \in World, NEW p \in Protocols, NEW r \in Repeaters, NEW t \in Targets,
           Dead(w, r), w.link[r].phase = "linking", TableOf(w.link[r].via) = p,
           w.link[r].target = t
    PROVE  SoundFor(HandlerLink(w, p, r, t), r)
<1> DEFINE v == HandlerLink(w, p, r, t)
<1>1. CASE v = w
  BY <1>1, DeadSound
<1>2. CASE v # w
  <2>1. PICK i \in Slots, h \in Handler :
                 /\ w.slots[p][i] = Free /\ h.dest = r /\ h.ref = t
                 /\ v = Send(SetSlot(w, p, i, h), p, "LINK1", h)
    BY <1>2, HandlerLinkShape
  <2> DEFINE u == SetSlot(w, p, i, h)
  <2>2. /\ u \in World /\ u.link = w.link /\ u.slots[p][i] = h
        /\ \A q \in Protocols, j \in Slots : q # p \/ j # i => u.slots[q][j] = w.slots[q][j]
    BY SetSlotType
  <2>3. v = Send(u, p, "LINK1", h)
    BY <2>1
  <2> HIDE DEF u, v
  <2>4. v.link = w.link /\ v.slots = u.slots
    BY <2>2, <2>3, SendType
  <2>5. ASSUME NEW q \in {"DEXTRA", "DPLUS"}, NEW j \in LinksOf(v, q, r)
        PROVE  q = p /\ j = i
    <3> SUFFICES ASSUME q # p \/ j # i PROVE FALSE
      OBVIOUS
    <3>1. j \in Slots /\ q \in Protocols
      BY DEF LinksOf, Outgoing, Protocols
    <3>2. v.slots[q][j] = w.slots[q][j]
      BY <2>2, <2>4, <3>1
    <3>3. j \in LinksOf(w, q, r)
      BY <3>1, <3>2 DEF LinksOf, Outgoing
    <3>. QED BY <3>3 DEF Dead
  <2>6. ASSUME NEW q \in {"DEXTRA", "DPLUS"}, NEW j \in LinksOf(v, q, r)
        PROVE  v.link[r].via = q /\ v.link[r].target = v.slots[q][j].ref
    <3>1. q = p /\ j = i
      BY <2>5
    <3>2. w.link[r].via = q
      BY <3>1 DEF TableOf
    <3>. QED BY <2>1, <2>2, <2>4, <3>1, <3>2
  <2>7. SoundFor(v, r)
    BY <2>4, <2>5, <2>6 DEF SoundFor, Dead
  <2>. QED BY <2>7 DEF v
<1>. QED BY <1>1, <1>2

LEMMA LinkIntSound ==
    ASSUME NEW w \in World, NEW r \in Repeaters, NEW t \in Targets \cup {NoTarget},
           Dead(w, r), SoundFor(w, r)
    PROVE  SoundFor(LinkInt(w, r, t), r)
<1>1. CASE t \in Reserved \ Known
  BY <1>1 DEF LinkInt
<1>2. CASE t \in Known
  <2> DEFINE via == ViaOf[t]
             v == SetLink(w, r, "linking", via, t)
             n == SetLink(w, r, "none", "-", t)
  <2>1. t \in Targets /\ via \in Vias /\ via # "-" /\ TableOf(via) \in Protocols
    BY <1>2, LinkAssumption DEF Vias, Protocols, TableOf
  <2>2. LinkInt(w, r, t) \in {HandlerLink(v, TableOf(via), r, t), n}
    BY <1>2 DEF LinkInt
  <2> HIDE DEF via
  <2>3. /\ v \in World /\ v.slots = w.slots /\ v.link[r].phase = "linking" /\ v.link[r].via = via
        /\ v.link[r].target = t /\ v.link[r].relink = w.link[r].relink
    BY <2>1, SetLinkType, SetLinkShape DEF Phases
  <2>4. n.slots = w.slots /\ n.link[r].phase = "none" /\ n.link[r].relink = w.link[r].relink
    BY <2>1, SetLinkShape
  <2> HIDE DEF v, n
  <2>5. Dead(v, r) /\ Dead(n, r)
    BY <2>3, <2>4, DeadStatus
  <2>6. SoundFor(HandlerLink(v, TableOf(via), r, t), r)
    BY <2>1, <2>3, <2>5, HandlerLinkSound
  <2>7. SoundFor(n, r)
    BY <2>4, <2>5, DeadSound
  <2>. QED BY <2>2, <2>6, <2>7
<1>3. CASE t \notin Known /\ t \notin Reserved
  <2> DEFINE v == SetLink(w, r, "pending", "-", t)
             q == [v EXCEPT !.link[r].query = TRUE]
             n == SetLink(w, r, "none", "-", t)
  <2>1. LinkInt(w, r, t) \in {q, n}
    BY <1>3 DEF LinkInt
  <2>2. /\ v \in World /\ v.slots = w.slots /\ v.link[r].phase = "pending"
        /\ v.link[r].relink = w.link[r].relink
    BY SetLinkType, SetLinkShape DEF Phases
  <2>3. n.slots = w.slots /\ n.link[r].phase = "none" /\ n.link[r].relink = w.link[r].relink
    BY SetLinkShape
  <2> HIDE DEF v, n
  <2>4. q.slots = v.slots /\ q.link[r].phase = v.link[r].phase /\ q.link[r].relink = v.link[r].relink
    BY <2>2, FlagShape
  <2> HIDE DEF q
  <2>5. Dead(q, r) /\ Dead(n, r)
    BY <2>2, <2>3, <2>4, DeadStatus
  <2>. QED BY <2>1, <2>2, <2>3, <2>4, <2>5, DeadSound
<1>. QED BY <1>1, <1>2, <1>3

LEMMA SameStatusSound ==
    ASSUME NEW w, NEW v, NEW r, SoundFor(w, r), v.slots = w.slots,
           v.link[r].phase = w.link[r].phase, v.link[r].via = w.link[r].via,
           v.link[r].target = w.link[r].target, v.link[r].relink = w.link[r].relink
    PROVE  SoundFor(v, r)
BY DEF SoundFor, LinksOf, Outgoing

LEMMA ClearDeadSound ==
    ASSUME NEW w \in World, NEW r \in Repeaters, Dead(w, r)
    PROVE  SoundFor(ClearLink(w, r), r)
<1> DEFINE v == ClearLink(w, r)
<1>1. v.slots = w.slots /\ v.link[r].phase = "none" /\ v.link[r].relink = w.link[r].relink
  BY SetLinkShape DEF ClearLink
<1> HIDE DEF v
<1>2. SoundFor(v, r)
  BY <1>1, DeadStatus, DeadSound
<1>. QED BY <1>2 DEF v

(* exclude = true with an empty callsign: no DExtra or D-Plus link stays. *)
LEMMA UnlinkExceptSound ==
    ASSUME NEW w \in World, NEW p \in Protocols, NEW r \in Repeaters, SoundFor(w, r)
    PROVE  LET v == UnlinkExcept(w, p, r, NoTarget)
           IN  /\ v \in World /\ SoundFor(v, r)
               /\ \A q \in {"DEXTRA", "DPLUS"} : LinksOf(v, q, r) \subseteq LinksOf(w, q, r)
               /\ p # "DCS" => LinksOf(v, p, r) = {}
<1> DEFINE V(u, i) == DropOther(u, p, r, NoTarget, i)
<1>1. ASSUME NEW u \in World, NEW i, SoundFor(u, r)
      PROVE  /\ V(u, i) \in World /\ SoundFor(V(u, i), r)
             /\ \A q \in {"DEXTRA", "DPLUS"} : LinksOf(V(u, i), q, r) \subseteq LinksOf(u, q, r)
             /\ p # "DCS" => i \notin LinksOf(V(u, i), p, r)
  <2>1. CASE i \notin LinksOf(u, p, r)
    BY <1>1, <2>1 DEF DropOther
  <2>2. CASE i \in LinksOf(u, p, r)
    <3> DEFINE x == Drop(u, p, i)
    <3>1. i \in Outgoing(u, p) /\ u.slots[p][i].dest = r
      BY <2>2 DEF LinksOf
    <3>2. u.slots[p][i].ref # NoTarget
      BY <3>1, OutgoingHandler, LinkAssumption
    <3>3. V(u, i) = x
      BY <2>2, <3>2 DEF DropOther
    <3>4. x \in World /\ Shrinks(u, x, r) /\ (p # "DCS" => x.slots[p][i] = Free)
      BY <1>1, <3>1, DropType, DropShrinks
    <3> HIDE DEF x, V
    <3>5. /\ SoundFor(x, r)
          /\ \A q \in {"DEXTRA", "DPLUS"} : LinksOf(x, q, r) \subseteq LinksOf(u, q, r)
      BY <1>1, <3>4, ShrinksSound
    <3>6. p # "DCS" => i \notin LinksOf(x, p, r)
      BY <3>4 DEF LinksOf, Outgoing
    <3>. QED BY <3>3, <3>4, <3>5, <3>6
  <2>. QED BY <2>1, <2>2
<1> DEFINE w1 == V(w, 1)   w2 == V(w1, 2)  w3 == V(w2, 3)  w4 == V(w3, 4)  w5 == V(w4, 5)
<1>2. UnlinkExcept(w, p, r, NoTarget) = w5
  BY DEF UnlinkExcept, ForEachSlot
<1> HIDE DEF V
<1>3. w1 \in World /\ SoundFor(w1, r)
  BY <1>1
<1>4. w2 \in World /\ SoundFor(w2, r)
  BY <1>1, <1>3
<1>5. w3 \in World /\ SoundFor(w3, r)
  BY <1>1, <1>4
<1>6. w4 \in World /\ SoundFor(w4, r)
  BY <1>1, <1>5
<1>7. w5 \in World /\ SoundFor(w5, r)
  BY <1>1, <1>6
<1>8. \A q \in {"DEXTRA", "DPLUS"} :
         /\ LinksOf(w1, q, r) \subseteq LinksOf(w, q, r)
         /\ LinksOf(w2, q, r) \subseteq LinksOf(w1, q, r)
         /\ LinksOf(w3, q, r) \subseteq LinksOf(w2, q, r)
         /\ LinksOf(w4, q, r) \subseteq LinksOf(w3, q, r)
         /\ LinksOf(w5, q, r) \subseteq LinksOf(w4, q, r)
  BY <1>1, <1>3, <1>4, <1>5, <1>6
<1>9. p # "DCS" => /\ 1 \notin LinksOf(w1, p, r) /\ 2 \notin LinksOf(w2, p, r)
                   /\ 3 \notin LinksOf(w3, p, r) /\ 4 \notin LinksOf(w4, p, r)
                   /\ 5 \notin LinksOf(w5, p, r)
  BY <1>1, <1>3, <1>4, <1>5, <1>6
<1> HIDE DEF w1, w2, w3, w4, w5
<1>10. \A q \in {"DEXTRA", "DPLUS"} : LinksOf(w5, q, r) \subseteq LinksOf(w, q, r)
  BY <1>8
<1>11. ASSUME p # "DCS" PROVE LinksOf(w5, p, r) = {}
  <2>1. p \in {"DEXTRA", "DPLUS"}
    BY <1>11 DEF Protocols
  <2>2. \A i \in {1, 2, 3, 4, 5} : i \notin LinksOf(w5, p, r)
    BY <1>8, <1>9, <1>11, <2>1
  <2>3. Slots \subseteq {1, 2, 3, 4, 5}
    BY LinkAssumption DEF Slots
  <2>. QED BY <2>2, <2>3 DEF LinksOf, Outgoing
<1>. QED BY <1>2, <1>7, <1>10, <1>11

LEMMA UnlinkOnlySound ==
    ASSUME NEW w \in World, NEW p \in Protocols, NEW r \in Repeaters, NEW t, SoundFor(w, r)
    PROVE  SoundFor(UnlinkOnly(w, p, r, t), r)
<1>1. \A u \in World : \A i : SoundFor(u, r) =>
          DropThat(u, p, r, t, i) \in World /\ SoundFor(DropThat(u, p, r, t, i), r)
  <2> SUFFICES ASSUME NEW u \in World, NEW i, SoundFor(u, r), i \in LinksOf(u, p, r)
               PROVE  Drop(u, p, i) \in World /\ SoundFor(Drop(u, p, i), r)
    BY DEF DropThat
  <2>1. i \in Outgoing(u, p) /\ u.slots[p][i].dest = r
    BY DEF LinksOf
  <2>. QED BY <2>1, DropType, DropShrinks, ShrinksSound
<1>. QED BY <1>1 DEF UnlinkOnly, ForEachSlot

LEMMA UnlinkAllDead ==
    ASSUME NEW w \in World, NEW r \in Repeaters, SoundFor(w, r)
    PROVE  /\ UnlinkAll(w, r) \in World /\ SoundFor(UnlinkAll(w, r), r) /\ Dead(UnlinkAll(w, r), r)
<1> DEFINE u == UnlinkExcept(w, "DEXTRA", r, NoTarget)
           v == UnlinkExcept(u, "DPLUS", r, NoTarget)
           x == UnlinkExcept(v, "DCS", r, NoTarget)
<1>1. UnlinkAll(w, r) = x
  BY DEF UnlinkAll
<1>2. "DEXTRA" \in Protocols /\ "DPLUS" \in Protocols /\ "DCS" \in Protocols
  BY DEF Protocols
<1>3. u \in World /\ SoundFor(u, r) /\ LinksOf(u, "DEXTRA", r) = {}
  BY <1>2, UnlinkExceptSound
<1> HIDE DEF u
<1>4. v \in World /\ SoundFor(v, r) /\ LinksOf(v, "DEXTRA", r) = {} /\ LinksOf(v, "DPLUS", r) = {}
  BY <1>2, <1>3, UnlinkExceptSound
<1> HIDE DEF v
<1>5. x \in World /\ SoundFor(x, r) /\ LinksOf(x, "DEXTRA", r) = {} /\ LinksOf(x, "DPLUS", r) = {}
  BY <1>2, <1>4, UnlinkExceptSound
<1> HIDE DEF x
<1>. QED BY <1>1, <1>5 DEF Dead, SoundFor

LEMMA CommandsSound ==
    ASSUME NoOtherModules, NEW w \in World, NEW r \in Repeaters, SoundFor(w, r)
    PROVE  /\ SoundFor(Unlink(w, r), r)
           /\ \A t \in Targets : 
                 ~(w.link[r].phase # "none" /\ w.link[r].target = t) => SoundFor(LinkTo(w, r, t), r)
           /\ w.link[r].phase = "none" => SoundFor(StartupInt(w, r), r)
<1>1. SoundFor(Unlink(w, r), r)
  BY UnlinkAllDead, ClearDeadSound DEF Unlink
<1>2. ASSUME NEW t \in Targets, ~(w.link[r].phase # "none" /\ w.link[r].target = t)
      PROVE  SoundFor(LinkTo(w, r, t), r)
  <2>1. w.link[r].target \in Targets \cup {NoTarget}
    BY DEF World, LinkState
  <2>2. ~SameGateway(w.link[r], t)
    BY <1>2, <2>1 DEF SameGateway, NoOtherModules
  <2>3. LinkTo(w, r, t) = LinkInt(UnlinkAll(w, r), r, t)
    BY <2>2 DEF LinkTo
  <2>. QED BY <2>3, UnlinkAllDead, LinkIntSound
<1>3. ASSUME w.link[r].phase = "none" PROVE SoundFor(StartupInt(w, r), r)
  <2> DEFINE t == Startup[r]
             v == SetLink(w, r, "pending", "-", t)
             q == [v EXCEPT !.link[r].query = TRUE]
             n == SetLink(w, r, "none", "-", t)
  <2>1. t \in Targets \cup {NoTarget}
    BY ControlAssumption
  <2>2. w.link[r].via = "-"
    BY <1>3 DEF World, LinkState, Phases
  <2>3. Dead(w, r)
    BY <2>2 DEF SoundFor, Dead
  <2>4. StartupInt(w, r) \in {w, LinkInt(w, r, t), q, n}
    BY DEF StartupInt
  <2>5. /\ v \in World /\ v.slots = w.slots /\ v.link[r].phase = "pending"
        /\ v.link[r].relink = w.link[r].relink
    BY <2>1, SetLinkType, SetLinkShape DEF Phases
  <2>6. n.slots = w.slots /\ n.link[r].phase = "none" /\ n.link[r].relink = w.link[r].relink
    BY SetLinkShape
  <2> HIDE DEF v, n, t
  <2>7. q.slots = v.slots /\ q.link[r].phase = v.link[r].phase /\ q.link[r].relink = v.link[r].relink
    BY <2>5, FlagShape
  <2> HIDE DEF q
  <2>8. SoundFor(q, r) /\ SoundFor(n, r)
    BY <2>3, <2>5, <2>6, <2>7, DeadStatus, DeadSound
  <2>9. SoundFor(LinkInt(w, r, t), r)
    BY <2>1, <2>3, LinkIntSound
  <2>. QED BY <2>4, <2>8, <2>9
<1>. QED BY <1>1, <1>2, <1>3

LEMMA FlagSound ==
    ASSUME NEW w \in World, NEW r \in Repeaters, NEW b \in BOOLEAN, SoundFor(w, r)
    PROVE  [w EXCEPT !.link[r].query = b] \in World /\ SoundFor([w EXCEPT !.link[r].query = b], r)
<1> DEFINE v == [w EXCEPT !.link[r].query = b]
<1>1. /\ v.slots = w.slots /\ v.link[r].phase = w.link[r].phase /\ v.link[r].via = w.link[r].via
      /\ v.link[r].target = w.link[r].target /\ v.link[r].relink = w.link[r].relink
  BY FlagShape
<1>2. v \in World
  BY SetFlagType
<1> HIDE DEF v
<1>3. SoundFor(v, r)
  BY <1>1, SameStatusSound
<1>. QED BY <1>2, <1>3 DEF v

LEMMA AfterHeaderSound ==
    ASSUME TypeOK, NEW r \in Repeaters, SoundFor(W, r)
    PROVE  AfterHeader(r) \in World /\ SoundFor(AfterHeader(r), r)
<1> DEFINE b == IF g2query[r] THEN FALSE ELSE W.link[r].query
<1>1. W \in World /\ W.link[r] \in LinkState
  BY DEF TypeOK, World
<1>2. b \in BOOLEAN
  BY <1>1 DEF LinkState
<1>3. AfterHeader(r) = [W EXCEPT !.link[r].query = b]
  BY <1>1 DEF AfterHeader, World
<1> HIDE DEF b
<1>4. \A c \in BOOLEAN : /\ [W EXCEPT !.link[r].query = c] \in World
                         /\ SoundFor([W EXCEPT !.link[r].query = c], r)
  BY <1>1, FlagSound
<1>. QED BY <1>2, <1>3, <1>4

(* What a radio user's header asks for: the status it was compared with is *)
(* the one the command finds.                                              *)
LEMMA RadioSound ==
    ASSUME NoOtherModules, NEW w \in World, NEW r \in Repeaters, SoundFor(w, r)
    PROVE  /\ SoundFor(RfUnlinkEffect(r, w), r)
           /\ \A t \in Targets : SoundFor(RfLinkEffect(r, t, w), r)
<1> DEFINE c == Command(r, w)
<1>1. c \in World /\ SoundFor(c, r)
  BY FlagSound DEF Command
<1>2. c.link[r].phase = w.link[r].phase /\ c.link[r].target = w.link[r].target
  BY FlagShape DEF Command
<1>3. RfUnlinkEffect(r, w) \in {w, c, Unlink(c, r)}
  BY DEF RfUnlinkEffect
<1>4. ASSUME NEW t \in Targets
      PROVE  RfLinkEffect(r, t, w) = c \/
                (~(w.link[r].phase # "none" /\ w.link[r].target = t) /\ RfLinkEffect(r, t, w) = LinkTo(c, r, t))
  BY DEF RfLinkEffect
<1> HIDE DEF c
<1>5. SoundFor(Unlink(c, r), r)
  BY <1>1, CommandsSound
<1>6. ASSUME NEW t \in Targets PROVE SoundFor(RfLinkEffect(r, t, w), r)
  <2>1. ~(w.link[r].phase # "none" /\ w.link[r].target = t) => SoundFor(LinkTo(c, r, t), r)
    BY <1>1, <1>2, CommandsSound
  <2>. QED BY <1>1, <1>4, <2>1
<1>. QED BY <1>1, <1>3, <1>5, <1>6

LEMMA RepeaterStepSound ==
    ASSUME NoOtherModules, TypeOK, AllSound(W), NEW r \in Repeaters,
           CommandTo(r) \/ G2Query(r) \/ G2Done(r) \/ Start(r),
           Start(r) => link[r].phase = "none"
    PROVE  AllSound(W)'
<1>0. /\ W \in World /\ link[r] = W.link[r] /\ link[r] \in LinkState /\ SoundFor(W, r)
      /\ Startup[r] \in Targets \cup {NoTarget}
  BY ControlAssumption DEF TypeOK, W, World, AllSound
<1>1. PICK v \in World : /\ link' = v.link /\ slots' = v.slots
                         /\ \E t : Moves(W, v, r, t)
  BY RepeaterStepMoves
<1>2. SUFFICES SoundFor(v, r)
  BY <1>0, <1>1, MovesOthers, OneMoved, BecomesSound
<1>3. ASSUME NEW u, Becomes(u), SoundFor(u, r) PROVE SoundFor(v, r)
  BY <1>1, <1>3 DEF Becomes, SoundFor, LinksOf, Outgoing
<1>4. AfterHeader(r) \in World /\ SoundFor(AfterHeader(r), r)
  BY <1>0, AfterHeaderSound
<1>5. CASE RfHeader(r)
  BY <1>3, <1>4, <1>5 DEF RfHeader
<1>6. CASE RfUnlink(r)
  <2>1. PICK w \in {W, AfterHeader(r)} : Becomes(RfUnlinkEffect(r, w))
    BY <1>6 DEF RfUnlink
  <2>. QED BY <1>0, <1>3, <1>4, <2>1, RadioSound
<1>7. ASSUME NEW t \in Targets, RfLink(r, t) PROVE SoundFor(v, r)
  <2>1. PICK w \in {W, AfterHeader(r)} : Becomes(RfLinkEffect(r, t, w))
    BY <1>7 DEF RfLink
  <2>. QED BY <1>0, <1>3, <1>4, <2>1, RadioSound
<1>8. SoundFor(Unlink(W, r), r)
  BY <1>0, CommandsSound
<1>9. ASSUME NEW t \in Targets, ~(link[r].phase # "none" /\ link[r].target = t)
      PROVE  SoundFor(LinkTo(W, r, t), r)
  BY <1>0, <1>9, CommandsSound
<1>10. ASSUME NEW t \in Targets \cup {NoTarget}, NEW mode \in RemoteModes, RemoteLink(r, t, mode)
       PROVE  SoundFor(v, r)
  <2>1. \/ Becomes(W) \/ Becomes(Unlink(W, r))
        \/ (t # NoTarget /\ ~(link[r].phase # "none" /\ link[r].target = t) /\ Becomes(LinkTo(W, r, t)))
    BY <1>10 DEF RemoteLink
  <2>. QED BY <1>0, <1>3, <1>8, <1>9, <2>1
<1>11. ASSUME NEW p \in Protocols, NEW t \in Targets, RemoteUnlink(r, p, t) PROVE SoundFor(v, r)
  BY <1>0, <1>3, <1>11, UnlinkOnlySound DEF RemoteUnlink
<1>12. CASE ReconnectExpires(r)
  <2> DEFINE t == Startup[r]
  <2>1. \/ Becomes(W) \/ Becomes(Unlink(W, r))
        \/ (t # NoTarget /\ ~(link[r].phase # "none" /\ link[r].target = t) /\ Becomes(LinkTo(W, r, t)))
    BY <1>12 DEF ReconnectExpires
  <2>. QED BY <1>0, <1>3, <1>8, <1>9, <2>1
<1>13. CASE G2Query(r) \/ G2Done(r)
  BY <1>0, <1>3, <1>13, FlagSound DEF G2Query, G2Done
<1> DEFINE q == [W EXCEPT !.link[r].query = FALSE]
<1>14. q \in World /\ SoundFor(q, r)
  BY <1>0, FlagSound
<1>15. link[r].phase = "pending" => Dead(q, r)
  <2>1. q.link[r].via = W.link[r].via
    BY <1>0, FlagShape
  <2> HIDE DEF q
  <2>2. link[r].phase = "pending" => link[r].via = "-"
    BY <1>0 DEF LinkState
  <2>. QED BY <1>0, <1>14, <2>1, <2>2 DEF SoundFor, Dead
<1>16. link[r].phase = "pending" => SoundFor(ClearLink(q, r), r)
  <2> HIDE DEF q
  <2>. QED BY <1>14, <1>15, ClearDeadSound
<1>17. CASE QueryExpires(r)
  <2>1. Becomes(q) \/ (link[r].phase = "pending" /\ Becomes(ClearLink(q, r)))
    BY <1>17 DEF QueryExpires
  <2> HIDE DEF q
  <2>. QED BY <1>3, <1>14, <1>16, <2>1
<1>18. ASSUME NEW found \in BOOLEAN, IrcReply(r, found) PROVE SoundFor(v, r)
  <2> DEFINE t == link[r].target
             u == SetLink(q, r, "linking", "DEXTRA", t)
             x == HandlerLink(u, "DEXTRA", r, t)
  <2>1. t \in Targets /\ link[r].phase = "pending" /\ (Becomes(x) \/ Becomes(ClearLink(q, r)))
    BY <1>0, <1>18 DEF IrcReply, LinkState
  <2> HIDE DEF q, t
  <2>2. /\ u \in World /\ u.slots = q.slots /\ u.link[r].phase = "linking"
        /\ u.link[r].via = "DEXTRA" /\ u.link[r].target = t /\ u.link[r].relink = q.link[r].relink
    BY <1>14, <2>1, SetLinkType, SetLinkShape DEF Phases, Vias, Protocols
  <2> HIDE DEF u
  <2>3. Dead(u, r) /\ TableOf(u.link[r].via) = "DEXTRA"
    BY <1>15, <2>1, <2>2, DeadStatus DEF TableOf
  <2>4. SoundFor(x, r)
    BY <2>1, <2>2, <2>3, HandlerLinkSound DEF Protocols
  <2> HIDE DEF x
  <2>. QED BY <1>3, <1>16, <2>1, <2>4
<1>19. CASE Start(r)
  <2>1. SoundFor(StartupInt(W, r), r)
    BY <1>0, <1>19, CommandsSound
  <2>2. link' = StartupInt(W, r).link /\ slots' = StartupInt(W, r).slots
    BY <1>19 DEF Start
  <2> DEFINE u == StartupInt(W, r)
  <2>3. u.link = v.link /\ u.slots = v.slots /\ SoundFor(u, r)
    BY <1>1, <2>1, <2>2
  <2> HIDE DEF u
  <2>. QED BY <2>3 DEF SoundFor, LinksOf, Outgoing
<1>. QED
  BY <1>5, <1>6, <1>7, <1>10, <1>11, <1>12, <1>13, <1>17, <1>18, <1>19 DEF CommandTo

---------------------------------------------------------------------------
(* Nothing is linked before startup has visited a repeater, so that it may *)
(* link without unlinking first.                                           *)
StatusInv == AllSound(W) /\ \A r \in starting : link[r].phase = "none"

LEMMA StatusInit == Init => StatusInv
<1> SUFFICES ASSUME Init PROVE StatusInv
  OBVIOUS
<1>1. /\ \A r \in Repeaters : link[r] = Unlinked0
      /\ \A p \in Protocols, i \in Slots : slots[p][i] = Free
      /\ starting = Repeaters
  BY DEF Init
<1>2. \A p \in {"DEXTRA", "DPLUS"} : \A r : LinksOf(W, p, r) = {}
  BY <1>1 DEF LinksOf, Outgoing, W, Protocols
<1>3. \A r \in Repeaters : W.link[r] = Unlinked0
  BY <1>1 DEF W
<1>. QED BY <1>1, <1>2, <1>3 DEF StatusInv, AllSound, SoundFor, Unlinked0

LEMMA StatusNext ==
    NoOtherModules /\ TypeOK /\ ProtocolsAgree /\ StatusInv /\ [Next]_vars => StatusInv'
<1> SUFFICES ASSUME NoOtherModules, TypeOK, ProtocolsAgree, StatusInv, [Next]_vars PROVE StatusInv'
  OBVIOUS
<1>0. AllSound(W) /\ starting \subseteq Repeaters /\ W.link = link /\ W.slots = slots
  BY DEF StatusInv, TypeOK, W
<1>1. ASSUME NEW r \in Repeaters, Start(r) PROVE StatusInv'
  <2>1. r \in starting /\ starting' = starting \ {r}
    BY <1>1 DEF Start
  <2>2. AllSound(W)'
    BY <1>0, <1>1, <2>1, RepeaterStepSound DEF StatusInv
  <2>3. PICK v : link' = v.link /\ \E t : Moves(W, v, r, t)
    BY <1>1, RepeaterStepMoves
  <2>4. \A o \in starting' : link'[o] = link[o]
    BY <1>0, <2>1, <2>3 DEF Moves
  <2>5. \A o \in starting' : link'[o].phase = "none"
    BY <2>1, <2>4 DEF StatusInv
  <2>. QED BY <2>2, <2>5 DEF StatusInv
<1>2. CASE starting = {} /\ Turn
  <2>1. starting' = {}
    <3>1. ASSUME NEW r \in Repeaters PROVE CommandTo(r) \/ G2Query(r) \/ G2Done(r) => starting' = {} \/ Start(r)
      BY <1>2, <3>1 DEF CommandTo, RfHeader, RfUnlink, RfLink, RemoteLink, RemoteUnlink, ReconnectExpires,
                        G2Query, G2Done, QueryExpires, IrcReply, Becomes
    <3>2. ASSUME NEW m PROVE Ack(m) \/ Nak(m) \/ Greet(m) \/ Lose(m) => starting' = {}
      BY <1>2 DEF Ack, Nak, Greet, Lose, Becomes
    <3>3. ASSUME NEW g PROVE GatewayRemoved(g) => starting' = {}
      BY <1>2 DEF GatewayRemoved, Becomes
    <3>4. ASSUME NEW p, NEW i
          PROVE  TryExpires(p, i) \/ PollInactivity(p, i) \/ ReflectorDrops(p, i) \/ IncomingCloses(p, i)
                    => starting' = {}
      BY <1>2 DEF TryExpires, PollInactivity, ReflectorDrops, IncomingCloses, Becomes
    <3>5. ASSUME NEW p PROVE IncomingOpens(p) => starting' = {}
      BY <1>2 DEF IncomingOpens, Becomes
    <3>6. ASSUME NEW r PROVE ~Start(r)
      BY <1>2 DEF Start
    <3>. QED BY <1>2, <3>1, <3>2, <3>3, <3>4, <3>5, <3>6 DEF Turn, CommandTo
  <2>2. CASE \E r \in Repeaters : CommandTo(r) \/ G2Query(r) \/ G2Done(r)
    <3>1. PICK r \in Repeaters : CommandTo(r) \/ G2Query(r) \/ G2Done(r)
      BY <2>2
    <3>2. Start(r) => FALSE
      BY <1>2 DEF Start
    <3>. QED BY <1>0, <2>1, <3>1, <3>2, RepeaterStepSound DEF StatusInv
  <2>3. ASSUME \/ \E m \in wire : Ack(m) \/ Nak(m) \/ Greet(m) \/ Lose(m)
               \/ \E g \in {GatewayOf[t] : t \in Targets} : GatewayRemoved(g)
               \/ \E p \in Protocols, i \in Slots :
                     TryExpires(p, i) \/ PollInactivity(p, i) \/ ReflectorDrops(p, i) \/ IncomingCloses(p, i)
               \/ \E p \in Protocols : IncomingOpens(p)
        PROVE  StatusInv'
    BY <1>0, <2>1, <2>3, NetworkStepSound DEF StatusInv
  <2>. QED BY <1>2, <2>2, <2>3, SMTT(40) DEF Turn, CommandTo
<1>3. CASE UNCHANGED vars
  <2>1. link' = W.link /\ slots' = W.slots /\ starting' = starting
    BY <1>0, <1>3 DEF vars
  <2>2. AllSound(W)'
    BY <1>0, <2>1, BecomesSound
  <2>. QED BY <1>0, <2>1, <2>2 DEF StatusInv
<1>. QED BY <1>1, <1>2, <1>3 DEF Next

LEMMA StatusAlways == ASSUME NoOtherModules PROVE Spec => []StatusInv
<1>1. NoOtherModules
  OBVIOUS
<1>2. TypeOK /\ ProtocolsAgree /\ StatusInv /\ [Next]_vars => StatusInv'
  BY <1>1, StatusNext
<1>. QED BY <1>2, StatusInit, TypeCorrect, ProtocolsCorrect, PTL DEF Spec

(* No DExtra or D-Plus link outlives the status that names it, whatever    *)
(* commands, answers, lost datagrams and timers come in whatever order and *)
(* however often: so nobody's traffic reaches a reflector their repeater   *)
(* has left.                                                               *)
THEOREM LinksAlwaysMatch == Spec => []LinksMatchStatus
<1>1. CASE NoOtherModules
  <2>1. TypeOK /\ StatusInv => LinksMatchStatus
    <3> SUFFICES ASSUME TypeOK, StatusInv, NEW p \in {"DEXTRA", "DPLUS"}, NEW i \in Outgoing(W, p)
                 PROVE  link[slots[p][i].dest].via = p /\ link[slots[p][i].dest].target = slots[p][i].ref
      BY DEF LinksMatchStatus
    <3>1. W \in World /\ p \in Protocols /\ W.link = link /\ W.slots = slots
      BY DEF TypeOK, W, Protocols
    <3>2. W.slots[p][i].dest \in Repeaters
      BY <3>1, OutgoingHandler
    <3>3. i \in LinksOf(W, p, W.slots[p][i].dest)
      BY DEF LinksOf
    <3>. QED BY <3>1, <3>2, <3>3 DEF StatusInv, AllSound, SoundFor
  <2>2. Spec => []StatusInv
    BY <1>1, StatusAlways
  <2>. QED BY <2>1, <2>2, TypeCorrect, PTL
<1>2. CASE ~NoOtherModules
  <2>1. TypeOK => LinksMatchStatus
    BY <1>2 DEF LinksMatchStatus
  <2>. QED BY <2>1, TypeCorrect, PTL
<1>. QED BY <1>1, <1>2

(* A repeater that says it is linked over DExtra has an acknowledged link  *)
(* to that very reflector: no late answer, no reconnect and no command in  *)
(* between leaves it with the word alone.                                  *)
THEOREM LinkedIsAlwaysReal == Spec => []DExtraLinkedIsReal
<1>1. CASE NoOtherModules
  <2>1. TypeOK /\ StatusInv => DExtraLinkedIsReal
    <3> SUFFICES ASSUME TypeOK, StatusInv, NEW r \in Repeaters,
                        link[r].phase = "linked", link[r].via = "DEXTRA"
                 PROVE  \E i \in LinksOf(W, "DEXTRA", r) :
                           /\ slots["DEXTRA"][i].state = "LINKED"
                           /\ slots["DEXTRA"][i].ref = link[r].target
      BY DEF DExtraLinkedIsReal
    <3>1. W.link = link /\ W.slots = slots /\ SoundFor(W, r)
      BY DEF W, StatusInv, AllSound
    <3>. QED BY <3>1 DEF SoundFor
  <2>2. Spec => []StatusInv
    BY <1>1, StatusAlways
  <2>. QED BY <2>1, <2>2, TypeCorrect, PTL
<1>2. CASE ~NoOtherModules
  <2>1. TypeOK => DExtraLinkedIsReal
    BY <1>2 DEF DExtraLinkedIsReal
  <2>. QED BY <2>1, TypeCorrect, PTL
<1>. QED BY <1>1, <1>2
=============================================================================

------------------------ MODULE LinkProtocolProofs ------------------------
(***************************************************************************)
(* A reflector is only contacted over its own protocol, and a status never *)
(* names another one: THEOREM ProtocolsCorrect, for every number of        *)
(* repeaters, reflectors and slots.  ProtocolsAgree is inductive once the  *)
(* types are known; the lemmas follow the calls from the bottom up, as     *)
(* those of LinkControlProofs do.                                          *)
(***************************************************************************)
EXTENDS LinkControlProofs

LEMMA SameTablesAgree ==
    ASSUME NEW w \in World, NEW v \in World, v.link = w.link, v.slots = w.slots, Agrees(w)
    PROVE  Agrees(v)
BY DEF Agrees, Outgoing

LEMMA SendAgrees ==
    ASSUME NEW w \in World, NEW p \in Protocols, NEW h \in Handler,
           NEW kind \in {"LINK1", "LINK2", "UNLINK"}, Agrees(w)
    PROVE  Agrees(Send(w, p, kind, h))
BY SendType, SameTablesAgree

LEMMA SetSlotAgrees ==
    ASSUME NEW w \in World, NEW p \in Protocols, NEW i \in Slots,
           NEW h \in Handler \cup {Free, Incoming}, Agrees(w),
           h \in Handler => OfTable(p, h.ref)
    PROVE  Agrees(SetSlot(w, p, i, h))
<1> DEFINE v == SetSlot(w, p, i, h)
<1>1. /\ v \in World /\ v.link = w.link /\ v.slots[p][i] = h
      /\ \A q \in Protocols, j \in Slots : q # p \/ j # i => v.slots[q][j] = w.slots[q][j]
  BY SetSlotType
<1> HIDE DEF v
<1>2. ASSUME NEW q \in Protocols, NEW j \in Outgoing(v, q) PROVE OfTable(q, v.slots[q][j].ref)
  <2>1. j \in Slots
    BY DEF Outgoing
  <2>2. CASE q = p /\ j = i
    BY <1>1, <2>1, <2>2 DEF Outgoing
  <2>3. CASE q # p \/ j # i
    BY <1>1, <2>1, <2>3 DEF Outgoing, Agrees
  <2>. QED BY <2>2, <2>3
<1>3. \A r \in Repeaters : StatusAgrees(v.link[r])
  BY <1>1 DEF Agrees
<1>4. Agrees(v)
  BY <1>2, <1>3 DEF Agrees
<1>. QED BY <1>4 DEF v

LEMMA FreeSlotAgrees ==
    ASSUME NEW w \in World, NEW p \in Protocols, NEW i \in Slots, Agrees(w)
    PROVE  Agrees(FreeSlot(w, p, i))
BY SetSlotAgrees, LinkAssumption DEF FreeSlot

(* The status of one repeater may change as long as the new one agrees. *)
LEMMA StatusChangeAgrees ==
    ASSUME NEW w \in World, NEW v \in World, NEW r \in Repeaters, Agrees(w),
           v.slots = w.slots, \A o \in Repeaters \ {r} : v.link[o] = w.link[o],
           StatusAgrees(v.link[r])
    PROVE  Agrees(v)
BY DEF Agrees, Outgoing

LEMMA SetLinkAgrees ==
    ASSUME NEW w \in World, NEW r \in Repeaters, NEW phase \in Phases,
           NEW via \in Vias \cup {"-"}, NEW t \in Targets \cup {NoTarget},
           phase \in {"linking", "linked"} <=> via # "-", Agrees(w),
           phase \in {"linking", "linked"} => OfProtocol(via, t),
           phase = "pending" => t \notin Known
    PROVE  Agrees(SetLink(w, r, phase, via, t))
<1> DEFINE v == SetLink(w, r, phase, via, t)
<1>1. v \in World
  BY SetLinkType
<1>2. v.slots = w.slots /\ \A o \in Repeaters \ {r} : v.link[o] = w.link[o]
  BY DEF World, SetLink
<1>3. v.link[r].phase = phase /\ v.link[r].via = via /\ v.link[r].target = t
  BY DEF World, LinkState, SetLink
<1>4. StatusAgrees(v.link[r])
  BY <1>3 DEF StatusAgrees
<1> HIDE DEF v
<1>5. Agrees(v)
  BY <1>1, <1>2, <1>4, StatusChangeAgrees
<1>. QED BY <1>5 DEF v

LEMMA SetFlagAgrees ==
    ASSUME NEW w \in World, NEW r \in Repeaters, NEW b \in BOOLEAN, Agrees(w)
    PROVE  /\ Agrees([w EXCEPT !.link[r].relink = b])
           /\ Agrees([w EXCEPT !.link[r].query = b])
<1>1. ASSUME NEW v \in World, v.slots = w.slots,
             \A o \in Repeaters \ {r} : v.link[o] = w.link[o],
             v.link[r].phase = w.link[r].phase, v.link[r].via = w.link[r].via,
             v.link[r].target = w.link[r].target
      PROVE  Agrees(v)
  <2>1. StatusAgrees(v.link[r])
    BY <1>1 DEF Agrees, StatusAgrees
  <2>. QED BY <1>1, <2>1, StatusChangeAgrees
<1>2. Agrees([w EXCEPT !.link[r].relink = b])
  <2> DEFINE v == [w EXCEPT !.link[r].relink = b]
  <2>1. v \in World
    BY SetFlagType
  <2>2. /\ v.slots = w.slots /\ \A o \in Repeaters \ {r} : v.link[o] = w.link[o]
        /\ v.link[r].phase = w.link[r].phase /\ v.link[r].via = w.link[r].via
        /\ v.link[r].target = w.link[r].target
    BY DEF World, LinkState
  <2> HIDE DEF v
  <2>3. Agrees(v)
    BY <1>1, <2>1, <2>2
  <2>. QED BY <2>3 DEF v
<1>3. Agrees([w EXCEPT !.link[r].query = b])
  <2> DEFINE v == [w EXCEPT !.link[r].query = b]
  <2>1. v \in World
    BY SetFlagType
  <2>2. /\ v.slots = w.slots /\ \A o \in Repeaters \ {r} : v.link[o] = w.link[o]
        /\ v.link[r].phase = w.link[r].phase /\ v.link[r].via = w.link[r].via
        /\ v.link[r].target = w.link[r].target
    BY DEF World, LinkState
  <2> HIDE DEF v
  <2>3. Agrees(v)
    BY <1>1, <2>1, <2>2
  <2>. QED BY <2>3 DEF v
<1>. QED BY <1>2, <1>3

LEMMA ClearLinkAgrees ==
    ASSUME NEW w \in World, NEW r \in Repeaters, Agrees(w)
    PROVE  Agrees(ClearLink(w, r))
BY SetLinkAgrees DEF ClearLink, Phases

LEMMA HandlerLinkAgrees ==
    ASSUME NEW w \in World, NEW p \in Protocols, NEW r \in Repeaters, NEW t \in Targets,
           Agrees(w), OfTable(p, t)
    PROVE  Agrees(HandlerLink(w, p, r, t))
<1> DEFINE idle == {i \in Slots : w.slots[p][i] = Free}
           h == [dest |-> r, ref |-> t, state |-> "LINKING", trying |-> TRUE,
                 port |-> Min(Ports \ PortsInUse(w, p))]
           busy == p = "DCS" /\ \E i \in LinksOf(w, p, r) : w.slots[p][i].state # "UNLINKING"
<1>1. CASE busy \/ idle = {}
  BY <1>1 DEF HandlerLink
<1>2. CASE ~(busy \/ idle = {})
  <2>1. Min(idle) \in Slots
    BY <1>2, MinOfSlots DEF Slots
  <2>2. Min(Ports \ PortsInUse(w, p)) \in Ports
    BY <1>2, PortToSpare, MinOfSlots DEF Ports
  <2>3. h \in Handler /\ h.ref = t
    BY <2>2 DEF Handler
  <2>4. HandlerLink(w, p, r, t) = Send(SetSlot(w, p, Min(idle), h), p, "LINK1", h)
    BY <1>2 DEF HandlerLink
  <2> HIDE DEF h, idle
  <2>5. SetSlot(w, p, Min(idle), h) \in World /\ Agrees(SetSlot(w, p, Min(idle), h))
    BY <2>1, <2>3, SetSlotType, SetSlotAgrees
  <2>. QED BY <2>3, <2>4, <2>5, SendAgrees
<1>. QED BY <1>1, <1>2

LEMMA LinkIntAgrees ==
    ASSUME NEW w \in World, NEW r \in Repeaters, NEW t \in Targets \cup {NoTarget}, Agrees(w)
    PROVE  Agrees(LinkInt(w, r, t))
<1>1. CASE t \in Reserved \ Known
  BY <1>1 DEF LinkInt
<1>2. CASE t \in Known
  <2>1. t \in Targets /\ ViaOf[t] \in Vias /\ ViaOf[t] # "-" /\ TableOf(ViaOf[t]) \in Protocols
    BY <1>2, LinkAssumption DEF Vias, Protocols, TableOf
  <2>2. OfProtocol(ViaOf[t], t) /\ OfTable(TableOf(ViaOf[t]), t)
    BY <1>2 DEF OfProtocol, OfTable
  <2>3. SetLink(w, r, "linking", ViaOf[t], t) \in World
        /\ Agrees(SetLink(w, r, "linking", ViaOf[t], t)) /\ Agrees(SetLink(w, r, "none", "-", t))
    BY <2>1, <2>2, SetLinkType, SetLinkAgrees DEF Phases
  <2>. QED BY <1>2, <2>1, <2>2, <2>3, HandlerLinkAgrees DEF LinkInt
<1>3. CASE t \notin Known /\ t \notin Reserved
  <2>1. SetLink(w, r, "pending", "-", t) \in World
        /\ Agrees(SetLink(w, r, "pending", "-", t)) /\ Agrees(SetLink(w, r, "none", "-", t))
    BY <1>3, SetLinkType, SetLinkAgrees DEF Phases
  <2>. QED BY <1>3, <2>1, SetFlagAgrees DEF LinkInt
<1>. QED BY <1>1, <1>2, <1>3

LEMMA CallbacksAgree ==
    ASSUME NEW w \in World, NEW r \in Repeaters, NEW p \in Protocols, NEW t \in Targets, Agrees(w)
    PROVE  /\ Agrees(LinkUp(w, r, p))
           /\ w.link[r].phase \in {"linking", "linked"} => Agrees(LinkRetry(w, r))
           /\ Agrees(LinkLost(w, r, t))
           /\ Agrees(LinkRefused(w, r, t))
<1>1. Agrees(LinkUp(w, r, p))
  <2>1. CASE w.link[r].phase = "linking" /\ TableOf(w.link[r].via) = p
    <3>1. LinkUp(w, r, p) = SetLink(w, r, "linked", w.link[r].via, w.link[r].target)
      BY <2>1 DEF LinkUp, SetLink, World, LinkState
    <3>2. /\ w.link[r].via \in Vias /\ w.link[r].via # "-" /\ w.link[r].target \in Targets \cup {NoTarget}
          /\ OfProtocol(w.link[r].via, w.link[r].target)
      BY <2>1 DEF World, LinkState, Agrees, StatusAgrees
    <3>. QED BY <3>1, <3>2, SetLinkAgrees DEF Phases
  <2>2. CASE ~(w.link[r].phase = "linking" /\ TableOf(w.link[r].via) = p)
    BY <2>2 DEF LinkUp
  <2>. QED BY <2>1, <2>2
<1>2. ASSUME w.link[r].phase \in {"linking", "linked"} PROVE Agrees(LinkRetry(w, r))
  <2>1. LinkRetry(w, r) = SetLink(w, r, "linking", w.link[r].via, w.link[r].target)
    BY DEF LinkRetry, SetLink, World, LinkState
  <2>2. /\ w.link[r].via \in Vias /\ w.link[r].via # "-" /\ w.link[r].target \in Targets \cup {NoTarget}
        /\ OfProtocol(w.link[r].via, w.link[r].target)
    BY <1>2 DEF World, LinkState, Agrees, StatusAgrees
  <2>. QED BY <2>1, <2>2, SetLinkAgrees DEF Phases
<1>3. Agrees(LinkLost(w, r, t))
  <2>1. w.link[r].target \in Targets \cup {NoTarget}
    BY DEF World, LinkState
  <2>. QED BY <2>1, SetFlagType, SetFlagAgrees, LinkIntAgrees, ClearLinkAgrees DEF LinkLost
<1>4. Agrees(LinkRefused(w, r, t))
  BY ClearLinkAgrees DEF LinkRefused
<1>. QED BY <1>1, <1>2, <1>3, <1>4

LEMMA OutgoingAgrees ==
    ASSUME NEW w \in World, NEW p \in Protocols, NEW i \in Outgoing(w, p), Agrees(w)
    PROVE  OfTable(p, w.slots[p][i].ref)
BY DEF Agrees

(* A handler whose target stays what it was may be put back in its slot, *)
(* after a callback that left this slot alone or not.                    *)
LEMMA PutBackAgrees ==
    ASSUME NEW w \in World, NEW p \in Protocols, NEW i \in Slots, NEW h \in Handler,
           OfTable(p, h.ref), Agrees(w), NEW s \in {"LINKING", "LINKED", "UNLINKING"},
           NEW b \in BOOLEAN
    PROVE  /\ Agrees(SetSlot(w, p, i, [h EXCEPT !.state = s]))
           /\ Agrees(SetSlot(w, p, i, [h EXCEPT !.trying = b]))
           /\ Agrees(SetSlot(w, p, i, [h EXCEPT !.state = s, !.trying = b]))
<1>1. /\ [h EXCEPT !.state = s].ref = h.ref /\ [h EXCEPT !.trying = b].ref = h.ref
      /\ [h EXCEPT !.state = s, !.trying = b].ref = h.ref
  BY DEF Handler
<1>. QED BY <1>1, HandlerChanges, SetSlotAgrees

LEMMA DropAgrees ==
    ASSUME NEW w \in World, NEW p \in Protocols, NEW i \in Outgoing(w, p), Agrees(w)
    PROVE  Agrees(Drop(w, p, i))
<1> DEFINE h == w.slots[p][i]
<1>1. i \in Slots /\ h \in Handler /\ h.dest \in Repeaters /\ h.ref \in Targets /\ OfTable(p, h.ref)
  BY OutgoingHandler, OutgoingAgrees
<1> HIDE DEF h
<1>2. CASE p = "DEXTRA"
  <2> DEFINE v == SetSlot(w, p, i, [h EXCEPT !.state = "UNLINKING"])
             u == Send(v, p, "UNLINK", h)
  <2>1. v \in World /\ Agrees(v)
    BY <1>1, HandlerChanges, SetSlotType, PutBackAgrees
  <2>2. u \in World /\ Agrees(u)
    BY <1>1, <2>1, SendType, SendAgrees
  <2>3. Drop(w, p, i) = FreeSlot(LinkLost(u, h.dest, h.ref), p, i)
    BY <1>2 DEF Drop, DExtraDrop, h
  <2> HIDE DEF u, v
  <2>. QED BY <1>1, <2>2, <2>3, LinkLostType, CallbacksAgree, FreeSlotAgrees
<1>3. CASE p = "DPLUS"
  BY <1>1, <1>3, SendType, SendAgrees, FreeSlotAgrees DEF Drop, DPlusDrop, h
<1>4. CASE p = "DCS"
  <2> DEFINE v == SetSlot(w, p, i, [h EXCEPT !.state = "UNLINKING", !.trying = TRUE])
  <2>1. v \in World /\ Agrees(v)
    BY <1>1, HandlerChanges, SetSlotType, PutBackAgrees
  <2>2. Drop(w, p, i) \in {w, Send(v, p, "UNLINK", h)}
    BY <1>4 DEF Drop, DCSDrop, h
  <2> HIDE DEF v
  <2>. QED BY <1>1, <2>1, <2>2, SendAgrees
<1>. QED BY <1>2, <1>3, <1>4 DEF Protocols

LEMMA UnlinkAgrees ==
    ASSUME NEW w \in World, NEW p \in Protocols, NEW r \in Repeaters, NEW t, Agrees(w)
    PROVE  Agrees(UnlinkExcept(w, p, r, t)) /\ Agrees(UnlinkOnly(w, p, r, t))
<1>1. \A u \in World : \A i : Agrees(u) =>
          /\ DropOther(u, p, r, t, i) \in World /\ Agrees(DropOther(u, p, r, t, i))
          /\ DropThat(u, p, r, t, i) \in World /\ Agrees(DropThat(u, p, r, t, i))
  BY DropType, DropAgrees DEF DropOther, DropThat, LinksOf
<1>. QED BY <1>1 DEF UnlinkExcept, UnlinkOnly, ForEachSlot

LEMMA UnlinkAllAgrees ==
    ASSUME NEW w \in World, NEW r \in Repeaters, Agrees(w)
    PROVE  Agrees(UnlinkAll(w, r))
BY UnlinkType, UnlinkAgrees DEF UnlinkAll, Protocols

LEMMA AnswerAgrees ==
    ASSUME NEW w \in World, NEW p \in Protocols, NEW i \in Outgoing(w, p), Agrees(w)
    PROVE  Agrees(Acked(w, p, i)) /\ Agrees(Naked(w, p, i)) /\ Agrees(Unlinked(w, p, i))
<1> DEFINE h == w.slots[p][i]
           up == LinkUp(w, h.dest, p)
           refused == LinkRefused(w, h.dest, h.ref)
           lost == LinkLost(w, h.dest, h.ref)
<1>1. i \in Slots /\ h \in Handler /\ h.dest \in Repeaters /\ h.ref \in Targets /\ OfTable(p, h.ref)
  BY OutgoingHandler, OutgoingAgrees
<1>2. up \in World /\ refused \in World /\ lost \in World
  BY <1>1, LinkUpType, LinkRefusedType, LinkLostType
<1>3. Agrees(up) /\ Agrees(refused) /\ Agrees(lost)
  BY <1>1, CallbacksAgree
<1>4. Acked(w, p, i) \in {w, SetSlot(up, p, i, [h EXCEPT !.state = "LINKED", !.trying = FALSE])}
  BY DEF Acked
<1>5. Naked(w, p, i) \in {w, FreeSlot(w, p, i), FreeSlot(refused, p, i), FreeSlot(lost, p, i),
                           Send(FreeSlot(refused, p, i), p, "UNLINK", h)}
  BY DEF Naked
<1>6. Unlinked(w, p, i) \in {FreeSlot(w, p, i), FreeSlot(lost, p, i)}
  BY DEF Unlinked
<1> HIDE DEF h, up, refused, lost
<1>7. \A u \in {w, refused, lost} : FreeSlot(u, p, i) \in World /\ Agrees(FreeSlot(u, p, i))
  BY <1>1, <1>2, <1>3, FreeSlotType, FreeSlotAgrees
<1>8. Agrees(Acked(w, p, i))
  <2>1. Agrees(SetSlot(up, p, i, [h EXCEPT !.state = "LINKED", !.trying = FALSE]))
    BY <1>1, <1>2, <1>3, PutBackAgrees
  <2>. QED BY <1>4, <2>1
<1>9. Agrees(Send(FreeSlot(refused, p, i), p, "UNLINK", h))
  BY <1>1, <1>7, SendAgrees
<1>. QED BY <1>5, <1>6, <1>7, <1>8, <1>9

LEMMA AnswersAgree ==
    ASSUME NEW w \in World, NEW m \in Request, Agrees(w)
    PROVE  Agrees(AckAll(w, m)) /\ Agrees(NakAll(w, m))
           /\ (m.proto = "DPLUS" => Agrees(GreetAll(w, m)))
<1>1. m.proto \in Protocols
  BY DEF Request
<1>2. \A u \in World : \A i : Agrees(u) =>
          /\ AckAt(u, m, i) \in World /\ Agrees(AckAt(u, m, i))
          /\ NakAt(u, m, i) \in World /\ Agrees(NakAt(u, m, i))
  BY <1>1, AnswerType, AnswerAgrees DEF AckAt, NakAt, AnswerReaches, Reaches
<1>3. ASSUME m.proto = "DPLUS", NEW u \in World, NEW i, Agrees(u)
      PROVE  GreetAt(u, m, i) \in World /\ Agrees(GreetAt(u, m, i))
  <2>1. CASE AnswerReaches(u, m, i)
    <3> DEFINE h == u.slots["DPLUS"][i]
               v == SetSlot(u, "DPLUS", i, [h EXCEPT !.trying = FALSE])
    <3>1. i \in Outgoing(u, "DPLUS") /\ "DPLUS" \in Protocols
      BY <1>3, <2>1 DEF AnswerReaches, Reaches, Protocols
    <3>2. i \in Slots /\ h \in Handler /\ OfTable("DPLUS", h.ref)
      BY <1>3, <3>1, OutgoingHandler, OutgoingAgrees
    <3>3. GreetAt(u, m, i) = Send(v, "DPLUS", "LINK2", h)
      BY <2>1 DEF GreetAt
    <3> HIDE DEF h
    <3>4. v \in World /\ Agrees(v)
      BY <1>3, <3>1, <3>2, HandlerChanges, SetSlotType, PutBackAgrees
    <3> HIDE DEF v
    <3>. QED BY <3>1, <3>2, <3>3, <3>4, SendType, SendAgrees
  <2>2. CASE ~AnswerReaches(u, m, i)
    BY <1>3, <2>2 DEF GreetAt
  <2>. QED BY <2>1, <2>2
<1>. QED BY <1>2, <1>3 DEF AckAll, NakAll, GreetAll, ForEachSlot

LEMMA DismissAgrees ==
    ASSUME NEW w \in World, NEW p \in Protocols, NEW q, NEW t, Agrees(w)
    PROVE  Agrees(Dismiss(w, p, q, t))
<1>1. \A u \in World : \A i : Agrees(u) =>
          DismissAt(u, p, q, t, i) \in World /\ Agrees(DismissAt(u, p, q, t, i))
  BY AnswerType, AnswerAgrees DEF DismissAt, Reaches
<1>. QED BY <1>1 DEF Dismiss, ForEachSlot

LEMMA InactiveAgrees ==
    ASSUME NEW w \in World, NEW p \in Protocols, NEW i \in Outgoing(w, p), Agrees(w)
    PROVE  Agrees(Inactive(w, p, i))
<1> DEFINE h == w.slots[p][i]
           again == [h EXCEPT !.state = "LINKING", !.trying = TRUE]
           retry == LinkRetry(w, h.dest)
<1>1. i \in Slots /\ h \in Handler /\ h.dest \in Repeaters /\ h.ref \in Targets /\ OfTable(p, h.ref)
  BY OutgoingHandler, OutgoingAgrees
<1>2. again \in Handler
  BY <1>1, HandlerChanges
<1>3. CASE WantsReconnect(w, h.dest, p, h.ref)
  <2>1. retry \in World /\ Agrees(retry)
    BY <1>1, <1>3, LinkRetryType, CallbacksAgree DEF WantsReconnect
  <2>2. Inactive(w, p, i) = Send(SetSlot(retry, p, i, again), p, "LINK1", again)
    BY <1>3 DEF Inactive
  <2> HIDE DEF h, retry
  <2>3. SetSlot(retry, p, i, again) \in World /\ Agrees(SetSlot(retry, p, i, again))
    BY <1>1, <1>2, <2>1, SetSlotType, PutBackAgrees
  <2>. QED BY <1>2, <2>2, <2>3, SendAgrees
<1>4. CASE ~WantsReconnect(w, h.dest, p, h.ref)
  BY <1>1, <1>4, FreeSlotAgrees DEF Inactive
<1>. QED BY <1>3, <1>4

LEMMA GatewayGoneAgrees ==
    ASSUME NEW w \in World, NEW p \in Protocols, NEW g, Agrees(w)
    PROVE  Agrees(GatewayGone(w, p, g))
<1>1. \A u \in World : \A i : Agrees(u) => GoneAt(u, p, g, i) \in World /\ Agrees(GoneAt(u, p, g, i))
  BY OutgoingHandler, LinkLostType, CallbacksAgree, FreeSlotType, FreeSlotAgrees DEF GoneAt
<1>. QED BY <1>1 DEF GatewayGone, ForEachSlot

---------------------------------------------------------------------------
(* A change of module keeps the protocol: the modules of a gateway share   *)
(* one cache record.                                                       *)

LEMMA SameProtocol ==
    ASSUME NEW t \in Targets, NEW u \in Targets, GatewayOf[t] = GatewayOf[u]
    PROVE  /\ \A via : OfProtocol(via, t) => OfProtocol(via, u)
           /\ \A p : OfTable(p, t) => OfTable(p, u)
BY CacheAssumption DEF OfProtocol, OfTable

LEMMA SetTargetAgrees ==
    ASSUME NEW w \in World, NEW r \in Repeaters, NEW t \in Targets, Agrees(w),
           w.link[r].phase \in {"linking", "linked"}, OfProtocol(w.link[r].via, t)
    PROVE  Agrees([w EXCEPT !.link[r].target = t])
<1> DEFINE v == [w EXCEPT !.link[r].target = t]
<1>1. v \in World
  BY SetTargetType
<1>2. v.slots = w.slots /\ \A o \in Repeaters \ {r} : v.link[o] = w.link[o]
  BY DEF World
<1>3. v.link[r].phase = w.link[r].phase /\ v.link[r].via = w.link[r].via /\ v.link[r].target = t
  BY DEF World, LinkState
<1> HIDE DEF v
<1>4. StatusAgrees(v.link[r])
  BY <1>3 DEF StatusAgrees
<1>5. Agrees(v)
  BY <1>1, <1>2, <1>4, StatusChangeAgrees
<1>. QED BY <1>5 DEF v

LEMMA DPlusRelinkAgrees ==
    ASSUME NEW w \in World, NEW r \in Repeaters, NEW t \in Targets, Agrees(w),
           OfTable("DPLUS", t)
    PROVE  Agrees(DPlusRelink(w, r, t))
<1> DEFINE mine == LinksOf(w, "DPLUS", r)
           i == Min(mine)
           h == [w.slots["DPLUS"][i] EXCEPT !.ref = t]
<1>1. CASE mine = {}
  BY <1>1 DEF DPlusRelink
<1>2. CASE mine # {}
  <2>1. "DPLUS" \in Protocols /\ i \in mine
    BY <1>2, MinOfSlots DEF LinksOf, Outgoing, Slots, Protocols
  <2>2. i \in Slots /\ w.slots["DPLUS"][i] \in Handler
    BY <2>1, OutgoingHandler DEF LinksOf
  <2>3. h \in Handler /\ h.ref = t
    BY <2>2 DEF Handler
  <2>4. DPlusRelink(w, r, t) = SetSlot(w, "DPLUS", i, h)
    BY <1>2 DEF DPlusRelink, SetSlot
  <2> HIDE DEF i, h
  <2>. QED BY <2>1, <2>2, <2>3, <2>4, SetSlotAgrees
<1>. QED BY <1>1, <1>2

LEMMA ChangeModuleAgrees ==
    ASSUME NEW w \in World, NEW r \in Repeaters, NEW t \in Targets, Agrees(w),
           SameGateway(w.link[r], t)
    PROVE  Agrees(ChangeModule(w, r, t))
<1> DEFINE l == w.link[r]
           new == [w EXCEPT !.link[r].relink = TRUE, !.link[r].target = t]
<1>1. l \in LinkState /\ StatusAgrees(l) /\ l.target \in Targets /\ GatewayOf[l.target] = GatewayOf[t]
  BY DEF World, LinkState, Agrees, SameGateway
<1>2. CASE l.phase = "pending"
  <2>1. l.via = "-"
    BY <1>1, <1>2 DEF LinkState
  <2>. QED BY <1>2, <2>1 DEF ChangeModule
<1>3. l.phase # "pending" => l.phase \in {"linking", "linked"} /\ OfProtocol(l.via, t)
  BY <1>1, SameProtocol DEF StatusAgrees, SameGateway, LinkState, Phases
<1>4. CASE l.phase # "pending" /\ l.via = "DPLUS"
  <2>1. OfTable("DPLUS", t)
    BY <1>3, <1>4 DEF OfProtocol, OfTable, TableOf
  <2>2. [w EXCEPT !.link[r].target = t] \in World /\ Agrees([w EXCEPT !.link[r].target = t])
    BY <1>3, <1>4, SetTargetType, SetTargetAgrees
  <2>. QED BY <1>4, <2>1, <2>2, DPlusRelinkAgrees DEF ChangeModule
<1>5. CASE l.phase # "pending" /\ l.via # "DPLUS"
  <2>1. l.via \in Vias /\ l.via # "-" /\ TableOf(l.via) \in Protocols
    BY <1>1, <1>3, <1>5 DEF LinkState, Phases, Vias, Protocols, TableOf
  <2>2. new \in World /\ Agrees(new)
    <3> DEFINE u == [w EXCEPT !.link[r].relink = TRUE]
    <3>1. u \in World /\ Agrees(u)
      BY SetFlagType, SetFlagAgrees
    <3>2. u.link[r].phase = l.phase /\ u.link[r].via = l.via
      BY DEF World, LinkState
    <3>3. new = [u EXCEPT !.link[r].target = t]
      OBVIOUS
    <3> HIDE DEF u, new
    <3>. QED BY <1>3, <1>5, <3>1, <3>2, <3>3, SetTargetType, SetTargetAgrees
  <2> HIDE DEF new
  <2>3. /\ UnlinkExcept(new, TableOf(l.via), r, t) \in World
        /\ Agrees(UnlinkExcept(new, TableOf(l.via), r, t))
    BY <2>1, <2>2, UnlinkType, UnlinkAgrees
  <2>4. ChangeModule(w, r, t)
           = SetLink(UnlinkExcept(new, TableOf(l.via), r, t), r, "linking", l.via, t)
    BY <1>5 DEF ChangeModule, new
  <2>. QED BY <1>3, <1>5, <2>1, <2>3, <2>4, SetLinkAgrees DEF Phases
<1>. QED BY <1>2, <1>4, <1>5

LEMMA LinkToAgrees ==
    ASSUME NEW w \in World, NEW r \in Repeaters, NEW t \in Targets, Agrees(w)
    PROVE  Agrees(LinkTo(w, r, t))
BY ChangeModuleAgrees, UnlinkAllType, UnlinkAllAgrees, LinkIntAgrees DEF LinkTo

LEMMA CommandsAgree ==
    ASSUME NEW w \in World, NEW r \in Repeaters, Agrees(w)
    PROVE  /\ Agrees(Unlink(w, r)) /\ Agrees(Command(r, w))
           /\ Agrees(RfUnlinkEffect(r, w))
           /\ \A t \in Targets : Agrees(RfLinkEffect(r, t, w))
           /\ Agrees(StartupInt(w, r))
<1>1. \A u \in World : Agrees(u) => Agrees(Unlink(u, r))
  BY UnlinkAllType, UnlinkAllAgrees, ClearLinkAgrees DEF Unlink
<1>2. Command(r, w) \in World /\ Agrees(Command(r, w))
  BY SetFlagType, SetFlagAgrees DEF Command
<1>3. Agrees(StartupInt(w, r))
  <2>1. Startup[r] \in Targets \cup {NoTarget}
    BY ControlAssumption
  <2>2. Startup[r] \notin Known => 
          /\ SetLink(w, r, "pending", "-", Startup[r]) \in World
          /\ Agrees(SetLink(w, r, "pending", "-", Startup[r]))
          /\ Agrees(SetLink(w, r, "none", "-", Startup[r]))
    BY <2>1, SetLinkType, SetLinkAgrees DEF Phases
  <2>. QED BY <2>1, <2>2, LinkIntAgrees, SetFlagAgrees DEF StartupInt
<1>. QED BY <1>1, <1>2, <1>3, LinkToAgrees DEF RfUnlinkEffect, RfLinkEffect

---------------------------------------------------------------------------
(* Every step keeps the agreement. *)

LEMMA BecomesAgrees ==
    ASSUME NEW w, Becomes(w), Agrees(w)
    PROVE  ProtocolsAgree'
BY DEF Becomes, ProtocolsAgree, Agrees, Outgoing, W

LEMMA InitAgrees == Init => ProtocolsAgree
BY DEF Init, ProtocolsAgree, Agrees, Outgoing, W, Unlinked0, StatusAgrees

LEMMA RepeaterStepAgrees ==
    ASSUME TypeOK, ProtocolsAgree, NEW r \in Repeaters,
           \/ RfHeader(r) \/ RfUnlink(r) \/ \E t \in Targets : RfLink(r, t)
           \/ \E t \in Targets \cup {NoTarget}, mode \in RemoteModes : RemoteLink(r, t, mode)
           \/ \E p \in Protocols, t \in Targets : RemoteUnlink(r, p, t)
           \/ ReconnectExpires(r) \/ G2Query(r) \/ G2Done(r) \/ QueryExpires(r)
           \/ \E found \in BOOLEAN : IrcReply(r, found)
    PROVE  ProtocolsAgree'
<1>0. W \in World /\ Agrees(W) /\ link[r] = W.link[r] /\ link[r] \in LinkState
  BY DEF TypeOK, ProtocolsAgree, W, World
<1>1. /\ \A b \in BOOLEAN : [W EXCEPT !.link[r].query = b] \in World
      /\ \A b \in BOOLEAN : Agrees([W EXCEPT !.link[r].query = b])
  BY <1>0, SetFlagType, SetFlagAgrees
<1>2. AfterHeader(r) \in World /\ Agrees(AfterHeader(r))
  <2>1. W.link[r].query \in BOOLEAN
    BY <1>0 DEF LinkState
  <2>2. (IF g2query[r] THEN FALSE ELSE W.link[r].query) \in BOOLEAN
    BY <2>1
  <2>3. AfterHeader(r) = [W EXCEPT !.link[r].query = IF g2query[r] THEN FALSE ELSE W.link[r].query]
    BY <1>0 DEF AfterHeader, World
  <2>. QED BY <1>1, <2>2, <2>3
<1>3. CASE RfHeader(r)
  BY <1>2, <1>3, BecomesAgrees DEF RfHeader
<1>4. CASE RfUnlink(r)
  BY <1>0, <1>2, <1>4, BecomesAgrees, CommandsAgree DEF RfUnlink
<1>5. ASSUME NEW t \in Targets, RfLink(r, t) PROVE ProtocolsAgree'
  BY <1>0, <1>2, <1>5, BecomesAgrees, CommandsAgree DEF RfLink
<1>6. ASSUME NEW t \in Targets \cup {NoTarget}, NEW mode \in RemoteModes, RemoteLink(r, t, mode)
      PROVE  ProtocolsAgree'
  <2>1. Agrees(Unlink(W, r)) /\ (t # NoTarget => Agrees(LinkTo(W, r, t)))
    BY <1>0, CommandsAgree, LinkToAgrees
  <2>2. Becomes(W) \/ Becomes(Unlink(W, r)) \/ (t # NoTarget /\ Becomes(LinkTo(W, r, t)))
    BY <1>6 DEF RemoteLink
  <2>. QED BY <1>0, <2>1, <2>2, BecomesAgrees
<1>7. ASSUME NEW p \in Protocols, NEW t \in Targets, RemoteUnlink(r, p, t) PROVE ProtocolsAgree'
  BY <1>0, <1>7, BecomesAgrees, UnlinkAgrees DEF RemoteUnlink
<1>8. CASE ReconnectExpires(r)
  <2>1. Startup[r] \in Targets \cup {NoTarget}
    BY ControlAssumption
  <2>2. Agrees(Unlink(W, r)) /\ (Startup[r] # NoTarget => Agrees(LinkTo(W, r, Startup[r])))
    BY <1>0, <2>1, CommandsAgree, LinkToAgrees
  <2>. QED BY <1>0, <1>8, <2>2, BecomesAgrees DEF ReconnectExpires
<1>9. CASE G2Query(r)
  BY <1>1, <1>9, BecomesAgrees DEF G2Query
<1>10. CASE G2Done(r)
  BY <1>1, <1>10, BecomesAgrees DEF G2Done
<1>11. CASE QueryExpires(r)
  BY <1>0, <1>1, <1>11, BecomesAgrees, ClearLinkAgrees DEF QueryExpires
<1>12. ASSUME NEW found \in BOOLEAN, IrcReply(r, found) PROVE ProtocolsAgree'
  <2> DEFINE w == [W EXCEPT !.link[r].query = FALSE]
             t == link[r].target
  <2>1. t \in Targets /\ t \notin Known
    BY <1>0, <1>12 DEF IrcReply, LinkState, Agrees, StatusAgrees
  <2>2. w \in World /\ Agrees(w)
    BY <1>1
  <2>3. Becomes(HandlerLink(SetLink(w, r, "linking", "DEXTRA", t), "DEXTRA", r, t))
        \/ Becomes(ClearLink(w, r))
    BY <1>12 DEF IrcReply
  <2>4. OfProtocol("DEXTRA", t) /\ OfTable("DEXTRA", t)
    BY <2>1 DEF OfProtocol, OfTable
  <2> HIDE DEF w, t
  <2>5. /\ SetLink(w, r, "linking", "DEXTRA", t) \in World
        /\ Agrees(SetLink(w, r, "linking", "DEXTRA", t))
    BY <2>1, <2>2, <2>4, SetLinkType, SetLinkAgrees DEF Phases, Vias, Protocols
  <2>6. Agrees(HandlerLink(SetLink(w, r, "linking", "DEXTRA", t), "DEXTRA", r, t))
    BY <2>1, <2>4, <2>5, HandlerLinkAgrees DEF Protocols
  <2>. QED BY <2>2, <2>3, <2>6, ClearLinkAgrees, BecomesAgrees
<1>. QED BY <1>3, <1>4, <1>5, <1>6, <1>7, <1>8, <1>9, <1>10, <1>11, <1>12

LEMMA NetworkStepAgrees ==
    ASSUME TypeOK, ProtocolsAgree,
           \/ \E m \in wire : Ack(m) \/ Nak(m) \/ Greet(m) \/ Lose(m)
           \/ \E g \in {GatewayOf[t] : t \in Targets} : GatewayRemoved(g)
           \/ \E p \in Protocols, i \in Slots :
                 TryExpires(p, i) \/ PollInactivity(p, i) \/ ReflectorDrops(p, i) \/ IncomingCloses(p, i)
           \/ \E p \in Protocols : IncomingOpens(p)
    PROVE  ProtocolsAgree'
<1>0. W \in World /\ Agrees(W) /\ wire \subseteq Request
  BY DEF TypeOK, ProtocolsAgree, W, World
<1>1. ASSUME NEW m \in wire, NEW w \in Delivered(m) PROVE w \in World /\ Agrees(w)
  <2>1. w \in World /\ w.link = W.link /\ w.slots = W.slots
    BY <1>0 DEF Delivered, World
  <2>. QED BY <1>0, <2>1, SameTablesAgree
<1>2. ASSUME NEW m \in wire, Ack(m) \/ Nak(m) \/ Greet(m) PROVE ProtocolsAgree'
  BY <1>0, <1>1, <1>2, AnswersAgree, BecomesAgrees DEF Ack, Nak, Greet
<1>3. ASSUME NEW m \in wire, Lose(m) PROVE ProtocolsAgree'
  <2>1. [W EXCEPT !.wire = @ \ {m}] \in Delivered(m)
    BY DEF Delivered
  <2>. QED BY <1>1, <1>3, <2>1, BecomesAgrees DEF Lose
<1>4. ASSUME NEW g, GatewayRemoved(g) PROVE ProtocolsAgree'
  BY <1>0, <1>4, GatewayGoneType, GatewayGoneAgrees, BecomesAgrees DEF GatewayRemoved, Protocols
<1>5. ASSUME NEW p \in Protocols, NEW i \in Slots, TryExpires(p, i) PROVE ProtocolsAgree'
  <2>1. slots[p][i] \in Handler
    BY <1>0, <1>5, OutgoingHandler DEF TryExpires, W
  <2>2. Agrees(Send(W, p, "LINK1", slots[p][i])) /\ Agrees(Send(W, p, "UNLINK", slots[p][i]))
    BY <1>0, <2>1, SendAgrees
  <2>. QED BY <1>5, <2>2, BecomesAgrees DEF TryExpires
<1>6. ASSUME NEW p \in Protocols, NEW i \in Slots, PollInactivity(p, i) PROVE ProtocolsAgree'
  BY <1>0, <1>6, InactiveAgrees, BecomesAgrees DEF PollInactivity
<1>7. ASSUME NEW p \in Protocols, NEW i \in Slots, ReflectorDrops(p, i) PROVE ProtocolsAgree'
  BY <1>0, <1>7, DismissAgrees, BecomesAgrees DEF ReflectorDrops
<1>8. ASSUME NEW p \in Protocols, NEW i \in Slots, IncomingCloses(p, i) PROVE ProtocolsAgree'
  BY <1>0, <1>8, FreeSlotAgrees, BecomesAgrees DEF IncomingCloses
<1>9. ASSUME NEW p \in Protocols, IncomingOpens(p) PROVE ProtocolsAgree'
  <2> DEFINE idle == {i \in Slots : slots[p][i] = Free}
  <2>1. Min(idle) \in Slots
    BY <1>9, MinOfSlots DEF IncomingOpens, Slots
  <2>2. Agrees(SetSlot(W, p, Min(idle), Incoming))
    BY <1>0, <2>1, SetSlotAgrees, LinkAssumption
  <2>. QED BY <1>9, <2>2, BecomesAgrees DEF IncomingOpens
<1>. QED BY <1>2, <1>3, <1>4, <1>5, <1>6, <1>7, <1>8, <1>9

LEMMA NextAgrees == TypeOK /\ ProtocolsAgree /\ [Next]_vars => ProtocolsAgree'
<1> SUFFICES ASSUME TypeOK, ProtocolsAgree, [Next]_vars PROVE ProtocolsAgree'
  OBVIOUS
<1>1. ASSUME NEW r \in Repeaters, Start(r) PROVE ProtocolsAgree'
  <2> DEFINE w == StartupInt(W, r)
  <2>1. Agrees(w) /\ link' = w.link /\ slots' = w.slots
    BY <1>1, CommandsAgree DEF TypeOK, ProtocolsAgree, Start
  <2> HIDE DEF w
  <2>. QED BY <2>1 DEF ProtocolsAgree, Agrees, Outgoing, W
<1>2. CASE starting = {} /\ Turn
  BY <1>2, RepeaterStepAgrees, NetworkStepAgrees DEF Turn
<1>3. CASE UNCHANGED vars
  BY <1>3 DEF vars, ProtocolsAgree, Agrees, Outgoing, W
<1>. QED BY <1>1, <1>2, <1>3 DEF Next

(* A reflector is only ever contacted over the protocol the caches record  *)
(* for it, and no repeater's status names another one: whatever commands,  *)
(* answers and timeouts come in whatever order, a change of module (which  *)
(* takes the protocol from the old status) and an answer of ircDDB (which  *)
(* takes it to be DExtra) included.                                        *)
THEOREM ProtocolsCorrect == Spec => []ProtocolsAgree
<1>1. Init => ProtocolsAgree
  BY InitAgrees
<1>2. TypeOK /\ ProtocolsAgree /\ [Next]_vars => ProtocolsAgree'
  BY NextAgrees
<1>. QED BY <1>1, <1>2, TypeCorrect, PTL DEF Spec
=============================================================================

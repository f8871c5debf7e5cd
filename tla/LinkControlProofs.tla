------------------------- MODULE LinkControlProofs -------------------------
(***************************************************************************)
(* Type correctness of LinkControl, for any number of repeaters, targets,  *)
(* slots and datagrams.  TypeOK is inductive as it stands.  The lemmas     *)
(* follow the calls of the code from the bottom up: each says that an      *)
(* operator on the world of tables and statuses returns another such       *)
(* world; what they need besides is that a table with a free slot leaves a *)
(* port in the pool (PortToSpare).                                         *)
(***************************************************************************)
EXTENDS LinkControl, FiniteSetTheorems, TLAPS

(* A nonempty set of slots or ports has a least element. *)
LEMMA MinOfSlots ==
    ASSUME NEW S, S \subseteq 1 .. MaxLinks, S # {}
    PROVE  Min(S) \in S
<1>1. \E x \in S : \A y \in S : x <= y
  <2>1. MaxLinks \in 1 .. 5
    BY LinkAssumption
  <2>2. \A x \in S : x \in {1, 2, 3, 4, 5}
    BY <2>1
  <2>3. \A y \in S : y \in Nat /\ 1 <= y /\ y <= 5
    BY <2>2
  <2>4. CASE 1 \in S
    BY <2>3, <2>4
  <2>5. CASE 1 \notin S /\ 2 \in S
    BY <2>2, <2>5
  <2>6. CASE 1 \notin S /\ 2 \notin S /\ 3 \in S
    BY <2>2, <2>6
  <2>7. CASE 1 \notin S /\ 2 \notin S /\ 3 \notin S
    <3>1. CASE 4 \in S
      BY <2>2, <2>7, <3>1
    <3>2. CASE 4 \notin S
      <4>1. \A y \in S : y = 5
        BY <2>2, <2>7, <3>2
      <4>2. 5 \in S
        BY <4>1
      <4>. QED BY <4>1, <4>2
    <3>. QED BY <3>1, <3>2
  <2>. QED BY <2>4, <2>5, <2>6, <2>7
<1>. QED BY <1>1 DEF Min

(* A slot taken by an outgoing link holds a handler. *)
LEMMA OutgoingHandler ==
    ASSUME NEW w \in World, NEW p \in Protocols, NEW i \in Outgoing(w, p)
    PROVE  /\ i \in Slots /\ w.slots[p][i] \in Handler
           /\ w.slots[p][i].dest \in Repeaters /\ w.slots[p][i].ref \in Targets
           /\ w.slots[p][i].port \in Ports
BY DEF World, Outgoing, Handler

(* The pool has a port to spare as long as the table has a slot to spare. *)
LEMMA PortToSpare ==
    ASSUME NEW w \in World, NEW p \in Protocols, NEW k \in Slots, w.slots[p][k] = Free
    PROVE  Ports \ PortsInUse(w, p) # {}
<1> SUFFICES ASSUME Ports \subseteq PortsInUse(w, p) PROVE FALSE
  OBVIOUS
<1> DEFINE f == [q \in Ports |-> CHOOSE i \in Outgoing(w, p) : w.slots[p][i].port = q]
<1>1. \A q \in Ports : f[q] \in Outgoing(w, p) /\ w.slots[p][f[q]].port = q
  BY DEF PortsInUse
<1>2. Outgoing(w, p) \subseteq Slots \ {k}
  BY DEF Outgoing
<1>3. f \in [Ports -> Slots \ {k}]
  BY <1>1, <1>2
<1>4. /\ IsFiniteSet(Ports) /\ IsFiniteSet(Slots) /\ IsFiniteSet(Slots \ {k})
      /\ Cardinality(Slots \ {k}) < Cardinality(Ports)
  <2>1. MaxLinks \in Nat /\ MaxLinks >= 1 
    BY LinkAssumption
  <2>2. IsFiniteSet(1 .. MaxLinks) /\ Cardinality(1 .. MaxLinks) = MaxLinks
    BY <2>1, FS_Interval
  <2>3. IsFiniteSet(Slots \ {k}) /\ Cardinality(Slots \ {k}) = MaxLinks - 1
    BY <2>2, FS_RemoveElement DEF Slots
  <2>. QED BY <2>1, <2>2, <2>3 DEF Ports, Slots
<1>5. PICK x \in Ports, y \in Ports : x # y /\ f[x] = f[y]
  <2> HIDE DEF f
  <2>. QED BY <1>3, <1>4, FS_PigeonHole
<1>. QED BY <1>1, <1>5

LEMMA SetSlotType ==
    ASSUME NEW w \in World, NEW p \in Protocols, NEW i \in Slots,
           NEW h \in Handler \cup {Free, Incoming}
    PROVE  /\ SetSlot(w, p, i, h) \in World
           /\ SetSlot(w, p, i, h).link = w.link
           /\ SetSlot(w, p, i, h).wire = w.wire
           /\ SetSlot(w, p, i, h).slots[p][i] = h
           /\ \A q \in Protocols, j \in Slots : 
                 q # p \/ j # i => SetSlot(w, p, i, h).slots[q][j] = w.slots[q][j]
BY DEF World, SetSlot

LEMMA SendType ==
    ASSUME NEW w \in World, NEW p \in Protocols, NEW h \in Handler,
           NEW kind \in {"LINK1", "LINK2", "UNLINK"}
    PROVE  /\ Send(w, p, kind, h) \in World
           /\ Send(w, p, kind, h).link = w.link
           /\ Send(w, p, kind, h).slots = w.slots
<1> DEFINE m == [proto |-> p, kind |-> kind, port |-> h.port, rpt |-> h.dest, ref |-> h.ref]
<1>1. m \in Request
  BY DEF Request, Handler
<1>2. Send(w, p, kind, h) \in {w, [w EXCEPT !.wire = @ \cup {m}]}
  BY DEF Send
<1> HIDE DEF m
<1>. QED BY <1>1, <1>2 DEF World

LEMMA LinkStateChange ==
    ASSUME NEW l \in LinkState, NEW phase \in Phases, NEW via \in Vias \cup {"-"},
           NEW t \in Targets \cup {NoTarget},
           phase \in {"linking", "linked"} <=> via # "-"
    PROVE  [l EXCEPT !.phase = phase, !.via = via, !.target = t] \in LinkState
BY DEF LinkState

LEMMA SetLinkType ==
    ASSUME NEW w \in World, NEW r \in Repeaters, NEW phase \in Phases,
           NEW via \in Vias \cup {"-"}, NEW t \in Targets \cup {NoTarget},
           phase \in {"linking", "linked"} <=> via # "-"
    PROVE  SetLink(w, r, phase, via, t) \in World
<1> DEFINE l == [w.link[r] EXCEPT !.phase = phase, !.via = via, !.target = t]
<1>1. w.link[r] \in LinkState
  BY DEF World
<1>2. l \in LinkState
  BY <1>1, LinkStateChange
<1>3. SetLink(w, r, phase, via, t) = [w EXCEPT !.link = [@ EXCEPT ![r] = l]]
  BY DEF SetLink
<1> HIDE DEF l
<1>. QED BY <1>2, <1>3 DEF World

LEMMA HandlerLinkType ==
    ASSUME NEW w \in World, NEW p \in Protocols, NEW r \in Repeaters, NEW t \in Targets
    PROVE  HandlerLink(w, p, r, t) \in World
<1> DEFINE idle == {i \in Slots : w.slots[p][i] = Free}
           h == [dest |-> r, ref |-> t, state |-> "LINKING", trying |-> TRUE,
                 port |-> Min(Ports \ PortsInUse(w, p))]
           busy == p = "DCS" /\ \E i \in LinksOf(w, p, r) : w.slots[p][i].state # "UNLINKING"
<1>1. CASE busy \/ idle = {}
  BY <1>1 DEF HandlerLink
<1>2. CASE ~(busy \/ idle = {})
  <2>1. Min(idle) \in Slots
    BY <1>2, MinOfSlots DEF Slots
  <2>2. Min(Ports \ PortsInUse(w, p)) \in Ports
    BY <1>2, PortToSpare, MinOfSlots DEF Ports
  <2>3. h \in Handler
    BY <2>2 DEF Handler
  <2>4. SetSlot(w, p, Min(idle), h) \in World
    BY <2>1, <2>3, SetSlotType
  <2>5. HandlerLink(w, p, r, t) = Send(SetSlot(w, p, Min(idle), h), p, "LINK1", h)
    BY <1>2 DEF HandlerLink
  <2> HIDE DEF h, idle
  <2>. QED BY <2>3, <2>4, <2>5, SendType
<1>. QED BY <1>1, <1>2

LEMMA SetFlagType ==
    ASSUME NEW w \in World, NEW r \in Repeaters, NEW b \in BOOLEAN
    PROVE  /\ [w EXCEPT !.link[r].relink = b] \in World
           /\ [w EXCEPT !.link[r].query = b] \in World
<1>1. w.link[r] \in LinkState
  BY DEF World
<1>2. [w.link[r] EXCEPT !.relink = b] \in LinkState
  BY <1>1 DEF LinkState
<1>3. [w.link[r] EXCEPT !.query = b] \in LinkState
  BY <1>1 DEF LinkState
<1>4. [w EXCEPT !.link = [@ EXCEPT ![r] = [w.link[r] EXCEPT !.relink = b]]] \in World
  BY <1>2 DEF World
<1>5. [w EXCEPT !.link = [@ EXCEPT ![r] = [w.link[r] EXCEPT !.query = b]]] \in World
  BY <1>3 DEF World
<1>. QED BY <1>4, <1>5

LEMMA SetTargetType ==
    ASSUME NEW w \in World, NEW r \in Repeaters, NEW t \in Targets
    PROVE  [w EXCEPT !.link[r].target = t] \in World
<1>1. w.link[r] \in LinkState
  BY DEF World
<1>2. [w.link[r] EXCEPT !.target = t] \in LinkState
  BY <1>1 DEF LinkState
<1>3. [w EXCEPT !.link = [@ EXCEPT ![r] = [w.link[r] EXCEPT !.target = t]]] \in World
  BY <1>2 DEF World
<1>. QED BY <1>3

LEMMA ClearLinkType ==
    ASSUME NEW w \in World, NEW r \in Repeaters
    PROVE  ClearLink(w, r) \in World
BY SetLinkType DEF ClearLink, Phases

LEMMA LinkIntType ==
    ASSUME NEW w \in World, NEW r \in Repeaters, NEW t \in Targets \cup {NoTarget}
    PROVE  LinkInt(w, r, t) \in World
<1>1. CASE t \in Reserved \ Known
  BY <1>1 DEF LinkInt
<1>2. CASE t \in Known
  <2>1. t \in Targets /\ ViaOf[t] \in Vias /\ ViaOf[t] # "-" /\ TableOf(ViaOf[t]) \in Protocols
    BY <1>2, LinkAssumption DEF Vias, Protocols, TableOf
  <2>2. SetLink(w, r, "linking", ViaOf[t], t) \in World /\ SetLink(w, r, "none", "-", t) \in World
    BY <2>1, SetLinkType DEF Phases
  <2>. QED BY <1>2, <2>1, <2>2, HandlerLinkType DEF LinkInt
<1>3. CASE t \notin Known /\ t \notin Reserved
  <2>1. SetLink(w, r, "pending", "-", t) \in World /\ SetLink(w, r, "none", "-", t) \in World
    BY SetLinkType DEF Phases
  <2>. QED BY <1>3, <2>1, SetFlagType DEF LinkInt
<1>. QED BY <1>1, <1>2, <1>3

LEMMA SetPhaseType ==
    ASSUME NEW w \in World, NEW r \in Repeaters, NEW phase \in {"linking", "linked"},
           w.link[r].phase \in {"linking", "linked"}
    PROVE  [w EXCEPT !.link[r].phase = phase] \in World
<1>1. w.link[r] \in LinkState
  BY DEF World
<1>2. [w.link[r] EXCEPT !.phase = phase] \in LinkState
  BY <1>1 DEF LinkState, Phases
<1>3. [w EXCEPT !.link = [@ EXCEPT ![r] = [w.link[r] EXCEPT !.phase = phase]]] \in World
  BY <1>2 DEF World
<1>. QED BY <1>3

LEMMA LinkUpType ==
    ASSUME NEW w \in World, NEW r \in Repeaters, NEW p \in Protocols
    PROVE  LinkUp(w, r, p) \in World /\ LinkUp(w, r, p).slots = w.slots
<1>1. LinkUp(w, r, p) \in World
  BY SetPhaseType DEF LinkUp
<1>2. LinkUp(w, r, p).slots = w.slots
  BY DEF LinkUp, World
<1>. QED BY <1>1, <1>2

LEMMA LinkRetryType ==
    ASSUME NEW w \in World, NEW r \in Repeaters, w.link[r].phase \in {"linking", "linked"}
    PROVE  LinkRetry(w, r) \in World /\ LinkRetry(w, r).slots = w.slots
<1>1. LinkRetry(w, r) \in World
  BY SetPhaseType DEF LinkRetry
<1>2. LinkRetry(w, r).slots = w.slots
  BY DEF LinkRetry, World
<1>. QED BY <1>1, <1>2

LEMMA LinkLostType ==
    ASSUME NEW w \in World, NEW r \in Repeaters, NEW t \in Targets
    PROVE  LinkLost(w, r, t) \in World
<1>1. w.link[r].target \in Targets \cup {NoTarget}
  BY DEF World, LinkState
<1>. QED BY <1>1, SetFlagType, LinkIntType, ClearLinkType DEF LinkLost

LEMMA LinkRefusedType ==
    ASSUME NEW w \in World, NEW r \in Repeaters, NEW t \in Targets
    PROVE  LinkRefused(w, r, t) \in World
BY ClearLinkType DEF LinkRefused

LEMMA FreeSlotType ==
    ASSUME NEW w \in World, NEW p \in Protocols, NEW i \in Slots
    PROVE  FreeSlot(w, p, i) \in World
BY SetSlotType DEF FreeSlot

LEMMA HandlerChanges ==
    ASSUME NEW h \in Handler, NEW s \in {"LINKING", "LINKED", "UNLINKING"}, NEW b \in BOOLEAN
    PROVE  /\ [h EXCEPT !.state = s] \in Handler
           /\ [h EXCEPT !.trying = b] \in Handler
           /\ [h EXCEPT !.state = s, !.trying = b] \in Handler
           /\ h.dest \in Repeaters /\ h.ref \in Targets
BY DEF Handler

LEMMA DropType ==
    ASSUME NEW w \in World, NEW p \in Protocols, NEW i \in Outgoing(w, p)
    PROVE  Drop(w, p, i) \in World
<1> DEFINE h == w.slots[p][i]
<1>1. i \in Slots /\ h \in Handler
  BY OutgoingHandler
<1> HIDE DEF h
<1>2. CASE p = "DEXTRA"
  <2>1. SetSlot(w, p, i, [h EXCEPT !.state = "UNLINKING"]) \in World
    BY <1>1, HandlerChanges, SetSlotType
  <2>2. Send(SetSlot(w, p, i, [h EXCEPT !.state = "UNLINKING"]), p, "UNLINK", h) \in World
    BY <1>1, <2>1, SendType
  <2>. QED BY <1>1, <1>2, <2>2, HandlerChanges, LinkLostType, FreeSlotType DEF Drop, DExtraDrop, h
<1>3. CASE p = "DPLUS"
  BY <1>1, <1>3, SendType, FreeSlotType DEF Drop, DPlusDrop, h
<1>4. CASE p = "DCS"
  <2>1. SetSlot(w, p, i, [h EXCEPT !.state = "UNLINKING", !.trying = TRUE]) \in World
    BY <1>1, HandlerChanges, SetSlotType
  <2>. QED BY <1>1, <1>4, <2>1, SendType DEF Drop, DCSDrop, h
<1>. QED BY <1>2, <1>3, <1>4 DEF Protocols

LEMMA UnlinkType ==
    ASSUME NEW w \in World, NEW p \in Protocols, NEW r \in Repeaters, NEW t
    PROVE  UnlinkExcept(w, p, r, t) \in World /\ UnlinkOnly(w, p, r, t) \in World
<1>1. \A u \in World : \A i : DropOther(u, p, r, t, i) \in World /\ DropThat(u, p, r, t, i) \in World
  BY DropType DEF DropOther, DropThat, LinksOf
<1>. QED BY <1>1 DEF UnlinkExcept, UnlinkOnly, ForEachSlot

LEMMA UnlinkAllType ==
    ASSUME NEW w \in World, NEW r \in Repeaters
    PROVE  UnlinkAll(w, r) \in World
BY UnlinkType DEF UnlinkAll, Protocols

---------------------------------------------------------------------------
(* What a reflector, a timer or the cache does to the tables *)

LEMMA AnswerType ==
    ASSUME NEW w \in World, NEW p \in Protocols, NEW i \in Outgoing(w, p)
    PROVE  Acked(w, p, i) \in World /\ Naked(w, p, i) \in World /\ Unlinked(w, p, i) \in World
<1> DEFINE h == w.slots[p][i]
<1>1. i \in Slots /\ h \in Handler /\ h.dest \in Repeaters /\ h.ref \in Targets
  BY OutgoingHandler
<1>2. LinkUp(w, h.dest, p) \in World /\ LinkRefused(w, h.dest, h.ref) \in World
      /\ LinkLost(w, h.dest, h.ref) \in World
  BY <1>1, LinkUpType, LinkRefusedType, LinkLostType
<1>3. [h EXCEPT !.state = "LINKED", !.trying = FALSE] \in Handler
  BY <1>1, HandlerChanges
<1> HIDE DEF h
<1>4. Acked(w, p, i) \in World
  BY <1>1, <1>2, <1>3, SetSlotType DEF Acked, h
<1>5. Naked(w, p, i) \in World
  <2>1. FreeSlot(LinkRefused(w, h.dest, h.ref), p, i) \in World /\ FreeSlot(w, p, i) \in World
        /\ FreeSlot(LinkLost(w, h.dest, h.ref), p, i) \in World
    BY <1>1, <1>2, FreeSlotType
  <2>2. Send(FreeSlot(LinkRefused(w, h.dest, h.ref), p, i), p, "UNLINK", h) \in World
    BY <1>1, <2>1, SendType
  <2>. QED BY <2>1, <2>2 DEF Naked, h
<1>6. Unlinked(w, p, i) \in World
  BY <1>1, <1>2, FreeSlotType DEF Unlinked, h
<1>. QED BY <1>4, <1>5, <1>6

LEMMA AnswersType ==
    ASSUME NEW w \in World, NEW m \in Request
    PROVE  AckAll(w, m) \in World /\ NakAll(w, m) \in World
           /\ (m.proto = "DPLUS" => GreetAll(w, m) \in World)
<1>1. m.proto \in Protocols
  BY DEF Request
<1>2. \A u \in World : \A i : AckAt(u, m, i) \in World /\ NakAt(u, m, i) \in World
  BY <1>1, AnswerType DEF AckAt, NakAt, AnswerReaches, Reaches
<1>3. ASSUME m.proto = "DPLUS", NEW u \in World, NEW i
      PROVE  GreetAt(u, m, i) \in World
  <2>1. CASE AnswerReaches(u, m, i)
    <3> DEFINE h == u.slots["DPLUS"][i]
               v == SetSlot(u, "DPLUS", i, [h EXCEPT !.trying = FALSE])
    <3>1. i \in Outgoing(u, "DPLUS") /\ "DPLUS" \in Protocols
      BY <1>3, <2>1 DEF AnswerReaches, Reaches, Protocols
    <3>2. i \in Slots /\ h \in Handler
      BY <3>1, OutgoingHandler
    <3>3. v \in World
      BY <3>1, <3>2, HandlerChanges, SetSlotType
    <3>4. GreetAt(u, m, i) = Send(v, "DPLUS", "LINK2", h)
      BY <2>1 DEF GreetAt
    <3> HIDE DEF v, h
    <3>. QED BY <3>1, <3>2, <3>3, <3>4, SendType
  <2>2. CASE ~AnswerReaches(u, m, i)
    BY <2>2 DEF GreetAt
  <2>. QED BY <2>1, <2>2
<1>. QED BY <1>2, <1>3 DEF AckAll, NakAll, GreetAll, ForEachSlot

LEMMA DismissType ==
    ASSUME NEW w \in World, NEW p \in Protocols, NEW q, NEW t
    PROVE  Dismiss(w, p, q, t) \in World
<1>1. \A u \in World : \A i : DismissAt(u, p, q, t, i) \in World
  BY AnswerType DEF DismissAt, Reaches
<1>. QED BY <1>1 DEF Dismiss, ForEachSlot

LEMMA InactiveType ==
    ASSUME NEW w \in World, NEW p \in Protocols, NEW i \in Outgoing(w, p)
    PROVE  Inactive(w, p, i) \in World
<1> DEFINE h == w.slots[p][i]
           again == [h EXCEPT !.state = "LINKING", !.trying = TRUE]
<1>1. i \in Slots /\ h \in Handler /\ h.dest \in Repeaters /\ h.ref \in Targets
  BY OutgoingHandler
<1>2. again \in Handler
  BY <1>1, HandlerChanges
<1> HIDE DEF h, again
<1>3. CASE WantsReconnect(w, h.dest, p, h.ref)
  <2>1. LinkRetry(w, h.dest) \in World
    BY <1>1, <1>3, LinkRetryType DEF WantsReconnect
  <2>2. Send(SetSlot(LinkRetry(w, h.dest), p, i, again), p, "LINK1", again) \in World
    BY <1>1, <1>2, <2>1, SetSlotType, SendType
  <2>. QED BY <1>3, <2>2 DEF Inactive, h, again
<1>4. CASE ~WantsReconnect(w, h.dest, p, h.ref)
  BY <1>1, <1>4, FreeSlotType DEF Inactive, h
<1>. QED BY <1>3, <1>4

LEMMA GatewayGoneType ==
    ASSUME NEW w \in World, NEW p \in Protocols, NEW g
    PROVE  GatewayGone(w, p, g) \in World
<1>1. \A u \in World : \A i : GoneAt(u, p, g, i) \in World
  BY OutgoingHandler, LinkLostType, FreeSlotType DEF GoneAt
<1>. QED BY <1>1 DEF GatewayGone, ForEachSlot

---------------------------------------------------------------------------
(* Commands *)

LEMMA DPlusRelinkType ==
    ASSUME NEW w \in World, NEW r \in Repeaters, NEW t \in Targets
    PROVE  DPlusRelink(w, r, t) \in World
<1> DEFINE mine == LinksOf(w, "DPLUS", r)
           i == Min(mine)
<1>1. CASE mine = {}
  BY <1>1 DEF DPlusRelink
<1>2. CASE mine # {}
  <2>0. "DPLUS" \in Protocols
    BY DEF Protocols
  <2>1. i \in mine
    BY <1>2, MinOfSlots DEF LinksOf, Outgoing, Slots
  <2>2. i \in Outgoing(w, "DPLUS")
    BY <2>1 DEF LinksOf
  <2>3. i \in Slots /\ w.slots["DPLUS"][i] \in Handler
    BY <2>0, <2>2, OutgoingHandler
  <2>4. [w.slots["DPLUS"][i] EXCEPT !.ref = t] \in Handler
    BY <2>3 DEF Handler
  <2>5. DPlusRelink(w, r, t) = SetSlot(w, "DPLUS", i, [w.slots["DPLUS"][i] EXCEPT !.ref = t])
    BY <1>2 DEF DPlusRelink, SetSlot
  <2> HIDE DEF i
  <2>. QED BY <2>0, <2>3, <2>4, <2>5, SetSlotType
<1>. QED BY <1>1, <1>2

LEMMA ChangeModuleType ==
    ASSUME NEW w \in World, NEW r \in Repeaters, NEW t \in Targets, w.link[r].phase # "none"
    PROVE  ChangeModule(w, r, t) \in World
<1> DEFINE l == w.link[r]
           new == [w EXCEPT !.link[r].relink = TRUE, !.link[r].target = t]
<1>1. l \in LinkState
  BY DEF World
<1>2. CASE l.phase = "pending"
  <2>1. l.via = "-"
    BY <1>1, <1>2 DEF LinkState
  <2>. QED BY <1>2, <2>1 DEF ChangeModule
<1>3. CASE l.phase # "pending" /\ l.via = "DPLUS"
  <2>1. [w EXCEPT !.link[r].target = t] \in World
    BY SetTargetType
  <2>. QED BY <1>3, <2>1, DPlusRelinkType DEF ChangeModule
<1>4. CASE l.phase # "pending" /\ l.via # "DPLUS"
  <2>1. l.via \in Vias /\ l.via # "-" /\ TableOf(l.via) \in Protocols
    BY <1>1, <1>4 DEF LinkState, Phases, Vias, Protocols, TableOf
  <2>2. new \in World
    <3>1. [w EXCEPT !.link[r].relink = TRUE] \in World
      BY SetFlagType
    <3>2. \A u \in World : [u EXCEPT !.link[r].target = t] \in World
      BY SetTargetType
    <3>3. new = [[w EXCEPT !.link[r].relink = TRUE] EXCEPT !.link[r].target = t]
      OBVIOUS
    <3>. QED BY <3>1, <3>2, <3>3
  <2>3. SetLink(UnlinkExcept(new, TableOf(l.via), r, t), r, "linking", l.via, t) \in World
    BY <2>1, <2>2, UnlinkType, SetLinkType DEF Phases
  <2>. QED BY <1>4, <2>3 DEF ChangeModule
<1>. QED BY <1>2, <1>3, <1>4

LEMMA LinkToType ==
    ASSUME NEW w \in World, NEW r \in Repeaters, NEW t \in Targets
    PROVE  LinkTo(w, r, t) \in World
BY ChangeModuleType, UnlinkAllType, LinkIntType DEF LinkTo, SameGateway

LEMMA CommandTypes ==
    ASSUME NEW w \in World, NEW r \in Repeaters
    PROVE  /\ Unlink(w, r) \in World /\ Command(r, w) \in World
           /\ RfUnlinkEffect(r, w) \in World
           /\ \A t \in Targets : RfLinkEffect(r, t, w) \in World
           /\ StartupInt(w, r) \in World
<1>1. \A u \in World : Unlink(u, r) \in World
  BY UnlinkAllType, ClearLinkType DEF Unlink
<1>2. Command(r, w) \in World
  BY SetFlagType DEF Command
<1>3. StartupInt(w, r) \in World
  <2>1. Startup[r] \in Targets \cup {NoTarget}
    BY ControlAssumption
  <2>2. SetLink(w, r, "pending", "-", Startup[r]) \in World
        /\ SetLink(w, r, "none", "-", Startup[r]) \in World
    BY <2>1, SetLinkType DEF Phases
  <2>. QED BY <2>1, <2>2, LinkIntType, SetFlagType DEF StartupInt
<1>. QED BY <1>1, <1>2, <1>3, LinkToType DEF RfUnlinkEffect, RfLinkEffect

---------------------------------------------------------------------------
(* Type correctness *)

LEMMA BecomesType ==
    ASSUME TypeOK, NEW w \in World, Becomes(w),
           g2query' \in [Repeaters -> BOOLEAN],
           recon' \in [Repeaters -> {"unset", "stopped", "running"}]
    PROVE  TypeOK'
BY DEF TypeOK, Becomes, W, World

LEMMA RearmedType ==
    ASSUME TypeOK, NEW r \in Repeaters, NEW c \in {"unset", "stopped", "running"}
    PROVE  /\ Rearmed(r) \in [Repeaters -> {"unset", "stopped", "running"}]
           /\ [recon EXCEPT ![r] = c] \in [Repeaters -> {"unset", "stopped", "running"}]
           /\ Restart(recon[r]) \in {"unset", "stopped", "running"}
           /\ [recon EXCEPT ![r] = Restart(@)] \in [Repeaters -> {"unset", "stopped", "running"}]
           /\ \A b \in BOOLEAN : [g2query EXCEPT ![r] = b] \in [Repeaters -> BOOLEAN]
BY DEF TypeOK, Rearmed, Restart

LEMMA InitType == Init => TypeOK
<1> SUFFICES ASSUME Init PROVE TypeOK
  OBVIOUS
<1>1. Unlinked0 \in LinkState
  BY DEF Unlinked0, LinkState, Phases, Vias
<1>2. W \in World
  BY <1>1 DEF Init, W, World
<1>. QED BY <1>2 DEF Init, TypeOK

(* The steps of one repeater keep the types. *)
LEMMA RepeaterStepType ==
    ASSUME TypeOK, NEW r \in Repeaters,
           \/ RfHeader(r) \/ RfUnlink(r) \/ \E t \in Targets : RfLink(r, t)
           \/ \E t \in Targets \cup {NoTarget}, mode \in RemoteModes : RemoteLink(r, t, mode)
           \/ \E p \in Protocols, t \in Targets : RemoteUnlink(r, p, t)
           \/ ReconnectExpires(r) \/ G2Query(r) \/ G2Done(r) \/ QueryExpires(r)
           \/ \E found \in BOOLEAN : IrcReply(r, found)
    PROVE  TypeOK'
<1>0. /\ W \in World /\ g2query \in [Repeaters -> BOOLEAN]
      /\ recon \in [Repeaters -> {"unset", "stopped", "running"}]
      /\ link[r] = W.link[r] /\ link[r] \in LinkState
  BY DEF TypeOK, W, World
<1>1. AfterHeader(r) \in World
  <2>1. W.link[r].query \in BOOLEAN
    BY <1>0 DEF LinkState
  <2>2. (IF g2query[r] THEN FALSE ELSE W.link[r].query) \in BOOLEAN
    BY <2>1
  <2>3. AfterHeader(r) = [W EXCEPT !.link[r].query = IF g2query[r] THEN FALSE ELSE W.link[r].query]
    BY <1>0 DEF AfterHeader, World
  <2>4. \A b \in BOOLEAN : [W EXCEPT !.link[r].query = b] \in World
    BY <1>0, SetFlagType
  <2>. QED BY <2>2, <2>3, <2>4
<1>2. CASE RfHeader(r)
  BY <1>1, <1>2, BecomesType, RearmedType DEF RfHeader
<1>3. CASE RfUnlink(r)
  <2>1. RfUnlinkEffect(r, AfterHeader(r)) \in World /\ RfUnlinkEffect(r, W) \in World
    BY <1>0, <1>1, CommandTypes
  <2>2. /\ g2query' \in [Repeaters -> BOOLEAN]
        /\ recon' \in [Repeaters -> {"unset", "stopped", "running"}]
    BY <1>3, RearmedType DEF RfUnlink, TypeOK
  <2>3. Becomes(RfUnlinkEffect(r, AfterHeader(r))) \/ Becomes(RfUnlinkEffect(r, W))
    BY <1>3 DEF RfUnlink
  <2>. QED BY <2>1, <2>2, <2>3, BecomesType
<1>4. ASSUME NEW t \in Targets, RfLink(r, t) PROVE TypeOK'
  <2>1. RfLinkEffect(r, t, AfterHeader(r)) \in World /\ RfLinkEffect(r, t, W) \in World
    BY <1>0, <1>1, CommandTypes
  <2>2. /\ g2query' \in [Repeaters -> BOOLEAN]
        /\ recon' \in [Repeaters -> {"unset", "stopped", "running"}]
    BY <1>4, RearmedType DEF RfLink, TypeOK
  <2>3. Becomes(RfLinkEffect(r, t, AfterHeader(r))) \/ Becomes(RfLinkEffect(r, t, W))
    BY <1>4 DEF RfLink
  <2>. QED BY <2>1, <2>2, <2>3, BecomesType
<1>5. ASSUME NEW t \in Targets \cup {NoTarget}, NEW mode \in RemoteModes, RemoteLink(r, t, mode)
      PROVE  TypeOK'
  <2>1. Unlink(W, r) \in World
    BY <1>0, CommandTypes
  <2>2. t # NoTarget => LinkTo(W, r, t) \in World
    BY <1>0, LinkToType
  <2>3. PICK w \in World : Becomes(w)
    BY <1>0, <1>5, <2>1, <2>2 DEF RemoteLink
  <2>4. recon' \in [Repeaters -> {"unset", "stopped", "running"}]
    BY <1>0, <1>5 DEF RemoteLink
  <2>. QED BY <1>0, <1>5, <2>3, <2>4, BecomesType DEF RemoteLink
<1>6. ASSUME NEW p \in Protocols, NEW t \in Targets, RemoteUnlink(r, p, t) PROVE TypeOK'
  BY <1>0, <1>6, BecomesType, UnlinkType DEF RemoteUnlink
<1>7. CASE ReconnectExpires(r)
  <2>1. Startup[r] \in Targets \cup {NoTarget}
    BY ControlAssumption
  <2>2. Unlink(W, r) \in World /\ (Startup[r] # NoTarget => LinkTo(W, r, Startup[r]) \in World)
    BY <1>0, <2>1, CommandTypes, LinkToType
  <2>. QED BY <1>0, <1>7, <2>2, BecomesType, RearmedType DEF ReconnectExpires
<1>8. \A b \in BOOLEAN : [W EXCEPT !.link[r].query = b] \in World
  BY <1>0, SetFlagType
<1>9. CASE G2Query(r)
  BY <1>0, <1>8, <1>9, BecomesType, RearmedType DEF G2Query
<1>10. CASE G2Done(r)
  BY <1>0, <1>8, <1>10, BecomesType, RearmedType DEF G2Done
<1>11. CASE QueryExpires(r)
  BY <1>0, <1>8, <1>11, BecomesType, RearmedType, ClearLinkType DEF QueryExpires
<1>12. ASSUME NEW found \in BOOLEAN, IrcReply(r, found) PROVE TypeOK'
  <2> DEFINE w == [W EXCEPT !.link[r].query = FALSE]
             t == link[r].target
  <2>1. w \in World /\ t \in Targets
    BY <1>0, <1>8, <1>12 DEF IrcReply, LinkState
  <2>2. HandlerLink(SetLink(w, r, "linking", "DEXTRA", t), "DEXTRA", r, t) \in World
    BY <2>1, SetLinkType, HandlerLinkType DEF Phases, Vias, Protocols
  <2>3. ClearLink(w, r) \in World
    BY <2>1, ClearLinkType
  <2>. QED BY <1>0, <1>12, <2>2, <2>3, BecomesType DEF IrcReply
<1>. QED BY <1>2, <1>3, <1>4, <1>5, <1>6, <1>7, <1>9, <1>10, <1>11, <1>12

(* So do the steps of reflectors, the network and the timers. *)
LEMMA NetworkStepType ==
    ASSUME TypeOK,
           \/ \E m \in wire : Ack(m) \/ Nak(m) \/ Greet(m) \/ Lose(m)
           \/ \E g \in {GatewayOf[t] : t \in Targets} : GatewayRemoved(g)
           \/ \E p \in Protocols, i \in Slots :
                 TryExpires(p, i) \/ PollInactivity(p, i) \/ ReflectorDrops(p, i) \/ IncomingCloses(p, i)
           \/ \E p \in Protocols : IncomingOpens(p)
    PROVE  TypeOK'
<1>0. /\ W \in World /\ g2query \in [Repeaters -> BOOLEAN]
      /\ recon \in [Repeaters -> {"unset", "stopped", "running"}]
      /\ wire \subseteq Request
  BY DEF TypeOK, W, World
<1>1. \A m \in wire : Delivered(m) \subseteq World
  BY <1>0 DEF Delivered, World
<1>2. ASSUME NEW m \in wire, Ack(m) \/ Nak(m) \/ Greet(m) PROVE TypeOK'
  <2>1. m \in Request /\ UNCHANGED <<g2query, recon>>
    BY <1>0, <1>2 DEF Ack, Nak, Greet
  <2>2. \E w \in World : Becomes(w)
    BY <1>1, <1>2, <2>1, AnswersType DEF Ack, Nak, Greet
  <2>. QED BY <1>0, <2>1, <2>2, BecomesType
<1>3. ASSUME NEW m \in wire, Lose(m) PROVE TypeOK'
  BY <1>0, <1>1, <1>3, BecomesType DEF Lose, Delivered
<1>4. ASSUME NEW g, GatewayRemoved(g) PROVE TypeOK'
  BY <1>0, <1>4, GatewayGoneType, BecomesType DEF GatewayRemoved, Protocols
<1>5. ASSUME NEW p \in Protocols, NEW i \in Slots, TryExpires(p, i) PROVE TypeOK'
  <2>1. slots[p][i] \in Handler
    BY <1>0, <1>5, OutgoingHandler DEF TryExpires, W
  <2>2. Send(W, p, "LINK1", slots[p][i]) \in World /\ Send(W, p, "UNLINK", slots[p][i]) \in World
    BY <1>0, <2>1, SendType
  <2>. QED BY <1>0, <1>5, <2>2, BecomesType DEF TryExpires
<1>6. ASSUME NEW p \in Protocols, NEW i \in Slots, PollInactivity(p, i) PROVE TypeOK'
  BY <1>0, <1>6, InactiveType, BecomesType DEF PollInactivity
<1>7. ASSUME NEW p \in Protocols, NEW i \in Slots, ReflectorDrops(p, i) PROVE TypeOK'
  BY <1>0, <1>7, DismissType, BecomesType DEF ReflectorDrops
<1>8. ASSUME NEW p \in Protocols, NEW i \in Slots, IncomingCloses(p, i) PROVE TypeOK'
  BY <1>0, <1>8, FreeSlotType, BecomesType DEF IncomingCloses
<1>9. ASSUME NEW p \in Protocols, IncomingOpens(p) PROVE TypeOK'
  <2> DEFINE idle == {i \in Slots : slots[p][i] = Free}
  <2>1. Min(idle) \in Slots
    BY <1>9, MinOfSlots DEF IncomingOpens, Slots
  <2>2. SetSlot(W, p, Min(idle), Incoming) \in World
    BY <1>0, <2>1, SetSlotType
  <2>. QED BY <1>0, <1>9, <2>2, BecomesType DEF IncomingOpens
<1>. QED BY <1>2, <1>3, <1>4, <1>5, <1>6, <1>7, <1>8, <1>9

LEMMA NextType == TypeOK /\ [Next]_vars => TypeOK'
<1> SUFFICES ASSUME TypeOK, [Next]_vars PROVE TypeOK'
  OBVIOUS
<1>1. ASSUME NEW r \in Repeaters, Start(r) PROVE TypeOK'
  <2>1. W \in World /\ StartupInt(W, r) \in World
    BY CommandTypes DEF TypeOK
  <2>2. recon' \in [Repeaters -> {"unset", "stopped", "running"}]
    BY <1>1 DEF Start, TypeOK
  <2>. QED BY <1>1, <2>1, <2>2 DEF Start, TypeOK, W, World
<1>2. CASE starting = {} /\ Turn
  BY <1>2, RepeaterStepType, NetworkStepType DEF Turn
<1>3. CASE UNCHANGED vars
  BY <1>3 DEF vars, TypeOK, W
<1>. QED BY <1>1, <1>2, <1>3 DEF Next

(* The link tables and the link status of every repeater keep their types, *)
(* whatever the number of repeaters, reflectors and slots: a status always *)
(* has a protocol exactly when it is LINKING or LINKED, a slot always has  *)
(* a port of the pool.                                                     *)
THEOREM TypeCorrect == Spec => []TypeOK
BY InitType, NextType, PTL DEF Spec
=============================================================================

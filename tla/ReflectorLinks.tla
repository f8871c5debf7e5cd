--------------------------- MODULE ReflectorLinks ---------------------------
(***************************************************************************)
(* What CDExtraHandler, CDPlusHandler and CDCSHandler do with an outgoing  *)
(* link: unlink it, process an answer of the reflector, run its timers.    *)
(* A loop over a table visits the slots in order and sees what the calls   *)
(* it makes on the way have written into the slots it has yet to visit.    *)
(***************************************************************************)
EXTENDS RepeaterLinks

(* The loop "for (i = 0; i < m_maxReflectors; i++)".  The tables of the    *)
(* gateway have five slots; a visit does nothing to a slot above MaxLinks. *)
ForEachSlot(w, Visit(_, _)) == Visit(Visit(Visit(Visit(Visit(w, 1), 2), 3), 4), 5)

(* CDExtraHandler::unlink(handler, callsign, exclude), one slot.  The      *)
(* repeater is told before the slot is emptied.                            *)
DExtraDrop(w, i) ==
    LET h == w.slots["DEXTRA"][i]
        u == Send(SetSlot(w, "DEXTRA", i, [h EXCEPT !.state = "UNLINKING"]), "DEXTRA", "UNLINK", h)
    IN  FreeSlot(LinkLost(u, h.dest, h.ref), "DEXTRA", i)

(* CDPlusHandler::unlink(handler, callsign, exclude), one slot *)
DPlusDrop(w, i) ==
    FreeSlot(Send(w, "DPLUS", "UNLINK", w.slots["DPLUS"][i]), "DPLUS", i)

(* CDCSHandler::unlink(handler, callsign, exclude), one slot: the handler  *)
(* stays, and repeats CT_UNLINK until the reflector answers.               *)
DCSDrop(w, i) ==
    LET h == w.slots["DCS"][i]
    IN  IF h.state = "UNLINKING" THEN w
        ELSE Send(SetSlot(w, "DCS", i, [h EXCEPT !.state = "UNLINKING", !.trying = TRUE]),
                  "DCS", "UNLINK", h)

Drop(w, p, i) == CASE p = "DEXTRA" -> DExtraDrop(w, i)
                   [] p = "DPLUS"  -> DPlusDrop(w, i)
                   [] p = "DCS"    -> DCSDrop(w, i)

\* Variant: m_destination is not compared.
DropOtherOfAnyone(w, p, r, t, i) ==
    IF i \in Outgoing(w, p) /\ w.slots[p][i].ref # t THEN Drop(w, p, i) ELSE w

(* exclude = true: every outgoing link of the repeater except the one to t *)
DropOther(w, p, r, t, i) ==
    IF i \in LinksOf(w, p, r) /\ w.slots[p][i].ref # t THEN Drop(w, p, i) ELSE w

UnlinkExcept(w, p, r, t) == ForEachSlot(w, LAMBDA u, i : DropOther(u, p, r, t, i))

(* exclude = false: the links of the repeater to t *)
DropThat(w, p, r, t, i) ==
    IF i \in LinksOf(w, p, r) /\ w.slots[p][i].ref = t THEN Drop(w, p, i) ELSE w

UnlinkOnly(w, p, r, t) == ForEachSlot(w, LAMBDA u, i : DropThat(u, p, r, t, i))

\* Variant: the call for D-Plus is forgotten.
UnlinkAllButDPlus(w, r) ==
    UnlinkExcept(UnlinkExcept(w, "DEXTRA", r, NoTarget), "DCS", r, NoTarget)

(* CDExtraHandler::unlink(this); CDPlusHandler::unlink(this);              *)
(* CDCSHandler::unlink(this)                                               *)
UnlinkAll(w, r) ==
    UnlinkExcept(UnlinkExcept(UnlinkExcept(w, "DEXTRA", r, NoTarget), "DPLUS", r, NoTarget),
                 "DCS", r, NoTarget)

(* Does a datagram of target t to local port q reach slot i?  DExtra      *)
(* compares the address only, D-Plus and DCS the local port as well.       *)
Reaches(w, p, i, q, t) ==
    /\ i \in Outgoing(w, p)
    /\ GatewayOf[w.slots[p][i].ref] = GatewayOf[t]
    /\ p = "DEXTRA" \/ w.slots[p][i].port = q

\* Variant: CT_ACK is taken in every state.
AckedAnyState(w, p, i) ==
    LET h == w.slots[p][i]
    IN  SetSlot(LinkUp(w, h.dest, p), p, i, [h EXCEPT !.state = "LINKED", !.trying = FALSE])

(* processInt, CT_ACK *)
Acked(w, p, i) ==
    LET h == w.slots[p][i]
    IN  IF h.state # "LINKING" THEN w
        ELSE SetSlot(LinkUp(w, h.dest, p), p, i, [h EXCEPT !.state = "LINKED", !.trying = FALSE])

(* processInt, CT_NAK.  D-Plus deletes the link in every state. *)
Naked(w, p, i) ==
    LET h == w.slots[p][i]
        refused == FreeSlot(LinkRefused(w, h.dest, h.ref), p, i)
    IN  CASE h.state = "LINKING" /\ p = "DPLUS" -> Send(refused, p, "UNLINK", h)
          [] h.state = "LINKING" /\ p # "DPLUS" -> refused
          [] h.state # "LINKING" /\ p = "DPLUS" -> FreeSlot(w, p, i)
          [] h.state = "UNLINKING" /\ p = "DCS" -> FreeSlot(LinkLost(w, h.dest, h.ref), p, i)
          [] OTHER -> w

\* Variant: the repeater is not told.
UnlinkedQuietly(w, p, i) == FreeSlot(w, p, i)

(* processInt, CT_UNLINK: always deletes the link; DExtra and DCS tell the *)
(* repeater if the link was up, D-Plus never does.                         *)
Unlinked(w, p, i) ==
    LET h == w.slots[p][i]
    IN  FreeSlot(IF p # "DPLUS" /\ h.state = "LINKED" THEN LinkLost(w, h.dest, h.ref) ELSE w, p, i)

(* Does the answer to request m reach slot i?  ACK and NAK of DExtra and   *)
(* DCS also carry the callsign of the repeater.                            *)
AnswerReaches(w, m, i) ==
    /\ Reaches(w, m.proto, i, m.port, m.ref)
    /\ m.proto = "DPLUS" \/ w.slots[m.proto][i].dest = m.rpt

AckAt(w, m, i) == IF AnswerReaches(w, m, i) THEN Acked(w, m.proto, i) ELSE w
NakAt(w, m, i) == IF AnswerReaches(w, m, i) THEN Naked(w, m.proto, i) ELSE w

(* D-Plus, CT_LINK1 comes back: send the login, stop the try timer *)
GreetAt(w, m, i) ==
    LET h == w.slots["DPLUS"][i]
    IN  IF AnswerReaches(w, m, i)
        THEN Send(SetSlot(w, "DPLUS", i, [h EXCEPT !.trying = FALSE]), "DPLUS", "LINK2", h)
        ELSE w

(* process(CConnectData&): the answer visits every slot. *)
AckAll(w, m)   == ForEachSlot(w, LAMBDA u, i : AckAt(u, m, i))
NakAll(w, m)   == ForEachSlot(w, LAMBDA u, i : NakAt(u, m, i))
GreetAll(w, m) == ForEachSlot(w, LAMBDA u, i : GreetAt(u, m, i))

(* CT_UNLINK from target t to port q: DExtra and DCS also match the whole  *)
(* callsign of the reflector, whoever's link it is.                        *)
DismissAt(w, p, q, t, i) ==
    IF Reaches(w, p, i, q, t) /\ (p = "DPLUS" \/ w.slots[p][i].ref = t) THEN Unlinked(w, p, i) ELSE w

Dismiss(w, p, q, t) == ForEachSlot(w, LAMBDA u, i : DismissAt(u, p, q, t, i))

(* clockInt, m_pollInactivityTimer expired *)
Inactive(w, p, i) ==
    LET h == w.slots[p][i]
        again == [h EXCEPT !.state = "LINKING", !.trying = TRUE]
    IN  IF WantsReconnect(w, h.dest, p, h.ref)
        THEN Send(SetSlot(LinkRetry(w, h.dest), p, i, again), p, "LINK1", again)
        ELSE FreeSlot(w, p, i)

(* gatewayUpdate with an empty address, for DExtra and D-Plus *)
GoneAt(w, p, g, i) ==
    IF i \in Outgoing(w, p) /\ GatewayOf[w.slots[p][i].ref] = g
    THEN FreeSlot(LinkLost(w, w.slots[p][i].dest, w.slots[p][i].ref), p, i) ELSE w

GatewayGone(w, p, g) == ForEachSlot(w, LAMBDA u, i : GoneAt(u, p, g, i))
=============================================================================

--------------------------- MODULE RepeaterLinks ---------------------------
(***************************************************************************)
(* The link fields of CRepeaterHandler and the functions that change them: *)
(* linkInt, and the callbacks linkUp, linkFailed and linkRefused that the  *)
(* reflector tables call, sometimes from inside a loop over their slots.   *)
(***************************************************************************)
EXTENDS LinkTables

SetLink(w, r, phase, via, t) ==
    [w EXCEPT !.link[r] = [@ EXCEPT !.phase = phase, !.via = via, !.target = t]]

\* m_linkStatus = LS_NONE; m_linkRepeater.clear()
ClearLink(w, r) == SetLink(w, r, "none", "-", NoTarget)

(* CRepeaterHandler::linkInt *)
LinkInt(w, r, t) ==
    IF t \in Reserved \ Known THEN w            \* "is unknown, ignoring"
    ELSE IF t \in Known THEN
        LET via == ViaOf[t]
        IN  IF via = "LOOPBACK" \/ via \in Enabled
            THEN HandlerLink(SetLink(w, r, "linking", via, t), TableOf(via), r, t)
            ELSE SetLink(w, r, "none", "-", t)
    ELSE IF HasIrc
        THEN [SetLink(w, r, "pending", "-", t) EXCEPT !.link[r].query = TRUE]
        ELSE SetLink(w, r, "none", "-", t)

(* CRepeaterHandler::linkUp: only the protocol is compared with the status,*)
(* the callsign is just announced.                                         *)
LinkUp(w, r, p) ==
    IF w.link[r].phase = "linking" /\ TableOf(w.link[r].via) = p
    THEN [w EXCEPT !.link[r].phase = "linked"] ELSE w

(* CRepeaterHandler::linkFailed with isRecoverable = false *)
LinkLost(w, r, t) ==
    LET l == w.link[r]
    IN  IF l.relink THEN LinkInt([w EXCEPT !.link[r].relink = FALSE], r, l.target)
        ELSE IF l.phase # "none" /\ l.target = t THEN ClearLink(w, r)
        ELSE w

(* What linkFailed returns for isRecoverable = true: try this link again?  *)
WantsReconnect(w, r, p, t) ==
    LET l == w.link[r]
    IN  l.phase \in {"linking", "linked"} /\ l.target = t /\ TableOf(l.via) = p

(* CRepeaterHandler::linkFailed with isRecoverable = true, answered true *)
LinkRetry(w, r) == [w EXCEPT !.link[r].phase = "linking"]

(* CRepeaterHandler::linkRefused *)
LinkRefused(w, r, t) == IF w.link[r].target = t THEN ClearLink(w, r) ELSE w
=============================================================================

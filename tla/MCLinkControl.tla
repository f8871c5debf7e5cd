--------------------------- MODULE MCLinkControl ---------------------------
(***************************************************************************)
(* Small worlds for LinkControl.  x1, x2 and y1 are modules of two DExtra  *)
(* reflectors, d1 and d2 of a DCS, p1 and p2 of a D-Plus reflector, a1 and *)
(* a2 of this gateway itself (loopback); g1 is a gateway only ircDDB may   *)
(* know, u1 a reflector missing from the hosts files.                      *)
(***************************************************************************)
EXTENDS LinkControl

CONSTANTS x1, x2, y1, d1, d2, p1, p2, a1, a2, g1, u1

MCGatewayOf == [t \in Targets |->
    CASE t \in {x1, x2} -> "XRF1" [] t = y1 -> "XRF2" [] t \in {d1, d2} -> "DCS1"
      [] t \in {p1, p2} -> "REF1" [] t \in {a1, a2} -> "OWN"
      [] t = g1 -> "GWY" [] t = u1 -> "XLX1"]

MCViaOf == [t \in Targets |->
    CASE t \in {d1, d2} -> "DCS" [] t \in {p1, p2} -> "DPLUS" [] t \in {a1, a2} -> "LOOPBACK"
      [] OTHER -> "DEXTRA"]

MCKnown     == Targets \ {g1, u1}
MCReserved  == Targets \ {a1, a2, g1}
MCNoStartup == [r \in Repeaters |-> NoTarget]
MCStartup   == [r \in Repeaters |-> CHOOSE t \in Targets : t \in {x1, d1, p1, a1}]
MCUnknownStartup == [r \in Repeaters |-> u1]
=============================================================================

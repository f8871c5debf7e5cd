\* One repeater between reflectors of all three protocols, remote control included.
SPECIFICATION Spec
INVARIANTS LinksMatchStatus DExtraLinkedIsReal
CONSTANTS
  x1 = x1 x2 = x2 y1 = y1 d1 = d1 d2 = d2 p1 = p1 p2 = p2 a1 = a1 a2 = a2 g1 = g1 u1 = u1
  Repeaters = {r1}
  Targets = {x1, y1, p1, d1}
  Enabled = {"DEXTRA", "DPLUS", "DCS"}
  HasIrc = TRUE
  MaxLinks = 2
  MaxWire = 2
  AtStartup = {}
  Fixed = {}
  Timed = {}
  RemoteModes = {"timed"}
  OpenTo = {"DEXTRA"}
  NoTarget = NoTarget
  Free = Free
  Incoming = Incoming
  GatewayOf <- MCGatewayOf
  ViaOf <- MCViaOf
  Known <- MCKnown
  Reserved <- MCReserved
  Startup <- MCNoStartup

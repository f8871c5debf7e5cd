\* Slots of DCS and DExtra with reflectors that answer those who keep asking.
SPECIFICATION FairSpec
PROPERTIES HandshakeEnds
CONSTANTS
  x1 = x1 x2 = x2 y1 = y1 d1 = d1 d2 = d2 p1 = p1 p2 = p2 a1 = a1 a2 = a2 g1 = g1 u1 = u1
  Repeaters = {r1}
  Targets = {x1, d1}
  Enabled = {"DEXTRA", "DCS"}
  HasIrc = TRUE
  MaxLinks = 1
  MaxWire = 4
  AtStartup = {}
  Fixed = {}
  Timed = {}
  RemoteModes = {}
  OpenTo = {}
  NoTarget = NoTarget
  Free = Free
  Incoming = Incoming
  GatewayOf <- MCGatewayOf
  ViaOf <- MCViaOf
  Known <- MCKnown
  Reserved <- MCReserved
  Startup <- MCNoStartup

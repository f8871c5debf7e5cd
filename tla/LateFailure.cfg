\* A DCS link is left for a DExtra reflector after a change of module.
SPECIFICATION Spec
PROPERTIES LateFailureIgnored
CONSTANTS
  x1 = x1 x2 = x2 y1 = y1 d1 = d1 d2 = d2 p1 = p1 p2 = p2 a1 = a1 a2 = a2 g1 = g1 u1 = u1
  Repeaters = {r1}
  Targets = {x1, d1, d2}
  Enabled = {"DEXTRA", "DCS"}
  HasIrc = TRUE
  MaxLinks = 2
  MaxWire = 1
  AtStartup = {}
  Fixed = {}
  Timed = {}
  RemoteModes = {}
  OpenTo = {}
  NoTarget = NoTarget
  Free = Free
  Incoming = Incoming
  GatewayOf <- MCGatewayOf
  ViaOf <- MCViaOf
  Known <- MCKnown
  Reserved <- MCReserved
  Startup <- MCNoStartup

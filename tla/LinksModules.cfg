\* Changes of module on DExtra, D-Plus and a loopback, late answers to links being closed, and an
\* unknown startup reflector that ircDDB resolves.
SPECIFICATION Spec
INVARIANTS TypeOK ProtocolsAgree
PROPERTIES OnlyAnAckLinks
CONSTANTS
  x1 = x1 x2 = x2 y1 = y1 d1 = d1 d2 = d2 p1 = p1 p2 = p2 a1 = a1 a2 = a2 g1 = g1 u1 = u1
  Repeaters = {r1}
  Targets = {a1, a2, p1, p2, x1, x2, u1}
  Enabled = {"DEXTRA", "DPLUS", "DCS"}
  HasIrc = TRUE
  MaxLinks = 2
  MaxWire = 1
  AtStartup = {r1}
  Fixed = {}
  Timed = {r1}
  RemoteModes = {}
  OpenTo = {}
  NoTarget = NoTarget
  Free = Free
  Incoming = Incoming
  GatewayOf <- MCGatewayOf
  ViaOf <- MCViaOf
  Known <- MCKnown
  Reserved <- MCReserved
  Startup <- MCUnknownStartup

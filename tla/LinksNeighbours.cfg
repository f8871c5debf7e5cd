\* Two repeaters in one DExtra table: r1 fixed to x1, r2 back to x1 on a timer; g1 is
\* for ircDDB to find.
SPECIFICATION Spec
INVARIANTS FixedStaysHome
PROPERTIES Isolation
CONSTANTS
  x1 = x1 x2 = x2 y1 = y1 d1 = d1 d2 = d2 p1 = p1 p2 = p2 a1 = a1 a2 = a2 g1 = g1 u1 = u1
  Repeaters = {r1, r2}
  Targets = {x1, g1}
  Enabled = {"DEXTRA"}
  HasIrc = TRUE
  MaxLinks = 2
  MaxWire = 1
  AtStartup = {r1, r2}
  Fixed = {r1}
  Timed = {r2}
  RemoteModes = {}
  OpenTo = {"DEXTRA"}
  NoTarget = NoTarget
  Free = Free
  Incoming = Incoming
  GatewayOf <- MCGatewayOf
  ViaOf <- MCViaOf
  Known <- MCKnown
  Reserved <- MCReserved
  Startup <- MCStartup

\* Every kind of traffic by itself, each on the least instance with its hazards.
SPECIFICATION TrafficSpec
INVARIANTS TrafficTypeOK ToTheirRepeater WholeStreams ReadAsWritten Answerable TextArrives TellsTheTime
PROPERTIES LoopEnds Served LinkFreed OncePerInterval
CHECK_DEADLOCK FALSE
CONSTANTS
  g1 = g1
  g2 = g2
  s1 = s1
  s2 = s2
  s3 = s3
  r1 = r1
  r2 = r2
  n1 = n1
  n2 = n2
  Senders = {g1, g2}
  Streams = {s1, s2, s3}
  SenderOf <- TwoGateways
  RepeaterOf <- TwoRepeaters
  IdOf <- TwoNumbers
  MaxRoutes = 2
  MaxSocket = 2
  MaxArrivals = 3
  Nobody = Nobody
  NoStream = NoStream
  Protocols = {"DExtra", "DPlus", "DCS"}
  Repeaters = {r1, r2}
  Reflectors = {x}
  Callers = {c}
  Modules = {m1, m2}
  MaxLinks = 2
  MaxDongles = 1
  Numbers = {n1, n2}
  Free = free
  None = none
  Lost = lost
  Base = 3
  Calls = {call}
  Flags = {f}
  Bands = {b}
  NoValue = nv
  Speech = sp
  EndPattern = ep
  MaxHops = 3
  Names = {a1, a2}
  Letters = {A, B}
  Blank = bl
  NoName = nn
  PollKinds = {"OUT", "IN"}
  ConnectKinds = {"LINK1", "LINK2", "UNLINK", "ACK", "NAK"}
  Round = 3
  Lengths = {2, 4}
  NoHour = nh
  Groups = {e1, e2}
  Stations = {d1, d2, d3}
  Users = {u1, u2}
  Everyone = ev
  NoCall = nc
  NoRoute = nr
  MaxEthernet = 4
  Pairs = 2
  MaxText = 8

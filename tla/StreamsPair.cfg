\* Two repeaters without links, routed to each other or not at all.
SPECIFICATION Spec
CONSTANTS
  NRepeaters = 2
  Ids = {i1, i2}
  Commands = {"crossband", "refused"}
  Linked = FALSE
  Net = Net
  Own = Own
  None = None
INVARIANT Watched

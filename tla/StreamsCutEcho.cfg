\* An echo of a transmission that is cut off.
SPECIFICATION Spec
CONSTANTS
  NRepeaters = 1
  Ids = {i1}
  Commands = {"talk", "echo"}
  Linked = TRUE
  Net = Net
  Own = Own
  None = None
INVARIANT Survives
\* The gateway may crash (EchoTurn).
CHECK_DEADLOCK FALSE

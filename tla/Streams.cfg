\* One repeater, two streams, every command but cross-band; radios die, watchdogs expire.
SPECIFICATION FairSpec
CONSTANTS
  NRepeaters = 1
  Ids = {i1, i2}
  Commands = {"nobody", "talk", "echo", "info", "version", "refused", "cached", "user", "repeater"}
  Linked = TRUE
  Net = Net
  Own = Own
  None = None
INVARIANT TypeOK
INVARIANT PointersHeld
INVARIANT HeaderFirst
INVARIANT PlayersYield
 
PROPERTY Recovers
\* The gateway may crash (EchoTurn).
CHECK_DEADLOCK FALSE

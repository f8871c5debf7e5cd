\* Every connect and poll of the three link protocols, between two places.
SPECIFICATION ControlSpec
INVARIANTS EveryMessageIsRead
CHECK_DEADLOCK FALSE
CONSTANTS
  Names = {a1, a2}
  Letters = {A, B}
  Blank = bl
  NoName = nn
  PollKinds = {"OUT", "IN"}
  ConnectKinds = {"LINK1", "LINK2", "UNLINK", "ACK", "NAK"}

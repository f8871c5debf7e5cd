\* A ring of four places by itself; a controller with prompt or with late answers.
SPECIFICATION DriverSpec
INVARIANTS DriverTypeOK InOrderOnce
PROPERTIES ImplementsQueue Reliable TakesWhatItRead FrameLeaves
CONSTANTS
  Items = {a, b}
  NoItem = NoItem
  Length = 4
  None = None
  MaxWrites = 3
  LateWrites = 2
  MaxItems = 2
  MaxFlight = 2
  SeqSpace = 3
  QueueLength = 3

SPECIFICATION FairSpec
CONSTANTS
  x = x
  y = y
  d = d
  File = {y}
  Dir = {d}
  Root = Root
  In <- MCInDir
  Rules = Rules
  Content = {"A", "B"}
  Gone = Gone
  None = None
  EventCap = 1
  QueueCap = 1
  TimerId = {1, 2}
  Drift = {}
  MaxEdits = 2
  MaxFaults = 1
INVARIANTS TypeOK NoChangeForgotten DropsAwaitRescan
PROPERTIES PresentIsKept CatchesUp Converges
CHECK_DEADLOCK FALSE

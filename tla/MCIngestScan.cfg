SPECIFICATION FairSpec
CONSTANTS
  f = f
  a = a
  m = m
  c1 = c1
  c2 = c2
  img = img
  File = {f}
  Archive = {a}
  Member = {m}
  Of <- MCOf
  Content = {c1, c2, img}
  Refused = {img}
  Packing <- Packings
  Gone = Gone
  Link = Link
  Big = Big
  None = None
  Signalled = {f}
  Drift = {}
  MaxEdits = 2
  MaxFaults = 1
INVARIANTS TypeOK MarkerIsHonest ReconciledAfterScan
PROPERTIES OnlyMissingTombstoned NeverBlinks Converges
CHECK_DEADLOCK FALSE

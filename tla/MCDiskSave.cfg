SPECIFICATION DiskSpec
CONSTANTS
  Chunk = {1, 2}
  Identity = {i1, i2}
  NoIdentity = noidentity
  Content = {x, y}
  NoVector = novector
  NoFile = nofile
  Header = header
  HalfHeader = halfheader
  Torn = torn
  Gap = gap
  MaxBatch = 2
  MaxLog = 4
  Faults = {"dirsync"}
  MaxMishaps = 1
INVARIANTS SearchSeesAcked
SYMMETRY Interchangeable
CHECK_DEADLOCK FALSE

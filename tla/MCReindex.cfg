SPECIFICATION Spec
CONSTANTS
  text = text
  code = code
  d1 = d1
  d2 = d2
  File = {text, code}
  Doc = {d1}
  FileOf <- Kind
  MaxVersion = 1
  Absent = absent
  None = none
  NoRow = norow
  Part = part
  Drift = {}
  MaxFaults = 2
  MaxCrashes = 2
INVARIANTS ReindexTypeOK SkippedIsSearchable
PROPERTIES GenerationIsAtomic GateKept Recovers

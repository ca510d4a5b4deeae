SPECIFICATION FairSpec
CONSTANTS
  c1 = c1
  c2 = c2
  n1 = n1
  r1 = r1
  r2 = r2
  Call = {c1, c2}
  Nonce = {n1}
  Req = {r1, r2}
  Nobody = Nobody
  Drift = {}
  MaxFaults = 1
  MaxCrashes = 1
INVARIANTS PaidTypeOK OneRequestPerNonce NeverRunAgain PaidResultKept SettledOnce
PROPERTIES LedgerHolds StoredResultSettles Answered

SPECIFICATION Spec
CONSTANTS
  m1 = m1
  m2 = m2
  r1 = r1
  r2 = r2
  l1 = l1
  Leads = {l1, l2}
  Members = {m1, m2}
  NoUser = NoUser
  Pooled = {}
  Requests = {r1, r2}
  NoRequest = NoRequest
  Requester <- MCRequester
  Quantity <- MCQuantity
  Fits <- MCFits
  Approvable = {2}
  Cap <- MCCap
  Weight <- MCWeight
  Sessions = {timer, admin}
  Timer = timer
  Limits = {1, 2}
  Limit = 2
  MaxRounds = 50000
  Unreliable = {m2}
INVARIANTS
  TypeOK FulfilmentCounts OpenRowNamesOwner StrictRotation FairShares
PROPERTIES
  NoTakeover AllocationSpec

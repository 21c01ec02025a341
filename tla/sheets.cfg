SPECIFICATION Spec
CONSTANTS
  Leads = {l1}
  v1 = v1
  v2 = v2
  v3 = v3
  v4 = v4
  Values = {v1, v2, v3, v4}
  Merged <- MCMerged
  Stored = {v1}
  Edited = {v2}
  Typed = {v3, Blank}
  Blank = Blank
  NoRow = NoRow
  NoLead = NoLead
  NoEvent = NoEvent
  Workers = {w1, w2}
  MaxEdits = 1
  MaxTyped = 1
  MaxFaults = 1
INVARIANTS
  TypeOK
  OneSync
  NoEditForgotten
PROPERTIES
  CrmPrevails
  LockFreed

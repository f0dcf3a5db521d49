CONSTANTS
  r1 = r1
  r2 = r2
  Req = {r1, r2}
  a1 = a1
  Assets = {a1}
  Nil = Nil
  MaxDbFails = 1
  Faults = {"api", "chart", "psql", "drop", "tier", "ret", "crash"}
SPECIFICATION HubLiveSpec
INVARIANTS
  HubTypeOK
  InitsOwnDb
PROPERTIES
  Answered

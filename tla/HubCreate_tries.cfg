CONSTANTS
  r1 = r1
  Req = {r1}
  a1 = a1
  Assets = {a1}
  Nil = Nil
  MaxDbFails = 5
  Faults = {"psql"}
SPECIFICATION HubSpec
INVARIANTS
  FewTries

CONSTANTS
  s1 = s1
  s2 = s2
  s3 = s3
  Subdomains = {s1, s2, s3}
  FirstSub = s1
  Within <- Nested
  None = None
  FirstTier = "b0"
  Jobs <- FewJobs
  Admin = "between"
  Faults = {"k8s", "ita", "lock", "crash"}
SPECIFICATION Spec
INVARIANTS
  TypeOK
  UpdateTakesHold
PROPERTIES
  LabelLast
  NothingCustomBelowB

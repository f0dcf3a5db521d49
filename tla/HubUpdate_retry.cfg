CONSTANTS
  s1 = s1
  s2 = s2
  s3 = s3
  Subdomains = {s1, s2, s3}
  FirstSub = s1
  Within <- Nested
  None = None
  FirstTier = "b0"
  Jobs <- AllJobs
  Admin = "never"
  Faults = {"k8s"}
SPECIFICATION Spec
PROPERTIES
  HostHasOldName

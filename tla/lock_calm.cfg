SPECIFICATION Spec
CONSTANTS
  p1 = p1  p2 = p2  p3 = p3  h1 = h1  h2 = h2
  n1 = n1  n2 = n2  n3 = n3  n4 = n4
  Inst = {p1, p2, p3}
  Host = {h1, h2}
  HostOf <- TwoHosts
  Pid = {n1, n2}
  Rule = {"a", "b"}
  StaleTimeout = 1
  MaxTime = 1
  MaxLives = 1
  Mortal = {}
  StopPoints = {}
  PidRecycling = TRUE
  AllowForce = FALSE
  FaultPoints = {}
  Absent = Absent  Empty = Empty  None = None  NoPid = NoPid
INVARIANTS TypeOK MutualExclusion HolderIsVisible OwnerInv
PROPERTIES ImplementsSyncMutex
SYMMETRY PidSymmetry

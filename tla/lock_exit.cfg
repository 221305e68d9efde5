SPECIFICATION Spec
CONSTANTS
  p1 = p1  p2 = p2  p3 = p3  h1 = h1  h2 = h2
  n1 = n1  n2 = n2  n3 = n3  n4 = n4
  Inst = {p1, p2, p3}
  Host = {h1}
  HostOf <- OneHost
  Pid = {n1, n2, n3}
  Rule = {"a"}
  StaleTimeout = 1
  MaxTime = 0
  MaxLives = 1
  Mortal = {p1, p2}
  StopPoints <- AtRest
  PidRecycling = FALSE
  AllowForce = FALSE
  FaultPoints = {}
  Absent = Absent  Empty = Empty  None = None  NoPid = NoPid
INVARIANTS MutualExclusion
SYMMETRY PidSymmetry

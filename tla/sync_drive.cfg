SPECIFICATION Spec
CONSTANTS
  d = d  df = df  dt = dt  di = di  f = f  ft = ft  c1 = c1  c2 = c2  p1 = p1  p2 = p2
  Path = {d, df, dt, f, ft}
  Ancestors <- MCAncestors
  Rank <- MCRank
  TmpOf <- MCTmpOf
  NoPath = NoPath
  Matched = {}
  Content = {c1, c2}
  NoContent = NoContent
  Partial = Partial
  SizeOf <- MCSizeOf
  Big = {}
  Proc = {p1}
  NoProc = NoProc
  Rules <- TwoWay
  KindOf <- DriveTarget
  Start <- DriveStart
  Now = 2
  UserPath = {d, df, f}
  MaxEdits = 0
  MaxMishaps = 0
INVARIANTS Converged

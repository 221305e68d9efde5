SPECIFICATION FairSpec
CONSTANTS
  d = d  df = df  dt = dt  di = di  f = f  ft = ft  c1 = c1  c2 = c2  p1 = p1  p2 = p2
  Path = {d, df, dt, di, f, ft}
  Ancestors <- MCAncestors
  Rank <- MCRank
  TmpOf <- MCTmpOf
  NoPath = NoPath
  Matched = {di}
  Content = {c1, c2}
  NoContent = NoContent
  Partial = Partial
  SizeOf <- MCSizeOf
  Big = {}
  Proc = {p1}
  NoProc = NoProc
  Rules <- OneWay
  KindOf <- Local
  Start <- OneWayStart
  Now = 2
  UserPath = {d, df, f}
  MaxEdits = 1
  MaxMishaps = 1
INVARIANTS TypeOK OneWayMirrors OrderedRunSucceeds NoTornFile
PROPERTIES IgnoredUntouched EventuallyMirrored

SPECIFICATION Spec
CONSTANTS
  d = d  f = f  g = g  c1 = c1  c2 = c2
  Path = {d, f, g}
  Ancestors <- MCAncestors
  Rank <- MCRank
  TmpOf <- MCTmpOf
  NoPath = NoPath
  Matched = {}
  Content = {c1, c2}
  NoContent = NoContent
  Partial = Partial
  SizeOf <- MCSizeOf
  Big = {}
  Rules <- MCRules
  Pairs <- MCPairs
  MaxRuns = 2
INVARIANTS TypeOK BooksAgree WithinTotals
PROPERTIES NeverBack
CHECK_DEADLOCK FALSE

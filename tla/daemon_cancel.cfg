SPECIFICATION Spec
CONSTANTS
  c1 = c1  c2 = c2
  Caller = {c1, c2}
  None = None
  MaxStarts = 2
  NumRules = 2
  Width = 2
PROPERTIES StopStops

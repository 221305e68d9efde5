SPECIFICATION FairSpec
CONSTANTS
  c1 = c1  c2 = c2
  Caller = {c1, c2}
  None = None
  MaxStarts = 2
  NumRules = 3
  Width = 2
INVARIANTS TypeOK OneRoundAtATime NoStrayRounds RoundsAddUp
PROPERTIES CallsReturn CancelEndsLoop

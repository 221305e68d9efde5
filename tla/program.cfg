SPECIFICATION Spec
CONSTANTS
  Proc = {p1, p2}
  Client = {p1, p2}
  Pid = {d1, d2}
  NoPid = NoPid
  Absent = Absent
  Unreadable = Unreadable
  MaxStarts = 3
  None = None
  Torn = Torn
  MaxTokens = 2
  Blank = Blank
  NoConfig = NoConfig
  Files <- MCFiles
  Jobs <- MCJobs
  MaxTime = 2
SYMMETRY Sym
INVARIANTS TypeOK DaemonIsNamed TokenWhole FailsForCause LookupsSucceed RecordsInTurn HistoryTrue
PROPERTIES RefusedOnlyByDaemon
CHECK_DEADLOCK FALSE

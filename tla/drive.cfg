SPECIFICATION Spec
CONSTANTS
  a1 = a1  a2 = a2  r = r  d = d  e = e  f = f
  Adapter = {a1, a2}
  Name <- MCName
  Root <- MCRoot
  FolderPaths <- MCFolders
  FilePaths <- MCFiles
  Dot = Dot
  NoContent = NoContent
  NoId = NoId
  CallKinds <- MCKinds
  MaxIds = 11
  MaxCalls <- MCMaxCalls
INVARIANTS TypeOK CacheTrue AnswersTrue WriteLands TwinsNeedOverlap
PROPERTIES KeepsToItsPath
CHECK_DEADLOCK FALSE

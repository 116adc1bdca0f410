SPECIFICATION Spec
CONSTANTS
  Dirs = {d1, d2}
  d1 = d1
  d2 = d2
  ToolDirs = {d2}
  DefaultDir = d1
  Poses <- MCPoses
  Tours <- MCTours
  TotalImages = 3
  Waypoints = 4
  MaxCaptures = 4
  MayFail = {2}
  Waiting <- MCWaiting
INVARIANTS
  TypeOK
  CompleteSessionUnsolved
  OnlyMovedImagesCount
  RunGetsNoFrame
  FilesFollowSession
  HeadlessNeverEnds
 

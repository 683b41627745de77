SPECIFICATION FairSpec
CONSTANTS
  V1 = V1
  V2 = V2
  Viewers <- MCViewers
  BufferedHigh = 2
  BufferedLow = 1
  UnackedHigh = 2
  UnackedLow = 1
  ViewerMax = 2
  MaxOutput = 3
  MaxCloses = 1
INVARIANT SnapshotThenStream
PROPERTIES
  PausedRunResumes
  HeldOutputIsSent
CHECK_DEADLOCK FALSE

SPECIFICATION FairSpec
CONSTANTS
  W = 16
  Tps = 2
  TimeoutFM = 3
  TimeoutGM = 5
INVARIANTS RoleAgrees PpsFromLocked BoundedWait
PROPERTIES StoppedForModeChange ModeChangeEnds Holdover

SPECIFICATION FairSpec
CONSTANTS
  IntBits = 16
  Calls <- MCCalls
  LongBits = 19
  SecsMin = 2
  SecsHour = 4
  SecsDay = 8
  Times <- MCTimes
  AddrSpace = 8
  Maps <- MCMaps
  Ids = {1, 2}
  NotYet = NotYet
  Width = 3
  Device = 2
  AddrBytes = 1
  Modules <- MCModules
  IdLen = 6
  PnFirst = 2
  PnLast = 3
  SFPS_MAX = 2
  Lists <- MCLists
  NoModule = NoModule
  NoPn = NoPn
  Defaults = Defaults
  Garbled = Garbled
  MaxFaults = 1
  TxWords = 12
  MinWords = 3
  Slack = 3
  TxFrames <- MCTxFrames
CHECK_DEADLOCK FALSE
INVARIANTS PrintsBack TimeShown DevicesFound DetectsAgain SendsAsked
PROPERTIES TakesMatching MatchEnds

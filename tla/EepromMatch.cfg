SPECIFICATION Spec
CONSTANTS
  Width = 4
  Device = 5
  AddrBytes = 2
  CalLen = 1
  SFPS_MAX = 3
  Room = 4
  BufSize = 4
  Sfp = {1}
  Cal = {3}
  Name = {5}
  MaxSfps = 1
  MaxWords = 2
  MaxFaults = 1
  Lost = Lost
INVARIANTS MatchesIntact

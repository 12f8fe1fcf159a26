SPECIFICATION Spec
CONSTANTS
  Width = 5
  Device = 10
  AddrBytes = 2
  CalLen = 1
  SFPS_MAX = 3
  Room = 4
  BufSize = 6
  Sfp = {1}
  Cal = {3}
  Name = {4}
  MaxSfps = 2
  MaxWords = 2
  MaxFaults = 1
  Lost = Lost
INVARIANTS TypeOK FoundSoon
 

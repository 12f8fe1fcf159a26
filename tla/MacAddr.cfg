SPECIFICATION FairSpec
CONSTANTS
  RomBits <- MCRomBits
  Pool <- MCPool
  MAX_DEV1WIRE = 8
  Boards <- MCBoards
  LowBytes <- MCLowBytes
  Programmed <- MCProgrammed
  Entered <- MCEntered
  Frames <- MCFrames
  NoRom = NoRom
  NoMac = NoMac
  MaxEvents = 1
INVARIANTS TypeOK BootAddress 
PROPERTIES  OpReturns

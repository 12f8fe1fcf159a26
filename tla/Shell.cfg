SPECIFICATION FairSpec
CONSTANTS
  SH_ENVIRON_SIZE = 12
  SH_MAX_LINE_LEN = 6
  SH_MAX_ARGS = 3
  Letters <- MCLetters
  Typed <- MCTyped
  Lower <- MCLower
  Commands <- MCCommands
  Scripts <- MCScripts
  NoEeprom = NoEeprom
INVARIANTS TypeOK 
PROPERTIES   ShellReturns

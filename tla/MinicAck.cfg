SPECIFICATION Spec
CONSTANTS
  RxSize = 5
  MaxWords = 2
  MaxFrames = 4
  MaxFaults = 0
INVARIANTS AckOnlyWhenDrained

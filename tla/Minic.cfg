SPECIFICATION FairSpec
CONSTANTS
  RxSize = 5
  MaxWords = 2
  MaxFrames = 4
  MaxFaults = 1
INVARIANTS RingAgrees FreeWordsZero CopyIntact NoSpuriousPurge PurgeInv
PROPERTIES RefinesFifo NotifiedIsTaken

SPECIFICATION Spec
CONSTANTS
  N = 8
  Period = 2
  LoMod = 2
  MaxHi = 1
  MaxSpent = 3
INVARIANT
  TimeSetAsAsked

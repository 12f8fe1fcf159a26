SPECIFICATION FairSpec
CONSTANTS
  Addr = {a1, a2}
  Zero = Zero
  Period = 3
  QMax = 1
INVARIANTS AddressOurs AnswersOurs
PROPERTIES Paced Trained

\* A ring of five bytes, three messages, one restart of the core that prints.
CONSTANTS
  Size = 5
  Text <- MCText
  MaxMsg = 3
  MaxRestart = 1
  Nul = Nul  Old = Old
SPECIFICATION FairRingSpec
INVARIANTS LogInv PrintedInOrder
PROPERTY AllPrinted
CHECK_DEADLOCK FALSE

SPECIFICATION FairSpec
CONSTANTS
  Programs <- AllPrograms
  Extended = FALSE
INVARIANTS
  RunsAsWritten
  StackSound
PROPERTIES
  Ends

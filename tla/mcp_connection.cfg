SPECIFICATION FairSpec
CONSTANTS
  MaxCalls = 2
  MaxNotify = 1
  MaxReplies = 3
INVARIANTS
  TypeOK
  TablesAgree
  SettledOnce
  OwnAnswer
PROPERTIES
  ImplementsCalls

SPECIFICATION FairSpec
CONSTANTS
  MaxRuns = 3
  Reentrant = FALSE
INVARIANTS
  RefsCounted
  SafeDelete
  PostedToLiving
PROPERTIES
  GivenUpIsDeleted
  
  SilentAfterDestroy

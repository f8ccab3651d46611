SPECIFICATION FairSpec
CONSTANTS
  m1 = m1
  m2 = m2
  h1 = h1
  h2 = h2
  None = None
  HALF = 4
  Start = 6
  LastDue = 8
  MaxLag = 1
  Horizon = 9
  Msgs = {m1, m2}
  HandlerOf <- MCHandlerOf
  Now = {m1}
  Later = {m1, m2}
  Delays <- MCDelays
  Waits <- MCWaits
  PeekWaits = {1}
INVARIANTS
  NeverEarly
  
  NotOverslept
  GetDelayInTime
PROPERTIES
  SoonestFirst
  
CHECK_DEADLOCK FALSE

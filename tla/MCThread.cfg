SPECIFICATION FairSpec
CONSTANTS
  a = a
  b = b
  n = n
  ha = ha
  hb = hb
  m1 = m1
  m2 = m2
  m3 = m3
  None = None
  LoopThreads = {a, b}
  NativeThreads = {}
  Handlers = {ha, hb}
  Msgs = {m1, m2, m3}
  Home <- MCHome
  HandlerOf <- MCHandlerOf3
  Stoppable = {}
  Mortal = {ha}
  MaxIo = 1
INVARIANTS
  GetWakes
  SendWakes
  SenderWaits
  
PROPERTIES
  SendReturns
CHECK_DEADLOCK FALSE

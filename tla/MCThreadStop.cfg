SPECIFICATION FairSpec
CONSTANTS
  a = a
  b = b
  n = n
  ha = ha
  hb = hb
  m1 = m1
  m2 = m2
  m3 = m3
  None = None
  LoopThreads = {a, b}
  NativeThreads = {n}
  Handlers = {ha, hb}
  Msgs = {m1, m2}
  Home <- MCHome
  HandlerOf <- MCHandlerOf2
  Stoppable = {b}
  Mortal = {}
  MaxIo = 0
PROPERTIES
  SendReturns
  QueuesDrain
CHECK_DEADLOCK FALSE

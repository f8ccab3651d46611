CONSTANTS
  Alice = Alice
  Bob = Bob
  Bob2 = Bob2
  Proxy = Proxy
  Elsewhere = Elsewhere
  Audio = Audio
  Video = Video
  None = None
  Initiator = Alice
  Responders = {Bob}
  Services = {Proxy, Elsewhere}
  First = Proxy
  BareJid <- Bare
  Protocol = "gingle"
  Contents = {Audio}
  Leavers = {}
  MaxCands <- AliceOnly
  MaxInfos <- Nobody
  Faults = {}
  MaxFaults = 0
  ServiceAcks = FALSE
SPECIFICATION FairSpec
INVARIANTS InitiateFirst
 
CHECK_DEADLOCK FALSE

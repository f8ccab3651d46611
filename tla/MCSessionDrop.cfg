CONSTANTS
  Alice = Alice
  Bob = Bob
  Bob2 = Bob2
  Proxy = Proxy
  Elsewhere = Elsewhere
  Audio = Audio
  Video = Video
  None = None
  Initiator = Alice
  Responders = {Bob}
  Services = {}
  First = Bob
  BareJid <- Bare
  Protocol = "jingle"
  Contents = {Audio}
  Leavers = {}
  MaxCands <- Nobody
  MaxInfos <- Nobody
  Faults = {"lose", "drop"}
  MaxFaults = 1
  ServiceAcks = FALSE
SPECIFICATION FairSpec
PROPERTIES NoHalfOpenSession 
CHECK_DEADLOCK FALSE

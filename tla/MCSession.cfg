CONSTANTS
  Alice = Alice
  Bob = Bob
  Bob2 = Bob2
  Proxy = Proxy
  Elsewhere = Elsewhere
  Audio = Audio
  Video = Video
  None = None
  Initiator = Alice
  Responders = {Bob}
  Services = {}
  First = Bob
  BareJid <- Bare
  Protocol = "jingle"
  Contents = {}
  Leavers = {Alice}
  MaxCands <- Nobody
  MaxInfos <- BobOnly
  Faults = {"lose", "bounce", "late", "drop"}
  MaxFaults = 1
  ServiceAcks = FALSE
SPECIFICATION FairSpec
INVARIANTS EndIsPosted
PROPERTIES IsFairCall ErrorEnds
CHECK_DEADLOCK FALSE

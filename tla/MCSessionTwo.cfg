CONSTANTS
  Alice = Alice
  Bob = Bob
  Bob2 = Bob2
  Proxy = Proxy
  Elsewhere = Elsewhere
  Audio = Audio
  Video = Video
  None = None
  Initiator = Alice
  Responders = {Bob, Bob2}
  Services = {Proxy}
  First = Proxy
  BareJid <- Bare
  Protocol = "jingle"
  Contents = {}
  Leavers = {Alice, Bob, Bob2}
  MaxCands <- Nobody
  MaxInfos <- AliceOnly
  Faults = {}
  MaxFaults = 0
  ServiceAcks = TRUE
SPECIFICATION Spec
INVARIANTS AcceptedByPeer
PROPERTIES IsCall

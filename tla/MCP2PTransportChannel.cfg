SPECIFICATION FairSpec
CONSTANTS
  None = None
  p1 = p1
  p2 = p2
  r1 = r1
  Ports = {p1, p2}
  Candidates = {r1}
  Generation <- MCGeneration
  CandidateGeneration <- MCCandidateGeneration
  Network <- MCNetwork
  Rank <- MCRank
  Failures = 1
  MaxGeneration = 1
INVARIANTS
  TypeOK
  AssertsHold
  BestIsTop
  
PROPERTIES
  
  AllocatesAgain

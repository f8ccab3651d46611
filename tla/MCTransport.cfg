SPECIFICATION Spec
CONSTANTS
  audio = audio
  video = video
  ContentOrder <- MCContents
  Components <- MCComponents
  SlotSets <- MCSlotSets
  Bundle <- MCBundle
  Offer = "HYBRID"
  Answers = {"RFC5245"}
  MaxEvents <- MCMaxEvents
INVARIANTS
  RefsMatch
  NoUseAfterDelete
  
  WritableIsOr
  CandidatesFlushed
  ChannelsInStep

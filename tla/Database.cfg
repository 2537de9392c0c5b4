\* A database of each kind, files well made and odd, one call to a file.
SPECIFICATION MCSpec
CONSTANTS
  Word = 8388608
  V4Bits = 2
  V6Bits = 3
  Separator = 1
  MaxDepth = 4
  Marker <- SmallMarker
  MaxMetadata = 60
  Key <- ShortKeys
  Unknown = Unknown
  Private = Private
  Wild = Wild
  MaxCalls = 1
INVARIANTS
  ReadsInsideTree
  ReadsInsideSection
  AnswerOfNetwork
  AnswerOfDocument
  WellMadeOpens
  OpenReleases
  ReleasesOnlyTaken
PROPERTIES
  EverySearchEnds
\* No more than MaxCalls calls are asked.
CHECK_DEADLOCK FALSE

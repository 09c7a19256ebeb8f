SPECIFICATION FairSpec
CONSTANTS
  Events <- MCEvents
  Relays = {p1, p2}
  BatchSize = 2
  MaxFailures = 2
  Bits = 16
  BaseBackoff = 40
  MaxBackoff = 2400
INVARIANTS
  NeverLost
  OneSessionPerEvent
  DuplicatesHaveCause
  BackoffCapped
PROPERTIES
  PublishedIsFinal
  EventuallyPublished

SPECIFICATION Spec
CONSTANTS
  Events <- MCEvents
  Relays = {p1, p2}
  BatchSize = 2
  MaxFailures = 2
  Bits = 16
  BaseBackoff = 40
  MaxBackoff = 2400
PROPERTY
  FailedPublishPersistsNothing

\* Two identities, an event behind the one that is handled.
SPECIFICATION Spec
CONSTANTS
  i1 = i1
  i2 = i2
  FactoryId = FactoryId
  Junk = Junk
  MaxEvents = 1
  Ids <- MCIds
INVARIANTS
  AnsweredOnce
  IdIsThePeers
  FlagStays
  SnIsThePeers
  AnswersAreWhole
PROPERTIES
  PeerIsServed

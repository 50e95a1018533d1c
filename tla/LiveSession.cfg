CONSTANTS
  Peers = {1, 2, 3}
  Transient = {1, 2}
  Knows <- MCKnows
  MaxCalls = 2
  MaxInvites = 1
  MaxFaults = 1
SPECIFICATION FairSpec
CONSTRAINT InvitationsApart
INVARIANTS
  TypeOK
  OneConnection
  OutboundIsLatest
  HalfOpenIsVisible
  ReadyIsAccepted
  ArmedTabListens
  ReservedIsHeld
  InvitationUsedOnce
PROPERTY HalfOpenEnds
CHECK_DEADLOCK FALSE

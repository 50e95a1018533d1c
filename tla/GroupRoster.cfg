SPECIFICATION FairSpec
CONSTANTS
  Owner = 2
  Others = {1, 3}
  Founders = {}
  Shareable = {11}
  Private = {12}
  Recipient <- MCRecipient
  Streams = {1, 2}
  MaxEdits = 1
  MaxFaults = 1
INVARIANT TypeOK
INVARIANT AuthorizedIsMember
INVARIANT RosterIsSigned
INVARIANT TokenAdmitsOnce
PROPERTY VersionNeverDecreases
CONSTRAINT Apart
CHECK_DEADLOCK FALSE
PROPERTY JoinerAdmitted

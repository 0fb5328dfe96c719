SPECIFICATION FairMailSpec
CONSTANTS
  r1 = r1
  r2 = r2
  h1 = h1
  h2 = h2
  Event = {1}
  Replica = {r1, r2}
  NoReplica = NoReplica
  Limit = 1
  MaxFaults = 2
  Handler = {h1, h2}
  Attempts = 2
  MaxMishaps = 2
INVARIANTS
  NoMailIsDropped
  MailsCostMishaps
PROPERTIES
  MailedUnlessDeaf
CHECK_DEADLOCK FALSE

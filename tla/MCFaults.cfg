SPECIFICATION FairCallSpec
CONSTANTS
  trial = trial
  k1 = k1 
  Keys = {k1}
  Roles <- MCRoles
  Principals <- MCPrincipals
  Members <- MCMembers
  PolicyQuorums <- MCQuorums
  Submitters <- MCRequester
  CastTypes = {"approve", "reject", "accept_alternative"}
  MaxCalls = 5  MaxTimeouts = 2  MaxLosses = 2  MaxMoves = 5
INVARIANTS
  TypeOK RunsBacked RunsBounded RecordsTrue RunsOnRecord StampedSeparates
PROPERTIES
  RunReachesRecord CallsAreAtomic
CHECK_DEADLOCK FALSE

SPECIFICATION CallSpec
CONSTANTS
  trial = trial
  k1 = k1 
  Keys = {k1}
  Roles <- MCRoles
  Principals <- MCPrincipals
  Members <- MCMembers
  PolicyQuorums <- MCQuorums
  Submitters <- MCRequester
  CastTypes = {"approve", "reject"}
  MaxCalls = 4  MaxTimeouts = 1  MaxLosses = 0  MaxMoves = 5
INVARIANTS
  RunsOnce
CHECK_DEADLOCK FALSE

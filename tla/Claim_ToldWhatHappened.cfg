SPECIFICATION SurfaceSpec
CONSTANTS
  t1 = t1  k1 = k1 k2 = k2
  Trials = {t1}
  Keys = {k1, k2}
  Roles <- MCRoles
  Principals <- MCPrincipals
  Members <- MCMembers
  Tenant = TRUE
  Tokens <- MCTokens
  Senders <- MCSenders
  PolicyQuorums <- MCQuorums
  Modes = {"live", "analyze"}
INVARIANTS
  ToldWhatHappened
CHECK_DEADLOCK FALSE

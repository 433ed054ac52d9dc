SPECIFICATION FairSpec
CONSTANTS
  Requester = "req"
  Approvers <- MCApprovers
  Activities <- MCActivities
  Capacity = 2
  Addressable = TRUE
  MaxArrivals = 6
  MaxRestarts = 1
INVARIANT
  ChannelsIndependent
PROPERTIES
  ActedUponOnce EveryCardSettles
CHECK_DEADLOCK FALSE

SPECIFICATION FairSpec
CONSTANTS
  Capabilities <- All
  Updating <- Updates
  Toasts = {"teams.update_announcement"}
  Repeatable <- Overwrites
  Unserved = {"jira.create_ticket"}
  Mocked = {"planner.create_task"}
  ReadOnly = {"probe.update_value"}
  Snapshots = {"github.update_milestone_due"}
  Lookups <- LookedUp
  Plans <- MCPlans
  MaxAttempts = 3
  MaxReruns = 1
INVARIANTS
  AppliedAtMostOnce
  EveryStepAnswered
  LandedCanBeUndone
  ShownIsRecorded
PROPERTY
  Finishes
CHECK_DEADLOCK FALSE

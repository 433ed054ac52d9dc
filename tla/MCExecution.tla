---------------------------- MODULE MCExecution ----------------------------
(***************************************************************************)
(* Capabilities of the real adapters, one of each kind the template tells  *)
(* apart, an in-memory one and one nobody serves.                          *)
(***************************************************************************)
EXTENDS Execution

All == {"github.update_milestone_due", "github.create_issue",
        "sharepoint.grant_folder_permission", "teams.update_announcement",
        "planner.create_task", "probe.update_value", "jira.create_ticket"}
Updates == {"github.update_milestone_due", "teams.update_announcement", "probe.update_value"}
Overwrites == {"github.update_milestone_due", "probe.update_value"}
LookedUp == {"github.update_milestone_due", "sharepoint.grant_folder_permission",
             "teams.update_announcement"}

\* The reschedule, the access grant, and a plan with a read-only adapter.
Reschedule == <<"github.update_milestone_due", "planner.create_task", "teams.update_announcement">>
Grant == <<"sharepoint.grant_folder_permission", "jira.create_ticket", "github.create_issue">>
Watch == <<"probe.update_value", "github.create_issue">>

MCPlans == {Reschedule, Grant, Watch}
=============================================================================

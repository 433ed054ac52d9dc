----------------------------- MODULE Scenarios -----------------------------
(***************************************************************************)
(* The five scripted subjects: what each gatherer derives from the systems *)
(* it reads (app/agent/gatherers.py) and the plan each planner bases the   *)
(* trial on (app/agent/planners.py, nodes/options.py).                     *)
(*                                                                         *)
(* What a system would answer is a set of findings, facts a gatherer looks *)
(* for; dates, texts and counts are abstracted to them.  A change is a     *)
(* record of its subject, the date it names ("none", "day", or "words" in  *)
(* place of one), and the capabilities of its requested actions; a plan is its kind and the capabilities its      *)
(* steps call.                                                             *)
(***************************************************************************)
EXTENDS FiniteSets, Naturals, RulePacks

\* The system each finding is read from; "request": the change itself.
SystemOf ==
  [milestone |-> "github", events |-> "outlook", clash |-> "outlook", tasks |-> "planner",
   announcement |-> "teams", sla_passed |-> "crm", in_freeze |-> "sharepoint",
   buffer_short |-> "github", second_buffer |-> "github",
   blockers |-> "github", renewal |-> "crm", late_review |-> "outlook",
   undated |-> "request", broad |-> "request", customer_data |-> "sharepoint",
   notes |-> "teams", dated_note |-> "teams", review_note |-> "teams",
   closed |-> "github"]

\* What a target date can violate without any calendar showing it.
Constraints == {"sla_passed", "in_freeze", "buffer_short", "second_buffer"}

\* What each gatherer looks for.
LaunchFindings == {"milestone", "events", "clash", "tasks", "announcement"} \cup Constraints
SsoGaFindings == {"blockers", "renewal", "late_review"}
ProjectAccessFindings == {"undated", "broad", "customer_data"}
MeetingActionsFindings == {"notes", "dated_note", "review_note"}
WeeklyReportFindings == {"closed"}

FindingsOf ==
  [launch |-> LaunchFindings, sso_ga |-> SsoGaFindings,
   project_access |-> ProjectAccessFindings, meeting_actions |-> MeetingActionsFindings,
   weekly_report |-> WeeklyReportFindings]

Scripted == DOMAIN FindingsOf
Reads ==
  [launch |-> {"github", "outlook", "planner", "teams", "crm", "sharepoint"},
   sso_ga |-> {"github", "crm", "outlook"},
   project_access |-> {"sharepoint"},
   meeting_actions |-> {"teams", "outlook"},
   weekly_report |-> {"github", "planner", "outlook"}]

\* due_by is text: set, and one that no day can be read from.
Dated(change) == change.due # "none"
Unreadable(change) == change.due = "words"

\* A launch without a date is compared with nothing, so it reads no contract
\* and no change calendar.
SystemsRead(change) ==
  IF change.subject \notin Scripted THEN {}
  ELSE Reads[change.subject] \ IF change.subject = "launch" /\ ~Dated(change)
                               THEN {"crm", "sharepoint"} ELSE {}

GrantsFolder(change) == "sharepoint.grant_folder_permission" \in change.actions

\* The findings a world can hold for a change.
Worlds(change) ==
  IF change.subject \notin Scripted THEN {{}}
  ELSE {w \in SUBSET FindingsOf[change.subject] :
          /\ "clash" \in w => Dated(change) /\ "events" \in w
          /\ w \cap (Constraints \cup {"late_review"}) # {} => Dated(change)
          /\ w \cap {"buffer_short", "second_buffer"} # {} => ~Unreadable(change)
          /\ "second_buffer" \in w => "buffer_short" \in w
          /\ "undated" \in w => GrantsFolder(change)
          /\ change.subject = "project_access" /\ ~GrantsFolder(change) => "broad" \in w
          /\ w \cap {"dated_note", "review_note"} # {} => "notes" \in w}

TagOf ==
  [milestone |-> "schedule.milestone_move", events |-> "schedule.calendar_conflict",
   clash |-> "schedule.target_date_conflict", tasks |-> "schedule.planner_shift",
   announcement |-> "comms.pending_announcement",
   blockers |-> "github.blocking_issues_open", renewal |-> "crm.renewal_at_risk",
   late_review |-> "security.review_after_due_date",
   undated |-> "access.ambiguous_duration", broad |-> "access.overbroad_scope",
   customer_data |-> "data.customer_data_present",
   notes |-> "meeting.action_items_found", closed |-> "report.activity_collected"]

\* Two violated constraints are a breach, be they two buffers of one system.
Breach(findings) == Cardinality(findings \cap Constraints) >= 2

Gathered(findings) ==
  {TagOf[f] : f \in findings \cap DOMAIN TagOf}
    \cup IF Breach(findings) THEN {"schedule.contractual_breach_risk"} ELSE {}

-----------------------------------------------------------------------------
Feasible(steps) == [kind |-> "feasible", steps |-> steps]
SafeAlternative(steps) == [kind |-> "safe_alternative", steps |-> steps]

FeasibleFromActions(change) == Feasible(change.actions)

RescheduleSteps == {"github.update_milestone_due", "outlook.create_event",
                    "planner.shift_task_dates", "teams.update_announcement"}

PreviewSteps == {"github.comment_issue", "outlook.create_event", "crm.add_note",
                 "outlook.draft_email", "teams.create_escalation_thread"}

LeastPrivilegeSteps == {"sharepoint.grant_folder_permission", "entra.invite_guest",
                        "entra.schedule_access_revoke"}

PlannerSteps == RescheduleSteps \cup PreviewSteps \cup LeastPrivilegeSteps
                  \cup {"planner.create_task", "teams.post_message"}

PlanLaunch_BreachOnly(tags) ==
  IF "schedule.contractual_breach_risk" \in tags
  THEN SafeAlternative(RescheduleSteps) ELSE Feasible(RescheduleSteps)

\* A safer date, or the one asked for; the same ripple either way.
PlanLaunch(tags) ==
  IF tags \cap {"schedule.contractual_breach_risk", "schedule.target_date_conflict"} # {}
  THEN SafeAlternative(RescheduleSteps) ELSE Feasible(RescheduleSteps)

PlanSsoGa(change, tags) ==
  IF "security.review_after_due_date" \in tags
  THEN SafeAlternative(PreviewSteps)
  ELSE FeasibleFromActions(change)

PlanProjectAccess(change, tags) ==
  IF tags \cap {"access.overbroad_scope", "access.ambiguous_duration"} # {}
  THEN SafeAlternative(LeastPrivilegeSteps)
  ELSE FeasibleFromActions(change)

PlanMeetingActions(change, findings) ==
  IF findings \cap {"dated_note", "review_note"} = {} THEN FeasibleFromActions(change)
  ELSE Feasible({c \in {"planner.create_task", "outlook.create_event"} :
                   \/ c = "planner.create_task" /\ "dated_note" \in findings
                   \/ c = "outlook.create_event" /\ "review_note" \in findings})

PlanWeeklyReport == Feasible({"teams.post_message"})

\* A subject without a planner: refused when any pack's safety-critical tag fired.
GenericPlan(change, tags, unsafeTags) ==
  IF unsafeTags \cap tags # {} THEN SafeAlternative({}) ELSE FeasibleFromActions(change)

Baseline(change, findings, tags, unsafeTags) ==
  CASE change.subject = "launch" -> PlanLaunch(tags)
    [] change.subject = "sso_ga" -> PlanSsoGa(change, tags)
    [] change.subject = "project_access" -> PlanProjectAccess(change, tags)
    [] change.subject = "meeting_actions" -> PlanMeetingActions(change, findings)
    [] change.subject = "weekly_report" -> PlanWeeklyReport
    [] OTHER -> GenericPlan(change, tags, unsafeTags)
=============================================================================

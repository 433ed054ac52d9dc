----------------------------- MODULE RulePacks -----------------------------
(***************************************************************************)
(* The built-in rule packs (app/agent/policy_rules/packs.py) as data, and  *)
(* what is derived from a list of packs (vocabulary.py).  A pack says which *)
(* changes it governs, what each evidence tag contributes to the risk, who *)
(* must approve when it fires, and which verdicts are offered.             *)
(***************************************************************************)
LOCAL INSTANCE Sequences

Levels == {"low", "medium", "high"}
Rank == [low |-> 0, medium |-> 1, high |-> 2]
ApproverRoles == {"eng_lead", "security_lead", "account_owner", "manager", "comms"}

Factor(tag, severity) == [tag |-> tag, severity |-> severity, unsafe |-> FALSE]
UnsafeFactor(tag) == [tag |-> tag, severity |-> "high", unsafe |-> TRUE]
Approver(role, tag) == [role |-> role, tag |-> tag]

AlternativeOnly == {"accept_alternative", "request_revision", "reject"}
Plain == {"approve", "request_revision", "reject"}
WithInternal == {"approve", "approve_internal_only", "request_revision", "reject"}

LaunchSlip ==
  [id |-> "launch_slip",
   capabilities |-> {"github.update_milestone_due"},
   tags |-> {"schedule.milestone_move", "schedule.contractual_breach_risk"},
   factors |-> <<Factor("schedule.milestone_move", "medium"),
                 Factor("schedule.calendar_conflict", "low"),
                 Factor("schedule.planner_shift", "low"),
                 Factor("comms.pending_announcement", "low"),
                 UnsafeFactor("schedule.target_date_conflict"),
                 UnsafeFactor("schedule.contractual_breach_risk")>>,
   approvers |-> {Approver("eng_lead", "schedule.milestone_move"),
                  Approver("comms", "comms.pending_announcement"),
                  Approver("account_owner", "schedule.contractual_breach_risk")},
   policy |-> "any",
   default |-> WithInternal, whenUnsafe |-> AlternativeOnly, whenHigh |-> WithInternal]

CustomerPromise ==
  [id |-> "customer_promise",
   capabilities |-> {},
   tags |-> {"security.review_after_due_date", "github.blocking_issues_open",
             "crm.renewal_at_risk"},
   factors |-> <<Factor("github.blocking_issues_open", "medium"),
                 Factor("crm.renewal_at_risk", "low"),
                 UnsafeFactor("security.review_after_due_date")>>,
   approvers |-> {Approver("security_lead", "security.review_after_due_date"),
                  Approver("account_owner", "crm.renewal_at_risk")},
   policy |-> "all",
   default |-> Plain, whenUnsafe |-> AlternativeOnly, whenHigh |-> {}]

VendorAccess ==
  [id |-> "vendor_access",
   capabilities |-> {"sharepoint.grant_folder_permission"},
   tags |-> {"access.overbroad_scope", "access.ambiguous_duration"},
   factors |-> <<Factor("access.ambiguous_duration", "low"),
                 UnsafeFactor("access.overbroad_scope"),
                 Factor("data.customer_data_present", "medium")>>,
   approvers |-> {Approver("manager", "access.overbroad_scope"),
                  Approver("security_lead", "data.customer_data_present")},
   policy |-> "all",
   default |-> Plain, whenUnsafe |-> AlternativeOnly, whenHigh |-> {}]

MeetingActions ==
  [id |-> "meeting_actions",
   capabilities |-> {"planner.create_task"}, tags |-> {"meeting.action_items_found"},
   factors |-> <<Factor("meeting.action_items_found", "low")>>,
   approvers |-> {}, policy |-> "all",
   default |-> Plain, whenUnsafe |-> {}, whenHigh |-> {}]

WeeklyReport ==
  [id |-> "weekly_report",
   capabilities |-> {"teams.post_message"}, tags |-> {"report.activity_collected"},
   factors |-> <<Factor("report.activity_collected", "low")>>,
   approvers |-> {}, policy |-> "all",
   default |-> Plain, whenUnsafe |-> {}, whenHigh |-> {}]

\* The sentinel no system fires: it joins the tags of a change no pack governs.
UngovernedTag == "governance.ungoverned"

Ungoverned ==
  [id |-> "ungoverned",
   capabilities |-> {}, tags |-> {},
   factors |-> <<Factor(UngovernedTag, "medium")>>,
   approvers |-> {Approver("manager", UngovernedTag)}, policy |-> "all",
   default |-> Plain, whenUnsafe |-> {}, whenHigh |-> {}]

DefaultPacks == <<LaunchSlip, CustomerPromise, VendorAccess, MeetingActions, WeeklyReport>>

-----------------------------------------------------------------------------
\* Every tag the policy can react to, and those a refusal hangs on.
FactorsOf(packs) == UNION {{p.factors[i] : i \in DOMAIN p.factors} :
                           p \in {packs[j] : j \in DOMAIN packs}}

TagVocabulary(packs) ==
  {f.tag : f \in FactorsOf(packs)}
    \cup UNION {{a.tag : a \in packs[j].approvers} \cup packs[j].tags : j \in DOMAIN packs}

MarksUnsafeTags(packs) == {f.tag : f \in {g \in FactorsOf(packs) : g.unsafe}}
=============================================================================

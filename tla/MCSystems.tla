------------------------------ MODULE MCSystems ------------------------------
(***************************************************************************)
(* Plans of up to three steps that build on each other, over systems that  *)
(* hold a little of everything, and what their adapters make of them.      *)
(***************************************************************************)
EXTENDS Systems

Moves == {Step("github", "update_milestone_due", "m1", d) : d \in {12, 15}}
           \cup {Step("github", "update_milestone_due", "m2", 15)}
Announcements == {Step("teams", "update_announcement", "launch", x) : x \in {"moved", "held"}}
Shifts == {Step("planner", "shift_task_dates", "all", d) : d \in {3, -2}}
Creations == {Step("planner", "create_task", "t1", d) : d \in {10, None, Moment}}
Entries ==
  {Step("github", "create_issue", "i1", None), Step("github", "comment_issue", "c1", None),
   Step("teams", "post_message", "p1", None), Step("outlook", "create_event", "bad", None),
   Step("outlook", "draft_email", "a1", None), Step("crm", "append_note", "n1", None),
   Step("sharepoint", "grant_folder_permission", "a1", None),
   Step("sharepoint", "grant_folder_permission", "bad", None),
   Step("entra", "invite_guest", "a1", None),
   Step("entra", "schedule_access_revoke", "a1", None)}

Steps == Moves \cup Announcements \cup Shifts \cup Creations \cup Entries
MCNames == {"m1", "m2", "launch", "all", "t0", "t1", "t2", "i0", "i1", "c1", "p1", "a1", "n1", "bad"}
MCTexts == {"planned", "moved", "held"}
MCPlans == UNION {[1..n -> Steps] : n \in 1..3}

\* The first milestone exists and the second does not; a task may have no date.
MCWorlds ==
  {[records |-> [due |-> [m \in MCNames |-> IF m = "m1" THEN 10 ELSE None],
                 announcement |-> [a \in MCNames |-> "planned"]],
    lists |-> [l \in Lists |-> IF l \in {"issues", "notes"} THEN <<"i0">> ELSE <<>>],
    tasks |-> tasks] :
     tasks \in {<<[title |-> "t0", due |-> 9], [title |-> "t1", due |-> 10]>>,
                <<[title |-> "t1", due |-> 9], [title |-> "t2", due |-> None]>>}}

\* Everything mocked, and everything real that can be.
MCSettings == {{}, RealSystems}
=============================================================================

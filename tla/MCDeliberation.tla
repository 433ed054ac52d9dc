--------------------------- MODULE MCDeliberation ---------------------------
(***************************************************************************)
(* The built-in packs and scenarios, requests that stay within one subject *)
(* and requests that mix several, and a model that flags tags of any pack. *)
(***************************************************************************)
EXTENDS Deliberation

MCWrites == PlannerSteps \cup {"github.create_issue"}
MCServed == MCWrites \cup {"github.read_milestone"}

\* One group of words or two, which mix subjects and ask for a deletion.
MCTexts ==
  [words : {{}, {"vendor"}, {"access", "folder"}, {"meeting", "vendor"}, {"meeting", "report"},
            {"report"}, {"commit", "customer"}, {"generally_available", "launch", "move"},
            {"launch", "move"}, {"launch", "move", "delete", "repo"}},
   dates : SUBSET Mentions]

\* One subject has no gatherer and no planner; one capability no adapter.
MCSubjects == Scripted \cup {"database_migration", "none"}
MCActions == {"github.update_milestone_due", "sharepoint.grant_folder_permission",
              "github.delete_repo", UndatedMove}
MCReplies == [subject : MCSubjects, due : Dues, actions : SUBSET MCActions]

\* The milestone is due on day 1; an SLA, a freeze or two, events and two go-lives
\* on the four days after it.
MCCalendars ==
  [old : {1}, due : 2..4, sla : {{}, {2}, {3}},
   freezes : {<<>>, <<[start |-> 3, end |-> 3]>>, <<[start |-> 3, end |-> 4]>>,
              <<[start |-> 4, end |-> 4], [start |-> 2, end |-> 3]>>},
   busy : {{}, {2}, {3}, {2, 4}, {2, 3, 4}},
   dependents : {{}, {[due |-> 5, buffer |-> 2]},
                 {[due |-> 5, buffer |-> 2], [due |-> 6, buffer |-> 4]}}]

\* What the gatherer may find about days is what some calendar holds.
ASSUME \A world \in Worlds([subject |-> "launch", due |-> "day", actions |-> {}]) :
         CalendarsBehind(world) # {}

\* Nothing, one tag at a time, one no pack knows, and two pairs across packs.
MCProposals ==
  {{}, {"weather.looks_bad"}, {"schedule.milestone_move", "crm.renewal_at_risk"},
   {"access.overbroad_scope", "security.review_after_due_date"}}
    \cup {{t} : t \in TagVocabulary(DefaultPacks)}

\* A draft of registered writes, one with a read, one with a capability that
\* does not exist, one that is too long.
MCDrafts ==
  {{"github.create_issue"}, {"github.read_milestone"}, {"github.delete_repo"},
   {"github.create_issue", "crm.add_note", "teams.post_message"}}
=============================================================================

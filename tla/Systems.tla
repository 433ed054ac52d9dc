------------------------------ MODULE Systems ------------------------------
(***************************************************************************)
(* The connected systems as the adapters change them                       *)
(* (adapters/integrations/mock_*.py, real_*.py): what each write leaves in *)
(* its system, the hint it leaves for undoing it, and what its answer lets *)
(* the verify node check (agent/nodes/verify.py, domain/verification.py).  *)
(* A plan is executed step by step; then somebody follows the hints, the   *)
(* last one first.  Requests that are lost or repeated are the subject of  *)
(* Execution: here a write happens once or raises.                         *)
(*                                                                         *)
(* A step is a capability with the key and the value of its parameters:    *)
(* the name and the date of a milestone, the channel and the message of an *)
(* announcement, the title and the date of a task, the item of a list and  *)
(* nothing; a shift has the number of days for its value.                  *)
(***************************************************************************)
EXTENDS Integers, Sequences

CONSTANTS
  Plans,      \* sequences of steps
  Worlds,     \* what the systems may hold before a plan
  Settings,   \* which systems INTEGRATION_MODE gives a real adapter
  Names,      \* names of milestones, channels, items and tasks
  Texts,      \* texts of announcements
  None,       \* no date: no such milestone, a task without one
  Moment,     \* a date with a time, which the catalog admits for a task
  Malformed,  \* keys a real adapter refuses: addresses, paths, titles
  KeptDates   \* dates GitHub may keep for a milestone in place of the one asked for

RealSystems == {"github", "outlook", "teams", "sharepoint"}
ASSUMPTION SettingsAssumption == Settings \subseteq SUBSET RealSystems

Step(system, op, key, value) == [system |-> system, op |-> op, key |-> key, value |-> value]

\* Plain dates are numbered.
Dates == Int \cup {None, Moment}

\* A step of the closed catalog: its system, and a value of the right kind.
IsStep(s) ==
  /\ s = Step(s.system, s.op, s.key, s.value)
  /\ s.system \in RealSystems \cup {"crm", "entra", "planner"}
  /\ s.key \in Names
  /\ s.op = "update_announcement" => s.system = "teams" /\ s.value \in Texts
  /\ s.op # "update_announcement" => s.value \in Dates
  /\ s.system = "planner" => s.op \in {"create_task", "shift_task_dates"}
  /\ s.op = "shift_task_dates" => s.value \in Int

Lists == {"issues", "comments", "posts", "threads", "events", "drafts", "notes", "grants",
          "guests", "revokes", "toasts"}
Tasks == [title : Names, due : Dates]

\* What the systems hold: a date for each milestone, a text for each
\* announcement, lists of names, and the tasks of the planner.
WorldStates ==
  [records : [due : [Names -> Dates], announcement : [Names -> Texts]],
   lists : [Lists -> Seq(Names)], tasks : Seq(Tasks)]

ASSUMPTION DatesAssumption ==
  None \notin Int /\ Moment \notin Int /\ KeptDates \subseteq Dates
ASSUMPTION PlansAssumption ==
  \A p \in Plans : Len(p) \in Nat /\ DOMAIN p = 1..Len(p) /\ \A i \in DOMAIN p : IsStep(p[i])
ASSUMPTION WorldsAssumption == Worlds \subseteq WorldStates

-----------------------------------------------------------------------------
(***************************************************************************)
(* Hints, and what following one does.                                     *)
(***************************************************************************)
NoHint == [do |-> "nothing"]
SetBack(record, key, value) == [do |-> "set", record |-> record, key |-> key, value |-> value]
CutTo(list, size) == [do |-> "cut", list |-> list, size |-> size]
Drop(list, item) == [do |-> "drop", list |-> list, item |-> item]
DeleteTask(title) == [do |-> "delete_task", title |-> title]
ShiftBack(days) == [do |-> "shift", days |-> days]

\* The sequence without the last of the given positions.
WithoutLast(s, positions) ==
  LET last == CHOOSE i \in positions : \A j \in positions : j <= i
  IN IF positions = {} THEN s ELSE SubSeq(s, 1, last - 1) \o SubSeq(s, last + 1, Len(s))

Dated(task) == task.due \notin {None, Moment}
Shifted(tasks, which, days) ==
  [i \in DOMAIN tasks |-> IF i \in which THEN [tasks[i] EXCEPT !.due = @ + days] ELSE tasks[i]]

Follow(w, hint) ==
  CASE hint.do = "nothing" -> w
    [] hint.do = "set" -> [w EXCEPT !.records[hint.record][hint.key] = hint.value]
    [] hint.do = "cut" -> [w EXCEPT !.lists[hint.list] = SubSeq(@, 1, hint.size)]
    [] hint.do = "drop" ->
         [w EXCEPT !.lists[hint.list] = WithoutLast(@, {i \in DOMAIN @ : @[i] = hint.item})]
    [] hint.do = "delete_task" ->
         [w EXCEPT !.tasks = WithoutLast(@, {i \in DOMAIN @ : @[i].title = hint.title})]
    [] hint.do = "shift" ->
         [w EXCEPT !.tasks = Shifted(@, {i \in DOMAIN @ : Dated(@[i])}, hint.days)]

-----------------------------------------------------------------------------
(***************************************************************************)
(* The adapters.  What a write comes to: whether it raised, what it leaves *)
(* in the system, its hint, and the parameters its answer repeats, with    *)
(* their values, where the verify node looks for them.                     *)
(***************************************************************************)
Silent == [p \in {} |-> p]

Wrote(w, hint, repeats) == [raised |-> FALSE, world |-> w, hint |-> hint, repeats |-> repeats]
Raised(w, hint) == [raised |-> TRUE, world |-> w, hint |-> hint, repeats |-> Silent]

Put(w, record, s) == [w EXCEPT !.records[record][s.key] = s.value]
Add(w, list, s) == [w EXCEPT !.lists[list] = Append(@, s.key)]

\* The hint of an entry appended to a list is how long the list was, or the
\* entry itself.
Counted(w, list, s) == Wrote(Add(w, list, s), CutTo(list, Len(w.lists[list])), Silent)
Named(w, list, s) == Wrote(Add(w, list, s), Drop(list, s.key), Silent)

MilestoneHint(before, s) == IF before = None THEN NoHint ELSE SetBack("due", s.key, before)

\* The milestone is answered as an object, so no parameter is repeated.  The
\* hint for one that did not exist is its empty record, which restores nothing.
MockGitHub(w, s) ==
  IF s.op = "update_milestone_due"
  THEN Wrote(Put(w, "due", s), MilestoneHint(w.records["due"][s.key], s), Silent)
  ELSE Counted(w, IF s.op = "create_issue" THEN "issues" ELSE "comments", s)

\* A snapshot taken of the announcement after it was updated.
MockTeams_LateSnapshot(w, s) ==
  IF s.op = "update_announcement"
  THEN Wrote(Put(w, "announcement", s), SetBack("announcement", s.key, s.value),
             [key |-> s.key, value |-> s.value])
  ELSE Counted(w, IF s.op = "post_message" THEN "posts" ELSE "threads", s)

MockTeams(w, s) ==
  IF s.op = "update_announcement"
  THEN Wrote(Put(w, "announcement", s),
             SetBack("announcement", s.key, w.records["announcement"][s.key]),
             [key |-> s.key, value |-> s.value])
  ELSE Counted(w, IF s.op = "post_message" THEN "posts" ELSE "threads", s)

MockOutlook(w, s) == Counted(w, IF s.op = "create_event" THEN "events" ELSE "drafts", s)
MockCRM(w, s) == Named(w, "notes", s)
MockSharePoint(w, s) == Named(w, "grants", s)
MockEntra(w, s) == Named(w, IF s.op = "invite_guest" THEN "guests" ELSE "revokes", s)

\* The tasks before the first that has no plain date.
Reached(tasks) == {i \in DOMAIN tasks : \A j \in 1..i : Dated(tasks[j])}

PlannerHint(s) == IF s.op = "create_task" THEN DeleteTask(s.key) ELSE ShiftBack(-s.value)

CreateTask(w, s) ==
  Wrote([w EXCEPT !.tasks = Append(@, [title |-> s.key, due |-> s.value])], PlannerHint(s), Silent)

\* A shift goes through the tasks in order and raises at the first that has no
\* date or one with a time; the tasks before it have been moved by then.
ShiftTaskDates(w, s) ==
  LET moved == [w EXCEPT !.tasks = Shifted(@, Reached(@), s.value)]
  IN IF Reached(w.tasks) = DOMAIN w.tasks THEN Wrote(moved, PlannerHint(s), [value |-> s.value])
     ELSE Raised(moved, PlannerHint(s))

\* The failure that is injected is raised after the write.
MockPlanner_RaisesLate(w, s, failOn) ==
  LET write == IF s.op = "create_task" THEN CreateTask(w, s) ELSE ShiftTaskDates(w, s)
  IN IF s.op = failOn THEN Raised(write.world, write.hint) ELSE write

MockPlanner(w, s, failOn) ==
  IF s.op = failOn THEN Raised(w, PlannerHint(s))
  ELSE IF s.op = "create_task" THEN CreateTask(w, s) ELSE ShiftTaskDates(w, s)

\* The milestone must exist, and GitHub may keep another date than the one it
\* is sent.  The hint of a creation is empty; the link in the answer tells what
\* to close.
RealGitHub(w, s, kept) ==
  IF s.op = "update_milestone_due"
  THEN LET hint == MilestoneHint(w.records["due"][s.key], s)
       IN IF hint = NoHint THEN Raised(w, hint)
          ELSE Wrote(Put(w, "due", [s EXCEPT !.value = kept]), hint, Silent)
  ELSE Named(w, IF s.op = "create_issue" THEN "issues" ELSE "comments", s)

Checked(w, list, s) ==
  IF s.key \in Malformed THEN Raised(w, Drop(list, s.key)) ELSE Named(w, list, s)

RealOutlook(w, s) == Checked(w, IF s.op = "create_event" THEN "events" ELSE "drafts", s)
RealSharePoint(w, s) == Checked(w, "grants", s)

\* Each write is a notification, which nothing recalls; its text is composed.
RealTeams(w, s) == Wrote(Add(w, "toasts", s), NoHint, Silent)

\* The adapter the registry selected for the system of the step.
Apply(real, w, s, kept, failOn) ==
  IF s.system \in real
  THEN CASE s.system = "github" -> RealGitHub(w, s, kept)
         [] s.system = "outlook" -> RealOutlook(w, s)
         [] s.system = "sharepoint" -> RealSharePoint(w, s)
         [] s.system = "teams" -> RealTeams(w, s)
  ELSE CASE s.system = "github" -> MockGitHub(w, s)
         [] s.system = "teams" -> MockTeams(w, s)
         [] s.system = "outlook" -> MockOutlook(w, s)
         [] s.system = "crm" -> MockCRM(w, s)
         [] s.system = "sharepoint" -> MockSharePoint(w, s)
         [] s.system = "entra" -> MockEntra(w, s)
         [] s.system = "planner" -> MockPlanner(w, s, failOn)

-----------------------------------------------------------------------------
(***************************************************************************)
(* The run of a plan and what follows it.                                  *)
(***************************************************************************)
VARIABLES
  real,     \* the systems served by their real adapter
  plan,     \* the plan that was approved
  failOn,   \* the write of the planner whose failure is injected
  world,    \* what the systems hold
  before,   \* what they held before each step, and after the last
  results,  \* the answers to the steps: whether each was applied, and its hint
  alarms,   \* the steps the verify node reports a mismatch for
  phase,    \* run, verified, undoing
  left      \* the steps whose hints were not followed yet

vars == <<real, plan, failOn, world, before, results, alarms, phase, left>>

Init ==
  /\ real \in Settings /\ plan \in Plans
  /\ failOn \in {"none", "create_task", "shift_task_dates"}
  /\ world \in Worlds
  /\ before = <<>> /\ results = <<>> /\ alarms = {} /\ phase = "run" /\ left = 0

\* The dates the system may keep: GitHub's is its own, the others keep what
\* they are given.
Kept(s) ==
  IF s.system \in real /\ s.op = "update_milestone_due" THEN KeptDates \cup {s.value}
  ELSE {s.value}

ExecuteStep ==
  /\ phase = "run" /\ Len(results) < Len(plan)
  /\ LET s == plan[Len(results) + 1] IN
     \E kept \in Kept(s) :
       LET answer == Apply(real, world, s, kept, failOn) IN
       /\ world' = answer.world
       /\ results' = Append(results, [ok |-> ~answer.raised, hint |-> answer.hint,
                                      repeats |-> answer.repeats])
  /\ before' = Append(before, world)
  /\ UNCHANGED <<real, plan, failOn, alarms, phase, left>>

\* The parameters an answer repeats are compared with the ones asked for.
Mismatch(s, repeats) == \E p \in DOMAIN repeats : repeats[p] # s[p]

Verify ==
  /\ phase = "run" /\ Len(results) = Len(plan)
  /\ phase' = "verified" /\ left' = Len(plan)
  /\ alarms' = {i \in DOMAIN plan : results[i].ok /\ Mismatch(plan[i], results[i].repeats)}
  /\ before' = Append(before, world)
  /\ UNCHANGED <<real, plan, failOn, world, results>>

\* The hint of the last applied step not undone yet is followed.  Nothing in
\* the code does this: a person does, from the record.
Undo ==
  /\ phase \in {"verified", "undoing"} /\ left > 0
  /\ phase' = "undoing" /\ left' = left - 1
  /\ world' = IF results[left].ok THEN Follow(world, results[left].hint) ELSE world
  /\ UNCHANGED <<real, plan, failOn, before, results, alarms>>

Next == ExecuteStep \/ Verify \/ Undo

Spec == Init /\ [][Next]_vars

-----------------------------------------------------------------------------
(***************************************************************************)
(* Properties.                                                             *)
(***************************************************************************)
\* A step that left something its hint does not tell how to take back: a
\* notification, a milestone the mock created, a shift that raised half way.
Stays(i) == IF results[i].ok THEN results[i].hint = NoHint ELSE before[i] # before[i + 1]

\* The hints of a trial, followed from the last applied step to the first, take
\* the systems back through every state they were in, however its steps built
\* on each other and whichever of them failed, down to the last step that
\* cannot be taken back (ports/integration.py, suggest_rollback).
UndoRestores ==
  phase = "undoing" /\ (\A i \in left + 2..Len(plan) : ~Stays(i)) =>
    \/ world = before[left + 1]
    \/ Stays(left + 1)

\* A step that reads failed changed nothing, wherever in the plan it stands and
\* whichever adapter raised: only a shift of task dates can stop half way, at
\* a task that has no date (base.py, error containment; mock_planner.py).
FailureIsClean ==
  phase = "verified" => \A i \in DOMAIN plan :
    ~results[i].ok /\ before[i + 1] # before[i] =>
      plan[i].op = "shift_task_dates" /\ \E j \in DOMAIN before[i].tasks : ~Dated(before[i].tasks[j])

\* docs/adr/0009, decision 4, "compares each live step's requested params to
\* the adapter-reported after-state; mismatches are recorded": a milestone that
\* holds another date than the one asked for is reported.
MismatchNoticed ==
  phase = "verified" => \A i \in DOMAIN plan :
    results[i].ok /\ plan[i].op = "update_milestone_due"
      /\ before[i + 1].records["due"][plan[i].key] # plan[i].value
    => i \in alarms
=============================================================================

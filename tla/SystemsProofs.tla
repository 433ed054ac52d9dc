--------------------------- MODULE SystemsProofs ---------------------------
(***************************************************************************)
(* Theorems about Systems: what the hints of a trial restore, and what a   *)
(* step that failed left, for every plan over the catalog, whatever the    *)
(* systems hold and whichever of them are real.                            *)
(***************************************************************************)
EXTENDS Systems, SequenceTheorems, TLAPS

Hints ==
  {NoHint}
    \cup [do : {"set"}, record : {"due", "announcement"}, key : Names, value : Dates \cup Texts]
    \cup [do : {"cut"}, list : Lists, size : Nat]
    \cup [do : {"drop"}, list : Lists, item : Names]
    \cup [do : {"delete_task"}, title : Names]
    \cup [do : {"shift"}, days : Int]

Repeats == {Silent} \cup [key : Names, value : Texts] \cup [value : Int]
Answers == [raised : BOOLEAN, world : WorldStates, hint : Hints, repeats : Repeats]
Results == [ok : BOOLEAN, hint : Hints, repeats : Repeats]

\* The step can stop half way.
Halfway(w, s) ==
  s.op = "shift_task_dates" /\ \E j \in DOMAIN w.tasks : ~Dated(w.tasks[j])

\* A hint takes the systems back to where the step found them, and a write that
\* raised left them there.
Honest(w, s, a) ==
  /\ a \in Answers
  /\ ~a.raised => a.hint = NoHint \/ Follow(a.world, a.hint) = w
  /\ a.raised => a.world = w \/ Halfway(w, s)

-----------------------------------------------------------------------------
(***************************************************************************)
(* Following a hint.                                                       *)
(***************************************************************************)
LEMMA FollowSet ==
  ASSUME NEW w, NEW r, NEW k, NEW v
  PROVE  Follow(w, SetBack(r, k, v)) = [w EXCEPT !.records[r][k] = v]
  BY DEF Follow, SetBack

LEMMA FollowCut ==
  ASSUME NEW w, NEW l, NEW n
  PROVE  Follow(w, CutTo(l, n)) = [w EXCEPT !.lists[l] = SubSeq(@, 1, n)]
  BY DEF Follow, CutTo

LEMMA FollowDelete ==
  ASSUME NEW w, NEW x
  PROVE  Follow(w, DeleteTask(x)) =
           [w EXCEPT !.tasks = WithoutLast(@, {i \in DOMAIN @ : @[i].title = x})]
  BY DEF Follow, DeleteTask

LEMMA FollowShift ==
  ASSUME NEW w, NEW n
  PROVE  Follow(w, ShiftBack(n)) =
           [w EXCEPT !.tasks = Shifted(@, {i \in DOMAIN @ : Dated(@[i])}, n)]
  BY DEF Follow, ShiftBack

-----------------------------------------------------------------------------
(***************************************************************************)
(* Sequences.                                                              *)
(***************************************************************************)

\* An appended entry is cut off, or dropped as the last one of its name.
LEMMA AppendedGoes ==
  ASSUME NEW S, NEW s \in Seq(S), NEW x \in S
  PROVE  /\ Append(s, x) \in Seq(S)
         /\ SubSeq(Append(s, x), 1, Len(s)) = s
         /\ \A P \in SUBSET DOMAIN Append(s, x) :
              Len(s) + 1 \in P => WithoutLast(Append(s, x), P) = s
  <1> DEFINE t == Append(s, x)
             n == Len(s)
  <1>1. /\ n \in Nat /\ t \in Seq(S) /\ Len(t) = n + 1 /\ DOMAIN t = 1..(n + 1)
        /\ DOMAIN s = 1..n /\ t[n + 1] = x /\ \A i \in 1..n : t[i] = s[i]
    OBVIOUS
  <1>2. SubSeq(t, 1, n) = s
    <2>1. SubSeq(t, 1, n) \in Seq(S) /\ Len(SubSeq(t, 1, n)) = n
          /\ \A i \in 1..n : SubSeq(t, 1, n)[i] = t[i]
      <3> HIDE DEF t, n
      <3> QED BY <1>1
    <2> HIDE DEF t
    <2> QED BY <1>1, <2>1, SeqEqual
  <1>3. ASSUME NEW P \in SUBSET DOMAIN t, n + 1 \in P PROVE WithoutLast(t, P) = s
    <2> DEFINE last == CHOOSE i \in P : \A j \in P : j <= i
    <2>1. P \subseteq Int /\ \A j \in P : j <= n + 1
      BY <1>1
    <2>2. last = n + 1
      <3>1. \A i \in P : (\A j \in P : j <= i) => i = n + 1
        <4> HIDE DEF n
        <4> QED BY <1>1, <1>3, <2>1
      <3>2. last \in P /\ \A j \in P : j <= last
        BY <1>3, <2>1
      <3> QED BY <3>1, <3>2
    <2>3. WithoutLast(t, P) = SubSeq(t, 1, last - 1) \o SubSeq(t, last + 1, Len(t))
      BY <1>3 DEF WithoutLast
    <2>4. SubSeq(t, n + 1 + 1, Len(t)) = <<>>
      <3> HIDE DEF t, n
      <3> QED BY <1>1
    <2>5. last - 1 = n
      <3> HIDE DEF last, n
      <3> QED BY <1>1, <2>2
    <2>6. s \o <<>> = s
      OBVIOUS
    <2> HIDE DEF t, n, last
    <2> QED BY <1>2, <2>2, <2>3, <2>4, <2>5, <2>6
  <1> QED BY <1>1, <1>2, <1>3

-----------------------------------------------------------------------------
(***************************************************************************)
(* What the adapters write, and their hints.                               *)
(***************************************************************************)
LEMMA PutBack ==
  ASSUME NEW w \in WorldStates, NEW k \in Names, NEW r \in {"due", "announcement"}, NEW v,
         r = "due" => v \in Dates, r = "announcement" => v \in Texts
  PROVE  LET there == [w EXCEPT !.records[r][k] = v]
             hint  == SetBack(r, k, w.records[r][k])
         IN there \in WorldStates /\ hint \in Hints /\ Follow(there, hint) = w
  <1> DEFINE there == [w EXCEPT !.records[r][k] = v]
             hint  == SetBack(r, k, w.records[r][k])
  <1>1. there \in WorldStates
    BY DEF WorldStates
  <1>2. hint \in Hints
    BY DEF WorldStates, SetBack, Hints
  <1>3. Follow(there, hint) = [there EXCEPT !.records[r][k] = w.records[r][k]]
    <2> HIDE DEF there
    <2> QED BY FollowSet
  <1>4. [there EXCEPT !.records[r][k] = w.records[r][k]] = w
    BY DEF WorldStates
  <1> QED BY <1>1, <1>2, <1>3, <1>4

LEMMA AddBack ==
  ASSUME NEW w \in WorldStates, NEW l \in Lists, NEW s, s.key \in Names
  PROVE  /\ Add(w, l, s) \in WorldStates
         /\ CutTo(l, Len(w.lists[l])) \in Hints
         /\ Drop(l, s.key) \in Hints
         /\ Follow(Add(w, l, s), CutTo(l, Len(w.lists[l]))) = w
         /\ Follow(Add(w, l, s), Drop(l, s.key)) = w
  <1> DEFINE old == w.lists[l]
             new == Append(old, s.key)
             size == Len(old)
             there == Add(w, l, s)
             last == {i \in DOMAIN new : new[i] = s.key}
  <1>1. old \in Seq(Names) /\ size \in Nat
    BY DEF WorldStates
  <1>2. /\ new \in Seq(Names) /\ SubSeq(new, 1, size) = old
        /\ WithoutLast(new, last) = old
    <2>1. size + 1 \in last /\ last \in SUBSET DOMAIN new
      BY <1>1
    <2> HIDE DEF last, old
    <2> QED BY <1>1, <2>1, AppendedGoes
  <1>3. there = [w EXCEPT !.lists[l] = new]
    BY DEF Add
  <1>4. there \in WorldStates /\ there.lists[l] = new
    <2> HIDE DEF new, there
    <2> QED BY <1>2, <1>3 DEF WorldStates
  <1>5. CutTo(l, size) \in Hints /\ Drop(l, s.key) \in Hints
    <2> HIDE DEF size
    <2> QED BY <1>1 DEF CutTo, Drop, Hints
  <1>6. [there EXCEPT !.lists[l] = old] = w
    <2> HIDE DEF new, there
    <2> QED BY <1>2, <1>3 DEF WorldStates
  <1>7. Follow(there, CutTo(l, size)) = w
    <2>1. Follow(there, CutTo(l, size)) = [there EXCEPT !.lists[l] = SubSeq(there.lists[l], 1, size)]
      <3> HIDE DEF there, size, old
      <3> QED BY FollowCut
    <2> HIDE DEF new, there, old, size
    <2> QED BY <1>2, <1>4, <1>6, <2>1
  <1>8. Follow(there, Drop(l, s.key)) = w
    <2>1. {i \in DOMAIN there.lists[l] : there.lists[l][i] = s.key} = last
      <3> HIDE DEF new, there
      <3> QED BY <1>4
    <2>2. Follow(there, Drop(l, s.key)) = [there EXCEPT !.lists[l] = WithoutLast(there.lists[l], last)]
      <3> DEFINE x == s.key
      <3>1. last = {i \in DOMAIN there.lists[l] : there.lists[l][i] = x}
        BY <2>1
      <3> HIDE DEF there, last, old, new, x
      <3>2. Follow(there, Drop(l, x)) = [there EXCEPT !.lists[l] = WithoutLast(there.lists[l], last)]
        BY <3>1 DEF Follow, Drop
      <3> QED BY <3>2 DEF x
    <2> HIDE DEF new, there, old, last
    <2> QED BY <1>2, <1>4, <1>6, <2>2
  <1> QED BY <1>4, <1>5, <1>7, <1>8

LEMMA NoHintHonest == NoHint \in Hints /\ Silent \in Repeats
  BY DEF Hints, Repeats

LEMMA CountedHonest ==
  ASSUME NEW w \in WorldStates, NEW l \in Lists, NEW s, s.key \in Names
  PROVE  Honest(w, s, Counted(w, l, s)) /\ Honest(w, s, Named(w, l, s))
  <1>1. Counted(w, l, s) = [raised |-> FALSE, world |-> Add(w, l, s),
                            hint |-> CutTo(l, Len(w.lists[l])), repeats |-> Silent]
    BY DEF Counted, Wrote
  <1>2. Named(w, l, s) = [raised |-> FALSE, world |-> Add(w, l, s),
                          hint |-> Drop(l, s.key), repeats |-> Silent]
    BY DEF Named, Wrote
  <1> QED BY <1>1, <1>2, AddBack, NoHintHonest DEF Honest, Answers

LEMMA RaisedHonest ==
  ASSUME NEW w \in WorldStates, NEW s, NEW hint \in Hints
  PROVE  Honest(w, s, Raised(w, hint))
  BY NoHintHonest DEF Raised, Honest, Answers

LEMMA CheckedHonest ==
  ASSUME NEW w \in WorldStates, NEW l \in Lists, NEW s, s.key \in Names
  PROVE  Honest(w, s, Checked(w, l, s))
  BY CountedHonest, RaisedHonest, AddBack DEF Checked

\* A task created is the last of its title, and a shift that went through moved
\* every task, each of which has a plain date after it as before.
LEMMA CreateHonest ==
  ASSUME NEW w \in WorldStates, NEW s, s.key \in Names, s.value \in Dates, s.op = "create_task"
  PROVE  Honest(w, s, CreateTask(w, s)) /\ PlannerHint(s) \in Hints
  <1> DEFINE task == [title |-> s.key, due |-> s.value]
             new == Append(w.tasks, task)
             there == [w EXCEPT !.tasks = new]
             last == {i \in DOMAIN new : new[i].title = s.key}
  <1>1. w.tasks \in Seq(Tasks) /\ task \in Tasks /\ task.title = s.key
    BY DEF WorldStates, Tasks
  <1>2. new \in Seq(Tasks) /\ WithoutLast(new, last) = w.tasks
    <2>1. Len(w.tasks) + 1 \in last /\ last \in SUBSET DOMAIN new
      <3> HIDE DEF task
      <3> QED BY <1>1
    <2> HIDE DEF last, task
    <2> QED BY <1>1, <2>1, AppendedGoes
  <1>3. PlannerHint(s) = DeleteTask(s.key) /\ DeleteTask(s.key) \in Hints
    BY DEF PlannerHint, DeleteTask, Hints
  <1>4. CreateTask(w, s) = [raised |-> FALSE, world |-> there,
                            hint |-> DeleteTask(s.key), repeats |-> Silent]
    BY <1>3 DEF CreateTask, Wrote
  <1>5. there \in WorldStates /\ there.tasks = new /\ [there EXCEPT !.tasks = w.tasks] = w
    <2> HIDE DEF new
    <2> QED BY <1>2 DEF WorldStates
  <1>6. Follow(there, DeleteTask(s.key)) = w
    <2>1. Follow(there, DeleteTask(s.key)) =
            [there EXCEPT !.tasks =
               WithoutLast(there.tasks, {i \in DOMAIN there.tasks : there.tasks[i].title = s.key})]
      <3> HIDE DEF there
      <3> QED BY FollowDelete
    <2>2. {i \in DOMAIN there.tasks : there.tasks[i].title = s.key} = last
      <3> HIDE DEF new, there
      <3> QED BY <1>5
    <2> HIDE DEF new, there, last
    <2> QED BY <1>2, <1>5, <2>1, <2>2
  <1> HIDE DEF there
  <1> QED BY <1>3, <1>4, <1>5, <1>6, NoHintHonest DEF Honest, Answers

LEMMA ShiftedTyped ==
  ASSUME NEW tasks \in Seq(Tasks), NEW which \in SUBSET DOMAIN tasks, NEW days \in Int,
         \A i \in which : Dated(tasks[i])
  PROVE  /\ Shifted(tasks, which, days) \in Seq(Tasks)
         /\ DOMAIN Shifted(tasks, which, days) = DOMAIN tasks
         /\ \A i \in which : /\ Dated(Shifted(tasks, which, days)[i])
                             /\ Shifted(tasks, which, days)[i].due = tasks[i].due + days
                             /\ Shifted(tasks, which, days)[i].title = tasks[i].title
  <1> DEFINE new == Shifted(tasks, which, days)
  <1>1. \A i \in DOMAIN tasks : tasks[i] \in Tasks
    OBVIOUS
  <1>2. \A i \in which : tasks[i].due \in Int
    BY <1>1 DEF Dated, Tasks, Dates
  <1>3. \A i \in which : tasks[i].due + days \in Int /\ tasks[i].due + days \in Dates
    BY <1>2 DEF Dates
  <1>4. new = [i \in DOMAIN tasks |->
                 IF i \in which THEN [tasks[i] EXCEPT !.due = @ + days] ELSE tasks[i]]
    BY DEF Shifted
  <1>5. \A i \in DOMAIN tasks : new[i] \in Tasks
    BY <1>1, <1>3, <1>4 DEF Tasks
  <1>6. \A i \in which : new[i].due = tasks[i].due + days /\ new[i].title = tasks[i].title
    BY <1>1, <1>4 DEF Tasks
  <1>7. \A i \in which : Dated(new[i])
    BY <1>3, <1>6, DatesAssumption DEF Dated
  <1>8. new \in Seq(Tasks) /\ DOMAIN new = DOMAIN tasks
    <2>1. DOMAIN new = DOMAIN tasks /\ DOMAIN tasks = 1..Len(tasks) /\ Len(tasks) \in Nat
      BY <1>4
    <2>2. new \in [1..Len(tasks) -> Tasks]
      <3> HIDE DEF new
      <3> QED BY <1>4, <1>5, <2>1
    <2> HIDE DEF new
    <2> QED BY <2>1, <2>2
  <1> QED BY <1>6, <1>7, <1>8

LEMMA ShiftHonest ==
  ASSUME NEW w \in WorldStates, NEW s, s.value \in Int, s.op = "shift_task_dates"
  PROVE  Honest(w, s, ShiftTaskDates(w, s)) /\ PlannerHint(s) \in Hints
  <1> DEFINE old == w.tasks
             new == Shifted(old, Reached(old), s.value)
             there == [w EXCEPT !.tasks = new]
             hint == ShiftBack(-s.value)
  <1>1. old \in Seq(Tasks) /\ \A i \in DOMAIN old : old[i] \in Tasks
    BY DEF WorldStates
  <1>2. Reached(old) \in SUBSET DOMAIN old /\ \A i \in Reached(old) : Dated(old[i])
    <2>1. \A i \in DOMAIN old : i \in 1..i
      BY <1>1
    <2> QED BY <2>1 DEF Reached
  <1>3. /\ new \in Seq(Tasks) /\ DOMAIN new = DOMAIN old
        /\ \A i \in Reached(old) : /\ Dated(new[i]) /\ new[i].due = old[i].due + s.value
                                   /\ new[i].title = old[i].title
    <2> HIDE DEF old
    <2> QED BY <1>1, <1>2, ShiftedTyped
  <1>4. there \in WorldStates /\ there.tasks = new /\ [there EXCEPT !.tasks = old] = w
    <2> HIDE DEF new
    <2> QED BY <1>3 DEF WorldStates
  <1>5. PlannerHint(s) = hint /\ hint \in Hints
    BY DEF PlannerHint, ShiftBack, Hints
  <1>6. CASE Reached(old) = DOMAIN old
    <2> DEFINE again == Shifted(new, {i \in DOMAIN new : Dated(new[i])}, -s.value)
    <2>1. {i \in DOMAIN new : Dated(new[i])} = DOMAIN old
      <3> HIDE DEF new, old
      <3> QED BY <1>3, <1>6
    <2>2. again = [i \in DOMAIN new |-> [new[i] EXCEPT !.due = @ + (-s.value)]]
      <3> HIDE DEF new
      <3> QED BY <1>3, <2>1 DEF Shifted
    <2>3. \A i \in DOMAIN old : [new[i] EXCEPT !.due = @ + (-s.value)] = old[i]
      <3> SUFFICES ASSUME NEW i \in DOMAIN old
                   PROVE  [new[i] EXCEPT !.due = @ + (-s.value)] = old[i]
        OBVIOUS
      <3>1. new[i] \in Tasks /\ old[i] \in Tasks
        <4> HIDE DEF new, old
        <4> QED BY <1>1, <1>3
      <3>2. old[i].due \in Int
        BY <1>2, <1>6, <3>1 DEF Dated, Tasks, Dates
      <3>3. new[i].due = old[i].due + s.value /\ new[i].title = old[i].title
        BY <1>3, <1>6
      <3>4. new[i].due + (-s.value) = old[i].due
        <4> HIDE DEF new, old
        <4> QED BY <3>2, <3>3
      <3> HIDE DEF new, old
      <3> QED BY <3>1, <3>3, <3>4 DEF Tasks
    <2>4. again = old
      <3>1. again \in [DOMAIN old -> Tasks] /\ old \in [DOMAIN old -> Tasks]
        <4>1. \A i \in DOMAIN old : [new[i] EXCEPT !.due = @ + (-s.value)] \in Tasks
          <5> HIDE DEF new, old
          <5> QED BY <1>1, <2>3
        <4>2. DOMAIN old = 1..Len(old)
          BY <1>1
        <4> HIDE DEF new, old, again
        <4> QED BY <1>1, <1>3, <2>2, <4>1, <4>2
      <3>2. \A i \in DOMAIN old : again[i] = old[i]
        <4> HIDE DEF new, old, again
        <4> QED BY <1>3, <2>2, <2>3
      <3> HIDE DEF new, old, again
      <3> QED BY <3>1, <3>2
    <2>5. Follow(there, hint) = w
      <3>1. Follow(there, hint) =
              [there EXCEPT !.tasks =
                 Shifted(there.tasks, {i \in DOMAIN there.tasks : Dated(there.tasks[i])}, -s.value)]
        <4> HIDE DEF there
        <4> QED BY FollowShift
      <3>2. Shifted(there.tasks, {i \in DOMAIN there.tasks : Dated(there.tasks[i])}, -s.value) = again
        <4> HIDE DEF there, new
        <4> QED BY <1>4
      <3> HIDE DEF there, again, old
      <3> QED BY <1>4, <2>4, <3>1, <3>2
    <2>6. ShiftTaskDates(w, s) = [raised |-> FALSE, world |-> there, hint |-> hint,
                                  repeats |-> [value |-> s.value]]
      BY <1>5, <1>6 DEF ShiftTaskDates, Wrote
    <2>7. [value |-> s.value] \in Repeats
      BY DEF Repeats
    <2> HIDE DEF there, hint
    <2> QED BY <1>4, <1>5, <2>5, <2>6, <2>7 DEF Honest, Answers
  <1>7. CASE Reached(old) # DOMAIN old
    <2>1. Halfway(w, s)
      <3>1. PICK i \in DOMAIN old : i \notin Reached(old)
        BY <1>2, <1>7
      <3>2. PICK j \in 1..i : ~Dated(old[j])
        BY <3>1 DEF Reached
      <3>3. j \in DOMAIN old
        BY <1>1, <3>1, <3>2
      <3> QED BY <3>2, <3>3 DEF Halfway
    <2>2. ShiftTaskDates(w, s) = [raised |-> TRUE, world |-> there, hint |-> hint,
                                  repeats |-> Silent]
      BY <1>5, <1>7 DEF ShiftTaskDates, Raised
    <2> HIDE DEF there, hint
    <2> QED BY <1>4, <1>5, <2>1, <2>2, NoHintHonest DEF Honest, Answers
  <1> QED BY <1>5, <1>6, <1>7

-----------------------------------------------------------------------------
(***************************************************************************)
(* Every adapter is honest about what it did.                              *)
(***************************************************************************)
LEMMA MilestoneHonest ==
  ASSUME NEW w \in WorldStates, NEW s, IsStep(s), s.system = "github",
         s.op = "update_milestone_due", NEW kept \in Dates
  PROVE  /\ Honest(w, s, RealGitHub(w, s, kept))
         /\ Honest(w, s, MockGitHub(w, s))
  <1> DEFINE oldDate == w.records["due"][s.key]
             hint == MilestoneHint(oldDate, s)
  <1>1. s.key \in Names /\ s.value \in Dates
    BY DEF IsStep
  <1>2. s = [system |-> s.system, op |-> s.op, key |-> s.key, value |-> s.value]
    BY DEF IsStep, Step
  <1>3. [s EXCEPT !.value = kept].key = s.key /\ [s EXCEPT !.value = kept].value = kept
    BY <1>2
  <1>4. ASSUME NEW v \in Dates
        PROVE  /\ [w EXCEPT !.records["due"][s.key] = v] \in WorldStates
               /\ hint \in Hints
               /\ hint = NoHint \/ Follow([w EXCEPT !.records["due"][s.key] = v], hint) = w
    <2>1. hint \in {NoHint, SetBack("due", s.key, oldDate)}
      BY DEF MilestoneHint
    <2> QED BY <1>1, <2>1, PutBack, NoHintHonest
  <1> HIDE DEF hint
  <1>5. Honest(w, s, MockGitHub(w, s))
    BY <1>1, <1>4, NoHintHonest DEF MockGitHub, Put, Wrote, Honest, Answers, hint
  <1>6. Honest(w, s, RealGitHub(w, s, kept))
    <2>1. CASE hint = NoHint
      BY <1>4, <2>1, RaisedHonest, NoHintHonest DEF RealGitHub, hint
    <2>2. CASE hint # NoHint
      <3>1. RealGitHub(w, s, kept) =
              [raised |-> FALSE, world |-> [w EXCEPT !.records["due"][s.key] = kept],
               hint |-> hint, repeats |-> Silent]
        BY <1>3, <2>2 DEF RealGitHub, Put, Wrote, hint
      <3> QED BY <1>4, <3>1, NoHintHonest DEF Honest, Answers
    <2> QED BY <2>1, <2>2
  <1> QED BY <1>5, <1>6

LEMMA AnnouncementHonest ==
  ASSUME NEW w \in WorldStates, NEW s, IsStep(s), s.op = "update_announcement"
  PROVE  Honest(w, s, MockTeams(w, s))
  <1> DEFINE hint == SetBack("announcement", s.key, w.records["announcement"][s.key])
             there == [w EXCEPT !.records["announcement"][s.key] = s.value]
  <1>1. s.key \in Names /\ s.value \in Texts
    BY DEF IsStep
  <1>2. there \in WorldStates /\ hint \in Hints /\ Follow(there, hint) = w
    BY <1>1, PutBack
  <1>3. MockTeams(w, s) = [raised |-> FALSE, world |-> there, hint |-> hint,
                           repeats |-> [key |-> s.key, value |-> s.value]]
    BY DEF MockTeams, Put, Wrote
  <1>4. [key |-> s.key, value |-> s.value] \in Repeats
    BY <1>1 DEF Repeats
  <1> HIDE DEF there, hint
  <1> QED BY <1>2, <1>3, <1>4 DEF Honest, Answers

LEMMA ListsNamed ==
  {"issues", "comments", "posts", "threads", "events", "drafts", "notes", "grants",
   "guests", "revokes", "toasts"} \subseteq Lists
  BY DEF Lists

LEMMA ApplyHonest ==
  ASSUME NEW w \in WorldStates, NEW s, IsStep(s), NEW setting \in SUBSET RealSystems,
         NEW kept, s.system = "github" => kept \in Dates, NEW fail
  PROVE  Honest(w, s, Apply(setting, w, s, kept, fail))
  <1> DEFINE answer == Apply(setting, w, s, kept, fail)
  <1>0. s.key \in Names
    BY DEF IsStep
  <1>1. CASE s.system = "github"
    <2>1. answer = IF s.system \in setting THEN RealGitHub(w, s, kept) ELSE MockGitHub(w, s)
      BY <1>1 DEF Apply
    <2>2. CASE s.op = "update_milestone_due"
      BY <1>1, <2>1, <2>2, MilestoneHonest
    <2>3. CASE s.op # "update_milestone_due"
      BY <1>0, <2>1, <2>3, CountedHonest, ListsNamed DEF RealGitHub, MockGitHub
    <2> QED BY <2>2, <2>3
  <1>2. CASE s.system = "teams"
    <2>1. answer = IF s.system \in setting THEN RealTeams(w, s) ELSE MockTeams(w, s)
      BY <1>2 DEF Apply
    <2>2. CASE s.system \in setting
      <3>1. answer = [raised |-> FALSE, world |-> Add(w, "toasts", s), hint |-> NoHint,
                      repeats |-> Silent]
        BY <2>1, <2>2 DEF RealTeams, Wrote
      <3> QED BY <1>0, <3>1, AddBack, ListsNamed, NoHintHonest DEF Honest, Answers
    <2>3. CASE s.system \notin setting /\ s.op = "update_announcement"
      BY <2>1, <2>3, AnnouncementHonest
    <2>4. CASE s.system \notin setting /\ s.op # "update_announcement"
      BY <1>0, <2>1, <2>4, CountedHonest, ListsNamed DEF MockTeams
    <2> QED BY <2>2, <2>3, <2>4
  <1>3. CASE s.system = "outlook"
    <2>1. answer = IF s.system \in setting THEN RealOutlook(w, s) ELSE MockOutlook(w, s)
      BY <1>3 DEF Apply
    <2> QED BY <1>0, <2>1, CountedHonest, CheckedHonest, ListsNamed DEF RealOutlook, MockOutlook
  <1>4. CASE s.system = "sharepoint"
    <2>1. answer = IF s.system \in setting THEN RealSharePoint(w, s) ELSE MockSharePoint(w, s)
      BY <1>4 DEF Apply
    <2> QED BY <1>0, <2>1, CountedHonest, CheckedHonest, ListsNamed DEF RealSharePoint, MockSharePoint
  <1>5. CASE s.system = "crm"
    <2>1. answer = MockCRM(w, s)
      BY <1>5 DEF Apply, RealSystems
    <2> QED BY <1>0, <2>1, CountedHonest, ListsNamed DEF MockCRM
  <1>6. CASE s.system = "entra"
    <2>1. answer = MockEntra(w, s)
      BY <1>6 DEF Apply, RealSystems
    <2> QED BY <1>0, <2>1, CountedHonest, ListsNamed DEF MockEntra
  <1>7. CASE s.system = "planner"
    <2>1. answer = MockPlanner(w, s, fail)
      BY <1>7 DEF Apply, RealSystems
    <2>2. s.op \in {"create_task", "shift_task_dates"} /\ s.value \in Dates
      BY <1>7 DEF IsStep
    <2>3. CASE s.op = "create_task"
      BY <1>0, <2>1, <2>2, <2>3, CreateHonest, RaisedHonest DEF MockPlanner
    <2>4. CASE s.op = "shift_task_dates"
      <3>1. s.value \in Int
        BY <2>4 DEF IsStep
      <3> QED BY <2>1, <2>4, <3>1, ShiftHonest, RaisedHonest DEF MockPlanner
    <2> QED BY <2>2, <2>3, <2>4
  <1> QED BY <1>1, <1>2, <1>3, <1>4, <1>5, <1>6, <1>7 DEF IsStep, RealSystems

-----------------------------------------------------------------------------
(***************************************************************************)
(* The trial: each result on record is true of what its step left.         *)
(***************************************************************************)

\* What the systems held after a step.
After(i) == IF i < Len(before) THEN before[i + 1] ELSE world

\* What a result says of the step between two states of the systems.
Faithful(w, s, r, there) ==
  /\ r.ok = TRUE => r.hint = NoHint \/ Follow(there, r.hint) = w
  /\ r.ok # TRUE => there = w \/ Halfway(w, s)

SystemsTyped ==
  /\ real \in SUBSET RealSystems /\ plan \in Plans
  /\ before \in Seq(WorldStates) /\ results \in Seq(Results)
  /\ phase \in {"run", "verified", "undoing"}
  /\ phase = "run" =>
       world \in WorldStates /\ Len(before) = Len(results) /\ Len(results) <= Len(plan)
  /\ phase # "run" =>
       Len(results) = Len(plan) /\ Len(before) = Len(plan) + 1 /\ left \in 0..Len(plan)

\* The systems are back where the step after the last undone one found them,
\* unless something undone by then cannot be.
BackThere ==
  phase # "run" /\ (\A i \in left + 1..Len(plan) : ~Stays(i)) => world = before[left + 1]

SystemsInv ==
  /\ SystemsTyped
  /\ \A i \in DOMAIN results : Faithful(before[i], plan[i], results[i], After(i))
  /\ BackThere

LEMMA PlanLengths ==
  ASSUME SystemsTyped
  PROVE  /\ Len(plan) \in Nat /\ DOMAIN plan = 1..Len(plan) /\ \A i \in DOMAIN plan : IsStep(plan[i])
         /\ Len(results) \in Nat /\ DOMAIN results = 1..Len(results)
         /\ Len(before) \in Nat /\ DOMAIN before = 1..Len(before)
  BY PlansAssumption DEF SystemsTyped

LEMMA InitSystems == Init => SystemsInv
  <1> SUFFICES ASSUME Init PROVE SystemsInv
    OBVIOUS
  <1>1. /\ before = <<>> /\ results = <<>> /\ Len(before) = 0 /\ Len(results) = 0
        /\ before \in Seq(WorldStates) /\ results \in Seq(Results)
    BY DEF Init
  <1>2. real \in SUBSET RealSystems /\ plan \in Plans /\ world \in WorldStates /\ phase = "run"
    BY SettingsAssumption, WorldsAssumption DEF Init
  <1>3. Len(plan) \in Nat
    BY <1>2, PlansAssumption
  <1> QED BY <1>1, <1>2, <1>3 DEF SystemsInv, SystemsTyped, BackThere

LEMMA ExecuteKeeps == SystemsInv /\ ExecuteStep => SystemsInv'
  <1> SUFFICES ASSUME SystemsInv, ExecuteStep PROVE SystemsInv'
    OBVIOUS
  <1> DEFINE n == Len(results)
             s == plan[n + 1]
  <1>1. /\ phase = "run" /\ n < Len(plan) /\ before' = Append(before, world)
        /\ UNCHANGED <<real, plan, phase, left>>
    BY DEF ExecuteStep
  <1>2. PICK kept \in Kept(s) :
          LET answer == Apply(real, world, s, kept, failOn) IN
          /\ world' = answer.world
          /\ results' = Append(results, [ok |-> ~answer.raised, hint |-> answer.hint,
                                         repeats |-> answer.repeats])
    BY DEF ExecuteStep
  <1> DEFINE answer == Apply(real, world, s, kept, failOn)
             r == [ok |-> ~answer.raised, hint |-> answer.hint, repeats |-> answer.repeats]
  <1>3. /\ SystemsTyped /\ Len(plan) \in Nat /\ DOMAIN plan = 1..Len(plan)
        /\ n \in Nat /\ Len(before) = n /\ DOMAIN results = 1..n /\ DOMAIN before = 1..n
        /\ before \in Seq(WorldStates) /\ results \in Seq(Results) /\ world \in WorldStates
        /\ real \in SUBSET RealSystems /\ plan \in Plans
    BY <1>1, PlanLengths DEF SystemsInv, SystemsTyped
  <1>4. IsStep(s)
    BY <1>1, <1>3, PlanLengths
  <1>5. s.system = "github" => kept \in Dates
    <2>1. s.system = "github" => s.op # "update_announcement" /\ s.value \in Dates
      BY <1>4 DEF IsStep
    <2> HIDE DEF s
    <2> QED BY <2>1, DatesAssumption DEF Kept
  <1>6. Honest(world, s, answer)
    <2> HIDE DEF s
    <2> QED BY <1>3, <1>4, <1>5, ApplyHonest
  <1>7. /\ world' = answer.world /\ world' \in WorldStates /\ r \in Results
        /\ Faithful(world, s, r, world')
    <2> HIDE DEF s, answer
    <2>1. answer \in Answers /\ world' = answer.world
      BY <1>2, <1>6 DEF Honest, answer
    <2> QED BY <1>6, <2>1 DEF Answers, Results, Honest, Faithful
  <1>8. results' = Append(results, r)
    BY <1>2
  <1> HIDE DEF answer, r, s
  <1>9. /\ results' \in Seq(Results) /\ Len(results') = n + 1 /\ DOMAIN results' = 1..(n + 1)
        /\ results'[n + 1] = r /\ \A i \in 1..n : results'[i] = results[i]
        /\ before' \in Seq(WorldStates) /\ Len(before') = n + 1
        /\ before'[n + 1] = world /\ \A i \in 1..n : before'[i] = before[i]
    BY <1>1, <1>3, <1>7, <1>8
  <1>10. SystemsTyped'
    BY <1>1, <1>3, <1>7, <1>9 DEF SystemsTyped
  <1>11. ASSUME NEW i \in DOMAIN results'
         PROVE  Faithful(before'[i], plan[i], results'[i], After(i)')
    <2>1. CASE i = n + 1
      <3>1. After(i)' = world'
        BY <1>3, <1>9, <2>1 DEF After
      <3> QED BY <1>7, <1>9, <2>1, <3>1 DEF s
    <2>2. CASE i \in 1..n
      <3>1. After(i)' = After(i)
        BY <1>3, <1>9, <2>2 DEF After
      <3> QED BY <1>3, <1>9, <2>2, <3>1 DEF SystemsInv
    <2> QED BY <1>3, <1>9, <2>1, <2>2
  <1>12. BackThere'
    BY <1>1 DEF BackThere
  <1> QED BY <1>1, <1>10, <1>11, <1>12 DEF SystemsInv

LEMMA VerifyKeeps == SystemsInv /\ Verify => SystemsInv'
  <1> SUFFICES ASSUME SystemsInv, Verify PROVE SystemsInv'
    OBVIOUS
  <1> DEFINE n == Len(plan)
  <1>1. /\ phase = "run" /\ Len(results) = n /\ before' = Append(before, world)
        /\ phase' = "verified" /\ left' = n
        /\ UNCHANGED <<real, plan, world, results>>
    BY DEF Verify
  <1>2. /\ SystemsTyped /\ n \in Nat /\ Len(before) = n /\ DOMAIN results = 1..n
        /\ before \in Seq(WorldStates) /\ world \in WorldStates
    BY <1>1, PlanLengths DEF SystemsInv, SystemsTyped
  <1>3. /\ before' \in Seq(WorldStates) /\ Len(before') = n + 1
        /\ before'[n + 1] = world /\ \A i \in 1..n : before'[i] = before[i]
    BY <1>1, <1>2
  <1>4. SystemsTyped'
    BY <1>1, <1>2, <1>3 DEF SystemsTyped
  <1>5. \A i \in 1..n : After(i)' = After(i)
    BY <1>1, <1>2, <1>3 DEF After
  <1>6. BackThere'
    BY <1>1, <1>3 DEF BackThere
  <1> QED BY <1>1, <1>2, <1>3, <1>4, <1>5, <1>6 DEF SystemsInv

LEMMA UndoKeeps == SystemsInv /\ Undo => SystemsInv'
  <1> SUFFICES ASSUME SystemsInv, Undo PROVE SystemsInv'
    OBVIOUS
  <1>1. /\ phase # "run" /\ phase' = "undoing" /\ left > 0 /\ left' = left - 1
        /\ world' = IF results[left].ok THEN Follow(world, results[left].hint) ELSE world
        /\ UNCHANGED <<real, plan, before, results>>
    BY DEF Undo
  <1>2. /\ SystemsTyped /\ Len(plan) \in Nat /\ Len(before) = Len(plan) + 1
        /\ Len(results) = Len(plan) /\ left \in 1..Len(plan) /\ DOMAIN results = 1..Len(plan)
        /\ \A i \in DOMAIN results : results[i] \in Results
    BY <1>1, PlanLengths DEF SystemsInv, SystemsTyped
  <1>3. SystemsTyped'
    <2>1. left - 1 \in 0..Len(plan)
      BY <1>2
    <2> QED BY <1>1, <1>2, <2>1 DEF SystemsTyped
  <1>4. \A i \in DOMAIN results : After(i)' = After(i) /\ After(i) = before[i + 1]
    BY <1>1, <1>2 DEF After
  <1>5. BackThere'
    <2> SUFFICES ASSUME \A i \in left..Len(plan) : ~Stays(i) PROVE world' = before[left]
      BY <1>1, <1>2 DEF BackThere, Stays
    <2>1. world = before[left + 1] /\ ~Stays(left)
      BY <1>1, <1>2 DEF SystemsInv, BackThere
    <2>2. Faithful(before[left], plan[left], results[left], before[left + 1])
      BY <1>2, <1>4 DEF SystemsInv
    <2>3. CASE results[left].ok = TRUE
      BY <1>1, <2>1, <2>2, <2>3 DEF Stays, Faithful
    <2>4. CASE results[left].ok # TRUE
      <3>1. results[left] \in Results
        BY <1>2
      <3>2. results[left].ok = FALSE
        BY <2>4, <3>1 DEF Results
      <3> QED BY <1>1, <2>1, <3>2 DEF Stays
    <2> QED BY <2>3, <2>4
  <1> QED BY <1>1, <1>2, <1>3, <1>4, <1>5 DEF SystemsInv

LEMMA SystemsStep == SystemsInv /\ [Next]_vars => SystemsInv'
  <1>1. SystemsInv /\ UNCHANGED vars => SystemsInv'
    BY DEF vars, SystemsInv, SystemsTyped, After, BackThere, Stays
  <1> QED BY <1>1, ExecuteKeeps, VerifyKeeps, UndoKeeps DEF Next

\* The hints of a trial, followed from its last step back, restore every state
\* the systems were in, for every plan, whichever systems are real and whatever
\* failed, down to the last step that cannot be taken back.
THEOREM HintsRestore == Spec => []UndoRestores
  <1>1. ASSUME SystemsInv PROVE UndoRestores
    <2> SUFFICES ASSUME phase = "undoing", \A i \in left + 2..Len(plan) : ~Stays(i),
                        ~Stays(left + 1)
                 PROVE  world = before[left + 1]
      BY DEF UndoRestores
    <2>1. left \in Nat /\ Len(plan) \in Nat
      BY <1>1, PlanLengths DEF SystemsInv, SystemsTyped
    <2>2. \A i \in left + 1..Len(plan) : i = left + 1 \/ i \in left + 2..Len(plan)
      BY <2>1
    <2> QED BY <1>1, <2>2 DEF SystemsInv, BackThere
  <1>2. SystemsInv => UndoRestores
    BY <1>1
  <1> QED BY <1>2, InitSystems, SystemsStep, PTL DEF Spec

\* A step that reads failed left its system as it found it, unless it is a shift
\* of dates over tasks one of which has none.
THEOREM FailuresAreClean == Spec => []FailureIsClean
  <1>1. ASSUME SystemsInv PROVE FailureIsClean
    <2> SUFFICES ASSUME phase = "verified", NEW i \in DOMAIN plan, ~results[i].ok,
                        before[i + 1] # before[i]
                 PROVE  plan[i].op = "shift_task_dates"
                          /\ \E j \in DOMAIN before[i].tasks : ~Dated(before[i].tasks[j])
      BY DEF FailureIsClean
    <2>1. /\ i \in 1..Len(plan) /\ i \in DOMAIN results /\ i < Len(before)
      BY <1>1, PlanLengths DEF SystemsInv, SystemsTyped
    <2>2. Faithful(before[i], plan[i], results[i], before[i + 1])
      BY <1>1, <2>1 DEF SystemsInv, After
    <2> QED BY <2>2 DEF Faithful, Halfway
  <1>2. SystemsInv => FailureIsClean
    BY <1>1
  <1> QED BY <1>2, InitSystems, SystemsStep, PTL DEF Spec
=============================================================================

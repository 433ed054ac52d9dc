---------------------------- MODULE LaunchDates ----------------------------
(***************************************************************************)
(* The days behind a launch: what the gatherer compares a day with         *)
(* (agent/gatherers.py, gather_launch and _derive_contractual_breach) and  *)
(* the day the planner puts in its place (agent/planners.py, plan_launch). *)
(*                                                                         *)
(* Days are numbers.  A calendar is all the six systems hold about days:   *)
(* the milestone's due day, the day asked for, the contract's SLA (one day *)
(* or none), the freezes in the order they are published, the days with an *)
(* event, and the dependent milestones with the buffer each requires.      *)
(***************************************************************************)
EXTENDS FiniteSets, Naturals, Sequences, SequencesExt

CONSTANTS
  Horizon,      \* days _latest_safe_day walks, 60 in the code
  Tries,        \* days _next_free_day tries, 14 in the code
  OldDefault,   \* the due day of a milestone that was not read
  SlaDefault,   \* the SLA of a breach without one
  DueDefault    \* the day of a request that names none

ASSUME DaysAssumption ==
  Horizon \in Nat /\ Tries \in Nat /\ OldDefault \in Nat /\ SlaDefault \in Nat /\ DueDefault \in Nat

CalendarType ==
  [old : Nat, due : Nat, sla : {s \in SUBSET Nat : \A a, b \in s : a = b},
   freezes : Seq([start : Nat, end : Nat]), busy : SUBSET Nat,
   dependents : SUBSET [due : Nat, buffer : Nat]]

DateFindings == {"clash", "sla_passed", "in_freeze", "buffer_short", "second_buffer"}

Over(freeze, day) == freeze.start <= day /\ day <= freeze.end
FreezesOver(c, day) == {i \in DOMAIN c.freezes : Over(c.freezes[i], day)}

\* The first freeze over the day is the one the evidence names.
NamedFreeze(c, day) == c.freezes[Min(FreezesOver(c, day))]

\* The dependents whose go-live is nearer to the day than their buffer.
Squeezed(c, day) == {d \in c.dependents : d.due < day + d.buffer}

\* What the gatherer finds when this is the day asked for.
Sees(c, day) ==
  {f \in DateFindings :
     \/ f = "clash" /\ day \in c.busy
     \/ f = "sla_passed" /\ \E sla \in c.sla : day > sla
     \/ f = "in_freeze" /\ FreezesOver(c, day) # {}
     \/ f = "buffer_short" /\ Squeezed(c, day) # {}
     \/ f = "second_buffer" /\ Cardinality(Squeezed(c, day)) > 1}

\* The days on the walk forward from the old due day that are not past the SLA,
\* before the freeze (if there is one), and free.
SafeDays(old, sla, freezeStarts, busy) ==
  {d \in (old + 1)..(old + Horizon) :
     d <= sla /\ (\A s \in freezeStarts : d < s) /\ d \notin busy}

\* A walk that looks at the SLA one day late.
LatestSafeDay_PastSla(old, sla, freezeStarts, busy) ==
  LET safe == SafeDays(old, sla + 1, freezeStarts, busy)
  IN  IF safe = {} THEN old + 1 ELSE Max(safe)

\* _latest_safe_day: the last of them; the day after the old one if there is none.
LatestSafeDay(old, sla, freezeStarts, busy) ==
  LET safe == SafeDays(old, sla, freezeStarts, busy)
  IN  IF safe = {} THEN old + 1 ELSE Max(safe)

\* _next_free_day: the first free day after this one; the next day if all are busy.
NextFreeDay(after, busy) ==
  LET free == ((after + 1)..(after + Tries)) \ busy
  IN  IF free = {} THEN after + 1 ELSE Min(free)

\* The day the planner proposes.  A breach the model flagged on its own comes
\* without the facts of one: no SLA, no freeze.
Proposed(c, asked, breach, evidence, clash) ==
  LET sla    == IF evidence /\ c.sla # {} THEN Max(c.sla) ELSE SlaDefault
      starts == IF evidence /\ FreezesOver(c, asked) # {}
                THEN {NamedFreeze(c, asked).start} ELSE {}
  IN  IF breach THEN LatestSafeDay(c.old, sla, starts, c.busy)
      ELSE IF clash THEN NextFreeDay(asked, c.busy) ELSE asked

-----------------------------------------------------------------------------
\* Reference: what the gatherer would hold against the day in this day's place,
\* of the freezes only the one it named.
Against(c, asked, day) ==
  (Sees(c, day) \cap {"clash", "sla_passed"})
    \cup {f \in {"in_freeze"} :
            FreezesOver(c, asked) # {} /\ Over(NamedFreeze(c, asked), day)}

\* Some day of the walk has nothing against it and precedes that freeze.
HasWayOut(c, asked) ==
  \E d \in (c.old + 1)..(c.old + Horizon) :
    /\ Against(c, asked, d) = {}
    /\ FreezesOver(c, asked) # {} => d < NamedFreeze(c, asked).start
=============================================================================

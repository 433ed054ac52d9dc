------------------------- MODULE DeliberationProofs -------------------------
(***************************************************************************)
(* Proofs about Deliberation, for every list of rule packs: no order, no   *)
(* number and no content of the packs is fixed.                            *)
(***************************************************************************)
EXTENDS Deliberation, FiniteSetTheorems, WellFoundedInduction, TLAPS

\* What any pack makes of more tags is at least as severe, convenes at least
\* the same roles, and is unsafe if it was.
LEMMA MoreTagsEscalate ==
  ASSUME NEW pack, NEW before, NEW after, before \subseteq after
  PROVE  Escalates(pack, before, after)
<1>1. Fired(pack, before) \subseteq Fired(pack, after)
  BY DEF Fired
<1>2. Severities(pack, before) \subseteq Severities(pack, after)
  BY <1>1 DEF Severities
<1>3. Rank[Level(pack, before)] <= Rank[Level(pack, after)]
  BY <1>2 DEF Level, Rank
<1>4. RequiredRoles(pack, before) \subseteq RequiredRoles(pack, after)
  BY DEF RequiredRoles
<1>5. MarksUnsafe(pack, before) => MarksUnsafe(pack, after)
  BY <1>1 DEF MarksUnsafe
<1> QED
  BY <1>3, <1>4, <1>5 DEF Escalates

\* A planner plans on the kept actions and on capabilities of its own.
LEMMA BaselineServed ==
  ASSUME NEW c \in Changes, c.actions \subseteq Served, NEW world, NEW fired, NEW unsafeTags
  PROVE  /\ Baseline(c, world, fired, unsafeTags) \in
              [kind : {"feasible", "safe_alternative"}, steps : SUBSET Served]
<1> DEFINE Plan == [kind : {"feasible", "safe_alternative"}, steps : SUBSET Served]
<1>1. FeasibleFromActions(c) \in Plan
  BY DEF FeasibleFromActions, Feasible, Changes
<1>2. PlannerSteps \subseteq Served
  BY CatalogAssumption
<1>3. PlanLaunch(fired) \in Plan
  BY <1>2 DEF PlanLaunch, Feasible, SafeAlternative, PlannerSteps
<1>4. PlanSsoGa(c, fired) \in Plan
  BY <1>1, <1>2 DEF PlanSsoGa, SafeAlternative, PlannerSteps
<1>5. PlanProjectAccess(c, fired) \in Plan
  BY <1>1, <1>2 DEF PlanProjectAccess, SafeAlternative, PlannerSteps
<1>6. PlanMeetingActions(c, world) \in Plan
  <2>1. {"planner.create_task", "outlook.create_event"} \subseteq Served
    BY <1>2 DEF PlannerSteps, RescheduleSteps
  <2> QED
    BY <1>1, <2>1 DEF PlanMeetingActions, Feasible
<1>7. PlanWeeklyReport \in Plan
  BY <1>2 DEF PlanWeeklyReport, Feasible, PlannerSteps
<1>8. GenericPlan(c, fired, unsafeTags) \in Plan
  BY <1>1 DEF GenericPlan, SafeAlternative
<1> HIDE DEF Plan
<1>9. Baseline(c, world, fired, unsafeTags) \in Plan
  BY <1>3, <1>4, <1>5, <1>6, <1>7, <1>8 DEF Baseline
<1> QED
  BY <1>9 DEF Plan

\* What is taken of a draft keeps the kind of its baseline and calls nothing
\* that is not served.
LEMMA DraftedServed ==
  ASSUME NEW base \in [kind : {"feasible", "safe_alternative"}, steps : SUBSET Served],
         NEW draft
  PROVE  /\ Drafted(base, draft) \in [kind : {"feasible", "safe_alternative"},
                                      steps : SUBSET Served]
         /\ Drafted(base, draft).kind = base.kind
  BY CatalogAssumption DEF Drafted, ValidDraft

\* The level and the flag of an assessment are of their types.
LEMMA AssessmentTyped ==
  ASSUME NEW actions, NEW fired
  PROVE  /\ Assess(actions, fired).level \in Levels
         /\ Assess(actions, fired).unsafe \in BOOLEAN
<1>1. Assess(actions, fired).level \in Levels
  BY DEF Assess, Level, Levels
<1>2. Assess(actions, fired).unsafe \in BOOLEAN
  BY DEF Assess, MarksUnsafe
<1> QED
  BY <1>1, <1>2

\* What is parsed is parsed from the words or by the model.
LEMMA ParsedSomehow ==
  ASSUME NEW t, NEW screening, NEW parsed \in Parses(t, screening)
  PROVE  parsed = ByKeywords(t) \/ \E reply \in Replies : parsed = ByModel(t, reply)
<1>1. CASE screening = "failed"
  BY <1>1 DEF Parses
<1>2. CASE screening = "flagged"
  BY <1>2 DEF Parses
<1>3. CASE screening \notin {"failed", "flagged"}
  BY <1>3 DEF Parses
<1> QED
  BY <1>1, <1>2, <1>3

\* Whatever the model answers, what is parsed is a change.
LEMMA ParsesTyped ==
  ASSUME NEW t, NEW screening, NEW parsed \in Parses(t, screening)
  PROVE  parsed \in Changes
<1>1. Subject(t) \in Subjects
  <2> DEFINE A == Says(t, {"vendor"}) \/ Says(t, {"access", "folder"})
             B == Says(t, {"meeting"})
             C == Says(t, {"report"})
             D == Says(t, {"commit", "customer"}) \/ Says(t, {"generally_available"})
             E == Says(t, {"launch", "move"})
  <2> HIDE DEF A, B, C, D, E
  <2>1. Subject(t) = IF A THEN "project_access" ELSE IF B THEN "meeting_actions"
                     ELSE IF C THEN "weekly_report" ELSE IF D THEN "sso_ga"
                     ELSE IF E THEN "launch" ELSE "none"
    BY Zenon DEF Subject, A, B, C, D, E
  <2>2. Subject(t) \in Scripted \cup {"none"}
    BY <2>1 DEF Scripted, FindingsOf
  <2> QED
    BY <2>2, SubjectsAssumption
<1>2. Due(t) \in Dues
  BY DEF Due, Dues
<1>3. Requested(t) \subseteq Actions
  <2>1. CASE Subject(t) = "project_access"
    BY <2>1, ActionsAssumption DEF Requested
  <2>2. CASE Subject(t) = "launch"
    BY <2>2, ActionsAssumption DEF Requested
  <2>3. CASE Subject(t) \notin {"project_access", "launch"}
    BY <2>3 DEF Requested
  <2> QED
    BY <2>1, <2>2, <2>3
<1>4. ByKeywords(t) \in Changes
  BY <1>1, <1>2, <1>3 DEF ByKeywords, Changes
<1>5. parsed = ByKeywords(t) \/ \E reply \in Replies : parsed = ByModel(t, reply)
  BY ParsedSomehow
<1> QED
  BY <1>4, <1>5, RepliesAssumption DEF ByModel

-----------------------------------------------------------------------------
\* The first states satisfy the inductive invariant.
LEMMA InitInductive == Init => InductiveInv
<1>1. Init => TypeOK
  <2>1. NoPlan \in [kind : Kinds, steps : SUBSET Served]
    BY DEF NoPlan, Kinds
  <2>2. NoRisk.level \in Levels \cup {"none"} /\ NoRisk.unsafe \in BOOLEAN
    BY DEF NoRisk
  <2> QED
    <3>1. NoChange \in Changes
      BY SubjectsAssumption DEF NoChange, Changes, Dues
    <3> QED
      BY <2>1, <2>2, <3>1, RequestAssumption DEF Init, TypeOK, Nodes
<1>2. Init => RefusalKept
  BY DEF Init, RefusalKept, NoPlan
<1>3. Init => EvidenceKept /\ OnlyServedKept /\ JudgedOnTags
  BY DEF Init, EvidenceKept, OnlyServedKept, JudgedOnTags, Judged, NoChange
<1> QED
  BY <1>1, <1>2, <1>3 DEF InductiveInv

\* Every node keeps it.
LEMMA NextInductive == InductiveInv /\ [Next]_vars => InductiveInv'
<1> SUFFICES ASSUME InductiveInv, [Next]_vars PROVE InductiveInv'
  OBVIOUS
<1> USE DEF InductiveInv
<1>1. CASE Intake
  <2>1. \/ node' = "failed" /\ UNCHANGED <<change, refused>>
        \/ \E screening \in Screenings : \E parsed \in Parses(text, screening) :
             /\ node' = "impact" /\ refused' = parsed.actions \ Served
             /\ change' = [parsed EXCEPT !.actions = @ \cap Served]
    BY <1>1 DEF Intake
  <2>2. /\ node' \in {"failed", "impact"} /\ change' \in Changes
        /\ change'.actions \subseteq Served /\ refused' \cap Served = {}
    <3>1. CASE node' = "failed" /\ UNCHANGED <<change, refused>>
      BY <3>1 DEF TypeOK, OnlyServedKept
    <3>2. ASSUME NEW screening, NEW parsed \in Parses(text, screening),
                 node' = "impact", refused' = parsed.actions \ Served,
                 change' = [parsed EXCEPT !.actions = @ \cap Served]
          PROVE  /\ node' \in {"failed", "impact"} /\ change' \in Changes
                 /\ change'.actions \subseteq Served /\ refused' \cap Served = {}
      <4>1. parsed \in Changes
        BY ParsesTyped
      <4> QED
        BY <3>2, <4>1 DEF Changes
    <3> QED
      BY <2>1, <3>1, <3>2
  <2>4. text' \in Texts
    BY <1>1 DEF Intake, NoText, Texts
  <2>5. TypeOK'
    BY <1>1, <2>2, <2>4 DEF Intake, TypeOK, Nodes
  <2>6. OnlyServedKept'
    BY <2>2 DEF OnlyServedKept
  <2>7. (EvidenceKept /\ RefusalKept /\ JudgedOnTags)'
    BY <1>1, <2>2 DEF Intake, EvidenceKept, RefusalKept, JudgedOnTags, Judged
  <2> QED
    BY <2>5, <2>6, <2>7
<1>2. CASE Impact
  <2>1. TypeOK'
    BY <1>2 DEF Impact, Flagged, TypeOK, Nodes
  <2>2. EvidenceKept'
    BY <1>2 DEF Impact, Flagged, EvidenceKept, Judged
  <2>3. (OnlyServedKept /\ RefusalKept /\ JudgedOnTags)'
    BY <1>2 DEF Impact, Flagged, OnlyServedKept, RefusalKept, JudgedOnTags
  <2> QED
    BY <2>1, <2>2, <2>3
<1>3. CASE Options
  <2> DEFINE Plan == [kind : {"feasible", "safe_alternative"}, steps : SUBSET Served]
  <2>1. CASE NoDayToRead
    BY <1>3, <2>1 DEF Options, TypeOK, Nodes, EvidenceKept, OnlyServedKept, RefusalKept,
                      JudgedOnTags, Judged
  <2>2. CASE ~NoDayToRead
    <3>1. baseline' \in Plan
      BY <1>3, <2>2, BaselineServed DEF Options, OnlyServedKept, TypeOK
    <3>2. plan' \in Plan /\ plan'.kind = baseline'.kind
      BY <1>3, <2>2, <3>1, DraftedServed DEF Options
    <3>3. TypeOK'
      BY <1>3, <2>2, <3>1, <3>2 DEF Options, TypeOK, Nodes, Kinds
    <3>4. RefusalKept'
      BY <1>3, <2>2, <3>2 DEF Options, RefusalKept
    <3>5. (EvidenceKept /\ OnlyServedKept /\ JudgedOnTags)'
      BY <1>3, <2>2 DEF Options, EvidenceKept, OnlyServedKept, JudgedOnTags, Judged
    <3> QED
      BY <3>3, <3>4, <3>5
  <2> QED
    BY <2>1, <2>2
<1>4. CASE Policy
  <2>1. TypeOK'
    BY <1>4, AssessmentTyped DEF Policy, TypeOK, Nodes
  <2>2. JudgedOnTags'
    BY <1>4 DEF Policy, JudgedOnTags
  <2>3. RefusalKept'
    BY <1>4 DEF Policy, RefusalKept
  <2>4. (EvidenceKept /\ OnlyServedKept)'
    BY <1>4 DEF Policy, EvidenceKept, OnlyServedKept, Judged
  <2> QED
    BY <2>1, <2>2, <2>3, <2>4
<1>5. CASE UNCHANGED vars
  BY <1>5 DEF vars, TypeOK, EvidenceKept, OnlyServedKept, RefusalKept, JudgedOnTags, Judged
<1> QED
  BY <1>1, <1>2, <1>3, <1>4, <1>5 DEF Next

\* Every reachable state satisfies the inductive invariant.
THEOREM DeliberationSound == Spec => []InductiveInv
<1>1. Init => InductiveInv
  BY InitInductive
<1>2. InductiveInv /\ [Next]_vars => InductiveInv'
  BY NextInductive
<1> QED
  BY <1>1, <1>2, PTL DEF Spec

\* A trial is judged on all its gatherer would find, whichever systems fail.
THEOREM NothingWithheld == Spec => []JudgedOnAllEvidence
<1>1. InductiveInv => JudgedOnAllEvidence
  BY DEF InductiveInv, EvidenceKept, JudgedOnAllEvidence
<1> QED
  BY <1>1, DeliberationSound, PTL

\* For any packs, flagged tags that leave a change with its pack escalate.
THEOREM AdditiveWithinAPack == Spec => []FlagsOnlyEscalate
<1>1. InductiveInv => FlagsOnlyEscalate
  <2> SUFFICES ASSUME InductiveInv, node = "gate", SamePack(change.actions, own, tags)
               PROVE  /\ Rank[Assess(change.actions, own).level] <= Rank[risk.level]
                      /\ Convene(change.actions, own).roles \subseteq quorum.roles
                      /\ Assess(change.actions, own).unsafe => unsafe
    BY DEF FlagsOnlyEscalate
  <2> DEFINE pack == PackFor(change.actions, tags)
  <2>1. own \subseteq tags
    BY DEF InductiveInv, EvidenceKept, Judged
  <2>2. FiredTags(change.actions, own) \subseteq FiredTags(change.actions, tags)
    BY <2>1 DEF SamePack, FiredTags
  <2>3. Escalates(pack, FiredTags(change.actions, own), FiredTags(change.actions, tags))
    BY <2>2, MoreTagsEscalate
  <2> QED
    BY <2>3 DEF Escalates, InductiveInv, JudgedOnTags, Assess, Convene, SamePack
<1> QED
  BY <1>1, DeliberationSound, PTL

\* A change no pack governs is put before the manager, whatever the packs are.
THEOREM FloorHolds == Spec => []UnknownAsksHuman
<1>1. InductiveInv => UnknownAsksHuman
  <2> SUFFICES ASSUME InductiveInv, node = "gate", NoneGoverns(change.actions, tags)
               PROVE  risk.level # "low" /\ "manager" \in quorum.roles
    BY DEF UnknownAsksHuman
  <2> DEFINE all == FiredTags(change.actions, tags)
  <2>1. PackFor(change.actions, tags) = Fallback /\ Sentinel \in all
    BY DEF PackFor, FiredTags
  <2>2. PICK i \in DOMAIN Fallback.factors :
          Fallback.factors[i].tag = Sentinel
            /\ Fallback.factors[i].severity \in {"medium", "high"}
    BY FallbackAssumption
  <2>3. Fallback.factors[i].severity \in Severities(Fallback, all)
    BY <2>1, <2>2 DEF Severities, Fired
  <2>4. Level(Fallback, all) # "low"
    BY <2>2, <2>3, FallbackAssumption DEF Level
  <2>5. "manager" \in RequiredRoles(Fallback, all)
    BY <2>1, FallbackAssumption DEF RequiredRoles, Approver
  <2> QED
    BY <2>1, <2>4, <2>5 DEF InductiveInv, JudgedOnTags, Assess, Convene
<1> QED
  BY <1>1, DeliberationSound, PTL

\* A refusal of the planner reaches the gate as one, whatever was drafted.
THEOREM RefusalBinds == Spec => []RefusalStands
<1>1. InductiveInv => RefusalStands
  BY DEF InductiveInv, RefusalKept, RefusalStands
<1> QED
  BY <1>1, DeliberationSound, PTL

\* An action the guard rejected is in no plan, whatever was drafted.
THEOREM RejectedStaysOut == Spec => []RejectedNeverPlanned
<1>1. InductiveInv => RejectedNeverPlanned
  BY DEF InductiveInv, TypeOK, OnlyServedKept, RejectedNeverPlanned
<1> QED
  BY <1>1, DeliberationSound, PTL

-----------------------------------------------------------------------------
\* When the guard of intake leaves nothing of a change of a scripted subject, it
\* is the change of the words alone, refused all that the words ask for: whatever
\* the model answers and whatever is served.  Whether the run gets that far is not
\* said: a shield that cannot screen ends it.
THEOREM ModelBlocksNothing == Spec => ModelNeverBlocks
<1> DEFINE A == node = "intake" /\ change'.subject \in Scripted /\ Blocked' =>
                  LET words == ByKeywords(text)
                  IN  change' = [words EXCEPT !.actions = {}] /\ refused' = words.actions
<1>1. InductiveInv /\ [Next]_vars => [A]_vars
  <2> SUFFICES ASSUME InductiveInv, Next, node = "intake", change'.subject \in Scripted, Blocked'
               PROVE  A
    OBVIOUS
  <2>1. Intake
    BY DEF Next, Impact, Options, Policy
  <2>2. refused' # {} /\ change'.actions = {}
    BY DEF Blocked
  <2>3. CASE UNCHANGED <<change, refused>>
    BY <2>2, <2>3 DEF InductiveInv, OnlyServedKept
  <2>4. CASE \E screening \in Screenings : \E parsed \in Parses(text, screening) :
               /\ refused' = parsed.actions \ Served
               /\ change' = [parsed EXCEPT !.actions = @ \cap Served]
    <3>1. PICK screening \in Screenings : \E parsed \in Parses(text, screening) :
               /\ refused' = parsed.actions \ Served
               /\ change' = [parsed EXCEPT !.actions = @ \cap Served]
      BY <2>4
    <3>2. PICK parsed \in Parses(text, screening) :
               /\ refused' = parsed.actions \ Served
               /\ change' = [parsed EXCEPT !.actions = @ \cap Served]
      BY <3>1
    <3>3. parsed \in Changes
      BY <3>2, ParsesTyped
    <3>4. change'.subject = parsed.subject /\ parsed.actions \cap Served = {}
      BY <2>2, <3>2, <3>3 DEF Changes
    <3>5. refused' = parsed.actions /\ parsed.actions # {}
      BY <2>2, <3>2, <3>4
    <3>6. parsed = ByKeywords(text)
      BY <3>4, <3>5, ParsedSomehow DEF ByModel
    <3>7. change' = [parsed EXCEPT !.actions = {}]
      BY <3>2, <3>4
    <3> QED
      BY <3>5, <3>6, <3>7
  <2> QED
    BY <2>1, <2>3, <2>4 DEF Intake
<1> QED
  BY <1>1, DeliberationSound, PTL DEF Spec, ModelNeverBlocks

\* A set of numbers has a least element, and below a bound a greatest one.
LEMMA LeastIn ==
  ASSUME NEW S \in SUBSET Nat, S # {}
  PROVE  \E x \in S : \A y \in S : x <= y
<1> DEFINE less == {pair \in Nat \X Nat : pair[1] < pair[2]}
<1>1. IsWellFoundedOn(less, Nat)
  BY NatLessThanWellFounded DEF OpToRel
<1> HIDE DEF less
<1>2. PICK x \in S : \A y \in S : ~(<<y, x>> \in less)
  BY <1>1, WFMin, Zenon
<1>3. ASSUME NEW y \in S PROVE x <= y
  <2>1. <<y, x>> \in Nat \X Nat /\ <<y, x>>[1] = y /\ <<y, x>>[2] = x
    OBVIOUS
  <2>2. ~(y < x)
    BY <1>2, <2>1, Zenon DEF less
  <2> QED
    BY <2>2
<1> QED
  BY <1>3

LEMMA LeastExists == ASSUME NEW S \in SUBSET Nat, S # {} PROVE Min(S) \in S
  BY LeastIn DEF Min

LEMMA GreatestExists ==
  ASSUME NEW b \in Nat, NEW S \in SUBSET (0..b), S # {}
  PROVE  Max(S) \in S
<1> DEFINE T == {b - x : x \in S}
<1>1. T \in SUBSET Nat /\ T # {}
  <2>1. ASSUME NEW x \in S PROVE b - x \in Nat
    OBVIOUS
  <2>2. PICK x : x \in S
    OBVIOUS
  <2> QED
    BY <2>1, <2>2
<1>2. PICK t \in T : \A u \in T : t <= u
  BY <1>1, LeastIn
<1>3. PICK x \in S : t = b - x
  OBVIOUS
<1>4. \A y \in S : b - y \in T
  OBVIOUS
<1>5. \A y \in S : x >= y
  BY <1>2, <1>3, <1>4
<1> QED
  BY <1>5 DEF Max

\* The day offered in place of one that breaches: the walk ends on a day with
\* nothing against it, if there is one.
LEMMA WalkFindsTheWayOut ==
  ASSUME NEW c \in CalendarType, NEW asked \in Nat, c.sla # {}, HasWayOut(c, asked), NEW clash
  PROVE  Against(c, asked, Proposed(c, asked, TRUE, TRUE, clash)) = {}
<1>1. PICK sla \in Nat : c.sla = {sla}
  BY DEF CalendarType
<1>2. Max(c.sla) = sla
  BY <1>1 DEF Max
<1> DEFINE hit == FreezesOver(c, asked)
           starts == IF hit # {} THEN {NamedFreeze(c, asked).start} ELSE {}
           safe == SafeDays(c.old, sla, starts, c.busy)
           day == LatestSafeDay(c.old, sla, starts, c.busy)
<1> HIDE DEF hit
<1>3. Proposed(c, asked, TRUE, TRUE, clash) = day
  BY <1>1, <1>2 DEF Proposed, hit
<1>4. safe # {}
  <2>1. PICK d \in (c.old + 1)..(c.old + Horizon) :
          Against(c, asked, d) = {} /\ (hit # {} => d < NamedFreeze(c, asked).start)
    BY DEF HasWayOut, hit
  <2>2. d \notin c.busy /\ ~(d > sla)
    BY <2>1, <1>1 DEF Against, Sees, DateFindings
  <2>3. d <= sla
    BY <2>2, DaysAssumption DEF CalendarType
  <2> QED
    BY <2>1, <2>2, <2>3 DEF SafeDays
<1>5. day \in safe
  <2>1. safe \in SUBSET (0..(c.old + Horizon)) /\ c.old + Horizon \in Nat
    BY DaysAssumption DEF SafeDays, CalendarType
  <2>2. Max(safe) \in safe
    BY <2>1, <1>4, GreatestExists
  <2> QED
    BY <2>2, <1>4 DEF LatestSafeDay
<1>6. day \in Nat /\ day <= sla /\ day \notin c.busy /\ (\A s \in starts : day < s)
  <2>1. day \in (c.old + 1)..(c.old + Horizon)
    BY <1>5 DEF SafeDays
  <2>2. day \in Nat
    BY <2>1, DaysAssumption DEF CalendarType
  <2> QED
    BY <1>5, <2>2 DEF SafeDays
<1> HIDE DEF day
<1>7. "clash" \notin Sees(c, day) /\ "sla_passed" \notin Sees(c, day)
  BY <1>1, <1>6 DEF Sees
<1>8. hit # {} => ~Over(NamedFreeze(c, asked), day)
  <2> SUFFICES ASSUME hit # {} PROVE ~Over(NamedFreeze(c, asked), day)
    OBVIOUS
  <2>1. hit \in SUBSET Nat /\ hit \subseteq DOMAIN c.freezes
    BY DEF hit, FreezesOver, CalendarType
  <2>2. Min(hit) \in DOMAIN c.freezes
    BY <2>1, LeastExists
  <2>3. NamedFreeze(c, asked).start \in Nat
    <3>1. c.freezes \in Seq([start : Nat, end : Nat])
      BY DEF CalendarType
    <3>2. NamedFreeze(c, asked) = c.freezes[Min(hit)]
      BY Zenon DEF NamedFreeze, hit
    <3>3. \A i \in DOMAIN c.freezes : c.freezes[i] \in [start : Nat, end : Nat]
      <4> DEFINE F == [start : Nat, end : Nat]
      <4> HIDE DEF F
      <4>1. \A f \in Seq(F) : \A i \in DOMAIN f : f[i] \in F
        OBVIOUS
      <4> QED
        BY <3>1, <4>1 DEF F
    <3>4. NamedFreeze(c, asked) \in [start : Nat, end : Nat]
      BY <2>2, <3>2, <3>3, Zenon
    <3> QED
      BY <3>4
  <2>4. day < NamedFreeze(c, asked).start
    BY <1>6
  <2> QED
    BY <2>3, <2>4, <1>6 DEF Over
<1>9. Against(c, asked, day) = {}
  BY <1>7, <1>8 DEF Against, hit
<1> QED
  BY <1>3, <1>9

\* The day offered in place of a busy one is free, if one of the next is.
LEMMA NextIsFree ==
  ASSUME NEW c \in CalendarType, NEW asked \in Nat, NEW evidence,
         \E d \in (asked + 1)..(asked + Tries) : "clash" \notin Sees(c, d)
  PROVE  "clash" \notin Against(c, asked, Proposed(c, asked, FALSE, evidence, TRUE))
<1> DEFINE free == ((asked + 1)..(asked + Tries)) \ c.busy
           day == NextFreeDay(asked, c.busy)
<1>1. free \in SUBSET Nat /\ free # {}
  BY DaysAssumption DEF Sees, DateFindings
<1>2. day \in free
  BY <1>1, LeastExists DEF NextFreeDay
<1>3. Proposed(c, asked, FALSE, evidence, TRUE) = day
  BY DEF Proposed
<1> QED
  BY <1>2, <1>3 DEF Against, Sees

\* The day offered is as good as the walk allows, whatever the systems hold
\* about days, however far the planner walks, and whatever the model flags.
THEOREM OffersHonour == Spec => []OfferHonours
<1>1. Init => OfferHonours
  BY DEF Init, OfferHonours, NoOffer
<1>2. OfferHonours /\ [Next]_vars => OfferHonours'
  <2> SUFFICES ASSUME OfferHonours, [Next]_vars, offer' # offer PROVE OfferHonours'
    BY DEF OfferHonours
  <2>1. Options /\ offer' \in Offers(findings, tags)
    BY DEF Next, Intake, Impact, Options, Policy, vars
  <2>2. CASE offer' = NoOffer
    BY <2>2 DEF OfferHonours, NoOffer
  <2>3. CASE offer' # NoOffer
    <3>1. PICK c \in CalendarsBehind(findings) : offer' = OfferIn(c, findings, tags)
      BY <2>1, <2>3 DEF Offers
    <3>2. tags \cap {BreachTag, ClashTag} # {}
      BY <2>1, <2>3 DEF Offers
    <3>3. c \in Calendars
      <4>1. findings \cap DateFindings \in SUBSET DateFindings
        OBVIOUS
      <4> QED
        BY <3>1, <4>1 DEF CalendarsBehind, CalendarsWith
    <3>4. c \in CalendarType
      BY <3>3, CalendarsAssumption
    <3> DEFINE asked  == IF Dated(change) THEN c.due ELSE DueDefault
               cal    == IF "milestone" \in findings THEN c ELSE [c EXCEPT !.old = OldDefault]
               breach == BreachTag \in tags
               day    == Proposed(cal, asked, breach, Breach(findings), ClashTag \in tags)
    <3>5. asked \in Nat /\ cal \in CalendarType
      BY <3>4, DaysAssumption DEF CalendarType
    <3>6. /\ cal.sla = c.sla /\ cal.busy = c.busy /\ cal.freezes = c.freezes
          /\ cal.dependents = c.dependents
      BY <3>4 DEF CalendarType
    <3> HIDE DEF cal, asked
    <3>7. \A d : Sees(cal, d) = Sees(c, d)
      BY <3>6 DEF Sees, FreezesOver, Squeezed
    <3>8. Against(c, asked, day) = Against(cal, asked, day)
      BY <3>6, <3>7 DEF Against, FreezesOver, NamedFreeze
    <3>9. CASE breach
      <4> SUFFICES ASSUME offer'.open PROVE offer'.against = {}
        BY DEF OfferHonours
      <4>1. /\ offer'.against = Against(c, asked, day)
            /\ Breach(findings) /\ c.sla # {} /\ HasWayOut(cal, asked)
        BY <3>1, <3>9 DEF OfferIn, cal, asked
      <4>2. day = Proposed(cal, asked, TRUE, TRUE, ClashTag \in tags)
        BY <3>9, <4>1 DEF Proposed
      <4>3. Against(cal, asked, Proposed(cal, asked, TRUE, TRUE, ClashTag \in tags)) = {}
        BY <3>5, <3>6, <4>1, WalkFindsTheWayOut
      <4> QED
        BY <3>8, <4>1, <4>2, <4>3
    <3>10. CASE ~breach
      <4> SUFFICES ASSUME offer'.open PROVE "clash" \notin offer'.against /\ offer'.for = "clash"
        BY DEF OfferHonours
      <4>1. /\ offer'.for = "clash" /\ offer'.against = Against(c, asked, day)
            /\ \E d \in (asked + 1)..(asked + Tries) : "clash" \notin Sees(c, d)
        BY <3>1, <3>10 DEF OfferIn, cal, asked
      <4>2. day = Proposed(cal, asked, FALSE, Breach(findings), TRUE)
        BY <3>2, <3>10 DEF Proposed
      <4>3. \E d \in (asked + 1)..(asked + Tries) : "clash" \notin Sees(cal, d)
        BY <4>1, <3>7
      <4>4. "clash" \notin Against(cal, asked, Proposed(cal, asked, FALSE, Breach(findings), TRUE))
        BY <3>5, <4>3, NextIsFree
      <4> QED
        BY <3>8, <4>1, <4>2, <4>4
    <3> QED
      BY <3>9, <3>10
  <2> QED
    BY <2>2, <2>3
<1> QED
  BY <1>1, <1>2, PTL DEF Spec
-----------------------------------------------------------------------------
\* The tags a refusal hangs on in the built-in packs.
RefusalTags == {BreachTag, ClashTag, "security.review_after_due_date", "access.overbroad_scope"}

\* No factor of the fallback is unsafe, and those of the packs are on these tags.
RefusesOnlyOn(refusals) ==
  /\ UnsafeTags \subseteq refusals
  /\ \A i \in DOMAIN Fallback.factors : ~Fallback.factors[i].unsafe

LEMMA UnsafeInPack ==
  ASSUME NEW j \in DOMAIN DefaultPacks, NEW i \in DOMAIN DefaultPacks[j].factors,
         DefaultPacks[j].factors[i].unsafe
  PROVE  DefaultPacks[j].factors[i].tag \in RefusalTags
<1> USE DEF DefaultPacks, RefusalTags, BreachTag, ClashTag, Factor, UnsafeFactor
<1>1. CASE j = 1
  BY <1>1 DEF LaunchSlip
<1>2. CASE j = 2
  BY <1>2 DEF CustomerPromise
<1>3. CASE j = 3
  BY <1>3 DEF VendorAccess
<1>4. CASE j = 4
  BY <1>4 DEF MeetingActions
<1>5. CASE j = 5
  BY <1>5 DEF WeeklyReport
<1> QED
  BY <1>1, <1>2, <1>3, <1>4, <1>5

\* The packs the program ships refuse on these tags only.
LEMMA BuiltInRefusals ==
  ASSUME Packs = DefaultPacks, Fallback = Ungoverned
  PROVE  RefusesOnlyOn(RefusalTags)
<1>1. UnsafeTags \subseteq RefusalTags
  <2> SUFFICES ASSUME NEW f \in FactorsOf(DefaultPacks), f.unsafe PROVE f.tag \in RefusalTags
    BY DEF UnsafeTags, MarksUnsafeTags
  <2>1. PICK j \in DOMAIN DefaultPacks : \E i \in DOMAIN DefaultPacks[j].factors :
          f = DefaultPacks[j].factors[i]
    BY DEF FactorsOf
  <2> QED
    BY <2>1, UnsafeInPack
<1>2. \A i \in DOMAIN Fallback.factors : ~Fallback.factors[i].unsafe
  BY DEF Ungoverned, Factor
<1> QED
  BY <1>1, <1>2 DEF RefusesOnlyOn

\* A change the policy finds unsafe has fired a tag some pack refuses on.
LEMMA UnsafeFires ==
  ASSUME NEW refusals, RefusesOnlyOn(refusals), NEW actions, NEW fired,
         Assess(actions, fired).unsafe
  PROVE  fired \cap refusals # {}
<1> DEFINE pack == PackFor(actions, fired)
           all == FiredTags(actions, fired)
<1>1. PICK i \in DOMAIN pack.factors : pack.factors[i].tag \in all /\ pack.factors[i].unsafe
  BY DEF Assess, MarksUnsafe, Fired
<1>2. ~NoneGoverns(actions, fired)
  BY <1>1 DEF PackFor, RefusesOnlyOn
<1>3. all = fired
  BY <1>2 DEF FiredTags
<1>4. \E j \in DOMAIN Packs : pack = Packs[j]
  <2>1. Governing(actions, fired) \in SUBSET Nat /\ Governing(actions, fired) # {}
    BY <1>2, PacksAssumption DEF Governing, NoneGoverns
  <2>2. \E j \in Governing(actions, fired) : \A k \in Governing(actions, fired) : j <= k
    BY <2>1, LeastIn
  <2> QED
    BY <1>2, <2>2 DEF PackFor, Governing
<1>5. pack.factors[i].tag \in UnsafeTags
  BY <1>1, <1>4 DEF UnsafeTags, MarksUnsafeTags, FactorsOf
<1> QED
  BY <1>1, <1>3, <1>5 DEF RefusesOnlyOn

\* What a gatherer finds for a refusal is found for the one subject whose
\* planner refuses on it.
LEMMA RefusedWhenFound ==
  ASSUME NEW c, NEW found \in Worlds(c), Gathered(found) \cap RefusalTags # {},
         NEW unsafeTags
  PROVE  Baseline(c, found, Gathered(found), unsafeTags).kind = "safe_alternative"
<1> DEFINE fired == Gathered(found)
<1>1. /\ BreachTag \in fired => found \cap Constraints # {}
      /\ ClashTag \in fired => "clash" \in found
      /\ "security.review_after_due_date" \in fired => "late_review" \in found
      /\ "access.overbroad_scope" \in fired => "broad" \in found
  <2>1. ASSUME NEW f \in found \cap DOMAIN TagOf
        PROVE  /\ TagOf[f] # BreachTag
               /\ TagOf[f] = ClashTag => f = "clash"
               /\ TagOf[f] = "security.review_after_due_date" => f = "late_review"
               /\ TagOf[f] = "access.overbroad_scope" => f = "broad"
    BY DEF TagOf, BreachTag, ClashTag
  <2>2. Breach(found) => found \cap Constraints # {}
    BY FS_EmptySet DEF Breach
  <2> QED
    BY <2>1, <2>2 DEF Gathered, BreachTag, ClashTag
<1>2. /\ c.subject \in Scripted /\ found \subseteq FindingsOf[c.subject]
  <2>1. found # {}
    BY <1>1 DEF RefusalTags
  <2> QED
    BY <2>1 DEF Worlds
<1>3. /\ found \cap (Constraints \cup {"clash"}) # {} => c.subject = "launch"
      /\ "late_review" \in found => c.subject = "sso_ga"
      /\ "broad" \in found => c.subject = "project_access"
  BY <1>2 DEF Scripted, FindingsOf, LaunchFindings, SsoGaFindings, ProjectAccessFindings,
              MeetingActionsFindings, WeeklyReportFindings, Constraints
<1> HIDE DEF fired
<1>4. CASE fired \cap {BreachTag, ClashTag} # {}
  <2>1. c.subject = "launch"
    BY <1>1, <1>3, <1>4
  <2> QED
    BY <1>4, <2>1 DEF Baseline, PlanLaunch, SafeAlternative, BreachTag, ClashTag, fired
<1>5. CASE "security.review_after_due_date" \in fired
  <2>1. c.subject = "sso_ga"
    BY <1>1, <1>3, <1>5
  <2> QED
    BY <1>5, <2>1 DEF Baseline, PlanSsoGa, SafeAlternative, fired
<1>6. CASE "access.overbroad_scope" \in fired
  <2>1. c.subject = "project_access"
    BY <1>1, <1>3, <1>6
  <2> QED
    BY <1>6, <2>1 DEF Baseline, PlanProjectAccess, SafeAlternative, fired
<1> QED
  BY <1>4, <1>5, <1>6 DEF RefusalTags, fired

\* The findings stay those of a world of the change, and the baseline stays
\* the one planned on them.
PlannedOnFindings ==
  /\ Judged => findings \in Worlds(change)
  /\ node \in {"policy", "gate"} => baseline = Baseline(change, findings, tags, UnsafeTags)

LEMMA PlannedInductive == PlannedOnFindings /\ [Next]_vars => PlannedOnFindings'
<1> SUFFICES ASSUME PlannedOnFindings, [Next]_vars PROVE PlannedOnFindings'
  OBVIOUS
<1>1. CASE Intake
  BY <1>1 DEF Intake, PlannedOnFindings, Judged
<1>2. CASE Impact
  BY <1>2 DEF Impact, PlannedOnFindings, Judged
<1>3. CASE Options
  BY <1>3 DEF Options, PlannedOnFindings, Judged
<1>4. CASE Policy
  BY <1>4 DEF Policy, PlannedOnFindings, Judged
<1>5. CASE UNCHANGED vars
  BY <1>5 DEF vars, PlannedOnFindings, Judged
<1> QED
  BY <1>1, <1>2, <1>3, <1>4, <1>5 DEF Next

\* With any packs that refuse on the tags of the built-in ones only, whichever
\* of them governs, a change found unsafe on its own evidence is one its planner
\* has refused: it reaches the gate as an alternative, whatever was drafted.
THEOREM UnsafeIsRefused ==
  ASSUME RefusesOnlyOn(RefusalTags)
  PROVE  Spec => []OwnEvidenceRefused
<1>1. Init => PlannedOnFindings
  BY DEF Init, PlannedOnFindings, Judged
<1>2. InductiveInv /\ PlannedOnFindings => OwnEvidenceRefused
  <2> SUFFICES ASSUME InductiveInv, PlannedOnFindings, node = "gate", tags = own, risk.unsafe
               PROVE  plan.kind = "safe_alternative"
    BY DEF OwnEvidenceRefused
  <2>1. tags = Gathered(findings) /\ findings \in Worlds(change)
    BY DEF InductiveInv, EvidenceKept, PlannedOnFindings, Judged
  <2>2. tags \cap RefusalTags # {}
    BY UnsafeFires DEF InductiveInv, JudgedOnTags
  <2>3. baseline.kind = "safe_alternative"
    BY <2>1, <2>2, RefusedWhenFound DEF PlannedOnFindings
  <2> QED
    BY <2>3 DEF InductiveInv, RefusalKept
<1>3. PlannedOnFindings /\ [Next]_vars => PlannedOnFindings'
  BY PlannedInductive
<1> QED
  BY <1>1, <1>2, <1>3, DeliberationSound, PTL DEF Spec

\* The packs the program ships are such packs.
THEOREM BuiltInUnsafeIsRefused ==
  ASSUME Packs = DefaultPacks, Fallback = Ungoverned
  PROVE  Spec => []OwnEvidenceRefused
  BY BuiltInRefusals, UnsafeIsRefused
=============================================================================

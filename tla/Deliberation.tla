---------------------------- MODULE Deliberation ----------------------------
(***************************************************************************)
(* A trial up to its review gate: the nodes intake, impact, options and    *)
(* policy of app/agent/nodes, run once each in this order by the graph     *)
(* (app/agent/graph.py).  The language model has a say in two of them, the *)
(* tags the Prosecutor flags on top of the gatherer's (agentic/gatherer.py) *)
(* and the steps the Defender drafts (agentic/planner.py); what it may say *)
(* is arbitrary, what is taken of it is decided here.                      *)
(***************************************************************************)
EXTENDS Parsing, LaunchDates

CONSTANTS
  Packs,       \* the rule packs, in order of precedence
  Fallback,    \* the pack of a change none of them governs
  Sentinel,    \* the tag that makes the fallback fire
  Writes,      \* the served actions that write: the Defender's catalog
  Requests,    \* texts that are submitted
  Calendars,   \* what the systems may hold about days
  Proposals,   \* sets of tags the Prosecutor may propose
  Drafts,      \* sets of capabilities the Defender may draft a plan of
  MaxSteps     \* _MAX_STEPS

\* The packs are a list: one of those that govern is the first.
ASSUMPTION PacksAssumption == DOMAIN Packs \subseteq Nat

ASSUMPTION RequestAssumption == Requests \subseteq Texts
ASSUMPTION CalendarsAssumption == Calendars \subseteq CalendarType

\* The sentinel fires a factor of the fallback and convenes the manager.
ASSUMPTION FallbackAssumption ==
  /\ \E i \in DOMAIN Fallback.factors :
       Fallback.factors[i].tag = Sentinel /\ Fallback.factors[i].severity \in {"medium", "high"}
  /\ Approver("manager", Sentinel) \in Fallback.approvers

\* The registry has an adapter for every system the planners plan on.
ASSUMPTION CatalogAssumption == Writes \cup PlannerSteps \subseteq Served

Vocabulary == TagVocabulary(Packs)
UnsafeTags == MarksUnsafeTags(Packs)

VARIABLES
  node,      \* the node the graph runs next; "gate": interrupted before execute
  text,      \* raw_request; NoText once no node reads its words again
  change,    \* the change under trial, its requested actions the ones kept
  refused,   \* the capabilities the intake guard rejected
  findings,  \* what the systems hold when they are read
  own,       \* the tags of the subject's gatherer
  tags,      \* the evidence tags
  baseline,  \* the plan of the subject's planner
  offer,     \* of a launch's baseline: why it names another day, and how good it is
  plan,      \* the plan under review
  unsafe,    \* change.unsafe
  risk,      \* the level and whether a fired factor marks the change unsafe
  quorum     \* the required roles, the policy and the verdicts offered

vars == <<node, text, change, refused, findings, own, tags, baseline, offer, plan,
          unsafe, risk, quorum>>

NoChange == [subject |-> "none", due |-> "none", actions |-> {}]
NoOffer == [for |-> "none", open |-> FALSE, against |-> {}]
NoPlan == [kind |-> "none", steps |-> {}]
NoRisk == [level |-> "none", unsafe |-> FALSE]
NoQuorum == [roles |-> {}, policy |-> "all", options |-> {}]

Init ==
  /\ node = "intake"
  /\ text \in Requests
  /\ change = NoChange /\ offer = NoOffer
  /\ refused = {} /\ findings = {} /\ own = {} /\ tags = {}
  /\ baseline = NoPlan /\ plan = NoPlan /\ unsafe = FALSE
  /\ risk = NoRisk /\ quorum = NoQuorum

\* The guard that lets an action through when its adapter, not the capability, is known.
Intake_KeepsAll ==
  /\ node = "intake" /\ node' = "impact"
  /\ \E parsed \in Parses(text, "clear") :
       /\ refused' = parsed.actions \ Served
       /\ change' = parsed
  /\ text' = NoText
  /\ UNCHANGED <<findings, own, tags, baseline, offer, plan, unsafe, risk, quorum>>

\* The request is parsed and each of its actions validated; with none left the
\* change is marked blocked, and the trial goes on.  A shield that cannot screen
\* the request ends the run.
Intake ==
  /\ node = "intake"
  /\ \E screening \in Screenings :
       \/ /\ screening = "failed"
          /\ node' = "failed" /\ UNCHANGED <<change, refused>>
       \/ \E parsed \in Parses(text, screening) :
            /\ node' = "impact"
            /\ refused' = parsed.actions \ Served
            /\ change' = [parsed EXCEPT !.actions = @ \cap Served]
  /\ text' = NoText
  /\ UNCHANGED <<findings, own, tags, baseline, offer, plan, unsafe, risk, quorum>>

\* The Prosecutor only adds: its own reads are evidence that carries no tag, a
\* tag it proposes counts when some pack knows it, and when it fails, or the
\* guardrail blocks what it would read, it proposes none.
Flagged(gathered, proposed) == gathered \cup (proposed \cap Vocabulary)

\* A system that cannot be read is passed over.
Impact_SkipsFailedReads ==
  /\ node = "impact" /\ node' = "options"
  /\ findings' \in Worlds(change)
  /\ \E down \in SUBSET SystemsRead(change) : \E proposed \in Proposals :
       /\ own' = Gathered({f \in findings' : SystemOf[f] \notin down})
       /\ tags' = Flagged(own', proposed)
  /\ UNCHANGED <<text, change, refused, baseline, offer, plan, unsafe, risk, quorum>>

\* The gatherer reads every system its subject needs, and one that fails ends
\* the run; so does a date in words that is compared with a dependent's day.
Impact ==
  /\ node = "impact"
  /\ findings' \in Worlds(change)
  /\ \E down \in SUBSET SystemsRead(change), dependents \in BOOLEAN :
       IF down # {} \/ (dependents /\ Unreadable(change) /\ change.subject = "launch")
       THEN node' = "failed" /\ UNCHANGED <<own, tags>>
       ELSE /\ node' = "options"
            /\ own' = Gathered(findings')
            /\ \E proposed \in Proposals : tags' = Flagged(own', proposed)
  /\ UNCHANGED <<text, change, refused, baseline, offer, plan, unsafe, risk, quorum>>

ValidDraft(draft) == draft # {} /\ Cardinality(draft) <= MaxSteps /\ draft \subseteq Writes

\* A plan whose kind goes with the steps that were drafted for it.
Drafted_AsFeasible(base, draft) == IF ValidDraft(draft) THEN Feasible(draft) ELSE base

\* One step that is no registered write rejects the whole draft, and a draft
\* keeps the kind of the plan it is drafted for.
Drafted(base, draft) == IF ValidDraft(draft) THEN [base EXCEPT !.steps = draft] ELSE base

BreachTag == "schedule.contractual_breach_risk"
ClashTag == "schedule.target_date_conflict"

\* The calendars in which the gatherer finds what it found; a date in words
\* compares, as text, like some day.
CalendarsWith == [found \in SUBSET DateFindings |-> {c \in Calendars : Sees(c, c.due) = found}]

CalendarsBehind(world) ==
  {c \in CalendarsWith[world \cap DateFindings] : c.busy # {} => "events" \in world}

\* Why the baseline of a launch names another day than the one asked for, whether
\* there was a day without that fault, and what the gatherer would hold against
\* the day it names.
OfferIn(c, world, fired) ==
  LET asked  == IF Dated(change) THEN c.due ELSE DueDefault
      cal    == IF "milestone" \in world THEN c ELSE [c EXCEPT !.old = OldDefault]
      breach == BreachTag \in fired
      day    == Proposed(cal, asked, breach, Breach(world), ClashTag \in fired)
  IN  [for     |-> IF breach THEN "breach" ELSE "clash",
       open    |-> IF breach THEN Breach(world) /\ c.sla # {} /\ HasWayOut(cal, asked)
                   ELSE \E d \in (asked + 1)..(asked + Tries) : "clash" \notin Sees(c, d),
       against |-> Against(c, asked, day)]

Offers(world, fired) ==
  IF change.subject = "launch" /\ fired \cap {BreachTag, ClashTag} # {}
  THEN {OfferIn(c, world, fired) : c \in CalendarsBehind(world)}
  ELSE {NoOffer}

\* Every path of plan_launch but the breach reads the day asked for.
NoDayToRead == change.subject = "launch" /\ Unreadable(change) /\ BreachTag \notin tags

Options ==
  /\ node = "options"
  /\ IF NoDayToRead THEN node' = "failed" /\ UNCHANGED <<baseline, offer, plan, unsafe>>
     ELSE /\ node' = "policy"
          /\ baseline' = Baseline(change, findings, tags, UnsafeTags)
          /\ offer' \in Offers(findings, tags)
          /\ plan' = baseline' \/ \E draft \in Drafts : plan' = Drafted(baseline', draft)
          /\ unsafe' = (unsafe \/ plan'.kind = "safe_alternative")
  /\ UNCHANGED <<text, change, refused, findings, own, tags, risk, quorum>>

-----------------------------------------------------------------------------
Governs(pack, actions, fired) ==
  actions \cap pack.capabilities # {} \/ fired \cap pack.tags # {}

Governing(actions, fired) == {i \in DOMAIN Packs : Governs(Packs[i], actions, fired)}
NoneGoverns(actions, fired) == Governing(actions, fired) = {}

\* The first pack that governs; the fallback when none does.
PackFor(actions, fired) ==
  IF NoneGoverns(actions, fired) THEN Fallback
  ELSE Packs[CHOOSE i \in Governing(actions, fired) :
               \A j \in Governing(actions, fired) : i <= j]

SamePack(actions, before, after) ==
  /\ NoneGoverns(actions, before) = NoneGoverns(actions, after)
  /\ PackFor(actions, before) = PackFor(actions, after)

FiredTags_NoSentinel(actions, fired) == fired
FiredTags(actions, fired) ==
  IF NoneGoverns(actions, fired) THEN fired \cup {Sentinel} ELSE fired

Fired(pack, fired) == {i \in DOMAIN pack.factors : pack.factors[i].tag \in fired}
Severities(pack, fired) == {pack.factors[i].severity : i \in Fired(pack, fired)}

\* The level of the last factor that fired.
Level_Last(pack, fired) ==
  IF Fired(pack, fired) = {} THEN "low"
  ELSE pack.factors[CHOOSE i \in Fired(pack, fired) : \A j \in Fired(pack, fired) : j <= i].severity

\* The most severe factor that fired; low when none did.
Level(pack, fired) ==
  IF "high" \in Severities(pack, fired) THEN "high"
  ELSE IF "medium" \in Severities(pack, fired) THEN "medium" ELSE "low"

MarksUnsafe(pack, fired) == \E i \in Fired(pack, fired) : pack.factors[i].unsafe
RequiredRoles(pack, fired) == {a.role : a \in {b \in pack.approvers : b.tag \in fired}}

\* The verdicts offered: an alternative to an unsafe change, the internal ones
\* for a high risk, the pack's own otherwise.
SelectOptions(pack, isUnsafe, level) ==
  IF isUnsafe /\ pack.whenUnsafe # {} THEN pack.whenUnsafe
  ELSE IF level = "high" /\ pack.whenHigh # {} THEN pack.whenHigh
  ELSE IF pack.default # {} THEN pack.default ELSE {"approve", "reject"}

Assess(actions, fired) ==
  LET pack == PackFor(actions, fired)
      all == FiredTags(actions, fired)
  IN [level |-> Level(pack, all), unsafe |-> MarksUnsafe(pack, all)]

Convene(actions, fired) ==
  LET pack == PackFor(actions, fired)
      all == FiredTags(actions, fired)
  IN [roles |-> RequiredRoles(pack, all), policy |-> pack.policy,
      options |-> SelectOptions(pack, MarksUnsafe(pack, all), Level(pack, all))]

Policy ==
  /\ node = "policy" /\ node' = "gate"
  /\ risk' = Assess(change.actions, tags)
  /\ quorum' = Convene(change.actions, tags)
  /\ unsafe' = (unsafe \/ risk'.unsafe)
  /\ UNCHANGED <<text, change, refused, findings, own, tags, baseline, offer, plan>>

Next == Intake \/ Impact \/ Options \/ Policy

Spec == Init /\ [][Next]_vars

-----------------------------------------------------------------------------
(***************************************************************************)
(* Properties.                                                             *)
(***************************************************************************)
Nodes == {"intake", "impact", "options", "policy", "gate", "failed"}
Kinds == {"feasible", "safe_alternative", "none"}
Judged == node \in {"options", "policy", "gate"}

\* The values the variables take.
TypeOK ==
  /\ node \in Nodes
  /\ text \in Texts /\ change \in Changes
  /\ plan \in [kind : Kinds, steps : SUBSET Served]
  /\ baseline \in [kind : Kinds, steps : SUBSET Served]
  /\ unsafe \in BOOLEAN
  /\ risk.level \in Levels \cup {"none"} /\ risk.unsafe \in BOOLEAN

\* A trial is judged on all its gatherer would find: a system that could not
\* be read ends the run instead of withholding its tag (gatherers.py:61-66,
\* "must not silently under-inform the decision").  The protocol the gatherers
\* implement still says the reverse (impact.py:22-23, a failed read "is skipped,
\* so evidence degrades gracefully"); the gatherers do not.
JudgedOnAllEvidence == Judged => Gathered(findings) \subseteq tags

\* The step of one set of tags to another that only escalates.
Escalates(pack, before, after) ==
  /\ Rank[Level(pack, before)] <= Rank[Level(pack, after)]
  /\ RequiredRoles(pack, before) \subseteq RequiredRoles(pack, after)
  /\ MarksUnsafe(pack, before) => MarksUnsafe(pack, after)

\* While they leave the change with its pack, the tags the Prosecutor flags
\* can raise the level and convene approvers, and never lower or remove one
\* (ADR-0016, "the bridge is additive-only").
FlagsOnlyEscalate ==
  node = "gate" /\ SamePack(change.actions, own, tags) =>
    LET alone == Assess(change.actions, own) IN
    /\ Rank[alone.level] <= Rank[risk.level]
    /\ Convene(change.actions, own).roles \subseteq quorum.roles
    /\ alone.unsafe => unsafe

\* A change no pack governs is put before the manager, whatever it asks for
\* and whatever the model drafted for it (the policy floor, ADR-0016).
UnknownAsksHuman ==
  node = "gate" /\ NoneGoverns(change.actions, tags) =>
    risk.level # "low" /\ "manager" \in quorum.roles

\* A refusal of the planner reaches the gate as one, whatever was drafted: the
\* plan is an alternative and the change stays marked unsafe.
RefusalStands ==
  node \in {"policy", "gate"} /\ baseline.kind = "safe_alternative" =>
    plan.kind = "safe_alternative" /\ unsafe

\* An action the guard rejected is in no plan, be it the planner's or the
\* model's (intake.py, "neither planned nor executed").
RejectedNeverPlanned == plan.steps \cap refused = {}

\* Without the model's tags, a change the policy finds unsafe is one the
\* planner has refused: what is offered as an alternative is one.
OwnEvidenceRefused ==
  node = "gate" /\ tags = own /\ risk.unsafe => plan.kind = "safe_alternative"

\* The day the planner offers in place of one that breaches has neither an event
\* nor the SLA nor the named freeze against it, when there is an SLA and a day of
\* its walk has none (plan_launch, "on or before the SLA, outside the freeze"), and
\* the one in place of a busy day is free if one of the next days is: the walks of
\* the planner and the comparisons of the gatherer agree on every day.
OfferHonours ==
  offer.open => offer.against \cap (IF offer.for = "breach" THEN DateFindings ELSE {"clash"}) = {}

\* The model never blocks a change of a scripted subject: if the guard refuses
\* all the actions of one, the change is the one the words alone give, and the
\* actions are those the words ask for (llm_backed.py, "never refuses a valid
\* change").  A change of a subject the model coined may be blocked, and a shield
\* that cannot screen the request ends the run with no change at all.
Blocked == refused # {} /\ change.actions = {}

ModelNeverBlocks ==
  [][node = "intake" /\ change'.subject \in Scripted /\ Blocked' =>
       LET words == ByKeywords(text)
       IN  change' = [words EXCEPT !.actions = {}] /\ refused' = words.actions]_vars

\* The inductive invariant behind these properties: what each node has fixed
\* by the time the next one runs.
EvidenceKept == Judged => own = Gathered(findings) /\ own \subseteq tags

OnlyServedKept ==
  /\ refused \cap Served = {} /\ (node = "intake" => refused = {})
  /\ change.actions \subseteq Served

RefusalKept ==
  /\ plan.kind = baseline.kind
  /\ plan.kind = "safe_alternative" => unsafe

JudgedOnTags ==
  node = "gate" =>
    /\ risk = Assess(change.actions, tags) /\ quorum = Convene(change.actions, tags)
    /\ risk.unsafe => unsafe

InductiveInv == TypeOK /\ EvidenceKept /\ OnlyServedKept /\ RefusalKept /\ JudgedOnTags

\* CLAIM docs/approval-policy.md:19-20 "a flagged tag can raise the level or
\* convene an approver, never lower or remove one".
FlagsNeverLower ==
  node = "gate" => Rank[Assess(change.actions, own).level] <= Rank[risk.level]
=============================================================================

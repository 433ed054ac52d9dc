# AI Change Court in TLA+

The AI Change Court puts a change requested in Microsoft 365 on trial before it
is executed: a pipeline gathers evidence, drafts a plan, classifies the risk and
derives who must approve; people then decide at a gate; what they decide is
executed step by step on the connected systems and written to an append-only
audit log. This directory models the part of the backend that decides and acts
(`src/backend/app`), checks it with TLC and proves its main properties with
TLAPS. File names below are relative to `src/backend/app` unless they start
with `src/`, `docs/` or `tests/`.

To parse, check and prove: `tlasany M.tla`, `tlc -workers 2 -config X.cfg M`,
`tlapm XProofs.tla`. `PROJECT.json` lists the components, the runs with their
properties, a mutant for each property, the source lines each definition stands
for, the hazards and the theorems.

## 1. The system

| Component | State | Operations | Interacts with |
|---|---|---|---|
| Court service (`services/court_service.py`) | none of its own; reads and writes the four stores below | submit, cast a verdict, send for approval, withdraw, decide, acknowledge, list pending | called by the MCP tools and the bot, calls the runner, the ledgers, the notifiers |
| Approval rules (`domain/approval.py`, `services/approver_directory.py`) | the directory of roles (configuration) | same person?, roles of a person, may vote?, quorum reached? | pure, called by the service |
| Surfaces (`bot/court_bot.py`, `mcp`, `presentation/cards.py`) | the bot's memory of activities | verify a token, name the caller, offer buttons, route a button or a tool | call the service as one of two principals of the same person |
| Runner and graph (`agent/runner.py`, `agent/graph.py`) | the checkpoint of each thread (langgraph), worker threads | start, resume, advance, update, each under a wall-clock budget | runs the nodes, saves after each |
| Parsers (`adapters/parsers`) | none | words to a subject, actions and dates; by keywords, or by the language model with the keywords to fall back on | called by intake |
| Intake, impact, options, policy (`agent/nodes`, `agent/gatherers.py`, `agent/planners.py`, `agent/agentic`, `agent/policy_rules`) | fields of the checkpoint: change, impact, options, risk, quorum | one pass up to the gate | read the systems, ask the model, interpret the rule packs |
| Execute node and adapters (`agent/nodes/execute.py`, `adapters/integrations`) | results and status; the external systems | snapshot, predict or write a step, retry, contain errors | writes to GitHub, Outlook, Teams, SharePoint |
| Verify and audit nodes | verifications; audit record and precedent | compare, record | audit repository, precedent memory |
| Stores (`adapters/persistence/repositories.py`) | audit log, verdict claims, approval events and pending index, run events, conversations, precedents | one committed transaction per operation | shared by all of the above |
| Run page (`api/runs.py`, `api/static/run.html`) | the page's cursor | poll | reads the run events and the trial |
| Notifiers and sender (`adapters/notifiers`, `bot/proactive.py`) | the queue of cards | tell over the feed, the cards and the webhook | called by the service |
| Maintenance (`services/maintenance.py`) | none | purge finished trials | deletes checkpoints, claims, queue rows |

Model clients, signed links, logging, wiring and deployment are listed in
`PROJECT.json` with the reason they are left out.

**What runs concurrently.** One replica (`src/infra/main.tf`), one event loop,
synchronous service calls: calls never overlap. What breaks the sequence is the
wall-clock budget of a graph run (`config.py`, 60 s): on expiry the call fails
and its worker thread goes on. The process may die between any two commits and
restarts from the database. The purge is a process of its own; it deletes
checkpoint, claims and queue row in separate commits.

**What is hard here.** Three routes to the same conclusion (vote, cast,
self-confirmation) callable in any order by anybody, through two surfaces that name
the same person differently and from cards that stay in a chat while the trial moves
on; permanent records in four stores that are committed one by one; a worker that
outlives its call; retries of writes that may have landed; evidence, plan and policy
each deciding on tags by its own list, with a language model that parses the request
and adds to all three; walks over days that have to agree with the comparisons that
started them.

What makes each component correct: the service keeps requester and voters apart,
runs a plan at most once and only with authority, and records what happened; the
cards lead to the calls the service takes; the execute node repeats no unrepeatable
write, answers every step and can undo what it did; the pipeline judges on complete
evidence, lets the model escalate only, keeps refusals, offers days that hold, and
puts the unknown before a human; the run page shows a prefix of what happened, in
order; notifications say what happened, to whom it concerns.

## 2. Modules

| Module | Stands for | Extends / instantiates |
|---|---|---|
| `ApprovalRules` | principals, directory, authorisation and quorum | |
| `Verdicts` | verdict types, what each runs, the terminal statuses | |
| `Court` | the service: one action per call, atomic; the purge, commit by commit | the two above; implements `TrialRecord` |
| `TrialRecord` | abstract: a trial is opened and concluded once; steps run in the conclusion or never | |
| `Callers` | tokens and activities: who is let in, and as which principal | `ApprovalRules` |
| `Surfaces` | cards and tools in front of the court: buttons, stale cards, the people behind the principals | `Court`, `Callers` |
| `CourtFaults` | the same calls, commit by commit, with workers, budgets, failing nodes and deaths | `ApprovalRules`, `Verdicts` |
| `CourtCalls` | the refinement: while no fault happens, `CourtFaults` implements `Court` | `CourtFaults`, instance of `Court` |
| `Execution` | the execute node over the adapter template | `Verdicts` |
| `Systems` | the adapters: what a write leaves in its system, hints, refuses and answers; the verify node | |
| `RulePacks` | the rule packs and the vocabulary, as data | |
| `Scenarios` | gatherers and planners, subject by subject | `RulePacks` |
| `Parsing` | the two parsers | `Scenarios` |
| `LaunchDates` | the comparisons and the walks over days, as pure operators with their reference | |
| `Deliberation` | intake, impact, options, policy | `Parsing`, `LaunchDates` |
| `RunLog` | the run-event log, the workers that write it, the run page that polls it | |
| `Delivery` | the bot's turns, the service's notices, the three channels, the proactive sender | |
| `CourtProofs`, `SurfacesProofs`, `CourtFaultsProofs`, `ExecutionProofs`, `SystemsProofs`, `DeliberationProofs`, `RunLogProofs`, `DeliveryProofs` | theorems | each the module it is named after; `SurfacesProofs` extends `CourtProofs` too, `CourtFaultsProofs` extends `CourtCalls` |
| `MCCourt`, `MCFaults`, `MCExecution`, `MCSystems`, `MCDeliberation`, `MCRunLog`, `MCDelivery` | instances for TLC | |

**Court.** A trial's variables are the checkpoint (`next`, `status`, `mode`, `by`,
`quorum`), its approval events, its row in the pending index, its claims with the
audit id recorded for each, its audit records, and what its requester was told.
Each call is one action with all that it does: the append, the resume through
execute, verify and audit, the status update after it, the queue row, the claim's
result and the notification. A call that raises changes nothing and is not an
action; one that raises halfway does not exist at this grain (that is
`CourtFaults`). The result of the plan is a choice between done and failed. The
status written by `withdraw_change` and by a rejecting `decide` overwrites what is
there, and the model does the same. The purge is the one thing here that is not
atomic, because it is another process: `PurgeCheckpoint`, `PurgeClaims` and `PurgeRow`
are its commits, with calls between them; a pass that died leaves what it had not
deleted, since only a trial with a checkpoint is a candidate again. How old a
trial must be is only when it may start.

**Callers and Surfaces.** A token is what `mcp/security.py` looks at: by whom it is
signed, issuer, audience in its two spellings, expiry, scopes in their three places and
the identity claims; `Admitted` is what the server lets in and `TokenPrincipal` whom it
takes the caller for. An activity gives `SenderPrincipal`, which never has a UPN. An
account is the person behind both; only the properties know it. `Surfaces` restricts
the calls of `Court` to what the bot's buttons and the tools can make: the bot casts
nothing and acknowledges nothing, and any button may be pressed at any time, since a card
stays where it was sent. `TrialCard`, `CardOf` and `Buttons` are what the cards show of
the trial. The idempotency key is chosen by the tool's caller.

**CourtFaults.** One trial. A call is a record in `call` that moves through its
commits (`log`, `resume`, `launch`, `wait`, `settle`, `hold`, `enqueue`,
`dequeue`); a graph run is an entry of `workers` with the state it holds in
memory, written to `saved` after each node, so that a worker that outlived its
call overwrites later updates, as the checkpointer does. `Expire`, `NodeFails` and
`Crash` are the faults. The history variables `submitter`, `runs`, `timeouts` and
`losses` only observe. Analysis-only trials and the purge are left to `Court`.

**Execution.** The loop of `execute.py` and the template of `base.py` as a program
counter: `gate`, then for each step `start`, `before` (the snapshot), `predict`
or, for some capabilities, `lookup` and then `write`. A request fails in one of the
four ways the retry policy tells apart; a failed write may have landed unless the
connection was refused. `landed` counts the writes that reached the system in this
run, `earlier` those of runs that died. `Rerun` is the death of the worker: the
graph enters the node again from the checkpoint before it, with any verdict a later
resume brings.

**Systems.** One operator per adapter gives what a write comes to: the system after it,
whether it raised, its hint, and the parameters its answer repeats at the top level,
where the verify node looks. Systems hold records that are overwritten (due dates,
announcements), lists that grow, and tasks. `ExecuteStep` is a live step of a plan whose
requests all arrive; `Verify` compares; `Undo` is a person following the hints of the
applied steps, last one first, since no code ever does. A parameter is reduced to the
key and the value the hints depend on: a name, a number of days or a date, where `None`
(no date) and `Moment` (a date with a time, which the catalog's `format: date` admits
and a shift cannot read) are values of their own. `IsStep` says what the closed catalog
lets through, `WorldStates` what the systems can hold; both are assumed of the
constants. GitHub may keep another due date than it was sent; the failure a test may
inject into the planner is a choice of each plan.

**Parsing, LaunchDates, Deliberation.** A text is the set of the synonym groups it has
a word of and the kinds of date it mentions; `ByKeywords` is the deterministic parser
and `Parses` adds any answer of the model, with the fallback that replaces it when no
action of it is usable. What the prompt shield makes of the request comes first: one it
flags is left to the keywords, and one it cannot screen has no parse, so that intake and
the run fail and the caller gets an error. The scenario is in `findings`, the facts the systems would show;
each gatherer maps them to tags, each planner maps tags and findings to a plan, and
the policy node interprets the packs. Any of the systems a subject reads may be
down. The Prosecutor may propose any of the given sets of tags, the Defender any of
the given drafts. For a launch the findings about days are those of some calendar
(`CalendarsBehind`): milestone, day asked for, SLA, freezes, events, dependents and
their buffers; `offer` keeps why the planner names another day, whether a day without
that fault existed, and what the gatherer would hold against the one it names. The
walks `_latest_safe_day` and `_next_free_day` are written as the set of days they may
stop at, and the reference `Against` and `HasWayOut` as the gatherer's comparisons.
Texts, citations and drivers are abstracted away.

**RunLog.** One trial again, seen from its event log. A worker reads the maximum
(`ReadMax`) and inserts (`Insert`) in two steps; the unique constraint refuses a
number that is taken, and the sink tries twice. `StoreFails` is any other failure of
the store, which the sink swallows; `NodeFails` an exception of the node, after which
the wrapper still writes its last event. A call holds the event loop until its worker
is through (`Return`) or its budget is spent (`Expire`); only then is a poll served,
and a poll reads the log (`ListAfter`) before the checkpoint (`ReadState`) while the
workers go on. The statuses are reduced to open, blocked and concluded; the events of
single steps are the subject of `Execution`.

**Delivery.** A turn (`Arrive`) is one action: the reference is captured, the id is
looked up in the memory of the bot, the service acts, its notice goes through the
channels, and the cards become callbacks of the loop. The four notices are the request
to the approvers, the decision and the analysis to the requester, and the
acknowledgement to those who decided (`TellDeciders`, over `voters`). The post to the
activity feed may fail between any two recipients; `packets` is what was posted to the
evidence webhook, with the trial as it read then. `Put`, `Take`, `Land` and
`Drop` are the sender's way through callbacks and queue, `Stop` is the shutdown,
`Restart` a death, which empties all but the conversation store. Quorums are `Court`'s;
here a vote may or may not conclude the trial.

## 3. Runs

| Run | Instance | What it shows |
|---|---|---|
| `court` | one trial, live or analysis, through bot and tools (`SurfaceSpec`); a requester on both surfaces and in the directory, an approver with one role over the tools and one with two in the bot; three tokens that are not admitted; quorums none, any, all; two idempotency keys; the purge at any time | nobody is on both sides, authority of runs, decisions take effect, the cards lead on, the queue shows who waits, nothing announced early, analysis inert, one audit record, claims that name it until the checkpoint is purged, and the refinement of `TrialRecord` |
| `faults` | five calls and faults in all, at most two expired budgets and two deaths or failed nodes, at any commit | runs are backed by authority, bounded by the faults and each on record; records are true; the stamped requester is kept apart; while no fault happens the calls commit by commit implement the atomic ones; liveness: a run reaches the record |
| `execution` | three plans over seven capabilities, one of each kind the template tells apart; three attempts; one death | no double write, all steps answered, hints that restore, events that match, and the node ends |
| `systems` | every plan of at most three steps from twenty, over all mocks and over all real adapters; dated and undated tasks, a missing milestone, refused parameters, an injected failure | the hints, followed back, restore every state the systems were in; a failed step changed nothing, but for a shift that stops half way |
| `deliberation` | the built-in packs; ten groups of words with every mix of dates; a shield that clears, flags or fails; any answer of the model over seven subjects and four actions; calendars of four days; every known tag flagged alone, pairs and an unknown one; good and bad drafts | the guard blocks no more of a scripted subject than the words would, complete evidence, escalation only, refusals kept, the guard's rejections kept, the floor, offered days that hold |
| `run_log` | a node before the gate and one behind it, three graph runs of which two at a time, one refused write | rows numbered in the order of their commits, a page that skips and repeats nothing, events lost to rivals only, and an open page catches up |
| `delivery` | three activities, six deliveries, a memory of two, one death, a shutdown, an analysis, an acknowledgement | nothing remembered is acted upon again, every notice has its cards and its packet whatever the feed did, no card stays behind |

One trial is enough: no call reads or writes the state of another trial, and the
theorems about `Court` hold for any set of them. Two keys are a cast, its repeat,
and a second cast after the trial ended, by this or another route; the theorems of
section 4 hold for any number. Two roles tell any from all; the four callers of `court`
are three people, of the kinds the rules distinguish (requester, one role, both roles),
one of them on two surfaces. In `faults`
the calls and the faults together are at most five, of which at most two expired
budgets and two deaths or failed nodes, between any two commits: enough for a
submission, a vote or cast whose worker is abandoned, its repeat and the call after it,
and, without a fault, for a submission, a send, two votes and one call after the end.
Its quorums are nobody and all of two roles, one approver holding both: either one vote
decides, or it takes two. `systems` takes plans of three steps, since a hint can be
spoiled by a step before it and by one after it. In `deliberation` the walks go three
days and two (60 and 14 in the code): `Horizon` and `Tries` are constants of
`LaunchDates`, the calendars have days inside and outside both walks, with and without a
way out, and the default SLA and days of the code become days of this calendar; theorem
`OffersHonour` holds for any of them. In `run_log` two workers write at a time
and three are started, since a lost race needs a worker that outlives its call and one
that a resume starts after it; one refused write leaves one number free. The memory
of the bot in `delivery` holds two ids of three activities, so that one is forgotten
and may be delivered again; six deliveries are every activity twice. `MaxAttempts` is the
default of `config.py`. Three steps have one before and one after any step. There is
no symmetry: the people and roles of the instances differ in what they may do.
Deadlock is not checked: a trial that is over may stay as it is.

**Fairness.** Four runs state liveness, each under weak fairness of what the
program itself carries on, and none of people or of faults. `faults`: the event loop's
current call and each worker, which Python runs to their end (nodes have client
timeouts); a death is an accepted outcome. `execution`: the loop of the node, with
deaths bounded by `MaxReruns`. `run_log`: each worker, the two reads of a poll, and
strong fairness of `Receive`: not every answer to the page is lost. `delivery`: the
loop runs its callbacks and its sender, and a send ends one way or the other.

### Divergences with a run of their own

| Run | The repository says | The code does |
|---|---|---|
| `withdraw_after_run` | withdraw_change: "terminal and audited, nothing executes" | a trial that was executed can be withdrawn, and then reads withdrawn |
| `told_rejected` | the notification carries "what actually happened" | a cast accept_alternative runs its plan and is announced as rejected |
| `resumed_twice` | `agent/runner.py`: resume is idempotent | after an expired budget the checkpoint still stands before execute, and a second resume runs the plan again |
| `mismatch_unseen` | ADR-0009, decision 4: the verify node compares the requested params with the reported after-state | both GitHub adapters answer a moved milestone as an object, which is skipped: another date than the one asked for reads matched, with nothing checked |
| `flag_lowers` | `docs/approval-policy.md`: a flagged tag can never lower the level | a flag of another pack can change which pack governs, and lower it |

### Divergences met while modelling, without a run

The service and its stores:

- `request_revision` runs nothing and is recorded as done (`execute.py:81`).
- A claim whose call died or timed out has no result; the same key is answered
  without an audit id for ever (`court_service.py:238`).
- `send_for_approval` does not look at the status: a concluded trial can get a
  row in the queue again, which nobody clears.
- A process that dies between a vote and the resume leaves a decided trial at the
  gate; a repeated click appends nothing and so does not resume it.
- When the start of a trial times out, its requester is never stamped, and its
  submitter may vote.
- An approver may cast withdraw; one cast is enough under an all-roles quorum; an
  approver may decide before the requester sent the change.
- A purge that dies between its commits leaves the claims and the queue row of a
  trial that is no candidate any more, although `maintenance.py:63` promises "no
  orphaned queue rows".

- The status reads done from the execute node on, before there is a record: when the
  budget of a resume expires between the two, `acknowledge` takes the outcome as concluded
  (`court_service.py:407`) with nothing in the audit log yet.

Surfaces and cards:

- A requester whom the directory lists by UPN is asked, through the bot, which sends
  no UPN, to approve their own change; an approver listed by UPN has no roles there.
- The bot's cards offer no withdrawal once the change was sent, and no acknowledgement.
- The "Blocked" banner (`cards.py:216`) never shows: `submit_change` overwrites the
  status with the requester's review.
- The result card of an accepted alternative says "Safe alternative executed" also when
  its run failed (`cards.py:304`).
- An approver who already voted sees an Approve button that changes nothing.

Pipeline:

- `llm_backed.py:5` says the parser "never raises". It screens the request before its `try`
  (line 95), and the Azure shield raises when it cannot screen
  (`azure_content_safety.py:58`, wired in `container.py:302`): intake fails and the trial
  with it, although the keywords could have parsed it. `ports/guardrail.py` asks for the
  loud failure; the Prosecutor and the Defender screen inside their `try` and fall back.
- `Gatherer` (`agent/nodes/impact.py:22`) says a failed read "is skipped, so evidence
  degrades gracefully rather than aborting the node", and the comment at line 75 names it
  as an example. The gatherers' `_read` (`gatherers.py:61`) raises, "must not silently
  under-inform the decision", and the trial ends. `JudgedOnAllEvidence` states what the
  code does.
- A launch without a date asks for a move to no date, which the guard refuses: the
  request is marked blocked and goes on. `llm_backed.py:133` calls such a parse well
  formed.
- A date the model gives in words is not validated; the comparison with a dependent's
  day, or the planner, raises on it and the trial ends.
- The launch planner's way out ignores the go-live buffers, although
  `planners.py:132` says it honours them; it knows only the freeze the asked day is in;
  without an SLA it assumes one; without a safe day it offers the day after the old
  one under the same rationale; and the replacement for a busy day may pass the SLA or
  enter a freeze.
- A breach the model alone flagged comes without the facts of one.
- A medium risk may have an empty quorum (`customer_promise` with blocking issues
  only), which the requester's own send executes; a low one may require approvers.
- A governed change with no fired factor is low whatever else it contains; the policy
  reads the requested actions, not the steps of the plan.
- A request whose every action was rejected is marked blocked and goes on; the
  launch subject still gets its rescheduling plan.
- Two dependents of one system already make the breach that is documented as one
  constraint per system (`gatherers.py`).

Execution and systems:

- A node rerun after a death takes a new snapshot, so its rollback hint restores the
  state already changed; with a rejecting verdict in between, a trial whose step
  landed is recorded as rejected.
- A shift of task dates stops at the first task without a plain date, with the tasks
  before it already moved; the step reads failed, and its hint, followed, would shift
  back what was never moved (`mock_planner.py:103`). A failed step has a hint in general,
  which must not be followed if its write never landed.
- The hints of appended entries are lengths of lists (`mock_github.py:160`): followed
  after another trial appended to the same list they take its entries too.
- The mock creates a milestone it does not know, and its hint restores nothing; the real
  adapter refuses it.
- A dry run predicts each step of a plan from the state before the whole plan.
- `ExecutionStep.depends_on` is never read by the execute node.

Run page and notifications:

- The run page stops polling at the first terminal status, which the checkpoint shows
  before verify and audit ran (`api/static/run.html`).
- An event that lost two races is given up without a word, although
  `repositories.py:194` says the constraint turns a race "into a loud failure".
- A node that raised still emits `node_finished`; blocked ends the page although the
  pipeline goes on.
- Polls are served only while no call waits for its graph run, although ADR-0011 has
  a concurrent poll observe the run mid-flight.
- An activity is remembered before it is answered: a turn that raised, or whose reply
  was lost, is dropped when it is delivered again, although `bot/court_bot.py:246` has
  the card "already sent once".
- A failed post to the feed leaves the recipients after it untold in that channel.
- `ConversationStore.get` is documented as indifferent to the case of an object id;
  `save` keeps the case it was given.

## 4. Proofs

All theorems hold for every value of the constants that satisfies the named
assumptions of the modules.

**`CourtProofs`** (assumptions: quorums name roles; a principal has its three
fields; the directory covers the roles; `NoRole` and `NoKey` are outside their sets). `TypeCorrect` is proved first.
The safety properties are not inductive one by one: that a run was authorised rests
on the log not being decided while the trial waits (`OpenAtGate`), and that on who
may append to it (`DutiesSeparated`). `Sound` is their conjunction per trial with
`OneRecord` and `Unconcluded` (nothing is logged before the submission; at the gate
the status is one of the two that wait). A frame lemma reduces each call to its own
trial, one lemma per call shows that the call keeps `Sound`, and `Soundness` joins
them. `SeparationOfDuties`, `ExecutionAuthorised`, `DecidedNeverWaits` and
`AuditedOnce` are its parts. `CourtImplementsTrialRecord` uses `OneRecord` to show
that a call either concludes the abstract trial, opens it, or leaves it alone: the
refinement mapping reads the fate off the audit log only.

**`SurfacesProofs`** (assumptions: principals are callers the surfaces admit;
`TenantAssumption`: an activity and every token the server admits carry the object id of
their account, which is true of tokens Entra signs; the local development issuer keys on
`sub`, so the theorem says nothing of it). Its first section carries what `Sound` does
not: that queue row, status and the requester's send agree (`Queued`), that a claim's
result is the audit id (`ClaimsNamed`), that an acknowledgement or a notice has a record
behind it (`Said`). Their conjunction `Steady` is inductive together with `Sound`; the
purge is why each part says how long it holds, since it takes checkpoint, claims and row
in that order. `QueueIsTrue`, `OutcomesOnRecord`, `AnalysisStaysInert` and
`ClaimsAreTrue` follow. Then the surfaces: `SurfacesStayInCourt` makes every theorem
about `Court` one about the bot and the tools. `SameAsIsSamePerson` shows that two faces
of an account are the same person to the approval rules and faces of different accounts
are not; with `Sound` that gives `PeopleStaySeparated`. `CardsLeadOn` needs `Sound` (who
may append to the log of a trial that waits) and `Steady` (a sent trial has its row): whoever
holds a role that nobody has approved in yet, and did not ask for the change, finds the trial
in their queue and has an approval to give.

**`CourtFaultsProofs`** (the assumptions of `CourtProofs`, bounds that are numbers).
`FaultInv` has five parts. `Typed`. `Shape`: where the call, the workers and the
checkpoint can stand to one another, among others that a deliberating worker is alone and
that the checkpoint never falls back before the gate once a worker behind it has saved.
`Sound`: every verdict on its way to the execute node, in a call, in the checkpoint or in
a worker, is already backed by a claim or by the log (`Backing`), no state has results
without a run (`Results`), and the requester of the checkpoint is the submitter, who has
no vote (`Stamps`); claims and approvals are only ever added, so backing is never lost. `Counted`: the runs made, those a
worker is about to make and the one an open checkpoint still allows are at most one more
than the faults. `Recorded`: the runs without a record are in the hands of a worker,
while nothing was lost. The six safety properties of the run `faults` follow,
`RunsBounded` from the count without a cap on how many calls or faults there are.

Its second half is the refinement, `CallsMakeOneAction`: while no budget expired, no node
failed and nothing died, the commits of a call are together one action of `Court`. The
mapping shows the trial as it was before the call until the call ends (`before`), so the
proof is about how far a call has come since. `CallInv` says it of every point of a call:
`before` is a trial at rest, whoever works works for this call, and the stores differ from
`before` by what the call has done so far and by nothing else: the votes and claims it
appended (`Begun`, `Kept`), the verdict it folded them into (`Folded`), and of the run
the commits that lie behind the worker (`Changed`). TLC found it invariant on the
instance of the run `faults` before it was proved. One lemma per commit
(`...Simulated`) keeps it, one per call (`AtomicCast`, `AtomicDecide`, ...) turns what
the last commit has added up to into the action of `Court`, and bridges relate the
operators of the two modules. `FaultFreeIsCourt` draws the conclusion: what is proved
of `Court` call by call holds of the code commit by commit, between calls, where nothing
fails. The first expired budget ends that, and `Sound` and `Counted` are what remains.

**`ExecutionProofs`** (assumptions: plans are sequences of capabilities; at least
one attempt; an update that is not a notification is repeatable, the naming
convention of ADR-0005). `InductiveInv` says where the loop is (`LoopInStep`), what
it may do there and with which snapshot (`StepInBounds`), what the steps behind, at
and ahead of it can have left (`WritesInBounds`) and what the answers say
(`AnswersTrue`). The heart is that before a request that is not repeatable is sent
again nothing of it has landed, which holds because its class retries refused
connections only. `PageAgreesWithRecord` has an invariant of its own over it: the last
event of an answered step carries the status of its result (`ShownInv`).

**`SystemsProofs`** (assumptions: `None` and `Moment` are no numbers; the steps of the
plans are of the catalog; the systems hold what `WorldStates` says). Per adapter one
lemma shows it `Honest`: a write that raised changed nothing, or is a shift stopped half
way; one that did not left a hint that takes the systems back to exactly where it found
them. `SystemsInv` keeps that for every result on record, between the states before and
after its step, and says where the systems are while the hints are followed
(`BackThere`). `HintsRestore` and `FailuresAreClean` follow for plans of any length.

**`DeliberationProofs`** (assumptions: `Replies` are changes; the packs are a list; the
sentinel fires a factor of the fallback and convenes the manager; the planners'
steps are served). The packs are a constant: the theorems hold for any catalog,
including one loaded from a file. `MoreTagsEscalate` is the monotonicity of level,
roles and unsafe flag in the tags for one pack. `AdditiveWithinAPack` is therefore
stated for flags that leave the governing pack alone; without that condition the
documented claim fails, which is the run `flag_lowers`. `ModelBlocksNothing` is
about the guard of intake and the scripted subjects only: where nothing is left of a change,
it is the keywords' parse of the same text, refused all of the actions that the words ask
for, whatever the model answered. A subject the model coined may be blocked, and a run whose
shield cannot screen ends before the guard; the theorem says nothing of either. `OffersHonour` holds
for any calendars: the day a walk stops at is, when it exists, one the gatherer has
nothing against. `UnsafeIsRefused` is the one theorem about the catalog's content: an
unsafe factor of the policy and the refusal of a planner are written in two places, and
agree only if every tag an unsafe factor is on is one that the planner of the subject whose
gatherer finds it refuses on. Its hypothesis `RefusesOnlyOn` names those four tags; a pack
from a file that marks another tag unsafe does not satisfy it, and if a gatherer finds
that tag the property is false of it. `BuiltInUnsafeIsRefused` shows that the packs the program ships
satisfy it. The invariant it adds is that the baseline stays the one planned on what was
found (`PlannedOnFindings`).

**`RunLogProofs`** (assumptions: the nodes are named; the workers are finitely many).
`LogIsNumbered` says that the rows of a run carry 1, 2, 3, ... in the order of their
commits, for any number of workers. The invariant behind it is small: a maximum that was
read may be overtaken and is never undone (`ReadsInLog`), so a number that is free when
it is inserted is the next one. `PageSkipsNothing` rests on it: of a log numbered like
that, the rows past a cursor are a stretch of it that starts right after the cursor
(`RowsPast`), and `PageInv` says so of what the page has been sent, which stays true while
others append. `LostOnlyToRivals` needs to know who wrote which row, which no variable
says: its invariant (`RivalsInv`) asserts that authors can be given to the rows, and rows
of others to the workers to blame (`Blame`), two for each event given up and one for each
worker on its second try. A try fails only when some row has come between the read and
the insert, the worker has written none of those itself, and none of them is blamed by it
yet, so there is a new one to blame; each worker can blame each row of others once, which
is the bound.

**`DeliveryProofs`** (`DeliveryAssumption`: the approvers are people, the requester not
among them, activities are well formed, the memory holds at least one id).
`OthersAreTold` shows for any number of people and notices that no channel depends on
another (`ChannelsInv`: what is in flight is a job, and whoever was to be told has a card
or a packet). `RedeliveriesDropped` is about the bot's memory: `MemoryInv` says that what
is remembered are the last ids that arrived, in the order of their last arrival, as many
as fit, which moving an id to the end keeps whichever part of the order it was in
(`ArrivalRemembered`); an id that is not remembered then has a whole memory of others
behind it (`ForgottenLongAgo`).

**Only model-checked:**

- the liveness properties (`RunReachesRecord`, `Finishes`, `PageCatchesUp`,
  `EveryCardSettles`): fairness is out of the prover's reach.

Every safety invariant and every action property that a passing run checks is a theorem.
The five runs that expect a violation stay with TLC, whose counterexamples they are.

## 5. Not modelled

- Pure I/O and rendering: model clients and prompts, layout and wording of cards, signed
  links, logging and counters, manifests, infrastructure, demo scripts. They keep no
  state that a decision reads.
- Signatures and key retrieval of tokens are the library's; `Callers` starts from who
  signed.
- The rule-pack loader and the composition root run once, at start-up; what they
  produce are the constants of the models.
- Precedents are written after the record and read as advice: nothing branches on them.
- Which systems the agentic gatherer selects for its own reads: they carry no tag.
- Payloads, citations, drivers and rationales: no property here tells them apart.
- A purge that commits while a call is running: in `Court` its commits fall between whole
  calls, and `CourtFaults` has no purge.
- The retention age: the purge of `Court` may start as soon as a trial is audited,
  which is more than the 30 days allow.

------------------------------- MODULE Court -------------------------------
(***************************************************************************)
(* The change court as its callers see it: services/court_service.py over  *)
(* the runner's checkpoint, the approval ledger with its pending index,    *)
(* the verdict ledger and the audit log.                                   *)
(*                                                                         *)
(* The service's entry points are synchronous functions run one at a time  *)
(* on the event loop of the only replica, so while every graph run ends    *)
(* within its budget and the process does not die, a whole call is one     *)
(* action here.  CourtFaults takes the calls apart.                        *)
(***************************************************************************)
EXTENDS ApprovalRules, Verdicts, Sequences

CONSTANTS
  Trials,       \* thread ids; each is submitted at most once
  Modes,        \* the run modes submitted in this instance
  PolicyQuorums,\* the quorums the policy node derives in this instance
  Keys          \* idempotency keys callers of cast_verdict use

ASSUME ModesAssumption == Modes \subseteq {"dry_run", "live", "analyze"}
ASSUME QuorumsAssumption == PolicyQuorums \subseteq Quorums

NoKey == "no_key"    \* the verdict key of decide/send/withdraw: never claimed
ASSUME NoKeyAssumption == NoKey \notin Keys

VARIABLES
  next,      \* where the checkpoint stands: absent, execute (gate), end, purged
  status,    \* the state's status field
  mode,      \* the state's run mode   (these three outlive a purge, as
  by,        \* change.requester        part of the trial that the audit
  quorum,    \* the state's quorum       record keeps)
  events,    \* approval ledger: the trial's events
  pending,   \* approval ledger: the pending index
  claimed,   \* verdict ledger: keys claimed
  recorded,  \* verdict ledger: audit id recorded per key, 0 for none
  audit,     \* audit log: the trial's records, an id is the position
  told       \* outcomes the requester was notified of

vars == <<next, status, mode, by, quorum, events, pending, claimed, recorded,
          audit, told>>

checkpoint == <<next, status, mode, by, quorum>>
ledgers    == <<claimed, recorded>>

-----------------------------------------------------------------------------
(***************************************************************************)
(* Verdicts as the trial records them.                                     *)
(***************************************************************************)

Verdict(type, actor, key) == [type |-> type, actor |-> actor, key |-> key]
NoVerdict == Verdict("none", NoPrincipal, NoKey)

Verdicts ==
  [type : VerdictTypes \cup {"none"}, actor : Principals \cup {NoPrincipal},
   key : Keys \cup {NoKey}]

\* An audit record keeps the verdict, the status, and whether steps were run.
Record(verdict, s) ==
  [verdict |-> verdict, status |-> s, executed |-> verdict.type \in Approving]

AuditRecords == [verdict : Verdicts, status : Terminal, executed : BOOLEAN]

-----------------------------------------------------------------------------
Init ==
  /\ next     = [t \in Trials |-> "absent"]
  /\ status   = [t \in Trials |-> "none"]
  /\ mode     = [t \in Trials |-> "none"]
  /\ by       = [t \in Trials |-> NoPrincipal]
  /\ quorum   = [t \in Trials |-> [required |-> {}, policy |-> "all"]]
  /\ events   = [t \in Trials |-> {}]
  /\ pending  = {}
  /\ claimed  = [t \in Trials |-> {}]
  /\ recorded = [t \in Trials |-> [k \in Keys |-> 0]]
  /\ audit    = [t \in Trials |-> <<>>]
  /\ told     = [t \in Trials |-> {}]

-----------------------------------------------------------------------------
(***************************************************************************)
(* The runner.                                                             *)
(***************************************************************************)

AtGate(t) == next[t] = "execute"

\* Mutant of Resume: only an approving verdict drives the graph on.
Resume_ApprovingOnly(t, verdict, s) ==
  IF AtGate(t) /\ verdict.type \in Approving
  THEN /\ s \in TerminalStatuses(verdict.type)
       /\ next' = [next EXCEPT ![t] = "end"]
       /\ audit' = [audit EXCEPT ![t] = Append(@, Record(verdict, s))]
  ELSE /\ s = status[t]
       /\ UNCHANGED <<next, audit>>

\* Mutant of Resume: the graph is invoked whether or not it is past the gate.
Resume_Unguarded(t, verdict, s) ==
  /\ s \in TerminalStatuses(verdict.type)
  /\ Len(audit[t]) < 2
  /\ next' = [next EXCEPT ![t] = "end"]
  /\ audit' = [audit EXCEPT ![t] = Append(@, Record(verdict, s))]

\* resume: past the gate nothing happens; at the gate the verdict is recorded
\* and execute, verify and audit run.  s is the status the caller reads back.
Resume(t, verdict, s) ==
  IF AtGate(t)
  THEN /\ s \in TerminalStatuses(verdict.type)
       /\ next' = [next EXCEPT ![t] = "end"]
       /\ audit' = [audit EXCEPT ![t] = Append(@, Record(verdict, s))]
  ELSE /\ s = status[t]
       /\ UNCHANGED <<next, audit>>

SetStatus(t, s) == status' = [status EXCEPT ![t] = s]

Log(t, es) == events' = [events EXCEPT ![t] = @ \cup es]

Tell(t, outcome) == told' = [told EXCEPT ![t] = @ \cup {outcome}]

\* Mutant of Actionable: the analysis-only check is missing.
Actionable_AnyMode(t) == next[t] \in {"execute", "end"}

\* _reject_if_analysis_only and _trial_or_raise: what every mutation requires.
Actionable(t) == next[t] \in {"execute", "end"} /\ mode[t] # "analyze"

IsRequester(t, p) == SameAs(p, by[t])

-----------------------------------------------------------------------------
(***************************************************************************)
(* submit_change: the graph runs to the gate and the requester is stamped; *)
(* an analysis-only run is driven on to audit, where nothing executes.     *)
(***************************************************************************)

SubmitChange(t, p, m, q) ==
  /\ next[t] = "absent" /\ m # "analyze"
  /\ next'   = [next EXCEPT ![t] = "execute"]
  /\ status' = [status EXCEPT ![t] = "awaiting_requester_review"]
  /\ mode'   = [mode EXCEPT ![t] = m]
  /\ by'     = [by EXCEPT ![t] = p]
  /\ quorum' = [quorum EXCEPT ![t] = q]
  /\ UNCHANGED <<events, pending, ledgers, audit, told>>

SubmitAnalysis(t, p, q) ==
  /\ next[t] = "absent"
  /\ next'   = [next EXCEPT ![t] = "end"]
  /\ status' = [status EXCEPT ![t] = "analyzed"]
  /\ mode'   = [mode EXCEPT ![t] = "analyze"]
  /\ by'     = [by EXCEPT ![t] = p]
  /\ quorum' = [quorum EXCEPT ![t] = q]
  /\ audit'  = [audit EXCEPT ![t] = Append(@, Record(NoVerdict, "analyzed"))]
  /\ UNCHANGED <<events, pending, ledgers, told>>

\* cast_verdict.  Only the authorization guards it: neither the status nor the
\* quorum's policy is consulted.  The first claim of a key resumes the run.
CastVerdict(t, p, type, k) ==
  /\ Actionable(t)
  /\ Authorized(p, by[t], quorum[t])
  /\ k \notin claimed[t]
  /\ claimed' = [claimed EXCEPT ![t] = @ \cup {k}]
  /\ \E s \in Statuses : Resume(t, Verdict(type, p, k), s) /\ SetStatus(t, s)
  /\ recorded' = [recorded EXCEPT ![t][k] = Len(audit'[t])]
  /\ pending' = pending \ {t}
  /\ Tell(t, IF type \in {"approve", "approve_internal_only"}
             THEN "approved" ELSE "rejected")
  /\ UNCHANGED <<mode, by, quorum, events>>

\* send_for_approval: with nobody to ask the requester's word executes the
\* change, otherwise the trial joins the approvers' queue.
SendForApproval(t, p) ==
  /\ Actionable(t)
  /\ IsRequester(t, p)
  /\ Log(t, {Event(p, SEND, NoRole)})
  /\ IF EvaluateQuorum(events'[t], quorum[t]) = "satisfied"
     THEN /\ \E s \in Statuses :
               Resume(t, Verdict("approve", p, NoKey), s) /\ SetStatus(t, s)
          /\ UNCHANGED pending
     ELSE /\ SetStatus(t, "awaiting_approval")
          /\ pending' = pending \cup {t}
          /\ UNCHANGED <<next, audit>>
  /\ UNCHANGED <<mode, by, quorum, ledgers, told>>

\* Mutant of WithdrawChange: the queue row is left behind.
WithdrawChange_LeavesRow(t, p) ==
  /\ Actionable(t)
  /\ IsRequester(t, p)
  /\ Log(t, {Event(p, WITHDRAW, NoRole)})
  /\ \E s \in Statuses : Resume(t, Verdict("withdraw", p, NoKey), s)
  /\ SetStatus(t, "withdrawn")
  /\ UNCHANGED <<mode, by, quorum, ledgers, told, pending>>

\* withdraw_change: the status is overwritten whether or not the run resumed.
WithdrawChange(t, p) ==
  /\ Actionable(t)
  /\ IsRequester(t, p)
  /\ Log(t, {Event(p, WITHDRAW, NoRole)})
  /\ \E s \in Statuses : Resume(t, Verdict("withdraw", p, NoKey), s)
  /\ SetStatus(t, "withdrawn")
  /\ pending' = pending \ {t}
  /\ UNCHANGED <<mode, by, quorum, ledgers, told>>

-----------------------------------------------------------------------------
(***************************************************************************)
(* decide.                                                                 *)
(***************************************************************************)

AlreadyRole(t, p, r) ==
  \E e \in events[t] : SameAs(e.actor, p) /\ e.decision = APPROVE /\ e.role = r

Already(t, p, d) == \E e \in events[t] : SameAs(e.actor, p) /\ e.decision = d

\* Mutant of NewApprovals: an approval counts for one role only.
NewApprovals_OneRole(t, p) ==
  IF Already(t, p, APPROVE) THEN {}
  ELSE {Event(p, APPROVE, CHOOSE r \in VotingRoles(p, quorum[t]) : TRUE)}

\* One approval per required role the caller holds and has not yet voted.
NewApprovals(t, p) ==
  {Event(p, APPROVE, r) : r \in {x \in VotingRoles(p, quorum[t]) : ~AlreadyRole(t, p, x)}}

\* One rejection per caller, under the first of the roles they may vote in.
NewRejections(t, p) ==
  IF Already(t, p, REJECT) THEN {}
  ELSE {Event(p, REJECT, CHOOSE r \in VotingRoles(p, quorum[t]) : TRUE)}

\* The vote is recorded, the quorum folded, and the run resumed only if this
\* call recorded something: a repeated click changes nothing.
Decide(t, p, approve) ==
  LET new     == IF approve THEN NewApprovals(t, p) ELSE NewRejections(t, p)
      outcome == EvaluateQuorum(events[t] \cup new, quorum[t])
  IN
  /\ Actionable(t)
  /\ Authorized(p, by[t], quorum[t])
  /\ new # {}
  /\ Log(t, new)
  /\ \/ /\ outcome = "satisfied"
        /\ \E s \in Statuses :
             Resume(t, Verdict("approve", p, NoKey), s) /\ SetStatus(t, s)
        /\ pending' = pending \ {t}
        /\ Tell(t, "approved")
     \/ /\ outcome = "rejected"
        /\ \E s \in Statuses : Resume(t, Verdict("reject", p, NoKey), s)
        /\ SetStatus(t, "rejected")
        /\ pending' = pending \ {t}
        /\ Tell(t, "rejected")
     \/ /\ outcome \in {"pending", "withdrawn"}
        /\ UNCHANGED <<next, status, pending, audit, told>>
  /\ UNCHANGED <<mode, by, quorum, ledgers>>

\* Mutant of Acknowledge: the status is not checked.
Acknowledge_AnyTime(t, p) ==
  /\ next[t] \in {"execute", "end"}
  /\ IsRequester(t, p)
  /\ ~Already(t, p, ACK)
  /\ Log(t, {Event(p, ACK, NoRole)})
  /\ UNCHANGED <<checkpoint, pending, ledgers, audit, told>>

\* acknowledge: the requester confirms a trial whose status is DONE or REJECTED.
Acknowledge(t, p) ==
  /\ next[t] \in {"execute", "end"}
  /\ IsRequester(t, p)
  /\ status[t] \in {"done", "rejected"}
  /\ ~Already(t, p, ACK)
  /\ Log(t, {Event(p, ACK, NoRole)})
  /\ UNCHANGED <<checkpoint, pending, ledgers, audit, told>>

\* purge_finished_trials: another process, which deletes the working storage of
\* an audited trial once the retention window has passed, in three commits and
\* in this order.  It may die before any of them; only a trial that still has a
\* checkpoint is a candidate again, so what a dead pass leaves stays.  The
\* events and the audit record are never touched.

\* Mutant of PurgeCheckpoint: the claims go before what they protect.
PurgeCheckpoint_ClaimsFirst(t) ==
  /\ next[t] \in {"execute", "end"}
  /\ Len(audit[t]) > 0
  /\ IF claimed[t] = {}
     THEN /\ next' = [next EXCEPT ![t] = "purged"]
          /\ status' = [status EXCEPT ![t] = "none"]
          /\ UNCHANGED <<claimed, recorded>>
     ELSE /\ claimed'  = [claimed EXCEPT ![t] = {}]
          /\ recorded' = [recorded EXCEPT ![t] = [k \in Keys |-> 0]]
          /\ UNCHANGED <<next, status>>
  /\ UNCHANGED <<mode, by, quorum, events, pending, audit, told>>

PurgeCheckpoint(t) ==
  /\ next[t] \in {"execute", "end"}
  /\ Len(audit[t]) > 0
  /\ next'   = [next EXCEPT ![t] = "purged"]
  /\ status' = [status EXCEPT ![t] = "none"]
  /\ UNCHANGED <<mode, by, quorum, events, pending, ledgers, audit, told>>

PurgeClaims(t) ==
  /\ next[t] = "purged"
  /\ claimed[t] # {}
  /\ claimed'  = [claimed EXCEPT ![t] = {}]
  /\ recorded' = [recorded EXCEPT ![t] = [k \in Keys |-> 0]]
  /\ UNCHANGED <<checkpoint, events, pending, audit, told>>

PurgeRow(t) ==
  /\ next[t] = "purged"
  /\ claimed[t] = {} /\ t \in pending
  /\ pending' = pending \ {t}
  /\ UNCHANGED <<checkpoint, events, ledgers, audit, told>>

PurgeTrial(t) == PurgeCheckpoint(t) \/ PurgeClaims(t) \/ PurgeRow(t)

\* list_pending_approvals shows p the trial: the index is only a candidate
\* list, the status decides, and an empty requirement is shown to everyone.
Listed(t, p) ==
  /\ t \in pending
  /\ status[t] = "awaiting_approval"
  /\ ~SameAs(p, by[t])
  /\ quorum[t].required = {} \/ VotingRoles(p, quorum[t]) # {}

-----------------------------------------------------------------------------
\* Every call is about one trial.
TrialStep(t) ==
  \/ \E p \in Principals, q \in PolicyQuorums :
       \/ \E m \in Modes : SubmitChange(t, p, m, q)
       \/ "analyze" \in Modes /\ SubmitAnalysis(t, p, q)
  \/ \E p \in Principals :
       \/ \E type \in VerdictTypes, k \in Keys : CastVerdict(t, p, type, k)
       \/ SendForApproval(t, p)
       \/ WithdrawChange(t, p)
       \/ \E approve \in BOOLEAN : Decide(t, p, approve)
       \/ Acknowledge(t, p)
  \/ PurgeTrial(t)

Next == \E t \in Trials : TrialStep(t)

Spec == Init /\ [][Next]_vars

-----------------------------------------------------------------------------
(***************************************************************************)
(* Correctness.                                                            *)
(***************************************************************************)

Audited(t) == audit[t] # <<>>
Executed(t) == \E i \in DOMAIN audit[t] : audit[t][i].executed

\* Every variable has its type.
TypeOK ==
  /\ next     \in [Trials -> {"absent", "execute", "end", "purged"}]
  /\ status   \in [Trials -> Statuses]
  /\ mode     \in [Trials -> Modes \cup {"none"}]
  /\ by       \in [Trials -> Principals \cup {NoPrincipal}]
  /\ quorum   \in [Trials -> Quorums]
  /\ events   \in [Trials -> SUBSET ApprovalEvents]
  /\ pending  \subseteq Trials
  /\ claimed  \in [Trials -> SUBSET Keys]
  /\ recorded \in [Trials -> [Keys -> Nat]]
  /\ audit    \in [Trials -> Seq(AuditRecords)]
  /\ told     \in [Trials -> SUBSET {"approved", "rejected"}]

\* Each party stays on its side of the gate: whoever votes is not the requester
\* (even when the directory gives the requester the role, or they come in by
\* another surface) and votes in a required role; whoever sends, withdraws or
\* acknowledges is the requester.
DutiesSeparated(t) ==
  \A e \in events[t] :
    IF e.decision \in {APPROVE, REJECT}
    THEN /\ ~SameAs(e.actor, by[t])
         /\ e.role \in VotingRoles(e.actor, quorum[t])
    ELSE SameAs(e.actor, by[t])

SeparationOfDuties == \A t \in Trials : DutiesSeparated(t)

\* What an execution on the requester's own word, by a vote, and by a cast
\* verdict leave behind.
OnOwnAuthority(t, v) ==
  /\ quorum[t].required = {}
  /\ SameAs(v.actor, by[t])
  /\ Event(v.actor, SEND, NoRole) \in events[t]

ByVote(t, v) ==
  /\ v.key = NoKey
  /\ ~SameAs(v.actor, by[t])
  /\ Reached(quorum[t], ApprovedRoles(events[t]))
  /\ \E r \in Roles : Event(v.actor, APPROVE, r) \in events[t]

ByCast(t, v) == v.key \in Keys /\ Authorized(v.actor, by[t], quorum[t])

\* Steps were run only with authority that the permanent records still show:
\* the audit record's verdict is the requester's own on a change that needs
\* nobody, the last vote of a quorum the event log meets, or a verdict an
\* authorized approver cast.
RunsAuthorised(t) ==
  \A i \in DOMAIN audit[t] :
    LET v == audit[t][i].verdict
    IN  audit[t][i].executed =>
          OnOwnAuthority(t, v) \/ ByVote(t, v) \/ ByCast(t, v)

ExecutionAuthorised == \A t \in Trials : RunsAuthorised(t)

\* A trial never stays at the gate once its log holds a decision: no vote,
\* rejection, withdrawal or self-confirmation is recorded without taking effect.
OpenAtGate(t) ==
  AtGate(t) => \/ EvaluateQuorum(events[t], quorum[t]) = "pending"
               \/ quorum[t].required = {} /\ events[t] = {}

DecidedNeverWaits == \A t \in Trials : OpenAtGate(t)

\* A trial is audited exactly when it leaves the gate, and once.
OneRecord(t) == Len(audit[t]) = IF next[t] \in {"end", "purged"} THEN 1 ELSE 0

AuditedOnce == \A t \in Trials : OneRecord(t)

\* What the four properties above rest on as well: nothing is logged before the
\* submission, and at the gate the status is one of the two that wait.
Unconcluded(t) ==
  /\ next[t] = "absent" => events[t] = {}
  /\ AtGate(t) => status[t] \in {"awaiting_requester_review", "awaiting_approval"}

\* The inductive strengthening: each call keeps all of it, for its trial.
Sound(t) ==
  /\ DutiesSeparated(t)
  /\ RunsAuthorised(t)
  /\ OpenAtGate(t)
  /\ OneRecord(t)
  /\ Unconcluded(t)

InductiveInv == \A t \in Trials : Sound(t)

\* A trial the requester sent on is, while it waits at the gate, in the list of
\* everyone who may decide it; and while the trial can be opened, no queue row
\* outlives the status it stands for.
QueueShowsWaiting ==
  \A t \in Trials :
    /\ AtGate(t) /\ Decided(events[t], SEND) =>
         \A p \in Principals : Authorized(p, by[t], quorum[t]) => Listed(t, p)
    /\ t \in pending /\ next[t] # "purged" => status[t] = "awaiting_approval"

\* Nobody acknowledges, or is told, an outcome that is not on record.
NothingSaidTooEarly ==
  \A t \in Trials :
    Decided(events[t], ACK) \/ told[t] # {} => Audited(t)

\* An analysis-only trial is audited as analyzed; no call of the approval
\* surface ever attaches anything to it.
AnalysisInert ==
  \A t \in Trials : mode[t] = "analyze" =>
    /\ events[t] = {} /\ claimed[t] = {} /\ told[t] = {} /\ t \notin pending
    /\ \A i \in DOMAIN audit[t] :
         audit[t][i].status = "analyzed" /\ ~audit[t][i].executed

\* Every claim of the verdict ledger names the trial's audit record, and the
\* verdict that was cast under a key still holds its claim: the same key can
\* not resume anything again while there is a checkpoint to resume.
ClaimsNameTheAudit ==
  \A t \in Trials : next[t] # "purged" =>
    /\ \A k \in Keys : recorded[t][k] = IF k \in claimed[t] THEN Len(audit[t]) ELSE 0
    /\ claimed[t] # {} => Audited(t)
    /\ \A i \in DOMAIN audit[t] :
         audit[t][i].verdict.key \in Keys => audit[t][i].verdict.key \in claimed[t]

\* The trial's lifecycle as its permanent record shows it.
Fate(t) ==
  CASE Audited(t)                       -> audit[t][1].status
    [] ~Audited(t) /\ next[t] = "absent" -> "none"
    [] OTHER                            -> "open"

Lifecycle == INSTANCE TrialRecord WITH
  fate <- [t \in Trials |-> Fate(t)],
  ran  <- {t \in Trials : Executed(t)}

\* The court implements the lifecycle of TrialRecord: one conclusion per
\* trial, and steps run in that conclusion or never.
LifecycleSpec == Lifecycle!Spec

-----------------------------------------------------------------------------
(***************************************************************************)
(* What the repository says of the program and the program does not keep.  *)
(***************************************************************************)

\* "nothing executes" (withdraw_change): a withdrawn trial ran no step.
WithdrawnRanNothing ==
  \A t \in Trials : status[t] = "withdrawn" => ~Executed(t)

\* The notification "must say what happened": a requester who is told the
\* change was rejected has a change that ran nothing.
ToldWhatHappened ==
  \A t \in Trials : "rejected" \in told[t] => ~Executed(t)
=============================================================================

----------------------------- MODULE Execution -----------------------------
(***************************************************************************)
(* The execute node of one trial (app/agent/nodes/execute.py) and the      *)
(* template every integration adapter shares (adapters/integrations/       *)
(* base.py, retry.py): the verdict gate, then the steps of the plan one    *)
(* after the other, each one a snapshot, a prediction or a write whose     *)
(* requests may fail, land without an answer, and be sent again.           *)
(*                                                                         *)
(* A step is the name of the capability it calls; what the adapters make   *)
(* of that capability is given by the constants.  A request fails in one   *)
(* of the four ways the code tells apart: the connection was never made,   *)
(* the answer never came, a status worth a retry, anything else.           *)
(***************************************************************************)
EXTENDS Integers, Sequences, Verdicts

CONSTANTS
  Capabilities,  \* the write capabilities a plan may name
  Updating,      \* those with ".update_" in their name
  Toasts,        \* those of the Teams adapter, which sends a notification for each
  Repeatable,    \* those whose second request leaves the system as the first did
  Unserved,      \* those of a system no adapter is registered for
  Mocked,        \* those of an in-memory adapter: no request, no retry
  ReadOnly,      \* those of an adapter with _writes_enabled = False
  Snapshots,     \* those whose prior state is fetched with a request
  Lookups,       \* those whose write is preceded by requests of its own
  Plans,         \* the plans a run is given
  MaxAttempts,   \* retry_max_attempts
  MaxReruns      \* bound: deaths of the worker in the middle of a run

ASSUMPTION CapabilityAssumption ==
  /\ Updating \cup Toasts \cup Repeatable \cup Unserved \cup Mocked \cup ReadOnly
       \cup Snapshots \cup Lookups \subseteq Capabilities
  /\ Plans \subseteq Seq(Capabilities)
  /\ MaxAttempts \in Nat \ {0} /\ MaxReruns \in Nat

\* The naming convention the inference of a retry class rests on: an update
\* that is not a notification can be repeated (docs/adr/0005, decision 4).
ASSUMPTION NamingAssumption == Updating \ Toasts \subseteq Repeatable

Faults == {"connect", "timeout", "status", "fatal"}
Modes == {"live", "dry_run", "analyze"}

\* What a retry class may repeat; NONE is used by no call.
Retryable == [NEVER_LANDED |-> {"connect"}, LIBERAL |-> {"connect", "timeout", "status"}]

RetryClassFor_ByName(c) == IF c \in Updating THEN "LIBERAL" ELSE "NEVER_LANDED"

\* The retry class of a live write: by name, except that the Teams adapter
\* takes every write of its own for a notification.
RetryClassFor(c) == IF c \in Updating \ Toasts THEN "LIBERAL" ELSE "NEVER_LANDED"

Attempts(c) == IF c \in Mocked THEN 1 ELSE MaxAttempts
RequestFaults(c) == IF c \in Mocked THEN {"fatal"} ELSE Faults

\* Whether a failed write may have reached the system all the same: a refused
\* connection proves that it did not, a mock refuses before it writes.
Landings(c, fault) == IF c \in Mocked \/ fault = "connect" THEN {0} ELSE {0, 1}

VARIABLES
  mode,      \* the run mode of the trial
  verdict,   \* the type of the verdict merged at the gate; "none": none was
  plan,      \* the plan under review, options.steps
  at,        \* the step the loop is at
  phase,     \* where the loop is within that step
  attempt,   \* the attempt of the call being retried
  before,    \* the snapshot taken for the step
  results,   \* one result for each step already answered
  status,    \* the status the node returned
  events,    \* the step events given to the run-event sink
  landed,    \* writes of each step that reached its system in this run
  earlier,   \* and in the runs that died before it
  reruns     \* how many those are

vars == <<mode, verdict, plan, at, phase, attempt, before, results, status, events,
          landed, earlier, reruns>>
run == <<mode, verdict, plan, earlier, reruns>>

Unread == "unread"
StepEvent(kind, i, s) == [kind |-> kind, step |-> i, status |-> s]
Result(s, b, r) == [status |-> s, before |-> b, rollback |-> r]

Init ==
  /\ mode \in Modes
  /\ verdict \in VerdictTypes \cup {"none"}
  /\ plan \in Plans
  /\ at = 1 /\ phase = "gate" /\ attempt = 1 /\ before = Unread
  /\ results = <<>> /\ status = "none" /\ events = <<>>
  /\ landed = [i \in DOMAIN plan |-> 0] /\ earlier = landed
  /\ reruns = 0

(***************************************************************************)
(* The gate: an analysis runs nothing, nor does a verdict that does not    *)
(* approve; a run without any verdict executes.                            *)
(***************************************************************************)
RunsPlan(m, v) == m # "analyze" /\ v \in Approving \cup {"none"}

Gate ==
  /\ phase = "gate"
  /\ phase' = IF RunsPlan(mode, verdict) THEN "start" ELSE "finished"
  /\ IF RunsPlan(mode, verdict)
     THEN status' = status
     ELSE status' \in IF mode = "analyze" THEN {"analyzed"} ELSE TerminalStatuses(verdict)
  /\ UNCHANGED <<run, at, attempt, before, results, events, landed>>

Current == plan[at]
InStep(p) == phase = p /\ at \in DOMAIN plan

\* A loop that gives up at the first failed step.
Answer_Break(s, rollback, es) ==
  /\ results' = Append(results, Result(s, before, rollback))
  /\ events' = Append(es, StepEvent("step_finished", at, s))
  /\ at' = IF s = "failed" THEN Len(plan) + 1 ELSE at + 1
  /\ phase' = "start" /\ attempt' = 1 /\ before' = Unread
  /\ status' = status

\* The loop takes the result of the step and goes on with the next one.
Answer(s, rollback, es) ==
  /\ results' = Append(results, Result(s, before, rollback))
  /\ events' = Append(es, StepEvent("step_finished", at, s))
  /\ at' = at + 1 /\ phase' = "start" /\ attempt' = 1 /\ before' = Unread
  /\ status' = status

Proceed(p) ==
  /\ phase' = p /\ attempt' = 1
  /\ UNCHANGED <<at, results, status, events>>

\* The first request of a write.
ApplyPhase(c) == IF c \in Lookups THEN "lookup" ELSE "write"

Again(fault, class) ==
  attempt < Attempts(Current) /\ fault \in Retryable[class]

\* A retry that does not count.
Fail_Uncounted(fault, class, p) ==
  IF Again(fault, class)
  THEN phase' = p /\ UNCHANGED <<at, attempt, before, results, status, events>>
  ELSE Answer("failed", before # Unread, events)

\* A failed call: sent again from its first request p while the class and the
\* attempts allow it, and contained as a failed result when they do not.  A
\* failed step has a rollback hint once its snapshot was taken.
Fail(fault, class, p) ==
  IF Again(fault, class)
  THEN /\ phase' = p /\ attempt' = attempt + 1
       /\ UNCHANGED <<at, before, results, status, events>>
  ELSE Answer("failed", before # Unread, events)

\* A step without an adapter that is passed over.
StartStep_Skip ==
  /\ InStep("start")
  /\ LET es == Append(events, StepEvent("step_started", at, "none")) IN
     IF Current \in Unserved
     THEN /\ at' = at + 1 /\ events' = es
          /\ UNCHANGED <<phase, attempt, before, results, status>>
     ELSE /\ events' = es /\ phase' = "before"
          /\ UNCHANGED <<at, attempt, before, results, status>>
  /\ UNCHANGED <<run, landed>>

StartStep ==
  /\ InStep("start")
  /\ LET es == Append(events, StepEvent("step_started", at, "none")) IN
     IF Current \in Unserved
     THEN Answer("failed", FALSE, es)
     ELSE /\ events' = es /\ phase' = "before"
          /\ UNCHANGED <<at, attempt, before, results, status>>
  /\ UNCHANGED <<run, landed>>

\* The state the step finds before it writes.
Seen == IF landed[at] + earlier[at] = 0 THEN "original" ELSE "changed"

Predicts(c) == mode = "dry_run" \/ c \in ReadOnly

FetchBefore ==
  /\ InStep("before")
  /\ \/ /\ before' = Seen
        /\ Proceed(IF Predicts(Current) THEN "predict" ELSE ApplyPhase(Current))
     \/ /\ Current \in Snapshots
        /\ \E fault \in RequestFaults(Current) : Fail(fault, "LIBERAL", "before")
  /\ UNCHANGED <<run, landed>>

Predict ==
  /\ InStep("predict")
  /\ Answer("dry_run", TRUE, events)
  /\ UNCHANGED <<run, landed>>

Lookup ==
  /\ InStep("lookup")
  /\ \/ phase' = "write" /\ UNCHANGED <<at, attempt, before, results, status, events>>
     \/ \E fault \in RequestFaults(Current) : Fail(fault, RetryClassFor(Current), "lookup")
  /\ UNCHANGED <<run, landed>>

\* The snapshot taken again on every attempt of the write.
Write_SnapshotAgain ==
  /\ InStep("write")
  /\ \/ /\ landed' = [landed EXCEPT ![at] = @ + 1]
        /\ Answer("ok", TRUE, events)
     \/ \E fault \in RequestFaults(Current) : \E n \in Landings(Current, fault) :
          /\ landed' = [landed EXCEPT ![at] = @ + n]
          /\ Fail(fault, RetryClassFor(Current),
                  IF Current \in Snapshots THEN "before" ELSE ApplyPhase(Current))
  /\ UNCHANGED run

Write ==
  /\ InStep("write")
  /\ \/ /\ landed' = [landed EXCEPT ![at] = @ + 1]
        /\ Answer("ok", TRUE, events)
     \/ \E fault \in RequestFaults(Current) : \E n \in Landings(Current, fault) :
          /\ landed' = [landed EXCEPT ![at] = @ + n]
          /\ Fail(fault, RetryClassFor(Current), ApplyPhase(Current))
  /\ UNCHANGED run

AnyFailed == \E i \in DOMAIN results : results[i].status = "failed"

Conclude ==
  /\ phase = "start" /\ at \notin DOMAIN plan
  /\ phase' = "finished"
  /\ status' = IF AnyFailed THEN "failed" ELSE "done"
  /\ UNCHANGED <<run, at, attempt, before, results, events, landed>>

\* The worker dies in the middle of the node.  The checkpoint still stands
\* before it, so a later resume, with a verdict of its own, enters it anew.
Rerun ==
  /\ phase \notin {"gate", "finished"} /\ reruns < MaxReruns
  /\ verdict' \in VerdictTypes
  /\ reruns' = reruns + 1
  /\ earlier' = [i \in DOMAIN plan |-> earlier[i] + landed[i]]
  /\ landed' = [i \in DOMAIN plan |-> 0]
  /\ at' = 1 /\ phase' = "gate" /\ attempt' = 1 /\ before' = Unread /\ results' = <<>>
  /\ UNCHANGED <<mode, plan, status, events>>

RunStep == Gate \/ StartStep \/ FetchBefore \/ Predict \/ Lookup \/ Write \/ Conclude

Next == RunStep \/ Rerun

Spec == Init /\ [][Next]_vars

\* The node runs to its end on its thread: each call returns or raises, the
\* clients have timeouts, and the waits between attempts are bounded.
FairSpec == Spec /\ WF_vars(RunStep)

-----------------------------------------------------------------------------
(***************************************************************************)
(* Properties.                                                             *)
(***************************************************************************)
Phases == {"gate", "start", "before", "predict", "lookup", "write", "finished"}
StepStatuses == {"ok", "failed", "dry_run"}
Snapshot == {Unread, "original", "changed"}
StepResults == [status : StepStatuses, before : Snapshot, rollback : BOOLEAN]
StepEvents == [kind : {"step_started", "step_finished"}, step : Nat \ {0},
               status : StepStatuses \cup {"none"}]

\* The values the variables take.
TypeOK ==
  /\ mode \in Modes /\ verdict \in VerdictTypes \cup {"none"} /\ plan \in Plans
  /\ at \in Nat \ {0} /\ phase \in Phases /\ attempt \in 1..MaxAttempts
  /\ before \in Snapshot
  /\ results \in Seq(StepResults)
  /\ status \in Terminal \cup {"none"}
  /\ events \in Seq(StepEvents)
  /\ landed \in [DOMAIN plan -> Nat] /\ earlier \in [DOMAIN plan -> Nat]
  /\ reruns \in 0..MaxReruns

\* A write that cannot be repeated is never sent again once it may have
\* reached its system: however its requests fail, a run leaves at most one
\* issue, comment, event, grant or notification per step, and runs that died
\* before it at most one each (ADR-0005, decision 4).
AppliedAtMostOnce ==
  \A i \in DOMAIN plan : plan[i] \notin Repeatable => landed[i] <= 1 /\ earlier[i] <= reruns

\* Only a live run of a plan, through an adapter that writes, changes a
\* system: neither a dry run, nor an analysis, nor a refused change, nor a
\* read-only adapter does (base.py, "physically cannot run _apply").
OnlyLiveWrites ==
  \A i \in DOMAIN plan : landed[i] > 0 =>
    mode = "live" /\ RunsPlan(mode, verdict) /\ plan[i] \notin ReadOnly \cup Unserved

\* A trial that reads done after a live run has every step of its plan
\* applied, each through an adapter that writes.
DoneMeansLanded ==
  status = "done" /\ mode = "live" /\ RunsPlan(mode, verdict) =>
    \A i \in DOMAIN plan : landed[i] > 0 \/ plan[i] \in ReadOnly

\* No failure of one step keeps a later step from being tried: a plan that was
\* run has a result for each of its steps, the failed ones included, and the
\* trial reads failed exactly when one of them is.
EveryStepAnswered ==
  phase = "finished" /\ RunsPlan(mode, verdict) =>
    /\ Len(results) = Len(plan)
    /\ (status = "failed") = \E i \in DOMAIN plan : results[i].status = "failed"

\* A step that changed something leaves a rollback hint that restores the
\* state from before its write, however often that write was sent.
LandedCanBeUndone ==
  reruns = 0 => \A i \in DOMAIN results :
    landed[i] > 0 => results[i].rollback /\ results[i].before = "original"

(***************************************************************************)
(* The inductive invariant behind the properties above: where the loop is, *)
(* and what the steps before, at and behind it can have done by then.      *)
(***************************************************************************)
Open(p) == phase \in p /\ at \in DOMAIN plan

\* The loop has answered the steps before the one it is at.
LoopInStep ==
  /\ Len(results) = at - 1 /\ at <= Len(plan) + 1
  /\ phase \in {"before", "predict", "lookup", "write"} => at \in DOMAIN plan
  /\ phase \notin {"gate", "finished"} => RunsPlan(mode, verdict)
  /\ phase # "finished" => status = "none"
  /\ phase = "gate" => at = 1

\* What the step the loop is at may do, and the snapshot it does it with.
StepInBounds ==
  /\ Open({"before", "predict", "lookup", "write"}) => Current \notin Unserved
  /\ Open({"predict"}) => Predicts(Current)
  /\ Open({"lookup", "write"}) => ~Predicts(Current) /\ before # Unread
  /\ Open({"lookup", "write"}) /\ reruns = 0 => before = "original"

\* What the writes behind, at and ahead of the loop can have left.
WritesInBounds ==
  /\ \A i \in DOMAIN plan : i > at => landed[i] = 0
  /\ Open({"gate", "start", "before", "predict"}) => landed[at] = 0
  /\ Open(Phases) /\ Current \notin Repeatable => landed[at] = 0
  /\ reruns = 0 => \A i \in DOMAIN plan : earlier[i] = 0

\* What an answer says of its step.
AnswersTrue ==
  \A i \in DOMAIN results :
    /\ results[i].status = "ok" => landed[i] > 0
    /\ results[i].status = "dry_run" => Predicts(plan[i])

\* A finished node that ran the plan has answered all of it.
RanToTheEnd ==
  phase = "finished" /\ RunsPlan(mode, verdict) =>
    at = Len(plan) + 1 /\ status = IF AnyFailed THEN "failed" ELSE "done"

InductiveInv ==
  /\ TypeOK /\ LoopInStep /\ StepInBounds /\ WritesInBounds /\ AnswersTrue /\ RanToTheEnd
  /\ AppliedAtMostOnce /\ OnlyLiveWrites /\ LandedCanBeUndone

\* What the run page last showed for a step is what the record says of it,
\* even when an earlier run of the plan died half way.
LastShown(i) ==
  LET shown == {k \in DOMAIN events : events[k].step = i} IN
  events[CHOOSE k \in shown : \A j \in shown : j <= k]

ShownIsRecorded ==
  \A i \in DOMAIN results :
    LastShown(i) = StepEvent("step_finished", i, results[i].status)

\* Whatever fails, the node comes to an end: retries are bounded, and so are
\* the deaths of its worker.
Finishes == <>(phase = "finished")
=============================================================================

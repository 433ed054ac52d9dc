---------------------------- MODULE CourtFaults ----------------------------
(***************************************************************************)
(* One trial of the change court, commit by commit.  A call of the service *)
(* (services/court_service.py) is a sequence of separately committed steps *)
(* on four stores; the graph run inside it is a worker thread that commits *)
(* a checkpoint after each node (agent/runner.py, agent/graph.py).  Calls  *)
(* still run one at a time, on the event loop.  What goes wrong:           *)
(*   - the wall-clock budget of a graph run expires: the call fails, its   *)
(*     worker goes on with the state it holds, and its later checkpoints   *)
(*     overwrite what was saved meanwhile;                                 *)
(*   - a node fails, and the exception ends the call;                      *)
(*   - the process dies and restarts: the call and the workers are gone,   *)
(*     what was committed stays.                                           *)
(* Analysis-only trials and the retention purge are left to Court.         *)
(***************************************************************************)
EXTENDS ApprovalRules, Verdicts, Sequences

CONSTANTS
  PolicyQuorums, \* the quorums the policy node derives in this instance
  Keys,          \* idempotency keys callers of cast_verdict use
  Submitters,    \* the callers who submit in this instance
  CastTypes,     \* the verdict types cast in this instance
  MaxCalls,      \* bound: calls made on the trial
  MaxTimeouts,   \* bound: expired budgets
  MaxLosses,     \* bound: process deaths and failed nodes
  MaxMoves       \* bound: all of these together

ASSUME FaultQuorumsAssumption == PolicyQuorums \subseteq Quorums
ASSUME SubmittersAssumption == Submitters \subseteq Principals
ASSUME CastTypesAssumption == CastTypes \subseteq VerdictTypes
ASSUME BoundsAssumption == {MaxCalls, MaxTimeouts, MaxLosses, MaxMoves} \subseteq Nat

NoKey == "no_key"
ASSUME FaultNoKeyAssumption == NoKey \notin Keys

VARIABLES
  saved,     \* the latest checkpoint of the thread
  quorum,    \* the quorum in it, set once by the policy node
  events,    \* approval ledger: the trial's events
  pending,   \* approval ledger: the trial has a row in the pending index
  claimed,   \* verdict ledger: keys claimed
  recorded,  \* verdict ledger: audit id recorded per key, 0 for none
  audit,     \* audit log: the trial's records
  told,      \* outcomes the requester was notified of
  call,      \* the call the event loop is in
  workers,   \* per call: the graph run it started
  calls,     \* calls made
  submitter, \* history: who submitted the trial
  runs,      \* history: the verdicts the plan's steps were run under
  timeouts,  \* history: expired budgets
  losses     \* history: process deaths and failed nodes

stores  == <<events, pending, claimed, recorded, audit>>
history == <<submitter, runs, timeouts, losses>>
vars    == <<saved, quorum, stores, told, call, workers, calls, history>>

-----------------------------------------------------------------------------
(***************************************************************************)
(* The checkpoint, the calls and the workers.                              *)
(***************************************************************************)

Verdict(type, actor, key) == [type |-> type, actor |-> actor, key |-> key]
NoVerdict == Verdict("none", NoPrincipal, NoKey)

\* What the properties tell apart of a CourtState: the node to run next, the
\* status, the verdict, whether results are in, the stamped requester, and the
\* audit id (0 for none).
NoState == [next |-> "absent", status |-> "none", verdict |-> NoVerdict,
            results |-> FALSE, by |-> NoPrincipal, audit |-> 0]

\* A call: what it is, who makes it, the verdict it will resume with, the
\* events it has still to append, and where it stands.
Idle == [op |-> "none", actor |-> NoPrincipal, verdict |-> NoVerdict,
         todo |-> {}, pc |-> "idle"]

Call(op, p, verdict, todo, pc) ==
  [op |-> op, actor |-> p, verdict |-> verdict, todo |-> todo, pc |-> pc]

\* A worker: the node it is in, and the state it holds in memory.
Off == [pc |-> "off", state |-> NoState]

Working(i) == workers[i].pc # "off"

\* There is room for one call or fault more.
Room == calls + timeouts + losses < MaxMoves

Free == call = Idle /\ calls < MaxCalls /\ Room

Existing == Free /\ saved.next # "absent"

Begin(op, p, verdict, todo, pc) ==
  /\ call' = Call(op, p, verdict, todo, pc)
  /\ calls' = calls + 1

Goto(pc) == call' = [call EXCEPT !.pc = pc]

Init ==
  /\ saved = NoState
  /\ quorum = [required |-> {}, policy |-> "all"]
  /\ events = {} /\ pending = FALSE
  /\ claimed = {} /\ recorded = [k \in Keys |-> 0]
  /\ audit = <<>> /\ told = {}
  /\ call = Idle /\ calls = 0
  /\ workers = [i \in 1..MaxCalls |-> Off]
  /\ submitter = NoPrincipal /\ runs = <<>> /\ timeouts = 0 /\ losses = 0

-----------------------------------------------------------------------------
(***************************************************************************)
(* The calls begin.  Guards and the first commit are one step.             *)
(***************************************************************************)

\* submit_change starts a worker that runs intake to policy.
Submit(p) ==
  /\ Free
  /\ saved.next = "absent"
  /\ \A i \in DOMAIN workers : ~Working(i)
  /\ Begin("submit", p, NoVerdict, {}, "wait")
  /\ workers' = [workers EXCEPT ![calls + 1] = [pc |-> "deliberate", state |-> NoState]]
  /\ submitter' = p
  /\ UNCHANGED <<saved, quorum, stores, told, runs, timeouts, losses>>

\* cast_verdict claims its key; a claimed key is answered from the ledger.
Cast(p, type, k) ==
  /\ Existing
  /\ Authorized(p, saved.by, quorum)
  /\ k \notin claimed
  /\ claimed' = claimed \cup {k}
  /\ Begin("cast", p, Verdict(type, p, k), {}, "resume")
  /\ UNCHANGED <<saved, quorum, events, pending, recorded, audit, told, workers, history>>

Send(p) ==
  /\ Existing
  /\ SameAs(p, saved.by)
  /\ Begin("send", p, Verdict("approve", p, NoKey), {Event(p, SEND, NoRole)}, "log")
  /\ UNCHANGED <<saved, quorum, stores, told, workers, history>>

Withdraw(p) ==
  /\ Existing
  /\ SameAs(p, saved.by)
  /\ Begin("withdraw", p, Verdict("withdraw", p, NoKey), {Event(p, WITHDRAW, NoRole)}, "log")
  /\ UNCHANGED <<saved, quorum, stores, told, workers, history>>

\* The votes a decide call appends: an approval per required role not yet
\* voted, or one rejection.  With none to append the call changes nothing.
Votes(p, approve) ==
  LET Voted(d, roles) ==
        \E e \in events : SameAs(e.actor, p) /\ e.decision = d /\ e.role \in roles
      mine == VotingRoles(p, quorum)
  IN  IF approve
      THEN {Event(p, APPROVE, r) : r \in {x \in mine : ~Voted(APPROVE, {x})}}
      ELSE IF Voted(REJECT, Roles) THEN {} ELSE {Event(p, REJECT, CHOOSE r \in mine : TRUE)}

Decide(p, approve) ==
  /\ Existing
  /\ Authorized(p, saved.by, quorum)
  /\ Votes(p, approve) # {}
  /\ Begin("decide", p, NoVerdict, Votes(p, approve), "log")
  /\ UNCHANGED <<saved, quorum, stores, told, workers, history>>

Acknowledge(p) ==
  /\ Existing
  /\ SameAs(p, saved.by)
  /\ saved.status \in {"done", "rejected"}
  /\ ~\E e \in events : SameAs(e.actor, p) /\ e.decision = ACK
  /\ events' = events \cup {Event(p, ACK, NoRole)}
  /\ calls' = calls + 1
  /\ UNCHANGED <<saved, quorum, pending, claimed, recorded, audit, told, call, workers, history>>

-----------------------------------------------------------------------------
(***************************************************************************)
(* The calls go on.                                                        *)
(***************************************************************************)

\* Each event is a commit; the order in which a caller's roles are recorded is
\* the quorum's, left open here.
AppendEvent ==
  /\ call.pc = "log"
  /\ \E e \in call.todo :
       /\ events' = events \cup {e}
       /\ call' = [call EXCEPT !.todo = @ \ {e}]
  /\ UNCHANGED <<saved, quorum, pending, claimed, recorded, audit, told, workers, calls, history>>

\* The verdict a decide call resumes with once its votes are in.
OutcomeVerdict == [satisfied |-> "approve", rejected |-> "reject"]

\* Mutant of Fold: the outcome of the fold is not looked at.
Fold_AnyOutcome ==
  /\ call.pc = "log" /\ call.todo = {}
  /\ call' = [call EXCEPT !.pc = "resume",
                !.verdict = IF call.op = "decide" THEN Verdict("approve", call.actor, NoKey) ELSE @]
  /\ UNCHANGED <<saved, quorum, stores, told, workers, calls, history>>

\* The fold of the log decides where the call goes.
Fold ==
  LET outcome == EvaluateQuorum(events, quorum) IN
  /\ call.pc = "log" /\ call.todo = {}
  /\ \/ /\ call.op = "withdraw" \/ (call.op = "send" /\ outcome = "satisfied")
        /\ Goto("resume")
     \/ /\ call.op = "send" /\ outcome # "satisfied"
        /\ Goto("hold")
     \/ /\ call.op = "decide" /\ outcome \in DOMAIN OutcomeVerdict
        /\ call' = [call EXCEPT !.pc = "resume",
                      !.verdict = Verdict(OutcomeVerdict[outcome], call.actor, NoKey)]
     \/ /\ call.op = "decide" /\ outcome \notin DOMAIN OutcomeVerdict
        /\ call' = Idle
  /\ UNCHANGED <<saved, quorum, stores, told, workers, calls, history>>

\* send_for_approval with somebody to ask: the status, then the queue row.
Hold ==
  /\ call.pc = "hold"
  /\ saved' = [saved EXCEPT !.status = "awaiting_approval"]
  /\ Goto("enqueue")
  /\ UNCHANGED <<quorum, stores, told, workers, calls, history>>

Enqueue ==
  /\ call.pc = "enqueue"
  /\ pending' = TRUE
  /\ call' = Idle
  /\ UNCHANGED <<saved, quorum, events, claimed, recorded, audit, told, workers, calls, history>>

\* Mutant of Merge: a finished run is not told from one at the gate.
Merge_NoGate ==
  /\ call.pc = "resume"
  /\ saved' = [saved EXCEPT !.verdict = call.verdict, !.next = "execute"]
  /\ Goto("launch")
  /\ UNCHANGED <<quorum, stores, told, workers, calls, history>>

\* resume: a finished run is left alone, otherwise the verdict is merged into
\* the latest checkpoint, wherever in the graph that stands.
Merge ==
  /\ call.pc = "resume"
  /\ IF saved.next = "end"
     THEN Goto("settle") /\ UNCHANGED saved
     ELSE Goto("launch") /\ saved' = [saved EXCEPT !.verdict = call.verdict]
  /\ UNCHANGED <<quorum, stores, told, workers, calls, history>>

\* Mutant of Launch: the worker does not ask whether there is a next node.
Launch_Finished ==
  /\ call.pc = "launch"
  /\ workers' = [workers EXCEPT ![calls] = [pc |-> saved.next, state |-> saved]]
  /\ Goto("wait")
  /\ UNCHANGED <<saved, quorum, stores, told, calls, history>>

\* The worker loads the latest checkpoint and goes on from its next node.
Launch ==
  /\ call.pc = "launch"
  /\ workers' = [workers EXCEPT ![calls] =
                   IF saved.next = "end" THEN Off ELSE [pc |-> saved.next, state |-> saved]]
  /\ Goto("wait")
  /\ UNCHANGED <<saved, quorum, stores, told, calls, history>>

Return ==
  /\ call.pc = "wait" /\ ~Working(calls)
  /\ Goto("settle")
  /\ UNCHANGED <<saved, quorum, stores, told, workers, calls, history>>

-----------------------------------------------------------------------------
(***************************************************************************)
(* The calls end: what each writes once the graph run returned.            *)
(***************************************************************************)

Settle ==
  /\ call.pc = "settle"
  /\ \/ /\ call.op = "submit"
        /\ saved' = [saved EXCEPT !.by = call.actor, !.status = "awaiting_requester_review"]
        /\ call' = Idle /\ UNCHANGED recorded
     \/ /\ call.op = "send"
        /\ call' = Idle /\ UNCHANGED <<saved, recorded>>
     \/ /\ call.op = "withdraw"
        /\ saved' = [saved EXCEPT !.status = "withdrawn"]
        /\ Goto("dequeue") /\ UNCHANGED recorded
     \/ /\ call.op = "decide"
        /\ saved' = IF call.verdict.type = "reject"
                    THEN [saved EXCEPT !.status = "rejected"] ELSE saved
        /\ Goto("dequeue") /\ UNCHANGED recorded
     \/ /\ call.op = "cast"
        /\ recorded' = IF saved.audit = 0 THEN recorded
                       ELSE [recorded EXCEPT ![call.verdict.key] = saved.audit]
        /\ Goto("dequeue") /\ UNCHANGED saved
  /\ UNCHANGED <<quorum, events, pending, claimed, audit, told, workers, calls, history>>

\* Mutant of Dequeue: the queue row stays.
Dequeue_LeavesRow ==
  /\ call.pc = "dequeue"
  /\ told' = IF call.op = "withdraw" THEN told
             ELSE told \cup {IF call.verdict.type \in {"approve", "approve_internal_only"}
                             THEN "approved" ELSE "rejected"}
  /\ call' = Idle
  /\ UNCHANGED <<saved, quorum, events, pending, claimed, recorded, audit, workers, calls, history>>

\* The queue row goes, and the requester is told; nobody is told of a
\* withdrawal.
Dequeue ==
  /\ call.pc = "dequeue"
  /\ pending' = FALSE
  /\ told' = IF call.op = "withdraw" THEN told
             ELSE told \cup {IF call.verdict.type \in {"approve", "approve_internal_only"}
                             THEN "approved" ELSE "rejected"}
  /\ call' = Idle
  /\ UNCHANGED <<saved, quorum, events, claimed, recorded, audit, workers, calls, history>>

-----------------------------------------------------------------------------
(***************************************************************************)
(* The graph runs.                                                         *)
(***************************************************************************)

\* intake to policy; the run suspends before execute.
Deliberate(i) ==
  /\ workers[i].pc = "deliberate"
  /\ \E q \in PolicyQuorums : quorum' = q
  /\ saved' = [NoState EXCEPT !.next = "execute", !.status = "evaluated"]
  /\ workers' = [workers EXCEPT ![i] = Off]
  /\ UNCHANGED <<stores, told, call, calls, history>>

\* The execute node skips the plan for a verdict that is there and does not
\* approve: a state without one is executed.
RunsPlan(verdict) == verdict.type \in Approving \cup {NoVerdict.type}

\* The plan's steps take effect in the outside world before anything is saved.
Execute(i) ==
  LET verdict == workers[i].state.verdict IN
  /\ workers[i].pc = "execute"
  /\ runs' = IF RunsPlan(verdict) THEN Append(runs, verdict) ELSE runs
  /\ \E s \in TerminalStatuses(verdict.type) :
       workers' = [workers EXCEPT ![i] =
         [pc |-> "executed",
          state |-> [@.state EXCEPT !.status = s, !.next = "audit",
                                    !.results = RunsPlan(verdict)]]]
  /\ UNCHANGED <<saved, quorum, stores, told, call, calls, submitter, timeouts, losses>>

\* A checkpoint is the worker's whole state, whatever was saved before it.
SaveExecuted(i) ==
  /\ workers[i].pc = "executed"
  /\ saved' = workers[i].state
  /\ workers' = [workers EXCEPT ![i].pc = "audit"]
  /\ UNCHANGED <<quorum, stores, told, call, calls, history>>

\* Mutant of WriteRecord: the state does not get the record's id.
WriteRecord_Unlinked(i) ==
  /\ workers[i].pc = "audit"
  /\ audit' = Append(audit, [verdict  |-> workers[i].state.verdict,
                             status   |-> workers[i].state.status,
                             executed |-> workers[i].state.results])
  /\ workers' = [workers EXCEPT ![i] = [pc |-> "audited", state |-> [@.state EXCEPT !.next = "end"]]]
  /\ UNCHANGED <<saved, quorum, events, pending, claimed, recorded, told, call, calls, history>>

\* verify only annotates the state; audit appends the record of the trial as
\* the worker knows it.
WriteRecord(i) ==
  /\ workers[i].pc = "audit"
  /\ audit' = Append(audit, [verdict  |-> workers[i].state.verdict,
                             status   |-> workers[i].state.status,
                             executed |-> workers[i].state.results])
  /\ workers' = [workers EXCEPT ![i] =
       [pc |-> "audited", state |-> [@.state EXCEPT !.next = "end", !.audit = Len(audit')]]]
  /\ UNCHANGED <<saved, quorum, events, pending, claimed, recorded, told, call, calls, history>>

SaveAudited(i) ==
  /\ workers[i].pc = "audited"
  /\ saved' = workers[i].state
  /\ workers' = [workers EXCEPT ![i] = Off]
  /\ UNCHANGED <<quorum, stores, told, call, calls, history>>

-----------------------------------------------------------------------------
(***************************************************************************)
(* The faults.                                                             *)
(***************************************************************************)

\* Mutant of Expire: the run is cancelled with the call.
Expire_Cancels ==
  /\ call.pc = "wait" /\ Working(calls)
  /\ timeouts < MaxTimeouts /\ Room
  /\ timeouts' = timeouts + 1
  /\ call' = Idle
  /\ workers' = [workers EXCEPT ![calls] = Off]
  /\ UNCHANGED <<saved, quorum, stores, told, calls, submitter, runs, losses>>

\* The budget expires: the call fails, the worker does not stop.
Expire ==
  /\ call.pc = "wait" /\ Working(calls)
  /\ timeouts < MaxTimeouts /\ Room
  /\ timeouts' = timeouts + 1
  /\ call' = Idle
  /\ UNCHANGED <<saved, quorum, stores, told, workers, calls, submitter, runs, losses>>

\* The node before the record fails (a locked database): the run ends there,
\* and so does the call that waits for it.
NodeFails(i) ==
  /\ workers[i].pc = "audit"
  /\ losses < MaxLosses /\ Room
  /\ losses' = losses + 1
  /\ workers' = [workers EXCEPT ![i] = Off]
  /\ call' = IF call.pc = "wait" /\ i = calls THEN Idle ELSE call
  /\ UNCHANGED <<saved, quorum, stores, told, calls, submitter, runs, timeouts>>

\* The process dies: only what was committed is left.
Crash ==
  /\ losses < MaxLosses /\ Room
  /\ call # Idle \/ \E i \in DOMAIN workers : Working(i)
  /\ losses' = losses + 1
  /\ call' = Idle
  /\ workers' = [i \in DOMAIN workers |-> Off]
  /\ UNCHANGED <<saved, quorum, stores, told, calls, submitter, runs, timeouts>>

-----------------------------------------------------------------------------
People ==
  \/ \E p \in Submitters : Submit(p)
  \/ \E p \in Principals :
    \/ Send(p) \/ Withdraw(p) \/ Acknowledge(p)
    \/ \E approve \in BOOLEAN : Decide(p, approve)
    \/ \E type \in CastTypes, k \in Keys : Cast(p, type, k)

CallStep ==
  AppendEvent \/ Fold \/ Hold \/ Enqueue \/ Merge \/ Launch \/ Return \/ Settle \/ Dequeue

WorkerStep(i) ==
  Deliberate(i) \/ Execute(i) \/ SaveExecuted(i) \/ WriteRecord(i) \/ SaveAudited(i)

Faults == Expire \/ Crash \/ \E i \in DOMAIN workers : NodeFails(i)

Next == People \/ CallStep \/ (\E i \in DOMAIN workers : WorkerStep(i)) \/ Faults

Spec == Init /\ [][Next]_vars

\* The event loop and the worker threads keep running; people and faults owe
\* nothing.
Fairness == WF_vars(CallStep) /\ \A i \in 1..MaxCalls : WF_vars(WorkerStep(i))

FairSpec == Spec /\ Fairness

-----------------------------------------------------------------------------
(***************************************************************************)
(* Correctness.                                                            *)
(***************************************************************************)

States ==
  [next : {"absent", "execute", "audit", "end"},
   status : Statuses \cup {"evaluated"},
   verdict : [type : VerdictTypes \cup {"none"}, actor : Principals \cup {NoPrincipal},
              key : Keys \cup {NoKey}],
   results : BOOLEAN, by : Principals \cup {NoPrincipal}, audit : Nat]

\* Every variable has its type.
TypeOK ==
  /\ saved \in States
  /\ quorum \in Quorums
  /\ events \subseteq ApprovalEvents
  /\ pending \in BOOLEAN
  /\ claimed \subseteq Keys /\ recorded \in [Keys -> 0..Len(audit)]
  /\ \A i \in DOMAIN workers :
       /\ workers[i].pc \in {"off", "deliberate", "execute", "executed", "audit", "audited"}
       /\ workers[i].state \in States
  /\ call.pc \in {"idle", "log", "resume", "hold", "enqueue", "launch", "wait", "settle", "dequeue"}
  /\ calls \in 0..MaxCalls /\ timeouts \in 0..MaxTimeouts /\ losses \in 0..MaxLosses

Quiet == call = Idle /\ \A i \in DOMAIN workers : ~Working(i)

Records(executed) == {i \in DOMAIN audit : audit[i].executed = executed}

\* Whatever expires, fails or dies, steps run only on a verdict that a caller
\* with a required role claimed, or on a log that meets the quorum.
RunsBacked ==
  \A i \in DOMAIN runs :
    \/ runs[i].key \in claimed /\ Authorized(runs[i].actor, NoPrincipal, quorum)
    \/ Reached(quorum, ApprovedRoles(events))

\* Each fault costs at most one run more than the one the trial is for.
RunsBounded == Len(runs) <= 1 + timeouts + losses

\* A budget that expires never loses the record of a run: once all is quiet,
\* and while no process died and no node failed, there is a record for each.
RunsOnRecord == Quiet /\ losses = 0 => Cardinality(Records(TRUE)) >= Len(runs)

\* A record that says steps were run is of a trial whose steps were run, and a
\* finished checkpoint names a record that exists.
RecordsTrue ==
  /\ Records(TRUE) # {} => runs # <<>>
  /\ saved.next = "end" => saved.audit \in DOMAIN audit

\* Once the requester is stamped on the trial, it is the one who submitted it,
\* and no vote on it is theirs.
StampedSeparates ==
  saved.by # NoPrincipal =>
    /\ saved.by = submitter
    /\ \A e \in events : e.decision \in {APPROVE, REJECT} => ~SameAs(e.actor, submitter)

\* A plan that was run is eventually on record, unless a process died or a
\* node failed on the way.
RunReachesRecord == runs # <<>> ~> (Records(TRUE) # {} \/ losses > 0)

-----------------------------------------------------------------------------
(***************************************************************************)
(* What the repository says of the program and the program does not keep.  *)
(***************************************************************************)

\* "resume is idempotent": however often a trial is resumed, its plan is run
\* at most once.
RunsOnce == Len(runs) <= 1
=============================================================================

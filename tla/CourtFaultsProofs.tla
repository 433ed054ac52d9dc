------------------------- MODULE CourtFaultsProofs -------------------------
(***************************************************************************)
(* Theorems about CourtFaults: what holds of a trial whatever expires,     *)
(* fails or dies, for every set of callers, roles, keys and quorums, and   *)
(* for any bounds on calls and faults; and about CourtCalls: until         *)
(* something does, its calls are those of Court.                           *)
(***************************************************************************)
EXTENDS CourtCalls, FiniteSetTheorems, TLAPS

People0 == Principals \cup {NoPrincipal}

VerdictRecords ==
  [type : VerdictTypes \cup {"none"}, actor : People0, key : Keys \cup {NoKey}]

Ops == {"none", "submit", "cast", "send", "withdraw", "decide"}
CallPCs == {"idle", "log", "resume", "hold", "enqueue", "launch", "wait", "settle", "dequeue"}
WorkerPCs == {"off", "deliberate", "execute", "executed", "audit", "audited"}

CallRecords ==
  [op : Ops, actor : People0, verdict : VerdictRecords, todo : SUBSET ApprovalEvents, pc : CallPCs]

WorkerRecords == [pc : WorkerPCs, state : States]

AuditRecords ==
  [verdict : VerdictRecords, status : Statuses \cup {"evaluated"}, executed : BOOLEAN]

-----------------------------------------------------------------------------
(***************************************************************************)
(* Types.                                                                  *)
(***************************************************************************)

\* Every variable has its type, and no state names a record that is not there.
Typed ==
  /\ saved \in States /\ saved.audit <= Len(audit)
  /\ quorum \in Quorums
  /\ events \in SUBSET ApprovalEvents
  /\ pending \in BOOLEAN
  /\ claimed \in SUBSET Keys
  /\ recorded \in [Keys -> 0..Len(audit)]
  /\ audit \in Seq(AuditRecords)
  /\ call \in CallRecords
  /\ workers \in [1..MaxCalls -> WorkerRecords]
  /\ \A i \in 1..MaxCalls : workers[i].state.audit <= Len(audit)
  /\ calls \in 0..MaxCalls
  /\ submitter \in People0
  /\ runs \in Seq(VerdictRecords)
  /\ timeouts \in 0..MaxTimeouts /\ losses \in 0..MaxLosses

-----------------------------------------------------------------------------
(***************************************************************************)
(* Where the call, the workers and the checkpoint can be.                  *)
(***************************************************************************)

\* A worker that is past the gate.
Running(i) == workers[i].pc \notin {"off", "deliberate"}

Under == {"log", "resume", "hold", "enqueue", "launch"}

\* Every call has a worker of its own, idle until it is launched.
Slots ==
  /\ call.pc = "idle" <=> call.op = "none"
  /\ call.pc # "idle" => calls >= 1
  /\ \A i \in 1..MaxCalls : i > calls => workers[i].pc = "off"
  /\ call.pc \in Under => workers[calls].pc = "off"

\* A trial that is not there yet has nothing: at most its submission is under way.
Fresh ==
  saved.next = "absent" =>
    /\ saved = NoState
    /\ events = {} /\ claimed = {} /\ audit = <<>> /\ runs = <<>>
    /\ call.op \in {"none", "submit"}
    /\ \A i \in 1..MaxCalls : ~Running(i)

\* Whoever deliberates is alone.
Alone ==
  \A i \in 1..MaxCalls : workers[i].pc = "deliberate" =>
    /\ saved.next = "absent"
    /\ \A j \in 1..MaxCalls : j # i => workers[j].pc = "off"

\* While a submission is under way nothing else has happened, and its requester
\* is stamped on a trial that is there.
Opening ==
  call.op = "submit" =>
    /\ call.pc \in {"wait", "settle"} /\ call.actor = submitter /\ call.todo = {}
    /\ events = {} /\ claimed = {} /\ audit = <<>> /\ runs = <<>>
    /\ saved.by = NoPrincipal
    /\ \A i \in 1..MaxCalls : ~Running(i) /\ (i # calls => workers[i].pc = "off")
    /\ workers[calls].pc = "off" => saved.next = "execute"
    /\ call.pc = "settle" => workers[calls].pc = "off"

\* A worker past the gate carries a verdict and the requester of the
\* checkpoint, which never falls back to the gate once a worker has saved.
Marching ==
  /\ call.pc \in {"resume", "launch"} => call.verdict.type # "none"
  /\ call.op \in {"cast", "send", "withdraw"} => call.verdict.type # "none"
  /\ call.op = "withdraw" => call.verdict.type = "withdraw"
  /\ call.pc = "launch" => saved.verdict.type # "none"
  /\ \A i \in 1..MaxCalls : Running(i) =>
       /\ workers[i].state.verdict.type # "none"
       /\ workers[i].state.by = saved.by
       /\ workers[i].pc = "execute" => workers[i].state.next = "execute"
       /\ workers[i].pc \in {"executed", "audit"} => workers[i].state.next = "audit"
       /\ workers[i].pc \in {"audit", "audited"} => saved.next \in {"audit", "end"}
       /\ workers[i].pc = "audited" =>
            workers[i].state.next = "end" /\ workers[i].state.audit >= 1
  /\ saved.next = "end" => saved.audit >= 1

Shape == Slots /\ Fresh /\ Alone /\ Opening /\ Marching

LEMMA BoundsAreNat ==
  MaxCalls \in Nat /\ MaxTimeouts \in Nat /\ MaxLosses \in Nat /\ MaxMoves \in Nat
  BY BoundsAssumption

LEMMA NoStateTyped == NoState \in States /\ NoState.audit = 0
  BY DEF NoState, States, NoVerdict, Verdict, Statuses

LEMMA IdleTyped == Idle \in CallRecords /\ Off \in WorkerRecords /\ Off.state = NoState
  BY NoStateTyped
  DEF Idle, Off, CallRecords, WorkerRecords, VerdictRecords, People0, Ops, CallPCs, WorkerPCs,
      NoVerdict, Verdict

LEMMA InitTyped == Init => Typed
  <1> SUFFICES ASSUME Init PROVE Typed
    OBVIOUS
  <1>1. Len(audit) = 0 /\ audit \in Seq(AuditRecords) /\ runs \in Seq(VerdictRecords)
    BY DEF Init
  <1>2. quorum \in Quorums
    BY DEF Init, Quorums, Policies
  <1>3. submitter \in People0
    BY DEF Init, People0
  <1>4. saved \in States /\ saved.audit <= Len(audit) /\ recorded \in [Keys -> 0..Len(audit)]
    BY <1>1, NoStateTyped DEF Init
  <1>5. /\ workers \in [1..MaxCalls -> WorkerRecords]
        /\ \A i \in 1..MaxCalls : workers[i].state.audit <= Len(audit)
    BY <1>1, NoStateTyped, IdleTyped DEF Init
  <1>6. call \in CallRecords /\ calls \in 0..MaxCalls
    BY IdleTyped, BoundsAreNat DEF Init
  <1>7. /\ events \in SUBSET ApprovalEvents /\ claimed \in SUBSET Keys
        /\ timeouts \in 0..MaxTimeouts /\ losses \in 0..MaxLosses
    BY BoundsAreNat DEF Init
  <1>8. pending \in BOOLEAN
    BY Zenon DEF Init
  <1> QED BY <1>1, <1>2, <1>3, <1>4, <1>5, <1>6, <1>7, <1>8 DEF Typed

LEMMA StatusesTyped ==
  ASSUME NEW type \in VerdictTypes \cup {"none"}
  PROVE  TerminalStatuses(type) \subseteq Statuses
  BY DEF TerminalStatuses, RunStatuses, VerdictTypes, Approving, Statuses, Terminal

LEMMA EventTyped ==
  ASSUME NEW p \in Principals, NEW d \in ApprovalDecisions, NEW r \in Roles \cup {NoRole}
  PROVE  Event(p, d, r) \in ApprovalEvents
  BY DEF Event, ApprovalEvents

LEMMA VotesTyped ==
  ASSUME NEW p \in Principals, NEW approve \in BOOLEAN, VotingRoles(p, quorum) # {}
  PROVE  Votes(p, approve) \in SUBSET ApprovalEvents
  <1> DEFINE one == CHOOSE r \in VotingRoles(p, quorum) : TRUE
  <1>1. VotingRoles(p, quorum) \subseteq Roles
    BY DEF VotingRoles, RolesFor
  <1>2. one \in Roles
    BY <1>1
  <1>3. APPROVE \in ApprovalDecisions /\ REJECT \in ApprovalDecisions
    BY DEF ApprovalDecisions
  <1>4. Event(p, REJECT, one) \in ApprovalEvents
    BY <1>2, <1>3, EventTyped
  <1>5. \A r \in VotingRoles(p, quorum) : Event(p, APPROVE, r) \in ApprovalEvents
    BY <1>1, <1>3, EventTyped
  <1> QED BY <1>4, <1>5 DEF Votes

\* A call begins: what it puts in "call" has its type.
LEMMA CallTyped ==
  ASSUME NEW op \in Ops, NEW p \in Principals, NEW verdict \in VerdictRecords,
         NEW todo \in SUBSET ApprovalEvents, NEW pc \in CallPCs
  PROVE  Call(op, p, verdict, todo, pc) \in CallRecords
  BY DEF Call, CallRecords, People0

LEMMA VerdictTyped ==
  ASSUME NEW type \in VerdictTypes, NEW p \in Principals, NEW k \in Keys \cup {NoKey}
  PROVE  Verdict(type, p, k) \in VerdictRecords
  BY DEF Verdict, VerdictRecords, People0

LEMMA NoVerdictTyped == NoVerdict \in VerdictRecords
  BY DEF NoVerdict, Verdict, VerdictRecords, People0

LEMMA PeopleTyped ==
  ASSUME Typed, People
  PROVE  Typed'
  <1> USE BoundsAreNat
  <1>1. ASSUME NEW p \in Submitters, Submit(p) PROVE Typed'
    <2>1. p \in Principals
      BY SubmittersAssumption
    <2>2. call' \in CallRecords
      BY <1>1, <2>1, CallTyped, NoVerdictTyped DEF Submit, Begin, Ops, CallPCs
    <2>3. [pc |-> "deliberate", state |-> NoState] \in WorkerRecords
      BY NoStateTyped DEF WorkerRecords, WorkerPCs
    <2>4. calls' \in 0..MaxCalls /\ calls + 1 \in 1..MaxCalls
      BY <1>1 DEF Submit, Free, Begin, Typed
    <2>5. /\ workers' \in [1..MaxCalls -> WorkerRecords]
          /\ \A i \in 1..MaxCalls : workers'[i].state.audit <= Len(audit)
      BY <1>1, <2>3, <2>4, NoStateTyped DEF Submit, Typed
    <2>6. submitter' \in People0
      BY <1>1, <2>1 DEF Submit, People0
    <2> QED BY <1>1, <2>2, <2>4, <2>5, <2>6 DEF Submit, Typed, stores
  <1>2. ASSUME NEW p \in Principals, Send(p) PROVE Typed'
    <2>1. call' \in CallRecords
      BY <1>2, CallTyped, VerdictTyped, EventTyped
      DEF Send, Begin, Ops, CallPCs, VerdictTypes, ApprovalDecisions
    <2>2. calls' \in 0..MaxCalls
      BY <1>2 DEF Send, Existing, Free, Begin, Typed
    <2> QED BY <1>2, <2>1, <2>2 DEF Send, Typed, stores, history
  <1>3. ASSUME NEW p \in Principals, Withdraw(p) PROVE Typed'
    <2>1. call' \in CallRecords
      BY <1>3, CallTyped, VerdictTyped, EventTyped
      DEF Withdraw, Begin, Ops, CallPCs, VerdictTypes, ApprovalDecisions
    <2>2. calls' \in 0..MaxCalls
      BY <1>3 DEF Withdraw, Existing, Free, Begin, Typed
    <2> QED BY <1>3, <2>1, <2>2 DEF Withdraw, Typed, stores, history
  <1>4. ASSUME NEW p \in Principals, Acknowledge(p) PROVE Typed'
    <2>1. Event(p, ACK, NoRole) \in ApprovalEvents
      BY EventTyped DEF ApprovalDecisions
    <2>2. calls' \in 0..MaxCalls
      BY <1>4 DEF Acknowledge, Existing, Free, Typed
    <2> QED BY <1>4, <2>1, <2>2 DEF Acknowledge, Typed, history
  <1>5. ASSUME NEW p \in Principals, NEW approve \in BOOLEAN, Decide(p, approve) PROVE Typed'
    <2>1. Votes(p, approve) \in SUBSET ApprovalEvents
      BY <1>5, VotesTyped DEF Decide, Authorized
    <2>2. call' \in CallRecords
      BY <1>5, <2>1, CallTyped, NoVerdictTyped DEF Decide, Begin, Ops, CallPCs
    <2>3. calls' \in 0..MaxCalls
      BY <1>5 DEF Decide, Existing, Free, Begin, Typed
    <2> QED BY <1>5, <2>2, <2>3 DEF Decide, Typed, stores, history
  <1>6. ASSUME NEW p \in Principals, NEW type \in CastTypes, NEW k \in Keys, Cast(p, type, k)
        PROVE Typed'
    <2>1. call' \in CallRecords
      BY <1>6, CallTyped, VerdictTyped, CastTypesAssumption DEF Cast, Begin, Ops, CallPCs
    <2>2. calls' \in 0..MaxCalls
      BY <1>6 DEF Cast, Existing, Free, Begin, Typed
    <2> QED BY <1>6, <2>1, <2>2 DEF Cast, Typed, history
  <1> QED BY <1>1, <1>2, <1>3, <1>4, <1>5, <1>6 DEF People

\* The states a call or a worker makes of the one it holds.
LEMMA StateChanges ==
  ASSUME NEW s \in States
  PROVE  /\ \A x \in Statuses :
              [s EXCEPT !.status = x] \in States /\ [s EXCEPT !.status = x].audit = s.audit
         /\ \A v \in VerdictRecords :
              [s EXCEPT !.verdict = v] \in States /\ [s EXCEPT !.verdict = v].audit = s.audit
         /\ \A x \in Statuses, b \in BOOLEAN :
              /\ [s EXCEPT !.status = x, !.next = "audit", !.results = b] \in States
              /\ [s EXCEPT !.status = x, !.next = "audit", !.results = b].audit = s.audit
         /\ \A n \in Nat :
              /\ [s EXCEPT !.next = "end", !.audit = n] \in States
              /\ [s EXCEPT !.next = "end", !.audit = n].audit = n
  BY DEF States, VerdictRecords, People0

LEMMA StampTyped ==
  ASSUME NEW s \in States, NEW p \in People0
  PROVE  /\ [s EXCEPT !.by = p, !.status = "awaiting_requester_review"] \in States
         /\ [s EXCEPT !.by = p, !.status = "awaiting_requester_review"].audit = s.audit
  BY DEF States, People0, Statuses

LEMMA SuspendedTyped ==
  /\ [NoState EXCEPT !.next = "execute", !.status = "evaluated"] \in States
  /\ [NoState EXCEPT !.next = "execute", !.status = "evaluated"].audit = 0
  BY NoStateTyped DEF NoState, States

LEMMA GotoTyped ==
  ASSUME Typed, NEW pc \in CallPCs, Goto(pc)
  PROVE  call' \in CallRecords
  BY DEF Typed, Goto, CallRecords

LEMMA CallStepTyped ==
  ASSUME Typed, Shape, CallStep
  PROVE  Typed'
  <1> USE BoundsAreNat
  <1>1. CASE AppendEvent
    <2>1. call' \in CallRecords /\ events' \in SUBSET ApprovalEvents
      BY <1>1 DEF AppendEvent, Typed, CallRecords
    <2> QED BY <1>1, <2>1 DEF AppendEvent, Typed, history
  <1>2. CASE Fold
    <2>1. ASSUME NEW type \in VerdictTypes
          PROVE  [call EXCEPT !.pc = "resume", !.verdict = Verdict(type, call.actor, NoKey)]
                   \in CallRecords
      BY DEF Typed, CallRecords, Verdict, VerdictRecords, CallPCs
    <2>2. \A x \in DOMAIN OutcomeVerdict : OutcomeVerdict[x] \in VerdictTypes
      BY DEF OutcomeVerdict, VerdictTypes
    <2>3. call' \in CallRecords
      BY <1>2, <2>1, <2>2, GotoTyped, IdleTyped DEF Fold, CallPCs
    <2> QED BY <1>2, <2>3 DEF Fold, Typed, stores, history
  <1>3. CASE Hold
    <2>1. call' \in CallRecords
      BY <1>3, GotoTyped DEF Hold, CallPCs
    <2>3. saved \in States /\ "awaiting_approval" \in Statuses
      BY DEF Typed, Statuses
    <2>2. saved' \in States /\ saved'.audit = saved.audit
      BY <1>3, <2>3, StateChanges DEF Hold
    <2> QED BY <1>3, <2>1, <2>2 DEF Hold, Typed, stores, history
  <1>4. CASE Enqueue
    BY <1>4, IdleTyped DEF Enqueue, Typed, history
  <1>5. CASE Merge
    <2>1. call' \in CallRecords /\ call.verdict \in VerdictRecords
      BY <1>5, GotoTyped DEF Merge, CallPCs, Typed, CallRecords
    <2>2. saved' \in States /\ saved'.audit = saved.audit
      <3>1. saved \in States
        BY DEF Typed
      <3>2. /\ [saved EXCEPT !.verdict = call.verdict] \in States
            /\ [saved EXCEPT !.verdict = call.verdict].audit = saved.audit
        BY <2>1, <3>1, StateChanges
      <3>3. saved' \in {saved, [saved EXCEPT !.verdict = call.verdict]}
        BY <1>5 DEF Merge
      <3> QED BY <3>1, <3>2, <3>3, Zenon
    <2> QED BY <1>5, <2>1, <2>2 DEF Merge, Typed, stores, history
  <1>6. CASE Launch
    <2>1. call' \in CallRecords
      BY <1>6, GotoTyped DEF Launch, CallPCs
    <2>2. saved.next # "end" => saved.next \in WorkerPCs
      BY <1>6 DEF Launch, Typed, States, WorkerPCs, Shape, Fresh, Slots, Opening
    <2>3. /\ workers' \in [1..MaxCalls -> WorkerRecords]
          /\ \A i \in 1..MaxCalls : workers'[i].state.audit <= Len(audit)
      <3>1. /\ saved.next # "end" => [pc |-> saved.next, state |-> saved] \in WorkerRecords
            /\ saved.audit <= Len(audit) /\ saved \in States
        BY <2>2 DEF Typed, WorkerRecords
      <3>2. Off \in WorkerRecords /\ Off.state.audit <= Len(audit)
        BY IdleTyped, NoStateTyped DEF Typed
      <3> DEFINE w == IF saved.next = "end" THEN Off ELSE [pc |-> saved.next, state |-> saved]
      <3>3. w \in WorkerRecords /\ w.state.audit <= Len(audit)
        BY <3>1, <3>2
      <3>4. workers' = [workers EXCEPT ![calls] = w]
        BY <1>6 DEF Launch
      <3> HIDE DEF w
      <3> QED BY <3>3, <3>4 DEF Typed
    <2> QED BY <1>6, <2>1, <2>3 DEF Launch, Typed, stores, history
  <1>7. CASE Return
    <2>1. call' \in CallRecords
      BY <1>7, GotoTyped DEF Return, CallPCs
    <2> QED BY <1>7, <2>1 DEF Return, Typed, stores, history
  <1>8. CASE Settle
    <2>1. call' \in CallRecords
      BY <1>8, GotoTyped, IdleTyped DEF Settle, CallPCs
    <2>2. saved' \in States /\ saved'.audit = saved.audit
      <3>1. saved \in States /\ call.actor \in People0
        BY DEF Typed, CallRecords
      <3>2. {"awaiting_requester_review", "withdrawn", "rejected"} \subseteq Statuses
        BY DEF Statuses, Terminal
      <3>3. \A x \in {"withdrawn", "rejected"} :
              [saved EXCEPT !.status = x] \in States /\ [saved EXCEPT !.status = x].audit = saved.audit
        BY <3>1, <3>2, StateChanges
      <3>4. /\ [saved EXCEPT !.by = call.actor, !.status = "awaiting_requester_review"] \in States
            /\ [saved EXCEPT !.by = call.actor, !.status = "awaiting_requester_review"].audit
                 = saved.audit
        BY <3>1, StampTyped
      <3>5. \/ saved' = saved
            \/ saved' = [saved EXCEPT !.by = call.actor, !.status = "awaiting_requester_review"]
            \/ \E x \in {"withdrawn", "rejected"} : saved' = [saved EXCEPT !.status = x]
        BY <1>8 DEF Settle
      <3> QED BY <3>1, <3>3, <3>4, <3>5, Zenon
    <2>3. recorded' \in [Keys -> 0..Len(audit)]
      BY <1>8 DEF Settle, Typed, States
    <2> QED BY <1>8, <2>1, <2>2, <2>3 DEF Settle, Typed, history
  <1>9. CASE Dequeue
    BY <1>9, IdleTyped DEF Dequeue, Typed, history
  <1> QED BY <1>1, <1>2, <1>3, <1>4, <1>5, <1>6, <1>7, <1>8, <1>9 DEF CallStep

LEMMA WorkerTyped ==
  ASSUME Typed, NEW i \in 1..MaxCalls, WorkerStep(i)
  PROVE  Typed'
  <1> USE BoundsAreNat
  <1> DEFINE w == workers[i]
  <1>w. /\ w \in WorkerRecords /\ w.pc \in WorkerPCs /\ w.state \in States
        /\ w.state.audit <= Len(audit) /\ saved.audit <= Len(audit)
        /\ w.state.verdict \in VerdictRecords
    BY DEF Typed, WorkerRecords, States, VerdictRecords, People0
  <1>1. CASE Deliberate(i)
    <2>1. quorum' \in Quorums /\ saved' \in States /\ saved'.audit = 0
      BY <1>1, SuspendedTyped, FaultQuorumsAssumption DEF Deliberate
    <2>2. /\ workers' \in [1..MaxCalls -> WorkerRecords]
          /\ \A j \in 1..MaxCalls : workers'[j].state.audit <= Len(audit)
      BY <1>1, IdleTyped, NoStateTyped DEF Deliberate, Typed
    <2> QED BY <1>1, <2>1, <2>2 DEF Deliberate, Typed, stores, history
  <1>2. CASE Execute(i)
    <2>1. runs' \in Seq(VerdictRecords)
      BY <1>2, <1>w DEF Execute, Typed
    <2>2. RunsPlan(w.state.verdict) \in BOOLEAN
      BY DEF RunsPlan
    <2>3. PICK s \in TerminalStatuses(w.state.verdict.type) :
            workers' = [workers EXCEPT ![i] =
              [pc |-> "executed",
               state |-> [@.state EXCEPT !.status = s, !.next = "audit",
                                         !.results = RunsPlan(w.state.verdict)]]]
      BY <1>2 DEF Execute
    <2>4. s \in Statuses
      BY <1>w, StatusesTyped DEF VerdictRecords
    <2> DEFINE x == [w.state EXCEPT !.status = s, !.next = "audit", !.results = RunsPlan(w.state.verdict)]
    <2>5. x \in States /\ x.audit = w.state.audit
      BY <1>w, <2>2, <2>4, StateChanges
    <2>6. workers' = [workers EXCEPT ![i] = [pc |-> "executed", state |-> x]]
      BY <2>3
    <2> HIDE DEF x
    <2>7. [pc |-> "executed", state |-> x] \in WorkerRecords
      BY <2>5 DEF WorkerRecords, WorkerPCs
    <2>8. /\ workers' \in [1..MaxCalls -> WorkerRecords]
          /\ \A j \in 1..MaxCalls : workers'[j].state.audit <= Len(audit)
      BY <1>w, <2>5, <2>6, <2>7 DEF Typed
    <2> QED BY <1>2, <2>1, <2>8 DEF Execute, Typed, stores, history
  <1>3. CASE SaveExecuted(i)
    <2>1. /\ workers' \in [1..MaxCalls -> WorkerRecords]
          /\ \A j \in 1..MaxCalls : workers'[j].state.audit <= Len(audit)
      BY <1>3, <1>w DEF SaveExecuted, Typed, WorkerRecords, WorkerPCs
    <2> QED BY <1>3, <1>w, <2>1 DEF SaveExecuted, Typed, stores, history
  <1>4. CASE WriteRecord(i)
    <2> DEFINE r == [verdict |-> w.state.verdict, status |-> w.state.status, executed |-> w.state.results]
               x == [w.state EXCEPT !.next = "end", !.audit = Len(audit')]
    <2>1. r \in AuditRecords
      BY <1>w DEF AuditRecords, States
    <2>2. audit' = Append(audit, r)
      BY <1>4 DEF WriteRecord
    <2>3. audit' \in Seq(AuditRecords) /\ Len(audit') = Len(audit) + 1
      BY <2>1, <2>2 DEF Typed
    <2>4. workers' = [workers EXCEPT ![i] = [pc |-> "audited", state |-> x]]
      BY <1>4 DEF WriteRecord
    <2>5. x \in States /\ x.audit = Len(audit')
      <3>1. Len(audit') \in Nat
        BY <2>3
      <3> QED BY <1>w, <3>1, StateChanges
    <2> HIDE DEF r, x
    <2>6. [pc |-> "audited", state |-> x] \in WorkerRecords
      BY <2>5 DEF WorkerRecords, WorkerPCs
    <2>7. Len(audit) \in Nat
      BY DEF Typed
    <2>8. /\ workers' \in [1..MaxCalls -> WorkerRecords]
          /\ \A j \in 1..MaxCalls : workers'[j].state.audit <= Len(audit')
      <3>1. \A j \in 1..MaxCalls : workers[j].state.audit \in Nat
        BY DEF Typed, WorkerRecords, States
      <3> QED BY <2>3, <2>4, <2>5, <2>6, <2>7, <3>1 DEF Typed
    <2>9. recorded' \in [Keys -> 0..Len(audit')] /\ saved'.audit <= Len(audit')
      <3>1. 0..Len(audit) \subseteq 0..Len(audit') /\ saved.audit \in Nat
        BY <2>3, <2>7 DEF Typed, States
      <3> QED BY <1>4, <2>3, <2>7, <3>1 DEF WriteRecord, Typed
    <2> QED BY <1>4, <2>3, <2>8, <2>9 DEF WriteRecord, Typed, history
  <1>5. CASE SaveAudited(i)
    <2>1. /\ workers' \in [1..MaxCalls -> WorkerRecords]
          /\ \A j \in 1..MaxCalls : workers'[j].state.audit <= Len(audit)
      BY <1>5, IdleTyped, NoStateTyped DEF SaveAudited, Typed
    <2> QED BY <1>5, <1>w, <2>1 DEF SaveAudited, Typed, stores, history
  <1> QED BY <1>1, <1>2, <1>3, <1>4, <1>5 DEF WorkerStep

LEMMA FaultTyped ==
  ASSUME Typed, Faults
  PROVE  Typed'
  <1> USE BoundsAreNat, IdleTyped, NoStateTyped
  <1>1. CASE Expire
    BY <1>1 DEF Expire, Typed, stores
  <1>2. CASE Crash
    BY <1>2 DEF Crash, Typed, stores
  <1>3. ASSUME NEW i \in DOMAIN workers, NodeFails(i) PROVE Typed'
    BY <1>3 DEF NodeFails, Typed, stores
  <1> QED BY <1>1, <1>2, <1>3 DEF Faults

-----------------------------------------------------------------------------
(***************************************************************************)
(* The shape is kept.                                                      *)
(***************************************************************************)

LEMMA InitShaped == Init => Shape
  <1> SUFFICES ASSUME Init PROVE Shape
    OBVIOUS
  <1>1. Slots /\ Alone /\ Opening
    BY BoundsAreNat DEF Init, Slots, Alone, Opening, Under, Idle, Off
  <1>2. Fresh
    BY DEF Init, Fresh, Running, Idle, Off
  <1>3. Marching
    BY DEF Init, Marching, Running, Idle, Off, NoState
  <1> QED BY <1>1, <1>2, <1>3 DEF Shape

LEMMA PeopleShaped ==
  ASSUME Typed, Shape, People
  PROVE  Shape'
  <1> USE BoundsAreNat DEF Shape, Running, Under, Existing, Free, Begin, Call, Idle
  <1>1. ASSUME NEW p \in Submitters, Submit(p) PROVE Shape'
    <2>0. /\ calls' = calls + 1 /\ calls + 1 \in 1..MaxCalls /\ call' # Idle
          /\ workers' = [workers EXCEPT ![calls + 1] = [pc |-> "deliberate", state |-> NoState]]
      BY <1>1 DEF Submit, Typed
    <2>a. Slots'
      BY <1>1, <2>0 DEF Submit, Typed, Slots, Working
    <2>b. Alone'
      BY <1>1, <2>0 DEF Submit, Typed, Alone, Working
    <2>1. Slots' /\ Alone'
      BY <2>a, <2>b
    <2>2. Fresh' /\ Opening'
      BY <1>1 DEF Submit, Typed, Fresh, Opening, stores, Working, WorkerRecords, NoState
    <2>3. Marching'
      BY <1>1 DEF Submit, Typed, Marching, stores, Working, WorkerRecords
    <2> QED BY <2>1, <2>2, <2>3
  <1>2. ASSUME NEW p \in Principals, Send(p) PROVE Shape'
    <2>a. Slots'
      BY <1>2 DEF Send, Typed, Slots, stores, history
    <2>b. Alone'
      BY <1>2 DEF Send, Alone, stores, history
    <2>1. Slots' /\ Alone'
      BY <2>a, <2>b
    <2>2. Fresh' /\ Opening'
      BY <1>2 DEF Send, Fresh, Opening, stores, history
    <2>3. Marching'
      BY <1>2 DEF Send, Marching, stores, history, Verdict
    <2> QED BY <2>1, <2>2, <2>3
  <1>3. ASSUME NEW p \in Principals, Withdraw(p) PROVE Shape'
    <2>a. Slots'
      BY <1>3 DEF Withdraw, Typed, Slots, stores, history
    <2>b. Alone'
      BY <1>3 DEF Withdraw, Alone, stores, history
    <2>1. Slots' /\ Alone'
      BY <2>a, <2>b
    <2>2. Fresh' /\ Opening'
      BY <1>3 DEF Withdraw, Fresh, Opening, stores, history
    <2>3. Marching'
      BY <1>3 DEF Withdraw, Marching, stores, history, Verdict
    <2> QED BY <2>1, <2>2, <2>3
  <1>4. ASSUME NEW p \in Principals, Acknowledge(p) PROVE Shape'
    <2>1. Slots' /\ Alone'
      BY <1>4 DEF Acknowledge, Typed, Slots, Alone, history
    <2>2. Fresh' /\ Opening'
      BY <1>4 DEF Acknowledge, Fresh, Opening, history
    <2>3. Marching'
      BY <1>4 DEF Acknowledge, Marching, history
    <2> QED BY <2>1, <2>2, <2>3
  <1>5. ASSUME NEW p \in Principals, NEW approve \in BOOLEAN, Decide(p, approve) PROVE Shape'
    <2>a. Slots'
      BY <1>5 DEF Decide, Typed, Slots, stores, history
    <2>b. Alone'
      BY <1>5 DEF Decide, Alone, stores, history
    <2>1. Slots' /\ Alone'
      BY <2>a, <2>b
    <2>2. Fresh' /\ Opening'
      BY <1>5 DEF Decide, Fresh, Opening, stores, history
    <2>3. Marching'
      BY <1>5 DEF Decide, Marching, stores, history
    <2> QED BY <2>1, <2>2, <2>3
  <1>6. ASSUME NEW p \in Principals, NEW type \in CastTypes, NEW k \in Keys, Cast(p, type, k)
        PROVE Shape'
    <2>1. Slots' /\ Alone'
      BY <1>6 DEF Cast, Typed, Slots, Alone, history
    <2>2. Fresh' /\ Opening'
      BY <1>6 DEF Cast, Fresh, Opening, history
    <2>3. Marching'
      BY <1>6, CastTypesAssumption DEF Cast, Marching, history, Verdict, VerdictTypes
    <2> QED BY <2>1, <2>2, <2>3
  <1> QED BY <1>1, <1>2, <1>3, <1>4, <1>5, <1>6 DEF People

\* What a call that goes on keeps of itself.
LEMMA GotoFields ==
  ASSUME Typed, NEW pc \in CallPCs, Goto(pc)
  PROVE  /\ call'.pc = pc /\ call'.op = call.op /\ call'.actor = call.actor
         /\ call'.verdict = call.verdict /\ call'.todo = call.todo
  BY DEF Typed, Goto, CallRecords

LEMMA CallStepShaped ==
  ASSUME Typed, Shape, CallStep
  PROVE  Shape'
  <1> USE BoundsAreNat DEF Shape, Running, Under, Goto, Idle
  <1>1. CASE AppendEvent
    <2>0. /\ call'.pc = call.pc /\ call'.op = call.op /\ call'.actor = call.actor
          /\ call'.verdict = call.verdict
      BY <1>1 DEF AppendEvent, Typed, CallRecords
    <2>0a. call.pc = "log"
      BY <1>1 DEF AppendEvent
    <2>0b. UNCHANGED <<saved, claimed, audit, runs, workers, calls, submitter>>
      BY <1>1 DEF AppendEvent, history
    <2>1. Slots' /\ Alone' /\ Marching'
      BY <2>0, <2>0a, <2>0b DEF Slots, Alone, Marching
    <2>2. call.op # "submit" /\ call.op # "none"
      BY <2>0a DEF Opening, Slots
    <2>3. Fresh' /\ Opening'
      BY <2>0, <2>0b, <2>2 DEF Fresh, Opening
    <2> QED BY <2>1, <2>3
  <1>2. CASE Fold
    <2>0. call.pc = "log" /\ call.op # "submit" /\ call.op # "none"
      BY <1>2 DEF Fold, Opening, Slots
    <2>0b. UNCHANGED <<saved, events, claimed, audit, runs, workers, calls, submitter>>
      BY <1>2 DEF Fold, stores, history
    <2>0c. \/ call' = Idle
           \/ /\ call'.op = call.op /\ call'.pc \in {"resume", "hold"} /\ call'.verdict.type # "none"
              /\ call.op = "withdraw" => call'.verdict = call.verdict
      <3>1. CASE call.op \in {"send", "withdraw"}
        BY <1>2, <3>1, GotoFields DEF Fold, CallPCs, Marching
      <3>2. ASSUME NEW x \in DOMAIN OutcomeVerdict,
                   call' = [call EXCEPT !.pc = "resume",
                              !.verdict = Verdict(OutcomeVerdict[x], call.actor, NoKey)]
            PROVE  call'.op = call.op /\ call'.pc = "resume" /\ call'.verdict.type # "none"
        <4>1. OutcomeVerdict[x] # "none"
          BY DEF OutcomeVerdict
        <4> QED BY <3>2, <4>1 DEF Typed, CallRecords, Verdict
      <3>3. CASE call.op \notin {"send", "withdraw"}
        BY <1>2, <3>2, <3>3 DEF Fold
      <3> QED BY <3>1, <3>3
    <2>1. Slots' /\ Alone' /\ Marching'
      BY <2>0, <2>0b, <2>0c DEF Slots, Alone, Marching
    <2>2. Fresh' /\ Opening'
      BY <2>0, <2>0b, <2>0c DEF Fresh, Opening
    <2> QED BY <2>1, <2>2
  <1>3. CASE Hold
    <2>1. Slots'
      BY <1>3 DEF Hold, Typed, Slots, stores, history
    <2>2. Fresh'
      BY <1>3 DEF Hold, Fresh, Slots, Opening, Alone, stores, history
    <2>3. Alone'
      BY <1>3 DEF Hold, Alone, Fresh, Opening, Slots, stores, history
    <2>4. Opening'
      BY <1>3 DEF Hold, Opening, Slots, Typed, Working, stores, history
    <2>5. Marching'
      BY <1>3 DEF Hold, Marching, Opening, Slots, Fresh, Typed, stores, history
    <2> QED BY <2>1, <2>2, <2>3, <2>4, <2>5
  <1>4. CASE Enqueue
    <2>1. Slots'
      BY <1>4 DEF Enqueue, Typed, Slots, stores, history
    <2>2. Fresh'
      BY <1>4 DEF Enqueue, Fresh, Slots, Opening, Alone, stores, history
    <2>3. Alone'
      BY <1>4 DEF Enqueue, Alone, Fresh, Opening, Slots, stores, history
    <2>4. Opening'
      BY <1>4 DEF Enqueue, Opening, Slots, Typed, Working, stores, history
    <2>5. Marching'
      BY <1>4 DEF Enqueue, Marching, Opening, Slots, Fresh, Typed, stores, history
    <2> QED BY <2>1, <2>2, <2>3, <2>4, <2>5
  <1>5. CASE Merge
    <2>0. call.pc = "resume" /\ call.op # "submit" /\ call.op # "none"
      BY <1>5 DEF Merge, Opening, Slots
    <2>0a. /\ call'.op = call.op /\ call'.verdict = call.verdict
           /\ call'.pc = IF saved.next = "end" THEN "settle" ELSE "launch"
      BY <1>5, GotoFields DEF Merge, CallPCs
    <2>0b. UNCHANGED <<events, claimed, audit, runs, workers, calls, submitter>>
      BY <1>5 DEF Merge, stores, history
    <2>0c. /\ saved'.next = saved.next /\ saved'.by = saved.by /\ saved'.audit = saved.audit
           /\ saved.next # "end" => saved'.verdict = call.verdict
      BY <1>5 DEF Merge, Typed, States
    <2>0d. saved.next # "absent"
      BY <2>0 DEF Fresh
    <2>1. Slots' /\ Alone' /\ Fresh' /\ Opening'
      BY <2>0, <2>0a, <2>0b, <2>0c, <2>0d DEF Slots, Alone, Fresh, Opening
    <2>2. Marching'
      BY <2>0, <2>0a, <2>0b, <2>0c DEF Marching
    <2> QED BY <2>1, <2>2
  <1>6. CASE Launch
    <2>0. call.pc = "launch" /\ call.op # "submit" /\ call.op # "none"
      BY <1>6 DEF Launch, Opening, Slots
    <2>0a. call'.op = call.op /\ call'.verdict = call.verdict /\ call'.pc = "wait"
      BY <1>6, GotoFields DEF Launch, CallPCs
    <2>0b. UNCHANGED <<saved, events, claimed, audit, runs, calls, submitter>>
      BY <1>6 DEF Launch, stores, history
    <2>0d. saved.next \in {"execute", "audit", "end"}
      BY <2>0 DEF Fresh, Typed, States
    <2> DEFINE w == IF saved.next = "end" THEN Off ELSE [pc |-> saved.next, state |-> saved]
    <2>0e. workers' = [workers EXCEPT ![calls] = w] /\ calls \in 1..MaxCalls
      BY <1>6, <2>0 DEF Launch, Slots, Typed
    <2>0f. \/ w.pc = "off" /\ saved.next = "end"
           \/ w.pc = saved.next /\ w.state = saved /\ saved.next # "end"
      BY DEF Off
    <2> HIDE DEF w
    <2>1. Slots'
      BY <2>0, <2>0a, <2>0b, <2>0e DEF Slots, Typed
    <2>2. Alone' /\ Fresh' /\ Opening'
      BY <2>0, <2>0a, <2>0b, <2>0d, <2>0e, <2>0f DEF Alone, Fresh, Opening, Typed
    <2>3. Marching'
      <3>1. saved.verdict.type # "none"
        BY <2>0 DEF Marching
      <3>2. ASSUME NEW i \in 1..MaxCalls, workers'[i].pc \notin {"off", "deliberate"}
            PROVE  /\ workers'[i].state.verdict.type # "none"
                   /\ workers'[i].state.by = saved.by
                   /\ workers'[i].pc = "execute" => workers'[i].state.next = "execute"
                   /\ workers'[i].pc \in {"executed", "audit"} => workers'[i].state.next = "audit"
                   /\ workers'[i].pc \in {"audit", "audited"} => saved.next \in {"audit", "end"}
                   /\ workers'[i].pc = "audited" =>
                        workers'[i].state.next = "end" /\ workers'[i].state.audit >= 1
        <4>1. CASE i = calls
          BY <2>0d, <2>0e, <2>0f, <3>1, <3>2, <4>1 DEF Typed
        <4>2. CASE i # calls
          BY <2>0e, <3>2, <4>2 DEF Typed, Marching
        <4> QED BY <4>1, <4>2
      <3> QED BY <2>0a, <2>0, <2>0b, <3>2 DEF Marching
    <2> QED BY <2>1, <2>2, <2>3
  <1>7. CASE Return
    <2>1. Slots'
      BY <1>7 DEF Return, Typed, Slots, stores, history
    <2>2. Fresh'
      BY <1>7 DEF Return, Fresh, Slots, Opening, Alone, stores, history
    <2>3. Alone'
      BY <1>7 DEF Return, Alone, Fresh, Opening, Slots, stores, history
    <2>4. Opening'
      BY <1>7 DEF Return, Opening, Slots, Typed, Working, stores, history
    <2>5. Marching'
      BY <1>7 DEF Return, Marching, Opening, Slots, Fresh, Typed, stores, history
    <2> QED BY <2>1, <2>2, <2>3, <2>4, <2>5
  <1>8. CASE Settle
    <2>0. call.pc = "settle" /\ call.op # "none"
      BY <1>8 DEF Settle, Slots
    <2>0a. \/ call' = Idle
           \/ /\ call'.op = call.op /\ call'.verdict = call.verdict /\ call'.pc = "dequeue"
              /\ call.op # "submit"
      BY <1>8, GotoFields DEF Settle, CallPCs
    <2>0b. UNCHANGED <<events, claimed, audit, runs, workers, calls, submitter>>
      BY <1>8 DEF Settle, history
    <2>0c. /\ saved'.next = saved.next /\ saved'.audit = saved.audit
           /\ call.op # "submit" => saved'.by = saved.by
           /\ call.op # "submit" \/ \A i \in 1..MaxCalls : workers[i].pc \in {"off", "deliberate"}
      BY <1>8 DEF Settle, Opening, Typed, States
    <2>0d. saved.next # "absent"
      BY <2>0 DEF Fresh, Opening
    <2>1. Slots' /\ Alone' /\ Fresh' /\ Opening'
      BY <2>0, <2>0a, <2>0b, <2>0c, <2>0d DEF Slots, Alone, Fresh, Opening
    <2>2. Marching'
      BY <2>0, <2>0a, <2>0b, <2>0c DEF Marching
    <2> QED BY <2>1, <2>2
  <1>9. CASE Dequeue
    <2>1. Slots'
      BY <1>9 DEF Dequeue, Typed, Slots, stores, history
    <2>2. Fresh'
      BY <1>9 DEF Dequeue, Fresh, Slots, Opening, Alone, stores, history
    <2>3. Alone'
      BY <1>9 DEF Dequeue, Alone, Fresh, Opening, Slots, stores, history
    <2>4. Opening'
      BY <1>9 DEF Dequeue, Opening, Slots, Typed, Working, stores, history
    <2>5. Marching'
      BY <1>9 DEF Dequeue, Marching, Opening, Slots, Fresh, Typed, stores, history
    <2> QED BY <2>1, <2>2, <2>3, <2>4, <2>5
  <1> QED BY <1>1, <1>2, <1>3, <1>4, <1>5, <1>6, <1>7, <1>8, <1>9 DEF CallStep

LEMMA WorkerShaped ==
  ASSUME Typed, Shape, NEW i \in 1..MaxCalls, WorkerStep(i)
  PROVE  Shape'
  <1> USE BoundsAreNat DEF Shape, Running, Under
  <1>1. CASE Deliberate(i)
    <2>1. Slots'
      BY <1>1 DEF Deliberate, Typed, Slots, Off, NoState, stores, history
    <2>2. Fresh'
      BY <1>1 DEF Deliberate, Fresh, Slots, Opening, Alone, Off, NoState, stores, history
    <2>3. Alone'
      <3>1. \A j \in 1..MaxCalls : workers'[j].pc = "off"
        BY <1>1 DEF Deliberate, Alone, Typed, Off
      <3> QED BY <3>1 DEF Alone
    <2>4. Opening'
      BY <1>1 DEF Deliberate, Opening, Slots, Typed, Working, Off, NoState, stores, history
    <2>5. Marching'
      <3>1. saved'.next = "execute" /\ UNCHANGED call /\ call.pc \notin {"launch", "resume"}
        BY <1>1 DEF Deliberate, Alone, Fresh, Slots, Opening, NoState
      <3>2. \A j \in 1..MaxCalls : workers'[j].pc = "off"
        BY <1>1 DEF Deliberate, Alone, Typed, Off
      <3> QED BY <3>1, <3>2 DEF Marching
    <2> QED BY <2>1, <2>2, <2>3, <2>4, <2>5
  <1>2. CASE Execute(i)
    <2>1. Slots'
      BY <1>2 DEF Execute, Typed, Slots, Off, NoState, stores, history
    <2>2. Fresh'
      BY <1>2 DEF Execute, Fresh, Slots, Opening, Alone, Off, NoState, stores, history
    <2>3. Alone'
      BY <1>2 DEF Execute, Alone, Fresh, Opening, Slots, Off, NoState, stores, history
    <2>4. Opening'
      BY <1>2 DEF Execute, Opening, Slots, Typed, Working, Off, NoState, stores, history
    <2>5. Marching'
      BY <1>2 DEF Execute, Marching, Opening, Slots, Fresh, Typed, Off, NoState, stores, history
    <2> QED BY <2>1, <2>2, <2>3, <2>4, <2>5
  <1>3. CASE SaveExecuted(i)
    <2>1. Slots'
      BY <1>3 DEF SaveExecuted, Typed, Slots, Off, NoState, stores, history
    <2>2. Fresh'
      <3>1. saved'.next = "audit"
        BY <1>3 DEF SaveExecuted, Marching
      <3> QED BY <3>1 DEF Fresh
    <2>3. Alone'
      BY <1>3 DEF SaveExecuted, Alone, Fresh, Opening, Slots, Off, NoState, stores, history
    <2>4. Opening'
      BY <1>3 DEF SaveExecuted, Opening, Slots, Typed, Working, Off, NoState, stores, history
    <2>5. Marching'
      <3>1. /\ saved' = workers[i].state /\ saved'.next = "audit" /\ saved'.by = saved.by
            /\ saved'.verdict.type # "none" /\ UNCHANGED call
        BY <1>3 DEF SaveExecuted, Marching
      <3>2. \A j \in 1..MaxCalls :
              /\ workers'[j].state = workers[j].state
              /\ workers'[j].pc = IF j = i THEN "audit" ELSE workers[j].pc
        BY <1>3 DEF SaveExecuted, Typed, WorkerRecords
      <3>3. workers[i].pc = "executed"
        BY <1>3 DEF SaveExecuted
      <3> QED BY <3>1, <3>2, <3>3 DEF Marching
    <2> QED BY <2>1, <2>2, <2>3, <2>4, <2>5
  <1>4. CASE WriteRecord(i)
    <2>1. Slots'
      BY <1>4 DEF WriteRecord, Typed, Slots, Off, NoState, stores, history
    <2>2. Fresh'
      BY <1>4 DEF WriteRecord, Fresh, Slots, Opening, Alone, Off, NoState, stores, history
    <2>3. Alone'
      BY <1>4 DEF WriteRecord, Alone, Fresh, Opening, Slots, Off, NoState, stores, history
    <2>4. Opening'
      BY <1>4 DEF WriteRecord, Opening, Slots, Typed, Working, Off, NoState, stores, history
    <2>5. Marching'
      BY <1>4 DEF WriteRecord, Marching, Opening, Slots, Fresh, Typed, Off, NoState, stores, history
    <2> QED BY <2>1, <2>2, <2>3, <2>4, <2>5
  <1>5. CASE SaveAudited(i)
    <2>1. Slots'
      BY <1>5 DEF SaveAudited, Typed, Slots, Off, NoState, stores, history
    <2>2. Fresh'
      <3>1. saved'.next = "end"
        BY <1>5 DEF SaveAudited, Marching
      <3> QED BY <3>1 DEF Fresh
    <2>3. Alone'
      BY <1>5 DEF SaveAudited, Alone, Fresh, Opening, Slots, Off, NoState, stores, history
    <2>4. Opening'
      BY <1>5 DEF SaveAudited, Opening, Slots, Typed, Working, Off, NoState, stores, history
    <2>5. Marching'
      BY <1>5 DEF SaveAudited, Marching, Opening, Slots, Fresh, Typed, Off, NoState, stores, history
    <2> QED BY <2>1, <2>2, <2>3, <2>4, <2>5
  <1> QED BY <1>1, <1>2, <1>3, <1>4, <1>5 DEF WorkerStep

LEMMA FaultShaped ==
  ASSUME Typed, Shape, Faults
  PROVE  Shape'
  <1> USE BoundsAreNat DEF Shape, Running, Under, Idle
  <1>1. CASE Expire
    <2>1. Slots'
      BY <1>1 DEF Expire, Typed, Slots, stores, history
    <2>2. Fresh'
      BY <1>1 DEF Expire, Fresh, Slots, Opening, Alone, stores, history
    <2>3. Alone'
      BY <1>1 DEF Expire, Alone, Fresh, Opening, Slots, stores, history
    <2>4. Opening'
      BY <1>1 DEF Expire, Opening, Slots, Typed, Working, stores, history
    <2>5. Marching'
      BY <1>1 DEF Expire, Marching, Opening, Slots, Fresh, Typed, stores, history
    <2> QED BY <2>1, <2>2, <2>3, <2>4, <2>5
  <1>2. CASE Crash
    <2>1. Slots'
      BY <1>2 DEF Crash, Typed, Slots, Off, stores
    <2>2. Fresh'
      BY <1>2 DEF Crash, Typed, Fresh, Slots, Opening, Alone, Off, stores
    <2>3. Alone'
      BY <1>2 DEF Crash, Typed, Alone, Fresh, Opening, Slots, Off, stores
    <2>4. Opening'
      BY <1>2 DEF Crash, Opening, Slots, Typed, Working, Off, stores
    <2>5. Marching'
      BY <1>2 DEF Crash, Marching, Opening, Slots, Fresh, Typed, Off, stores
    <2> QED BY <2>1, <2>2, <2>3, <2>4, <2>5
  <1>3. ASSUME NEW i \in DOMAIN workers, NodeFails(i) PROVE Shape'
    <2>1. Slots'
      BY <1>3 DEF NodeFails, Typed, Slots, Off, stores
    <2>2. Fresh'
      BY <1>3 DEF NodeFails, Fresh, Slots, Opening, Alone, Off, stores
    <2>3. Alone'
      BY <1>3 DEF NodeFails, Alone, Fresh, Opening, Slots, Off, stores
    <2>4. Opening'
      BY <1>3 DEF NodeFails, Opening, Slots, Typed, Working, Off, stores
    <2>5. Marching'
      BY <1>3 DEF NodeFails, Marching, Opening, Slots, Fresh, Typed, Off, stores
    <2> QED BY <2>1, <2>2, <2>3, <2>4, <2>5
  <1> QED BY <1>1, <1>2, <1>3 DEF Faults

-----------------------------------------------------------------------------
(***************************************************************************)
(* What stands behind a run, a record and a stamp.                         *)
(***************************************************************************)

\* Someone claimed the verdict who may, or the log meets the quorum.
Authority(v) ==
  \/ v.key \in claimed /\ Authorized(v.actor, NoPrincipal, quorum)
  \/ Reached(quorum, ApprovedRoles(events))

Backed(v) == v.type \in Approving => Authority(v)

\* Every verdict on its way to the execute node is backed, and so is every run.
Backing ==
  /\ Backed(saved.verdict)
  /\ call.pc \in {"resume", "launch"} => Backed(call.verdict)
  /\ \A i \in 1..MaxCalls : Running(i) => Backed(workers[i].state.verdict)
  /\ \A n \in DOMAIN runs : runs[n].type \in Approving /\ Backed(runs[n])

\* No state and no record has results of a plan that was not run.
Results ==
  /\ saved.results = TRUE => runs # <<>>
  /\ \A i \in 1..MaxCalls : Running(i) /\ workers[i].state.results = TRUE => runs # <<>>
  /\ \A n \in DOMAIN audit : audit[n].executed = TRUE => runs # <<>>

\* The stamped requester has no vote in the log or on the way to it.
Stamps ==
  saved.by # NoPrincipal =>
    /\ saved.by = submitter
    /\ \A e \in events \cup call.todo :
         e.decision \in {APPROVE, REJECT} => ~SameAs(e.actor, submitter)

Sound == Backing /\ Results /\ Stamps

LEMMA NobodyIsAuthor ==
  ASSUME NEW p, NEW q, NEW who
  PROVE  /\ ~SameAs(p, NoPrincipal)
         /\ Authorized(p, who, q) => Authorized(p, NoPrincipal, q)
  BY DEF SameAs, Key, NoPrincipal, Authorized

LEMMA SatisfiedIsReached ==
  ASSUME NEW log, NEW q, EvaluateQuorum(log, q) = "satisfied"
  PROVE  Reached(q, ApprovedRoles(log))
  BY DEF EvaluateQuorum

LEMMA ReachedGrows ==
  ASSUME NEW q, NEW few, NEW many, few \subseteq many, Reached(q, few)
  PROVE  Reached(q, many)
  BY DEF Reached

\* Claims and votes are only added: what is backed stays so.
LEMMA BackingGrows ==
  ASSUME NEW v, quorum' = quorum, events \subseteq events', claimed \subseteq claimed', Backed(v)
  PROVE  Backed(v)'
  <1>1. ApprovedRoles(events) \subseteq ApprovedRoles(events')
    BY DEF ApprovedRoles
  <1>2. Reached(quorum, ApprovedRoles(events)) => Reached(quorum, ApprovedRoles(events'))
    BY <1>1, ReachedGrows
  <1> QED BY <1>2 DEF Backed, Authority

LEMMA InitSound == Init => Sound
  BY DEF Init, Sound, Backing, Results, Stamps, Backed, Running, NoState, NoVerdict, Verdict, Approving, Idle, Off

\* A step that adds to claims and log only, starts no worker and saves nothing.
LEMMA BackingFrame ==
  ASSUME Typed, Backing, quorum' = quorum, events \subseteq events', claimed \subseteq claimed',
         UNCHANGED <<saved, runs, workers>>,
         call'.pc \in {"resume", "launch"} => Backed(call.verdict)'
  PROVE  Backing'
  <1>1. \A v : Backed(v) => Backed(v)'
    BY BackingGrows
  <1>2. Backed(saved.verdict)'
    BY <1>1 DEF Backing, Backed, Authority
  <1>3. \A i \in 1..MaxCalls : Running(i)' => Backed(workers[i].state.verdict)'
    BY <1>1 DEF Backing, Running, Backed, Authority
  <1>4. \A n \in DOMAIN runs' : runs'[n].type \in Approving /\ Backed(runs[n])'
    BY <1>1 DEF Backing, Backed, Authority
  <1> QED BY <1>2, <1>3, <1>4 DEF Backing

LEMMA PeopleSound ==
  ASSUME Typed, Shape, Sound, People
  PROVE  Sound'
  <1> USE DEF Sound
  <1>1. ASSUME NEW p \in Submitters, Submit(p) PROVE Sound'
    <2>0. /\ saved.next = "absent" /\ saved.by = NoPrincipal
          /\ workers' = [workers EXCEPT ![calls + 1] = [pc |-> "deliberate", state |-> NoState]]
          /\ UNCHANGED <<saved, quorum, events, claimed, audit, runs>> /\ call'.pc = "wait"
      BY <1>1 DEF Submit, Shape, Fresh, NoState, stores, Begin, Call
    <2>1. \A i \in 1..MaxCalls : workers'[i].pc \notin {"off", "deliberate"} => workers'[i] = workers[i]
      BY <2>0 DEF Typed
    <2>2. Backing'
      BY <2>0, <2>1, BackingGrows DEF Backing, Running
    <2>3. Results' /\ Stamps'
      BY <2>0, <2>1 DEF Results, Stamps, Running
    <2> QED BY <2>2, <2>3
  <1>2. ASSUME NEW p \in Principals, Send(p) PROVE Sound'
    <2>1. Backing'
      BY <1>2, BackingFrame DEF Send, Begin, Call, stores, history
    <2>2. Results' /\ Stamps'
      BY <1>2 DEF Send, Begin, Call, stores, history, Results, Stamps, Running, Event, SEND, APPROVE, REJECT
    <2> QED BY <2>1, <2>2
  <1>3. ASSUME NEW p \in Principals, Withdraw(p) PROVE Sound'
    <2>1. Backing'
      BY <1>3, BackingFrame DEF Withdraw, Begin, Call, stores, history
    <2>2. Results' /\ Stamps'
      BY <1>3 DEF Withdraw, Begin, Call, stores, history, Results, Stamps, Running, Event, WITHDRAW, APPROVE, REJECT
    <2> QED BY <2>1, <2>2
  <1>4. ASSUME NEW p \in Principals, Acknowledge(p) PROVE Sound'
    <2>1. Backing'
      BY <1>4, BackingFrame DEF Acknowledge, Existing, Free, Idle, history
    <2>2. Results' /\ Stamps'
      BY <1>4 DEF Acknowledge, history, Results, Stamps, Running, Event, ACK, APPROVE, REJECT
    <2> QED BY <2>1, <2>2
  <1>5. ASSUME NEW p \in Principals, NEW approve \in BOOLEAN, Decide(p, approve) PROVE Sound'
    <2>1. Backing'
      BY <1>5, BackingFrame DEF Decide, Begin, Call, stores, history
    <2>2. Results'
      BY <1>5 DEF Decide, stores, history, Results, Running
    <2>3. \A e \in Votes(p, approve) : e.actor = p
      BY DEF Votes, Event
    <2>4. ~SameAs(p, saved.by)
      BY <1>5 DEF Decide, Authorized
    <2>5. Stamps'
      BY <1>5, <2>3, <2>4 DEF Decide, Begin, Call, stores, history, Stamps
    <2> QED BY <2>1, <2>2, <2>5
  <1>6. ASSUME NEW p \in Principals, NEW type \in CastTypes, NEW k \in Keys, Cast(p, type, k)
        PROVE Sound'
    <2>1. Backed(call.verdict)'
      <3>1. /\ k \in claimed' /\ quorum' = quorum
            /\ call'.verdict.key = k /\ call'.verdict.actor = p
        BY <1>6 DEF Cast, Begin, Call, Verdict
      <3>2. Authorized(p, NoPrincipal, quorum)
        BY <1>6, NobodyIsAuthor DEF Cast
      <3> QED BY <3>1, <3>2 DEF Backed, Authority
    <2>2. Backing'
      BY <1>6, <2>1, BackingFrame DEF Cast, history
    <2>3. Results' /\ Stamps'
      BY <1>6 DEF Cast, Begin, Call, history, Results, Stamps, Running
    <2> QED BY <2>2, <2>3
  <1> QED BY <1>1, <1>2, <1>3, <1>4, <1>5, <1>6 DEF People

LEMMA CallStepSound ==
  ASSUME Typed, Shape, Sound, CallStep
  PROVE  Sound'
  <1> USE DEF Sound
  <1>1. CASE AppendEvent
    <2>1. PICK e \in call.todo : events' = events \cup {e} /\ call' = [call EXCEPT !.todo = @ \ {e}]
      BY <1>1 DEF AppendEvent
    <2>2. call'.pc = "log" /\ call'.todo = call.todo \ {e}
      BY <1>1, <2>1 DEF AppendEvent, Typed, CallRecords
    <2>3. UNCHANGED <<saved, quorum, claimed, audit, workers, submitter, runs>>
      BY <1>1 DEF AppendEvent, history
    <2>4. Backing'
      BY <2>1, <2>2, <2>3, BackingFrame
    <2>5. Results' /\ Stamps'
      BY <2>1, <2>2, <2>3 DEF Results, Stamps, Running
    <2> QED BY <2>4, <2>5
  <1>2. CASE Fold
    <2> DEFINE outcome == EvaluateQuorum(events, quorum)
    <2>1. UNCHANGED <<saved, quorum, events, claimed, audit, workers, submitter, runs>>
      BY <1>2 DEF Fold, stores, history
    <2>2. outcome = "satisfied" => Reached(quorum, ApprovedRoles(events))
      BY SatisfiedIsReached
    <2> HIDE DEF outcome
    <2>3. \/ call' = Idle
          \/ call'.pc = "hold" /\ call'.todo = call.todo
          \/ /\ call'.pc = "resume" /\ call'.todo = call.todo
             /\ outcome = "satisfied" \/ call'.verdict.type \notin Approving
      <3>1. CASE call.op \in {"send", "withdraw"}
        BY <1>2, <3>1, GotoFields DEF Fold, CallPCs, Marching, Shape, Approving, outcome
      <3>2. CASE call.op = "decide" /\ outcome \in DOMAIN OutcomeVerdict
        <4>1. call' = [call EXCEPT !.pc = "resume",
                          !.verdict = Verdict(OutcomeVerdict[outcome], call.actor, NoKey)]
          BY <1>2, <3>2 DEF Fold, outcome
        <4>2. outcome = "satisfied" \/ OutcomeVerdict[outcome] = "reject"
          BY <3>2 DEF OutcomeVerdict
        <4> QED BY <4>1, <4>2 DEF Typed, CallRecords, Verdict, Approving
      <3>3. CASE call.op = "decide" /\ outcome \notin DOMAIN OutcomeVerdict
        BY <1>2, <3>3 DEF Fold, outcome
      <3> QED BY <1>2, <3>1, <3>2, <3>3 DEF Fold
    <2>4. call'.pc \in {"resume", "launch"} => Backed(call.verdict)'
      BY <2>1, <2>2, <2>3 DEF Backed, Authority, Idle
    <2>5. Backing'
      BY <2>1, <2>4, BackingFrame
    <2>6. Results' /\ Stamps'
      BY <2>1, <2>3 DEF Results, Stamps, Running, Idle
    <2> QED BY <2>5, <2>6
  <1>3. CASE Hold
    <2>1. /\ UNCHANGED <<quorum, events, claimed, audit, workers, submitter, runs>>
          /\ saved'.verdict = saved.verdict /\ saved'.by = saved.by /\ saved'.results = saved.results
      BY <1>3 DEF Hold, stores, history, Typed, States
    <2>2. call'.pc = "enqueue" /\ call'.todo = call.todo
      BY <1>3, GotoFields DEF Hold, CallPCs
    <2>3. Backing'
      BY <2>1, <2>2 DEF Backing, Backed, Authority, Running
    <2>4. Results' /\ Stamps'
      BY <2>1, <2>2 DEF Results, Stamps, Running
    <2> QED BY <2>3, <2>4
  <1>4. CASE Enqueue
    <2>1. Backing'
      BY <1>4, BackingFrame DEF Enqueue, Idle, history
    <2>2. Results' /\ Stamps'
      BY <1>4 DEF Enqueue, Idle, history, Results, Stamps, Running
    <2> QED BY <2>1, <2>2
  <1>5. CASE Merge
    <2>1. /\ UNCHANGED <<quorum, events, claimed, audit, workers, submitter, runs>>
          /\ saved'.by = saved.by /\ saved'.results = saved.results
          /\ saved'.verdict \in {saved.verdict, call.verdict}
      BY <1>5 DEF Merge, stores, history, Typed, States
    <2>2. call'.pc \in {"settle", "launch"} /\ call'.todo = call.todo /\ call'.verdict = call.verdict
      BY <1>5, GotoFields DEF Merge, CallPCs
    <2>3. call.pc = "resume"
      BY <1>5 DEF Merge
    <2>4. Backing'
      BY <2>1, <2>2, <2>3 DEF Backing, Backed, Authority, Running
    <2>5. Results' /\ Stamps'
      BY <2>1, <2>2 DEF Results, Stamps, Running
    <2> QED BY <2>4, <2>5
  <1>6. CASE Launch
    <2>1. UNCHANGED <<saved, quorum, events, claimed, audit, submitter, runs>>
      BY <1>6 DEF Launch, stores, history
    <2>2. call'.pc = "wait" /\ call'.todo = call.todo
      BY <1>6, GotoFields DEF Launch, CallPCs
    <2>3. \A i \in 1..MaxCalls : workers'[i].pc \notin {"off", "deliberate"} =>
            workers'[i] = workers[i] \/ workers'[i].state = saved
      BY <1>6 DEF Launch, Typed, Off
    <2>4. Backing'
      BY <2>1, <2>2, <2>3 DEF Backing, Backed, Authority, Running
    <2>5. Results' /\ Stamps'
      BY <2>1, <2>2, <2>3 DEF Results, Stamps, Running
    <2> QED BY <2>4, <2>5
  <1>7. CASE Return
    <2>1. call'.pc = "settle" /\ call'.todo = call.todo
      BY <1>7, GotoFields DEF Return, CallPCs
    <2>2. Backing'
      BY <1>7, <2>1, BackingFrame DEF Return, stores, history
    <2>3. Results' /\ Stamps'
      BY <1>7, <2>1 DEF Return, stores, history, Results, Stamps, Running
    <2> QED BY <2>2, <2>3
  <1>8. CASE Settle
    <2>1. /\ UNCHANGED <<quorum, events, claimed, audit, workers, submitter, runs>>
          /\ saved'.verdict = saved.verdict /\ saved'.results = saved.results
          /\ \/ saved'.by = saved.by
             \/ saved'.by = call.actor /\ call.op = "submit" /\ call' = Idle
      BY <1>8 DEF Settle, history, Typed, States
    <2>2. call'.pc \in {"dequeue", "idle"} /\ call'.todo \in {call.todo, {}}
      BY <1>8, GotoFields DEF Settle, CallPCs, Idle
    <2>3. Backing'
      BY <2>1, <2>2 DEF Backing, Backed, Authority, Running
    <2>4. Results'
      BY <2>1 DEF Results, Running
    <2>5. call.op = "submit" => call.actor = submitter /\ events = {} /\ call.todo = {}
      BY DEF Shape, Opening
    <2>6. Stamps'
      BY <2>1, <2>2, <2>5 DEF Stamps, Idle
    <2> QED BY <2>3, <2>4, <2>6
  <1>9. CASE Dequeue
    <2>1. Backing'
      BY <1>9, BackingFrame DEF Dequeue, Idle, history
    <2>2. Results' /\ Stamps'
      BY <1>9 DEF Dequeue, Idle, history, Results, Stamps, Running
    <2> QED BY <2>1, <2>2
  <1> QED BY <1>1, <1>2, <1>3, <1>4, <1>5, <1>6, <1>7, <1>8, <1>9 DEF CallStep

LEMMA WorkerSound ==
  ASSUME Typed, Shape, Sound, NEW i \in 1..MaxCalls, WorkerStep(i)
  PROVE  Sound'
  <1> USE DEF Sound
  <1> DEFINE Others == \A j \in 1..MaxCalls : j # i => workers'[j] = workers[j]
  <1>1. CASE Deliberate(i)
    <2>1. /\ \A j \in 1..MaxCalls : workers'[j].pc = "off"
          /\ saved.next = "absent"
      BY <1>1 DEF Deliberate, Shape, Alone, Typed, Off
    <2>2. /\ saved'.verdict = NoVerdict /\ saved'.by = NoPrincipal /\ saved'.results = FALSE
          /\ UNCHANGED <<audit, runs, call>> /\ runs = <<>> /\ audit = <<>>
          /\ call.pc \notin {"resume", "launch"}
      BY <1>1, <2>1 DEF Deliberate, stores, history, Shape, Fresh, Opening, Slots, NoState
    <2>3. Backing'
      BY <2>1, <2>2 DEF Backing, Backed, Running, NoVerdict, Verdict, Approving
    <2>4. Results' /\ Stamps'
      BY <2>1, <2>2 DEF Results, Stamps, Running
    <2> QED BY <2>3, <2>4
  <1>2. CASE Execute(i)
    <2> DEFINE v == workers[i].state.verdict
    <2>1. /\ UNCHANGED <<saved, quorum, events, claimed, audit, submitter, call>>
          /\ runs' = IF RunsPlan(v) THEN Append(runs, v) ELSE runs
          /\ Running(i)
      BY <1>2 DEF Execute, stores, Running
    <2>2. Others /\ workers'[i].state.verdict = v /\ workers'[i].state.results = RunsPlan(v)
      BY <1>2 DEF Execute, Typed, WorkerRecords, States
    <2>3. RunsPlan(v) => v.type \in Approving
      BY <2>1 DEF RunsPlan, Shape, Marching, NoVerdict, Verdict
    <2>4. Backed(v)
      BY <2>1 DEF Backing
    <2>5. runs \in Seq(VerdictRecords) /\ v \in VerdictRecords
      BY DEF Typed, WorkerRecords, States, VerdictRecords, People0
    <2> HIDE DEF v
    <2>6. \A n \in DOMAIN runs' :
            \/ runs'[n] = v /\ RunsPlan(v)
            \/ n \in DOMAIN runs /\ runs'[n] = runs[n]
      <3>1. CASE RunsPlan(v)
        BY <2>1, <2>5, <3>1
      <3>2. CASE ~RunsPlan(v)
        BY <2>1, <3>2
      <3> QED BY <3>1, <3>2
    <2>7. Backing'
      BY <2>1, <2>2, <2>3, <2>4, <2>6 DEF Backing, Backed, Authority, Running
    <2>8. runs # <<>> => runs' # <<>>
      BY <2>1, <2>5
    <2>9. RunsPlan(v) => runs' # <<>>
      BY <2>1, <2>5
    <2>10. Results' /\ Stamps'
      BY <2>1, <2>2, <2>8, <2>9 DEF Results, Stamps, Running
    <2> QED BY <2>7, <2>10
  <1>3. CASE SaveExecuted(i)
    <2>1. /\ UNCHANGED <<quorum, events, claimed, audit, submitter, call, runs>>
          /\ saved' = workers[i].state /\ Running(i)
      BY <1>3 DEF SaveExecuted, stores, history, Running
    <2>2. /\ \A j \in 1..MaxCalls : workers'[j].state = workers[j].state
          /\ \A j \in 1..MaxCalls : Running(j)' => Running(j)
      BY <1>3 DEF SaveExecuted, Typed, WorkerRecords, Running
    <2>3. saved'.by = saved.by
      BY <2>1 DEF Shape, Marching
    <2>4. Backing'
      BY <2>1, <2>2 DEF Backing, Backed, Authority
    <2>5. Results' /\ Stamps'
      BY <2>1, <2>2, <2>3 DEF Results, Stamps
    <2> QED BY <2>4, <2>5
  <1>4. CASE WriteRecord(i)
    <2>1. /\ UNCHANGED <<saved, quorum, events, claimed, submitter, call, runs>> /\ Running(i)
      BY <1>4 DEF WriteRecord, history, Running
    <2>2. /\ Others /\ workers'[i].state.verdict = workers[i].state.verdict
          /\ workers'[i].state.results = workers[i].state.results
      BY <1>4 DEF WriteRecord, Typed, WorkerRecords, States
    <2>3. \A n \in DOMAIN audit' :
            \/ n \in DOMAIN audit /\ audit'[n] = audit[n]
            \/ audit'[n].executed = workers[i].state.results
      BY <1>4 DEF WriteRecord, Typed
    <2>4. Backing'
      BY <2>1, <2>2 DEF Backing, Backed, Authority, Running
    <2>5. Results' /\ Stamps'
      BY <2>1, <2>2, <2>3 DEF Results, Stamps, Running
    <2> QED BY <2>4, <2>5
  <1>5. CASE SaveAudited(i)
    <2>1. /\ UNCHANGED <<quorum, events, claimed, audit, submitter, call, runs>>
          /\ saved' = workers[i].state /\ Running(i)
      BY <1>5 DEF SaveAudited, stores, history, Running
    <2>2. Others /\ workers'[i].pc = "off"
      BY <1>5 DEF SaveAudited, Typed, Off
    <2>3. saved'.by = saved.by
      BY <2>1 DEF Shape, Marching
    <2>4. Backing'
      BY <2>1, <2>2 DEF Backing, Backed, Authority, Running
    <2>5. Results' /\ Stamps'
      BY <2>1, <2>2, <2>3 DEF Results, Stamps, Running
    <2> QED BY <2>4, <2>5
  <1> QED BY <1>1, <1>2, <1>3, <1>4, <1>5 DEF WorkerStep

LEMMA FaultSound ==
  ASSUME Typed, Sound, Faults
  PROVE  Sound'
  <1>1. /\ UNCHANGED <<saved, quorum, events, claimed, audit, submitter, runs>>
        /\ call' \in {call, Idle}
        /\ \A j \in 1..MaxCalls : workers'[j] = workers[j] \/ workers'[j].pc = "off"
    <2>1. CASE Expire
      BY <2>1 DEF Expire, stores
    <2>2. CASE Crash
      BY <2>2 DEF Crash, stores, Typed, Off
    <2>3. CASE \E i \in DOMAIN workers : NodeFails(i)
      BY <2>3 DEF NodeFails, stores, Typed, Off
    <2> QED BY <2>1, <2>2, <2>3 DEF Faults
  <1>2. Backing'
    BY <1>1 DEF Sound, Backing, Backed, Authority, Running, Idle
  <1>3. Results' /\ Stamps'
    BY <1>1 DEF Sound, Results, Stamps, Running, Idle
  <1> QED BY <1>2, <1>3 DEF Sound

-----------------------------------------------------------------------------
(***************************************************************************)
(* Counting: the runs there were, the ones a worker is about to make, and  *)
(* the one a resume could still start.                                     *)
(***************************************************************************)

Ready == {i \in 1..MaxCalls : workers[i].pc = "execute"}

\* The trial is not past the gate, and no call is waiting for its run.
Open ==
  /\ saved.next \in {"absent", "execute"}
  /\ ~(call.pc = "wait" /\ workers[calls].pc \in {"execute", "executed"})

Counted ==
  /\ Len(runs) + Cardinality(Ready) <= 1 + timeouts + losses
  /\ Open => Len(runs) + Cardinality(Ready) <= timeouts + losses

LEMMA ReadyFinite ==
  ASSUME NEW S, S \subseteq 1..MaxCalls
  PROVE  IsFiniteSet(S) /\ Cardinality(S) \in Nat
  <1>1. IsFiniteSet(1..MaxCalls)
    <2>1. 1 \in Int /\ MaxCalls \in Int
      BY BoundsAreNat
    <2> QED BY <2>1, FS_Interval
  <1>2. S \in SUBSET (1..MaxCalls)
    OBVIOUS
  <1>3. IsFiniteSet(S)
    BY <1>1, <1>2, FS_Subset
  <1> QED BY <1>3, FS_CardinalityType

LEMMA InitCounted == Init => Counted
  <1> SUFFICES ASSUME Init PROVE Counted
    OBVIOUS
  <1>1. Ready = {} /\ Len(runs) = 0 /\ timeouts = 0 /\ losses = 0
    BY DEF Init, Ready, Off
  <1>2. Cardinality(Ready) = 0
    BY <1>1, FS_EmptySet
  <1> QED BY <1>1, <1>2 DEF Counted

\* A step that makes no run, readies no worker and opens nothing.
LEMMA CountFrame ==
  ASSUME Counted, Ready' = Ready, UNCHANGED <<runs, timeouts, losses>>, Open' => Open
  PROVE  Counted'
  BY DEF Counted

LEMMA PeopleCounted ==
  ASSUME Typed, Shape, Counted, People
  PROVE  Counted'
  <1>1. ASSUME NEW p \in Submitters, Submit(p) PROVE Counted'
    <2>1. /\ UNCHANGED <<saved, runs, timeouts, losses>> /\ call.pc = "idle"
          /\ workers' = [workers EXCEPT ![calls + 1] = [pc |-> "deliberate", state |-> NoState]]
          /\ \A i \in 1..MaxCalls : workers[i].pc = "off"
      BY <1>1 DEF Submit, Free, Idle, Working, Typed
    <2>2. Ready' = Ready
      BY <2>1 DEF Ready, Typed
    <2>3. Open' => Open
      BY <2>1 DEF Open
    <2> QED BY <2>1, <2>2, <2>3, CountFrame
  <1>2. ASSUME UNCHANGED <<saved, workers, runs, timeouts, losses>>, call.pc = "idle" PROVE Counted'
    BY <1>2, CountFrame DEF Ready, Open
  <1>3. ASSUME NEW p \in Principals,
               \/ Send(p) \/ Withdraw(p) \/ Acknowledge(p)
               \/ \E approve \in BOOLEAN : Decide(p, approve)
               \/ \E type \in CastTypes, k \in Keys : Cast(p, type, k)
        PROVE  Counted'
    <2>1. UNCHANGED <<saved, workers, runs, timeouts, losses>> /\ call.pc = "idle"
      BY <1>3 DEF Send, Withdraw, Acknowledge, Decide, Cast, Existing, Free, Idle, history
    <2> QED BY <2>1, <1>2
  <1> QED BY <1>1, <1>3 DEF People

LEMMA CallStepCounted ==
  ASSUME Typed, Shape, Counted, CallStep
  PROVE  Counted'
  <1>1. ASSUME UNCHANGED <<workers, calls, runs, timeouts, losses>>, saved'.next = saved.next,
               call.pc = "wait" => workers[calls].pc = "off"
        PROVE  Counted'
    BY <1>1, CountFrame DEF Ready, Open
  <1>2. CASE AppendEvent
    BY <1>1, <1>2 DEF AppendEvent, history
  <1>3. CASE Fold
    BY <1>1, <1>3 DEF Fold, history
  <1>4. CASE Hold
    <2>1. saved'.next = saved.next
      BY <1>4 DEF Hold, Typed, States
    <2> QED BY <1>1, <1>4, <2>1 DEF Hold, history
  <1>5. CASE Enqueue
    BY <1>1, <1>5 DEF Enqueue, history
  <1>6. CASE Merge
    <2>1. saved'.next = saved.next
      BY <1>6 DEF Merge, Typed, States
    <2> QED BY <1>1, <1>6, <2>1 DEF Merge, history
  <1>7. CASE Launch
    <2>1. UNCHANGED <<saved, calls, runs, timeouts, losses>> /\ call.pc = "launch"
      BY <1>7 DEF Launch, history
    <2>2. calls \in 1..MaxCalls /\ workers[calls].pc = "off"
      BY <2>1 DEF Typed, Shape, Slots, Under
    <2>3. call'.pc = "wait"
      BY <1>7, GotoFields DEF Launch, CallPCs
    <2>4. CASE saved.next = "execute"
      <3>1. workers' = [workers EXCEPT ![calls] = [pc |-> saved.next, state |-> saved]]
        BY <1>7, <2>4 DEF Launch
      <3>2. Ready' = Ready \cup {calls} /\ calls \notin Ready
        BY <2>2, <2>4, <3>1 DEF Ready, Typed
      <3>3. Cardinality(Ready') = Cardinality(Ready) + 1
        BY <3>2, FS_AddElement, ReadyFinite DEF Ready
      <3>4. Open /\ ~Open'
        BY <2>1, <2>2, <2>3, <2>4, <3>1 DEF Open, Typed
      <3>5. Len(runs) \in Nat /\ Cardinality(Ready) \in Nat /\ timeouts \in Nat /\ losses \in Nat
        BY ReadyFinite, BoundsAreNat DEF Typed, Ready
      <3> QED BY <2>1, <3>3, <3>4, <3>5 DEF Counted
    <2>5. CASE saved.next # "execute"
      <3>1. saved.next # "absent"
        BY <2>1 DEF Shape, Fresh, Opening, Slots
      <3>2. Ready' = Ready
        BY <1>7, <2>2, <2>5 DEF Launch, Ready, Typed, Off
      <3> QED BY <2>1, <2>5, <3>1, <3>2, CountFrame DEF Open
    <2> QED BY <2>4, <2>5
  <1>8. CASE Return
    BY <1>1, <1>8 DEF Return, history, Working
  <1>9. CASE Settle
    <2>1. saved'.next = saved.next
      BY <1>9 DEF Settle, Typed, States
    <2> QED BY <1>1, <1>9, <2>1 DEF Settle, history
  <1>10. CASE Dequeue
    BY <1>1, <1>10 DEF Dequeue, history
  <1> QED BY <1>2, <1>3, <1>4, <1>5, <1>6, <1>7, <1>8, <1>9, <1>10 DEF CallStep

LEMMA WorkerCounted ==
  ASSUME Typed, Shape, Counted, NEW i \in 1..MaxCalls, WorkerStep(i)
  PROVE  Counted'
  <1>1. CASE Deliberate(i)
    <2>1. /\ UNCHANGED <<call, calls, runs, timeouts, losses>>
          /\ saved.next = "absent"
          /\ \A j \in 1..MaxCalls : workers[j].pc \in {"off", "deliberate"} /\ workers'[j].pc = "off"
      BY <1>1 DEF Deliberate, Shape, Alone, Typed, Off, history
    <2>2. Ready' = Ready
      BY <2>1 DEF Ready
    <2>3. Open
      <3>1. call.pc = "wait" => calls \in 1..MaxCalls
        BY DEF Shape, Slots, Typed
      <3> QED BY <2>1, <3>1 DEF Open
    <2> QED BY <2>1, <2>2, <2>3, CountFrame
  <1>2. CASE Execute(i)
    <2> DEFINE v == workers[i].state.verdict
    <2>1. /\ UNCHANGED <<saved, call, calls, timeouts, losses>>
          /\ runs' \in {runs, Append(runs, v)} /\ workers[i].pc = "execute"
      BY <1>2 DEF Execute
    <2>2. /\ \A j \in 1..MaxCalls : j # i => workers'[j] = workers[j]
          /\ workers'[i].pc = "executed"
      BY <1>2 DEF Execute, Typed
    <2>3. Ready' = Ready \ {i} /\ i \in Ready
      BY <2>1, <2>2 DEF Ready
    <2>4. Cardinality(Ready') = Cardinality(Ready) - 1
      <3>1. IsFiniteSet(Ready)
        BY ReadyFinite DEF Ready
      <3>2. Cardinality(Ready \ {i}) = Cardinality(Ready) - 1
        BY <2>3, <3>1, FS_RemoveElement
      <3> QED BY <2>3, <3>2
    <2>5. Open' => Open
      <3>1. call.pc = "wait" => calls \in 1..MaxCalls
        BY DEF Shape, Slots, Typed
      <3> QED BY <2>1, <2>2, <3>1 DEF Open
    <2>6. runs \in Seq(VerdictRecords) /\ Cardinality(Ready) \in Nat /\ timeouts \in Nat /\ losses \in Nat
      BY ReadyFinite, BoundsAreNat DEF Typed, Ready
    <2>7. Len(runs') \in {Len(runs), Len(runs) + 1} /\ Len(runs) \in Nat
      BY <2>1, <2>6
    <2> QED BY <2>1, <2>4, <2>5, <2>6, <2>7 DEF Counted
  <1>3. CASE SaveExecuted(i)
    <2>1. /\ UNCHANGED <<runs, timeouts, losses>> /\ saved'.next = "audit"
      BY <1>3 DEF SaveExecuted, history, Shape, Marching, Running
    <2>2. Ready' = Ready
      BY <1>3 DEF SaveExecuted, Ready, Typed, WorkerRecords
    <2> QED BY <2>1, <2>2, CountFrame DEF Open
  <1>4. CASE WriteRecord(i)
    <2>1. UNCHANGED <<saved, runs, timeouts, losses>> /\ saved.next \in {"audit", "end"}
      BY <1>4 DEF WriteRecord, history, Shape, Marching, Running
    <2>2. Ready' = Ready
      BY <1>4 DEF WriteRecord, Ready, Typed, WorkerRecords
    <2> QED BY <2>1, <2>2, CountFrame DEF Open
  <1>5. CASE SaveAudited(i)
    <2>1. UNCHANGED <<runs, timeouts, losses>> /\ saved'.next = "end"
      BY <1>5 DEF SaveAudited, history, Shape, Marching, Running
    <2>2. Ready' = Ready
      BY <1>5 DEF SaveAudited, Ready, Typed, Off
    <2> QED BY <2>1, <2>2, CountFrame DEF Open
  <1> QED BY <1>1, <1>2, <1>3, <1>4, <1>5 DEF WorkerStep

LEMMA FaultCounted ==
  ASSUME Typed, Counted, Faults
  PROVE  Counted'
  <1>1. runs' = runs /\ timeouts' + losses' = timeouts + losses + 1
    <2>1. timeouts \in Nat /\ losses \in Nat
      BY BoundsAreNat DEF Typed
    <2> QED BY <2>1 DEF Faults, Expire, Crash, NodeFails
  <1>2. Ready' \subseteq Ready
    <2>1. \A j \in 1..MaxCalls : workers'[j] = workers[j] \/ workers'[j].pc = "off"
      <3>1. CASE Expire
        BY <3>1 DEF Expire
      <3>2. CASE Crash
        BY <3>2 DEF Crash, Typed, Off
      <3>3. CASE \E i \in DOMAIN workers : NodeFails(i)
        BY <3>3 DEF NodeFails, Typed, Off
      <3> QED BY <3>1, <3>2, <3>3 DEF Faults
    <2> QED BY <2>1 DEF Ready
  <1>3. /\ Cardinality(Ready') <= Cardinality(Ready)
        /\ Cardinality(Ready') \in Nat /\ Cardinality(Ready) \in Nat
    <2>1. Ready \subseteq 1..MaxCalls /\ Ready' \subseteq 1..MaxCalls
      BY <1>2 DEF Ready
    <2> QED BY <1>2, <2>1, ReadyFinite, FS_Subset
  <1>4. /\ Len(runs) \in Nat /\ timeouts \in Nat /\ losses \in Nat
        /\ timeouts' \in Nat /\ losses' \in Nat
    BY FaultTyped, BoundsAreNat DEF Typed
  <1>5. Len(runs) + Cardinality(Ready) <= 1 + timeouts + losses
    BY DEF Counted
  <1>6. ASSUME NEW r \in Nat, NEW c \in Nat, NEW d \in Nat, NEW t \in Nat, NEW l \in Nat,
               NEW u \in Nat, NEW m \in Nat,
               u + m = t + l + 1, d <= c, r + c <= 1 + t + l
        PROVE  r + d <= u + m /\ r + d <= 1 + u + m
    BY <1>6
  <1>7. /\ Len(runs) + Cardinality(Ready') <= timeouts' + losses'
        /\ Len(runs) + Cardinality(Ready') <= 1 + timeouts' + losses'
    BY <1>1, <1>3, <1>4, <1>5, <1>6
  <1> QED BY <1>1, <1>7 DEF Counted

-----------------------------------------------------------------------------
(***************************************************************************)
(* The runs no record stands for yet are in the hands of a worker.         *)
(***************************************************************************)

Unrecorded ==
  {i \in 1..MaxCalls :
     workers[i].pc \in {"executed", "audit"} /\ workers[i].state.results = TRUE}

OnRecord == {n \in DOMAIN audit : audit[n].executed = TRUE}

Recorded ==
  losses = 0 => Len(runs) <= Cardinality(OnRecord) + Cardinality(Unrecorded)

LEMMA UnrecordedFinite ==
  /\ IsFiniteSet(Unrecorded) /\ Cardinality(Unrecorded) \in Nat
  /\ IsFiniteSet(Unrecorded') /\ Cardinality(Unrecorded') \in Nat
  BY ReadyFinite DEF Unrecorded

LEMMA RecordsFinite ==
  ASSUME NEW log \in Seq(AuditRecords), NEW S \in SUBSET DOMAIN log
  PROVE  IsFiniteSet(S) /\ Cardinality(S) \in Nat
  <1>1. IsFiniteSet(1..Len(log)) /\ DOMAIN log = 1..Len(log)
    <2>1. 1 \in Int /\ Len(log) \in Int
      OBVIOUS
    <2> QED BY <2>1, FS_Interval
  <1>2. IsFiniteSet(S)
    BY <1>1, FS_Subset
  <1> QED BY <1>2, FS_CardinalityType

LEMMA InitRecorded == Init => Recorded
  <1> SUFFICES ASSUME Init PROVE Recorded
    OBVIOUS
  <1>1. Len(runs) = 0 /\ audit \in Seq(AuditRecords)
    BY DEF Init
  <1>2. Cardinality(OnRecord) \in Nat
    BY <1>1, RecordsFinite DEF OnRecord
  <1> QED BY <1>1, <1>2, UnrecordedFinite DEF Recorded

\* A step that makes no run, writes no record and takes none from a worker.
LEMMA RecordFrame ==
  ASSUME Typed, Recorded, UNCHANGED <<runs, audit>>, losses = 0 \/ losses' # 0,
         Unrecorded \subseteq Unrecorded'
  PROVE  Recorded'
  <1>1. Cardinality(Unrecorded) <= Cardinality(Unrecorded')
    BY UnrecordedFinite, FS_Subset
  <1>2. Cardinality(OnRecord) \in Nat /\ OnRecord' = OnRecord
    BY RecordsFinite DEF OnRecord, Typed
  <1>3. Len(runs) \in Nat
    BY DEF Typed
  <1> QED BY <1>1, <1>2, <1>3, UnrecordedFinite DEF Recorded

LEMMA PeopleRecorded ==
  ASSUME Typed, Recorded, People
  PROVE  Recorded'
  <1>1. UNCHANGED <<runs, audit, losses>>
    BY DEF People, Submit, Send, Withdraw, Acknowledge, Decide, Cast, stores, history
  <1>2. Unrecorded \subseteq Unrecorded'
    <2>1. ASSUME NEW p \in Submitters, Submit(p) PROVE Unrecorded = {}
      BY <2>1 DEF Submit, Working, Unrecorded, Typed
    <2>2. CASE UNCHANGED workers
      BY <2>2 DEF Unrecorded
    <2> QED BY <2>1, <2>2 DEF People, Send, Withdraw, Acknowledge, Decide, Cast
  <1> QED BY <1>1, <1>2, RecordFrame

LEMMA CallStepRecorded ==
  ASSUME Typed, Shape, Recorded, CallStep
  PROVE  Recorded'
  <1>1. UNCHANGED <<runs, audit, losses>>
    BY DEF CallStep, AppendEvent, Fold, Hold, Enqueue, Merge, Launch, Return, Settle, Dequeue,
           stores, history
  <1>2. Unrecorded \subseteq Unrecorded'
    <2>1. CASE Launch
      <3>1. calls \in 1..MaxCalls /\ workers[calls].pc = "off"
        BY <2>1 DEF Launch, Shape, Slots, Under, Typed
      <3>2. \A i \in 1..MaxCalls : i # calls => workers'[i] = workers[i]
        BY <2>1 DEF Launch, Typed
      <3> QED BY <3>1, <3>2 DEF Unrecorded
    <2>2. CASE UNCHANGED workers
      BY <2>2 DEF Unrecorded
    <2> QED BY <2>1, <2>2
        DEF CallStep, AppendEvent, Fold, Hold, Enqueue, Merge, Return, Settle, Dequeue
  <1> QED BY <1>1, <1>2, RecordFrame

LEMMA WorkerRecorded ==
  ASSUME Typed, Shape, Recorded, NEW i \in 1..MaxCalls, WorkerStep(i)
  PROVE  Recorded'
  <1>1. CASE Deliberate(i) \/ SaveExecuted(i) \/ SaveAudited(i)
    <2>1. UNCHANGED <<runs, audit, losses>>
      BY <1>1 DEF Deliberate, SaveExecuted, SaveAudited, stores, history
    <2>2. \A j \in 1..MaxCalls : j # i => workers'[j] = workers[j]
      BY <1>1 DEF Deliberate, SaveExecuted, SaveAudited, Typed
    <2>3. i \in Unrecorded => workers'[i].pc = "audit" /\ workers'[i].state = workers[i].state
      BY <1>1 DEF Deliberate, SaveExecuted, SaveAudited, Typed, WorkerRecords, Unrecorded
    <2> QED BY <2>1, <2>2, <2>3, RecordFrame DEF Unrecorded
  <1>2. CASE Execute(i)
    <2> DEFINE v == workers[i].state.verdict
    <2>1. UNCHANGED <<audit, losses>> /\ workers[i].pc = "execute"
      BY <1>2 DEF Execute, stores
    <2>2. \A j \in 1..MaxCalls : j # i => workers'[j] = workers[j]
      BY <1>2 DEF Execute, Typed
    <2>3. CASE RunsPlan(v)
      <3>1. runs' = Append(runs, v) /\ v \in VerdictRecords
        BY <1>2, <2>3 DEF Execute, Typed, WorkerRecords, States, VerdictRecords, People0
      <3>2. workers'[i].pc = "executed" /\ workers'[i].state.results = TRUE
        BY <1>2, <2>3 DEF Execute, Typed, WorkerRecords, States
      <3>3. Unrecorded' = Unrecorded \cup {i} /\ i \notin Unrecorded
        BY <2>1, <2>2, <3>2 DEF Unrecorded
      <3>4. Cardinality(Unrecorded') = Cardinality(Unrecorded) + 1
        BY <3>3, UnrecordedFinite, FS_AddElement
      <3>5. Len(runs') = Len(runs) + 1 /\ Len(runs) \in Nat
        BY <3>1 DEF Typed
      <3>6. Cardinality(OnRecord) \in Nat /\ OnRecord' = OnRecord
        BY <2>1, RecordsFinite DEF OnRecord, Typed
      <3> QED BY <2>1, <3>4, <3>5, <3>6, UnrecordedFinite DEF Recorded
    <2>4. CASE ~RunsPlan(v)
      <3>1. runs' = runs
        BY <1>2, <2>4 DEF Execute
      <3> QED BY <2>1, <2>2, <3>1, RecordFrame DEF Unrecorded
    <2> QED BY <2>3, <2>4
  <1>3. CASE WriteRecord(i)
    <2> DEFINE r == [verdict  |-> workers[i].state.verdict,
                     status   |-> workers[i].state.status,
                     executed |-> workers[i].state.results]
    <2>1. /\ UNCHANGED <<runs, losses>> /\ audit' = Append(audit, r)
          /\ workers[i].pc = "audit" /\ workers'[i].pc = "audited"
          /\ \A j \in 1..MaxCalls : j # i => workers'[j] = workers[j]
      BY <1>3 DEF WriteRecord, Typed, history
    <2>2. /\ audit \in Seq(AuditRecords) /\ Len(audit) \in Nat
          /\ Len(audit') = Len(audit) + 1 /\ DOMAIN audit' = 1..Len(audit') /\ DOMAIN audit = 1..Len(audit)
          /\ audit'[Len(audit) + 1] = r /\ \A n \in 1..Len(audit) : audit'[n] = audit[n]
      BY <2>1 DEF Typed
    <2>3. /\ IsFiniteSet(OnRecord) /\ Cardinality(OnRecord) \in Nat
          /\ Len(runs) \in Nat
      BY RecordsFinite DEF OnRecord, Typed
    <2>4. CASE workers[i].state.results = TRUE
      <3>1. OnRecord' = OnRecord \cup {Len(audit) + 1} /\ Len(audit) + 1 \notin OnRecord
        BY <2>2, <2>4 DEF OnRecord
      <3>2. Cardinality(OnRecord') = Cardinality(OnRecord) + 1
        BY <2>3, <3>1, FS_AddElement
      <3>3. Unrecorded' = Unrecorded \ {i} /\ i \in Unrecorded
        BY <2>1, <2>4 DEF Unrecorded
      <3>4. Cardinality(Unrecorded \ {i}) = Cardinality(Unrecorded) - 1
        BY <3>3, UnrecordedFinite, FS_RemoveElement
      <3> QED BY <2>1, <2>3, <3>2, <3>3, <3>4, UnrecordedFinite DEF Recorded
    <2>5. CASE workers[i].state.results # TRUE
      <3>0. r.executed # TRUE
        BY <2>5
      <3>1. OnRecord' = OnRecord
        <4>1. \A n \in DOMAIN audit' :
                audit'[n].executed = TRUE <=> n \in DOMAIN audit /\ audit[n].executed = TRUE
          <5> HIDE DEF r
          <5>1. audit'[Len(audit) + 1].executed # TRUE
            BY <2>2, <3>0
          <5>2. \A n \in DOMAIN audit' : n = Len(audit) + 1 \/ n \in 1..Len(audit)
            BY <2>2
          <5>3. Len(audit) + 1 \notin DOMAIN audit
            BY <2>2
          <5> QED BY <2>2, <5>1, <5>2, <5>3
        <4>2. DOMAIN audit \subseteq DOMAIN audit'
          BY <2>2
        <4> QED BY <4>1, <4>2 DEF OnRecord
      <3>2. Unrecorded' = Unrecorded
        BY <2>1, <2>5 DEF Unrecorded
      <3> QED BY <2>1, <3>1, <3>2 DEF Recorded
    <2> QED BY <2>4, <2>5
  <1> QED BY <1>1, <1>2, <1>3 DEF WorkerStep

LEMMA FaultRecorded ==
  ASSUME Typed, Recorded, Faults
  PROVE  Recorded'
  <1>1. CASE Expire
    <2>1. UNCHANGED <<runs, audit, losses, workers>>
      BY <1>1 DEF Expire, stores
    <2> QED BY <2>1, RecordFrame DEF Unrecorded
  <1>2. CASE Crash \/ \E i \in DOMAIN workers : NodeFails(i)
    <2>1. losses \in Nat /\ losses' = losses + 1
      BY <1>2, BoundsAreNat DEF Typed, Crash, NodeFails
    <2> QED BY <2>1 DEF Recorded
  <1> QED BY <1>1, <1>2 DEF Faults

-----------------------------------------------------------------------------
(***************************************************************************)
(* The inductive invariant, and the theorems.                              *)
(***************************************************************************)

FaultInv == Typed /\ Shape /\ Sound /\ Counted /\ Recorded

LEMMA StutterKeeps ==
  ASSUME FaultInv, UNCHANGED vars
  PROVE  FaultInv'
  <1> USE DEF vars, stores, history
  <1>1. Typed'
    BY DEF FaultInv, Typed
  <1>2. Shape'
    BY DEF FaultInv, Shape, Slots, Fresh, Alone, Opening, Marching, Running
  <1>3. Backing'
    BY DEF FaultInv, Sound, Backing, Backed, Authority, Running
  <1>4. Results' /\ Stamps'
    BY DEF FaultInv, Sound, Results, Stamps, Running
  <1>5. Counted'
    BY DEF FaultInv, Counted, Ready, Open
  <1>6. Recorded'
    BY DEF FaultInv, Recorded, OnRecord, Unrecorded
  <1> QED BY <1>1, <1>2, <1>3, <1>4, <1>5, <1>6 DEF FaultInv, Sound

LEMMA StepKeeps ==
  ASSUME FaultInv, Next
  PROVE  FaultInv'
  <1>1. CASE People
    BY <1>1, PeopleTyped, PeopleShaped, PeopleSound, PeopleCounted, PeopleRecorded DEF FaultInv
  <1>2. CASE CallStep
    BY <1>2, CallStepTyped, CallStepShaped, CallStepSound, CallStepCounted, CallStepRecorded
    DEF FaultInv
  <1>3. ASSUME NEW i \in DOMAIN workers, WorkerStep(i) PROVE FaultInv'
    <2>1. i \in 1..MaxCalls
      BY DEF FaultInv, Typed
    <2> QED BY <1>3, <2>1, WorkerTyped, WorkerShaped, WorkerSound, WorkerCounted, WorkerRecorded
        DEF FaultInv
  <1>4. CASE Faults
    BY <1>4, FaultTyped, FaultShaped, FaultSound, FaultCounted, FaultRecorded DEF FaultInv
  <1> QED BY <1>1, <1>2, <1>3, <1>4 DEF Next

\* The inductive invariant: where a call, its worker and the checkpoint can
\* stand to one another, what stands behind every verdict on its way to the
\* execute node, and how many runs the faults so far account for.  Every
\* commit, every overwriting checkpoint and every fault keeps it.
THEOREM FaultSoundness == Spec => []FaultInv
  <1>1. Init => FaultInv
    BY InitTyped, InitShaped, InitSound, InitCounted, InitRecorded DEF FaultInv
  <1>2. FaultInv /\ [Next]_vars => FaultInv'
    BY StepKeeps, StutterKeeps
  <1> QED BY <1>1, <1>2, PTL DEF Spec

\* Every reachable state of the four stores, the call and the workers is well
\* typed: no stale checkpoint leaves a state the code could not read.
THEOREM FaultsTypeCorrect == Spec => []TypeOK
  <1>1. FaultInv => TypeOK
    BY DEF FaultInv, Typed, TypeOK, WorkerRecords, WorkerPCs, CallRecords, CallPCs
  <1> QED BY <1>1, FaultSoundness, PTL

\* Whatever expires, fails or dies, the steps run by the execute node have an
\* authorised claim or a met quorum behind them.
THEOREM RunsStayBacked == Spec => []RunsBacked
  <1>1. FaultInv => RunsBacked
    BY DEF FaultInv, Sound, Backing, Backed, Authority, RunsBacked
  <1> QED BY <1>1, FaultSoundness, PTL

\* A trial is run at most once more than there were expired budgets, deaths
\* and failed nodes.
THEOREM RunsStayBounded == Spec => []RunsBounded
  <1>1. ASSUME FaultInv PROVE RunsBounded
    <2>1. /\ Len(runs) \in Nat /\ timeouts \in Nat /\ losses \in Nat
          /\ Cardinality(Ready) \in Nat
      BY ReadyFinite, <1>1, BoundsAreNat DEF FaultInv, Typed, Ready
    <2>2. Len(runs) + Cardinality(Ready) <= 1 + timeouts + losses
      BY <1>1 DEF FaultInv, Counted
    <2> QED BY <2>1, <2>2 DEF RunsBounded
  <1>2. FaultInv => RunsBounded
    BY <1>1
  <1> QED BY <1>2, FaultSoundness, PTL

\* A record that says steps were run is true, and a finished checkpoint names
\* a record of the audit log.
THEOREM RecordsStayTrue == Spec => []RecordsTrue
  <1>1. ASSUME FaultInv PROVE RecordsTrue
    <2>1. (\E n \in DOMAIN audit : audit[n].executed = TRUE) => runs # <<>>
      BY <1>1 DEF FaultInv, Sound, Results
    <2>2. saved.next = "end" => saved.audit >= 1
      BY <1>1 DEF FaultInv, Shape, Marching
    <2>3. /\ saved.audit \in Nat /\ saved.audit <= Len(audit)
          /\ Len(audit) \in Nat /\ DOMAIN audit = 1..Len(audit)
      BY <1>1 DEF FaultInv, Typed, States
    <2>4. saved.next = "end" => saved.audit \in DOMAIN audit
      BY <2>2, <2>3
    <2> QED BY <2>1, <2>4 DEF RecordsTrue, Records
  <1>2. FaultInv => RecordsTrue
    BY <1>1
  <1> QED BY <1>2, FaultSoundness, PTL

\* Expired budgets alone lose no record: when all is quiet and nothing died or
\* failed, every run is on record.
THEOREM RunsGetOnRecord == Spec => []RunsOnRecord
  <1>1. ASSUME FaultInv, Quiet, losses = 0 PROVE Cardinality(Records(TRUE)) >= Len(runs)
    <2>1. Unrecorded = {}
      BY <1>1 DEF FaultInv, Typed, Quiet, Working, Unrecorded
    <2>2. Cardinality(Unrecorded) = 0
      BY <2>1, FS_EmptySet
    <2>3. Cardinality(OnRecord) \in Nat /\ Len(runs) \in Nat
      BY <1>1, RecordsFinite DEF FaultInv, Typed, OnRecord
    <2>4. Len(runs) <= Cardinality(OnRecord)
      BY <1>1, <2>2, <2>3 DEF FaultInv, Recorded
    <2>5. Records(TRUE) = OnRecord
      BY DEF Records, OnRecord
    <2> QED BY <2>3, <2>4, <2>5
  <1>2. FaultInv => RunsOnRecord
    BY <1>1 DEF RunsOnRecord
  <1> QED BY <1>2, FaultSoundness, PTL

\* Once the requester is stamped, no vote in the log is theirs, whatever
\* checkpoint a late worker puts back.
THEOREM StampsSeparate == Spec => []StampedSeparates
  <1>1. FaultInv => StampedSeparates
    BY DEF FaultInv, Sound, Stamps, StampedSeparates
  <1> QED BY <1>1, FaultSoundness, PTL

-----------------------------------------------------------------------------
(***************************************************************************)
(* Calls are atomic.  First, what the commits of a call amount to, from    *)
(* the committed state b before it to the state a after it, is an action   *)
(* of Court.                                                               *)
(***************************************************************************)

Entry(verdict, s) == [verdict |-> verdict, status |-> s, executed |-> RunsPlan(verdict)]

\* The run was resumed with the verdict, which a finished one does not notice.
Resumed(b, verdict, n, s, log) ==
  IF b.saved.next = "execute"
  THEN /\ s \in TerminalStatuses(verdict.type)
       /\ n = "end" /\ log = Append(b.audit, Entry(verdict, s))
  ELSE s = b.saved.status /\ n = b.saved.next /\ log = b.audit

\* The events a decide call of p has to append.
NewVotes(b, p, approve) ==
  LET mine == VotingRoles(p, b.quorum)
      Voted(d, S) == \E e \in b.events : SameAs(e.actor, p) /\ e.decision = d /\ e.role \in S
  IN  IF approve
      THEN {Event(p, APPROVE, r) : r \in {x \in mine : ~Voted(APPROVE, {x})}}
      ELSE IF Voted(REJECT, Roles) THEN {} ELSE {Event(p, REJECT, CHOOSE r \in mine : TRUE)}

LEMMA OfTrial ==
  /\ \A x : Of(x)[trial] = x
  /\ \A x, y : [Of(x) EXCEPT ![trial] = y] = Of(y)
  /\ \A x : DOMAIN Of(x) = {trial}
  BY DEF Of

LEMMA SameVerdicts ==
  /\ Atomic!VerdictTypes = VerdictTypes /\ Atomic!Approving = Approving
  /\ Atomic!Statuses = Statuses /\ Atomic!NoKey = NoKey
  /\ \A type : Atomic!TerminalStatuses(type) = TerminalStatuses(type)
  /\ \A type, p, k : Atomic!Verdict(type, p, k) = Verdict(type, p, k)
  BY DEF Atomic!VerdictTypes, VerdictTypes, Atomic!Approving, Approving, Atomic!Statuses, Statuses,
         Atomic!Terminal, Terminal, Atomic!TerminalStatuses, TerminalStatuses,
         Atomic!RunStatuses, RunStatuses, Atomic!Verdict, Verdict,
         Atomic!NoKey, NoKey

LEMMA SamePeople ==
  /\ \A p : Atomic!Key(p) = Key(p) /\ Atomic!RolesFor(p) = RolesFor(p)
  /\ \A p, q : Atomic!SameAs(p, q) <=> SameAs(p, q)
  /\ \A p, q : Atomic!VotingRoles(p, q) = VotingRoles(p, q)
  /\ \A p, q, r : Atomic!Authorized(p, q, r) <=> Authorized(p, q, r)
  <1>1. \A p : Atomic!Key(p) = Key(p) /\ Atomic!RolesFor(p) = RolesFor(p)
    BY DEF Atomic!Key, Key, Atomic!RolesFor, RolesFor, Atomic!Blank, Blank
  <1>2. \A p, q : Atomic!SameAs(p, q) <=> SameAs(p, q)
    BY <1>1 DEF Atomic!SameAs, SameAs, Atomic!Blank, Blank
  <1>3. \A p, q : Atomic!VotingRoles(p, q) = VotingRoles(p, q)
    BY <1>1 DEF Atomic!VotingRoles, VotingRoles
  <1>4. \A p, q, r : Atomic!Authorized(p, q, r) <=> Authorized(p, q, r)
    BY <1>2, <1>3 DEF Atomic!Authorized, Authorized
  <1> QED BY <1>1, <1>2, <1>3, <1>4

LEMMA SameEvents ==
  /\ Atomic!SEND = SEND /\ Atomic!WITHDRAW = WITHDRAW /\ Atomic!APPROVE = APPROVE
  /\ Atomic!REJECT = REJECT /\ Atomic!ACK = ACK /\ Atomic!NoRole = NoRole
  /\ \A p, d, r : Atomic!Event(p, d, r) = Event(p, d, r)
  /\ \A es, q : Atomic!EvaluateQuorum(es, q) = EvaluateQuorum(es, q)
  <1>1. /\ Atomic!SEND = SEND /\ Atomic!WITHDRAW = WITHDRAW /\ Atomic!APPROVE = APPROVE
        /\ Atomic!REJECT = REJECT /\ Atomic!ACK = ACK /\ Atomic!NoRole = NoRole
    BY DEF Atomic!SEND, SEND, Atomic!WITHDRAW, WITHDRAW, Atomic!APPROVE, APPROVE,
           Atomic!REJECT, REJECT, Atomic!ACK, ACK, Atomic!NoRole, NoRole
  <1>2. \A p, d, r : Atomic!Event(p, d, r) = Event(p, d, r)
    BY DEF Atomic!Event, Event
  <1>3. \A es, d : Atomic!Decided(es, d) <=> Decided(es, d)
    BY DEF Atomic!Decided, Decided
  <1>4. \A es : Atomic!ApprovedRoles(es) = ApprovedRoles(es)
    BY <1>1 DEF Atomic!ApprovedRoles, ApprovedRoles
  <1>5. \A q, x : Atomic!Reached(q, x) <=> Reached(q, x)
    BY DEF Atomic!Reached, Reached
  <1>6. \A es, q : Atomic!EvaluateQuorum(es, q) = EvaluateQuorum(es, q)
    BY <1>1, <1>3, <1>4, <1>5 DEF Atomic!EvaluateQuorum, EvaluateQuorum
  <1> QED BY <1>1, <1>2, <1>6

LEMMA EntryIsRecord ==
  ASSUME NEW verdict, verdict.type # "none", NEW s
  PROVE  Entry(verdict, s) = Atomic!Record(verdict, s)
  <1>1. RunsPlan(verdict) <=> verdict.type \in Approving
    BY DEF RunsPlan, NoVerdict, Verdict
  <1>2. RunsPlan(verdict) = (verdict.type \in Approving)
    <2>1. CASE verdict.type \in Approving
      <3>1. RunsPlan(verdict) = TRUE
        BY <1>1, <2>1 DEF RunsPlan
      <3>2. (verdict.type \in Approving) = TRUE
        BY <2>1
      <3> QED BY <3>1, <3>2, Zenon
    <2>2. CASE verdict.type \notin Approving
      <3>1. RunsPlan(verdict) = FALSE
        BY <1>1, <2>2 DEF RunsPlan
      <3>2. (verdict.type \in Approving) = FALSE
        BY <2>2
      <3> QED BY <3>1, <3>2, Zenon
    <2> QED BY <2>1, <2>2
  <1>3. Atomic!Record(verdict, s) = [verdict |-> verdict, status |-> s, executed |-> verdict.type \in Approving]
    BY SameVerdicts, Zenon DEF Atomic!Record
  <1> QED BY <1>2, <1>3, Zenon DEF Entry

LEMMA AtomicResume ==
  ASSUME NEW verdict, verdict.type # "none", NEW s,
         Resumed(before, verdict, before'.saved.next, s, before'.audit)
  PROVE  Atomic!Resume(trial, verdict, s)
  <1>1. CASE before.saved.next = "execute"
    <2>1. Atomic!AtGate(trial) /\ s \in Atomic!TerminalStatuses(verdict.type)
      BY <1>1, OfTrial, SameVerdicts DEF Resumed, Atomic!AtGate
    <2>2. Of(before.saved.next)' = [Of(before.saved.next) EXCEPT ![trial] = "end"]
      BY <1>1, OfTrial DEF Resumed, Of
    <2>3. Of(before.audit)' = [Of(before.audit) EXCEPT ![trial] = Append(@, Atomic!Record(verdict, s))]
      BY <1>1, OfTrial, EntryIsRecord DEF Resumed, Of
    <2> QED BY <2>1, <2>2, <2>3 DEF Atomic!Resume
  <1>2. CASE before.saved.next # "execute"
    BY <1>2, OfTrial DEF Resumed, Atomic!Resume, Atomic!AtGate, Of
  <1> QED BY <1>1, <1>2

LEMMA AtomicCast ==
  ASSUME NEW p \in Principals, NEW type \in VerdictTypes, NEW k \in Keys, NEW s \in Statuses,
         before.saved.next \in {"execute", "end"},
         Authorized(p, before.saved.by, before.quorum), k \notin before.claimed,
         Resumed(before, Verdict(type, p, k), before'.saved.next, s, before'.audit),
         before'.saved.next # "absent",
         before'.saved.status = s, before'.saved.by = before.saved.by,
         before'.claimed = before.claimed \cup {k},
         before'.recorded = [before.recorded EXCEPT ![k] = Len(before'.audit)],
         before'.told = before.told \cup
           {IF type \in {"approve", "approve_internal_only"} THEN "approved" ELSE "rejected"},
         ~before'.pending,
         before'.quorum = before.quorum, before'.events = before.events
  PROVE  Atomic!Next
  <1> DEFINE verdict == Verdict(type, p, k)
  <1>1. verdict = Atomic!Verdict(type, p, k) /\ verdict.type = type /\ type # "none"
    BY DEF Verdict, Atomic!Verdict, VerdictTypes
  <1> HIDE DEF verdict
  <1>2. Atomic!Resume(trial, verdict, s)
    BY <1>1, AtomicResume DEF verdict
  <1>3. Atomic!CastVerdict(trial, p, type, k)
    <2>1. Atomic!Actionable(trial)
      BY OfTrial DEF Atomic!Actionable
    <2>2. /\ Atomic!Authorized(p, Of(before.saved.by)[trial], Of(before.quorum)[trial])
          /\ k \notin Of(before.claimed)[trial]
      BY OfTrial, SamePeople
    <2>3. \E x \in Atomic!Statuses : Atomic!Resume(trial, Atomic!Verdict(type, p, k), x) /\ Atomic!SetStatus(trial, x)
      BY <1>1, <1>2, OfTrial, SameVerdicts DEF Atomic!SetStatus, Of, verdict
    <2>4. /\ Of(before.claimed)' = [Of(before.claimed) EXCEPT ![trial] = @ \cup {k}]
          /\ Of(before.recorded)' = [Of(before.recorded) EXCEPT ![trial][k] = Len(Of(before.audit)'[trial])]
          /\ (IF before.pending THEN {trial} ELSE {})' = (IF before.pending THEN {trial} ELSE {}) \ {trial}
      BY OfTrial DEF Of
    <2>5. Atomic!Tell(trial, IF type \in {"approve", "approve_internal_only"} THEN "approved" ELSE "rejected")
      BY OfTrial DEF Atomic!Tell, Of
    <2> QED BY <2>1, <2>2, <2>3, <2>4, <2>5, OfTrial DEF Atomic!CastVerdict, Of
  <1>4. Atomic!TrialStep(trial)
    BY <1>3, SameVerdicts DEF Atomic!TrialStep
  <1> QED BY <1>4 DEF Atomic!Next
LEMMA AtomicSubmit ==
  ASSUME NEW p \in Principals, NEW q \in PolicyQuorums,
         before.saved.next = "absent",
         before'.saved.next = "execute", before'.saved.by = p,
         before'.saved.status = "awaiting_requester_review", before'.quorum = q,
         before'.events = before.events, before'.pending = before.pending,
         before'.claimed = before.claimed, before'.recorded = before.recorded,
         before'.audit = before.audit, before'.told = before.told
  PROVE  Atomic!Next
  <1>1. Of(before.saved.next)[trial] = "absent"
    BY OfTrial
  <1>2. /\ Of(before.saved.next)' = [Of(before.saved.next) EXCEPT ![trial] = "execute"]
        /\ Of(before.saved.status)' =
             [Of(before.saved.status) EXCEPT ![trial] = "awaiting_requester_review"]
        /\ Of(before.saved.by)' = [Of(before.saved.by) EXCEPT ![trial] = p]
        /\ Of(before.quorum)' = [Of(before.quorum) EXCEPT ![trial] = q]
    BY OfTrial DEF Of
  <1>3. Of(IF before.saved.next = "absent" THEN "none" ELSE "live")' =
          [Of(IF before.saved.next = "absent" THEN "none" ELSE "live") EXCEPT ![trial] = "live"]
    BY OfTrial DEF Of
  <1>4. Atomic!SubmitChange(trial, p, "live", q)
    BY <1>1, <1>2, <1>3 DEF Atomic!SubmitChange, Of, Atomic!ledgers
  <1>5. Atomic!TrialStep(trial)
    BY <1>4 DEF Atomic!TrialStep
  <1> QED BY <1>5 DEF Atomic!Next

LEMMA AtomicSend ==
  ASSUME NEW p \in Principals, NEW s \in Statuses,
         before.saved.next \in {"execute", "end"}, before'.saved.next \in {"execute", "end"},
         SameAs(p, before.saved.by),
         before'.events = before.events \cup {Event(p, SEND, NoRole)},
         IF EvaluateQuorum(before'.events, before.quorum) = "satisfied"
         THEN /\ Resumed(before, Verdict("approve", p, NoKey), before'.saved.next, s, before'.audit)
              /\ before'.saved.status = s /\ before'.pending = before.pending
         ELSE /\ before'.saved.status = "awaiting_approval" /\ before'.pending
              /\ before'.saved.next = before.saved.next /\ before'.audit = before.audit,
         before'.saved.by = before.saved.by, before'.quorum = before.quorum,
         before'.claimed = before.claimed, before'.recorded = before.recorded,
         before'.told = before.told
  PROVE  Atomic!Next
  <1> DEFINE verdict == Verdict("approve", p, NoKey)
  <1>1. verdict = Atomic!Verdict("approve", p, Atomic!NoKey) /\ verdict.type # "none"
    BY DEF Verdict, Atomic!Verdict, NoKey, Atomic!NoKey
  <1> HIDE DEF verdict
  <1>2. Atomic!Actionable(trial) /\ Atomic!IsRequester(trial, p)
    BY OfTrial, SamePeople DEF Atomic!Actionable, Atomic!IsRequester
  <1>3. /\ Atomic!Log(trial, {Atomic!Event(p, Atomic!SEND, Atomic!NoRole)})
        /\ Atomic!EvaluateQuorum(Of(before.events)'[trial], Of(before.quorum)[trial])
             = EvaluateQuorum(before'.events, before.quorum)
    BY OfTrial, SameEvents DEF Atomic!Log, Of
  <1>6. UNCHANGED <<Of(IF before.saved.next = "absent" THEN "none" ELSE "live"),
                    Of(before.saved.by), Of(before.quorum), Of(before.claimed),
                    Of(before.recorded), Of(before.told)>>
    BY DEF Of
  <1>4. CASE EvaluateQuorum(before'.events, before.quorum) = "satisfied"
    <2>1. Atomic!Resume(trial, verdict, s)
      BY <1>1, <1>4, AtomicResume DEF verdict
    <2>2. \E x \in Atomic!Statuses :
            Atomic!Resume(trial, Atomic!Verdict("approve", p, Atomic!NoKey), x)
            /\ Atomic!SetStatus(trial, x)
      BY <1>1, <1>4, <2>1, OfTrial, SameVerdicts DEF Atomic!SetStatus, Of
    <2>3. UNCHANGED (IF before.pending THEN {trial} ELSE {})
      BY <1>4
    <2>4. Atomic!SendForApproval(trial, p)
      BY <1>2, <1>3, <1>4, <1>6, <2>2, <2>3 DEF Atomic!SendForApproval, Atomic!ledgers
    <2> QED BY <2>4 DEF Atomic!TrialStep, Atomic!Next
  <1>5. CASE EvaluateQuorum(before'.events, before.quorum) # "satisfied"
    <2>1. Atomic!SetStatus(trial, "awaiting_approval")
      BY <1>5, OfTrial DEF Atomic!SetStatus, Of
    <2>2. /\ UNCHANGED <<Of(before.saved.next), Of(before.audit)>>
          /\ (IF before.pending THEN {trial} ELSE {})' =
               (IF before.pending THEN {trial} ELSE {}) \cup {trial}
      BY <1>5 DEF Of
    <2>3. Atomic!SendForApproval(trial, p)
      BY <1>2, <1>3, <1>5, <1>6, <2>1, <2>2 DEF Atomic!SendForApproval, Atomic!ledgers
    <2> QED BY <2>3 DEF Atomic!TrialStep, Atomic!Next
  <1> QED BY <1>4, <1>5
LEMMA AtomicWithdraw ==
  ASSUME NEW p \in Principals, NEW s \in Statuses,
         before.saved.next \in {"execute", "end"}, before'.saved.next \in {"execute", "end"},
         SameAs(p, before.saved.by),
         before'.events = before.events \cup {Event(p, WITHDRAW, NoRole)},
         Resumed(before, Verdict("withdraw", p, NoKey), before'.saved.next, s, before'.audit),
         before'.saved.status = "withdrawn", ~before'.pending,
         before'.saved.by = before.saved.by, before'.quorum = before.quorum,
         before'.claimed = before.claimed, before'.recorded = before.recorded,
         before'.told = before.told
  PROVE  Atomic!Next
  <1> DEFINE verdict == Verdict("withdraw", p, NoKey)
  <1>1. verdict = Atomic!Verdict("withdraw", p, Atomic!NoKey) /\ verdict.type # "none"
    BY DEF Verdict, Atomic!Verdict, NoKey, Atomic!NoKey
  <1> HIDE DEF verdict
  <1>2. Atomic!Actionable(trial) /\ Atomic!IsRequester(trial, p)
    BY OfTrial, SamePeople DEF Atomic!Actionable, Atomic!IsRequester
  <1>3. Atomic!Log(trial, {Atomic!Event(p, Atomic!WITHDRAW, Atomic!NoRole)})
    BY OfTrial, SameEvents DEF Atomic!Log, Of
  <1>4. UNCHANGED <<Of(IF before.saved.next = "absent" THEN "none" ELSE "live"),
                    Of(before.saved.by), Of(before.quorum), Of(before.claimed),
                    Of(before.recorded), Of(before.told)>>
    BY DEF Of
  <1>5. Atomic!Resume(trial, verdict, s)
    BY <1>1, AtomicResume DEF verdict
  <1>6. \E x \in Atomic!Statuses : Atomic!Resume(trial, Atomic!Verdict("withdraw", p, Atomic!NoKey), x)
    BY <1>1, <1>5, SameVerdicts
  <1>7. /\ Atomic!SetStatus(trial, "withdrawn")
        /\ (IF before.pending THEN {trial} ELSE {})' =
             (IF before.pending THEN {trial} ELSE {}) \ {trial}
    BY OfTrial DEF Atomic!SetStatus, Of
  <1>8. Atomic!WithdrawChange(trial, p)
    BY <1>2, <1>3, <1>4, <1>6, <1>7 DEF Atomic!WithdrawChange, Atomic!ledgers
  <1> QED BY <1>8 DEF Atomic!TrialStep, Atomic!Next

LEMMA AtomicAcknowledge ==
  ASSUME NEW p \in Principals,
         before.saved.next \in {"execute", "end"}, SameAs(p, before.saved.by),
         before.saved.status \in {"done", "rejected"},
         ~\E e \in before.events : SameAs(e.actor, p) /\ e.decision = ACK,
         before'.events = before.events \cup {Event(p, ACK, NoRole)},
         before'.saved = before.saved, before'.quorum = before.quorum,
         before'.pending = before.pending, before'.claimed = before.claimed,
         before'.recorded = before.recorded, before'.audit = before.audit,
         before'.told = before.told
  PROVE  Atomic!Next
  <1>1. /\ Of(before.saved.next)[trial] \in {"execute", "end"} /\ Atomic!IsRequester(trial, p)
        /\ Of(before.saved.status)[trial] \in {"done", "rejected"}
    BY OfTrial, SamePeople DEF Atomic!IsRequester
  <1>2. ~Atomic!Already(trial, p, Atomic!ACK)
    BY OfTrial, SamePeople, SameEvents DEF Atomic!Already
  <1>3. Atomic!Log(trial, {Atomic!Event(p, Atomic!ACK, Atomic!NoRole)})
    BY OfTrial, SameEvents DEF Atomic!Log, Of
  <1>4. Atomic!Acknowledge(trial, p)
    BY <1>1, <1>2, <1>3 DEF Atomic!Acknowledge, Atomic!checkpoint, Atomic!ledgers, Of
  <1> QED BY <1>4 DEF Atomic!TrialStep, Atomic!Next

\* The votes read off the log by Court, where every rejection has a role.
LEMMA AtomicVotes ==
  ASSUME NEW p \in Principals,
         \A e \in before.events : e.decision = REJECT => e.role \in Roles
  PROVE  /\ Atomic!NewApprovals(trial, p) = NewVotes(before, p, TRUE)
         /\ Atomic!NewRejections(trial, p) = NewVotes(before, p, FALSE)
  <1>1. \A r : Atomic!AlreadyRole(trial, p, r) <=>
                 \E e \in before.events : SameAs(e.actor, p) /\ e.decision = APPROVE /\ e.role = r
    BY OfTrial, SamePeople, SameEvents DEF Atomic!AlreadyRole
  <1>2. Atomic!Already(trial, p, Atomic!REJECT) <=>
          \E e \in before.events : SameAs(e.actor, p) /\ e.decision = REJECT /\ e.role \in Roles
    BY OfTrial, SamePeople, SameEvents DEF Atomic!Already
  <1>3. Atomic!VotingRoles(p, Of(before.quorum)[trial]) = VotingRoles(p, before.quorum)
    BY OfTrial, SamePeople
  <1>4. Atomic!NewApprovals(trial, p) = NewVotes(before, p, TRUE)
    BY <1>1, <1>3, SameEvents DEF Atomic!NewApprovals, NewVotes
  <1>5. Atomic!NewRejections(trial, p) = NewVotes(before, p, FALSE)
    BY <1>2, <1>3, SameEvents DEF Atomic!NewRejections, NewVotes
  <1> QED BY <1>4, <1>5

LEMMA AtomicDecide ==
  ASSUME NEW p \in Principals, NEW approve \in BOOLEAN, NEW s \in Statuses,
         \A e \in before.events : e.decision = REJECT => e.role \in Roles,
         before.saved.next \in {"execute", "end"}, before'.saved.next \in {"execute", "end"},
         Authorized(p, before.saved.by, before.quorum),
         NewVotes(before, p, approve) # {},
         before'.events = before.events \cup NewVotes(before, p, approve),
         LET outcome == EvaluateQuorum(before'.events, before.quorum)
         IN  \/ /\ outcome \in DOMAIN OutcomeVerdict
                /\ Resumed(before, Verdict(OutcomeVerdict[outcome], p, NoKey),
                           before'.saved.next, s, before'.audit)
                /\ before'.saved.status = IF outcome = "rejected" THEN "rejected" ELSE s
                /\ ~before'.pending
                /\ before'.told = before.told \cup
                     {IF outcome = "satisfied" THEN "approved" ELSE "rejected"}
             \/ /\ outcome \notin DOMAIN OutcomeVerdict
                /\ before'.saved = before.saved /\ before'.pending = before.pending
                /\ before'.audit = before.audit /\ before'.told = before.told,
         before'.saved.by = before.saved.by, before'.quorum = before.quorum,
         before'.claimed = before.claimed, before'.recorded = before.recorded
  PROVE  Atomic!Next
  <1> DEFINE outcome == EvaluateQuorum(before'.events, before.quorum)
             new == IF approve THEN Atomic!NewApprovals(trial, p) ELSE Atomic!NewRejections(trial, p)
             row == IF before.pending THEN {trial} ELSE {}
  <1>1. new = NewVotes(before, p, approve)
    BY AtomicVotes DEF NewVotes
  <1>2. outcome \in {"withdrawn", "rejected", "satisfied", "pending"}
    BY DEF EvaluateQuorum
  <1>3. Atomic!Actionable(trial)
    BY OfTrial DEF Atomic!Actionable
  <1>4. Atomic!Authorized(p, Of(before.saved.by)[trial], Of(before.quorum)[trial])
    BY OfTrial, SamePeople
  <1>5. /\ Atomic!Log(trial, new)
        /\ Atomic!EvaluateQuorum(Of(before.events)[trial] \cup new, Of(before.quorum)[trial]) = outcome
    <2> HIDE DEF new
    <2> QED BY <1>1, OfTrial, SameEvents DEF Atomic!Log, Of
  <1>6. UNCHANGED <<Of(IF before.saved.next = "absent" THEN "none" ELSE "live"),
                    Of(before.saved.by), Of(before.quorum), Of(before.claimed), Of(before.recorded)>>
    BY DEF Of
  <1>7. ASSUME NEW type \in {"approve", "reject"},
               Resumed(before, Verdict(type, p, NoKey), before'.saved.next, s, before'.audit)
        PROVE  Atomic!Resume(trial, Atomic!Verdict(type, p, Atomic!NoKey), s) /\ s \in Atomic!Statuses
    <2> DEFINE verdict == Verdict(type, p, NoKey)
    <2>1. verdict = Atomic!Verdict(type, p, Atomic!NoKey) /\ verdict.type # "none"
      BY DEF Verdict, Atomic!Verdict, NoKey, Atomic!NoKey
    <2> HIDE DEF verdict
    <2>2. Atomic!Resume(trial, verdict, s)
      BY <1>7, <2>1, AtomicResume DEF verdict
    <2> QED BY <2>1, <2>2, SameVerdicts
  <1>8. CASE outcome = "satisfied"
    <2>1. /\ Resumed(before, Verdict("approve", p, NoKey), before'.saved.next, s, before'.audit)
          /\ before'.saved.status = s /\ ~before'.pending /\ before'.told = before.told \cup {"approved"}
      BY <1>8 DEF OutcomeVerdict
    <2>2. \E x \in Atomic!Statuses :
            Atomic!Resume(trial, Atomic!Verdict("approve", p, Atomic!NoKey), x)
            /\ Atomic!SetStatus(trial, x)
      BY <1>7, <2>1, OfTrial DEF Atomic!SetStatus, Of
    <2>3. row' = row \ {trial} /\ Atomic!Tell(trial, "approved")
      BY <2>1, OfTrial DEF Atomic!Tell, Of
    <2> HIDE DEF new, outcome
    <2>4. Atomic!Decide(trial, p, approve)
      BY <1>1, <1>3, <1>4, <1>5, <1>6, <1>8, <2>2, <2>3 DEF Atomic!Decide, Atomic!ledgers, new
    <2> QED BY <2>4 DEF Atomic!TrialStep, Atomic!Next
  <1>9. CASE outcome = "rejected"
    <2>1. /\ Resumed(before, Verdict("reject", p, NoKey), before'.saved.next, s, before'.audit)
          /\ before'.saved.status = "rejected" /\ ~before'.pending
          /\ before'.told = before.told \cup {"rejected"}
      BY <1>9 DEF OutcomeVerdict
    <2>2. /\ \E x \in Atomic!Statuses :
               Atomic!Resume(trial, Atomic!Verdict("reject", p, Atomic!NoKey), x)
          /\ Atomic!SetStatus(trial, "rejected")
      BY <1>7, <2>1, OfTrial DEF Atomic!SetStatus, Of
    <2>3. row' = row \ {trial} /\ Atomic!Tell(trial, "rejected")
      BY <2>1, OfTrial DEF Atomic!Tell, Of
    <2> HIDE DEF new, outcome
    <2>4. Atomic!Decide(trial, p, approve)
      BY <1>1, <1>3, <1>4, <1>5, <1>6, <1>9, <2>2, <2>3 DEF Atomic!Decide, Atomic!ledgers, new
    <2> QED BY <2>4 DEF Atomic!TrialStep, Atomic!Next
  <1>10. CASE outcome \in {"pending", "withdrawn"}
    <2>1. UNCHANGED <<Of(before.saved.next), Of(before.saved.status), row, Of(before.audit), Of(before.told)>>
      BY <1>10 DEF OutcomeVerdict, Of
    <2> HIDE DEF new, outcome
    <2>2. Atomic!Decide(trial, p, approve)
      BY <1>1, <1>3, <1>4, <1>5, <1>6, <1>10, <2>1 DEF Atomic!Decide, Atomic!ledgers, new
    <2> QED BY <2>2 DEF Atomic!TrialStep, Atomic!Next
  <1> QED BY <1>2, <1>8, <1>9, <1>10
-----------------------------------------------------------------------------
(***************************************************************************)
(* Then, where a call stands between the state it began in and its end,    *)
(* while nothing has failed.                                               *)
(***************************************************************************)

\* What is committed between two calls.
AtRest(b) ==
  /\ b.saved.next \in {"absent", "execute", "end"} /\ b.saved.status \in Statuses
  /\ b.saved.next = "end" => b.saved.audit = Len(b.audit)
  /\ \A e \in b.events : e.decision = REJECT => e.role \in Roles

\* The events call c appends; "approve" is the button of a decide call.
Adds(b, c, approve) ==
  CASE c.op = "send"     -> {Event(c.actor, SEND, NoRole)}
    [] c.op = "withdraw" -> {Event(c.actor, WITHDRAW, NoRole)}
    [] c.op = "decide"   -> NewVotes(b, c.actor, approve)
    [] OTHER             -> {}

\* Call c passed its guards in b.
Begun(b, c, approve) ==
  /\ c.actor \in Principals /\ b.saved.next \in {"execute", "end"}
  /\ c.op \in {"cast", "decide"} => Authorized(c.actor, b.saved.by, b.quorum)
  /\ c.op \in {"send", "withdraw"} => SameAs(c.actor, b.saved.by)
  /\ c.op = "cast" => \E type \in VerdictTypes, k \in Keys \ b.claimed :
                        c.verdict = Verdict(type, c.actor, k)
  /\ c.op = "send" => c.verdict = Verdict("approve", c.actor, NoKey)
  /\ c.op = "withdraw" => c.verdict = Verdict("withdraw", c.actor, NoKey)
  /\ c.op = "decide" => NewVotes(b, c.actor, approve) # {}

\* The fold sent it where it is.
Folded(b, c, approve) ==
  LET outcome == EvaluateQuorum(b.events \cup Adds(b, c, approve), b.quorum) IN
  /\ c.pc \in {"hold", "enqueue"} => c.op = "send" /\ outcome # "satisfied"
  /\ c.pc \in {"resume", "launch", "wait", "settle", "dequeue"} =>
       /\ c.op = "send" => outcome = "satisfied"
       /\ c.op = "decide" =>
            /\ outcome \in DOMAIN OutcomeVerdict
            /\ c.verdict = Verdict(OutcomeVerdict[outcome], c.actor, NoKey)

\* What only the ends of a call touch is as it was.
Kept(b, approve) ==
  /\ quorum = b.quorum /\ pending = b.pending /\ told = b.told /\ saved.by = b.saved.by
  /\ claimed = IF call.op = "cast" THEN b.claimed \cup {call.verdict.key} ELSE b.claimed
  /\ events \cup call.todo = b.events \cup Adds(b, call, approve)
  /\ call.pc # "log" => call.todo = {}
  /\ call.pc # "dequeue" => recorded = b.recorded

\* How far the call's worker has brought the run.
Driven(b, w) ==
  LET verdict == call.verdict IN
  /\ w.pc # "deliberate"
  /\ w.pc \in {"execute", "executed", "audit"} =>
       w.state.verdict = verdict /\ w.state.by = b.saved.by /\ audit = b.audit
  /\ w.pc \in {"executed", "audit"} =>
       w.state.status \in TerminalStatuses(verdict.type) /\ w.state.results = RunsPlan(verdict)
  /\ w.pc = "audited" =>
       /\ w.state.by = b.saved.by /\ w.state.next = "end" /\ w.state.audit = Len(audit)
       /\ w.state.status \in TerminalStatuses(verdict.type)
       /\ audit = Append(b.audit, Entry(verdict, w.state.status))
  /\ w.pc = "off" =>
       /\ saved.next = "end" /\ saved.audit = Len(audit)
       /\ Resumed(b, verdict, "end", saved.status, audit)

\* The status the call leaves when the run has left s.
Leaves(c, s) ==
  IF c.op = "withdraw" THEN "withdrawn"
  ELSE IF c.op = "decide" /\ c.verdict.type = "reject" THEN "rejected" ELSE s

\* What the call has changed so far of the checkpoint and the audit log.
Changed(b) ==
  /\ call.pc \in {"log", "hold", "resume"} => saved = b.saved /\ audit = b.audit
  /\ call.pc = "enqueue" =>
       /\ saved.status = "awaiting_approval" /\ audit = b.audit
       /\ saved.next = b.saved.next /\ saved.audit = b.saved.audit
  /\ call.pc = "launch" =>
       /\ b.saved.next = "execute" /\ audit = b.audit
       /\ saved.next = "execute" /\ saved.verdict = call.verdict
  /\ call.pc = "wait" => b.saved.next = "execute" /\ Driven(b, workers[calls])
  /\ call.pc \in {"settle", "dequeue"} => saved.next = "end" /\ saved.audit = Len(audit)
  /\ call.pc = "settle" => Resumed(b, call.verdict, "end", saved.status, audit)
  /\ call.pc = "dequeue" =>
       /\ call.op # "send"
       /\ \E s \in Statuses :
            Resumed(b, call.verdict, "end", s, audit) /\ saved.status = Leaves(call, s)
       /\ recorded = IF call.op = "cast"
                     THEN [b.recorded EXCEPT ![call.verdict.key] = Len(audit)] ELSE b.recorded

\* A submission: the trial suspends at the gate, and nothing else moves.
Submitting(b) ==
  /\ call.actor \in Principals /\ b.saved.next = "absent"
  /\ events = b.events /\ pending = b.pending /\ claimed = b.claimed
  /\ recorded = b.recorded /\ audit = b.audit /\ told = b.told
  /\ workers[calls].pc = "off" =>
       /\ quorum \in PolicyQuorums
       /\ saved = [NoState EXCEPT !.next = "execute", !.status = "evaluated"]

Simulated ==
  /\ AtRest(before)
  /\ \A i \in 1..MaxCalls : workers[i].pc # "off" => i = calls /\ call.pc = "wait"
  /\ call.op = "none" => call = Idle /\ before = Committed
  /\ call.op = "submit" => Submitting(before)
  /\ call.op \in {"cast", "send", "withdraw", "decide"} =>
       \E approve \in BOOLEAN :
         /\ Begun(before, call, approve) /\ Folded(before, call, approve)
         /\ Kept(before, approve) /\ Changed(before)

CallInv == timeouts + losses = 0 => Simulated
VerdictOps == {"cast", "send", "withdraw", "decide"}

LEMMA EndsSimulated ==
  ASSUME call' = Idle, before' = Committed', AtRest(before'),
         \A i \in 1..MaxCalls : workers'[i].pc = "off"
  PROVE  Simulated'
  <1>1. call'.op = "none"
    BY DEF Idle
  <1> QED BY <1>1 DEF Simulated

LEMMA GoesOnSimulated ==
  ASSUME NEW b, before' = b, AtRest(b), call'.op \in VerdictOps,
         \A i \in 1..MaxCalls : workers'[i].pc # "off" => i = calls' /\ call'.pc = "wait",
         NEW approve \in BOOLEAN,
         Begun(b, call', approve), Folded(b, call', approve),
         Kept(b, approve)', Changed(b)'
  PROVE  Simulated'
  <1>1. call'.op \notin {"none", "submit"}
    BY DEF VerdictOps
  <1>2. Kept(before, approve)' /\ Changed(before)' /\ Begun(before, call, approve)'
        /\ Folded(before, call, approve)' /\ AtRest(before)'
    OBVIOUS
  <1> QED BY <1>1, <1>2 DEF Simulated

\* A call that only moves to another place passed its guards as before.
LEMMA SameCall ==
  ASSUME NEW b, NEW c, NEW d, NEW approve,
         c.op = d.op, c.actor = d.actor, c.verdict = d.verdict
  PROVE  /\ Begun(b, c, approve) => Begun(b, d, approve)
         /\ Adds(b, c, approve) = Adds(b, d, approve)
  BY DEF Begun, Adds

LEMMA IdleBefore ==
  ASSUME Typed, Shape, Simulated, call = Idle
  PROVE  /\ before = Committed /\ AtRest(before) /\ call.op = "none"
         /\ \A i \in 1..MaxCalls : workers[i].pc = "off"
         /\ before.saved = saved /\ before.quorum = quorum /\ before.events = events
         /\ before.pending = pending /\ before.claimed = claimed /\ before.recorded = recorded
         /\ before.audit = audit /\ before.told = told
         /\ saved.next # "absent" => saved.next \in {"execute", "end"}
  <1>1. call.op = "none" /\ call.pc # "wait"
    BY DEF Idle
  <1>2. before = Committed /\ AtRest(before) /\ \A i \in 1..MaxCalls : workers[i].pc = "off"
    BY <1>1 DEF Simulated
  <1>3. /\ before.saved = saved /\ before.quorum = quorum /\ before.events = events
        /\ before.pending = pending /\ before.claimed = claimed /\ before.recorded = recorded
        /\ before.audit = audit /\ before.told = told
    BY <1>2 DEF Committed
  <1> QED BY <1>1, <1>2, <1>3 DEF AtRest

LEMMA VotesAreNew ==
  ASSUME NEW b, b.events = events, b.quorum = quorum, NEW p, NEW approve
  PROVE  Votes(p, approve) = NewVotes(b, p, approve)
  BY DEF Votes, NewVotes

LEMMA SubmitSimulated ==
  ASSUME Typed, Shape, Simulated, NEW p \in Submitters, Submit(p), before' = before
  PROVE  Simulated'
  <1>0. call = Idle
    BY DEF Submit, Free
  <1>1. /\ AtRest(before) /\ \A i \in 1..MaxCalls : workers[i].pc = "off"
        /\ before.saved = saved /\ before.quorum = quorum /\ before.events = events
        /\ before.pending = pending /\ before.claimed = claimed /\ before.recorded = recorded
        /\ before.audit = audit /\ before.told = told
    BY <1>0, IdleBefore
  <1>2. p \in Principals
    BY SubmittersAssumption
  <1>3. call'.op = "submit" /\ call'.actor = p /\ call'.pc = "wait"
    BY DEF Submit, Begin, Call
  <1>4. calls' = calls + 1 /\ calls' \in 1..MaxCalls
    BY BoundsAreNat DEF Submit, Free, Begin, Typed
  <1>5. /\ workers'[calls'].pc = "deliberate"
        /\ \A i \in 1..MaxCalls : i # calls' => workers'[i] = workers[i]
    BY <1>4 DEF Submit, Typed
  <1>6. Submitting(before)'
    BY <1>1, <1>2, <1>3, <1>5 DEF Submitting, Submit, stores
  <1> QED BY <1>1, <1>3, <1>5, <1>6 DEF Simulated

LEMMA CallsSimulated ==
  ASSUME Typed, Shape, Simulated, NEW p \in Principals, before' = before,
         \/ Send(p) \/ Withdraw(p) \/ \E approve \in BOOLEAN : Decide(p, approve)
         \/ \E type \in CastTypes, k \in Keys : Cast(p, type, k)
  PROVE  Simulated'
  <1>0. call = Idle /\ saved.next # "absent"
    BY DEF Send, Withdraw, Decide, Cast, Existing, Free
  <1> PICK b : b = before
    OBVIOUS
  <1>1. /\ AtRest(b) /\ \A i \in 1..MaxCalls : workers[i].pc = "off"
        /\ b.saved = saved /\ b.quorum = quorum /\ b.events = events
        /\ b.pending = pending /\ b.claimed = claimed /\ b.recorded = recorded
        /\ b.audit = audit /\ b.told = told /\ saved.next \in {"execute", "end"}
    BY <1>0, IdleBefore
  <1>2. UNCHANGED <<saved, quorum, events, pending, recorded, audit, told, workers>>
    BY DEF Send, Withdraw, Decide, Cast, stores
  <1>3. CASE Send(p) \/ Withdraw(p)
    <2>1. /\ call'.actor = p /\ call'.pc = "log" /\ UNCHANGED claimed /\ SameAs(p, saved.by)
          /\ \/ /\ call'.op = "send" /\ call'.verdict = Verdict("approve", p, NoKey)
                /\ call'.todo = {Event(p, SEND, NoRole)}
             \/ /\ call'.op = "withdraw" /\ call'.verdict = Verdict("withdraw", p, NoKey)
                /\ call'.todo = {Event(p, WITHDRAW, NoRole)}
      BY <1>3 DEF Send, Withdraw, Begin, Call, stores
    <2>2. Begun(b, call', TRUE) /\ Folded(b, call', TRUE)
      BY <1>1, <2>1 DEF Begun, Folded
    <2>3. Kept(b, TRUE)'
      BY <1>1, <1>2, <2>1 DEF Kept, Adds
    <2>4. Changed(b)'
      BY <1>1, <1>2, <2>1 DEF Changed
    <2> QED BY <1>1, <1>2, <2>1, <2>2, <2>3, <2>4, GoesOnSimulated DEF VerdictOps
  <1>4. ASSUME NEW approve \in BOOLEAN, Decide(p, approve) PROVE Simulated'
    <2>1. /\ call'.op = "decide" /\ call'.actor = p /\ call'.pc = "log" /\ UNCHANGED claimed
          /\ Authorized(p, saved.by, quorum) /\ Votes(p, approve) # {}
          /\ call'.todo = Votes(p, approve)
      BY <1>4 DEF Decide, Begin, Call, stores
    <2>2. Votes(p, approve) = NewVotes(b, p, approve)
      BY <1>1, VotesAreNew
    <2>3. Begun(b, call', approve) /\ Folded(b, call', approve)
      BY <1>1, <2>1, <2>2 DEF Begun, Folded
    <2>4. Kept(b, approve)'
      BY <1>1, <1>2, <2>1, <2>2 DEF Kept, Adds
    <2>5. Changed(b)'
      BY <1>1, <1>2, <2>1 DEF Changed
    <2> QED BY <1>1, <1>2, <2>1, <2>3, <2>4, <2>5, GoesOnSimulated DEF VerdictOps
  <1>5. ASSUME NEW type \in CastTypes, NEW k \in Keys, Cast(p, type, k) PROVE Simulated'
    <2>1. /\ call'.op = "cast" /\ call'.actor = p /\ call'.pc = "resume" /\ call'.todo = {}
          /\ Authorized(p, saved.by, quorum) /\ k \notin claimed /\ claimed' = claimed \cup {k}
          /\ call'.verdict = Verdict(type, p, k)
      BY <1>5 DEF Cast, Begin, Call
    <2>2. type \in VerdictTypes /\ Verdict(type, p, k).key = k
      BY CastTypesAssumption DEF Verdict
    <2>3. Begun(b, call', TRUE) /\ Folded(b, call', TRUE)
      BY <1>1, <2>1, <2>2 DEF Begun, Folded
    <2>4. Kept(b, TRUE)'
      BY <1>1, <1>2, <2>1, <2>2 DEF Kept, Adds
    <2>5. Changed(b)'
      BY <1>1, <1>2, <2>1 DEF Changed
    <2> QED BY <1>1, <1>2, <2>1, <2>3, <2>4, <2>5, GoesOnSimulated DEF VerdictOps
  <1> QED BY <1>3, <1>4, <1>5

LEMMA AcknowledgeSimulated ==
  ASSUME Typed, Shape, Simulated, NEW p \in Principals, Acknowledge(p), before' = Committed'
  PROVE  Simulated' /\ Atomic!Next
  <1>0. call = Idle /\ saved.next # "absent"
    BY DEF Acknowledge, Existing, Free
  <1>1. /\ AtRest(before) /\ \A i \in 1..MaxCalls : workers[i].pc = "off"
        /\ before.saved = saved /\ before.quorum = quorum /\ before.events = events
        /\ before.pending = pending /\ before.claimed = claimed /\ before.recorded = recorded
        /\ before.audit = audit /\ before.told = told /\ saved.next \in {"execute", "end"}
    BY <1>0, IdleBefore
  <1>2. /\ before'.saved = saved' /\ before'.quorum = quorum' /\ before'.events = events'
        /\ before'.pending = pending' /\ before'.claimed = claimed' /\ before'.recorded = recorded'
        /\ before'.audit = audit' /\ before'.told = told'
    BY DEF Committed
  <1>3. /\ UNCHANGED <<saved, quorum, pending, claimed, recorded, audit, told, call, workers>>
        /\ events' = events \cup {Event(p, ACK, NoRole)}
        /\ SameAs(p, saved.by) /\ saved.status \in {"done", "rejected"}
        /\ ~\E e \in events : SameAs(e.actor, p) /\ e.decision = ACK
    BY DEF Acknowledge
  <1>4. Atomic!Next
    BY <1>1, <1>2, <1>3, AtomicAcknowledge
  <1>5. AtRest(before')
    BY <1>1, <1>2, <1>3 DEF AtRest, Event, ACK, REJECT
  <1> QED BY <1>0, <1>1, <1>3, <1>4, <1>5, EndsSimulated
\* A call that is neither between calls nor a submission.
LEMMA UnderWay ==
  ASSUME Typed, Shape, Simulated, call.pc \notin {"idle", "wait", "settle"}
  PROVE  /\ call.op \in VerdictOps /\ \A i \in 1..MaxCalls : workers[i].pc = "off"
         /\ \E approve \in BOOLEAN :
              /\ Begun(before, call, approve) /\ Folded(before, call, approve)
              /\ Kept(before, approve) /\ Changed(before)
  <1>1. call.op \in VerdictOps
    BY DEF Typed, CallRecords, Ops, Shape, Slots, Opening, VerdictOps
  <1>2. \E approve \in BOOLEAN :
              /\ Begun(before, call, approve) /\ Folded(before, call, approve)
              /\ Kept(before, approve) /\ Changed(before)
    BY <1>1 DEF Simulated, VerdictOps
  <1> QED BY <1>1, <1>2 DEF Simulated

LEMMA GotoCall ==
  ASSUME Typed, NEW pc, Goto(pc)
  PROVE  /\ call'.op = call.op /\ call'.actor = call.actor /\ call'.verdict = call.verdict
         /\ call'.todo = call.todo /\ call'.pc = pc
  BY DEF Goto, Typed, CallRecords

LEMMA RolesOfVotes ==
  ASSUME NEW b, NEW c, NEW approve, AtRest(b), Begun(b, c, approve)
  PROVE  \A e \in b.events \cup Adds(b, c, approve) : e.decision = REJECT => e.role \in Roles
  <1>1. \A e \in b.events : e.decision = REJECT => e.role \in Roles
    BY DEF AtRest
  <1>2. ASSUME c.op = "decide"
        PROVE  \A e \in NewVotes(b, c.actor, approve) : e.decision = REJECT => e.role \in Roles
    <2> DEFINE mine == VotingRoles(c.actor, b.quorum)
               one == CHOOSE r \in mine : TRUE
    <2>1. mine # {} /\ mine \subseteq Roles
      BY <1>2 DEF Begun, Authorized, VotingRoles, RolesFor
    <2>2. one \in Roles
      BY <2>1
    <2>3. \A e \in NewVotes(b, c.actor, approve) : e.role = one \/ e.decision = APPROVE
      BY DEF NewVotes, Event
    <2> HIDE DEF one
    <2> QED BY <2>2, <2>3 DEF APPROVE, REJECT
  <1>3. \A e \in Adds(b, c, approve) : e.decision = REJECT => e.role \in Roles
    BY <1>2 DEF Adds, Event, SEND, WITHDRAW, REJECT
  <1> QED BY <1>1, <1>3

LEMMA AppendSimulated ==
  ASSUME Typed, Shape, Simulated, AppendEvent, before' = before
  PROVE  Simulated'
  <1> PICK b : b = before
    OBVIOUS
  <1>0. AtRest(b)
    BY DEF Simulated
  <1>1. call.pc = "log"
    BY DEF AppendEvent
  <1>2. PICK approve \in BOOLEAN :
          Begun(b, call, approve) /\ Folded(b, call, approve) /\ Kept(b, approve) /\ Changed(b)
    BY <1>1, UnderWay
  <1>3. /\ call.op \in VerdictOps /\ \A i \in 1..MaxCalls : workers[i].pc = "off"
    BY <1>1, UnderWay
  <1>4. /\ call'.op = call.op /\ call'.actor = call.actor /\ call'.verdict = call.verdict
        /\ call'.pc = "log" /\ events' \cup call'.todo = events \cup call.todo
    BY <1>1 DEF AppendEvent, Typed, CallRecords
  <1>5. UNCHANGED <<saved, quorum, pending, claimed, recorded, audit, told, workers>>
    BY DEF AppendEvent
  <1>6. Begun(b, call', approve) /\ Adds(b, call, approve) = Adds(b, call', approve)
    BY <1>2, <1>4, SameCall
  <1>7. Folded(b, call', approve)
    BY <1>4 DEF Folded
  <1>8. Kept(b, approve)'
    BY <1>1, <1>2, <1>4, <1>5, <1>6 DEF Kept
  <1>9. Changed(b)'
    BY <1>1, <1>2, <1>4, <1>5 DEF Changed
  <1> QED BY <1>0, <1>3, <1>4, <1>5, <1>6, <1>7, <1>8, <1>9, GoesOnSimulated

LEMMA FoldSimulated ==
  ASSUME Typed, Shape, Simulated, Fold,
         before' = IF call' = Idle THEN Committed' ELSE before
  PROVE  Simulated' /\ (before' = before \/ Atomic!Next)
  <1> PICK b : b = before
    OBVIOUS
  <1>0. AtRest(b)
    BY DEF Simulated
  <1>1. call.pc = "log" /\ call.todo = {}
    BY DEF Fold
  <1>2. PICK approve \in BOOLEAN :
          Begun(b, call, approve) /\ Folded(b, call, approve) /\ Kept(b, approve) /\ Changed(b)
    BY <1>1, UnderWay
  <1>3. /\ call.op \in VerdictOps /\ \A i \in 1..MaxCalls : workers[i].pc = "off"
    BY <1>1, UnderWay
  <1>4. UNCHANGED <<saved, quorum, events, pending, claimed, recorded, audit, told, workers>>
    BY DEF Fold, stores
  <1> DEFINE outcome == EvaluateQuorum(b.events \cup Adds(b, call, approve), b.quorum)
  <1>5. /\ events = b.events \cup Adds(b, call, approve) /\ quorum = b.quorum
        /\ EvaluateQuorum(events, quorum) = outcome
    BY <1>1, <1>2 DEF Kept
  <1>6. \/ /\ call.op = "withdraw" \/ (call.op = "send" /\ outcome = "satisfied")
           /\ Goto("resume")
        \/ /\ call.op = "send" /\ outcome # "satisfied"
           /\ Goto("hold")
        \/ /\ call.op = "decide" /\ outcome \in DOMAIN OutcomeVerdict
           /\ call' = [call EXCEPT !.pc = "resume",
                         !.verdict = Verdict(OutcomeVerdict[outcome], call.actor, NoKey)]
        \/ /\ call.op = "decide" /\ outcome \notin DOMAIN OutcomeVerdict
           /\ call' = Idle
    BY <1>5 DEF Fold
  <1>7. ASSUME call'.op = call.op, call'.actor = call.actor, call'.todo = call.todo,
               call.op = "decide" \/ call'.verdict = call.verdict,
               call'.pc \in {"hold", "resume"}, Folded(b, call', approve)
        PROVE  Simulated' /\ before' = before
    <2>1. call' # Idle /\ before' = before
      BY <1>3, <1>7 DEF VerdictOps, Idle
    <2>2. Begun(b, call', approve) /\ Adds(b, call', approve) = Adds(b, call, approve)
      BY <1>2, <1>7 DEF Begun, Adds
    <2>3. call.op = "cast" => call'.verdict = call.verdict
      BY <1>7
    <2>4. Kept(b, approve)'
      BY <1>1, <1>2, <1>4, <1>7, <2>2, <2>3 DEF Kept
    <2>5. Changed(b)'
      BY <1>1, <1>2, <1>4, <1>7 DEF Changed
    <2> QED BY <1>0, <1>3, <1>4, <1>7, <2>1, <2>2, <2>4, <2>5, GoesOnSimulated
  <1> HIDE DEF outcome
  <1>8. CASE /\ call.op = "withdraw" \/ (call.op = "send" /\ outcome = "satisfied")
             /\ Goto("resume")
    <2>1. /\ call'.op = call.op /\ call'.actor = call.actor /\ call'.verdict = call.verdict
          /\ call'.todo = call.todo /\ call'.pc = "resume"
      BY <1>8, GotoCall
    <2>2. Adds(b, call', approve) = Adds(b, call, approve)
      BY <2>1, SameCall
    <2>3. Folded(b, call', approve)
      BY <1>8, <2>1, <2>2 DEF Folded, outcome
    <2> QED BY <1>7, <2>1, <2>3
  <1>9. CASE call.op = "send" /\ outcome # "satisfied" /\ Goto("hold")
    <2>1. /\ call'.op = call.op /\ call'.actor = call.actor /\ call'.verdict = call.verdict
          /\ call'.todo = call.todo /\ call'.pc = "hold"
      BY <1>9, GotoCall
    <2>2. Adds(b, call', approve) = Adds(b, call, approve)
      BY <2>1, SameCall
    <2>3. Folded(b, call', approve)
      BY <1>9, <2>1, <2>2 DEF Folded, outcome
    <2> QED BY <1>7, <2>1, <2>3
  <1>10. CASE /\ call.op = "decide" /\ outcome \in DOMAIN OutcomeVerdict
              /\ call' = [call EXCEPT !.pc = "resume",
                            !.verdict = Verdict(OutcomeVerdict[outcome], call.actor, NoKey)]
    <2>1. /\ call'.op = call.op /\ call'.actor = call.actor
          /\ call'.verdict = Verdict(OutcomeVerdict[outcome], call.actor, NoKey)
          /\ call'.todo = call.todo /\ call'.pc = "resume"
      BY <1>10 DEF Typed, CallRecords
    <2>2. Adds(b, call', approve) = Adds(b, call, approve)
      BY <2>1 DEF Adds
    <2>3. Folded(b, call', approve)
      BY <1>10, <2>1, <2>2 DEF Folded, outcome
    <2> QED BY <1>7, <1>10, <2>1, <2>3
  <1>11. CASE call.op = "decide" /\ outcome \notin DOMAIN OutcomeVerdict /\ call' = Idle
    <2>1. /\ before' = Committed'
          /\ before'.saved = saved' /\ before'.quorum = quorum' /\ before'.events = events'
          /\ before'.pending = pending' /\ before'.claimed = claimed' /\ before'.recorded = recorded'
          /\ before'.audit = audit' /\ before'.told = told'
      BY <1>11 DEF Committed
    <2>2. /\ saved = b.saved /\ audit = b.audit /\ pending = b.pending /\ told = b.told
          /\ recorded = b.recorded /\ claimed = b.claimed /\ quorum = b.quorum
          /\ events = b.events \cup NewVotes(b, call.actor, approve)
      BY <1>1, <1>2, <1>5, <1>11 DEF Kept, Changed, Adds
    <2>3. /\ call.actor \in Principals /\ b.saved.next \in {"execute", "end"}
          /\ Authorized(call.actor, b.saved.by, b.quorum) /\ NewVotes(b, call.actor, approve) # {}
          /\ \A e \in b.events : e.decision = REJECT => e.role \in Roles
      BY <1>0, <1>2, <1>11 DEF Begun, AtRest
    <2>4. EvaluateQuorum(before'.events, before.quorum) = outcome /\ "done" \in Statuses
      BY <1>4, <1>5, <2>1 DEF Statuses, Terminal
    <2>5. Atomic!Next
      BY <1>4, <1>11, <2>1, <2>2, <2>3, <2>4, AtomicDecide
    <2>6. AtRest(before')
      BY <1>0, <1>2, <1>4, <1>5, <2>1, <2>2, RolesOfVotes DEF AtRest
    <2> QED BY <1>3, <1>4, <1>11, <2>1, <2>5, <2>6, EndsSimulated
  <1> QED BY <1>6, <1>8, <1>9, <1>10, <1>11
LEMMA HoldSimulated ==
  ASSUME Typed, Shape, Simulated, Hold, before' = before
  PROVE  Simulated'
  <1> PICK b : b = before
    OBVIOUS
  <1>0. AtRest(b)
    BY DEF Simulated
  <1>1. call.pc = "hold"
    BY DEF Hold
  <1>2. PICK approve \in BOOLEAN :
          Begun(b, call, approve) /\ Folded(b, call, approve) /\ Kept(b, approve) /\ Changed(b)
    BY <1>1, UnderWay
  <1>3. /\ call.op \in VerdictOps /\ \A i \in 1..MaxCalls : workers[i].pc = "off"
    BY <1>1, UnderWay
  <1>4. /\ call'.op = call.op /\ call'.actor = call.actor /\ call'.verdict = call.verdict
        /\ call'.todo = call.todo /\ call'.pc = "enqueue"
    BY GotoCall DEF Hold
  <1>5. UNCHANGED <<quorum, events, pending, claimed, recorded, audit, told, workers>>
    BY DEF Hold, stores
  <1>6. /\ saved'.status = "awaiting_approval" /\ saved'.next = saved.next
        /\ saved'.audit = saved.audit /\ saved'.by = saved.by
    BY DEF Hold, Typed, States
  <1>7. Begun(b, call', approve) /\ Adds(b, call, approve) = Adds(b, call', approve)
    BY <1>2, <1>4, SameCall
  <1>8. Folded(b, call', approve)
    BY <1>1, <1>2, <1>4, <1>7 DEF Folded
  <1>9. Kept(b, approve)'
    BY <1>1, <1>2, <1>4, <1>5, <1>6, <1>7 DEF Kept
  <1>10. Changed(b)'
    BY <1>1, <1>2, <1>4, <1>5, <1>6 DEF Changed
  <1> QED BY <1>0, <1>3, <1>4, <1>5, <1>7, <1>8, <1>9, <1>10, GoesOnSimulated

LEMMA EnqueueSimulated ==
  ASSUME Typed, Shape, Simulated, Enqueue, before' = Committed'
  PROVE  Simulated' /\ Atomic!Next
  <1> PICK b : b = before
    OBVIOUS
  <1>0. AtRest(b)
    BY DEF Simulated
  <1>1. call.pc = "enqueue"
    BY DEF Enqueue
  <1>2. PICK approve \in BOOLEAN :
          Begun(b, call, approve) /\ Folded(b, call, approve) /\ Kept(b, approve) /\ Changed(b)
    BY <1>1, UnderWay
  <1>3. \A i \in 1..MaxCalls : workers[i].pc = "off"
    BY <1>1, UnderWay
  <1>4. /\ UNCHANGED <<saved, quorum, events, claimed, recorded, audit, told, workers>>
        /\ pending' = TRUE /\ call' = Idle
    BY DEF Enqueue
  <1>5. /\ before'.saved = saved' /\ before'.quorum = quorum' /\ before'.events = events'
        /\ before'.pending = pending' /\ before'.claimed = claimed' /\ before'.recorded = recorded'
        /\ before'.audit = audit' /\ before'.told = told'
    BY DEF Committed
  <1>6. /\ call.op = "send" /\ call.actor \in Principals /\ SameAs(call.actor, b.saved.by)
        /\ b.saved.next \in {"execute", "end"}
        /\ events = b.events \cup {Event(call.actor, SEND, NoRole)}
        /\ EvaluateQuorum(events, b.quorum) # "satisfied"
    BY <1>1, <1>2 DEF Folded, Begun, Kept, Adds
  <1>7. /\ saved.status = "awaiting_approval" /\ saved.next = b.saved.next
        /\ saved.audit = b.saved.audit /\ audit = b.audit /\ saved.by = b.saved.by
        /\ quorum = b.quorum /\ told = b.told /\ recorded = b.recorded /\ claimed = b.claimed
    BY <1>1, <1>2, <1>6 DEF Changed, Kept
  <1>8. "awaiting_approval" \in Statuses
    BY DEF Statuses
  <1>9. Atomic!Next
    BY <1>4, <1>5, <1>6, <1>7, <1>8, AtomicSend
  <1>10. AtRest(before')
    BY <1>0, <1>4, <1>5, <1>6, <1>7, <1>8 DEF AtRest, Event, SEND, REJECT
  <1> QED BY <1>3, <1>4, <1>5, <1>9, <1>10, EndsSimulated

\* From the resume on, a call keeps its verdict and its outcome.
LEMMA SameOutcome ==
  ASSUME NEW b, NEW c, NEW d, NEW approve, Folded(b, c, approve),
         c.op = d.op, c.actor = d.actor, c.verdict = d.verdict,
         c.pc \in {"resume", "launch", "wait", "settle"},
         d.pc \in {"launch", "wait", "settle", "dequeue"}
  PROVE  Folded(b, d, approve)
  <1>1. Adds(b, c, approve) = Adds(b, d, approve)
    BY SameCall
  <1> QED BY <1>1 DEF Folded

LEMMA MergeSimulated ==
  ASSUME Typed, Shape, Simulated, Merge, before' = before
  PROVE  Simulated'
  <1> PICK b : b = before
    OBVIOUS
  <1>0. AtRest(b)
    BY DEF Simulated
  <1>1. call.pc = "resume"
    BY DEF Merge
  <1>2. PICK approve \in BOOLEAN :
          Begun(b, call, approve) /\ Folded(b, call, approve) /\ Kept(b, approve) /\ Changed(b)
    BY <1>1, UnderWay
  <1>3. /\ call.op \in VerdictOps /\ \A i \in 1..MaxCalls : workers[i].pc = "off"
    BY <1>1, UnderWay
  <1>4. /\ call'.op = call.op /\ call'.actor = call.actor /\ call'.verdict = call.verdict
        /\ call'.todo = call.todo
        /\ \/ saved.next = "end" /\ call'.pc = "settle" /\ UNCHANGED saved
           \/ /\ saved.next # "end" /\ call'.pc = "launch"
              /\ saved' = [saved EXCEPT !.verdict = call.verdict]
    BY GotoCall DEF Merge
  <1>5. UNCHANGED <<quorum, events, pending, claimed, recorded, audit, told, workers>>
    BY DEF Merge, stores
  <1>6. saved = b.saved /\ audit = b.audit /\ saved.next \in {"execute", "end"}
    BY <1>1, <1>2 DEF Changed, Begun
  <1>7. /\ saved'.next = saved.next /\ saved'.by = saved.by
        /\ call'.pc = "launch" => saved'.verdict = call.verdict
    BY <1>4 DEF Typed, States
  <1>8. Begun(b, call', approve) /\ Adds(b, call, approve) = Adds(b, call', approve)
    BY <1>2, <1>4, SameCall
  <1>9. Folded(b, call', approve)
    BY <1>1, <1>2, <1>4, SameOutcome
  <1>10. Kept(b, approve)'
    BY <1>1, <1>2, <1>4, <1>5, <1>7, <1>8 DEF Kept
  <1>11. Changed(b)'
    <2>1. CASE saved.next = "end"
      <3>1. /\ call'.pc = "settle" /\ saved' = b.saved /\ audit' = b.audit
            /\ b.saved.next = "end" /\ b.saved.audit = Len(b.audit)
        BY <1>0, <1>4, <1>5, <1>6, <2>1 DEF AtRest
      <3> QED BY <3>1 DEF Changed, Resumed
    <2>2. CASE saved.next = "execute"
      BY <1>4, <1>5, <1>6, <1>7, <2>2 DEF Changed
    <2> QED BY <1>6, <2>1, <2>2
  <1> QED BY <1>0, <1>3, <1>4, <1>5, <1>8, <1>9, <1>10, <1>11, GoesOnSimulated

LEMMA LaunchSimulated ==
  ASSUME Typed, Shape, Simulated, Launch, before' = before
  PROVE  Simulated'
  <1> PICK b : b = before
    OBVIOUS
  <1>0. AtRest(b)
    BY DEF Simulated
  <1>1. call.pc = "launch"
    BY DEF Launch
  <1>2. PICK approve \in BOOLEAN :
          Begun(b, call, approve) /\ Folded(b, call, approve) /\ Kept(b, approve) /\ Changed(b)
    BY <1>1, UnderWay
  <1>3. /\ call.op \in VerdictOps /\ \A i \in 1..MaxCalls : workers[i].pc = "off"
    BY <1>1, UnderWay
  <1>4. /\ call'.op = call.op /\ call'.actor = call.actor /\ call'.verdict = call.verdict
        /\ call'.todo = call.todo /\ call'.pc = "wait"
    BY GotoCall DEF Launch
  <1>5. UNCHANGED <<saved, quorum, events, pending, claimed, recorded, audit, told, calls>>
    BY DEF Launch, stores
  <1>6. /\ b.saved.next = "execute" /\ saved.next = "execute" /\ saved.verdict = call.verdict
        /\ audit = b.audit /\ saved.by = b.saved.by
    BY <1>1, <1>2 DEF Changed, Kept
  <1>7. calls \in 1..MaxCalls
    BY <1>1, BoundsAreNat DEF Typed, Shape, Slots
  <1>8. /\ workers'[calls] = [pc |-> "execute", state |-> saved]
        /\ \A i \in 1..MaxCalls : i # calls => workers'[i] = workers[i]
    BY <1>6, <1>7 DEF Launch, Typed
  <1>9. Begun(b, call', approve) /\ Adds(b, call, approve) = Adds(b, call', approve)
    BY <1>2, <1>4, SameCall
  <1>10. Folded(b, call', approve)
    BY <1>1, <1>2, <1>4, SameOutcome
  <1>11. Kept(b, approve)'
    BY <1>1, <1>2, <1>4, <1>5, <1>9 DEF Kept
  <1>12. Changed(b)'
    BY <1>4, <1>5, <1>6, <1>8 DEF Changed, Driven
  <1> QED BY <1>0, <1>3, <1>4, <1>5, <1>8, <1>9, <1>10, <1>11, <1>12, GoesOnSimulated

\* The call that waits for a worker, or has seen it end.
LEMMA InFlight ==
  ASSUME Typed, Shape, Simulated, call.pc \in {"wait", "settle"}, call.op # "submit"
  PROVE  /\ call.op \in VerdictOps /\ \A i \in 1..MaxCalls : workers[i].pc # "off" => i = calls
         /\ \E approve \in BOOLEAN :
              /\ Begun(before, call, approve) /\ Folded(before, call, approve)
              /\ Kept(before, approve) /\ Changed(before)
  <1>1. call.op \in VerdictOps
    BY DEF Typed, CallRecords, Ops, Shape, Slots, VerdictOps
  <1> QED BY <1>1 DEF Simulated, VerdictOps

LEMMA ReturnSimulated ==
  ASSUME Typed, Shape, Simulated, Return, before' = before
  PROVE  Simulated'
  <1> PICK b : b = before
    OBVIOUS
  <1>0. AtRest(b)
    BY DEF Simulated
  <1>1. call.pc = "wait" /\ workers[calls].pc = "off"
    BY DEF Return, Working
  <1>2. \A i \in 1..MaxCalls : workers[i].pc = "off"
    BY <1>1 DEF Simulated
  <1>3. /\ call'.op = call.op /\ call'.actor = call.actor /\ call'.verdict = call.verdict
        /\ call'.todo = call.todo /\ call'.pc = "settle"
    BY GotoCall DEF Return
  <1>4. UNCHANGED <<saved, quorum, events, pending, claimed, recorded, audit, told, workers, calls>>
    BY DEF Return, stores
  <1>5. CASE call.op = "submit"
    <2>1. Submitting(b)
      BY <1>5 DEF Simulated
    <2>2. Submitting(before)'
      BY <1>3, <1>4, <2>1 DEF Submitting
    <2> QED BY <1>0, <1>2, <1>3, <1>4, <1>5, <2>2 DEF Simulated
  <1>6. CASE call.op # "submit"
    <2>1. PICK approve \in BOOLEAN :
            Begun(b, call, approve) /\ Folded(b, call, approve) /\ Kept(b, approve) /\ Changed(b)
      BY <1>1, <1>6, InFlight
    <2>2. Begun(b, call', approve) /\ Adds(b, call, approve) = Adds(b, call', approve)
      BY <1>3, <2>1, SameCall
    <2>3. Folded(b, call', approve)
      BY <1>1, <1>3, <2>1, SameOutcome
    <2>4. Kept(b, approve)'
      BY <1>1, <1>3, <1>4, <2>1, <2>2 DEF Kept
    <2>5. Changed(b)'
      BY <1>1, <1>3, <1>4, <2>1 DEF Changed, Driven
    <2>6. call.op \in VerdictOps
      BY <1>1, <1>6, InFlight
    <2> QED BY <1>0, <1>2, <1>3, <1>4, <2>2, <2>3, <2>4, <2>5, <2>6, GoesOnSimulated
  <1> QED BY <1>5, <1>6
\* A resumed run reads a status of the court, and its record is in the log.
LEMMA ResumedFacts ==
  ASSUME Typed, Shape, NEW b, AtRest(b), NEW s, Resumed(b, call.verdict, "end", s, audit),
         saved.next = "end"
  PROVE  s \in Statuses /\ saved.audit # 0
  <1>1. call.verdict.type \in VerdictTypes \cup {"none"}
    BY DEF Typed, CallRecords, VerdictRecords
  <1>2. s \in Statuses
    BY <1>1, StatusesTyped DEF Resumed, AtRest
  <1>3. saved.audit >= 1 /\ saved.audit \in Nat
    BY DEF Shape, Marching, Typed, States
  <1> QED BY <1>2, <1>3

LEMMA SettleSimulated ==
  ASSUME Typed, Shape, Simulated, Settle,
         before' = IF call' = Idle THEN Committed' ELSE before
  PROVE  Simulated' /\ (before' = before \/ Atomic!Next)
  <1> PICK b : b = before
    OBVIOUS
  <1>0. AtRest(b)
    BY DEF Simulated
  <1>1. call.pc = "settle" /\ UNCHANGED <<quorum, events, pending, claimed, audit, told, workers, calls>>
    BY DEF Settle
  <1>2. \A i \in 1..MaxCalls : workers[i].pc = "off"
    BY <1>1 DEF Simulated
  <1>3. ASSUME call' = Idle
        PROVE  /\ before' = Committed'
               /\ before'.saved = saved' /\ before'.quorum = quorum' /\ before'.events = events'
               /\ before'.pending = pending' /\ before'.claimed = claimed'
               /\ before'.recorded = recorded' /\ before'.audit = audit' /\ before'.told = told'
    BY <1>3 DEF Committed
  <1>4. CASE call.op = "submit"
    <2>1. /\ call' = Idle /\ UNCHANGED recorded
          /\ saved' = [saved EXCEPT !.by = call.actor, !.status = "awaiting_requester_review"]
      BY <1>4 DEF Settle
    <2>2. calls \in 1..MaxCalls
      BY <1>1, BoundsAreNat DEF Typed, Shape, Slots
    <2>3. /\ call.actor \in Principals /\ b.saved.next = "absent"
          /\ events = b.events /\ pending = b.pending /\ claimed = b.claimed
          /\ recorded = b.recorded /\ audit = b.audit /\ told = b.told
          /\ quorum \in PolicyQuorums
          /\ saved = [NoState EXCEPT !.next = "execute", !.status = "evaluated"]
      BY <1>2, <1>4, <2>2 DEF Simulated, Submitting
    <2>4. /\ saved'.next = "execute" /\ saved'.by = call.actor
          /\ saved'.status = "awaiting_requester_review" /\ saved'.status \in Statuses
      BY <2>1, <2>3 DEF NoState, Statuses
    <2>5. Atomic!Next
      BY <1>1, <1>3, <2>1, <2>3, <2>4, AtomicSubmit
    <2>6. AtRest(before')
      BY <1>0, <1>1, <1>3, <2>1, <2>3, <2>4 DEF AtRest
    <2> QED BY <1>1, <1>2, <1>3, <2>1, <2>5, <2>6, EndsSimulated
  <1>5. CASE call.op # "submit"
    <2>1. PICK approve \in BOOLEAN :
            Begun(b, call, approve) /\ Folded(b, call, approve) /\ Kept(b, approve) /\ Changed(b)
      BY <1>1, <1>5, InFlight
    <2>2. call.op \in VerdictOps
      BY <1>1, <1>5, InFlight
    <2>3. /\ saved.next = "end" /\ saved.audit = Len(audit) /\ saved.by = b.saved.by
          /\ Resumed(b, call.verdict, "end", saved.status, audit)
          /\ quorum = b.quorum /\ pending = b.pending /\ told = b.told /\ recorded = b.recorded
          /\ events = b.events \cup Adds(b, call, approve)
      BY <1>1, <2>1 DEF Changed, Kept
    <2>4. saved.status \in Statuses /\ saved.audit # 0
      BY <1>0, <2>3, ResumedFacts
    <2>5. \A e \in events : e.decision = REJECT => e.role \in Roles
      BY <1>0, <2>1, <2>3, RolesOfVotes
    <2>6. CASE call.op = "send"
      <3>1. call' = Idle /\ UNCHANGED <<saved, recorded>>
        BY <2>6 DEF Settle
      <3>2. /\ call.actor \in Principals /\ SameAs(call.actor, b.saved.by)
            /\ b.saved.next \in {"execute", "end"}
            /\ events = b.events \cup {Event(call.actor, SEND, NoRole)}
            /\ call.verdict = Verdict("approve", call.actor, NoKey)
            /\ EvaluateQuorum(events, b.quorum) = "satisfied"
            /\ claimed = b.claimed
        BY <1>1, <2>1, <2>3, <2>6 DEF Folded, Begun, Kept, Adds
      <3>3. Atomic!Next
        BY <1>1, <1>3, <2>3, <2>4, <3>1, <3>2, AtomicSend
      <3>4. AtRest(before')
        BY <1>1, <1>3, <2>3, <2>4, <2>5, <3>1 DEF AtRest
      <3> QED BY <1>1, <1>2, <1>3, <3>1, <3>3, <3>4, EndsSimulated
    <2>7. CASE call.op # "send"
      <3>1. /\ Goto("dequeue")
            /\ \/ call.op = "withdraw" /\ saved' = [saved EXCEPT !.status = "withdrawn"] /\ UNCHANGED recorded
               \/ /\ call.op = "decide" /\ UNCHANGED recorded
                  /\ saved' = IF call.verdict.type = "reject"
                              THEN [saved EXCEPT !.status = "rejected"] ELSE saved
               \/ /\ call.op = "cast" /\ UNCHANGED saved
                  /\ recorded' = [recorded EXCEPT ![call.verdict.key] = saved.audit]
        BY <1>5, <2>4, <2>7 DEF Settle
      <3>2. /\ call'.op = call.op /\ call'.actor = call.actor /\ call'.verdict = call.verdict
            /\ call'.todo = call.todo /\ call'.pc = "dequeue"
        BY <3>1, GotoCall
      <3>3. call' # Idle /\ before' = before
        BY <3>2 DEF Idle
      <3>4. /\ saved'.next = saved.next /\ saved'.audit = saved.audit /\ saved'.by = saved.by
            /\ saved'.status = Leaves(call, saved.status)
        BY <3>1 DEF Typed, States, Leaves
      <3>5. Leaves(call', saved.status) = Leaves(call, saved.status)
        BY <3>2 DEF Leaves
      <3>6. Begun(b, call', approve) /\ Adds(b, call, approve) = Adds(b, call', approve)
        BY <2>1, <3>2, SameCall
      <3>7. Folded(b, call', approve)
        BY <1>1, <2>1, <3>2, SameOutcome
      <3>8. Kept(b, approve)'
        BY <1>1, <2>1, <3>2, <3>4, <3>6 DEF Kept
      <3>9. recorded' = IF call.op = "cast"
                        THEN [b.recorded EXCEPT ![call.verdict.key] = Len(audit)] ELSE b.recorded
        BY <2>3, <3>1
      <3>10. \E s \in Statuses :
               Resumed(b, call'.verdict, "end", s, audit') /\ saved'.status = Leaves(call', s)
        BY <1>1, <2>3, <2>4, <3>2, <3>4, <3>5
      <3>11. Changed(b)'
        BY <1>1, <2>3, <2>7, <3>2, <3>4, <3>9, <3>10 DEF Changed
      <3> QED BY <1>0, <1>1, <1>2, <2>2, <3>2, <3>3, <3>6, <3>7, <3>8, <3>11, GoesOnSimulated
    <2> QED BY <2>6, <2>7
  <1> QED BY <1>4, <1>5

LEMMA DequeueSimulated ==
  ASSUME Typed, Shape, Simulated, Dequeue, before' = Committed'
  PROVE  Simulated' /\ Atomic!Next
  <1> PICK b : b = before
    OBVIOUS
  <1>0. AtRest(b)
    BY DEF Simulated
  <1>1. /\ call.pc = "dequeue" /\ call' = Idle /\ pending' = FALSE
        /\ UNCHANGED <<saved, quorum, events, claimed, recorded, audit, workers>>
        /\ told' = IF call.op = "withdraw" THEN told
                   ELSE told \cup {IF call.verdict.type \in {"approve", "approve_internal_only"}
                                   THEN "approved" ELSE "rejected"}
    BY DEF Dequeue
  <1>2. PICK approve \in BOOLEAN :
          Begun(b, call, approve) /\ Folded(b, call, approve) /\ Kept(b, approve) /\ Changed(b)
    BY <1>1, UnderWay
  <1>3. call.op \in VerdictOps /\ \A i \in 1..MaxCalls : workers[i].pc = "off"
    BY <1>1, UnderWay
  <1>4. /\ before'.saved = saved' /\ before'.quorum = quorum' /\ before'.events = events'
        /\ before'.pending = pending' /\ before'.claimed = claimed' /\ before'.recorded = recorded'
        /\ before'.audit = audit' /\ before'.told = told'
    BY DEF Committed
  <1>5. PICK s \in Statuses :
          Resumed(b, call.verdict, "end", s, audit) /\ saved.status = Leaves(call, s)
    BY <1>1, <1>2 DEF Changed
  <1>6. /\ call.op # "send" /\ saved.next = "end" /\ saved.audit = Len(audit)
        /\ saved.by = b.saved.by /\ quorum = b.quorum /\ told = b.told
        /\ events = b.events \cup Adds(b, call, approve)
        /\ recorded = IF call.op = "cast"
                      THEN [b.recorded EXCEPT ![call.verdict.key] = Len(audit)] ELSE b.recorded
        /\ claimed = IF call.op = "cast" THEN b.claimed \cup {call.verdict.key} ELSE b.claimed
    BY <1>1, <1>2 DEF Changed, Kept
  <1>7. AtRest(before')
    <2>1. Leaves(call, s) \in Statuses
      BY DEF Leaves, Statuses, Terminal
    <2>2. \A e \in events : e.decision = REJECT => e.role \in Roles
      BY <1>0, <1>2, <1>6, RolesOfVotes
    <2> QED BY <1>1, <1>4, <1>5, <1>6, <2>1, <2>2 DEF AtRest
  <1>8. call.actor \in Principals /\ b.saved.next \in {"execute", "end"}
    BY <1>2 DEF Begun
  <1>9. CASE call.op = "withdraw"
    <2>1. /\ SameAs(call.actor, b.saved.by) /\ call.verdict = Verdict("withdraw", call.actor, NoKey)
          /\ events = b.events \cup {Event(call.actor, WITHDRAW, NoRole)}
          /\ saved.status = "withdrawn" /\ claimed = b.claimed /\ recorded = b.recorded
          /\ told' = told
      BY <1>1, <1>2, <1>5, <1>6, <1>9 DEF Begun, Adds, Leaves
    <2>2. Resumed(before, Verdict("withdraw", call.actor, NoKey),
                  before'.saved.next, s, before'.audit)
      BY <1>1, <1>4, <1>5, <1>6, <2>1
    <2>3. /\ before'.saved.status = "withdrawn" /\ ~before'.pending
          /\ before'.saved.next \in {"execute", "end"} /\ before'.told = before.told
      BY <1>1, <1>4, <1>6, <2>1
    <2>4. /\ before'.events = before.events \cup {Event(call.actor, WITHDRAW, NoRole)}
          /\ before'.saved.by = before.saved.by /\ before'.quorum = before.quorum
          /\ before'.claimed = before.claimed /\ before'.recorded = before.recorded
      BY <1>1, <1>4, <1>6, <2>1
    <2>5. Atomic!Next
      BY <1>8, <2>1, <2>2, <2>3, <2>4, AtomicWithdraw
    <2> QED BY <1>1, <1>3, <1>7, <2>5, EndsSimulated
  <1>10. CASE call.op = "decide"
    <2> DEFINE outcome == EvaluateQuorum(events, b.quorum)
    <2>1. /\ Authorized(call.actor, b.saved.by, b.quorum)
          /\ NewVotes(b, call.actor, approve) # {}
          /\ events = b.events \cup NewVotes(b, call.actor, approve)
          /\ claimed = b.claimed /\ recorded = b.recorded
          /\ \A e \in b.events : e.decision = REJECT => e.role \in Roles
      BY <1>0, <1>2, <1>6, <1>10 DEF Begun, Adds, AtRest
    <2>2. /\ outcome \in DOMAIN OutcomeVerdict
          /\ call.verdict = Verdict(OutcomeVerdict[outcome], call.actor, NoKey)
      BY <1>1, <1>2, <1>6, <1>10 DEF Folded
    <2>3. outcome \in {"satisfied", "rejected"}
      BY <2>2 DEF OutcomeVerdict
    <2>4. /\ call.verdict.type = IF outcome = "rejected" THEN "reject" ELSE "approve"
          /\ call.verdict.type = OutcomeVerdict[outcome]
      BY <2>2, <2>3 DEF OutcomeVerdict, Verdict
    <2>5. /\ saved.status = IF outcome = "rejected" THEN "rejected" ELSE s
          /\ told' = told \cup {IF outcome = "satisfied" THEN "approved" ELSE "rejected"}
      BY <1>1, <1>5, <1>10, <2>3, <2>4 DEF Leaves
    <2>6. EvaluateQuorum(before'.events, before.quorum) = outcome
      BY <1>1, <1>4
    <2> HIDE DEF outcome
    <2>7. Atomic!Next
      <3>1. Resumed(before, Verdict(OutcomeVerdict[outcome], call.actor, NoKey),
                    before'.saved.next, s, before'.audit)
        BY <1>1, <1>4, <1>5, <1>6, <2>2
      <3>2. /\ before'.saved.status = IF outcome = "rejected" THEN "rejected" ELSE s
            /\ ~before'.pending /\ before'.saved.next \in {"execute", "end"}
            /\ before'.told = before.told \cup
                 {IF outcome = "satisfied" THEN "approved" ELSE "rejected"}
        BY <1>1, <1>4, <1>6, <2>5
      <3>3. /\ before'.events = before.events \cup NewVotes(before, call.actor, approve)
            /\ before'.saved.by = before.saved.by /\ before'.quorum = before.quorum
            /\ before'.claimed = before.claimed /\ before'.recorded = before.recorded
        BY <1>1, <1>4, <1>6, <2>1
      <3> QED BY <1>8, <2>1, <2>2, <2>6, <3>1, <3>2, <3>3, AtomicDecide
    <2> QED BY <1>1, <1>3, <1>7, <2>7, EndsSimulated
  <1>11. CASE call.op = "cast"
    <2>1. PICK type \in VerdictTypes, k \in Keys \ b.claimed :
            call.verdict = Verdict(type, call.actor, k)
      BY <1>2, <1>11 DEF Begun
    <2>2. call.verdict.type = type /\ call.verdict.key = k
      BY <2>1 DEF Verdict
    <2>3. /\ Authorized(call.actor, b.saved.by, b.quorum) /\ events = b.events
          /\ claimed = b.claimed \cup {k}
          /\ recorded = [b.recorded EXCEPT ![k] = Len(audit)]
          /\ saved.status = s
          /\ told' = told \cup {IF type \in {"approve", "approve_internal_only"}
                                THEN "approved" ELSE "rejected"}
      BY <1>1, <1>2, <1>5, <1>6, <1>11, <2>2 DEF Begun, Adds, Leaves
    <2>4. Resumed(before, Verdict(type, call.actor, k), before'.saved.next, s, before'.audit)
      BY <1>1, <1>4, <1>5, <1>6, <2>1
    <2>5. /\ before'.saved.status = s /\ ~before'.pending /\ before'.saved.next = "end"
          /\ before'.told = before.told \cup
               {IF type \in {"approve", "approve_internal_only"} THEN "approved" ELSE "rejected"}
      BY <1>1, <1>4, <1>6, <2>3
    <2>6. /\ before'.claimed = before.claimed \cup {k}
          /\ before'.recorded = [before.recorded EXCEPT ![k] = Len(before'.audit)]
          /\ before'.saved.by = before.saved.by /\ before'.quorum = before.quorum
          /\ before'.events = before.events
      BY <1>1, <1>4, <1>6, <2>3
    <2>7. Atomic!Next
      BY <1>8, <2>1, <2>3, <2>4, <2>5, <2>6, AtomicCast
    <2> QED BY <1>1, <1>3, <1>7, <2>7, EndsSimulated
  <1> QED BY <1>3, <1>6, <1>9, <1>10, <1>11 DEF VerdictOps
\* Only the worker of the call that waits is at work.
LEMMA TheWorker ==
  ASSUME Typed, Shape, Simulated, NEW i \in 1..MaxCalls, workers[i].pc # "off"
  PROVE  i = calls /\ call.pc = "wait" /\ calls \in 1..MaxCalls
  BY DEF Simulated

LEMMA DeliberateSimulated ==
  ASSUME Typed, Shape, Simulated, NEW i \in 1..MaxCalls, Deliberate(i), before' = before
  PROVE  Simulated'
  <1> PICK b : b = before
    OBVIOUS
  <1>1. workers[i].pc = "deliberate"
    BY DEF Deliberate
  <1>2. i = calls /\ call.pc = "wait" /\ calls \in 1..MaxCalls
    BY <1>1, TheWorker
  <1>3. call.op = "submit"
    <2>1. CASE call.op # "submit"
      BY <1>1, <1>2, <2>1, InFlight DEF Changed, Driven
    <2> QED BY <2>1
  <1>4. /\ UNCHANGED <<events, pending, claimed, recorded, audit, told, call, calls>>
        /\ quorum' \in PolicyQuorums
        /\ saved' = [NoState EXCEPT !.next = "execute", !.status = "evaluated"]
    BY DEF Deliberate, stores
  <1>5. /\ AtRest(b) /\ \A j \in 1..MaxCalls : workers[j].pc # "off" => j = calls
        /\ Submitting(b)
    BY <1>2, <1>3 DEF Simulated
  <1>6. \A j \in 1..MaxCalls : workers'[j].pc = "off"
    <2>1. Off.pc = "off"
      BY DEF Off
    <2> QED BY <1>2, <1>5, <2>1 DEF Deliberate, Typed
  <1>7. Submitting(before)'
    BY <1>4, <1>5 DEF Submitting
  <1> QED BY <1>3, <1>4, <1>5, <1>6, <1>7 DEF Simulated

\* A worker past the gate brings the run of its call on by one commit.
LEMMA DriveSimulated ==
  ASSUME Typed, Shape, Simulated, NEW i \in 1..MaxCalls, before' = before,
         Execute(i) \/ SaveExecuted(i) \/ WriteRecord(i) \/ SaveAudited(i)
  PROVE  Simulated'
  <1> PICK b : b = before
    OBVIOUS
  <1>0. AtRest(b)
    BY DEF Simulated
  <1>1. workers[i].pc \in {"execute", "executed", "audit", "audited"}
    BY DEF Execute, SaveExecuted, WriteRecord, SaveAudited
  <1>2. i = calls /\ call.pc = "wait" /\ calls \in 1..MaxCalls
    BY <1>1, TheWorker
  <1>3. call.op # "submit"
    BY <1>1 DEF Shape, Opening, Running
  <1>4. PICK approve \in BOOLEAN :
          Begun(b, call, approve) /\ Folded(b, call, approve) /\ Kept(b, approve) /\ Changed(b)
    BY <1>2, <1>3, InFlight
  <1>5. call.op \in VerdictOps /\ \A j \in 1..MaxCalls : workers[j].pc # "off" => j = calls
    BY <1>2, <1>3, InFlight
  <1>6. UNCHANGED <<quorum, events, pending, claimed, recorded, told, call, calls>>
    BY DEF Execute, SaveExecuted, WriteRecord, SaveAudited, stores
  <1>7. \A j \in 1..MaxCalls : j # i => workers'[j] = workers[j]
    BY DEF Execute, SaveExecuted, WriteRecord, SaveAudited, Typed
  <1> DEFINE w == workers[i]
             st == w.state
             verdict == call.verdict
  <1>8. w \in WorkerRecords /\ st \in States /\ b.saved.next = "execute" /\ Driven(b, w)
    BY <1>2, <1>4 DEF Typed, WorkerRecords, Changed
  <1>9. saved.by = b.saved.by /\ Len(audit) \in Nat
    BY <1>4 DEF Kept, Typed
  <1>10. saved'.by = b.saved.by /\ Driven(b, workers[i])'
    <2>1. CASE Execute(i)
      <3>1. PICK s \in TerminalStatuses(st.verdict.type) :
              workers' = [workers EXCEPT ![i] =
                [pc |-> "executed",
                 state |-> [@.state EXCEPT !.status = s, !.next = "audit",
                                           !.results = RunsPlan(st.verdict)]]]
        BY <2>1 DEF Execute
      <3>2. UNCHANGED <<saved, audit>> /\ w.pc = "execute"
        BY <2>1 DEF Execute, stores
      <3>3. st.verdict = verdict /\ st.by = b.saved.by /\ audit = b.audit
        BY <1>8, <3>2 DEF Driven
      <3> DEFINE r == RunsPlan(st.verdict)
                 new == [st EXCEPT !.status = s, !.next = "audit", !.results = r]
      <3>4. r = RunsPlan(verdict)
        BY <3>3
      <3>5. workers'[i] = [pc |-> "executed", state |-> new]
        BY <3>1 DEF Typed
      <3> HIDE DEF r
      <3>6. new.verdict = st.verdict /\ new.by = st.by /\ new.status = s /\ new.results = r
        BY <1>8 DEF States
      <3> HIDE DEF new
      <3>7. /\ workers'[i].pc = "executed" /\ workers'[i].state = new
        BY <3>5
      <3> QED BY <1>6, <1>9, <3>1, <3>2, <3>3, <3>4, <3>6, <3>7 DEF Driven
    <2>2. CASE SaveExecuted(i)
      <3>1. /\ saved' = st /\ UNCHANGED audit /\ w.pc = "executed"
            /\ workers'[i].pc = "audit" /\ workers'[i].state = st
        BY <1>8, <2>2 DEF SaveExecuted, Typed, stores, WorkerRecords
      <3> QED BY <1>6, <1>8, <3>1 DEF Driven
    <2>3. CASE WriteRecord(i)
      <3> DEFINE n == Len(audit')
                 new == [st EXCEPT !.next = "end", !.audit = n]
      <3>1. /\ UNCHANGED saved /\ w.pc = "audit"
            /\ audit' = Append(audit, [verdict |-> st.verdict, status |-> st.status,
                                       executed |-> st.results])
            /\ workers'[i] = [pc |-> "audited", state |-> new]
        BY <2>3 DEF WriteRecord, Typed
      <3>2. /\ st.verdict = verdict /\ st.by = b.saved.by /\ audit = b.audit
            /\ st.status \in TerminalStatuses(verdict.type) /\ st.results = RunsPlan(verdict)
        BY <1>8, <3>1 DEF Driven
      <3> HIDE DEF n
      <3>3. new.by = st.by /\ new.status = st.status /\ new.next = "end" /\ new.audit = n
        BY <1>8 DEF States
      <3> HIDE DEF new
      <3>4. audit' = Append(b.audit, Entry(verdict, st.status))
        BY <3>1, <3>2 DEF Entry
      <3>5. workers'[i].pc = "audited" /\ workers'[i].state = new
        BY <3>1
      <3> QED BY <1>6, <1>9, <3>1, <3>2, <3>3, <3>4, <3>5 DEF Driven, n
    <2>4. CASE SaveAudited(i)
      <3>1. /\ saved' = st /\ UNCHANGED audit /\ w.pc = "audited" /\ workers'[i].pc = "off"
        BY <2>4 DEF SaveAudited, Typed, stores, Off
      <3> QED BY <1>6, <1>8, <3>1 DEF Driven, Resumed
    <2> QED BY <2>1, <2>2, <2>3, <2>4
  <1>11. Kept(b, approve)'
    BY <1>2, <1>4, <1>6, <1>10 DEF Kept
  <1>12. Changed(b)'
    BY <1>2, <1>6, <1>8, <1>10 DEF Changed
  <1>13. Begun(b, call', approve) /\ Folded(b, call', approve)
    BY <1>4, <1>6
  <1>14. call'.op \in VerdictOps /\ call'.pc = "wait"
         /\ \A j \in 1..MaxCalls : workers'[j].pc # "off" => j = calls'
    BY <1>2, <1>5, <1>6, <1>7
  <1> HIDE DEF w, st, verdict
  <1> QED BY <1>0, <1>11, <1>12, <1>13, <1>14, GoesOnSimulated

-----------------------------------------------------------------------------
(***************************************************************************)
(* The refinement.                                                         *)
(***************************************************************************)

LEMMA InitSimulated == CallInit => Simulated
  <1> SUFFICES ASSUME CallInit PROVE Simulated
    OBVIOUS
  <1>1. call = Idle /\ call.op = "none" /\ before = Committed
    BY DEF CallInit, Init, Idle
  <1>2. \A i \in 1..MaxCalls : workers[i].pc = "off"
    BY DEF CallInit, Init, Off
  <1>3. before.saved = NoState /\ before.events = {}
    BY <1>1 DEF Committed, CallInit, Init
  <1>4. AtRest(before)
    BY <1>3 DEF AtRest, NoState, Statuses
  <1> QED BY <1>1, <1>2, <1>4 DEF Simulated

\* While nothing fails, a step ends no call, or ends one that is an action of
\* Court.
LEMMA StepSimulated ==
  ASSUME FaultInv, Simulated, CallNext, ~Faults
  PROVE  Simulated' /\ (before' = before \/ Atomic!Next)
  <1>0. /\ Typed /\ Shape /\ before' = IF call' = Idle THEN Committed' ELSE before
        /\ People \/ CallStep \/ \E i \in DOMAIN workers : WorkerStep(i)
    BY DEF FaultInv, CallNext, Next
  <1>1. ASSUME call' # Idle PROVE before' = before
    BY <1>0, <1>1
  <1>2. CASE People
    <2>1. ASSUME NEW p \in Submitters, Submit(p) PROVE Simulated' /\ before' = before
      <3>1. call' # Idle
        BY <2>1 DEF Submit, Begin, Call, Idle
      <3> QED BY <1>0, <1>1, <2>1, <3>1, SubmitSimulated
    <2>2. ASSUME NEW p \in Principals, Acknowledge(p) PROVE Simulated' /\ Atomic!Next
      <3>1. call' = Idle
        BY <2>2 DEF Acknowledge, Existing, Free
      <3> QED BY <1>0, <2>2, <3>1, AcknowledgeSimulated
    <2>3. ASSUME NEW p \in Principals,
                 \/ Send(p) \/ Withdraw(p) \/ \E approve \in BOOLEAN : Decide(p, approve)
                 \/ \E type \in CastTypes, k \in Keys : Cast(p, type, k)
          PROVE  Simulated' /\ before' = before
      <3>1. call' # Idle
        BY <2>3 DEF Send, Withdraw, Decide, Cast, Begin, Call, Idle
      <3> QED BY <1>0, <1>1, <2>3, <3>1, CallsSimulated
    <2> QED BY <1>2, <2>1, <2>2, <2>3 DEF People
  <1>3. CASE CallStep
    <2>1. CASE AppendEvent \/ Hold \/ Merge \/ Launch \/ Return
      <3>1. call'.pc # "idle"
        BY <1>0, <2>1 DEF AppendEvent, Hold, Merge, Launch, Return, Goto, Typed, CallRecords
      <3>2. before' = before
        BY <1>1, <3>1 DEF Idle
      <3> QED BY <1>0, <2>1, <3>2, AppendSimulated, HoldSimulated, MergeSimulated,
                 LaunchSimulated, ReturnSimulated
    <2>2. CASE Fold
      BY <1>0, <2>2, FoldSimulated
    <2>3. CASE Settle
      BY <1>0, <2>3, SettleSimulated
    <2>4. CASE Enqueue
      <3>1. before' = Committed'
        BY <1>0, <2>4 DEF Enqueue
      <3> QED BY <1>0, <2>4, <3>1, EnqueueSimulated
    <2>5. CASE Dequeue
      <3>1. before' = Committed'
        BY <1>0, <2>5 DEF Dequeue
      <3> QED BY <1>0, <2>5, <3>1, DequeueSimulated
    <2> QED BY <1>3, <2>1, <2>2, <2>3, <2>4, <2>5 DEF CallStep
  <1>4. ASSUME NEW i \in DOMAIN workers, WorkerStep(i)
        PROVE  Simulated' /\ before' = before
    <2>1. i \in 1..MaxCalls /\ workers[i].pc # "off" /\ call' = call
      BY <1>0, <1>4 DEF Typed, WorkerStep, Deliberate, Execute, SaveExecuted, WriteRecord, SaveAudited
    <2>2. call.pc = "wait"
      BY <1>0, <2>1, TheWorker
    <2>3. before' = before
      BY <1>1, <2>1, <2>2 DEF Idle
    <2> QED BY <1>0, <1>4, <2>1, <2>3, DeliberateSimulated, DriveSimulated DEF WorkerStep
  <1> QED BY <1>0, <1>2, <1>3, <1>4

LEMMA FaultsCount ==
  ASSUME Typed, [CallNext]_<<vars, before>>
  PROVE  /\ timeouts' + losses' = 0 => timeouts + losses = 0
         /\ CallNext /\ Faults => timeouts' + losses' # 0
  <1>1. timeouts \in Nat /\ losses \in Nat
    BY BoundsAreNat DEF Typed
  <1>2. ASSUME CallNext, Faults PROVE timeouts' + losses' # 0
    <2>1. \/ timeouts' = timeouts + 1 /\ losses' = losses
          \/ timeouts' = timeouts /\ losses' = losses + 1
      BY <1>2 DEF Faults, Expire, Crash, NodeFails
    <2> QED BY <1>1, <2>1
  <1>3. CASE CallNext /\ ~Faults
    <2>1. timeouts' = timeouts /\ losses' = losses
      BY <1>3 DEF CallNext, Next, People, Submit, Send, Withdraw, Acknowledge, Decide, Cast,
        CallStep, AppendEvent, Fold, Hold, Enqueue, Merge, Launch, Return, Settle, Dequeue,
        WorkerStep, Deliberate, Execute, SaveExecuted, WriteRecord, SaveAudited, history
    <2> QED BY <1>3, <2>1
  <1>4. CASE UNCHANGED <<vars, before>>
    <2>1. timeouts' = timeouts /\ losses' = losses
      BY <1>4 DEF vars, history
    <2> QED BY <1>2, <2>1
  <1>5. CASE CallNext /\ Faults
    BY <1>2, <1>5
  <1> QED BY <1>3, <1>4, <1>5

LEMMA StepAtomic ==
  ASSUME FaultInv, CallInv, [CallNext]_<<vars, before>>
  PROVE  CallInv' /\ [timeouts' + losses' = 0 => Atomic!Next]_(Atomic!vars)
  <1>1. before' = before => UNCHANGED Atomic!vars
    BY DEF Atomic!vars, Atomic!ledgers, Atomic!checkpoint
  <1>2. CASE timeouts' + losses' # 0
    BY <1>2 DEF CallInv
  <1>3. CASE timeouts' + losses' = 0
    <2>1. timeouts + losses = 0 /\ Simulated /\ ~(CallNext /\ Faults)
      BY <1>3, FaultsCount DEF FaultInv, CallInv
    <2>2. CASE CallNext
      <3>1. Simulated' /\ (before' = before \/ Atomic!Next)
        BY <2>1, <2>2, StepSimulated
      <3> QED BY <1>1, <3>1 DEF CallInv
    <2>3. CASE UNCHANGED <<vars, before>>
      <3>1. Simulated'
        BY <2>1, <2>3 DEF Simulated, Committed, Submitting, Kept, Changed, Driven, vars, stores
      <3> QED BY <1>1, <2>3, <3>1 DEF CallInv
    <2> QED BY <2>2, <2>3
  <1> QED BY <1>2, <1>3

LEMMA AtomicInit == CallInit => Atomic!Init
  <1> SUFFICES ASSUME CallInit PROVE Atomic!Init
    OBVIOUS
  <1>1. /\ before.saved = NoState /\ before.quorum = [required |-> {}, policy |-> "all"]
        /\ before.events = {} /\ before.pending = FALSE /\ before.claimed = {}
        /\ before.recorded = [k \in Keys |-> 0] /\ before.audit = <<>> /\ before.told = {}
    BY DEF CallInit, Init, Committed
  <1>2. /\ before.saved.next = "absent" /\ before.saved.status = "none"
        /\ before.saved.by = NoPrincipal
    BY <1>1 DEF NoState
  <1>3. Atomic!NoPrincipal = NoPrincipal
    BY DEF NoPrincipal, Atomic!NoPrincipal, Blank, Atomic!Blank
  <1> QED BY <1>1, <1>2, <1>3 DEF Atomic!Init, Of

\* While no budget expires, no node fails and the process stays up, the
\* separate commits of a call, and of the worker it waits for, make one action
\* of Court, for any callers, keys, quorums and bounds: what Court says of a
\* trial holds of the code that is only ever between two commits.
THEOREM CallsMakeOneAction == CallSpec => CallsAreAtomic
  <1>1. CallInit => Init /\ CallInv /\ Atomic!Init
    BY InitSimulated, AtomicInit DEF CallInit, CallInv
  <1>2. [CallNext]_<<vars, before>> => [Next]_vars
    BY DEF CallNext
  <1>3. Init /\ [][Next]_vars => []FaultInv
    BY FaultSoundness DEF Spec
  <1>4. FaultInv /\ CallInv /\ [CallNext]_<<vars, before>> =>
          CallInv' /\ [timeouts' + losses' = 0 => Atomic!Next]_(Atomic!vars)
    BY StepAtomic
  <1> QED BY <1>1, <1>2, <1>3, <1>4, PTL DEF CallSpec, CallsAreAtomic

\* So a behaviour in which nothing fails is, call by call, a behaviour of Court.
THEOREM FaultFreeIsCourt == CallSpec /\ [](timeouts + losses = 0) => Atomic!Spec
  <1> DEFINE Sound0 == timeouts + losses = 0
  <1>1. CallsAreAtomic /\ []Sound0 => Atomic!Spec
    <2>1. Sound0' /\ [timeouts' + losses' = 0 => Atomic!Next]_(Atomic!vars)
            => [Atomic!Next]_(Atomic!vars)
      OBVIOUS
    <2> QED BY <2>1, PTL DEF CallsAreAtomic, Atomic!Spec
  <1> QED BY <1>1, CallsMakeOneAction
=============================================================================

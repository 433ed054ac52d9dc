---------------------------- MODULE CourtProofs ----------------------------
(***************************************************************************)
(* Theorems about Court, for every set of trials, callers, roles, keys and *)
(* quorums.                                                                *)
(***************************************************************************)
EXTENDS Court, TLAPS

\* The quorum and mode assumptions, in the form the steps use.
LEMMA ConstantsTyped ==
  /\ \A q \in PolicyQuorums : q \in Quorums
  /\ \A m \in Modes : m \in Modes \cup {"none"}
  BY QuorumsAssumption

LEMMA TerminalStatusesTyped ==
  ASSUME NEW type \in VerdictTypes
  PROVE  /\ TerminalStatuses(type) \subseteq Terminal
         /\ TerminalStatuses(type) \subseteq {"done", "failed", "rejected", "withdrawn"}
  BY DEF TerminalStatuses, RunStatuses, VerdictTypes, Approving, Terminal

LEMMA RecordTyped ==
  ASSUME NEW type \in VerdictTypes, NEW p \in Principals, NEW k \in Keys \cup {NoKey},
         NEW s \in Terminal
  PROVE  Record(Verdict(type, p, k), s) \in AuditRecords
  BY DEF Record, Verdict, AuditRecords, Verdicts, Approving

\* What resuming the run leaves of the two variables it may change.
LEMMA ResumeTyped ==
  ASSUME TypeOK, NEW t \in Trials, NEW type \in VerdictTypes, NEW p \in Principals,
         NEW k \in Keys \cup {NoKey}, NEW s \in Statuses,
         Resume(t, Verdict(type, p, k), s)
  PROVE  /\ next' \in [Trials -> {"absent", "execute", "end", "purged"}]
         /\ audit' \in [Trials -> Seq(AuditRecords)]
  <1>1. CASE AtGate(t)
    <2>1. Verdict(type, p, k).type = type
      BY DEF Verdict
    <2>2. s \in Terminal
      BY <1>1, <2>1, TerminalStatusesTyped DEF Resume
    <2>3. Record(Verdict(type, p, k), s) \in AuditRecords
      BY <2>2, RecordTyped
    <2>4. /\ next' = [next EXCEPT ![t] = "end"]
          /\ audit' = [audit EXCEPT ![t] = Append(@, Record(Verdict(type, p, k), s))]
      BY <1>1 DEF Resume
    <2>5. audit \in [Trials -> Seq(AuditRecords)]
      BY DEF TypeOK
    <2>6. Append(audit[t], Record(Verdict(type, p, k), s)) \in Seq(AuditRecords)
      BY <2>3, <2>5
    <2>7. next' \in [Trials -> {"absent", "execute", "end", "purged"}]
      BY <2>4 DEF TypeOK
    <2> QED BY <2>4, <2>5, <2>6, <2>7
  <1>2. CASE ~AtGate(t)
    BY <1>2 DEF Resume, TypeOK
  <1> QED BY <1>1, <1>2

LEMMA EventTyped ==
  ASSUME NEW p \in Principals, NEW d \in ApprovalDecisions, NEW r \in Roles \cup {NoRole}
  PROVE  Event(p, d, r) \in ApprovalEvents
  BY DEF Event, ApprovalEvents

LEMMA NewVotesTyped ==
  ASSUME NEW t \in Trials, NEW p \in Principals, Authorized(p, by[t], quorum[t])
  PROVE  /\ NewApprovals(t, p) \subseteq ApprovalEvents
         /\ NewRejections(t, p) \subseteq ApprovalEvents
  <1>1. VotingRoles(p, quorum[t]) \subseteq Roles
    BY DEF VotingRoles, RolesFor
  <1>2. (CHOOSE r \in VotingRoles(p, quorum[t]) : TRUE) \in Roles
    BY <1>1 DEF Authorized
  <1>3. APPROVE \in ApprovalDecisions /\ REJECT \in ApprovalDecisions
    BY DEF ApprovalDecisions
  <1> QED BY <1>1, <1>2, <1>3, EventTyped DEF NewApprovals, NewRejections

-----------------------------------------------------------------------------
(***************************************************************************)
(* Type correctness.                                                       *)
(***************************************************************************)

LEMMA InitTyped == Init => TypeOK
  BY DEF Init, TypeOK, Statuses, Quorums, Policies

LEMMA SubmitTyped ==
  ASSUME TypeOK, NEW t \in Trials, NEW p \in Principals, NEW q \in PolicyQuorums
  PROVE  /\ \A m \in Modes : SubmitChange(t, p, m, q) => TypeOK'
         /\ "analyze" \in Modes /\ SubmitAnalysis(t, p, q) => TypeOK'
  <1>1. ASSUME NEW m \in Modes, SubmitChange(t, p, m, q) PROVE TypeOK'
    BY <1>1, ConstantsTyped DEF SubmitChange, TypeOK, Statuses, ledgers
  <1>2. ASSUME "analyze" \in Modes, SubmitAnalysis(t, p, q) PROVE TypeOK'
    <2>1. Record(NoVerdict, "analyzed") \in AuditRecords
      BY DEF Record, NoVerdict, Verdict, AuditRecords, Verdicts, Terminal, Approving
    <2>2. Append(audit[t], Record(NoVerdict, "analyzed")) \in Seq(AuditRecords)
      BY <2>1 DEF TypeOK
    <2>3. audit' \in [Trials -> Seq(AuditRecords)]
      BY <1>2, <2>2 DEF SubmitAnalysis, TypeOK
    <2> QED BY <1>2, <2>3, ConstantsTyped DEF SubmitAnalysis, TypeOK, Statuses, Terminal, ledgers
  <1> QED BY <1>1, <1>2

LEMMA CastTyped ==
  ASSUME TypeOK, NEW t \in Trials, NEW p \in Principals, NEW type \in VerdictTypes,
         NEW k \in Keys, CastVerdict(t, p, type, k)
  PROVE  TypeOK'
  <1>1. PICK s \in Statuses : Resume(t, Verdict(type, p, k), s) /\ SetStatus(t, s)
    BY DEF CastVerdict
  <1>2. /\ next' \in [Trials -> {"absent", "execute", "end", "purged"}]
        /\ audit' \in [Trials -> Seq(AuditRecords)]
    BY <1>1, ResumeTyped
  <1>3. status' \in [Trials -> Statuses]
    BY <1>1 DEF SetStatus, TypeOK
  <1>4. Len(audit'[t]) \in Nat
    BY <1>2
  <1>5. recorded' \in [Trials -> [Keys -> Nat]]
    BY <1>4 DEF CastVerdict, TypeOK
  <1>6. told' \in [Trials -> SUBSET {"approved", "rejected"}]
    BY DEF CastVerdict, Tell, TypeOK
  <1>7. claimed' \in [Trials -> SUBSET Keys] /\ pending' \subseteq Trials
    BY DEF CastVerdict, TypeOK
  <1>8. UNCHANGED <<mode, by, quorum, events>>
    BY DEF CastVerdict
  <1> QED BY <1>2, <1>3, <1>5, <1>6, <1>7, <1>8 DEF TypeOK

LEMMA SendTyped ==
  ASSUME TypeOK, NEW t \in Trials, NEW p \in Principals, SendForApproval(t, p)
  PROVE  TypeOK'
  <1>1. Event(p, SEND, NoRole) \in ApprovalEvents
    BY EventTyped DEF ApprovalDecisions
  <1>2. events' \in [Trials -> SUBSET ApprovalEvents]
    BY <1>1 DEF SendForApproval, Log, TypeOK
  <1>3. /\ next' \in [Trials -> {"absent", "execute", "end", "purged"}]
        /\ audit' \in [Trials -> Seq(AuditRecords)]
        /\ status' \in [Trials -> Statuses]
        /\ pending' \subseteq Trials
    <2>1. CASE EvaluateQuorum(events'[t], quorum[t]) = "satisfied"
      <3>1. PICK s \in Statuses : Resume(t, Verdict("approve", p, NoKey), s) /\ SetStatus(t, s)
        BY <2>1 DEF SendForApproval
      <3>2. "approve" \in VerdictTypes
        BY DEF VerdictTypes
      <3> QED BY <2>1, <3>1, <3>2, ResumeTyped DEF SetStatus, SendForApproval, TypeOK
    <2>2. CASE EvaluateQuorum(events'[t], quorum[t]) # "satisfied"
      <3>1. /\ SetStatus(t, "awaiting_approval")
            /\ pending' = pending \cup {t}
            /\ UNCHANGED <<next, audit>>
        BY <2>2 DEF SendForApproval
      <3> QED BY <3>1 DEF SetStatus, TypeOK, Statuses
    <2> QED BY <2>1, <2>2
  <1> QED BY <1>2, <1>3 DEF SendForApproval, TypeOK, ledgers

LEMMA WithdrawTyped ==
  ASSUME TypeOK, NEW t \in Trials, NEW p \in Principals, WithdrawChange(t, p)
  PROVE  TypeOK'
  <1>1. Event(p, WITHDRAW, NoRole) \in ApprovalEvents
    BY EventTyped DEF ApprovalDecisions
  <1>2. events' \in [Trials -> SUBSET ApprovalEvents]
    BY <1>1 DEF WithdrawChange, Log, TypeOK
  <1>3. PICK s \in Statuses : Resume(t, Verdict("withdraw", p, NoKey), s)
    BY DEF WithdrawChange
  <1>4. "withdraw" \in VerdictTypes
    BY DEF VerdictTypes
  <1>5. /\ next' \in [Trials -> {"absent", "execute", "end", "purged"}]
        /\ audit' \in [Trials -> Seq(AuditRecords)]
    BY <1>3, <1>4, ResumeTyped
  <1> QED BY <1>2, <1>5 DEF WithdrawChange, SetStatus, TypeOK, Statuses, Terminal, ledgers

LEMMA DecideTyped ==
  ASSUME TypeOK, NEW t \in Trials, NEW p \in Principals, NEW approve \in BOOLEAN,
         Decide(t, p, approve)
  PROVE  TypeOK'
  <1> DEFINE new == IF approve THEN NewApprovals(t, p) ELSE NewRejections(t, p)
             outcome == EvaluateQuorum(events[t] \cup new, quorum[t])
  <1>1. new \subseteq ApprovalEvents
    BY NewVotesTyped DEF Decide
  <1>2. events' = [events EXCEPT ![t] = @ \cup new]
    BY DEF Decide, Log
  <1>3. events' \in [Trials -> SUBSET ApprovalEvents]
    BY <1>1, <1>2 DEF TypeOK
  <1>4. "approve" \in VerdictTypes /\ "reject" \in VerdictTypes
    BY DEF VerdictTypes
  <1>5. /\ next' \in [Trials -> {"absent", "execute", "end", "purged"}]
        /\ audit' \in [Trials -> Seq(AuditRecords)]
        /\ status' \in [Trials -> Statuses]
        /\ pending' \subseteq Trials
        /\ told' \in [Trials -> SUBSET {"approved", "rejected"}]
    <2>1. CASE outcome = "satisfied"
      <3>1. PICK s \in Statuses : Resume(t, Verdict("approve", p, NoKey), s) /\ SetStatus(t, s)
        BY <2>1 DEF Decide
      <3>2. Tell(t, "approved") /\ pending' = pending \ {t}
        BY <2>1 DEF Decide
      <3> QED BY <1>4, <3>1, <3>2, ResumeTyped DEF SetStatus, Tell, TypeOK
    <2>2. CASE outcome = "rejected"
      <3>1. PICK s \in Statuses : Resume(t, Verdict("reject", p, NoKey), s)
        BY <2>2 DEF Decide
      <3>2. Tell(t, "rejected") /\ pending' = pending \ {t} /\ SetStatus(t, "rejected")
        BY <2>2 DEF Decide
      <3> QED BY <1>4, <3>1, <3>2, ResumeTyped DEF SetStatus, Tell, TypeOK, Statuses, Terminal
    <2>3. CASE outcome \in {"pending", "withdrawn"}
      BY <2>3 DEF Decide, TypeOK
    <2> QED BY <2>1, <2>2, <2>3 DEF Decide
  <1> QED BY <1>3, <1>5 DEF Decide, TypeOK, ledgers

LEMMA AcknowledgeTyped ==
  ASSUME TypeOK, NEW t \in Trials, NEW p \in Principals, Acknowledge(t, p)
  PROVE  TypeOK'
  <1>1. Event(p, ACK, NoRole) \in ApprovalEvents
    BY EventTyped DEF ApprovalDecisions
  <1> QED BY <1>1 DEF Acknowledge, Log, TypeOK, checkpoint, ledgers

LEMMA PurgeTyped ==
  ASSUME TypeOK, NEW t \in Trials, PurgeTrial(t)
  PROVE  TypeOK'
  <1>1. CASE PurgeCheckpoint(t)
    BY <1>1 DEF PurgeCheckpoint, TypeOK, Statuses, ledgers
  <1>2. CASE PurgeClaims(t)
    <2>1. [k \in Keys |-> 0] \in [Keys -> Nat] /\ {} \in SUBSET Keys
      OBVIOUS
    <2> QED BY <1>2, <2>1 DEF PurgeClaims, TypeOK, checkpoint
  <1>3. CASE PurgeRow(t)
    BY <1>3 DEF PurgeRow, TypeOK, checkpoint, ledgers
  <1> QED BY <1>1, <1>2, <1>3 DEF PurgeTrial

\* One fact per action, gathered.
LEMMA NextTyped == TypeOK /\ [Next]_vars => TypeOK'
  <1> SUFFICES ASSUME TypeOK, [Next]_vars PROVE TypeOK'
    OBVIOUS
  <1>1. CASE Next
    <2>1. PICK t \in Trials : TrialStep(t)
      BY <1>1 DEF Next
    <2> QED BY <2>1, SubmitTyped, CastTyped, SendTyped, WithdrawTyped, DecideTyped,
               AcknowledgeTyped, PurgeTyped DEF TrialStep
  <1>2. CASE UNCHANGED vars
    BY <1>2 DEF vars, TypeOK, checkpoint, ledgers
  <1> QED BY <1>1, <1>2

\* Every variable of the court keeps its type, whatever the callers do.
THEOREM TypeCorrect == Spec => []TypeOK
  BY InitTyped, NextTyped, PTL DEF Spec

-----------------------------------------------------------------------------
(***************************************************************************)
(* Safety.  A call touches one trial only (Frame), what is sound stays     *)
(* sound while the variables it speaks of stand still (SoundKept), and     *)
(* each call keeps its own trial sound.                                    *)
(***************************************************************************)

\* What Sound(u) reads of the state.
Seen(u) == <<next[u], status[u], by[u], quorum[u], events[u], audit[u]>>

LEMMA SoundKept ==
  ASSUME NEW u \in Trials, Sound(u), Seen(u)' = Seen(u)
  PROVE  Sound(u)'
  BY DEF Seen, Sound, DutiesSeparated, RunsAuthorised, OpenAtGate, OneRecord, Unconcluded,
         AtGate, OnOwnAuthority, ByVote, ByCast

LEMMA Frame ==
  ASSUME TypeOK, NEW t \in Trials, NEW u \in Trials, u # t, TrialStep(t)
  PROVE  Seen(u)' = Seen(u)
  <1>1. ASSUME NEW verdict, NEW s, Resume(t, verdict, s)
        PROVE  next'[u] = next[u] /\ audit'[u] = audit[u]
    BY <1>1 DEF Resume, TypeOK
  <1>2. ASSUME NEW s, SetStatus(t, s) PROVE status'[u] = status[u]
    BY <1>2 DEF SetStatus, TypeOK
  <1>3. ASSUME NEW es, Log(t, es) PROVE events'[u] = events[u]
    BY <1>3 DEF Log, TypeOK
  <1>4. ASSUME NEW p \in Principals, NEW q \in PolicyQuorums, NEW m \in Modes,
               SubmitChange(t, p, m, q)
        PROVE  Seen(u)' = Seen(u)
    BY <1>4 DEF SubmitChange, Seen, TypeOK
  <1>5. ASSUME NEW p \in Principals, NEW q \in PolicyQuorums, SubmitAnalysis(t, p, q)
        PROVE  Seen(u)' = Seen(u)
    BY <1>5 DEF SubmitAnalysis, Seen, TypeOK
  <1>6. ASSUME NEW p \in Principals, NEW type \in VerdictTypes, NEW k \in Keys,
               CastVerdict(t, p, type, k)
        PROVE  Seen(u)' = Seen(u)
    BY <1>1, <1>2, <1>6 DEF CastVerdict, Seen
  <1>7. ASSUME NEW p \in Principals, SendForApproval(t, p) PROVE Seen(u)' = Seen(u)
    <2>1. next'[u] = next[u] /\ audit'[u] = audit[u] /\ status'[u] = status[u]
      BY <1>1, <1>2, <1>7 DEF SendForApproval
    <2> QED BY <1>3, <1>7, <2>1 DEF SendForApproval, Seen
  <1>8. ASSUME NEW p \in Principals, WithdrawChange(t, p) PROVE Seen(u)' = Seen(u)
    BY <1>1, <1>2, <1>3, <1>8 DEF WithdrawChange, Seen
  <1>9. ASSUME NEW p \in Principals, NEW approve \in BOOLEAN, Decide(t, p, approve)
        PROVE  Seen(u)' = Seen(u)
    <2>1. next'[u] = next[u] /\ audit'[u] = audit[u] /\ status'[u] = status[u]
      BY <1>1, <1>2, <1>9 DEF Decide
    <2>2. events'[u] = events[u]
      BY <1>3, <1>9 DEF Decide
    <2> QED BY <1>9, <2>1, <2>2 DEF Decide, Seen
  <1>10. ASSUME NEW p \in Principals, Acknowledge(t, p) PROVE Seen(u)' = Seen(u)
    BY <1>3, <1>10 DEF Acknowledge, Seen, checkpoint
  <1>11. ASSUME PurgeTrial(t) PROVE Seen(u)' = Seen(u)
    BY <1>11 DEF PurgeTrial, PurgeCheckpoint, PurgeClaims, PurgeRow, Seen, TypeOK, checkpoint
  <1> QED BY <1>4, <1>5, <1>6, <1>7, <1>8, <1>9, <1>10, <1>11 DEF TrialStep

\* The requester's events and the votes are told apart by their decision.
LEMMA DecisionsDistinct ==
  /\ SEND \notin {APPROVE, REJECT, WITHDRAW, ACK}
  /\ WITHDRAW \notin {APPROVE, REJECT, ACK}
  /\ ACK \notin {APPROVE, REJECT}
  /\ APPROVE # REJECT
  BY DEF SEND, WITHDRAW, APPROVE, REJECT, ACK

\* Logging what the requester does, or authorized votes, keeps the duties apart.
LEMMA DutiesKept ==
  ASSUME NEW t \in Trials, NEW es, DutiesSeparated(t),
         events'[t] = events[t] \cup es, UNCHANGED <<by, quorum>>,
         \A e \in es : IF e.decision \in {APPROVE, REJECT}
                       THEN /\ ~SameAs(e.actor, by[t])
                            /\ e.role \in VotingRoles(e.actor, quorum[t])
                       ELSE SameAs(e.actor, by[t])
  PROVE  DutiesSeparated(t)'
  BY DEF DutiesSeparated

\* A run that was authorised stays so: the log only grows.
LEMMA RunsKept ==
  ASSUME NEW t \in Trials, RunsAuthorised(t), events[t] \subseteq events'[t],
         UNCHANGED <<by, quorum>>, audit'[t] = audit[t]
  PROVE  RunsAuthorised(t)'
  <1>1. ApprovedRoles(events[t]) \subseteq ApprovedRoles(events'[t])
    BY DEF ApprovedRoles
  <1>2. Reached(quorum[t], ApprovedRoles(events[t]))
          => Reached(quorum[t], ApprovedRoles(events'[t]))
    BY <1>1 DEF Reached
  <1>3. SUFFICES ASSUME NEW i \in DOMAIN audit[t], audit[t][i].executed
                 PROVE  LET v == audit[t][i].verdict
                        IN  OnOwnAuthority(t, v)' \/ ByVote(t, v)' \/ ByCast(t, v)'
    BY DEF RunsAuthorised, OnOwnAuthority, ByVote, ByCast
  <1> QED BY <1>2, <1>3 DEF RunsAuthorised, OnOwnAuthority, ByVote, ByCast

\* The only record a call appends: the trial was at the gate with none.
LEMMA RecordAppended ==
  ASSUME TypeOK, NEW t \in Trials, OneRecord(t), AtGate(t),
         NEW type \in VerdictTypes, NEW p \in Principals, NEW k \in Keys \cup {NoKey},
         NEW s, Resume(t, Verdict(type, p, k), s)
  PROVE  /\ next'[t] = "end"
         /\ s \in {"done", "failed", "rejected", "withdrawn"}
         /\ audit'[t] = <<Record(Verdict(type, p, k), s)>>
         /\ OneRecord(t)'
  <1>1. Verdict(type, p, k).type = type
    BY DEF Verdict
  <1>2. s \in {"done", "failed", "rejected", "withdrawn"}
    BY <1>1, TerminalStatusesTyped DEF Resume
  <1>3. next'[t] = "end" /\ audit'[t] = Append(audit[t], Record(Verdict(type, p, k), s))
    BY DEF Resume, TypeOK
  <1>4. audit[t] \in Seq(AuditRecords) /\ Len(audit[t]) = 0
    BY DEF TypeOK, OneRecord, AtGate
  <1>5. audit[t] = << >>
    BY <1>4
  <1>6. audit'[t] = <<Record(Verdict(type, p, k), s)>>
    BY <1>3, <1>5
  <1>7. OneRecord(t)'
    BY <1>3, <1>6 DEF OneRecord
  <1> QED BY <1>2, <1>3, <1>6, <1>7

\* Authority for a fresh record is authority for the trial.
LEMMA FreshRunAuthorised ==
  ASSUME NEW t \in Trials, NEW v, NEW s, audit'[t] = <<Record(v, s)>>,
         v.type \in Approving =>
           OnOwnAuthority(t, v)' \/ ByVote(t, v)' \/ ByCast(t, v)'
  PROVE  RunsAuthorised(t)'
  <1>1. DOMAIN audit'[t] = {1} /\ audit'[t][1] = Record(v, s)
    OBVIOUS
  <1>2. Record(v, s).verdict = v
    BY DEF Record
  <1>3. ASSUME Record(v, s).executed PROVE v.type \in Approving
    BY <1>3 DEF Record
  <1>4. ASSUME NEW i \in DOMAIN audit'[t], audit'[t][i].executed
        PROVE  /\ audit'[t][i].verdict = v
               /\ OnOwnAuthority(t, v)' \/ ByVote(t, v)' \/ ByCast(t, v)'
    <2>1. audit'[t][i] = Record(v, s)
      BY <1>1
    <2> QED BY <1>2, <1>3, <1>4, <2>1
  <1> QED BY <1>4 DEF RunsAuthorised, OnOwnAuthority, ByVote, ByCast

\* Past the gate the runner does nothing.
LEMMA ResumePast ==
  ASSUME NEW t \in Trials, ~AtGate(t), NEW verdict, NEW s, Resume(t, verdict, s)
  PROVE  UNCHANGED <<next, audit>> /\ s = status[t]
  BY DEF Resume

LEMMA SubmitSound ==
  ASSUME TypeOK, NEW t \in Trials, Sound(t), NEW p \in Principals, NEW q \in PolicyQuorums
  PROVE  /\ \A m \in Modes : SubmitChange(t, p, m, q) => Sound(t)'
         /\ SubmitAnalysis(t, p, q) => Sound(t)'
  <1>1. ASSUME next[t] = "absent" PROVE audit[t] = << >> /\ events[t] = {}
    BY <1>1 DEF Sound, OneRecord, Unconcluded, TypeOK
  <1>2. ASSUME NEW m \in Modes, SubmitChange(t, p, m, q) PROVE Sound(t)'
    <2>1. /\ next'[t] = "execute" /\ status'[t] = "awaiting_requester_review"
          /\ events'[t] = {} /\ audit'[t] = << >> /\ quorum'[t] = q /\ by'[t] = p
      BY <1>1, <1>2 DEF SubmitChange, TypeOK
    <2>2. DutiesSeparated(t)' /\ RunsAuthorised(t)' /\ OneRecord(t)' /\ Unconcluded(t)'
      BY <2>1 DEF DutiesSeparated, RunsAuthorised, OneRecord, Unconcluded, AtGate
    <2>3. ApprovedRoles({}) = {} /\ \A d : ~Decided({}, d)
      BY DEF ApprovedRoles, Decided
    <2>4. q.policy \in {"any", "all"} /\ q.required \subseteq Roles
      BY QuorumsAssumption DEF Quorums, Policies
    <2>5. q.required = {} \/ EvaluateQuorum({}, q) = "pending"
      BY <2>3, <2>4 DEF EvaluateQuorum, Reached
    <2>6. OpenAtGate(t)'
      BY <2>1, <2>5 DEF OpenAtGate
    <2> QED BY <2>2, <2>6 DEF Sound
  <1>3. ASSUME SubmitAnalysis(t, p, q) PROVE Sound(t)'
    <2>1. /\ next'[t] = "end" /\ events'[t] = {}
          /\ audit'[t] = <<Record(NoVerdict, "analyzed")>>
      BY <1>1, <1>3 DEF SubmitAnalysis, TypeOK
    <2>2. NoVerdict.type \notin Approving
      BY DEF NoVerdict, Verdict, Approving
    <2>3. RunsAuthorised(t)'
      BY <2>1, <2>2, FreshRunAuthorised
    <2> QED BY <2>1, <2>3 DEF Sound, DutiesSeparated, OpenAtGate, OneRecord, Unconcluded, AtGate
  <1> QED BY <1>2, <1>3

LEMMA CastSound ==
  ASSUME TypeOK, NEW t \in Trials, Sound(t), NEW p \in Principals, NEW type \in VerdictTypes,
         NEW k \in Keys, CastVerdict(t, p, type, k)
  PROVE  Sound(t)'
  <1>1. PICK s \in Statuses : Resume(t, Verdict(type, p, k), s) /\ SetStatus(t, s)
    BY DEF CastVerdict
  <1>2. UNCHANGED <<by, quorum, events>> /\ Authorized(p, by[t], quorum[t])
    BY DEF CastVerdict
  <1>3. DutiesSeparated(t)'
    BY <1>2 DEF Sound, DutiesSeparated
  <1>4. CASE AtGate(t)
    <2>1. next'[t] = "end" /\ audit'[t] = <<Record(Verdict(type, p, k), s)>> /\ OneRecord(t)'
      BY <1>1, <1>4, RecordAppended DEF Sound
    <2>2. ByCast(t, Verdict(type, p, k))'
      BY <1>2 DEF ByCast, Verdict
    <2>3. RunsAuthorised(t)'
      BY <2>1, <2>2, FreshRunAuthorised
    <2> QED BY <1>3, <2>1, <2>3 DEF Sound, OpenAtGate, Unconcluded, AtGate
  <1>5. CASE ~AtGate(t)
    <2>1. UNCHANGED <<next, audit>> /\ s = status[t]
      BY <1>1, <1>5, ResumePast
    <2>2. status'[t] = status[t]
      BY <1>1, <2>1 DEF SetStatus, TypeOK
    <2>3. Seen(t)' = Seen(t)
      BY <1>2, <2>1, <2>2 DEF Seen
    <2> QED BY <2>3, SoundKept
  <1> QED BY <1>4, <1>5

LEMMA SendSound ==
  ASSUME TypeOK, NEW t \in Trials, Sound(t), NEW p \in Principals, SendForApproval(t, p)
  PROVE  Sound(t)'
  <1> DEFINE sent == Event(p, SEND, NoRole)
  <1>1. UNCHANGED <<by, quorum>> /\ SameAs(p, by[t]) /\ next[t] \in {"execute", "end"}
    BY DEF SendForApproval, IsRequester, Actionable
  <1>2. events'[t] = events[t] \cup {sent}
    BY DEF SendForApproval, Log, TypeOK
  <1>3. sent.decision = SEND /\ sent.actor = p
    BY DEF Event
  <1>4. DutiesSeparated(t)'
    <2>1. DutiesSeparated(t)
      BY DEF Sound
    <2>2. sent.decision \notin {APPROVE, REJECT}
      BY <1>3, DecisionsDistinct
    <2>3. SameAs(sent.actor, by[t])
      BY <1>1, <1>3
    <2> HIDE DEF sent
    <2> QED BY <1>1, <1>2, <2>1, <2>2, <2>3, DutiesKept
  <1>5. CASE EvaluateQuorum(events'[t], quorum[t]) = "satisfied"
    <2>1. PICK s \in Statuses : Resume(t, Verdict("approve", p, NoKey), s) /\ SetStatus(t, s)
      BY <1>5 DEF SendForApproval
    <2>2. CASE AtGate(t)
      <3>1. "approve" \in VerdictTypes
        BY DEF VerdictTypes
      <3>2. /\ next'[t] = "end" /\ OneRecord(t)'
            /\ audit'[t] = <<Record(Verdict("approve", p, NoKey), s)>>
        BY <2>1, <2>2, <3>1, RecordAppended DEF Sound
      <3>3. quorum[t].required = {}
        <4>1. /\ ~Decided(events'[t], WITHDRAW) /\ ~Decided(events'[t], REJECT)
              /\ Reached(quorum[t], ApprovedRoles(events'[t]))
          BY <1>5 DEF EvaluateQuorum
        <4>2. ~Decided(events[t], WITHDRAW) /\ ~Decided(events[t], REJECT)
          BY <1>2, <4>1 DEF Decided
        <4>3. ApprovedRoles(events'[t]) = ApprovedRoles(events[t])
          BY <1>2, <1>3, DecisionsDistinct DEF ApprovedRoles
        <4>4. EvaluateQuorum(events[t], quorum[t]) = "satisfied"
          BY <4>1, <4>2, <4>3 DEF EvaluateQuorum
        <4> QED BY <2>2, <4>4 DEF Sound, OpenAtGate
      <3>4. OnOwnAuthority(t, Verdict("approve", p, NoKey))'
        BY <1>1, <1>2, <3>3 DEF OnOwnAuthority, Verdict
      <3>5. RunsAuthorised(t)'
        BY <3>2, <3>4, FreshRunAuthorised
      <3> QED BY <1>4, <3>2, <3>5 DEF Sound, OpenAtGate, Unconcluded, AtGate
    <2>3. CASE ~AtGate(t)
      <3>1. UNCHANGED <<next, audit>>
        BY <2>1, <2>3, ResumePast
      <3> QED BY <1>1, <1>2, <1>4, <2>3, <3>1, RunsKept
              DEF Sound, OpenAtGate, OneRecord, Unconcluded, AtGate
    <2> QED BY <2>2, <2>3
  <1>6. CASE EvaluateQuorum(events'[t], quorum[t]) # "satisfied"
    <2>1. SetStatus(t, "awaiting_approval") /\ UNCHANGED <<next, audit>>
      BY <1>6 DEF SendForApproval
    <2>2. status'[t] = "awaiting_approval"
      BY <2>1 DEF SetStatus, TypeOK
    <2>3. RunsAuthorised(t)'
      BY <1>1, <1>2, <2>1, RunsKept DEF Sound
    <2>4. OneRecord(t)' /\ Unconcluded(t)'
      BY <1>1, <2>1, <2>2 DEF Sound, OneRecord, Unconcluded, AtGate
    <2>5. ASSUME AtGate(t) PROVE EvaluateQuorum(events'[t], quorum[t]) = "pending"
      <3>1. ~Decided(events[t], WITHDRAW) /\ ~Decided(events[t], REJECT)
        BY <2>5 DEF Sound, OpenAtGate, EvaluateQuorum, Decided
      <3>2. ~Decided(events'[t], WITHDRAW) /\ ~Decided(events'[t], REJECT)
        BY <1>2, <1>3, <3>1, DecisionsDistinct DEF Decided
      <3> QED BY <1>6, <3>2 DEF EvaluateQuorum
    <2>6. OpenAtGate(t)'
      BY <1>1, <2>1, <2>5 DEF OpenAtGate, AtGate
    <2> QED BY <1>4, <2>3, <2>4, <2>6 DEF Sound
  <1> QED BY <1>5, <1>6

LEMMA WithdrawSound ==
  ASSUME TypeOK, NEW t \in Trials, Sound(t), NEW p \in Principals, WithdrawChange(t, p)
  PROVE  Sound(t)'
  <1> DEFINE left == Event(p, WITHDRAW, NoRole)
  <1>1. UNCHANGED <<by, quorum>> /\ SameAs(p, by[t]) /\ next[t] \in {"execute", "end"}
    BY DEF WithdrawChange, IsRequester, Actionable
  <1>2. events'[t] = events[t] \cup {left}
    BY DEF WithdrawChange, Log, TypeOK
  <1>3. DutiesSeparated(t)'
    <2>1. DutiesSeparated(t)
      BY DEF Sound
    <2>2. left.decision \notin {APPROVE, REJECT} /\ SameAs(left.actor, by[t])
      BY <1>1, DecisionsDistinct DEF Event
    <2> HIDE DEF left
    <2> QED BY <1>1, <1>2, <2>1, <2>2, DutiesKept
  <1>4. PICK s \in Statuses : Resume(t, Verdict("withdraw", p, NoKey), s)
    BY DEF WithdrawChange
  <1>5. CASE AtGate(t)
    <2>1. "withdraw" \in VerdictTypes
      BY DEF VerdictTypes
    <2>2. /\ next'[t] = "end" /\ OneRecord(t)'
          /\ audit'[t] = <<Record(Verdict("withdraw", p, NoKey), s)>>
      BY <1>4, <1>5, <2>1, RecordAppended DEF Sound
    <2>3. Verdict("withdraw", p, NoKey).type \notin Approving
      BY DEF Verdict, Approving
    <2>4. RunsAuthorised(t)'
      BY <2>2, <2>3, FreshRunAuthorised
    <2> QED BY <1>3, <2>2, <2>4 DEF Sound, OpenAtGate, Unconcluded, AtGate
  <1>6. CASE ~AtGate(t)
    <2>1. UNCHANGED <<next, audit>>
      BY <1>4, <1>6, ResumePast
    <2> QED BY <1>1, <1>2, <1>3, <1>6, <2>1, RunsKept
            DEF Sound, OpenAtGate, OneRecord, Unconcluded, AtGate
  <1> QED BY <1>5, <1>6

\* What a call of decide logs: votes of an authorized caller, all of one kind.
LEMMA NewVotes ==
  ASSUME NEW t \in Trials, NEW p \in Principals, Authorized(p, by[t], quorum[t])
  PROVE  /\ \A e \in NewApprovals(t, p) :
              /\ e.decision = APPROVE /\ e.actor = p
              /\ e.role \in VotingRoles(p, quorum[t])
              /\ e = Event(p, APPROVE, e.role)
         /\ \A e \in NewRejections(t, p) :
              /\ e.decision = REJECT /\ e.actor = p
              /\ e.role \in VotingRoles(p, quorum[t])
  <1>1. (CHOOSE r \in VotingRoles(p, quorum[t]) : TRUE) \in VotingRoles(p, quorum[t])
    BY DEF Authorized
  <1>2. ASSUME NEW e \in NewApprovals(t, p)
        PROVE  /\ e.decision = APPROVE /\ e.actor = p
               /\ e.role \in VotingRoles(p, quorum[t])
               /\ e = Event(p, APPROVE, e.role)
    <2>1. PICK r \in VotingRoles(p, quorum[t]) : e = Event(p, APPROVE, r)
      BY DEF NewApprovals
    <2> QED BY <2>1 DEF Event
  <1>3. ASSUME NEW e \in NewRejections(t, p)
        PROVE  /\ e.decision = REJECT /\ e.actor = p
               /\ e.role \in VotingRoles(p, quorum[t])
    <2>1. e = Event(p, REJECT, CHOOSE r \in VotingRoles(p, quorum[t]) : TRUE)
      BY DEF NewRejections
    <2> QED BY <1>1, <2>1 DEF Event
  <1> QED BY <1>2, <1>3

LEMMA DecideSound ==
  ASSUME TypeOK, NEW t \in Trials, Sound(t), NEW p \in Principals, NEW approve \in BOOLEAN,
         Decide(t, p, approve)
  PROVE  Sound(t)'
  <1> DEFINE new == IF approve THEN NewApprovals(t, p) ELSE NewRejections(t, p)
             outcome == EvaluateQuorum(events[t] \cup new, quorum[t])
  <1>1. UNCHANGED <<by, quorum>> /\ next[t] \in {"execute", "end"} /\ new # {}
    BY DEF Decide, Actionable
  <1>2. Authorized(p, by[t], quorum[t]) /\ ~SameAs(p, by[t])
    BY DEF Decide, Authorized
  <1>3. events'[t] = events[t] \cup new
    BY DEF Decide, Log, TypeOK
  <1>4. DutiesSeparated(t)'
    <2>1. DutiesSeparated(t)
      BY DEF Sound
    <2>2. \A e \in new : /\ e.decision \in {APPROVE, REJECT} /\ e.actor = p
                          /\ e.role \in VotingRoles(p, quorum[t])
      BY <1>2, NewVotes
    <2>3. \A e \in new : IF e.decision \in {APPROVE, REJECT}
                          THEN /\ ~SameAs(e.actor, by[t])
                               /\ e.role \in VotingRoles(e.actor, quorum[t])
                          ELSE SameAs(e.actor, by[t])
      BY <1>2, <2>2
    <2> HIDE DEF new
    <2> QED BY <1>1, <1>3, <2>1, <2>3, DutiesKept
  <1>5. ASSUME NEW type \in VerdictTypes, NEW s, Resume(t, Verdict(type, p, NoKey), s),
               AtGate(t), type \in Approving => ByVote(t, Verdict(type, p, NoKey))'
        PROVE  Sound(t)'
    <2>1. /\ next'[t] = "end" /\ OneRecord(t)'
          /\ audit'[t] = <<Record(Verdict(type, p, NoKey), s)>>
      BY <1>5, RecordAppended DEF Sound
    <2>2. Verdict(type, p, NoKey).type = type
      BY DEF Verdict
    <2>3. RunsAuthorised(t)'
      BY <1>5, <2>1, <2>2, FreshRunAuthorised
    <2> QED BY <1>4, <2>1, <2>3 DEF Sound, OpenAtGate, Unconcluded, AtGate
  <1>6. ASSUME ~AtGate(t), UNCHANGED <<next, audit>> PROVE Sound(t)'
    BY <1>1, <1>3, <1>4, <1>6, RunsKept
       DEF Sound, OpenAtGate, OneRecord, Unconcluded, AtGate
  <1>7. "approve" \in VerdictTypes /\ "reject" \in VerdictTypes /\ "reject" \notin Approving
    BY DEF VerdictTypes, Approving
  <1>8. CASE outcome = "satisfied"
    <2>1. PICK s \in Statuses : Resume(t, Verdict("approve", p, NoKey), s) /\ SetStatus(t, s)
      BY <1>8 DEF Decide
    <2>2. CASE AtGate(t)
      <3>1. ~Decided(events'[t], REJECT) /\ Reached(quorum[t], ApprovedRoles(events'[t]))
        BY <1>3, <1>8 DEF EvaluateQuorum
      <3>2. approve
        BY <1>1, <1>2, <1>3, <3>1, NewVotes DEF Decided
      <3>3. \E r \in Roles : Event(p, APPROVE, r) \in events'[t]
        BY <1>1, <1>2, <1>3, <3>2, NewVotes DEF VotingRoles, RolesFor
      <3>4. ByVote(t, Verdict("approve", p, NoKey))'
        BY <1>1, <1>2, <3>1, <3>3 DEF ByVote, Verdict
      <3> QED BY <1>5, <1>7, <2>1, <2>2, <3>4
    <2>3. CASE ~AtGate(t)
      BY <1>6, <2>1, <2>3, ResumePast
    <2> QED BY <2>2, <2>3
  <1>9. CASE outcome = "rejected"
    <2>1. PICK s \in Statuses : Resume(t, Verdict("reject", p, NoKey), s)
      BY <1>9 DEF Decide
    <2>2. CASE AtGate(t)
      BY <1>5, <1>7, <2>1, <2>2
    <2>3. CASE ~AtGate(t)
      BY <1>6, <2>1, <2>3, ResumePast
    <2> QED BY <2>2, <2>3
  <1>10. CASE outcome \in {"pending", "withdrawn"}
    <2>1. UNCHANGED <<next, status, audit>>
      BY <1>10 DEF Decide
    <2>2. CASE AtGate(t)
      <3>1. ~Decided(events[t], WITHDRAW)
        BY <2>2 DEF Sound, OpenAtGate, EvaluateQuorum, Decided
      <3>2. ~Decided(events'[t], WITHDRAW)
        <4>1. \A e \in new : e.decision \in {APPROVE, REJECT}
          BY <1>2, NewVotes
        <4> HIDE DEF new
        <4> QED BY <1>3, <3>1, <4>1, DecisionsDistinct DEF Decided
      <3>3. EvaluateQuorum(events'[t], quorum[t]) = "pending"
        BY <1>3, <1>10, <3>2 DEF EvaluateQuorum
      <3>4. RunsAuthorised(t)'
        BY <1>1, <1>3, <2>1, RunsKept DEF Sound
      <3> QED BY <1>1, <1>4, <2>1, <2>2, <3>3, <3>4
              DEF Sound, OpenAtGate, OneRecord, Unconcluded, AtGate
    <2>3. CASE ~AtGate(t)
      BY <1>6, <2>1, <2>3
    <2> QED BY <2>2, <2>3
  <1> QED BY <1>8, <1>9, <1>10 DEF Decide

LEMMA AcknowledgeSound ==
  ASSUME TypeOK, NEW t \in Trials, Sound(t), NEW p \in Principals, Acknowledge(t, p)
  PROVE  Sound(t)'
  <1> DEFINE seen == Event(p, ACK, NoRole)
  <1>1. UNCHANGED <<next, status, by, quorum, audit>> /\ SameAs(p, by[t])
    BY DEF Acknowledge, IsRequester, checkpoint
  <1>2. events'[t] = events[t] \cup {seen}
    BY DEF Acknowledge, Log, TypeOK
  <1>3. DutiesSeparated(t)'
    <2>1. DutiesSeparated(t)
      BY DEF Sound
    <2>2. seen.decision \notin {APPROVE, REJECT} /\ SameAs(seen.actor, by[t])
      BY <1>1, DecisionsDistinct DEF Event
    <2> HIDE DEF seen
    <2> QED BY <1>1, <1>2, <2>1, <2>2, DutiesKept
  <1>4. next[t] = "end"
    BY DEF Acknowledge, Sound, Unconcluded, AtGate
  <1>5. RunsAuthorised(t)'
    BY <1>1, <1>2, RunsKept DEF Sound
  <1> QED BY <1>1, <1>3, <1>4, <1>5 DEF Sound, OpenAtGate, OneRecord, Unconcluded, AtGate

LEMMA PurgeSound ==
  ASSUME TypeOK, NEW t \in Trials, Sound(t), PurgeTrial(t)
  PROVE  Sound(t)'
  <1>1. CASE PurgeCheckpoint(t)
    <2>1. /\ UNCHANGED <<by, quorum, events, audit>> /\ next'[t] = "purged"
          /\ next[t] \in {"execute", "end"} /\ Len(audit[t]) # 0
      BY <1>1 DEF PurgeCheckpoint, TypeOK
    <2>2. next[t] = "end"
      BY <2>1 DEF Sound, OneRecord
    <2>3. DutiesSeparated(t)' /\ RunsAuthorised(t)'
      BY <2>1, RunsKept DEF Sound, DutiesSeparated
    <2> QED BY <2>1, <2>2, <2>3 DEF Sound, OpenAtGate, OneRecord, Unconcluded, AtGate
  <1>2. CASE PurgeClaims(t) \/ PurgeRow(t)
    <2>1. Seen(t)' = Seen(t)
      BY <1>2 DEF PurgeClaims, PurgeRow, Seen, checkpoint
    <2> QED BY <2>1, SoundKept
  <1> QED BY <1>1, <1>2 DEF PurgeTrial

LEMMA TrialStepSound ==
  ASSUME TypeOK, NEW t \in Trials, Sound(t), TrialStep(t)
  PROVE  Sound(t)'
  BY SubmitSound, CastSound, SendSound, WithdrawSound, DecideSound, AcknowledgeSound,
     PurgeSound DEF TrialStep

LEMMA InitSound == Init => InductiveInv
  <1> SUFFICES ASSUME Init, NEW t \in Trials PROVE Sound(t)
    BY DEF InductiveInv
  <1> QED BY DEF Init, Sound, DutiesSeparated, RunsAuthorised, OpenAtGate, OneRecord,
                 Unconcluded, AtGate

LEMMA NextSound == TypeOK /\ InductiveInv /\ [Next]_vars => InductiveInv'
  <1> SUFFICES ASSUME TypeOK, InductiveInv, [Next]_vars, NEW u \in Trials
               PROVE  Sound(u)'
    BY DEF InductiveInv
  <1>1. Sound(u)
    BY DEF InductiveInv
  <1>2. ASSUME NEW t \in Trials, TrialStep(t) PROVE Sound(u)'
    <2>1. CASE u = t
      BY <1>1, <1>2, <2>1, TrialStepSound
    <2>2. CASE u # t
      BY <1>1, <1>2, <2>2, Frame, SoundKept
    <2> QED BY <2>1, <2>2
  <1>3. CASE UNCHANGED vars
    BY <1>1, <1>3, SoundKept DEF vars, Seen, checkpoint, ledgers
  <1> QED BY <1>2, <1>3 DEF Next

\* The inductive strengthening holds throughout.
THEOREM Soundness == Spec => []InductiveInv
  BY TypeCorrect, InitSound, NextSound, PTL DEF Spec

\* Whoever votes is never the requester and votes in a required role; whoever
\* sends, withdraws or acknowledges is the requester.
THEOREM DutiesStaySeparated == Spec => []SeparationOfDuties
  <1>1. InductiveInv => SeparationOfDuties
    BY DEF InductiveInv, Sound, SeparationOfDuties
  <1> QED BY <1>1, Soundness, PTL

\* Every run of a plan had authority that the permanent records still show.
THEOREM RunsAreAuthorised == Spec => []ExecutionAuthorised
  <1>1. InductiveInv => ExecutionAuthorised
    BY DEF InductiveInv, Sound, ExecutionAuthorised
  <1> QED BY <1>1, Soundness, PTL

\* No decision is logged without taking effect.
THEOREM DecisionsTakeEffect == Spec => []DecidedNeverWaits
  <1>1. InductiveInv => DecidedNeverWaits
    BY DEF InductiveInv, Sound, DecidedNeverWaits
  <1> QED BY <1>1, Soundness, PTL

\* A trial has one audit record once it left the gate, and none before.
THEOREM OneAuditRecord == Spec => []AuditedOnce
  <1>1. InductiveInv => AuditedOnce
    BY DEF InductiveInv, Sound, AuditedOnce
  <1> QED BY <1>1, Soundness, PTL

-----------------------------------------------------------------------------
(***************************************************************************)
(* The court implements the lifecycle of TrialRecord.                      *)
(***************************************************************************)

\* What one call does to the trial's permanent record: nothing, open it, or
\* conclude it with the one record the trial ever gets.
Quiet(t) == audit'[t] = audit[t] /\ (next'[t] = "absent" <=> next[t] = "absent")

Opens(t) == next[t] = "absent" /\ next'[t] = "execute" /\ audit'[t] = audit[t]

Analyzes(t) == next[t] = "absent" /\ audit'[t] = <<Record(NoVerdict, "analyzed")>>

Concludes(t) ==
  /\ AtGate(t)
  /\ \E type \in VerdictTypes, p \in Principals, k \in Keys \cup {NoKey} :
       \E s \in TerminalStatuses(type) : audit'[t] = <<Record(Verdict(type, p, k), s)>>

LEMMA ResumeOnRecord ==
  ASSUME TypeOK, NEW t \in Trials, OneRecord(t), next[t] \in {"execute", "end"},
         NEW type \in VerdictTypes, NEW p \in Principals, NEW k \in Keys \cup {NoKey},
         NEW s, Resume(t, Verdict(type, p, k), s)
  PROVE  Quiet(t) \/ Concludes(t)
  <1>1. CASE AtGate(t)
    <2>1. audit'[t] = <<Record(Verdict(type, p, k), s)>>
      BY <1>1, RecordAppended
    <2>2. s \in TerminalStatuses(type)
      BY <1>1 DEF Resume, Verdict
    <2> QED BY <1>1, <2>1, <2>2 DEF Concludes
  <1>2. CASE ~AtGate(t)
    BY <1>2, ResumePast DEF Quiet
  <1> QED BY <1>1, <1>2

LEMMA CallsOnRecord ==
  ASSUME TypeOK, NEW t \in Trials, OneRecord(t), TrialStep(t)
  PROVE  Quiet(t) \/ Opens(t) \/ Analyzes(t) \/ Concludes(t)
  <1>1. "approve" \in VerdictTypes /\ "reject" \in VerdictTypes /\ "withdraw" \in VerdictTypes
    BY DEF VerdictTypes
  <1>2. ASSUME NEW p \in Principals, NEW q \in PolicyQuorums, NEW m \in Modes,
               SubmitChange(t, p, m, q)
        PROVE  Opens(t)
    BY <1>2 DEF SubmitChange, Opens, TypeOK
  <1>3. ASSUME NEW p \in Principals, NEW q \in PolicyQuorums, SubmitAnalysis(t, p, q)
        PROVE  Analyzes(t)
    <2>1. audit[t] = << >>
      BY <1>3 DEF SubmitAnalysis, OneRecord, TypeOK
    <2> QED BY <1>3, <2>1 DEF SubmitAnalysis, Analyzes, TypeOK
  <1>4. ASSUME NEW p \in Principals, NEW type \in VerdictTypes, NEW k \in Keys,
               CastVerdict(t, p, type, k)
        PROVE  Quiet(t) \/ Concludes(t)
    BY <1>4, ResumeOnRecord DEF CastVerdict, Actionable
  <1>5. ASSUME NEW p \in Principals, SendForApproval(t, p) PROVE Quiet(t) \/ Concludes(t)
    <2>1. CASE EvaluateQuorum(events'[t], quorum[t]) = "satisfied"
      BY <1>1, <1>5, <2>1, ResumeOnRecord DEF SendForApproval, Actionable
    <2>2. CASE EvaluateQuorum(events'[t], quorum[t]) # "satisfied"
      BY <1>5, <2>2 DEF SendForApproval, Quiet
    <2> QED BY <2>1, <2>2
  <1>6. ASSUME NEW p \in Principals, WithdrawChange(t, p) PROVE Quiet(t) \/ Concludes(t)
    BY <1>1, <1>6, ResumeOnRecord DEF WithdrawChange, Actionable
  <1>7. ASSUME NEW p \in Principals, NEW approve \in BOOLEAN, Decide(t, p, approve)
        PROVE  Quiet(t) \/ Concludes(t)
    <2>1. next[t] \in {"execute", "end"}
      BY <1>7 DEF Decide, Actionable
    <2>2. \/ \E s \in Statuses : Resume(t, Verdict("approve", p, NoKey), s)
          \/ \E s \in Statuses : Resume(t, Verdict("reject", p, NoKey), s)
          \/ UNCHANGED <<next, audit>>
      BY <1>7 DEF Decide
    <2>3. ASSUME UNCHANGED <<next, audit>> PROVE Quiet(t)
      BY <2>3 DEF Quiet
    <2> QED BY <1>1, <2>1, <2>2, <2>3, ResumeOnRecord
  <1>8. ASSUME NEW p \in Principals, Acknowledge(t, p) PROVE Quiet(t)
    BY <1>8 DEF Acknowledge, Quiet, checkpoint
  <1>9. ASSUME PurgeTrial(t) PROVE Quiet(t)
    BY <1>9 DEF PurgeTrial, PurgeCheckpoint, PurgeClaims, PurgeRow, Quiet, TypeOK, checkpoint
  <1> QED BY <1>2, <1>3, <1>4, <1>5, <1>6, <1>7, <1>8, <1>9 DEF TrialStep

\* The fate and the runs of the trials a call is not about stand still.
LEMMA OthersOnRecord ==
  ASSUME NEW u \in Trials, Seen(u)' = Seen(u)
  PROVE  Fate(u)' = Fate(u) /\ Executed(u)' = Executed(u)
  BY DEF Seen, Fate, Audited, Executed

Fates == [t \in Trials |-> Fate(t)]
Runs == {t \in Trials : Executed(t)}

LEMMA RecordReads ==
  ASSUME NEW t \in Trials, NEW v, NEW s, audit'[t] = <<Record(v, s)>>
  PROVE  Fate(t)' = s /\ (Executed(t)' <=> v.type \in Approving)
  <1>1. DOMAIN audit'[t] = {1} /\ audit'[t][1] = Record(v, s) /\ audit'[t] # << >>
    OBVIOUS
  <1>2. Record(v, s).status = s /\ Record(v, s).executed = (v.type \in Approving)
    BY DEF Record
  <1>3. Fate(t)' = s
    BY <1>1, <1>2 DEF Fate, Audited
  <1>4. Executed(t)' <=> Record(v, s).executed
    BY <1>1 DEF Executed
  <1> QED BY <1>2, <1>3, <1>4

LEMMA RecordUnread ==
  ASSUME TypeOK, NEW t \in Trials, OneRecord(t), next[t] \notin {"end", "purged"}
  PROVE  /\ audit[t] = << >> /\ ~Executed(t)
         /\ Fate(t) = IF next[t] = "absent" THEN "none" ELSE "open"
  <1>1. audit[t] \in Seq(AuditRecords) /\ Len(audit[t]) = 0
    BY DEF TypeOK, OneRecord
  <1>2. audit[t] = << >>
    BY <1>1
  <1> QED BY <1>2 DEF Executed, Fate, Audited

\* A call about t moves t's record as the lifecycle allows, and nothing else.
LEMMA TrialStepImplements ==
  ASSUME TypeOK, NEW t \in Trials, OneRecord(t), TrialStep(t)
  PROVE  [Lifecycle!Next]_<<Fates, Runs>>
  <1>1. \A u \in Trials : u # t => Fate(u)' = Fate(u) /\ Executed(u)' = Executed(u)
    BY Frame, OthersOnRecord
  <1>2. ASSUME NEW f, Fate(t)' = f PROVE Fates' = [Fates EXCEPT ![t] = f]
    BY <1>1, <1>2 DEF Fates
  <1>3. ASSUME Executed(t)' <=> Executed(t) PROVE Runs' = Runs
    BY <1>1, <1>3 DEF Runs
  <1>4. ASSUME Executed(t)' PROVE Runs' = Runs \cup {t}
    BY <1>1, <1>4 DEF Runs
  <1>5. Fates[t] = Fate(t)
    BY DEF Fates
  <1>6. CASE Quiet(t)
    <2>1. Fate(t)' = Fate(t) /\ (Executed(t)' <=> Executed(t))
      BY <1>6 DEF Quiet, Fate, Audited, Executed
    <2>2. Fates' = Fates
      BY <1>1, <2>1 DEF Fates
    <2> QED BY <1>3, <2>1, <2>2
  <1>7. CASE Opens(t)
    <2>1. Fate(t) = "none" /\ audit[t] = << >> /\ ~Executed(t)
      BY <1>7, RecordUnread DEF Opens
    <2>2. Fate(t)' = "open" /\ ~Executed(t)'
      BY <1>7, <2>1 DEF Opens, Fate, Audited, Executed
    <2>3. Lifecycle!Open(t)
      BY <1>2, <1>3, <1>5, <2>1, <2>2 DEF Lifecycle!Open, Fates, Runs
    <2> QED BY <2>3 DEF Lifecycle!Next
  <1>8. CASE Analyzes(t)
    <2>1. Fate(t) = "none" /\ ~Executed(t)
      BY <1>8, RecordUnread DEF Analyzes
    <2>2. NoVerdict.type \notin Approving
      BY DEF NoVerdict, Verdict, Approving
    <2>3. Fate(t)' = "analyzed" /\ ~Executed(t)'
      BY <1>8, <2>2, RecordReads DEF Analyzes
    <2>4. Lifecycle!Analyze(t)
      BY <1>2, <1>3, <1>5, <2>1, <2>3 DEF Lifecycle!Analyze, Fates, Runs
    <2> QED BY <2>4 DEF Lifecycle!Next
  <1>9. CASE Concludes(t)
    <2>1. Fate(t) = "open" /\ ~Executed(t)
      BY <1>9, RecordUnread DEF Concludes, AtGate
    <2>2. PICK type \in VerdictTypes, p \in Principals, k \in Keys \cup {NoKey} :
            \E s \in TerminalStatuses(type) : audit'[t] = <<Record(Verdict(type, p, k), s)>>
      BY <1>9 DEF Concludes
    <2>3. PICK s \in TerminalStatuses(type) : audit'[t] = <<Record(Verdict(type, p, k), s)>>
      BY <2>2
    <2>4. Fate(t)' = s /\ (Executed(t)' <=> type \in Approving)
      BY <2>3, RecordReads DEF Verdict
    <2>5. Fates' = [Fates EXCEPT ![t] = s] /\ Fates[t] = "open"
      BY <1>2, <1>5, <2>1, <2>4
    <2>6. CASE type \in Approving
      <3>1. s \in {"done", "failed"}
        BY <2>3, <2>6 DEF TerminalStatuses, RunStatuses, Approving
      <3>2. Lifecycle!Conclude(t, s)
        BY <1>4, <2>4, <2>5, <2>6, <3>1 DEF Lifecycle!Conclude, Lifecycle!Running, Fates, Runs
      <3> QED BY <3>1, <3>2 DEF Lifecycle!Next, Lifecycle!Outcomes
    <2>7. CASE type \notin Approving
      <3>1. s \in {"done", "rejected", "withdrawn"}
        BY <2>3, <2>7 DEF TerminalStatuses, RunStatuses, Approving
      <3>2. Runs' = Runs
        BY <1>3, <2>1, <2>4, <2>7
      <3>3. Lifecycle!Conclude(t, s)
        BY <2>5, <3>1, <3>2 DEF Lifecycle!Conclude, Fates, Runs
      <3> QED BY <3>1, <3>3 DEF Lifecycle!Next, Lifecycle!Outcomes
    <2> QED BY <2>6, <2>7
  <1> QED BY <1>6, <1>7, <1>8, <1>9, CallsOnRecord

LEMMA InitImplements == Init => Lifecycle!Init
  BY DEF Init, Lifecycle!Init, Fate, Audited, Executed

LEMMA NextImplements ==
  TypeOK /\ InductiveInv /\ [Next]_vars => [Lifecycle!Next]_<<Fates, Runs>>
  <1> SUFFICES ASSUME TypeOK, InductiveInv, [Next]_vars
               PROVE  [Lifecycle!Next]_<<Fates, Runs>>
    OBVIOUS
  <1>1. ASSUME NEW t \in Trials, TrialStep(t) PROVE [Lifecycle!Next]_<<Fates, Runs>>
    BY <1>1, TrialStepImplements DEF InductiveInv, Sound
  <1>2. ASSUME UNCHANGED vars PROVE UNCHANGED <<Fates, Runs>>
    BY <1>2 DEF vars, checkpoint, ledgers, Fates, Runs, Fate, Audited, Executed
  <1> QED BY <1>1, <1>2 DEF Next

\* One conclusion per trial, and steps run in that conclusion or never.
THEOREM CourtImplementsTrialRecord == Spec => LifecycleSpec
  <1>1. Spec => [](TypeOK /\ InductiveInv)
    BY TypeCorrect, Soundness, PTL
  <1>2. TypeOK /\ InductiveInv /\ [Next]_vars
          => [Lifecycle!Next]_<<[t \in Trials |-> Fate(t)], {t \in Trials : Executed(t)}>>
    BY NextImplements DEF Fates, Runs
  <1> QED BY <1>1, <1>2, InitImplements, PTL DEF Spec, LifecycleSpec, Lifecycle!Spec
=============================================================================

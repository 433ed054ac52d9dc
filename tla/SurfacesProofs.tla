--------------------------- MODULE SurfacesProofs ---------------------------
(***************************************************************************)
(* What the queue, the notifications, the claims and an analysis-only      *)
(* trial are worth, what separation of duties means for the people behind  *)
(* the callers, and that no trial is stuck at the gate between its cards:  *)
(* for every set of trials, senders, tokens, roles, keys and quorums.      *)
(***************************************************************************)
EXTENDS Surfaces, CourtProofs

-----------------------------------------------------------------------------
(***************************************************************************)
(* The record of a trial.  Sound of Court carries the approvals; Steady    *)
(* below carries the rest of a trial's state and is inductive with it.     *)
(***************************************************************************)

\* Nothing is attached to a trial that was not submitted.
Untouched(t) ==
  next[t] = "absent" =>
    /\ mode[t] = "none" /\ claimed[t] = {} /\ told[t] = {} /\ t \notin pending
    /\ \A k \in Keys : recorded[t][k] = 0

\* At the gate the status, the queue row and the requester's SEND agree, and
\* past it a row stands for the status it names.
Queued(t) ==
  /\ AtGate(t) => (status[t] = "awaiting_approval" <=> Decided(events[t], SEND))
  /\ AtGate(t) /\ status[t] = "awaiting_approval" => t \in pending
  /\ t \in pending /\ next[t] # "purged" => status[t] = "awaiting_approval"

Said(t) == Decided(events[t], ACK) \/ told[t] # {} => Audited(t)

\* An analysis-only trial is past the gate from the start.
Inert(t) ==
  mode[t] = "analyze" =>
    /\ next[t] \in {"end", "purged"} /\ status[t] \in {"analyzed", "none"}
    /\ events[t] = {} /\ claimed[t] = {} /\ told[t] = {} /\ t \notin pending
    /\ \A i \in DOMAIN audit[t] :
         audit[t][i].status = "analyzed" /\ ~audit[t][i].executed

ClaimsNamed(t) ==
  next[t] # "purged" =>
    /\ \A k \in Keys : recorded[t][k] = IF k \in claimed[t] THEN Len(audit[t]) ELSE 0
    /\ claimed[t] # {} => Audited(t)
    /\ \A i \in DOMAIN audit[t] :
         audit[t][i].verdict.key \in Keys => audit[t][i].verdict.key \in claimed[t]

Steady(t) == Untouched(t) /\ Queued(t) /\ Said(t) /\ Inert(t) /\ ClaimsNamed(t)

\* What Steady(u) reads of the state.
Read(u) ==
  <<Seen(u), mode[u], claimed[u], recorded[u], told[u], u \in pending>>

LEMMA SteadyKept ==
  ASSUME NEW u \in Trials, Steady(u), Read(u)' = Read(u)
  PROVE  Steady(u)'
  BY DEF Read, Seen, Steady, Untouched, Queued, Said, Inert, ClaimsNamed, AtGate, Audited

LEMMA OthersUnread ==
  ASSUME TypeOK, NEW t \in Trials, NEW u \in Trials, u # t, TrialStep(t)
  PROVE  Read(u)' = Read(u)
  <1>1. Seen(u)' = Seen(u)
    BY Frame
  <1>2. mode'[u] = mode[u] /\ claimed'[u] = claimed[u] /\ recorded'[u] = recorded[u]
    BY DEF TrialStep, SubmitChange, SubmitAnalysis, CastVerdict, SendForApproval,
           WithdrawChange, Decide, Acknowledge, PurgeTrial, PurgeCheckpoint, PurgeClaims,
           PurgeRow, checkpoint, ledgers, TypeOK
  <1>3. told'[u] = told[u]
    BY DEF TrialStep, SubmitChange, SubmitAnalysis, CastVerdict, SendForApproval,
           WithdrawChange, Decide, Acknowledge, PurgeTrial, PurgeCheckpoint, PurgeClaims,
           PurgeRow, Tell, TypeOK
  <1>4. \/ pending' = pending \/ pending' = pending \cup {t}
        \/ pending' = pending \ {t}
    <2>1. ASSUME NEW p \in Principals, NEW approve \in BOOLEAN, Decide(t, p, approve)
          PROVE  pending' = pending \/ pending' = pending \ {t}
      BY <2>1 DEF Decide
    <2>2. ASSUME NEW p \in Principals, SendForApproval(t, p)
          PROVE  pending' = pending \/ pending' = pending \cup {t}
      BY <2>2 DEF SendForApproval
    <2> QED BY <2>1, <2>2 DEF TrialStep, SubmitChange, SubmitAnalysis, CastVerdict,
               WithdrawChange, Acknowledge, PurgeTrial, PurgeCheckpoint, PurgeClaims,
               PurgeRow
  <1>5. (u \in pending)' = (u \in pending)
    BY <1>4
  <1> QED BY <1>1, <1>2, <1>3, <1>5 DEF Read

-----------------------------------------------------------------------------
(***************************************************************************)
(* Resuming: the trial is past the gate afterwards and has its one record. *)
(***************************************************************************)

LEMMA ResumeConcludes ==
  ASSUME TypeOK, NEW t \in Trials, Sound(t), Actionable(t),
         NEW type \in VerdictTypes, NEW p \in Principals, NEW k \in Keys \cup {NoKey},
         NEW s, Resume(t, Verdict(type, p, k), s)
  PROVE  /\ next'[t] = "end" /\ Len(audit'[t]) = 1 /\ Audited(t)'
         /\ \/ AtGate(t) /\ audit'[t] = <<Record(Verdict(type, p, k), s)>>
            \/ next[t] = "end" /\ audit'[t] = audit[t] /\ s = status[t]
  <1>1. CASE AtGate(t)
    <2>1. next'[t] = "end" /\ audit'[t] = <<Record(Verdict(type, p, k), s)>>
      BY <1>1, RecordAppended DEF Sound
    <2> QED BY <1>1, <2>1 DEF Audited
  <1>2. CASE ~AtGate(t)
    <2>1. UNCHANGED <<next, audit>> /\ s = status[t]
      BY <1>2, ResumePast
    <2>2. next[t] = "end"
      BY <1>2 DEF Actionable, AtGate
    <2>3. Len(audit[t]) = 1
      BY <2>2 DEF Sound, OneRecord
    <2> QED BY <2>1, <2>2, <2>3 DEF Audited
  <1> QED BY <1>1, <1>2

\* Claims stay named when the one record of a verdict without a key is written.
LEMMA NamedWithoutKey ==
  ASSUME TypeOK, NEW t \in Trials, Sound(t), Steady(t), Actionable(t), UNCHANGED ledgers,
         NEW type \in VerdictTypes, NEW p \in Principals,
         NEW s, Resume(t, Verdict(type, p, NoKey), s)
  PROVE  ClaimsNamed(t)'
  <1>1. /\ next'[t] = "end" /\ Audited(t)'
        /\ \/ AtGate(t) /\ audit'[t] = <<Record(Verdict(type, p, NoKey), s)>>
           \/ next[t] = "end" /\ audit'[t] = audit[t]
    BY ResumeConcludes
  <1>2. CASE next[t] = "end" /\ audit'[t] = audit[t]
    BY <1>1, <1>2 DEF Steady, ClaimsNamed, ledgers, Audited
  <1>3. CASE AtGate(t) /\ audit'[t] = <<Record(Verdict(type, p, NoKey), s)>>
    <2>1. Len(audit[t]) = 0 /\ ~Audited(t)
      BY <1>3 DEF Sound, OneRecord, AtGate, Audited, TypeOK
    <2>2. claimed[t] = {} /\ \A k \in Keys : recorded[t][k] = 0
      BY <1>3, <2>1 DEF Steady, ClaimsNamed, AtGate
    <2>3. DOMAIN audit'[t] = {1} /\ audit'[t][1].verdict.key = NoKey
      BY <1>3 DEF Record, Verdict
    <2> QED BY <1>1, <2>2, <2>3, NoKeyAssumption DEF ClaimsNamed, ledgers
  <1> QED BY <1>1, <1>2, <1>3

-----------------------------------------------------------------------------
(***************************************************************************)
(* One lemma per call.                                                     *)
(***************************************************************************)

LEMMA SubmitSteady ==
  ASSUME TypeOK, NEW t \in Trials, Sound(t), Steady(t), NEW p \in Principals,
         NEW q \in PolicyQuorums
  PROVE  /\ \A m \in Modes : SubmitChange(t, p, m, q) => Steady(t)'
         /\ SubmitAnalysis(t, p, q) => Steady(t)'
  <1>1. ASSUME next[t] = "absent"
        PROVE  /\ audit[t] = << >> /\ events[t] = {} /\ claimed[t] = {} /\ told[t] = {}
               /\ t \notin pending /\ \A k \in Keys : recorded[t][k] = 0
    BY <1>1 DEF Sound, OneRecord, Unconcluded, Steady, Untouched, TypeOK
  <1>2. ASSUME NEW m \in Modes, SubmitChange(t, p, m, q) PROVE Steady(t)'
    <2>1. /\ next'[t] = "execute" /\ status'[t] = "awaiting_requester_review"
          /\ mode'[t] # "analyze"
          /\ events'[t] = {} /\ audit'[t] = << >> /\ claimed'[t] = {} /\ told'[t] = {}
          /\ t \notin pending' /\ \A k \in Keys : recorded'[t][k] = 0
      BY <1>1, <1>2 DEF SubmitChange, ledgers, TypeOK
    <2> QED BY <2>1 DEF Steady, Untouched, Queued, Said, Inert, ClaimsNamed, AtGate, Decided
  <1>3. ASSUME SubmitAnalysis(t, p, q) PROVE Steady(t)'
    <2>1. /\ next'[t] = "end" /\ status'[t] = "analyzed"
          /\ events'[t] = {} /\ claimed'[t] = {} /\ told'[t] = {} /\ t \notin pending'
          /\ audit'[t] = <<Record(NoVerdict, "analyzed")>>
          /\ \A k \in Keys : recorded'[t][k] = 0
      BY <1>1, <1>3 DEF SubmitAnalysis, ledgers, TypeOK
    <2>2. /\ DOMAIN audit'[t] = {1} /\ audit'[t][1].status = "analyzed"
          /\ ~audit'[t][1].executed /\ audit'[t][1].verdict.key \notin Keys
      <3>1. DOMAIN audit'[t] = {1} /\ audit'[t][1] = Record(NoVerdict, "analyzed")
        BY <2>1
      <3>2. NoVerdict.key \notin Keys /\ NoVerdict.type \notin Approving
        BY NoKeyAssumption DEF NoVerdict, Verdict, Approving
      <3>3. /\ Record(NoVerdict, "analyzed").status = "analyzed"
            /\ Record(NoVerdict, "analyzed").verdict = NoVerdict
        BY DEF Record
      <3>4. ~Record(NoVerdict, "analyzed").executed
        BY <3>2 DEF Record
      <3> QED BY <3>1, <3>2, <3>3, <3>4
    <2>3. Untouched(t)' /\ Queued(t)'
      BY <2>1 DEF Untouched, Queued, AtGate
    <2>4. Said(t)'
      BY <2>1 DEF Said, Decided
    <2>5. Inert(t)' /\ ClaimsNamed(t)'
      BY <2>1, <2>2 DEF Inert, ClaimsNamed
    <2> QED BY <2>3, <2>4, <2>5 DEF Steady
  <1> QED BY <1>2, <1>3

LEMMA CastSteady ==
  ASSUME TypeOK, NEW t \in Trials, Sound(t), Steady(t), NEW p \in Principals,
         NEW type \in VerdictTypes, NEW k \in Keys, CastVerdict(t, p, type, k)
  PROVE  Steady(t)'
  <1>1. PICK s \in Statuses : Resume(t, Verdict(type, p, k), s)
    BY DEF CastVerdict
  <1>2. /\ next'[t] = "end" /\ Len(audit'[t]) = 1 /\ Audited(t)'
        /\ \/ AtGate(t) /\ audit'[t] = <<Record(Verdict(type, p, k), s)>>
           \/ next[t] = "end" /\ audit'[t] = audit[t]
    BY <1>1, ResumeConcludes DEF CastVerdict
  <1>3. /\ claimed'[t] = claimed[t] \cup {k} /\ t \notin pending' /\ mode'[t] # "analyze"
        /\ recorded'[t] = [recorded[t] EXCEPT ![k] = Len(audit'[t])]
    BY DEF CastVerdict, Actionable, TypeOK
  <1>4. Untouched(t)' /\ Queued(t)' /\ Said(t)' /\ Inert(t)'
    BY <1>2, <1>3 DEF Untouched, Queued, Said, Inert, AtGate
  <1>5. recorded[t] \in [Keys -> Nat]
    BY DEF TypeOK
  <1>6. ClaimsNamed(t)'
    <2>1. CASE AtGate(t) /\ audit'[t] = <<Record(Verdict(type, p, k), s)>>
      <3>1. claimed[t] = {} /\ \A j \in Keys : recorded[t][j] = 0
        BY <2>1 DEF Steady, ClaimsNamed, Sound, OneRecord, AtGate, Audited, TypeOK
      <3>2. DOMAIN audit'[t] = {1} /\ audit'[t][1].verdict.key = k
        BY <2>1 DEF Record, Verdict
      <3> QED BY <1>2, <1>3, <1>5, <3>1, <3>2 DEF ClaimsNamed
    <2>2. CASE next[t] = "end" /\ audit'[t] = audit[t]
      BY <1>2, <1>3, <1>5, <2>2 DEF Steady, ClaimsNamed
    <2> QED BY <1>2, <2>1, <2>2
  <1> QED BY <1>4, <1>6 DEF Steady

\* Sending leaves what evaluate_quorum makes of the log as it was.
LEMMA SendNotCounted ==
  ASSUME NEW es, NEW p \in Principals, NEW q
  PROVE  EvaluateQuorum(es \cup {Event(p, SEND, NoRole)}, q) = EvaluateQuorum(es, q)
  <1> DEFINE sent == Event(p, SEND, NoRole)
  <1>1. sent.decision = SEND
    BY DEF Event
  <1> HIDE DEF sent
  <1>2. \A d \in {WITHDRAW, REJECT} : Decided(es \cup {sent}, d) <=> Decided(es, d)
    BY <1>1, DecisionsDistinct DEF Decided
  <1>3. ApprovedRoles(es \cup {sent}) = ApprovedRoles(es)
    BY <1>1, DecisionsDistinct DEF ApprovedRoles
  <1>4. EvaluateQuorum(es \cup {sent}, q) = EvaluateQuorum(es, q)
    BY <1>2, <1>3, Zenon DEF EvaluateQuorum
  <1> QED BY <1>4 DEF sent

LEMMA SendSteady ==
  ASSUME TypeOK, NEW t \in Trials, Sound(t), Steady(t), NEW p \in Principals,
         SendForApproval(t, p)
  PROVE  Steady(t)'
  <1> DEFINE sent == Event(p, SEND, NoRole)
  <1>1. /\ Actionable(t) /\ UNCHANGED <<mode, quorum, claimed, recorded, told>>
        /\ mode'[t] # "analyze"
    BY DEF SendForApproval, Actionable, ledgers
  <1>2. events'[t] = events[t] \cup {sent}
    BY DEF SendForApproval, Log, TypeOK
  <1>3. sent.decision = SEND
    BY DEF Event
  <1>4. Decided(events'[t], SEND) /\ (Decided(events'[t], ACK) <=> Decided(events[t], ACK))
    <2> HIDE DEF sent
    <2> QED BY <1>2, <1>3, DecisionsDistinct DEF Decided
  <1>5. "approve" \in VerdictTypes
    BY DEF VerdictTypes
  <1>6. CASE EvaluateQuorum(events'[t], quorum[t]) = "satisfied"
    <2>1. PICK s \in Statuses : Resume(t, Verdict("approve", p, NoKey), s) /\ SetStatus(t, s)
      BY <1>6 DEF SendForApproval
    <2>2. UNCHANGED pending
      BY <1>6 DEF SendForApproval
    <2>3. /\ next'[t] = "end" /\ Audited(t)'
          /\ \/ AtGate(t)
             \/ next[t] = "end" /\ audit'[t] = audit[t] /\ s = status[t]
      BY <1>1, <1>5, <2>1, ResumeConcludes
    <2>4. ASSUME AtGate(t) PROVE t \notin pending
      <3>1. EvaluateQuorum(events[t], quorum[t]) = "satisfied"
        BY <1>2, <1>6, SendNotCounted
      <3>2. events[t] = {}
        BY <2>4, <3>1 DEF Sound, OpenAtGate
      <3> QED BY <2>4, <3>2 DEF Steady, Queued, AtGate, Decided
    <2>5. status'[t] = s
      BY <2>1 DEF SetStatus, TypeOK
    <2>6. Untouched(t)' /\ Said(t)' /\ Inert(t)'
      BY <1>1, <2>3 DEF Untouched, Said, Inert
    <2>7. Queued(t)'
      BY <2>2, <2>3, <2>4, <2>5 DEF Steady, Queued, AtGate
    <2>8. ClaimsNamed(t)'
      BY <1>1, <1>5, <2>1, NamedWithoutKey DEF ledgers
    <2> QED BY <2>6, <2>7, <2>8 DEF Steady
  <1>7. CASE EvaluateQuorum(events'[t], quorum[t]) # "satisfied"
    <2>1. UNCHANGED <<next, audit>> /\ status'[t] = "awaiting_approval" /\ t \in pending'
      BY <1>7 DEF SendForApproval, SetStatus, TypeOK
    <2>2. Untouched(t)' /\ Inert(t)' /\ Queued(t)'
      BY <1>1, <1>4, <2>1 DEF Untouched, Inert, Queued, AtGate, Actionable
    <2>3. Said(t)' /\ ClaimsNamed(t)'
      BY <1>1, <1>4, <2>1 DEF Steady, Said, ClaimsNamed, Audited
    <2> QED BY <2>2, <2>3 DEF Steady
  <1> QED BY <1>6, <1>7

LEMMA WithdrawSteady ==
  ASSUME TypeOK, NEW t \in Trials, Sound(t), Steady(t), NEW p \in Principals,
         WithdrawChange(t, p)
  PROVE  Steady(t)'
  <1>1. /\ Actionable(t) /\ UNCHANGED <<mode, ledgers, told>> /\ mode'[t] # "analyze"
        /\ t \notin pending' /\ "withdraw" \in VerdictTypes
    BY DEF WithdrawChange, Actionable, VerdictTypes
  <1>2. PICK s \in Statuses : Resume(t, Verdict("withdraw", p, NoKey), s)
    BY DEF WithdrawChange
  <1>3. next'[t] = "end" /\ Audited(t)'
    BY <1>1, <1>2, ResumeConcludes
  <1>4. ClaimsNamed(t)'
    BY <1>1, <1>2, NamedWithoutKey
  <1> QED BY <1>1, <1>3, <1>4 DEF Steady, Untouched, Queued, Said, Inert, AtGate

LEMMA DecideSteady ==
  ASSUME TypeOK, NEW t \in Trials, Sound(t), Steady(t), NEW p \in Principals,
         NEW approve \in BOOLEAN, Decide(t, p, approve)
  PROVE  Steady(t)'
  <1> DEFINE new == IF approve THEN NewApprovals(t, p) ELSE NewRejections(t, p)
             outcome == EvaluateQuorum(events[t] \cup new, quorum[t])
  <1>1. /\ Actionable(t) /\ UNCHANGED <<mode, ledgers>> /\ mode'[t] # "analyze"
        /\ "approve" \in VerdictTypes /\ "reject" \in VerdictTypes
    BY DEF Decide, Actionable, VerdictTypes
  <1>2. ASSUME NEW type \in VerdictTypes, NEW s, Resume(t, Verdict(type, p, NoKey), s),
               t \notin pending'
        PROVE  Steady(t)'
    <2>1. next'[t] = "end" /\ Audited(t)'
      BY <1>1, <1>2, ResumeConcludes
    <2>2. ClaimsNamed(t)'
      BY <1>1, <1>2, NamedWithoutKey
    <2> QED BY <1>1, <1>2, <2>1, <2>2 DEF Steady, Untouched, Queued, Said, Inert, AtGate
  <1>3. CASE outcome = "satisfied"
    <2>1. PICK s \in Statuses : Resume(t, Verdict("approve", p, NoKey), s)
      BY <1>3 DEF Decide
    <2>2. t \notin pending'
      BY <1>3 DEF Decide
    <2> QED BY <1>1, <1>2, <2>1, <2>2
  <1>4. CASE outcome = "rejected"
    <2>1. PICK s \in Statuses : Resume(t, Verdict("reject", p, NoKey), s)
      BY <1>4 DEF Decide
    <2>2. t \notin pending'
      BY <1>4 DEF Decide
    <2> QED BY <1>1, <1>2, <2>1, <2>2
  <1>5. CASE outcome \in {"pending", "withdrawn"}
    <2>1. UNCHANGED <<next, status, pending, audit, told>>
      BY <1>5 DEF Decide
    <2>2. events'[t] = events[t] \cup new
      BY DEF Decide, Log, TypeOK
    <2>3. \A e \in new : e.decision \in {APPROVE, REJECT}
      BY NewVotes DEF Decide
    <2> HIDE DEF new
    <2>4. \A d \in {SEND, ACK} : Decided(events'[t], d) <=> Decided(events[t], d)
      BY <2>2, <2>3, DecisionsDistinct DEF Decided
    <2>5. Untouched(t)' /\ Inert(t)' /\ Queued(t)'
      BY <1>1, <2>1, <2>4 DEF Steady, Untouched, Inert, Queued, AtGate, Actionable
    <2>6. Said(t)' /\ ClaimsNamed(t)'
      BY <1>1, <2>1, <2>4 DEF Steady, Said, ClaimsNamed, Audited, ledgers
    <2> QED BY <2>5, <2>6 DEF Steady
  <1> QED BY <1>3, <1>4, <1>5 DEF Decide

LEMMA AcknowledgeSteady ==
  ASSUME TypeOK, NEW t \in Trials, Sound(t), Steady(t), NEW p \in Principals,
         Acknowledge(t, p)
  PROVE  Steady(t)'
  <1>1. UNCHANGED <<next, status, mode, pending, claimed, recorded, audit, told>>
    BY DEF Acknowledge, checkpoint, ledgers
  <1>2. /\ next[t] = "end" /\ mode[t] # "analyze"
        /\ next'[t] = "end" /\ mode'[t] # "analyze"
    BY <1>1 DEF Acknowledge, Sound, Unconcluded, AtGate, Steady, Inert
  <1>3. Audited(t)'
    BY <1>1, <1>2 DEF Sound, OneRecord, Audited
  <1>4. ClaimsNamed(t)'
    BY <1>1 DEF Steady, ClaimsNamed, Audited
  <1>5. Queued(t)'
    BY <1>1, <1>2 DEF Steady, Queued, AtGate
  <1> QED BY <1>2, <1>3, <1>4, <1>5 DEF Steady, Untouched, Said, Inert

LEMMA PurgeSteady ==
  ASSUME TypeOK, NEW t \in Trials, Sound(t), Steady(t), PurgeTrial(t)
  PROVE  Steady(t)'
  <1>1. CASE PurgeCheckpoint(t)
    <2>1. /\ next'[t] = "purged" /\ status'[t] = "none"
          /\ UNCHANGED <<mode, events, pending, claimed, recorded, audit, told>>
          /\ next[t] # "absent"
      BY <1>1 DEF PurgeCheckpoint, ledgers, TypeOK
    <2>2. Inert(t)'
      BY <2>1 DEF Steady, Inert
    <2> QED BY <2>1, <2>2 DEF Steady, Untouched, Queued, Said, ClaimsNamed, AtGate, Audited
  <1>2. CASE PurgeClaims(t)
    <2>1. /\ next'[t] = "purged" /\ claimed'[t] = {}
          /\ UNCHANGED <<next, status, mode, events, pending, audit, told>>
      BY <1>2 DEF PurgeClaims, checkpoint, TypeOK
    <2>2. Inert(t)'
      BY <2>1 DEF Steady, Inert
    <2> QED BY <2>1, <2>2 DEF Steady, Untouched, Queued, Said, ClaimsNamed, AtGate, Audited
  <1>3. CASE PurgeRow(t)
    <2>1. /\ next'[t] = "purged" /\ t \notin pending'
          /\ UNCHANGED <<next, status, mode, events, claimed, recorded, audit, told>>
      BY <1>3 DEF PurgeRow, checkpoint, ledgers, TypeOK
    <2>2. Inert(t)'
      BY <2>1 DEF Steady, Inert
    <2> QED BY <2>1, <2>2 DEF Steady, Untouched, Queued, Said, ClaimsNamed, AtGate, Audited
  <1> QED BY <1>1, <1>2, <1>3 DEF PurgeTrial

-----------------------------------------------------------------------------
SteadyInv == \A t \in Trials : Steady(t)

LEMMA InitSteady == Init => SteadyInv
  <1> SUFFICES ASSUME Init, NEW t \in Trials PROVE Steady(t)
    BY DEF SteadyInv
  <1> QED BY DEF Init, Steady, Untouched, Queued, Said, Inert, ClaimsNamed, AtGate, Decided

LEMMA NextSteady == TypeOK /\ InductiveInv /\ SteadyInv /\ [Next]_vars => SteadyInv'
  <1> SUFFICES ASSUME TypeOK, InductiveInv, SteadyInv, [Next]_vars, NEW u \in Trials
               PROVE  Steady(u)'
    BY DEF SteadyInv
  <1>1. Steady(u)
    BY DEF SteadyInv
  <1>2. ASSUME NEW t \in Trials, TrialStep(t) PROVE Steady(u)'
    <2>1. Sound(t) /\ Steady(t)
      BY DEF InductiveInv, SteadyInv
    <2>2. CASE u = t
      BY <1>2, <2>1, <2>2, SubmitSteady, CastSteady, SendSteady, WithdrawSteady,
         DecideSteady, AcknowledgeSteady, PurgeSteady DEF TrialStep
    <2>3. CASE u # t
      BY <1>1, <1>2, <2>3, OthersUnread, SteadyKept
    <2> QED BY <2>2, <2>3
  <1>3. CASE UNCHANGED vars
    <2>1. Read(u)' = Read(u)
      BY <1>3 DEF vars, Read, Seen, checkpoint, ledgers
    <2> QED BY <1>1, <2>1, SteadyKept
  <1> QED BY <1>2, <1>3 DEF Next

\* The second inductive invariant of the court.
THEOREM Steadiness == Spec => []SteadyInv
  BY TypeCorrect, Soundness, InitSteady, NextSteady, PTL DEF Spec

\* Whoever may decide a trial that waits at the gate finds it in their list,
\* and no queue row of a trial that can be opened outlives its status.
THEOREM QueueIsTrue == Spec => []QueueShowsWaiting
  <1>1. SteadyInv => QueueShowsWaiting
    <2> SUFFICES ASSUME SteadyInv, NEW t \in Trials
                 PROVE  /\ AtGate(t) /\ Decided(events[t], SEND) =>
                             \A p \in Principals :
                               Authorized(p, by[t], quorum[t]) => Listed(t, p)
                        /\ t \in pending /\ next[t] # "purged" =>
                             status[t] = "awaiting_approval"
      BY DEF QueueShowsWaiting
    <2>1. Queued(t)
      BY DEF SteadyInv, Steady
    <2> QED BY <2>1 DEF Queued, Listed, Authorized
  <1> QED BY <1>1, Steadiness, PTL

\* Nobody acknowledges, or is told, an outcome before it is on record.
THEOREM OutcomesOnRecord == Spec => []NothingSaidTooEarly
  <1>1. SteadyInv => NothingSaidTooEarly
    BY DEF SteadyInv, Steady, Said, NothingSaidTooEarly
  <1> QED BY <1>1, Steadiness, PTL

\* Nothing is ever attached to an analysis-only trial.
THEOREM AnalysisStaysInert == Spec => []AnalysisInert
  <1>1. SteadyInv => AnalysisInert
    BY DEF SteadyInv, Steady, Inert, AnalysisInert
  <1> QED BY <1>1, Steadiness, PTL

\* A claim names the audit record, and goes after the checkpoint it protects.
THEOREM ClaimsAreTrue == Spec => []ClaimsNameTheAudit
  <1>1. SteadyInv => ClaimsNameTheAudit
    BY DEF SteadyInv, Steady, ClaimsNamed, ClaimsNameTheAudit
  <1> QED BY <1>1, Steadiness, PTL

-----------------------------------------------------------------------------
(***************************************************************************)
(* The surfaces.                                                           *)
(***************************************************************************)

\* Whatever comes in by the surfaces is a behaviour of the court.
THEOREM SurfacesStayInCourt == SurfaceSpec => Spec
  <1>1. [SurfaceNext]_vars => [Next]_vars
    <2>1. ASSUME NEW t \in Trials, NEW p \in Principals, BotTurn(t, p) PROVE TrialStep(t)
      BY <2>1 DEF BotTurn, Press, TrialStep
    <2>2. ASSUME NEW t \in Trials, NEW p \in Principals, ToolCall(t, p) PROVE TrialStep(t)
      BY <2>2 DEF ToolCall, TrialStep
    <2>3. ASSUME NEW t \in Trials, PurgeTrial(t) PROVE TrialStep(t)
      BY <2>3 DEF TrialStep
    <2> QED BY <2>1, <2>2, <2>3 DEF SurfaceNext, Next
  <1> QED BY <1>1, PTL DEF SurfaceSpec, Spec

-----------------------------------------------------------------------------
(***************************************************************************)
(* Every face of an account has the account's object id for its key.       *)
(***************************************************************************)

LEMMA FacesKeyed ==
  ASSUME NEW a \in Accounts, NEW p \in Faces[a]
  PROVE  Key(p) = a /\ a # Blank
  <1>1. \/ \E s \in Senders : s.account = a /\ p = SenderPrincipal(s)
        \/ \E k \in Tokens : Admitted(k) /\ k.account = a /\ p = TokenPrincipal(k.claims)
    BY DEF Faces
  <1>2. ASSUME NEW s \in Senders, s.account = a, p = SenderPrincipal(s)
        PROVE  p.oid = a /\ a # Blank
    BY <1>2, TenantAssumption DEF SenderPrincipal, OrElse
  <1>3. ASSUME NEW k \in Tokens, Admitted(k), k.account = a, p = TokenPrincipal(k.claims)
        PROVE  p.oid = a /\ a # Blank
    <2>1. k.claims.oid = a /\ a # Blank
      BY <1>3, TenantAssumption
    <2>2. p.oid = OrElse(k.claims.oid, k.claims.sub)
      BY <1>3 DEF TokenPrincipal
    <2> QED BY <2>1, <2>2 DEF OrElse
  <1>4. p.oid = a /\ a # Blank
    BY <1>1, <1>2, <1>3
  <1> QED BY <1>4 DEF Key

LEMMA CallersHaveFaces ==
  ASSUME NEW p \in Principals
  PROVE  \E a \in Accounts : p \in Faces[a]
  <1>1. p \in Callers
    BY CallersAssumption
  <1>2. CASE p \in BotCallers
    <2>1. PICK s \in Senders : p = SenderPrincipal(s)
      BY <1>2 DEF BotCallers
    <2> QED BY <1>1, <2>1 DEF Accounts, Faces
  <1>3. CASE p \in ToolCallers
    <2>1. PICK k \in Tokens : Admitted(k) /\ p = TokenPrincipal(k.claims)
      BY <1>3 DEF ToolCallers
    <2> QED BY <1>1, <2>1 DEF Accounts, Faces
  <1> QED BY <1>1, <1>2, <1>3 DEF Callers

\* Two callers are the same to the rules exactly when one person is behind them.
LEMMA SameAsIsSamePerson ==
  ASSUME NEW a \in Accounts, NEW p \in Faces[a], NEW q \in Principals \cup {NoPrincipal}
  PROVE  SameAs(p, q) <=> q \in Faces[a]
  <1>1. Key(p) = a /\ a # Blank
    BY FacesKeyed
  <1>2. ASSUME q \in Faces[a] PROVE SameAs(p, q)
    BY <1>1, <1>2, FacesKeyed DEF SameAs
  <1>3. ASSUME SameAs(p, q) PROVE q \in Faces[a]
    <2>1. Key(q) = a
      BY <1>1, <1>3 DEF SameAs
    <2>2. Key(NoPrincipal) = Blank
      BY DEF Key, NoPrincipal
    <2>3. q \in Principals
      BY <1>1, <2>1, <2>2
    <2>4. PICK b \in Accounts : q \in Faces[b]
      BY <2>3, CallersHaveFaces
    <2>5. Key(q) = b
      BY <2>4, FacesKeyed
    <2> QED BY <2>1, <2>4, <2>5
  <1> QED BY <1>2, <1>3

-----------------------------------------------------------------------------
LEMMA SidesKept ==
  ASSUME TypeOK, InductiveInv, NEW t \in Trials
  PROVE  OnOneSide(t)
  <1>1. by[t] \in Principals \cup {NoPrincipal}
    BY DEF TypeOK
  <1>2. DutiesSeparated(t) /\ RunsAuthorised(t)
    BY DEF InductiveInv, Sound
  <1>3. ASSUME NEW a \in Accounts, NEW e \in events[t], e.actor \in Faces[a]
        PROVE  by[t] \in Faces[a] <=> e.decision \notin {APPROVE, REJECT}
    <2>1. SameAs(e.actor, by[t]) <=> by[t] \in Faces[a]
      BY <1>1, <1>3, SameAsIsSamePerson
    <2> QED BY <1>2, <2>1 DEF DutiesSeparated
  <1>4. ASSUME NEW a \in Accounts, NEW i \in DOMAIN audit[t], audit[t][i].executed,
               quorum[t].required # {}, audit[t][i].verdict.actor \in Faces[a]
        PROVE  by[t] \notin Faces[a]
    <2> DEFINE v == audit[t][i].verdict
    <2>1. SameAs(v.actor, by[t]) <=> by[t] \in Faces[a]
      BY <1>1, <1>4, SameAsIsSamePerson
    <2>2. OnOwnAuthority(t, v) \/ ByVote(t, v) \/ ByCast(t, v)
      BY <1>2, <1>4 DEF RunsAuthorised
    <2> HIDE DEF v
    <2>3. ~SameAs(v.actor, by[t])
      BY <1>4, <2>2 DEF OnOwnAuthority, ByVote, ByCast, Authorized
    <2> QED BY <2>1, <2>3
  <1> QED BY <1>3, <1>4 DEF OnOneSide

\* Nobody votes on the change they asked for, whichever surface they come in
\* by, nor runs one that needs others; and nobody else speaks for the requester.
THEOREM PeopleStaySeparated == Spec => []OnePersonOneSide
  <1>1. TypeOK /\ InductiveInv => OnePersonOneSide
    BY SidesKept DEF OnePersonOneSide
  <1> QED BY <1>1, TypeCorrect, Soundness, PTL

-----------------------------------------------------------------------------
\* A submitted trial was asked for by an authenticated caller.
Asked(t) == next[t] # "absent" => by[t] \in Principals

AskedInv == \A t \in Trials : Asked(t)

LEMMA StepAsked ==
  ASSUME TypeOK, NEW t \in Trials, Asked(t), TrialStep(t)
  PROVE  Asked(t)'
  <1>1. ASSUME NEW p \in Principals, NEW q \in PolicyQuorums, NEW m \in Modes,
               SubmitChange(t, p, m, q)
        PROVE  Asked(t)'
    BY <1>1 DEF SubmitChange, Asked, TypeOK
  <1>2. ASSUME NEW p \in Principals, NEW q \in PolicyQuorums, SubmitAnalysis(t, p, q)
        PROVE  Asked(t)'
    BY <1>2 DEF SubmitAnalysis, Asked, TypeOK
  <1>3. ASSUME UNCHANGED by, next[t] # "absent" PROVE Asked(t)'
    BY <1>3 DEF Asked
  <1>4. ASSUME NEW p \in Principals,
               \/ \E type \in VerdictTypes, k \in Keys : CastVerdict(t, p, type, k)
               \/ SendForApproval(t, p) \/ WithdrawChange(t, p) \/ Acknowledge(t, p)
               \/ \E approve \in BOOLEAN : Decide(t, p, approve)
        PROVE  UNCHANGED by /\ next[t] # "absent"
    BY <1>4 DEF CastVerdict, SendForApproval, WithdrawChange, Acknowledge, Decide,
                Actionable, checkpoint
  <1>5. ASSUME PurgeTrial(t) PROVE UNCHANGED by /\ next[t] # "absent"
    BY <1>5 DEF PurgeTrial, PurgeCheckpoint, PurgeClaims, PurgeRow, checkpoint
  <1> QED BY <1>1, <1>2, <1>3, <1>4, <1>5 DEF TrialStep

LEMMA AlwaysAsked == Spec => []AskedInv
  <1>1. Init => AskedInv
    BY DEF Init, AskedInv, Asked
  <1>2. TypeOK /\ AskedInv /\ [Next]_vars => AskedInv'
    <2> SUFFICES ASSUME TypeOK, AskedInv, [Next]_vars, NEW u \in Trials PROVE Asked(u)'
      BY DEF AskedInv
    <2>1. Asked(u)
      BY DEF AskedInv
    <2>2. ASSUME NEW t \in Trials, TrialStep(t) PROVE Asked(u)'
      <3>1. CASE u = t
        BY <2>1, <2>2, <3>1, StepAsked
      <3>2. CASE u # t
        BY <2>1, <2>2, <3>2, Frame DEF Seen, Asked
      <3> QED BY <3>1, <3>2
    <2>3. CASE UNCHANGED vars
      BY <2>1, <2>3 DEF vars, checkpoint, Asked
    <2> QED BY <2>2, <2>3 DEF Next
  <1> QED BY <1>1, <1>2, TypeCorrect, PTL DEF Spec

-----------------------------------------------------------------------------
\* Whoever holds a role that is missing sees the trial and has an approval to give.
LEMMA AwaitedCanMove ==
  ASSUME TypeOK, NEW t \in Trials, Sound(t), Steady(t), AtGate(t),
         status[t] = "awaiting_approval", NEW p \in Principals, Awaited(t, p)
  PROVE  Listed(t, p) /\ Takes(t, p, APPROVE)
  <1>1. Decided(events[t], SEND) /\ t \in pending /\ Actionable(t)
    BY DEF Steady, Queued, Inert, Actionable, AtGate
  <1>2. PICK r \in VotingRoles(p, quorum[t]) : r \notin ApprovedRoles(events[t])
    BY DEF Awaited
  <1>3. quorum[t].required \subseteq Roles
    BY DEF AtGate, TypeOK, Quorums
  <1>4. ~AlreadyRole(t, p, r)
    BY <1>2, <1>3 DEF AlreadyRole, ApprovedRoles, VotingRoles
  <1>5. Event(p, APPROVE, r) \in NewApprovals(t, p)
    BY <1>2, <1>4 DEF NewApprovals
  <1>6. Authorized(p, by[t], quorum[t])
    BY <1>2 DEF Awaited, Authorized
  <1>7. Listed(t, p)
    BY <1>1, <1>2 DEF Awaited, Listed
  <1>8. Takes(t, p, APPROVE)
    BY <1>1, <1>5, <1>6 DEF Takes
  <1> QED BY <1>7, <1>8

\* At the gate, what nobody needs to approve was not touched by anybody yet.
LEMMA OwnWordIsEnough ==
  ASSUME TypeOK, NEW t \in Trials, Sound(t), AtGate(t), quorum[t].required = {}
  PROVE  EvaluateQuorum(events[t] \cup {Event(by[t], SEND, NoRole)}, quorum[t]) = "satisfied"
  <1> DEFINE sent == Event(by[t], SEND, NoRole)
  <1>1. Reached(quorum[t], ApprovedRoles(events[t]))
    BY DEF Reached
  <1>2. EvaluateQuorum(events[t], quorum[t]) # "pending"
    BY <1>1 DEF EvaluateQuorum
  <1>3. events[t] = {}
    BY <1>2 DEF Sound, OpenAtGate
  <1>4. sent.decision = SEND
    BY DEF Event
  <1> HIDE DEF sent
  <1>5. ~Decided(events[t] \cup {sent}, WITHDRAW) /\ ~Decided(events[t] \cup {sent}, REJECT)
    BY <1>3, <1>4, DecisionsDistinct DEF Decided
  <1>6. Reached(quorum[t], ApprovedRoles(events[t] \cup {sent}))
    BY DEF Reached
  <1>7. EvaluateQuorum(events[t] \cup {sent}, quorum[t]) = "satisfied"
    BY <1>5, <1>6 DEF EvaluateQuorum
  <1> QED BY <1>7 DEF sent

\* No trial at the gate is stuck between the cards it is shown on.
THEOREM CardsLeadOn == Spec => []GateNeverDeadEnds
  <1>1. TypeOK /\ InductiveInv /\ SteadyInv /\ AskedInv => GateNeverDeadEnds
    <2> SUFFICES ASSUME TypeOK, InductiveInv, SteadyInv, AskedInv, NEW t \in Trials, AtGate(t)
                 PROVE  /\ CardOf(t) = "trial"
                        /\ status[t] = "awaiting_requester_review" =>
                             /\ \A b \in TrialCard(t).buttons : Takes(t, by[t], b)
                             /\ TrialCard(t).approvers = {} =>
                                  EvaluateQuorum(events[t] \cup {Event(by[t], SEND, NoRole)},
                                                 quorum[t]) = "satisfied"
                        /\ status[t] = "awaiting_approval" =>
                             /\ TrialCard(t).sent /\ APPROVE \in TrialCard(t).buttons
                             /\ \A p \in Principals :
                                  Awaited(t, p) => t \in Queue(p) /\ Takes(t, p, APPROVE)
      BY DEF GateNeverDeadEnds
    <2>1. Sound(t) /\ Steady(t)
      BY DEF InductiveInv, SteadyInv
    <2>2. status[t] \in {"awaiting_requester_review", "awaiting_approval"}
      BY <2>1 DEF Sound, Unconcluded
    <2>3. CardOf(t) = "trial"
      BY <2>2 DEF CardOf, AtGate
    <2>4. ASSUME status[t] = "awaiting_requester_review", NEW b \in TrialCard(t).buttons
          PROVE  Takes(t, by[t], b)
      <3>1. b \in {SEND, WITHDRAW}
        BY <2>4 DEF TrialCard, Buttons
      <3>2. Actionable(t)
        BY <2>1 DEF Steady, Inert, Actionable, AtGate
      <3>3. IsRequester(t, by[t])
        <4>1. by[t] \in Principals
          BY DEF AskedInv, Asked, AtGate
        <4>2. Key(by[t]) # Blank
          BY <4>1, CallersHaveFaces, FacesKeyed
        <4> QED BY <4>2 DEF IsRequester, SameAs
      <3> QED BY <3>1, <3>2, <3>3 DEF Takes
    <2>5. ASSUME TrialCard(t).approvers = {}
          PROVE  EvaluateQuorum(events[t] \cup {Event(by[t], SEND, NoRole)}, quorum[t])
                   = "satisfied"
      BY <2>1, <2>5, OwnWordIsEnough DEF TrialCard
    <2>6. ASSUME status[t] = "awaiting_approval"
          PROVE  /\ TrialCard(t).sent /\ APPROVE \in TrialCard(t).buttons
                 /\ \A p \in Principals :
                      Awaited(t, p) => t \in Queue(p) /\ Takes(t, p, APPROVE)
      <3>1. APPROVE \in TrialCard(t).buttons
        BY <2>6 DEF TrialCard, Buttons
      <3>2. TrialCard(t).sent
        BY <2>1, <2>6 DEF TrialCard, Steady, Queued
      <3> QED BY <2>1, <2>6, <3>1, <3>2, AwaitedCanMove DEF Queue
    <2> QED BY <2>3, <2>4, <2>5, <2>6
  <1> QED BY <1>1, TypeCorrect, Soundness, Steadiness, AlwaysAsked, PTL
=============================================================================

-------------------------- MODULE ExecutionProofs --------------------------
(***************************************************************************)
(* Theorems about Execution, for every set of capabilities, every plan and *)
(* every bound on attempts and reruns.                                     *)
(***************************************************************************)
EXTENDS Execution, TLAPS

LEMMA PlansAreSequences ==
  ASSUME TypeOK
  PROVE  /\ plan \in Seq(Capabilities) /\ Len(plan) \in Nat /\ DOMAIN plan = 1..Len(plan)
         /\ \A i \in DOMAIN plan : plan[i] \in Capabilities /\ landed[i] \in Nat /\ earlier[i] \in Nat
  BY CapabilityAssumption DEF TypeOK

LEMMA AttemptsBounded ==
  ASSUME NEW c \in Capabilities
  PROVE  Attempts(c) \in 1..MaxAttempts
  BY CapabilityAssumption DEF Attempts

\* A write that cannot be repeated is sent again only after a fault that
\* proves the last one never landed, or not at all.
LEMMA NoLandingBeforeRetry ==
  ASSUME TypeOK, Open({"write"}), Current \notin Repeatable,
         NEW fault \in RequestFaults(Current), Again(fault, RetryClassFor(Current)),
         NEW n \in Landings(Current, fault)
  PROVE  n = 0
  <1>1. RetryClassFor(Current) = "NEVER_LANDED"
    BY NamingAssumption DEF RetryClassFor
  <1>2. fault = "connect"
    BY <1>1 DEF Again, Retryable
  <1> QED BY <1>2 DEF Landings

LEMMA InitInv == Init => InductiveInv
  <1> SUFFICES ASSUME Init PROVE InductiveInv
    OBVIOUS
  <1>1. plan \in Seq(Capabilities) /\ Len(plan) \in Nat /\ DOMAIN plan = 1..Len(plan)
    BY CapabilityAssumption DEF Init
  <1>2. TypeOK
    BY <1>1, CapabilityAssumption DEF Init, TypeOK, Phases, Snapshot
  <1> QED BY <1>1, <1>2 DEF Init, InductiveInv, LoopInStep, StepInBounds, WritesInBounds,
            AnswersTrue, RanToTheEnd, AppliedAtMostOnce, OnlyLiveWrites, LandedCanBeUndone,
            Open, Phases

\* An answered step keeps the invariant, provided that the answer is true of
\* what the step did and that the step did no more than it may.
LEMMA AnswerKeeps ==
  ASSUME InductiveInv, Open({"start", "before", "predict", "lookup", "write"}),
         NEW s \in StepStatuses, NEW hint \in BOOLEAN, NEW es \in Seq(StepEvents),
         Answer(s, hint, es), UNCHANGED run,
         landed' \in [DOMAIN plan -> Nat],
         \A i \in DOMAIN plan : i # at => landed'[i] = landed[i],
         Current \notin Repeatable => landed'[at] <= 1,
         landed'[at] > 0 => mode = "live" /\ Current \notin ReadOnly \cup Unserved,
         landed'[at] > 0 => hint /\ (reruns = 0 => before = "original"),
         s = "ok" => landed'[at] > 0,
         s = "dry_run" => Predicts(Current)
  PROVE  InductiveInv'
  <1> DEFINE r == Result(s, before, hint)
             e == StepEvent("step_finished", at, s)
  <1>1. /\ plan \in Seq(Capabilities) /\ Len(plan) \in Nat /\ DOMAIN plan = 1..Len(plan)
        /\ TypeOK
    BY PlansAreSequences DEF InductiveInv
  <1>2. /\ mode' = mode /\ verdict' = verdict /\ plan' = plan /\ earlier' = earlier
        /\ reruns' = reruns /\ at' = at + 1 /\ phase' = "start" /\ attempt' = 1
        /\ before' = Unread /\ status' = status
        /\ results' = Append(results, r) /\ events' = Append(es, e)
    BY DEF Answer, run
  <1>3. at \in 1..Len(plan) /\ RunsPlan(mode, verdict) /\ status = "none"
        /\ Len(results) = at - 1 /\ results \in Seq(StepResults)
    BY <1>1 DEF Open, InductiveInv, LoopInStep, TypeOK
  <1>4. r \in StepResults /\ e \in StepEvents
    BY <1>1, <1>3 DEF TypeOK, StepResults, StepEvents, Result, StepEvent
  <1>5. results' \in Seq(StepResults) /\ events' \in Seq(StepEvents) /\ Len(results') = at
    BY <1>2, <1>3, <1>4
  <1>6. /\ results'[at] = r
        /\ \A i \in 1..(at - 1) : results'[i] = results[i]
        /\ DOMAIN results' = 1..at /\ DOMAIN results = 1..(at - 1)
    BY <1>2, <1>3
  <1>7. r.status = s /\ r.before = before /\ r.rollback = hint
    BY DEF Result
  <1>8. TypeOK'
    BY <1>1, <1>2, <1>3, <1>5, CapabilityAssumption DEF TypeOK, Phases, Snapshot
  <1>9. LoopInStep'
    BY <1>1, <1>2, <1>3, <1>5 DEF LoopInStep
  <1>10. StepInBounds'
    BY <1>2 DEF StepInBounds, Open
  <1>11. \A i \in DOMAIN plan : i > at => landed'[i] = 0
    BY <1>1, <1>3 DEF InductiveInv, WritesInBounds
  <1>12. WritesInBounds'
    BY <1>1, <1>2, <1>3, <1>11 DEF InductiveInv, WritesInBounds, Open
  <1>13. AnswersTrue'
    <2> SUFFICES ASSUME NEW i \in DOMAIN results'
                 PROVE  /\ results'[i].status = "ok" => landed'[i] > 0
                        /\ results'[i].status = "dry_run" => Predicts(plan[i])
      BY <1>2 DEF AnswersTrue, Predicts
    <2>1. CASE i = at
      BY <2>1, <1>6, <1>7 DEF Current
    <2>2. CASE i # at
      BY <2>2, <1>1, <1>3, <1>6 DEF InductiveInv, AnswersTrue
    <2> QED BY <2>1, <2>2
  <1>14. RanToTheEnd'
    BY <1>2 DEF RanToTheEnd
  <1>15. AppliedAtMostOnce'
    BY <1>1, <1>2, <1>3 DEF InductiveInv, AppliedAtMostOnce, Current
  <1>16. OnlyLiveWrites'
    BY <1>1, <1>2, <1>3 DEF InductiveInv, OnlyLiveWrites, Current
  <1>17. LandedCanBeUndone'
    <2> SUFFICES ASSUME reruns = 0, NEW i \in DOMAIN results', landed'[i] > 0
                 PROVE  results'[i].rollback /\ results'[i].before = "original"
      BY <1>2 DEF LandedCanBeUndone
    <2>1. CASE i = at
      BY <2>1, <1>6, <1>7
    <2>2. CASE i # at
      BY <2>2, <1>1, <1>3, <1>6 DEF InductiveInv, LandedCanBeUndone
    <2> QED BY <2>1, <2>2
  <1> QED BY <1>8, <1>9, <1>10, <1>12, <1>13, <1>14, <1>15, <1>16, <1>17 DEF InductiveInv

\* A call sent again keeps it, provided that what cannot be repeated has not
\* landed.
LEMMA RetryKeeps ==
  ASSUME InductiveInv, NEW p \in {"before", "lookup", "write"}, Open({p, "write"}),
         NEW fault \in Faults, NEW class \in {"LIBERAL", "NEVER_LANDED"},
         Again(fault, class), phase' = p, attempt' = attempt + 1,
         UNCHANGED <<at, before, results, status, events>>, UNCHANGED run,
         p = "before" => phase = "before" /\ landed' = landed,
         p = "write" => phase = "write",
         landed' \in [DOMAIN plan -> Nat],
         \A i \in DOMAIN plan : i # at => landed'[i] = landed[i],
         Current \notin Repeatable => landed'[at] = 0,
         landed'[at] > 0 => mode = "live" /\ Current \notin ReadOnly \cup Unserved
  PROVE  InductiveInv'
  <1>1. /\ plan \in Seq(Capabilities) /\ Len(plan) \in Nat /\ DOMAIN plan = 1..Len(plan)
        /\ TypeOK
    BY PlansAreSequences DEF InductiveInv
  <1>2. /\ mode' = mode /\ verdict' = verdict /\ plan' = plan /\ earlier' = earlier
        /\ reruns' = reruns
    BY DEF run
  <1>3. /\ at \in 1..Len(plan) /\ RunsPlan(mode, verdict) /\ status = "none"
        /\ Len(results) = at - 1 /\ results \in Seq(StepResults) /\ DOMAIN results = 1..(at - 1)
    BY <1>1 DEF Open, InductiveInv, LoopInStep, TypeOK
  <1>4. attempt + 1 \in 1..MaxAttempts
    <2>1. Attempts(Current) \in 1..MaxAttempts
      BY <1>1, <1>3, AttemptsBounded DEF Current
    <2> QED BY <2>1, <1>1, CapabilityAssumption DEF Again, TypeOK
  <1>5. TypeOK'
    BY <1>1, <1>2, <1>4 DEF TypeOK, Phases
  <1>6. LoopInStep'
    BY <1>1, <1>2, <1>3 DEF InductiveInv, LoopInStep
  <1>7. StepInBounds'
    BY <1>2 DEF InductiveInv, StepInBounds, Open, Current, Predicts
  <1>8. WritesInBounds'
    <2>1. \A i \in DOMAIN plan : i > at => landed'[i] = 0
      BY <1>1, <1>3 DEF InductiveInv, WritesInBounds
    <2>2. p = "before" => landed'[at] = 0
      BY <1>3, <1>1 DEF InductiveInv, WritesInBounds, Open
    <2> QED BY <1>2, <2>1, <2>2 DEF InductiveInv, WritesInBounds, Open, Current
  <1>9. AnswersTrue'
    BY <1>1, <1>2, <1>3 DEF InductiveInv, AnswersTrue, Predicts
  <1>10. RanToTheEnd'
    BY DEF RanToTheEnd
  <1>11. AppliedAtMostOnce'
    BY <1>1, <1>2, <1>3 DEF InductiveInv, AppliedAtMostOnce, Current
  <1>12. OnlyLiveWrites'
    BY <1>1, <1>2, <1>3 DEF InductiveInv, OnlyLiveWrites, Current
  <1>13. LandedCanBeUndone'
    BY <1>1, <1>2, <1>3 DEF InductiveInv, LandedCanBeUndone
  <1> QED BY <1>5, <1>6, <1>7, <1>8, <1>9, <1>10, <1>11, <1>12, <1>13 DEF InductiveInv

\* A failed call keeps it, sent again or contained.
LEMMA FailKeeps ==
  ASSUME InductiveInv, NEW p \in {"before", "lookup", "write"}, Open({p, "write"}),
         NEW fault \in Faults, NEW class \in {"LIBERAL", "NEVER_LANDED"},
         Fail(fault, class, p), UNCHANGED run,
         p = "before" => phase = "before" /\ landed' = landed,
         p = "write" => phase = "write",
         landed' \in [DOMAIN plan -> Nat],
         \A i \in DOMAIN plan : i # at => landed'[i] = landed[i],
         Current \notin Repeatable => landed'[at] <= 1,
         Current \notin Repeatable /\ Again(fault, class) => landed'[at] = 0,
         landed'[at] > 0 => mode = "live" /\ Current \notin ReadOnly \cup Unserved,
         landed'[at] > 0 => before # Unread /\ (reruns = 0 => before = "original")
  PROVE  InductiveInv'
  <1>1. CASE Again(fault, class)
    BY <1>1, RetryKeeps DEF Fail
  <1>2. CASE ~Again(fault, class)
    <2>1. Answer("failed", before # Unread, events)
      BY <1>2 DEF Fail
    <2>2. Open({"start", "before", "predict", "lookup", "write"})
      BY DEF Open
    <2>3. events \in Seq(StepEvents) /\ "failed" \in StepStatuses
      BY DEF InductiveInv, TypeOK, StepStatuses
    <2> QED BY <2>1, <2>2, <2>3, AnswerKeeps
  <1> QED BY <1>1, <1>2

\* The steps that only move the loop, or leave it: nothing has been answered
\* since and nothing has landed.
LEMMA GateKeeps == InductiveInv /\ Gate => InductiveInv'
  <1> SUFFICES ASSUME InductiveInv, Gate PROVE InductiveInv'
    OBVIOUS
  <1>1. /\ plan \in Seq(Capabilities) /\ Len(plan) \in Nat /\ DOMAIN plan = 1..Len(plan)
        /\ TypeOK
    BY PlansAreSequences DEF InductiveInv
  <1>2. /\ mode' = mode /\ verdict' = verdict /\ plan' = plan /\ earlier' = earlier
        /\ reruns' = reruns /\ at' = at /\ attempt' = attempt /\ before' = before
        /\ results' = results /\ events' = events /\ landed' = landed
        /\ phase = "gate" /\ at = 1
    BY DEF Gate, run, InductiveInv, LoopInStep
  <1>3. status' \in Terminal \cup {"none"}
    BY <1>1 DEF Gate, RunsPlan, TypeOK, Terminal, TerminalStatuses, RunStatuses
  <1>4. TypeOK'
    BY <1>1, <1>2, <1>3 DEF TypeOK, Gate, Phases
  <1>5. LoopInStep' /\ RanToTheEnd'
    BY <1>2 DEF Gate, InductiveInv, LoopInStep, RanToTheEnd
  <1>6. StepInBounds' /\ WritesInBounds'
    BY <1>1, <1>2 DEF Gate, InductiveInv, StepInBounds, WritesInBounds, Open, Current, Phases
  <1>7. AnswersTrue' /\ AppliedAtMostOnce' /\ OnlyLiveWrites' /\ LandedCanBeUndone'
    BY <1>1, <1>2 DEF InductiveInv, AnswersTrue, Predicts, AppliedAtMostOnce, OnlyLiveWrites,
                      LandedCanBeUndone
  <1> QED BY <1>4, <1>5, <1>6, <1>7 DEF InductiveInv

LEMMA StartStepKeeps == InductiveInv /\ StartStep => InductiveInv'
  <1> SUFFICES ASSUME InductiveInv, StartStep PROVE InductiveInv'
    OBVIOUS
  <1> DEFINE es == Append(events, StepEvent("step_started", at, "none"))
  <1>1. /\ plan \in Seq(Capabilities) /\ Len(plan) \in Nat /\ DOMAIN plan = 1..Len(plan)
        /\ TypeOK /\ \A i \in DOMAIN plan : landed[i] \in Nat
    BY PlansAreSequences DEF InductiveInv
  <1>2. /\ phase = "start" /\ at \in 1..Len(plan) /\ landed' = landed /\ UNCHANGED run
        /\ landed[at] = 0 /\ landed \in [DOMAIN plan -> Nat]
    BY <1>1 DEF StartStep, InStep, InductiveInv, WritesInBounds, Open, TypeOK
  <1>3. es \in Seq(StepEvents)
    <2>1. StepEvent("step_started", at, "none") \in StepEvents
      BY <1>2 DEF StepEvent, StepEvents
    <2> QED BY <2>1, <1>1 DEF TypeOK
  <1>4. CASE Current \in Unserved
    <2>1. Answer("failed", FALSE, es)
      BY <1>4 DEF StartStep
    <2>2. Open({"start", "before", "predict", "lookup", "write"})
      BY <1>1, <1>2 DEF Open
    <2>3. "failed" \in StepStatuses /\ FALSE \in BOOLEAN /\ "failed" # "ok" /\ "failed" # "dry_run"
      BY DEF StepStatuses
    <2>4. ~(landed'[at] > 0) /\ landed'[at] <= 1
      BY <1>2
    <2> QED BY <2>1, <2>2, <2>3, <2>4, <1>2, <1>3, AnswerKeeps
  <1>5. CASE Current \notin Unserved
    <2>1. /\ mode' = mode /\ verdict' = verdict /\ plan' = plan /\ earlier' = earlier
          /\ reruns' = reruns /\ at' = at /\ attempt' = attempt /\ before' = before
          /\ results' = results /\ events' = es /\ landed' = landed /\ status' = status
          /\ phase' = "before"
      BY <1>5 DEF StartStep, run
    <2>2. TypeOK'
      BY <2>1, <1>1, <1>3 DEF TypeOK, Phases
    <2>3. LoopInStep' /\ RanToTheEnd'
      BY <2>1, <1>1, <1>2 DEF InductiveInv, LoopInStep, RanToTheEnd
    <2>4. StepInBounds' /\ WritesInBounds'
      BY <2>1, <1>1, <1>2, <1>5 DEF InductiveInv, StepInBounds, WritesInBounds, Open, Current
    <2>5. AnswersTrue' /\ AppliedAtMostOnce' /\ OnlyLiveWrites' /\ LandedCanBeUndone'
      BY <2>1 DEF InductiveInv, AnswersTrue, Predicts, AppliedAtMostOnce, OnlyLiveWrites,
                  LandedCanBeUndone
    <2> QED BY <2>2, <2>3, <2>4, <2>5 DEF InductiveInv
  <1> QED BY <1>4, <1>5

LEMMA FetchBeforeKeeps == InductiveInv /\ FetchBefore => InductiveInv'
  <1> SUFFICES ASSUME InductiveInv, FetchBefore PROVE InductiveInv'
    OBVIOUS
  <1>1. /\ plan \in Seq(Capabilities) /\ Len(plan) \in Nat /\ DOMAIN plan = 1..Len(plan)
        /\ TypeOK /\ \A i \in DOMAIN plan : landed[i] \in Nat
    BY PlansAreSequences DEF InductiveInv
  <1>2. /\ phase = "before" /\ at \in 1..Len(plan) /\ landed' = landed /\ UNCHANGED run
        /\ landed[at] = 0 /\ landed \in [DOMAIN plan -> Nat] /\ Current \notin Unserved
        /\ reruns = 0 => earlier[at] = 0
    BY <1>1 DEF FetchBefore, InStep, InductiveInv, WritesInBounds, StepInBounds, Open, TypeOK
  <1>3. ASSUME before' = Seen,
               Proceed(IF Predicts(Current) THEN "predict" ELSE ApplyPhase(Current))
        PROVE  InductiveInv'
    <2>1. /\ mode' = mode /\ verdict' = verdict /\ plan' = plan /\ earlier' = earlier
          /\ reruns' = reruns /\ at' = at /\ attempt' = 1
          /\ results' = results /\ events' = events /\ landed' = landed /\ status' = status
          /\ phase' \in {"predict", "lookup", "write"}
          /\ phase' = "predict" <=> Predicts(Current)
      BY <1>2, <1>3 DEF Proceed, run, ApplyPhase
    <2>2. before' \in {"original", "changed"} /\ (reruns = 0 => before' = "original")
      BY <1>2, <1>3 DEF Seen
    <2>3. TypeOK'
      BY <2>1, <2>2, <1>1, CapabilityAssumption DEF TypeOK, Phases, Snapshot
    <2>4. LoopInStep' /\ RanToTheEnd'
      BY <2>1, <1>1, <1>2 DEF InductiveInv, LoopInStep, RanToTheEnd
    <2>5. StepInBounds'
      BY <2>1, <2>2, <1>2 DEF StepInBounds, Open, Current, Predicts, Unread
    <2>6. WritesInBounds'
      BY <2>1, <1>1, <1>2 DEF InductiveInv, WritesInBounds, Open, Current
    <2>7. AnswersTrue' /\ AppliedAtMostOnce' /\ OnlyLiveWrites' /\ LandedCanBeUndone'
      BY <2>1 DEF InductiveInv, AnswersTrue, Predicts, AppliedAtMostOnce, OnlyLiveWrites,
                  LandedCanBeUndone
    <2> QED BY <2>3, <2>4, <2>5, <2>6, <2>7 DEF InductiveInv
  <1>4. ASSUME NEW fault \in RequestFaults(Current), Fail(fault, "LIBERAL", "before")
        PROVE  InductiveInv'
    <2>1. fault \in Faults
      BY <1>4 DEF RequestFaults, Faults
    <2>2. Open({"before", "write"})
      BY <1>1, <1>2 DEF Open
    <2> QED BY <1>1, <1>2, <1>4, <2>1, <2>2, FailKeeps
  <1> QED BY <1>3, <1>4 DEF FetchBefore

LEMMA PredictKeeps == InductiveInv /\ Predict => InductiveInv'
  <1> SUFFICES ASSUME InductiveInv, Predict PROVE InductiveInv'
    OBVIOUS
  <1>1. /\ plan \in Seq(Capabilities) /\ Len(plan) \in Nat /\ DOMAIN plan = 1..Len(plan)
        /\ TypeOK
    BY PlansAreSequences DEF InductiveInv
  <1>2. /\ phase = "predict" /\ at \in 1..Len(plan) /\ landed' = landed /\ UNCHANGED run
        /\ landed[at] = 0 /\ landed \in [DOMAIN plan -> Nat] /\ Predicts(Current)
    BY <1>1 DEF Predict, InStep, InductiveInv, WritesInBounds, StepInBounds, Open, TypeOK
  <1>3. Answer("dry_run", TRUE, events) /\ events \in Seq(StepEvents)
    BY <1>1 DEF Predict, TypeOK
  <1>4. Open({"start", "before", "predict", "lookup", "write"})
    BY <1>1, <1>2 DEF Open
  <1>5. "dry_run" \in StepStatuses /\ TRUE \in BOOLEAN /\ "dry_run" # "ok"
    BY DEF StepStatuses
  <1>6. ~(landed'[at] > 0) /\ landed'[at] <= 1
    BY <1>2
  <1> QED BY <1>2, <1>3, <1>4, <1>5, <1>6, AnswerKeeps

\* What holds while a step is being applied.
LEMMA Applying ==
  ASSUME InductiveInv, Open({"lookup", "write"})
  PROVE  /\ mode = "live" /\ Current \notin ReadOnly \cup Unserved /\ Current \in Capabilities
         /\ before # Unread /\ (reruns = 0 => before = "original")
         /\ at \in DOMAIN plan /\ landed[at] \in Nat /\ landed \in [DOMAIN plan -> Nat]
         /\ Current \notin Repeatable => landed[at] = 0
  <1>1. at \in DOMAIN plan /\ Open({"before", "predict", "lookup", "write"}) /\ Open(Phases)
    BY DEF Open, Phases
  <1>2. RunsPlan(mode, verdict) /\ mode \in Modes
    BY DEF Open, InductiveInv, LoopInStep, TypeOK
  <1>3. mode = "live"
    BY <1>2 DEF InductiveInv, StepInBounds, Predicts, RunsPlan, Modes
  <1> QED BY <1>1, <1>3, PlansAreSequences
          DEF InductiveInv, StepInBounds, WritesInBounds, Predicts, Current, TypeOK

LEMMA LookupKeeps == InductiveInv /\ Lookup => InductiveInv'
  <1> SUFFICES ASSUME InductiveInv, Lookup PROVE InductiveInv'
    OBVIOUS
  <1>1. /\ plan \in Seq(Capabilities) /\ Len(plan) \in Nat /\ DOMAIN plan = 1..Len(plan)
        /\ TypeOK
    BY PlansAreSequences DEF InductiveInv
  <1>2. phase = "lookup" /\ at \in 1..Len(plan) /\ landed' = landed /\ UNCHANGED run
    BY <1>1 DEF Lookup, InStep
  <1>3. Open({"lookup", "write"})
    BY <1>1, <1>2 DEF Open
  <1>4. ASSUME phase' = "write", UNCHANGED <<at, attempt, before, results, status, events>>
        PROVE  InductiveInv'
    <2>1. TypeOK'
      BY <1>1, <1>2, <1>4 DEF TypeOK, Phases, run
    <2>2. LoopInStep' /\ RanToTheEnd' /\ StepInBounds' /\ WritesInBounds'
      BY <1>1, <1>2, <1>4 DEF InductiveInv, LoopInStep, RanToTheEnd, StepInBounds,
                              WritesInBounds, Open, Current, Predicts, run, Phases
    <2>3. AnswersTrue' /\ AppliedAtMostOnce' /\ OnlyLiveWrites' /\ LandedCanBeUndone'
      BY <1>2, <1>4 DEF InductiveInv, AnswersTrue, Predicts, AppliedAtMostOnce, OnlyLiveWrites,
                        LandedCanBeUndone, run
    <2> QED BY <2>1, <2>2, <2>3 DEF InductiveInv
  <1>5. ASSUME NEW fault \in RequestFaults(Current),
               Fail(fault, RetryClassFor(Current), "lookup")
        PROVE  InductiveInv'
    <2>1. fault \in Faults /\ RetryClassFor(Current) \in {"LIBERAL", "NEVER_LANDED"}
      BY <1>5 DEF RequestFaults, Faults, RetryClassFor
    <2> QED BY <1>2, <1>3, <1>5, <2>1, Applying, FailKeeps
  <1> QED BY <1>4, <1>5 DEF Lookup

LEMMA WriteKeeps == InductiveInv /\ Write => InductiveInv'
  <1> SUFFICES ASSUME InductiveInv, Write PROVE InductiveInv'
    OBVIOUS
  <1>1. /\ plan \in Seq(Capabilities) /\ Len(plan) \in Nat /\ DOMAIN plan = 1..Len(plan)
        /\ TypeOK
    BY PlansAreSequences DEF InductiveInv
  <1>2. phase = "write" /\ at \in 1..Len(plan) /\ UNCHANGED run
    BY <1>1 DEF Write, InStep
  <1>3. Open({"lookup", "write"}) /\ Open({"write"})
    BY <1>1, <1>2 DEF Open
  <1>4. /\ mode = "live" /\ Current \notin ReadOnly \cup Unserved /\ Current \in Capabilities
        /\ before # Unread /\ (reruns = 0 => before = "original")
        /\ landed[at] \in Nat /\ landed \in [DOMAIN plan -> Nat]
        /\ Current \notin Repeatable => landed[at] = 0
    BY <1>3, Applying
  <1>5. ASSUME landed' = [landed EXCEPT ![at] = @ + 1], Answer("ok", TRUE, events)
        PROVE  InductiveInv'
    <2>1. /\ landed' \in [DOMAIN plan -> Nat] /\ landed'[at] = landed[at] + 1
          /\ \A i \in DOMAIN plan : i # at => landed'[i] = landed[i]
      BY <1>1, <1>2, <1>4, <1>5
    <2>2. landed'[at] > 0 /\ (Current \notin Repeatable => landed'[at] <= 1)
      BY <2>1, <1>4
    <2>3. "ok" \in StepStatuses /\ TRUE \in BOOLEAN /\ "ok" # "dry_run"
      BY DEF StepStatuses
    <2>4. Open({"start", "before", "predict", "lookup", "write"}) /\ events \in Seq(StepEvents)
      BY <1>1, <1>2 DEF Open, TypeOK
    <2> QED BY <1>2, <1>4, <1>5, <2>1, <2>2, <2>3, <2>4, AnswerKeeps
  <1>6. ASSUME NEW fault \in RequestFaults(Current), NEW n \in Landings(Current, fault),
               landed' = [landed EXCEPT ![at] = @ + n],
               Fail(fault, RetryClassFor(Current), ApplyPhase(Current))
        PROVE  InductiveInv'
    <2>1. n \in {0, 1}
      BY DEF Landings
    <2>2. /\ landed' \in [DOMAIN plan -> Nat] /\ landed'[at] = landed[at] + n
          /\ \A i \in DOMAIN plan : i # at => landed'[i] = landed[i]
      BY <1>1, <1>2, <1>4, <1>6, <2>1
    <2>3. Current \notin Repeatable => landed'[at] <= 1
      BY <2>1, <2>2, <1>4
    <2>4. Current \notin Repeatable /\ Again(fault, RetryClassFor(Current)) => landed'[at] = 0
      BY <2>2, <1>1, <1>3, <1>4, NoLandingBeforeRetry
    <2>5. fault \in Faults /\ RetryClassFor(Current) \in {"LIBERAL", "NEVER_LANDED"}
      BY <1>6 DEF RequestFaults, Faults, RetryClassFor
    <2>6. ApplyPhase(Current) \in {"lookup", "write"} /\ Open({ApplyPhase(Current), "write"})
      BY <1>1, <1>2 DEF ApplyPhase, Open
    <2>7. ApplyPhase(Current) # "before"
      BY DEF ApplyPhase
    <2> QED BY <1>2, <1>4, <1>6, <2>2, <2>3, <2>4, <2>5, <2>6, <2>7, FailKeeps
  <1> QED BY <1>5, <1>6 DEF Write

LEMMA ConcludeKeeps == InductiveInv /\ Conclude => InductiveInv'
  <1> SUFFICES ASSUME InductiveInv, Conclude PROVE InductiveInv'
    OBVIOUS
  <1>1. /\ plan \in Seq(Capabilities) /\ Len(plan) \in Nat /\ DOMAIN plan = 1..Len(plan)
        /\ TypeOK
    BY PlansAreSequences DEF InductiveInv
  <1>2. /\ mode' = mode /\ verdict' = verdict /\ plan' = plan /\ earlier' = earlier
        /\ reruns' = reruns /\ at' = at /\ attempt' = attempt /\ before' = before
        /\ results' = results /\ events' = events /\ landed' = landed
        /\ phase = "start" /\ phase' = "finished" /\ at \notin DOMAIN plan
        /\ status' = IF AnyFailed THEN "failed" ELSE "done"
    BY DEF Conclude, run
  <1>3. TypeOK'
    BY <1>1, <1>2 DEF TypeOK, Phases, Terminal
  <1>4. LoopInStep' /\ RanToTheEnd'
    BY <1>1, <1>2 DEF InductiveInv, LoopInStep, RanToTheEnd, AnyFailed, TypeOK
  <1>5. StepInBounds' /\ WritesInBounds'
    BY <1>1, <1>2 DEF InductiveInv, StepInBounds, WritesInBounds, Open, Current, Phases
  <1>6. AnswersTrue' /\ AppliedAtMostOnce' /\ OnlyLiveWrites' /\ LandedCanBeUndone'
    BY <1>1, <1>2 DEF InductiveInv, AnswersTrue, Predicts, AppliedAtMostOnce, OnlyLiveWrites,
                      LandedCanBeUndone
  <1> QED BY <1>3, <1>4, <1>5, <1>6 DEF InductiveInv

\* A run that dies leaves at most one landed write of each step that cannot be
\* repeated, and the next one starts with none of its own.
LEMMA RerunKeeps == InductiveInv /\ Rerun => InductiveInv'
  <1> SUFFICES ASSUME InductiveInv, Rerun PROVE InductiveInv'
    OBVIOUS
  <1>1. /\ plan \in Seq(Capabilities) /\ Len(plan) \in Nat /\ DOMAIN plan = 1..Len(plan)
        /\ TypeOK /\ \A i \in DOMAIN plan : landed[i] \in Nat /\ earlier[i] \in Nat
    BY PlansAreSequences DEF InductiveInv
  <1>2. /\ mode' = mode /\ plan' = plan /\ verdict' \in VerdictTypes
        /\ reruns' = reruns + 1 /\ reruns < MaxReruns
        /\ earlier' = [i \in DOMAIN plan |-> earlier[i] + landed[i]]
        /\ landed' = [i \in DOMAIN plan |-> 0]
        /\ at' = 1 /\ phase' = "gate" /\ attempt' = 1 /\ before' = Unread /\ results' = <<>>
        /\ status' = status /\ events' = events /\ status = "none"
    BY DEF Rerun, InductiveInv, LoopInStep
  <1>3. TypeOK'
    BY <1>1, <1>2, CapabilityAssumption DEF TypeOK, Phases, Snapshot
  <1>4. LoopInStep' /\ RanToTheEnd' /\ StepInBounds' /\ AnswersTrue' /\ LandedCanBeUndone'
    BY <1>1, <1>2 DEF LoopInStep, RanToTheEnd, StepInBounds, Open, AnswersTrue, LandedCanBeUndone
  <1>5. WritesInBounds' /\ OnlyLiveWrites'
    BY <1>1, <1>2 DEF TypeOK, WritesInBounds, Open, OnlyLiveWrites
  <1>6. AppliedAtMostOnce'
    BY <1>1, <1>2 DEF InductiveInv, TypeOK, AppliedAtMostOnce
  <1> QED BY <1>3, <1>4, <1>5, <1>6 DEF InductiveInv

LEMMA NextInv == InductiveInv /\ [Next]_vars => InductiveInv'
  <1> SUFFICES ASSUME InductiveInv, [Next]_vars PROVE InductiveInv'
    OBVIOUS
  <1>1. CASE UNCHANGED vars
    BY <1>1 DEF vars, InductiveInv, TypeOK, LoopInStep, StepInBounds, WritesInBounds,
                AnswersTrue, RanToTheEnd, AnyFailed, AppliedAtMostOnce, OnlyLiveWrites,
                LandedCanBeUndone, Open, Current, Predicts
  <1> QED BY <1>1, GateKeeps, StartStepKeeps, FetchBeforeKeeps, PredictKeeps, LookupKeeps,
             WriteKeeps, ConcludeKeeps, RerunKeeps DEF Next, RunStep

-----------------------------------------------------------------------------
\* The execute node keeps its inductive invariant.
THEOREM RunSound == Spec => []InductiveInv
  <1> QED BY InitInv, NextInv, PTL DEF Spec

\* The variables have the values TypeOK lists.
THEOREM RunTyped == Spec => []TypeOK
  <1>1. InductiveInv => TypeOK
    BY DEF InductiveInv
  <1> QED BY <1>1, RunSound, PTL

\* However the requests of a run fail and are sent again, what cannot be
\* repeated reaches its system at most once in that run, and at most once in
\* each run that died before it.
THEOREM NoDoubleWrite == Spec => []AppliedAtMostOnce
  <1>1. InductiveInv => AppliedAtMostOnce
    BY DEF InductiveInv
  <1> QED BY <1>1, RunSound, PTL

\* Only a live run of an approved plan changes a system, and never through an
\* adapter that does not write.
THEOREM NothingElseWrites == Spec => []OnlyLiveWrites
  <1>1. InductiveInv => OnlyLiveWrites
    BY DEF InductiveInv
  <1> QED BY <1>1, RunSound, PTL

\* What landed comes with a rollback hint that restores the state before it.
THEOREM RollbackRestores == Spec => []LandedCanBeUndone
  <1>1. InductiveInv => LandedCanBeUndone
    BY DEF InductiveInv
  <1> QED BY <1>1, RunSound, PTL

\* A failed step keeps no later step from being answered.
THEOREM NoStepLeftOut == Spec => []EveryStepAnswered
  <1>1. InductiveInv => EveryStepAnswered
    <2> SUFFICES ASSUME InductiveInv, phase = "finished", RunsPlan(mode, verdict)
                 PROVE  /\ Len(results) = Len(plan)
                        /\ (status = "failed") =
                             \E i \in DOMAIN plan : results[i].status = "failed"
      BY DEF EveryStepAnswered
    <2>1. /\ plan \in Seq(Capabilities) /\ Len(plan) \in Nat /\ DOMAIN plan = 1..Len(plan)
          /\ results \in Seq(StepResults)
      BY PlansAreSequences DEF InductiveInv, TypeOK
    <2>2. /\ Len(results) = at - 1 /\ at = Len(plan) + 1
          /\ status = IF AnyFailed THEN "failed" ELSE "done"
      BY DEF InductiveInv, LoopInStep, RanToTheEnd
    <2>3. DOMAIN results = DOMAIN plan /\ Len(results) = Len(plan)
      BY <2>1, <2>2
    <2> QED BY <2>2, <2>3 DEF AnyFailed
  <1> QED BY <1>1, RunSound, PTL

\* A live trial that reads done has every write of its plan applied.
THEOREM DoneIsApplied == Spec => []DoneMeansLanded
  <1>1. InductiveInv => DoneMeansLanded
    <2> SUFFICES ASSUME InductiveInv, status = "done", mode = "live", RunsPlan(mode, verdict),
                        NEW i \in DOMAIN plan
                 PROVE  landed[i] > 0 \/ plan[i] \in ReadOnly
      BY DEF DoneMeansLanded
    <2>1. /\ plan \in Seq(Capabilities) /\ Len(plan) \in Nat /\ DOMAIN plan = 1..Len(plan)
          /\ results \in Seq(StepResults)
      BY PlansAreSequences DEF InductiveInv, TypeOK
    <2>2. phase = "finished" /\ ~AnyFailed /\ Len(results) = at - 1 /\ at = Len(plan) + 1
      BY DEF InductiveInv, LoopInStep, RanToTheEnd
    <2>3. i \in DOMAIN results
      BY <2>1, <2>2
    <2>4. results[i] \in StepResults
      BY <2>1, <2>3
    <2>5. results[i].status \in {"ok", "dry_run"}
      BY <2>2, <2>3, <2>4 DEF AnyFailed, StepResults, StepStatuses
    <2> QED BY <2>3, <2>5 DEF InductiveInv, AnswersTrue, Predicts
  <1> QED BY <1>1, RunSound, PTL

-----------------------------------------------------------------------------
(***************************************************************************)
(* What the run page shows of a step is what the record says.              *)
(***************************************************************************)

\* The event a step's result was announced with is in the log, and no later one
\* is of that step.
LastIs(log, i, s) ==
  \E k \in DOMAIN log :
    /\ log[k] = StepEvent("step_finished", i, s)
    /\ \A j \in DOMAIN log : j > k => log[j].step # i

ShownInv == \A i \in DOMAIN results : LastIs(events, i, results[i].status)

LEMMA AppendKeepsLast ==
  ASSUME NEW log \in Seq(StepEvents), NEW e \in StepEvents, NEW i, NEW s,
         e.step # i, LastIs(log, i, s)
  PROVE  LastIs(Append(log, e), i, s)
  <1> DEFINE more == Append(log, e)
  <1>1. /\ Len(log) \in Nat /\ DOMAIN log = 1..Len(log) /\ DOMAIN more = 1..(Len(log) + 1)
        /\ more[Len(log) + 1] = e /\ \A k \in 1..Len(log) : more[k] = log[k]
    OBVIOUS
  <1>2. PICK k \in DOMAIN log : /\ log[k] = StepEvent("step_finished", i, s)
                               /\ \A j \in DOMAIN log : j > k => log[j].step # i
    BY DEF LastIs
  <1> HIDE DEF more
  <1>3. k \in DOMAIN more /\ more[k] = StepEvent("step_finished", i, s)
    BY <1>1, <1>2
  <1>4. ASSUME NEW j \in DOMAIN more, j > k PROVE more[j].step # i
    BY <1>1, <1>2, <1>4
  <1>5. LastIs(more, i, s)
    BY <1>3, <1>4 DEF LastIs
  <1> QED BY <1>5 DEF more

LEMMA AppendIsLast ==
  ASSUME NEW log \in Seq(StepEvents), NEW i \in Nat \ {0}, NEW s \in StepStatuses
  PROVE  LastIs(Append(log, StepEvent("step_finished", i, s)), i, s)
  <1> DEFINE e == StepEvent("step_finished", i, s)
             more == Append(log, e)
  <1>1. /\ Len(log) \in Nat /\ DOMAIN more = 1..(Len(log) + 1) /\ more[Len(log) + 1] = e
    OBVIOUS
  <1> HIDE DEF more
  <1>2. \A j \in DOMAIN more : ~(j > Len(log) + 1)
    BY <1>1
  <1>3. LastIs(more, i, s)
    BY <1>1, <1>2 DEF LastIs
  <1> QED BY <1>3 DEF more

\* A step that gives no answer writes at most the start of the step it is at.
LEMMA StartShown ==
  ASSUME InductiveInv, ShownInv, UNCHANGED results,
         \/ UNCHANGED events
         \/ events' = Append(events, StepEvent("step_started", at, "none"))
  PROVE  ShownInv'
  <1>1. CASE UNCHANGED events
    BY <1>1 DEF ShownInv, LastIs
  <1>2. CASE events' = Append(events, StepEvent("step_started", at, "none"))
    <2>1. /\ events \in Seq(StepEvents) /\ StepEvent("step_started", at, "none") \in StepEvents
          /\ StepEvent("step_started", at, "none").step = at
      BY DEF InductiveInv, TypeOK, StepEvent, StepEvents
    <2>2. \A i \in DOMAIN results : i # at
      BY DEF InductiveInv, TypeOK, LoopInStep
    <2>3. \A i \in DOMAIN results : LastIs(events', i, results[i].status)
      BY <1>2, <2>1, <2>2, AppendKeepsLast DEF ShownInv
    <2> QED BY <2>3 DEF ShownInv
  <1> QED BY <1>1, <1>2

\* An answer is announced when it is taken.
LEMMA AnswerShown ==
  ASSUME InductiveInv, ShownInv, NEW s \in StepStatuses, NEW hint \in BOOLEAN, NEW es,
         Answer(s, hint, es), at \in DOMAIN plan,
         es \in {events, Append(events, StepEvent("step_started", at, "none"))}
  PROVE  ShownInv'
  <1> DEFINE e == StepEvent("step_finished", at, s)
             r == Result(s, before, hint)
  <1>1. /\ events \in Seq(StepEvents) /\ StepEvent("step_started", at, "none") \in StepEvents
        /\ StepEvent("step_started", at, "none").step = at
        /\ e \in StepEvents /\ e.step = at /\ at \in Nat \ {0}
    BY DEF InductiveInv, TypeOK, StepEvent, StepEvents
  <1>2. /\ results \in Seq(StepResults) /\ DOMAIN results = 1..(at - 1) /\ Len(results) = at - 1
    BY <1>1 DEF InductiveInv, TypeOK, LoopInStep
  <1>3. /\ results' = Append(results, r) /\ events' = Append(es, e) /\ r.status = s
    BY DEF Answer, Result
  <1>4. /\ DOMAIN results' = 1..at /\ results'[at] = r
        /\ \A i \in 1..(at - 1) : results'[i] = results[i]
    BY <1>1, <1>2, <1>3
  <1>5. es \in Seq(StepEvents) /\ \A i \in DOMAIN results : LastIs(es, i, results[i].status)
    <2>1. \A i \in DOMAIN results : i # at
      BY <1>1, <1>2
    <2> HIDE DEF e, r
    <2>2. CASE es = events
      BY <1>1, <2>2 DEF ShownInv
    <2>3. CASE es = Append(events, StepEvent("step_started", at, "none"))
      BY <1>1, <2>1, <2>3, AppendKeepsLast DEF ShownInv
    <2> QED BY <2>2, <2>3
  <1>6. LastIs(events', at, s)
    BY <1>1, <1>3, <1>5, AppendIsLast
  <1>7. \A i \in 1..(at - 1) : LastIs(events', i, results[i].status)
    <2>1. \A i \in 1..(at - 1) : e.step # i
      BY <1>1
    <2> HIDE DEF e
    <2> QED BY <1>1, <1>2, <1>3, <1>5, <2>1, AppendKeepsLast
  <1>8. ASSUME NEW i \in DOMAIN results' PROVE LastIs(events', i, results'[i].status)
    <2>1. i = at \/ i \in 1..(at - 1)
      BY <1>1, <1>4
    <2> HIDE DEF r
    <2> QED BY <1>3, <1>4, <1>6, <1>7, <2>1
  <1> QED BY <1>8 DEF ShownInv

LEMMA FailShown ==
  ASSUME InductiveInv, ShownInv, at \in DOMAIN plan, NEW fault, NEW class, NEW p,
         Fail(fault, class, p)
  PROVE  ShownInv'
  <1>1. "failed" \in StepStatuses /\ (before # Unread) \in BOOLEAN
    BY DEF StepStatuses
  <1>2. CASE Again(fault, class)
    BY <1>2, StartShown DEF Fail
  <1>3. CASE ~Again(fault, class)
    <2> DEFINE hint == before # Unread
    <2>1. Answer("failed", hint, events)
      BY <1>3 DEF Fail
    <2> HIDE DEF hint
    <2>2. hint \in BOOLEAN
      BY DEF hint
    <2> QED BY <1>1, <2>1, <2>2, AnswerShown
  <1> QED BY <1>2, <1>3

LEMMA NextShown == InductiveInv /\ ShownInv /\ [Next]_vars => ShownInv'
  <1> SUFFICES ASSUME InductiveInv, ShownInv, [Next]_vars PROVE ShownInv'
    OBVIOUS
  <1>0. {"ok", "failed", "dry_run"} \subseteq StepStatuses
    BY DEF StepStatuses
  <1>1. CASE Gate
    BY <1>1, StartShown DEF Gate
  <1>2. CASE StartStep
    <2>1. at \in DOMAIN plan
      BY <1>2 DEF StartStep, InStep
    <2>2. CASE Current \in Unserved
      <3>1. Answer("failed", FALSE, Append(events, StepEvent("step_started", at, "none")))
        BY <1>2, <2>2 DEF StartStep
      <3> QED BY <1>0, <2>1, <3>1, AnswerShown
    <2>3. CASE Current \notin Unserved
      BY <1>2, <2>3, StartShown DEF StartStep
    <2> QED BY <2>2, <2>3
  <1>3. CASE FetchBefore
    <2>1. at \in DOMAIN plan
      BY <1>3 DEF FetchBefore, InStep
    <2>2. CASE \E p : Proceed(p)
      BY <2>2, StartShown DEF Proceed
    <2>3. CASE \E fault \in RequestFaults(Current) : Fail(fault, "LIBERAL", "before")
      BY <2>1, <2>3, FailShown
    <2> QED BY <1>3, <2>2, <2>3 DEF FetchBefore
  <1>4. CASE Predict
    BY <1>0, <1>4, AnswerShown DEF Predict, InStep
  <1>5. CASE Lookup
    <2>1. at \in DOMAIN plan
      BY <1>5 DEF Lookup, InStep
    <2>2. CASE UNCHANGED <<results, events>>
      BY <2>2, StartShown
    <2>3. CASE \E fault \in RequestFaults(Current) : Fail(fault, RetryClassFor(Current), "lookup")
      BY <2>1, <2>3, FailShown
    <2> QED BY <1>5, <2>2, <2>3 DEF Lookup
  <1>6. CASE Write
    <2>1. at \in DOMAIN plan
      BY <1>6 DEF Write, InStep
    <2>2. CASE Answer("ok", TRUE, events)
      BY <1>0, <2>1, <2>2, AnswerShown
    <2>3. CASE \E fault : Fail(fault, RetryClassFor(Current), ApplyPhase(Current))
      BY <2>1, <2>3, FailShown
    <2> QED BY <1>6, <2>2, <2>3 DEF Write
  <1>7. CASE Conclude
    BY <1>7, StartShown DEF Conclude
  <1>8. CASE Rerun
    BY <1>8 DEF Rerun, ShownInv
  <1>9. CASE UNCHANGED vars
    BY <1>9, StartShown DEF vars
  <1> QED BY <1>1, <1>2, <1>3, <1>4, <1>5, <1>6, <1>7, <1>8, <1>9 DEF Next, RunStep

\* What the run page last showed for an answered step is the result on record,
\* whatever an earlier run of the plan showed before its worker died.
THEOREM PageAgreesWithRecord == Spec => []ShownIsRecorded
  <1>1. Init => ShownInv
    BY DEF Init, ShownInv
  <1>2. ASSUME InductiveInv, ShownInv PROVE ShownIsRecorded
    <2> SUFFICES ASSUME NEW i \in DOMAIN results
                 PROVE  LastShown(i) = StepEvent("step_finished", i, results[i].status)
      BY DEF ShownIsRecorded
    <2> DEFINE shown == {k \in DOMAIN events : events[k].step = i}
    <2>1. PICK k \in DOMAIN events :
             /\ events[k] = StepEvent("step_finished", i, results[i].status)
             /\ \A j \in DOMAIN events : j > k => events[j].step # i
      BY <1>2 DEF ShownInv, LastIs
    <2>2. DOMAIN events \subseteq Int
      BY <1>2 DEF InductiveInv, TypeOK
    <2>3. k \in shown /\ \A j \in shown : j <= k
      BY <2>1, <2>2 DEF StepEvent
    <2>4. \A m \in shown : (\A j \in shown : j <= m) => m = k
      BY <2>2, <2>3
    <2> HIDE DEF shown
    <2>5. (CHOOSE m \in shown : \A j \in shown : j <= m) = k
      BY <2>3, <2>4
    <2> QED BY <2>1, <2>5 DEF LastShown, shown
  <1>3. InductiveInv /\ ShownInv => ShownIsRecorded
    BY <1>2
  <1> QED BY <1>1, <1>3, NextShown, RunSound, PTL DEF Spec
=============================================================================

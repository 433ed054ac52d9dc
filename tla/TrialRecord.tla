---------------------------- MODULE TrialRecord ----------------------------
(***************************************************************************)
(* What a change trial promises whoever reads its permanent record: it is  *)
(* opened once, concluded once with one of the outcomes, and its steps run *)
(* in the conclusion that says so or not at all.                           *)
(***************************************************************************)
CONSTANTS Trials

VARIABLES
  fate,   \* per trial: none, open, or the outcome on record
  ran     \* the trials whose steps were run

Outcomes == {"done", "failed", "rejected", "withdrawn", "analyzed"}

\* Outcomes a run of the plan can have; DONE is also the outcome of a verdict
\* that runs nothing and has no terminal status of its own.
Running == {"done", "failed"}

Init ==
  /\ fate = [t \in Trials |-> "none"]
  /\ ran = {}

Open(t) ==
  /\ fate[t] = "none"
  /\ fate' = [fate EXCEPT ![t] = "open"]
  /\ UNCHANGED ran

\* An impact check opens and concludes at once.
Analyze(t) ==
  /\ fate[t] = "none"
  /\ fate' = [fate EXCEPT ![t] = "analyzed"]
  /\ UNCHANGED ran

Conclude(t, outcome) ==
  /\ fate[t] = "open"
  /\ fate' = [fate EXCEPT ![t] = outcome]
  /\ \/ outcome \in Running /\ ran' = ran \cup {t}
     \/ outcome # "failed" /\ UNCHANGED ran

Next ==
  \E t \in Trials :
    Open(t) \/ Analyze(t) \/ \E o \in Outcomes \ {"analyzed"} : Conclude(t, o)

Spec == Init /\ [][Next]_<<fate, ran>>
=============================================================================

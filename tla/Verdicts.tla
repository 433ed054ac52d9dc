------------------------------ MODULE Verdicts ------------------------------
(***************************************************************************)
(* Verdicts, and what the graph past the gate makes of them                *)
(* (app/domain/enums.py, app/agent/nodes/execute.py).                      *)
(***************************************************************************)

VerdictTypes == {"approve", "approve_internal_only", "request_revision",
                 "reject", "accept_alternative", "withdraw"}

Approving == {"approve", "approve_internal_only", "accept_alternative"}

\* A run of the plan: any failed step makes all of it FAILED.
RunStatuses == {"done", "failed"}

\* The statuses a graph run past the gate ends with: an approving verdict runs
\* the plan; any other verdict runs nothing, and one without a terminal status
\* of its own ends DONE.
TerminalStatuses(type) ==
  CASE type \in Approving  -> RunStatuses
    [] type = "reject"     -> {"rejected"}
    [] type = "withdraw"   -> {"withdrawn"}
    [] OTHER               -> {"done"}

Terminal == {"done", "failed", "rejected", "withdrawn", "analyzed"}
Statuses == Terminal \cup {"none", "awaiting_requester_review", "awaiting_approval"}
=============================================================================

------------------------------ MODULE Surfaces ------------------------------
(***************************************************************************)
(* The court through its surfaces: the people behind the callers, and the  *)
(* cards a trial is shown on (app/presentation/cards.py), whose buttons    *)
(* the bot routes back to the service (app/bot/court_bot.py).              *)
(*                                                                         *)
(* A card stays in its chat while the trial moves on, so any caller of the *)
(* bot may press any button at any time.  The tools (app/mcp/tools.py) make*)
(* the same calls, and three more that no card offers: an analysis, a cast *)
(* verdict and the acknowledgement.                                        *)
(***************************************************************************)
EXTENDS Court, Callers

\* The buttons of the trial's card: its status says who is to act.
Buttons(s) ==
  CASE s = "awaiting_requester_review" -> {SEND, WITHDRAW}
    [] s = "awaiting_approval"         -> {APPROVE, REJECT}
    [] OTHER                           -> {}

\* What the card says: who must approve, whether the requester sent it on, and
\* the buttons.  Nobody to approve reads "the requester's confirmation executes
\* it".
TrialCard(t) ==
  [approvers |-> quorum[t].required, sent |-> Decided(events[t], SEND),
   buttons |-> Buttons(status[t])]

\* The bot answers with the trial's card while the trial waits, with the
\* result of the verdict when it does not, and with a line of text when the
\* trial is gone.
CardOf(t) ==
  CASE next[t] \in {"absent", "purged"} -> "unknown"
    [] status[t] \in {"awaiting_requester_review", "awaiting_approval"} -> "trial"
    [] OTHER -> "result"

\* The queue card of a caller opens the trials listed for that caller.
Queue(p) == {t \in Trials : Listed(t, p)}

\* What the service answers to a button: it refuses, or the trial moves.  The
\* note that Send and Reject require is an input of the card.
Takes(t, p, button) ==
  /\ Actionable(t)
  /\ \/ button \in {SEND, WITHDRAW} /\ IsRequester(t, p)
     \/ /\ Authorized(p, by[t], quorum[t])
        /\ \/ button = APPROVE /\ NewApprovals(t, p) # {}
           \/ button = REJECT /\ NewRejections(t, p) # {}

-----------------------------------------------------------------------------
(***************************************************************************)
(* The turns of the two surfaces.                                          *)
(***************************************************************************)

\* The call a button makes.
Press(t, p, button) ==
  \/ button = SEND     /\ SendForApproval(t, p)
  \/ button = WITHDRAW /\ WithdrawChange(t, p)
  \/ button = APPROVE  /\ Decide(t, p, TRUE)
  \/ button = REJECT   /\ Decide(t, p, FALSE)

\* A message opens a trial in the deployment's run mode; a button, of a card
\* of now or of earlier, makes its call.
BotTurn(t, p) ==
  \/ \E m \in Modes, q \in PolicyQuorums : SubmitChange(t, p, m, q)
  \/ \E button \in {SEND, WITHDRAW, APPROVE, REJECT} : Press(t, p, button)

ToolCall(t, p) ==
  \/ \E m \in Modes, q \in PolicyQuorums : SubmitChange(t, p, m, q)
  \/ "analyze" \in Modes /\ \E q \in PolicyQuorums : SubmitAnalysis(t, p, q)
  \/ \E type \in VerdictTypes, k \in Keys : CastVerdict(t, p, type, k)
  \/ SendForApproval(t, p)
  \/ WithdrawChange(t, p)
  \/ \E approve \in BOOLEAN : Decide(t, p, approve)
  \/ Acknowledge(t, p)

SurfaceNext ==
  \E t \in Trials :
    \/ \E p \in Principals \cap BotCallers : BotTurn(t, p)
    \/ \E p \in Principals \cap ToolCallers : ToolCall(t, p)
    \/ PurgeTrial(t)

SurfaceSpec == Init /\ [][SurfaceNext]_vars

-----------------------------------------------------------------------------
(***************************************************************************)
(* Correctness.                                                            *)
(***************************************************************************)

\* One person stays on one side of the gate, whichever surface they come in
\* by: nobody votes on the change they asked for or runs a change that needs
\* somebody else's approval, and nobody else sends, withdraws or acknowledges.
OnOneSide(t) ==
  \A a \in Accounts :
    /\ \A e \in events[t] : e.actor \in Faces[a] =>
         (by[t] \in Faces[a] <=> e.decision \notin {APPROVE, REJECT})
    /\ \A i \in DOMAIN audit[t] :
         audit[t][i].executed /\ quorum[t].required # {} =>
           ~(audit[t][i].verdict.actor \in Faces[a] /\ by[t] \in Faces[a])

OnePersonOneSide == \A t \in Trials : OnOneSide(t)

\* A caller who did not ask for the change holds a role nobody has approved in.
Awaited(t, p) ==
  ~SameAs(p, by[t]) /\ VotingRoles(p, quorum[t]) \ ApprovedRoles(events[t]) # {}

\* A trial at the gate is never stuck between its cards.  The requester's card
\* offers buttons the service takes, and where it asks for no approver their
\* word is enough; and everybody who can give an approval that is still missing
\* has the trial in their queue, on a card that carries the requester's note, and
\* the service takes their approval.
GateNeverDeadEnds ==
  \A t \in Trials : AtGate(t) =>
    /\ CardOf(t) = "trial"
    /\ status[t] = "awaiting_requester_review" =>
         /\ \A b \in TrialCard(t).buttons : Takes(t, by[t], b)
         /\ TrialCard(t).approvers = {} =>
              EvaluateQuorum(events[t] \cup {Event(by[t], SEND, NoRole)}, quorum[t])
                = "satisfied"
    /\ status[t] = "awaiting_approval" =>
         /\ TrialCard(t).sent /\ APPROVE \in TrialCard(t).buttons
         /\ \A p \in Principals : Awaited(t, p) => t \in Queue(p) /\ Takes(t, p, APPROVE)
=============================================================================

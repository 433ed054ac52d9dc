--------------------------- MODULE ApprovalRules ---------------------------
(***************************************************************************)
(* The pure approval rules of app/domain/approval.py, with the identity    *)
(* comparison of app/domain/principal.py and the role lookup of            *)
(* app/services/approver_directory.py they are evaluated with.  Everything *)
(* that resumes a trial goes through these operators.                      *)
(***************************************************************************)
EXTENDS Naturals, FiniteSets

CONSTANTS
  Roles,        \* approver roles a quorum can require (domain/enums.ApproverRole)
  Principals,   \* authenticated callers: records [oid, upn, display_name]
  Members       \* the directory's map: role -> set of identities (oid or upn)

Blank == ""     \* a claim the token or the activity does not carry

ASSUME PrincipalsAssumption ==
  \A p \in Principals : {"oid", "upn", "display_name"} \subseteq DOMAIN p
ASSUME MembersAssumption == DOMAIN Members = Roles

NoRole == "no_role"          \* the role of an event that carries none
ASSUME NoRoleAssumption == NoRole \notin Roles

NoPrincipal == [oid |-> Blank, upn |-> Blank, display_name |-> Blank]

-----------------------------------------------------------------------------
(***************************************************************************)
(* Identity.                                                               *)
(***************************************************************************)

\* The stable identity: oid, else upn, else display name.
Key(p) ==
  IF p.oid # Blank THEN p.oid
  ELSE IF p.upn # Blank THEN p.upn ELSE p.display_name

SameAs(p, q) == Key(p) # Blank /\ Key(p) = Key(q)

\* The roles the directory resolves for a caller: matched on oid or on upn.
RolesFor(p) == {r \in Roles : Members[r] \cap ({p.oid, p.upn} \ {Blank}) # {}}

-----------------------------------------------------------------------------
(***************************************************************************)
(* Events.  A trial's approval log is read only through membership (the    *)
(* fold of evaluate_quorum, the two duplicate checks), so it is a set: an  *)
(* event is who did what, in which role.  Notes and timestamps are left    *)
(* out.                                                                    *)
(***************************************************************************)

SEND == "send"
WITHDRAW == "withdraw"
APPROVE == "approve"
REJECT == "reject"
ACK == "ack"

ApprovalDecisions == {SEND, WITHDRAW, APPROVE, REJECT, ACK}

ApprovalEvents ==
  [actor : Principals, decision : ApprovalDecisions, role : Roles \cup {NoRole}]

Event(p, d, r) == [actor |-> p, decision |-> d, role |-> r]

Decided(events, d) == \E e \in events : e.decision = d

ApprovedRoles(events) ==
  {r \in Roles : \E e \in events : e.decision = APPROVE /\ e.role = r}

-----------------------------------------------------------------------------
(***************************************************************************)
(* A quorum is the set of roles the fired rules require and the policy     *)
(* that says whether any one or all of them must approve.                  *)
(***************************************************************************)

Policies == {"any", "all"}
Quorums == [required : SUBSET Roles, policy : Policies]

\* The approvals meet the quorum; an empty requirement is met at once.
Reached(quorum, approved) ==
  \/ quorum.required = {}
  \/ /\ quorum.policy = "any"
     /\ quorum.required \cap approved # {}
  \/ /\ quorum.policy = "all"
     /\ quorum.required \subseteq approved

\* Mutant of EvaluateQuorum: one approval settles every policy.
EvaluateQuorum_AnyVote(events, quorum) ==
  CASE Decided(events, WITHDRAW) -> "withdrawn"
    [] ~Decided(events, WITHDRAW) /\ Decided(events, REJECT) -> "rejected"
    [] OTHER -> IF quorum.required = {} \/ ApprovedRoles(events) # {}
                THEN "satisfied" ELSE "pending"

\* evaluate_quorum: withdraw, then reject, take precedence over approvals.
EvaluateQuorum(events, quorum) ==
  CASE Decided(events, WITHDRAW) -> "withdrawn"
    [] ~Decided(events, WITHDRAW) /\ Decided(events, REJECT) -> "rejected"
    [] OTHER -> IF Reached(quorum, ApprovedRoles(events))
                THEN "satisfied" ELSE "pending"

\* The required roles this caller may vote under.
VotingRoles(actor, quorum) == quorum.required \cap RolesFor(actor)

\* Mutant of Authorized: holding a required role is enough.
Authorized_RoleOnly(actor, requester, quorum) == VotingRoles(actor, quorum) # {}

\* authorize_caster: never one's own request, and at least one required role.
Authorized(actor, requester, quorum) ==
  /\ ~SameAs(actor, requester)
  /\ VotingRoles(actor, quorum) # {}
=============================================================================

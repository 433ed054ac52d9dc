------------------------------ MODULE MCCourt ------------------------------
(***************************************************************************)
(* A small court.  The requester is also in the directory, under a required*)
(* role, and reaches the court over MCP (oid and upn) and through the bot  *)
(* (oid only).  One approver is listed by upn under a single role, the     *)
(* other by oid under both.                                                *)
(***************************************************************************)
EXTENDS Surfaces

CONSTANTS t1, k1, k2

MCRoles == {"eng_lead", "comms"}

MCMembers ==
  [r \in MCRoles |-> IF r = "eng_lead" THEN {"l@x", "r@x", "h"} ELSE {"h"}]

\* The tokens: delegated ones of both versions, whose subject is not the object
\* id and whose audience and user name are spelt differently; and three the
\* server does not admit.
Claims(oid, user, upn) ==
  [oid |-> oid, sub |-> IF oid = "r" THEN "s1" ELSE "s2",
   preferred_username |-> user, upn |-> upn, email |-> "", name |-> oid]

Delegated(oid, uri, user, upn) ==
  [signed |-> "tenant", iss |-> "tenant", aud |-> Audience("court", uri),
   expired |-> FALSE, scopes |-> NoClaim, scp |-> {"court.use"}, roles |-> NoClaim,
   claims |-> Claims(oid, user, upn), account |-> oid]

MCTokens ==
  {Delegated("r", TRUE, "", "r@x"), Delegated("r", FALSE, "r@x", ""),
   Delegated("l", FALSE, "l@x", "")}
  \cup {[Delegated("x", FALSE, "x@x", "") EXCEPT !.expired = TRUE],
        [Delegated("x", FALSE, "x@x", "") EXCEPT !.scp = {}],
        [Delegated("x", FALSE, "x@x", "") EXCEPT !.signed = "dev", !.iss = "dev"]}

MCSenders ==
  {[aad_object_id |-> a, id |-> "29:1", name |-> a, account |-> a] : a \in {"r", "h"}}

MCPrincipals == Callers

ASSUME Cardinality(Callers) = 4

Nobody == [required |-> {}, policy |-> "all"]
AnyOf  == [required |-> MCRoles, policy |-> "any"]
AllOf  == [required |-> MCRoles, policy |-> "all"]

MCQuorums == {Nobody, AnyOf, AllOf}
=============================================================================

------------------------------ MODULE Callers ------------------------------
(***************************************************************************)
(* Who a caller is to the court: the principals made of a bearer token     *)
(* (app/mcp/security.py) and of the sender of a Teams activity             *)
(* (app/bot/court_bot.py).  A person reaches the court through both, and   *)
(* the approval rules tell people apart by these principals alone.         *)
(***************************************************************************)
EXTENDS ApprovalRules

CONSTANTS
  Tenant,    \* whether OAUTH_ISSUER and OAUTH_JWKS_URL name a tenant
  Senders,   \* senders: [aad_object_id, id, name], and the account behind
  Tokens     \* tokens: [signed, iss, aud, expired, scopes, scp, roles, claims],
             \* and the account behind

\* An application's audience, by its id or by the URI made of the id.
Audience(app, uri) == [app |-> app, uri |-> uri]

AudienceCandidates(aud) == {aud, [aud EXCEPT !.uri = ~@]}

\* The verifier of the environment: the tenant's keys, or the dev secret.
Verified(token) ==
  /\ ~token.expired
  /\ IF Tenant
     THEN /\ token.signed = "tenant" /\ token.iss = "tenant"
          /\ token.aud \in AudienceCandidates(Audience("court", TRUE))
     ELSE /\ token.signed = "dev" /\ token.iss = "dev"
          /\ token.aud = Audience("dev", FALSE)

NoClaim == {"no such claim"}

\* The dev issuer's list, a delegated token's words, an app-only token's roles.
ClaimScopes(token) ==
  CASE token.scopes # NoClaim                                    -> token.scopes
    [] token.scopes = NoClaim /\ token.scp \notin {NoClaim, {}}   -> token.scp
    [] OTHER -> IF token.roles # NoClaim THEN token.roles ELSE {}

\* What the server admits: a valid token with the scope it requires.
Admitted(token) == Verified(token) /\ "court.use" \in ClaimScopes(token)

OrElse(x, y) == IF x # Blank THEN x ELSE y

\* Mutant of TokenPrincipal: the token's subject, which differs from one
\* application to the next, names the caller.
TokenPrincipal_Subject(claims) ==
  [oid |-> OrElse(claims.sub, claims.oid),
   upn |-> OrElse(claims.preferred_username, OrElse(claims.upn, claims.email)),
   display_name |-> claims.name]

TokenPrincipal(claims) ==
  [oid |-> OrElse(claims.oid, claims.sub),
   upn |-> OrElse(claims.preferred_username, OrElse(claims.upn, claims.email)),
   display_name |-> claims.name]

\* An activity carries no upn; without an object id the channel's id stands in.
SenderPrincipal(sender) ==
  [oid |-> OrElse(sender.aad_object_id, sender.id), upn |-> Blank,
   display_name |-> sender.name]

\* Who the bot and the tools take for a caller; without a stable identity one
\* is no caller at all.
BotCallers  == {p \in {SenderPrincipal(s) : s \in Senders} : Key(p) # Blank}
ToolCallers ==
  {p \in {TokenPrincipal(k.claims) : k \in {x \in Tokens : Admitted(x)}} : Key(p) # Blank}

Callers == BotCallers \cup ToolCallers

\* The people behind them, and the callers each of them appears as.
Accounts == {s.account : s \in Senders} \cup {k.account : k \in Tokens}

Faces ==
  [a \in Accounts |->
     {p \in Callers :
        \/ \E s \in Senders : s.account = a /\ p = SenderPrincipal(s)
        \/ \E k \in Tokens : Admitted(k) /\ k.account = a /\ p = TokenPrincipal(k.claims)}]

\* Who calls is who the surfaces let in.
ASSUME CallersAssumption == Principals \subseteq Callers

\* An account is an object of one tenant, whose id a Teams activity and every
\* token the tenant signs carry.
ASSUME TenantAssumption ==
  /\ \A s \in Senders : s.aad_object_id = s.account /\ s.account # Blank
  /\ \A k \in Tokens : Admitted(k) => k.claims.oid = k.account /\ k.account # Blank
=============================================================================

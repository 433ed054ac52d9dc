------------------------------ MODULE MCFaults ------------------------------
(***************************************************************************)
(* A small trial under faults: a requester who is in the directory too, an *)
(* approver with one role and one with both.                               *)
(***************************************************************************)
EXTENDS CourtCalls

CONSTANT k1

MCRoles == {"eng_lead", "comms"}

requester == [oid |-> "r", upn |-> "r@x", display_name |-> "R"]
lead      == [oid |-> "l", upn |-> "l@x", display_name |-> "L"]
twoHats   == [oid |-> "h", upn |-> "",    display_name |-> "H"]

MCMembers ==
  [r \in MCRoles |-> IF r = "eng_lead" THEN {"l@x", "r@x", "h"} ELSE {"h"}]

MCPrincipals == {requester, lead, twoHats}
MCRequester  == {requester}

Nobody == [required |-> {}, policy |-> "all"]
AllOf  == [required |-> MCRoles, policy |-> "all"]

MCQuorums == {Nobody, AllOf}
=============================================================================

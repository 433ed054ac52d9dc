----------------------------- MODULE CourtCalls -----------------------------
(***************************************************************************)
(* While nothing fails, a call taken commit by commit is one action of     *)
(* Court.  What a caller could see when the running call began is kept in  *)
(* "before"; it moves on when the call has ended.                          *)
(***************************************************************************)
EXTENDS CourtFaults

CONSTANTS trial       \* the thread's id
VARIABLES before      \* the committed state the running call started from

Committed == [saved |-> saved, quorum |-> quorum, events |-> events, pending |-> pending,
              claimed |-> claimed, recorded |-> recorded, audit |-> audit, told |-> told]

CallInit == Init /\ before = Committed

CallNext ==
  /\ Next
  /\ before' = IF call' = Idle THEN Committed' ELSE before

CallSpec == CallInit /\ [][CallNext]_<<vars, before>>
FairCallSpec == CallSpec /\ Fairness

Of(x) == [t \in {trial} |-> x]

Atomic == INSTANCE Court WITH
  Trials   <- {trial},
  Modes    <- {"live"},
  next     <- Of(before.saved.next),
  status   <- Of(before.saved.status),
  mode     <- Of(IF before.saved.next = "absent" THEN "none" ELSE "live"),
  by       <- Of(before.saved.by),
  quorum   <- Of(before.quorum),
  events   <- Of(before.events),
  pending  <- IF before.pending THEN {trial} ELSE {},
  claimed  <- Of(before.claimed),
  recorded <- Of(before.recorded),
  audit    <- Of(before.audit),
  told     <- Of(before.told)

\* Calls are atomic while no budget expires, no node fails and the process
\* stays up: until the first fault, the commits of a call make one action of
\* Court, visible when the call ends.
CallsAreAtomic ==
  Atomic!Init /\ [][timeouts' + losses' = 0 => Atomic!Next]_(Atomic!vars)
=============================================================================

----------------------------- MODULE MCDelivery -----------------------------
(***************************************************************************)
(* A requester and two approvers, an activity for each thing they can do,  *)
(* and a memory that is too small for all of them.                         *)
(***************************************************************************)
EXTENDS Delivery

MCApprovers == <<"amy", "bob">>
MCActivities ==
  [open |-> [by |-> "req", tool |-> "text"],
   send |-> [by |-> "req", tool |-> "send"],
   vote |-> [by |-> "amy", tool |-> "decide"]]
=============================================================================

------------------------------ MODULE MCRunLog ------------------------------
(***************************************************************************)
(* A graph of one node before the gate and one behind it: a start and two  *)
(* resumes, two of the three at a time, and one refused write.             *)
(***************************************************************************)
EXTENDS RunLog

MCNodes == <<"intake", "execute">>
=============================================================================

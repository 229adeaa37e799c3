----------------------------- MODULE MCJobQueue -----------------------------
(* Instances of JobQueue for TLC: every constant is given by the cfgs.       *)
EXTENDS JobQueue
=============================================================================

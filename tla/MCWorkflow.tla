----------------------------- MODULE MCWorkflow -----------------------------
(* Instances of Workflow for TLC. *)
EXTENDS Workflow

\* Missing, two instants in one microsecond, and one in the next.
MCTimes == {0, 1000, 1500, 2000}
=============================================================================

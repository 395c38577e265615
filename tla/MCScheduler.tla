----------------------------- MODULE MCScheduler -----------------------------
(* Small instances of Scheduler for TLC; see the cfg files.                  *)
EXTENDS Scheduler

CONSTANTS p0, p1

(* Two program points are enough to tell a stale frame from a current one.   *)
MCPoint == {p0, p1}
==============================================================================

----------------------------- MODULE MCRuntime -----------------------------
(* Two processes: one execution sees an export, with a letter beside it, or *)
(* sign-ins of one person and the recovery of a password.                   *)
EXTENDS Runtime

CONSTANTS x1, s1, s2, r1, r2

MCAgenda ==
  {[jobs |-> {ReportOf(x1), CleanupOf(x1)}, sessions |-> {}, resets |-> {r1}],
   [jobs |-> {}, sessions |-> {s1, s2}, resets |-> {r1}],
   [jobs |-> {}, sessions |-> {}, resets |-> {r1, r2}]}
=============================================================================

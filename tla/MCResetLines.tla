---- MODULE MCResetLines ----
(* Model-checking instances of ResetLines, by the jobs the user may start.   *)
EXTENDS ResetLines
MCAllJobs == Modes \cup {"program", "restart", "select", "deselect"}
MCOrdered == MCAllJobs \ {"reset_all"}
====

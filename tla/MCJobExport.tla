----------------------------- MODULE MCJobExport -----------------------------
(* JobExport for TLC: the JobRunner instance of MCJobRunner with an export. *)
EXTENDS JobExport

CONSTANTS c1, c2

MCOneClient == {c1}
=============================================================================

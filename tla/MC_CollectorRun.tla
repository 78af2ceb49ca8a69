-------------------------- MODULE MC_CollectorRun --------------------------
(***************************************************************************)
(* Small instances of CollectorRun for TLC.                                *)
(***************************************************************************)
EXTENDS CollectorRun

\* One of each order in which a source reads and writes, as rf-survey has them.
Survey == <<"cim", "command", "eventlog">>
=============================================================================

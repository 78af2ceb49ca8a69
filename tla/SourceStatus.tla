---------------------------- MODULE SourceStatus ----------------------------
(***************************************************************************)
(* How a collector decides the measurement status of one source            *)
(* (collectors/windows/_common.ps1: Resolve-WfSourceStatus and             *)
(* Test-WfKeepPartialExport), from what its read came to:                  *)
(*   error      the kind of the read error, "none" when it ended           *)
(*   count      rows exported                                              *)
(*   truncated  a cap cut the export                                       *)
(*   oldest     the time of a record known to be retained, None when none  *)
(*              is known                                                   *)
(***************************************************************************)
EXTENDS Integers

Observed == {"observed", "observed_zero"}
Statuses == Observed \cup {"unsupported", "not_collected", "capture_failed"}

\* What keeps a source from being opened, and what ends a read early.
OpenErrors == {"not_found", "access_denied", "preflight"}
ReadErrors == {"timeout", "incomplete", "other"}

SourceStatus(error, count, truncated, oldestKnown, quietVerified) ==
  IF error = "not_found" THEN "unsupported"
  ELSE IF error \in {"access_denied", "preflight"} THEN "not_collected"
  ELSE IF error \in ReadErrors \/ truncated THEN "capture_failed"
  ELSE IF count > 0 THEN "observed"
  ELSE IF oldestKnown /\ quietVerified THEN "observed_zero"
  ELSE "capture_failed"

\* A failed source keeps its primary export only when a cap cut it.
KeepsPrimary(status, truncated, count) ==
  status \in Observed \/ (truncated /\ count > 0)
=============================================================================

---------------------------- MODULE EventSource ----------------------------
(***************************************************************************)
(* One event log source of a collector (collectors/windows/_common.ps1,    *)
(* Invoke-WfEventSource and what it calls), while the PC goes on writing   *)
(* to the log.                                                             *)
(*                                                                         *)
(* The source fixes a query interval, pulls the matching records newest    *)
(* first under a deadline and two caps, probes the oldest record the log   *)
(* still holds, writes events.json, exports events.evtx, and decides what  *)
(* status the source has and from which time on it speaks for the log.     *)
(* Meanwhile records are raised, the log drops its oldest ones to make     *)
(* room, and it may be cleared.                                            *)
(*                                                                         *)
(* Abstractions.  Records are numbered in the order they were raised.      *)
(* The byte cap may cut the export at any row.  A unit of time is a tick   *)
(* of the system timer: Get-WfUtcNow returns the last tick, so a record    *)
(* raised after the window end was read carries a later time.              *)
(***************************************************************************)
EXTENDS SourceStatus, Sequences, FiniteSetsExt

CONSTANTS
  Window,      \* the length of the query interval
  Timeout,     \* TimeoutSeconds, from the start of the source
  MaxEvents,   \* the row cap
  MaxRecords,  \* bound: records ever raised
  LastTime,    \* bound: the last time of the clock
  SetsBack,    \* bound: how often the clock is set back before the run
  None         \* "not known", "no file"

Time == 0 .. LastTime

ASSUME ConstantsAssumption ==
  /\ {Window, Timeout, MaxEvents, MaxRecords, LastTime, SetsBack} \subseteq Nat
  /\ MaxEvents > 0

ASSUME NoneAssumption ==
  /\ None \notin (-Window .. LastTime)
  /\ \A S \in SUBSET (1 .. MaxRecords) : None # S

VARIABLES
  now,        \* the clock of the PC
  setback,    \* how often it was set back
  ever,       \* every record ever raised in the channel, in order
  first,      \* the number of the oldest one still retained
  source,     \* what the collector's definition says of the source
  pc,         \* where Invoke-WfEventSource is
  windowEnd,  \* window_end_utc
  deadline,
  pos,        \* records below this number have not been pulled
  rows,       \* numbers of the records in the accumulator
  error,      \* the kind of read error, "none" when there is none
  truncated,  \* a cap was reached
  oldest,     \* state.oldest_record_time_utc
  primary,    \* events.json: the records in it, None when there is no file
  evtx,       \* events.evtx, likewise
  status,     \* entry.status
  covered     \* raw_time_range.start

log    == <<ever, first>>
clock  == <<now, setback>>
read   == <<pos, rows, error, truncated>>
entry  == <<primary, evtx, status, covered>>
vars   == <<clock, log, source, pc, windowEnd, deadline, read, oldest, entry>>

-----------------------------------------------------------------------------

Record == [at : Time, matches : BOOLEAN]

\* QuietClaimVerified and Protect of the definition.
Definition == [verified : BOOLEAN, protect : BOOLEAN]

Retained == first .. Len(ever)
WindowStart == windowEnd - Window

\* Mutant of InQuery: the interval has no upper bound.
InQueryOpenEnded(i) == ever[i].matches /\ ever[i].at >= WindowStart

\* The structured query selects the matching records of a fixed interval.
InQuery(i) ==
  /\ ever[i].matches
  /\ ever[i].at >= WindowStart
  /\ ever[i].at <= windowEnd

\* What the reader has not returned yet of what the log still holds.
Ahead == {i \in Retained : i < pos /\ InQuery(i)}

\* Mutant of CoveredStart: the range always starts at the window start.
CoveredWholeWindow == IF error = "none" THEN WindowStart ELSE None

\* The later of the window start and the oldest retained record; without one,
\* the earliest record exported.
CoveredStart ==
  IF error # "none" THEN None
  ELSE IF oldest # None THEN IF oldest > WindowStart THEN oldest ELSE WindowStart
  ELSE IF rows # {} THEN ever[Min(rows)].at
  ELSE None

Conclusion ==
  SourceStatus(error, Cardinality(rows), truncated, oldest # None,
               source.verified)

Init ==
  /\ now = 0 /\ setback = 0
  /\ ever = <<>> /\ first = 1
  /\ source \in Definition
  /\ pc = "start"
  /\ windowEnd = 0 /\ deadline = 0
  /\ pos = 1 /\ rows = {} /\ error = "none" /\ truncated = FALSE
  /\ oldest = None
  /\ primary = None /\ evtx = None
  /\ status = "not_collected" /\ covered = None

-----------------------------------------------------------------------------
(* The PC.                                                                 *)

Tick ==
  /\ now < LastTime
  /\ now' = now + 1
  /\ UNCHANGED <<setback, log, source, pc, windowEnd, deadline, read, oldest,
                 entry>>

\* A record is raised, and the log makes room for it from its oldest end.
Raise ==
  /\ Len(ever) < MaxRecords
  /\ \E m \in BOOLEAN : ever' = Append(ever, [at |-> now, matches |-> m])
  /\ first' \in first .. Len(ever) + 1
  /\ UNCHANGED <<clock, source, pc, windowEnd, deadline, read, oldest, entry>>

\* Somebody clears the log.
Clear ==
  /\ Retained # {}
  /\ first' = Len(ever) + 1
  /\ UNCHANGED <<clock, ever, source, pc, windowEnd, deadline, read, oldest,
                 entry>>

\* Some time before the run the clock was set back.
SetBack ==
  /\ pc = "start"
  /\ setback < SetsBack
  /\ now' \in {t \in Time : t < now}
  /\ setback' = setback + 1
  /\ UNCHANGED <<log, source, pc, windowEnd, deadline, read, oldest, entry>>

-----------------------------------------------------------------------------
(* The source.                                                             *)

Goto(from, to) == pc = from /\ pc' = to

\* The deadline and the interval are fixed and query.xml is written.
Begin ==
  /\ now < LastTime
  /\ Goto("start", "open")
  /\ windowEnd' = now
  /\ deadline' = now + Timeout
  /\ now' = now + 1
  /\ UNCHANGED <<setback, log, source, read, oldest, entry>>

OpenRefused ==
  /\ Goto("open", "probe")
  /\ error' \in OpenErrors
  /\ UNCHANGED <<clock, log, source, windowEnd, deadline, pos, rows,
                 truncated, oldest, entry>>

Opened ==
  /\ Goto("open", "read")
  /\ pos' = Len(ever) + 1
  /\ UNCHANGED <<clock, log, source, windowEnd, deadline, rows, error,
                 truncated, oldest, entry>>

\* A pull that returns nothing before the deadline: the end of the records.
PullEnd ==
  /\ Ahead = {}
  /\ now < deadline
  /\ Goto("read", "probe")
  /\ UNCHANGED <<clock, log, source, windowEnd, deadline, read, oldest, entry>>

\* Add-WfRow keeps the newest record not pulled yet.
PullRow ==
  /\ pc = "read"
  /\ now < deadline
  /\ Ahead # {}
  /\ Cardinality(rows) < MaxEvents
  /\ rows' = rows \cup {Max(Ahead)}
  /\ pos' = Max(Ahead)
  /\ UNCHANGED <<clock, log, source, pc, windowEnd, deadline, error,
                 truncated, oldest, entry>>

\* Add-WfRow drops it: the row cap, or at any row the byte cap.
PullCut ==
  /\ now < deadline
  /\ Ahead # {}
  /\ Goto("read", "probe")
  /\ pos' = Max(Ahead)
  /\ truncated' = TRUE
  /\ UNCHANGED <<clock, log, source, windowEnd, deadline, rows, error,
                 oldest, entry>>

\* Mutant of PullFails: a record that cannot be converted is skipped.
PullSkips ==
  /\ pc = "read"
  /\ Ahead # {}
  /\ pos' = Max(Ahead)
  /\ UNCHANGED <<clock, log, source, pc, windowEnd, deadline, rows, error,
                 truncated, oldest, entry>>

\* The deadline has passed, a record cannot be converted, or the reader throws.
PullFails ==
  /\ Goto("read", "probe")
  /\ \/ now >= deadline /\ error' = "timeout"
     \/ now < deadline /\ Ahead # {} /\ error' = "incomplete"
     \/ now < deadline /\ error' = "other"
  /\ UNCHANGED <<clock, log, source, windowEnd, deadline, pos, rows,
                 truncated, oldest, entry>>

\* Get-WfChannelState: the oldest record the log holds now. The channel may be
\* refused, hold nothing, or not answer in time.
Probe ==
  /\ Goto("probe", "write")
  /\ \/ oldest' = None
     \/ now < deadline /\ Retained # {} /\ oldest' = ever[first].at
  /\ UNCHANGED <<clock, log, source, windowEnd, deadline, read, entry>>

\* events.json is written when the read ended, by itself or at a cap.
Write ==
  /\ Goto("write", IF error = "none" /\ ~truncated /\ ~source.protect
                     THEN "export" ELSE "conclude")
  /\ primary' = IF error = "none" THEN rows ELSE None
  /\ UNCHANGED <<clock, log, source, windowEnd, deadline, read, oldest, evtx,
                 status, covered>>

\* wevtutil epl runs the same query on the log as it is now, if any time is
\* left.  A file that is too large or that the tool failed to finish is removed.
Export ==
  /\ Goto("export", "conclude")
  /\ \/ UNCHANGED evtx
     \/ now < deadline /\ evtx' = {i \in Retained : InQuery(i)}
  /\ UNCHANGED <<clock, log, source, windowEnd, deadline, read, oldest,
                 primary, status, covered>>

Conclude ==
  /\ Goto("conclude", "done")
  /\ status' = Conclusion
  /\ covered' = CoveredStart
  /\ primary' = IF KeepsPrimary(Conclusion, truncated, Cardinality(rows))
                  THEN primary ELSE None
  /\ UNCHANGED <<clock, log, source, windowEnd, deadline, read, oldest, evtx>>

\* Any file or directory call may throw; the catch block removes events.json.
Raises ==
  /\ pc \in {"open", "probe", "write", "export", "conclude"}
  /\ pc' = "done"
  /\ status' = "capture_failed"
  /\ primary' = None
  /\ UNCHANGED <<clock, log, source, windowEnd, deadline, read, oldest, evtx,
                 covered>>

-----------------------------------------------------------------------------

Machine == Tick \/ Raise \/ Clear \/ SetBack

Source ==
  \/ Begin \/ OpenRefused \/ Opened \/ PullEnd \/ PullRow \/ PullCut
  \/ PullFails \/ Probe \/ Write \/ Export \/ Conclude \/ Raises

\* Bound: what the PC does after the source is done is of no interest to it.
Next == (pc # "done" /\ Machine) \/ Source

Spec == Init /\ [][Next]_vars

-----------------------------------------------------------------------------
(* Properties.                                                             *)

Steps == {"start", "open", "read", "probe", "write", "export", "conclude",
          "done"}

\* Every variable keeps its type, and the accumulator never exceeds its cap.
TypeOK ==
  /\ now \in Time /\ setback \in 0 .. SetsBack
  /\ ever \in Seq(Record) /\ first \in 1 .. Len(ever) + 1
  /\ source \in Definition
  /\ pc \in Steps
  /\ windowEnd \in Time /\ deadline \in Nat
  /\ pos \in Nat
  /\ rows \in SUBSET (1 .. Len(ever)) /\ Cardinality(rows) <= MaxEvents
  /\ error \in {"none"} \cup OpenErrors \cup ReadErrors
  /\ truncated \in BOOLEAN
  /\ oldest \in Time \cup {None}
  /\ primary \in {None} \cup SUBSET (1 .. Len(ever))
  /\ evtx \in {None} \cup SUBSET (1 .. Len(ever))
  /\ status \in Statuses
  /\ covered \in Int \cup {None}

Done == pc = "done"

\* Records the source speaks for: matching, after the covered start, up to the
\* window end. A record with the covered start's own time is left out: it may
\* have been dropped together with others of that time.
Spoken == {i \in 1 .. Len(ever) :
             /\ ever[i].matches
             /\ covered < ever[i].at
             /\ ever[i].at <= windowEnd}

\* An observed source, quiet or not, exports every record that was EVER raised
\* in the range it speaks for, whatever the log dropped, and whenever: during
\* the read, before the probe or after it (the expectation every entry states:
\* "every record matching query.xml inside the covered range is exported").
\* Not so on a PC whose clock was set back: the log drops by order, the range
\* goes by time, and a record that was dropped may lie in it.
CoveredComplete ==
  (Done /\ setback = 0 /\ status \in Observed) => Spoken \subseteq primary

\* A failed source leaves no events.json behind but a capped one, and what a
\* capped one holds is the newest records of the interval without a hole.
NoHoles ==
  (Done /\ primary # None) =>
    /\ status \in Observed \/ (truncated /\ primary # {})
    /\ \A i \in primary, j \in 1 .. Len(ever) :
         (InQuery(j) /\ j > i) => j \in primary

\* The two exports come from one query, so the binary one never holds a record
\* the structured one does not, although it is read later.
BinaryWithin ==
  (Done /\ primary # None /\ evtx # None) => evtx \subseteq primary

\* "an empty export is only called a quiet window when the oldest retained
\* record proves the range was covered" (_common.ps1:959). A record later than
\* the window end proves nothing about the window.
QuietProved ==
  (Done /\ status = "observed_zero") => covered <= windowEnd
=============================================================================

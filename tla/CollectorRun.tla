---------------------------- MODULE CollectorRun ----------------------------
(***************************************************************************)
(* One run of a collector (collectors/windows/_common.ps1: Invoke-         *)
(* WfCollectorScript, Invoke-WfCollector and the Invoke-Wf*Source          *)
(* functions): its sources one after the other, the files each leaves      *)
(* under raw/, the manifest, the logs and the exit code; and what          *)
(* scripts/verify_bundle.py asks of the bundle.                            *)
(*                                                                         *)
(* Any call may throw.  Inside a source that ends the source, outside it   *)
(* ends the run.  wevtutil, once stopped, may keep its file open for a     *)
(* while, since Invoke-WfProcess does not wait for the process to be gone. *)
(*                                                                         *)
(* Abstractions.  A source reads in one step (EventSource has the steps of *)
(* one kind); the result says whether an empty read is proved to be empty, *)
(* by whatever that kind of source accepts as proof.  A file under raw/ is *)
(* its role: nothing changes one after it was listed.  A log that was cut  *)
(* off counts as not written.                                              *)
(***************************************************************************)
EXTENDS SourceStatus, Sequences

CONSTANTS
  Sources,    \* the kinds of the definition's sources, in order
  MaxFaults,  \* bound: calls that throw by themselves
  None        \* "not there yet"

Kinds == {"eventlog", "cim", "command", "file", "pnp"}

ASSUME SourcesAssumption ==
  /\ Sources \in Seq(Kinds) /\ Sources # <<>>
  /\ MaxFaults \in Nat

VARIABLES
  lingers,   \* whether this PC lets a stopped tool keep its file open
  pc,        \* where the run is
  src,       \* the source it is at
  step,      \* the place in that source, an index into Order
  result,    \* what the source has read
  outcome,   \* entry.status
  files,     \* for each source what is under raw/<id>/
  held,      \* the source whose export a stopped tool keeps open, 0 for none
  entries,   \* the entries so far, those of the manifest once it is whole
  manifest,  \* manifest.json: "absent", "torn" (cut off), "whole"
  summary,   \* logs/summary.json
  log,       \* logs/collector.log: "run", or "failure" with its last sentence
  exit,      \* the exit code
  faults

place == <<pc, src, step>>
disk  == <<files, held, manifest, summary, log>>
vars  == <<lingers, place, result, outcome, disk, entries, exit, faults>>

-----------------------------------------------------------------------------

Files == {"config", "report", "primary", "export"}

\* The order in which each kind reads and writes.
Order ==
  [eventlog |-> <<"config", "read", "report", "primary", "export", "decide">>,
   cim      |-> <<"config", "read", "primary", "decide">>,
   command  |-> <<"config", "read", "primary", "report", "decide">>,
   file     |-> <<"config", "read", "primary", "report", "decide">>,
   pnp      |-> <<"config", "read", "primary", "report", "decide">>]

\* The read errors each kind can report.
Errors ==
  [eventlog |-> OpenErrors \cup ReadErrors,
   cim      |-> {"not_found", "access_denied", "timeout", "other"},
   command  |-> {"preflight", "timeout", "other"},
   file     |-> {"preflight", "access_denied", "other"},
   pnp      |-> {"not_found", "access_denied", "timeout", "other"}]

\* proof: records older than the window (eventlog, cim with a time property),
\* EmptySnapshotIsObservation, ZeroRule or ZeroIsObservation of the definition.
Result ==
  [error : {"none"} \cup OpenErrors \cup ReadErrors, count : {0, 1},
   truncated : BOOLEAN, proof : BOOLEAN]

ASSUME NoneAssumption == None \notin Result /\ None \notin {0, 1}

Results(kind) ==
  {r \in Result :
     /\ r.error \in {"none"} \cup Errors[kind]
     /\ r.truncated => r.error = "none" /\ kind \notin {"command", "file"}
     /\ kind \in {"cim", "command", "file"} /\ r.error # "none" => r.count = 0
     /\ kind = "file" /\ r.error = "none" => r.count = 1}

Decide(r) == SourceStatus(r.error, r.count, r.truncated, r.proof, TRUE)

\* Get-WfSummaryStatus.
Summary(list) ==
  LET good == {i \in DOMAIN list : list[i].status \in Observed}
  IN IF good = DOMAIN list THEN "ok" ELSE IF good # {} THEN "partial" ELSE "failed"

Init ==
  /\ lingers \in BOOLEAN
  /\ pc = "layout" /\ src = 1 /\ step = 1
  /\ result = None /\ outcome = "not_collected"
  /\ files = [i \in DOMAIN Sources |-> {}] /\ held = 0
  /\ entries = <<>>
  /\ manifest = "absent" /\ summary = "absent" /\ log = "absent"
  /\ exit = None
  /\ faults = 0

-----------------------------------------------------------------------------
(* A source.                                                               *)

Layout ==
  /\ pc = "layout" /\ pc' = "source"
  /\ UNCHANGED <<lingers, src, step, result, outcome, disk, entries, exit,
                 faults>>

Kind == Sources[src]
At(s) == pc = "source" /\ Order[Kind][step] = s
Advance == step' = step + 1 /\ UNCHANGED <<pc, src>>

Leave(set) == files' = [files EXCEPT ![src] = set]

WriteFile(f) ==
  /\ At(f) /\ Advance
  /\ Leave(files[src] \cup {f})
  /\ UNCHANGED <<lingers, result, outcome, held, entries, manifest, summary,
                 log, exit, faults>>

WriteConfig == WriteFile("config")
WriteReport == WriteFile("report")

Read ==
  /\ At("read") /\ Advance
  /\ result' \in Results(Kind)
  /\ UNCHANGED <<lingers, outcome, disk, entries, exit, faults>>

WritePrimary ==
  /\ At("primary") /\ Advance
  /\ Leave(files[src] \cup (IF result.error = "none" THEN {"primary"} ELSE {}))
  /\ UNCHANGED <<lingers, result, outcome, held, entries, manifest, summary,
                 log, exit, faults>>

\* Mutant of Export: a binary export that was not produced raises.
ExportFatal ==
  /\ At("export")
  /\ pc' = "artifacts" /\ outcome' = "capture_failed"
  /\ Leave(files[src] \ {"primary"})
  /\ UNCHANGED <<lingers, src, step, result, held, entries, manifest, summary,
                 log, exit, faults>>

\* Export-WfEvtx, for a complete read of a source that is not protected. What
\* wevtutil left of an export that failed is removed.
Export ==
  /\ At("export") /\ Advance
  /\ \/ UNCHANGED files
     \/ /\ result.error = "none" /\ ~result.truncated
        /\ Leave(files[src] \cup {"export"})
  /\ UNCHANGED <<lingers, result, outcome, held, entries, manifest, summary,
                 log, exit, faults>>

\* The removal throws while wevtutil, stopped at the deadline, has the file
\* open; the catch block removes events.json.
ExportHeld ==
  /\ lingers
  /\ At("export")
  /\ result.error = "none" /\ ~result.truncated
  /\ held' = src
  /\ Leave((files[src] \cup {"export"}) \ {"primary"})
  /\ outcome' = "capture_failed"
  /\ pc' = "artifacts"
  /\ UNCHANGED <<lingers, src, step, result, entries, manifest, summary, log,
                 exit, faults>>

\* The stopped tool is gone.
Release ==
  /\ held # 0 /\ held' = 0
  /\ UNCHANGED <<lingers, place, result, outcome, files, entries, manifest,
                 summary, log, exit, faults>>

\* The status, and Remove-WfPrimaryUnlessKept.
DecideStatus ==
  /\ At("decide") /\ pc' = "artifacts"
  /\ outcome' = Decide(result)
  /\ Leave(IF KeepsPrimary(outcome', result.truncated, result.count)
             THEN files[src] ELSE files[src] \ {"primary"})
  /\ UNCHANGED <<lingers, src, step, result, held, entries, manifest, summary,
                 log, exit, faults>>

\* Mutant of Caught: the catch block only records the failure.
CaughtKeeps ==
  /\ pc = "source" /\ faults < MaxFaults
  /\ faults' = faults + 1
  /\ outcome' = "capture_failed" /\ pc' = "artifacts"
  /\ UNCHANGED <<lingers, src, step, result, disk, entries, exit>>

\* A call of the source throws, and may have written a part of its file. The
\* catch block removes the primary; where that throws too, the run ends.
Caught ==
  /\ pc = "source" /\ faults < MaxFaults
  /\ outcome' = "capture_failed"
  /\ \E part \in SUBSET ({Order[Kind][step]} \cap Files) :
       LET there == files[src] \cup part
       IN \/ /\ pc' = "artifacts" /\ faults' = faults + 1
             /\ Leave(there \ {"primary"})
          \/ /\ faults + 1 < MaxFaults /\ "primary" \in there
             /\ pc' = "failure" /\ faults' = faults + 2
             /\ Leave(there)
  /\ UNCHANGED <<lingers, src, step, result, held, entries, manifest, summary,
                 log, exit>>

-----------------------------------------------------------------------------
(* The run.                                                                *)

\* Mutant of Listed: the artifacts are what the code meant to write.
ListedAsMeant ==
  {f \in Files : \E k \in 1 .. Len(Order[Kind]) : Order[Kind][k] = f}

\* Get-WfArtifactRecords lists the directory.
Listed == files[src]

NextSource ==
  IF src < Len(Sources)
    THEN /\ pc' = "source" /\ src' = src + 1 /\ step' = 1
         /\ outcome' = "not_collected" /\ result' = None
    ELSE pc' = "manifest" /\ UNCHANGED <<src, step, outcome, result>>

\* The entry is complete once its files are listed and hashed.
List ==
  /\ pc = "artifacts" /\ held # src
  /\ entries' = Append(entries, [status |-> outcome, artifacts |-> Listed,
                                 read |-> result])
  /\ NextSource
  /\ UNCHANGED <<lingers, disk, exit, faults>>

\* A file that another process has open cannot be hashed: the run ends.
ListBlocked ==
  /\ pc = "artifacts" /\ held = src
  /\ pc' = "failure"
  /\ UNCHANGED <<lingers, src, step, result, outcome, disk, entries, exit,
                 faults>>

WriteManifest ==
  /\ pc = "manifest" /\ pc' = "summary"
  /\ manifest' = "whole"
  /\ UNCHANGED <<lingers, src, step, result, outcome, files, held, entries,
                 summary, log, exit, faults>>

WriteSummary ==
  /\ pc = "summary" /\ pc' = "log"
  /\ summary' = Summary(entries)
  /\ UNCHANGED <<lingers, src, step, result, outcome, files, held, entries,
                 manifest, log, exit, faults>>

WriteLog ==
  /\ pc = "log" /\ pc' = "exit"
  /\ log' = "run"
  /\ UNCHANGED <<lingers, src, step, result, outcome, files, held, entries,
                 manifest, summary, exit, faults>>

Exit ==
  /\ pc = "exit" /\ pc' = "done"
  /\ exit' = IF Summary(entries) # "failed" THEN 0 ELSE 1
  /\ UNCHANGED <<lingers, src, step, result, outcome, disk, entries, faults>>

\* A call outside the try block of a source throws. Before the layout is there
\* and after both logs are, none are written.
Abort ==
  /\ \/ pc \in {"layout", "artifacts", "manifest", "summary", "log", "exit"}
     \/ pc = "source" /\ step = 1
  /\ faults < MaxFaults
  /\ faults' = faults + 1
  /\ IF pc \in {"layout", "exit"}
       THEN pc' = "done" /\ exit' = 1
       ELSE pc' = "failure" /\ UNCHANGED exit
  /\ \/ UNCHANGED manifest
     \/ pc = "manifest" /\ manifest' = "torn"
  /\ UNCHANGED <<lingers, src, step, result, outcome, files, held, summary,
                 log, entries>>

\* The catch block of the script writes the failed summary and a log that
\* ends with "no manifest was written"; it may fail at either.
Failure ==
  /\ pc = "failure" /\ pc' = "done"
  /\ exit' = 1
  /\ \/ summary' = "failed" /\ log' = "failure" /\ UNCHANGED faults
     \/ /\ faults < MaxFaults /\ faults' = faults + 1
        /\ summary' \in {summary, "failed"}
        /\ UNCHANGED log
  /\ UNCHANGED <<lingers, src, step, result, outcome, files, held, manifest,
                 entries>>

SourceStep ==
  \/ WriteConfig \/ Read \/ WriteReport \/ WritePrimary
  \/ Export \/ ExportHeld \/ DecideStatus \/ Caught

Next ==
  \/ Layout \/ SourceStep \/ List \/ ListBlocked
  \/ WriteManifest \/ WriteSummary \/ WriteLog \/ Exit \/ Abort \/ Failure
  \/ Release

Spec == Init /\ [][Next]_vars

-----------------------------------------------------------------------------
(* What the Mac asks.                                                      *)

\* verify_bundle.py: every artifact is there, no file under raw/ is unlisted,
\* and an observed source has an artifact. (That the others have a reason
\* holds of every status: see SourceStatus.)
Verifies ==
  /\ manifest = "whole"
  /\ \A i \in DOMAIN entries :
       /\ entries[i].artifacts \subseteq files[i]
       /\ entries[i].status \in Observed => entries[i].artifacts # {}
  /\ \A i \in DOMAIN files :
       files[i] # {} => i \in DOMAIN entries /\ files[i] \subseteq entries[i].artifacts

-----------------------------------------------------------------------------
(* Properties.                                                             *)

Places == {"layout", "source", "artifacts", "manifest", "summary", "log",
           "exit", "failure", "done"}

Entry == [status : Statuses, artifacts : SUBSET Files, read : Result \cup {None}]

\* Every variable keeps its type; the loop visits every source once.
TypeOK ==
  /\ lingers \in BOOLEAN
  /\ pc \in Places
  /\ src \in DOMAIN Sources
  /\ step \in DOMAIN Order[Kind]
  /\ result \in Result \cup {None}
  /\ outcome \in Statuses
  /\ files \in [DOMAIN Sources -> SUBSET Files]
  /\ held \in {0} \cup DOMAIN Sources
  /\ entries \in Seq(Entry) /\ Len(entries) <= Len(Sources)
  /\ manifest \in {"absent", "torn", "whole"}
  /\ summary \in {"absent", "ok", "partial", "failed"}
  /\ log \in {"absent", "run", "failure"}
  /\ exit \in {None, 0, 1}
  /\ faults \in 0 .. MaxFaults

\* A run that gets to its log, and so every run that exits 0, leaves a bundle
\* the verifier accepts, with an entry for every source, whatever threw in a
\* source ("a file under raw/ can never be missing from the manifest").
BundleVerifies ==
  (log = "run" \/ exit = 0) => Verifies /\ DOMAIN entries = DOMAIN Sources

\* A decoder that trusts the manifest: an observed source has its primary, and
\* a primary is there only from a read that ended, whole or at a cap.
PrimaryTrusted ==
  log = "run" =>
    \A i \in DOMAIN entries :
      LET e == entries[i]
      IN /\ e.status \in Observed => "primary" \in e.artifacts
         /\ "primary" \in e.artifacts =>
              /\ e.read # None /\ e.read.error = "none"
              /\ e.status \in Observed \/ (e.read.truncated /\ e.read.count > 0)

\* When no call throws, and tools are gone when they are stopped, every source
\* gets the status its read earned and the run its manifest: a binary export
\* that was not produced costs nothing else.
DecidedByRead ==
  (exit # None /\ faults = 0 /\ ~lingers) =>
    /\ Len(entries) = Len(Sources) /\ manifest = "whole"
    /\ \A i \in DOMAIN entries : entries[i].status = Decide(entries[i].read)
=============================================================================

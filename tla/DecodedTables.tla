--------------------------- MODULE DecodedTables ---------------------------
(***************************************************************************)
(* The four decoders of src/scripts (decode_rf_survey, decode_eventlog,    *)
(* decode_pdh, decode_dpcisr) and the analyzer's load_tables.              *)
(*                                                                         *)
(* A decoder reads raw exports of the bundle and writes, for each of its   *)
(* tables, first the rows and then the sidecar that gives their status.    *)
(* Neither write is atomic and nothing ties the two files together; the    *)
(* decoder may be stopped anywhere and run again, over exports that were   *)
(* damaged in between.  What a row says is not modelled here.              *)
(***************************************************************************)
EXTENDS Naturals, Sequences, SequencesExt

CONSTANTS
  Decoders,     \* the decoders looked at
  SourcesOf,    \* the exports each table is decoded from, in order
  TablesOf,     \* the tables each decoder writes, in order
  MaxRuns,      \* most decoder runs
  MaxDamage,    \* most exports damaged after the collection
  Absent, Broken

Tables == UNION {Range(TablesOf[d]) : d \in Decoders}
Sources == UNION {Range(SourcesOf[t]) : t \in Tables}
Status == {"observed", "observed_zero", "decode_failed"}

\* A decoder has a table to write, a table is decoded from exports, and what is not
\* there is no file.
ASSUME LayoutAssumption ==
  /\ \A d \in Decoders : TablesOf[d] \in Seq(Tables) /\ TablesOf[d] # << >>
  /\ \A t \in Tables : SourcesOf[t] \in Seq(Sources)

VARIABLES
  decoder,    \* the decoder that is run
  claim,      \* the status the manifest gives each source
  raw,        \* what the export of each source holds now
  damage,     \* exports damaged so far
  run,        \* runs started
  stage,      \* where the run is: "idle", "decode", or a step of the two writes
  todo,       \* tables the run has not finished; the first is being written
  result,     \* what the first of them decoded to
  rows,       \* decoded/<table>.jsonl
  meta,       \* decoded/<table>.meta.json
  cut         \* tables whose last write was cut short

vars == <<decoder, claim, raw, damage, run, stage, todo, result, rows, meta, cut>>

-----------------------------------------------------------------------------
(* What a table decodes to.                                                *)

\* The places of the exports a table is decoded from: decode_pdh and decode_dpcisr
\* are told their source, the others take those the manifest calls observed.
Usable(t) ==
  {i \in DOMAIN SourcesOf[t] :
     decoder \in {"pdh", "dpcisr"} \/ claim[SourcesOf[t][i]] \in {"observed", "observed_zero"}}

Raw(t, i) == raw[SourcesOf[t][i]]

\* decode_dpcisr reads one report for two tables. Module rows that the schema refuses,
\* or none at all, fail both tables, and interval rows that it refuses fail their own;
\* a report without interval rows leaves that table empty.  Of a report that does not
\* reconcile the rows are "kept" though both tables failed.
ReadReport(t, report) ==
  CASE report = "rows" -> "rows"
    [] report = "no_intervals" -> IF t = "dpcisr_interval" THEN "none" ELSE "rows"
    [] report = "bad_intervals" -> IF t = "dpcisr_interval" THEN "invalid" ELSE "rows"
    [] report = "invalid" -> IF t = "dpcisr_interval" THEN "kept" ELSE "invalid"
    [] report = "unreconciled" -> "kept"
    [] report \in {"empty", "garbled"} -> "error"
    [] report \in {"missing", "binary"} -> "abort"

\* A netsh listing that lost its layout reads as one without lines.
ReadsBlank(t, i) ==
  t = "netsh_fields" \/ (t = "wlan_bss" /\ claim[SourcesOf[t][i]] = "observed_zero")

\* How reading an export ends: "rows" or "none", "invalid" rows the schema
\* refuses, an "error" the decoder turns into a status, or "abort", an exception
\* it does not catch.
Read(t, i) ==
  IF decoder = "dpcisr" THEN ReadReport(t, Raw(t, i)) ELSE
  CASE Raw(t, i) \in {"rows", "invalid"} -> Raw(t, i)
    [] Raw(t, i) = "empty" -> "none"
    [] Raw(t, i) = "garbled" /\ ReadsBlank(t, i) -> "none"
    [] Raw(t, i) = "missing" /\ decoder = "pdh" -> "abort"
    [] Raw(t, i) = "binary" /\ t \in {"netsh_fields", "wlan_bss"} -> "abort"
    [] OTHER -> "error"

Reads(t) == {Read(t, i) : i \in Usable(t)}

\* The exports are read in order, up to the first that cannot be read.
Ends(t, how) ==
  \E i \in Usable(t) :
    /\ Read(t, i) = how
    /\ \A j \in Usable(t) : j < i => Read(t, j) \notin {"error", "abort"}

\* Nothing is written for a table without a readable source.  decode_rf_survey
\* writes none when the first export is missing, decode_eventlog none when any is.
Unwritten(t) ==
  \/ Usable(t) = {}
  \/ decoder = "rf" /\ \E i \in Usable(t) : Raw(t, i) = "missing" /\ \A j \in Usable(t) : i <= j
  \/ decoder = "eventlog" /\ \E i \in Usable(t) : Raw(t, i) = "missing"

\* Mutant of StatusOf: an export that could not be read is left out.
StatusSkipping(t) ==
  IF "invalid" \in Reads(t) THEN "decode_failed"
  ELSE IF "rows" \in Reads(t) THEN "observed" ELSE "observed_zero"

\* The status of a table that is written.
StatusOf(t) ==
  IF Ends(t, "error") \/ Reads(t) \intersect {"invalid", "kept"} # {} THEN "decode_failed"
  ELSE IF "rows" \in Reads(t) THEN "observed" ELSE "observed_zero"

\* The rows written: none of a failed decode, but for the reports that keep theirs.
HasRows(t) ==
  StatusOf(t) = "observed" \/ "kept" \in Reads(t)

-----------------------------------------------------------------------------
Init ==
  /\ decoder \in Decoders
  /\ claim \in [Sources -> {"observed", "observed_zero", "unavailable"}]
  /\ \A s \in Sources :
       s \notin UNION {Range(SourcesOf[t]) : t \in Range(TablesOf[decoder])} => claim[s] = "unavailable"
  /\ raw = [s \in Sources |->
              IF claim[s] = "observed" THEN "rows"
              ELSE IF claim[s] = "observed_zero" THEN "empty" ELSE "missing"]
  /\ damage = 0
  /\ run = 0
  /\ stage = "idle"
  /\ todo = << >>
  /\ result = Absent
  /\ rows = [t \in Tables |-> Absent]
  /\ meta = [t \in Tables |-> Absent]
  /\ cut = {}

\* What an export may hold: what its decoder expects, or not; and a report of xperf in
\* one of its two parts only.
ReportParts == {"unreconciled", "no_intervals", "bad_intervals"}
Conditions ==
  {"rows", "empty", "missing", "binary", "garbled", "invalid"} \union ReportParts

\* An export is lost or damaged on the owner's disk, or was never as the decoder
\* expects it.
Damage(s) ==
  /\ stage = "idle"
  /\ damage < MaxDamage
  /\ claim[s] # "unavailable"
  /\ damage' = damage + 1
  /\ \E c \in Conditions \ {"rows", "empty"} :
       /\ c \in ReportParts => decoder = "dpcisr"
       /\ raw' = [raw EXCEPT ![s] = c]
  /\ UNCHANGED <<decoder, claim, run, stage, todo, result, rows, meta, cut>>

Start ==
  /\ stage = "idle"
  /\ run < MaxRuns
  /\ run' = run + 1
  /\ stage' = "decode"
  /\ todo' = TablesOf[decoder]
  /\ UNCHANGED <<decoder, claim, raw, damage, result, rows, meta, cut>>

\* The run goes on to its next table, or ends.
GoOn ==
  /\ todo' = Tail(todo)
  /\ stage' = IF Len(todo) = 1 THEN "idle" ELSE "decode"

\* Mutant of Decode: a table without a readable source is removed.
DecodeClearing ==
  /\ stage = "decode"
  /\ LET t == Head(todo)
     IN  \/ /\ Unwritten(t)
            /\ GoOn
            /\ rows' = [rows EXCEPT ![t] = Absent]
            /\ meta' = [meta EXCEPT ![t] = Absent]
            /\ UNCHANGED result
         \/ /\ ~Unwritten(t)
            /\ ~Ends(t, "abort")
            /\ stage' = "open rows"
            /\ result' = [status |-> StatusOf(t), some |-> HasRows(t),
                          read |-> {Raw(t, i) : i \in Usable(t)}]
            /\ UNCHANGED <<todo, rows, meta>>
  /\ UNCHANGED <<decoder, claim, raw, damage, run, cut>>

\* A table is decoded in memory: it is written, passed over, or ends the run.
Decode ==
  /\ stage = "decode"
  /\ LET t == Head(todo)
     IN  \/ /\ Unwritten(t)
            /\ GoOn
            /\ UNCHANGED result
         \/ /\ ~Unwritten(t)
            /\ Ends(t, "abort")
            /\ stage' = "idle"
            /\ todo' = << >>
            /\ UNCHANGED result
         \/ /\ ~Unwritten(t)
            /\ ~Ends(t, "abort")
            /\ stage' = "open rows"
            /\ result' = [status |-> StatusOf(t), some |-> HasRows(t),
                          read |-> {Raw(t, i) : i \in Usable(t)}]
            /\ UNCHANGED todo
  /\ UNCHANGED <<decoder, claim, raw, damage, run, rows, meta, cut>>

\* Mutant of OpenRows: a table without rows leaves the file of an earlier run.
OpenRowsIfAny ==
  /\ stage = "open rows"
  /\ LET kept == ~result.some /\ rows[Head(todo)] # Absent
     IN  /\ rows' = IF kept THEN rows
                     ELSE [rows EXCEPT ![Head(todo)] = [run |-> run, some |-> result.some, torn |-> TRUE]]
         /\ stage' = IF kept THEN "open meta" ELSE "close rows"
  /\ cut' = cut \union {Head(todo)}
  /\ UNCHANGED <<decoder, claim, raw, damage, run, todo, result, meta>>

\* wf_schema.write_jsonl: opening the file empties it; the rows follow.
OpenRows ==
  /\ stage = "open rows"
  /\ rows' = [rows EXCEPT ![Head(todo)] = [run |-> run, some |-> result.some, torn |-> TRUE]]
  /\ cut' = cut \union {Head(todo)}
  /\ stage' = "close rows"
  /\ UNCHANGED <<decoder, claim, raw, damage, run, todo, result, meta>>

CloseRows ==
  /\ stage = "close rows"
  /\ rows' = [rows EXCEPT ![Head(todo)] = [run |-> run, some |-> result.some, torn |-> FALSE]]
  /\ stage' = "open meta"
  /\ UNCHANGED <<decoder, claim, raw, damage, run, todo, result, meta, cut>>

\* wf_schema.write_json, the same way.
OpenMeta ==
  /\ stage = "open meta"
  /\ meta' = [meta EXCEPT ![Head(todo)] =
                [run |-> run, status |-> result.status, read |-> result.read, torn |-> TRUE]]
  /\ stage' = "close meta"
  /\ UNCHANGED <<decoder, claim, raw, damage, run, todo, result, rows, cut>>

CloseMeta ==
  /\ stage = "close meta"
  /\ meta' = [meta EXCEPT ![Head(todo)] =
                [run |-> run, status |-> result.status, read |-> result.read, torn |-> FALSE]]
  /\ cut' = cut \ {Head(todo)}
  /\ GoOn
  /\ UNCHANGED <<decoder, claim, raw, damage, run, result, rows>>

\* The decoder is stopped: a power cut, a closed window, an internal error.
Crash ==
  /\ stage # "idle"
  /\ stage' = "idle"
  /\ todo' = << >>
  /\ UNCHANGED <<decoder, claim, raw, damage, run, result, rows, meta, cut>>

-----------------------------------------------------------------------------
(* The reader: load_tables of analyze_rf_survey.                           *)

\* What may be found of a table, and the run its rows are from (0 for no rows).  A
\* torn rows file ends between two lines, or within one: that is an exception, and
\* so is a torn sidecar.
LoadTable(t) ==
  IF rows[t] = Absent \/ meta[t] = Absent THEN {[status |-> "not_collected", from |-> 0]}
  ELSE IF meta[t].torn THEN {Broken}
  ELSE IF meta[t].status \notin {"observed", "observed_zero"}
       THEN {[status |-> meta[t].status, from |-> 0]}
  ELSE {[status |-> meta[t].status, from |-> IF rows[t].some THEN rows[t].run ELSE 0]}
       \union (IF rows[t].torn THEN {Broken} ELSE {})

Next ==
  \/ Start \/ Decode \/ OpenRows \/ CloseRows \/ OpenMeta \/ CloseMeta \/ Crash
  \/ \E s \in Sources : Damage(s)

Spec == Init /\ [][Next]_vars

-----------------------------------------------------------------------------
(* Properties.                                                             *)

RowsFile == [run : Nat, some : BOOLEAN, torn : BOOLEAN]
MetaFile == [run : Nat, status : Status, read : SUBSET Conditions, torn : BOOLEAN]

ASSUME AbsentAssumption ==
  /\ Absent \notin RowsFile
  /\ Absent \notin MetaFile

\* What load_tables can return.
Loaded == [status : Status \union {"not_collected"}, from : Nat]

ASSUME BrokenAssumption == Broken \notin Loaded

\* The files, the run's place and the table it works on are what the decoders
\* have: in particular a run that writes has a table to write.
TypeOK ==
  /\ decoder \in Decoders
  /\ raw \in [Sources -> Conditions]
  /\ run \in Nat
  /\ stage \in {"idle", "decode", "open rows", "close rows", "open meta", "close meta"}
  /\ todo \in Seq(Tables)
  /\ stage # "idle" => todo # << >>
  /\ stage \notin {"idle", "decode"} =>
       result \in [status : Status, some : BOOLEAN, read : SUBSET Conditions]
  /\ rows \in [Tables -> RowsFile \union {Absent}]
  /\ meta \in [Tables -> MetaFile \union {Absent}]
  /\ cut \subseteq Tables

\* A reader never pairs the sidecar of one run with the rows of another, and finds
\* rows exactly where the sidecar says observed, unless the write of that very
\* table was cut short (load_tables, write_table and its three twins).
LoadedIsOneRun ==
  \A t \in Tables \ cut : \A found \in LoadTable(t) :
    /\ found # Broken
    /\ found.from = IF found.status = "observed" THEN meta[t].run ELSE 0

\* The exports that hold rows of a table, and those that hold none: a report whose
\* intervals are missing or refused is sound otherwise, and a netsh listing that lost
\* its layout reads as one without lines.
Holding(t) ==
  {"rows"} \union
  (IF t = "dpcisr_interval" THEN {} ELSE {"no_intervals", "bad_intervals"})

Blank(t) ==
  {"empty"} \union
  (IF t \in {"netsh_fields", "wlan_bss"} THEN {"garbled"}
   ELSE IF t = "dpcisr_interval" THEN {"no_intervals"} ELSE {})

\* A table says observed only when all its exports were read and one holds rows of
\* that table, and observed_zero only of exports that hold none of its rows
\* (decode_table, decode_eventlog.decode, decode_pdh.decode, decode_dpcisr.decode).
DecodedFromAllSources ==
  \A t \in Tables : meta[t] # Absent =>
    LET read == meta[t].read
    IN  /\ meta[t].status = "observed" =>
             read \intersect Holding(t) # {} /\ read \subseteq Holding(t) \union Blank(t)
        /\ meta[t].status = "observed_zero" => read \subseteq Blank(t)

\* What a reader finds of a table in the bundle.
Found(t) ==
  IF rows[t] = Absent \/ meta[t] = Absent THEN Absent
  ELSE IF rows[t].torn \/ meta[t].torn \/ rows[t].run # meta[t].run THEN Broken
  ELSE [run |-> meta[t].run, status |-> meta[t].status]

Store == INSTANCE TableStore WITH store <- [t \in Tables |-> Found(t)], latest <- run

\* The decoders implement the table store: a table changes only through a broken
\* state to the result of the run under way, whatever was damaged and wherever an
\* earlier run was cut, and a table once decoded does not disappear.
ImplementsStore == Store!Spec
=============================================================================

--------------------------- MODULE DpcIsrReport ---------------------------
(***************************************************************************)
(* scripts/decode_dpcisr.py: a text report of xperf -a dpcisr, read line   *)
(* by line, checked against its own totals, and kept as two tables.        *)
(*                                                                         *)
(* xperf is external: its report is the grammar below, a DPC and then an   *)
(* interrupt section, each with a table of modules, a histogram per module *)
(* and a table of intervals.  The report may end at any line (xperf was    *)
(* stopped), and one line other than a heading may be unreadable.          *)
(***************************************************************************)
EXTENDS Naturals, FiniteSetsExt, Functions

CONSTANTS
  Module,     \* driver modules
  MaxCount,   \* most DPCs or interrupts counted for a module
  Nothing

Kind == {"dpc", "isr"}
Table == {"module", "interval"}

ASSUME NothingAssumption == Nothing \notin Kind \union Nat

VARIABLES
  counted,   \* what the trace holds: occurrences per kind and module
  at,        \* xperf: the line of the grammar printed last
  section,   \* xperf: the section being printed
  shown,     \* xperf: modules printed in the table of each section
  summed,    \* xperf: modules printed in the histogram of this section
  damaged,   \* a line of the report was unreadable
  scan,      \* parse_report's state
  table      \* the two tables' sidecars once written

dvars == <<counted, at, section, shown, summed, damaged, scan, table>>

-----------------------------------------------------------------------------
(* The reader: parse_report.                                               *)

\* A dictionary, with a value for x.
With(f, x, v) == [y \in {x} \union DOMAIN f |-> IF y = x THEN v ELSE f[y]]

EmptySection ==
  [span |-> FALSE, rows |-> {}, intervals |-> 0, total |-> Nothing,
   totals |-> << >>, equal |-> FALSE]

Failed(s) == [s EXCEPT !.mode = "error"]

\* The section a line belongs to is the one whose heading was read last.
Put(s, f, v) == [s EXCEPT !.sections[s.kind][f] = v]

Current(s) == s.sections[s.kind]

\* The CPU header of a table is sought.
Seek(s, into) == [[s EXCEPT !.into = into] EXCEPT !.mode = "seek"]

\* A line between tables.
ScanLine(s, l) ==
  CASE l.is = "heading" ->
         [[s EXCEPT !.kind = l.kind] EXCEPT !.sections = With(@, l.kind, EmptySection)]
    [] l.is # "heading" /\ s.kind = Nothing -> s
    [] l.is = "span" /\ s.kind # Nothing ->
         Seek(Put(s, "span", TRUE), "module")
    [] l.is = "interval" /\ s.kind # Nothing ->
         Seek(s, "interval")
    [] l.is = "count" /\ s.kind # Nothing ->
         Put(s, "totals", With(Current(s).totals, l.module, l.n))
    [] l.is = "total" /\ s.kind # Nothing ->
         IF Current(s).total = Nothing THEN Put(s, "total", l.n) ELSE s
    [] l.is = "equal" /\ s.kind # Nothing -> Put(s, "equal", l.ok)
    [] OTHER -> s

\* A line of a table; a blank one ends it.
RowLine(s, l) ==
  IF l.is = "blank" THEN [s EXCEPT !.mode = "scan"]
  ELSE IF l.is = "row" /\ s.into = "module" THEN Put(s, "rows", Current(s).rows \union {l.module})
  ELSE IF l.is = "cells" /\ s.into = "interval" THEN Put(s, "intervals", Current(s).intervals + 1)
  ELSE Failed(s)

\* While the CPU header is sought every other line is passed over, a heading too;
\* the line after the header is the legend, whatever it says.
ReadLine(s, l) ==
  CASE s.mode = "scan" -> ScanLine(s, l)
    [] s.mode = "seek" -> IF l.is = "cpus" THEN [s EXCEPT !.mode = "legend"] ELSE s
    [] s.mode = "legend" -> [s EXCEPT !.mode = "rows"]
    [] s.mode = "rows" -> RowLine(s, l)
    [] OTHER -> s

\* At the end of the text a header still sought is an error, and so is a report
\* without a section; an error leaves no section behind.
Sections(s) ==
  IF s.mode \in {"seek", "error"} THEN << >> ELSE s.sections

Sum(f) == MapThenSumSet(LAMBDA m : f[m], DOMAIN f)

\* checks_for: the four checks of a section.
Reconciles(s) ==
  /\ s.span
  /\ s.equal
  /\ s.total # Nothing /\ Sum(s.totals) = s.total
  /\ DOMAIN s.totals = s.rows

Rows(t, secs) ==
  IF t = "module" THEN Sum([k \in DOMAIN secs |-> Cardinality(secs[k].rows)])
  ELSE Sum([k \in DOMAIN secs |-> secs[k].intervals])

\* Mutant of Verdict: one section that reconciles is enough.
VerdictAny(secs) ==
  IF secs # << >> /\ (\E k \in DOMAIN secs : Reconciles(secs[k])) /\ Rows("module", secs) > 0
  THEN "observed" ELSE "decode_failed"

\* The decode's status before the tables are written.
Verdict(secs) ==
  IF secs # << >> /\ (\A k \in DOMAIN secs : Reconciles(secs[k])) /\ Rows("module", secs) > 0
  THEN "observed" ELSE "decode_failed"

\* The tables are written in order, and a schema error of the first one is
\* carried into the second.
Sidecars(secs, bad) ==
  LET fails(t) == t \in bad /\ Rows(t, secs) > 0
      status(t) == IF Verdict(secs) = "observed" /\ ~fails("module") /\ ~fails(t)
                   THEN "observed" ELSE "decode_failed"
      rows(t) == IF fails(t) THEN 0 ELSE Rows(t, secs)
  IN  [t \in Table |->
         [rows |-> rows(t),
          status |-> IF status(t) = "observed" /\ rows(t) = 0 THEN "observed_zero" ELSE status(t)]]

-----------------------------------------------------------------------------
(* xperf's report.                                                         *)

DInit ==
  /\ counted \in [Kind -> [Module -> 1 .. MaxCount]]
  /\ at = "start"
  /\ section = Nothing
  /\ shown = [k \in Kind |-> {}]
  /\ summed = {}
  /\ damaged = FALSE
  /\ scan = [mode |-> "scan", into |-> "module", kind |-> Nothing, sections |-> << >>]
  /\ table = Nothing

\* A line is printed and read, or what is read of it means nothing.
Show(to, l) ==
  /\ table = Nothing
  /\ at' = to
  /\ \/ /\ scan' = ReadLine(scan, l)
        /\ UNCHANGED damaged
     \/ /\ l.is # "heading"
        /\ ~damaged
        /\ damaged' = TRUE
        /\ scan' = ReadLine(scan, [is |-> "noise"])
  /\ UNCHANGED <<counted, table>>

PrintHeading(k) ==
  /\ <<at, section, k>> \in {<<"start", Nothing, "dpc">>, <<"end", "dpc", "isr">>}
  /\ section' = k
  /\ summed' = {}
  /\ Show("heading", [is |-> "heading", kind |-> k])
  /\ UNCHANGED shown

\* The lines of a section that only mark a place, in xperf's order.
Mark ==
  {<<"heading", "span", "span">>, <<"span", "cpus", "cpus">>, <<"cpus", "rows", "legend">>,
   <<"rows", "tail", "blank">>, <<"equal", "interval", "interval">>,
   <<"interval", "icpus", "cpus">>, <<"icpus", "irows", "legend">>,
   <<"irows", "irow", "cells">>, <<"irows", "end", "blank">>, <<"irow", "end", "blank">>,
   <<"end", "end", "distribution">>}

PrintMark ==
  /\ \E m \in Mark : at = m[1] /\ Show(m[2], [is |-> m[3]])
  /\ UNCHANGED <<section, shown, summed>>

PrintRow(m) ==
  /\ at = "rows"
  /\ m \notin shown[section]
  /\ shown' = [shown EXCEPT ![section] = @ \union {m}]
  /\ Show("rows", [is |-> "row", module |-> m])
  /\ UNCHANGED <<section, summed>>

Printed(k) == Restrict(counted[k], shown[k])

PrintTotal ==
  /\ at = "tail"
  /\ Show("total", [is |-> "total", n |-> Sum(Printed(section))])
  /\ UNCHANGED <<section, shown, summed>>

\* The histogram of each module of the table ends with the module's total.
PrintCount(m) ==
  /\ at = "total"
  /\ m \in shown[section] \ summed
  /\ summed' = summed \union {m}
  /\ Show("total", [is |-> "count", module |-> m, n |-> counted[section][m]])
  /\ UNCHANGED <<section, shown>>

\* xperf compares its two sums itself; a trace that lost events may disagree.
PrintEqual ==
  /\ at = "total"
  /\ summed = shown[section]
  /\ \E ok \in BOOLEAN : Show("equal", [is |-> "equal", ok |-> ok])
  /\ UNCHANGED <<section, shown, summed>>

\* The report ends here, complete or not: decode writes both tables, and the
\* schema may refuse the rows of either.
WriteTables ==
  /\ table = Nothing
  /\ \E refused \in SUBSET Table : table' = Sidecars(Sections(scan), refused)
  /\ UNCHANGED <<counted, at, section, shown, summed, damaged, scan>>

DNext ==
  \/ \E k \in Kind : PrintHeading(k)
  \/ PrintMark
  \/ \E m \in Module : PrintRow(m) \/ PrintCount(m)
  \/ PrintTotal \/ PrintEqual
  \/ WriteTables

DSpec == DInit /\ [][DNext]_dvars

-----------------------------------------------------------------------------
(* Properties.                                                             *)

\* Neither table is observed unless the table of modules is, and that one only with
\* every module xperf printed, each under the section it was printed in and with the
\* totals of the trace, wherever the report was cut, whichever line was unreadable
\* and whichever rows the schema refused (parse_report, checks_for, decode;
\* decoded-tables.md: "a report that fails its own reconciliation decodes with
\* status decode_failed").
ObservedIsWhole ==
  table # Nothing /\ (\E t \in Table : table[t].status # "decode_failed") =>
    /\ table["module"].status = "observed"
    /\ \A k \in Kind :
         IF k \in DOMAIN scan.sections
         THEN scan.sections[k].rows = shown[k] /\ scan.sections[k].totals = Printed(k)
         ELSE shown[k] = {}
=============================================================================

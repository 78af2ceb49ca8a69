---------------------------- MODULE RfAnalysis ----------------------------
(***************************************************************************)
(* scripts/analyze_rf_survey.py: the sections of the RF survey analysis,   *)
(* the evidence rows and findings they give, and the three files the       *)
(* result is written to.                                                   *)
(*                                                                         *)
(* Each section reads decoded tables and adds evidence rows to one list    *)
(* all sections share; a row is named by its place in that list, and links *)
(* and findings name rows.  A section may fail halfway.  The report, the   *)
(* result and the evidence file are written one after the other; the       *)
(* evidence file also holds the rows of other analyzers.                   *)
(* The placement finding, the same for every bundle, is left out.          *)
(***************************************************************************)
EXTENDS Airspace, UsbTree

CONSTANTS
  Bundles,       \* the decoded bundles looked at
  MaxRuns,       \* most analysis runs of each bundle
  MaxFailures    \* most sections that fail in a run

Observed == {"observed", "observed_zero"}
Sections == <<"traffic", "airspace", "receivers", "radios", "events">>

\* What the decoders give: a route is of IPv4, of IPv6, or of a family that is not known,
\* and its metric has sixteen bits, or is not known.
MaxMetric == 65535

DecodedRoute ==
  [default : BOOLEAN, family : {2, 23, None}, metric : 0 .. MaxMetric \union {None},
   index : Nat \union {None}]

IsRoutes(rows) == rows \in Seq(DecodedRoute)

IsAdapters(rows) == rows \in Seq([index : Nat \union {None}, wifi : BOOLEAN, enabled : BOOLEAN])

IsBundle(b) ==
  /\ IsRoutes(b.routes.rows)
  /\ IsAdapters(b.adapters.rows)
  /\ IsScan(b.scan.rows)
  /\ IsTree(b.devices.rows)
  /\ b.events.ids \in Nat

ASSUME BundlesAssumption == \A b \in Bundles : IsBundle(b)
ASSUME RunsAssumption == \A b \in Bundles : MaxRuns[b] \in Nat

VARIABLES
  bundle,     \* the tables, and the network the owner named
  run,        \* runs started
  stage,      \* "idle", "section", "validate", or a step of the three writes
  todo,       \* sections still to run
  ev,         \* evidence rows of this run
  findings,   \* findings of this run
  iface,      \* the interface behind the default route, as far as this run knows
  failures,   \* sections of this run that failed
  status,     \* what the run says of itself
  report,     \* reports/rf-survey.md
  result,     \* reports/rf-survey.json
  evidence,   \* evidence.jsonl
  whole       \* the last run to begin writing finished

vars == <<bundle, run, stage, todo, ev, findings, iface, failures, status, report,
          result, evidence, whole>>

-----------------------------------------------------------------------------
(* A section's rows are given by their signals; links are to rows of the   *)
(* same section, whose place is known from the number of rows before it.   *)

Read(table) == table.status \in Observed

Readable(b) == \E t \in {"routes", "adapters", "scan", "fields", "devices", "events"} : Read(b[t])

Finding(section, id, measured, rows) ==
  [section |-> section, id |-> id, of |-> None, measured |-> measured, rows |-> rows]

\* Mutant of At: a section counts its rows from one.
AtOne(base, sig, wanted) == {i \in DOMAIN sig : sig[i] \in wanted}

\* The places of a section's rows with one of the signals.
At(base, sig, wanted) == {base + i : i \in {j \in DOMAIN sig : sig[j] \in wanted}}

Rows(sig, links) == [i \in DOMAIN sig |-> [signal |-> sig[i], links |-> links[i]]]

Defaults(routes) == {i \in DOMAIN routes : routes[i].default}

\* The order of the default routes: the metric, then IPv4 before IPv6, then the
\* order of the table.
Before(routes, i, j) ==
  LET metric(k) == IF routes[k].metric = None THEN 65536 ELSE routes[k].metric
      family(k) == IF routes[k].family = None THEN 99 ELSE routes[k].family
  IN  \/ metric(i) < metric(j)
      \/ metric(i) = metric(j) /\ family(i) < family(j)
      \/ metric(i) = metric(j) /\ family(i) = family(j) /\ i <= j

BestRoute(routes) ==
  CHOOSE i \in Defaults(routes) : \A j \in Defaults(routes) : Before(routes, i, j)

\* The first default route of each family; the families are split when these are of
\* different interfaces.
Leads(routes) ==
  {i \in Defaults(routes) : \A j \in Defaults(routes) :
     routes[j].family = routes[i].family => Before(routes, i, j)}

SplitFamilies(routes) == \E i, j \in Leads(routes) : routes[i].index # routes[j].index

\* The finding says when the families are split.
Traffic(b, base) ==
  LET routes == b.routes.rows
      sig == IF ~Read(b.routes) \/ ~Read(b.adapters) THEN << >>
             ELSE IF Defaults(routes) # {} THEN <<"traffic_default_route">>
             ELSE IF routes # << >> THEN <<"default_route_absent">> ELSE << >>
      id == IF sig = <<"traffic_default_route">> /\ SplitFamilies(routes)
            THEN "traffic_split" ELSE "traffic_path"
  IN  [rows |-> Rows(sig, [i \in DOMAIN sig |-> {}]),
       findings |-> {Finding("traffic", id, sig # << >>, At(base, sig, Range(sig)))},
       iface |-> IF sig = <<"traffic_default_route">> THEN routes[BestRoute(routes)].index ELSE None]

\* The rows of the channels, in order: one for a channel in use, one for a candidate.
ChannelRows(aps) ==
  FlattenSeq([c \in 1 .. 14 |->
    (IF \E a \in In24(aps) : a.channel = c THEN <<"bss_count">> ELSE << >>)
      \o (IF c \in Candidates THEN <<"overlap_load">> ELSE << >>)])

OwnRows(aps, owner) ==
  IF Own(aps, owner) = {} THEN << >>
  ELSE <<"own_network", "recommendation">>
       \o (IF High(Own(aps, owner)) = {} THEN << >>
           ELSE [i \in 1 .. Cardinality(High(Own(aps, owner))) |-> "high_band"] \o <<"move_off">>)

AirspaceFindings(b, base, sig) ==
  LET aps == b.scan.rows
      named == Own(aps, b.owner) # {}
  IN  (IF named THEN {Finding("airspace", "congestion", TRUE,
                              At(base, sig, {"own_network", "overlap_load", "recommendation"})),
                      IF High(Own(aps, b.owner)) = {}
                      THEN Finding("airspace", "high_band_absent", TRUE, At(base, sig, {"own_network"}))
                      ELSE Finding("airspace", "high_band", TRUE, At(base, sig, {"high_band", "move_off"}))}
       ELSE {Finding("airspace", "survey", TRUE, At(base, sig, {"overlap_load"}))})
      \union (IF Unplaced(aps) = {} THEN {} ELSE {Finding("airspace", "unparsed", TRUE, {})})

AirspaceSection(b, base) ==
  LET aps == b.scan.rows
      sig == IF ~Read(b.scan) THEN << >>
             ELSE IF In24(aps) = {} THEN IF aps = {} THEN << >> ELSE <<"bss_count">>
             ELSE ChannelRows(aps) \o OwnRows(aps, b.owner)
  IN  [rows |-> Rows(sig, [i \in DOMAIN sig |->
                  IF sig[i] = "recommendation" THEN At(base, sig, {"own_network", "overlap_load"})
                  ELSE IF sig[i] = "move_off" THEN At(base, sig, {"own_network", "high_band"})
                  ELSE {}]),
       findings |-> IF ~Read(b.scan) THEN {Finding("airspace", "scan", FALSE, {})}
                    ELSE IF In24(aps) = {}
                    THEN {Finding("airspace", "empty", TRUE, At(base, sig, {"bss_count"}))}
                    ELSE AirspaceFindings(b, base, sig)]

\* The host controllers, each receiver and its advice, and the noisy devices.
ReceiverSection(b, base) ==
  LET tree == b.devices.rows
      known == Read(b.devices) /\ DOMAIN tree # {}
      n == Cardinality(Receivers(tree))
      noisy == IF n = 0 THEN 0 ELSE Cardinality(Noisy(tree))
      sig == IF ~known THEN << >>
             ELSE [i \in 1 .. 1 + 2 * n + noisy |->
                     IF i = 1 THEN "host_controllers"
                     ELSE IF i > 1 + 2 * n THEN "usb3_device"
                     ELSE IF \E r \in 1 .. n : i = 2 * r THEN "receiver" ELSE "relocation"]
  IN  [rows |-> Rows(sig, [i \in DOMAIN sig |->
                  IF sig[i] = "relocation" THEN {base + 1, base + i - 1} ELSE {}]),
       findings |->
         IF ~known THEN {Finding("receivers", "usb_receivers", FALSE, {})}
         ELSE IF n = 0 THEN {Finding("receivers", "unrecognised", TRUE, {base + 1})}
         ELSE {Finding("receivers", "receiver", TRUE, {base + 1, base + 2 * r, base + 2 * r + 1}) : r \in 1 .. n}
              \union (IF noisy = 0 THEN {}
                      ELSE {Finding("receivers", "noise", TRUE, At(base, sig, {"usb3_device"}))})]

\* Mutant of Unused: an adapter is unused when no default route is known.
UnusedUnknown(a, i) == a.index # i

Unused(a, i) == i # None /\ a.index # i

\* The Wi-Fi adapters, then the Bluetooth radio; a device table that cannot be read
\* beside a source that was leaves Bluetooth without a finding.
RadioSection(b, base) ==
  LET row(signal, of) == [signal |-> signal, of |-> of]
      one(a) == IF ~a.wifi THEN << >>
                ELSE IF a.enabled /\ Unused(a, iface)
                THEN <<row("wifi_adapter", a.index), row("wifi_off", a.index)>>
                ELSE <<row("wifi_adapter", a.index)>>
      adapters == IF Read(b.adapters) THEN b.adapters.rows ELSE << >>
      blue == IF ~Read(b.devices) \/ b.bluetooth.status # "observed" \/ b.bluetooth.radio = "none"
              THEN << >>
              ELSE IF b.bluetooth.radio = "disabled" THEN <<row("bluetooth", None)>>
              ELSE <<row("bluetooth", None), row("bluetooth_off", None)>>
      all == FlattenSeq([k \in DOMAIN adapters |-> one(adapters[k])]) \o blue
      sig == [i \in DOMAIN all |-> all[i].signal]
  IN  [rows |-> Rows(sig, [i \in DOMAIN sig |->
                  IF sig[i] \in {"wifi_off", "bluetooth_off"} THEN {base + i - 1} ELSE {}]),
       findings |->
         {[Finding("radios", "wifi_unused", TRUE, {base + i - 1, base + i}) EXCEPT !.of = all[i].of] :
            i \in {j \in DOMAIN sig : sig[j] = "wifi_off"}}
         \union (IF blue # << >>
                 THEN {Finding("radios", "bluetooth", TRUE, At(base, sig, {"bluetooth", "bluetooth_off"}))}
                 ELSE IF b.bluetooth.status = "observed_zero"
                 THEN {Finding("radios", "bluetooth_absent", TRUE, {})}
                 ELSE IF b.bluetooth.status \notin Observed
                 THEN {Finding("radios", "bluetooth_unread", FALSE, {})}
                 ELSE {})]

\* One row per event id; a manifest without the source is passed over.
EventSection(b, base) ==
  LET known == b.events.entry \in Observed /\ Read(b.events)
      sig == IF known THEN [i \in 1 .. b.events.ids |-> "event_count"] ELSE << >>
  IN  [rows |-> Rows(sig, [i \in DOMAIN sig |-> {}]),
       findings |-> IF b.events.entry = None THEN {}
                    ELSE {Finding("events", "events", known, At(base, sig, {"event_count"}))}]

Outcome(s, b, base) ==
  CASE s = "traffic" -> Traffic(b, base)
    [] s = "airspace" -> AirspaceSection(b, base)
    [] s = "receivers" -> ReceiverSection(b, base)
    [] s = "radios" -> RadioSection(b, base)
    [] s = "events" -> EventSection(b, base)

-----------------------------------------------------------------------------
Init ==
  /\ bundle \in Bundles
  /\ run = 0
  /\ stage = "idle"
  /\ todo = << >>
  /\ ev = << >>
  /\ findings = {}
  /\ iface = None
  /\ failures = {}
  /\ status = "not_collected"
  /\ report = None
  /\ result = None
  /\ evidence = [run |-> 0, rows |-> 0, others |-> TRUE, torn |-> FALSE]
  /\ whole = TRUE

Start ==
  /\ stage = "idle"
  /\ run < MaxRuns[bundle]
  /\ run' = run + 1
  /\ stage' = IF Readable(bundle) THEN "section" ELSE "validate"
  /\ todo' = IF Readable(bundle) THEN Sections ELSE << >>
  /\ ev' = << >>
  /\ findings' = {}
  /\ iface' = None
  /\ failures' = {}
  /\ status' = "not_collected"
  /\ UNCHANGED <<bundle, report, result, evidence, whole>>

GoOn ==
  /\ todo' = Tail(todo)
  /\ stage' = IF Len(todo) = 1 THEN "validate" ELSE "section"
  /\ UNCHANGED <<bundle, run, status, report, result, evidence, whole>>

RunSection ==
  /\ stage = "section"
  /\ LET out == Outcome(Head(todo), bundle, Len(ev))
     IN  /\ ev' = ev \o out.rows
         /\ findings' = findings \union out.findings
         /\ iface' = IF Head(todo) = "traffic" THEN out.iface ELSE iface
  /\ UNCHANGED failures
  /\ GoOn

\* Mutant of FailSection: a section that fails is passed over.
FailSectionQuietly ==
  /\ stage = "section"
  /\ Cardinality(failures) < MaxFailures
  /\ failures' = failures \union {Head(todo)}
  /\ UNCHANGED <<ev, findings, iface>>
  /\ GoOn

\* run_section: an exception leaves the rows written so far, and becomes a finding.
FailSection ==
  /\ stage = "section"
  /\ Cardinality(failures) < MaxFailures
  /\ LET rows == Outcome(Head(todo), bundle, Len(ev)).rows
     IN  \E n \in 0 .. Len(rows) : ev' = ev \o SubSeq(rows, 1, n)
  /\ findings' = findings \union {Finding(Head(todo), "failed", FALSE, {})}
  /\ failures' = failures \union {Head(todo)}
  /\ UNCHANGED iface
  /\ GoOn

\* Rows the schema refuses empty the run: the files are written without them.
Validate ==
  /\ stage = "validate"
  /\ stage' = "open report"
  /\ \/ /\ status' = IF ~Readable(bundle) THEN "not_collected"
                      ELSE IF ev # << >> THEN "observed"
                      ELSE IF failures = {} THEN "observed_zero" ELSE "analyzer_failed"
        /\ UNCHANGED <<ev, findings>>
     \/ ev # << >> /\ status' = "analyzer_failed" /\ ev' = << >> /\ findings' = {}
  /\ UNCHANGED <<bundle, run, todo, iface, failures, report, result, evidence, whole>>

\* The report and the result, each opened, and then filled.
OpenReport ==
  /\ stage = "open report"
  /\ report' = [run |-> run, torn |-> TRUE]
  /\ whole' = FALSE
  /\ stage' = "open result"
  /\ UNCHANGED <<bundle, run, todo, ev, findings, iface, failures, status, result, evidence>>

Used == UNION {f.rows : f \in findings}

OpenResult ==
  /\ stage = "open result"
  /\ report' = [run |-> run, torn |-> FALSE]
  /\ result' = [run |-> run, status |-> status, used |-> Used, torn |-> TRUE]
  /\ stage' = "read evidence"
  /\ UNCHANGED <<bundle, run, todo, ev, findings, iface, failures, status, evidence, whole>>

\* The rows of other analyzers are read back.  A torn file stops the run here, or
\* ends between two lines and gives what is left of them.
ReadEvidence ==
  /\ stage = "read evidence"
  /\ result' = [run |-> run, status |-> status, used |-> Used, torn |-> FALSE]
  /\ \/ stage' = "open evidence"
     \/ evidence.torn /\ stage' = "idle"
  /\ UNCHANGED <<bundle, run, todo, ev, findings, iface, failures, status, report, evidence, whole>>

\* Mutant of OpenEvidence: the file is written with this run's rows alone.
OpenEvidenceAlone ==
  /\ stage = "open evidence"
  /\ evidence' = [run |-> run, rows |-> Len(ev), others |-> FALSE, torn |-> TRUE]
  /\ stage' = "close evidence"
  /\ UNCHANGED <<bundle, run, todo, ev, findings, iface, failures, status, report, result, whole>>

\* Mutant of OpenEvidence: a run without rows leaves the file as it is.
OpenEvidenceIfAny ==
  /\ stage = "open evidence"
  /\ IF ev = << >> THEN UNCHANGED evidence
     ELSE evidence' = [run |-> run, rows |-> Len(ev), others |-> evidence.others, torn |-> TRUE]
  /\ stage' = "close evidence"
  /\ UNCHANGED <<bundle, run, todo, ev, findings, iface, failures, status, report, result, whole>>

OpenEvidence ==
  /\ stage = "open evidence"
  /\ evidence' = [run |-> run, rows |-> Len(ev), others |-> evidence.others, torn |-> TRUE]
  /\ stage' = "close evidence"
  /\ UNCHANGED <<bundle, run, todo, ev, findings, iface, failures, status, report, result, whole>>

CloseEvidence ==
  /\ stage = "close evidence"
  /\ evidence' = [run |-> evidence.run, rows |-> evidence.rows, others |-> evidence.others,
                  torn |-> FALSE]
  /\ whole' = TRUE
  /\ stage' = "idle"
  /\ UNCHANGED <<bundle, run, todo, ev, findings, iface, failures, status, report, result>>

\* The analysis is stopped: what it held, and what a file that was being written
\* held, is lost.
Crash ==
  /\ stage # "idle"
  /\ stage' = "idle"
  /\ todo' = << >>
  /\ ev' = << >>
  /\ findings' = {}
  /\ iface' = None
  /\ failures' = {}
  /\ status' = "not_collected"
  /\ evidence' = [run |-> evidence.run, rows |-> evidence.rows,
                  others |-> evidence.others /\ ~evidence.torn, torn |-> evidence.torn]
  /\ UNCHANGED <<bundle, run, report, result, whole>>

Next ==
  \/ Start \/ RunSection \/ FailSection \/ Validate \/ OpenReport \/ OpenResult
  \/ ReadEvidence \/ OpenEvidence \/ CloseEvidence \/ Crash

Spec == Init /\ [][Next]_vars

-----------------------------------------------------------------------------
(* Properties.                                                             *)

\* Places, sections and files keep to their shapes, and sections are left to run
\* exactly while they run (analyze).
TypeOK ==
  /\ stage = "section" <=> todo # << >>
  /\ todo \in Seq(Range(Sections))
  /\ run \in 0 .. MaxRuns[bundle]
  /\ failures \subseteq Range(Sections)
  /\ status \in {"not_collected", "observed", "observed_zero", "analyzer_failed"}
  /\ evidence.run \in 0 .. run
  /\ {evidence.others, evidence.torn} \subseteq BOOLEAN
  /\ whole \in BOOLEAN

Signals(rows) == {ev[j].signal : j \in rows}

\* What an inferred row must rest on.
Basis ==
  [recommendation |-> {"own_network", "overlap_load"}, move_off |-> {"own_network", "high_band"},
   relocation |-> {"host_controllers", "receiver"}, wifi_off |-> {"wifi_adapter"},
   bluetooth_off |-> {"bluetooth"}]

SectionSignals ==
  [traffic |-> {"traffic_default_route", "default_route_absent"},
   airspace |-> {"bss_count", "overlap_load", "own_network", "recommendation", "high_band", "move_off"},
   receivers |-> {"host_controllers", "receiver", "relocation", "usb3_device"},
   radios |-> {"wifi_adapter", "wifi_off", "bluetooth", "bluetooth_off"},
   events |-> {"event_count"}]

\* Rows are named by their place in a list that a failed section may have left a
\* part of its rows in; still every inferred row rests on earlier rows, of the kinds
\* it says it rests on, and every finding cites rows of its own section
\* (Evidence.add, run_section).
EvidenceGrounded ==
  /\ \A i \in DOMAIN ev :
       /\ ev[i].links \subseteq 1 .. i - 1
       /\ ev[i].signal \in DOMAIN Basis => Signals(ev[i].links) = Basis[ev[i].signal]
  /\ \A f \in findings :
       /\ f.rows \subseteq DOMAIN ev
       /\ Signals(f.rows) \subseteq SectionSignals[f.section]

\* An adapter is called unused only when a default route of another one is at least as
\* good as its own, also when the traffic section failed or found no route
\* (analyze_radios with analyze_traffic_path).
UnusedIsOffThePath ==
  \A f \in findings : f.id = "wifi_unused" =>
    LET routes == bundle.routes.rows
        on(x) == {k \in Defaults(routes) : routes[k].index = x}
        measured(k) == routes[k].metric # None
    IN  \E k \in Defaults(routes) \ on(f.of) : \A j \in on(f.of) :
          measured(j) => measured(k) /\ routes[k].metric <= routes[j].metric

\* An adapter that is called unused and yet has the better route of one address family
\* is not passed over: the traffic finding says that the families are split
\* (analyze_radios with analyze_traffic_path).
SplitIsTold ==
  \A f \in findings : f.id = "wifi_unused" =>
    LET routes == bundle.routes.rows
        on(x) == {k \in Defaults(routes) : routes[k].index = x}
        better(i, j) == /\ routes[i].metric # None
                        /\ routes[j].metric # None => routes[i].metric < routes[j].metric
    IN  (\E i \in on(f.of) : \A j \in Defaults(routes) \ on(f.of) :
           routes[j].family = routes[i].family => better(i, j))
        => \E g \in findings : g.id = "traffic_split"

\* A finding counts as measured only when the tables behind it were read
\* (render_report: "a source that was not read is not measured, and nothing below
\* claims it was quiet").
MeasuredWasRead ==
  \A f \in findings :
    LET wasRead(t) == bundle[t].status \in {"observed", "observed_zero"}
    IN  f.measured =>
          CASE f.section = "traffic" -> wasRead("routes") /\ wasRead("adapters")
            [] f.section = "airspace" -> wasRead("scan")
            [] f.section = "receivers" -> wasRead("devices")
            [] f.section = "events" -> wasRead("events")
            [] f.id = "wifi_unused" -> wasRead("adapters") /\ wasRead("routes")
            [] f.id = "bluetooth" -> wasRead("devices")
            [] OTHER -> bundle.bluetooth.status = "observed_zero"

\* What the findings say is warranted by the bundle: what is called measured was read;
\* of an adapter called unused another has a default route at least as good, and where
\* it carries one address family by itself the report says so beside it
\* (analyze_traffic_path, analyze_radios, render_report).
FindingsWarranted == MeasuredWasRead /\ UnusedIsOffThePath /\ SplitIsTold

\* No section but the radios passes in silence: it gives a finding whether its
\* tables were read or not, and also when it fails; the events only when the manifest
\* names their source (run_section).
EverySectionSpeaks ==
  stage = "validate" /\ Readable(bundle) =>
    \A s \in Range(Sections) \ {"radios"} :
      \/ \E f \in findings : f.section = s
      \/ s = "events" /\ bundle.events.entry = None

\* Once a run that began to write has ended, the three files are whole, and of that
\* run (analyze).
FilesOfOneRun ==
  whole /\ report # None =>
    /\ report.run = result.run /\ result.run = evidence.run
    /\ ~report.torn /\ ~result.torn /\ ~evidence.torn

\* Then the result also cites only rows the evidence file holds, and a result that
\* does not call itself observed cites none and comes with none (analyze).
CitedRowsKept ==
  whole /\ report # None =>
    /\ result.used \subseteq 1 .. evidence.rows
    /\ result.status # "observed" => result.used = {} /\ evidence.rows = 0

\* What is cited is there: while the analysis runs, in its list of rows, and once it
\* has ended, in the file the reader has (Evidence, analyze).
CitationsHold == EvidenceGrounded /\ CitedRowsKept

\* The rows of other analyzers are lost only when the analysis is stopped while
\* the evidence file is open (analyze).
OthersKept ==
  [][evidence.others /\ ~evidence'.others => evidence.torn /\ stage' = "idle"]_vars

\* The owner who follows the advice drawn from a scan is told to stay where he went
\* (analyze_airspace; AdviceSettlesOn).
AdviceSettles ==
  run = 0 /\ Read(bundle.scan) => AdviceSettlesOn(bundle.scan.rows, bundle.owner)

\* The channel the owner is told to use is shared with no more access points of others
\* than another candidate would be (analyze_airspace; AdviceIsLightestOn).
AdviceIsLightest ==
  run = 0 /\ Read(bundle.scan) => AdviceIsLightestOn(bundle.scan.rows, bundle.owner)

\* The advice on the channel is the best there is and does not change when it is
\* followed (analyze_airspace).
AdviceSound == AdviceSettles /\ AdviceIsLightest

\* Each receiver of the device table is reported once (analyze_receivers;
\* OneReportPerReceiverOn).
OneReportPerReceiver ==
  run = 0 /\ Read(bundle.devices) => OneReportPerReceiverOn(bundle.devices.rows)

\* Each device of the device table is given the controller nearest above it
\* (decode_pnp; NearestControllerOn).
NearestController ==
  run = 0 /\ Read(bundle.devices) => NearestControllerOn(bundle.devices.rows)

\* The report has each receiver once, on the controller it is on (decode_pnp,
\* analyze_receivers).
ReceiversPlaced == OneReportPerReceiver /\ NearestController
=============================================================================

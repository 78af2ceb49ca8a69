# win-forensics, specified in TLA+

This directory holds a TLA+ model of win-forensics: the parts whose correctness depends on order (several
SSH sessions at once, a setup that may stop anywhere and is run again, a log that changes while it is
read, a collector whose calls throw, a kit that travels on a stick between two machines, a fetch over a
channel that is cut), and the parts that turn what was collected into statements (the decoders and the RF
analysis), where the question is whether a statement rests on what was read. TLC checks each model on
small instances; TLAPS proves the main safety properties, and that fetches and decoders implement one
abstract store, for every value of the constants. Every definition is translated from the code
(`PROJECT.json`, `map`, names the lines).

- [The system](#the-system)
- [Modules](#modules)
- [Dispatch](#dispatch)
- [InstallFrontDoor](#installfrontdoor)
- [EventSource](#eventsource)
- [CollectorRun](#collectorrun)
- [SetupTrip](#setuptrip)
- [TableStore](#tablestore)
- [Fetch](#fetch)
- [DecodedTables](#decodedtables)
- [NetshText](#netshtext)
- [DpcIsrReport](#dpcisrreport)
- [RfAnalysis, Airspace, UsbTree](#rfanalysis-airspace-usbtree)
- [Proofs](#proofs)
- [What only TLC checks, what is not modelled](#what-only-tlc-checks-what-is-not-modelled)
- [Plan](#plan)

## The system

A Mac collects forensic bundles from a Windows PC over SSH. The only thing the Mac's key may run on the
PC is one program, the dispatcher. Setting that up ("the front door") is a script a person runs at the
PC, from a kit the Mac made. The bundles are decoded and analysed on the Mac.

| Component | Source | State it keeps | Operations | Talks to |
|---|---|---|---|---|
| Dispatcher | `remote-access/windows/dispatch.ps1`, `WfCommon.ps1` | none in memory between sessions; the outbox and `outbox\.staging` on disk | `ping`, `list-bundles`, `security-log-access`, `collect-<name>`, `fetch <bundle>`, and the refusal of everything else | started by sshd, one process per session; starts a collector process and waits for it; other dispatchers only through the file system |
| Front door installer | `remote-access/windows/Install-FrontDoor.ps1` | `install-state.json`, `sshd_config.wf-original`, `sshd_config.wf-previous` | thirteen steps S1 to S13, a saved record, a summary | firewall, sshd service, registry, local accounts, the dispatcher's directories |
| Setup library | `WfSetupLib.ps1` | none | decisions as functions: firewall plan, config merge, effective configuration, access rules, summary | called by the installer and the launcher |
| Kit launcher | `Start-FrontDoorSetup.ps1`, `SETUP-PC.cmd` | a private staging copy of the kit | check the kit code, copy, start the installer elevated, clean up, write the host key file | the kit on a stick; the installer as a child process |
| Mac fetch | `mac/wf-fetch.sh` | `<out>/<bundle>.zip`, with `--extract` the directory beside it | fetch one bundle, check header, end marker, alphabet, length, SHA-256, entry names; copy; unpack | dispatcher's `fetch` over one SSH channel |
| Mac setup chain | `mac/wf-start.sh`, `wf-mac-setup.sh`, `wf-make-kit.sh`, `wf-finish.sh`, `wf-pin-host-key.sh` | the key, the host entry in `~/.ssh/config`, `known_hosts_winforensics` | key, kit and code; pin the PC's host key | the PC through `ssh-keyscan` and the file the launcher left |
| Mac acceptance checks | `mac/wf-acceptance.sh` | none | ten checks | dispatcher |
| Collector engine | `collectors/windows/_common.ps1` | the bundle directory of one run | read each source under caps and deadlines, classify it, write manifest, summary, log | started by the dispatcher; event logs, WMI, counters |
| Collector definitions | `collectors/windows/<name>.ps1` | none | tables of sources | the engine |
| Bundle verification | `scripts/verify_bundle.py`, `wf_schema.py` | none | one pass over the bundle's files | bundles on the Mac |
| Decoders | `scripts/decode_*.py` | `bundle/decoded`: the rows and the sidecar of each table | for each table: read its exports, validate, write both files | the engine's exports and the manifest; each other through no file |
| RF analysis | `scripts/analyze_rf_survey.py` | `reports/rf-survey.md`, `.json`, and its rows in the bundle's `evidence.jsonl` | five sections over the decoded tables, then three writes | the decoded tables; other analyzers through `evidence.jsonl` |
| Process Monitor facts | `scripts/*procmon*` | none | a one-off measurement of a file format | nothing |

What is hard in it:

- **Concurrency.** Dispatchers of several sessions share two directories without a lock: a limit that is
  checked minutes before it is used, a directory name that two of them may take, a bundle that is read
  while it is deleted.
- **Processes that outlive their parents.** A session may be lost while its collector runs; a collector
  that passes its time limit is killed without a look whether it died.
- **Partial failure and repetition.** The installer changes a dozen things in order. Any call may throw,
  the window may be closed; the answer to everything is "fix it and run it again".
- **Ordering against the outside.** While the installer works, sshd must never listen with the stock
  configuration or behind an open firewall.
- **Honest results.** PASS must mean that the door is ready, `ok` that the bundle is there, an empty
  export that nothing was there to export, `observed` that all of it was read.
- **Files written in place.** No tool on the Mac replaces a file by a rename: two files that belong
  together are written one after the other, and what a stop leaves is read by the next tool.
- **Text without a grammar.** netsh prints labels in the display language; what a line means has to be
  told from its value and the lines before it. xperf's report can be cut off at any line.

What makes each component correct:

| Component | Properties |
|---|---|
| Dispatcher | what is published is complete and never changes (`SoleBundleWhole`, `PublishedFrozen`), a fetch is faithful (`FetchFaithful`), answers agree with the disk (`OkMeansPublished`), the limit holds up to the sessions that were open (`OutboxBound`), nothing is left over by accident (`NoStrayFiles`), everyone is answered (`Answered`) |
| Installer | PASS is true (`PassMeansReady`), nothing listens too early or too openly (`QuietUntilHardened`, `ListensNarrow`, `AutomaticHardened`), it can be undone (`OriginalKept`, `RecordKept`), it can be repeated (`Recovers`) |
| Mac fetch | what is kept is what was sent (`KeptIsSent`), the exit code says what was kept (`CodeIsTrue`), the zip is replaced whole or visibly broken (`ImplementsDelivery`) |
| Decoders | a table says observed only of exports that were all read and hold rows of it (`DecodedFromAllSources`), rows and status are of one run (`LoadedIsOneRun`, `ImplementsStore`), a row says what was printed (`RowIsPrinted`) and the connection is known (`ConnectionKnown`) in any language, a report is whole or refused (`ObservedIsWhole`), a device gets its nearest controller (`ReceiversPlaced`) |
| RF analysis | statements rest on rows (`CitationsHold`) and on tables that were read (`FindingsWarranted`), nothing passes in silence (`EverySectionSpeaks`), the advice is the best and settles (`AdviceSound`), receivers are reported once (`ReceiversPlaced`), files are of one run and others' evidence is kept (`FilesOfOneRun`, `OthersKept`) |
| Launcher | only a kit whose code was typed is run (`RunsVerified`), DONE: RESULT: PASS says so truly (`ResultsAreTrue`), a key is handed over after a pass only (`HandedAfterPass`) |
| Mac chain | only the PC's present key is pinned, and over another only when told to (`PinCurrent`); RESULT: PASS is a PC that can be used (`ResultsAreTrue`) |
| Collector engine | a source that is observed exported everything in the range it speaks for (`CoveredComplete`), a kept export has no hole (`NoHoles`), its two exports agree (`BinaryWithin`), an empty export is called quiet only with proof (`QuietProved`); a run that gets to its log leaves a bundle the verifier accepts (`BundleVerifies`), whose statuses match its files (`PrimaryTrusted`) and, when nothing throws, what was read (`DecidedByRead`) |

## Modules

| Module | What it is |
|---|---|
| `Dispatch` | the dispatcher, the collector process, the two directories, the person who clears old folders |
| `MC_Dispatch` | request sets and symmetry for TLC |
| `DispatchProofs` | the theorems about `Dispatch` |
| `InstallFrontDoor` | the installer, with everything it changes on the PC |
| `MC_InstallFrontDoor` | symmetry for TLC |
| `SourceStatus` | how a collector decides the status of a source, as operators |
| `EventSource` | one event log source of a collector, with the log changing under it |
| `EventSourceProofs` | the theorems about `EventSource` |
| `CollectorRun` | one run of a collector: its sources of every kind, the manifest, the logs, the exit code; what `verify_bundle.py` accepts |
| `MC_CollectorRun` | lists of sources for TLC |
| `CollectorRunProofs` | the theorems about `CollectorRun` |
| `SetupTrip` | the kit from the Mac to the PC and the host key back: `wf-start.sh`, the stick, the launcher, `wf-finish.sh` |
| `SetupTripProofs` | the theorems about `SetupTrip` |
| `TableStore` | the abstract store that fetches and decoders implement |
| `Fetch` | one bundle fetched any number of times: `wf-fetch.sh` and the channel |
| `DecodedTables` | the four decoders: which exports are read, what status results, the writes, stops and damage; `load_tables` as the reader |
| `StoreProofs` | the theorems about `Fetch` and `DecodedTables`, and that both implement `TableStore` |
| `NetshText` | what `decode_rf_survey.py` reads out of netsh's text, with and without known labels |
| `DpcIsrReport` | `decode_dpcisr.py` over an xperf report cut anywhere |
| `TextProofs` | the theorems about `NetshText` and `DpcIsrReport` |
| `Airspace`, `UsbTree` | the channel advice and the device tree as operators, with what is to hold of them |
| `RfAnalysis` | `analyze_rf_survey.py`: sections, evidence rows, findings, the three files |
| `RfAnalysisProofs` | the theorems about `RfAnalysis`, `Airspace` and `UsbTree` |
| `InstallFrontDoorProofs` | the theorems about `InstallFrontDoor` |
| `MC_MacSide` | fetch, decoders, netsh's text and xperf's report side by side for TLC |
| `MC_RfAnalysis` | the decoded bundles for TLC |

How they fit: `Dispatch` sends a bundle's zip, `Fetch` keeps it; `CollectorRun` leaves exports with a
status each (through `SourceStatus`, of which `EventSource` has the hardest case), `DecodedTables` starts
from these statuses; what it leaves to a reader (`LoadTable`) is what a bundle of `RfAnalysis` is made of.
Between two of them lie files that are finished, so the modules share no variables; `InstallFrontDoor` is
a single step of `SetupTrip`.

Definitions named "Mutant of X" are X with one plausible bug. They are part of no specification; putting
one in X's place must break the property `PROJECT.json` pairs with it, which shows that the property
depends on that line of the code.

## Dispatch

**State.** `outbox` and `staging` map each directory name to what is in it; `zip` is the file a fetch
keeps in `.staging`; per session there are the dispatcher's place (`pc`), request, candidate name, number
of attempts, the outcome of the collector, the answer (`reply`, the exit code) and what was sent
(`delivered`); `proc` is the place of the collector process and `seen` what it hashed for its manifest.
`now` is the UTC second that directory names are made of. `cleared` names the bundles the person began to
delete.

**Actions.** Every file system call a property can tell apart is a step: the count and the byte sum of
the limit check (`CheckCount`, `CheckBytes`), the two `Test-Path` calls on a name (`TestOutbox`,
`TestStaging`), `New-Item -Force` (`MakeWork`), the wait for the collector with its time limit
(`CollectorExited`, `Timeout`), the directory read before the exit code decides (`Stat`), the rename
(`Publish`; onto an existing directory it moves the source inside, as `Move-Item` does). The collector
process checks that its directory is fresh, makes the layout, writes, hashes, writes the manifest, exits.
`InternalError` is any call that throws; the finally block of a fetch then removes its zip, unless the
removal throws as well or is the call that threw (`ZipAfterError`). `Lose` is the loss of a session, which
ends the dispatcher where it stands and may or may not take the collector along. The person deletes a
bundle file by file.

**Abstractions.** A collector has one source with one export; its content is the session whose collector
wrote it last. `list` stands for the three verbs that only read. A size is a number of files. There is one
host. A dispatcher whose session was lost does not go on; its collector may.

**Runs.**

| Run | Question | Instance | Shows |
|---|---|---|---|
| `dispatch_verbs` | Is what is published, sent and answered right, whatever comes between two calls? | two sessions, every request, seconds 0 and 1, loss, errors, housekeeping | `SoleBundleWhole`, `FetchFaithful`, `NoStrayFiles`, `OkMeansPublished`, `PublishedFrozen`; that every request is answered: `Answered` |
| `dispatch_limit` | How far can the outbox pass its limit? | three runs, two at a time, a limit of one | `OutboxBound`: by no more than the other sessions open at once |
| `dispatch_twins` | Is only a run that exited 0 ever in the outbox? | two runs of one collector | violated, see below |

**Bounds, and why they are enough.** Two sessions meet in every pair of places; the hazards are between
pairs (two runs that take one name, a fetch and a deletion, a run and a limit). Two seconds make the same
and a later second; the last one stands for all later ones, so a sleeping session always wakes. Two
attempts at a name take the loop once round and out of it. For the limit a third run is needed, to begin
after one has been published, and a limit of one is reached at once. `MaxLive` is the number of sessions at
a time.

**Fairness.** `WF` on the clock, and on each dispatcher: it is a running process, and `WaitForExit` is
given a time limit. Nothing is assumed of collectors, which may hang for ever, of clients or of the person.

**A remark on `.staging`.** A zip whose removal throws (`dispatch.ps1:533`) stays, although its session has
ended; its client was told of an internal error, perhaps after the whole bundle. Nothing removes the zip
later, and the byte limit counts it. `NoStrayFiles` therefore allows a zip to a session that answered 70.

**Finding `dispatch_twins`.** The comment at `dispatch.ps1:375` says that a bundle still being written
can never be listed. A name is taken by two `Test-Path` calls and a `New-Item -Force` that succeeds on a
directory that is there, so two sessions that ask for one collector in the same second may work in one
directory. The collector's check for a fresh directory (`_common.ps1:692`) stops most of these, not two
that run in step; then the first to exit 0 publishes the other's unfinished work. This is why the
properties above speak of names only one run took (`Sole`), and why `PublishedFrozen` does not have to.

## InstallFrontDoor

**State.** The machine: which rules admit SSH too broadly (`rules`), the script's own rule and whose
address it holds (`own`), the service (`installed`, `start`, and `loaded`, the configuration it runs
with), the three configuration files, the default shell, the account, the key file, the record. The run:
where it is (`pc`), its kit, its copy of the record (`memory`), the plan still to be carried out, where it
failed, whether a verification was impossible; `unread`, a history variable, is whether it warned that it
could not read the record.

**Actions.** One per change others can see, in the order of S1 to S13. A run begins by reading the record
(`ReadState`): a file that was cut off, and one that is whole but cannot be read just then, gives the defaults
and a warning. `Step(p, q)` is the common form of
`Invoke-WfStep`: the call does its work and the run goes on, or it does its work and the step throws;
`Throws` is a call that throws before. After a throw the remaining steps are skipped, the record is saved
(`SaveState`, which does nothing while its directory is missing) and the summary printed. S3 takes the
inventory, disables rule by rule, and takes the inventory again; what it finds wrong goes through
`FailClosed`. S9 keeps the original once, keeps the previous file, replaces, validates, and puts the
previous one back when sshd rejects the file or does not start. `Crash` ends a run anywhere, also in the
middle of writing the record. Between runs Windows may restart, something may enable a rule, and the
person may pause the account, revoke the key, or remove the account S6 complained about.

**Abstractions.** A kit stands for the Mac's address, its key and this version's managed blocks. A rule
either admits SSH or it does not; those of `Policy` cannot be disabled. S7 (directories, files,
permissions) is one step, S10 to S12 are one that may be unverifiable. Files are whole, but for the record.

**Runs.**

| Run | Question | Instance | Shows |
|---|---|---|---|
| `install_safe` | What listens, what starts with Windows, what does PASS mean, what is kept? | two kits, an ordinary and a policy rule, every initial PC, three faults, any number of runs | `PassMeansReady`, `QuietUntilHardened`, `ListensNarrow`, `OriginalKept`, `AutomaticHardened`, `RecordKept` |
| `install_recovers` | Does running again help, after anything? | the same without policy rules and with a free account name, two faults | `Recovers` |
| `install_failopen` | Is sshd stopped after every firewall or sshd failure? | one kit, one rule, one fault | violated, see below |

**Bounds, and why they are enough.** Two kits are one that is installed and one that replaces it. One rule
that can be disabled (the one the feature brings) and one that cannot are the two ways S3 goes. Faults are
counted (a failed call, an impossible verification, a record that cannot be read, a crash, a rule that
appears), runs are not: three
faults let a run fail, its repair fail, and the next one find a rule that came back. Faults have to be
bounded for `Recovers`, which claims nothing of a PC that never stops failing.

**Environment.** A rule may appear between runs and until S3 takes its second inventory; one that appears
later is what running the setup again is for (CHECKLIST.md, Housekeeping). The person starts or stops sshd
by hand only to revoke the key.

**Fairness.** `WF(RunStep)`: a run that is started goes on, and when it has ended the person runs it
again, which is what the summary asks for. Only `Recovers` depends on it.

**Finding `install_failopen`.** README.md:113 of the front door says that a failure that concerns the
firewall or sshd leaves sshd stopped and on manual start. That holds for the checks inside S3. A call that
throws by itself, in S3 (removing or creating the rule, the inventory), in S4 (stopping the service) or in
S9 after the start, leaves sshd as it was; on a second run that is running, and starting with Windows.
What does hold is `ListensNarrow`, `QuietUntilHardened` and `AutomaticHardened`.

**A remark on the record.** `Save-WfState` (`Install-FrontDoor.ps1:974`) writes nothing until S7 has made
its directory. When a first run installs the OpenSSH Server feature and then fails in S3 to S6, the next run
finds the service there, passes, and records that this setup did not install it; the checklist's
instructions for removing everything (CHECKLIST.md:264) rely on that entry. The default shell values S5
removed are lost the same way. `RecordKept` speaks of a record that was written.

It speaks of a record that was read, too. `Read-WfState` catches whatever reading throws and goes on with the
defaults (line 1003), so a run that cannot read a whole record saves its own over it, and what earlier runs
did is forgotten. The run warns of it, and `RecordKept` leaves such a run out (`unread`): without a warning
nothing is forgotten.

## EventSource

**State.** The PC: its clock (`now`, `setback`), the channel as the sequence of all records `ever` raised
and the number of the `first` one still retained. The source (`Invoke-WfEventSource`): its place (`pc`),
the end of the query interval, the deadline, the reader's position, the accumulator (`rows`, `truncated`),
the read error, the oldest record the probe saw, the two files (`primary` is events.json, `evtx` is
events.evtx) and what the manifest entry says (`status`, `covered`).

**Actions.** `Begin` fixes the interval and the deadline; `Opened` and `OpenRefused` are the reader; a pull
ends the records (`PullEnd`), is kept (`PullRow`), hits a cap (`PullCut`) or fails (`PullFails`: deadline,
a record that cannot be converted, an exception). `Probe` is `Get-WfChannelState`, after the read; `Write`
writes events.json, `Export` runs wevtutil with the same query, `Conclude` decides the status and the
covered range and removes events.json unless it is kept; `Raises` is the catch block. Between any two of
them the PC raises a record and drops some of its oldest, the log is cleared, or time passes.

**Abstractions.** Records are numbers in the order they were raised; what the query tells apart of one is
its time and whether it matches. Time is in ticks of the system timer: `Get-WfUtcNow` returns the last
tick, so `Begin` moves the clock and a record raised after it is later than the window end. The byte cap
may cut at any row, instead of counting bytes. Reports, log lines and hashes are left out.

**Runs.**

| Run | Question | Instance | Shows |
|---|---|---|---|
| `event_source` | Does an observed source hold what it speaks for, are kept exports whole, do the two agree, whatever the log does meanwhile? | three records, four instants, a window of one, a deadline and a cap of two, a clock that may be set back once | `CoveredComplete`, `NoHoles`, `BinaryWithin` |
| `event_cleared` | Is an empty export called quiet only with proof? | two records | violated, see below |

**Bounds, and why they are enough.** With three records one is dropped, one stays, one arrives late, and
three matching ones pass the cap of two. The window is shorter than the clock runs, so records fall
before it, into it and after it, and the deadline can pass at every place. The bounds end the run: the
source may stop half way, which is why these runs do not check for deadlock.

**Finding `event_cleared`.** `Resolve-WfSourceStatus` compares the oldest retained record with the start of
the window only. When the log was empty as the interval was fixed and got its first record before the
probe, the source is `observed_zero` with a range that ends before it starts. The entry declares
(`_common.ps1:959`) that an empty export is only called quiet when the oldest record proves the range.

**A clock that is set back.** The covered range starts at the time of the oldest retained record
(`_common.ps1:603`), and the log drops by order, not by time. After the clock was set back, a dropped record
may be later than the oldest retained one and lie inside the range. `CoveredComplete` therefore speaks of
PCs whose clock was not set back (`setback = 0`); the other properties do not depend on it. The clock is set
back at any time before the run begins. One that is set back while the source is read is not modelled: a
record raised after that may be dated inside the interval, and then belongs to the binary export, which is made
later, and not to events.json; `NoHoles` and `BinaryWithin` claim nothing of such a run.

## CollectorRun

**State.** The run's place (`pc`), the source it is at and the place in it (`src`, `step`), what that
source read (`result`) and the status it gets (`outcome`); on disk, `files`, the roles of what each source
has under `raw/`, `lingers`, whether this PC lets a stopped tool keep its file open, `held`, the source whose export a stopped wevtutil still has open, and the manifest, the
summary and the log; `entries`, the `collectors` list of the manifest.

**Actions.** `Order` is the order in which each of the five `Invoke-Wf*Source` functions reads and writes;
`WriteConfig`, `Read`, `WritePrimary`, `WriteReport`, `Export` and `DecideStatus` are its places. A call
inside the `try` of a source may throw (`Caught`), leave a part of its file, and makes the source
`capture_failed` without a primary. `List` is `Get-WfArtifactRecords`, which lists and hashes what is there.
`ExportHeld` is an export that passed its deadline: `Invoke-WfProcess` kills wevtutil and does not wait, so
removing the file may throw. Then come the manifest, which may be cut off, the summary, the log and the
exit code; `Abort` is a call outside the sources that throws, `Failure` the `catch` of
`Invoke-WfCollectorScript`.

**Abstractions.** A source reads in one step and says what the read came to: an error, a count, whether it
was cut, whether an empty result is proved to be empty. `EventSource` has the steps of an event log, and
uses the same `SourceStatus`. A file is its role, and nothing changes it once it is listed.

**Runs.**

| Run | Question | Instance | Shows |
|---|---|---|---|
| `run_bundle` | Does a run that gets to its log leave a bundle the Mac accepts and can trust, whatever throws? Does each source get the status its read earned when nothing does? | a CIM class, a command and an event log, two calls that throw, PCs that let a stopped tool linger and PCs that do not | `BundleVerifies`, `PrimaryTrusted`, `DecidedByRead` |

**Bounds, and why they are enough.** Three sources are a first, a middle and a last one. Between them they
have every order of `Order` (a file and the device tree read and write in the order of a command, and differ
in their read errors only); the last one has the export, so that a file that is still open meets the list
and the manifest. The theorems speak of lists of every kind and length. Two calls that
throw are one in a source and one later, or one and another in the code that answers it. A run ends, so
these runs do not check for deadlock; nothing is claimed about liveness.

**A remark on tools that linger.** `_common.ps1:2722` says of the binary export that a failure is never
fatal. `Process.Kill` only asks for the end of the process, and `Invoke-WfProcess` returns without
`WaitForExit` (line 2813). While wevtutil has the export open, `Remove-Item` (line 910) may throw inside the
source's `try`: the source becomes `capture_failed`, and its complete events.json is removed. When it is
still open as the files are hashed, outside the `try`, the run ends without a manifest. The model has both
(`ExportHeld`, `Listed`); `BundleVerifies` and `DecidedByRead` hold all the same.

**A remark on the failure log.** When the summary or the log cannot be written after the manifest was, the
failure log says that no manifest was written (`_common.ps1:2345`). The bundle is good all the same
(`BundleVerifies`), and nothing reads that line.

## SetupTrip

**State.** The Mac: how many kits it has made, the `codes` it printed, whether the Host block is there, the
key that is `known`. The stick: the machine it is `at`, the zip, the key file. The launcher: its place, the
bytes it read, what it unpacked, the setup script's exit code, what it returned. The PC: its host key, the
kit it runs (`installed`). `wf-finish.sh`: its place, the fingerprint it expects, how it ended. `shown` are
the keys whose fingerprint the PC has displayed; `passed`, a history variable, those it had when a setup
exited 0.

**Actions.** On the Mac, `MacSetup`, `MakeKit` and `MakeKitFails` are `wf-start.sh` and the scripts it runs,
writing to the Desktop or to the stick itself; `CopyToStick` is the person. At the PC, `DoubleClick` reads
the zip, `TypeCode` is one answer to the question for the code, `Unpack` and `RunSetup` follow, `WriteHostKey`
ends the run; `StopBefore` is a stop the launcher explains, `CloseWindow` one it cannot. Back on the Mac,
`FinishTyped`, `FinishFromFile` and `FinishByEye` are where the expected fingerprint comes from,
`PinHostKey`, `PinRefuses` and `PinCutOff` are `wf-pin-host-key.sh`, `Accept` the acceptance checks. Between
any two of them the stick is carried (or pulled: the launcher does not notice), its zip is damaged, or
Windows is reinstalled with another host key.

**Abstractions.** Kits and host keys are numbers, a code is the kit it belongs to, a fingerprint its key.
The setup script is its result: a PASS leaves its kit working, any other end may leave the old one, the new
one or none (`InstallFrontDoor` has its steps). The person types codes and fingerprints the machines have
shown, or wrong ones, and compares by eye with a screen of the PC. One launcher runs at a time. The way of
a kit that does not go on a stick, in which the person runs the setup script by hand, is not modelled.

**Runs.**

| Run | Question | Instance | Shows |
|---|---|---|---|
| `setup_trip` | Which kit runs on the PC, which key comes back and is pinned, and are DONE and PASS true, wherever a script stops and whatever is on the stick? | two kits, two host keys, three answers | `RunsVerified`, `HandedAfterPass`, `PinCurrent`, `ResultsAreTrue` (`DoneIsInstalled`, `PassIsUsable`) |

**Bounds, and why they are enough.** Two kits are the one of this trip and of the one before, two keys the
PC before and after Windows was reinstalled; three answers are the code's own default. Runs of the scripts,
trips and damages are not counted. Nothing is claimed about liveness, since a person moves everything, and
the system may stop anywhere.

**Remarks.** The front door's README.md (line 83) says that a `pc-host-key.pub` of an earlier trip cannot
survive, because `wf-start.sh` deletes it. It deletes the one in the folder it writes; on a stick, a folder
that is copied over the old one leaves it there. `CopyToStick` has both. It is harmless: the file still
holds a key of this PC (`HandedAfterPass`), and it is pinned only if the PC still has it (`PinCurrent`).
The comment at `Start-FrontDoorSetup.ps1:311` says that a well formed code that differs stops the run; it is
asked again like any other (`TypeCode`), up to the three times.

## TableStore

What fetches and decoders promise the reader of their files. An item is absent, the result of one run, or
broken (a torn file, or two that do not belong together). It is replaced in two steps, `Break` and
`Publish`, and only by the run that is under way; it never disappears, and no run brings back an earlier
result. `Fetch` and `DecodedTables` instantiate it under a refinement mapping (`FoundZip`, `Found`), and
the runs check `ImplementsDelivery` and `ImplementsStore`. This is weaker than an atomic delivery, which is what
the code does: a stop while `cp` writes over an earlier zip leaves neither, and a decoder that is stopped
leaves a broken table.

## Fetch

**State.** The script's place (`phase`), whether it unpacks (`extract`), the zips the PC made (`sent`), the
stream as it arrived (`got`), the files under the bundle's name (`zip`, `dir`), each with the fetch it is of,
what it holds and whether it is torn, and how the last fetch ended (`code`).

**Actions.** `Answer` is `wf_verb`: an exit code other than 0, or a stream of which anything may have
arrived. `Check` is lines 53 to 69 (header, end marker, alphabet, size, SHA-256), `CheckNames` the
refusals before unpacking, `OpenZip` and `CloseZip` are `cp`, `Unzip` and `Unzipped` unzip; `Stop` is a
call that fails (`set -eu`) or a script that is killed; `MoveAway` is the person.

**Abstractions.** A zip is the base64 lines it is sent in, and whether all its entries are in its own
directory. The hash tells two bodies apart. A header is lost, but not altered into another well formed
one. One fetch at a time runs into a folder. A stop by the call of `cp` or `unzip` passes that call's exit
code on; it is one of the failures ("failed"). If unzip itself ended with 3, over a zip it could list just
before, the script's code 3 would read as "nothing is kept" although the zip is.

**Remarks.** `cp` writes under the final name, over an earlier zip, and is not atomic. An interrupted unzip
leaves a part of the directory, which every later `--extract` refuses until the person moves it away.

## DecodedTables

**State.** The decoder that is run; for each source, what the manifest claims (`claim`) and what its export
holds now (`raw`); the run's place (`stage`), the tables still to do (`todo`), what the one at hand decoded
to (`result`); for each table its rows and sidecar (`rows`, `meta`), each with the run it is of and whether
it is torn; `cut`, a history variable, are the tables whose last write did not finish.

**Actions.** `Decode` reads one table's exports in memory: it passes over a table without a usable source
(`Unwritten`; the three decoders differ in when), ends the run on an exception nothing catches, or goes on to
the four writes `OpenRows`, `CloseRows`, `OpenMeta`, `CloseMeta`. `Crash` ends a run anywhere; `Damage`
loses or spoils an export between runs. `LoadTable` is the analyzer's reader.

`StatusOf` is the status of one table. `decode_dpcisr` decodes one report into two tables and narrows the
status of the report table by table (`ReadReport`, `decode_dpcisr.py:254`): a report that reconciles without
interval rows has an observed table of modules and an `observed_zero` one of intervals.

**Abstractions.** An export is in one of nine conditions (`Conditions`), three of which are reports that
lack a part or do not add up, and `Read` says how each decoder's reader ends on each; rows are of a run, or
none. That a file may be garbled into other valid rows is left out.

**Remarks.** An exported netsh text that is not UTF-8 raises past `decode_table`
(`decode_rf_survey.py:549`, 553): the later tables of an earlier run stay. A netsh listing that lost its
layout reads as one without lines, `observed_zero`, and so is the interval table of a report that lost its
intervals; `DecodedFromAllSources` names both (`Blank`). Of a report that does not reconcile the rows are
kept beside the status `decode_failed`. A table whose exports are no longer usable is not
rewritten, so the table of an earlier run is still read as observed; docs/measurement-status.md:11 has
`decode_failed` for what a reader then finds as `not_collected` or as the older table. The `row_count` of
the sidecar (bundle.md:63) is compared by nothing. A counter file that begins with a blank line is an
`IndexError` in `decode_pdh.py`.

## NetshText

**State.** netsh: the line printed last (`place`), what it printed of the current access point
(`printed`), the adapters. The decoder, twice: `reader` and `field` hold its state inside an access point
and inside a block of fields, for a reader that knows the English labels and for one that knows none. `key` is how the
last field was classified, `connected` the adapter of the first network read.

**Actions.** One for each line netsh prints, in netsh's order, read by both readers as it is printed
(`BssLine`, `FieldLine`). The order is that of the fixtures under `fixtures/collector-bundles`.

**Abstractions.** A value is its shape and, where a row keeps it, itself. The labelled channel is a number
(another text would be an uncaught `ValueError`, line 338). A field of a row is a set of at most one value.

**A remark on bands.** Without a `Band` line the band is inferred from the channel. The comment at
`decode_rf_survey.py:255` names one way this misleads, a 6 GHz access point taken for 5 GHz; its
channels 1, 5, 9 and 13 are taken for 2.4 GHz and then count in the airspace. `RowIsPrinted` therefore
claims the band only when netsh printed one.

## DpcIsrReport

**State.** The trace (`counted`); xperf's place in its report (`at`, `section`, `shown`, `summed`); one line
may have been unreadable (`damaged`); the reader's state (`scan`); the two sidecars once written (`table`).

**Actions.** xperf prints a line and `parse_report` reads it (`Show` with `ReadLine`), or reads it as
noise. `WriteTables` may come after any line: the report was cut there. It runs `checks_for` on each section and
writes both tables; the schema may refuse the rows of either.

**Abstractions.** A module's histogram is its total, a table's cells are left out. A heading is readable:
an unreadable one would leave its section to the one before. What the checks cannot see stays unseen: a report that ends
between the sections has no interrupt section and is observed without it (`ObservedIsWhole` speaks of what
xperf printed), and an interval table that is cut is short without a sign.

**Runs** of the four modules:

| Run | Question | Instance | Shows |
|---|---|---|---|
| `mac_side` | Is what lies on the Mac what was sent, and does what was decoded say what was read? | see below; a million states | of `Fetch`: `KeptIsSent`, `CodeIsTrue`, `ImplementsDelivery`; of `DecodedTables`: `LoadedIsOneRun`, `DecodedFromAllSources`, `ImplementsStore`; of `NetshText`: `RowIsPrinted`, `ConnectionKnown`; of `DpcIsrReport`: `ObservedIsWhole` |

`MC_MacSide` extends the four modules and lets one of the tools move in a behaviour: they share no state, so their product would
show no more. **Bounds, and why they are enough.** Two fetches of zips of up to two lines: one over an
earlier one, a line lost in front of another. Two runs of each decoder and one damaged export: a run over
what another left, one of two exports unread; the tables of the instance are one of each way a decoder
reads, two from two exports. Two percentages, one channel of each numbering, two adapters: a value of
an earlier line or adapter differs from the right one. Two modules with one or two counts: sums that agree
by accident, tables that lost a row. The theorems speak of all sizes. Every tool
may stop, so deadlock is not checked; nothing is claimed about liveness.

## RfAnalysis, Airspace, UsbTree

**State.** The decoded bundle and the owner's network (`bundle`, never changed); the run's place (`stage`,
`todo`), its evidence rows (`ev`), `findings`, the interface the traffic section found (`iface`), the sections
that failed, the status; the report, the result and the evidence file, each with its run and whether it is
torn; `whole`, a history variable, is whether the last run that began to write also finished.

**Actions.** `RunSection` is one section with all its rows, links and findings (`Traffic`,
`AirspaceSection`, `ReceiverSection`, `RadioSection`, `EventSection`); `FailSection` one that raises after
any number of its rows. `Validate` decides the status and drops everything when the schema refuses a row. Then the
writes, with `ReadEvidence`, which reads back the rows of others. `Crash` ends a run anywhere.

`Airspace` is the channel arithmetic: overlap, load, the lightest candidate, the advice. `UsbTree` is the
walk to a device's ancestors and its nearest controller (`decode_pnp`), and which receivers are reported.
Both are pure; what must hold of them is stated against definitions that do not mention the walk or the
ranking (`Above`, `AdviceIsLightestOn`).

**Abstractions.** A row is its signal and its links; values, wording and the report's layout are left out, and
so is the placement finding, which is the same for every bundle. The owner's network is named and seen, or not.
A scan lists an address once (`IsScan`). `IsBundle` says what the decoders give the analysis: lists of routes
and adapters, a finite table of devices (`IsTree`: whatever a parent names, it is looked up among them), a
metric of sixteen bits or none, which is what the analyzer counts on when it takes 65536 for a missing one
(`analyze_rf_survey.py:254`). Findings are a set: their order is that of the report.

**Runs.**

| Run | Question | Instance | Shows |
|---|---|---|---|
| `rf_analysis` | Does every statement rest on rows that say so and tables that were read, whatever fails and wherever it stops? Is the advice right? | some 900 bundles: two default routes in every order, two access points of the owner's and two of others, two receivers below a hub in any tree, every table unread in each way; two runs | `CitationsHold` (`EvidenceGrounded`, `CitedRowsKept`), `FindingsWarranted` (`MeasuredWasRead`, `UnusedIsOffThePath`, `SplitIsTold`), `EverySectionSpeaks`, `FilesOfOneRun`, `OthersKept`, `AdviceSound` (`AdviceIsLightest`, `AdviceSettles`), `ReceiversPlaced` (`NearestController`, `OneReportPerReceiver`) |

**Bounds, and why they are enough.** The sections read disjoint tables, but for the interface and the
adapters, so the bundles vary one section's tables at a time. Two routes decide every case of the order; two
receivers can lie beside or above each other, in a circle too; channels are on, four from, and five from the
candidates. Two runs are one that was stopped and one that puts it right.

**Remarks.** The adapter's row says that it carries the default route when no route is known
(`analyze_rf_survey.py:541`: `not unused`). When IPv4 and IPv6 leave by different interfaces, Wi-Fi behind
the one of the higher metric is called unused, and the finding's title says that it carries no traffic,
although one family uses it. What holds is that another interface has a default route at least as good
(`UnusedIsOffThePath`), and that the finding on the traffic then says that the families are split
(`SplitIsTold`; the model tells this finding apart by its id, `traffic_split`, the code by a sentence and
`split_families`). The row of the
recommendation carries the lightest candidate also when the advice is to keep another of equal load, or
when the owner has no 2.4 GHz access point (lines 394 to 423). With an observed Bluetooth source, an
unreadable device table gives no finding on Bluetooth, and an unreadable adapter table none on Wi-Fi. After
a stop while `evidence.jsonl` is open, later runs either raise at line 765, when report and result are
written already, or lose the rows of others without a word. Rows are renumbered in each run.

## Proofs

`DispatchProofs` proves, for any sessions, collectors, limits and clock:

| Theorem | States |
|---|---|
| `TypeCorrect` | `Spec => []TypeOK` |
| `FrozenTheorem` | `Spec => PublishedFrozen` |
| `BoundTheorem` | `Spec => []OutboxBound` |
| `OkTheorem` | `Spec => []OkMeansPublished` |
| `WholeTheorem` | `Spec => []SoleBundleWhole` |
| `FetchTheorem` | `Spec => []FetchFaithful` |
| `StrayTheorem` | `Spec => []NoStrayFiles` |

They rest on `ConstantsAssumption` (finite sets of sessions and collectors, limits that are positive
numbers) and `NoneAssumption` (`None` is none of the values it is told apart from); TLC evaluates both in
every run.

The argument. `Inv` is the type invariant with `Shape`, which says how the parts of one session's state go
together (a session that publishes has a collector that exited 0, a fetch has a name, an answer means the
session is over); every proof starts from it.

- `FrozenTheorem`: only `Publish` and the person's deletions change the outbox (`OutboxSteps`), and
  `Publish` leaves what is there at the top level alone.
- `BoundTheorem`: the count alone is not inductive, because sessions past the check will still publish.
  `BoundInv` counts them in: bundles and sessions that may still add one are together below
  `MaxBundles + MaxLive`. A session that passes the check found fewer than `MaxBundles`, and no more than
  `MaxLive` are open.
- `OkTheorem`: `OkInv` also speaks of the session that has published and not answered yet.
- `WholeTheorem`: `Intact` follows the one run of a name from the fresh directory to the published bundle:
  what the directory holds at each place of the collector, in `.staging` or in the outbox. The other
  sessions cannot disturb it, since a name they have no run under is one they never write
  (`StepIntactOther`). `WholeInv` adds that every directory belongs to some run.
- `FetchTheorem`: `FetchInv` says the same of the zip; it needs `WholeInv`, by which a bundle is whole
  when it is read, and `SoleFrozen`, by which it then stays the same.
- `StrayTheorem`: a session between the rename and its answer must not count for its directory any more
  (`Owes`), since nothing but that answer separates it from one that is done; a collector that still runs
  owes its directory whatever became of its session. A zip that stays has a session that said why.

`EventSourceProofs` proves, for any window, deadline, cap and length of the run:

| Theorem | States |
|---|---|
| `TypeCorrect` | `Spec => []TypeOK` |
| `KeptWithoutHoles` | `Spec => []NoHoles` |
| `ExportsAgree` | `Spec => []BinaryWithin` |
| `CoverageHolds` | `Spec => []CoveredComplete` |

They rest on `ConstantsAssumption` (naturals, and a positive cap) and `NoneAssumption`. `NoHoles` and
`BinaryWithin` follow from `Inv`: what is not in the accumulator and matches lies before the reader's
position or was dropped already, and how rows, files and status go together at each place (`Position`).
`CoverageHolds` needs two more conjuncts, which hold as long as the clock was not set back
(`CoverInv`). `InOrder` says that records are in the order of their times, which is what a
clock that is set back breaks. `Proved` says what the probe's answer proves once it is there: every
matching record of the interval that is later than the oldest retained one was pulled. The argument is
that a record dropped during the read is no later than any retained one, hence no later than the one the
probe finds afterwards. `MinNat` and `MaxNat` give the least and greatest elements that `Min` and `Max`
choose.

`CollectorRunProofs` proves, for any list of sources, any number of calls that throw, and PCs that let a
tool linger or do not:

| Theorem | States |
|---|---|
| `TypeCorrect` | `Spec => []TypeOK` |
| `BundleAccepted` | `Spec => []BundleVerifies` |
| `PrimariesTrusted` | `Spec => []PrimaryTrusted` |
| `StatusesEarned` | `Spec => []DecidedByRead` |

They rest on `SourcesAssumption` (at least one source, each of a known kind) and `NoneAssumption`. The two
properties speak of the end of a run; `Inv` follows them through it. `Loop` ties the entries to the source
the run is at and says that later sources have no files yet; `Recorded` says of every entry what
`PrimaryTrusted` says of the bundle, and that its list is still what is on disk (`OwnFiles`: a source
touches only its own directory). `InSource` says why a source that decides has its primary exactly when the
read went well, which is a matter of `Order`: `OrderFacts` is where a reordering of a source's steps would
fail. `ToList` holds between the decision, or the `catch` block, and the list.
`Smooth` adds to it that a run without a fault and a lingering tool never meets the `catch` block.

`SetupTripProofs` proves, for any numbers of kits, host keys and answers:

| Theorem | States |
|---|---|
| `TypeCorrect` | `Spec => []TypeOK` |
| `VerifiedTheorem` | `Spec => []RunsVerified` |
| `HandedTheorem` | `Spec => []HandedAfterPass` |
| `PinnedTheorem` | `Spec => []PinnedIsPCs` |
| `PinTheorem` | `Spec => PinCurrent` |
| `DoneTheorem` | `Spec => DoneIsInstalled` |
| `PassTheorem` | `Spec => PassIsUsable` |
| `ResultsTheorem` | `Spec => ResultsAreTrue` |

They rest on `BoundsAssumption` and `ValuesAssumption` (the values for "none", "cut off" and "mistyped" are
none of the others). `RunsVerified` is not inductive: the launcher's memory must be followed from the
comparison to the setup, which `Verified` does; it mentions neither the stick nor the Mac, which is why
nothing that happens to them matters. `Sources` says that every fingerprint there is to compare with comes
from the PC. With it, `MatchIsPCs` is the heart of the Mac's side: whatever machine answers, a comparison
lets through only the key the PC has now.

`StoreProofs` proves of `DecodedTables`, for any decoders, tables, exports and numbers of runs:

| Theorem | States |
|---|---|
| `TypeCorrect` | `Spec => []TypeOK` |
| `ClaimsWhatWasRead` | `Spec => []DecodedFromAllSources` |
| `LoadIsConsistent` | `Spec => []LoadedIsOneRun` |
| `DecodersImplementStore` | `Spec => ImplementsStore` |

They rest on `LayoutAssumption` (a decoder has tables, a table a list of exports), `AbsentAssumption` and
`BrokenAssumption`. `DecodedFromAllSources` is not inductive: what it says of a sidecar must already hold of
the `result` in memory, where it follows from `StatusOf` by cases on the exports, decoder by decoder and, for
the report of xperf, table by table. `LoadedIsOneRun` and the refinement
follow the table at hand through its four writes and say of all others that their files are of one run unless
they are in `cut`.

and of `Fetch`, for any numbers of fetches and lines:

| Theorem | States |
|---|---|
| `FetchTypes` | `FSpec => []FTypeOK` |
| `WhatIsKeptWasSent` | `FSpec => []KeptIsSent` |
| `ExitCodeIsTrue` | `FSpec => []CodeIsTrue` |
| `UnpackedIsSafe` | `FSpec => UnpackedStays` |
| `FetchImplementsStore` | `FSpec => ImplementsDelivery` |

They rest on `BoundsAssumption` and `FilesAssumption`. `FInv` adds two conjuncts to the properties:
`Phases`, what has been checked of the stream at each place, and `Dated`, that no file is of a later fetch than the
last. For the refinement every step is a `Begin`, `Break`, `Publish` or stutter of the store.

`TextProofs` proves of `NetshText`, for any numbers, percentages and adapters, and listings of any length:

| Theorem | States |
|---|---|
| `TypeCorrect` | `NSpec => []NTypeOK` |
| `RowsArePrinted` | `NSpec => []RowIsPrinted` |
| `ConnectionRead` | `NSpec => []ConnectionKnown` |

The argument is what the reader remembers at each place of netsh's layout: `BssInv` says that both readers
agree, which field they set last and at which depth, so that a number can be taken for a channel only where
netsh prints one; `FieldInv` says the same of the adapters, up to the end of the first that is connected.
After that the blind reader may misname lines, and `FirstConnectionBlind` claims nothing.

and of `DpcIsrReport`, for any modules and counts:

| Theorem | States |
|---|---|
| `WholeIfObserved` | `DSpec => []ObservedIsWhole` |

It rests on `NothingAssumption`: what is not there is told apart from a kind and a count. `ObservedIsWhole` speaks
of the end; the invariant `DInv` says where the reader can be at each line xperf prints. It is in step with
the report (`InStep`), or one unreadable line has made it pass over what it needed. When that was the header of
the intervals it seeks on, past the heading of the interrupts if need be (`IntervalsLost`, `PassedOver`): the
interrupts are then read as rows of intervals, and the first module among them fails the parse. When it was the
header of the modules it takes a later header for that one (`TableLost`), but then it has passed over the
total, and a section without a total does not reconcile. `Faithful` is what a section is worth: with a span and a total
its modules are those printed, and every total in it is the trace's. What the sums come to is not needed: a
section reconciles only when it has totals of exactly its modules.

`RfAnalysisProofs` proves, for any bundles and any number of runs:

| Theorem | States |
|---|---|
| `TypeCorrect` | `Spec => []TypeOK` |
| `RunEndsWhole` | `Spec => []FilesOfOneRun` |
| `OthersOnlyLostTorn` | `Spec => OthersKept` |
| `CitedIsThere` | `Spec => []CitationsHold` |
| `FindingsAreWarranted` | `Spec => []FindingsWarranted` |
| `NoSectionIsSilent` | `Spec => []EverySectionSpeaks` |
| `ReceiversArePlaced` | `Spec => []ReceiversPlaced` |
| `AdviceTheorem` | `Spec => []AdviceSound` |

They rest on `NoneAssumption`, `RunsAssumption` and `BundlesAssumption` (every bundle is one, `IsBundle`). The
files are followed through the writes (`Written`). What a run says is followed through its sections: `RunInv` is the
invariant, with the rows so far and the findings on them (`Listed`), what the findings claim (`Told`), the sections
that have spoken (`Spoken`) and what the files hold of them (`Recorded`). A section names its rows by their place behind
`base` others; that it cites none but its own, whatever stands before them, is shown once per section, for
tables of any length, and `Listed` carries it past a section that failed half way. An unused adapter is off the
path because `BestRoute` has a value: `Before` is a strict order up to ties, for which the sixteen bits
of the metric are needed. When it has the better route of a family all the same, that route and the best one
lead two families by different interfaces, which is what the traffic section calls split.

Some of this is computed by recursion: the rows of the radios are joined adapter by adapter, a device's ancestors are
walked one by one, into a circle too. The prover has no induction over an operator, but it has the
least element of a set of numbers, and with it what such a definition gives can be proved: a function that
satisfies the recursion exists (`Repetition`, `Flattened`), so the definition has a value, and a
property that holds at first and is handed on has no least number at which it fails (`Induction`).
`ReceiversPlaced` follows for every table of devices: the ancestors of a device end, at one without a parent among the devices or
where a circle closes, and they are all there is above it.

The advice is a pair of facts of arithmetic over scans of any size: the load is a
strict order up to ties, so there is a lightest candidate (`Lightest` is a `CHOOSE` whose existence is
proved), the counts come from finite sets, and moving one's own access points changes no load.

`InstallFrontDoorProofs` proves, for any kits, rules and numbers of faults, crashes and runs:

| Theorem | States |
|---|---|
| `TypeCorrect` | `Spec => []TypeOK` |
| `PassTheorem` | `Spec => []PassMeansReady` |
| `QuietTheorem` | `Spec => []QuietUntilHardened` |
| `NarrowTheorem` | `Spec => []ListensNarrow` |
| `OriginalTheorem` | `Spec => []OriginalKept` |
| `AutomaticTheorem` | `Spec => []AutomaticHardened` |
| `RecordTheorem` | `Spec => RecordKept` |

They rest on `KitAssumption` (finite sets, the feature's rule is not a policy rule, kits are told apart from
other contents) and `NoneAssumption`. None of the properties is inductive. `Reached` says what holds of the PC
at each place of a run that has not failed, from the firewall S3 found narrow to the configuration S9 started;
`Endings` carries it past the self test, whose failure alone lets a run go on (`Failing`), to the summary.
`Files` says that the file kept first is the owner's, whichever file is put back, for which sshd must
have a file whenever it runs; `Grows`, that what a run would save holds all that was saved, unless it
could not read that. `StepKeeps` and
`FailStep` do once what all steps share; each action then shows what it leaves behind.

## What only TLC checks, what is not modelled

Liveness (`Answered`, `Recovers`) is out of the prover's reach and is checked on the instances. Every
other property that a run checks and expects to hold is proved, for every value of the constants. The type
invariants are proved (`TypeCorrect`, `FetchTypes`) and in no run. What `Sum` of `DpcIsrReport` comes to, a recursive
fold, is not proved and no theorem needs it.

Not modelled:

- file permissions and who may write where (S7, `Assert-WfAcl`): one step that works or throws;
- the text of requests, replies, configuration files, registry values; the rows of the event log, counter and
  remaining JSON tables; the wording of reports;
- Windows itself: the firewall's evaluation of rules, the service manager, sshd; they appear as the
  program sees them;
- a kit that does not travel on a stick, two launchers at once, what the ten acceptance checks look at, a
  `wf-finish.sh` whose acceptance script ends without a RESULT line beyond that it is no PASS;
- the inner reads of the CIM, command, file and device tree sources, with two places a test would hardly
  reach: the history of a CIM class is enumerated while its store drops old instances, and the probe for the
  oldest one comes after (`_common.ps1:1090`); an ancestor is counted before its row may be refused, so at a
  cap the report says one seed too few (`_common.ps1:1991`);
- the Host block in `~/.ssh/config`: without its END line everything after its BEGIN line is dropped
  (`wf-mac-setup.sh:95`), and the backup is only that of the first run;
- the decisions of `WfSetupLib.ps1` over single rules and lines;
- the collector definitions, the Process Monitor tools, schemas and fixtures:
  no state, or data (`PROJECT.json`, `components`, says which and why);
- a crash in the middle of writing `sshd_config` or `sshd_config.wf-original` (listed as hazards).

## Plan

Done: `Dispatch`, `InstallFrontDoor`, `EventSource`, `CollectorRun`, `SetupTrip`, `Fetch`, `DecodedTables`,
`NetshText`, `DpcIsrReport` and `RfAnalysis` with proofs.

What would come next, in this order:

1. `EventSource` as a refinement of the source that `CollectorRun` runs, and the inner reads of the other
   kinds of source;
2. the firewall plan, the config merge and the access rule check of `WfSetupLib.ps1` as operators against
   reference definitions; torn configuration files.

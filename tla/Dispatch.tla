------------------------------ MODULE Dispatch ------------------------------
(***************************************************************************)
(* The forced command of the SSH front door,                               *)
(* remote-access/windows/dispatch.ps1, with the collector process it       *)
(* starts (collectors/windows/_common.ps1) and the two directories they    *)
(* share: the outbox, and outbox\.staging inside it.                       *)
(*                                                                         *)
(* sshd starts one dispatcher process per SSH session, so several of them  *)
(* run at the same time and nothing but the file system coordinates them.  *)
(* Every file system call a property can tell apart is a step of its own:  *)
(* another session, a collector, the person clearing old folders, or the   *)
(* loss of the session may come between any two of them.                   *)
(*                                                                         *)
(* Abstractions. A collector has one source, whose export is one file.     *)
(* A file's content is the session whose collector wrote it last.  Time is *)
(* the UTC second of Get-WfUtcStamp.  A size is a number of files.         *)
(***************************************************************************)
EXTENDS Naturals, FiniteSets

CONSTANTS
  Session,       \* SSH sessions, each running the dispatcher once
  Collector,     \* names that match the collector name pattern
  Installed,     \* the collectors that are installed
  Request,       \* the requests clients make (see Requests)
  MaxLive,       \* bound: sessions open at the same time
  MaxBundles,    \* Config.MaxBundles
  MaxBytes,      \* Config.MaxOutboxBytes, in files
  MaxAttempts,   \* attempts at a directory name (the literal 3)
  LastSecond,    \* bound: the last second of the clock
  Events,        \* bound: what the environment does besides (see Mishaps)
  None           \* "no such file", "nobody", "no answer yet"

Second == 0 .. LastSecond

\* A bundle directory name, <utc second>_<collector>_<host>: there is one host.
Name == Second \X Collector

\* manifest.json: the run that wrote it and the content it lists for raw/.
Manifest == [by : Session, lists : Session \cup {None}]

\* A bundle directory: are raw/ and logs/ there, who wrote the export under
\* raw/, the manifest, and whether another directory was moved into it.
Dir == [raw : BOOLEAN, logs : BOOLEAN, data : Session \cup {None},
        manifest : Manifest \cup {None}, nested : BOOLEAN]

EmptyDir == [raw |-> FALSE, logs |-> FALSE, data |-> None,
             manifest |-> None, nested |-> FALSE]

\* What Resolve-WfVerb makes of a request. "list" stands for the verbs that
\* only read: ping, list-bundles and security-log-access.
Requests == [verb : {"collect"}, arg : Collector]
              \cup [verb : {"fetch"}, arg : Name]
              \cup [verb : {"list", "refuse"}, arg : {None}]

Codes == {0, 64, 65, 66, 70, 71, 72, 73, 75}

\* What Invoke-WfNative reports: exit code 0, another one, or its time limit.
Outcomes == {"ok", "failed", "timeout"}

\* A session is lost, a file call throws, the person clears old folders.
Mishaps == {"lost", "error", "housekeeping"}

ASSUME ConstantsAssumption ==
  /\ IsFiniteSet(Session)
  /\ IsFiniteSet(Collector)
  /\ Installed \subseteq Collector
  /\ Request \subseteq Requests
  /\ MaxLive \in Nat \ {0}
  /\ MaxBundles \in Nat \ {0}
  /\ MaxBytes \in Nat \ {0}
  /\ MaxAttempts \in Nat \ {0}
  /\ LastSecond \in Nat
  /\ Events \subseteq Mishaps

ASSUME NoneAssumption ==
  None \notin Session \cup Collector \cup Name \cup Dir \cup Manifest
                \cup Requests \cup Codes \cup Outcomes

VARIABLES
  now,        \* the UTC second
  outbox,     \* outbox\<name>, per name
  staging,    \* outbox\.staging\<name>, per name
  zip,        \* outbox\.staging\<name>.<guid>.zip, per session
  pc,         \* where the dispatcher of each session is
  req,        \* its request
  name,       \* the candidate, then the directory name it took
  tries,      \* failed attempts at a name
  outcome,    \* what Invoke-WfNative returned for the collector
  proc,       \* where the collector process of each session is
  seen,       \* what that collector listed for its manifest
  reply,      \* the exit code the client was given
  delivered,  \* the bundle a fetch sent
  cleared     \* names the person at the PC has begun to delete

files    == <<outbox, staging, zip, cleared>>
sessions == <<pc, req, name, tries, outcome, reply, delivered>>
vars     == <<now, files, sessions, proc, seen>>

-----------------------------------------------------------------------------

Over == {"done", "lost"}
Busy == {"request", "count", "bytes", "test_outbox", "test_staging",
         "sleep", "make", "run", "stat", "publish", "reply",
         "zip", "send", "clean"}
\* Past the limit check, and still able to add a directory to the outbox.
Admitted == {"bytes", "test_outbox", "test_staging", "sleep", "make", "run",
             "stat", "publish"}
Running == {"start", "layout", "write", "list", "seal", "exit"}
Ended   == {"exit0", "exit1", "killed"}

Live == {s \in Session : pc[s] \in Busy}

\* The directories Get-WfBundleList finds (it never looks into .staging).
Bundles == {n \in Name : outbox[n] # None}

HoldsFiles(tree) == {n \in Name : tree[n] # None /\ tree[n].data # None}

\* Everything Get-WfDirectoryStat counts under the outbox.
OutboxBytes ==
  Cardinality(HoldsFiles(outbox)) + Cardinality(HoldsFiles(staging))
    + Cardinality({s \in Session : zip[s] # None})

\* Mutant of BundleDir: a fetch also finds what is still in .staging.
BundleDirAnywhere(n) == IF outbox[n] # None THEN outbox[n] ELSE staging[n]

\* The directory a fetch reads: outbox\<bundle dir>.
BundleDir(n) == outbox[n]

\* New-Item -ItemType Directory -Force: the directory, created when missing.
Ensured(n) == IF staging[n] = None THEN EmptyDir ELSE staging[n]

Init ==
  /\ now = 0
  /\ outbox = [n \in Name |-> None]
  /\ staging = [n \in Name |-> None]
  /\ zip = [s \in Session |-> None]
  /\ pc = [s \in Session |-> "idle"]
  /\ req = [s \in Session |-> None]
  /\ name = [s \in Session |-> None]
  /\ tries = [s \in Session |-> 0]
  /\ outcome = [s \in Session |-> None]
  /\ proc = [s \in Session |-> "none"]
  /\ seen = [s \in Session |-> None]
  /\ reply = [s \in Session |-> None]
  /\ delivered = [s \in Session |-> None]
  /\ cleared = {}

-----------------------------------------------------------------------------
(* The dispatcher process of one session.                                  *)

Goto(s, from, to) ==
  /\ pc[s] = from
  /\ pc' = [pc EXCEPT ![s] = to]

\* The dispatcher writes its JSON line and exits with code c.
Answer(s, from, c) ==
  /\ Goto(s, from, "done")
  /\ reply' = [reply EXCEPT ![s] = c]

Asks(s, verb) == pc[s] = "request" /\ req[s].verb = verb

\* A client opens a session with a request.
Connect(s) ==
  /\ Cardinality(Live) < MaxLive
  /\ Goto(s, "idle", "request")
  /\ \E r \in Request : req' = [req EXCEPT ![s] = r]
  /\ UNCHANGED <<now, files, name, tries, outcome, reply, delivered,
                 proc, seen>>

Refuse(s) ==
  /\ Asks(s, "refuse")
  /\ Answer(s, "request", 64)
  /\ UNCHANGED <<now, files, req, name, tries, outcome, delivered, proc, seen>>

\* ping, list-bundles, security-log-access: the outbox is read, not changed.
ListBundles(s) ==
  /\ Asks(s, "list")
  /\ Answer(s, "request", 0)
  /\ UNCHANGED <<now, files, req, name, tries, outcome, delivered, proc, seen>>

UnknownCollector(s) ==
  /\ Asks(s, "collect")
  /\ req[s].arg \notin Installed
  /\ Answer(s, "request", 65)
  /\ UNCHANGED <<now, files, req, name, tries, outcome, delivered, proc, seen>>

KnownCollector(s) ==
  /\ Asks(s, "collect")
  /\ req[s].arg \in Installed
  /\ Goto(s, "request", "count")
  /\ UNCHANGED <<now, files, req, name, tries, outcome, reply, delivered,
                 proc, seen>>

\* Mutant of CheckCount: the limit itself is still let through.
CheckCountLoose(s) ==
  /\ IF Cardinality(Bundles) > MaxBundles
       THEN Answer(s, "count", 73)
       ELSE Goto(s, "count", "bytes") /\ UNCHANGED reply
  /\ UNCHANGED <<now, files, req, name, tries, outcome, delivered, proc, seen>>

\* The bundle count and the bytes are two reads of the directory tree.
CheckCount(s) ==
  /\ IF Cardinality(Bundles) >= MaxBundles
       THEN Answer(s, "count", 73)
       ELSE Goto(s, "count", "bytes") /\ UNCHANGED reply
  /\ UNCHANGED <<now, files, req, name, tries, outcome, delivered, proc, seen>>

CheckBytes(s) ==
  /\ IF OutboxBytes >= MaxBytes
       THEN Answer(s, "bytes", 73)
       ELSE Goto(s, "bytes", "test_outbox") /\ UNCHANGED reply
  /\ UNCHANGED <<now, files, req, name, tries, outcome, delivered, proc, seen>>

\* The candidate is named after the present second; Test-Path on the outbox.
TestOutbox(s) ==
  LET candidate == <<now, req[s].arg>> IN
  /\ pc[s] = "test_outbox"
  /\ name' = [name EXCEPT ![s] = candidate]
  /\ IF outbox[candidate] = None
       THEN /\ Goto(s, "test_outbox", "test_staging")
            /\ UNCHANGED tries
       ELSE /\ Goto(s, "test_outbox", "sleep")
            /\ tries' = [tries EXCEPT ![s] = @ + 1]
  /\ UNCHANGED <<now, files, req, outcome, reply, delivered, proc, seen>>

\* Test-Path on .staging: a second call, after the one on the outbox.
TestStaging(s) ==
  /\ pc[s] = "test_staging"
  /\ IF staging[name[s]] = None
       THEN /\ Goto(s, "test_staging", "make")
            /\ UNCHANGED tries
       ELSE /\ Goto(s, "test_staging", "sleep")
            /\ tries' = [tries EXCEPT ![s] = @ + 1]
  /\ UNCHANGED <<now, files, req, name, outcome, reply, delivered, proc, seen>>

\* Start-Sleep -Milliseconds 1100 ends in a later second. The last second
\* stands for every second after it.
Wake(s) ==
  /\ pc[s] = "sleep"
  /\ now > name[s][1] \/ now = LastSecond
  /\ IF tries[s] < MaxAttempts
       THEN Goto(s, "sleep", "test_outbox") /\ UNCHANGED reply
       ELSE Answer(s, "sleep", 75)
  /\ UNCHANGED <<now, files, req, name, tries, outcome, delivered, proc, seen>>

\* New-Item -Force succeeds on a directory another session has just created.
MakeWork(s) ==
  /\ Goto(s, "make", "run")
  /\ staging' = [staging EXCEPT ![name[s]] = Ensured(name[s])]
  /\ proc' = [proc EXCEPT ![s] = "start"]
  /\ UNCHANGED <<now, outbox, zip, cleared, req, name, tries, outcome, reply,
                 delivered, seen>>

CollectorExited(s) ==
  /\ proc[s] \in Ended
  /\ Goto(s, "run", "stat")
  /\ outcome' = [outcome EXCEPT ![s] =
                   IF proc[s] = "exit0" THEN "ok" ELSE "failed"]
  /\ UNCHANGED <<now, files, req, name, tries, reply, delivered, proc, seen>>

\* Mutant of Timeout: WaitForExit() without a limit.
NoTimeout(s) == pc[s] = "run" /\ proc[s] \in Ended /\ UNCHANGED vars

\* CollectorTimeoutSeconds ran out: taskkill /T /F, then Kill(). Neither
\* outcome of the kill is checked, so the collector may go on running.
Timeout(s) ==
  /\ proc[s] \in Running
  /\ Goto(s, "run", "stat")
  /\ outcome' = [outcome EXCEPT ![s] = "timeout"]
  /\ proc' \in {proc, [proc EXCEPT ![s] = "killed"]}
  /\ UNCHANGED <<now, files, req, name, tries, reply, delivered, seen>>

\* Mutant of Stat: the exit code is reported and not acted on.
StatIgnoresExit(s) ==
  /\ pc[s] = "stat"
  /\ \/ /\ staging[name[s]] = None
        /\ Answer(s, "stat", 70)
     \/ /\ staging[name[s]] # None
        /\ Goto(s, "stat", "publish")
        /\ UNCHANGED reply
  /\ UNCHANGED <<now, files, req, name, tries, outcome, delivered, proc, seen>>

\* Get-WfDirectoryStat on the work directory throws when it is gone.
Stat(s) ==
  /\ pc[s] = "stat"
  /\ \/ /\ staging[name[s]] = None
        /\ Answer(s, "stat", 70)
     \/ /\ staging[name[s]] # None
        /\ outcome[s] = "timeout"
        /\ Answer(s, "stat", 72)
     \/ /\ staging[name[s]] # None
        /\ outcome[s] = "failed"
        /\ Answer(s, "stat", 71)
     \/ /\ staging[name[s]] # None
        /\ outcome[s] = "ok"
        /\ Goto(s, "stat", "publish")
        /\ UNCHANGED reply
  /\ UNCHANGED <<now, files, req, name, tries, outcome, delivered, proc, seen>>

\* Mutant of Publish: a directory that exists is replaced.
PublishOver(s) ==
  LET n == name[s] IN
  /\ pc[s] = "publish"
  /\ \/ /\ staging[n] = None
        /\ Answer(s, "publish", 70)
        /\ UNCHANGED <<outbox, staging>>
     \/ /\ staging[n] # None
        /\ Goto(s, "publish", "reply")
        /\ outbox' = [outbox EXCEPT ![n] = staging[n]]
        /\ staging' = [staging EXCEPT ![n] = None]
        /\ UNCHANGED reply
  /\ UNCHANGED <<now, zip, cleared, req, name, tries, outcome, delivered,
                 proc, seen>>

\* Move-Item. Onto a directory that exists it moves the source into it.
Publish(s) ==
  LET n == name[s] IN
  /\ pc[s] = "publish"
  /\ \/ /\ staging[n] = None
        /\ Answer(s, "publish", 70)
        /\ UNCHANGED <<outbox, staging>>
     \/ /\ staging[n] # None
        /\ Goto(s, "publish", "reply")
        /\ outbox' = [outbox EXCEPT ![n] =
                        IF @ = None THEN staging[n]
                                    ELSE [@ EXCEPT !.nested = TRUE]]
        /\ staging' = [staging EXCEPT ![n] = None]
        /\ UNCHANGED reply
  /\ UNCHANGED <<now, zip, cleared, req, name, tries, outcome, delivered,
                 proc, seen>>

ReplyCollected(s) ==
  /\ Answer(s, "reply", 0)
  /\ UNCHANGED <<now, files, req, name, tries, outcome, delivered, proc, seen>>

FetchOpen(s) ==
  /\ Asks(s, "fetch")
  /\ name' = [name EXCEPT ![s] = req[s].arg]
  /\ IF BundleDir(req[s].arg) = None
       THEN Answer(s, "request", 66)
       ELSE Goto(s, "request", "zip") /\ UNCHANGED reply
  /\ UNCHANGED <<now, files, req, tries, outcome, delivered, proc, seen>>

ZipBundle(s) ==
  LET dir == BundleDir(name[s]) IN
  /\ pc[s] = "zip"
  /\ \/ /\ dir = None
        /\ Answer(s, "zip", 70)
        /\ UNCHANGED zip
     \/ /\ dir # None
        /\ Goto(s, "zip", "send")
        /\ zip' = [zip EXCEPT ![s] = dir]
        /\ UNCHANGED reply
  /\ UNCHANGED <<now, outbox, staging, cleared, req, name, tries, outcome,
                 delivered, proc, seen>>

\* Header, base64 of the zip, end marker.
SendZip(s) ==
  /\ Goto(s, "send", "clean")
  /\ delivered' = [delivered EXCEPT ![s] = zip[s]]
  /\ UNCHANGED <<now, files, req, name, tries, outcome, reply, proc, seen>>

\* Mutant of RemoveZip: no finally block.
KeepZip(s) ==
  /\ Answer(s, "clean", 0)
  /\ UNCHANGED <<now, files, req, name, tries, outcome, delivered, proc, seen>>

RemoveZip(s) ==
  /\ Answer(s, "clean", 0)
  /\ zip' = [zip EXCEPT ![s] = None]
  /\ UNCHANGED <<now, outbox, staging, cleared, req, name, tries, outcome,
                 delivered, proc, seen>>

\* The finally block of Invoke-WfFetch removes the zip, unless Remove-Item is the
\* call that throws, or throws as well: then the zip stays, or as much of it as
\* had been written.
ZipAfterError(s) ==
  \/ pc[s] # "clean" /\ zip' = [zip EXCEPT ![s] = None]
  \/ pc[s] = "zip" /\ zip' = [zip EXCEPT ![s] = EmptyDir]
  \/ pc[s] \in {"send", "clean"} /\ UNCHANGED zip

\* Mutant of InternalError: the error of Move-Item is not terminating.
InternalErrorIgnored(s) ==
  /\ "error" \in Events
  /\ \/ pc[s] \in Busy \ {"run", "sleep", "publish"} /\ Answer(s, pc[s], 70)
     \/ Answer(s, "publish", 0)
  /\ ZipAfterError(s)
  /\ UNCHANGED <<now, outbox, staging, cleared, req, name, tries, outcome,
                 delivered, proc, seen>>

\* Any file call may throw (disk full, access denied, a file another program
\* has open, a tree that changes while it is read): Invoke-WfDispatch answers 70.
InternalError(s) ==
  /\ "error" \in Events
  /\ pc[s] \in Busy \ {"run", "sleep"}
  /\ Answer(s, pc[s], 70)
  /\ ZipAfterError(s)
  /\ UNCHANGED <<now, outbox, staging, cleared, req, name, tries, outcome,
                 delivered, proc, seen>>

\* The session is lost and its dispatcher ends where it stands: no finally
\* block runs, and the collector may or may not go with it.
Lose(s) ==
  /\ "lost" \in Events
  /\ pc[s] \in Busy
  /\ pc' = [pc EXCEPT ![s] = "lost"]
  /\ proc' \in {proc, [proc EXCEPT ![s] = IF @ \in Running THEN "killed" ELSE @]}
  /\ UNCHANGED <<now, files, req, name, tries, outcome, reply, delivered, seen>>

-----------------------------------------------------------------------------
(* The collector process a session started, writing into .staging\<name>.  *)

Step(s, from, to) ==
  /\ proc[s] = from
  /\ proc' = [proc EXCEPT ![s] = to]

\* New-WfBundleLayout refuses a directory another run has written into.
CheckLayout(s) ==
  LET dir == Ensured(name[s]) IN
  /\ Step(s, "start", IF dir.raw \/ dir.manifest # None THEN "exit1"
                                                        ELSE "layout")
  /\ UNCHANGED <<now, files, sessions, seen>>

MakeLayout(s) ==
  /\ Step(s, "layout", "write")
  /\ staging' = [staging EXCEPT ![name[s]] =
                   [Ensured(name[s]) EXCEPT !.raw = TRUE, !.logs = TRUE]]
  /\ UNCHANGED <<now, outbox, zip, cleared, sessions, seen>>

\* New-Item -Force raw/<id>, then the export.
WriteExport(s) ==
  /\ Step(s, "write", "list")
  /\ staging' = [staging EXCEPT ![name[s]] =
                   [Ensured(name[s]) EXCEPT !.raw = TRUE, !.data = s]]
  /\ UNCHANGED <<now, outbox, zip, cleared, sessions, seen>>

\* Get-WfArtifactRecords hashes what is in raw/<id> now.
ListArtifacts(s) ==
  /\ Step(s, "list", "seal")
  /\ seen' = [seen EXCEPT ![s] = Ensured(name[s]).data]
  /\ UNCHANGED <<now, files, sessions>>

WriteManifest(s) ==
  /\ Step(s, "seal", "exit")
  /\ staging[name[s]] # None
  /\ staging' = [staging EXCEPT ![name[s]].manifest =
                   [by |-> s, lists |-> seen[s]]]
  /\ UNCHANGED <<now, outbox, zip, cleared, sessions, seen>>

\* The summary and the log go into logs/, then the process exits: 0 for
\* status ok or partial, 1 for failed.
Exit(s) ==
  /\ Step(s, "exit", "exit0") \/ Step(s, "exit", "exit1")
  /\ staging[name[s]] # None
  /\ staging[name[s]].logs
  /\ UNCHANGED <<now, files, sessions, seen>>

\* Something throws outside a source's own catch: once the layout was made,
\* the failure log goes into logs/, which is created when missing.
CollectorFails(s) ==
  /\ proc[s] \in Running
  /\ Step(s, proc[s], "exit1")
  /\ \/ UNCHANGED staging
     \/ /\ proc[s] \notin {"start", "layout"}
        /\ staging' = [staging EXCEPT ![name[s]] =
                         [Ensured(name[s]) EXCEPT !.logs = TRUE]]
  /\ UNCHANGED <<now, outbox, zip, cleared, sessions, seen>>

-----------------------------------------------------------------------------
(* The clock, and the person at the PC (the checklist's "Housekeeping").   *)

Tick ==
  /\ now < LastSecond
  /\ now' = now + 1
  /\ UNCHANGED <<files, sessions, proc, seen>>

\* A recursive delete of a finished bundle: its files go one by one.
DeleteFiles(n) ==
  /\ outbox[n] # None
  /\ outbox[n].data # None
  /\ outbox' = [outbox EXCEPT ![n].data = None]
  /\ cleared' = cleared \cup {n}
  /\ UNCHANGED <<now, staging, zip, sessions, proc, seen>>

DeleteBundle(n) ==
  /\ outbox[n] # None
  /\ outbox[n].data = None
  /\ outbox' = [outbox EXCEPT ![n] = None]
  /\ cleared' = cleared \cup {n}
  /\ UNCHANGED <<now, staging, zip, sessions, proc, seen>>

\* An old folder in .staging: no session and no collector is using it.
DeleteLeftover(n) ==
  /\ staging[n] # None
  /\ \A s \in Session :
       name[s] = n => pc[s] \notin Busy /\ proc[s] \notin Running
  /\ staging' = [staging EXCEPT ![n] = None]
  /\ UNCHANGED <<now, outbox, zip, cleared, sessions, proc, seen>>

Housekeeping ==
  /\ "housekeeping" \in Events
  /\ \E n \in Name : DeleteFiles(n) \/ DeleteBundle(n) \/ DeleteLeftover(n)

-----------------------------------------------------------------------------

Dispatcher(s) ==
  \/ Refuse(s) \/ ListBundles(s) \/ UnknownCollector(s) \/ KnownCollector(s)
  \/ CheckCount(s) \/ CheckBytes(s) \/ TestOutbox(s) \/ TestStaging(s)
  \/ Wake(s) \/ MakeWork(s) \/ CollectorExited(s) \/ Timeout(s)
  \/ Stat(s) \/ Publish(s) \/ ReplyCollected(s)
  \/ FetchOpen(s) \/ ZipBundle(s) \/ SendZip(s) \/ RemoveZip(s)

Process(s) ==
  \/ CheckLayout(s) \/ MakeLayout(s) \/ WriteExport(s) \/ ListArtifacts(s)
  \/ WriteManifest(s) \/ Exit(s) \/ CollectorFails(s)

Next ==
  \/ \E s \in Session :
       Connect(s) \/ Dispatcher(s) \/ InternalError(s) \/ Lose(s) \/ Process(s)
  \/ Tick
  \/ Housekeeping

\* The dispatcher is a running process: it takes its next step, and its time
\* limit runs out. Nothing is assumed of collectors, clients, or the person.
Fairness ==
  /\ WF_vars(Tick)
  /\ \A s \in Session : WF_vars(Dispatcher(s))

Spec == Init /\ [][Next]_vars /\ Fairness

-----------------------------------------------------------------------------
(* Properties.                                                             *)

TypeOK ==
  /\ now \in Second
  /\ outbox \in [Name -> Dir \cup {None}]
  /\ staging \in [Name -> Dir \cup {None}]
  /\ zip \in [Session -> Dir \cup {None}]
  /\ pc \in [Session -> {"idle"} \cup Busy \cup Over]
  /\ req \in [Session -> Request \cup {None}]
  /\ name \in [Session -> Name \cup {None}]
  /\ tries \in [Session -> 0 .. MaxAttempts]
  /\ outcome \in [Session -> Outcomes \cup {None}]
  /\ proc \in [Session -> {"none"} \cup Running \cup Ended]
  /\ seen \in [Session -> Session \cup {None}]
  /\ reply \in [Session -> Codes \cup {None}]
  /\ delivered \in [Session -> Dir \cup {None}]
  /\ cleared \in SUBSET Name

\* The runs that took a directory name, and names taken by one run only.
Runs(n) == {s \in Session : proc[s] # "none" /\ name[s] = n}
Sole(n) == \A s, t \in Runs(n) : s = t

\* The limit check and the rename that publishes are minutes apart, and
\* other sessions publish in between: MaxBundles can be passed, but never by
\* more than the other sessions that were open at the time.
OutboxBound == Cardinality(Bundles) <= MaxBundles + MaxLive - 1

\* A bundle in the outbox whose name one run took is that run's complete
\* bundle: the collector exited 0, the manifest is its own and lists the
\* content that is there (Invoke-WfCollect, lines 374 to 377).
Whole(n) ==
  \E s \in Runs(n) :
    /\ proc[s] = "exit0"
    /\ outbox[n].data = s
    /\ outbox[n].manifest = [by |-> s, lists |-> s]
    /\ ~outbox[n].nested

SoleBundleWhole ==
  \A n \in Bundles : Sole(n) /\ n \notin cleared => Whole(n)

\* What a published directory holds at its top level never changes again
\* until the person deletes it, even when two runs took the same name:
\* Move-Item puts the second directory inside the first.
PublishedFrozen ==
  [][\A n \in Bundles :
       \/ n \in cleared'
       \/ /\ outbox'[n] # None
          /\ outbox'[n].data = outbox[n].data
          /\ outbox'[n].manifest = outbox[n].manifest]_vars

\* A fetch delivers a bundle exactly as it stands in the outbox, never one
\* that is still being written: any later fetch delivers the same.
FetchFaithful ==
  \A s \in Session :
    LET n == name[s] IN
    delivered[s] # None /\ Sole(n) /\ n \notin cleared
      => delivered[s] = outbox[n]

\* Nothing is left in .staging by accident: a directory belongs to an open
\* session, a collector that still runs, or a run that did not answer 0; a
\* zip belongs to an open fetch, to a session that was lost, or to one whose
\* client was told of an internal error (finally block of Invoke-WfFetch).
NoStrayFiles ==
  /\ \A n \in Name : staging[n] # None =>
       \E s \in Runs(n) : \/ pc[s] \in Busy
                          \/ proc[s] \in Running
                          \/ reply[s] # 0
  /\ \A s \in Session : zip[s] # None =>
       pc[s] \in {"send", "clean", "lost"} \/ reply[s] = 70

\* A client that is told ok finds the bundle in the outbox, unless the
\* person deleted it.
OkMeansPublished ==
  \A s \in Session :
    reply[s] = 0 /\ req[s].verb = "collect"
      => name[s] \in Bundles \cup cleared

\* Every request is answered, or its session was lost: no collector, and no
\* contention for a directory name, holds a dispatcher for ever.
Answered ==
  \A s \in Session : pc[s] = "request" ~> pc[s] \in Over

\* "Only a run that exited 0 is moved into the outbox [...] so a bundle still
\* being written, or one from a run that failed, timed out, or lost its SSH
\* session, can never be listed or fetched" (dispatch.ps1:375-377).
OnlyExitZeroPublished ==
  \A n \in Bundles, s \in Session :
    outbox[n].data = s => proc[s] = "exit0"

=============================================================================

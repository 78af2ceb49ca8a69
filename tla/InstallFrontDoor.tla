-------------------------- MODULE InstallFrontDoor --------------------------
(***************************************************************************)
(* remote-access/windows/Install-FrontDoor.ps1: thirteen steps that turn a *)
(* PC into the front door, run by a person as often as needed.  A step     *)
(* fails by throwing; the steps after it are skipped; the state of the PC  *)
(* stays as it is. The window may be closed, or the power lost, anywhere.  *)
(*                                                                         *)
(* The machine is the inbound rules that admit SSH, the sshd service with  *)
(* its configuration file, and what the steps leave on disk. Each change   *)
(* of it that others can see is an action. A kit stands for what one run   *)
(* installs: the Mac's address, its key, and this version's managed blocks *)
(* for sshd_config. The account has one name, the same for every kit.      *)
(***************************************************************************)
EXTENDS Naturals, FiniteSets

CONSTANTS
  Kit,          \* the kits the person runs
  Rule,         \* enabled, each of these admits SSH from more than the Mac
  Policy,       \* the rules among them delivered by policy
  DefaultRule,  \* the rule that comes with the OpenSSH Server feature
  Accounts,     \* bound: how the account may be before the first run
  MaxFaults,    \* bound: failed calls, crashes, and rules that appear
  TestKey,      \* the throwaway key of the self test
  Torn,         \* install-state.json cut off while it was being written
  None          \* "no such file", "no value", "not running"

ASSUME KitAssumption ==
  /\ IsFiniteSet(Kit) /\ IsFiniteSet(Rule)
  /\ Policy \subseteq Rule
  /\ DefaultRule \in Rule \ Policy
  /\ Accounts \subseteq {"absent", "foreign"}
  /\ MaxFaults \in Nat
  /\ TestKey \notin Kit
  /\ Kit \cap {"plain", "custom"} = {}
  /\ None \notin Kit \cup {"plain", "custom"}

\* Contents of sshd_config: the stock or the owner's file, or one that holds
\* the managed blocks of a kit.
Config == {"plain"} \cup Kit

\* What install-state.json holds, and the same values while a run lasts.
Record == [feature : BOOLEAN, account : BOOLEAN, disabled : SUBSET Rule,
           shell : {"custom", None}]

Nothing == [feature |-> FALSE, account |-> FALSE, disabled |-> {},
            shell |-> None]

\* Where a run may stand, step by step.
S3 == {"own", "create", "plan", "disable", "verify"}
S4 == {"manual", "first_start", "first_stop"}
S9 == {"merge", "original", "previous", "replace", "recheck", "effective",
       "start", "automatic"}
Steps == {"preflight", "feature"} \cup S3 \cup S4
           \cup {"shell", "account", "layout", "key", "key_write"} \cup S9
           \cup {"power", "selftest", "selftest_run", "restore", "restore_write"}
\* From here on S3 has found the door narrow, or S4 has stopped sshd, until
\* S9 starts it.
AfterVerify == Steps \ ({"preflight", "feature"} \cup S3)
Quiet == {"shell", "account", "layout", "key", "key_write"}
           \cup (S9 \ {"automatic"})
Places == Steps \cup {"off", "save", "summary"}

\* Stands for no step and for no record.
ASSUME NoneAssumption == None \notin Steps /\ {None, Torn} \cap Record = {}

VARIABLES
  rules,      \* is this rule of Rule enabled
  own,        \* the rule win-forensics-ssh-in: for which kit's Mac
  installed,  \* does the sshd service exist
  start,      \* its start type
  loaded,     \* the configuration sshd runs with, None when it is stopped
  config,     \* sshd_config
  original,   \* sshd_config.wf-original
  previous,   \* sshd_config.wf-previous
  shell,      \* the default shell values in the registry
  account,    \* the local account
  remote,     \* does ProgramData\win-forensics\remote exist
  keys,       \* the lines of authorized_keys
  saved,      \* install-state.json
  pc,         \* where the run stands, "off" between runs
  kit,        \* the kit of this run
  memory,     \* $Context.State
  unread,     \* history: did this run warn that it could not read install-state.json
  plan,       \* rules the plan disables, not disabled yet
  changed,    \* $update.Changed: has this run replaced sshd_config
  failed,     \* where this run failed
  incomplete, \* was a verification not possible
  faults      \* bound: faults so far

firewall == <<rules, own>>
service  == <<installed, start, loaded>>
texts    == <<config, original, previous>>
disk     == <<shell, account, remote, keys>>
machine  == <<firewall, service, texts, disk>>
run      == <<kit, memory, unread, plan, changed>>
rest     == <<saved, incomplete>>
vars     == <<machine, run, rest, pc, failed, faults>>

-----------------------------------------------------------------------------

Enabled == {r \in Rule : rules[r]}
Up == loaded # None
Hardened(c) == c \in Kit

\* SSH is admitted from the Mac of this kit and from nowhere else.
Narrow == own = kit /\ Enabled = {}

\* sshd, when it starts without a configuration file, creates the stock one.
Opened == IF config = None THEN "plain" ELSE config

\* Get-WfSummaryResult over the steps of this run.
Verdict == IF failed # None THEN "FAIL"
           ELSE IF incomplete THEN "INCOMPLETE" ELSE "PASS"

Init ==
  /\ rules \in [Rule -> BOOLEAN]
  /\ own = None
  /\ installed \in BOOLEAN
  /\ start \in {"Manual", "Automatic"}
  /\ config \in {"plain", None}
  /\ loaded \in {config, None}
  /\ ~installed => start = "Manual" /\ config = None /\ ~rules[DefaultRule]
  /\ original = None /\ previous = None
  /\ shell \in {"custom", None}
  /\ account \in Accounts
  /\ remote = FALSE /\ keys = {}
  /\ saved = None
  /\ pc = "off" /\ kit = None /\ memory = Nothing /\ unread = FALSE
  /\ plan = {} /\ changed = FALSE
  /\ failed = None /\ incomplete = FALSE
  /\ faults = 0

\* A call fails, a verification is not possible, the power goes.
Fault == faults < MaxFaults /\ faults' = faults + 1

\* The step throws: Invoke-WfStep skips the steps after it.
Fails == failed' = pc /\ pc' = "save"

\* A step, or a part of one: it goes on at q, or throws after it has done p.
Step(p, q) ==
  /\ pc = p
  /\ \/ pc' = q /\ UNCHANGED <<failed, faults>>
     \/ Fault /\ Fails

Idle == UNCHANGED <<machine, run, rest>>

-----------------------------------------------------------------------------
(* S1, S2 and the firewall, S3.                                            *)

\* Mutant of Begin: earlier runs are not read.
BeginForgetting(k) ==
  /\ pc = "off" /\ pc' = "preflight"
  /\ kit' = k
  /\ memory' = Nothing /\ unread' = FALSE
  /\ plan' = {} /\ changed' = FALSE
  /\ failed' = None /\ incomplete' = FALSE
  /\ UNCHANGED <<machine, saved, faults>>

\* Read-WfState: what earlier runs left; nothing, with a warning, of a file that
\* was cut off or cannot be read now (another program has it open).
ReadState ==
  \/ /\ memory' = IF saved \in {None, Torn} THEN Nothing ELSE saved
     /\ unread' = (saved = Torn)
     /\ UNCHANGED faults
  \/ /\ saved \notin {None, Torn} /\ Fault
     /\ memory' = Nothing
     /\ unread' = TRUE

\* The person starts a kit.
Begin(k) ==
  /\ pc = "off" /\ pc' = "preflight"
  /\ kit' = k
  /\ ReadState
  /\ plan' = {} /\ changed' = FALSE
  /\ failed' = None /\ incomplete' = FALSE
  /\ UNCHANGED <<machine, saved>>

Preflight == Step("preflight", "feature") /\ Idle

\* The feature comes with its rule enabled and its service not running.
AddFeature ==
  /\ Step("feature", "own")
  /\ \/ /\ installed
        /\ Idle
     \/ /\ ~installed
        /\ installed' = TRUE /\ start' = "Manual"
        /\ rules' = [rules EXCEPT ![DefaultRule] = TRUE]
        /\ memory' = [memory EXCEPT !.feature = TRUE]
        /\ UNCHANGED <<own, loaded, texts, disk, kit, unread, plan, changed,
                       saved, incomplete>>

RemoveOwn ==
  /\ Step("own", "create")
  /\ own' = None
  /\ UNCHANGED <<rules, service, texts, disk, run, rest>>

CreateOwn ==
  /\ Step("create", "plan")
  /\ own' = kit
  /\ UNCHANGED <<rules, service, texts, disk, run, rest>>

\* Get-WfFirewallPlan over the inventory of enabled rules.
MakePlan ==
  /\ Step("plan", "disable")
  /\ plan' = Enabled
  /\ UNCHANGED <<machine, kit, memory, unread, changed, rest>>

DisableOne(r) ==
  /\ r \in plan \ Policy
  /\ Step("disable", "disable")
  /\ rules' = [rules EXCEPT ![r] = FALSE]
  /\ plan' = plan \ {r}
  /\ memory' = [memory EXCEPT !.disabled = @ \cup {r}]
  /\ UNCHANGED <<own, service, texts, disk, kit, unread, changed, rest>>

\* Invoke-WfFailClosed: two calls, of which the second may fail.
FailClosed ==
  /\ Fails
  /\ start' = "Manual"
  /\ \/ loaded' = None /\ UNCHANGED faults
     \/ Up /\ Fault /\ UNCHANGED loaded
  /\ UNCHANGED <<firewall, installed, texts, disk, run, rest>>

\* Every rule that can be disabled has been.
PolicyRuleLeft == pc = "disable" /\ plan # {} /\ plan \subseteq Policy /\ FailClosed

PlanDone == plan = {} /\ Step("disable", "verify") /\ Idle

\* Mutant of Verify: the rules are not read again.
VerifyOwnOnly ==
  \/ own # kit /\ pc = "verify" /\ FailClosed
  \/ own = kit /\ Step("verify", "manual") /\ Idle

\* The inventory is taken again, and has to show the own rule and no other.
Verify ==
  \/ ~Narrow /\ pc = "verify" /\ FailClosed
  \/ Narrow /\ Step("verify", "manual") /\ Idle

-----------------------------------------------------------------------------
(* S4 to S8.                                                               *)

\* Mutant of SetManual: the start type is left as it is.
KeepStartType == Step("manual", "first_start") /\ Idle

SetManual ==
  /\ Step("manual", "first_start")
  /\ start' = "Manual"
  /\ UNCHANGED <<firewall, installed, loaded, texts, disk, run, rest>>

\* The first start creates the host keys and the stock sshd_config.
FirstStart ==
  /\ Step("first_start", "first_stop")
  /\ loaded' = IF Up THEN loaded ELSE Opened
  /\ config' = IF Up THEN config ELSE Opened
  /\ UNCHANGED <<firewall, installed, start, original, previous, disk, run, rest>>

\* Mutant of FirstStop: a service that runs hardened already is left running.
StopOnlyStock ==
  /\ Step("first_stop", "shell")
  /\ loaded' = IF loaded = "plain" THEN None ELSE loaded
  /\ UNCHANGED <<firewall, installed, start, texts, disk, run, rest>>

FirstStop ==
  /\ Step("first_stop", "shell")
  /\ loaded' = None
  /\ UNCHANGED <<firewall, installed, start, texts, disk, run, rest>>

RemoveShell ==
  /\ Step("shell", "account")
  /\ shell' = None
  /\ memory' = [memory EXCEPT !.shell = IF @ = None THEN shell ELSE @]
  /\ UNCHANGED <<firewall, service, texts, account, remote, keys, kit, unread,
                 plan, changed, rest>>

\* Mutant of SetAccount: its own account is not recognised.
SetAccountOnce ==
  \/ /\ pc = "account" /\ account # "absent" /\ Fails
     /\ UNCHANGED <<machine, run, rest, faults>>
  \/ /\ account = "absent"
     /\ Step("account", "layout")
     /\ account' = "enabled"
     /\ memory' = [memory EXCEPT !.account = TRUE]
     /\ UNCHANGED <<firewall, service, texts, shell, remote, keys, kit, unread,
                    plan, changed, rest>>

\* An account of that name that is not this script's own is left alone.
SetAccount ==
  \/ /\ pc = "account" /\ account = "foreign" /\ Fails
     /\ UNCHANGED <<machine, run, rest, faults>>
  \/ /\ account # "foreign"
     /\ Step("account", "layout")
     /\ account' = "enabled"
     /\ memory' = [memory EXCEPT !.account = @ \/ account = "absent"]
     /\ UNCHANGED <<firewall, service, texts, shell, remote, keys, kit, unread,
                    plan, changed, rest>>

InstallLayout ==
  /\ Step("layout", "key")
  /\ remote' = TRUE
  /\ UNCHANGED <<firewall, service, texts, shell, account, keys, run, rest>>

\* Set-WfAuthorizedKey removes the file and writes it whole.
SetKeys(p, lines, q) ==
  /\ Step(p, q)
  /\ keys' = lines
  /\ UNCHANGED <<firewall, service, texts, shell, account, remote, run, rest>>

InstallKey == SetKeys("key", {}, "key_write") \/ SetKeys("key_write", {kit}, "merge")

-----------------------------------------------------------------------------
(* S9: sshd_config is validated, kept, replaced, validated again; the       *)
(* effective configuration is read; then the first start with it.          *)

\* Mutant of Merge: blocks of an earlier version are taken for these.
MergeByMarker ==
  /\ Step("merge", IF Hardened(config) THEN "effective" ELSE "original")
  /\ Idle

Merge ==
  /\ Step("merge", IF config = kit THEN "effective" ELSE "original")
  /\ Idle

\* Mutant of KeepOriginal: the file there is now is kept, whatever it is.
KeepCurrent ==
  /\ Step("original", "previous")
  /\ original' = config
  /\ UNCHANGED <<firewall, service, config, previous, disk, run, rest>>

KeepOriginal ==
  /\ Step("original", "previous")
  /\ original' = IF original = None /\ ~Hardened(config) THEN config ELSE original
  /\ UNCHANGED <<firewall, service, config, previous, disk, run, rest>>

KeepPrevious ==
  /\ Step("previous", "replace")
  /\ previous' = config
  /\ UNCHANGED <<firewall, service, config, original, disk, run, rest>>

Replace ==
  /\ Step("replace", "recheck")
  /\ config' = kit
  /\ UNCHANGED <<firewall, service, original, previous, disk, run, rest>>

\* The previous file is put back, and the step fails.
PutBack ==
  /\ Fault /\ Fails
  /\ config' = previous
  /\ UNCHANGED <<firewall, service, original, previous, disk, run, rest>>

Recheck ==
  /\ pc = "recheck"
  /\ \/ PutBack
     \/ /\ Step("recheck", "effective")
        /\ changed' = TRUE
        /\ UNCHANGED <<machine, kit, memory, unread, plan, rest>>

\* sshd -T, or the sleep timeout, may be impossible to read back.
MayBeUnverified(p, q) ==
  \/ Step(p, q) /\ Idle
  \/ /\ pc = p /\ pc' = q /\ Fault
     /\ incomplete' = TRUE
     /\ UNCHANGED <<machine, run, saved, failed>>

ReadEffective == MayBeUnverified("effective", "start")

\* A start that fails puts the previous file back when this run replaced it.
StartHardened ==
  \/ /\ pc = "start" /\ pc' = "automatic"
     /\ loaded' = config
     /\ UNCHANGED <<firewall, installed, start, texts, disk, run, rest, failed,
                    faults>>
  \/ pc = "start" /\ changed /\ PutBack

\* sshd may have ended meanwhile, or its start type may not be settable.
SetAutomatic ==
  \/ /\ Step("automatic", "power")
     /\ start' = "Automatic"
     /\ UNCHANGED <<firewall, installed, loaded, texts, disk, run, rest>>
  \/ /\ pc = "automatic" /\ Fault /\ Fails
     /\ loaded' = None
     /\ UNCHANGED <<firewall, installed, start, texts, disk, run, rest>>

-----------------------------------------------------------------------------
(* S10 to S13, and the end of a run.                                        *)

SetPower == MayBeUnverified("power", "selftest")

\* The self test authorises a key of its own for as long as it takes.
BeginSelfTest ==
  \/ /\ pc = "selftest" /\ pc' = "save" /\ Fault
     /\ incomplete' = TRUE
     /\ UNCHANGED <<machine, run, saved, failed>>
  \/ /\ pc = "selftest" /\ pc' = "selftest_run"
     /\ keys' = {kit, TestKey}
     /\ UNCHANGED <<firewall, service, texts, shell, account, remote, run, rest,
                    failed, faults>>

\* The finally block takes it away again, whatever happened.
SelfTest ==
  /\ pc = "selftest_run" /\ pc' = "restore"
  /\ \/ UNCHANGED <<failed, faults>>
     \/ Fault /\ failed' = pc
  /\ Idle

RestoreKeys ==
  SetKeys("restore", {}, "restore_write") \/ SetKeys("restore_write", {kit}, "save")

\* Save-WfState does nothing without its directory; what it throws is caught.
SaveState ==
  /\ pc = "save" /\ pc' = "summary"
  /\ \/ remote /\ saved' = memory /\ UNCHANGED faults
     \/ ~remote /\ UNCHANGED <<saved, faults>>
     \/ remote /\ Fault /\ saved' \in {saved, Torn}
  /\ UNCHANGED <<machine, run, incomplete, failed>>

Leaves ==
  /\ pc' = "off"
  /\ kit' = None /\ memory' = Nothing /\ unread' = FALSE
  /\ plan' = {} /\ changed' = FALSE

\* The summary has been printed, and the run ends.
End ==
  /\ pc = "summary"
  /\ Leaves
  /\ UNCHANGED <<machine, rest, failed, faults>>

\* A call throws before it has changed anything.
Throws ==
  /\ pc \in Steps \ {"selftest_run"}
  /\ pc = "start" => ~changed
  /\ Fault /\ Fails
  /\ Idle

\* The window is closed or the power goes, perhaps while the file is written.
Crash ==
  /\ pc # "off"
  /\ Fault
  /\ Leaves
  /\ \/ UNCHANGED saved
     \/ pc = "save" /\ remote /\ saved' = Torn
  /\ UNCHANGED <<machine, incomplete, failed>>

-----------------------------------------------------------------------------
(* Between runs, and what else happens on the PC.                          *)

\* Windows starts sshd when its start type says so.
Reboot ==
  /\ pc = "off"
  /\ IF installed /\ start = "Automatic"
       THEN loaded' = Opened /\ config' = Opened
       ELSE loaded' = None /\ UNCHANGED config
  /\ UNCHANGED <<firewall, installed, start, original, previous, disk, run, rest,
                 pc, failed, faults>>

\* Something enables a rule, between runs or until S3 has taken its inventory.
Drift ==
  /\ pc \in {"off", "preflight", "feature"} \cup (S3 \ {"verify"})
  /\ Fault
  /\ \E r \in Rule \ Enabled :
       /\ r = DefaultRule => installed
       /\ rules' = [rules EXCEPT ![r] = TRUE]
  /\ UNCHANGED <<own, service, texts, disk, run, rest, pc, failed>>

\* "Pause", "Revoke the Mac's key", and the advice of S6, of the checklist.
Pause ==
  /\ account = "enabled"
  /\ account' = "disabled"
  /\ UNCHANGED <<loaded, keys>>

Revoke ==
  /\ keys # {}
  /\ keys' = {}
  /\ loaded' = config
  /\ UNCHANGED account

RemoveForeign ==
  /\ account = "foreign" /\ failed = "account"
  /\ account' = "absent"
  /\ UNCHANGED <<loaded, keys>>

Person ==
  /\ pc = "off"
  /\ Pause \/ Revoke \/ RemoveForeign
  /\ UNCHANGED <<firewall, installed, start, texts, shell, remote, run, rest, pc,
                 failed, faults>>

-----------------------------------------------------------------------------

RunStep ==
  \/ \E k \in Kit : Begin(k)
  \/ Preflight \/ AddFeature
  \/ RemoveOwn \/ CreateOwn \/ MakePlan \/ (\E r \in Rule : DisableOne(r))
  \/ PolicyRuleLeft \/ PlanDone \/ Verify
  \/ SetManual \/ FirstStart \/ FirstStop
  \/ RemoveShell \/ SetAccount \/ InstallLayout \/ InstallKey
  \/ Merge \/ KeepOriginal \/ KeepPrevious \/ Replace \/ Recheck
  \/ ReadEffective \/ StartHardened \/ SetAutomatic
  \/ SetPower \/ BeginSelfTest \/ SelfTest \/ RestoreKeys
  \/ SaveState \/ End

Next == RunStep \/ Throws \/ Crash \/ Reboot \/ Drift \/ Person

\* The person runs the setup again whenever it has ended, and a run goes on.
Fairness == WF_vars(RunStep)

Spec == Init /\ [][Next]_vars /\ Fairness

-----------------------------------------------------------------------------
(* Properties.                                                             *)

TypeOK ==
  /\ rules \in [Rule -> BOOLEAN]
  /\ own \in Kit \cup {None}
  /\ installed \in BOOLEAN
  /\ start \in {"Manual", "Automatic"}
  /\ loaded \in Config \cup {None}
  /\ config \in Config \cup {None}
  /\ original \in Config \cup {None}
  /\ previous \in Config \cup {None}
  /\ shell \in {"custom", None}
  /\ account \in {"absent", "foreign", "enabled", "disabled"}
  /\ remote \in BOOLEAN
  /\ keys \in SUBSET (Kit \cup {TestKey})
  /\ saved \in Record \cup {None, Torn}
  /\ pc \in Places
  /\ kit \in Kit \cup {None}
  /\ memory \in Record
  /\ unread \in BOOLEAN
  /\ plan \in SUBSET Rule
  /\ changed \in BOOLEAN
  /\ failed \in Steps \cup {None}
  /\ incomplete \in BOOLEAN
  /\ faults \in 0 .. MaxFaults

\* "Every step ran and verified what it set up": after RESULT: PASS the front
\* door is the one of this kit, whatever earlier runs, crashes and deeds of
\* the person left behind.
PassMeansReady ==
  pc = "summary" /\ Verdict = "PASS" =>
    /\ Narrow
    /\ loaded = kit /\ config = kit /\ start = "Automatic"
    /\ account = "enabled" /\ keys = {kit} /\ shell = None

\* Between the stop in S4 and the start in S9 nothing listens and nothing
\* will after a restart, also when the run failed there (comments of
\* Start-WfSshd and Set-WfSshdConfig: nothing may listen with the stock
\* configuration).
QuietUntilHardened ==
  pc \in Quiet \/ (pc \in {"save", "summary"} /\ failed \in Quiet)
    => ~Up /\ start = "Manual"

\* Once S3 is past, sshd of this run never listens behind a firewall that
\* admits more than the Mac.
ListensNarrow ==
  pc \in AfterVerify /\ Up => Narrow

\* As long as sshd_config holds managed blocks, sshd_config.wf-original is the
\* file the PC had before the first run: turning it off puts that one back.
OriginalKept == Hardened(config) => original = "plain"

\* From the moment the front door has taken sshd_config over, sshd starts
\* with Windows only while that file is hardened, through every failure,
\* restored file and re-run.
AutomaticHardened ==
  original # None /\ start = "Automatic" => Hardened(config)

\* install-state.json never forgets what an earlier run did to the PC, unless
\* the writing of it was cut off or the run that writes it has warned that it
\* could not read the file there was (Read-WfState, Save-WfState).
Forgets(old, new) ==
  \/ old.feature /\ ~new.feature
  \/ old.account /\ ~new.account
  \/ ~(old.disabled \subseteq new.disabled)
  \/ old.shell # None /\ new.shell # old.shell

RecordKept ==
  [][{saved, saved'} \subseteq Record /\ ~unread => ~Forgets(saved, saved')]_vars

\* "Fix the failed step and run this script again; it is safe to repeat": no
\* failure or crash leaves a PC on which running again does not end in PASS.
Recovers == []<>(pc = "summary" /\ Verdict = "PASS")

\* "Where the failure concerns the firewall or sshd, the script leaves sshd
\* stopped and set to manual start (fail closed)" (remote-access/README.md:113).
FailedClosed ==
  pc = "summary" /\ failed \in S3 \cup S4 \cup S9 => ~Up /\ start = "Manual"

=============================================================================

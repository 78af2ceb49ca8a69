----------------------- MODULE InstallFrontDoorProofs -----------------------
(***************************************************************************)
(* What TLAPS proves of InstallFrontDoor, for any kits, rules and number   *)
(* of faults: what a PASS vouches for, when sshd may listen, and what the  *)
(* files and the record keep, whatever fails, is cut off or is run again.  *)
(***************************************************************************)
EXTENDS InstallFrontDoor, TLAPS

\* The steps after a place.
Ending == {"power", "selftest", "selftest_run", "restore", "restore_write"}
Placed == {"recheck", "effective", "start", "automatic"} \cup Ending
Keyed == S9 \cup {"power", "selftest"}
Enabling == {"layout", "key", "key_write"} \cup S9 \cup Ending
Shelled == {"account"} \cup Enabling

\* What the steps behind a place have reached, when none has failed.
Reached ==
  /\ pc # "off" => kit \in Kit
  /\ pc \in AfterVerify => Narrow
  /\ pc \in {"first_start", "first_stop"} => start = "Manual"
  /\ pc \in {"first_stop"} \cup Quiet => config # None
  /\ pc \in Quiet => loaded = None /\ start = "Manual"
  /\ pc \in Shelled => shell = None
  /\ pc \in Enabling => account = "enabled"
  /\ pc \in Keyed => keys = {kit}
  /\ pc \in {"previous", "replace"} => original = "plain"
  /\ pc \in Placed => config = kit
  /\ pc \in {"automatic"} \cup Ending => loaded = kit
  /\ pc \in Ending => start = "Automatic"

\* Only the self test goes on after it has failed.
Failing ==
  pc \in Steps => \/ failed = None
                  \/ failed = "selftest_run" /\ pc \in {"restore", "restore_write"}

\* The file kept first is the owner's, whichever file may come back; sshd has one.
Files ==
  /\ original \in {None, "plain"}
  /\ Hardened(config) \/ Hardened(previous) => original = "plain"
  /\ Up => config # None

\* What this run would save holds all that is saved, if it could read that.
Grows == pc # "off" /\ ~unread /\ saved \in Record => ~Forgets(saved, memory)

\* What a run may end with.
Endings ==
  /\ pc \in {"save", "summary"} /\ failed \in Quiet => loaded = None /\ start = "Manual"
  /\ pc \in {"save", "summary"} /\ failed = None /\ ~incomplete =>
       /\ Narrow
       /\ loaded = kit /\ config = kit /\ start = "Automatic"
       /\ account = "enabled" /\ keys = {kit} /\ shell = None

Kept == TypeOK /\ Files /\ AutomaticHardened /\ Grows
IInv == Kept /\ Reached /\ Failing /\ Endings

USE DEF machine, firewall, service, texts, disk, run, rest, vars

-----------------------------------------------------------------------------
(* One step of a run, or a part of one.                                    *)

\* Where a run stands is of its type after a step.
LEMMA StepPlace ==
  ASSUME TypeOK, NEW p \in Steps, NEW q \in Places, Step(p, q)
  PROVE  pc' \in Places /\ failed' \in Steps \cup {None} /\ faults' \in 0 .. MaxFaults
BY KitAssumption DEF TypeOK, Step, Fault, Fails, Places

\* A step that fails leaves the record, and sshd as the step left it.
LEMMA FailStep ==
  ASSUME IInv, Fails, pc \in Steps, kit' = kit, Kept',
         pc \in Quiet => loaded' = None /\ start' = "Manual"
  PROVE  IInv'
<1>1. pc' = "save" /\ failed' = pc /\ failed' # None
  BY NoneAssumption DEF Fails
<1>2. "save" \notin Steps /\ "save" # "off" /\ pc # "off"
  BY DEF Steps, S3, S4, S9
<1>3. Reached'
  BY <1>1, <1>2 DEF IInv, Reached, AfterVerify, Quiet, Shelled, Enabling, Keyed, Placed, Ending, S9
<1>4. Failing'
  BY <1>1, <1>2 DEF Failing
<1>5. Endings'
  BY <1>1 DEF Endings
<1> QED
  BY <1>3, <1>4, <1>5 DEF IInv

\* A step that goes on keeps what was reached, and one that fails ends the run.
LEMMA StepKeeps ==
  ASSUME IInv, NEW p \in Steps \ {"restore", "restore_write"}, NEW q \in Steps, Step(p, q),
         kit' = kit, Kept',
         p \in Quiet => loaded' = None /\ start' = "Manual",
         pc' = q => Reached'
  PROVE  IInv'
<1>1. pc = p /\ failed = None
  BY DEF Step, IInv, Failing
<1>2. CASE pc' = q /\ UNCHANGED <<failed, faults>>
  <2>1. Failing'
    BY <1>1, <1>2 DEF Failing
  <2>2. q \notin {"save", "summary"}
    BY DEF Steps, S3, S4, S9
  <2>3. Endings'
    BY <1>2, <2>2 DEF Endings
  <2> QED
    BY <1>2, <2>1, <2>3 DEF IInv
<1>3. CASE Fails
  BY <1>1, <1>3, FailStep
<1> QED
  BY <1>2, <1>3 DEF Step

\* A step that changes nothing but its place keeps what is kept.
LEMMA IdleKept ==
  ASSUME Kept, Idle, pc # "off", pc' \in Places, failed' \in Steps \cup {None},
         faults' \in 0 .. MaxFaults
  PROVE  Kept'
<1>1. TypeOK'
  BY DEF Kept, Idle, TypeOK
<1>2. Files' /\ AutomaticHardened' /\ Grows'
  BY DEF Kept, Idle, Files, AutomaticHardened, Grows, Hardened, Up, Forgets
<1> QED
  BY <1>1, <1>2 DEF Kept

LEMMA PlacesAre == Steps \subseteq Places /\ "off" \notin Steps
  BY DEF Places, Steps, S3, S4, S9
-----------------------------------------------------------------------------
(* From here on the places are spelt out.                                  *)

USE DEF Steps, S3, S4, S9, AfterVerify, Quiet, Shelled, Enabling, Keyed, Placed, Ending

-----------------------------------------------------------------------------
(* From here on the places are spelt out.                                  *)

USE DEF Steps, S3, S4, S9, AfterVerify, Quiet, Shelled, Enabling, Keyed, Placed, Ending

-----------------------------------------------------------------------------
(* From here on the places are spelt out.                                  *)

USE DEF Steps, S3, S4, S9, AfterVerify, Quiet, Shelled, Enabling, Keyed, Placed, Ending

-----------------------------------------------------------------------------
(* From here on the places are spelt out.                                  *)

USE DEF Steps, S3, S4, S9, AfterVerify, Quiet, Shelled, Enabling, Keyed, Placed, Ending

-----------------------------------------------------------------------------
(* From here on the places are spelt out.                                  *)

USE DEF Steps, S3, S4, S9, AfterVerify, Quiet, Shelled, Enabling, Keyed, Placed, Ending

-----------------------------------------------------------------------------
(* The steps that change nothing but their place.                          *)

\* Where the next step asks for no more than this one did.
LEMMA IdleStep ==
  ASSUME IInv, NEW p \in Steps \ {"restore", "restore_write"}, NEW q \in Steps, Step(p, q), Idle,
         pc' = q => Reached'
  PROVE  IInv'
<1>1. Kept'
  BY StepPlace, IdleKept, PlacesAre DEF IInv, Kept, Step
<1>2. p \in Quiet => loaded' = None /\ start' = "Manual"
  BY DEF Step, IInv, Reached, Idle
<1> QED
  BY <1>1, <1>2, StepKeeps DEF Idle

LEMMA PreflightStep ==
  ASSUME IInv, Preflight
  PROVE  IInv'
<1>1. pc = "preflight" /\ Step("preflight", "feature") /\ Idle
  BY DEF Preflight, Step
<1>2. pc' = "feature" => Reached'
  BY <1>1 DEF IInv, Idle, Reached, Narrow, Enabled
<1>3. {"preflight", "feature"} \subseteq Steps \ {"restore", "restore_write"}
  OBVIOUS
<1> QED
  BY <1>1, <1>2, <1>3, IdleStep

LEMMA PlanDoneStep ==
  ASSUME IInv, PlanDone
  PROVE  IInv'
<1>1. pc = "disable" /\ Step("disable", "verify") /\ Idle
  BY DEF PlanDone, Step
<1>2. pc' = "verify" => Reached'
  BY <1>1 DEF IInv, Idle, Reached, Narrow, Enabled
<1>3. {"disable", "verify"} \subseteq Steps \ {"restore", "restore_write"}
  OBVIOUS
<1> QED
  BY <1>1, <1>2, <1>3, IdleStep

LEMMA MergeStep ==
  ASSUME IInv, Merge
  PROVE  IInv'
<1>1. pc = "merge" /\ Idle
      /\ \/ config = kit /\ Step("merge", "effective")
         \/ Step("merge", "original")
  BY DEF Merge, Step
<1>2. (pc' = "effective" /\ config = kit) \/ pc' = "original" => Reached'
  BY <1>1 DEF IInv, Idle, Reached, Narrow, Enabled
<1>3. {"merge", "effective", "original"} \subseteq Steps \ {"restore", "restore_write"}
  OBVIOUS
<1> QED
  BY <1>1, <1>2, <1>3, IdleStep

\* A verification that is not possible marks the run, and it goes on.
LEMMA UnverifiedStep ==
  ASSUME IInv, NEW p \in {"effective", "power"}, NEW q \in {"start", "selftest"},
         MayBeUnverified(p, q), pc' = q /\ UNCHANGED <<machine, kit>> => Reached'
  PROVE  IInv'
<1>1. p \in Steps \ {"restore", "restore_write"} /\ q \in Steps /\ q \in Places
      /\ q \notin {"save", "summary", "restore", "restore_write"}
  BY DEF Places
<1>2. CASE Step(p, q) /\ Idle
  <2>1. UNCHANGED <<machine, kit>>
    BY <1>2 DEF Idle
  <2> QED
    BY <1>1, <1>2, <2>1, IdleStep
<1>3. CASE /\ pc = p /\ pc' = q /\ Fault
           /\ incomplete' = TRUE
           /\ UNCHANGED <<machine, run, saved, failed>>
  <2>1. Reached'
    BY <1>3
  <2>2. TypeOK'
    BY <1>1, <1>3, KitAssumption DEF IInv, Kept, TypeOK, Fault
  <2>3. Files' /\ AutomaticHardened' /\ Grows'
    BY <1>1, <1>3, PlacesAre
       DEF IInv, Kept, Files, AutomaticHardened, Grows, Hardened, Up, Forgets
  <2>4. Failing'
    BY <1>1, <1>3 DEF IInv, Failing
  <2>5. Endings'
    BY <1>1, <1>3 DEF Endings
  <2> QED
    BY <2>1, <2>2, <2>3, <2>4, <2>5 DEF IInv, Kept
<1> QED
  BY <1>2, <1>3 DEF MayBeUnverified

LEMMA ReadEffectiveStep ==
  ASSUME IInv, ReadEffective
  PROVE  IInv'
<1>1. pc = "effective" /\ MayBeUnverified("effective", "start")
  BY DEF ReadEffective, MayBeUnverified, Step
<1>2. pc' = "start" /\ UNCHANGED <<machine, kit>> => Reached'
  BY <1>1 DEF IInv, Reached, Narrow, Enabled
<1> QED
  BY <1>1, <1>2, UnverifiedStep

LEMMA SetPowerStep ==
  ASSUME IInv, SetPower
  PROVE  IInv'
<1>1. pc = "power" /\ MayBeUnverified("power", "selftest")
  BY DEF SetPower, MayBeUnverified, Step
<1>2. pc' = "selftest" /\ UNCHANGED <<machine, kit>> => Reached'
  BY <1>1 DEF IInv, Reached, Narrow, Enabled
<1> QED
  BY <1>1, <1>2, UnverifiedStep

-----------------------------------------------------------------------------
(* The feature and the firewall.                                           *)

LEMMA RemoveOwnStep ==
  ASSUME IInv, RemoveOwn
  PROVE  IInv'
<1>1. pc = "own" /\ Step("own", "create") /\ kit' = kit
  BY DEF RemoveOwn, Step
<1>2. {"own", "create"} \subseteq Steps \ {"restore", "restore_write"}
  OBVIOUS
<1>3. pc' \in Places /\ failed' \in Steps \cup {None} /\ faults' \in 0 .. MaxFaults
  BY <1>1, <1>2, StepPlace, PlacesAre DEF IInv, Kept
<1>4. TypeOK'
  BY <1>1, <1>3, KitAssumption DEF IInv, Kept, TypeOK, RemoveOwn
<1>5. Files'
  BY <1>1, KitAssumption
     DEF IInv, Kept, TypeOK, Files, Hardened, Up, Config, Reached, RemoveOwn
<1>6. AutomaticHardened'
  BY <1>1 DEF IInv, Kept, AutomaticHardened, Hardened, Up, Reached, RemoveOwn
<1>7. Grows'
  BY <1>1, NoneAssumption DEF IInv, Kept, TypeOK, Record, Grows, Forgets, RemoveOwn
<1>8. "own" \notin Quiet
  OBVIOUS
<1>9. pc' = "create" => Reached'
  BY <1>1, KitAssumption
     DEF IInv, Kept, TypeOK, Files, Config, Hardened, Up, RemoveOwn, Reached, Narrow,
         Enabled
<1> QED
  BY <1>1, <1>2, <1>4, <1>5, <1>6, <1>7, <1>8, <1>9, StepKeeps DEF Kept

LEMMA CreateOwnStep ==
  ASSUME IInv, CreateOwn
  PROVE  IInv'
<1>1. pc = "create" /\ Step("create", "plan") /\ kit' = kit
  BY DEF CreateOwn, Step
<1>2. {"create", "plan"} \subseteq Steps \ {"restore", "restore_write"}
  OBVIOUS
<1>3. pc' \in Places /\ failed' \in Steps \cup {None} /\ faults' \in 0 .. MaxFaults
  BY <1>1, <1>2, StepPlace, PlacesAre DEF IInv, Kept
<1>4. TypeOK'
  BY <1>1, <1>3, KitAssumption DEF IInv, Kept, TypeOK, CreateOwn
<1>5. Files'
  BY <1>1, KitAssumption
     DEF IInv, Kept, TypeOK, Files, Hardened, Up, Config, Reached, CreateOwn
<1>6. AutomaticHardened'
  BY <1>1 DEF IInv, Kept, AutomaticHardened, Hardened, Up, Reached, CreateOwn
<1>7. Grows'
  BY <1>1, NoneAssumption DEF IInv, Kept, TypeOK, Record, Grows, Forgets, CreateOwn
<1>8. "create" \notin Quiet
  OBVIOUS
<1>9. pc' = "plan" => Reached'
  BY <1>1, KitAssumption
     DEF IInv, Kept, TypeOK, Files, Config, Hardened, Up, CreateOwn, Reached, Narrow,
         Enabled
<1> QED
  BY <1>1, <1>2, <1>4, <1>5, <1>6, <1>7, <1>8, <1>9, StepKeeps DEF Kept

LEMMA MakePlanStep ==
  ASSUME IInv, MakePlan
  PROVE  IInv'
<1>1. pc = "plan" /\ Step("plan", "disable") /\ kit' = kit
  BY DEF MakePlan, Step
<1>2. {"plan", "disable"} \subseteq Steps \ {"restore", "restore_write"}
  OBVIOUS
<1>3. pc' \in Places /\ failed' \in Steps \cup {None} /\ faults' \in 0 .. MaxFaults
  BY <1>1, <1>2, StepPlace, PlacesAre DEF IInv, Kept
<1>4. TypeOK'
  BY <1>1, <1>3, KitAssumption DEF IInv, Kept, TypeOK, MakePlan, Enabled
<1>5. Files'
  BY <1>1, KitAssumption
     DEF IInv, Kept, TypeOK, Files, Hardened, Up, Config, Reached, MakePlan
<1>6. AutomaticHardened'
  BY <1>1 DEF IInv, Kept, AutomaticHardened, Hardened, Up, Reached, MakePlan
<1>7. Grows'
  BY <1>1, NoneAssumption DEF IInv, Kept, TypeOK, Record, Grows, Forgets, MakePlan
<1>8. "plan" \notin Quiet
  OBVIOUS
<1>9. pc' = "disable" => Reached'
  BY <1>1, KitAssumption
     DEF IInv, Kept, TypeOK, Files, Config, Hardened, Up, MakePlan, Reached, Narrow, Enabled
<1> QED
  BY <1>1, <1>2, <1>4, <1>5, <1>6, <1>7, <1>8, <1>9, StepKeeps DEF Kept

LEMMA DisableOneStep ==
  ASSUME IInv, NEW r \in Rule, DisableOne(r)
  PROVE  IInv'
<1>1. pc = "disable" /\ Step("disable", "disable") /\ kit' = kit
  BY DEF DisableOne, Step
<1>2. {"disable", "disable"} \subseteq Steps \ {"restore", "restore_write"}
  OBVIOUS
<1>3. pc' \in Places /\ failed' \in Steps \cup {None} /\ faults' \in 0 .. MaxFaults
  BY <1>1, <1>2, StepPlace, PlacesAre DEF IInv, Kept
<1>4. TypeOK'
  BY <1>1, <1>3, KitAssumption DEF IInv, Kept, TypeOK, DisableOne, Record
<1>5. Files'
  BY <1>1, KitAssumption
     DEF IInv, Kept, TypeOK, Files, Hardened, Up, Config, Reached, DisableOne
<1>6. AutomaticHardened'
  BY <1>1 DEF IInv, Kept, AutomaticHardened, Hardened, Up, Reached, DisableOne
<1>7. Grows'
  BY <1>1, NoneAssumption DEF IInv, Kept, TypeOK, Record, Grows, Forgets, DisableOne
<1>8. "disable" \notin Quiet
  OBVIOUS
<1>9. pc' = "disable" => Reached'
  BY <1>1, KitAssumption
     DEF IInv, Kept, TypeOK, Files, Config, Hardened, Up, DisableOne, Reached, Narrow,
         Enabled
<1> QED
  BY <1>1, <1>2, <1>4, <1>5, <1>6, <1>7, <1>8, <1>9, StepKeeps DEF Kept

-----------------------------------------------------------------------------
(* The service, the shell, the account and the key.                        *)

LEMMA SetManualStep ==
  ASSUME IInv, SetManual
  PROVE  IInv'
<1>1. pc = "manual" /\ Step("manual", "first_start") /\ kit' = kit
  BY DEF SetManual, Step
<1>2. {"manual", "first_start"} \subseteq Steps \ {"restore", "restore_write"}
  OBVIOUS
<1>3. pc' \in Places /\ failed' \in Steps \cup {None} /\ faults' \in 0 .. MaxFaults
  BY <1>1, <1>2, StepPlace, PlacesAre DEF IInv, Kept
<1>4. TypeOK'
  BY <1>1, <1>3, KitAssumption DEF IInv, Kept, TypeOK, SetManual
<1>5. Files'
  BY <1>1, KitAssumption
     DEF IInv, Kept, TypeOK, Files, Hardened, Up, Config, Reached, SetManual
<1>6. AutomaticHardened'
  BY <1>1 DEF IInv, Kept, AutomaticHardened, Hardened, Up, Reached, SetManual
<1>7. Grows'
  BY <1>1, NoneAssumption DEF IInv, Kept, TypeOK, Record, Grows, Forgets, SetManual
<1>8. "manual" \notin Quiet
  OBVIOUS
<1>9. pc' = "first_start" => Reached'
  BY <1>1, KitAssumption
     DEF IInv, Kept, TypeOK, Files, Config, Hardened, Up, SetManual, Reached, Narrow,
         Enabled
<1> QED
  BY <1>1, <1>2, <1>4, <1>5, <1>6, <1>7, <1>8, <1>9, StepKeeps DEF Kept

LEMMA FirstStartStep ==
  ASSUME IInv, FirstStart
  PROVE  IInv'
<1>1. pc = "first_start" /\ Step("first_start", "first_stop") /\ kit' = kit
  BY DEF FirstStart, Step
<1>2. {"first_start", "first_stop"} \subseteq Steps \ {"restore", "restore_write"}
  OBVIOUS
<1>3. pc' \in Places /\ failed' \in Steps \cup {None} /\ faults' \in 0 .. MaxFaults
  BY <1>1, <1>2, StepPlace, PlacesAre DEF IInv, Kept
<1>4. TypeOK'
  BY <1>1, <1>3, KitAssumption DEF IInv, Kept, TypeOK, FirstStart, Opened, Config
<1>5. Files'
  BY <1>1, KitAssumption
     DEF IInv, Kept, TypeOK, Files, Hardened, Up, Config, Reached, FirstStart, Opened
<1>6. AutomaticHardened'
  BY <1>1 DEF IInv, Kept, AutomaticHardened, Hardened, Up, Reached, FirstStart, Opened
<1>7. Grows'
  BY <1>1, NoneAssumption DEF IInv, Kept, TypeOK, Record, Grows, Forgets, FirstStart
<1>8. "first_start" \notin Quiet
  OBVIOUS
<1>9. pc' = "first_stop" => Reached'
  BY <1>1, KitAssumption
     DEF IInv, Kept, TypeOK, Files, Config, Hardened, Up, FirstStart, Reached, Narrow,
         Enabled, Opened
<1> QED
  BY <1>1, <1>2, <1>4, <1>5, <1>6, <1>7, <1>8, <1>9, StepKeeps DEF Kept

LEMMA FirstStopStep ==
  ASSUME IInv, FirstStop
  PROVE  IInv'
<1>1. pc = "first_stop" /\ Step("first_stop", "shell") /\ kit' = kit
  BY DEF FirstStop, Step
<1>2. {"first_stop", "shell"} \subseteq Steps \ {"restore", "restore_write"}
  OBVIOUS
<1>3. pc' \in Places /\ failed' \in Steps \cup {None} /\ faults' \in 0 .. MaxFaults
  BY <1>1, <1>2, StepPlace, PlacesAre DEF IInv, Kept
<1>4. TypeOK'
  BY <1>1, <1>3, KitAssumption DEF IInv, Kept, TypeOK, FirstStop
<1>5. Files'
  BY <1>1, KitAssumption
     DEF IInv, Kept, TypeOK, Files, Hardened, Up, Config, Reached, FirstStop
<1>6. AutomaticHardened'
  BY <1>1 DEF IInv, Kept, AutomaticHardened, Hardened, Up, Reached, FirstStop
<1>7. Grows'
  BY <1>1, NoneAssumption DEF IInv, Kept, TypeOK, Record, Grows, Forgets, FirstStop
<1>8. "first_stop" \notin Quiet
  OBVIOUS
<1>9. pc' = "shell" => Reached'
  BY <1>1, KitAssumption
     DEF IInv, Kept, TypeOK, Files, Config, Hardened, Up, FirstStop, Reached, Narrow,
         Enabled
<1> QED
  BY <1>1, <1>2, <1>4, <1>5, <1>6, <1>7, <1>8, <1>9, StepKeeps DEF Kept

LEMMA RemoveShellStep ==
  ASSUME IInv, RemoveShell
  PROVE  IInv'
<1>1. pc = "shell" /\ Step("shell", "account") /\ kit' = kit
  BY DEF RemoveShell, Step
<1>2. {"shell", "account"} \subseteq Steps \ {"restore", "restore_write"}
  OBVIOUS
<1>3. pc' \in Places /\ failed' \in Steps \cup {None} /\ faults' \in 0 .. MaxFaults
  BY <1>1, <1>2, StepPlace, PlacesAre DEF IInv, Kept
<1>4. TypeOK'
  BY <1>1, <1>3, KitAssumption DEF IInv, Kept, TypeOK, RemoveShell, Record
<1>5. Files'
  BY <1>1, KitAssumption
     DEF IInv, Kept, TypeOK, Files, Hardened, Up, Config, Reached, RemoveShell
<1>6. AutomaticHardened'
  BY <1>1 DEF IInv, Kept, AutomaticHardened, Hardened, Up, Reached, RemoveShell
<1>7. Grows'
  BY <1>1, NoneAssumption DEF IInv, Kept, TypeOK, Record, Grows, Forgets, RemoveShell
<1>8. loaded' = None /\ start' = "Manual"
  BY <1>1 DEF IInv, Reached, RemoveShell
<1>9. pc' = "account" => Reached'
  BY <1>1, KitAssumption
     DEF IInv, Kept, TypeOK, Files, Config, Hardened, Up, RemoveShell, Reached, Narrow,
         Enabled
<1> QED
  BY <1>1, <1>2, <1>4, <1>5, <1>6, <1>7, <1>8, <1>9, StepKeeps DEF Kept

LEMMA InstallLayoutStep ==
  ASSUME IInv, InstallLayout
  PROVE  IInv'
<1>1. pc = "layout" /\ Step("layout", "key") /\ kit' = kit
  BY DEF InstallLayout, Step
<1>2. {"layout", "key"} \subseteq Steps \ {"restore", "restore_write"}
  OBVIOUS
<1>3. pc' \in Places /\ failed' \in Steps \cup {None} /\ faults' \in 0 .. MaxFaults
  BY <1>1, <1>2, StepPlace, PlacesAre DEF IInv, Kept
<1>4. TypeOK'
  BY <1>1, <1>3, KitAssumption DEF IInv, Kept, TypeOK, InstallLayout
<1>5. Files'
  BY <1>1, KitAssumption
     DEF IInv, Kept, TypeOK, Files, Hardened, Up, Config, Reached, InstallLayout
<1>6. AutomaticHardened'
  BY <1>1 DEF IInv, Kept, AutomaticHardened, Hardened, Up, Reached, InstallLayout
<1>7. Grows'
  BY <1>1, NoneAssumption DEF IInv, Kept, TypeOK, Record, Grows, Forgets, InstallLayout
<1>8. loaded' = None /\ start' = "Manual"
  BY <1>1 DEF IInv, Reached, InstallLayout
<1>9. pc' = "key" => Reached'
  BY <1>1, KitAssumption
     DEF IInv, Kept, TypeOK, Files, Config, Hardened, Up, InstallLayout, Reached, Narrow,
         Enabled
<1> QED
  BY <1>1, <1>2, <1>4, <1>5, <1>6, <1>7, <1>8, <1>9, StepKeeps DEF Kept

-----------------------------------------------------------------------------
(* sshd_config, and the start with it.                                      *)

LEMMA KeepOriginalStep ==
  ASSUME IInv, KeepOriginal
  PROVE  IInv'
<1>1. pc = "original" /\ Step("original", "previous") /\ kit' = kit
  BY DEF KeepOriginal, Step
<1>2. {"original", "previous"} \subseteq Steps \ {"restore", "restore_write"}
  OBVIOUS
<1>3. pc' \in Places /\ failed' \in Steps \cup {None} /\ faults' \in 0 .. MaxFaults
  BY <1>1, <1>2, StepPlace, PlacesAre DEF IInv, Kept
<1>4. TypeOK'
  BY <1>1, <1>3, KitAssumption DEF IInv, Kept, TypeOK, KeepOriginal
<1>5. Files'
  BY <1>1, KitAssumption
     DEF IInv, Kept, TypeOK, Files, Hardened, Up, Config, Reached, KeepOriginal
<1>6. AutomaticHardened'
  BY <1>1 DEF IInv, Kept, AutomaticHardened, Hardened, Up, Reached, KeepOriginal
<1>7. Grows'
  BY <1>1, NoneAssumption DEF IInv, Kept, TypeOK, Record, Grows, Forgets, KeepOriginal
<1>8. loaded' = None /\ start' = "Manual"
  BY <1>1 DEF IInv, Reached, KeepOriginal
<1>9. pc' = "previous" => Reached'
  BY <1>1, KitAssumption
     DEF IInv, Kept, TypeOK, Files, Config, Hardened, Up, KeepOriginal, Reached, Narrow,
         Enabled
<1> QED
  BY <1>1, <1>2, <1>4, <1>5, <1>6, <1>7, <1>8, <1>9, StepKeeps DEF Kept

LEMMA KeepPreviousStep ==
  ASSUME IInv, KeepPrevious
  PROVE  IInv'
<1>1. pc = "previous" /\ Step("previous", "replace") /\ kit' = kit
  BY DEF KeepPrevious, Step
<1>2. {"previous", "replace"} \subseteq Steps \ {"restore", "restore_write"}
  OBVIOUS
<1>3. pc' \in Places /\ failed' \in Steps \cup {None} /\ faults' \in 0 .. MaxFaults
  BY <1>1, <1>2, StepPlace, PlacesAre DEF IInv, Kept
<1>4. TypeOK'
  BY <1>1, <1>3, KitAssumption DEF IInv, Kept, TypeOK, KeepPrevious
<1>5. Files'
  BY <1>1, KitAssumption
     DEF IInv, Kept, TypeOK, Files, Hardened, Up, Config, Reached, KeepPrevious
<1>6. AutomaticHardened'
  BY <1>1 DEF IInv, Kept, AutomaticHardened, Hardened, Up, Reached, KeepPrevious
<1>7. Grows'
  BY <1>1, NoneAssumption DEF IInv, Kept, TypeOK, Record, Grows, Forgets, KeepPrevious
<1>8. loaded' = None /\ start' = "Manual"
  BY <1>1 DEF IInv, Reached, KeepPrevious
<1>9. pc' = "replace" => Reached'
  BY <1>1, KitAssumption
     DEF IInv, Kept, TypeOK, Files, Config, Hardened, Up, KeepPrevious, Reached, Narrow,
         Enabled
<1> QED
  BY <1>1, <1>2, <1>4, <1>5, <1>6, <1>7, <1>8, <1>9, StepKeeps DEF Kept

LEMMA ReplaceStep ==
  ASSUME IInv, Replace
  PROVE  IInv'
<1>1. pc = "replace" /\ Step("replace", "recheck") /\ kit' = kit
  BY DEF Replace, Step
<1>2. {"replace", "recheck"} \subseteq Steps \ {"restore", "restore_write"}
  OBVIOUS
<1>3. pc' \in Places /\ failed' \in Steps \cup {None} /\ faults' \in 0 .. MaxFaults
  BY <1>1, <1>2, StepPlace, PlacesAre DEF IInv, Kept
<1>4. TypeOK'
  BY <1>1, <1>3, KitAssumption DEF IInv, Kept, TypeOK, Replace, Config
<1>5. Files'
  BY <1>1, KitAssumption DEF IInv, Kept, TypeOK, Files, Hardened, Up, Config, Reached, Replace
<1>6. AutomaticHardened'
  BY <1>1 DEF IInv, Kept, AutomaticHardened, Hardened, Up, Reached, Replace
<1>7. Grows'
  BY <1>1, NoneAssumption DEF IInv, Kept, TypeOK, Record, Grows, Forgets, Replace
<1>8. loaded' = None /\ start' = "Manual"
  BY <1>1 DEF IInv, Reached, Replace
<1>9. pc' = "recheck" => Reached'
  BY <1>1, KitAssumption
     DEF IInv, Kept, TypeOK, Files, Config, Hardened, Up, Replace, Reached, Narrow, Enabled
<1> QED
  BY <1>1, <1>2, <1>4, <1>5, <1>6, <1>7, <1>8, <1>9, StepKeeps DEF Kept

-----------------------------------------------------------------------------
(* The actions that end a run in more than one way.                        *)

\* Every failure leaves where it stands, and a fault more.
LEMMA FailPlace ==
  ASSUME TypeOK, pc \in Steps, Fails, faults' \in {faults, faults + 1}, faults' <= MaxFaults
  PROVE  pc' \in Places /\ failed' \in Steps \cup {None} /\ faults' \in 0 .. MaxFaults
BY KitAssumption DEF TypeOK, Fails, Places

\* The file put back is the owner's, or one of this script's.
LEMMA PutBackStep ==
  ASSUME IInv, PutBack, pc \in {"recheck", "start"}
  PROVE  IInv'
<1>1. pc \in Steps /\ pc \in Quiet /\ kit' = kit
  BY DEF PutBack
<1>2. pc' \in Places /\ failed' \in Steps \cup {None} /\ faults' \in 0 .. MaxFaults
  BY <1>1, FailPlace, KitAssumption DEF IInv, Kept, PutBack, Fault, TypeOK
<1>3. TypeOK'
  BY <1>2 DEF IInv, Kept, TypeOK, PutBack
<1>4. loaded' = None /\ start' = "Manual"
  BY <1>1 DEF IInv, Reached, PutBack
<1>5. Files' /\ AutomaticHardened'
  BY <1>4 DEF IInv, Kept, Files, AutomaticHardened, Hardened, Up, PutBack
<1>6. Grows'
  BY <1>1, PlacesAre DEF IInv, Kept, Grows, Forgets, PutBack
<1> QED
  BY <1>1, <1>3, <1>4, <1>5, <1>6, FailStep DEF Kept, PutBack

LEMMA RecheckStep ==
  ASSUME IInv, Recheck
  PROVE  IInv'
<1>1. CASE PutBack
  BY <1>1, PutBackStep DEF Recheck
<1>2. CASE Step("recheck", "effective") /\ changed' = TRUE
          /\ UNCHANGED <<machine, kit, memory, unread, plan, rest>>
  <2>1. pc = "recheck"
    BY DEF Recheck
  <2>2. {"recheck", "effective"} \subseteq Steps \ {"restore", "restore_write"}
    OBVIOUS
  <2>3. pc' \in Places /\ failed' \in Steps \cup {None} /\ faults' \in 0 .. MaxFaults
    BY <1>2, <2>2, StepPlace, PlacesAre DEF IInv, Kept
  <2>4. TypeOK'
    BY <1>2, <2>3 DEF IInv, Kept, TypeOK
  <2>5. Files' /\ AutomaticHardened' /\ Grows'
    BY <1>2, <2>1 DEF IInv, Kept, Files, AutomaticHardened, Grows, Forgets, Hardened, Up
  <2>6. loaded' = None /\ start' = "Manual"
    BY <1>2, <2>1 DEF IInv, Reached
  <2>7. pc' = "effective" => Reached'
    BY <1>2, <2>1 DEF IInv, Reached, Narrow, Enabled
  <2> QED
    BY <1>2, <2>2, <2>4, <2>5, <2>6, <2>7, StepKeeps DEF Kept
<1> QED
  BY <1>1, <1>2 DEF Recheck

LEMMA StartHardenedStep ==
  ASSUME IInv, StartHardened
  PROVE  IInv'
<1>1. CASE pc = "start" /\ changed /\ PutBack
  BY <1>1, PutBackStep
<1>2. CASE /\ pc = "start" /\ pc' = "automatic"
           /\ loaded' = config
           /\ UNCHANGED <<firewall, installed, start, texts, disk, run, rest, failed, faults>>
  <2>1. "automatic" \in Places /\ "start" \in Steps /\ "automatic" \in Steps
    BY DEF Places
  <2>2. TypeOK'
    BY <1>2, <2>1 DEF IInv, Kept, TypeOK
  <2>3. Files' /\ AutomaticHardened' /\ Grows'
    BY <1>2 DEF IInv, Kept, Files, AutomaticHardened, Grows, Forgets, Hardened, Up
  <2>4. Reached'
    BY <1>2 DEF IInv, Reached, Narrow, Enabled
  <2>5. Failing' /\ Endings'
    BY <1>2, <2>1 DEF IInv, Failing, Endings
  <2> QED
    BY <2>2, <2>3, <2>4, <2>5 DEF IInv, Kept
<1> QED
  BY <1>1, <1>2 DEF StartHardened

LEMMA SetAutomaticStep ==
  ASSUME IInv, SetAutomatic
  PROVE  IInv'
<1>1. pc = "automatic" /\ kit' = kit /\ config = kit /\ kit \in Kit
  BY DEF SetAutomatic, Step, IInv, Reached
<1>2. {"automatic", "power"} \subseteq Steps \ {"restore", "restore_write"} /\ "automatic" \notin Quiet
  OBVIOUS
<1>3. pc' \in Places /\ failed' \in Steps \cup {None} /\ faults' \in 0 .. MaxFaults
  BY <1>1, <1>2, StepPlace, FailPlace, PlacesAre, KitAssumption
     DEF IInv, Kept, SetAutomatic, Fault, TypeOK
<1>4. TypeOK'
  BY <1>3 DEF IInv, Kept, TypeOK, SetAutomatic
<1>5. Files' /\ AutomaticHardened' /\ Grows'
  BY <1>1 DEF IInv, Kept, Files, AutomaticHardened, Grows, Forgets, Hardened, Up, SetAutomatic
<1>6. CASE Step("automatic", "power") /\ start' = "Automatic"
           /\ UNCHANGED <<firewall, installed, loaded, texts, disk, run, rest>>
  <2>1. pc' = "power" => Reached'
    BY <1>1, <1>6 DEF IInv, Reached, Narrow, Enabled
  <2> QED
    BY <1>1, <1>2, <1>4, <1>5, <1>6, <2>1, StepKeeps DEF Kept
<1>7. CASE Fails
  BY <1>1, <1>2, <1>4, <1>5, <1>7, FailStep DEF Kept
<1> QED
  BY <1>6, <1>7 DEF SetAutomatic

\* sshd is left stopped, or could not be stopped: this run stops at S3 either way.
LEMMA FailClosedStep ==
  ASSUME IInv, FailClosed, pc \in {"disable", "verify"}
  PROVE  IInv'
<1>1. pc \in Steps /\ pc \notin Quiet /\ pc # "off" /\ kit' = kit
  BY DEF FailClosed
<1>2. pc' \in Places /\ failed' \in Steps \cup {None} /\ faults' \in 0 .. MaxFaults
  BY <1>1, FailPlace, KitAssumption DEF IInv, Kept, FailClosed, Fault, TypeOK
<1>3. TypeOK'
  BY <1>2 DEF IInv, Kept, TypeOK, FailClosed
<1>4. Files' /\ AutomaticHardened' /\ Grows'
  BY <1>1 DEF IInv, Kept, Files, AutomaticHardened, Grows, Forgets, Hardened, Up, FailClosed
<1> QED
  BY <1>1, <1>3, <1>4, FailStep DEF Kept, FailClosed

LEMMA VerifyStep ==
  ASSUME IInv, Verify
  PROVE  IInv'
<1>1. CASE ~Narrow /\ pc = "verify" /\ FailClosed
  BY <1>1, FailClosedStep
<1>2. CASE Narrow /\ Step("verify", "manual") /\ Idle
  <2>1. pc = "verify"
    BY <1>2 DEF Step
  <2>2. pc' = "manual" => Reached'
    BY <1>2, <2>1 DEF IInv, Idle, Reached, Narrow, Enabled
  <2>3. {"verify", "manual"} \subseteq Steps \ {"restore", "restore_write"}
    OBVIOUS
  <2> QED
    BY <1>2, <2>2, <2>3, IdleStep
<1> QED
  BY <1>1, <1>2 DEF Verify

LEMMA AddFeatureStep ==
  ASSUME IInv, AddFeature
  PROVE  IInv'
<1>1. pc = "feature" /\ Step("feature", "own") /\ kit' = kit
  BY DEF AddFeature, Step, Idle
<1>2. {"feature", "own"} \subseteq Steps \ {"restore", "restore_write"} /\ "feature" \notin Quiet
  OBVIOUS
<1>3. pc' \in Places /\ failed' \in Steps \cup {None} /\ faults' \in 0 .. MaxFaults
  BY <1>1, <1>2, StepPlace, PlacesAre DEF IInv, Kept
<1>4. TypeOK'
  <2>1. CASE Idle
    BY <1>3, <2>1 DEF IInv, Kept, TypeOK, Idle
  <2>2. CASE ~installed /\ ~Idle
    <3>1. /\ installed' = TRUE /\ start' = "Manual"
          /\ rules' = [rules EXCEPT ![DefaultRule] = TRUE]
          /\ memory' = [memory EXCEPT !.feature = TRUE]
          /\ UNCHANGED <<own, loaded, texts, disk, kit, unread, plan, changed, saved, incomplete>>
      BY <2>2 DEF AddFeature
    <3>2. memory' \in Record
      BY <3>1 DEF IInv, Kept, TypeOK, Record
    <3>3. rules' \in [Rule -> BOOLEAN]
      BY <3>1 DEF IInv, Kept, TypeOK
    <3>4. installed' \in BOOLEAN
      BY <3>1
    <3> QED
      BY <1>3, <3>1, <3>2, <3>3, <3>4 DEF IInv, Kept, TypeOK
  <2> QED
    BY <2>1, <2>2 DEF AddFeature
<1>5. Files' /\ AutomaticHardened'
  BY DEF IInv, Kept, Files, AutomaticHardened, Hardened, Up, AddFeature, Idle
<1>6. Grows'
  BY <1>1, NoneAssumption DEF IInv, Kept, TypeOK, Record, Grows, Forgets, AddFeature, Idle
<1>7. pc' = "own" => Reached'
  BY <1>1 DEF IInv, AddFeature, Idle, Reached, Narrow, Enabled
<1> QED
  BY <1>1, <1>2, <1>4, <1>5, <1>6, <1>7, StepKeeps DEF Kept

LEMMA SetAccountStep ==
  ASSUME IInv, SetAccount
  PROVE  IInv'
<1>1. pc = "account" /\ kit' = kit
  BY DEF SetAccount, Step
<1>2. {"account", "layout"} \subseteq Steps \ {"restore", "restore_write"} /\ "account" \in Quiet
  OBVIOUS
<1>3. pc' \in Places /\ failed' \in Steps \cup {None} /\ faults' \in 0 .. MaxFaults
  BY <1>1, <1>2, StepPlace, FailPlace, PlacesAre, KitAssumption
     DEF IInv, Kept, SetAccount, TypeOK
<1>4. TypeOK'
  <2>1. memory' \in Record /\ account' \in {"absent", "foreign", "enabled", "disabled"}
    BY DEF IInv, Kept, TypeOK, SetAccount, Record
  <2> QED
    BY <1>3, <2>1 DEF IInv, Kept, TypeOK, SetAccount
<1>5. Files' /\ AutomaticHardened'
  BY DEF IInv, Kept, Files, AutomaticHardened, Hardened, Up, SetAccount
<1>6. Grows'
  BY <1>1, NoneAssumption DEF IInv, Kept, TypeOK, Record, Grows, Forgets, SetAccount
<1>7. loaded' = None /\ start' = "Manual"
  BY <1>1, <1>2 DEF IInv, Reached, SetAccount
<1>8. CASE Fails
  BY <1>1, <1>2, <1>4, <1>5, <1>6, <1>7, <1>8, FailStep DEF Kept
<1>9. CASE Step("account", "layout") /\ account' = "enabled"
           /\ UNCHANGED <<firewall, service, texts, shell, remote, keys, kit, plan, changed, rest>>
  <2>1. pc' = "layout" => Reached'
    BY <1>1, <1>9 DEF IInv, Reached, Narrow, Enabled
  <2> QED
    BY <1>2, <1>4, <1>5, <1>6, <1>7, <1>9, <2>1, StepKeeps DEF Kept
<1> QED
  BY <1>8, <1>9 DEF SetAccount

-----------------------------------------------------------------------------
(* The key, and the self test.                                             *)

\* Writing the key file keeps the rest.
LEMMA KeysKept ==
  ASSUME IInv, NEW p \in Steps, NEW q \in Places, NEW lines \in SUBSET (Kit \cup {TestKey}),
         SetKeys(p, lines, q)
  PROVE  Kept'
<1>1. pc' \in Places /\ failed' \in Steps \cup {None} /\ faults' \in 0 .. MaxFaults
  BY StepPlace DEF IInv, Kept, SetKeys
<1>2. TypeOK'
  BY <1>1 DEF IInv, Kept, TypeOK, SetKeys
<1>3. Files' /\ AutomaticHardened' /\ Grows'
  BY PlacesAre
     DEF IInv, Kept, Files, AutomaticHardened, Grows, Forgets, Hardened, Up, SetKeys, Step
<1> QED
  BY <1>2, <1>3 DEF Kept

LEMMA InstallKeyStep ==
  ASSUME IInv, InstallKey
  PROVE  IInv'
<1>1. {"key", "key_write", "merge"} \subseteq Steps \ {"restore", "restore_write"}
      /\ "key" \in Quiet /\ "key_write" \in Quiet /\ Steps \subseteq Places
  BY PlacesAre
<1>2. kit \in Kit
  BY <1>1, PlacesAre DEF InstallKey, SetKeys, Step, IInv, Reached
<1>3. CASE SetKeys("key", {}, "key_write")
  <2>1. Kept'
    BY <1>1, <1>3, KeysKept
  <2>2. loaded' = None /\ start' = "Manual"
    BY <1>1, <1>3 DEF IInv, Reached, SetKeys, Step
  <2>3. pc' = "key_write" => Reached'
    BY <1>3 DEF SetKeys, Step, IInv, Reached, Narrow, Enabled
  <2> QED
    BY <1>1, <1>3, <2>1, <2>2, <2>3, StepKeeps DEF SetKeys
<1>4. CASE SetKeys("key_write", {kit}, "merge")
  <2>1. Kept'
    BY <1>1, <1>2, <1>4, KeysKept
  <2>2. loaded' = None /\ start' = "Manual"
    BY <1>1, <1>4 DEF IInv, Reached, SetKeys, Step
  <2>3. pc' = "merge" => Reached'
    BY <1>4 DEF SetKeys, Step, IInv, Reached, Narrow, Enabled
  <2> QED
    BY <1>1, <1>4, <2>1, <2>2, <2>3, StepKeeps DEF SetKeys
<1> QED
  BY <1>3, <1>4 DEF InstallKey

LEMMA BeginSelfTestStep ==
  ASSUME IInv, BeginSelfTest
  PROVE  IInv'
<1>1. /\ pc = "selftest" /\ kit' = kit /\ kit \in Kit /\ failed = None /\ failed' = failed
      /\ faults' \in 0 .. MaxFaults /\ pc' \in {"save", "selftest_run"}
  BY KitAssumption DEF BeginSelfTest, IInv, Kept, TypeOK, Fault, Failing, Reached
<1>2. {"save", "selftest_run"} \subseteq Places /\ "save" \notin Steps
  BY DEF Places
<1>3. TypeOK'
  <2>1. CASE incomplete' = TRUE /\ UNCHANGED <<machine, run, saved, failed>>
    BY <1>1, <1>2, <2>1 DEF IInv, Kept, TypeOK
  <2>2. CASE /\ keys' = {kit, TestKey}
             /\ UNCHANGED <<firewall, service, texts, shell, account, remote, run, rest,
                            failed, faults>>
    BY <1>1, <1>2, <2>2 DEF IInv, Kept, TypeOK
  <2> QED
    BY <2>1, <2>2 DEF BeginSelfTest
<1>4. Files' /\ AutomaticHardened' /\ Grows'
  BY <1>1
     DEF IInv, Kept, Files, AutomaticHardened, Grows, Forgets, Hardened, Up, BeginSelfTest
<1>5. Reached'
  BY <1>1 DEF IInv, BeginSelfTest, Reached, Narrow, Enabled
<1>6. Failing' /\ Endings'
  BY <1>1, NoneAssumption DEF Failing, Endings, BeginSelfTest
<1> QED
  BY <1>3, <1>4, <1>5, <1>6 DEF IInv, Kept

LEMMA SelfTestStep ==
  ASSUME IInv, SelfTest
  PROVE  IInv'
<1>1. /\ pc = "selftest_run" /\ pc' = "restore" /\ Idle /\ failed = None
      /\ failed' \in {None, "selftest_run"} /\ faults' \in 0 .. MaxFaults
  BY KitAssumption DEF SelfTest, IInv, Kept, TypeOK, Fault, Failing
<1>2. "restore" \in Places /\ "selftest_run" \in Steps
  BY DEF Places
<1>3. Kept'
  BY <1>1, <1>2, IdleKept DEF IInv
<1>4. Reached'
  BY <1>1 DEF IInv, Idle, Reached, Narrow, Enabled
<1>5. Failing' /\ Endings'
  BY <1>1 DEF Failing, Endings
<1> QED
  BY <1>3, <1>4, <1>5 DEF IInv

\* The key is there again, unless that failed too.
LEMMA RestoreKeysStep ==
  ASSUME IInv, RestoreKeys
  PROVE  IInv'
<1>1. /\ {"restore", "restore_write"} \subseteq Steps /\ {"restore_write", "save"} \subseteq Places
      /\ "restore" \notin Quiet /\ "restore_write" \notin Quiet /\ "selftest_run" \notin Quiet
      /\ "save" \notin Steps
  BY DEF Places
<1>2. pc \in {"restore", "restore_write"} /\ kit' = kit /\ kit \in Kit
  BY DEF RestoreKeys, SetKeys, Step, IInv, Reached
<1>3. Kept'
  BY <1>1, <1>2, KeysKept DEF RestoreKeys
<1>4. CASE Fails
  BY <1>1, <1>2, <1>3, <1>4, FailStep
<1>5. CASE SetKeys("restore", {}, "restore_write") /\ pc' = "restore_write" /\ UNCHANGED <<failed, faults>>
  <2>1. Reached'
    BY <1>2, <1>5 DEF SetKeys, Step, IInv, Reached, Narrow, Enabled
  <2>2. Failing' /\ Endings'
    BY <1>2, <1>5 DEF IInv, Failing, Endings
  <2> QED
    BY <1>3, <2>1, <2>2 DEF IInv
<1>6. CASE SetKeys("restore_write", {kit}, "save") /\ pc' = "save" /\ UNCHANGED <<failed, faults>>
  <2>1. pc = "restore_write"
    BY <1>6 DEF SetKeys, Step
  <2>2. Reached'
    BY <1>2, <1>6, <2>1 DEF SetKeys, Step, IInv, Reached, Narrow, Enabled
  <2>3. Failing'
    BY <1>1, <1>6 DEF Failing
  <2>4. failed' \in {None, "selftest_run"}
    BY <1>1, <1>6, <2>1 DEF IInv, Failing
  <2>5. /\ Narrow /\ loaded = kit /\ config = kit /\ start = "Automatic"
        /\ account = "enabled" /\ shell = None
    BY <2>1 DEF IInv, Reached, Narrow, Enabled
  <2>6. keys' = {kit} /\ UNCHANGED <<firewall, service, texts, shell, account, kit>>
    BY <1>6 DEF SetKeys
  <2>7. Endings'
    BY <1>1, <2>4, <2>5, <2>6, NoneAssumption DEF Endings, Narrow, Enabled
  <2> QED
    BY <1>3, <2>2, <2>3, <2>7 DEF IInv
<1> QED
  BY <1>4, <1>5, <1>6 DEF RestoreKeys, SetKeys, Step

-----------------------------------------------------------------------------
(* The end of a run, and what happens between runs.                        *)

LEMMA NothingType == Nothing \in Record
  BY DEF Nothing, Record

LEMMA SaveStateStep ==
  ASSUME IInv, SaveState
  PROVE  IInv'
<1>1. /\ pc = "save" /\ pc' = "summary" /\ UNCHANGED <<machine, run, incomplete, failed>>
      /\ saved' \in {saved, memory, Torn} /\ faults' \in 0 .. MaxFaults
  BY KitAssumption DEF SaveState, IInv, Kept, TypeOK, Fault
<1>2. "summary" \in Places /\ "summary" \notin Steps /\ "summary" # "off"
  BY DEF Places
<1>3. TypeOK'
  BY <1>1, <1>2 DEF IInv, Kept, TypeOK
<1>4. Files' /\ AutomaticHardened'
  BY <1>1 DEF IInv, Kept, Files, AutomaticHardened, Hardened, Up
<1>5. Grows'
  BY <1>1, NoneAssumption DEF IInv, Kept, TypeOK, Grows, Forgets
<1>6. Reached' /\ Failing'
  BY <1>1, <1>2 DEF IInv, Failing, Reached, Narrow, Enabled
<1>7. Endings'
  BY <1>1 DEF IInv, Endings, Narrow, Enabled
<1> QED
  BY <1>3, <1>4, <1>5, <1>6, <1>7 DEF IInv, Kept

\* Between runs, only the files and the record matter.
LEMMA OffKeeps ==
  ASSUME TypeOK', Files', AutomaticHardened', pc' = "off"
  PROVE  IInv'
<1>1. "off" \notin Steps /\ "off" \notin {"save", "summary"}
  BY PlacesAre
<1> QED
  BY <1>1 DEF IInv, Kept, Grows, Endings, Failing, Reached, Narrow, Enabled

\* A run that is over has nothing left in hand.
LEMMA LeavesTypes ==
  ASSUME Leaves
  PROVE  /\ pc' \in Places /\ kit' \in Kit \cup {None} /\ memory' \in Record
         /\ plan' \in SUBSET Rule /\ changed' \in BOOLEAN /\ unread' \in BOOLEAN
<1>1. changed' \in BOOLEAN /\ unread' \in BOOLEAN
  BY Zenon DEF Leaves
<1>2. pc' \in Places /\ kit' \in Kit \cup {None} /\ plan' \in SUBSET Rule
  BY DEF Leaves, Places
<1>3. memory' \in Record
  BY NothingType DEF Leaves
<1> QED
  BY <1>1, <1>2, <1>3

LEMMA EndStep ==
  ASSUME IInv, End
  PROVE  IInv'
<1>1. TypeOK'
  BY LeavesTypes DEF IInv, Kept, TypeOK, End
<1>2. Files' /\ AutomaticHardened'
  BY DEF IInv, Kept, Files, AutomaticHardened, Hardened, Up, End
<1> QED
  BY <1>1, <1>2, OffKeeps DEF End, Leaves

LEMMA CrashStep ==
  ASSUME IInv, Crash
  PROVE  IInv'
<1>1. saved' \in {saved, Torn} /\ faults' \in 0 .. MaxFaults
      /\ UNCHANGED <<machine, incomplete, failed>> /\ Leaves
  BY KitAssumption DEF IInv, Kept, TypeOK, Crash, Fault
<1>2. TypeOK'
  BY <1>1, LeavesTypes DEF IInv, Kept, TypeOK
<1>3. Files' /\ AutomaticHardened'
  BY DEF IInv, Kept, Files, AutomaticHardened, Hardened, Up, Crash
<1> QED
  BY <1>1, <1>2, <1>3, OffKeeps DEF Leaves

LEMMA RebootStep ==
  ASSUME IInv, Reboot
  PROVE  IInv'
<1>1. TypeOK'
  BY DEF IInv, Kept, TypeOK, Reboot, Opened, Config
<1>2. Files' /\ AutomaticHardened'
  BY KitAssumption DEF IInv, Kept, Files, AutomaticHardened, Hardened, Up, Reboot, Opened
<1> QED
  BY <1>1, <1>2, OffKeeps DEF Reboot

LEMMA PersonStep ==
  ASSUME IInv, Person
  PROVE  IInv'
<1>1. TypeOK'
  BY DEF IInv, Kept, TypeOK, Person, Pause, Revoke, RemoveForeign
<1>2. Files' /\ AutomaticHardened'
  BY DEF IInv, Kept, Files, AutomaticHardened, Hardened, Up, Person, Pause, Revoke,
         RemoveForeign
<1> QED
  BY <1>1, <1>2, OffKeeps DEF Person

\* Nothing enables a rule behind S3's back.
LEMMA DriftStep ==
  ASSUME IInv, Drift
  PROVE  IInv'
<1>1. /\ pc \in {"off", "preflight", "feature"} \cup (S3 \ {"verify"})
      /\ UNCHANGED <<own, service, texts, disk, run, rest, pc, failed>>
  BY DEF Drift
<1>2. TypeOK'
  BY KitAssumption DEF IInv, Kept, TypeOK, Drift, Fault
<1>3. Files' /\ AutomaticHardened' /\ Grows'
  BY <1>1 DEF IInv, Kept, Files, AutomaticHardened, Grows, Forgets, Hardened, Up
<1>4. pc \notin AfterVerify /\ pc \notin {"save", "summary"}
  BY <1>1
<1>5. Reached'
  BY <1>1, <1>4 DEF IInv, Reached
<1>6. Failing' /\ Endings'
  BY <1>1, <1>4 DEF IInv, Failing, Endings
<1> QED
  BY <1>2, <1>3, <1>5, <1>6 DEF IInv, Kept

LEMMA ThrowsStep ==
  ASSUME IInv, Throws
  PROVE  IInv'
<1>1. pc \in Steps /\ pc # "off" /\ Fails /\ Idle /\ kit' = kit
  BY PlacesAre DEF Throws, Idle
<1>2. pc' \in Places /\ failed' \in Steps \cup {None} /\ faults' \in 0 .. MaxFaults
  BY <1>1, FailPlace, KitAssumption DEF IInv, Kept, Throws, Fault, TypeOK
<1>3. Kept'
  BY <1>1, <1>2, IdleKept DEF IInv
<1>4. pc \in Quiet => loaded' = None /\ start' = "Manual"
  BY <1>1 DEF IInv, Reached, Idle
<1> QED
  BY <1>1, <1>3, <1>4, FailStep

\* A run begins with what the earlier ones saved.
LEMMA BeginStep ==
  ASSUME IInv, NEW k \in Kit, Begin(k)
  PROVE  IInv'
<1>1. /\ pc' = "preflight" /\ kit' = k /\ failed' = None /\ UNCHANGED <<machine, saved>>
  BY DEF Begin
<1>2. TypeOK'
  <2>1. changed' \in BOOLEAN /\ incomplete' \in BOOLEAN /\ unread' \in BOOLEAN
    BY Zenon DEF Begin, ReadState
  <2>2. plan' = {} /\ pc' \in Places /\ failed' = None /\ UNCHANGED <<machine, saved>>
    BY DEF Begin, Places
  <2>3. memory' \in Record
    BY NothingType DEF IInv, Kept, TypeOK, Begin, ReadState
  <2>4. faults' \in 0 .. MaxFaults
    BY KitAssumption DEF IInv, Kept, TypeOK, Begin, ReadState, Fault
  <2> QED
    BY <1>1, <2>1, <2>2, <2>3, <2>4 DEF IInv, Kept, TypeOK
<1>3. Files' /\ AutomaticHardened'
  BY DEF IInv, Kept, Files, AutomaticHardened, Hardened, Up, Begin
<1>4. Grows'
  <2>1. ~unread' => memory' = IF saved \in {None, Torn} THEN Nothing ELSE saved
    BY Zenon DEF Begin, ReadState
  <2> QED
    BY <1>1, <2>1, NoneAssumption DEF Grows, Forgets
<1>5. Reached'
  BY <1>1 DEF IInv, Reached, Narrow, Enabled
<1>6. Failing' /\ Endings'
  BY <1>1 DEF Failing, Endings
<1> QED
  BY <1>2, <1>3, <1>4, <1>5, <1>6 DEF IInv, Kept

-----------------------------------------------------------------------------
(* The theorems.                                                           *)

LEMMA InitInv ==
  ASSUME Init
  PROVE  IInv
<1>1. TypeOK
  <2>1. /\ changed \in BOOLEAN /\ incomplete \in BOOLEAN /\ remote \in BOOLEAN
        /\ unread \in BOOLEAN
    BY Zenon DEF Init
  <2>2. account \in {"absent", "foreign", "enabled", "disabled"} /\ faults \in 0 .. MaxFaults
    BY KitAssumption DEF Init
  <2>3. pc \in Places /\ memory \in Record
    BY NothingType DEF Init, Places
  <2>4. /\ loaded \in Config \cup {None} /\ config \in Config \cup {None}
        /\ original \in Config \cup {None} /\ previous \in Config \cup {None}
    BY DEF Init, Config
  <2>5. /\ rules \in [Rule -> BOOLEAN] /\ own \in Kit \cup {None} /\ installed \in BOOLEAN
        /\ start \in {"Manual", "Automatic"} /\ shell \in {"custom", None}
        /\ keys \in SUBSET (Kit \cup {TestKey}) /\ saved \in Record \cup {None, Torn}
        /\ kit \in Kit \cup {None} /\ plan \in SUBSET Rule /\ failed \in Steps \cup {None}
    BY DEF Init
  <2> QED
    BY <2>1, <2>2, <2>3, <2>4, <2>5 DEF TypeOK
<1>2. Kept
  BY <1>1, KitAssumption DEF Init, Kept, Files, AutomaticHardened, Grows, Hardened, Up
<1>3. "off" \notin Steps
  BY PlacesAre
<1> QED
  BY <1>2, <1>3 DEF Init, IInv, Failing, Endings, Reached, Narrow, Enabled

\* One lemma per action of a run.
LEMMA RunInv ==
  ASSUME IInv, RunStep
  PROVE  IInv'
<1>1. CASE \E k \in Kit : Begin(k)
  BY <1>1, BeginStep
<1>2. CASE Preflight \/ AddFeature \/ RemoveOwn \/ CreateOwn \/ MakePlan
  BY <1>2, PreflightStep, AddFeatureStep, RemoveOwnStep, CreateOwnStep, MakePlanStep
<1>3. CASE (\E r \in Rule : DisableOne(r)) \/ PlanDone \/ Verify
  BY <1>3, DisableOneStep, PlanDoneStep, VerifyStep
<1>4. CASE PolicyRuleLeft
  BY <1>4, FailClosedStep DEF PolicyRuleLeft
<1>5. CASE SetManual \/ FirstStart \/ FirstStop \/ RemoveShell \/ SetAccount \/ InstallLayout \/ InstallKey
  BY <1>5, SetManualStep, FirstStartStep, FirstStopStep, RemoveShellStep, SetAccountStep,
     InstallLayoutStep, InstallKeyStep
<1>6. CASE Merge \/ KeepOriginal \/ KeepPrevious \/ Replace \/ Recheck
  BY <1>6, MergeStep, KeepOriginalStep, KeepPreviousStep, ReplaceStep, RecheckStep
<1>7. CASE ReadEffective \/ StartHardened \/ SetAutomatic \/ SetPower
  BY <1>7, ReadEffectiveStep, StartHardenedStep, SetAutomaticStep, SetPowerStep
<1>8. CASE BeginSelfTest \/ SelfTest \/ RestoreKeys \/ SaveState \/ End
  BY <1>8, BeginSelfTestStep, SelfTestStep, RestoreKeysStep, SaveStateStep, EndStep
<1> QED
  BY <1>1, <1>2, <1>3, <1>4, <1>5, <1>6, <1>7, <1>8 DEF RunStep

LEMMA NextInv ==
  ASSUME IInv, [Next]_vars
  PROVE  IInv'
<1>1. CASE RunStep
  BY <1>1, RunInv
<1>2. CASE Throws \/ Crash \/ Reboot \/ Drift \/ Person
  BY <1>2, ThrowsStep, CrashStep, RebootStep, DriftStep, PersonStep
<1>3. CASE UNCHANGED vars
  BY <1>3
     DEF IInv, Kept, TypeOK, Files, AutomaticHardened, Grows, Forgets, Hardened, Up,
         Reached, Narrow, Enabled, Failing, Endings
<1> QED
  BY <1>1, <1>2, <1>3 DEF Next

LEMMA Invariance == Spec => []IInv
<1>1. Init => IInv
  BY InitInv
<1>2. IInv /\ [Next]_vars => IInv'
  BY NextInv
<1> QED
  BY <1>1, <1>2, PTL DEF Spec

\* The PC, the run and the record are of their types.
THEOREM TypeCorrect == Spec => []TypeOK
<1>1. IInv => TypeOK
  BY DEF IInv, Kept
<1> QED
  BY <1>1, Invariance, PTL

\* After RESULT: PASS the front door is the one of this kit, whatever earlier runs,
\* crashes and deeds of the person left behind (Get-WfSummaryResult, and the steps).
THEOREM PassTheorem == Spec => []PassMeansReady
<1>1. IInv => PassMeansReady
  BY NoneAssumption DEF IInv, Endings, PassMeansReady, Verdict
<1> QED
  BY <1>1, Invariance, PTL

\* Between the stop in S4 and the start in S9 nothing listens, nor will after a restart,
\* and a run that fails there leaves it so (Start-WfSshd, Set-WfSshdConfig).
THEOREM QuietTheorem == Spec => []QuietUntilHardened
<1>1. IInv => QuietUntilHardened
  BY DEF IInv, Reached, Endings, QuietUntilHardened, Up
<1> QED
  BY <1>1, Invariance, PTL

\* Past S3, sshd listens only behind a firewall that admits the Mac alone
\* (Set-WfFirewall and the steps after it).
THEOREM NarrowTheorem == Spec => []ListensNarrow
<1>1. IInv => ListensNarrow
  BY DEF IInv, Reached, ListensNarrow
<1> QED
  BY <1>1, Invariance, PTL

\* The owner's sshd_config is kept as long as this script's is there (Set-WfSshdConfig).
THEOREM OriginalTheorem == Spec => []OriginalKept
<1>1. IInv => OriginalKept
  BY DEF IInv, Kept, Files, OriginalKept
<1> QED
  BY <1>1, Invariance, PTL

\* Once sshd_config has been taken over, sshd starts with Windows only while it is
\* hardened (Set-WfSshdConfig, Start-WfSshd).
THEOREM AutomaticTheorem == Spec => []AutomaticHardened
<1>1. IInv => AutomaticHardened
  BY DEF IInv, Kept
<1> QED
  BY <1>1, Invariance, PTL

\* The record of what was done to the PC forgets nothing, unless its writing was cut off
\* or the run has warned that it could not read it (Read-WfState, Save-WfState).
THEOREM RecordTheorem == Spec => RecordKept
<1>1. ASSUME IInv, [Next]_vars, saved \in Record, saved' \in Record, ~unread
      PROVE  ~Forgets(saved, saved')
  <2>1. CASE saved' = saved
    BY <1>1, <2>1 DEF Forgets
  <2>2. CASE saved' # saved
    <3>1. SaveState \/ Crash
      BY <1>1, <2>2
         DEF Next, RunStep, Begin, Preflight, AddFeature, RemoveOwn, CreateOwn, MakePlan,
             DisableOne, PolicyRuleLeft, FailClosed, PlanDone, Verify, SetManual,
             FirstStart, FirstStop, RemoveShell, SetAccount, InstallLayout, InstallKey,
             SetKeys, Merge, KeepOriginal, KeepPrevious, Replace, Recheck, PutBack,
             ReadEffective, MayBeUnverified, StartHardened, SetAutomatic, SetPower,
             BeginSelfTest, SelfTest, RestoreKeys, End, Throws, Reboot, Drift, Person, Idle
    <3>2. saved' = memory /\ pc = "save"
      BY <1>1, <2>2, <3>1, NoneAssumption DEF SaveState, Crash
    <3> QED
      BY <1>1, <3>2 DEF IInv, Kept, Grows
  <2> QED
    BY <2>1, <2>2
<1>2. IInv /\ [Next]_vars => [{saved, saved'} \subseteq Record /\ ~unread
                                        => ~Forgets(saved, saved')]_vars
  BY <1>1
<1> QED
  BY <1>2, Invariance, PTL DEF Spec, RecordKept
=============================================================================

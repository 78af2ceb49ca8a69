------------------------------ MODULE SetupTrip ------------------------------
(***************************************************************************)
(* The way of a kit from the Mac to the PC and of the PC's host key back:  *)
(* remote-access/mac/wf-start.sh makes a kit and prints its code, the      *)
(* person carries both on a stick, the launcher                            *)
(* remote-access/windows/Start-FrontDoorSetup.ps1 checks the code, runs    *)
(* the setup script and writes the host key beside the kit, and            *)
(* wf-finish.sh pins the key that the network offers if it is that one.    *)
(*                                                                         *)
(* Any of the scripts may stop half way and be run again; the stick may be *)
(* pulled, its files damaged or left over from an earlier trip; another    *)
(* machine may answer at the PC's address; Windows may be reinstalled,     *)
(* which gives the PC another host key.                                    *)
(*                                                                         *)
(* Kits and host keys are numbered. Kit 0 is a zip the Mac did not make,   *)
(* key 0 the key of the other machine. A code is the kit it belongs to, a  *)
(* fingerprint the key it belongs to.                                      *)
(***************************************************************************)
EXTENDS Naturals

CONSTANTS
  MaxKits,   \* bound: kits the Mac makes
  MaxKeys,   \* bound: host keys of the PC, one per installation of Windows
  Attempts,  \* how often the launcher asks for the code
  None,      \* "no such file", "no value"
  Torn,      \* a file or a line that was cut off while it was written
  Mistyped   \* a well formed fingerprint that belongs to no key

ASSUME BoundsAssumption ==
  MaxKits \in Nat /\ MaxKeys \in Nat \ {0} /\ Attempts \in Nat \ {0}

ASSUME ValuesAssumption ==
  /\ None \notin Nat /\ Torn \notin Nat /\ Mistyped \notin Nat
  /\ None # Torn /\ None # Mistyped /\ Torn # Mistyped /\ None # "PASS"

Kits == 1 .. MaxKits
Keys == 1 .. MaxKeys
OtherKey == 0

VARIABLES
  kit,       \* Mac: the number of kits made, the last in ~/Desktop/wf-frontdoor
  codes,     \* the codes the Mac has printed and the person carries
  block,     \* Mac: is there a Host block in ~/.ssh/config
  known,     \* Mac: the key pinned for the host alias in known_hosts
  at,        \* the machine the stick is plugged into
  zip,       \* stick: wf-frontdoor-kit.zip
  keyFile,   \* stick: pc-host-key.pub
  lpc,       \* launcher: where it stands
  bytes,     \* launcher: $zipBytes
  tries,     \* launcher: codes typed
  unpacked,  \* launcher: the kit in its staging folder
  exit,      \* launcher: $setupExit
  code,      \* launcher: what the last run returned
  pcKey,     \* PC: its host key
  installed, \* PC: the kit whose setup it runs, None unless it works
  shown,     \* the keys whose fingerprint the PC has shown the person
  passed,    \* history: the keys the PC had when a setup exited 0
  fpc,       \* wf-finish.sh: where it stands
  expected,  \* wf-finish.sh: the fingerprint, None when compared by eye
  replace,   \* wf-finish.sh: was --replace given
  result     \* wf-finish.sh: what the last run ended with

mac      == <<kit, codes, block, known>>
stick    == <<at, zip, keyFile>>
launcher == <<lpc, bytes, tries, unpacked, exit, code>>
pc       == <<pcKey, installed, shown, passed>>
finish   == <<fpc, expected, replace, result>>
vars     == <<mac, stick, launcher, pc, finish>>

Init ==
  /\ kit = 0 /\ codes = {} /\ block = FALSE /\ known = None
  /\ at = "mac" /\ zip = None /\ keyFile = None
  /\ lpc = "off" /\ bytes = None /\ tries = 0 /\ unpacked = None
  /\ exit = None /\ code = None
  /\ pcKey = 1 /\ installed = None /\ shown = {} /\ passed = {}
  /\ fpc = "off" /\ expected = None /\ replace = FALSE /\ result = None

-----------------------------------------------------------------------------
(* wf-start.sh, with wf-mac-setup.sh and wf-make-kit.sh.                   *)

\* The key and the Host block; a run may stop after it.
MacSetup ==
  /\ block' = TRUE
  /\ UNCHANGED <<kit, codes, known, stick, launcher, pc, finish>>

\* The stale host key goes from the folder the kit is made in, then the zip is
\* replaced; the code is printed last, and not by a run that stops before.
MakeKit ==
  /\ block /\ kit < MaxKits
  /\ kit' = kit + 1
  /\ codes' \in {codes, codes \cup {kit'}}
  /\ \/ UNCHANGED stick
     \/ at = "mac" /\ zip' = kit' /\ keyFile' = None /\ UNCHANGED at
  /\ UNCHANGED <<block, known, launcher, pc, finish>>

\* A run that stops between the two leaves a folder without zip and host key.
MakeKitFails ==
  /\ block /\ at = "mac" /\ zip' \in {zip, None} /\ keyFile' = None
  /\ UNCHANGED <<mac, at, launcher, pc, finish>>

\* The person copies the folder to the stick, over the one that is there or
\* in its place.
CopyToStick ==
  /\ at = "mac" /\ kit > 0
  /\ zip' = kit /\ keyFile' \in {keyFile, None}
  /\ UNCHANGED <<mac, at, launcher, pc, finish>>

-----------------------------------------------------------------------------
(* Start-FrontDoorSetup.ps1.                                               *)

\* A run ends; its staging folder is removed.
Return(c) ==
  /\ lpc' = "off" /\ code' = c
  /\ bytes' = None /\ tries' = 0 /\ unpacked' = None /\ exit' = None

\* The kit is on a removable drive, and nowhere else.
OnStick == at = "pc" /\ zip # None

\* The elevated copy reads the zip: once.
DoubleClick ==
  /\ lpc = "off" /\ OnStick
  /\ bytes' = zip /\ lpc' = "code" /\ code' = None
  /\ UNCHANGED <<mac, stick, tries, unpacked, exit, pc, finish>>

\* The code typed is that of the bytes read, whatever is on the stick by now.
CodeMatches(typed) == typed = bytes

\* A code typed from the Mac's screen, an earlier one, or a wrong one.
TypeCode ==
  /\ lpc = "code"
  /\ \E typed \in codes \cup {None} :
       \/ /\ CodeMatches(typed)
          /\ lpc' = "unpack" /\ tries' = 0
          /\ UNCHANGED <<bytes, unpacked, exit, code>>
       \/ /\ ~CodeMatches(typed) /\ tries + 1 < Attempts
          /\ tries' = tries + 1
          /\ UNCHANGED <<lpc, bytes, unpacked, exit, code>>
       \/ ~CodeMatches(typed) /\ tries + 1 = Attempts /\ Return(1)
  /\ UNCHANGED <<mac, stick, pc, finish>>

\* Mutant of Unpack: unpacks the zip on the stick.
UnpackFromStick ==
  /\ lpc = "unpack" /\ at = "pc" /\ zip \in Kits
  /\ unpacked' = zip /\ lpc' = "setup"
  /\ UNCHANGED <<mac, stick, bytes, tries, exit, code, pc, finish>>

\* A private staging folder, the verified bytes, and what they unpack to.
Unpack ==
  /\ lpc = "unpack"
  /\ unpacked' = bytes /\ lpc' = "setup"
  /\ UNCHANGED <<mac, stick, bytes, tries, exit, code, pc, finish>>

\* No staging folder can be made, the kit cannot be
\* unpacked, its parameters or the network are not as they should be.
StopBefore ==
  /\ lpc \in {"unpack", "setup"} /\ Return(1)
  /\ UNCHANGED <<mac, stick, pc, finish>>

\* Any run of the setup script but a PASS may leave the PC without a working
\* setup, with the one it had, or with the new one.
MayInstall == installed' \in {None, installed, unpacked}

\* The setup script: 0 is PASS, 1 FAIL, 2 INCOMPLETE; 3 stands for any other
\* exit code, None for one that could not be read. S12 shows the host key.
RunSetup ==
  /\ lpc = "setup"
  /\ exit' \in {0, 1, 2, 3, None}
  /\ IF exit' = 0
       THEN /\ installed' = unpacked
            /\ shown' = shown \cup {pcKey} /\ passed' = passed \cup {pcKey}
       ELSE /\ MayInstall
            /\ shown' \in {shown, shown \cup {pcKey}} /\ UNCHANGED passed
  /\ lpc' = "hostkey"
  /\ UNCHANGED <<mac, stick, bytes, tries, unpacked, code, pcKey, finish>>

\* The launcher's exit code.
Code == IF exit = None THEN 2 ELSE IF exit \in {0, 1, 2} THEN exit ELSE 1

\* Mutant of WriteHostKey: writes the file whatever the result.
WriteHostKeyAlways ==
  /\ lpc = "hostkey" /\ Return(Code)
  /\ IF at = "pc" THEN keyFile' \in {keyFile, pcKey, Torn}
                  ELSE UNCHANGED keyFile
  /\ UNCHANGED <<mac, at, zip, pc, finish>>

\* After a PASS the host key goes beside the kit, if the stick is there.
WriteHostKey ==
  /\ lpc = "hostkey" /\ Return(Code)
  /\ IF Code = 0 /\ exit = 0 /\ at = "pc"
       THEN keyFile' \in {keyFile, pcKey, Torn}
       ELSE UNCHANGED keyFile
  /\ UNCHANGED <<mac, at, zip, pc, finish>>

\* The window is closed, perhaps while the setup script runs in it.
CloseWindow ==
  /\ lpc # "off" /\ Return(None)
  /\ IF lpc = "setup" THEN MayInstall ELSE UNCHANGED installed
  /\ UNCHANGED <<mac, stick, pcKey, shown, passed, finish>>

LauncherStep ==
  \/ DoubleClick \/ TypeCode \/ Unpack \/ StopBefore \/ RunSetup
  \/ WriteHostKey \/ CloseWindow

-----------------------------------------------------------------------------
(* wf-finish.sh, with wf-pin-host-key.sh and wf-acceptance.sh.             *)

Ends(r) == fpc' = "off" /\ result' = r /\ expected' = None /\ replace' = FALSE

Expects(e) ==
  /\ fpc' = "pin" /\ expected' = e /\ replace' \in BOOLEAN /\ result' = None

\* Places where a pc-host-key.pub may be found, and what it may hold there.
Disks == {"stick", "elsewhere"}
Found(disk) ==
  IF disk = "stick" THEN (IF at = "mac" THEN {keyFile} ELSE {None})
                    ELSE {OtherKey, None}

\* Only a removable disk is trusted.
Trusted(disk) == disk = "stick"

\* --fingerprint, typed from the PC's screen or its report.
FinishTyped ==
  /\ fpc = "off"
  /\ \E line \in shown \cup {Mistyped} : Expects(line)
  /\ UNCHANGED <<mac, stick, launcher, pc>>

\* --kit, or the one file that is found under /Volumes.
FinishFromFile ==
  /\ fpc = "off"
  /\ \E disk \in Disks : \E key \in Found(disk) :
       IF key = None \/ ~Trusted(disk) THEN Ends("INCOMPLETE")
       ELSE IF key = Torn THEN Ends("FAIL")
       ELSE Expects(key)
  /\ UNCHANGED <<mac, stick, launcher, pc>>

\* A line that is no fingerprint, a file that is no host key, more than one file.
FinishRefuses ==
  /\ fpc = "off" /\ Ends("FAIL")
  /\ UNCHANGED <<mac, stick, launcher, pc>>

\* --by-eye, for when there is no file.
FinishByEye ==
  /\ fpc = "off" /\ \A disk \in Disks : None \in Found(disk)
  /\ Expects(None)
  /\ UNCHANGED <<mac, stick, launcher, pc>>

\* What answers at the PC's address when it is asked: the PC, or another machine
\* after addresses were handed out anew, or nothing.
Machines == {"pc", "other"}
Offered(machine) == IF machine = "pc" THEN pcKey ELSE OtherKey

\* The key offered is the one expected; by eye, one on the PC's screen.
Matches(key) == IF expected = None THEN key \in shown ELSE key = expected

\* Mutant of MayPin: overwrites what is pinned.
MayPinAlways == known # OtherKey

\* A key that is pinned already is only replaced when the person says so.
MayPin == known = None \/ replace

PinHostKey ==
  /\ fpc = "pin" /\ block
  /\ \E key \in {Offered(m) : m \in Machines} :
       /\ Matches(key) /\ (known = key \/ MayPin)
       /\ known' = key
  /\ fpc' = "accept" /\ expected' = None /\ replace' = FALSE
  /\ UNCHANGED <<kit, codes, block, result, stick, launcher, pc>>

\* No answer, no Host block, a fingerprint that differs, another key pinned.
PinRefuses ==
  /\ fpc = "pin"
  /\ \/ Ends("INCOMPLETE") /\ block
     \/ /\ Ends("FAIL")
        /\ \/ ~block
           \/ \E key \in {Offered(m) : m \in Machines} :
                ~Matches(key) \/ ~(known = key \/ MayPin)
  /\ UNCHANGED <<mac, stick, launcher, pc>>

\* known_hosts is written in place; a run that is cut off leaves part of it.
PinCutOff ==
  /\ fpc = "pin" /\ block /\ MayPin
  /\ \E key \in {Offered(m) : m \in Machines} : Matches(key) /\ known # key
  /\ known' \in {None, Torn} /\ Ends(None)
  /\ UNCHANGED <<kit, codes, block, stick, launcher, pc>>

\* ssh, with strict host key checking, reaches a PC that is set up.
Reaches(machine) ==
  known = Offered(machine) /\ machine = "pc" /\ installed # None

\* Mutant of Accept: takes checks that did not finish for checks that passed.
AcceptUnfinished ==
  /\ fpc = "accept"
  /\ \/ Ends("PASS") \/ Ends("FAIL")
  /\ UNCHANGED <<mac, stick, launcher, pc>>

\* The acceptance checks, some of which may fail for other reasons.
Accept ==
  /\ fpc = "accept"
  /\ \/ Ends("PASS") /\ \E m \in Machines : Reaches(m)
     \/ Ends("FAIL")
     \/ Ends("INCOMPLETE")
  /\ UNCHANGED <<mac, stick, launcher, pc>>

FinishStep ==
  \/ FinishTyped \/ FinishFromFile \/ FinishRefuses \/ FinishByEye
  \/ PinHostKey \/ PinRefuses \/ PinCutOff \/ Accept

-----------------------------------------------------------------------------
(* The rest of the world.                                                  *)

Carry ==
  /\ at' \in {"mac", "pc"} \ {at}
  /\ UNCHANGED <<mac, zip, keyFile, launcher, pc, finish>>

\* The zip on the stick is damaged, incomplete or lost.
Damage ==
  /\ zip # None /\ zip' \in {0, None}
  /\ UNCHANGED <<mac, at, keyFile, launcher, pc, finish>>

\* Windows is reinstalled.
Reinstall ==
  /\ lpc = "off" /\ pcKey < MaxKeys
  /\ pcKey' = pcKey + 1 /\ installed' = None
  /\ UNCHANGED <<mac, stick, launcher, shown, passed, finish>>

Next ==
  \/ MacSetup \/ MakeKit \/ MakeKitFails \/ CopyToStick \/ LauncherStep \/ FinishStep
  \/ Carry \/ Damage \/ Reinstall

Spec == Init /\ [][Next]_vars

-----------------------------------------------------------------------------
(* Properties.                                                             *)

TypeOK ==
  /\ kit \in 0 .. MaxKits /\ codes \subseteq Kits /\ block \in BOOLEAN
  /\ known \in Keys \cup {OtherKey, None, Torn}
  /\ at \in {"mac", "pc"} /\ zip \in Kits \cup {0, None}
  /\ keyFile \in Keys \cup {None, Torn}
  /\ lpc \in {"off", "code", "unpack", "setup", "hostkey"}
  /\ bytes \in Kits \cup {0, None} /\ tries \in 0 .. Attempts - 1
  /\ unpacked \in Kits \cup {None}
  /\ exit \in {0, 1, 2, 3, None} /\ code \in {0, 1, 2, None}
  /\ pcKey \in Keys /\ installed \in Kits \cup {None}
  /\ shown \subseteq Keys /\ passed \subseteq Keys
  /\ fpc \in {"off", "pin", "accept"}
  /\ expected \in Keys \cup {OtherKey, None, Mistyped} /\ replace \in BOOLEAN
  /\ result \in {"PASS", "FAIL", "INCOMPLETE", None}

\* What the setup script was run from is a kit the Mac made and whose code the
\* person carried over, whatever became of the stick after the zip was read
\* ("a zip changed on the stick while the code is being typed is never the one
\* that runs", Start-FrontDoorSetup.ps1:286).
RunsVerified == installed \in codes \cup {None}

\* The key file the Mac will trust is only ever the host key of a PC whose setup
\* had ended with PASS, also when it is left over from another trip.
HandedAfterPass == keyFile \in passed \cup {None, Torn}

\* Whatever answers at the PC's address, and wherever a key file lies, only a
\* host key of the PC is ever pinned.
PinnedIsPCs == known \in (1 .. pcKey) \cup {None, Torn}

\* A pin is set to the key the PC has now, never to an earlier one out of an old
\* file, and what is pinned gives way only to --replace.
PinCurrent ==
  [][known' \in Nat /\ known' # known =>
       known' = pcKey /\ (known = None \/ replace)]_vars

\* A launcher that ends with DONE: RESULT: PASS has set up the PC with the kit
\* whose code was typed; a lost exit code is no pass.
DoneIsInstalled ==
  [][code' = 0 /\ code # 0 => installed = bytes /\ installed \in codes]_vars

\* RESULT: PASS of wf-finish.sh means a PC that is set up with a kit of this Mac
\* and pinned with its present key.
PassIsUsable ==
  [][result' = "PASS" /\ result # "PASS" =>
       known = pcKey /\ installed \in codes]_vars

\* DONE at the PC and PASS at the Mac are both true when they are said
\* (Start-FrontDoorSetup.ps1, wf-finish.sh).
ResultsAreTrue == DoneIsInstalled /\ PassIsUsable
=============================================================================

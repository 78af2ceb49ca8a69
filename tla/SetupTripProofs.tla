--------------------------- MODULE SetupTripProofs ---------------------------
(***************************************************************************)
(* Theorems about SetupTrip, for any numbers of kits, host keys and typed  *)
(* codes. Inv says what the launcher has verified at each of its places    *)
(* and where the keys that wf-finish.sh compares come from; everything     *)
(* else follows from it and from one step.                                 *)
(***************************************************************************)
EXTENDS SetupTrip, TLAPS

\* The keys the PC has had so far; the person has seen, and a setup has handed
\* over, no others.
PCKeys == 1 .. pcKey

Sources ==
  /\ shown \subseteq PCKeys /\ passed \subseteq PCKeys
  /\ keyFile \in passed \cup {None, Torn}
  /\ expected \in PCKeys \cup {None, Mistyped}

\* The launcher asks for the code of a zip it holds, and from the comparison on
\* holds a kit whose code was typed; once it has unpacked it, that kit; after a
\* PASS, the PC runs it.
Verified ==
  /\ lpc = "code" => bytes # None
  /\ lpc \in {"unpack", "setup", "hostkey"} => bytes \in codes
  /\ lpc \in {"setup", "hostkey"} => unpacked = bytes
  /\ lpc = "hostkey" /\ exit = 0 => installed = bytes /\ pcKey \in passed

Inv == TypeOK /\ Sources /\ Verified /\ RunsVerified /\ PinnedIsPCs

-----------------------------------------------------------------------------

LEMMA Values ==
  /\ MaxKits \in Nat /\ MaxKeys \in Nat /\ MaxKeys > 0
  /\ Attempts \in Nat /\ Attempts > 0
  /\ None \notin Nat /\ Torn \notin Nat /\ Mistyped \notin Nat
  /\ None # Torn /\ None # Mistyped /\ Torn # Mistyped
  /\ None # "PASS"
BY BoundsAssumption, ValuesAssumption

\* What a comparison lets through is the key the PC has now.
LEMMA MatchIsPCs ==
  ASSUME TypeOK, Sources, NEW m \in Machines, Matches(Offered(m))
  PROVE  m = "pc" /\ Offered(m) = pcKey
<1>1. Offered(m) # OtherKey
  <2>1. OtherKey \notin PCKeys \cup {None, Mistyped}
    BY Values DEF OtherKey, PCKeys, TypeOK, Keys
  <2>2. CASE expected = None
    BY <2>1, <2>2 DEF Matches, Sources
  <2>3. CASE expected # None
    BY <2>1, <2>3 DEF Matches, Sources
  <2> QED
    BY <2>2, <2>3
<1> QED
  BY <1>1 DEF Offered

LEMMA InitInv ==
  ASSUME Init
  PROVE  Inv
<1> USE Values
<1>1. TypeOK
  <2>1. kit \in 0 .. MaxKits /\ tries \in 0 .. Attempts - 1 /\ pcKey \in Keys
    BY DEF Init, Keys
  <2>2. /\ codes \subseteq Kits /\ shown \subseteq Keys /\ passed \subseteq Keys
        /\ block \in BOOLEAN /\ replace \in BOOLEAN
    BY Zenon DEF Init
  <2> QED
    BY <2>1, <2>2, Zenon DEF Init, TypeOK
<1>2. Sources /\ Verified
  BY DEF Init, Sources, Verified, PCKeys
<1>3. RunsVerified /\ PinnedIsPCs
  BY DEF Init, RunsVerified, PinnedIsPCs
<1> QED
  BY <1>1, <1>2, <1>3 DEF Inv

\* Every step keeps the types; the launcher's from what it has verified.
LEMMA TypeStep ==
  ASSUME Inv, [Next]_vars
  PROVE  TypeOK'
<1> USE Values, Inv
<1> USE DEF Inv, TypeOK
<1>1. CASE MacSetup
  BY <1>1 DEF MacSetup, stick, launcher, pc, finish
<1>2. CASE MakeKit
  <2>1. kit' \in 0 .. MaxKits /\ kit' \in Kits /\ codes' \subseteq Kits
    BY <1>2 DEF MakeKit, Kits
  <2> QED
    BY <1>2, <2>1 DEF MakeKit, stick, launcher, pc, finish
<1>3. CASE MakeKitFails
  BY <1>3 DEF MakeKitFails, mac, launcher, pc, finish
<1>4. CASE CopyToStick
  <2>1. kit \in Kits
    BY <1>4 DEF CopyToStick, Kits
  <2> QED
    BY <1>4, <2>1 DEF CopyToStick, mac, launcher, pc, finish
<1>5. CASE DoubleClick
  BY <1>5 DEF DoubleClick, OnStick, mac, stick, pc, finish
<1>6. CASE TypeCode
  <2>1. /\ tries' \in 0 .. Attempts - 1
        /\ lpc' \in {"off", "code", "unpack"}
        /\ bytes' \in {bytes, None} /\ unpacked' \in {unpacked, None}
        /\ exit' \in {exit, None} /\ code' \in {code, 1}
    BY <1>6 DEF TypeCode, CodeMatches, Return
  <2> QED
    BY <1>6, <2>1 DEF TypeCode, mac, stick, pc, finish
<1>7. CASE Unpack
  BY <1>7 DEF Unpack, Verified, mac, stick, pc, finish
<1>8. CASE StopBefore
  BY <1>8 DEF StopBefore, Return, mac, stick, pc, finish
<1>9. CASE RunSetup
  <2>1. installed' \in Kits \cup {None}
    BY <1>9 DEF RunSetup, MayInstall
  <2>2. shown' \subseteq Keys /\ passed' \subseteq Keys
    BY <1>9 DEF RunSetup
  <2> QED
    BY <1>9, <2>1, <2>2 DEF RunSetup, mac, stick, finish
<1>10. CASE WriteHostKey
  <2>1. Code \in {0, 1, 2}
    BY DEF Code
  <2>2. keyFile' \in Keys \cup {None, Torn}
    BY <1>10 DEF WriteHostKey
  <2> QED
    BY <1>10, <2>1, <2>2 DEF WriteHostKey, Return, mac, pc, finish
<1>11. CASE CloseWindow
  <2>1. installed' \in Kits \cup {None}
    BY <1>11 DEF CloseWindow, MayInstall
  <2> QED
    BY <1>11, <2>1 DEF CloseWindow, Return, mac, stick, finish
<1>12. CASE FinishTyped
  BY <1>12 DEF FinishTyped, Expects, mac, stick, launcher, pc
<1>13. CASE FinishFromFile
  <2>1. expected' \in Keys \cup {OtherKey, None, Mistyped}
    BY <1>13 DEF FinishFromFile, Found, Ends, Expects
  <2>2. replace' \in BOOLEAN
    BY <1>13, Zenon DEF FinishFromFile, Ends, Expects
  <2>3. /\ fpc' \in {"off", "pin"}
        /\ result' \in {"FAIL", "INCOMPLETE", None}
    BY <1>13 DEF FinishFromFile, Ends, Expects
  <2> QED
    BY <1>13, <2>1, <2>2, <2>3
       DEF FinishFromFile, mac, stick, launcher, pc
<1>14. CASE FinishRefuses
  <2>1. replace' \in BOOLEAN
    BY <1>14, Zenon DEF FinishRefuses, Ends
  <2>2. fpc' = "off" /\ expected' = None
        /\ result' \in {"FAIL"}
    BY <1>14 DEF FinishRefuses, Ends
  <2> QED
    BY <1>14, <2>1, <2>2 DEF FinishRefuses, mac, stick, launcher, pc
<1>15. CASE FinishByEye
  BY <1>15 DEF FinishByEye, Expects, mac, stick, launcher, pc
<1>16. CASE PinHostKey
  <2>1. known' \in Keys \cup {OtherKey, None, Torn}
    BY <1>16 DEF PinHostKey, Offered
  <2>2. replace' \in BOOLEAN
    BY <1>16, Zenon DEF PinHostKey
  <2> QED
    BY <1>16, <2>1, <2>2 DEF PinHostKey, stick, launcher, pc
<1>17. CASE PinRefuses
  <2>1. replace' \in BOOLEAN
    BY <1>17, Zenon DEF PinRefuses, Ends
  <2>2. fpc' = "off" /\ expected' = None
        /\ result' \in {"FAIL", "INCOMPLETE"}
    BY <1>17 DEF PinRefuses, Ends
  <2> QED
    BY <1>17, <2>1, <2>2 DEF PinRefuses, mac, stick, launcher, pc
<1>18. CASE PinCutOff
  <2>1. replace' \in BOOLEAN
    BY <1>18, Zenon DEF PinCutOff, Ends
  <2>2. fpc' = "off" /\ expected' = None
        /\ result' \in {None}
    BY <1>18 DEF PinCutOff, Ends
  <2> QED
    BY <1>18, <2>1, <2>2 DEF PinCutOff, stick, launcher, pc
<1>19. CASE Accept
  <2>1. replace' \in BOOLEAN
    BY <1>19, Zenon DEF Accept, Ends
  <2>2. fpc' = "off" /\ expected' = None
        /\ result' \in {"PASS", "FAIL", "INCOMPLETE"}
    BY <1>19 DEF Accept, Ends
  <2> QED
    BY <1>19, <2>1, <2>2 DEF Accept, mac, stick, launcher, pc
<1>20. CASE Carry
  BY <1>20 DEF Carry, mac, launcher, pc, finish
<1>21. CASE Damage
  BY <1>21 DEF Damage, mac, launcher, pc, finish
<1>22. CASE Reinstall
  <2>1. pcKey' \in Keys
    BY <1>22 DEF Reinstall, Keys
  <2> QED
    BY <1>22, <2>1 DEF Reinstall, mac, stick, launcher, finish
<1>23. CASE UNCHANGED vars
  BY <1>23 DEF vars, mac, stick, launcher, pc, finish
<1> QED
  BY <1>1, <1>2, <1>3, <1>4, <1>5, <1>6, <1>7, <1>8, <1>9, <1>10, <1>11,
     <1>12, <1>13, <1>14, <1>15, <1>16, <1>17, <1>18, <1>19, <1>20, <1>21,
     <1>22, <1>23 DEF Next, LauncherStep, FinishStep

\* The PC's host keys are never fewer than before, and the Mac forgets no code.
LEMMA Growth ==
  ASSUME Inv, [Next]_vars
  PROVE  PCKeys \subseteq PCKeys' /\ codes \subseteq codes'
<1> USE Values DEF Inv, TypeOK
<1>1. pcKey' = pcKey \/ pcKey' = pcKey + 1
  BY DEF Next, LauncherStep, FinishStep, MacSetup, MakeKit, MakeKitFails,
         CopyToStick, DoubleClick, TypeCode, Unpack, StopBefore, RunSetup,
         WriteHostKey, CloseWindow, FinishTyped, FinishFromFile,
         FinishRefuses, FinishByEye, PinHostKey, PinRefuses, PinCutOff,
         Accept, Carry, Damage, Reinstall, vars, pc
<1>2. codes \subseteq codes'
  BY DEF Next, LauncherStep, FinishStep, MacSetup, MakeKit, MakeKitFails,
         CopyToStick, DoubleClick, TypeCode, Unpack, StopBefore, RunSetup,
         WriteHostKey, CloseWindow, FinishTyped, FinishFromFile,
         FinishRefuses, FinishByEye, PinHostKey, PinRefuses, PinCutOff,
         Accept, Carry, Damage, Reinstall, vars, mac
<1> QED
  BY <1>1, <1>2 DEF PCKeys, Keys

\* What the launcher has verified stays verified, and the PC runs nothing else.
LEMMA VerifiedStep ==
  ASSUME Inv, [Next]_vars
  PROVE  Verified' /\ RunsVerified'
<1> USE Values, Growth
<1> USE DEF Inv, Verified, RunsVerified
<1>1. CASE \/ MacSetup \/ MakeKit \/ MakeKitFails \/ CopyToStick
           \/ Carry \/ Damage \/ UNCHANGED vars
  BY <1>1 DEF MacSetup, MakeKit, MakeKitFails, CopyToStick, Carry, Damage,
              vars, launcher, pc
<1>2. CASE FinishStep
  BY <1>2 DEF FinishStep, FinishTyped, FinishFromFile, FinishRefuses,
              FinishByEye, PinHostKey, PinRefuses, PinCutOff, Accept, launcher,
              pc, mac
<1>3. CASE DoubleClick
  BY <1>3 DEF DoubleClick, OnStick, mac, pc
<1>4. CASE TypeCode
  <2>1. ASSUME lpc' = "unpack"  PROVE  bytes' = bytes /\ bytes \in codes
    <3>1. bytes' = bytes /\ bytes \in codes \cup {None}
      BY <1>4, <2>1 DEF TypeCode, CodeMatches, Return
    <3>2. bytes # None
      BY <1>4 DEF TypeCode, Verified
    <3> QED
      BY <3>1, <3>2
  <2>2. /\ lpc' \in {"off", "code", "unpack"}
        /\ lpc' = "code" => bytes' = bytes /\ bytes # None
    BY <1>4 DEF TypeCode, CodeMatches, Return
  <2>3. UNCHANGED <<codes, installed>>
    BY <1>4 DEF TypeCode, mac, pc
  <2> QED
    BY <2>1, <2>2, <2>3
<1>5. CASE Unpack
  BY <1>5 DEF Unpack, mac, pc
<1>6. CASE StopBefore
  BY <1>6 DEF StopBefore, Return, mac, pc
<1>7. CASE RunSetup
  <2>1. exit' = 0 => installed' = unpacked /\ pcKey \in passed'
    BY <1>7 DEF RunSetup
  <2>2. installed' \in {None, installed, unpacked}
    BY <1>7 DEF RunSetup, MayInstall
  <2>3. lpc = "setup" /\ lpc' = "hostkey"
        /\ UNCHANGED <<codes, bytes, unpacked, pcKey>>
    BY <1>7 DEF RunSetup, mac
  <2> QED
    BY <2>1, <2>2, <2>3
<1>8. CASE WriteHostKey
  BY <1>8 DEF WriteHostKey, Return, mac, pc
<1>9. CASE CloseWindow
  BY <1>9 DEF CloseWindow, MayInstall, Return, mac
<1>10. CASE Reinstall
  BY <1>10 DEF Reinstall, mac, launcher
<1> QED
  BY <1>1, <1>2, <1>3, <1>4, <1>5, <1>6, <1>7, <1>8, <1>9, <1>10
     DEF Next, LauncherStep

\* Only keys of the PC come to be shown, handed over, expected and pinned.
LEMMA SourcesStep ==
  ASSUME Inv, [Next]_vars
  PROVE  Sources' /\ PinnedIsPCs'
<1> USE Values, Growth
<1>0. pcKey \in PCKeys /\ PCKeys = 1 .. pcKey
  BY DEF Inv, TypeOK, Keys, PCKeys
<1> USE DEF Inv, Sources
<1>1. CASE \/ MacSetup \/ MakeKit \/ MakeKitFails \/ CopyToStick
           \/ Carry \/ Damage \/ UNCHANGED vars
  <2>1. keyFile' \in {keyFile, None}
        /\ UNCHANGED <<known, shown, passed, expected, pcKey>>
    BY <1>1 DEF MacSetup, MakeKit, MakeKitFails, CopyToStick, Carry, Damage,
                vars, stick, finish, mac, pc
  <2> QED
    BY <2>1 DEF PinnedIsPCs
<1>2. CASE DoubleClick \/ TypeCode \/ Unpack \/ StopBefore
  <2>1. UNCHANGED <<keyFile, known, shown, passed, expected, pcKey>>
    BY <1>2 DEF DoubleClick, TypeCode, Unpack, StopBefore, stick, finish, mac,
                pc
  <2> QED
    BY <2>1 DEF PinnedIsPCs
<1>3. CASE RunSetup
  <2>1. /\ shown' \subseteq shown \cup {pcKey}
        /\ passed' \in {passed, passed \cup {pcKey}}
        /\ UNCHANGED <<keyFile, known, expected, pcKey>>
    BY <1>3 DEF RunSetup, stick, mac, finish
  <2> QED
    BY <1>0, <2>1 DEF PinnedIsPCs
<1>4. CASE WriteHostKey
  <2>1. keyFile' \in {keyFile, Torn} \cup passed
    BY <1>4, exit = 0 => pcKey \in passed DEF WriteHostKey, Verified
  <2>2. UNCHANGED <<known, shown, passed, expected, pcKey>>
    BY <1>4 DEF WriteHostKey, mac, pc, finish
  <2> QED
    BY <2>1, <2>2 DEF PinnedIsPCs
<1>5. CASE CloseWindow
  BY <1>5 DEF CloseWindow, mac, stick, finish, PinnedIsPCs
<1>6. CASE Reinstall
  <2>1. PCKeys' = 1 .. pcKey' /\ UNCHANGED <<keyFile, known, shown, passed, expected>>
    BY <1>6 DEF Reinstall, PCKeys, mac, stick, finish
  <2> QED
    BY <1>0, <2>1 DEF PinnedIsPCs
<1>7. CASE FinishTyped
  <2>1. expected' \in shown \cup {Mistyped}
        /\ UNCHANGED <<keyFile, known, shown, passed, pcKey>>
    BY <1>7 DEF FinishTyped, Expects, mac, stick, pc
  <2> QED
    BY <2>1 DEF PinnedIsPCs
<1>8. CASE FinishFromFile
  <2>1. expected' \in passed \cup {None}
    BY <1>8 DEF FinishFromFile, Found, Trusted, Disks, Ends, Expects
  <2>2. UNCHANGED <<keyFile, known, shown, passed, pcKey>>
    BY <1>8 DEF FinishFromFile, mac, stick, pc
  <2> QED
    BY <2>1, <2>2 DEF PinnedIsPCs
<1>9. CASE FinishRefuses \/ FinishByEye \/ PinRefuses \/ Accept
  <2>1. expected' = None /\ UNCHANGED <<keyFile, known, shown, passed, pcKey>>
    BY <1>9 DEF FinishRefuses, FinishByEye, PinRefuses, Accept, Ends, Expects,
                mac, stick, pc
  <2> QED
    BY <2>1 DEF PinnedIsPCs
<1>10. CASE PinHostKey
  <2>1. PICK m \in Machines : Matches(Offered(m)) /\ known' = Offered(m)
    BY <1>10 DEF PinHostKey
  <2>2. known' = pcKey
    BY <2>1, MatchIsPCs
  <2>3. expected' = None /\ UNCHANGED <<keyFile, shown, passed, pcKey>>
    BY <1>10 DEF PinHostKey, stick, pc
  <2> QED
    BY <1>0, <2>2, <2>3 DEF PinnedIsPCs
<1>11. CASE PinCutOff
  BY <1>11 DEF PinCutOff, Ends, PinnedIsPCs, stick, pc
<1> QED
  BY <1>1, <1>2, <1>3, <1>4, <1>5, <1>6, <1>7, <1>8, <1>9, <1>10, <1>11
     DEF Next, LauncherStep, FinishStep

LEMMA Invariant == Spec => []Inv
<1>1. Init => Inv
  BY InitInv
<1>2. Inv /\ [Next]_vars => Inv'
  BY TypeStep, VerifiedStep, SourcesStep DEF Inv
<1> QED
  BY <1>1, <1>2, PTL DEF Spec

-----------------------------------------------------------------------------

\* The variables of the Mac, the stick, the launcher, the PC and wf-finish.sh
\* stay in their types: no more codes are asked for than Attempts, and no step
\* of the launcher handles a zip that is not there.
THEOREM TypeCorrect == Spec => []TypeOK
<1>1. Inv => TypeOK
  BY DEF Inv
<1> QED
  BY <1>1, Invariant, PTL

\* Whatever becomes of the stick while the code is typed, the PC runs only kits
\* whose code the Mac printed and the person carried over.
THEOREM VerifiedTheorem == Spec => []RunsVerified
<1>1. Inv => RunsVerified
  BY DEF Inv
<1> QED
  BY <1>1, Invariant, PTL

\* A key file on the stick holds the host key of a PC whose setup passed, or was
\* cut off; also one that is left over from an earlier trip.
THEOREM HandedTheorem == Spec => []HandedAfterPass
<1>1. Inv => HandedAfterPass
  BY DEF Inv, Sources, HandedAfterPass
<1> QED
  BY <1>1, Invariant, PTL

\* Whichever machine answers and wherever a key file lies, known_hosts holds
\* only host keys of the PC for the alias.
THEOREM PinnedTheorem == Spec => []PinnedIsPCs
<1>1. Inv => PinnedIsPCs
  BY DEF Inv
<1> QED
  BY <1>1, Invariant, PTL

\* wf-pin-host-key.sh pins the key the PC has at that moment, and replaces one
\* that is pinned only under --replace.
THEOREM PinTheorem == Spec => PinCurrent
<1>1. ASSUME Inv, [Next]_vars, known' \in Nat, known' # known
      PROVE  known' = pcKey /\ (known = None \/ replace)
  <2>1. PinHostKey
    <3>1. PinHostKey \/ PinCutOff
      BY <1>1 DEF Next, LauncherStep, FinishStep, MacSetup, MakeKit,
         MakeKitFails, CopyToStick, DoubleClick, TypeCode, Unpack, StopBefore,
         RunSetup, WriteHostKey, CloseWindow, FinishTyped, FinishFromFile,
         FinishRefuses, FinishByEye, PinRefuses, Accept, Carry, Damage,
         Reinstall, vars, mac
    <3>2. ~PinCutOff
      BY <1>1, Values DEF PinCutOff
    <3> QED
      BY <3>1, <3>2
  <2>2. PICK m \in Machines : /\ Matches(Offered(m)) /\ known' = Offered(m)
                              /\ known = Offered(m) \/ MayPin
    BY <2>1 DEF PinHostKey
  <2>3. known' = pcKey
    BY <1>1, <2>2, MatchIsPCs DEF Inv
  <2> QED
    BY <1>1, <2>2, <2>3 DEF MayPin
<1>2. Inv /\ [Next]_vars =>
        [known' \in Nat /\ known' # known =>
           known' = pcKey /\ (known = None \/ replace)]_vars
  BY <1>1
<1> QED
  BY <1>2, Invariant, PTL DEF Spec, PinCurrent

\* A launcher that returns 0 has set up the PC with the kit it verified: an exit
\* code that was lost, or that no case of the launcher names, is no PASS.
THEOREM DoneTheorem == Spec => DoneIsInstalled
<1>1. ASSUME Inv, [Next]_vars, code' = 0, code # 0
      PROVE  installed = bytes /\ installed \in codes
  <2>1. WriteHostKey
    BY <1>1, Values DEF Next, LauncherStep, FinishStep, MacSetup, MakeKit,
       MakeKitFails, CopyToStick, DoubleClick, TypeCode, Unpack, StopBefore,
       RunSetup, CloseWindow, FinishTyped, FinishFromFile, FinishRefuses,
       FinishByEye, PinHostKey, PinRefuses, PinCutOff, Accept, Carry, Damage,
       Reinstall, Return, vars, launcher
  <2>2. lpc = "hostkey" /\ Code = 0
    BY <1>1, <2>1 DEF WriteHostKey, Return
  <2>3. exit = 0
    BY <2>2 DEF Code
  <2> QED
    BY <1>1, <2>2, <2>3 DEF Inv, Verified
<1>2. Inv /\ [Next]_vars =>
        [code' = 0 /\ code # 0 => installed = bytes /\ installed \in codes]_vars
  BY <1>1
<1> QED
  BY <1>2, Invariant, PTL DEF Spec, DoneIsInstalled

\* wf-finish.sh passes only a PC that is set up with a kit whose code was carried
\* over, and whose present key is pinned.
THEOREM PassTheorem == Spec => PassIsUsable
<1>1. ASSUME Inv, [Next]_vars, result' = "PASS", result # "PASS"
      PROVE  known = pcKey /\ installed \in codes
  <2>1. Accept
    BY <1>1, Values DEF Next, LauncherStep, FinishStep, MacSetup, MakeKit,
       MakeKitFails, CopyToStick, DoubleClick, TypeCode, Unpack, StopBefore,
       RunSetup, WriteHostKey, CloseWindow, FinishTyped, FinishFromFile,
       FinishRefuses, FinishByEye, PinHostKey, PinRefuses, PinCutOff, Carry,
       Damage, Reinstall, Ends, Expects, vars, finish
  <2>2. PICK m \in Machines : Reaches(m)
    BY <1>1, <2>1 DEF Accept, Ends
  <2> QED
    BY <1>1, <2>2 DEF Reaches, Offered, Inv, RunsVerified
<1>2. Inv /\ [Next]_vars =>
        [result' = "PASS" /\ result # "PASS" =>
           known = pcKey /\ installed \in codes]_vars
  BY <1>1
<1> QED
  BY <1>2, Invariant, PTL DEF Spec, PassIsUsable

\* Both results are true, that of the launcher and that of wf-finish.sh.
THEOREM ResultsTheorem == Spec => ResultsAreTrue
BY DoneTheorem, PassTheorem DEF ResultsAreTrue
=============================================================================

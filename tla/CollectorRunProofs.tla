------------------------- MODULE CollectorRunProofs -------------------------
(***************************************************************************)
(* What TLAPS proves of CollectorRun, for any sources and any number of    *)
(* calls that throw, on a PC that lets tools linger or not.                *)
(***************************************************************************)
EXTENDS CollectorRun, TLAPS

-----------------------------------------------------------------------------
(* The inductive invariant.                                                *)

\* What an entry may say of the files of its source and of what it read.
Fits(status, set, read) ==
  /\ status \in Observed => "primary" \in set
  /\ "primary" \in set =>
       /\ read # None /\ read.error = "none"
       /\ status \in Observed \/ (read.truncated /\ read.count > 0)

\* Where the run is in its sources, and what it has recorded by then.
Loop ==
  /\ pc \in {"layout", "source", "artifacts"} => Len(entries) = src - 1
  /\ pc \in {"manifest", "summary", "log", "exit"} => Len(entries) = Len(Sources)
  /\ \A i \in DOMAIN Sources : i > src => files[i] = {}
  /\ pc = "layout" => step = 1 /\ files[src] = {}

Recorded ==
  \A i \in DOMAIN entries :
    /\ entries[i].artifacts = files[i]
    /\ Fits(entries[i].status, files[i], entries[i].read)

\* The primary is there from the write on, and only if the read went well.
InSource ==
  pc = "source" =>
    /\ "primary" \in files[src] =>
         /\ result # None /\ result.error = "none"
         /\ \E k \in DOMAIN Order[Kind] : k < step /\ Order[Kind][k] = "primary"
    /\ \A k \in DOMAIN Order[Kind] :
         k < step =>
           /\ Order[Kind][k] = "read" => result # None
           /\ Order[Kind][k] = "primary" /\ result.error = "none" =>
                "primary" \in files[src]

ToList == pc = "artifacts" => Fits(outcome, files[src], result)

AfterLoop ==
  /\ pc \in {"summary", "log", "exit"} => manifest = "whole"
  /\ log = "run" =>
       /\ pc \in {"exit", "done"}
       /\ manifest = "whole" /\ Len(entries) = Len(Sources)
  /\ pc = "exit" \/ exit = 0 => log = "run"

Inv == TypeOK /\ Loop /\ Recorded /\ InSource /\ ToList /\ AfterLoop

-----------------------------------------------------------------------------
(* The operators.                                                          *)

\* Every kind decides after it wrote its primary, and that after it read, once.
LEMMA OrderFacts ==
  ASSUME NEW k \in Kinds
  PROVE  /\ 1 \in DOMAIN Order[k]
         /\ DOMAIN Order[k] \subseteq Nat \ {0}
         /\ \A s \in DOMAIN Order[k] :
              /\ Order[k][s] # "decide" => s + 1 \in DOMAIN Order[k]
              /\ Order[k][s] = "read" =>
                   \A r \in DOMAIN Order[k] :
                     r < s => Order[k][r] \notin {"read", "primary"}
              /\ Order[k][s] = "primary" =>
                   \E r \in DOMAIN Order[k] : r < s /\ Order[k][r] = "read"
              /\ Order[k][s] \in {"decide", "export"} =>
                   \E r \in DOMAIN Order[k] : r < s /\ Order[k][r] = "primary"
<1>1. CASE k = "eventlog"
  <2>1. Order[k] = <<"config", "read", "report", "primary", "export", "decide">>
    BY <1>1 DEF Order
  <2>2. DOMAIN Order[k] = 1 .. 6
    BY <2>1
  <2>3. /\ Order[k][1] = "config"
        /\ Order[k][2] = "read"
        /\ Order[k][3] = "report"
        /\ Order[k][4] = "primary"
        /\ Order[k][5] = "export"
        /\ Order[k][6] = "decide"
    BY <2>1
  <2>4. \A s \in DOMAIN Order[k] : s = 1 \/ s = 2 \/ s = 3 \/ s = 4 \/ s = 5 \/ s = 6
    BY <2>2
  <2> QED
    BY <2>2, <2>3, <2>4
<1>2. CASE k = "cim"
  <2>1. Order[k] = <<"config", "read", "primary", "decide">>
    BY <1>2 DEF Order
  <2>2. DOMAIN Order[k] = 1 .. 4
    BY <2>1
  <2>3. /\ Order[k][1] = "config"
        /\ Order[k][2] = "read"
        /\ Order[k][3] = "primary"
        /\ Order[k][4] = "decide"
    BY <2>1
  <2>4. \A s \in DOMAIN Order[k] : s = 1 \/ s = 2 \/ s = 3 \/ s = 4
    BY <2>2
  <2> QED
    BY <2>2, <2>3, <2>4
<1>3. CASE k = "command"
  <2>1. Order[k] = <<"config", "read", "primary", "report", "decide">>
    BY <1>3 DEF Order
  <2>2. DOMAIN Order[k] = 1 .. 5
    BY <2>1
  <2>3. /\ Order[k][1] = "config"
        /\ Order[k][2] = "read"
        /\ Order[k][3] = "primary"
        /\ Order[k][4] = "report"
        /\ Order[k][5] = "decide"
    BY <2>1
  <2>4. \A s \in DOMAIN Order[k] : s = 1 \/ s = 2 \/ s = 3 \/ s = 4 \/ s = 5
    BY <2>2
  <2> QED
    BY <2>2, <2>3, <2>4
<1>4. CASE k = "file"
  <2>1. Order[k] = <<"config", "read", "primary", "report", "decide">>
    BY <1>4 DEF Order
  <2>2. DOMAIN Order[k] = 1 .. 5
    BY <2>1
  <2>3. /\ Order[k][1] = "config"
        /\ Order[k][2] = "read"
        /\ Order[k][3] = "primary"
        /\ Order[k][4] = "report"
        /\ Order[k][5] = "decide"
    BY <2>1
  <2>4. \A s \in DOMAIN Order[k] : s = 1 \/ s = 2 \/ s = 3 \/ s = 4 \/ s = 5
    BY <2>2
  <2> QED
    BY <2>2, <2>3, <2>4
<1>5. CASE k = "pnp"
  <2>1. Order[k] = <<"config", "read", "primary", "report", "decide">>
    BY <1>5 DEF Order
  <2>2. DOMAIN Order[k] = 1 .. 5
    BY <2>1
  <2>3. /\ Order[k][1] = "config"
        /\ Order[k][2] = "read"
        /\ Order[k][3] = "primary"
        /\ Order[k][4] = "report"
        /\ Order[k][5] = "decide"
    BY <2>1
  <2>4. \A s \in DOMAIN Order[k] : s = 1 \/ s = 2 \/ s = 3 \/ s = 4 \/ s = 5
    BY <2>2
  <2> QED
    BY <2>2, <2>3, <2>4
<1> QED
  BY <1>1, <1>2, <1>3, <1>4, <1>5 DEF Kinds

\* Places are counted from 1.
LEMMA OrderIndexes ==
  ASSUME NEW k \in Kinds
  PROVE  \A s \in DOMAIN Order[k] : s \in Nat /\ s >= 1
  BY OrderFacts

\* The status of a read is a status.
LEMMA DecideType ==
  ASSUME NEW r
  PROVE  Decide(r) \in Statuses
  BY DEF Decide, SourceStatus, Statuses, Observed

\* A source that is observed was read to its end.
LEMMA DecideObserved ==
  ASSUME NEW r \in Result, Decide(r) \in Observed
  PROVE  r.error = "none" /\ ~r.truncated
  BY DEF Decide, SourceStatus, Observed, Result, OpenErrors, ReadErrors

-----------------------------------------------------------------------------
(* Types.                                                                  *)

\* The run is at a source, and there is at least one.
LEMMA KindFacts ==
  ASSUME TypeOK
  PROVE  /\ Kind \in Kinds
         /\ Len(Sources) \in Nat \ {0} /\ DOMAIN Sources = 1 .. Len(Sources)
         /\ src \in 1 .. Len(Sources)
<1>1. /\ Len(Sources) \in Nat /\ DOMAIN Sources = 1 .. Len(Sources)
      /\ Len(Sources) # 0
  BY SourcesAssumption
<1>2. \A i \in 1 .. Len(Sources) : Sources[i] \in Kinds
  BY SourcesAssumption
<1> QED
  BY <1>1, <1>2 DEF TypeOK, Kind

\* The place after one that is not the last.
LEMMA AdvanceType ==
  ASSUME TypeOK, pc = "source", Order[Kind][step] # "decide", Advance
  PROVE  pc' \in Places /\ src' \in DOMAIN Sources /\ step' \in DOMAIN Order[Kind']
<1>1. Kind' = Kind
  BY DEF Advance, Kind
<1>2. step + 1 \in DOMAIN Order[Kind]
  BY KindFacts, OrderFacts DEF TypeOK
<1> QED
  BY <1>1, <1>2 DEF Advance, TypeOK

\* Leaving a set of files at a source.
LEMMA LeaveType ==
  ASSUME TypeOK, NEW set \in SUBSET Files, Leave(set)
  PROVE  files' \in [DOMAIN Sources -> SUBSET Files]
  BY DEF TypeOK, Leave

\* What is there is a set of files.
LEMMA FilesOfSource ==
  ASSUME TypeOK
  PROVE  files[src] \in SUBSET Files
  BY DEF TypeOK

\* The first state is well typed.
LEMMA TypeInit ==
  ASSUME Init
  PROVE  TypeOK
<1>1. 1 \in DOMAIN Sources
  BY SourcesAssumption
<1>2. Sources[1] \in Kinds
  BY <1>1, SourcesAssumption
<1>3. 1 \in DOMAIN Order[Sources[1]]
  BY <1>2, OrderFacts
<1>4. entries \in Seq(Entry) /\ Len(entries) = 0 /\ Len(Sources) \in Nat
  BY SourcesAssumption DEF Init
<1> QED
  BY <1>1, <1>3, <1>4, SourcesAssumption
     DEF Init, TypeOK, Places, Kind, Statuses, Files

\* Every step keeps the types.
LEMMA TypeNext ==
  ASSUME TypeOK, Loop, [Next]_vars
  PROVE  TypeOK'
<1> USE DEF place, disk
<1>src. pc' \in Places /\ UNCHANGED <<src, step>>
          => pc' \in Places /\ src' \in DOMAIN Sources /\ step' \in DOMAIN Order[Kind']
  BY DEF TypeOK, Kind
<1>0. CASE UNCHANGED vars
  BY <1>0 DEF vars, TypeOK, Kind
<1>1. CASE Layout
  BY <1>1, <1>src DEF Layout, TypeOK, Places
<1>2. CASE WriteConfig \/ WriteReport
  <2>1. PICK f \in {"config", "report"} : WriteFile(f)
    BY <1>2 DEF WriteConfig, WriteReport
  <2>2. pc' \in Places /\ src' \in DOMAIN Sources /\ step' \in DOMAIN Order[Kind']
    BY <2>1, AdvanceType DEF WriteFile, At
  <2>3. files' \in [DOMAIN Sources -> SUBSET Files]
    BY <2>1, LeaveType, FilesOfSource DEF WriteFile, Files
  <2> QED
    BY <2>1, <2>2, <2>3 DEF WriteFile, TypeOK
<1>3. CASE Read
  <2>1. pc' \in Places /\ src' \in DOMAIN Sources /\ step' \in DOMAIN Order[Kind']
    BY <1>3, AdvanceType DEF Read, At
  <2>2. result' \in Result
    BY <1>3 DEF Read, Results
  <2> QED
    BY <1>3, <2>1, <2>2 DEF Read, TypeOK
<1>4. CASE WritePrimary
  <2>1. pc' \in Places /\ src' \in DOMAIN Sources /\ step' \in DOMAIN Order[Kind']
    BY <1>4, AdvanceType DEF WritePrimary, At
  <2>2. files' \in [DOMAIN Sources -> SUBSET Files]
    BY <1>4, LeaveType, FilesOfSource DEF WritePrimary, Files
  <2> QED
    BY <1>4, <2>1, <2>2 DEF WritePrimary, TypeOK
<1>5. CASE Export
  <2>1. pc' \in Places /\ src' \in DOMAIN Sources /\ step' \in DOMAIN Order[Kind']
    BY <1>5, AdvanceType DEF Export, At
  <2>2. files' \in [DOMAIN Sources -> SUBSET Files]
    <3>1. CASE UNCHANGED files
      BY <3>1 DEF TypeOK
    <3>2. CASE Leave(files[src] \cup {"export"})
      BY <3>2, LeaveType, FilesOfSource DEF Files
    <3> QED
      BY <1>5, <3>1, <3>2 DEF Export
  <2> QED
    BY <1>5, <2>1, <2>2 DEF Export, TypeOK
<1>6. CASE ExportHeld
  <2>1. files' \in [DOMAIN Sources -> SUBSET Files]
    BY <1>6, LeaveType, FilesOfSource DEF ExportHeld, Files
  <2> QED
    BY <1>6, <1>src, <2>1 DEF ExportHeld, TypeOK, Places, Statuses
<1>7. CASE DecideStatus
  <2>1. files' \in [DOMAIN Sources -> SUBSET Files]
    <3>1. Leave(files[src]) \/ Leave(files[src] \ {"primary"})
      BY <1>7 DEF DecideStatus
    <3> QED
      BY <3>1, LeaveType, FilesOfSource
  <2>2. outcome' \in Statuses
    BY <1>7, DecideType DEF DecideStatus
  <2> QED
    BY <1>7, <1>src, <2>1, <2>2 DEF DecideStatus, TypeOK, Places
<1>8. CASE Caught
  <2>1. files' \in [DOMAIN Sources -> SUBSET Files]
    <3>1. PICK part \in SUBSET ({Order[Kind][step]} \cap Files) :
            \/ Leave((files[src] \cup part) \ {"primary"})
            \/ Leave(files[src] \cup part)
      BY <1>8 DEF Caught
    <3> QED
      BY <3>1, LeaveType, FilesOfSource
  <2>2. faults' \in 0 .. MaxFaults /\ pc' \in Places
    BY <1>8, SourcesAssumption DEF Caught, TypeOK, Places
  <2> QED
    BY <1>8, <1>src, <2>1, <2>2 DEF Caught, TypeOK, Statuses
<1>9. CASE List
  <2>1. NextSource
    BY <1>9 DEF List
  <2>2. pc' \in Places /\ src' \in DOMAIN Sources /\ step' \in DOMAIN Order[Kind']
    <3>1. CASE src < Len(Sources)
      <4>1. pc' = "source" /\ src' = src + 1 /\ step' = 1
        BY <2>1, <3>1 DEF NextSource
      <4>2. src' \in DOMAIN Sources
        BY <3>1, <4>1, KindFacts
      <4>3. Kind' \in Kinds
        BY <4>2, SourcesAssumption DEF Kind
      <4> QED
        BY <4>1, <4>2, <4>3, OrderFacts DEF Places
    <3>2. CASE ~(src < Len(Sources))
      BY <2>1, <3>2, <1>src DEF NextSource, Places
    <3> QED
      BY <3>1, <3>2
  <2>3. result' \in Result \cup {None} /\ outcome' \in Statuses
    BY <2>1 DEF NextSource, TypeOK, Statuses
  <2>4. entries' \in Seq(Entry) /\ Len(entries') <= Len(Sources)
    <3>1. [status |-> outcome, artifacts |-> Listed, read |-> result] \in Entry
      BY FilesOfSource DEF TypeOK, Entry, Listed
    <3>2. Len(entries) = src - 1
      BY <1>9 DEF List, Loop
    <3>3. Len(entries') = Len(entries) + 1 /\ entries' \in Seq(Entry)
      BY <1>9, <3>1 DEF List, TypeOK
    <3> QED
      BY <3>2, <3>3, KindFacts
  <2> QED
    BY <1>9, <2>2, <2>3, <2>4 DEF List, TypeOK
<1>10. CASE ListBlocked
  BY <1>10, <1>src DEF ListBlocked, TypeOK, Places
<1>11. CASE WriteManifest
  BY <1>11, <1>src DEF WriteManifest, TypeOK, Places
<1>12. CASE WriteSummary
  <2>1. summary' \in {"absent", "ok", "partial", "failed"}
    BY <1>12 DEF WriteSummary, Summary
  <2> QED
    BY <1>12, <1>src, <2>1 DEF WriteSummary, TypeOK, Places
<1>13. CASE WriteLog
  BY <1>13, <1>src DEF WriteLog, TypeOK, Places
<1>14. CASE Exit
  BY <1>14, <1>src DEF Exit, TypeOK, Places
<1>15. CASE Abort
  <2>1. faults' \in 0 .. MaxFaults /\ pc' \in Places /\ exit' \in {None, 0, 1}
    BY <1>15, SourcesAssumption DEF Abort, TypeOK, Places
  <2>2. manifest' \in {"absent", "torn", "whole"}
    BY <1>15 DEF Abort, TypeOK
  <2> QED
    BY <1>15, <1>src, <2>1, <2>2 DEF Abort, TypeOK
<1>16. CASE Failure
  <2>1. faults' \in 0 .. MaxFaults
    BY <1>16, SourcesAssumption DEF Failure, TypeOK
  <2>2. /\ summary' \in {"absent", "ok", "partial", "failed"}
        /\ log' \in {"absent", "run", "failure"}
    BY <1>16 DEF Failure, TypeOK
  <2> QED
    BY <1>16, <1>src, <2>1, <2>2 DEF Failure, TypeOK, Places
<1>17. CASE Release
  BY <1>17, <1>src DEF Release, TypeOK
<1> QED
  BY <1>0, <1>1, <1>2, <1>3, <1>4, <1>5, <1>6, <1>7, <1>8, <1>9, <1>10, <1>11,
     <1>12, <1>13, <1>14, <1>15, <1>16, <1>17 DEF Next, SourceStep

-----------------------------------------------------------------------------
(* The invariant is inductive.                                             *)

\* The entries are numbered from 1.
LEMMA EntriesDomain ==
  ASSUME TypeOK
  PROVE  DOMAIN entries = 1 .. Len(entries) /\ Len(entries) \in Nat
  BY DEF TypeOK

\* A source that writes, exports or decides has read.
LEMMA HasRead ==
  ASSUME TypeOK, InSource, pc = "source",
         Order[Kind][step] \in {"primary", "export", "decide"}
  PROVE  result \in Result
<1>1. PICK k \in DOMAIN Order[Kind] : k < step /\ Order[Kind][k] = "read"
  <2>1. CASE Order[Kind][step] = "primary"
    BY <2>1, KindFacts, OrderFacts DEF TypeOK
  <2>2. CASE Order[Kind][step] \in {"decide", "export"}
    <3>1. PICK w \in DOMAIN Order[Kind] : w < step /\ Order[Kind][w] = "primary"
      BY <2>2, KindFacts, OrderFacts DEF TypeOK
    <3>2. PICK r \in DOMAIN Order[Kind] : r < w /\ Order[Kind][r] = "read"
      BY <3>1, KindFacts, OrderFacts
    <3>3. r < step
      BY <3>1, <3>2, KindFacts, OrderFacts DEF TypeOK
    <3> QED
      BY <3>2, <3>3
  <2> QED
    BY <2>1, <2>2
<1>2. result # None
  BY <1>1 DEF InSource
<1> QED
  BY <1>2 DEF TypeOK

\* A source that exports or decides after a good read has its primary.
LEMMA HasPrimary ==
  ASSUME TypeOK, InSource, pc = "source",
         Order[Kind][step] \in {"export", "decide"}, result.error = "none"
  PROVE  "primary" \in files[src]
<1>1. PICK w \in DOMAIN Order[Kind] : w < step /\ Order[Kind][w] = "primary"
  BY KindFacts, OrderFacts DEF TypeOK
<1> QED
  BY <1>1 DEF InSource

\* A source touches only its own files.
LEMMA OwnFiles ==
  ASSUME TypeOK, Loop, Recorded, pc = "source", NEW set, Leave(set),
         UNCHANGED <<src, entries>>, pc' \in {"source", "artifacts", "failure"}
  PROVE  Loop' /\ Recorded' /\ files'[src] = set
<1>1. \A i \in DOMAIN Sources : i # src => files'[i] = files[i]
  BY DEF Leave, TypeOK
<1>2. files'[src] = set
  BY DEF Leave, TypeOK
<1>3. Len(entries) = src - 1
  BY DEF Loop
<1>4. Loop'
  BY <1>1, <1>3, KindFacts DEF Loop
<1>5. Recorded'
  <2>1. \A i \in DOMAIN entries : i \in DOMAIN Sources /\ i # src
    BY <1>3, EntriesDomain, KindFacts
  <2> QED
    BY <1>1, <2>1 DEF Recorded
<1> QED
  BY <1>2, <1>4, <1>5

\* What is known of the places of a source once it moved on by one.
LEMMA NextPlace ==
  ASSUME TypeOK, InSource, pc = "source", Advance,
         "primary" \in files'[src] => result' # None /\ result'.error = "none",
         "primary" \in files'[src] =>
           "primary" \in files[src] \/ Order[Kind][step] = "primary",
         Order[Kind][step] = "read" => result' # None,
         Order[Kind][step] = "primary" /\ result'.error = "none" =>
           "primary" \in files'[src],
         \/ result' = result /\ files[src] \subseteq files'[src]
         \/ \A k \in DOMAIN Order[Kind] :
              k < step => Order[Kind][k] \notin {"read", "primary"}
  PROVE  InSource'
<1>1. src' = src /\ pc' = "source" /\ step' = step + 1 /\ Kind' = Kind
  BY DEF Advance, Kind
<1>2. \A k \in DOMAIN Order[Kind] : k < step + 1 => k < step \/ k = step
  BY KindFacts, OrderFacts DEF TypeOK
<1>3. \A k \in DOMAIN Order[Kind] :
        k < step =>
          /\ Order[Kind][k] = "read" => result' # None
          /\ Order[Kind][k] = "primary" /\ result'.error = "none" =>
               "primary" \in files'[src]
  BY DEF InSource
<1>4. ASSUME "primary" \in files'[src]
      PROVE  \E k \in DOMAIN Order[Kind] : k < step + 1 /\ Order[Kind][k] = "primary"
  <2>1. step < step + 1 /\ step \in DOMAIN Order[Kind]
    BY KindFacts, OrderFacts DEF TypeOK
  <2>2. CASE Order[Kind][step] = "primary"
    BY <2>1, <2>2
  <2>3. CASE "primary" \in files[src]
    <3>1. PICK k \in DOMAIN Order[Kind] : k < step /\ Order[Kind][k] = "primary"
      BY <2>3 DEF InSource
    <3>2. k < step + 1
      BY <2>1, <3>1, KindFacts, OrderFacts
    <3> QED
      BY <3>1, <3>2
  <2> QED
    BY <1>4, <2>2, <2>3
<1> QED
  BY <1>1, <1>2, <1>3, <1>4 DEF InSource

\* The invariant holds of the first state.
LEMMA InvInit ==
  ASSUME Init
  PROVE  Inv
<1>1. TypeOK
  BY TypeInit
<1>2. /\ pc = "layout" /\ src = 1 /\ step = 1 /\ entries = <<>>
      /\ log = "absent" /\ exit = None /\ exit # 0
      /\ \A i \in DOMAIN Sources : files[i] = {}
  BY NoneAssumption DEF Init
<1>3. Len(entries) = 0 /\ DOMAIN entries = {}
  BY <1>2
<1>4. Loop
  BY <1>1, <1>2, <1>3, KindFacts DEF Loop
<1>5. Recorded
  BY <1>3 DEF Recorded
<1> QED
  BY <1>1, <1>2, <1>4, <1>5 DEF Inv, InSource, ToList, AfterLoop

\* Every step keeps the invariant.
LEMMA InvNext ==
  ASSUME Inv, [Next]_vars
  PROVE  Inv'
<1> USE DEF Inv, place, disk
<1>t. TypeOK'
  BY TypeNext
\* A step that leaves the records and files alone and is not in a source.
<1>q. ASSUME UNCHANGED <<src, step, result, outcome, files, entries>>,
             pc' \notin {"source", "artifacts", "layout"},
             pc' \in {"manifest", "summary", "log", "exit"} =>
               Len(entries) = Len(Sources)
      PROVE  Loop' /\ Recorded' /\ InSource' /\ ToList'
  BY <1>q DEF Loop, Recorded, InSource, ToList
<1>0. CASE UNCHANGED vars
  BY <1>0, <1>t DEF vars, Loop, Recorded, InSource, ToList, AfterLoop, Kind
<1>1. CASE Layout
  <2>1. Loop' /\ Recorded' /\ ToList' /\ AfterLoop'
    BY <1>1 DEF Layout, Loop, Recorded, ToList, AfterLoop
  <2>2. InSource'
    <3>1. step' = 1 /\ files'[src'] = {}
      BY <1>1 DEF Layout, Loop
    <3>2. \A k \in DOMAIN Order[Kind'] : ~(k < 1)
      BY <1>t, OrderIndexes, KindFacts, <1>1 DEF Layout, Kind
    <3> QED
      BY <3>1, <3>2 DEF InSource
  <2> QED
    BY <1>t, <2>1, <2>2
<1>2. CASE WriteConfig \/ WriteReport
  <2>1. PICK f \in {"config", "report"} : WriteFile(f)
    BY <1>2 DEF WriteConfig, WriteReport
  <2>2. Loop' /\ Recorded' /\ files'[src] = files[src] \cup {f}
    BY <2>1, OwnFiles DEF WriteFile, At, Advance
  <2>3. InSource'
    BY <2>1, <2>2, NextPlace DEF WriteFile, At, Advance, InSource
  <2> QED
    BY <1>t, <2>1, <2>2, <2>3 DEF WriteFile, At, Advance, ToList, AfterLoop
<1>3. CASE Read
  <2>1. Loop' /\ Recorded'
    BY <1>3 DEF Read, At, Advance, Loop, Recorded
  <2>2. result' \in Result /\ result' # None
    BY <1>3, NoneAssumption DEF Read, Results
  <2>3. \A k \in DOMAIN Order[Kind] :
          k < step => Order[Kind][k] \notin {"read", "primary"}
    BY <1>3, KindFacts, OrderFacts DEF Read, At, TypeOK
  <2>4. "primary" \notin files[src]
    BY <1>3, <2>3 DEF Read, At, InSource
  <2>5. InSource'
    BY <1>3, <2>2, <2>3, <2>4, NextPlace DEF Read, At, Advance
  <2> QED
    BY <1>t, <1>3, <2>1, <2>5 DEF Read, At, Advance, ToList, AfterLoop
<1>4. CASE WritePrimary
  <2>1. result \in Result /\ result # None
    BY <1>4, HasRead, NoneAssumption DEF WritePrimary, At
  <2>2. /\ Loop' /\ Recorded'
        /\ files'[src] = files[src] \cup
                           (IF result.error = "none" THEN {"primary"} ELSE {})
    BY <1>4, OwnFiles DEF WritePrimary, At, Advance
  <2>3. InSource'
    BY <1>4, <2>1, <2>2, NextPlace DEF WritePrimary, At, Advance, InSource
  <2> QED
    BY <1>t, <1>4, <2>2, <2>3 DEF WritePrimary, At, Advance, ToList, AfterLoop
<1>5. CASE Export
  <2>1. /\ Loop' /\ Recorded'
        /\ files'[src] = files[src] \/ files'[src] = files[src] \cup {"export"}
    <3>1. CASE UNCHANGED files
      BY <1>5, <3>1 DEF Export, At, Advance, Loop, Recorded
    <3>2. CASE Leave(files[src] \cup {"export"})
      BY <1>5, <3>2, OwnFiles DEF Export, At, Advance
    <3> QED
      BY <1>5, <3>1, <3>2 DEF Export
  <2>2. InSource'
    BY <1>5, <2>1, NextPlace DEF Export, At, Advance, InSource
  <2> QED
    BY <1>t, <1>5, <2>1, <2>2 DEF Export, At, Advance, ToList, AfterLoop
<1>6. CASE ExportHeld
  <2>1. /\ Loop' /\ Recorded'
        /\ files'[src] = (files[src] \cup {"export"}) \ {"primary"}
    BY <1>6, OwnFiles DEF ExportHeld, At
  <2>2. ToList'
    BY <1>6, <2>1 DEF ExportHeld, ToList, Fits, Observed
  <2> QED
    BY <1>t, <1>6, <2>1, <2>2 DEF ExportHeld, At, InSource, AfterLoop
<1>7. CASE DecideStatus
  <2>1. result \in Result /\ result # None
    BY <1>7, HasRead, NoneAssumption DEF DecideStatus, At
  <2> DEFINE kept == IF KeepsPrimary(Decide(result), result.truncated, result.count)
                       THEN files[src] ELSE files[src] \ {"primary"}
  <2>2. Leave(kept) /\ outcome' = Decide(result)
    BY <1>7 DEF DecideStatus
  <2>3. Loop' /\ Recorded' /\ files'[src] = kept
    <3> HIDE DEF kept
    <3> QED
      BY <1>7, <2>2, OwnFiles DEF DecideStatus, At
  <2>4. Fits(Decide(result), kept, result)
    <3>1. ASSUME Decide(result) \in Observed
          PROVE  "primary" \in kept
      BY <1>7, <2>1, <3>1, DecideObserved, HasPrimary
         DEF DecideStatus, At, KeepsPrimary
    <3>2. ASSUME "primary" \in kept
          PROVE  /\ result.error = "none"
                 /\ \/ Decide(result) \in Observed
                    \/ result.truncated /\ result.count > 0
      BY <1>7, <3>2 DEF DecideStatus, At, KeepsPrimary, InSource
    <3> QED
      BY <2>1, <3>1, <3>2 DEF Fits
  <2>5. ToList'
    BY <1>7, <2>2, <2>3, <2>4 DEF DecideStatus, ToList
  <2> QED
    BY <1>t, <1>7, <2>3, <2>5 DEF DecideStatus, At, InSource, AfterLoop
<1>8. CASE Caught
  <2>1. PICK part \in SUBSET ({Order[Kind][step]} \cap Files) :
          \/ pc' = "artifacts" /\ Leave((files[src] \cup part) \ {"primary"})
          \/ pc' = "failure" /\ Leave(files[src] \cup part)
    BY <1>8 DEF Caught
  <2>2. Loop' /\ Recorded'
    BY <1>8, <2>1, OwnFiles DEF Caught
  <2>3. ToList'
    <3>1. CASE pc' = "failure"
      BY <3>1 DEF ToList
    <3>2. CASE pc' = "artifacts" /\ Leave((files[src] \cup part) \ {"primary"})
      <4>1. "primary" \notin files'[src]
        BY <1>8, <3>2, OwnFiles DEF Caught
      <4> QED
        BY <1>8, <4>1 DEF Caught, ToList, Fits, Observed
    <3> QED
      BY <2>1, <3>1, <3>2
  <2> QED
    BY <1>t, <1>8, <2>1, <2>2, <2>3 DEF Caught, InSource, AfterLoop
<1>9. CASE List
  <2>1. /\ pc = "artifacts" /\ NextSource /\ UNCHANGED files
        /\ entries' = Append(entries, [status |-> outcome,
                                       artifacts |-> files[src], read |-> result])
        /\ UNCHANGED <<manifest, log, exit>>
    BY <1>9 DEF List, Listed
  <2>2. /\ Len(entries) = src - 1 /\ Len(entries') = src
        /\ DOMAIN entries = 1 .. src - 1 /\ DOMAIN entries' = 1 .. src
        /\ \A i \in 1 .. src - 1 : entries'[i] = entries[i]
        /\ entries'[src] = [status |-> outcome, artifacts |-> files[src],
                            read |-> result]
    BY <2>1, EntriesDomain, KindFacts DEF Loop, TypeOK
  <2>3. Recorded'
    <3>1. \A i \in 1 .. src - 1 :
            /\ entries'[i].artifacts = files'[i]
            /\ Fits(entries'[i].status, files'[i], entries'[i].read)
      BY <2>1, <2>2 DEF Recorded
    <3>2. /\ entries'[src].artifacts = files'[src]
          /\ Fits(entries'[src].status, files'[src], entries'[src].read)
      BY <2>1, <2>2 DEF ToList
    <3>3. \A i \in 1 .. src : i \in 1 .. src - 1 \/ i = src
      BY KindFacts
    <3> QED
      BY <2>2, <3>1, <3>2, <3>3 DEF Recorded
  <2>4. CASE src < Len(Sources)
    <3>1. pc' = "source" /\ src' = src + 1 /\ step' = 1 /\ result' = None
      BY <2>1, <2>4 DEF NextSource
    <3>2. Loop'
      BY <2>1, <2>2, <3>1, KindFacts DEF Loop
    <3>3. InSource'
      <4>1. files'[src'] = {}
        BY <2>1, <2>4, <3>1, KindFacts DEF Loop
      <4>2. \A k \in DOMAIN Order[Kind'] : ~(k < 1)
        BY <1>t, <3>1, OrderIndexes, SourcesAssumption DEF Kind, TypeOK
      <4> QED
        BY <3>1, <4>1, <4>2 DEF InSource
    <3> QED
      BY <1>t, <2>1, <2>3, <3>1, <3>2, <3>3 DEF ToList, AfterLoop
  <2>5. CASE ~(src < Len(Sources))
    <3>1. pc' = "manifest" /\ UNCHANGED src /\ src = Len(Sources)
      BY <2>1, <2>5, KindFacts DEF NextSource
    <3>2. Loop'
      BY <2>1, <2>2, <3>1, KindFacts DEF Loop
    <3> QED
      BY <1>t, <2>1, <2>3, <3>1, <3>2 DEF InSource, ToList, AfterLoop
  <2> QED
    BY <2>4, <2>5
<1>10. CASE ListBlocked
  BY <1>10, <1>t, <1>q DEF ListBlocked, AfterLoop
<1>11. CASE WriteManifest
  BY <1>11, <1>t, <1>q DEF WriteManifest, AfterLoop, Loop
<1>12. CASE WriteSummary
  BY <1>12, <1>t, <1>q DEF WriteSummary, AfterLoop, Loop
<1>13. CASE WriteLog
  BY <1>13, <1>t, <1>q DEF WriteLog, AfterLoop, Loop
<1>14. CASE Exit
  BY <1>14, <1>t, <1>q DEF Exit, AfterLoop
<1>15. CASE Abort
  <2>1. pc' \in {"done", "failure"}
    BY <1>15 DEF Abort
  <2>2. AfterLoop'
    BY <1>15 DEF Abort, AfterLoop
  <2> QED
    BY <1>15, <1>t, <1>q, <2>1, <2>2 DEF Abort
<1>16. CASE Failure
  BY <1>16, <1>t, <1>q DEF Failure, AfterLoop
<1>17. CASE Release
  BY <1>17, <1>t DEF Release, Loop, Recorded, InSource, ToList, AfterLoop, Kind
<1> QED
  BY <1>0, <1>1, <1>2, <1>3, <1>4, <1>5, <1>6, <1>7, <1>8, <1>9, <1>10, <1>11,
     <1>12, <1>13, <1>14, <1>15, <1>16, <1>17 DEF Next, SourceStep

-----------------------------------------------------------------------------
(* The theorems.                                                           *)

\* The invariant holds of every run.
LEMMA Invariant == Spec => []Inv
<1>1. Init => Inv
  BY InvInit
<1>2. Inv /\ [Next]_vars => Inv'
  BY InvNext
<1> QED
  BY <1>1, <1>2, PTL DEF Spec

\* Every variable keeps its type, and the loop ends after the last source.
THEOREM TypeCorrect == Spec => []TypeOK
<1>1. Inv => TypeOK
  BY DEF Inv
<1> QED
  BY <1>1, Invariant, PTL

\* A run that wrote its log left a bundle that verify_bundle.py accepts,
\* whatever threw in its sources and whatever a stopped tool kept open.
THEOREM BundleAccepted == Spec => []BundleVerifies
<1>1. Inv => BundleVerifies
  <2> SUFFICES ASSUME Inv, log = "run"
               PROVE  Verifies /\ DOMAIN entries = DOMAIN Sources
    BY DEF BundleVerifies, Inv, AfterLoop
  <2>1. DOMAIN entries = DOMAIN Sources /\ manifest = "whole"
    BY EntriesDomain, KindFacts DEF Inv, AfterLoop
  <2>2. \A i \in DOMAIN entries : entries[i].status \in Observed => files[i] # {}
    BY DEF Inv, Recorded, Fits
  <2>3. DOMAIN files = DOMAIN Sources
    BY DEF Inv, TypeOK
  <2> QED
    BY <2>1, <2>2, <2>3 DEF Verifies, Inv, Recorded
<1> QED
  BY <1>1, Invariant, PTL

\* A bundle's observed sources have their primary, and no primary is there
\* from a read that failed.
THEOREM PrimariesTrusted == Spec => []PrimaryTrusted
<1>1. Inv => PrimaryTrusted
  BY DEF Inv, Recorded, Fits, PrimaryTrusted
<1> QED
  BY <1>1, Invariant, PTL

-----------------------------------------------------------------------------
(* A run in which nothing throws.                                          *)

\* Without a fault and a tool that lingers, the run never leaves its way, and
\* each source takes its status from its read into the list.
Smooth ==
  faults = 0 /\ ~lingers =>
    /\ held = 0 /\ pc # "failure"
    /\ pc = "artifacts" => outcome = Decide(result)
    /\ \A i \in DOMAIN entries : entries[i].status = Decide(entries[i].read)
    /\ exit # None =>
         pc = "done" /\ Len(entries) = Len(Sources) /\ manifest = "whole"

\* The first state has no entry and no exit code.
LEMMA SmoothInit ==
  ASSUME Init
  PROVE  Smooth
<1>1. DOMAIN entries = {}
  BY DEF Init
<1> QED
  BY <1>1 DEF Init, Smooth

\* Every step without a fault keeps it.
LEMMA SmoothNext ==
  ASSUME Inv, Smooth, [Next]_vars
  PROVE  Smooth'
<1> USE DEF place, disk
<1> SUFFICES ASSUME faults' = 0, ~lingers'
             PROVE  Smooth'
  BY DEF Smooth
<1>f. faults \in Nat
  BY SourcesAssumption DEF Inv, TypeOK
<1>0. CASE UNCHANGED vars
  BY <1>0 DEF vars, Smooth
<1>1. CASE Layout
  BY <1>1 DEF Layout, Smooth
<1>2. CASE WriteConfig \/ WriteReport
  BY <1>2 DEF WriteConfig, WriteReport, WriteFile, At, Advance, Smooth
<1>3. CASE Read
  BY <1>3 DEF Read, At, Advance, Smooth
<1>4. CASE WritePrimary
  BY <1>4 DEF WritePrimary, At, Advance, Smooth
<1>5. CASE Export
  BY <1>5 DEF Export, At, Advance, Smooth
<1>6. CASE ExportHeld
  BY <1>6 DEF ExportHeld
<1>7. CASE DecideStatus
  BY <1>7 DEF DecideStatus, At, Smooth
<1>8. CASE Caught
  BY <1>8, <1>f DEF Caught
<1>9. CASE List
  <2>1. /\ pc = "artifacts" /\ faults = 0 /\ ~lingers
        /\ outcome = Decide(result) /\ exit = None /\ held = 0
        /\ UNCHANGED <<held, exit, manifest>>
        /\ entries' = Append(entries, [status |-> outcome,
                                       artifacts |-> files[src], read |-> result])
        /\ pc' \in {"source", "manifest"}
    BY <1>9 DEF List, Listed, NextSource, Smooth
  <2>2. /\ \A i \in DOMAIN entries' : i \in DOMAIN entries \/ i = Len(entries) + 1
        /\ \A i \in DOMAIN entries : entries'[i] = entries[i]
        /\ entries'[Len(entries) + 1] = [status |-> outcome,
                                         artifacts |-> files[src], read |-> result]
    BY <2>1, EntriesDomain DEF Inv, TypeOK
  <2>3. \A i \in DOMAIN entries' : entries'[i].status = Decide(entries'[i].read)
    BY <2>1, <2>2 DEF Smooth
  <2> QED
    BY <2>1, <2>3 DEF Smooth
<1>10. CASE ListBlocked
  <2>1. src # 0
    BY KindFacts DEF Inv
  <2> QED
    BY <1>10, <2>1 DEF ListBlocked, Smooth
<1>11. CASE WriteManifest
  BY <1>11 DEF WriteManifest, Smooth
<1>12. CASE WriteSummary
  BY <1>12 DEF WriteSummary, Smooth
<1>13. CASE WriteLog
  BY <1>13 DEF WriteLog, Smooth
<1>14. CASE Exit
  BY <1>14 DEF Exit, Smooth, Inv, Loop, AfterLoop
<1>15. CASE Abort
  BY <1>15, <1>f DEF Abort
<1>16. CASE Failure
  BY <1>16, <1>f DEF Failure, Smooth
<1>17. CASE Release
  BY <1>17 DEF Release, Smooth
<1> QED
  BY <1>0, <1>1, <1>2, <1>3, <1>4, <1>5, <1>6, <1>7, <1>8, <1>9, <1>10, <1>11,
     <1>12, <1>13, <1>14, <1>15, <1>16, <1>17 DEF Next, SourceStep

\* When nothing throws, every source's status is what its read earned, whether
\* its binary export was produced or not, and the run has its manifest.
THEOREM StatusesEarned == Spec => []DecidedByRead
<1>1. Init => Inv /\ Smooth
  BY InvInit, SmoothInit
<1>2. (Inv /\ Smooth) /\ [Next]_vars => (Inv /\ Smooth)'
  BY InvNext, SmoothNext
<1>3. Inv /\ Smooth => DecidedByRead
  BY DEF Smooth, DecidedByRead
<1> QED
  BY <1>1, <1>2, <1>3, PTL DEF Spec
=============================================================================

----------------------------- MODULE StoreProofs -----------------------------
(***************************************************************************)
(* What TLAPS proves of the two programs that keep files for a reader:     *)
(* DecodedTables, for any decoders, tables and exports, any number of runs *)
(* and of damaged exports, and Fetch, for any number of fetches, zips of   *)
(* any length and whatever arrives.  Both implement TableStore; what a     *)
(* reader finds is one run's, and what a fetch keeps was sent.             *)
(***************************************************************************)
EXTENDS DecodedTables, Fetch, WellFoundedInduction, SequenceTheorems, TLAPS

(***************************************************************************)
(* DecodedTables.                                                          *)
(***************************************************************************)

Writing == {"open rows", "close rows", "open meta", "close meta"}

Results == [status : Status, some : BOOLEAN, read : SUBSET Conditions]

\* A status agrees with the exports it was drawn from.
Sound(t, status, read) ==
  /\ status = "observed" =>
       read \intersect Holding(t) # {} /\ read \subseteq Holding(t) \union Blank(t)
  /\ status = "observed_zero" => read \subseteq Blank(t)

\* A status agrees with whether there are rows.
Fits(status, some) ==
  /\ status = "observed" => some
  /\ status = "observed_zero" => ~some

\* The two files of a table are one run's.
Paired(t) ==
  \/ rows[t] = Absent /\ meta[t] = Absent
  \/ /\ rows[t] # Absent /\ meta[t] # Absent
     /\ ~rows[t].torn /\ ~meta[t].torn
     /\ rows[t].run = meta[t].run
     /\ Fits(meta[t].status, rows[t].some)

\* How far the write of the first table has come.
Progress ==
  /\ stage \in Writing =>
       Fits(result.status, result.some) /\ Sound(Head(todo), result.status, result.read)
  /\ stage = "close rows" =>
       /\ Head(todo) \in cut
       /\ rows[Head(todo)] = [run |-> run, some |-> result.some, torn |-> TRUE]
  /\ stage \in {"open meta", "close meta"} =>
       /\ Head(todo) \in cut
       /\ rows[Head(todo)] = [run |-> run, some |-> result.some, torn |-> FALSE]
  /\ stage = "close meta" =>
       meta[Head(todo)] = [run |-> run, status |-> result.status, read |-> result.read, torn |-> TRUE]

Settled == \A t \in Tables \ cut : Paired(t)

IInv == TypeOK /\ Progress /\ Settled /\ DecodedFromAllSources

-----------------------------------------------------------------------------
\* A non-empty set of naturals has a least element.
LEMMA LeastNat ==
  ASSUME NEW S \in SUBSET Nat, S # {}
  PROVE  \E x \in S : \A y \in S : x <= y
<1>1. PICK x \in S : \A y \in S : ~ (<<y, x>> \in OpToRel(<, Nat))
  BY NatLessThanWellFounded, WFMin
<1>2. \A y \in S : x <= y
  <2> SUFFICES ASSUME NEW y \in S PROVE x <= y
    OBVIOUS
  <2>1. <<y, x>> \in Nat \X Nat
    OBVIOUS
  <2>2. ~ (y < x)
    BY <1>1, <2>1 DEF OpToRel
  <2> QED
    BY <2>2
<1> QED
  BY <1>2

\* The places of a table's exports are naturals, and what is found there is known.
LEMMA UsableType ==
  ASSUME TypeOK, NEW t \in Tables
  PROVE  /\ Usable(t) \subseteq Nat
         /\ \A i \in Usable(t) : Raw(t, i) \in Conditions
<1>1. SourcesOf[t] \in Seq(Sources)
  BY LayoutAssumption
<1>2. Usable(t) \subseteq DOMAIN SourcesOf[t]
  BY DEF Usable
<1>3. DOMAIN SourcesOf[t] \subseteq Nat /\ \A i \in DOMAIN SourcesOf[t] : SourcesOf[t][i] \in Sources
  BY <1>1
<1>4. \A s \in Sources : raw[s] \in Conditions
  BY DEF TypeOK
<1> QED
  BY <1>2, <1>3, <1>4 DEF Raw

\* A decode that neither fails nor aborts could read every export.
LEMMA AllRead ==
  ASSUME TypeOK, NEW t \in Tables, ~Ends(t, "error"), ~Ends(t, "abort")
  PROVE  \A i \in Usable(t) : Read(t, i) \notin {"error", "abort"}
<1> DEFINE Bad == {i \in Usable(t) : Read(t, i) \in {"error", "abort"}}
<1> SUFFICES ASSUME Bad # {} PROVE FALSE
  OBVIOUS
<1>1. Bad \subseteq Nat
  BY UsableType
<1>2. PICK i \in Bad : \A j \in Bad : i <= j
  BY <1>1, LeastNat
<1>3. \A j \in Usable(t) : j < i => Read(t, j) \notin {"error", "abort"}
  <2> SUFFICES ASSUME NEW j \in Usable(t), j < i, j \in Bad PROVE FALSE
    OBVIOUS
  <2>1. i \in Nat /\ j \in Nat /\ i <= j
    BY <1>1, <1>2
  <2> QED
    BY <2>1
<1>4. i \in Usable(t) /\ (Read(t, i) = "error" \/ Read(t, i) = "abort")
  OBVIOUS
<1> QED
  BY <1>3, <1>4 DEF Ends

\* What a report holds that was read as rows of a table, or as none.
LEMMA ReportOf ==
  ASSUME NEW t, NEW report \in Conditions
  PROVE  /\ ReadReport(t, report) = "rows" => report \in Holding(t)
         /\ ReadReport(t, report) = "none" => report \in Blank(t)
         /\ ReadReport(t, report) \in {"rows", "none", "invalid", "kept", "error", "abort"}
<1>1. CASE report = "rows"
  BY <1>1 DEF ReadReport, Holding
<1>2. CASE report = "no_intervals"
  BY <1>2 DEF ReadReport, Holding, Blank
<1>3. CASE report = "bad_intervals"
  BY <1>3 DEF ReadReport, Holding
<1>4. CASE report = "invalid"
  BY <1>4 DEF ReadReport
<1>5. CASE report = "unreconciled"
  BY <1>5 DEF ReadReport
<1>6. CASE report = "empty" \/ report = "garbled"
  BY <1>6 DEF ReadReport
<1>7. CASE report = "missing" \/ report = "binary"
  BY <1>7 DEF ReadReport
<1> QED
  BY <1>1, <1>2, <1>3, <1>4, <1>5, <1>6, <1>7 DEF Conditions, ReportParts

\* What an export holds that was read as rows, or as nothing.
LEMMA ReadOf ==
  ASSUME TypeOK, NEW t \in Tables, NEW i \in Usable(t)
  PROVE  /\ Read(t, i) = "rows" => Raw(t, i) \in Holding(t)
         /\ Read(t, i) = "none" => Raw(t, i) \in Blank(t)
         /\ Read(t, i) \in {"rows", "none", "invalid", "kept", "error", "abort"}
<1>1. Raw(t, i) \in Conditions
  BY UsableType
<1>2. CASE decoder = "dpcisr"
  BY <1>1, <1>2, ReportOf DEF Read
<1>3. CASE decoder # "dpcisr"
  <2>1. CASE Raw(t, i) = "rows" \/ Raw(t, i) = "invalid"
    BY <1>3, <2>1 DEF Read, Holding
  <2>2. CASE Raw(t, i) = "empty"
    BY <1>3, <2>2 DEF Read, Blank
  <2>3. CASE Raw(t, i) = "garbled"
    BY <1>3, <2>3 DEF Read, ReadsBlank, Blank
  <2>4. CASE Raw(t, i) = "missing"
    BY <1>3, <2>4 DEF Read
  <2>5. CASE Raw(t, i) = "binary"
    BY <1>3, <2>5 DEF Read
  <2>6. CASE Raw(t, i) \in ReportParts
    BY <1>3, <2>6 DEF Read, ReportParts
  <2> QED
    BY <1>1, <2>1, <2>2, <2>3, <2>4, <2>5, <2>6 DEF Conditions
<1> QED
  BY <1>2, <1>3

\* The result of a decode agrees with the exports it was drawn from.
LEMMA ResultSound ==
  ASSUME TypeOK, NEW t \in Tables, ~Ends(t, "abort"), Usable(t) # {}
  PROVE  /\ StatusOf(t) \in Status /\ HasRows(t) \in BOOLEAN
         /\ {Raw(t, i) : i \in Usable(t)} \in SUBSET Conditions
         /\ Fits(StatusOf(t), HasRows(t))
         /\ Sound(t, StatusOf(t), {Raw(t, i) : i \in Usable(t)})
<1>1. StatusOf(t) \in Status /\ HasRows(t) \in BOOLEAN
  BY DEF StatusOf, HasRows, Status
<1>2. {Raw(t, i) : i \in Usable(t)} \in SUBSET Conditions
  BY UsableType
<1>3. Fits(StatusOf(t), HasRows(t))
  BY DEF Fits, StatusOf, HasRows
<1>4. ASSUME StatusOf(t) # "decode_failed"
      PROVE  \A i \in Usable(t) : Read(t, i) \in {"rows", "none"}
  <2>1. ~Ends(t, "error")
    BY <1>4 DEF StatusOf
  <2>2. Reads(t) \intersect {"invalid", "kept"} = {}
    BY <1>4 DEF StatusOf
  <2>3. \A i \in Usable(t) : Read(t, i) \notin {"error", "abort", "invalid", "kept"}
    BY <2>1, <2>2, AllRead DEF Reads
  <2> QED
    BY <2>3, ReadOf
<1>5. ASSUME StatusOf(t) = "observed"
      PROVE  /\ {Raw(t, i) : i \in Usable(t)} \intersect Holding(t) # {}
             /\ {Raw(t, i) : i \in Usable(t)} \subseteq Holding(t) \union Blank(t)
  <2>1. PICK i \in Usable(t) : Read(t, i) = "rows"
    BY <1>5 DEF StatusOf, Reads
  <2>2. Raw(t, i) \in Holding(t)
    BY <2>1, ReadOf
  <2>3. \A j \in Usable(t) : Raw(t, j) \in Holding(t) \union Blank(t)
    BY <1>4, <1>5, ReadOf
  <2> QED
    BY <2>2, <2>3
<1>6. ASSUME StatusOf(t) = "observed_zero"
      PROVE  {Raw(t, i) : i \in Usable(t)} \subseteq Blank(t)
  <2>1. \A i \in Usable(t) : Read(t, i) # "rows"
    BY <1>6 DEF StatusOf, Reads
  <2>2. \A j \in Usable(t) : Raw(t, j) \in Blank(t)
    BY <1>4, <1>6, <2>1, ReadOf
  <2> QED
    BY <2>2
<1> QED
  BY <1>1, <1>2, <1>3, <1>5, <1>6 DEF Sound

\* The first table left, and the tables after it.
LEMMA TodoParts ==
  ASSUME TypeOK, stage # "idle"
  PROVE  /\ Head(todo) \in Tables
         /\ Tail(todo) \in Seq(Tables)
         /\ Len(todo) # 1 => Tail(todo) # << >>
<1>1. todo \in Seq(Tables) /\ todo # << >>
  BY DEF TypeOK
<1>2. Len(todo) \in Nat /\ Len(todo) > 0
  BY <1>1
<1>3. Head(todo) \in Tables /\ Tail(todo) \in Seq(Tables)
  BY <1>1
<1>4. Len(Tail(todo)) = Len(todo) - 1
  BY <1>1
<1>5. Len(<< >>) = 0
  OBVIOUS
<1> QED
  BY <1>2, <1>3, <1>4, <1>5

\* The run goes on to a table, or ends.
LEMMA GoOnType ==
  ASSUME TypeOK, stage # "idle", GoOn
  PROVE  /\ stage' \in {"idle", "decode"}
         /\ todo' \in Seq(Tables)
         /\ stage' # "idle" => todo' # << >>
  BY TodoParts DEF GoOn

-----------------------------------------------------------------------------
\* The invariant holds at the start: no table is there.
LEMMA InitInv == Init => IInv
<1> SUFFICES ASSUME Init PROVE IInv
  OBVIOUS
<1>1. raw \in [Sources -> Conditions]
  BY DEF Init, Conditions
<1>2. todo \in Seq(Tables)
  BY DEF Init
<1>3. TypeOK
  BY <1>1, <1>2 DEF Init, TypeOK
<1>4. Progress /\ Settled /\ DecodedFromAllSources
  BY DEF Init, Progress, Writing, Settled, Paired, DecodedFromAllSources
<1> QED
  BY <1>3, <1>4 DEF IInv

\* A step that leaves the files, the exports and the run alone, and does not begin
\* to write, keeps the invariant.
LEMMA QuietStep ==
  ASSUME IInv, stage' \in {"idle", "decode"}, todo' \in Seq(Tables),
         stage' # "idle" => todo' # << >>,
         raw' \in [Sources -> Conditions], run' \in Nat, decoder' \in Decoders,
         UNCHANGED <<rows, meta, cut>>
  PROVE  IInv'
<1>1. TypeOK'
  BY DEF IInv, TypeOK, RowsFile, MetaFile
<1>2. Progress'
  BY DEF Progress, Writing
<1>3. Settled'
  BY DEF IInv, Settled, Paired
<1>4. DecodedFromAllSources'
  BY DEF IInv, DecodedFromAllSources
<1> QED
  BY <1>1, <1>2, <1>3, <1>4 DEF IInv

\* A table that is decoded but not yet opened.
LEMMA DecodeStep ==
  ASSUME IInv, Decode
  PROVE  IInv'
<1> DEFINE t == Head(todo)
<1>1. stage = "decode" /\ TypeOK
  BY DEF Decode, IInv
<1>2. t \in Tables
  BY <1>1, TodoParts
<1>3. UNCHANGED <<decoder, claim, raw, damage, run, rows, meta, cut>>
  BY DEF Decode
<1>4. raw' \in [Sources -> Conditions] /\ run' \in Nat /\ decoder' \in Decoders
  BY <1>1, <1>3 DEF TypeOK
<1>5. CASE Unwritten(t) /\ GoOn
  <2>1. stage' \in {"idle", "decode"} /\ todo' \in Seq(Tables) /\ (stage' # "idle" => todo' # << >>)
    BY <1>1, <1>5, GoOnType
  <2> QED
    BY <1>3, <1>4, <2>1, QuietStep
<1>6. CASE stage' = "idle" /\ todo' = << >>
  <2>1. todo' \in Seq(Tables)
    BY <1>6
  <2> QED
    BY <1>3, <1>4, <1>6, <2>1, QuietStep
<1>7. CASE /\ ~Unwritten(t) /\ ~Ends(t, "abort")
           /\ stage' = "open rows"
           /\ result' = [status |-> StatusOf(t), some |-> HasRows(t),
                         read |-> {Raw(t, i) : i \in Usable(t)}]
           /\ UNCHANGED todo
  <2>1. Usable(t) # {}
    BY <1>7 DEF Unwritten
  <2> HIDE DEF t
  <2>2. /\ result'.status = StatusOf(t) /\ result'.some = HasRows(t)
        /\ result'.read = {Raw(t, i) : i \in Usable(t)}
    BY <1>7
  <2>3. result' \in Results
    BY <1>1, <1>2, <1>7, <2>1, ResultSound DEF Results
  <2>4. Fits(result'.status, result'.some) /\ Sound(t, result'.status, result'.read)
    BY <1>1, <1>2, <1>7, <2>1, <2>2, ResultSound
  <2>5. TypeOK'
    BY <1>1, <1>3, <1>7, <2>3 DEF TypeOK, RowsFile, MetaFile, Results
  <2>6. Progress'
    BY <1>7, <2>4 DEF Progress, Writing, t, Fits, Sound
  <2>7. Settled'
    BY <1>3 DEF IInv, Settled, Paired, Fits
  <2>8. DecodedFromAllSources'
    BY <1>3 DEF IInv, DecodedFromAllSources
  <2> QED
    BY <2>5, <2>6, <2>7, <2>8 DEF IInv
<1> QED
  BY <1>5, <1>6, <1>7 DEF Decode

\* The rows file is opened.
LEMMA OpenRowsStep ==
  ASSUME IInv, OpenRows
  PROVE  IInv'
<1> DEFINE t == Head(todo)
<1>1. stage = "open rows" /\ TypeOK /\ t \in Tables
  BY TodoParts DEF OpenRows, IInv
<1>2. result \in Results /\ run \in Nat
  BY <1>1 DEF TypeOK, Results
<1>3. [run |-> run, some |-> result.some, torn |-> TRUE] \in RowsFile
  BY <1>2 DEF RowsFile, Results
<1>4. rows' = [rows EXCEPT ![t] = [run |-> run, some |-> result.some, torn |-> TRUE]]
  BY DEF OpenRows
<1>5. rows' \in [Tables -> RowsFile \union {Absent}] /\ cut' \subseteq Tables
  BY <1>1, <1>3, <1>4 DEF TypeOK, OpenRows
<1>6. TypeOK'
  BY <1>1, <1>5 DEF TypeOK, OpenRows
<1>7. Progress'
  BY <1>1, <1>4 DEF IInv, TypeOK, Progress, Writing, OpenRows, Fits, Sound
<1>8. Settled'
  BY <1>1, <1>4 DEF IInv, TypeOK, Settled, Paired, OpenRows
<1>9. DecodedFromAllSources'
  BY DEF IInv, DecodedFromAllSources, OpenRows
<1> QED
  BY <1>6, <1>7, <1>8, <1>9 DEF IInv

\* The rows file is complete.
LEMMA CloseRowsStep ==
  ASSUME IInv, CloseRows
  PROVE  IInv'
<1> DEFINE t == Head(todo)
<1>1. stage = "close rows" /\ TypeOK /\ t \in Tables
  BY TodoParts DEF CloseRows, IInv
<1>2. result \in Results /\ run \in Nat
  BY <1>1 DEF TypeOK, Results
<1>3. t \in cut /\ rows[t] = [run |-> run, some |-> result.some, torn |-> TRUE]
  BY <1>1 DEF IInv, Progress
<1>4. rows' = [rows EXCEPT ![t] = [run |-> run, some |-> result.some, torn |-> FALSE]]
  BY DEF CloseRows
<1>5. [run |-> run, some |-> result.some, torn |-> FALSE] \in RowsFile
  BY <1>2 DEF RowsFile, Results
<1>6. rows' \in [Tables -> RowsFile \union {Absent}]
  BY <1>1, <1>4, <1>5 DEF TypeOK
<1>7. TypeOK'
  BY <1>1, <1>6 DEF TypeOK, CloseRows
<1>8. Progress'
  BY <1>1, <1>3, <1>4 DEF IInv, TypeOK, Progress, Writing, CloseRows, Fits, Sound
<1>9. Settled'
  BY <1>1, <1>3, <1>4 DEF IInv, TypeOK, Settled, Paired, CloseRows, Fits
<1>10. DecodedFromAllSources'
  BY DEF IInv, DecodedFromAllSources, CloseRows
<1> QED
  BY <1>7, <1>8, <1>9, <1>10 DEF IInv

\* The sidecar is opened.
LEMMA OpenMetaStep ==
  ASSUME IInv, OpenMeta
  PROVE  IInv'
<1> DEFINE t == Head(todo)
           file == [run |-> run, status |-> result.status, read |-> result.read, torn |-> TRUE]
<1>1. stage = "open meta" /\ TypeOK /\ t \in Tables
  BY TodoParts DEF OpenMeta, IInv
<1>2. result \in Results /\ run \in Nat
  BY <1>1 DEF TypeOK, Results
<1>3. t \in cut /\ rows[t] = [run |-> run, some |-> result.some, torn |-> FALSE]
  BY <1>1 DEF IInv, Progress
<1>4. Sound(t, result.status, result.read) /\ Fits(result.status, result.some)
  BY <1>1 DEF IInv, Progress, Writing
<1>5. meta' = [meta EXCEPT ![t] = file]
  BY DEF OpenMeta
<1>6. file \in MetaFile
  BY <1>2 DEF MetaFile, Results
<1>7. meta' \in [Tables -> MetaFile \union {Absent}]
  BY <1>1, <1>5, <1>6 DEF TypeOK
<1>8. TypeOK'
  BY <1>1, <1>7 DEF TypeOK, OpenMeta
<1>9. Progress'
  BY <1>1, <1>3, <1>4, <1>5 DEF TypeOK, Progress, Writing, OpenMeta, Fits, Sound
<1>10. Settled'
  BY <1>1, <1>3, <1>5 DEF IInv, TypeOK, Settled, Paired, OpenMeta, Fits
<1>11. DecodedFromAllSources'
  <2> SUFFICES ASSUME NEW u \in Tables, meta'[u] # Absent
               PROVE  Sound(u, meta'[u].status, meta'[u].read)
    BY DEF DecodedFromAllSources, Sound
  <2>1. CASE u = t
    BY <1>1, <1>4, <1>5, <2>1 DEF TypeOK
  <2>2. CASE u # t
    <3>1. meta'[u] = meta[u]
      BY <1>1, <1>5, <2>2 DEF TypeOK
    <3> QED
      BY <3>1 DEF IInv, DecodedFromAllSources, Sound
  <2> QED
    BY <2>1, <2>2
<1> QED
  BY <1>8, <1>9, <1>10, <1>11 DEF IInv

\* The sidecar is complete: the table is one run's.
LEMMA CloseMetaStep ==
  ASSUME IInv, CloseMeta
  PROVE  IInv'
<1> DEFINE t == Head(todo)
           file == [run |-> run, status |-> result.status, read |-> result.read, torn |-> FALSE]
<1>1. stage = "close meta" /\ TypeOK /\ t \in Tables
  BY TodoParts DEF CloseMeta, IInv
<1>2. result \in Results /\ run \in Nat
  BY <1>1 DEF TypeOK, Results
<1>3. t \in cut /\ rows[t] = [run |-> run, some |-> result.some, torn |-> FALSE]
  BY <1>1 DEF IInv, Progress
<1>4. meta[t] = [run |-> run, status |-> result.status, read |-> result.read, torn |-> TRUE]
  BY <1>1 DEF IInv, Progress
<1>5. Fits(result.status, result.some)
  BY <1>1 DEF IInv, Progress, Writing
<1>6. meta' = [meta EXCEPT ![t] = file]
  BY DEF CloseMeta
<1>7. file \in MetaFile
  BY <1>2 DEF MetaFile, Results
<1>8. meta' \in [Tables -> MetaFile \union {Absent}] /\ rows' = rows /\ cut' = cut \ {t}
  BY <1>1, <1>6, <1>7 DEF TypeOK, CloseMeta
<1>9. /\ stage' \in {"idle", "decode"} /\ todo' \in Seq(Tables)
      /\ stage' # "idle" => todo' # << >>
  BY <1>1, GoOnType DEF CloseMeta
<1>10. TypeOK'
  BY <1>1, <1>8, <1>9 DEF TypeOK, CloseMeta
<1>11. Progress'
  BY <1>9 DEF Progress, Writing
<1>12. Settled'
  <2> SUFFICES ASSUME NEW u \in Tables \ cut' PROVE Paired(u)'
    BY DEF Settled
  <2>1. CASE u = t
    <3>1. meta'[t] = file /\ rows'[t] = rows[t]
      BY <1>1, <1>6, <1>8 DEF TypeOK
    <3>2. rows[t] # Absent /\ file # Absent
      <4>1. rows[t] \in RowsFile
        BY <1>2, <1>3 DEF RowsFile, Results
      <4> QED
        BY <1>7, <4>1, AbsentAssumption
    <3> QED
      BY <1>3, <1>5, <2>1, <3>1, <3>2 DEF Paired, Fits
  <2>2. CASE u # t
    <3>1. meta'[u] = meta[u] /\ rows'[u] = rows[u] /\ u \in Tables \ cut
      BY <1>1, <1>6, <1>8, <2>2 DEF TypeOK
    <3> QED
      BY <3>1 DEF IInv, Settled, Paired, Fits
  <2> QED
    BY <2>1, <2>2
<1>13. DecodedFromAllSources'
  <2> SUFFICES ASSUME NEW u \in Tables, meta'[u] # Absent
               PROVE  Sound(u, meta'[u].status, meta'[u].read)
    BY DEF DecodedFromAllSources, Sound
  <2>1. meta[u] # Absent /\ meta'[u].status = meta[u].status /\ meta'[u].read = meta[u].read
    <3>1. CASE u = t
      <4>1. meta'[t] = file /\ meta[t] \in MetaFile
        <5>1. meta'[t] = file
          BY <1>1, <1>6 DEF TypeOK
        <5>2. meta[t] \in MetaFile
          BY <1>2, <1>4 DEF MetaFile, Results
        <5> QED
          BY <5>1, <5>2
      <4> QED
        BY <1>4, <3>1, <4>1, AbsentAssumption
    <3>2. CASE u # t
      BY <1>1, <1>6, <3>2 DEF TypeOK
    <3> QED
      BY <3>1, <3>2
  <2> QED
    BY <2>1 DEF IInv, DecodedFromAllSources, Sound
<1> QED
  BY <1>10, <1>11, <1>12, <1>13 DEF IInv

\* Every step keeps the invariant.
LEMMA NextInv == IInv /\ [Next]_vars => IInv'
<1> SUFFICES ASSUME IInv, [Next]_vars PROVE IInv'
  OBVIOUS
<1>1. /\ raw \in [Sources -> Conditions] /\ run \in Nat /\ decoder \in Decoders
      /\ todo \in Seq(Tables)
  BY DEF IInv, TypeOK
<1>2. CASE Start
  <2>1. TablesOf[decoder] \in Seq(Tables) /\ TablesOf[decoder] # << >>
    BY <1>1, LayoutAssumption
  <2>2. run' \in Nat
    BY <1>1, <1>2 DEF Start
  <2> QED
    BY <1>1, <1>2, <2>1, <2>2, QuietStep DEF Start
<1>3. CASE Crash
  <2>1. todo' \in Seq(Tables)
    BY <1>3 DEF Crash
  <2> QED
    BY <1>1, <1>3, <2>1, QuietStep DEF Crash
<1>4. ASSUME NEW s \in Sources, Damage(s) PROVE IInv'
  <2>1. stage = "idle" /\ stage' = "idle" /\ todo' = todo
    BY <1>4 DEF Damage
  <2>2. raw' \in [Sources -> Conditions]
    BY <1>1, <1>4 DEF Damage, Conditions
  <2> QED
    BY <1>1, <1>4, <2>1, <2>2, QuietStep DEF Damage
<1>5. CASE UNCHANGED vars
  <2>1. TypeOK'
    BY <1>5 DEF IInv, TypeOK, vars
  <2>2. Progress'
    BY <1>5 DEF IInv, Progress, vars, Fits, Sound
  <2>3. Settled'
    BY <1>5 DEF IInv, Settled, Paired, vars, Fits
  <2>4. DecodedFromAllSources'
    BY <1>5 DEF IInv, DecodedFromAllSources, vars
  <2> QED
    BY <2>1, <2>2, <2>3, <2>4 DEF IInv
<1> QED
  BY <1>2, <1>3, <1>4, <1>5, DecodeStep, OpenRowsStep, CloseRowsStep, OpenMetaStep,
     CloseMetaStep DEF Next

-----------------------------------------------------------------------------
(* The theorems.                                                           *)

LEMMA Invariance == Spec => []IInv
<1>1. Init => IInv
  BY InitInv
<1>2. IInv /\ [Next]_vars => IInv'
  BY NextInv
<1> QED
  BY <1>1, <1>2, PTL DEF Spec

\* A run that writes has a table to write, and every file has the form its decoder
\* gives it.
THEOREM TypeCorrect == Spec => []TypeOK
<1>1. IInv => TypeOK
  BY DEF IInv
<1> QED
  BY <1>1, Invariance, PTL

\* A table says observed only of exports that were all read and hold rows of it, and
\* observed_zero only of exports that hold none (each decoder's table by table), in
\* whatever order exports are damaged, decoded, and decoded again.
THEOREM ClaimsWhatWasRead == Spec => []DecodedFromAllSources
<1>1. IInv => DecodedFromAllSources
  BY DEF IInv
<1> QED
  BY <1>1, Invariance, PTL

\* The analyzer never pairs one run's sidecar with another's rows, unless the
\* write of that table was cut short.
THEOREM LoadIsConsistent == Spec => []LoadedIsOneRun
<1>1. IInv => LoadedIsOneRun
  <2> SUFFICES ASSUME IInv, NEW t \in Tables \ cut, NEW found \in LoadTable(t)
               PROVE  /\ found # Broken
                      /\ found.from = IF found.status = "observed" THEN meta[t].run ELSE 0
    BY DEF LoadedIsOneRun
  <2>1. Paired(t) /\ TypeOK
    BY DEF IInv, Settled
  <2>2. \A s \in Status \union {"not_collected"}, n \in Nat : [status |-> s, from |-> n] # Broken
    BY BrokenAssumption DEF Loaded
  <2>3. CASE rows[t] = Absent /\ meta[t] = Absent
    <3>1. found = [status |-> "not_collected", from |-> 0]
      BY <2>3 DEF LoadTable
    <3> QED
      BY <2>2, <3>1
  <2>4. CASE rows[t] # Absent /\ meta[t] # Absent
    <3>1. /\ ~rows[t].torn /\ ~meta[t].torn /\ rows[t].run = meta[t].run
          /\ Fits(meta[t].status, rows[t].some)
      BY <2>1, <2>4 DEF Paired
    <3>2. rows[t] \in RowsFile /\ meta[t] \in MetaFile
      BY <2>1, <2>4 DEF TypeOK
    <3>3. meta[t].status \in Status /\ meta[t].run \in Nat /\ rows[t].run \in Nat
      BY <3>2 DEF RowsFile, MetaFile
    <3>4. CASE meta[t].status = "observed"
      <4>1. found = [status |-> "observed", from |-> meta[t].run]
        BY <2>4, <3>1, <3>4 DEF LoadTable, Fits
      <4> QED
        BY <2>2, <3>3, <3>4, <4>1
    <3>5. CASE meta[t].status = "observed_zero"
      <4>1. found = [status |-> "observed_zero", from |-> 0]
        BY <2>4, <3>1, <3>5 DEF LoadTable, Fits
      <4> QED
        BY <2>2, <3>3, <3>5, <4>1
    <3>6. CASE meta[t].status = "decode_failed"
      <4>1. found = [status |-> "decode_failed", from |-> 0]
        BY <2>4, <3>1, <3>6 DEF LoadTable
      <4> QED
        BY <2>2, <3>3, <3>6, <4>1
    <3> QED
      BY <3>3, <3>4, <3>5, <3>6 DEF Status
  <2> QED
    BY <2>1, <2>3, <2>4 DEF Paired
<1> QED
  BY <1>1, Invariance, PTL

-----------------------------------------------------------------------------
(* The refinement.                                                         *)

\* A step that leaves the files alone leaves the store alone.
LEMMA StoreQuiet ==
  ASSUME UNCHANGED <<rows, meta>>
  PROVE  [t \in Tables |-> Found(t)]' = [t \in Tables |-> Found(t)]
  BY DEF Found

\* A step that touches the files of one table changes only what is found of that one.
LEMMA StoreOne ==
  ASSUME NEW t \in Tables, NEW v,
         \A u \in Tables \ {t} : rows'[u] = rows[u] /\ meta'[u] = meta[u],
         Found(t)' = v
  PROVE  [u \in Tables |-> Found(u)]' = [[u \in Tables |-> Found(u)] EXCEPT ![t] = v]
<1>1. \A u \in Tables \ {t} : Found(u)' = Found(u)
  BY DEF Found
<1> QED
  BY <1>1

\* Every step of a decoder is a step of the store, or leaves it alone.
LEMMA StoreStep ==
  ASSUME IInv, [Next]_vars
  PROVE  Store!Next \/ UNCHANGED <<[t \in Tables |-> Found(t)], run>>
<1> DEFINE S == [t \in Tables |-> Found(t)]
<1>1. TypeOK
  BY DEF IInv
<1>2. CASE Start
  <2>1. S' = S
    BY <1>2, StoreQuiet DEF Start
  <2> QED
    BY <1>2, <2>1 DEF Start, Store!Next, Store!Begin
<1>3. CASE Decode \/ Crash \/ (\E s \in Sources : Damage(s)) \/ UNCHANGED vars
  <2>1. UNCHANGED <<rows, meta, run>>
    BY <1>3 DEF Decode, Crash, Damage, vars
  <2>2. S' = S
    BY <2>1, StoreQuiet
  <2> QED
    BY <2>1, <2>2
<1>4. CASE OpenRows
  <2>1. PICK u \in Tables : u = Head(todo)
    BY <1>1, <1>4, TodoParts DEF OpenRows
  <2>2. \A x \in Tables \ {u} : rows'[x] = rows[x] /\ meta'[x] = meta[x]
    BY <1>1, <1>4, <2>1 DEF OpenRows, TypeOK
  <2>3. rows'[u].torn /\ meta' = meta
    BY <1>1, <1>4, <2>1 DEF OpenRows, TypeOK
  <2>4. rows'[u] # Absent
    <3>1. rows'[u] \in RowsFile
      BY <1>1, <1>4, <2>1 DEF OpenRows, TypeOK, RowsFile
    <3> QED
      BY <3>1, AbsentAssumption
  <2>5. CASE meta[u] = Absent
    <3>1. Found(u)' = Absent /\ Found(u) = Absent
      BY <2>3, <2>5 DEF Found
    <3>2. S' = [S EXCEPT ![u] = Absent]
      BY <2>1, <2>2, <3>1, StoreOne
    <3>3. S' = S
      BY <2>1, <3>1, <3>2
    <3> QED
      BY <1>4, <3>3 DEF OpenRows
  <2>6. CASE meta[u] # Absent
    <3>1. Found(u)' = Broken
      BY <2>3, <2>4, <2>6 DEF Found
    <3>2. S' = [S EXCEPT ![u] = Broken]
      BY <2>1, <2>2, <3>1, StoreOne
    <3> QED
      BY <1>4, <2>1, <3>2 DEF OpenRows, Store!Next, Store!Break
  <2> QED
    BY <2>5, <2>6
<1>5. CASE CloseRows
  <2>1. PICK u \in Tables : u = Head(todo) /\ stage = "close rows"
    BY <1>1, <1>5, TodoParts DEF CloseRows
  <2>2. rows[u] = [run |-> run, some |-> result.some, torn |-> TRUE]
    BY <2>1 DEF IInv, Progress
  <2>3. \A x \in Tables \ {u} : rows'[x] = rows[x] /\ meta'[x] = meta[x]
    BY <1>1, <1>5, <2>1 DEF CloseRows, TypeOK
  <2>4. rows'[u] = [run |-> run, some |-> result.some, torn |-> FALSE] /\ meta' = meta /\ run' = run
    BY <1>1, <1>5, <2>1 DEF CloseRows, TypeOK
  <2>5. rows[u] # Absent /\ rows'[u] # Absent
    <3>1. run \in Nat /\ result.some \in BOOLEAN
      BY <1>1, <2>1 DEF TypeOK
    <3>2. rows[u] \in RowsFile /\ rows'[u] \in RowsFile
      BY <2>2, <2>4, <3>1 DEF RowsFile
    <3> QED
      BY <3>2, AbsentAssumption
  <2>6. CASE meta[u] = Absent \/ meta[u].torn \/ meta[u].run # run
    <3>1. Found(u)' = Found(u)
      BY <2>2, <2>4, <2>5, <2>6 DEF Found
    <3>2. S' = [S EXCEPT ![u] = Found(u)]
      BY <2>1, <2>3, <3>1, StoreOne
    <3> QED
      BY <2>1, <2>4, <3>2
  <2>7. CASE meta[u] # Absent /\ ~meta[u].torn /\ meta[u].run = run
    <3>1. Found(u) = Broken
      BY <2>2, <2>5, <2>7 DEF Found
    <3>2. Found(u)' = [run |-> run, status |-> meta[u].status]
      BY <2>4, <2>5, <2>7 DEF Found
    <3>3. meta[u].status \in Status
      BY <1>1, <2>1, <2>7 DEF TypeOK, MetaFile
    <3>4. PICK v : v = [run |-> run, status |-> meta[u].status]
      OBVIOUS
    <3>5. S' = [S EXCEPT ![u] = v]
      BY <2>1, <2>3, <3>2, <3>4, StoreOne
    <3>6. S[u] = Broken
      BY <2>1, <3>1
    <3> QED
      BY <2>1, <2>4, <3>3, <3>4, <3>5, <3>6 DEF Store!Next, Store!Publish
  <2> QED
    BY <2>6, <2>7
<1>6. CASE OpenMeta
  <2>1. PICK u \in Tables : u = Head(todo) /\ stage = "open meta"
    BY <1>1, <1>6, TodoParts DEF OpenMeta
  <2>2. rows[u] = [run |-> run, some |-> result.some, torn |-> FALSE]
    BY <2>1 DEF IInv, Progress
  <2>3. result \in Results /\ run \in Nat
    BY <1>1, <2>1 DEF TypeOK, Results
  <2>4. \A x \in Tables \ {u} : rows'[x] = rows[x] /\ meta'[x] = meta[x]
    BY <1>1, <1>6, <2>1 DEF OpenMeta, TypeOK
  <2>5. meta'[u] = [run |-> run, status |-> result.status, read |-> result.read, torn |-> TRUE]
    BY <1>1, <1>6, <2>1 DEF OpenMeta, TypeOK
  <2>6. meta'[u] \in MetaFile /\ rows[u] \in RowsFile
    BY <2>2, <2>3, <2>5 DEF MetaFile, RowsFile, Results
  <2>7. rows' = rows /\ run' = run
    BY <1>6 DEF OpenMeta
  <2>8. Found(u)' = Broken
    <3>1. rows'[u] # Absent /\ meta'[u] # Absent
      BY <2>6, <2>7, AbsentAssumption
    <3> QED
      BY <2>5, <3>1 DEF Found
  <2>9. S' = [S EXCEPT ![u] = Broken]
    BY <2>1, <2>4, <2>8, StoreOne
  <2> QED
    BY <2>1, <2>7, <2>9 DEF Store!Next, Store!Break
<1>7. CASE CloseMeta
  <2>1. PICK u \in Tables : u = Head(todo) /\ stage = "close meta"
    BY <1>1, <1>7, TodoParts DEF CloseMeta
  <2>2. rows[u] = [run |-> run, some |-> result.some, torn |-> FALSE]
    BY <2>1 DEF IInv, Progress
  <2>3. meta[u] = [run |-> run, status |-> result.status, read |-> result.read, torn |-> TRUE]
    BY <2>1 DEF IInv, Progress
  <2>4. result \in Results /\ run \in Nat
    BY <1>1, <2>1 DEF TypeOK, Results
  <2>5. \A x \in Tables \ {u} : rows'[x] = rows[x] /\ meta'[x] = meta[x]
    BY <1>1, <1>7, <2>1 DEF CloseMeta, TypeOK
  <2>6. meta'[u] = [run |-> run, status |-> result.status, read |-> result.read, torn |-> FALSE]
    BY <1>1, <1>7, <2>1 DEF CloseMeta, TypeOK
  <2>7. rows' = rows /\ run' = run
    BY <1>7 DEF CloseMeta
  <2>8. rows[u] \in RowsFile /\ meta[u] \in MetaFile /\ meta'[u] \in MetaFile
    BY <2>2, <2>3, <2>4, <2>6 DEF RowsFile, MetaFile, Results
  <2>9. Found(u) = Broken /\ Found(u)' = [run |-> run, status |-> result.status]
    <3>1. rows[u] # Absent /\ meta[u] # Absent /\ rows'[u] # Absent /\ meta'[u] # Absent
      BY <2>7, <2>8, AbsentAssumption
    <3>2. Found(u) = Broken
      BY <2>3, <3>1 DEF Found
    <3>3. Found(u)' = [run |-> run, status |-> result.status]
      BY <2>2, <2>6, <2>7, <3>1 DEF Found
    <3> QED
      BY <3>2, <3>3
  <2>10. S' = [S EXCEPT ![u] = [run |-> run, status |-> result.status]]
    BY <2>1, <2>5, <2>9, StoreOne
  <2>11. S[u] = Broken /\ result.status \in Status
    BY <2>1, <2>4, <2>9 DEF Results
  <2> QED
    BY <2>1, <2>7, <2>10, <2>11 DEF Store!Next, Store!Publish
<1> QED
  BY <1>2, <1>3, <1>4, <1>5, <1>6, <1>7 DEF Next

\* The decoders, stopped anywhere and run again over exports damaged in between,
\* implement the store their readers rely on.
THEOREM DecodersImplementStore == Spec => ImplementsStore
<1>1. Init => Store!Init
  BY DEF Init, Store!Init, Found
<1>2. IInv /\ [Next]_vars => [Store!Next]_<<[t \in Tables |-> Found(t)], run>>
  BY StoreStep
<1> QED
  BY <1>1, <1>2, Invariance, PTL DEF Spec, ImplementsStore, Store!Spec

-----------------------------------------------------------------------------
(***************************************************************************)
(* Fetch.                                                                  *)
(***************************************************************************)

\* Where the script has compared what arrived with the header.
Compared == phase \in {"names", "open zip", "close zip", "unzip", "unzipping"}

\* What is known of the stream and of the two files at each place of the script.
Phases ==
  /\ phase # "idle" => code = "none"
  /\ Compared => Body(got) = BodyOf(sent[Latest])
  /\ Compared /\ phase # "names" /\ extract => sent[Latest].own
  /\ phase \in {"open zip", "close zip", "unzip"} /\ extract => dir = NoFile
  /\ phase \in {"unzip", "unzipping"} => extract /\ zip = Whole
  /\ phase = "close zip" => zip = Part
  /\ phase = "unzipping" => dir = Part

\* No file is of a later fetch than the last, and before the copy none is of it.
Dated ==
  /\ zip # NoFile => zip.fetch <= Latest
  /\ dir # NoFile => dir.fetch <= Latest
  /\ phase \in {"stream", "check", "names", "open zip"} =>
       \A f \in {zip, dir} : f # NoFile => f.fetch # Latest

FInv ==
  /\ FTypeOK
  /\ Phases
  /\ Dated
  /\ KeptIsSent
  /\ CodeIsTrue

-----------------------------------------------------------------------------
(* Types.                                                                  *)

LEMMA BodyType ==
  ASSUME NEW z, z.lines \in Nat
  PROVE  BodyOf(z) \in Seq(Lines)
<1>1. \A i \in 1 .. z.lines : Base64(i) \in Lines
  BY DEF Base64, Lines
<1> QED
  BY <1>1 DEF BodyOf

LEMMA StreamType ==
  ASSUME NEW z, z.lines \in Nat
  PROVE  Stream(z) \in Seq(Lines)
<1>1. <<Begin>> \in Seq(Lines) /\ <<End>> \in Seq(Lines)
  BY DEF Begin, End, Lines
<1>2. BodyOf(z) \in Seq(Lines)
  BY BodyType
<1>3. <<Begin>> \o BodyOf(z) \in Seq(Lines)
  BY <1>1, <1>2, ConcatProperties
<1> QED
  BY <1>1, <1>3, ConcatProperties DEF Stream

LEMMA PartType ==
  ASSUME NEW s \in Seq(Lines), NEW m \in Int, NEW n \in Int, m >= 1, n <= Len(s)
  PROVE  SubSeq(s, m, n) \in Seq(Lines)
<1>1. \A i \in m .. n : s[i] \in Lines
  BY ElementOfSeq
<1> QED
  BY <1>1, SubSeqProperties

LEMMA ArrivesType ==
  ASSUME NEW s \in Seq(Lines)
  PROVE  Arrives(s) \subseteq Seq(Lines)
<1>1. Noise \in Lines /\ Base64(0) \in Lines
  BY DEF Noise, Base64, Lines
<1>2. \A k \in 0 .. Len(s) : SubSeq(s, 1, k) \in Seq(Lines)
  BY PartType
<1>3. \A k \in 1 .. Len(s) :
        SubSeq(s, 1, k - 1) \in Seq(Lines) /\ SubSeq(s, k + 1, Len(s)) \in Seq(Lines)
  BY PartType
<1>4. \A k \in 1 .. Len(s), l \in {Noise, Base64(0)} :
        Append(SubSeq(s, 1, k - 1), l) \in Seq(Lines)
  BY <1>1, <1>3, AppendProperties
<1>5. \A m \in {<< >>, <<Noise>>, <<Base64(0)>>} : m \in Seq(Lines)
  <2>1. << >> \in Seq(Lines)
    OBVIOUS
  <2>2. <<Noise>> \in Seq(Lines)
    BY <1>1
  <2>3. <<Base64(0)>> \in Seq(Lines)
    BY <1>1
  <2> QED
    BY <2>1, <2>2, <2>3
<1>6. \A k \in 1 .. Len(s), m \in {<< >>, <<Noise>>, <<Base64(0)>>} :
        Replaced(s, k, m) \in Seq(Lines)
  BY <1>3, <1>5, ConcatProperties DEF Replaced
<1>7. Cut(s) \subseteq Seq(Lines)
  BY <1>2 DEF Cut
<1>8. CutWithin(s) \subseteq Seq(Lines)
  <2> SUFFICES ASSUME NEW a \in CutWithin(s) PROVE a \in Seq(Lines)
    OBVIOUS
  <2>1. PICK k \in 1 .. Len(s), l \in {Noise, Base64(0)} : a = Append(SubSeq(s, 1, k - 1), l)
    BY DEF CutWithin
  <2> QED
    BY <1>4, <2>1
<1>9. Altered(s) \subseteq Seq(Lines)
  <2> SUFFICES ASSUME NEW a \in Altered(s) PROVE a \in Seq(Lines)
    OBVIOUS
  <2>1. PICK k \in 1 .. Len(s), m \in {<< >>, <<Noise>>, <<Base64(0)>>} : a = Replaced(s, k, m)
    BY DEF Altered
  <2> QED
    BY <1>6, <2>1
<1> QED
  BY <1>7, <1>8, <1>9 DEF Arrives

\* The zip of the fetch under way is one of those the PC made.
LEMMA LatestZip ==
  ASSUME FTypeOK, phase # "idle"
  PROVE  Latest \in Nat \ {0} /\ sent[Latest] \in [lines : Nat, own : BOOLEAN]
<1> DEFINE Z == [lines : Nat, own : BOOLEAN]
<1>1. sent \in Seq(Z) /\ Latest > 0
  BY DEF FTypeOK
<1> HIDE DEF Z
<1>2. Len(sent) \in Nat /\ Latest = Len(sent)
  BY <1>1, LenProperties DEF Latest
<1>3. sent[Latest] \in Z
  BY <1>1, <1>2, ElementOfSeq
<1> QED
  BY <1>1, <1>2, <1>3 DEF Z

\* What is written once the stream has been compared is a file of this fetch.
LEMMA FileType ==
  ASSUME FTypeOK, Phases, Compared
  PROVE  /\ \A f \in {Part, Whole} :
              f \in Files /\ f # NoFile /\ f.fetch = Latest /\ f.body = BodyOf(sent[Latest])
         /\ Part.torn /\ ~Whole.torn
<1>1. phase # "idle"
  BY DEF Compared
<1>2. Latest \in Nat \ {0} /\ BodyOf(sent[Latest]) \in Seq(Lines)
  BY <1>1, LatestZip, BodyType
<1>3. Body(got) = BodyOf(sent[Latest])
  BY DEF Phases
<1>4. Part \in Files /\ Whole \in Files
  BY <1>2, <1>3 DEF Part, Whole, File, Files
<1>5. Part # NoFile /\ Whole # NoFile
  BY <1>4, FilesAssumption
<1>6. Part.fetch = Latest /\ Part.body = BodyOf(sent[Latest]) /\ Part.torn
  BY <1>3 DEF Part, File
<1>7. Whole.fetch = Latest /\ Whole.body = BodyOf(sent[Latest]) /\ ~Whole.torn
  BY <1>3 DEF Whole, File
<1> QED
  BY <1>4, <1>5, <1>6, <1>7

-----------------------------------------------------------------------------
(* The invariant.                                                          *)

LEMMA FInitInv == FInit => FInv
<1> SUFFICES ASSUME FInit PROVE FInv
  OBVIOUS
<1>1. FTypeOK
  <2>1. << >> \in Seq([lines : Nat, own : BOOLEAN]) /\ << >> \in Seq(Lines)
    OBVIOUS
  <2> QED
    BY <2>1 DEF FInit, FTypeOK
<1>2. Phases /\ Dated /\ KeptIsSent /\ CodeIsTrue
  BY DEF FInit, Phases, Compared, Dated, KeptIsSent, CodeIsTrue
<1> QED
  BY <1>1, <1>2 DEF FInv

LEMMA StartStep ==
  ASSUME FInv, StartFetch
  PROVE  FInv'
<1>1. PICK n \in 1 .. MaxLines, own \in BOOLEAN : sent' = Append(sent, [lines |-> n, own |-> own])
  BY DEF StartFetch
<1>2. [lines |-> n, own |-> own] \in [lines : Nat, own : BOOLEAN]
  BY BoundsAssumption
<1>3. sent \in Seq([lines : Nat, own : BOOLEAN]) /\ zip \in Files \union {NoFile}
        /\ dir \in Files \union {NoFile}
  BY DEF FInv, FTypeOK
<1>4. /\ sent' \in Seq([lines : Nat, own : BOOLEAN])
      /\ Latest' = Latest + 1 /\ Latest \in Nat
      /\ \A i \in 1 .. Latest : sent'[i] = sent[i]
  BY <1>1, <1>2, <1>3, AppendProperties DEF Latest
<1>5. << >> \in Seq(Lines)
  OBVIOUS
<1>6. FTypeOK'
  BY <1>4, <1>5 DEF StartFetch, FInv, FTypeOK
<1>7. (zip # NoFile => zip.fetch \in 1 .. Latest) /\ (dir # NoFile => dir.fetch \in 1 .. Latest)
  <2>1. \A f \in Files : f.fetch \in Nat /\ f.fetch # 0
    BY DEF Files
  <2>2. (zip # NoFile => zip.fetch <= Latest) /\ (dir # NoFile => dir.fetch <= Latest)
    BY DEF FInv, Dated
  <2>3. Latest \in Nat
    BY <1>4
  <2>4. ASSUME NEW f \in Files, f.fetch <= Latest PROVE f.fetch \in 1 .. Latest
    BY <2>1, <2>3, <2>4
  <2> QED
    BY <1>3, <2>2, <2>4
<1>8. UNCHANGED <<zip, dir>>
  BY DEF StartFetch
<1>9. KeptIsSent'
  BY <1>4, <1>7, <1>8 DEF FInv, KeptIsSent
<1>10. Dated'
  <2>1. zip' # NoFile => zip'.fetch <= Latest' /\ zip'.fetch # Latest'
    BY <1>4, <1>7, <1>8
  <2>2. dir' # NoFile => dir'.fetch <= Latest' /\ dir'.fetch # Latest'
    BY <1>4, <1>7, <1>8
  <2> QED
    BY <2>1, <2>2 DEF Dated
<1>11. Phases' /\ CodeIsTrue'
  BY DEF StartFetch, Phases, Compared, CodeIsTrue
<1> QED
  BY <1>6, <1>9, <1>10, <1>11 DEF FInv

LEMMA AnswerStep ==
  ASSUME FInv, Answer
  PROVE  FInv'
<1>1. got' \in Seq(Lines)
  <2>1. Arrives(Stream(sent[Latest])) \subseteq Seq(Lines)
    BY LatestZip, StreamType, ArrivesType DEF FInv, Answer
  <2> QED
    BY <2>1 DEF Answer, Exit, FInv, FTypeOK
<1>2. UNCHANGED <<sent, zip, dir, extract>> /\ phase' \in {"idle", "check"} /\ phase = "stream"
        /\ code' \in {"failed", "none"} /\ (phase' = "check" => code' = "none")
  BY DEF Answer, Exit, FInv, Phases
<1>3. FTypeOK'
  BY <1>1, <1>2 DEF FInv, FTypeOK, Latest
<1>4. Dated' /\ KeptIsSent'
  BY <1>2 DEF FInv, Dated, KeptIsSent, Latest
<1>5. Phases' /\ CodeIsTrue'
  BY <1>2 DEF Phases, Compared, CodeIsTrue
<1> QED
  BY <1>3, <1>4, <1>5 DEF FInv

LEMMA CheckStep ==
  ASSUME FInv, Check \/ CheckNames
  PROVE  FInv'
<1>1. UNCHANGED <<sent, got, zip, dir, extract>> /\ phase \in {"check", "names"}
  BY DEF Check, CheckNames
<1>2. \/ phase' = "idle" /\ code' \in {"integrity", "failed"}
      \/ /\ phase' \in {"names", "open zip"} /\ code' = code
         /\ Body(got) = BodyOf(sent[Latest])
         /\ phase' = "open zip" /\ extract => dir = NoFile /\ sent[Latest].own
  BY DEF Check, CheckNames, Exit, Accepts, FInv, Phases, Compared
<1>3. FTypeOK'
  BY <1>1, <1>2 DEF FInv, FTypeOK, Latest
<1>4. Dated' /\ KeptIsSent'
  BY <1>1, <1>2 DEF FInv, Dated, KeptIsSent, Latest
<1>5. Phases'
  BY <1>1, <1>2 DEF FInv, Phases, Compared, Latest
<1>6. CodeIsTrue'
  BY <1>1, <1>2 DEF FInv, CodeIsTrue, Phases, Dated, Latest
<1> QED
  BY <1>3, <1>4, <1>5, <1>6 DEF FInv

LEMMA WriteStep ==
  ASSUME FInv, OpenZip \/ CloseZip \/ Unzip \/ Unzipped
  PROVE  FInv'
<1>1. Compared /\ UNCHANGED <<sent, got, extract>>
  BY DEF OpenZip, CloseZip, Unzip, Unzipped, Compared
<1>2. Latest' = Latest /\ Latest \in Nat \ {0}
  BY <1>1, LatestZip DEF FInv, Latest, Compared
<1>3. /\ \A f \in {Part, Whole} :
           f \in Files /\ f # NoFile /\ f.fetch = Latest /\ f.body = BodyOf(sent[Latest])
      /\ Part.torn /\ ~Whole.torn
  BY <1>1, FileType DEF FInv
<1>4. Part' = Part /\ Whole' = Whole
  BY <1>1 DEF Part, Whole, File, Latest
<1>5. zip' \in {zip, Part, Whole} /\ dir' \in {dir, Part, Whole}
  BY DEF OpenZip, CloseZip, Unzip, Unzipped
<1>6. phase' \in {"idle", "close zip", "unzip", "unzipping"} /\ code' \in {"none", "ok"}
        /\ (phase' # "idle" => code' = "none")
  BY DEF OpenZip, CloseZip, Unzip, Unzipped, Exit, FInv, Phases
<1>7. FTypeOK'
  <2>1. zip' \in Files \union {NoFile} /\ dir' \in Files \union {NoFile}
    BY <1>3, <1>5 DEF FInv, FTypeOK
  <2>2. sent' \in Seq([lines : Nat, own : BOOLEAN]) /\ got' \in Seq(Lines) /\ extract' \in BOOLEAN
    BY <1>1 DEF FInv, FTypeOK
  <2>3. phase' # "idle" => Latest' > 0
    BY <1>2
  <2> QED
    BY <1>6, <2>1, <2>2, <2>3 DEF FTypeOK
<1>8. Dated'
  <2>1. (zip # NoFile => zip.fetch <= Latest) /\ (dir # NoFile => dir.fetch <= Latest)
    BY DEF FInv, Dated
  <2>2. Part.fetch = Latest /\ Whole.fetch = Latest
    BY <1>3
  <2>3. Latest <= Latest
    BY <1>2
  <2>4. zip' # NoFile => zip'.fetch <= Latest'
    BY <1>2, <1>5, <2>1, <2>2, <2>3, Zenon
  <2>5. dir' # NoFile => dir'.fetch <= Latest'
    BY <1>2, <1>5, <2>1, <2>2, <2>3, Zenon
  <2> QED
    BY <1>6, <2>4, <2>5 DEF Dated
<1>9. dir' = dir \/ sent[Latest].own
  BY DEF OpenZip, CloseZip, Unzip, Unzipped, FInv, Phases, Compared
<1>10. KeptIsSent'
  BY <1>1, <1>3, <1>5, <1>9 DEF FInv, KeptIsSent
<1>11. Phases'
  <2>1. Body(got)' = BodyOf(sent[Latest])'
    BY <1>1, <1>2 DEF FInv, Phases, Body, BodyOf
  <2>2. extract => sent[Latest].own
    BY DEF OpenZip, CloseZip, Unzip, Unzipped, FInv, Phases, Compared
  <2>3. Compared' => Body(got)' = BodyOf(sent[Latest])' /\ (extract' => sent[Latest]'.own)
    BY <1>1, <1>2, <2>1, <2>2
  <2>4. CASE OpenZip
    <3>1. phase' = "close zip" /\ zip' = Part' /\ dir' = dir
      BY <1>4, <2>4 DEF OpenZip
    <3>2. extract => dir = NoFile
      BY <2>4 DEF OpenZip, FInv, Phases
    <3>3. extract' => dir' = NoFile
      BY <1>1, <3>1, <3>2
    <3> QED
      BY <1>6, <2>3, <3>1, <3>3 DEF Phases
  <2>5. CASE CloseZip
    <3>1. zip' = Whole' /\ dir' = dir /\ phase' \in {"idle", "unzip"}
      BY <1>4, <2>5 DEF CloseZip, Exit
    <3>2. phase' = "unzip" => extract
      BY <2>5 DEF CloseZip, Exit
    <3>3. extract => dir = NoFile
      BY <2>5 DEF CloseZip, FInv, Phases
    <3>4. (extract' => dir' = NoFile) /\ (phase' = "unzip" => extract')
      BY <1>1, <3>1, <3>2, <3>3
    <3> QED
      BY <1>6, <2>3, <3>1, <3>4 DEF Phases
  <2>6. CASE Unzip
    <3>1. phase' = "unzipping" /\ zip' = Whole' /\ dir' = Part' /\ extract'
      BY <1>1, <1>4, <2>6 DEF Unzip, FInv, Phases
    <3> QED
      BY <1>6, <2>3, <3>1 DEF Phases
  <2>7. CASE Unzipped
    BY <1>6, <2>7 DEF Unzipped, Exit, Phases, Compared
  <2> QED
    BY <2>4, <2>5, <2>6, <2>7
<1>12. CodeIsTrue'
  <2> SUFFICES ASSUME code' = "ok"
               PROVE  /\ zip' # NoFile /\ zip'.fetch = Latest' /\ ~zip'.torn
                      /\ extract' /\ dir' # NoFile => dir'.fetch = Latest' /\ ~dir'.torn
    BY <1>6 DEF CodeIsTrue
  <2>1. CASE CloseZip
    <3>1. code # "ok"
      BY <2>1 DEF CloseZip, FInv, Phases
    <3>2. zip' = Whole /\ ~extract
      BY <2>1, <3>1 DEF CloseZip, Exit
    <3> QED
      BY <1>1, <1>2, <1>3, <3>2
  <2>2. CASE Unzipped
    BY <1>2, <1>3, <2>2 DEF Unzipped, Exit, FInv, Phases
  <2>3. CASE OpenZip \/ Unzip
    BY <2>3 DEF OpenZip, Unzip, FInv, Phases
  <2> QED
    BY <2>1, <2>2, <2>3
<1> QED
  BY <1>7, <1>8, <1>10, <1>11, <1>12 DEF FInv

LEMMA StopStep ==
  ASSUME FInv, Stop \/ MoveAway
  PROVE  FInv'
<1>1. UNCHANGED <<sent, got, zip, extract>> /\ phase' = "idle" /\ dir' \in {dir, NoFile}
        /\ code' \in {code, "failed", "none"}
  BY DEF Stop, MoveAway, Exit
<1>2. FTypeOK'
  BY <1>1 DEF FInv, FTypeOK, Latest
<1>3. Dated' /\ KeptIsSent' /\ CodeIsTrue'
  BY <1>1 DEF FInv, Dated, KeptIsSent, CodeIsTrue, Latest
<1>4. Phases'
  BY <1>1 DEF Phases, Compared
<1> QED
  BY <1>2, <1>3, <1>4 DEF FInv

LEMMA FInvariance == FSpec => []FInv
<1>1. FInit => FInv
  BY FInitInv
<1>2. FInv /\ [FNext]_fvars => FInv'
  <2> SUFFICES ASSUME FInv, [FNext]_fvars PROVE FInv'
    OBVIOUS
  <2>1. CASE UNCHANGED fvars
    BY <2>1 DEF fvars, FInv, FTypeOK, Phases, Compared, Dated, KeptIsSent, CodeIsTrue, Part, Whole, File, Latest
  <2> QED
    BY <2>1, StartStep, AnswerStep, CheckStep, WriteStep, StopStep DEF FNext
<1> QED
  BY <1>1, <1>2, PTL DEF FSpec

-----------------------------------------------------------------------------
(* What follows.                                                           *)

\* The type invariant, for any bounds.
THEOREM FetchTypes == FSpec => []FTypeOK
  BY FInvariance, PTL DEF FInv

\* Whatever the channel does to any fetch, what is kept is what the PC sent.
THEOREM WhatIsKeptWasSent == FSpec => []KeptIsSent
  BY FInvariance, PTL DEF FInv

\* Exit codes 0 and 3 say what is there and what is not.
THEOREM ExitCodeIsTrue == FSpec => []CodeIsTrue
  BY FInvariance, PTL DEF FInv

\* No fetch touches the directory an earlier one unpacked.
THEOREM UnpackedIsSafe == FSpec => UnpackedStays
<1>1. FInv /\ [FNext]_fvars =>
        [dir # NoFile /\ dir' # NoFile => dir' = dir \/ (dir.torn /\ dir.fetch = Latest)]_fvars
  <2> SUFFICES ASSUME FInv, FNext, dir # NoFile, dir' # NoFile, dir' # dir
               PROVE  dir.torn /\ dir.fetch = Latest
    BY DEF fvars
  <2>1. Unzip \/ Unzipped
    BY DEF FNext, StartFetch, Answer, Check, CheckNames, OpenZip, CloseZip, Stop, MoveAway
  <2>2. CASE Unzip
    BY <2>2 DEF Unzip, FInv, Phases
  <2>3. CASE Unzipped
    BY <2>3, FileType DEF Unzipped, FInv, Phases, Compared
  <2> QED
    BY <2>1, <2>2, <2>3
<1> QED
  BY <1>1, FInvariance, PTL DEF FSpec, UnpackedStays

\* One step of the script is one step of the store, or none.
LEMMA DeliveryStep ==
  FInv /\ [FNext]_fvars => [Delivery!Next]_<<[t \in {"zip"} |-> FoundZip], Latest>>
<1> DEFINE S == [t \in {"zip"} |-> FoundZip]
<1> SUFFICES ASSUME FInv, [FNext]_fvars
             PROVE  Delivery!Next \/ UNCHANGED <<S, Latest>>
  OBVIOUS
<1>1. CASE StartFetch
  <2>1. S' = S
    BY <1>1 DEF StartFetch, FoundZip
  <2>2. Latest' = Latest + 1
    BY <1>1, AppendProperties DEF StartFetch, FInv, FTypeOK, Latest
  <2> QED
    BY <2>1, <2>2 DEF Delivery!Next, Delivery!Begin
<1>2. CASE OpenZip
  <2>1. zip' = Part /\ Latest' = Latest
    BY <1>2 DEF OpenZip, Latest
  <2>2. zip' # NoFile /\ zip'.torn
    BY <1>2, <2>1, FileType DEF OpenZip, FInv, Compared
  <2>3. S' = [S EXCEPT !["zip"] = BrokenZip]
    BY <2>2 DEF FoundZip
  <2> QED
    BY <2>1, <2>3 DEF Delivery!Next, Delivery!Break
<1>3. CASE CloseZip
  <2>1. zip = Part /\ zip' = Whole /\ Latest' = Latest
    BY <1>3 DEF CloseZip, FInv, Phases, Latest
  <2>2. zip # NoFile /\ zip.torn /\ zip' # NoFile /\ ~zip'.torn /\ zip'.fetch = Latest
    BY <1>3, <2>1, FileType DEF CloseZip, FInv, Compared
  <2>3. S["zip"] = BrokenZip
    BY <2>2 DEF FoundZip
  <2>4. S' = [S EXCEPT !["zip"] = [run |-> Latest, status |-> "kept"]]
    BY <2>2 DEF FoundZip
  <2> QED
    BY <2>1, <2>3, <2>4 DEF Delivery!Next, Delivery!Publish
<1>4. CASE Answer \/ Check \/ CheckNames \/ Unzip \/ Unzipped \/ Stop \/ MoveAway \/ UNCHANGED fvars
  <2>1. zip' = zip /\ sent' = sent
    BY <1>4 DEF Answer, Check, CheckNames, Unzip, Unzipped, Stop, MoveAway, fvars
  <2> QED
    BY <2>1 DEF FoundZip, Latest
<1> QED
  BY <1>1, <1>2, <1>3, <1>4 DEF FNext

\* The fetches, over any channel and stopped anywhere, implement a store of one file.
THEOREM FetchImplementsStore == FSpec => ImplementsDelivery
<1>1. FInit => Delivery!Init
  BY DEF FInit, Delivery!Init, FoundZip, Latest
<1>2. FInv /\ [FNext]_fvars => [Delivery!Next]_<<[t \in {"zip"} |-> FoundZip], Latest>>
  BY DeliveryStep
<1> QED
  BY <1>1, <1>2, FInvariance, PTL DEF FSpec, ImplementsDelivery, Delivery!Spec
=============================================================================

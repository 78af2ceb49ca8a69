------------------------- MODULE EventSourceProofs -------------------------
(***************************************************************************)
(* What TLAPS proves of EventSource, for every window, deadline, cap and   *)
(* length of the run.                                                      *)
(***************************************************************************)
EXTENDS EventSource, FiniteSetTheorems, WellFoundedInduction, TLAPS

\* A non-empty set of naturals has a least element, ...
LEMMA MinNat ==
  ASSUME NEW S \in SUBSET Nat, S # {}
  PROVE  Min(S) \in S /\ \A y \in S : Min(S) <= y
<1>1. PICK x \in S : \A y \in S : ~ (<<y, x>> \in OpToRel(<, Nat))
  BY NatLessThanWellFounded, WFMin
<1>2. \A y \in S : x <= y
  <2> SUFFICES ASSUME NEW y \in S PROVE x <= y
    OBVIOUS
  <2>1. <<y, x>> \in Nat \X Nat
    OBVIOUS
  <2>2. ~ (y < x)
    BY <1>1, <2>1 DEF OpToRel
  <2> QED
    BY <2>2
<1> QED
  BY <1>2 DEF Min

\* ... and a bounded one a greatest element.
LEMMA MaxNat ==
  ASSUME NEW n \in Nat, NEW S \in SUBSET (0 .. n), S # {}
  PROVE  Max(S) \in S /\ \A y \in S : y <= Max(S)
<1> DEFINE M == {n - x : x \in S}
<1>1. M \in SUBSET Nat /\ M # {}
  <2>1. \A x \in S : n - x \in Nat
    OBVIOUS
  <2>2. \A m \in M : m \in Nat
    BY <2>1
  <2>3. M # {}
    OBVIOUS
  <2> QED
    BY <2>2, <2>3
<1>2. PICK m \in M : \A y \in M : m <= y
  BY <1>1, MinNat
<1>3. PICK x \in S : m = n - x
  OBVIOUS
<1>4. \A y \in S : x >= y
  <2> SUFFICES ASSUME NEW y \in S PROVE x >= y
    OBVIOUS
  <2>1. n - y \in M
    OBVIOUS
  <2>2. n - x <= n - y
    BY <1>2, <1>3, <2>1
  <2> QED
    BY <2>2
<1> QED
  BY <1>4 DEF Max

-----------------------------------------------------------------------------

Opening  == {"start", "open"}
Deciding == {"probe", "write", "export", "conclude"}

\* The read ended by itself.
Complete == error = "none" /\ ~truncated

\* Records of the interval that are not in the accumulator.
Unread == {i \in 1 .. Len(ever) : InQuery(i) /\ i \notin rows}

\* How the parts of the source's state go together, step by step.
Position ==
  /\ pc # "start" => windowEnd < now
  /\ pc \in Opening => rows = {}
  /\ pc \in Opening \cup {"read", "export"} => Complete
  /\ pc \in Opening \cup {"read", "probe"} => oldest = None
  /\ pc \in Opening \cup {"read", "probe", "write"} =>
       primary = None /\ evtx = None
  /\ pc \in {"export", "conclude"} =>
       primary = IF error = "none" THEN rows ELSE None
  /\ evtx # None => evtx \subseteq rows
  /\ pc = "done" /\ primary # None =>
       /\ primary = rows
       /\ status \in Observed \/ (truncated /\ rows # {})

\* The rows are records of the interval, and none is missing between them.
Gapless ==
  /\ \A i \in rows : InQuery(i)
  /\ \A i \in Unread, j \in rows : i < j

\* What the reader has passed and not kept, the log had dropped.
Passed ==
  pc = "read" => \A i \in Unread : i < pos \/ i < first

\* When the read has ended by itself, so is all it has not kept.
Ended ==
  (pc \in Deciding /\ Complete) => \A i \in Unread : i < first

Inv == TypeOK /\ Position /\ Gapless /\ Passed /\ Ended

\* Without a clock that is set back the numbers follow the times, and what was
\* dropped unread is no later than the record the probe found.
InOrder ==
  /\ \A i \in 1 .. Len(ever) : ever[i].at <= now
  /\ \A i, j \in 1 .. Len(ever) : i < j => ever[i].at <= ever[j].at

Proved ==
  (pc \in {"write", "export", "conclude"} /\ Complete /\ oldest # None) =>
    \A i \in Unread : ever[i].at <= oldest

CoverInv ==
  Inv /\ (setback = 0 => InOrder /\ Proved /\ CoveredComplete)

-----------------------------------------------------------------------------

LEMMA Constants ==
  /\ Window \in Nat /\ Timeout \in Nat /\ MaxEvents \in Nat \ {0}
  /\ MaxRecords \in Nat /\ LastTime \in Nat /\ SetsBack \in Nat
  BY ConstantsAssumption

LEMMA StatusType ==
  ASSUME NEW e, NEW n, NEW t, NEW o, NEW v
  PROVE  SourceStatus(e, n, t, o, v) \in Statuses
  BY DEF SourceStatus, Statuses, Observed, ReadErrors

\* The next record a pull returns is the newest one not pulled yet.
LEMMA AheadMax ==
  ASSUME TypeOK, Ahead # {}
  PROVE  /\ Max(Ahead) \in Ahead
         /\ \A i \in Ahead : i <= Max(Ahead)
         /\ Ahead \subseteq 1 .. Len(ever)
<1>1. Len(ever) \in Nat
  BY DEF TypeOK
<1>2. Ahead \subseteq 1 .. Len(ever)
  BY <1>1 DEF Ahead, Retained, TypeOK
<1>3. Ahead \in SUBSET (0 .. Len(ever))
  BY <1>1, <1>2
<1> QED
  BY <1>1, <1>2, <1>3, MaxNat

LEMMA InitInv == Init => Inv
<1> SUFFICES ASSUME Init PROVE Inv
  OBVIOUS
<1> USE Constants DEF Init
<1>1. TypeOK
  <2>1. Cardinality(rows) <= MaxEvents
    BY FS_EmptySet
  <2>2. ever \in Seq(Record) /\ Len(ever) = 0
    OBVIOUS
  <2>3. rows \in SUBSET (1 .. Len(ever))
    OBVIOUS
  <2>4. now \in Time /\ windowEnd \in Time /\ setback \in 0 .. SetsBack
    BY DEF Time
  <2>5. first \in 1 .. Len(ever) + 1
    BY <2>2
  <2>6. pc \in Steps /\ status \in Statuses
    BY DEF Steps, Statuses
  <2> QED
    BY <2>1, <2>2, <2>3, <2>4, <2>5, <2>6 DEF TypeOK
<1>2. Position /\ Gapless /\ Passed /\ Ended
  BY DEF Position, Gapless, Passed, Ended, Opening, Deciding, Complete
<1> QED
  BY <1>1, <1>2 DEF Inv

\* A record raised once the interval is fixed is not in it.
LEMMA Raised ==
  ASSUME Inv, Raise
  PROVE  /\ ever' \in Seq(Record) /\ Len(ever') = Len(ever) + 1
         /\ \A i \in 1 .. Len(ever) : ever'[i] = ever[i]
         /\ ever'[Len(ever) + 1].at = now
         /\ first' \in 1 .. Len(ever') + 1 /\ first <= first'
         /\ pc # "start" => Unread' = Unread
         /\ \A i \in rows : InQuery(i)'
<1> USE Constants
<1>1. PICK m \in BOOLEAN : ever' = Append(ever, [at |-> now, matches |-> m])
  BY DEF Raise
<1>2. /\ ever \in Seq(Record) /\ Len(ever) \in Nat /\ first \in 1 .. Len(ever) + 1
      /\ rows \subseteq 1 .. Len(ever)
  BY DEF Inv, TypeOK
<1>3. [at |-> now, matches |-> m] \in Record
  BY DEF Inv, TypeOK, Record
<1>4. /\ ever' \in Seq(Record) /\ Len(ever') = Len(ever) + 1
      /\ \A i \in 1 .. Len(ever) : ever'[i] = ever[i]
      /\ ever'[Len(ever) + 1] = [at |-> now, matches |-> m]
  BY <1>1, <1>2, <1>3
<1>5. first' \in 1 .. Len(ever') + 1 /\ first <= first'
  BY <1>2, <1>4 DEF Raise
<1>6. \A i \in 1 .. Len(ever) : InQuery(i)' <=> InQuery(i)
  BY <1>4 DEF InQuery, WindowStart, Raise
<1>7. ASSUME pc # "start", NEW n, n = Len(ever) + 1 PROVE ~ InQuery(n)'
  <2>1. windowEnd < now /\ now \in Int /\ windowEnd \in Int
    BY <1>7 DEF Inv, Position, TypeOK, Time
  <2>2. ever'[n].at = now
    BY <1>4, <1>7
  <2>3. windowEnd' = windowEnd
    BY DEF Raise
  <2> QED
    BY <2>1, <2>2, <2>3 DEF InQuery
<1>8. pc # "start" => Unread' = Unread
  <2> SUFFICES ASSUME pc # "start" PROVE Unread' = Unread
    OBVIOUS
  <2>1. \A i : i \in 1 .. Len(ever') <=> i \in 1 .. Len(ever) \/ i = Len(ever) + 1
    BY <1>2, <1>4
  <2>2. rows' = rows
    BY DEF Raise, read
  <2> QED
    BY <1>6, <1>7, <2>1, <2>2 DEF Unread
<1>9. \A i \in rows : InQuery(i)'
  BY <1>2, <1>6 DEF Inv, Gapless
<1> QED
  BY <1>4, <1>5, <1>8, <1>9

LEMMA TypeStep ==
  ASSUME Inv, [Next]_vars
  PROVE  TypeOK'
<1> USE Constants
<1>0. TypeOK
  BY DEF Inv
<1>a. /\ ever \in Seq(Record) /\ Len(ever) \in Nat
      /\ \A i \in 1 .. Len(ever) : ever[i].at \in Time
  <2>1. ever \in Seq(Record) /\ Len(ever) \in Nat
    BY <1>0 DEF TypeOK
  <2>2. \A i \in 1 .. Len(ever) : ever[i] \in Record
    BY <2>1
  <2> QED
    BY <2>1, <2>2 DEF Record
<1>1. CASE Tick
  BY <1>0, <1>1 DEF TypeOK, Tick, log, read, entry, Time
<1>2. CASE Raise
  <2>1. 1 .. Len(ever) \subseteq 1 .. Len(ever')
    BY <1>2, <1>a, Raised
  <2> QED
    BY <1>0, <1>2, <2>1, Raised DEF TypeOK, Raise, clock, read, entry
<1>3. CASE Clear
  BY <1>0, <1>3, <1>a DEF TypeOK, Clear, clock, read, entry
<1>4. CASE SetBack
  BY <1>0, <1>4 DEF TypeOK, SetBack, log, read, entry, Time
<1>5. CASE Begin
  BY <1>0, <1>5 DEF TypeOK, Begin, Goto, log, read, entry, Time, Steps
<1>6. CASE OpenRefused
  BY <1>0, <1>6 DEF TypeOK, OpenRefused, Goto, clock, log, entry, Steps
<1>7. CASE Opened
  BY <1>0, <1>7, <1>a DEF TypeOK, Opened, Goto, clock, log, entry, Steps
<1>8. CASE PullEnd
  BY <1>0, <1>8 DEF TypeOK, PullEnd, Goto, clock, log, read, entry, Steps
<1>9. CASE PullRow
  <2>1. Max(Ahead) \in 1 .. Len(ever)
    BY <1>0, <1>9, AheadMax DEF PullRow
  <2>2. IsFiniteSet(rows)
    <3>1. IsFiniteSet(1 .. Len(ever))
      BY <1>a, FS_Interval
    <3> QED
      BY <1>0, <3>1, FS_Subset DEF TypeOK
  <2>3. Cardinality(rows) \in Nat /\ Cardinality(rows) < MaxEvents
    BY <1>9, <2>2, FS_CardinalityType DEF PullRow
  <2>4. Cardinality(rows \cup {Max(Ahead)}) <= MaxEvents
    BY <2>2, <2>3, FS_AddElement
  <2>5. /\ rows' \in SUBSET (1 .. Len(ever')) /\ Cardinality(rows') <= MaxEvents
        /\ pos' \in Nat
    <3>1. rows' = rows \cup {Max(Ahead)} /\ ever' = ever /\ pos' = Max(Ahead)
      BY <1>9 DEF PullRow, log
    <3>2. rows \in SUBSET (1 .. Len(ever))
      BY <1>0 DEF TypeOK
    <3>3. rows' \in SUBSET (1 .. Len(ever'))
      BY <2>1, <3>1, <3>2
    <3>4. Cardinality(rows') <= MaxEvents
      BY <2>4, <3>1
    <3>5. pos' \in Nat
      BY <1>a, <2>1, <3>1
    <3> QED
      BY <3>3, <3>4, <3>5
  <2> QED
    BY <1>0, <1>9, <2>5 DEF TypeOK, PullRow, clock, log, entry
<1>10. CASE PullCut
  <2>1. Max(Ahead) \in 1 .. Len(ever)
    BY <1>0, <1>10, AheadMax DEF PullCut
  <2> QED
    BY <1>0, <1>10, <2>1 DEF TypeOK, PullCut, Goto, clock, log, entry, Steps
<1>11. CASE PullFails
  BY <1>0, <1>11
  DEF TypeOK, PullFails, Goto, clock, log, entry, Steps, ReadErrors
<1>12. CASE Probe
  <2>1. oldest' \in Time \cup {None}
    <3>1. CASE Retained # {} /\ oldest' = ever[first].at
      <4>1. first \in 1 .. Len(ever)
        BY <1>0, <1>a, <3>1 DEF TypeOK, Retained
      <4> QED
        BY <1>a, <3>1, <4>1
    <3> QED
      BY <1>12, <3>1 DEF Probe
  <2> QED
    BY <1>0, <1>12, <2>1 DEF TypeOK, Probe, Goto, clock, log, read, entry, Steps
<1>13. CASE Write
  BY <1>0, <1>13 DEF TypeOK, Write, Goto, clock, log, read, Steps
<1>14. CASE Export
  <2>1. evtx' \in {None} \cup SUBSET (1 .. Len(ever))
    BY <1>0, <1>14, <1>a DEF TypeOK, Export, Retained
  <2> QED
    BY <1>0, <1>14, <2>1 DEF TypeOK, Export, Goto, clock, log, read, Steps
<1>15. CASE Conclude
  <2>1. status' \in Statuses
    BY <1>15, StatusType DEF Conclude, Conclusion
  <2>2. covered' \in Int \cup {None}
    <3>1. WindowStart \in Int
      BY <1>0 DEF TypeOK, WindowStart, Time
    <3>2. oldest \in Int \cup {None}
      BY <1>0 DEF TypeOK, Time
    <3>3. rows # {} => ever[Min(rows)].at \in Int
      <4> SUFFICES ASSUME rows # {} PROVE ever[Min(rows)].at \in Int
        OBVIOUS
      <4>1. rows \in SUBSET Nat /\ rows \subseteq 1 .. Len(ever)
        BY <1>0, <1>a DEF TypeOK
      <4>2. Min(rows) \in 1 .. Len(ever)
        BY <4>1, MinNat
      <4> QED
        BY <1>a, <4>2 DEF Time
    <3>4. covered' = CoveredStart
      BY <1>15 DEF Conclude
    <3> QED
      BY <3>1, <3>2, <3>3, <3>4 DEF CoveredStart
  <2>3. primary' \in {None, primary}
    BY <1>15 DEF Conclude
  <2> QED
    BY <1>0, <1>15, <2>1, <2>2, <2>3
    DEF TypeOK, Conclude, Goto, clock, log, read, Steps
<1>16. CASE Raises
  BY <1>0, <1>16
  DEF TypeOK, Raises, clock, log, read, Steps, Statuses
<1>17. CASE UNCHANGED vars
  BY <1>0, <1>17 DEF TypeOK, vars, clock, log, read, entry
<1> QED
  BY <1>1, <1>2, <1>3, <1>4, <1>5, <1>6, <1>7, <1>8, <1>9, <1>10, <1>11,
     <1>12, <1>13, <1>14, <1>15, <1>16, <1>17 DEF Next, Machine, Source

LEMMA InvStep ==
  ASSUME Inv, [Next]_vars
  PROVE  Inv'
<1> USE Constants
<1>0. TypeOK'
  BY TypeStep
<1>a. TypeOK /\ Position /\ Gapless /\ Passed /\ Ended
  BY DEF Inv
<1>b. /\ Len(ever) \in Nat /\ first \in Nat /\ now \in Int /\ windowEnd \in Int
      /\ pos \in Nat /\ rows \subseteq 1 .. Len(ever)
  BY <1>a DEF TypeOK, Time
<1> SUFFICES Position' /\ Gapless' /\ Passed' /\ Ended'
  BY <1>0 DEF Inv
\* Every step but one that raises a record, begins, or keeps a row leaves the
\* rows and the records of the interval as they are.
<1>c. ASSUME ever' = ever, rows' = rows, windowEnd' = windowEnd
      PROVE  /\ Unread' = Unread /\ Gapless'
             /\ \A i : InQuery(i)' <=> InQuery(i)
  <2>1. \A i : InQuery(i)' <=> InQuery(i)
    BY <1>c DEF InQuery, WindowStart
  <2>2. Unread' = Unread
    BY <1>c, <2>1 DEF Unread
  <2> QED
    BY <1>a, <1>c, <2>1, <2>2 DEF Gapless
<1>1. CASE Tick
  BY <1>a, <1>b, <1>c, <1>1
  DEF Tick, log, read, entry, Position, Passed, Ended, Complete
<1>2. CASE Raise
  <2>1. Position'
    BY <1>a, <1>2
    DEF Raise, clock, read, entry, Position, Complete
  <2>2. CASE pc = "start"
    BY <1>a, <1>2, <2>1, <2>2
    DEF Raise, clock, read, entry, Position, Opening, Deciding, Gapless,
        Passed, Ended
  <2>3. CASE pc # "start"
    <3>1. /\ Unread' = Unread /\ rows' = rows /\ pos' = pos /\ pc' = pc
          /\ error' = error /\ truncated' = truncated
          /\ first' \in Nat /\ first <= first'
      BY <1>2, <2>3, Raised DEF Raise, read
    <3>2. Gapless'
      BY <1>2, <1>a, <3>1, Raised DEF Gapless
    <3>3. \A i \in Unread : i \in Nat
      BY <1>b DEF Unread
    <3>4. Passed' /\ Ended'
      BY <1>a, <1>b, <3>1, <3>3 DEF Passed, Ended, Complete
    <3> QED
      BY <2>1, <3>2, <3>4
  <2> QED
    BY <2>2, <2>3
<1>3. CASE Clear
  <2>1. first' \in Nat /\ \A i \in Unread : i \in Nat /\ i < first'
    BY <1>b, <1>3 DEF Clear, Unread
  <2> QED
    BY <1>a, <1>c, <1>3, <2>1
    DEF Clear, clock, read, entry, Position, Passed, Ended, Complete
<1>4. CASE SetBack
  BY <1>a, <1>c, <1>4
  DEF SetBack, log, read, entry, Position, Passed, Ended, Complete, Deciding
<1>5. CASE Begin
  <2>1. windowEnd' < now'
    BY <1>b, <1>5 DEF Begin
  <2>2. rows' = {} /\ pc' = "open"
    BY <1>a, <1>5 DEF Begin, Goto, read, Position, Opening
  <2> QED
    BY <1>a, <1>5, <2>1, <2>2
    DEF Begin, Goto, log, read, entry, Position, Passed, Ended, Complete,
        Opening, Deciding, Gapless
<1>6. CASE OpenRefused
  BY <1>a, <1>c, <1>6
  DEF OpenRefused, Goto, clock, log, entry, Position, Passed, Ended, Complete,
      Opening, Deciding, OpenErrors
<1>7. CASE Opened
  <2>1. \A i \in Unread : i < pos'
    BY <1>b, <1>7 DEF Opened, Unread
  <2> QED
    BY <1>a, <1>c, <1>7, <2>1
    DEF Opened, Goto, clock, log, entry, Position, Passed, Ended, Complete,
        Opening, Deciding
<1>8. CASE PullEnd
  <2>1. \A i \in Unread : i < first
    <3> SUFFICES ASSUME NEW i \in Unread, ~ (i < first) PROVE FALSE
      OBVIOUS
    <3>1. i < pos /\ i \in 1 .. Len(ever) /\ InQuery(i)
      BY <1>a, <1>8 DEF PullEnd, Goto, Passed, Unread
    <3>2. i \in Ahead
      BY <1>b, <3>1 DEF Ahead, Retained
    <3> QED
      BY <1>8, <3>2 DEF PullEnd
  <2> QED
    BY <1>a, <1>c, <1>8, <2>1
    DEF PullEnd, Goto, clock, log, read, entry, Position, Passed, Ended,
        Complete, Opening, Deciding
<1>9. CASE PullRow
  <2> DEFINE m == Max(Ahead)
  <2>1. m \in Ahead /\ (\A i \in Ahead : i <= m) /\ m \in 1 .. Len(ever)
    BY <1>a, <1>9, AheadMax DEF PullRow
  <2>2. InQuery(m) /\ m < pos /\ first <= m
    BY <1>b, <2>1 DEF Ahead, Retained
  <2> HIDE DEF m
  <2>3. /\ rows' = rows \cup {m} /\ pos' = m /\ ever' = ever /\ pc' = pc
        /\ windowEnd' = windowEnd /\ pc = "read"
        /\ first' = first /\ now' = now
        /\ error' = error /\ truncated' = truncated /\ oldest' = oldest
        /\ primary' = primary /\ evtx' = evtx
    BY <1>9 DEF PullRow, log, clock, entry, m
  <2>4. \A i : InQuery(i)' <=> InQuery(i)
    BY <2>3 DEF InQuery, WindowStart
  <2>5. Unread' = Unread \ {m}
    BY <2>3, <2>4 DEF Unread
  <2>6. \A i \in Unread' : i < m
    <3> SUFFICES ASSUME NEW i \in Unread, i # m PROVE i < m
      BY <2>5
    <3>1. i \in 1 .. Len(ever) /\ InQuery(i) /\ (i < pos \/ i < first)
      BY <1>a, <2>3 DEF Passed, Unread
    <3>2. CASE i < first
      BY <1>b, <2>1, <2>2, <3>1, <3>2
    <3>3. CASE i >= first
      <4>1. i \in Ahead
        BY <1>b, <3>1, <3>3 DEF Ahead, Retained
      <4> QED
        BY <1>b, <2>1, <3>1, <4>1
    <3> QED
      BY <1>b, <3>1, <3>2, <3>3
  <2>7. Gapless'
    <3>1. \A i \in rows' : InQuery(i)'
      BY <1>a, <2>2, <2>3, <2>4 DEF Gapless
    <3>2. \A i \in Unread', j \in rows' : i < j
      BY <1>a, <2>3, <2>5, <2>6 DEF Gapless
    <3> QED
      BY <3>1, <3>2 DEF Gapless
  <2>8. Passed' /\ Ended'
    BY <2>3, <2>6 DEF Passed, Ended, Deciding
  <2>9. Position'
    BY <1>a, <2>3 DEF Position, Complete, Opening
  <2> QED
    BY <2>7, <2>8, <2>9
<1>10. CASE PullCut
  BY <1>a, <1>c, <1>10
  DEF PullCut, Goto, clock, log, entry, Position, Passed, Ended, Complete,
      Opening, Deciding
<1>11. CASE PullFails
  BY <1>a, <1>c, <1>11
  DEF PullFails, Goto, clock, log, entry, Position, Passed, Ended, Complete,
      Opening, Deciding
<1>12. CASE Probe
  BY <1>a, <1>c, <1>12
  DEF Probe, Goto, clock, log, read, entry, Position, Passed, Ended, Complete,
      Opening, Deciding
<1>13. CASE Write
  BY <1>a, <1>c, <1>13
  DEF Write, Goto, clock, log, read, Position, Passed, Ended, Complete,
      Opening, Deciding
<1>14. CASE Export
  <2>1. evtx' # None => evtx' \subseteq rows
    <3>1. \A i \in Retained : InQuery(i) => i \in rows
      <4> SUFFICES ASSUME NEW i \in Retained, InQuery(i), i \notin rows
                   PROVE  FALSE
        OBVIOUS
      <4>1. i \in Unread /\ i >= first
        BY <1>a, <1>b DEF Retained, Unread, TypeOK
      <4>2. i < first
        BY <1>a, <1>14, <4>1 DEF Export, Goto, Ended, Position, Deciding
      <4> QED
        BY <1>b, <4>1, <4>2 DEF Retained
    <3> QED
      BY <1>a, <1>14, <3>1 DEF Export, Position
  <2> QED
    BY <1>a, <1>c, <1>14, <2>1
    DEF Export, Goto, clock, log, read, Position, Passed, Ended, Complete,
        Opening, Deciding
<1>15. CASE Conclude
  <2>1. primary' # None => /\ primary' = rows
                           /\ status' \in Observed \/ (truncated /\ rows # {})
    <3> SUFFICES ASSUME primary' # None
                 PROVE  /\ primary' = rows
                        /\ status' \in Observed \/ (truncated /\ rows # {})
      OBVIOUS
    <3>1. /\ KeepsPrimary(status', truncated, Cardinality(rows))
          /\ primary' = primary
      BY <1>15 DEF Conclude
    <3>2. primary = rows
      BY <1>a, <1>15, <3>1 DEF Conclude, Goto, Position
    <3>3. Cardinality(rows) > 0 => rows # {}
      BY FS_EmptySet
    <3> QED
      BY <3>1, <3>2, <3>3 DEF KeepsPrimary
  <2> QED
    BY <1>a, <1>c, <1>15, <2>1
    DEF Conclude, Goto, clock, log, read, Position, Passed, Ended, Complete,
        Opening, Deciding
<1>16. CASE Raises
  BY <1>a, <1>c, <1>16
  DEF Raises, clock, log, read, Position, Passed, Ended, Complete, Opening,
      Deciding
<1>17. CASE UNCHANGED vars
  BY <1>a, <1>c, <1>17
  DEF vars, clock, log, read, entry, Position, Passed, Ended, Complete
<1> QED
  BY <1>1, <1>2, <1>3, <1>4, <1>5, <1>6, <1>7, <1>8, <1>9, <1>10, <1>11,
     <1>12, <1>13, <1>14, <1>15, <1>16, <1>17 DEF Next, Machine, Source

-----------------------------------------------------------------------------

\* A clock that was set back stays known as such.
LEMMA SetbackStep ==
  ASSUME Inv, [Next]_vars, setback' = 0
  PROVE  setback = 0 /\ ~ SetBack
<1>1. ~ SetBack
  BY DEF SetBack, Inv, TypeOK
<1>2. CASE UNCHANGED vars
  BY <1>1, <1>2 DEF vars, clock
<1>3. CASE Next
  BY <1>1, <1>3
  DEF Next, Machine, Source, Tick, Raise, Clear, Begin, OpenRefused, Opened,
      PullEnd, PullRow, PullCut, PullFails, Probe, Write, Export, Conclude,
      Raises, clock
<1> QED
  BY <1>1, <1>2, <1>3

\* The records stay in the order of their times.
LEMMA InOrderStep ==
  ASSUME Inv, InOrder, setback' = 0, [Next]_vars
  PROVE  InOrder'
<1>0. /\ ever \in Seq(Record) /\ Len(ever) \in Nat /\ now \in Int
      /\ \A i \in 1 .. Len(ever) : ever[i].at \in Int
  <2>1. ever \in Seq(Record) /\ Len(ever) \in Nat /\ now \in Int
    BY DEF Inv, TypeOK, Time
  <2>2. \A i \in 1 .. Len(ever) : ever[i] \in Record
    BY <2>1
  <2> QED
    BY <2>1, <2>2 DEF Record, Time
<1>1. CASE ever' = ever /\ now' \in Int /\ now <= now'
  BY <1>0, <1>1 DEF InOrder
<1>2. CASE Raise
  <2>1. /\ Len(ever') = Len(ever) + 1 /\ now' = now
        /\ \A i \in 1 .. Len(ever) : ever'[i] = ever[i]
        /\ ever'[Len(ever) + 1].at = now
    BY <1>2, Raised DEF Raise, clock
  <2>2. \A i \in 1 .. Len(ever') : i \in 1 .. Len(ever) \/ i = Len(ever) + 1
    BY <1>0, <2>1
  <2>3. \A i \in 1 .. Len(ever') : ever'[i].at <= now'
    BY <1>0, <2>1, <2>2 DEF InOrder
  <2>4. \A i, j \in 1 .. Len(ever') : i < j => ever'[i].at <= ever'[j].at
    <3> SUFFICES ASSUME NEW i \in 1 .. Len(ever'), NEW j \in 1 .. Len(ever'),
                        i < j
                 PROVE  ever'[i].at <= ever'[j].at
      OBVIOUS
    <3>1. i \in 1 .. Len(ever)
      BY <1>0, <2>1
    <3>2. CASE j \in 1 .. Len(ever)
      BY <2>1, <3>1, <3>2 DEF InOrder
    <3>3. CASE j = Len(ever) + 1
      BY <2>1, <3>1, <3>3 DEF InOrder
    <3> QED
      BY <2>2, <3>2, <3>3
  <2> QED
    BY <2>3, <2>4 DEF InOrder
<1>3. ~ SetBack
  BY SetbackStep
<1>4. CASE UNCHANGED vars
  BY <1>0, <1>1, <1>4 DEF vars, clock, log
<1>5. CASE Next
  BY <1>0, <1>1, <1>2, <1>3, <1>5
  DEF Next, Machine, Source, Tick, Clear, Begin, OpenRefused, Opened, PullEnd,
      PullRow, PullCut, PullFails, Probe, Write, Export, Conclude, Raises,
      clock, log
<1> QED
  BY <1>4, <1>5

LEMMA ProvedStep ==
  ASSUME Inv, InOrder, Proved, [Next]_vars
  PROVE  Proved'
<1>0. /\ Len(ever) \in Nat /\ first \in 1 .. Len(ever) + 1
      /\ \A i \in Unread : i \in 1 .. Len(ever)
  BY DEF Inv, TypeOK, Unread
<1>1. ASSUME ever' = ever, rows' = rows, windowEnd' = windowEnd
      PROVE  Unread' = Unread
  BY <1>1 DEF Unread, InQuery, WindowStart
<1>2. CASE Raise
  <2>1. CASE pc = "start"
    BY <1>2, <2>1 DEF Proved, Raise
  <2>2. CASE pc # "start"
    <3>1. Unread' = Unread /\ \A i \in 1 .. Len(ever) : ever'[i] = ever[i]
      BY <1>2, <2>2, Raised
    <3> QED
      BY <1>0, <1>2, <3>1 DEF Proved, Raise, Complete, read
  <2> QED
    BY <2>1, <2>2
<1>3. CASE Probe
  <2>1. ASSUME Complete, oldest' # None PROVE \A i \in Unread : ever[i].at <= oldest'
    <3>1. first \in 1 .. Len(ever) /\ oldest' = ever[first].at
      BY <1>0, <1>3, <2>1 DEF Probe, Retained
    <3>2. \A i \in Unread : i < first
      BY <1>3, <2>1 DEF Inv, Ended, Deciding, Probe, Goto
    <3> QED
      BY <1>0, <3>1, <3>2 DEF InOrder
  <2> QED
    BY <1>1, <1>3, <2>1 DEF Proved, Probe, Complete, log, read
<1>4. CASE Begin \/ OpenRefused \/ Opened \/ PullEnd \/ PullRow \/ PullCut
           \/ PullFails
  BY <1>4
  DEF Proved, Begin, OpenRefused, Opened, PullEnd, PullRow, PullCut,
      PullFails, Goto
<1>5. CASE Conclude \/ Raises
  BY <1>5 DEF Proved, Conclude, Raises, Goto
<1>6. CASE Write \/ Export
  BY <1>1, <1>6 DEF Proved, Write, Export, Goto, Complete, log, read
<1>7. CASE Tick \/ Clear \/ SetBack
  BY <1>1, <1>7 DEF Proved, Tick, Clear, SetBack, Complete, log, read
<1>8. CASE UNCHANGED vars
  BY <1>1, <1>8 DEF Proved, vars, Complete, log, read
<1> QED
  BY <1>2, <1>3, <1>4, <1>5, <1>6, <1>7, <1>8 DEF Next, Machine, Source

\* An observed status comes of a read that ended by itself.
LEMMA ObservedComplete ==
  ASSUME NEW e \in {"none"} \cup OpenErrors \cup ReadErrors, NEW n, NEW t \in BOOLEAN,
         NEW o \in BOOLEAN, NEW v, SourceStatus(e, n, t, o, v) \in Observed
  PROVE  e = "none" /\ ~t /\ (n > 0 \/ o)
<1>1. CASE e \in OpenErrors \cup ReadErrors
  BY <1>1 DEF SourceStatus, Observed, OpenErrors, ReadErrors
<1>2. CASE e = "none"
  <2>1. CASE t
    BY <1>2, <2>1 DEF SourceStatus, Observed, ReadErrors
  <2>2. CASE ~t /\ ~(n > 0) /\ ~o
    BY <1>2, <2>2 DEF SourceStatus, Observed, ReadErrors
  <2> QED
    BY <1>2, <2>1, <2>2
<1> QED
  BY <1>1, <1>2

LEMMA CoveredStep ==
  ASSUME CoverInv, setback = 0, [Next]_vars
  PROVE  CoveredComplete'
<1>0. Inv /\ InOrder /\ Proved /\ CoveredComplete
  BY DEF CoverInv
<1>1. CASE Conclude
  <2> SUFFICES ASSUME status' \in Observed, NEW i \in 1 .. Len(ever),
                      ever[i].matches, covered' < ever[i].at,
                      ever[i].at <= windowEnd
               PROVE  i \in primary'
    BY <1>1 DEF CoveredComplete, Spoken, Conclude, log
  <2>0. /\ Len(ever) \in Nat /\ rows \subseteq 1 .. Len(ever)
        /\ WindowStart \in Int /\ oldest \in Int \cup {None}
        /\ \A k \in 1 .. Len(ever) : ever[k].at \in Int
    <3>1. ever \in Seq(Record) /\ Len(ever) \in Nat /\ rows \subseteq 1 .. Len(ever)
      BY <1>0 DEF Inv, TypeOK
    <3>2. \A k \in 1 .. Len(ever) : ever[k] \in Record
      BY <3>1
    <3>3. oldest \in Int \cup {None} /\ windowEnd \in Int
      BY <1>0 DEF Inv, TypeOK, Time
    <3>4. WindowStart \in Int
      BY <3>3, Constants DEF WindowStart
    <3> QED
      BY <3>1, <3>2, <3>3, <3>4 DEF Record, Time
  <2>1. /\ error = "none" /\ ~truncated
        /\ Cardinality(rows) > 0 \/ oldest # None
    BY <1>0, <1>1, ObservedComplete DEF Conclude, Conclusion, Inv, TypeOK
  <2>2. primary' = rows /\ covered' = CoveredStart
    <3>1. primary = rows
      BY <1>0, <1>1, <2>1 DEF Inv, Position, Conclude, Goto
    <3> QED
      BY <1>1, <3>1 DEF Conclude, KeepsPrimary
  <2>3. SUFFICES ASSUME i \notin rows PROVE FALSE
    BY <2>2
  <2>4. CASE oldest # None
    <3>1. covered' = IF oldest > WindowStart THEN oldest ELSE WindowStart
      BY <2>1, <2>2, <2>4 DEF CoveredStart
    <3>2. oldest \in Int
      BY <2>0, <2>4
    <3>3. ever[i].at \in Int
      BY <2>0
    <3>4. InQuery(i)
      BY <2>0, <3>1, <3>2, <3>3 DEF InQuery
    <3>5. ever[i].at <= oldest
      BY <1>0, <1>1, <2>1, <2>3, <2>4, <3>4
      DEF Proved, Conclude, Goto, Complete, Unread
    <3> QED
      BY <2>0, <3>1, <3>2, <3>3, <3>5
  <2>5. CASE oldest = None
    <3>1. rows # {}
      <4>1. Cardinality(rows) > 0
        BY <2>1, <2>5
      <4>2. Cardinality({}) = 0
        BY FS_EmptySet
      <4>3. rows = {} => Cardinality(rows) = 0
        BY <4>2, Zenon
      <4> QED
        BY <4>1, <4>3
    <3>2. Min(rows) \in rows
      BY <2>0, <3>1, MinNat
    <3>3. covered' = ever[Min(rows)].at
      BY <2>1, <2>2, <2>5, <3>1 DEF CoveredStart
    <3>4. InQuery(Min(rows))
      BY <1>0, <3>2 DEF Inv, Gapless
    <3>5. ever[i].at \in Int /\ ever[Min(rows)].at \in Int
      BY <2>0, <3>2
    <3>6. InQuery(i)
      BY <2>0, <3>3, <3>4, <3>5 DEF InQuery
    <3>7. i < Min(rows)
      BY <1>0, <2>3, <3>2, <3>6 DEF Inv, Gapless, Unread
    <3>8. ever[i].at <= ever[Min(rows)].at
      BY <1>0, <2>0, <3>2, <3>7 DEF InOrder
    <3> QED
      BY <3>3, <3>5, <3>8
  <2> QED
    BY <2>4, <2>5
<1>2. CASE Raises
  BY <1>2 DEF Raises, CoveredComplete, Observed
<1>3. CASE pc' # "done"
  BY <1>3 DEF CoveredComplete, Done
<1>4. CASE UNCHANGED vars
  BY <1>0, <1>4 DEF CoveredComplete, Spoken, Done, vars, log, entry
<1>5. CASE pc = "done"
  BY <1>1, <1>2, <1>4, <1>5
  DEF Next, Source, Begin, OpenRefused, Opened, PullEnd, PullRow, PullCut,
      PullFails, Probe, Write, Export, Goto
<1>6. CASE pc # "done" /\ pc' = "done"
  BY <1>1, <1>2, <1>4, <1>6
  DEF Next, Machine, Source, Tick, Raise, Clear, SetBack, Begin, OpenRefused,
      Opened, PullEnd, PullRow, PullCut, PullFails, Probe, Write, Export, Goto
<1> QED
  BY <1>3, <1>5, <1>6

-----------------------------------------------------------------------------

\* Every variable of the source keeps its type, and no export exceeds the row
\* cap, whatever the log does meanwhile.
THEOREM TypeCorrect == Spec => []TypeOK
<1>1. Init => Inv
  BY InitInv
<1>2. Inv /\ [Next]_vars => Inv'
  BY InvStep
<1>3. Inv => TypeOK
  BY DEF Inv
<1> QED
  BY <1>1, <1>2, <1>3, PTL DEF Spec

\* A failed source leaves no events.json behind but a capped one, and what is
\* left of the interval in it has no hole.
THEOREM KeptWithoutHoles == Spec => []NoHoles
<1>1. Init => Inv
  BY InitInv
<1>2. Inv /\ [Next]_vars => Inv'
  BY InvStep
<1>3. Inv => NoHoles
  <2> SUFFICES ASSUME Inv, Done, primary # None PROVE NoHoles
    BY DEF NoHoles
  <2>1. primary = rows /\ (status \in Observed \/ (truncated /\ rows # {}))
    BY DEF Inv, Position, Done
  <2>2. \A i \in rows, j \in 1 .. Len(ever) : (InQuery(j) /\ j > i) => j \in rows
    <3> SUFFICES ASSUME NEW i \in rows, NEW j \in 1 .. Len(ever), InQuery(j),
                        j > i, j \notin rows
                 PROVE  FALSE
      OBVIOUS
    <3>1. j < i
      BY DEF Inv, Gapless, Unread
    <3>2. i \in 1 .. Len(ever) /\ Len(ever) \in Nat
      BY DEF Inv, TypeOK
    <3> QED
      BY <3>1, <3>2
  <2> QED
    BY <2>1, <2>2 DEF NoHoles
<1> QED
  BY <1>1, <1>2, <1>3, PTL DEF Spec

\* The binary export, read after the structured one from the same query, never
\* holds a record the structured one lacks.
THEOREM ExportsAgree == Spec => []BinaryWithin
<1>1. Init => Inv
  BY InitInv
<1>2. Inv /\ [Next]_vars => Inv'
  BY InvStep
<1>3. Inv => BinaryWithin
  BY DEF Inv, Position, BinaryWithin, Done
<1> QED
  BY <1>1, <1>2, <1>3, PTL DEF Spec

\* On a PC whose clock was not set back, an observed source has exported every
\* record that was ever raised in the range it speaks for.
THEOREM CoverageHolds == Spec => []CoveredComplete
<1>1. Init => CoverInv
  <2> SUFFICES ASSUME Init PROVE CoverInv
    OBVIOUS
  <2>1. Inv
    BY InitInv
  <2>2. InOrder /\ Proved /\ CoveredComplete
    BY DEF Init, InOrder, Proved, CoveredComplete, Done
  <2> QED
    BY <2>1, <2>2 DEF CoverInv
<1>2. CoverInv /\ [Next]_vars => CoverInv'
  <2> SUFFICES ASSUME CoverInv, [Next]_vars
               PROVE  CoverInv'
    OBVIOUS
  <2>1. Inv /\ Inv'
    BY InvStep DEF CoverInv
  <2>2. ASSUME setback' = 0
        PROVE  InOrder' /\ Proved' /\ CoveredComplete'
    <3>1. setback = 0 /\ InOrder /\ Proved
      BY <2>1, <2>2, SetbackStep DEF CoverInv
    <3> QED
      BY <2>1, <2>2, <3>1, InOrderStep, ProvedStep, CoveredStep
  <2> QED
    BY <2>1, <2>2 DEF CoverInv
<1>3. CoverInv => CoveredComplete
  BY DEF CoverInv, CoveredComplete
<1> QED
  BY <1>1, <1>2, <1>3, PTL DEF Spec
=============================================================================

--------------------------- MODULE DispatchProofs ---------------------------
(***************************************************************************)
(* What TLAPS proves of Dispatch, for every number of sessions, collectors *)
(* and seconds, and every limit.                                           *)
(***************************************************************************)
EXTENDS Dispatch, FiniteSetTheorems, TLAPS

\* Before a name is taken, while a collect request is served, and while
\* name[s] is a directory name.
Choosing == {"idle", "request", "count", "bytes", "test_outbox",
             "test_staging"}
Collects == Admitted \cup {"count", "reply"}
Fetches  == {"zip", "send", "clean"}
Named    == {"test_staging", "sleep", "make", "run", "stat", "publish",
             "reply"} \cup Fetches
Unstarted == Choosing \cup Fetches \cup {"sleep", "make"}
Started  == {"run", "stat", "publish", "reply"}

\* How the parts of one session's state go together.
Shape(s) ==
  /\ pc[s] # "idle" => req[s] \in Request
  /\ pc[s] \in Collects => req[s].verb = "collect"
  /\ pc[s] \in Fetches => req[s].verb = "fetch"
  /\ pc[s] \in Named \/ proc[s] # "none" => name[s] \in Name
  /\ pc[s] \in Choosing => tries[s] < MaxAttempts
  /\ pc[s] \in Unstarted => proc[s] = "none" /\ outcome[s] = None
  /\ pc[s] \in Started => proc[s] # "none"
  /\ pc[s] \in {"publish", "reply"} => outcome[s] = "ok"
  /\ outcome[s] = "ok" => proc[s] = "exit0"
  /\ reply[s] # None => pc[s] = "done"
  /\ delivered[s] # None => pc[s] \in {"clean"} \cup Over
  /\ delivered[s] # None => name[s] \in Name
  /\ zip[s] # None => pc[s] \in {"send", "clean"} \cup Over
  /\ pc[s] = "send" => zip[s] # None

Inv == TypeOK /\ \A s \in Session : Shape(s)

LEMMA EmptyDirType == EmptyDir \in Dir
  BY DEF EmptyDir, Dir

LEMMA EnsuredType ==
  ASSUME TypeOK, NEW n \in Name
  PROVE  Ensured(n) \in Dir
  BY EmptyDirType DEF Ensured, TypeOK

\* What is written into a directory leaves a directory.
LEMMA WrittenType ==
  ASSUME NEW d \in Dir
  PROVE  /\ [d EXCEPT !.raw = TRUE, !.logs = TRUE] \in Dir
         /\ \A s \in Session : [d EXCEPT !.raw = TRUE, !.data = s] \in Dir
         /\ [d EXCEPT !.logs = TRUE] \in Dir
         /\ [d EXCEPT !.nested = TRUE] \in Dir
         /\ [d EXCEPT !.data = None] \in Dir
         /\ \A m \in Manifest : [d EXCEPT !.manifest = m] \in Dir
         /\ d.data \in Session \cup {None}
  BY DEF Dir

LEMMA ManifestType ==
  ASSUME TypeOK, NEW s \in Session
  PROVE  [by |-> s, lists |-> seen[s]] \in Manifest
  BY DEF TypeOK, Manifest

LEMMA RequestType ==
  ASSUME NEW r \in Request
  PROVE  /\ r.verb = "collect" => r.arg \in Collector
         /\ r.verb = "fetch" => r.arg \in Name
  BY ConstantsAssumption DEF Requests

LEMMA InitInv == Init => Inv
  <1> SUFFICES ASSUME Init PROVE Inv
    OBVIOUS
  <1>1. TypeOK
    BY ConstantsAssumption, NoneAssumption DEF Init, TypeOK, Second
  <1>2. ASSUME NEW s \in Session PROVE Shape(s)
    BY ConstantsAssumption, NoneAssumption
       DEF Init, Shape, Outcomes, Codes, Over, Busy, Choosing, Collects, Admitted,
           Fetches, Named, Unstarted, Started
  <1> QED BY <1>1, <1>2 DEF Inv

\* Every step keeps the types, and how the parts of a session go together.
LEMMA StepInv == Inv /\ [Next]_vars => Inv'
  <1> SUFFICES ASSUME Inv, [Next]_vars PROVE Inv'
    OBVIOUS
  <1> USE ConstantsAssumption, NoneAssumption, EmptyDirType, EnsuredType, RequestType
  <1> USE DEF Inv, TypeOK, Shape, Goto, Answer, Asks, Step, files, sessions,
              Busy, Over, Running, Ended, Choosing, Collects, Admitted, Fetches,
              Named, Unstarted, Started
  <1>1. ASSUME NEW s \in Session, Connect(s) PROVE Inv'
    BY <1>1 DEF Connect, Codes, Outcomes
  <1>2. ASSUME NEW s \in Session, Refuse(s) PROVE Inv'
    BY <1>2 DEF Refuse, Codes, Outcomes
  <1>3. ASSUME NEW s \in Session, ListBundles(s) PROVE Inv'
    BY <1>3 DEF ListBundles, Codes, Outcomes
  <1>4. ASSUME NEW s \in Session, UnknownCollector(s) PROVE Inv'
    BY <1>4 DEF UnknownCollector, Codes, Outcomes
  <1>5. ASSUME NEW s \in Session, KnownCollector(s) PROVE Inv'
    BY <1>5 DEF KnownCollector, Codes, Outcomes
  <1>6. ASSUME NEW s \in Session, CheckCount(s) PROVE Inv'
    BY <1>6 DEF CheckCount, Codes, Outcomes
  <1>7. ASSUME NEW s \in Session, CheckBytes(s) PROVE Inv'
    BY <1>7 DEF CheckBytes, Codes, Outcomes
  <1>8. ASSUME NEW s \in Session, TestOutbox(s) PROVE Inv'
    <2>1. <<now, req[s].arg>> \in Name
      BY <1>8, WrittenType, ManifestType DEF TestOutbox, Name
    <2>2. TypeOK'
      BY <1>8, <2>1 DEF TestOutbox, Codes, Outcomes
    <2>3. ASSUME NEW t \in Session PROVE Shape(t)'
      BY <1>8, <2>1 DEF TestOutbox, Codes, Outcomes
    <2> QED
      BY <2>2, <2>3
  <1>9. ASSUME NEW s \in Session, TestStaging(s) PROVE Inv'
    BY <1>9 DEF TestStaging, Codes, Outcomes
  <1>10. ASSUME NEW s \in Session, Wake(s) PROVE Inv'
    BY <1>10 DEF Wake, Codes, Outcomes
  <1>11. ASSUME NEW s \in Session, MakeWork(s) PROVE Inv'
    BY <1>11 DEF MakeWork, Codes, Outcomes
  <1>12. ASSUME NEW s \in Session, CollectorExited(s) PROVE Inv'
    BY <1>12 DEF CollectorExited, Codes, Outcomes
  <1>13. ASSUME NEW s \in Session, Timeout(s) PROVE Inv'
    BY <1>13 DEF Timeout, Codes, Outcomes
  <1>14. ASSUME NEW s \in Session, Stat(s) PROVE Inv'
    BY <1>14 DEF Stat, Codes, Outcomes
  <1>15. ASSUME NEW s \in Session, Publish(s) PROVE Inv'
    <2>1. /\ outbox' \in [Name -> Dir \cup {None}]
          /\ staging' \in [Name -> Dir \cup {None}]
      <3> DEFINE n == name[s]
      <3>1. n \in Name
        BY <1>15 DEF Publish
      <3> DEFINE d == IF outbox[n] = None THEN staging[n]
                      ELSE [outbox[n] EXCEPT !.nested = TRUE]
      <3>2. /\ outbox[n] # None => outbox[n] \in Dir
            /\ staging[n] # None => staging[n] \in Dir
        BY <3>1
      <3>3. staging[n] # None => d \in Dir
        BY <3>2, WrittenType
      <3>4. CASE staging[n] = None
        BY <1>15, <3>4 DEF Publish
      <3>5. CASE staging[n] # None
        <4>1. outbox' = [outbox EXCEPT ![n] = d]
          BY <1>15, <3>5 DEF Publish
        <4>2. staging' = [staging EXCEPT ![n] = None]
          BY <1>15, <3>5 DEF Publish
        <4> QED
          BY <3>1, <3>3, <3>5, <4>1, <4>2
      <3> QED
        BY <3>4, <3>5
    <2>2. TypeOK'
      BY <1>15, <2>1 DEF Publish, Codes, Outcomes
    <2>3. ASSUME NEW t \in Session PROVE Shape(t)'
      BY <1>15, <2>1 DEF Publish, Codes, Outcomes
    <2> QED
      BY <2>2, <2>3
  <1>16. ASSUME NEW s \in Session, ReplyCollected(s) PROVE Inv'
    BY <1>16 DEF ReplyCollected, Codes, Outcomes
  <1>17. ASSUME NEW s \in Session, FetchOpen(s) PROVE Inv'
    BY <1>17 DEF FetchOpen, BundleDir, Codes, Outcomes
  <1>18. ASSUME NEW s \in Session, ZipBundle(s) PROVE Inv'
    BY <1>18 DEF ZipBundle, BundleDir, Codes, Outcomes
  <1>19. ASSUME NEW s \in Session, SendZip(s) PROVE Inv'
    BY <1>19 DEF SendZip, Codes, Outcomes
  <1>20. ASSUME NEW s \in Session, RemoveZip(s) PROVE Inv'
    BY <1>20 DEF RemoveZip, Codes, Outcomes
  <1>21. ASSUME NEW s \in Session, InternalError(s) PROVE Inv'
    BY <1>21 DEF InternalError, ZipAfterError, Codes, Outcomes
  <1>22. ASSUME NEW s \in Session, Lose(s) PROVE Inv'
    BY <1>22 DEF Lose, Codes, Outcomes
  <1>23. ASSUME NEW s \in Session, CheckLayout(s) PROVE Inv'
    BY <1>23 DEF CheckLayout, Codes, Outcomes
  <1>24. ASSUME NEW s \in Session, MakeLayout(s) PROVE Inv'
    <2>1. staging' \in [Name -> Dir \cup {None}]
      BY <1>24, WrittenType, ManifestType DEF MakeLayout
    <2>2. TypeOK'
      BY <1>24, <2>1 DEF MakeLayout, Codes, Outcomes
    <2>3. ASSUME NEW t \in Session PROVE Shape(t)'
      BY <1>24, <2>1 DEF MakeLayout, Codes, Outcomes
    <2> QED
      BY <2>2, <2>3
  <1>25. ASSUME NEW s \in Session, WriteExport(s) PROVE Inv'
    <2>1. staging' \in [Name -> Dir \cup {None}]
      BY <1>25, WrittenType, ManifestType DEF WriteExport
    <2>2. TypeOK'
      BY <1>25, <2>1 DEF WriteExport, Codes, Outcomes
    <2>3. ASSUME NEW t \in Session PROVE Shape(t)'
      BY <1>25, <2>1 DEF WriteExport, Codes, Outcomes
    <2> QED
      BY <2>2, <2>3
  <1>26. ASSUME NEW s \in Session, ListArtifacts(s) PROVE Inv'
    <2>1. seen' \in [Session -> Session \cup {None}]
      BY <1>26, WrittenType, ManifestType DEF ListArtifacts
    <2>2. TypeOK'
      BY <1>26, <2>1 DEF ListArtifacts, Codes, Outcomes
    <2>3. ASSUME NEW t \in Session PROVE Shape(t)'
      BY <1>26, <2>1 DEF ListArtifacts, Codes, Outcomes
    <2> QED
      BY <2>2, <2>3
  <1>27. ASSUME NEW s \in Session, WriteManifest(s) PROVE Inv'
    <2>1. staging' \in [Name -> Dir \cup {None}]
      <3> DEFINE n == name[s]
      <3>1. n \in Name /\ staging[n] \in Dir
        BY <1>27 DEF WriteManifest
      <3>2. [staging[n] EXCEPT !.manifest = [by |-> s, lists |-> seen[s]]] \in Dir
        BY <3>1, WrittenType, ManifestType
      <3> QED
        BY <1>27, <3>1, <3>2 DEF WriteManifest
    <2>2. TypeOK'
      BY <1>27, <2>1 DEF WriteManifest, Codes, Outcomes
    <2>3. ASSUME NEW t \in Session PROVE Shape(t)'
      BY <1>27, <2>1 DEF WriteManifest, Codes, Outcomes
    <2> QED
      BY <2>2, <2>3
  <1>28. ASSUME NEW s \in Session, Exit(s) PROVE Inv'
    BY <1>28 DEF Exit, Codes, Outcomes
  <1>29. ASSUME NEW s \in Session, CollectorFails(s) PROVE Inv'
    <2>1. staging' \in [Name -> Dir \cup {None}]
      <3> DEFINE n == name[s]
      <3>1. n \in Name
        BY <1>29 DEF CollectorFails
      <3> DEFINE d == [Ensured(n) EXCEPT !.logs = TRUE]
      <3>2. d \in Dir
        BY <3>1, WrittenType
      <3>3. staging' = staging \/ staging' = [staging EXCEPT ![n] = d]
        BY <1>29 DEF CollectorFails
      <3>4. staging \in [Name -> Dir \cup {None}]
        OBVIOUS
      <3> HIDE DEF d, Inv
      <3> QED
        BY <3>1, <3>2, <3>3, <3>4
    <2>2. TypeOK'
      BY <1>29, <2>1 DEF CollectorFails, Codes, Outcomes
    <2>3. ASSUME NEW t \in Session PROVE Shape(t)'
      BY <1>29, <2>1 DEF CollectorFails, Codes, Outcomes
    <2> QED
      BY <2>2, <2>3
  <1>30. ASSUME Tick PROVE Inv'
    BY <1>30 DEF Tick, Second
  <1>31. ASSUME Housekeeping PROVE Inv'
    <2>1. ASSUME NEW n \in Name, DeleteFiles(n) PROVE Inv'
      <3>1. outbox[n] \in Dir /\ [outbox[n] EXCEPT !.data = None] \in Dir
        BY <2>1, WrittenType DEF DeleteFiles
      <3> QED
        BY <2>1, <3>1 DEF DeleteFiles
    <2>2. ASSUME NEW n \in Name, DeleteBundle(n) PROVE Inv'
      BY <2>2 DEF DeleteBundle
    <2>3. ASSUME NEW n \in Name, DeleteLeftover(n) PROVE Inv'
      BY <2>3 DEF DeleteLeftover
    <2> QED
      BY <1>31, <2>1, <2>2, <2>3 DEF Housekeeping
  <1>32. CASE UNCHANGED vars
    BY <1>32 DEF vars
  <1> QED
    BY <1>1, <1>2, <1>3, <1>4, <1>5, <1>6, <1>7, <1>8, <1>9, <1>10, <1>11, <1>12, <1>13, <1>14, <1>15, <1>16, <1>17, <1>18, <1>19, <1>20, <1>21, <1>22, <1>23, <1>24, <1>25, <1>26, <1>27, <1>28, <1>29, <1>30, <1>31, <1>32 DEF Next, Dispatcher, Process

LEMMA AlwaysInv == Spec => []Inv
  BY InitInv, StepInv, PTL DEF Spec

\* The variables always have their types.
THEOREM TypeCorrect == Spec => []TypeOK
  <1>1. Inv => TypeOK
    BY DEF Inv
  <1> QED
    BY <1>1, AlwaysInv, PTL

-----------------------------------------------------------------------------
(* The outbox: only a publication adds to it, only the person takes away.  *)

\* Moving a second directory into a bundle leaves a bundle.
LEMMA StaysDir ==
  \A n \in Name : TypeOK /\ outbox[n] # None => [outbox[n] EXCEPT !.nested = TRUE] # None
  <1> SUFFICES ASSUME NEW n \in Name, TypeOK, outbox[n] # None
               PROVE  [outbox[n] EXCEPT !.nested = TRUE] # None
    OBVIOUS
  <1>1. outbox[n] \in Dir
    BY DEF TypeOK
  <1> QED
    BY <1>1, WrittenType, NoneAssumption

LEMMA OutboxSteps ==
  ASSUME [Next]_vars
  PROVE  \/ UNCHANGED <<outbox, cleared>>
         \/ \E s \in Session : Publish(s)
         \/ \E n \in Name : DeleteFiles(n) \/ DeleteBundle(n)
  <1> USE DEF files, sessions
  <1>1. ASSUME NEW s \in Session, Dispatcher(s)
        PROVE  UNCHANGED <<outbox, cleared>> \/ Publish(s)
    BY <1>1 DEF Dispatcher, Refuse, ListBundles, UnknownCollector, KnownCollector,
         CheckCount, CheckBytes, TestOutbox, TestStaging, Wake, MakeWork,
         CollectorExited, Timeout, Stat, ReplyCollected, FetchOpen, ZipBundle,
         SendZip, RemoveZip
  <1>2. ASSUME NEW s \in Session, Process(s)
        PROVE  UNCHANGED <<outbox, cleared>>
    BY <1>2 DEF Process, CheckLayout, MakeLayout, WriteExport, ListArtifacts,
         WriteManifest, Exit, CollectorFails
  <1>3. ASSUME NEW s \in Session, Connect(s) \/ InternalError(s) \/ Lose(s)
        PROVE  UNCHANGED <<outbox, cleared>>
    BY <1>3 DEF Connect, InternalError, Lose
  <1>4. ASSUME Tick \/ UNCHANGED vars
        PROVE  UNCHANGED <<outbox, cleared>>
    BY <1>4 DEF Tick, vars
  <1>5. ASSUME NEW n \in Name, DeleteLeftover(n)
        PROVE  UNCHANGED <<outbox, cleared>>
    BY <1>5 DEF DeleteLeftover
  <1> QED
    BY <1>1, <1>2, <1>3, <1>4, <1>5 DEF Next, Housekeeping

\* A published directory never changes at its top level before it is deleted.
THEOREM FrozenTheorem == Spec => PublishedFrozen
  <1> DEFINE Frozen(n) == \/ n \in cleared'
                         \/ /\ outbox'[n] # None
                            /\ outbox'[n].data = outbox[n].data
                            /\ outbox'[n].manifest = outbox[n].manifest
  <1>1. ASSUME Inv, Next, NEW n \in Bundles PROVE Frozen(n)
    <2>1. n \in Name /\ outbox[n] # None /\ outbox[n] \in Dir
      BY <1>1 DEF Bundles, Inv, TypeOK
    <2>2. CASE UNCHANGED <<outbox, cleared>>
      BY <2>1, <2>2
    <2>3. ASSUME NEW s \in Session, Publish(s) PROVE Frozen(n)
      <3>1. /\ [outbox[n] EXCEPT !.nested = TRUE] # None
            /\ [outbox[n] EXCEPT !.nested = TRUE].data = outbox[n].data
            /\ [outbox[n] EXCEPT !.nested = TRUE].manifest = outbox[n].manifest
        <4>1. [outbox[n] EXCEPT !.nested = TRUE] # None
          BY <1>1, <2>1, StaysDir DEF Inv
        <4> QED
          BY <2>1, <4>1 DEF Dir
      <3>2. outbox'[n] = outbox[n] \/ outbox'[n] = [outbox[n] EXCEPT !.nested = TRUE]
        <4>1. \/ UNCHANGED outbox
              \/ outbox' = [outbox EXCEPT ![name[s]] =
                              IF @ = None THEN staging[name[s]]
                                          ELSE [@ EXCEPT !.nested = TRUE]]
          BY <2>3 DEF Publish
        <4>2. outbox \in [Name -> Dir \cup {None}]
          BY <1>1 DEF Inv, TypeOK
        <4> QED
          BY <2>1, <4>1, <4>2
      <3> QED
        BY <2>1, <3>1, <3>2
    <2>4. ASSUME NEW m \in Name, DeleteFiles(m) \/ DeleteBundle(m) PROVE Frozen(n)
      BY <1>1, <2>1, <2>4 DEF DeleteFiles, DeleteBundle, Inv, TypeOK
    <2> QED
      BY <1>1, <2>2, <2>3, <2>4, OutboxSteps
  <1>2. Inv /\ [Next]_vars =>
          [\A n \in Bundles :
             \/ n \in cleared'
             \/ /\ outbox'[n] # None
                /\ outbox'[n].data = outbox[n].data
                /\ outbox'[n].manifest = outbox[n].manifest]_vars
    BY <1>1
  <1> QED
    BY <1>2, AlwaysInv, PTL DEF Spec, PublishedFrozen

-----------------------------------------------------------------------------
(* The limit: each admitted session has a place in the outbox, or may add   *)
(* one directory above the limit, and at least one of them saw it below.    *)

Admitting == {s \in Session : pc[s] \in Admitted}

BoundInv ==
  /\ Cardinality(Live) <= MaxLive
  /\ Cardinality(Bundles) + Cardinality(Admitting) <= MaxBundles + MaxLive - 1

LEMMA NameFinite == IsFiniteSet(Name)
  <1>1. IsFiniteSet(Second)
    BY ConstantsAssumption, FS_Interval DEF Second
  <1> QED
    BY <1>1, ConstantsAssumption, FS_Product DEF Name

\* Every subset of Session and of Name has a number of elements.
LEMMA Counts ==
  /\ IsFiniteSet(Session) /\ IsFiniteSet(Name)
  /\ \A S \in SUBSET Session : IsFiniteSet(S) /\ Cardinality(S) \in Nat
  /\ \A S \in SUBSET Name : IsFiniteSet(S) /\ Cardinality(S) \in Nat
  BY NameFinite, ConstantsAssumption, FS_Subset, FS_CardinalityType

LEMMA SmallerCounts ==
  ASSUME NEW S, NEW T \in (SUBSET Session) \cup (SUBSET Name), S \subseteq T
  PROVE  Cardinality(S) <= Cardinality(T)
  <1>1. IsFiniteSet(T)
    BY Counts
  <1> QED
    BY <1>1, FS_Subset

LEMMA OneMore ==
  ASSUME NEW S, IsFiniteSet(S), NEW n
  PROVE  Cardinality(S \cup {n}) <= Cardinality(S) + 1
  <1>1. Cardinality(S) \in Nat
    BY FS_CardinalityType
  <1>2. CASE n \in S
    <2>1. S \cup {n} = S
      BY <1>2
    <2>2. Cardinality(S \cup {n}) = Cardinality(S)
      BY <2>1, Zenon
    <2>3. Cardinality(S) <= Cardinality(S) + 1
      BY <1>1
    <2> QED
      BY <2>2, <2>3
  <1>3. CASE n \notin S
    <2>1. Cardinality(S \cup {n}) = Cardinality(S) + 1
      BY <1>3, FS_AddElement
    <2> QED
      BY <1>1, <2>1
  <1> QED
    BY <1>2, <1>3

LEMMA AdmittingLive == Cardinality(Admitting) <= Cardinality(Live)
  BY SmallerCounts DEF Admitting, Live, Admitted, Busy

LEMMA InitBound == Init => BoundInv
  <1> SUFFICES ASSUME Init PROVE BoundInv
    OBVIOUS
  <1>1. Live = {} /\ Admitting = {} /\ Bundles = {}
    BY DEF Init, Live, Admitting, Bundles, Busy, Admitted
  <1> QED
    BY <1>1, ConstantsAssumption, FS_EmptySet DEF BoundInv

\* Only a connection opens a session, only CheckCount admits one.
LEMMA SessionSteps ==
  ASSUME Inv, [Next]_vars
  PROVE  /\ Live' \subseteq Live \/ \E s \in Session : Connect(s)
         /\ Admitting' \subseteq Admitting \/ \E s \in Session : CheckCount(s)
  <1> USE DEF Inv, TypeOK, sessions, Goto, Answer, Asks, Live, Admitting,
              Admitted, Busy
  <1> DEFINE Fewer == Live' \subseteq Live /\ Admitting' \subseteq Admitting
  <1>1. ASSUME NEW s \in Session, Dispatcher(s)
        PROVE  Live' \subseteq Live /\ (CheckCount(s) \/ Fewer)
    <2>1. CASE CheckCount(s)
      BY <2>1 DEF CheckCount
    <2>2. CASE \/ Refuse(s) \/ ListBundles(s) \/ UnknownCollector(s)
               \/ KnownCollector(s) \/ CheckBytes(s) \/ TestOutbox(s)
               \/ TestStaging(s) \/ Wake(s) \/ MakeWork(s)
      BY <2>2 DEF Refuse, ListBundles, UnknownCollector, KnownCollector,
           CheckBytes, TestOutbox, TestStaging, Wake, MakeWork
    <2>3. CASE \/ CollectorExited(s) \/ Timeout(s) \/ Stat(s) \/ Publish(s)
               \/ ReplyCollected(s) \/ FetchOpen(s) \/ ZipBundle(s)
               \/ SendZip(s) \/ RemoveZip(s)
      BY <2>3 DEF CollectorExited, Timeout, Stat, Publish, ReplyCollected,
           FetchOpen, ZipBundle, SendZip, RemoveZip
    <2> QED
      BY <1>1, <2>1, <2>2, <2>3 DEF Dispatcher
  <1>2. ASSUME NEW s \in Session, Process(s) PROVE Fewer
    BY <1>2 DEF Process, CheckLayout, MakeLayout, WriteExport, ListArtifacts,
         WriteManifest, Exit, CollectorFails
  <1>3. ASSUME NEW s \in Session, InternalError(s) \/ Lose(s) PROVE Fewer
    BY <1>3 DEF InternalError, Lose
  <1>4. ASSUME NEW s \in Session, Connect(s) PROVE Admitting' \subseteq Admitting
    BY <1>4 DEF Connect
  <1>5. ASSUME Tick \/ Housekeeping \/ UNCHANGED vars PROVE Fewer
    BY <1>5 DEF Tick, Housekeeping, DeleteFiles, DeleteBundle, DeleteLeftover, vars
  <1> QED
    BY <1>1, <1>2, <1>3, <1>4, <1>5 DEF Next

LEMMA StepBound == Inv /\ BoundInv /\ [Next]_vars => BoundInv'
  <1> SUFFICES ASSUME Inv, BoundInv, [Next]_vars PROVE BoundInv'
    OBVIOUS
  <1>1. /\ Live \in SUBSET Session /\ Live' \in SUBSET Session
        /\ Admitting \in SUBSET Session /\ Admitting' \in SUBSET Session
        /\ Bundles \in SUBSET Name /\ Bundles' \in SUBSET Name
    BY DEF Live, Admitting, Bundles
  <1>2. Cardinality(Live') <= MaxLive
    <2>1. CASE Live' \subseteq Live
      BY <1>1, <2>1, SmallerCounts, Counts, ConstantsAssumption DEF BoundInv
    <2>2. ASSUME NEW s \in Session, Connect(s)
          PROVE  Cardinality(Live') <= MaxLive
      <3>1. Live' \subseteq Live \cup {s}
        BY <2>2 DEF Connect, Goto, Live, Inv, TypeOK
      <3>2. Cardinality(Live \cup {s}) <= Cardinality(Live) + 1
        BY <1>1, Counts, FS_AddElement
      <3>3. Live \cup {s} \in SUBSET Session
        BY <1>1
      <3> QED
        BY <1>1, <2>2, <3>1, <3>2, <3>3, SmallerCounts, Counts, ConstantsAssumption
           DEF Connect
    <2> QED
      BY <2>1, <2>2, SessionSteps
  <1>3. CASE \E s \in Session : CheckCount(s)
    <2> PICK s \in Session : CheckCount(s)
      BY <1>3
    <2>1. Bundles' = Bundles
      BY DEF CheckCount, files, Bundles
    <2>2. Admitting' \subseteq Admitting \/ Cardinality(Bundles) < MaxBundles
      BY <1>1, Counts, ConstantsAssumption
         DEF CheckCount, Answer, Goto, Admitting, Admitted, Inv, TypeOK
    <2>3. CASE Admitting' \subseteq Admitting
      BY <1>1, <1>2, <2>1, <2>3, SmallerCounts, Counts, ConstantsAssumption
         DEF BoundInv
    <2>4. CASE Cardinality(Bundles) < MaxBundles
      <3>1. Cardinality(Admitting') <= Cardinality(Live')
        BY <1>1, SmallerCounts DEF Admitting, Live, Admitted, Busy
      <3> QED
        BY <1>1, <1>2, <2>1, <2>4, <3>1, Counts, ConstantsAssumption DEF BoundInv
    <2> QED
      BY <2>2, <2>3, <2>4
  <1>4. CASE \E s \in Session : Publish(s)
    <2> PICK s \in Session : Publish(s)
      BY <1>4
    <2>1. /\ s \in Admitting
          /\ Admitting' \subseteq Admitting \ {s}
          /\ Bundles' \subseteq Bundles \cup {name[s]}
          /\ name[s] \in Name
      BY DEF Publish, Answer, Goto, Admitting, Admitted, Bundles, Inv, TypeOK,
             Shape, Named
    <2>2. Cardinality(Admitting \ {s}) = Cardinality(Admitting) - 1
      BY <1>1, <2>1, Counts, FS_RemoveElement
    <2>3. Cardinality(Bundles \cup {name[s]}) <= Cardinality(Bundles) + 1
      <3>1. IsFiniteSet(Bundles) /\ Cardinality(Bundles) \in Nat
        BY <1>1, Counts
      <3>2. \A n : Cardinality(Bundles \cup {n}) <= Cardinality(Bundles) + 1
        BY <3>1, OneMore
      <3> QED
        BY <3>2
    <2>4. /\ Cardinality(Admitting') <= Cardinality(Admitting) - 1
          /\ Cardinality(Bundles') <= Cardinality(Bundles) + 1
      <3>1. Admitting \ {s} \in SUBSET Session /\ Bundles \cup {name[s]} \in SUBSET Name
        BY <1>1, <2>1
      <3>2. Cardinality(Admitting') <= Cardinality(Admitting \ {s})
        BY <2>1, <3>1, SmallerCounts
      <3>3. Cardinality(Bundles') <= Cardinality(Bundles \cup {name[s]})
        BY <2>1, <3>1, SmallerCounts
      <3>4. /\ Cardinality(Bundles') \in Nat /\ Cardinality(Admitting') \in Nat
            /\ Cardinality(Bundles) \in Nat /\ Cardinality(Admitting) \in Nat
            /\ Cardinality(Bundles \cup {name[s]}) \in Nat
        BY <1>1, <3>1, Counts
      <3> QED
        BY <2>2, <2>3, <3>2, <3>3, <3>4
    <2> QED
      BY <1>1, <1>2, <2>4, Counts, ConstantsAssumption DEF BoundInv
  <1>5. CASE ~(\E s \in Session : CheckCount(s)) /\ ~(\E s \in Session : Publish(s))
    <2>1. Admitting' \subseteq Admitting
      BY <1>5, SessionSteps
    <2>2. Bundles' \subseteq Bundles
      BY <1>5, OutboxSteps DEF DeleteFiles, DeleteBundle, Bundles, Inv, TypeOK
    <2> QED
      BY <1>1, <1>2, <2>1, <2>2, SmallerCounts, Counts, ConstantsAssumption
         DEF BoundInv
  <1> QED
    BY <1>3, <1>4, <1>5

\* MaxBundles is never passed by more than the other open sessions.
THEOREM BoundTheorem == Spec => []OutboxBound
  <1>1. Inv /\ BoundInv => OutboxBound
    <2> SUFFICES ASSUME BoundInv PROVE OutboxBound
      OBVIOUS
    <2>1. Cardinality(Bundles) \in Nat /\ Cardinality(Admitting) \in Nat
      BY Counts DEF Bundles, Admitting
    <2> QED
      BY <2>1, ConstantsAssumption DEF BoundInv, OutboxBound
  <1> QED
    BY <1>1, InitInv, StepInv, InitBound, StepBound, PTL DEF Spec

-----------------------------------------------------------------------------
(* What a client that was told ok can rely on.                              *)

\* A run that published and has not answered yet, or that answered ok.
OkInv ==
  \A s \in Session :
    pc[s] = "reply" \/ (reply[s] = 0 /\ req[s].verb = "collect")
      => name[s] \in Bundles \cup cleared

\* A bundle stays in the outbox until the person begins to delete it.
LEMMA BundlesStay ==
  ASSUME Inv, [Next]_vars
  PROVE  Bundles \cup cleared \subseteq Bundles' \cup cleared'
  <1> USE DEF Inv, TypeOK, Bundles
  <1>1. ASSUME NEW s \in Session, Publish(s)
        PROVE  Bundles \cup cleared \subseteq Bundles' \cup cleared'
    <2>2. cleared' = cleared
      BY <1>1 DEF Publish
    <2>3. ASSUME NEW n \in Bundles PROVE n \in Bundles'
      BY <1>1, <2>3, StaysDir DEF Publish
    <2> QED
      BY <2>2, <2>3
  <1>2. ASSUME NEW n \in Name, DeleteFiles(n) \/ DeleteBundle(n)
        PROVE  Bundles \cup cleared \subseteq Bundles' \cup cleared'
    BY <1>2 DEF DeleteFiles, DeleteBundle
  <1> QED
    BY <1>1, <1>2, OutboxSteps

\* A session comes to the state OkInv speaks of by publishing only.
LEMMA OkSteps ==
  ASSUME Inv, [Next]_vars, NEW t \in Session,
         pc'[t] = "reply" \/ (reply'[t] = 0 /\ req'[t].verb = "collect")
  PROVE  \/ /\ pc[t] = "reply" \/ (reply[t] = 0 /\ req[t].verb = "collect")
            /\ name'[t] = name[t]
         \/ Publish(t)
  <1> USE DEF Inv, TypeOK, Shape, files, sessions, Goto, Answer, Asks
  <1> USE NoneAssumption, RequestType DEF Codes
  <1> DEFINE Held == /\ pc[t] = "reply" \/ (reply[t] = 0 /\ req[t].verb = "collect")
                     /\ name'[t] = name[t]
  <1>1. ASSUME NEW s \in Session, Dispatcher(s) PROVE Held \/ Publish(t)
    <2>1. CASE \/ Refuse(s) \/ ListBundles(s) \/ UnknownCollector(s)
               \/ KnownCollector(s) \/ CheckBytes(s) \/ TestOutbox(s)
               \/ TestStaging(s) \/ Wake(s) \/ MakeWork(s) \/ CheckCount(s)
      BY <2>1 DEF Refuse, ListBundles, UnknownCollector, KnownCollector,
           CheckBytes, TestOutbox, TestStaging, Wake, MakeWork, CheckCount, Collects,
           Admitted, Choosing, Fetches, Named, Unstarted, Started
    <2>2. CASE \/ CollectorExited(s) \/ Timeout(s) \/ Stat(s) \/ Publish(s)
               \/ ReplyCollected(s) \/ FetchOpen(s) \/ ZipBundle(s)
               \/ SendZip(s) \/ RemoveZip(s)
      BY <2>2 DEF CollectorExited, Timeout, Stat, Publish, ReplyCollected,
           FetchOpen, ZipBundle, SendZip, RemoveZip, Fetches
    <2> QED
      BY <1>1, <2>1, <2>2 DEF Dispatcher
  <1>2. ASSUME NEW s \in Session, Process(s) PROVE Held
    BY <1>2 DEF Process, CheckLayout, MakeLayout, WriteExport, ListArtifacts,
         WriteManifest, Exit, CollectorFails
  <1>3. ASSUME NEW s \in Session, Connect(s) \/ InternalError(s) \/ Lose(s)
        PROVE  Held
    BY <1>3 DEF Connect, InternalError, Lose
  <1>4. ASSUME Tick \/ Housekeeping \/ UNCHANGED vars PROVE Held
    BY <1>4 DEF Tick, Housekeeping, DeleteFiles, DeleteBundle, DeleteLeftover, vars
  <1> QED
    BY <1>1, <1>2, <1>3, <1>4 DEF Next

LEMMA StepOk == Inv /\ OkInv /\ [Next]_vars => OkInv'
  <1> SUFFICES ASSUME Inv, OkInv, [Next]_vars, NEW t \in Session,
                      pc'[t] = "reply" \/ (reply'[t] = 0 /\ req'[t].verb = "collect")
               PROVE  name'[t] \in Bundles' \cup cleared'
    BY DEF OkInv
  <1>1. CASE Publish(t) /\ ~(pc[t] = "reply")
    <2>1. pc'[t] = "reply"
      BY <1>1, NoneAssumption DEF Publish, Goto, Answer, Inv, TypeOK, Shape, Codes
    <2>2. name[t] \in Name /\ name'[t] = name[t] /\ staging[name[t]] # None
      BY <1>1, <2>1 DEF Publish, Goto, Answer, Inv, TypeOK, Shape, Named
    <2>3. outbox'[name[t]] # None
      BY <1>1, <2>2, StaysDir DEF Publish, Goto, Answer, Inv, TypeOK
    <2> QED
      BY <2>2, <2>3 DEF Bundles
  <1>2. CASE /\ pc[t] = "reply" \/ (reply[t] = 0 /\ req[t].verb = "collect")
             /\ name'[t] = name[t]
    BY <1>2, BundlesStay DEF OkInv
  <1> QED
    BY <1>1, <1>2, OkSteps DEF Publish

\* A client that is told ok finds its bundle, unless the person deleted it.
THEOREM OkTheorem == Spec => []OkMeansPublished
  <1>1. Init => OkInv
    BY NoneAssumption DEF Init, OkInv, Codes
  <1>2. OkInv => OkMeansPublished
    BY DEF OkInv, OkMeansPublished
  <1> QED
    BY <1>1, <1>2, InitInv, StepInv, StepOk, PTL DEF Spec

-----------------------------------------------------------------------------
(* A bundle whose name one run took is complete.                           *)

Open == {"run", "stat", "publish"}

\* The work directory of a run nobody shares its name with: it is there while
\* it is needed, nothing else was published under its name, and it holds what
\* its collector has written so far.
Intact(s) ==
  LET dir == staging[name[s]] IN
  /\ pc[s] \in Open \/ proc[s] \in Running => dir # None
  /\ pc[s] \in Open => outbox[name[s]] = None
  /\ dir # None => dir.nested = FALSE
  /\ dir # None /\ proc[s] \in {"list", "seal", "exit", "exit0"} => dir.data = s
  /\ dir # None /\ proc[s] \in {"exit", "exit0"}
       => dir.manifest = [by |-> s, lists |-> s]
  /\ proc[s] \in {"seal", "exit", "exit0"} => seen[s] = s

WholeInv ==
  /\ \A n \in Name : staging[n] # None \/ outbox[n] # None => Runs(n) # {}
  /\ \A s \in Session :
       proc[s] # "none" /\ Sole(name[s]) /\ name[s] \notin cleared => Intact(s)
  /\ SoleBundleWhole

\* A run keeps its name and its process; a run begins with MakeWork.
LEMMA RunSteps ==
  ASSUME Inv, [Next]_vars, NEW s \in Session
  PROVE  /\ proc[s] # "none" => /\ proc'[s] # "none"
                                /\ name'[s] = name[s]
         /\ proc[s] = "none" /\ proc'[s] # "none" => MakeWork(s)
         /\ proc[s] = "exit0" => proc'[s] = "exit0"
  <1> USE DEF Inv, TypeOK, Shape, files, sessions, Goto, Answer, Asks, Step,
              Running, Ended, Unstarted, Choosing, Fetches
  <1> DEFINE Kept(u) == /\ proc[s] # "none" => /\ proc'[s] # "none"
                                               /\ name'[s] = name[s]
                        /\ proc[s] = "none" /\ proc'[s] # "none" => MakeWork(u)
                        /\ proc[s] = "exit0" => proc'[s] = "exit0"
  <1>1. ASSUME NEW u \in Session, Dispatcher(u) PROVE Kept(s)
    <2>1. CASE \/ Refuse(u) \/ ListBundles(u) \/ UnknownCollector(u)
               \/ KnownCollector(u) \/ CheckBytes(u) \/ TestOutbox(u)
               \/ TestStaging(u) \/ Wake(u) \/ CheckCount(u)
      BY <2>1 DEF Refuse, ListBundles, UnknownCollector, KnownCollector,
           CheckBytes, TestOutbox, TestStaging, Wake, CheckCount
    <2>2. CASE MakeWork(u)
      <3>1. CASE u = s
        BY <2>2, <3>1 DEF MakeWork
      <3>2. CASE u # s
        BY <2>2, <3>2 DEF MakeWork
      <3> QED
        BY <3>1, <3>2
    <2>3. CASE \/ CollectorExited(u) \/ Timeout(u) \/ Stat(u) \/ Publish(u)
               \/ ReplyCollected(u) \/ FetchOpen(u) \/ ZipBundle(u)
               \/ SendZip(u) \/ RemoveZip(u)
      BY <2>3 DEF CollectorExited, Timeout, Stat, Publish, ReplyCollected,
           FetchOpen, ZipBundle, SendZip, RemoveZip
    <2> QED
      BY <1>1, <2>1, <2>2, <2>3 DEF Dispatcher
  <1>2. ASSUME NEW u \in Session, Process(u) PROVE Kept(s)
    BY <1>2 DEF Process, CheckLayout, MakeLayout, WriteExport, ListArtifacts,
         WriteManifest, Exit, CollectorFails
  <1>3. ASSUME NEW u \in Session, Connect(u) \/ InternalError(u) \/ Lose(u)
        PROVE  Kept(s)
    BY <1>3 DEF Connect, InternalError, Lose
  <1>4. ASSUME Tick \/ Housekeeping \/ UNCHANGED vars PROVE Kept(s)
    BY <1>4 DEF Tick, Housekeeping, DeleteFiles, DeleteBundle, DeleteLeftover, vars
  <1> QED
    BY <1>1, <1>2, <1>3, <1>4 DEF Next

\* A directory in .staging or in the outbox has a run.
LEMMA StepOwned ==
  ASSUME Inv, WholeInv, [Next]_vars, NEW n \in Name,
         staging'[n] # None \/ outbox'[n] # None
  PROVE  Runs(n)' # {}
  <1> USE DEF Inv, TypeOK, Shape, WholeInv, Runs, files, sessions
  <1>1. CASE Runs(n) # {}
    BY <1>1, RunSteps
  <1>2. ASSUME staging[n] = None, outbox[n] = None
        PROVE  \E s \in Session : proc'[s] # "none" /\ name'[s] = n
    <2>1. ASSUME NEW s \in Session, Dispatcher(s)
          PROVE  MakeWork(s) /\ name[s] = n
      <3>1. CASE \/ Refuse(s) \/ ListBundles(s) \/ UnknownCollector(s)
                 \/ KnownCollector(s) \/ CheckBytes(s) \/ TestOutbox(s)
                 \/ TestStaging(s) \/ Wake(s) \/ CheckCount(s)
        BY <1>2, <3>1 DEF Refuse, ListBundles, UnknownCollector, KnownCollector,
             CheckBytes, TestOutbox, TestStaging, Wake, CheckCount
      <3>2. CASE \/ CollectorExited(s) \/ Timeout(s) \/ Stat(s) \/ Publish(s)
                 \/ ReplyCollected(s) \/ FetchOpen(s) \/ ZipBundle(s)
                 \/ SendZip(s) \/ RemoveZip(s)
        BY <1>2, <3>2 DEF CollectorExited, Timeout, Stat, Publish, ReplyCollected,
             FetchOpen, ZipBundle, SendZip, RemoveZip
      <3>3. CASE MakeWork(s)
        BY <1>2, <3>3 DEF MakeWork
      <3> QED
        BY <2>1, <3>1, <3>2, <3>3 DEF Dispatcher
    <2>2. ASSUME NEW s \in Session, Process(s)
          PROVE  proc[s] # "none" /\ name[s] = n
      BY <1>2, <2>2 DEF Process, CheckLayout, MakeLayout, WriteExport, ListArtifacts,
           WriteManifest, Exit, CollectorFails, Step, Running
    <2>3. ASSUME NEW s \in Session, Connect(s) \/ InternalError(s) \/ Lose(s)
          PROVE  FALSE
      BY <1>2, <2>3 DEF Connect, InternalError, Lose
    <2>4. ASSUME Tick \/ Housekeeping \/ UNCHANGED vars PROVE FALSE
      BY <1>2, <2>4 DEF Tick, Housekeeping, DeleteFiles, DeleteBundle,
           DeleteLeftover, vars
    <2>5. ASSUME NEW s \in Session, MakeWork(s), name[s] = n
          PROVE  proc'[s] # "none" /\ name'[s] = n
      BY <2>5 DEF MakeWork
    <2> QED
      BY <2>1, <2>2, <2>3, <2>4, <2>5, RunSteps DEF Next
  <1> QED
    BY <1>1, <1>2


\* What a write changes in a directory, and that it leaves the rest alone.
LEMMA WrittenLayout ==
  ASSUME NEW d \in Dir
  PROVE  /\ [d EXCEPT !.raw = TRUE, !.logs = TRUE] # None
         /\ [d EXCEPT !.raw = TRUE, !.logs = TRUE].nested = d.nested
         /\ [d EXCEPT !.logs = TRUE] # None
         /\ [d EXCEPT !.logs = TRUE].nested = d.nested
  <1>1. [d EXCEPT !.raw = TRUE, !.logs = TRUE] # None /\ [d EXCEPT !.logs = TRUE] # None
    BY WrittenType, NoneAssumption
  <1> QED
    BY <1>1 DEF Dir

LEMMA WrittenManifest ==
  ASSUME NEW d \in Dir, NEW m \in Manifest
  PROVE  /\ [d EXCEPT !.manifest = m] # None
         /\ [d EXCEPT !.manifest = m].nested = d.nested
         /\ [d EXCEPT !.manifest = m].data = d.data
         /\ [d EXCEPT !.manifest = m].manifest = m
  <1>1. [d EXCEPT !.manifest = m] # None
    BY WrittenType, NoneAssumption
  <1> QED
    BY <1>1 DEF Dir

\* The run of t is the only one of its name: what other sessions do does not
\* touch its directory.
LEMMA StepIntactOther ==
  ASSUME Inv, WholeInv, NEW t \in Session, Intact(t), proc[t] # "none",
         NEW s \in Session, s # t,
         Dispatcher(s) \/ Process(s) \/ Connect(s) \/ InternalError(s) \/ Lose(s),
         ~(proc'[s] # "none" /\ name'[s] = name[t])
  PROVE  Intact(t)'
  <1> USE DEF Inv, TypeOK, Shape, files, sessions, Goto, Answer, Asks, Step
  <1> DEFINE n == name[t]
  <1>1. n \in Name
    OBVIOUS
  <1>2. /\ pc'[t] = pc[t] /\ proc'[t] = proc[t] /\ name'[t] = name[t]
        /\ seen'[t] = seen[t]
        /\ staging'[n] = staging[n] /\ outbox'[n] = outbox[n]
    <2>1. CASE Dispatcher(s)
      <3>1. CASE \/ Refuse(s) \/ ListBundles(s) \/ UnknownCollector(s)
                 \/ KnownCollector(s) \/ CheckBytes(s) \/ TestOutbox(s)
                 \/ TestStaging(s) \/ Wake(s) \/ CheckCount(s)
        BY <3>1 DEF Refuse, ListBundles, UnknownCollector, KnownCollector,
             CheckBytes, TestOutbox, TestStaging, Wake, CheckCount
      <3>2. CASE \/ CollectorExited(s) \/ Timeout(s) \/ Stat(s)
                 \/ ReplyCollected(s) \/ FetchOpen(s) \/ ZipBundle(s)
                 \/ SendZip(s) \/ RemoveZip(s)
        BY <3>2 DEF CollectorExited, Timeout, Stat, ReplyCollected, FetchOpen,
             ZipBundle, SendZip, RemoveZip
      <3>3. CASE MakeWork(s)
        BY <3>3 DEF MakeWork
      <3>4. CASE Publish(s)
        BY <3>4 DEF Publish, Started
      <3> QED
        BY <2>1, <3>1, <3>2, <3>3, <3>4 DEF Dispatcher
    <2>2. CASE Process(s)
      BY <2>2 DEF Process, CheckLayout, MakeLayout, WriteExport, ListArtifacts,
           WriteManifest, Exit, CollectorFails, Running
    <2>3. CASE Connect(s) \/ InternalError(s) \/ Lose(s)
      BY <2>3 DEF Connect, InternalError, Lose
    <2> QED
      BY <2>1, <2>2, <2>3
  <1> QED
    BY <1>2 DEF Intact

\* What the dispatcher of t does with its own run.
LEMMA StepIntactDispatcher ==
  ASSUME Inv, NEW t \in Session, Intact(t), proc[t] # "none",
         Dispatcher(t) \/ Connect(t) \/ InternalError(t) \/ Lose(t)
  PROVE  Intact(t)'
  <1> USE DEF Inv, TypeOK, Shape, files, sessions, Goto, Answer, Asks, Intact, Open,
              Running, Ended, Unstarted, Started, Choosing, Fetches, Busy, Over, Named
  <1>1. CASE Publish(t)
    BY <1>1 DEF Publish
  <1>2. CASE \/ CollectorExited(t) \/ Stat(t) \/ ReplyCollected(t)
    BY <1>2 DEF CollectorExited, Stat, ReplyCollected
  <1>3. CASE Timeout(t)
    BY <1>3 DEF Timeout
  <1>4. CASE InternalError(t) \/ Lose(t)
    BY <1>4 DEF InternalError, Lose
  <1>5. CASE \/ Refuse(t) \/ ListBundles(t) \/ UnknownCollector(t)
             \/ KnownCollector(t) \/ CheckBytes(t) \/ TestOutbox(t) \/ Connect(t)
             \/ TestStaging(t) \/ Wake(t) \/ CheckCount(t) \/ MakeWork(t)
             \/ FetchOpen(t) \/ ZipBundle(t) \/ SendZip(t) \/ RemoveZip(t)
    BY <1>5 DEF Refuse, ListBundles, UnknownCollector, KnownCollector, CheckBytes,
         TestOutbox, TestStaging, Wake, CheckCount, MakeWork, Connect, FetchOpen,
         ZipBundle, SendZip, RemoveZip
  <1> QED
    BY <1>1, <1>2, <1>3, <1>4, <1>5 DEF Dispatcher

\* What the collector of t does in its own directory.
LEMMA StepIntactProcess ==
  ASSUME Inv, NEW t \in Session, Intact(t), Process(t)
  PROVE  Intact(t)'
  <1> DEFINE n == name[t]
             d == staging[n]
  <1>1. n \in Name /\ d \in Dir /\ d # None /\ Ensured(n) = d
    BY DEF Inv, TypeOK, Shape, Intact, Step, Running, Ensured, Process, CheckLayout, MakeLayout, WriteExport, ListArtifacts,
         WriteManifest, Exit, CollectorFails
  <1>2. CASE CheckLayout(t) \/ ListArtifacts(t) \/ Exit(t)
    BY <1>1, <1>2 DEF CheckLayout, ListArtifacts, Exit,
         Inv, TypeOK, Shape, files, sessions, Step, Running, Ended, Intact
  <1>3. CASE MakeLayout(t)
    <2>1. staging'[n] = [d EXCEPT !.raw = TRUE, !.logs = TRUE]
      BY <1>1, <1>3 DEF MakeLayout, Step, Inv, TypeOK
    <2>2. /\ staging'[n] # None
          /\ staging'[n].nested = d.nested
      BY <1>1, <2>1, WrittenLayout
    <2> QED
      BY <1>1, <1>3, <2>2
         DEF MakeLayout, Inv, TypeOK, Shape, files, sessions, Step, Running, Ended, Intact
  <1>4. CASE WriteExport(t)
    <2>1. staging'[n] = [d EXCEPT !.raw = TRUE, !.data = t]
      BY <1>1, <1>4 DEF WriteExport, Step, Inv, TypeOK
    <2>2. /\ staging'[n] # None
          /\ staging'[n].nested = d.nested
          /\ staging'[n].data = t
      <3>1. d \in Dir
        BY <1>1
      <3> HIDE DEF d
      <3>2. [d EXCEPT !.raw = TRUE, !.data = t] \in Dir
        BY <3>1, WrittenType
      <3> QED
        BY <2>1, <3>1, <3>2, NoneAssumption DEF Dir
    <2> QED
      BY <1>1, <1>4, <2>2
         DEF WriteExport, Inv, TypeOK, Shape, files, sessions, Step, Running, Ended, Intact
  <1>5. CASE WriteManifest(t)
    <2>1. staging'[n] = [d EXCEPT !.manifest = [by |-> t, lists |-> seen[t]]]
      BY <1>1, <1>5 DEF WriteManifest, Step, Inv, TypeOK
    <2>2. /\ staging'[n] # None
          /\ staging'[n].nested = d.nested
          /\ staging'[n].data = d.data
          /\ staging'[n].manifest = [by |-> t, lists |-> seen[t]]
      <3>1. [by |-> t, lists |-> seen[t]] \in Manifest
        BY ManifestType DEF Inv
      <3>2. \A m \in Manifest : staging'[n] = [d EXCEPT !.manifest = m]
              => /\ staging'[n] # None
                 /\ staging'[n].nested = d.nested
                 /\ staging'[n].data = d.data
                 /\ staging'[n].manifest = m
        BY <1>1, WrittenManifest
      <3> QED
        BY <2>1, <3>1, <3>2
    <2> QED
      BY <1>1, <1>5, <2>2
         DEF WriteManifest, Inv, TypeOK, Shape, files, sessions, Step, Running, Ended, Intact
  <1>6. CASE CollectorFails(t)
    <2>1. staging'[n] = d \/ staging'[n] = [d EXCEPT !.logs = TRUE]
      BY <1>1, <1>6 DEF CollectorFails, Step, Inv, TypeOK
    <2>2. staging'[n] # None /\ staging'[n].nested = d.nested
      BY <1>1, <2>1, WrittenLayout
    <2> QED
      BY <1>1, <1>6, <2>2
         DEF CollectorFails, Inv, TypeOK, Shape, files, sessions, Step, Running, Ended, Intact
  <1> QED
    BY <1>2, <1>3, <1>4, <1>5, <1>6 DEF Process


\* The outbox of a name changes by its run's publication, or is cleared.
LEMMA StepIntact ==
  ASSUME Inv, WholeInv, [Next]_vars, NEW t \in Session,
         proc'[t] # "none", Sole(name[t])', name'[t] \notin cleared'
  PROVE  Intact(t)'
  <1>1. \A s \in Session : proc'[s] # "none" /\ name'[s] = name'[t] => s = t
    BY DEF Sole, Runs
  <1>2. CASE proc[t] = "none"
    <2>1. MakeWork(t) /\ name'[t] = name[t] /\ name[t] \in Name /\ pc[t] = "make"
      BY <1>2, RunSteps DEF MakeWork, Goto, Inv, Shape, Named
    <2>2. Runs(name[t]) = {}
      BY <1>1, <1>2, <2>1, RunSteps DEF Runs
    <2>3. staging[name[t]] = None /\ outbox[name[t]] = None
      BY <2>1, <2>2 DEF WholeInv
    <2>4. /\ staging'[name[t]] = EmptyDir
          /\ outbox'[name[t]] = None
          /\ proc'[t] = "start"
      BY <2>1, <2>3 DEF MakeWork, Goto, Ensured, Inv, TypeOK
    <2>5. EmptyDir # None /\ EmptyDir.nested = FALSE
      BY EmptyDirType, NoneAssumption DEF EmptyDir
    <2> QED
      BY <2>1, <2>4, <2>5 DEF Intact, Running
  <1>3. CASE proc[t] # "none"
    <2>1. name'[t] = name[t] /\ name[t] \in Name
      BY <1>3, RunSteps DEF Inv, Shape
    <2>2. Sole(name[t]) /\ name[t] \notin cleared
      <3>1. \A s, u \in Runs(name[t]) : s = u
        BY <1>1, <2>1, RunSteps DEF Runs
      <3>2. cleared \subseteq cleared'
        BY OutboxSteps DEF Publish, files, DeleteFiles, DeleteBundle
      <3> QED
        BY <2>1, <3>1, <3>2 DEF Sole
    <2>3. Intact(t)
      BY <1>3, <2>2 DEF WholeInv
    <2>4. ASSUME NEW s \in Session,
                 Dispatcher(s) \/ Process(s) \/ Connect(s) \/ InternalError(s) \/ Lose(s)
          PROVE  Intact(t)'
      <3>1. CASE s # t
        <4>1. ~(proc'[s] # "none" /\ name'[s] = name[t])
          BY <1>1, <2>1, <3>1
        <4> QED
          BY <1>3, <2>3, <2>4, <3>1, <4>1, StepIntactOther
      <3>2. CASE s = t
        BY <1>3, <2>3, <2>4, <3>2, StepIntactDispatcher, StepIntactProcess
      <3> QED
        BY <3>1, <3>2
    <2>5. ASSUME Tick \/ UNCHANGED vars PROVE Intact(t)'
      BY <2>3, <2>5 DEF Tick, vars, files, sessions, Intact
    <2>6. ASSUME NEW n \in Name, DeleteFiles(n) \/ DeleteBundle(n) PROVE Intact(t)'
      <3>1. n # name[t]
        BY <2>1, <2>6 DEF DeleteFiles, DeleteBundle
      <3> QED
        BY <2>1, <2>3, <2>6, <3>1
           DEF DeleteFiles, DeleteBundle, sessions, Intact, Inv, TypeOK
    <2>7. ASSUME NEW n \in Name, DeleteLeftover(n) PROVE Intact(t)'
      BY <2>1, <2>3, <2>7
         DEF DeleteLeftover, sessions, Intact, Inv, TypeOK, Open, Busy
    <2> QED
      BY <2>4, <2>5, <2>6, <2>7 DEF Next, Housekeeping
  <1> QED
    BY <1>2, <1>3

LEMMA InitWhole == Init => WholeInv
  BY DEF Init, WholeInv, SoleBundleWhole, Bundles

LEMMA StepWhole == Inv /\ WholeInv /\ [Next]_vars => WholeInv'
  <1> SUFFICES ASSUME Inv, WholeInv, [Next]_vars PROVE WholeInv'
    OBVIOUS
  <1>1. ASSUME NEW n \in Name, staging'[n] # None \/ outbox'[n] # None
        PROVE  Runs(n)' # {}
    BY <1>1, StepOwned
  <1>2. ASSUME NEW s \in Session,
               proc'[s] # "none", Sole(name[s])', name'[s] \notin cleared'
        PROVE  Intact(s)'
    BY <1>2, StepIntact
  <1>3. ASSUME NEW n \in Name, outbox'[n] # None, Sole(n)', n \notin cleared'
        PROVE  Whole(n)'
    <2>1. Sole(n) /\ n \notin cleared
      <3>1. Runs(n) \subseteq Runs(n)'
        BY RunSteps DEF Runs
      <3>2. cleared \subseteq cleared'
        BY OutboxSteps DEF Publish, files, DeleteFiles, DeleteBundle
      <3> QED
        BY <1>3, <3>1, <3>2 DEF Sole
    <2>2. CASE outbox'[n] = outbox[n]
      <3>1. PICK s \in Runs(n) :
              /\ proc[s] = "exit0"
              /\ outbox[n].data = s
              /\ outbox[n].manifest = [by |-> s, lists |-> s]
              /\ ~outbox[n].nested
        BY <1>3, <2>1, <2>2 DEF WholeInv, SoleBundleWhole, Bundles, Whole
      <3>2. s \in Runs(n)' /\ proc'[s] = "exit0"
        BY <3>1, RunSteps DEF Runs
      <3> QED
        BY <2>2, <3>1, <3>2 DEF Whole
    <2>3. CASE outbox'[n] # outbox[n]
      <3>1. PICK s \in Session : Publish(s) /\ name[s] = n
        BY <1>3, <2>3, OutboxSteps DEF Publish, DeleteFiles, DeleteBundle, Inv, TypeOK
      <3>2. /\ proc[s] = "exit0"
            /\ s \in Runs(n)
            /\ pc[s] = "publish"
            /\ staging[n] # None
        BY <1>3, <2>3, <3>1 DEF Publish, Answer, Goto, Inv, Shape, Runs
      <3>3. Intact(s)
        BY <2>1, <3>1, <3>2 DEF WholeInv
      <3>4. outbox'[n] = staging[n]
        BY <1>3, <3>1, <3>2, <3>3
           DEF Publish, Answer, Goto, Intact, Open, Inv, TypeOK
      <3>5. s \in Runs(n)' /\ proc'[s] = "exit0"
        BY <3>2, RunSteps DEF Runs
      <3> QED
        BY <3>1, <3>2, <3>3, <3>4, <3>5 DEF Whole, Intact
    <2> QED
      BY <2>2, <2>3
  <1> QED
    BY <1>1, <1>2, <1>3 DEF WholeInv, SoleBundleWhole, Bundles

\* A bundle whose name one run took is that run's complete bundle.
THEOREM WholeTheorem == Spec => []SoleBundleWhole
  <1>1. WholeInv => SoleBundleWhole
    BY DEF WholeInv
  <1> QED
    BY <1>1, InitInv, StepInv, InitWhole, StepWhole, PTL DEF Spec


-----------------------------------------------------------------------------
(* What a fetch sends is what the outbox holds.                            *)

FetchInv ==
  \A s \in Session :
    /\ Sole(name[s]) /\ name[s] \notin cleared
    /\ pc[s] = "send" \/ delivered[s] # None
    => /\ outbox[name[s]] # None
       /\ pc[s] = "send" => zip[s] = outbox[name[s]]
       /\ delivered[s] # None => delivered[s] = outbox[name[s]]

\* The bundle of an unshared, uncleared name never changes at all.
LEMMA SoleFrozen ==
  ASSUME Inv, WholeInv, [Next]_vars,
         NEW n \in Name, outbox[n] # None, Sole(n), n \notin cleared'
  PROVE  outbox'[n] = outbox[n]
  <1>1. n \notin cleared
    BY OutboxSteps DEF Publish, files, DeleteFiles, DeleteBundle
  <1>2. ASSUME NEW s \in Session, Publish(s), name[s] = n PROVE FALSE
    <2>1. proc[s] # "none" /\ pc[s] = "publish"
      BY <1>2 DEF Publish, Answer, Goto, Inv, Shape, Started
    <2> QED
      BY <1>1, <1>2, <2>1 DEF WholeInv, Intact, Open
  <1>3. ASSUME NEW s \in Session, Publish(s), name[s] # n PROVE outbox'[n] = outbox[n]
    BY <1>3 DEF Publish, Inv, TypeOK
  <1>4. ASSUME NEW m \in Name, DeleteFiles(m) \/ DeleteBundle(m)
        PROVE  outbox'[n] = outbox[n]
    BY <1>4 DEF DeleteFiles, DeleteBundle, Inv, TypeOK
  <1> QED
    BY <1>2, <1>3, <1>4, OutboxSteps

\* A fetch comes to hold a zip by ZipBundle, and sends the one it holds.
LEMMA FetchSteps ==
  ASSUME Inv, [Next]_vars, NEW t \in Session
  PROVE  /\ pc'[t] = "send" => \/ ZipBundle(t)
                               \/ /\ pc[t] = "send"
                                  /\ zip'[t] = zip[t]
                                  /\ name'[t] = name[t]
         /\ delivered'[t] # None =>
              \/ SendZip(t)
              \/ /\ delivered'[t] = delivered[t]
                 /\ name'[t] = name[t]
  <1> USE DEF Inv, TypeOK, Shape, files, sessions, Goto, Answer, Asks, Step, Over
  <1> DEFINE Keeps == /\ pc'[t] = "send" => /\ pc[t] = "send"
                                           /\ zip'[t] = zip[t]
                                           /\ name'[t] = name[t]
                      /\ delivered'[t] # None => /\ delivered'[t] = delivered[t]
                                                /\ name'[t] = name[t]
  <1>1. ASSUME NEW s \in Session, Dispatcher(s)
        PROVE  \/ Keeps
               \/ ZipBundle(t) /\ delivered'[t] = delivered[t] /\ name'[t] = name[t]
               \/ SendZip(t) /\ pc'[t] # "send"
    <2>1. CASE \/ Refuse(s) \/ ListBundles(s) \/ UnknownCollector(s)
               \/ KnownCollector(s) \/ CheckBytes(s) \/ TestOutbox(s)
               \/ TestStaging(s) \/ Wake(s) \/ CheckCount(s) \/ MakeWork(s)
      BY <2>1 DEF Refuse, ListBundles, UnknownCollector, KnownCollector,
           CheckBytes, TestOutbox, TestStaging, Wake, CheckCount, MakeWork
    <2>2. CASE \/ CollectorExited(s) \/ Timeout(s) \/ Stat(s) \/ Publish(s)
               \/ ReplyCollected(s) \/ FetchOpen(s) \/ RemoveZip(s)
      BY <2>2 DEF CollectorExited, Timeout, Stat, Publish, ReplyCollected,
           FetchOpen, RemoveZip
    <2>3. CASE ZipBundle(s) \/ SendZip(s)
      BY <2>3 DEF ZipBundle, SendZip
    <2> QED
      BY <1>1, <2>1, <2>2, <2>3 DEF Dispatcher
  <1>2. ASSUME NEW s \in Session, Process(s) PROVE Keeps
    BY <1>2 DEF Process, CheckLayout, MakeLayout, WriteExport, ListArtifacts,
         WriteManifest, Exit, CollectorFails
  <1>3. ASSUME NEW s \in Session, Connect(s) \/ InternalError(s) \/ Lose(s)
        PROVE  Keeps
    BY <1>3 DEF Connect, InternalError, ZipAfterError, Lose
  <1>4. ASSUME Tick \/ Housekeeping \/ UNCHANGED vars PROVE Keeps
    BY <1>4 DEF Tick, Housekeeping, DeleteFiles, DeleteBundle, DeleteLeftover, vars
  <1> QED
    BY <1>1, <1>2, <1>3, <1>4 DEF Next

LEMMA StepFetch == Inv /\ WholeInv /\ FetchInv /\ [Next]_vars => FetchInv'
  <1> SUFFICES ASSUME Inv, WholeInv, FetchInv, [Next]_vars, NEW t \in Session,
                      Sole(name[t])', name'[t] \notin cleared',
                      pc'[t] = "send" \/ delivered'[t] # None
               PROVE  /\ outbox'[name'[t]] # None
                      /\ pc'[t] = "send" => zip'[t] = outbox'[name'[t]]
                      /\ delivered'[t] # None => delivered'[t] = outbox'[name'[t]]
    BY DEF FetchInv
  <1>1. \A n \in Name : Sole(n)' => Sole(n)
    BY RunSteps DEF Sole, Runs
  <1>2. cleared \subseteq cleared'
    BY OutboxSteps DEF Publish, files, DeleteFiles, DeleteBundle
  <1>3. CASE ZipBundle(t)
    <2>1. /\ name'[t] = name[t] /\ name[t] \in Name
          /\ pc'[t] = "send"
          /\ outbox'[name[t]] = outbox[name[t]]
          /\ outbox[name[t]] # None
          /\ zip'[t] = outbox[name[t]]
          /\ delivered'[t] = None
      BY <1>3 DEF ZipBundle, BundleDir, Goto, Answer, Inv, TypeOK, Shape, Named,
                  Fetches, Over
    <2> QED
      BY <2>1
  <1>4. CASE ~ZipBundle(t)
    <2>1. /\ name'[t] = name[t]
          /\ pc[t] = "send" \/ delivered[t] # None
          /\ name[t] \in Name
      BY <1>4, FetchSteps DEF SendZip, Goto, Inv, Shape, Named, Fetches
    <2>2. /\ Sole(name[t]) /\ name[t] \notin cleared
          /\ outbox[name[t]] # None
          /\ pc[t] = "send" => zip[t] = outbox[name[t]]
          /\ delivered[t] # None => delivered[t] = outbox[name[t]]
      BY <1>1, <1>2, <2>1 DEF FetchInv
    <2>3. outbox'[name[t]] = outbox[name[t]]
      BY <2>1, <2>2, SoleFrozen
    <2> QED
      BY <1>4, <2>1, <2>2, <2>3, FetchSteps DEF SendZip, Goto, Inv, TypeOK
  <1> QED
    BY <1>3, <1>4

\* A fetch delivers a bundle exactly as it stands in the outbox.
THEOREM FetchTheorem == Spec => []FetchFaithful
  <1>1. Init => FetchInv
    BY DEF Init, FetchInv
  <1>2. FetchInv => FetchFaithful
    BY DEF FetchInv, FetchFaithful
  <1> QED
    BY <1>1, <1>2, InitInv, StepInv, InitWhole, StepWhole, StepFetch, PTL DEF Spec

-----------------------------------------------------------------------------
(* What stays in .staging.                                                 *)

\* The run has not moved its directory, or it has ended with an error.
Owes(s) == reply[s] # 0 /\ pc[s] # "reply"

StrayInv ==
  /\ \A s \in Session : proc[s] \in Running => Owes(s)
  /\ \A n \in Name : staging[n] # None => \E s \in Runs(n) : Owes(s)
  /\ \A s \in Session : zip[s] # None =>
       pc[s] \in {"send", "clean", "lost"} \/ (pc[s] = "done" /\ reply[s] = 70)

\* A run owes its directory until it is moved away.
LEMMA OwesSteps ==
  ASSUME Inv, StrayInv, [Next]_vars, NEW s \in Session, proc[s] # "none"
  PROVE  /\ Owes(s) => Owes(s)' \/ staging'[name[s]] = None
         /\ Owes(s) /\ proc'[s] \in Running => Owes(s)'
  <1> USE NoneAssumption
  <1> USE DEF Inv, TypeOK, Shape, StrayInv, Owes, files, sessions, Goto, Answer,
              Asks, Step, Running, Ended, Unstarted, Choosing, Fetches, Codes
  <1> DEFINE Kept == /\ Owes(s) => Owes(s)' \/ staging'[name[s]] = None
                     /\ Owes(s) /\ proc'[s] \in Running => Owes(s)'
  <1>1. ASSUME NEW u \in Session, Dispatcher(u) PROVE Kept
    <2>1. CASE \/ Refuse(u) \/ ListBundles(u) \/ UnknownCollector(u)
               \/ KnownCollector(u) \/ CheckBytes(u) \/ TestOutbox(u)
               \/ TestStaging(u) \/ Wake(u) \/ CheckCount(u) \/ MakeWork(u)
      BY <2>1 DEF Refuse, ListBundles, UnknownCollector, KnownCollector,
           CheckBytes, TestOutbox, TestStaging, Wake, CheckCount, MakeWork
    <2>2. CASE \/ CollectorExited(u) \/ Timeout(u) \/ Stat(u)
               \/ ReplyCollected(u) \/ FetchOpen(u) \/ ZipBundle(u)
               \/ SendZip(u) \/ RemoveZip(u)
      BY <2>2 DEF CollectorExited, Timeout, Stat, ReplyCollected, FetchOpen,
           ZipBundle, SendZip, RemoveZip
    <2>3. CASE Publish(u)
      <3>1. CASE u = s
        BY <2>3, <3>1 DEF Publish, Named
      <3>2. CASE u # s
        BY <2>3, <3>2 DEF Publish
      <3> QED
        BY <3>1, <3>2
    <2> QED
      BY <1>1, <2>1, <2>2, <2>3 DEF Dispatcher
  <1>2. ASSUME NEW u \in Session, Process(u) PROVE Kept
    BY <1>2 DEF Process, CheckLayout, MakeLayout, WriteExport, ListArtifacts,
         WriteManifest, Exit, CollectorFails
  <1>3. ASSUME NEW u \in Session, Connect(u) \/ InternalError(u) \/ Lose(u)
        PROVE  Kept
    BY <1>3 DEF Connect, InternalError, Lose
  <1>4. ASSUME Tick \/ Housekeeping \/ UNCHANGED vars PROVE Kept
    BY <1>4 DEF Tick, Housekeeping, DeleteFiles, DeleteBundle, DeleteLeftover, vars
  <1> QED
    BY <1>1, <1>2, <1>3, <1>4 DEF Next

\* Only a run begins a directory: MakeWork, or its collector while it runs. Only
\* MakeWork starts a collector.
LEMMA StagingSteps ==
  ASSUME Inv, [Next]_vars
  PROVE  /\ \A n \in Name : staging'[n] # None =>
              \/ staging[n] # None
              \/ \E s \in Session : name[s] = n /\ (MakeWork(s) \/ proc[s] \in Running)
         /\ \A s \in Session : proc'[s] \in Running => proc[s] \in Running \/ MakeWork(s)
  <1> USE DEF Inv, TypeOK, Shape, files, sessions, Step, Running, Ended
  <1> DEFINE From(u) ==
        /\ \A n \in Name : staging'[n] # None =>
             \/ staging[n] # None
             \/ name[u] = n /\ (MakeWork(u) \/ proc[u] \in Running)
        /\ \A s \in Session : proc'[s] \in Running => proc[s] \in Running \/ MakeWork(s)
      Quiet == /\ \A n \in Name : staging'[n] # None => staging[n] # None
               /\ \A s \in Session : proc'[s] \in Running => proc[s] \in Running
  <1>1. ASSUME NEW u \in Session, Dispatcher(u) PROVE Quiet \/ From(u)
    <2>1. CASE \/ Refuse(u) \/ ListBundles(u) \/ UnknownCollector(u)
               \/ KnownCollector(u) \/ CheckBytes(u) \/ TestOutbox(u)
               \/ TestStaging(u) \/ Wake(u) \/ CheckCount(u)
      <3>1. Quiet
        BY <2>1 DEF Refuse, ListBundles, UnknownCollector, KnownCollector,
             CheckBytes, TestOutbox, TestStaging, Wake, CheckCount
      <3> QED
        BY <3>1
    <2>2. CASE \/ CollectorExited(u) \/ Timeout(u) \/ Stat(u) \/ Publish(u)
               \/ ReplyCollected(u) \/ FetchOpen(u) \/ ZipBundle(u)
               \/ SendZip(u) \/ RemoveZip(u)
      <3>1. Quiet
        BY <2>2 DEF CollectorExited, Timeout, Stat, Publish, ReplyCollected,
             FetchOpen, ZipBundle, SendZip, RemoveZip
      <3> QED
        BY <3>1
    <2>3. CASE MakeWork(u)
      <3>1. /\ staging' = [staging EXCEPT ![name[u]] = Ensured(name[u])]
            /\ proc' = [proc EXCEPT ![u] = "start"]
        BY <2>3 DEF MakeWork
      <3>2. \A n \in Name : staging'[n] # None => staging[n] # None \/ name[u] = n
        BY <3>1
      <3>3. \A s \in Session : proc'[s] \in Running => proc[s] \in Running \/ s = u
        BY <3>1
      <3> QED
        BY <2>3, <3>2, <3>3
    <2> QED
      BY <1>1, <2>1, <2>2, <2>3 DEF Dispatcher
  <1>2. ASSUME NEW u \in Session, Process(u) PROVE From(u)
    BY <1>2 DEF Process, CheckLayout, MakeLayout, WriteExport, ListArtifacts,
         WriteManifest, Exit, CollectorFails
  <1>3. ASSUME NEW u \in Session, Connect(u) \/ InternalError(u) \/ Lose(u)
        PROVE  Quiet
    BY <1>3 DEF Connect, InternalError, Lose
  <1>4. ASSUME Tick \/ Housekeeping \/ UNCHANGED vars PROVE Quiet
    BY <1>4 DEF Tick, Housekeeping, DeleteFiles, DeleteBundle, DeleteLeftover, vars
  <1> HIDE DEF From, Quiet
  <1>5. \/ Quiet
        \/ \E u \in Session : From(u)
    BY <1>1, <1>2, <1>3, <1>4 DEF Next
  <1> QED
    BY <1>5 DEF From, Quiet

\* A zip outlives its fetch only after a loss or an internal error.
LEMMA ZipSteps ==
  ASSUME Inv, StrayInv, [Next]_vars, NEW s \in Session, zip'[s] # None
  PROVE  pc'[s] \in {"send", "clean", "lost"} \/ (pc'[s] = "done" /\ reply'[s] = 70)
  <1> DEFINE Owned == pc'[s] \in {"send", "clean", "lost"} \/ (pc'[s] = "done" /\ reply'[s] = 70)
  <1> USE DEF Inv, TypeOK, StrayInv, files, sessions, Goto, Answer, Asks, Step, Busy
  <1>1. ASSUME NEW u \in Session, Dispatcher(u)
        PROVE  Owned
    <2>1. CASE \/ Refuse(u) \/ ListBundles(u) \/ UnknownCollector(u)
               \/ KnownCollector(u) \/ CheckBytes(u) \/ TestOutbox(u)
               \/ TestStaging(u) \/ Wake(u) \/ CheckCount(u) \/ MakeWork(u)
      BY <2>1 DEF Refuse, ListBundles, UnknownCollector, KnownCollector,
           CheckBytes, TestOutbox, TestStaging, Wake, CheckCount, MakeWork
    <2>2. CASE \/ CollectorExited(u) \/ Timeout(u) \/ Stat(u) \/ Publish(u)
               \/ ReplyCollected(u) \/ FetchOpen(u) \/ ZipBundle(u)
               \/ SendZip(u) \/ RemoveZip(u)
      BY <2>2 DEF CollectorExited, Timeout, Stat, Publish, ReplyCollected,
           FetchOpen, ZipBundle, SendZip, RemoveZip
    <2> QED
      BY <1>1, <2>1, <2>2 DEF Dispatcher
  <1>2. ASSUME NEW u \in Session, Process(u)
        PROVE  Owned
    BY <1>2 DEF Process, CheckLayout, MakeLayout, WriteExport, ListArtifacts,
         WriteManifest, Exit, CollectorFails
  <1>3. ASSUME NEW u \in Session, Connect(u) \/ InternalError(u) \/ Lose(u)
        PROVE  Owned
    BY <1>3 DEF Connect, InternalError, ZipAfterError, Lose
  <1>4. ASSUME Tick \/ Housekeeping \/ UNCHANGED vars
        PROVE  Owned
    BY <1>4 DEF Tick, Housekeeping, DeleteFiles, DeleteBundle, DeleteLeftover, vars
  <1> QED
    BY <1>1, <1>2, <1>3, <1>4 DEF Next

LEMMA StepStray == Inv /\ StrayInv /\ [Next]_vars => StrayInv'
  <1> SUFFICES ASSUME Inv, StrayInv, [Next]_vars PROVE StrayInv'
    OBVIOUS
  \* A session that makes its directory owes it.
  <1>1. ASSUME NEW s \in Session, MakeWork(s)
        PROVE  proc'[s] # "none" /\ name'[s] = name[s] /\ Owes(s)'
    <2>1. pc[s] = "make" /\ reply[s] = None /\ None # 0
      BY <1>1, NoneAssumption DEF MakeWork, Goto, Inv, Shape, Codes
    <2> QED
      BY <1>1, <2>1 DEF MakeWork, Goto, Inv, TypeOK, Owes
  <1>2. ASSUME NEW s \in Session, proc'[s] \in Running PROVE Owes(s)'
    <2>1. CASE MakeWork(s)
      BY <1>1, <2>1
    <2>2. CASE proc[s] \in Running
      <3>1. proc[s] # "none" /\ Owes(s)
        BY <2>2 DEF StrayInv, Running
      <3> QED
        BY <1>2, <3>1, OwesSteps
    <2> QED
      BY <1>2, <2>1, <2>2, StagingSteps
  <1>3. ASSUME NEW n \in Name, staging'[n] # None
        PROVE  \E s \in Session : proc'[s] # "none" /\ name'[s] = n /\ Owes(s)'
    <2>1. ASSUME NEW s \in Session, proc[s] # "none", name[s] = n, Owes(s)
          PROVE  proc'[s] # "none" /\ name'[s] = n /\ Owes(s)'
      BY <1>3, <2>1, RunSteps, OwesSteps
    <2>2. CASE staging[n] # None
      BY <2>1, <2>2 DEF StrayInv, Runs
    <2>3. ASSUME NEW s \in Session, name[s] = n, MakeWork(s) \/ proc[s] \in Running
          PROVE  proc'[s] # "none" /\ name'[s] = n /\ Owes(s)'
      <3>1. CASE MakeWork(s)
        BY <1>1, <2>3, <3>1
      <3>2. CASE proc[s] \in Running
        <4>1. proc[s] # "none" /\ Owes(s)
          BY <3>2 DEF StrayInv, Running
        <4> QED
          BY <2>1, <2>3, <4>1
      <3> QED
        BY <2>3, <3>1, <3>2
    <2> QED
      BY <1>3, <2>2, <2>3, StagingSteps
  <1> QED
    BY <1>2, <1>3, ZipSteps DEF StrayInv, Runs

\* A directory left in .staging belongs to a run that is under way or did not answer 0,
\* a zip to a fetch that is open, was lost, or told its client of an internal error.
THEOREM StrayTheorem == Spec => []NoStrayFiles
  <1>1. Init => StrayInv
    BY DEF Init, StrayInv, Running
  <1>2. StrayInv => NoStrayFiles
    BY DEF StrayInv, NoStrayFiles, Owes
  <1> QED
    BY <1>1, <1>2, InitInv, StepInv, StepStray, PTL DEF Spec
=============================================================================

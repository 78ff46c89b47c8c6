-------------------------- MODULE BuildCacheProofs --------------------------
(***************************************************************************)
(* The safety properties of BuildCache, for any texts, compilers and       *)
(* numbers of edits, builds and accidents.                                 *)
(*                                                                         *)
(* RecordedWasLinked is not inductive: that a save records a text some     *)
(* build has linked rests on the compiler that saves having got past its   *)
(* own link with that text (LinkedBeforeRecord), however its steps are     *)
(* interleaved with those of other compilers.                              *)
(***************************************************************************)
EXTENDS BuildCache, TLAPS

Early == {"off", "idle", "config", "parse"}
Late == {"parsed", "generate", "compile", "link", "record", "save"}
Stages == Early \cup Late

JobType == [pc : Stages, text : Texts \cup {None}, read : 0 .. MaxEdits, keys : SUBSET Texts]

(* A compiler that has parsed the entry file knows a text. *)
HasParsed(e) == e.pc \in Late => e.text \in Texts

LinkedBeforeRecord(e) == e.pc = "record" => e.text \in linked

IInv ==
    /\ TypeOK
    /\ RecordedWasLinked
    /\ \A c \in Compilers : HasParsed(job[c]) /\ LinkedBeforeRecord(job[c])
-----------------------------------------------------------------------------
\* Only the job of compiler c changes, to e.
Becomes(c, e) ==
    /\ job' \in [Compilers -> JobType] /\ job'[c] = e
    /\ \A d \in Compilers : d # c => job'[d] = job[d]

LEMMA JobTyped ==
    ASSUME TypeOK
    PROVE  job \in [Compilers -> JobType] /\ \A c \in Compilers : job[c] \in JobType
  BY DEF TypeOK, JobType, Stages, Early, Late

LEMMA Change ==
    ASSUME TypeOK, NEW c \in Compilers, NEW e \in JobType, job' = [job EXCEPT ![c] = e]
    PROVE  Becomes(c, e)
  BY JobTyped DEF Becomes

(* A compiler that goes on, and one whose build() is over. *)
LEMMA GoesOn ==
    ASSUME TypeOK, NEW c \in Compilers, NEW pc \in Stages, Go(c, pc)
    PROVE  \E e \in JobType :
              /\ e.pc = pc /\ e.text = job[c].text /\ e.keys = job[c].keys
              /\ Becomes(c, e)
<1> DEFINE e == [job[c] EXCEPT !.pc = pc]
<1>1. e \in JobType /\ e.pc = pc /\ e.text = job[c].text /\ e.keys = job[c].keys
  BY JobTyped DEF JobType
<1>2. job' = [job EXCEPT ![c] = e]
  BY DEF Go
<1> QED BY <1>1, <1>2, Change

LEMMA Returns ==
    ASSUME TypeOK, NEW c \in Compilers, Return(c)
    PROVE  /\ seen' = seen
           /\ \E e \in JobType : e.pc \in Early /\ e.keys = {} /\ Becomes(c, e)
<1> DEFINE e == [job[c] EXCEPT !.pc = After(c), !.keys = {}]
<1>1. e \in JobType /\ e.pc \in Early /\ e.keys = {}
  BY JobTyped DEF JobType, Stages, Early, After
<1>2. job' = [job EXCEPT ![c] = e] /\ seen' = seen
  BY JobTyped DEF Return
<1> QED BY <1>1, <1>2, Change

(* A step of one compiler keeps the invariant if what it knows and what it      *)
(* records was linked.                                                          *)
LEMMA OneChanges ==
    ASSUME IInv, TypeOK', NEW c \in Compilers, NEW e \in JobType, Becomes(c, e), linked \subseteq linked',
           e.keys \subseteq linked', manifest'.keys \subseteq linked',
           e.pc = "record" => e.text \in linked', HasParsed(e)
    PROVE  IInv'
<1>1. \A d \in Compilers : job'[d].keys \subseteq linked'
  BY DEF Becomes, IInv, RecordedWasLinked
<1>2. \A d \in Compilers : job'[d].pc = "record" => job'[d].text \in linked'
  BY DEF Becomes, IInv, LinkedBeforeRecord
<1>3. \A d \in Compilers : HasParsed(job'[d])
  BY DEF Becomes, IInv
<1> QED BY <1>1, <1>2, <1>3 DEF IInv, RecordedWasLinked, HasParsed, LinkedBeforeRecord, Compilers

LEMMA NoneChanges ==
    ASSUME IInv, TypeOK', UNCHANGED <<job, manifest, linked>>
    PROVE  IInv'
  BY DEF IInv, RecordedWasLinked, HasParsed, LinkedBeforeRecord, Compilers

(* The types of the parts that most steps leave alone. *)
LEMMA Types ==
    ASSUME TypeOK, job' \in [Compilers -> JobType],
           seen' = seen \/ seen' \in [Watchers -> 0 .. MaxEdits \cup {None}],
           manifest' = manifest \/ manifest' \in [keys : SUBSET Texts, whole : BOOLEAN],
           {ir', obj', exe'} \subseteq Texts \cup {None}, linked' \subseteq Texts,
           overlap' = overlap \/ overlap' \in BOOLEAN,
           UNCHANGED tree \/ (text' \in Texts /\ edits' \in 0 .. MaxEdits /\ loads' \in BOOLEAN),
           builds' = builds \/ builds' \in 0 .. MaxBuilds,
           kills' = kills \/ kills' \in 0 .. MaxKills
    PROVE  TypeOK'
<1>1. /\ text' \in Texts /\ edits' \in 0 .. MaxEdits /\ loads' \in BOOLEAN /\ overlap' \in BOOLEAN
      /\ builds' \in 0 .. MaxBuilds /\ kills' \in 0 .. MaxKills
  BY DEF TypeOK, tree
<1>2. seen' \in [Watchers -> 0 .. MaxEdits \cup {None}] /\ manifest' \in [keys : SUBSET Texts, whole : BOOLEAN]
  BY DEF TypeOK
<1> QED BY <1>1, <1>2 DEF TypeOK, JobType, Stages, Early, Late

LEMMA Parts ==
    ASSUME TypeOK
    PROVE  /\ text \in Texts /\ edits \in 0 .. MaxEdits /\ loads \in BOOLEAN /\ builds \in Nat /\ kills \in Nat
           /\ ir \in Texts \cup {None} /\ obj \in Texts \cup {None} /\ exe \in Texts \cup {None}
           /\ manifest.keys \subseteq Texts /\ linked \subseteq Texts
           /\ seen \in [Watchers -> 0 .. MaxEdits \cup {None}]
  BY DEF TypeOK
-----------------------------------------------------------------------------
(* The steps of build(), a kill, and the rest. *)
LEMMA BuildStepKeeps ==
    ASSUME IInv, NEW c \in Compilers, BuildStep(c)
    PROVE  IInv'
<1>1. TypeOK /\ RecordedWasLinked /\ job[c] \in JobType /\ HasParsed(job[c]) /\ LinkedBeforeRecord(job[c])
  BY JobTyped DEF IInv
<1>2. ASSUME NEW e \in JobType, Becomes(c, e), e.pc \notin {"record"}, e.keys \subseteq linked, HasParsed(e),
             UNCHANGED <<tree, cache, linked, builds, kills>>,
             seen' = seen, {ir', obj', exe'} \subseteq Texts \cup {None}
      PROVE  IInv'
  <2>1. TypeOK'
    BY <1>1, <1>2, Types, Parts DEF Becomes, cache
  <2> QED BY <1>1, <1>2, <2>1, OneChanges DEF RecordedWasLinked, cache
<1>3. ASSUME Return(c), UNCHANGED <<tree, cache, linked, builds, kills>>,
             {ir', obj', exe'} \subseteq Texts \cup {None}
      PROVE  IInv'
  <2>1. PICK e \in JobType : e.pc \in Early /\ e.keys = {} /\ Becomes(c, e)
    BY <1>1, <1>3, Returns
  <2>2. seen' = seen
    BY <1>1, <1>3, Returns
  <2> QED BY <1>2, <1>3, <2>1, <2>2 DEF HasParsed, Early, Late
<1>4. ASSUME NEW pc \in Stages \ {"record"}, Go(c, pc), job[c].text \in Texts,
             UNCHANGED <<tree, cache, linked, builds, kills, seen>>,
             {ir', obj', exe'} \subseteq Texts \cup {None}
      PROVE  IInv'
  <2>1. PICK e \in JobType : e.pc = pc /\ e.text = job[c].text /\ e.keys = job[c].keys /\ Becomes(c, e)
    BY <1>1, <1>4, GoesOn
  <2>2. HasParsed(e) /\ e.keys \subseteq linked /\ e.pc # "record"
    BY <1>1, <1>4, <2>1 DEF HasParsed, Early, Late, RecordedWasLinked
  <2> QED BY <1>2, <1>4, <2>1, <2>2
<1>13. CASE LoadConfig(c)
  <2>1. PICK e \in JobType : e.pc = "parse" /\ e.keys = job[c].keys /\ Becomes(c, e)
    BY <1>1, <1>13, GoesOn DEF LoadConfig, Stages, Early
  <2>2. HasParsed(e) /\ e.keys \subseteq linked /\ {ir', obj', exe'} \subseteq Texts \cup {None}
    BY <1>1, <1>13, <2>1, Parts DEF HasParsed, RecordedWasLinked, LoadConfig, files, Late
  <2> QED BY <1>2, <1>13, <2>1, <2>2 DEF LoadConfig, files
<1>5. CASE ParseEntry(c)
  <2> DEFINE e == [pc |-> "parsed", text |-> text, read |-> edits, keys |-> {}]
  <2>1. e \in JobType /\ e.pc = "parsed" /\ e.keys = {} /\ HasParsed(e)
    BY <1>1, Parts DEF JobType, Stages, Early, Late, HasParsed
  <2>2. job' = [job EXCEPT ![c] = e] /\ UNCHANGED <<tree, files, seen, linked, builds, kills>>
    BY <1>5 DEF ParseEntry
  <2> HIDE DEF e
  <2>3. Becomes(c, e)
    BY <1>1, <2>1, <2>2, Change
  <2> QED BY <1>1, <1>2, <2>1, <2>2, <2>3, Parts DEF files
<1>6. CASE ConfigFails(c) \/ Skip(c) \/ Diagnosed(c) \/ ClangFails(c)
  <2>1. {ir', obj', exe'} \subseteq Texts \cup {None}
    BY <1>1, <1>6, Parts DEF ConfigFails, Skip, Diagnosed, ClangFails, files
  <2> QED BY <1>3, <1>6, <2>1 DEF ConfigFails, Skip, Diagnosed, ClangFails, files
<1>7. CASE Miss(c)
  <2> DEFINE e == [job[c] EXCEPT !.keys = Loaded, !.pc = "generate"]
  <2>1. Loaded \subseteq linked /\ Loaded \subseteq Texts
    BY <1>1, Parts DEF RecordedWasLinked, Loaded
  <2>2. /\ e \in JobType /\ e.pc = "generate" /\ e.keys = Loaded /\ e.text = job[c].text
    BY <1>1, <2>1 DEF JobType, Stages, Early, Late
  <2>3. job[c].text \in Texts
    BY <1>1, <1>7 DEF Miss, At, HasParsed, Stages, Early, Late
  <2>4. HasParsed(e)
    BY <2>2, <2>3 DEF HasParsed, Early, Late
  <2>5. job' = [job EXCEPT ![c] = e] /\ UNCHANGED <<tree, files, seen, linked, builds, kills>>
    BY <1>1, <1>7, JobTyped DEF Miss
  <2> HIDE DEF e
  <2>6. Becomes(c, e)
    BY <1>1, <2>2, <2>5, Change
  <2> QED BY <1>1, <1>2, <2>1, <2>2, <2>4, <2>5, <2>6, Parts DEF files
<1>8. CASE WriteIr(c)
  <2>1. job[c].text \in Texts
    BY <1>1, <1>8 DEF WriteIr, At, HasParsed, Stages, Early, Late
  <2>2. "compile" \in Stages \ {"record"} /\ {ir', obj', exe'} \subseteq Texts \cup {None}
    BY <1>1, <1>8, <2>1, Parts DEF WriteIr, Stages, Late
  <2> QED BY <1>4, <1>8, <2>1, <2>2 DEF WriteIr
<1>9. CASE CompileIr(c)
  <2>1. job[c].text \in Texts
    BY <1>1, <1>9 DEF CompileIr, At, HasParsed, Stages, Early, Late
  <2>2. "link" \in Stages \ {"record"} /\ {ir', obj', exe'} \subseteq Texts \cup {None}
    BY <1>1, <1>9, Parts DEF CompileIr, Stages, Late
  <2> QED BY <1>4, <1>9, <2>1, <2>2 DEF CompileIr
<1>10. CASE Link(c)
  <2>1. job[c].text \in Texts
    BY <1>1, <1>10 DEF Link, At, HasParsed, Stages, Early, Late
  <2>2. /\ linked' = linked \cup {job[c].text} /\ exe' = obj /\ Go(c, "record")
        /\ UNCHANGED <<tree, ir, obj, cache, seen, builds, kills>>
    BY <1>10 DEF Link
  <2>3. PICK e \in JobType : e.pc = "record" /\ e.text = job[c].text /\ e.keys = job[c].keys /\ Becomes(c, e)
    BY <1>1, <2>2, GoesOn DEF Stages, Late
  <2>4. TypeOK'
    BY <1>1, <2>1, <2>2, <2>3, Types, Parts DEF Becomes, cache
  <2>5. HasParsed(e) /\ e.keys \subseteq linked'
    BY <1>1, <2>1, <2>2, <2>3 DEF HasParsed, Early, Late, RecordedWasLinked
  <2> QED BY <1>1, <2>2, <2>3, <2>4, <2>5, OneChanges DEF RecordedWasLinked, cache
<1>11. CASE BeginSave(c)
  <2> DEFINE e == [job[c] EXCEPT !.keys = @ \cup {job[c].text}, !.pc = "save"]
  <2>1. job[c].text \in linked /\ job[c].text \in Texts /\ job[c].keys \subseteq linked
    BY <1>1, <1>11 DEF BeginSave, At, LinkedBeforeRecord, HasParsed, Late, RecordedWasLinked
  <2>2. e \in JobType /\ e.pc = "save" /\ e.keys = job[c].keys \cup {job[c].text} /\ e.text = job[c].text
    BY <1>1, <2>1 DEF JobType, Stages, Early, Late
  <2>3. /\ job' = [job EXCEPT ![c] = e] /\ manifest' = Torn
        /\ UNCHANGED <<tree, ir, obj, exe, seen, linked, builds, kills>> /\ overlap' \in BOOLEAN
    BY <1>1, <1>11, JobTyped DEF BeginSave
  <2>4. HasParsed(e) /\ e.keys \subseteq linked
    BY <2>1, <2>2 DEF HasParsed, Early, Late
  <2> HIDE DEF e
  <2>5. Becomes(c, e)
    BY <1>1, <2>2, <2>3, Change
  <2>6. manifest'.keys = {} /\ manifest' \in [keys : SUBSET Texts, whole : BOOLEAN]
    BY <2>3 DEF Torn
  <2>7. TypeOK'
    BY <1>1, <2>3, <2>5, <2>6, Types, Parts DEF Becomes
  <2> QED BY <2>2, <2>3, <2>4, <2>5, <2>6, <2>7, OneChanges
<1>12. CASE EndSave(c)
  <2>1. /\ manifest' = Whole(job[c].keys) \/ manifest' = Torn
        /\ Return(c) /\ UNCHANGED <<tree, ir, obj, exe, overlap, linked, builds, kills>>
    BY <1>12 DEF EndSave
  <2>2. manifest'.keys \subseteq linked /\ manifest' \in [keys : SUBSET Texts, whole : BOOLEAN]
    <3>1. job[c].keys \subseteq linked /\ job[c].keys \subseteq Texts
      BY <1>1 DEF JobType, RecordedWasLinked
    <3>2. \A keys \in SUBSET Texts : Whole(keys).keys = keys /\ Whole(keys) \in [keys : SUBSET Texts, whole : BOOLEAN]
      BY DEF Whole
    <3>3. Torn.keys = {} /\ Torn \in [keys : SUBSET Texts, whole : BOOLEAN]
      BY DEF Torn
    <3> QED BY <2>1, <3>1, <3>2, <3>3
  <2>3. PICK e \in JobType : e.pc \in Early /\ e.keys = {} /\ Becomes(c, e)
    BY <1>1, <2>1, Returns
  <2>4. seen' = seen
    BY <1>1, <2>1, Returns
  <2>5. TypeOK'
    <3>1. UNCHANGED <<tree, ir, obj, exe, overlap, linked, builds, kills>>
      BY <2>1
    <3> QED BY <1>1, <2>2, <2>3, <2>4, <3>1, Types, Parts DEF Becomes
  <2>6. HasParsed(e)
    BY <2>3 DEF HasParsed, Early, Late
  <2> QED BY <1>1, <2>1, <2>2, <2>3, <2>5, <2>6, OneChanges DEF Early
<1> QED BY <1>5, <1>6, <1>7, <1>8, <1>9, <1>10, <1>11, <1>12, <1>13 DEF BuildStep

LEMMA StepKeepsInvariant ==
    ASSUME IInv, [Next]_vars
    PROVE  IInv'
<1>1. TypeOK /\ \A c \in Compilers : job[c] \in JobType /\ HasParsed(job[c]) /\ job[c].keys \subseteq linked
  BY JobTyped DEF IInv, RecordedWasLinked
<1>2. Watchers \subseteq Compilers /\ manifest.keys \subseteq linked
  BY DEF Compilers, IInv, RecordedWasLinked
<1>3. ASSUME NEW c \in Compilers, Go(c, "config"), UNCHANGED <<tree, files, linked, kills>>,
             seen' = seen \/ seen' \in [Watchers -> 0 .. MaxEdits \cup {None}],
             builds' = builds \/ builds' \in 0 .. MaxBuilds
      PROVE  IInv'
  <2>1. PICK e \in JobType : e.pc = "config" /\ e.keys = job[c].keys /\ Becomes(c, e)
    BY <1>1, <1>3, GoesOn DEF Stages, Early
  <2>2. TypeOK'
    BY <1>1, <1>3, <2>1, Types, Parts DEF Becomes, files, cache
  <2>3. HasParsed(e) /\ e.keys \subseteq linked
    BY <1>1, <2>1 DEF HasParsed, Early, Late
  <2> QED BY <1>2, <1>3, <2>1, <2>2, <2>3, OneChanges DEF files, cache
<1>4. ASSUME UNCHANGED <<job, cache, linked, builds>>,
             seen' = seen \/ seen' \in [Watchers -> 0 .. MaxEdits \cup {None}],
             UNCHANGED tree \/ (text' \in Texts /\ edits' \in 0 .. MaxEdits /\ loads' \in BOOLEAN),
             {ir', obj', exe'} \subseteq Texts \cup {None},
             kills' = kills \/ kills' \in 0 .. MaxKills
      PROVE  IInv'
  <2>1. TypeOK'
    BY <1>1, <1>4, JobTyped, Types, Parts DEF cache
  <2> QED BY <1>4, <2>1, NoneChanges DEF cache
<1>5. ASSUME NEW c \in Compilers, BuildCommand(c)
      PROVE  IInv'
  <2>1. builds' \in 0 .. MaxBuilds
    BY <1>1, <1>5, BuildCacheAssumption, Parts DEF BuildCommand
  <2> QED BY <1>3, <1>5, <2>1 DEF BuildCommand
<1>6. ASSUME NEW c \in Compilers, Kill(c)
      PROVE  IInv'
  <2>1. /\ job' = [job EXCEPT ![c] = Fresh] /\ UNCHANGED <<tree, ir, obj, exe, overlap, linked, builds>>
        /\ manifest' = manifest \/ manifest' = Torn
        /\ seen' = [w \in Watchers |-> IF w = c THEN None ELSE seen[w]]
        /\ kills' = kills + 1 /\ kills < MaxKills
    BY <1>6 DEF Kill
  <2>2. Fresh \in JobType /\ Fresh.pc = "off" /\ Fresh.keys = {} /\ HasParsed(Fresh)
    BY BuildCacheAssumption DEF Fresh, JobType, Stages, Early, Late, HasParsed
  <2>3. Becomes(c, Fresh)
    BY <1>1, <2>1, <2>2, Change
  <2>4. seen' \in [Watchers -> 0 .. MaxEdits \cup {None}] /\ kills' \in 0 .. MaxKills
    BY <1>1, <2>1, BuildCacheAssumption, Parts
  <2>6. /\ manifest' = manifest \/ manifest' \in [keys : SUBSET Texts, whole : BOOLEAN]
        /\ manifest'.keys \subseteq linked
    <3>1. Torn.keys = {} /\ Torn \in [keys : SUBSET Texts, whole : BOOLEAN]
      BY DEF Torn
    <3> QED BY <1>2, <2>1, <3>1
  <2>5. TypeOK'
    BY <1>1, <2>1, <2>3, <2>4, <2>6, Types, Parts DEF Becomes
  <2> QED BY <1>2, <2>1, <2>2, <2>3, <2>5, <2>6, OneChanges
<1>7. ASSUME NEW w \in Watchers, WatchStep(w)
      PROVE  IInv'
  <2>1. seen' = seen \/ seen' = [seen EXCEPT ![w] = edits]
    BY <1>7 DEF WatchStep, FirstBuild, StartWatching, Poll
  <2>2. seen' = seen \/ seen' \in [Watchers -> 0 .. MaxEdits \cup {None}]
    BY <1>1, <2>1, Parts
  <2>3. CASE FirstBuild(w) \/ Poll(w)
    BY <1>2, <1>3, <2>2, <2>3 DEF FirstBuild, Poll
  <2>4. CASE StartWatching(w)
    <3>1. UNCHANGED <<tree, files, job, linked, builds, kills>>
      BY <2>4 DEF StartWatching
    <3>2. UNCHANGED cache /\ {ir', obj', exe'} \subseteq Texts \cup {None}
      BY <1>1, <3>1, Parts DEF files
    <3> QED BY <1>4, <2>2, <3>1, <3>2
  <2> QED BY <1>7, <2>3, <2>4 DEF WatchStep
<1>8. ASSUME NEW t \in Texts, Edit(t)
      PROVE  IInv'
  <2>1. edits' \in 0 .. MaxEdits /\ text' \in Texts /\ loads' \in BOOLEAN
    BY <1>1, <1>8, BuildCacheAssumption, Parts DEF Edit
  <2> QED BY <1>1, <1>4, <1>8, <2>1, Parts DEF Edit, files
<1>11. CASE EditConfig
  <2>1. edits' \in 0 .. MaxEdits /\ text' \in Texts /\ loads' \in BOOLEAN
    BY <1>1, <1>11, BuildCacheAssumption, Parts DEF EditConfig
  <2> QED BY <1>1, <1>4, <1>11, <2>1, Parts DEF EditConfig, files
<1>9. CASE DeleteOutput
  <2>1. kills' \in 0 .. MaxKills
    BY <1>1, <1>9, BuildCacheAssumption, Parts DEF DeleteOutput
  <2> QED BY <1>1, <1>4, <1>9, <2>1, Parts DEF DeleteOutput
<1>10. CASE UNCHANGED vars
  BY <1>1, <1>4, <1>10, Parts DEF vars, files
<1> QED BY <1>5, <1>6, <1>7, <1>8, <1>9, <1>10, <1>11, BuildStepKeeps DEF Next

LEMMA InitInvariant == Init => IInv
<1> SUFFICES ASSUME Init
             PROVE  IInv
  OBVIOUS
<1>1. Fresh \in JobType /\ Fresh.pc = "off" /\ Fresh.keys = {}
  BY BuildCacheAssumption DEF Fresh, JobType, Stages, Early
<1>2. job \in [Compilers -> JobType] /\ \A c \in Compilers : job[c] = Fresh
  BY <1>1 DEF Init
<1>3. TypeOK
  <2>1. text \in Texts /\ edits \in 0 .. MaxEdits /\ loads \in BOOLEAN /\ builds \in 0 .. MaxBuilds /\ kills \in 0 .. MaxKills
    BY BuildCacheAssumption DEF Init
  <2>2. manifest \in [keys : SUBSET Texts, whole : BOOLEAN] /\ overlap \in BOOLEAN
    BY DEF Init, Whole
  <2>3. seen \in [Watchers -> 0 .. MaxEdits \cup {None}]
    BY DEF Init
  <2>4. {ir, obj, exe} \subseteq Texts \cup {None} /\ linked \subseteq Texts
    BY DEF Init
  <2> QED BY <1>2, <2>1, <2>2, <2>3, <2>4 DEF TypeOK, JobType, Stages, Early, Late
<1>4. RecordedWasLinked
  BY <1>1, <1>2 DEF Init, Whole, RecordedWasLinked
<1> QED BY <1>1, <1>2, <1>3, <1>4 DEF IInv, HasParsed, Late, LinkedBeforeRecord

LEMMA Invariant == Spec => []IInv
<1>1. IInv /\ [Next]_vars => IInv'
  BY StepKeepsInvariant
<1> QED BY <1>1, InitInvariant, PTL DEF Spec

(* Every variable has its type. *)
THEOREM TypeCorrect == Spec => []TypeOK
<1>1. IInv => TypeOK
  BY DEF IInv
<1> QED BY <1>1, Invariant, PTL

(* Whatever compilers, kills and torn manifests do to each other, every key in  *)
(* the manifest or in a cache that was loaded is that of a text whose build got *)
(* past its link, so no failed build is ever skipped (BuildCache.record, save   *)
(* and load, and build()).                                                      *)
THEOREM OnlyLinkedIsRecorded == Spec => []RecordedWasLinked
<1>1. IInv => RecordedWasLinked
  BY DEF IInv
<1> QED BY <1>1, Invariant, PTL
=============================================================================

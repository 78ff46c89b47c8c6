----------------------------- MODULE BuildCache -----------------------------
(***************************************************************************)
(* The incremental build of one entry file: build() of driver/compiler.ts, *)
(* the manifest of driver/cache.ts and the polling loop of cli/watch.ts.   *)
(*                                                                         *)
(* Compilers are processes that share the entry file, the output directory *)
(* and the cache directory: watchers, which build once and then whenever   *)
(* the tree's fingerprint changes, and build commands.  An editor changes  *)
(* the entry and the project config, the user deletes the output or kills  *)
(* a compiler.  Everything in the cache key but the source text stays the  *)
(* same here, so a key is a text; of the config only matters whether it    *)
(* loads.  A fingerprint contains modification times, so it is the number  *)
(* of edits.  clang, and the check for diagnostics, may fail.              *)
(*                                                                         *)
(* Definitions whose names begin with Bug are wrong on purpose: each is    *)
(* the variant of the definition after it that some property must refute.  *)
(***************************************************************************)
EXTENDS Integers, FiniteSets

CONSTANTS
    Texts,        \* what the entry file may contain
    Watchers,     \* processes that run `xbintsc watch`
    Builders,     \* processes that run `xbintsc build`, any number of times
    None,         \* no file
    MaxEdits,     \* bound: edits in one execution
    MaxBuilds,    \* bound: build commands in one execution
    MaxKills      \* bound: killed compilers and deleted outputs in one execution

ASSUME BuildCacheAssumption ==
    /\ Watchers \cap Builders = {}
    /\ None \notin Texts
    /\ MaxEdits \in Nat /\ MaxBuilds \in Nat /\ MaxKills \in Nat

Compilers == Watchers \cup Builders

VARIABLES
    text, edits,  \* the entry file, and how often the watched tree was changed
    loads,        \* the project config can be loaded
    ir, obj, exe, \* the .ll and .o files of the output directory, the output
    manifest,     \* build-cache.json: the recorded keys, or that it is cut off
    overlap,      \* history: the last save began while another was going on
    job,          \* per compiler: where it is in build(), the text it parsed and
                  \* the edits it contains, the keys of its BuildCache
    seen,         \* per watcher: previous of startWatching, None before the first scan
    linked,       \* history: texts a build of which got past its link
    builds, kills \* history: build commands and accidents so far

tree == <<text, edits, loads>>
cache == <<manifest, overlap>>
files == <<ir, obj, exe, cache>>
vars == <<tree, files, job, seen, linked, builds, kills>>

Torn == [keys |-> {}, whole |-> FALSE]
Whole(keys) == [keys |-> keys, whole |-> TRUE]
Fresh == [pc |-> "off", text |-> None, read |-> 0, keys |-> {}]

At(c, pc) == job[c].pc = pc
Go(c, pc) == job' = [job EXCEPT ![c].pc = pc]

\* A watcher waits for the next change, a build command exits.
After(c) == IF c \in Watchers THEN "idle" ELSE "off"

BugReturnRescans(c) ==
    /\ job' = [job EXCEPT ![c].pc = After(c), ![c].keys = {}]
    /\ seen' = [w \in Watchers |-> IF w = c /\ seen[w] # None THEN edits ELSE seen[w]]

\* build() returns or throws; its BuildCache is gone.
Return(c) ==
    /\ job' = [job EXCEPT ![c].pc = After(c), ![c].keys = {}]
    /\ UNCHANGED seen
-----------------------------------------------------------------------------
Init ==
    /\ text \in Texts /\ edits = 0 /\ loads \in BOOLEAN
    /\ ir = None /\ obj = None /\ exe = None
    /\ manifest = Whole({}) /\ overlap = FALSE
    /\ job = [c \in Compilers |-> Fresh]
    /\ seen = [w \in Watchers |-> None]
    /\ linked = {} /\ builds = 0 /\ kills = 0

BuildCommand(c) ==
    /\ c \in Builders
    /\ At(c, "off")
    /\ builds < MaxBuilds
    /\ builds' = builds + 1
    /\ Go(c, "config")
    /\ UNCHANGED <<tree, files, seen, linked, kills>>

(* `xbintsc watch` needs a config that loads, and builds before it starts to    *)
(* watch.                                                                       *)
FirstBuild(w) ==
    /\ At(w, "off")
    /\ loads
    /\ Go(w, "config")
    /\ UNCHANGED <<tree, files, seen, linked, builds, kills>>

BugScanText(w) ==
    /\ At(w, "idle")
    /\ seen[w] = None
    /\ seen' = [seen EXCEPT ![w] = text]
    /\ UNCHANGED <<tree, files, job, linked, builds, kills>>

(* startWatching scans for the first time: an edit during the first build is in *)
(* the fingerprint it starts from.                                              *)
StartWatching(w) ==
    /\ At(w, "idle")
    /\ seen[w] = None
    /\ seen' = [seen EXCEPT ![w] = edits]
    /\ UNCHANGED <<tree, files, job, linked, builds, kills>>

(* The interval callback: the new fingerprint is stored, then onRebuild runs    *)
(* the build command inside the callback.                                       *)
Poll(w) ==
    /\ At(w, "idle")
    /\ seen[w] # None /\ seen[w] # edits
    /\ seen' = [seen EXCEPT ![w] = edits]
    /\ Go(w, "config")
    /\ UNCHANGED <<tree, files, linked, builds, kills>>
-----------------------------------------------------------------------------
(* Every build command reads the config first, and ends if it does not load. *)
LoadConfig(c) ==
    /\ At(c, "config") /\ loads
    /\ Go(c, "parse")
    /\ UNCHANGED <<tree, files, seen, linked, builds, kills>>

ConfigFails(c) ==
    /\ At(c, "config") /\ ~loads
    /\ Return(c)
    /\ UNCHANGED <<tree, files, linked, builds, kills>>

(* build() up to the cache: parseEntry reads the entry file. *)
ParseEntry(c) ==
    /\ At(c, "parse")
    /\ job' = [job EXCEPT ![c] = [pc |-> "parsed", text |-> text, read |-> edits, keys |-> {}]]
    /\ UNCHANGED <<tree, files, seen, linked, builds, kills>>

\* BuildCache.load: a manifest that does not parse counts as an empty one.
Loaded == IF manifest.whole THEN manifest.keys ELSE {}

\* isFresh: the key is recorded and the output exists.
IsFresh(key, keys) == key \in keys /\ exe # None

Skip(c) ==
    /\ At(c, "parsed")
    /\ IsFresh(job[c].text, Loaded)
    /\ Return(c)
    /\ UNCHANGED <<tree, files, linked, builds, kills>>

Miss(c) ==
    /\ At(c, "parsed")
    /\ ~IsFresh(job[c].text, Loaded)
    /\ job' = [job EXCEPT ![c].keys = Loaded, ![c].pc = "generate"]
    /\ UNCHANGED <<tree, files, seen, linked, builds, kills>>

(* generate, and the .ll file is written. *)
WriteIr(c) ==
    /\ At(c, "generate")
    /\ ir' = job[c].text
    /\ Go(c, "compile")
    /\ UNCHANGED <<tree, obj, exe, cache, seen, linked, builds, kills>>

(* clang -c, which reads the .ll file that is there now. *)
CompileIr(c) ==
    /\ At(c, "compile")
    /\ obj' = ir
    /\ Go(c, "link")
    /\ UNCHANGED <<tree, ir, exe, cache, seen, linked, builds, kills>>

(* The link, or the retry with the runtime compiled from source. *)
Link(c) ==
    /\ At(c, "link")
    /\ exe' = obj
    /\ linked' = linked \cup {job[c].text}
    /\ Go(c, "record")
    /\ UNCHANGED <<tree, ir, obj, cache, seen, builds, kills>>

(* Diagnostics of the parser or of the generator. *)
Diagnosed(c) ==
    /\ job[c].pc \in {"parsed", "generate"}
    /\ Return(c)
    /\ UNCHANGED <<tree, files, linked, builds, kills>>

BugFailureForgotten(c) ==
    /\ job[c].pc \in {"compile", "link"}
    /\ exe' \in IF At(c, "link") THEN {exe, None, obj} ELSE {exe}
    /\ IF At(c, "link") THEN Go(c, "record") /\ UNCHANGED seen ELSE Return(c)
    /\ UNCHANGED <<tree, ir, obj, cache, linked, builds, kills>>

(* clang fails and build() throws.  A link that fails may remove the output; a  *)
(* link that succeeded with a warning whose retry from source fails, or before  *)
(* a bundle that fails, leaves the new output.                                  *)
ClangFails(c) ==
    /\ job[c].pc \in {"compile", "link"}
    /\ exe' \in IF At(c, "link") THEN {exe, None, obj} ELSE {exe}
    /\ Return(c)
    /\ UNCHANGED <<tree, ir, obj, cache, linked, builds, kills>>

(* cache.record and cache.save: the file is truncated, then written. *)
BeginSave(c) ==
    /\ At(c, "record")
    /\ manifest' = Torn
    /\ overlap' = \E d \in Compilers \ {c} : At(d, "save")
    /\ job' = [job EXCEPT ![c].keys = @ \cup {job[c].text}, ![c].pc = "save"]
    /\ UNCHANGED <<tree, ir, obj, exe, seen, linked, builds, kills>>

\* Two writers at once leave the longer text, or its tail behind the shorter one,
\* whichever of them ends last.
EndSave(c) ==
    /\ At(c, "save")
    /\ manifest' \in {Whole(job[c].keys)} \cup (IF overlap THEN {Torn} ELSE {})
    /\ Return(c)
    /\ UNCHANGED <<tree, ir, obj, exe, overlap, linked, builds, kills>>
-----------------------------------------------------------------------------
Edit(t) ==
    /\ edits < MaxEdits
    /\ text' = t
    /\ edits' = edits + 1
    /\ UNCHANGED <<loads, files, job, seen, linked, builds, kills>>

(* The config is broken or repaired.  It lies in the watched tree or in a       *)
(* directory above it, where no fingerprint shows the change.                   *)
EditConfig ==
    /\ loads' = ~loads
    /\ edits' = edits \/ (edits < MaxEdits /\ edits' = edits + 1)
    /\ UNCHANGED <<text, files, job, seen, linked, builds, kills>>

(* A compiler is killed between two of its steps, a watcher also while it       *)
(* waits; one that is saving may leave half a manifest.                         *)
Kill(c) ==
    /\ kills < MaxKills
    /\ ~At(c, "off")
    /\ kills' = kills + 1
    /\ manifest' \in IF At(c, "save") THEN {manifest, Torn} ELSE {manifest}
    /\ job' = [job EXCEPT ![c] = Fresh]
    /\ seen' = [w \in Watchers |-> IF w = c THEN None ELSE seen[w]]
    /\ UNCHANGED <<tree, ir, obj, exe, overlap, linked, builds>>

DeleteOutput ==
    /\ kills < MaxKills
    /\ exe # None
    /\ kills' = kills + 1
    /\ exe' = None
    /\ UNCHANGED <<tree, ir, obj, cache, job, seen, linked, builds>>

BuildStep(c) == \/ LoadConfig(c) \/ ConfigFails(c)
                \/ ParseEntry(c) \/ Skip(c) \/ Miss(c)
                \/ WriteIr(c) \/ CompileIr(c) \/ Link(c)
                \/ Diagnosed(c) \/ ClangFails(c)
                \/ BeginSave(c) \/ EndSave(c)

WatchStep(w) == FirstBuild(w) \/ StartWatching(w) \/ Poll(w)

Next == \/ \E c \in Compilers : BuildStep(c) \/ BuildCommand(c) \/ Kill(c)
        \/ \E w \in Watchers : WatchStep(w)
        \/ \E t \in Texts : Edit(t)
        \/ EditConfig \/ DeleteOutput

(* A command that was started goes on and intervals fire.  Nothing starts a     *)
(* command, or a watcher that was killed.                                       *)
Spec == /\ Init /\ [][Next]_vars
        /\ \A c \in Compilers : WF_vars(BuildStep(c))
        /\ \A w \in Watchers : WF_vars(StartWatching(w)) /\ WF_vars(Poll(w))
-----------------------------------------------------------------------------
(* Every variable has its type. *)
TypeOK ==
    /\ text \in Texts /\ edits \in 0 .. MaxEdits /\ loads \in BOOLEAN
    /\ {ir, obj, exe} \subseteq Texts \cup {None}
    /\ manifest \in [keys : SUBSET Texts, whole : BOOLEAN] /\ overlap \in BOOLEAN
    /\ job \in [Compilers -> [pc : {"off", "idle", "config", "parse", "parsed", "generate",
                                    "compile", "link", "record", "save"},
                              text : Texts \cup {None}, read : 0 .. MaxEdits,
                              keys : SUBSET Texts]]
    /\ seen \in [Watchers -> 0 .. MaxEdits \cup {None}]
    /\ linked \subseteq Texts
    /\ builds \in 0 .. MaxBuilds /\ kills \in 0 .. MaxKills

(* A build is skipped only for a text that a build got past its link with: a    *)
(* failed or killed build, a manifest cut off by a crash and a manifest that    *)
(* two compilers overwrote cost rebuilds, they never make a key fresh.          *)
RecordedWasLinked ==
    /\ manifest.keys \subseteq linked
    /\ \A c \in Compilers : job[c].keys \subseteq linked

(* A change of the tree that is made once a watcher has scanned it, also one    *)
(* made while that watcher builds, is followed by a build that has read it,     *)
(* unless the watcher is killed or the config does not load (the rebuild then   *)
(* ends before it reads the tree, although the fingerprint is stored).  When    *)
(* the config lies in the tree, the change that repairs it is such a change     *)
(* too, and the build it is owed has read all those before it.                  *)
WatcherCatchesUp ==
    \A w \in Watchers, n \in 1 .. MaxEdits :
        (seen[w] # None /\ seen[w] < n /\ edits >= n)
            ~> (job[w].read >= n \/ At(w, "off") \/ ~loads)

(* "If nothing changed and the recorded outputs still exist, the build is       *)
(* skipped entirely" (cache.ts:6): what a skip leaves behind is what the build  *)
(* would have made, when nobody else writes to the output directory.            *)
SkipLeavesOwnOutput ==
    [][\A c \in Compilers : Skip(c) => exe = job[c].text]_vars
=============================================================================

------------------------------ MODULE LowMemRun ------------------------------
(***************************************************************************)
(* run_patch of game_patch/patch.c, the work of the game_patch plugin      *)
(* inside the starting game: the patch file of the title is parsed in      *)
(* PARSE_MODE_LOW_MEM, one line at a time, metadata_callback counts the    *)
(* patches that match, entry_callback applies the entries of the enabled   *)
(* ones, and at the end the message file is written or deleted.            *)
(***************************************************************************)
EXTENDS PatchContext, Subsequences

CONSTANTS
    Line,           \* the lines a patch file is made of
    SettingsFiles,  \* possible sets of hashes that the settings file maps to 1
    MallocMayFail,  \* whether malloc may return NULL
    MaxPatches,     \* bound on the patches of a file
    MaxCount        \* bound on metadata_callback calls

ASSUME LineAssumption ==
    /\ Line \subseteq [top: BOOLEAN, keys: SUBSET STRING,
                      value: StringValue \cup {Null}, vers: Seq(AppVersion),
                      entry: BOOLEAN]
    /\ MallocMayFail \in BOOLEAN
    /\ MaxPatches \in Nat /\ MaxCount \in Nat

VARIABLES
    pc,          \* "open", "reading", "notify", "done", or "faulted" (NULL used)
    ctx,         \* the mode-independent part of ParseContext
    titleArray,  \* global_titleids # NULL
    processing,  \* processing_enabled_patch
    meta,        \* current_meta
    count,       \* *user_data: metadata_callback calls so far
    notify,      \* what became of the message file
    on,          \* hashes the settings file maps to 1; the run only reads it
    applied,     \* history: hashes under which entries were written to the game
    seen,        \* history: hashes of the enabled matches metadata_callback got
    wanted,      \* history: those of the patch whose entries are being read
    extra,       \* history: an entry was applied for a patch with no enabled match
    missed,      \* history: an entry of an enabled match was not applied
    keyed,       \* history: an arm that looks for a key took some entry line
    short,       \* history: malloc failed for some entry line, which was dropped
    unmatched,   \* history: some patch of the file did not match the game
    later        \* history: some patch named the game's version after another one

run == <<pc, ctx, titleArray, processing, meta, count, notify>>
history == <<applied, seen, wanted, extra, missed, keyed, short,
             unmatched, later>>
vars == <<run, on, history>>

NoMeta == [number |-> 0, hash |-> <<>>, matches |-> FALSE, enabled |-> FALSE]

Alloc == IF MallocMayFail THEN BOOLEAN ELSE {TRUE}

Init ==
    /\ pc = "open"
    /\ ctx = NewContext(FALSE)
    /\ titleArray = FALSE
    /\ processing = FALSE
    /\ meta = NoMeta
    /\ count = 0
    /\ notify = "none"
    /\ on \in SettingsFiles
    /\ applied = {} /\ seen = {} /\ wanted = {} /\ extra = FALSE /\ missed = FALSE
    /\ keyed = FALSE /\ short = FALSE /\ unmatched = FALSE /\ later = FALSE

\* create_parse_context, which gives up without telling the caller when one of
\* the two arrays cannot be allocated, then fileOpen and fileSize.
Open ==
    /\ pc = "open"
    /\ \E alloc \in Alloc :
        /\ ctx' = NewContext(alloc)
        /\ titleArray' = alloc
    /\ pc' \in {"reading", "notify"}
    /\ UNCHANGED <<processing, meta, count, notify, on, history>>

\* What the parser gets out of line l: a string that cannot be copied is lost.
Copies(l, v) == {[l EXCEPT !.value = v, !.vers = vs] : vs \in Subsequences(l.vers)}

Received(l) ==
    IF MallocMayFail THEN Copies(l, l.value) \cup Copies(l, Null) ELSE {l}

\* Line l is read by an arm that looks for a key anywhere in the line: if it is an
\* entry, nothing of it reaches the game.
KeyArm(l) ==
    /\ missed' = (missed \/ (l.entry /\ ctx.inPatches /\ wanted # {}))
    /\ keyed' = (keyed \/ (l.entry /\ ctx.inPatches))
    /\ UNCHANGED short

\* "titleid:": the list goes to global_titleids, which nothing reads.
TitleIdLine(l) ==
    /\ LineKey(l) = "titleid"
    /\ KeyArm(l)
    /\ pc' = IF titleArray \/ l.vers = <<>> THEN "reading" ELSE "faulted"
    /\ UNCHANGED <<ctx, titleArray, processing, meta, count, notify, on,
                   applied, seen, wanted, extra, unmatched, later>>

\* "patch:": handle_patch_complete. In this mode it only resets current_patch:
\* current_meta and processing_enabled_patch keep their values.
PatchLine(l) ==
    /\ LineKey(l) = "patch"
    /\ KeyArm(l)
    /\ ctx.num < MaxPatches
    /\ \E alloc \in Alloc : ctx' = ContextAfter(ctx, l, alloc)
    /\ wanted' = IF ctx.fields["title"] = Null THEN wanted ELSE {}
    /\ UNCHANGED <<pc, titleArray, processing, meta, count, notify, on,
                   applied, seen, extra, unmatched, later>>

\* A field of the patch, or a line no arm of process_line handles.
FieldLine(l) ==
    /\ LineKey(l) \in StringField \cup {"app_ver", "none"}
    /\ KeyArm(l)
    /\ \E r \in Received(l) : ctx' = ContextAfter(ctx, r, TRUE)
    /\ UNCHANGED <<pc, titleArray, processing, meta, count, notify, on,
                   applied, seen, wanted, extra, unmatched, later>>

\* Mutant: a match that is switched off leaves the flag as it is.
ProcessingNeverCleared(ms, before) ==
    before \/ \E i \in DOMAIN ms : ms[i].matches /\ ms[i].enabled

\* processing_enabled_patch after the loop over the versions ms of a patch.
ProcessingAfter(ms, before) ==
    LET matching == {i \in DOMAIN ms : ms[i].matches} IN
    IF matching = {} THEN before
    ELSE \E i \in matching : (\A j \in matching : j <= i) /\ ms[i].enabled

\* What a well-informed user wants of the patch: one of its versions is the
\* game's, switched on, and meant for this executable.
EnabledMatches(ms) ==
    {ms[i].hash : i \in {j \in DOMAIN ms : ms[j].matches /\ ms[j].enabled}}

\* Mutant: the last version stays as current_meta.
PatchesLineLast(l) ==
    LET ms == Metas(ctx, on)
        matching == {i \in DOMAIN ms : ms[i].matches}
    IN  /\ LineKey(l) = "patches"
        /\ KeyArm(l)
        /\ ~MetaFaults(ctx)
        /\ count + Cardinality(matching) <= MaxCount
        /\ ctx' = ContextAfter(ctx, l, TRUE)
        /\ count' = count + Cardinality(matching)
        /\ processing' = ProcessingAfter(ms, processing)
        /\ meta' = ms[Len(ms)]
        /\ wanted' = EnabledMatches(ms)
        /\ seen' = seen \cup EnabledMatches(ms)
        /\ unmatched' = (unmatched \/ matching = {})
        /\ later' = (later \/ \E i \in matching : i # 1)
        /\ UNCHANGED <<pc, titleArray, notify, on, applied, extra>>

\* "patches:": every version of the patch gets its metadata; the ones that match
\* are reported and set processing_enabled_patch, the first one stays as
\* current_meta.
PatchesLine(l) ==
    LET ms == Metas(ctx, on)
        matching == {i \in DOMAIN ms : ms[i].matches}
    IN  /\ LineKey(l) = "patches"
        /\ KeyArm(l)
        /\ ~MetaFaults(ctx)
        /\ count + Cardinality(matching) <= MaxCount
        /\ ctx' = ContextAfter(ctx, l, TRUE)
        /\ count' = count + Cardinality(matching)
        /\ processing' = ProcessingAfter(ms, processing)
        /\ meta' = ms[1]
        /\ wanted' = EnabledMatches(ms)
        /\ seen' = seen \cup EnabledMatches(ms)
        /\ unmatched' = (unmatched \/ matching = {})
        /\ later' = (later \/ \E i \in matching : i # 1)
        /\ UNCHANGED <<pc, titleArray, notify, on, applied, extra>>

\* The same line when app_bin was not given or its copy could not be allocated.
PatchesFault(l) ==
    /\ LineKey(l) = "patches"
    /\ MetaFaults(ctx) \/ MallocMayFail
    /\ pc' = "faulted"
    /\ UNCHANGED <<ctx, titleArray, processing, meta, count, notify, on, history>>

\* Mutant: entry_callback does not look at meta->enabled.
EntryLineUnchecked(l) ==
    /\ LineKey(l) = "entry"
    /\ ctx.inPatches /\ processing
    /\ applied' = applied \cup {meta.hash}
    /\ UNCHANGED <<run, on, seen, wanted, extra, missed, keyed, short,
                   unmatched, later>>

\* A patch entry: entry_callback, called only while processing_enabled_patch,
\* applies it only if current_meta is enabled. An entry that loses so many of its
\* strings to malloc that fewer than MIN_PATCH_PARAMS are left is dropped before.
EntryLine(l) ==
    /\ LineKey(l) = "entry"
    /\ \E whole \in Alloc :
        LET applies == ctx.inPatches /\ whole /\ processing /\ meta.enabled
        IN  /\ applied' = IF applies THEN applied \cup {meta.hash} ELSE applied
            /\ extra' = (extra \/ (applies /\ wanted = {}))
            /\ missed' = (missed \/ (ctx.inPatches /\ ~applies /\ wanted # {}))
            /\ short' = (short \/ (ctx.inPatches /\ ~whole))
    /\ UNCHANGED <<run, on, seen, wanted, keyed, unmatched, later>>

ProcessLine(l) ==
    /\ pc = "reading"
    /\ \/ TitleIdLine(l) \/ PatchLine(l) \/ FieldLine(l) \/ PatchesLine(l)
       \/ PatchesFault(l) \/ EntryLine(l)

\* The file ends, or a read fails, which the loop takes for the end.
Eof ==
    /\ pc = "reading"
    /\ pc' = "notify"
    /\ \E alloc \in Alloc : ctx' = CompletePatch(ctx, alloc)
    /\ UNCHANGED <<titleArray, processing, meta, count, notify, on, history>>

\* Mutant: off by one in the test of count.
NotifyIfSeveral ==
    /\ pc = "notify"
    /\ pc' = "done"
    /\ notify' \in IF count > 1 THEN {"written", "failed"} ELSE {"deleted", "kept"}
    /\ UNCHANGED <<ctx, titleArray, processing, meta, count, on, history>>

\* The end of run_patch. A file that could not be opened leaves count at 0.
\* fileWrite2 may fail; fileDelete may too, its result is ignored.
Notify ==
    /\ pc = "notify"
    /\ pc' = "done"
    /\ notify' \in IF count > 0 THEN {"written", "failed"} ELSE {"deleted", "kept"}
    /\ UNCHANGED <<ctx, titleArray, processing, meta, count, on, history>>

Next == Open \/ (\E l \in Line : ProcessLine(l)) \/ Eof \/ Notify

Spec == Init /\ [][Next]_vars

-----------------------------------------------------------------------------
\* The state has the shape the C declarations give it.
TypeOK ==
    /\ pc \in {"open", "reading", "notify", "done", "faulted"}
    /\ ctx \in Context
    /\ titleArray \in BOOLEAN
    /\ processing \in BOOLEAN
    /\ meta.matches \in BOOLEAN /\ meta.enabled \in BOOLEAN
    /\ count \in Nat
    /\ notify \in {"none", "written", "failed", "deleted", "kept"}
    /\ keyed \in BOOLEAN /\ short \in BOOLEAN /\ later \in BOOLEAN

\* Nothing is ever written to the game under a hash that is not switched on in
\* the settings file, whatever the patch file looks like: the gates of
\* process_patch_metadata_for_app_ver and entry_callback are far apart and
\* current_meta outlives its patch.
OnlyEnabledHashes == applied \subseteq on

\* A write to the game needs a patch reported as matching and enabled earlier in
\* the same file, even though processing_enabled_patch is never reset: a file
\* with no enabled match changes nothing.
AppliedNeedsEnabledMatch ==
    applied # {} => seen \cap on # {}

\* Both: what is applied was switched on, and reported before, although the two
\* gates, entry_callback's and process_line's, look at different variables.
AppliedIsEnabled == OnlyEnabledHashes /\ AppliedNeedsEnabledMatch

\* A game that was modified is never left without its message by run_patch's own
\* decision: the message file is deleted only if nothing was applied.
AppliedIsNotified ==
    notify \in {"deleted", "kept"} => applied = {}

\* Entries of a patch that has no enabled match are applied only in a file where
\* some patch did not match the game at all: processing_enabled_patch is reset
\* nowhere, but among matching patches the flag left by "patches:" is always the
\* right one.
ExtraNeedsUnmatched == extra => unmatched

\* An entry of a patch that matches, is switched on and is meant for this
\* executable is left out only in a file where some patch names the game's version
\* after another one (processing_enabled_patch and current_meta, which are set at
\* different places of the loop, then speak of different versions), where an entry
\* line holds a key text, or when an entry line met a failing malloc.
MissedHasCause == missed => later \/ keyed \/ short

-----------------------------------------------------------------------------
\* What makes the four invariants hold from line to line: the flag and the
\* metadata that outlive their patch still stand for a reported, enabled match,
\* and the flag is the right one until a patch that does not match is read.
Gates ==
    /\ meta.enabled => meta.hash \in on
    /\ processing => seen \cap on # {}
    /\ seen # {} => count > 0
    /\ notify # "none" => pc = "done"
    /\ notify \in {"deleted", "kept"} => count = 0
    /\ ctx.inPatches /\ processing /\ ~unmatched => wanted # {}

Safety ==
    /\ OnlyEnabledHashes
    /\ AppliedNeedsEnabledMatch
    /\ AppliedIsNotified
    /\ ExtraNeedsUnmatched

\* Why MissedHasCause holds: as long as only first versions match, the first
\* version is the only one wanted, and current_meta is about the first.
FirstSpeaksForAll ==
    ~later => /\ ctx.inPatches /\ wanted # {} => processing /\ meta.enabled
              /\ ~keyed /\ ~short => ~missed
=============================================================================

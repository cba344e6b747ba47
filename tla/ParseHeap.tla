------------------------------ MODULE ParseHeap ------------------------------
(***************************************************************************)
(* Who owns the memory that parsing a patch file takes: which object each   *)
(* pointer of a ParseContext leads to, through the three parse modes of     *)
(* game_patch/patch.c, up to free_parse_context_data.  Any malloc or        *)
(* realloc may fail.  Objects are numbered: a new one gets the number after *)
(* the highest of those that are there.                                    *)
(*                                                                         *)
(* Fields names the strings of a patch that are there.  The parser looks    *)
(* into title and app_bin; Credits are the others that go into the metadata *)
(* of a patch (name, author and version, but not the notes).                *)
(***************************************************************************)
EXTENDS Naturals, Sequences, FiniteSets, SequencesExt

CONSTANTS
    Modes,        \* of those that read the file
    Fields, Credits,
    Room,         \* slots of each growing array in a new context
    MinParams,    \* MIN_PATCH_PARAMS
    MaxParams,    \* MAX_PATCH_PARAMS
    VersionLists, \* the versions a line may list: "hit" is the game's, "miss" another one
    MaxLines, MaxDisorder, MaxFailures   \* bounds of the model

ASSUME HeapAssumption ==
    /\ Modes \subseteq {"all", "low", "metadata"}
    /\ {"title", "app_bin"} \subseteq Fields
    /\ Fields \subseteq {"title", "name", "notes", "author", "version", "app_bin"}
    /\ Credits \in Seq(Fields)
    /\ Room \in Nat \ {0}
    /\ MaxParams \in Nat /\ MinParams \in 1 .. MaxParams
    /\ VersionLists \subseteq Seq({"hit", "miss"})
    /\ MaxLines \in Nat /\ MaxDisorder \in Nat /\ MaxFailures \in Nat

Growing == {"all", "entries", "metadata"}
Arrays == Growing \cup {"titleids", "versions"}

VARIABLES
    mode,         \* ctx->mode
    pc,           \* "reading", "completing" and "closing": handle_patch_complete at a
                  \* "patch:" line and at the end, "asking": the "patches:" line,
                  \* "done", "freed", "crashed", "overrun"
    at,           \* av_idx of a loop that is under way
    heap,         \* what each live object holds
    array,        \* the arrays of the context, 0 for NULL
    capacity,     \* what the context takes their size for
    room,         \* their size
    fields, vers, inPatches,   \* current_patch
    titleids,     \* global_titleids
    entries,      \* the strings of current_entries, one after the other
    count,        \* current_entries_count
    all,          \* all_patches: of each the metadata, the array of entries, their strings
    listed,       \* metadata_array
    currentMeta,  \* current_meta: the title, the app_bin, the version and the Credits
    \* history
    forgotten,    \* the arrays of versions of the patches that are over
    lost,         \* why objects were lost
    grown,        \* FALSE when an array could not be had or made longer
    lines, last, disorder,     \* of the file: lines, place of the last one, lines out of place
    failures

arrays == <<array, capacity, room>>
patch == <<fields, vers, inPatches>>
file == <<lines, last, disorder>>
history == <<forgotten, lost, grown>>
gathered == <<entries, count>>
vars == <<mode, pc, at, heap, arrays, patch, titleids, gathered, all, listed, currentMeta,
          history, file, failures>>

NoFields == [f \in Fields |-> 0]
NoMeta == <<0, 0, 0>>

-----------------------------------------------------------------------------
Top(h) == Max({0} \cup DOMAIN h)

\* The objects of these texts, those at the places ok; the others are NULL.
Got(h, texts, ok, fails) ==
    [ids   |-> [i \in DOMAIN texts |-> IF i \in ok THEN Top(h) + i ELSE 0],
     heap  |-> [x \in DOMAIN h \cup {Top(h) + i : i \in ok} |->
                   IF x \in DOMAIN h THEN h[x] ELSE texts[x - Top(h)]],
     fails |-> fails]

\* malloc of one object after the other, at most one of which fails; "none" asks for
\* nothing.
Outcomes(h, texts) ==
    LET wanted == {i \in DOMAIN texts : texts[i] # "none"}
    IN  {Got(h, texts, wanted, 0)} \cup
        IF failures < MaxFailures
        THEN {Got(h, texts, wanted \ {i}, 1) : i \in wanted} ELSE {}

\* A list of strings, without the one that could not be copied.
Whole(h, texts, fails) == Got(h, texts, DOMAIN texts, fails)

Gathered(h, texts) ==
    {Whole(h, texts, 0)} \cup
    IF failures < MaxFailures
    THEN {Whole(h, RemoveAt(texts, i), 1) : i \in DOMAIN texts} ELSE {}

Free(h, gone) == [x \in DOMAIN h \ gone |-> h[x]]

\* What str_dup is asked for; nothing for NULL, in the game.
TextOf(x) == IF x = 0 THEN "none" ELSE heap[x]

Ids(s) == {s[i] : i \in DOMAIN s} \ {0}

Crash ==
    /\ pc' = "crashed"
    /\ UNCHANGED <<mode, at, heap, arrays, patch, titleids, gathered, all, listed, currentMeta,
                   history, file>>

-----------------------------------------------------------------------------
\* The arrays a mode asks for, in order.
Wanted(m) ==
    CASE m = "all" -> <<"titleids", "versions", "all", "entries">>
      [] m = "metadata" -> <<"titleids", "versions", "metadata">>
      [] OTHER -> <<"titleids", "versions">>

Obtained(m, k) ==
    [a \in Arrays |-> IF \E i \in 1 .. k : Wanted(m)[i] = a
                      THEN CHOOSE i \in 1 .. k : Wanted(m)[i] = a ELSE 0]

\* create_parse_context.  It gives up at the first array it does not get; without the
\* one for the versions it gives the title ids back.
Init ==
    /\ mode \in Modes
    /\ \E k \in 0 .. Len(Wanted(mode)) :
          /\ failures = IF k = Len(Wanted(mode)) THEN 0 ELSE 1
          /\ failures <= MaxFailures
          /\ array = Obtained(mode, IF k = 1 THEN 0 ELSE k)
          /\ heap = [x \in Ids(array) |-> Wanted(mode)[x]]
          /\ capacity = [a \in Growing |->
                            IF \E i \in 1 .. k + 1 : i \in DOMAIN Wanted(mode) /\ Wanted(mode)[i] = a
                            THEN Room ELSE 0]
          /\ room = [a \in Growing |-> IF array[a] = 0 THEN 0 ELSE Room]
    /\ pc = "reading" /\ at = 0
    /\ fields = NoFields /\ vers = <<>> /\ inPatches = FALSE
    /\ titleids = <<>> /\ entries = <<>> /\ count = 0 /\ all = <<>> /\ listed = <<>>
    /\ currentMeta = NoMeta
    /\ forgotten = {} /\ lost = {} /\ grown = (failures = 0)
    /\ lines = 0 /\ last = 0 /\ disorder = 0

\* The place a line has in a file that is in order. At most MaxDisorder lines are not
\* in theirs.
Place(key) ==
    CASE key = "titleid" -> 1 [] key = "title" -> 2 [] key = "app_bin" -> 4 [] key = "app_ver" -> 5
      [] key = "patches" -> 6 [] key = "entry" -> 7 [] OTHER -> 3

ReadLine(key) ==
    /\ pc = "reading" /\ lines < MaxLines
    /\ lines' = lines + 1
    /\ last' = Place(key)
    /\ disorder' = disorder + IF last < Place(key) \/ key = "entry" THEN 0 ELSE 1
    /\ disorder' <= MaxDisorder

Took(o) == heap' = o.heap /\ failures' = failures + o.fails

-----------------------------------------------------------------------------
\* Lines of the file.

\* The list is stored without a look at the array; an earlier one is forgotten.
TitleidLine ==
    /\ ReadLine("titleid")
    /\ IF array["titleids"] = 0
       THEN pc' = "crashed" /\ UNCHANGED <<heap, titleids, lost, failures>>
       ELSE \E o \in Gathered(heap, <<"text">>) :
               /\ Took(o)
               /\ titleids' = o.ids
               /\ lost' = IF titleids = <<>> THEN lost ELSE lost \cup {"overwritten"}
               /\ UNCHANGED pc
    /\ UNCHANGED <<mode, at, arrays, patch, gathered, all, listed, currentMeta, forgotten, grown>>

\* A field that is there already is overwritten, also by a value without quotes, which
\* is "none".
FieldLine(f, text) ==
    /\ ReadLine(f)
    /\ \E o \in Outcomes(heap, <<text>>) :
          /\ Took(o)
          /\ fields' = [fields EXCEPT ![f] = o.ids[1]]
          /\ lost' = IF fields[f] = 0 THEN lost ELSE lost \cup {"overwritten"}
    /\ UNCHANGED <<mode, pc, at, arrays, vers, inPatches, titleids, gathered, all, listed,
                   currentMeta, forgotten, grown>>

\* So are the versions, if there is an array for them.
VersionsLine(texts) ==
    /\ ReadLine("app_ver")
    /\ IF array["versions"] = 0 THEN UNCHANGED <<heap, vers, lost, failures>>
       ELSE \E o \in Gathered(heap, texts) :
               /\ Took(o)
               /\ vers' = o.ids
               /\ lost' = IF vers = <<>> THEN lost ELSE lost \cup {"overwritten"}
    /\ UNCHANGED <<mode, pc, at, arrays, fields, inPatches, titleids, gathered, all, listed,
                   currentMeta, forgotten, grown>>

\* "patches:"; PARSE_MODE_LOW_MEM goes through the versions.
PatchesLine ==
    /\ ReadLine("patches")
    /\ inPatches' = TRUE
    /\ IF mode = "low" THEN pc' = "asking" /\ at' = 1 ELSE UNCHANGED <<pc, at>>
    /\ UNCHANGED <<mode, heap, arrays, fields, vers, titleids, gathered, all, listed, currentMeta,
                   history, failures>>

Slots == IF vers = <<>> THEN <<0>> ELSE vers

Copied(v) ==
    <<TextOf(fields["title"]), TextOf(fields["app_bin"]), TextOf(v)>>
        \o [i \in DOMAIN Credits |-> TextOf(fields[Credits[i]])]

\* In the application str_dup is strdup, which fails on NULL.
Incomplete ==
    \/ 0 \in {Slots[at], fields["title"], fields["app_bin"]}
    \/ \E i \in DOMAIN Credits : fields[Credits[i]] = 0

\* Mutant: the metadata of every version is freed.
KeptFreed(h, meta) ==
    /\ currentMeta' = IF at = 1 THEN meta ELSE currentMeta
    /\ heap' = Free(h, Ids(meta) \cup IF at = 1 THEN Ids(currentMeta) ELSE {})

\* The first version's metadata takes the place of the one that was kept, the others
\* are freed.
Kept(h, meta) ==
    IF at = 1
    THEN currentMeta' = meta /\ heap' = Free(h, Ids(currentMeta))
    ELSE heap' = Free(h, Ids(meta)) /\ UNCHANGED currentMeta

\* One version at the "patches:" line.  The reader of the settings file fails on a
\* NULL array, the search for app_bin on a NULL string.
Ask ==
    /\ pc = "asking" /\ at <= Len(Slots)
    /\ \E o \in Outcomes(heap, Copied(Slots[at])) :
          /\ failures' = failures + o.fails
          /\ IF o.ids[2] = 0 THEN Crash
             ELSE /\ Kept(o.heap, o.ids)
                  /\ at' = at + 1
                  /\ UNCHANGED <<mode, pc, arrays, patch, titleids, gathered, all, listed, history,
                                 file>>

ReaderFails ==
    /\ pc = "asking" /\ at <= Len(Slots)
    /\ failures < MaxFailures /\ failures' = failures + 1
    /\ Crash

\* Mutant: the index is not reset.
AskedKeepingPlace ==
    /\ pc = "asking" /\ at > Len(Slots)
    /\ pc' = "reading"
    /\ UNCHANGED <<mode, at, heap, arrays, patch, titleids, gathered, all, listed, currentMeta,
                   history, file, failures>>

Asked ==
    /\ pc = "asking" /\ at > Len(Slots)
    /\ pc' = "reading" /\ at' = 0
    /\ UNCHANGED <<mode, heap, arrays, patch, titleids, gathered, all, listed, currentMeta, history,
                   file, failures>>

-----------------------------------------------------------------------------
\* Mutant: the array grows a slot too late.
GrowthLate(h, a, held) ==
    LET doubled == [capacity EXCEPT ![a] = 2 * @]
    IN  IF held <= capacity[a]
        THEN {[ok |-> TRUE, fails |-> 0, heap |-> h, array |-> array, capacity |-> capacity,
               room |-> room]}
        ELSE {[ok |-> TRUE, fails |-> 0, capacity |-> doubled, heap |-> h, array |-> array,
               room  |-> [room EXCEPT ![a] = doubled[a]]]}

\* One more element for an array that holds so many: a full one is made twice as long,
\* and capacity says so even if that fails.
Growth(h, a, held) ==
    LET doubled == [capacity EXCEPT ![a] = 2 * @]
        place   == IF array[a] = 0 THEN Top(h) + 1 ELSE array[a]
    IN  IF held < capacity[a]
        THEN {[ok |-> TRUE, fails |-> 0, heap |-> h, array |-> array, capacity |-> capacity,
               room |-> room]}
        ELSE {[ok |-> TRUE, fails |-> 0, capacity |-> doubled,
               heap  |-> [x \in DOMAIN h \cup {place} |-> IF x = place THEN a ELSE h[x]],
               array |-> [array EXCEPT ![a] = place],
               room  |-> [room EXCEPT ![a] = doubled[a]]],
              [ok |-> FALSE, fails |-> 1, capacity |-> doubled, heap |-> h, array |-> array,
               room |-> room]}

Grew(g) == array' = g.array /\ capacity' = g.capacity /\ room' = g.room

\* An entry of n strings in the patches section.
EntryLine(n) ==
    /\ ReadLine("entry") /\ inPatches
    /\ \E o \in Gathered(heap, [i \in 1 .. n |-> "text"]) :
          \/ \* Too short: nobody takes it.
             /\ Len(o.ids) < MinParams
             /\ Took(o)
             /\ lost' = lost \cup {"short"}
             /\ UNCHANGED <<pc, arrays, gathered, grown>>
          \/ \* PARSE_MODE_LOW_MEM and PARSE_MODE_METADATA free it in the end.
             /\ Len(o.ids) >= MinParams /\ mode # "all"
             /\ failures' = failures + o.fails
             /\ UNCHANGED <<pc, heap, arrays, gathered, lost, grown>>
          \/ /\ Len(o.ids) >= MinParams /\ mode = "all"
             /\ \E g \in Growth(o.heap, "entries", count) :
                   /\ failures' = failures + o.fails + g.fails
                   /\ failures' <= MaxFailures
                   /\ Grew(g)
                   /\ grown' = (grown /\ g.ok)
                   /\ \/ ~g.ok /\ UNCHANGED <<pc, heap, gathered>>
                      \/ /\ g.ok /\ count < g.room["entries"]
                         /\ entries' = entries \o o.ids /\ count' = count + 1
                         /\ heap' = g.heap
                         /\ UNCHANGED pc
                      \/ /\ g.ok /\ count >= g.room["entries"]
                         /\ pc' = IF g.array["entries"] = 0 THEN "crashed" ELSE "overrun"
                         /\ UNCHANGED <<heap, gathered>>
             /\ UNCHANGED lost
    /\ UNCHANGED <<mode, at, patch, titleids, all, listed, currentMeta, forgotten>>

-----------------------------------------------------------------------------
\* handle_patch_complete, for a patch that has a title.
PatchLine ==
    /\ pc = "reading" /\ lines < MaxLines
    /\ lines' = lines + 1 /\ last' = 0 /\ disorder' = disorder
    /\ IF fields["title"] = 0 THEN UNCHANGED <<pc, at>> ELSE pc' = "completing" /\ at' = 1
    /\ UNCHANGED <<mode, heap, arrays, patch, titleids, gathered, all, listed, currentMeta, history,
                   failures>>

\* A file that cannot be opened ends before its first line.
Eof ==
    /\ pc = "reading"
    /\ IF fields["title"] = 0 THEN pc' = "done" /\ at' = at ELSE pc' = "closing" /\ at' = 1
    /\ UNCHANGED <<mode, heap, arrays, patch, titleids, gathered, all, listed, currentMeta, history,
                   file, failures>>

Completing == pc \in {"completing", "closing"}
Over == IF pc = "completing" THEN "reading" ELSE "done"

\* It returns at once: the patch stays what it is.
GiveUp == pc' = Over /\ at' = 0

\* One version in PARSE_MODE_METADATA, into a slot of its own.
List ==
    /\ Completing /\ mode = "metadata" /\ at <= Len(Slots)
    /\ \E g \in Growth(heap, "metadata", Len(listed)) :
          /\ Grew(g)
          /\ grown' = (grown /\ g.ok)
          /\ \/ /\ ~g.ok
                /\ failures' = failures + 1 /\ failures' <= MaxFailures
                /\ GiveUp
                /\ UNCHANGED <<heap, listed>>
             \/ /\ g.ok /\ Len(listed) >= g.room["metadata"]
                /\ pc' = IF g.array["metadata"] = 0 THEN "crashed" ELSE "overrun"
                /\ UNCHANGED <<at, heap, listed, failures>>
             \/ /\ g.ok /\ Len(listed) < g.room["metadata"]
                /\ \E o \in Outcomes(g.heap, Copied(Slots[at])) :
                      /\ failures' = failures + o.fails
                      /\ IF Incomplete \/ o.ids[2] = 0
                         THEN pc' = "crashed" /\ UNCHANGED <<at, heap, listed>>
                         ELSE /\ heap' = o.heap
                              /\ listed' = Append(listed, o.ids)
                              /\ at' = at + 1 /\ UNCHANGED pc
    /\ UNCHANGED <<mode, patch, titleids, gathered, all, currentMeta, forgotten, lost, file>>

\* PARSE_MODE_LOW_MEM does nothing for a version, PARSE_MODE_ALL nothing for one that
\* is not the game's.
PassOver ==
    /\ Completing /\ at <= Len(Slots)
    /\ \/ mode = "low"
       \/ mode = "all" /\ TextOf(Slots[at]) = "miss"
    /\ at' = at + 1
    /\ UNCHANGED <<mode, pc, heap, arrays, patch, titleids, gathered, all, listed, currentMeta,
                   history, file, failures>>

\* A version that is the game's, of a patch with another title: its metadata is
\* forgotten.
Unmatched ==
    /\ Completing /\ mode = "all" /\ at <= Len(Slots)
    /\ TextOf(Slots[at]) # "miss"
    /\ \E o \in Outcomes(heap, Copied(Slots[at])) :
          /\ failures' = failures + o.fails
          /\ IF Incomplete \/ 0 \in {o.ids[1], o.ids[2]}
             THEN pc' = "crashed" /\ UNCHANGED <<at, heap, lost>>
             ELSE /\ TextOf(fields["title"]) = "miss"
                  /\ heap' = o.heap
                  /\ lost' = lost \cup {"unmatched"}
                  /\ at' = at + 1 /\ UNCHANGED pc
    /\ UNCHANGED <<mode, arrays, patch, titleids, gathered, all, listed, currentMeta, forgotten,
                   grown, file>>

\* With the wanted title: the metadata is kept, with a copy of the entries.
Fetch ==
    /\ Completing /\ mode = "all" /\ at <= Len(Slots)
    /\ TextOf(Slots[at]) = "hit" /\ ~Incomplete /\ TextOf(fields["title"]) = "hit"
    /\ \E o \in Outcomes(heap, Copied(Slots[at])) :
          /\ o.ids[1] # 0 /\ o.ids[2] # 0
          /\ \E g \in Growth(o.heap, "all", Len(all)) :
             /\ Grew(g)
             /\ grown' = (grown /\ g.ok)
             /\ \/ /\ ~g.ok
                   /\ failures' = failures + o.fails + 1 /\ failures' <= MaxFailures
                   /\ GiveUp
                   /\ UNCHANGED <<heap, all>>
                \/ /\ g.ok /\ Len(all) >= g.room["all"]
                   /\ failures' = failures + o.fails
                   /\ pc' = IF g.array["all"] = 0 THEN "crashed" ELSE "overrun"
                   /\ UNCHANGED <<at, heap, all>>
                \/ /\ g.ok /\ Len(all) < g.room["all"]
                   /\ \E e \in Outcomes(g.heap, [i \in 1 .. Len(entries) + 1 |->
                                                   IF i = 1 THEN "entries" ELSE "text"]) :
                         /\ failures' = failures + o.fails + e.fails
                         /\ failures' <= MaxFailures
                         /\ IF e.ids[1] = 0 /\ count > 0
                            THEN pc' = "crashed" /\ UNCHANGED <<at, heap, all>>
                            ELSE /\ heap' = e.heap
                                 /\ all' = Append(all, o.ids \o e.ids)
                                 /\ at' = at + 1 /\ UNCHANGED pc
    /\ UNCHANGED <<mode, patch, titleids, gathered, listed, currentMeta, forgotten, lost, file>>

\* Mutant: the versions are left out.
StringsButVersions == Ids(entries) \cup Ids(fields)

\* What the patch under construction owns.
Strings == Ids(entries) \cup Ids(fields) \cup Ids(vers)

\* The end of handle_patch_complete, with reset_current_patch: the strings are freed,
\* the array of the versions is replaced by a new one.
CompleteEnds ==
    /\ Completing /\ at > Len(Slots)
    /\ \E o \in Outcomes(Free(heap, Strings), <<"versions">>) :
          /\ Took(o)
          /\ array' = [array EXCEPT !["versions"] = o.ids[1]]
    /\ forgotten' = forgotten \cup ({array["versions"]} \ {0})
    /\ entries' = <<>> /\ count' = 0 /\ fields' = NoFields /\ vers' = <<>> /\ inPatches' = FALSE
    /\ pc' = Over /\ at' = 0
    /\ UNCHANGED <<mode, capacity, room, titleids, all, listed, currentMeta, lost, grown, file>>

-----------------------------------------------------------------------------
\* Who holds which object: the pointers that free_parse_context_data follows.
Held(owner, k, s) == {<<owner, k, i, s[i]>> : i \in {j \in DOMAIN s : s[j] # 0}}

Owners ==
    Held("context", 0, array) \cup Held("patch", 0, fields) \cup Held("titleids", 0, titleids)
        \cup Held("versions", 0, vers) \cup Held("entries", 0, entries)
        \cup Held("meta", 0, currentMeta)
        \cup (UNION {Held("listed", k, listed[k]) : k \in DOMAIN listed})
        \cup (UNION {Held("all", k, all[k]) : k \in DOMAIN all})

Owned == {o[4] : o \in Owners}

FreeContext ==
    /\ pc = "done"
    /\ heap' = Free(heap, Owned)
    /\ pc' = "freed"
    /\ UNCHANGED <<mode, at, arrays, patch, titleids, gathered, all, listed, currentMeta, history,
                   file, failures>>

\* Only PARSE_MODE_ALL looks at what the title is.
Values(f) ==
    {"none"} \cup IF f = "title" /\ mode = "all" THEN {"hit", "miss"} ELSE {"text"}

Next ==
    \/ TitleidLine \/ PatchesLine \/ PatchLine
    \/ \E f \in Fields : \E text \in Values(f) : FieldLine(f, text)
    \/ \E texts \in VersionLists : VersionsLine(texts)
    \/ \E n \in 1 .. MaxParams : EntryLine(n)
    \/ Ask \/ ReaderFails \/ Asked
    \/ List \/ PassOver \/ Unmatched \/ Fetch \/ CompleteEnds
    \/ Eof \/ FreeContext

Spec == Init /\ [][Next]_vars

-----------------------------------------------------------------------------
TypeOK ==
    /\ mode \in {"all", "low", "metadata"}
    /\ pc \in {"reading", "completing", "closing", "asking", "done", "freed", "crashed",
               "overrun"}
    /\ at \in Nat /\ (pc \in {"reading", "done", "freed"} => at = 0)
    /\ DOMAIN heap \subseteq Nat \ {0}
    /\ DOMAIN array = Arrays /\ DOMAIN fields = Fields
    /\ Owned \subseteq Nat \ {0}
    /\ forgotten \subseteq Nat \ {0} /\ lost \subseteq {"overwritten", "short", "unmatched"}
    /\ grown \in BOOLEAN /\ failures \in 0 .. MaxFailures

Running == pc \notin {"freed", "crashed", "overrun"}

\* Every object has one owner, and every pointer that will be freed leads to an object
\* that is there: nothing is freed twice, whatever failed on the way.
OwnedOnce ==
    Running =>
        /\ Owned \subseteq DOMAIN heap
        /\ \A o, p \in Owners : o[4] = p[4] => o = p

\* Nothing is lost but the array of versions of each patch that is over, unless a
\* field stands twice in a patch, an entry is too short, or a patch of another title
\* lists the game's version.
LossHasCause ==
    lost = {} /\ (Running \/ pc = "freed") =>
        /\ DOMAIN heap \ (IF Running THEN Owned ELSE {}) = forgotten
        /\ \A x \in forgotten : heap[x] = "versions"

\* Nothing is written behind an array, unless one could not be had or made longer; and
\* nothing at all in the game, whose mode keeps no arrays.
OverrunNeedsFailure == pc = "overrun" => ~grown /\ mode # "low"

\* The parser uses a NULL pointer only if memory ran out, or the patch has no app_bin
\* or, in the application, no version or none of one of the Credits.
CrashNeedsCause ==
    pc = "crashed" =>
        \/ failures > 0 \/ fields["app_bin"] = 0
        \/ mode # "low" /\ (vers = <<>> \/ \E i \in DOMAIN Credits : fields[Credits[i]] = 0)

\* Both: every way the parser goes wrong on memory has one of these reasons.
FaultNeedsCause == OverrunNeedsFailure /\ CrashNeedsCause
=============================================================================

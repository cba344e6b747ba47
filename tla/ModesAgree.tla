------------------------------ MODULE ModesAgree ------------------------------
(***************************************************************************)
(* The application that manages the patches and the plugin in the game     *)
(* read the same .yml file in different modes of game_patch/patch.c:       *)
(*   PARSE_MODE_METADATA  the application lists one PatchMetadata for each *)
(*                        version of each patch, when the patch is over    *)
(*   PARSE_MODE_ALL       it fetches the matching patches with one title,  *)
(*                        with their entries, when the patch is over       *)
(*   PARSE_MODE_LOW_MEM   the game asks the settings file for the hash of  *)
(*                        every version, at the "patches:" line            *)
(* A switch set in the application reaches the game only if both compute   *)
(* the same hashes. The modes share process_line's effect on the patch     *)
(* under construction, so one ctx stands for the three of them; a mode     *)
(* that used a NULL string has faulted and takes no part any more. There   *)
(* is always memory here: LowMemRun is about its failures.                 *)
(***************************************************************************)
EXTENDS PatchContext

CONSTANTS
    Line,         \* the lines a patch file is made of
    WantedTitle,  \* ctx->title of the PARSE_MODE_ALL caller
    MaxAppVers,   \* MAX_APP_VERS
    MaxPatches,   \* bound on the patches of a file
    MaxEntries    \* bound on the entries of a file

ASSUME ModesAssumption ==
    /\ \A l \in Line : /\ l.value \in StringValue \cup {Null}
                       /\ l.vers \in Seq(AppVersion)
                       /\ Len(l.vers) <= MaxAppVers
    /\ MaxAppVers \in 1 .. NumberStride
    /\ MaxPatches \in Nat /\ MaxEntries \in Nat

VARIABLES
    pc,        \* "reading", "done"
    ctx,       \* the shared part of the three ParseContexts
    listed,    \* metadata_array of PARSE_MODE_METADATA
    entries,   \* current_entries of PARSE_MODE_ALL, as numbers of entry lines
    all,       \* all_patches of PARSE_MODE_ALL, told apart by their numbers
    faulted,   \* the modes that handed NULL to strcmp, strdup or strstr
    queried,   \* history: hashes PARSE_MODE_LOW_MEM looked up
    mark,      \* history: "patch:" lines read so far, which number the sections
    owner,     \* history: for each entry line of the file the section it stands in
    titled,    \* history: the section of the last title
    untitled,  \* history: the sections whose "patches:" stands without a title
    heard      \* history: the keys of the current section so far

lines == <<mark, owner, titled, untitled, heard>>
vars == <<pc, ctx, listed, entries, all, faulted, queried, lines>>

Init ==
    /\ pc = "reading"
    /\ ctx = NewContext(TRUE)
    /\ listed = <<>> /\ entries = <<>> /\ all = {}
    /\ faulted = {}
    /\ queried = {}
    /\ mark = 0 /\ owner = <<>> /\ titled = 0 /\ untitled = {} /\ heard = {}

\* The application runs without g_args: its metadata is never enabled.
NoneOn == {}

\* Mutant: every version is fetched.
FetchedUnfiltered ==
    IF ctx.fields["title"] # WantedTitle THEN {}
    ELSE LET ms == Metas(ctx, NoneOn)
         IN  {[meta |-> ms[k], entries |-> entries, of |-> titled] : k \in DOMAIN ms}

\* The patches PARSE_MODE_ALL adds when the patch is over: the versions equal to
\* the game's, if the title is the wanted one, each with a copy of the entries.
\* (of is no field of PatchData: it says whose title the patch has.)
Fetched ==
    IF ctx.fields["title"] # WantedTitle THEN {}
    ELSE LET ms == Metas(ctx, NoneOn)
         IN  {[meta |-> ms[k], entries |-> entries, of |-> titled] :
                  k \in {n \in DOMAIN ms : ms[n].matches}}

\* The strings of a PatchMetadata are copies. str_dup of the application is
\* strdup, which takes no NULL; the game's gives NULL for NULL.
CopiedField == {"title", "name", "author", "version", "app_bin"}

CopyFaults == ctx.vers = <<>> \/ \E f \in CopiedField : ctx.fields[f] = Null

\* The modes of the application that break down when the patch is over:
\* PARSE_MODE_ALL compares the version first and copies only those that match.
CompleteFaults ==
    (IF CopyFaults THEN {"metadata"} ELSE {})
    \cup (IF \/ ctx.vers = <<>>
             \/ CopyFaults /\ \E i \in DOMAIN ctx.vers : MatchesGame(ctx.vers[i])
          THEN {"all"} ELSE {})

\* Mutant: the entries are not given up with the patch.
CompleteKeepsEntries ==
    /\ UNCHANGED entries
    /\ IF ctx.fields["title"] = Null
       THEN UNCHANGED <<ctx, listed, all, faulted>>
       ELSE /\ ctx' = CompletePatch(ctx, TRUE)
            /\ faulted' = faulted \cup CompleteFaults
            /\ listed' = listed \o IF "metadata" \in faulted' THEN <<>> ELSE Metas(ctx, NoneOn)
            /\ all' = IF "all" \in faulted' THEN all ELSE all \cup Fetched

\* handle_patch_complete in the two modes of the application. A patch that has no
\* title is not over: its fields and entries stay.
Complete ==
    IF ctx.fields["title"] = Null
    THEN UNCHANGED <<ctx, listed, entries, all, faulted>>
    ELSE /\ ctx' = CompletePatch(ctx, TRUE)
         /\ faulted' = faulted \cup CompleteFaults
         /\ listed' = IF "metadata" \in faulted' THEN listed
                      ELSE listed \o Metas(ctx, NoneOn)
         /\ entries' = <<>>
         /\ all' = IF "all" \in faulted' THEN all ELSE all \cup Fetched

PatchLine(l) ==
    /\ LineKey(l) = "patch"
    /\ mark < MaxPatches
    /\ Complete
    /\ mark' = mark + 1 /\ heard' = {}
    /\ UNCHANGED <<pc, queried, owner, titled, untitled>>

FieldLine(l) ==
    /\ LineKey(l) \in StringField \cup {"app_ver", "titleid", "none"}
    /\ ctx' = ContextAfter(ctx, l, TRUE)
    /\ titled' = IF LineKey(l) = "title" THEN mark ELSE titled
    /\ heard' = heard \cup ({LineKey(l)} \ {"titleid", "none"})
    /\ UNCHANGED <<pc, listed, entries, all, faulted, queried, mark, owner, untitled>>

\* The section's "patches:" is there, with or without its title.
PatchesHeard ==
    /\ untitled' = IF "title" \in heard THEN untitled ELSE untitled \cup {mark}
    /\ heard' = heard \cup {"patches"}
    /\ UNCHANGED <<mark, owner, titled>>

\* Mutant: only the first version is looked up.
PatchesLineFirst(l) ==
    /\ LineKey(l) = "patches"
    /\ ctx' = ContextAfter(ctx, l, TRUE)
    /\ queried' = queried \cup {CalculateHash(ctx, 1)}
    /\ PatchesHeard
    /\ UNCHANGED <<pc, listed, entries, all, faulted>>

\* Only PARSE_MODE_LOW_MEM computes metadata here.
PatchesLine(l) ==
    /\ LineKey(l) = "patches"
    /\ ctx' = ContextAfter(ctx, l, TRUE)
    /\ faulted' = faulted \cup IF MetaFaults(ctx) THEN {"game"} ELSE {}
    /\ queried' =
          IF "game" \in faulted' THEN queried
          ELSE queried \cup {CalculateHash(ctx, i) : i \in DOMAIN VersionSlots(ctx)}
    /\ PatchesHeard
    /\ UNCHANGED <<pc, listed, entries, all>>

\* Only PARSE_MODE_ALL keeps the entry.
EntryLine(l) ==
    /\ LineKey(l) = "entry"
    /\ Len(owner) < MaxEntries
    /\ owner' = Append(owner, mark)
    /\ entries' = IF ctx.inPatches THEN Append(entries, Len(owner')) ELSE entries
    /\ UNCHANGED <<pc, ctx, listed, all, faulted, queried, mark, titled, untitled, heard>>

ProcessLine(l) ==
    /\ pc = "reading"
    /\ PatchLine(l) \/ FieldLine(l) \/ PatchesLine(l) \/ EntryLine(l)

Eof ==
    /\ pc = "reading"
    /\ Complete
    /\ pc' = "done"
    /\ UNCHANGED <<queried, lines>>

Next == (\E l \in Line : ProcessLine(l)) \/ Eof

Spec == Init /\ [][Next]_vars

\* The place a well-formed file gives line l: in every section, which "patch:"
\* begins, each field at most once and before "patches:", entries after it, the
\* next "patch:" only after it. The binary has to be there, the title need not.
WellPlaced(l) ==
    CASE LineKey(l) = "patch"       -> "patches" \in heard \/ heard = {}
      [] LineKey(l) \in StringField -> /\ mark > 0 /\ l.value # Null
                                       /\ heard \cap {"patches", LineKey(l)} = {}
      [] LineKey(l) = "app_ver"     -> mark > 0 /\ heard \cap {"patches", "app_ver"} = {}
      [] LineKey(l) = "patches"     -> "patches" \notin heard /\ "app_bin" \in heard
      [] LineKey(l) = "entry"       -> "patches" \in heard
      [] OTHER                      -> TRUE

\* Well-formed files end between sections or after the entries of the last one.
WellFormedNext ==
    \/ \E l \in Line : WellPlaced(l) /\ ProcessLine(l)
    \/ ("patches" \in heard \/ heard = {}) /\ Eof

WellFormedSpec == Init /\ [][WellFormedNext]_vars

-----------------------------------------------------------------------------
\* On a well-formed file that neither breaks down on, every hash the application
\* lists is one the game looks up, though one computes it at the end of a patch and
\* the other at its "patches:" line: a switch set in the application always reaches
\* the game. The game looks up others only where a patch has no title.
AppAndGameAgree ==
    pc = "done" /\ faulted \cap {"metadata", "game"} = {} =>
        LET shown == {listed[i].hash : i \in DOMAIN listed}
        IN  shown \subseteq queried /\ (untitled = {} => queried = shown)

\* patch_number is different for every version of every patch of any file, and
\* grows in file order, so two patches with equal texts still have two hashes.
NumbersIncrease ==
    \A i, j \in DOMAIN listed : i < j => listed[i].number < listed[j].number

\* PARSE_MODE_ALL fetches no patch that PARSE_MODE_METADATA does not list, as
\* long as the listing has not broken down.
FetchedIsListed ==
    "metadata" \notin faulted => \A p \in all :
        \E i \in DOMAIN listed : listed[i] = p.meta /\ listed[i].matches

\* On a well-formed file a fetched patch has every entry of the section its title
\* stands in, and an entry of another section only if that section has no title:
\* the entries of such a section, which no reset gives up, go to the next patch.
EntriesOfOnePatch ==
    \A p \in all :
        /\ \A k \in DOMAIN owner : owner[k] = p.of => \E i \in DOMAIN p.entries : p.entries[i] = k
        /\ \A i \in DOMAIN p.entries : owner[p.entries[i]] \in {p.of} \cup untitled
=============================================================================

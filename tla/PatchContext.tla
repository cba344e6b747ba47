---------------------------- MODULE PatchContext ----------------------------
(***************************************************************************)
(* The part of ParseContext (game_patch/patch.h) that the three parse      *)
(* modes of game_patch/patch.c share, as pure operators: which arm of      *)
(* process_line a line reaches, what that arm does to the patch under      *)
(* construction, and the PatchMetadata computed from it.                   *)
(*                                                                         *)
(* A line of the .yml file is a record                                     *)
(*   top    its indent is 0                                                *)
(*   keys   the key texts that occur anywhere in the line (strstr)         *)
(*   value  what parse_quoted_string returns for it: a string or Null      *)
(*   vers   the app versions it yields: parse_string_list on a list value, *)
(*          else the quoted scalar, <<>> when there is none                *)
(*   entry  it starts with "- [" and parse_patch_entry finds at least      *)
(*          MIN_PATCH_PARAMS parameters in it                              *)
(* A blank or comment line has no keys and is no entry.                    *)
(***************************************************************************)
EXTENDS Naturals, Sequences, FiniteSets, FiniteSetsExt

CONSTANTS
    Null,          \* a NULL char*
    StringValue,   \* the quoted strings of the file
    AppVersion,    \* the app versions of the file; none is the empty string
    GameVersion,   \* game_info.app_ver, Null when it is the empty string
    MatchingBins   \* the app_bin values that occur in argv[0] of the process

ASSUME ContextAssumption ==
    /\ Null \notin StringValue \cup AppVersion
    /\ GameVersion \in AppVersion \cup {Null}
    /\ MatchingBins \subseteq StringValue

StringField == {"title", "name", "notes", "author", "version", "app_bin"}

\* The factor of patch_number: one number for every version of every patch.
NumberStride == 100

\* Keys in the order in which process_line looks for them.
KeyOrder == <<"title", "name", "notes", "author", "version", "app_bin",
              "app_ver", "patches">>

\* The arm of process_line that handles line l.
LineKey(l) ==
    LET hits == {i \in DOMAIN KeyOrder : KeyOrder[i] \in l.keys} IN
    IF l.top /\ l.keys \cap {"titleid", "patch"} # {}
    THEN IF "titleid" \in l.keys THEN "titleid" ELSE "patch"
    ELSE IF hits # {} THEN KeyOrder[Min(hits)]
    ELSE IF l.entry THEN "entry" ELSE "none"

-----------------------------------------------------------------------------
\* num, fields, vers, inPatches: current_patch_number, the strings and app_ver
\* of current_patch, in_patches_section. verArray: current_patch.app_ver # NULL.

Context == [num: Nat,
            fields: [StringField -> StringValue \cup {Null}],
            vers: Seq(AppVersion),
            verArray: BOOLEAN,
            inPatches: BOOLEAN]

NoFields == [f \in StringField |-> Null]

NewContext(alloc) ==
    [num |-> 0, fields |-> NoFields, vers |-> <<>>, verArray |-> alloc,
     inPatches |-> FALSE]

\* handle_patch_complete: a patch without a title is kept as it is.
CompletePatch(ctx, alloc) ==
    IF ctx.fields["title"] = Null THEN ctx
    ELSE [NewContext(alloc) EXCEPT !.num = ctx.num + 1]

\* What process_line does to the context, whatever the mode.
ContextAfter(ctx, l, alloc) ==
    CASE LineKey(l) = "patch"       -> CompletePatch(ctx, alloc)
      [] LineKey(l) \in StringField -> [ctx EXCEPT !.fields[LineKey(l)] = l.value]
      [] LineKey(l) = "app_ver"     -> IF ctx.verArray
                                       THEN [ctx EXCEPT !.vers = l.vers]
                                       ELSE ctx
      [] LineKey(l) = "patches"     -> [ctx EXCEPT !.inPatches = TRUE]
      [] OTHER                      -> ctx

-----------------------------------------------------------------------------
\* A patch that lists no version still gets one metadata record, with app_ver NULL.
VersionSlots(ctx) == IF ctx.vers = <<>> THEN <<Null>> ELSE ctx.vers

\* Mutant: the stride between patches is missing.
NumberWithoutStride(ctx, i) == ctx.num + (i - 1)

Number(ctx, i) == ctx.num * NumberStride + (i - 1)

\* FNV over the number and the strings one after the other, a NULL string
\* counting as "": nothing separates the strings, so the hash sees only the
\* sequence of those that are present. Different sequences hash differently
\* (collisions of the 32-bit FNV are not modelled). The title id is the same
\* throughout one file and is left out.
CalculateHash(ctx, i) ==
    <<Number(ctx, i)>> \o
    SelectSeq(<<ctx.fields["title"], ctx.fields["name"], ctx.fields["author"],
                ctx.fields["version"], ctx.fields["app_bin"],
                VersionSlots(ctx)[i]>>,
              LAMBDA s : s # Null)

MatchesGame(v) == v # Null /\ v = GameVersion

\* process_patch_metadata_for_app_ver for the i-th version; on is the set of
\* hashes that the settings file of the title maps to 1.
MetaAt(ctx, on, i) ==
    [number  |-> Number(ctx, i),
     hash    |-> CalculateHash(ctx, i),
     matches |-> MatchesGame(VersionSlots(ctx)[i]),
     enabled |-> /\ CalculateHash(ctx, i) \in on
                 /\ ctx.fields["app_bin"] \in MatchingBins]

\* The metadata of every version of the patch under construction, in order.
Metas(ctx, on) == [i \in DOMAIN VersionSlots(ctx) |-> MetaAt(ctx, on, i)]

\* strstr is handed meta->app_bin unchecked.
MetaFaults(ctx) == ctx.fields["app_bin"] = Null
=============================================================================

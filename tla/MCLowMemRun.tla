----------------------------- MODULE MCLowMemRun -----------------------------
(***************************************************************************)
(* Small files for LowMemRun: the lines, and the settings files that can   *)
(* matter to them.                                                         *)
(***************************************************************************)
EXTENDS LowMemRun, TLC

CONSTANTS t1, t2, eboot, other, v1, v2

MCStringValue == {t1, t2, eboot, other}
MCAppVersion == {v1, v2}
MCMatchingBins == {eboot}

Blank == [top |-> FALSE, keys |-> {}, value |-> Null, vers |-> <<>>, entry |-> FALSE]
Field(k, v) == [Blank EXCEPT !.keys = {k}, !.value = v]
Versions(vs) == [Blank EXCEPT !.keys = {"app_ver"}, !.vers = vs]
TitleIds(vs) == [Blank EXCEPT !.top = TRUE, !.keys = {"titleid"}, !.vers = vs]
PatchMark == [Blank EXCEPT !.top = TRUE, !.keys = {"patch"}]
PatchesMark == [Blank EXCEPT !.keys = {"patches"}]
Entry == [Blank EXCEPT !.entry = TRUE]
\* An entry whose last string ends in "name:", so that no quoted text follows.
NamedEntry == [Entry EXCEPT !.keys = {"name"}]

Skeleton == {PatchMark, PatchesMark, Entry, Field("title", t1)}

\* Any order, missing fields, an unquoted value, an entry read as a field.
MCFreeLines == Skeleton \cup {Blank, TitleIds(<<v1>>), NamedEntry,
    Field("app_bin", eboot), Versions(<<v1, v2>>), Versions(<<v2, v1>>)}
\* The hash of patch n with title t1, binary b and version v in slot i.
H(n, i, b, v) == <<n * NumberStride + i - 1, t1, b, v>>
\* The hashes a decision can depend on: the game's version in either place, and
\* another version in the first.
MCHashes == {H(n, i, eboot, v) : n \in 0 .. 1, i \in 1 .. 2, v \in {v1, v2}}
              \ {H(n, 2, eboot, v2) : n \in 0 .. 1}
\* None of them, or one of each patch: a patch whose name was changed by an entry
\* line, or that lost its title, hashes to none of them.
MCSettings == {{}} \cup {{g, h} : g \in {k \in MCHashes : k[1] < NumberStride},
                                h \in {k \in MCHashes : k[1] >= NumberStride}}
=============================================================================

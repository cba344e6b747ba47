----------------------------- MODULE MCModesAgree -----------------------------
(***************************************************************************)
(* Small files for ModesAgree.                                             *)
(***************************************************************************)
EXTENDS ModesAgree, TLC

CONSTANTS t1, t2, text, eboot, v1, v2

MCStringValue == {t1, t2, text, eboot}
MCAppVersion == {v1, v2}
MCMatchingBins == {eboot}

Blank == [top |-> FALSE, keys |-> {}, value |-> Null, vers |-> <<>>, entry |-> FALSE]
Field(k, v) == [Blank EXCEPT !.keys = {k}, !.value = v]
Versions(vs) == [Blank EXCEPT !.keys = {"app_ver"}, !.vers = vs]

Marks ==
    {[Blank EXCEPT !.top = TRUE, !.keys = {"patch"}],
     [Blank EXCEPT !.keys = {"patches"}],
     [Blank EXCEPT !.entry = TRUE]}

MCLines == Marks \cup
    {Field("title", t1), Field("title", t2), Field("name", text), Field("author", text),
     Field("version", text), Field("app_bin", eboot),
     Versions(<<v1>>), Versions(<<v2>>), Versions(<<v2, v1>>)}
=============================================================================

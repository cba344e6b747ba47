----------------------------- MODULE MCBootloader -----------------------------
(***************************************************************************)
(* Small plugin files and argument lists for Bootloader.                   *)
(***************************************************************************)
EXTENDS Bootloader, TLC

CONSTANTS all, mine, other, v1, v2, p1, p2, a1, a2

MCMatchingApps == {all, mine}
MCMatchingVersions == {all, v1}

Blank == [app |-> FALSE, keys |-> {}, dash |-> FALSE, value |-> Null, vers |-> <<>>]
App(id) == [Blank EXCEPT !.app = TRUE, !.dash = TRUE, !.value = id]
Versions(vs) == [Blank EXCEPT !.keys = {"app_ver"}, !.vers = vs]
PluginsMark == [Blank EXCEPT !.keys = {"plugins"}]
Plugin(p) == [Blank EXCEPT !.dash = TRUE, !.value = p]

\* One block, or one that has a second plugin.
MCOneBlock == {App(mine), Versions(<<v1>>), PluginsMark, Plugin(p1)}
MCConfigLines == MCOneBlock \cup {Plugin(p2)}
\* Blocks of the game and of another one, in any order, with strings that are
\* not quoted or cannot be copied.
MCFaultLines == {App(mine), App(Null), App(other), Versions(<<v2, v1>>), Versions(<<v2>>),
                PluginsMark, Plugin(p1), Plugin(Null)}

MCManyArgv == {<<>>, <<a1>>, <<a1, a2>>, <<Null, a1>>, <<a1, a2, a1>>, <<a1, a1, a2, a2>>}

\* Two whole blocks, or the lines of them in any order; blocks of several plugins; short
\* memory; every number of arguments.
MCScenarios ==
    {[lines |-> MCOneBlock, argvs |-> {<<a1>>}, mallocMayFail |-> FALSE,
      maxLines |-> 8, maxAppends |-> 0],
     [lines |-> MCConfigLines, argvs |-> {<<a1>>}, mallocMayFail |-> FALSE,
      maxLines |-> 6, maxAppends |-> 0],
     [lines |-> MCFaultLines, argvs |-> {<<a1>>}, mallocMayFail |-> TRUE,
      maxLines |-> 5, maxAppends |-> 1],
     [lines |-> MCConfigLines, argvs |-> MCManyArgv, mallocMayFail |-> FALSE,
      maxLines |-> 5, maxAppends |-> 3]}
=============================================================================

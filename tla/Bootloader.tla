------------------------------ MODULE Bootloader ------------------------------
(***************************************************************************)
(* game_plugin_bootloader inside the starting game: it copies the game's   *)
(* arguments, parses PLUGINS_PATH line by line (game_patch/plugins.c) and  *)
(* loads the plugins of every block that names the game and its version,   *)
(* at the moment the block is over. A plugin runs its module_start before  *)
(* the next one is loaded and may append arguments (append_arg).           *)
(*                                                                         *)
(* A line of the file is a record                                          *)
(*   app    its content starts with "- app:"                               *)
(*   keys   which of "app_ver:" and "plugins:" occur anywhere in it        *)
(*   dash   its content starts with '-'                                    *)
(*   value  its quoted string, Null if there is none                       *)
(*   vers   the versions it yields, <<>> if there are none                 *)
(***************************************************************************)
EXTENDS Naturals, Sequences, SequencesExt, Subsequences

CONSTANTS
    Null,              \* a NULL char*
    MatchingApps,      \* the app ids that start with "all" or are the title id
    MatchingVersions,  \* the versions that start with "all" or are the game's
    Argument,          \* argument strings
    Long,              \* those of max_arg_buf characters and more
    Zero, Stale,       \* a slot of new_argv that is zeroed, or never was
    MaxArgs,           \* max_args, the slots of new_argv
    Scenarios          \* what a start may meet

\* A scenario has the lines the file is made of and the argv the game may be started
\* with, says whether malloc may return NULL, and bounds the lines of the file and the
\* arguments appended.
ASSUME BootAssumption ==
    /\ Null \notin MatchingApps
    /\ {Zero, Stale, Null} \cap Argument = {} /\ Long \subseteq Argument
    /\ MaxArgs \in Nat \ {0}
    /\ \A s \in Scenarios :
          /\ \A l \in s.lines : l.keys \subseteq {"app_ver", "plugins"}
          /\ s.argvs \subseteq Seq(Argument \cup {Null})
          /\ s.mallocMayFail \in BOOLEAN
          /\ s.maxLines \in Nat /\ s.maxAppends \in Nat

VARIABLES
    pc,         \* "start", "reading", "loading", "plugin", "done"
    config,     \* current_config
    hasConfig,  \* has_current_config
    inPlugins,  \* in_plugins_section
    queue,      \* plugins of the block being emitted that are not loaded yet
    pending,    \* "- app:" line whose block follows the emitted one, Null at the end
    scenario,   \* of this start
    argv,       \* the game's own arguments
    cleared,    \* the caller's stack under program_args was zeroed
    argc,       \* program_args.argc
    newArgv,    \* program_args.new_argv
    changed,    \* program_args.flag.changed
    tried,      \* history: plugins handed to sys_prx_load_module
    lines,      \* history: lines read
    appended,   \* history: arguments append_arg took
    refused     \* history: append_arg returned false

parser == <<config, hasConfig, inPlugins>>
given == <<scenario, argv, cleared>>
arguments == <<given, argc, newArgv, changed, appended, refused>>
vars == <<pc, parser, queue, pending, arguments, tried, lines>>

Slot == 0 .. MaxArgs - 1
NoConfig == [app |-> Null, vers |-> <<>>, plugins |-> <<>>]

\* The caller keeps program_args on a stack that it may not have cleared.
Init ==
    /\ pc = "start"
    /\ config = NoConfig /\ hasConfig = FALSE /\ inPlugins = FALSE
    /\ queue = <<>> /\ pending = Null
    /\ scenario \in Scenarios /\ argv \in scenario.argvs
    /\ argc = Len(argv)
    /\ cleared \in BOOLEAN
    /\ newArgv = [i \in Slot |-> IF cleared THEN Zero ELSE Stale] /\ changed = ~cleared
    /\ tried = <<>> /\ lines = <<>> /\ appended = <<>> /\ refused = FALSE

-----------------------------------------------------------------------------
\* copy_main_args: a NULL argument leaves its slot as it was.
Copied ==
    [i \in Slot |-> IF i >= Len(argv) THEN Zero
                    ELSE IF argv[i + 1] = Null THEN newArgv[i] ELSE argv[i + 1]]

\* module_start; without the game's info or the plugin file no plugin is loaded.
Start ==
    /\ pc = "start"
    /\ newArgv' = Copied
    /\ pc' \in {"reading", "done"}
    /\ UNCHANGED <<parser, queue, pending, given, argc, changed, appended, refused,
                   tried, lines>>

-----------------------------------------------------------------------------
\* parse_quoted_string and parse_string_list copy each string on its own.
Quoted(v) == {v} \cup IF scenario.mallocMayFail THEN {Null} ELSE {}

Survivors(vs) == IF scenario.mallocMayFail THEN Subsequences(vs) ELSE {vs}

\* load_plugin_callback: the block names the game and one of its versions.
Matches(c) ==
    c.app \in MatchingApps /\ \E i \in DOMAIN c.vers : c.vers[i] \in MatchingVersions

\* emit_current_config up to the callback's loop over the plugins.
Emit == queue' = IF hasConfig /\ Matches(config) THEN config.plugins ELSE <<>>

\* Mutant: the versions of the block before are still there.
NextBlockKeepsVersions ==
    /\ pc = "loading" /\ queue = <<>> /\ pending # Null
    /\ pc' = "reading"
    /\ \E app \in Quoted(pending.value) :
           config' = [NoConfig EXCEPT !.app = app, !.vers = config.vers]
    /\ hasConfig' = TRUE /\ inPlugins' = FALSE
    /\ UNCHANGED <<queue, pending, arguments, tried, lines>>

\* The end of emit_current_config and the rest of the "- app:" line: the new
\* block starts from a zeroed config.
NextBlock ==
    /\ pc = "loading" /\ queue = <<>> /\ pending # Null
    /\ pc' = "reading"
    /\ \E app \in Quoted(pending.value) : config' = [NoConfig EXCEPT !.app = app]
    /\ hasConfig' = TRUE /\ inPlugins' = FALSE
    /\ UNCHANGED <<queue, pending, arguments, tried, lines>>

AppLine(l) ==
    /\ l.app
    /\ pc' = "loading" /\ pending' = l
    /\ Emit
    /\ UNCHANGED <<parser, arguments, tried>>

\* "app_ver:": versions that could not be read leave the old ones.
VersionLine(l) ==
    /\ ~l.app /\ "app_ver" \in l.keys /\ hasConfig
    /\ \E vs \in Survivors(l.vers) :
           config' = IF vs = <<>> THEN config ELSE [config EXCEPT !.vers = vs]
    /\ UNCHANGED <<pc, hasConfig, inPlugins, queue, pending, arguments, tried>>

PluginsLine(l) ==
    /\ ~l.app /\ "app_ver" \notin l.keys /\ "plugins" \in l.keys /\ hasConfig
    /\ inPlugins' = TRUE
    /\ UNCHANGED <<pc, config, hasConfig, queue, pending, arguments, tried>>

IsPluginLine(l) == ~l.app /\ l.keys = {} /\ l.dash

\* add_plugin: the string or the longer array may not be there.
PluginLine(l) ==
    /\ IsPluginLine(l) /\ hasConfig /\ inPlugins
    /\ \E path \in Quoted(l.value) :
           config' = IF path = Null THEN config
                     ELSE [config EXCEPT !.plugins = Append(@, path)]
    /\ UNCHANGED <<pc, hasConfig, inPlugins, queue, pending, arguments, tried>>

\* Lines no arm of process_line handles.
OtherLine(l) ==
    /\ ~l.app
    /\ \/ ~hasConfig
       \/ l.keys = {} /\ ~(l.dash /\ inPlugins)
    /\ UNCHANGED <<pc, parser, queue, pending, arguments, tried>>

ProcessLine(l) ==
    /\ pc = "reading" /\ Len(lines) < scenario.maxLines
    /\ lines' = Append(lines, l)
    /\ AppLine(l) \/ VersionLine(l) \/ PluginsLine(l) \/ PluginLine(l) \/ OtherLine(l)

\* The file is over, or a read failed: the last block is emitted.
Eof ==
    /\ pc = "reading"
    /\ pc' = "loading" /\ pending' = Null
    /\ Emit
    /\ UNCHANGED <<parser, arguments, tried, lines>>

Finish ==
    /\ pc = "loading" /\ queue = <<>> /\ pending = Null
    /\ pc' = "done"
    /\ config' = NoConfig /\ hasConfig' = FALSE /\ inPlugins' = FALSE
    /\ UNCHANGED <<queue, pending, arguments, tried, lines>>

-----------------------------------------------------------------------------
\* Mutant: a plugin that cannot be loaded ends the loop.
LoadPluginStops ==
    /\ pc = "loading" /\ queue # <<>>
    /\ tried' = Append(tried, Head(queue))
    /\ \/ pc' = "loading" /\ queue' = <<>>
       \/ pc' = "plugin" /\ queue' = Tail(queue)
    /\ UNCHANGED <<parser, pending, arguments, lines>>

\* sys_prx_load_module and sys_prx_start_module: a plugin that cannot be loaded is
\* passed over.
LoadPlugin ==
    /\ pc = "loading" /\ queue # <<>>
    /\ tried' = Append(tried, Head(queue))
    /\ queue' = Tail(queue)
    /\ pc' \in {"loading", "plugin"}
    /\ UNCHANGED <<parser, pending, arguments, lines>>

\* What strncpy leaves of an argument: the first max_arg_buf characters, which end
\* where they do only if the byte behind them was zero before.
Buffer(a, clear) == IF a \in Long THEN [beginning |-> a, ended |-> clear] ELSE a

\* Mutant: off by one in the test of argc.
PluginAppendsPastEnd(a) ==
    /\ pc = "plugin" /\ Len(appended) < scenario.maxAppends /\ argc <= MaxArgs
    /\ newArgv' = [i \in Slot |-> IF i = argc THEN Buffer(a, cleared)
                                  ELSE IF i = argc + 1 THEN Zero ELSE newArgv[i]]
    /\ argc' = argc + 1 /\ changed' = TRUE
    /\ appended' = Append(appended, a)
    /\ UNCHANGED <<pc, parser, queue, pending, given, refused, tried, lines>>

\* append_arg, called by a running plugin.
PluginAppends(a) ==
    /\ pc = "plugin" /\ Len(appended) < scenario.maxAppends /\ argc < MaxArgs
    /\ newArgv' = [i \in Slot |-> IF i = argc THEN Buffer(a, cleared)
                                  ELSE IF i = argc + 1 THEN Zero ELSE newArgv[i]]
    /\ argc' = argc + 1 /\ changed' = TRUE
    /\ appended' = Append(appended, a)
    /\ UNCHANGED <<pc, parser, queue, pending, given, refused, tried, lines>>

AppendRefused ==
    /\ pc = "plugin" /\ argc >= MaxArgs
    /\ refused' = TRUE
    /\ UNCHANGED <<pc, parser, queue, pending, given, argc, newArgv, changed,
                   appended, tried, lines>>

\* The plugin's module_start returns, or it could not be started.
PluginReturns ==
    /\ pc = "plugin"
    /\ pc' = "loading"
    /\ UNCHANGED <<parser, queue, pending, arguments, tried, lines>>

Next ==
    \/ Start \/ (\E l \in scenario.lines : ProcessLine(l)) \/ Eof
    \/ NextBlock \/ Finish \/ LoadPlugin
    \/ (\E a \in Argument : PluginAppends(a)) \/ AppendRefused \/ PluginReturns

Spec == Init /\ [][Next]_vars

-----------------------------------------------------------------------------
\* The file as its author reads it: a block goes from an "- app:" line to the
\* next, has the versions of its last readable "app_ver:" line, and the plugins
\* listed after its "plugins:" line.
AppLines == {i \in DOMAIN lines : lines[i].app}

BlockLines(i) ==
    {j \in DOMAIN lines : j > i /\ \A k \in AppLines : ~(i < k /\ k <= j)}

VersionLines(i) ==
    {j \in BlockLines(i) : "app_ver" \in lines[j].keys /\ lines[j].vers # <<>>}

PluginLines(i) ==
    {j \in BlockLines(i) :
        /\ IsPluginLine(lines[j]) /\ lines[j].value # Null
        /\ \E k \in BlockLines(i) : k < j /\ lines[k].keys = {"plugins"}}

\* The block of line i names the game and, in the last line that counts, its version.
NamesTheGame(i) ==
    /\ lines[i].value \in MatchingApps
    /\ \E j \in VersionLines(i) :
          /\ \A k \in VersionLines(i) : k <= j
          /\ ToSet(lines[j].vers) \cap MatchingVersions # {}

Wanted == UNION {PluginLines(i) : i \in {k \in AppLines : NamesTheGame(k)}}

\* s holds the strings of the lines in S, in the order of the file.
Lists(s, S) ==
    \E p \in [1 .. Len(s) -> S] :
        /\ \A j, k \in 1 .. Len(s) : j < k => p[j] < p[k]
        /\ \A i \in S : \E k \in 1 .. Len(s) : p[k] = i
        /\ \A k \in 1 .. Len(s) : s[k] = lines[p[k]].value

\* With memory enough, every plugin of every block that names the game and its
\* version is tried exactly once for each time it is listed, in file order,
\* whichever plugins before it fail, and no other plugin is.
LoadedAsConfigured == pc = "done" /\ ~scenario.mallocMayFail => Lists(tried, Wanted)

\* Whatever strings could not be copied, a plugin is tried only if it stands in a
\* block that names the game and one of whose "app_ver:" lines names its version:
\* nothing of one block shows up in another.
TriedIsConfigured ==
    \A n \in DOMAIN tried : \E i \in AppLines :
        /\ lines[i].value \in MatchingApps
        /\ \E j \in VersionLines(i) : ToSet(lines[j].vers) \cap MatchingVersions # {}
        /\ \E j \in PluginLines(i) : lines[j].value = tried[n]

\* A slot has the whole argument, or the beginning of one that does not fit, as a
\* string that ends if the buffers were zeroed.
Holds(slot, a) ==
    IF a \notin Long THEN slot = a
    ELSE slot.beginning = a /\ (cleared => slot.ended)

\* What the game will find in new_argv: its own arguments, then the appended ones
\* in order, whichever plugins appended them.
ArgumentsInOrder ==
    pc # "start" =>
        /\ argc = Len(argv) + Len(appended)
        /\ \A i \in Slot : i < argc =>
              IF i < Len(argv) THEN argv[i + 1] \in {Null, newArgv[i]}
              ELSE Holds(newArgv[i], appended[i + 1 - Len(argv)])

\* new_argv ends with an empty slot as long as there is one, also on a stack that
\* was never cleared.
Terminated == pc # "start" /\ argc < MaxArgs => newArgv[argc] = Zero

\* append_arg never goes past the last slot, refuses an argument only when all
\* are taken, and "changed" is set once there is anything to pick up.
RefusedOnlyWhenFull ==
    /\ argc > Len(argv) => argc <= MaxArgs
    /\ refused => argc >= MaxArgs
    /\ argc > Len(argv) => changed

\* The three: whatever argument list the game is started with, and whichever
\* plugins append to it or are refused, the list the game finds is whole.
ArgumentsIntact == ArgumentsInOrder /\ Terminated /\ RefusedOnlyWhenFull
=============================================================================

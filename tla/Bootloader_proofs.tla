-------------------------- MODULE Bootloader_proofs --------------------------
(***************************************************************************)
(* What the plugins do to the argument list, and which plugins are loaded,  *)
(* for every argument list, every capacity of new_argv, every plugin file  *)
(* and every set of plugins.                                               *)
(***************************************************************************)
EXTENDS Bootloader, TLAPS

USE BootAssumption DEF parser, arguments, given

\* Every action, for the case analysis of a step.
LEMMA Steps ==
    Next => \/ Start \/ (\E l \in scenario.lines : ProcessLine(l)) \/ Eof \/ NextBlock
            \/ Finish \/ LoadPlugin \/ (\E a \in Argument : PluginAppends(a))
            \/ AppendRefused \/ PluginReturns
BY DEF Next

\* The arguments of the game are left alone while the file is read.
LEMMA ReadingKeepsArguments ==
    ASSUME NEW l \in scenario.lines, ProcessLine(l)
    PROVE  /\ UNCHANGED arguments
           /\ pc = "reading" /\ pc' \in {"reading", "loading"}
BY DEF ProcessLine, AppLine, VersionLine, PluginsLine, PluginLine, OtherLine

-----------------------------------------------------------------------------
SlotValue == Argument \cup {Zero, Stale} \cup [beginning: Long, ended: BOOLEAN]

ArgumentTypes ==
    /\ argv \in Seq(Argument \cup {Null})
    /\ argc \in Nat
    /\ cleared \in BOOLEAN
    /\ newArgv \in [Slot -> SlotValue]
    /\ changed \in BOOLEAN
    /\ appended \in Seq(Argument)

\* append_arg is only ever called with a list that copy_main_args has filled, so
\* argc counts the game's own arguments and those appended, and every slot below
\* it holds the argument of that place.
ArgumentsInv ==
    /\ ArgumentTypes
    /\ argc = Len(argv) + Len(appended)
    /\ pc = "start" => appended = <<>> /\ refused = FALSE
    /\ pc # "start" =>
          \A i \in Slot : i < argc =>
              IF i < Len(argv) THEN argv[i + 1] \in {Null, newArgv[i]}
              ELSE newArgv[i] = Buffer(appended[i + 1 - Len(argv)], cleared)
    /\ Terminated
    /\ RefusedOnlyWhenFull

LEMMA InitArguments == Init => ArgumentsInv
<1> SUFFICES ASSUME Init PROVE ArgumentsInv
    OBVIOUS
<1> USE DEF Init
<1>1. /\ cleared \in BOOLEAN /\ changed \in BOOLEAN
      /\ newArgv \in [Slot -> SlotValue]
    BY DEF SlotValue
<1>2. argv \in Seq(Argument \cup {Null}) /\ argc = Len(argv) /\ argc \in Nat
    OBVIOUS
<1>3. appended = <<>> /\ appended \in Seq(Argument) /\ Len(appended) = 0
    OBVIOUS
<1>4. ArgumentTypes
    BY <1>1, <1>2, <1>3 DEF ArgumentTypes
<1> QED BY <1>2, <1>3, <1>4 DEF ArgumentsInv, Terminated, RefusedOnlyWhenFull

\* copy_main_args fills the slots of the arguments and zeroes the others.
LEMMA StartArguments == ArgumentsInv /\ Start => ArgumentsInv'
<1> SUFFICES ASSUME ArgumentsInv, Start PROVE ArgumentsInv'
    OBVIOUS
<1>1. /\ pc = "start" /\ pc' # "start" /\ newArgv' = Copied
      /\ UNCHANGED <<argv, cleared, argc, changed, appended, refused>>
    BY DEF Start
<1>2. appended = <<>> /\ Len(appended) = 0 /\ refused = FALSE /\ argc = Len(argv)
    BY <1>1 DEF ArgumentsInv, ArgumentTypes
<1>3. \A i \in Slot : /\ i >= Len(argv) => Copied[i] = Zero
                      /\ i < Len(argv) => argv[i + 1] \in {Null, Copied[i]}
    <2>1. \A i \in Slot : i \in Nat /\ Len(argv) \in Nat
        BY DEF Slot, ArgumentsInv, ArgumentTypes
    <2> QED BY <2>1 DEF Copied
<1>4. Copied \in [Slot -> SlotValue]
    <2> SUFFICES ASSUME NEW i \in Slot, ~(i >= Len(argv)), argv[i + 1] # Null
                 PROVE  argv[i + 1] \in Argument
        <3>1. \A i \in Slot : newArgv[i] \in SlotValue
            BY DEF ArgumentsInv, ArgumentTypes
        <3> QED BY <3>1 DEF Copied, SlotValue
    <2>1. argv \in Seq(Argument \cup {Null}) /\ i + 1 \in 1 .. Len(argv)
        BY DEF Slot, ArgumentsInv, ArgumentTypes
    <2>2. argv[i + 1] \in Argument \cup {Null}
        BY <2>1
    <2> QED BY <2>2
<1>5. ArgumentTypes'
    BY <1>1, <1>4 DEF ArgumentsInv, ArgumentTypes
<1>6. Terminated'
    BY <1>1, <1>2, <1>3 DEF Terminated, Slot, ArgumentsInv, ArgumentTypes
<1>7. RefusedOnlyWhenFull'
    BY <1>1, <1>2 DEF RefusedOnlyWhenFull, ArgumentsInv, ArgumentTypes
<1> QED BY <1>1, <1>2, <1>3, <1>5, <1>6, <1>7 DEF ArgumentsInv

\* append_arg puts the argument into slot argc and zeroes the one behind it.
LEMMA AppendArguments ==
    ASSUME NEW a \in Argument, ArgumentsInv, PluginAppends(a)
    PROVE  ArgumentsInv'
<1> USE DEF ArgumentTypes
<1>1. /\ pc = "plugin" /\ pc' = "plugin" /\ argc < MaxArgs
      /\ newArgv' = [i \in Slot |-> IF i = argc THEN Buffer(a, cleared)
                                    ELSE IF i = argc + 1 THEN Zero ELSE newArgv[i]]
      /\ argc' = argc + 1 /\ changed' = TRUE /\ appended' = Append(appended, a)
      /\ argv' = argv /\ cleared' = cleared /\ refused' = refused
    BY DEF PluginAppends
<1>2. ArgumentTypes'
    <2>1. Buffer(a, cleared) \in SlotValue /\ Zero \in SlotValue
        BY DEF Buffer, SlotValue, ArgumentsInv
    <2>2. newArgv' \in [Slot -> SlotValue]
        BY <1>1, <2>1 DEF ArgumentsInv
    <2> QED BY <1>1, <2>2 DEF ArgumentsInv
<1>3. Len(appended') = Len(appended) + 1 /\ argc' = Len(argv') + Len(appended')
    BY <1>1 DEF ArgumentsInv
<1>4. \A i \in Slot : i < argc' =>
          IF i < Len(argv') THEN argv'[i + 1] \in {Null, newArgv'[i]}
          ELSE newArgv'[i] = Buffer(appended'[i + 1 - Len(argv')], cleared')
    <2> SUFFICES ASSUME NEW i \in Slot, i < argc + 1
                 PROVE  IF i < Len(argv) THEN argv[i + 1] \in {Null, newArgv'[i]}
                        ELSE newArgv'[i] = Buffer(appended'[i + 1 - Len(argv)], cleared)
        BY <1>1
    <2>1. CASE i < argc
        <3>1. newArgv'[i] = newArgv[i]
            BY <2>1, <1>1 DEF Slot, ArgumentsInv
        <3>2. i >= Len(argv) =>
                  appended'[i + 1 - Len(argv)] = appended[i + 1 - Len(argv)]
            BY <2>1, <1>1 DEF Slot, ArgumentsInv
        <3>3. IF i < Len(argv) THEN argv[i + 1] \in {Null, newArgv[i]}
              ELSE newArgv[i] = Buffer(appended[i + 1 - Len(argv)], cleared)
            BY <2>1, <1>1 DEF ArgumentsInv
        <3>4. CASE i < Len(argv) BY <3>4, <3>3, <3>1
        <3>5. CASE ~(i < Len(argv))
            <4>1. i >= Len(argv) BY <3>5 DEF Slot, ArgumentsInv
            <4> QED BY <3>5, <4>1, <3>3, <3>1, <3>2
        <3> QED BY <3>4, <3>5
    <2>2. CASE i = argc
        <3>1. newArgv'[i] = Buffer(a, cleared)
            BY <2>2, <1>1
        <3>2. i >= Len(argv) /\ i + 1 - Len(argv) = Len(appended) + 1
            BY <2>2 DEF ArgumentsInv
        <3>3. appended'[Len(appended) + 1] = a
            BY <1>1 DEF ArgumentsInv
        <3>4. ~(i < Len(argv))
            BY <3>2 DEF Slot, ArgumentsInv
        <3> QED BY <3>1, <3>2, <3>3, <3>4
    <2> QED BY <2>1, <2>2 DEF Slot, ArgumentsInv
<1>5. Terminated'
    BY <1>1 DEF Terminated, Slot, ArgumentsInv
<1>6. RefusedOnlyWhenFull'
    BY <1>1 DEF RefusedOnlyWhenFull, ArgumentsInv
<1> QED BY <1>1, <1>2, <1>3, <1>4, <1>5, <1>6 DEF ArgumentsInv

LEMMA NextArguments == ArgumentsInv /\ [Next]_vars => ArgumentsInv'
<1> SUFFICES ASSUME ArgumentsInv, [Next]_vars PROVE ArgumentsInv'
    OBVIOUS
<1> DEFINE Quiet == /\ UNCHANGED arguments
                    /\ pc = "start" <=> pc' = "start"
<1>1. Quiet => ArgumentsInv'
    BY DEF ArgumentsInv, ArgumentTypes, Terminated, RefusedOnlyWhenFull
<1>2. CASE Start
    BY <1>2, StartArguments
<1>3. CASE \E l \in scenario.lines : ProcessLine(l)
    BY <1>3, <1>1, ReadingKeepsArguments
<1>4. CASE Eof
    BY <1>4, <1>1 DEF Eof
<1>5. CASE NextBlock
    BY <1>5, <1>1 DEF NextBlock
<1>6. CASE Finish
    BY <1>6, <1>1 DEF Finish
<1>7. CASE LoadPlugin
    BY <1>7, <1>1 DEF LoadPlugin
<1>8. CASE \E a \in Argument : PluginAppends(a)
    BY <1>8, AppendArguments
<1>9. CASE AppendRefused
    BY <1>9 DEF AppendRefused, ArgumentsInv, ArgumentTypes, Terminated,
                RefusedOnlyWhenFull
<1>10. CASE PluginReturns
    BY <1>10, <1>1 DEF PluginReturns
<1>11. CASE UNCHANGED vars
    BY <1>11, <1>1 DEF vars
<1> QED BY <1>2, <1>3, <1>4, <1>5, <1>6, <1>7, <1>8, <1>9, <1>10, <1>11, Steps

-----------------------------------------------------------------------------
\* What the game finds in new_argv: its own arguments, then the appended ones in
\* the order of the calls, whichever plugins made them, each whole or with as much
\* of it as a buffer holds; an empty slot behind them
\* as long as there is one; and append_arg refuses only when all are taken.
THEOREM ArgumentsStayIntact == Spec => []ArgumentsIntact
<1>1. ArgumentsInv => ArgumentsIntact
    <2>1. \A a : Holds(Buffer(a, cleared), a)
        BY DEF Holds, Buffer
    <2>2. ArgumentsInv => ArgumentsInOrder
        BY <2>1 DEF ArgumentsInv, ArgumentsInOrder
    <2> QED BY <2>2 DEF ArgumentsInv, ArgumentsIntact
<1> QED BY <1>1, InitArguments, NextArguments, PTL DEF Spec

-----------------------------------------------------------------------------
(***************************************************************************)
(* Which plugins are tried.  The block under construction is the one of    *)
(* the last "- app:" line, whatever strings it lost; what is queued or has *)
(* been tried is configured.                                               *)
(***************************************************************************)
Values == {l.value : l \in scenario.lines}

\* A block of the file so far names the game, its version and the plugin p.
Configured(p) ==
    \E i \in AppLines :
        /\ lines[i].value \in MatchingApps
        /\ \E j \in VersionLines(i) : ToSet(lines[j].vers) \cap MatchingVersions # {}
        /\ \E j \in PluginLines(i) : lines[j].value = p

\* Everything in c stands in the block of line i.
Stands(c, i) ==
    /\ c.app \in {lines[i].value, Null}
    /\ \A n \in DOMAIN c.vers :
          \E j \in VersionLines(i) : c.vers[n] \in ToSet(lines[j].vers)
    /\ \A n \in DOMAIN c.plugins : \E j \in PluginLines(i) : lines[j].value = c.plugins[n]

Newest(i) == i \in AppLines /\ \A k \in AppLines : k <= i

FileTypes ==
    /\ scenario \in Scenarios
    /\ lines \in Seq(scenario.lines)
    /\ config = [app |-> config.app, vers |-> config.vers, plugins |-> config.plugins]
    /\ config.plugins \in Seq(Values)
    /\ queue \in Seq(Values)
    /\ tried \in Seq(Values)

Blocks ==
    /\ FileTypes
    /\ pc = "start" => ~hasConfig
    /\ hasConfig /\ pc = "reading" =>
          \E i \in AppLines :
              /\ Newest(i) /\ Stands(config, i)
              /\ inPlugins => \E k \in BlockLines(i) : lines[k].keys = {"plugins"}
    /\ pc \in {"loading", "plugin"} /\ pending # Null =>
          Newest(Len(lines)) /\ lines[Len(lines)] = pending
    /\ \A n \in DOMAIN queue : Configured(queue[n])
    /\ \A n \in DOMAIN tried : Configured(tried[n])

LEMMA InitBlocks == Init => Blocks
<1> SUFFICES ASSUME Init PROVE Blocks
    OBVIOUS
<1>1. FileTypes
    BY DEF Init, NoConfig, FileTypes
<1> QED BY <1>1 DEF Init, Blocks

\* A line that is added leaves the blocks before it as they are.
LEMMA LineKeepsBlocks ==
    ASSUME NEW l, l \in scenario.lines, lines \in Seq(scenario.lines),
           lines' = Append(lines, l)
    PROVE  /\ \A j \in DOMAIN lines : lines'[j] = lines[j]
           /\ DOMAIN lines' = DOMAIN lines \cup {Len(lines) + 1}
           /\ lines'[Len(lines) + 1] = l
           /\ AppLines \subseteq AppLines' /\ AppLines' \subseteq AppLines \cup {Len(lines) + 1}
           /\ \A i \in AppLines : /\ BlockLines(i) \subseteq BlockLines(i)'
                                  /\ VersionLines(i) \subseteq VersionLines(i)'
                                  /\ PluginLines(i) \subseteq PluginLines(i)'
           /\ ~l.app => /\ AppLines' = AppLines
                        /\ \A i : Newest(i) => Len(lines) + 1 \in BlockLines(i)'
           /\ \A p : Configured(p) => Configured(p)'
<1> DEFINE n == Len(lines) + 1
<1>1. /\ DOMAIN lines = 1 .. Len(lines) /\ Len(lines) \in Nat
      /\ DOMAIN lines' = DOMAIN lines \cup {n} /\ n \notin DOMAIN lines
      /\ lines'[n] = l
      /\ \A j \in DOMAIN lines : lines'[j] = lines[j] /\ j \in Nat /\ j < n
    OBVIOUS
<1>2. AppLines \subseteq AppLines' /\ AppLines' \subseteq AppLines \cup {n}
    BY <1>1 DEF AppLines
<1>3. ASSUME NEW i \in AppLines PROVE BlockLines(i) \subseteq BlockLines(i)'
    <2> SUFFICES ASSUME NEW j \in BlockLines(i) PROVE j \in BlockLines(i)'
        OBVIOUS
    <2>1. j \in DOMAIN lines /\ j > i /\ \A k \in AppLines : ~(i < k /\ k <= j)
        BY DEF BlockLines
    <2>2. \A k \in AppLines' : ~(i < k /\ k <= j)
        BY <2>1, <1>1, <1>2
    <2> QED BY <2>1, <2>2, <1>1 DEF BlockLines
<1>4. ASSUME NEW i \in AppLines
      PROVE  /\ VersionLines(i) \subseteq VersionLines(i)'
             /\ PluginLines(i) \subseteq PluginLines(i)'
    <2>1. \A j \in BlockLines(i) : j \in BlockLines(i)' /\ lines'[j] = lines[j]
        BY <1>1, <1>3 DEF BlockLines
    <2> QED BY <2>1 DEF VersionLines, PluginLines, IsPluginLine
<1>5. ASSUME ~l.app
      PROVE  /\ AppLines' = AppLines
             /\ \A i : Newest(i) => n \in BlockLines(i)'
    <2>1. AppLines' = AppLines
        BY <1>1, <1>2, <1>5 DEF AppLines
    <2>2. ASSUME NEW i, Newest(i) PROVE n \in BlockLines(i)'
        <3>1. i \in DOMAIN lines /\ i \in Nat /\ n > i
            BY <2>2, <1>1 DEF Newest, AppLines
        <3>2. \A k \in AppLines' : ~(i < k /\ k <= n)
            BY <2>1, <2>2, <3>1, <1>1 DEF Newest, AppLines
        <3> QED BY <1>1, <3>1, <3>2 DEF BlockLines
    <2> QED BY <2>1, <2>2
<1>6. ASSUME NEW p, Configured(p) PROVE Configured(p)'
    <2>1. PICK i \in AppLines :
              /\ lines[i].value \in MatchingApps
              /\ \E j \in VersionLines(i) : ToSet(lines[j].vers) \cap MatchingVersions # {}
              /\ \E j \in PluginLines(i) : lines[j].value = p
        BY <1>6 DEF Configured
    <2>2. i \in AppLines' /\ lines'[i] = lines[i]
        BY <1>1, <1>2 DEF AppLines
    <2>3. \A j \in VersionLines(i) \cup PluginLines(i) : lines'[j] = lines[j]
        BY <1>1 DEF VersionLines, PluginLines, BlockLines
    <2> QED BY <2>1, <2>2, <2>3, <1>4 DEF Configured
<1> QED BY <1>1, <1>2, <1>3, <1>4, <1>5, <1>6

\* What stood in a block still does when the file goes on.
LEMMA LineKeepsStands ==
    ASSUME NEW l, l \in scenario.lines, lines \in Seq(scenario.lines),
           lines' = Append(lines, l), NEW c, NEW i \in AppLines, Stands(c, i)
    PROVE  Stands(c, i)'
<1>1. /\ lines'[i] = lines[i]
      /\ \A j \in VersionLines(i) \cup PluginLines(i) : lines'[j] = lines[j]
    BY LineKeepsBlocks DEF AppLines, VersionLines, PluginLines, BlockLines
<1>2. VersionLines(i) \subseteq VersionLines(i)' /\ PluginLines(i) \subseteq PluginLines(i)'
    BY LineKeepsBlocks
<1> QED BY <1>1, <1>2 DEF Stands

\* What emit_current_config hands on is configured.
LEMMA EmittedIsConfigured ==
    ASSUME NEW i \in AppLines, Stands(config, i), Matches(config),
           NEW n \in DOMAIN config.plugins
    PROVE  Configured(config.plugins[n])
<1>1. lines[i].value \in MatchingApps
    BY DEF Stands, Matches
<1>2. PICK m \in DOMAIN config.vers : config.vers[m] \in MatchingVersions
    BY DEF Matches
<1>3. PICK j \in VersionLines(i) : config.vers[m] \in ToSet(lines[j].vers)
    BY DEF Stands
<1>4. \E k \in PluginLines(i) : lines[k].value = config.plugins[n]
    BY DEF Stands
<1> QED BY <1>1, <1>2, <1>3, <1>4 DEF Configured

LEMMA EmitBlocks ==
    ASSUME Blocks, pc = "reading", Emit
    PROVE  /\ queue' \in Seq(Values)
           /\ \A n \in DOMAIN queue' : Configured(queue'[n])
<1>1. CASE hasConfig /\ Matches(config)
    <2>1. queue' = config.plugins
        BY <1>1 DEF Emit
    <2>2. PICK i \in AppLines : Stands(config, i)
        BY <1>1 DEF Blocks
    <2> QED BY <2>1, <2>2, <1>1, EmittedIsConfigured DEF Blocks, FileTypes
<1>2. CASE ~(hasConfig /\ Matches(config))
    BY <1>2 DEF Emit
<1> QED BY <1>1, <1>2

\* What survives of a list comes from it.
LEMMA SurvivorsStand ==
    ASSUME NEW vs, NEW s \in Survivors(vs), NEW n \in DOMAIN s
    PROVE  s[n] \in ToSet(vs) /\ vs # <<>>
<1>1. CASE scenario.mallocMayFail
    <2>1. PICK m \in 0 .. Len(vs) : s \in {[k \in 1 .. m |-> vs[p[k]]] : p \in Places(m, vs)}
        BY <1>1 DEF Survivors, Subsequences
    <2>2. PICK p \in Places(m, vs) : s = [k \in 1 .. m |-> vs[p[k]]]
        BY <2>1
    <2>3. n \in 1 .. m /\ s[n] = vs[p[n]] /\ p[n] \in DOMAIN vs
        BY <2>2 DEF Places
    <2> QED BY <2>3 DEF ToSet
<1>2. CASE ~scenario.mallocMayFail
    BY <1>2 DEF Survivors, ToSet
<1> QED BY <1>1, <1>2

\* What is queued or tried and does not change stays configured.
LEMMA StaysConfigured ==
    ASSUME \A p : Configured(p) => Configured(p)',
           queue' = queue, tried' = tried,
           \A n \in DOMAIN queue : Configured(queue[n]),
           \A n \in DOMAIN tried : Configured(tried[n])
    PROVE  /\ \A n \in DOMAIN queue' : Configured(queue[n])'
           /\ \A n \in DOMAIN tried' : Configured(tried[n])'
<1>1. ASSUME NEW n \in DOMAIN queue PROVE Configured(queue[n])'
    <2>1. PICK p : p = queue[n]
        OBVIOUS
    <2>2. Configured(p)'
        BY <2>1
    <2> QED BY <2>1, <2>2 DEF Configured
<1>2. ASSUME NEW n \in DOMAIN tried PROVE Configured(tried[n])'
    <2>1. PICK p : p = tried[n]
        OBVIOUS
    <2>2. Configured(p)'
        BY <2>1
    <2> QED BY <2>1, <2>2 DEF Configured
<1> QED BY <1>1, <1>2

LEMMA SameLinesSameBlocks ==
    ASSUME lines' = lines
    PROVE  /\ \A p : Configured(p) => Configured(p)'
           /\ \A i : Newest(i) => Newest(i)'
           /\ \A i : /\ BlockLines(i)' = BlockLines(i) /\ VersionLines(i)' = VersionLines(i)
                    /\ PluginLines(i)' = PluginLines(i)
<1>1. AppLines' = AppLines
    BY DEF AppLines
<1>2. \A i : BlockLines(i)' = BlockLines(i)
    BY <1>1 DEF BlockLines
<1>3. \A i : VersionLines(i)' = VersionLines(i) /\ PluginLines(i)' = PluginLines(i)
    BY <1>2 DEF VersionLines, PluginLines, IsPluginLine
<1>4. \A p : Configured(p) => Configured(p)'
    BY <1>1, <1>3 DEF Configured
<1>5. \A i : Newest(i) => Newest(i)'
    BY <1>1 DEF Newest
<1> QED BY <1>2, <1>3, <1>4, <1>5

\* A line that is no "- app:" line adds to the block what it holds, or nothing.
LEMMA LineBlocks ==
    ASSUME Blocks, pc = "reading", NEW l \in scenario.lines, ~l.app,
           lines' = Append(lines, l),
           VersionLine(l) \/ PluginsLine(l) \/ PluginLine(l) \/ OtherLine(l)
    PROVE  Blocks'
<1> DEFINE n == Len(lines) + 1
<1>1. lines \in Seq(scenario.lines)
    BY DEF Blocks, FileTypes
<1>2. UNCHANGED <<pc, hasConfig, queue, pending, scenario, tried>>
    BY DEF VersionLine, PluginsLine, PluginLine, OtherLine
<1>3. /\ lines'[n] = l /\ AppLines' = AppLines
      /\ \A i : Newest(i) => n \in BlockLines(i)' /\ Newest(i)'
      /\ \A i \in AppLines : BlockLines(i) \subseteq BlockLines(i)'
      /\ \A j \in DOMAIN lines : lines'[j] = lines[j]
      /\ \A i \in AppLines : i \in DOMAIN lines'
    <2>1. AppLines' = AppLines
        BY <1>1, LineKeepsBlocks
    <2>2. \A i : Newest(i) => Newest(i)'
        BY <2>1 DEF Newest
    <2> QED BY <1>1, <2>1, <2>2, LineKeepsBlocks DEF AppLines
<1>4. \A p : Configured(p) => Configured(p)'
    BY <1>1, LineKeepsBlocks
<1>5. /\ \A k \in DOMAIN queue' : Configured(queue[k])'
      /\ \A k \in DOMAIN tried' : Configured(tried[k])'
    BY <1>2, <1>4, StaysConfigured DEF Blocks
<1>6. FileTypes'
    <2>1. lines' \in Seq(scenario'.lines)
        BY <1>1, <1>2
    <2>2. config'.plugins \in Seq(Values)
          /\ config' = [app |-> config'.app, vers |-> config'.vers, plugins |-> config'.plugins]
        <3>1. CASE VersionLine(l)
            BY <3>1 DEF VersionLine, Blocks, FileTypes
        <3>2. CASE PluginsLine(l) \/ OtherLine(l)
            BY <3>2 DEF PluginsLine, OtherLine, Blocks, FileTypes
        <3>3. CASE PluginLine(l)
            <4>1. PICK path \in Quoted(l.value) :
                      config' = IF path = Null THEN config
                                ELSE [config EXCEPT !.plugins = Append(@, path)]
                BY <3>3 DEF PluginLine
            <4>2. path # Null => path \in Values
                BY DEF Quoted, Values
            <4>3. /\ config.plugins \in Seq(Values)
                  /\ config = [app |-> config.app, vers |-> config.vers,
                               plugins |-> config.plugins]
                BY DEF Blocks, FileTypes
            <4>4. CASE path = Null
                BY <4>1, <4>3, <4>4
            <4>5. CASE path # Null
                <5>1. config' = [config EXCEPT !.plugins = Append(config.plugins, path)]
                    BY <4>1, <4>5
                <5>2. config' = [app |-> config.app, vers |-> config.vers,
                                 plugins |-> Append(config.plugins, path)]
                    BY <5>1, <4>3
                <5>3. Append(config.plugins, path) \in Seq(Values)
                    BY <4>2, <4>3, <4>5
                <5> QED BY <5>2, <5>3
            <4> QED BY <4>4, <4>5
        <3> QED BY <3>1, <3>2, <3>3
    <2> QED BY <1>2, <2>1, <2>2 DEF Blocks, FileTypes, Values
<1>7. ASSUME hasConfig
      PROVE  \E i \in AppLines' :
                 /\ Newest(i)' /\ Stands(config, i)'
                 /\ inPlugins' => \E k \in BlockLines(i)' : lines'[k].keys = {"plugins"}
    <2>1. PICK i \in AppLines :
              /\ Newest(i) /\ Stands(config, i)
              /\ inPlugins => \E k \in BlockLines(i) : lines[k].keys = {"plugins"}
        BY <1>7 DEF Blocks
    <2>2. /\ i \in AppLines' /\ Newest(i)' /\ n \in BlockLines(i)'
          /\ (inPlugins => \E k \in BlockLines(i)' : lines'[k].keys = {"plugins"})
        BY <2>1, <1>3 DEF BlockLines
    <2>3. /\ config.app \in {lines'[i].value, Null}
          /\ \A k \in DOMAIN config.vers :
                \E j \in VersionLines(i)' : config.vers[k] \in ToSet(lines'[j].vers)
          /\ \A k \in DOMAIN config.plugins :
                \E j \in PluginLines(i)' : lines'[j].value = config.plugins[k]
        BY <2>1, <1>1, LineKeepsStands DEF Stands
    <2>4. CASE VersionLine(l)
        <3>1. PICK vs \in Survivors(l.vers) :
                  config' = IF vs = <<>> THEN config ELSE [config EXCEPT !.vers = vs]
            BY <2>4 DEF VersionLine
        <3>2. /\ config'.app = config.app /\ config'.plugins = config.plugins
              /\ config'.vers \in {config.vers, vs}
            BY <3>1 DEF Blocks, FileTypes
        <3>3. \A k \in DOMAIN vs : vs[k] \in ToSet(l.vers) /\ l.vers # <<>>
            BY SurvivorsStand
        <3>4. \A k \in DOMAIN vs : n \in VersionLines(i)' /\ vs[k] \in ToSet(lines'[n].vers)
            BY <3>3, <2>4, <2>2, <1>3 DEF VersionLine, VersionLines
        <3>5. \A k \in DOMAIN config'.vers :
                  \E j \in VersionLines(i)' : config'.vers[k] \in ToSet(lines'[j].vers)
            BY <3>2, <3>4, <2>3
        <3>6. Stands(config, i)'
            BY <3>2, <3>5, <2>3 DEF Stands
        <3>7. inPlugins' = inPlugins
            BY <2>4 DEF VersionLine
        <3> QED BY <2>2, <3>6, <3>7
    <2>5. CASE PluginsLine(l)
        <3>1. l.keys = {"plugins"}
            <4>1. l.keys \subseteq {"app_ver", "plugins"}
                BY DEF Blocks, FileTypes
            <4> QED BY <2>5, <4>1 DEF PluginsLine
        <3>2. config' = config
            BY <2>5 DEF PluginsLine
        <3>3. Stands(config, i)'
            BY <3>2, <2>3 DEF Stands
        <3> QED BY <2>2, <3>1, <3>3, <1>3
    <2>6. CASE OtherLine(l)
        <3>1. config' = config /\ inPlugins' = inPlugins
            BY <2>6 DEF OtherLine
        <3>2. Stands(config, i)'
            BY <3>1, <2>3 DEF Stands
        <3> QED BY <2>2, <3>1, <3>2
    <2>7. CASE PluginLine(l)
        <3>1. PICK path \in Quoted(l.value) :
                  config' = IF path = Null THEN config
                            ELSE [config EXCEPT !.plugins = Append(@, path)]
            BY <2>7 DEF PluginLine
        <3>2. inPlugins /\ inPlugins' = inPlugins /\ IsPluginLine(l)
            BY <2>7 DEF PluginLine
        <3>3. CASE path = Null
            <4>1. config' = config
                BY <3>1, <3>3
            <4>2. Stands(config, i)'
                BY <4>1, <2>3 DEF Stands
            <4> QED BY <2>2, <3>2, <4>2
        <3>4. CASE path # Null
            <4>1. path = l.value /\ path \in Values
                BY <3>4 DEF Quoted, Values
            <4>2. /\ config'.app = config.app /\ config'.vers = config.vers
                  /\ config'.plugins = Append(config.plugins, path)
                BY <3>1, <3>4 DEF Blocks, FileTypes
            <4>3. PICK k \in BlockLines(i) : lines[k].keys = {"plugins"}
                BY <2>1, <3>2
            <4>4. k \in BlockLines(i)' /\ lines'[k].keys = {"plugins"} /\ k < n
                <5>1. k \in 1 .. Len(lines) /\ Len(lines) \in Nat
                    BY <1>1 DEF BlockLines
                <5> QED BY <5>1, <4>3, <1>3, <1>1
            <4>5. n \in PluginLines(i)' /\ lines'[n].value = path
                BY <4>1, <4>4, <3>2, <3>4, <2>2, <1>3 DEF PluginLines, IsPluginLine
            <4>6. \A m \in DOMAIN config'.plugins :
                      \E j \in PluginLines(i)' : lines'[j].value = config'.plugins[m]
                <5> SUFFICES ASSUME NEW m \in DOMAIN config'.plugins
                             PROVE  \E j \in PluginLines(i)' : lines'[j].value = config'.plugins[m]
                    OBVIOUS
                <5>1. config.plugins \in Seq(Values)
                    BY DEF Blocks, FileTypes
                <5>2. \/ m \in DOMAIN config.plugins /\ config'.plugins[m] = config.plugins[m]
                      \/ config'.plugins[m] = path
                    BY <4>1, <4>2, <5>1
                <5> QED BY <5>2, <4>5, <2>3
            <4>7. Stands(config, i)'
                BY <4>2, <4>6, <2>3 DEF Stands
            <4> QED BY <2>2, <3>2, <4>7
        <3> QED BY <3>3, <3>4
    <2> QED BY <2>4, <2>5, <2>6, <2>7
<1>8. hasConfig' => \E i \in AppLines' :
          /\ Newest(i)' /\ Stands(config, i)'
          /\ inPlugins' => \E k \in BlockLines(i)' : lines'[k].keys = {"plugins"}
    BY <1>2, <1>7 DEF Stands
<1> QED BY <1>2, <1>5, <1>6, <1>8 DEF Blocks, Configured

\* An "- app:" line hands the block before it on and is the newest from here on.
LEMMA AppLineBlocks ==
    ASSUME Blocks, pc = "reading", NEW l \in scenario.lines, lines' = Append(lines, l),
           AppLine(l)
    PROVE  Blocks'
<1>1. lines \in Seq(scenario.lines) /\ scenario' = scenario
    BY DEF Blocks, FileTypes, AppLine
<1>2. /\ pc' = "loading" /\ pending' = l /\ l.app /\ Emit
      /\ UNCHANGED <<config, hasConfig, inPlugins, tried>>
    BY DEF AppLine
<1>3. lines' \in Seq(scenario.lines) /\ Len(lines') = Len(lines) + 1
    BY <1>1
<1>4. Newest(Len(lines))' /\ lines'[Len(lines')] = l
    <2>1. lines'[Len(lines')] = l /\ Len(lines') \in DOMAIN lines'
        BY <1>1, <1>3
    <2>2. \A k \in AppLines' : k <= Len(lines')
        BY <1>3 DEF AppLines
    <2> QED BY <1>2, <2>1, <2>2 DEF Newest, AppLines
<1>5. /\ queue' \in Seq(Values)
      /\ \A n \in DOMAIN queue' : Configured(queue'[n])
    BY <1>2, EmitBlocks
<1>6. \A p : Configured(p) => Configured(p)'
    BY <1>1, LineKeepsBlocks
<1>7. \A n \in DOMAIN queue' : Configured(queue[n])'
    <2> SUFFICES ASSUME NEW n \in DOMAIN queue' PROVE Configured(queue[n])'
        OBVIOUS
    <2>1. PICK p : p = queue'[n]
        OBVIOUS
    <2>2. Configured(p)
        BY <1>5, <2>1
    <2>3. Configured(p)'
        BY <1>6, <2>2
    <2> QED BY <2>1, <2>3 DEF Configured
<1>8. \A n \in DOMAIN tried' : Configured(tried[n])'
    <2> SUFFICES ASSUME NEW n \in DOMAIN tried PROVE Configured(tried[n])'
        BY <1>2
    <2>1. PICK p : p = tried[n]
        OBVIOUS
    <2>2. Configured(p)
        BY <2>1 DEF Blocks
    <2>3. Configured(p)'
        BY <1>6, <2>2
    <2> QED BY <1>2, <2>1, <2>3 DEF Configured
<1>9. FileTypes'
    BY <1>1, <1>2, <1>3, <1>5 DEF Blocks, FileTypes, Values
<1> QED BY <1>2, <1>4, <1>7, <1>8, <1>9 DEF Blocks

\* The block of the "- app:" line begins with nothing but its app id.
LEMMA NextBlockBlocks == Blocks /\ NextBlock => Blocks'
<1> SUFFICES ASSUME Blocks, NextBlock PROVE Blocks'
    OBVIOUS
<1>1. /\ pc = "loading" /\ pc' = "reading" /\ pending # Null
      /\ hasConfig' = TRUE /\ inPlugins' = FALSE
      /\ UNCHANGED <<queue, pending, scenario, tried, lines>>
    BY DEF NextBlock
<1>2. PICK app \in Quoted(pending.value) : config' = [NoConfig EXCEPT !.app = app]
    BY DEF NextBlock
<1>3. config' = [app |-> app, vers |-> <<>>, plugins |-> <<>>]
    BY <1>2 DEF NoConfig
<1> DEFINE i == Len(lines)
<1>4. Newest(i) /\ lines[i] = pending
    BY <1>1 DEF Blocks
<1>5. app \in {lines[i].value, Null}
    BY <1>4 DEF Quoted
<1>6. PICK j : j = i
    OBVIOUS
<1>7. j \in AppLines' /\ Newest(j)' /\ Stands(config, j)'
    BY <1>1, <1>3, <1>4, <1>5, <1>6 DEF Newest, AppLines, Stands
<1>8. FileTypes'
    BY <1>1, <1>3 DEF Blocks, FileTypes, Values
<1>9. /\ \A n \in DOMAIN queue' : Configured(queue[n])'
      /\ \A n \in DOMAIN tried' : Configured(tried[n])'
    BY <1>1, SameLinesSameBlocks, StaysConfigured DEF Blocks
<1> QED BY <1>1, <1>7, <1>8, <1>9 DEF Blocks

\* A plugin is taken from the queue.
LEMMA LoadBlocks == Blocks /\ LoadPlugin => Blocks'
<1> SUFFICES ASSUME Blocks, LoadPlugin PROVE Blocks'
    OBVIOUS
<1>1. /\ pc = "loading" /\ pc' \in {"loading", "plugin"} /\ queue # <<>>
      /\ tried' = Append(tried, Head(queue)) /\ queue' = Tail(queue)
      /\ UNCHANGED <<config, hasConfig, inPlugins, pending, scenario, lines>>
    BY DEF LoadPlugin
<1>2. queue \in Seq(Values) /\ tried \in Seq(Values)
    BY DEF Blocks, FileTypes
<1>3. /\ queue' \in Seq(Values) /\ tried' \in Seq(Values)
      /\ \A n \in DOMAIN queue' : n + 1 \in DOMAIN queue /\ queue'[n] = queue[n + 1]
      /\ \A n \in DOMAIN tried' :
            \/ n \in DOMAIN tried /\ tried'[n] = tried[n]
            \/ 1 \in DOMAIN queue /\ tried'[n] = queue[1]
    BY <1>1, <1>2
<1>4. \A p : Configured(p) => Configured(p)'
    BY <1>1 DEF Configured, AppLines, VersionLines, PluginLines, BlockLines
<1>5. ASSUME NEW n \in DOMAIN queue' PROVE Configured(queue[n])'
    <2>1. PICK p : p = queue'[n]
        OBVIOUS
    <2>2. Configured(p)
        BY <1>3, <2>1 DEF Blocks
    <2>3. Configured(p)'
        BY <1>4, <2>2
    <2> QED BY <2>1, <2>3 DEF Configured
<1>6. ASSUME NEW n \in DOMAIN tried' PROVE Configured(tried[n])'
    <2>1. PICK p : p = tried'[n]
        OBVIOUS
    <2>2. Configured(p)
        BY <1>3, <2>1 DEF Blocks
    <2>3. Configured(p)'
        BY <1>4, <2>2
    <2> QED BY <2>1, <2>3 DEF Configured
<1>7. FileTypes'
    BY <1>1, <1>3 DEF Blocks, FileTypes, Values
<1>8. pc' \in {"loading", "plugin"} /\ pending' # Null =>
          Newest(Len(lines))' /\ lines'[Len(lines')] = pending'
    BY <1>1 DEF Blocks, Newest, AppLines
<1> QED BY <1>1, <1>5, <1>6, <1>7, <1>8 DEF Blocks

\* Nothing that Blocks speaks of changes, but for the program's place.
LEMMA QuietBlocks ==
    ASSUME Blocks, UNCHANGED <<parser, pending, given, queue, tried, lines>>,
           pc' = "start" => pc = "start",
           pc' = "reading" => pc \in {"start", "reading"},
           pc' \in {"loading", "plugin"} => pc \in {"loading", "plugin"}
    PROVE  Blocks'
<1>1. FileTypes'
    BY DEF Blocks, FileTypes, Values
<1>2. /\ \A n \in DOMAIN queue' : Configured(queue[n])'
      /\ \A n \in DOMAIN tried' : Configured(tried[n])'
    BY SameLinesSameBlocks, StaysConfigured DEF Blocks
<1>3. hasConfig' /\ pc' = "reading" =>
          \E i \in AppLines' :
              /\ Newest(i)' /\ Stands(config, i)'
              /\ inPlugins' => \E k \in BlockLines(i)' : lines'[k].keys = {"plugins"}
    <2> SUFFICES ASSUME hasConfig, pc = "reading"
                 PROVE  \E i \in AppLines' :
                            /\ Newest(i)' /\ Stands(config, i)'
                            /\ inPlugins => \E k \in BlockLines(i)' : lines[k].keys = {"plugins"}
        BY DEF Blocks
    <2>1. PICK i \in AppLines :
              /\ Newest(i) /\ Stands(config, i)
              /\ inPlugins => \E k \in BlockLines(i) : lines[k].keys = {"plugins"}
        BY DEF Blocks
    <2>2. Newest(i)' /\ Stands(config, i)' /\ BlockLines(i)' = BlockLines(i)
        BY <2>1, SameLinesSameBlocks DEF Stands
    <2>3. i \in AppLines'
        BY DEF AppLines
    <2> QED BY <2>1, <2>2, <2>3
<1>4. pc' \in {"loading", "plugin"} /\ pending' # Null =>
          Newest(Len(lines))' /\ lines'[Len(lines')] = pending'
    BY DEF Blocks, Newest, AppLines
<1> QED BY <1>1, <1>2, <1>3, <1>4 DEF Blocks

\* The end of the file hands the last block on.
LEMMA EofBlocks == Blocks /\ Eof => Blocks'
<1> SUFFICES ASSUME Blocks, Eof PROVE Blocks'
    OBVIOUS
<1>1. /\ pc = "reading" /\ pc' = "loading" /\ pending' = Null /\ Emit
      /\ UNCHANGED <<config, hasConfig, inPlugins, scenario, tried, lines>>
    BY DEF Eof
<1>2. /\ queue' \in Seq(Values)
      /\ \A n \in DOMAIN queue' : Configured(queue'[n])
    BY <1>1, EmitBlocks
<1>3. \A p : Configured(p) => Configured(p)'
    BY <1>1, SameLinesSameBlocks
<1>5. ASSUME NEW n \in DOMAIN queue' PROVE Configured(queue[n])'
    <2>1. PICK p : p = queue'[n]
        OBVIOUS
    <2>2. Configured(p)'
        BY <1>2, <1>3, <2>1
    <2> QED BY <2>1, <2>2 DEF Configured
<1>6. ASSUME NEW n \in DOMAIN tried' PROVE Configured(tried[n])'
    <2>1. PICK p : p = tried[n]
        OBVIOUS
    <2>2. Configured(p)'
        BY <1>1, <1>3, <2>1 DEF Blocks
    <2> QED BY <1>1, <2>1, <2>2 DEF Configured
<1>4. FileTypes'
    BY <1>1, <1>2 DEF Blocks, FileTypes, Values
<1> QED BY <1>1, <1>4, <1>5, <1>6 DEF Blocks

LEMMA FinishBlocks == Blocks /\ Finish => Blocks'
<1> SUFFICES ASSUME Blocks, Finish PROVE Blocks'
    OBVIOUS
<1>1. /\ pc' = "done" /\ config' = NoConfig
      /\ UNCHANGED <<queue, pending, scenario, tried, lines>>
    BY DEF Finish
<1>2. FileTypes'
    BY <1>1 DEF Blocks, FileTypes, Values, NoConfig
<1>3. /\ \A n \in DOMAIN queue' : Configured(queue[n])'
      /\ \A n \in DOMAIN tried' : Configured(tried[n])'
    BY <1>1, SameLinesSameBlocks, StaysConfigured DEF Blocks
<1> QED BY <1>1, <1>2, <1>3 DEF Blocks

LEMMA NextBlocks == Blocks /\ [Next]_vars => Blocks'
<1> SUFFICES ASSUME Blocks, [Next]_vars PROVE Blocks'
    OBVIOUS
<1>1. CASE \E l \in scenario.lines : ProcessLine(l)
    <2>1. PICK l \in scenario.lines : ProcessLine(l)
        BY <1>1
    <2>2. pc = "reading" /\ lines' = Append(lines, l)
        BY <2>1 DEF ProcessLine
    <2>3. CASE AppLine(l)
        BY <2>2, <2>3, AppLineBlocks
    <2>4. CASE ~AppLine(l)
        <3>1. /\ VersionLine(l) \/ PluginsLine(l) \/ PluginLine(l) \/ OtherLine(l)
              /\ ~l.app
            BY <2>1, <2>4 DEF ProcessLine, VersionLine, PluginsLine, PluginLine, OtherLine,
                              IsPluginLine
        <3> QED BY <2>2, <3>1, LineBlocks
    <2> QED BY <2>3, <2>4
<1>2. CASE Eof
    BY <1>2, EofBlocks
<1>3. CASE NextBlock
    BY <1>3, NextBlockBlocks
<1>4. CASE Finish
    BY <1>4, FinishBlocks
<1>5. CASE LoadPlugin
    BY <1>5, LoadBlocks
<1>6. CASE Start
    BY <1>6, QuietBlocks DEF Start
<1>7. CASE \E a \in Argument : PluginAppends(a)
    BY <1>7, QuietBlocks DEF PluginAppends
<1>8. CASE AppendRefused
    BY <1>8, QuietBlocks DEF AppendRefused
<1>9. CASE PluginReturns
    BY <1>9, QuietBlocks DEF PluginReturns
<1>10. CASE UNCHANGED vars
    BY <1>10, QuietBlocks DEF vars
<1> QED BY <1>1, <1>2, <1>3, <1>4, <1>5, <1>6, <1>7, <1>8, <1>9, <1>10, Steps

\* A plugin is tried only if it is listed in a block that names the game and its
\* version, whichever strings could not be copied and whichever plugins failed.
THEOREM OnlyConfiguredIsTried == Spec => []TriedIsConfigured
<1>1. Blocks => TriedIsConfigured
    BY DEF Blocks, Configured, TriedIsConfigured
<1> QED BY <1>1, InitBlocks, NextBlocks, PTL DEF Spec
-----------------------------------------------------------------------------
(***************************************************************************)
(* Which plugins are tried when memory does not run out: those of every    *)
(* block that names the game, in the order of the file.  What has been     *)
(* handed on are the blocks before the newest one, and the block under     *)
(* construction is the newest one, as far as the file has been read.       *)
(***************************************************************************)
\* Lists, of any file f.
ListsOf(f, s, S) ==
    \E p \in [1 .. Len(s) -> S] :
        /\ \A j, k \in 1 .. Len(s) : j < k => p[j] < p[k]
        /\ \A i \in S : \E k \in 1 .. Len(s) : p[k] = i
        /\ \A k \in 1 .. Len(s) : s[k] = f[p[k]].value

\* The wanted plugins of the blocks but that of line i.
WantedBut(i) == UNION {PluginLines(k) : k \in {m \in AppLines \ {i} : NamesTheGame(m)}}

LastVersions(i) == {j \in VersionLines(i) : \A k \in VersionLines(i) : k <= j}

\* c is what the block of line i says.
Is(c, i) ==
    /\ c.app = lines[i].value
    /\ IF VersionLines(i) = {} THEN c.vers = <<>>
       ELSE \E j \in LastVersions(i) : c.vers = lines[j].vers
    /\ ListsOf(lines, c.plugins, PluginLines(i))

HasPluginsLine(i) == \E k \in BlockLines(i) : lines[k].keys = {"plugins"}

Whole ==
    /\ Blocks
    /\ pc = "start" => lines = <<>> /\ tried = <<>> /\ queue = <<>>
    /\ pc = "reading" /\ ~hasConfig => AppLines = {} /\ tried = <<>>
    /\ ~scenario.mallocMayFail =>
          /\ pc = "reading" /\ hasConfig => \E i \in AppLines :
                /\ Newest(i) /\ Is(config, i) /\ (inPlugins <=> HasPluginsLine(i))
                /\ ListsOf(lines, tried, WantedBut(i))
          /\ pc \in {"loading", "plugin"} => ListsOf(lines, tried \o queue, Wanted)
          /\ pc = "done" => ListsOf(lines, tried, Wanted)

\* Lists is ListsOf the file.
LEMMA ListsAreLists == \A s, S : Lists(s, S) <=> ListsOf(lines, s, S)
BY DEF Lists, ListsOf

\* A list of earlier lines and one of later lines make one.
LEMMA ListsJoin ==
    ASSUME NEW f, NEW s \in Seq(Values), NEW t \in Seq(Values),
           NEW S \in SUBSET Nat, NEW T \in SUBSET Nat,
           ListsOf(f, s, S), ListsOf(f, t, T), \A i \in S, j \in T : i < j
    PROVE  ListsOf(f, s \o t, S \cup T)
<1>1. PICK p \in [1 .. Len(s) -> S] :
          /\ \A j, k \in 1 .. Len(s) : j < k => p[j] < p[k]
          /\ \A i \in S : \E k \in 1 .. Len(s) : p[k] = i
          /\ \A k \in 1 .. Len(s) : s[k] = f[p[k]].value
    BY DEF ListsOf
<1>2. PICK q \in [1 .. Len(t) -> T] :
          /\ \A j, k \in 1 .. Len(t) : j < k => q[j] < q[k]
          /\ \A i \in T : \E k \in 1 .. Len(t) : q[k] = i
          /\ \A k \in 1 .. Len(t) : t[k] = f[q[k]].value
    BY DEF ListsOf
<1> DEFINE n == Len(s)
           m == Len(t)
           r == [k \in 1 .. n + m |-> IF k <= n THEN p[k] ELSE q[k - n]]
<1>3. n \in Nat /\ m \in Nat /\ Len(s \o t) = n + m
    OBVIOUS
<1>4. /\ \A k \in 1 .. n : k \in 1 .. n + m /\ k <= n /\ (s \o t)[k] = s[k]
      /\ \A k \in 1 .. n + m : ~(k <= n) => k - n \in 1 .. m /\ (s \o t)[k] = t[k - n]
      /\ \A k \in 1 .. n + m : k <= n => k \in 1 .. n
      /\ \A k \in 1 .. m : k + n \in 1 .. n + m /\ ~(k + n <= n) /\ (k + n) - n = k
    OBVIOUS
<1>5. \A k \in 1 .. n + m : /\ k <= n => r[k] = p[k] /\ r[k] \in S
                            /\ ~(k <= n) => r[k] = q[k - n] /\ r[k] \in T
    BY <1>4
<1>6. r \in [1 .. n + m -> S \cup T]
    BY <1>5
<1> HIDE DEF r
<1>7. \A j, k \in 1 .. n + m : j < k => r[j] < r[k]
    <2> SUFFICES ASSUME NEW j \in 1 .. n + m, NEW k \in 1 .. n + m, j < k PROVE r[j] < r[k]
        OBVIOUS
    <2>1. CASE k <= n
        <3>1. j <= n /\ j \in 1 .. n /\ k \in 1 .. n
            BY <1>3, <2>1
        <3> QED BY <3>1, <2>1, <1>1, <1>5
    <2>2. CASE ~(k <= n) /\ j <= n
        BY <2>2, <1>5
    <2>3. CASE ~(k <= n) /\ ~(j <= n)
        <3>1. j - n \in 1 .. m /\ k - n \in 1 .. m /\ j - n < k - n
            BY <1>3, <1>4, <2>3
        <3>2. r[j] = q[j - n] /\ r[k] = q[k - n]
            BY <2>3, <1>5
        <3>3. q[j - n] < q[k - n]
            BY <3>1, <1>2
        <3> QED BY <3>2, <3>3
    <2> QED BY <2>1, <2>2, <2>3
<1>8. \A i \in S \cup T : \E k \in 1 .. n + m : r[k] = i
    <2>1. ASSUME NEW i \in S PROVE \E k \in 1 .. n + m : r[k] = i
        <3>1. PICK k \in 1 .. n : p[k] = i
            BY <1>1
        <3> QED BY <3>1, <1>4, <1>5
    <2>2. ASSUME NEW i \in T PROVE \E k \in 1 .. n + m : r[k] = i
        <3>1. PICK k \in 1 .. m : q[k] = i
            BY <1>2
        <3>2. r[k + n] = q[k] /\ k + n \in 1 .. n + m
            BY <1>4, <1>5
        <3> QED BY <3>1, <3>2
    <2> QED BY <2>1, <2>2
<1>9. \A k \in 1 .. n + m : (s \o t)[k] = f[r[k]].value
    <2> SUFFICES ASSUME NEW k \in 1 .. n + m PROVE (s \o t)[k] = f[r[k]].value
        OBVIOUS
    <2>1. CASE k <= n
        BY <2>1, <1>1, <1>4, <1>5
    <2>2. CASE ~(k <= n)
        <3>1. k - n \in 1 .. m /\ (s \o t)[k] = t[k - n] /\ r[k] = q[k - n]
            BY <2>2, <1>4, <1>5
        <3>2. t[k - n] = f[q[k - n]].value
            BY <3>1, <1>2
        <3> QED BY <3>1, <3>2
    <2> QED BY <2>1, <2>2
<1>10. 1 .. Len(s \o t) = 1 .. n + m
    BY <1>3
<1>11. /\ r \in [1 .. Len(s \o t) -> S \cup T]
       /\ \A j, k \in 1 .. Len(s \o t) : j < k => r[j] < r[k]
       /\ \A i \in S \cup T : \E k \in 1 .. Len(s \o t) : r[k] = i
       /\ \A k \in 1 .. Len(s \o t) : (s \o t)[k] = f[r[k]].value
    BY <1>6, <1>7, <1>8, <1>9, <1>10
<1> QED BY <1>11 DEF ListsOf

\* The file going on changes nothing in a list of its lines.
LEMMA ListsKept ==
    ASSUME NEW f, NEW g, NEW s, NEW S, ListsOf(f, s, S), \A i \in S : g[i] = f[i]
    PROVE  ListsOf(g, s, S)
<1>1. PICK p \in [1 .. Len(s) -> S] :
          /\ \A j, k \in 1 .. Len(s) : j < k => p[j] < p[k]
          /\ \A i \in S : \E k \in 1 .. Len(s) : p[k] = i
          /\ \A k \in 1 .. Len(s) : s[k] = f[p[k]].value
    BY DEF ListsOf
<1>2. \A k \in 1 .. Len(s) : s[k] = g[p[k]].value
    BY <1>1
<1> QED BY <1>1, <1>2 DEF ListsOf

LEMMA NothingListed == \A f : ListsOf(f, <<>>, {})
<1> SUFFICES ASSUME NEW f PROVE ListsOf(f, <<>>, {})
    OBVIOUS
<1>1. 1 .. Len(<<>>) = {}
    OBVIOUS
<1>2. [k \in {} |-> k] \in [1 .. Len(<<>>) -> {}]
    BY <1>1
<1> QED BY <1>1, <1>2 DEF ListsOf

LEMMA OneListed ==
    ASSUME NEW f, NEW n \in Nat, f[n].value \in Values
    PROVE  ListsOf(f, <<f[n].value>>, {n})
<1>1. 1 .. Len(<<f[n].value>>) = {1}
    OBVIOUS
<1>2. [k \in {1} |-> n] \in [1 .. Len(<<f[n].value>>) -> {n}]
    BY <1>1
<1>3. <<f[n].value>>[1] = f[n].value
    OBVIOUS
<1>4. \A j, k \in {1} : ~(j < k)
    OBVIOUS
<1> HIDE DEF ListsOf
<1> QED BY <1>1, <1>2, <1>3, <1>4 DEF ListsOf

\* What stands in a block stands behind its line, before the next block's.
LEMMA PluginsInOrder ==
    ASSUME lines \in Seq(scenario.lines), NEW i, Newest(i)
    PROVE  /\ PluginLines(i) \in SUBSET Nat /\ WantedBut(i) \in SUBSET Nat
           /\ \A j \in WantedBut(i), k \in PluginLines(i) : j < k
           /\ Wanted = WantedBut(i) \cup (IF NamesTheGame(i) THEN PluginLines(i) ELSE {})
<1>1. i \in DOMAIN lines /\ i \in AppLines /\ DOMAIN lines \subseteq Nat
    BY DEF Newest, AppLines
<1>2. \A k \in AppLines : k \in Nat /\ k <= i
    BY <1>1 DEF Newest, AppLines
<1>3. \A k, j : j \in PluginLines(k) => j \in Nat /\ j > k /\ j \in BlockLines(k)
    BY <1>1 DEF PluginLines, BlockLines
<1>4. ASSUME NEW k \in AppLines \ {i}, NEW j \in PluginLines(k) PROVE j < i
    <2>1. k < i
        BY <1>1, <1>2
    <2>2. ~(k < i /\ i <= j)
        BY <1>1, <1>3, <1>4 DEF BlockLines
    <2> QED BY <1>1, <1>3, <2>1, <2>2
<1>5. \A j \in WantedBut(i) : j \in Nat /\ j < i
    BY <1>3, <1>4 DEF WantedBut
<1>6. \A j \in WantedBut(i), k \in PluginLines(i) : j < k
    BY <1>1, <1>3, <1>5
<1>7. Wanted = WantedBut(i) \cup (IF NamesTheGame(i) THEN PluginLines(i) ELSE {})
    BY <1>1 DEF Wanted, WantedBut
<1> QED BY <1>3, <1>5, <1>6, <1>7

\* The callback is asked about the block as it stands in the file.
LEMMA MatchesWhatItNames ==
    ASSUME lines \in Seq(scenario.lines), NEW i, Is(config, i)
    PROVE  Matches(config) <=> NamesTheGame(i)
<1>1. \A j \in VersionLines(i) : j \in Nat
    BY DEF VersionLines, BlockLines
<1>2. CASE VersionLines(i) = {}
    <2>1. config.vers = <<>> /\ DOMAIN config.vers = {}
        BY <1>2 DEF Is
    <2> QED BY <1>2, <2>1 DEF Matches, NamesTheGame
<1>3. CASE VersionLines(i) # {}
    <2>1. PICK j \in LastVersions(i) : config.vers = lines[j].vers
        BY <1>3 DEF Is
    <2>2. \A m \in LastVersions(i) : m = j
        BY <1>1 DEF LastVersions
    <2>3. NamesTheGame(i) <=> /\ lines[i].value \in MatchingApps
                              /\ ToSet(lines[j].vers) \cap MatchingVersions # {}
        BY <2>1, <2>2 DEF NamesTheGame, LastVersions
    <2> QED BY <2>1, <2>3 DEF Matches, Is, ToSet
<1> QED BY <1>2, <1>3

\* With the block handed on, all that is wanted so far has been.
LEMMA EmitWhole ==
    ASSUME Whole, pc = "reading", Emit, ~scenario.mallocMayFail
    PROVE  ListsOf(lines, tried \o queue', Wanted)
<1>1. lines \in Seq(scenario.lines) /\ tried \in Seq(Values) /\ config.plugins \in Seq(Values)
    BY DEF Whole, Blocks, FileTypes
<1>2. CASE ~hasConfig
    <2>1. tried = <<>> /\ AppLines = {} /\ queue' = <<>>
        BY <1>2 DEF Whole, Emit
    <2>2. Wanted = {} /\ tried \o queue' = <<>>
        BY <2>1 DEF Wanted
    <2> QED BY <2>2, NothingListed
<1>3. CASE hasConfig
    <2>1. PICK i \in AppLines : Newest(i) /\ Is(config, i) /\ ListsOf(lines, tried, WantedBut(i))
        BY <1>3 DEF Whole
    <2>2. CASE Matches(config)
        <3>1. queue' = config.plugins /\ ListsOf(lines, queue', PluginLines(i))
            BY <2>1, <2>2, <1>3 DEF Emit, Is
        <3>2. Wanted = WantedBut(i) \cup PluginLines(i)
            BY <1>1, <2>1, <2>2, MatchesWhatItNames, PluginsInOrder
        <3>3. /\ PluginLines(i) \in SUBSET Nat /\ WantedBut(i) \in SUBSET Nat
              /\ \A j \in WantedBut(i), k \in PluginLines(i) : j < k
            BY <1>1, <2>1, PluginsInOrder
        <3> QED BY <1>1, <2>1, <3>1, <3>2, <3>3, ListsJoin
    <2>3. CASE ~Matches(config)
        <3>1. queue' = <<>> /\ tried \o queue' = tried
            BY <1>1, <2>3 DEF Emit
        <3>2. Wanted = WantedBut(i)
            BY <1>1, <2>1, <2>3, MatchesWhatItNames, PluginsInOrder
        <3> QED BY <2>1, <3>1, <3>2
    <2> QED BY <2>2, <2>3
<1> QED BY <1>2, <1>3

\* A new line closes the blocks before the newest one, and all of them if it begins
\* a block of its own, which is empty.
LEMMA LineClosesBlocks ==
    ASSUME lines \in Seq(scenario.lines), NEW l \in scenario.lines, lines' = Append(lines, l),
           NEW i \in AppLines, l.app \/ ~Newest(i)
    PROVE  /\ BlockLines(i)' = BlockLines(i) /\ VersionLines(i)' = VersionLines(i)
           /\ PluginLines(i)' = PluginLines(i) /\ (NamesTheGame(i)' <=> NamesTheGame(i))
<1> DEFINE n == Len(lines) + 1
<1>1. /\ \A j \in DOMAIN lines : lines'[j] = lines[j] /\ j \in Nat /\ j < n
      /\ DOMAIN lines' = DOMAIN lines \cup {n} /\ n \notin DOMAIN lines /\ n \in Nat
      /\ lines'[n] = l
    OBVIOUS
<1>2. /\ AppLines \subseteq AppLines' /\ AppLines' \subseteq AppLines \cup {n}
      /\ AppLines \subseteq DOMAIN lines
      /\ (l.app => n \in AppLines')
    BY <1>1 DEF AppLines
<1>3. \E k \in AppLines' : i < k /\ k <= n
    <2>1. CASE l.app
        BY <2>1, <1>1, <1>2
    <2>2. CASE ~Newest(i)
        <3>1. PICK k \in AppLines : ~(k <= i)
            BY <2>2 DEF Newest
        <3> QED BY <3>1, <1>1, <1>2
    <2> QED BY <2>1, <2>2
<1>4. n \notin BlockLines(i)'
    BY <1>3 DEF BlockLines
<1>5. ASSUME NEW j \in DOMAIN lines
      PROVE  (\A k \in AppLines' : ~(i < k /\ k <= j)) <=> (\A k \in AppLines : ~(i < k /\ k <= j))
    BY <1>1, <1>2
<1>6. \A j : j \in BlockLines(i)' <=> j \in BlockLines(i)
    BY <1>1, <1>4, <1>5 DEF BlockLines
<1>7. BlockLines(i)' = BlockLines(i)
    BY <1>6
<1>8. \A j \in BlockLines(i) : lines'[j] = lines[j]
    BY <1>1 DEF BlockLines
<1>9. VersionLines(i)' = VersionLines(i) /\ PluginLines(i)' = PluginLines(i)
    <2>1. \A j : j \in VersionLines(i)' <=> j \in VersionLines(i)
        BY <1>7, <1>8 DEF VersionLines
    <2>2. \A j : (\E k \in BlockLines(i)' : k < j /\ lines'[k].keys = {"plugins"}) <=>
                 (\E k \in BlockLines(i) : k < j /\ lines[k].keys = {"plugins"})
        BY <1>7, <1>8
    <2>3. \A j : j \in PluginLines(i)' <=> j \in PluginLines(i)
        BY <2>2, <1>7, <1>8 DEF PluginLines, IsPluginLine
    <2> QED BY <2>1, <2>3
<1>10. /\ lines'[i] = lines[i]
       /\ \A j \in VersionLines(i) : lines'[j] = lines[j]
    BY <1>1, <1>2, <1>8 DEF VersionLines
<1> QED BY <1>7, <1>9, <1>10 DEF NamesTheGame

\* The newest block gets the line that follows.
LEMMA LineJoinsBlock ==
    ASSUME lines \in Seq(scenario.lines), NEW l \in scenario.lines, lines' = Append(lines, l),
           NEW i, Newest(i), ~l.app
    PROVE  /\ BlockLines(i)' = BlockLines(i) \cup {Len(lines) + 1}
           /\ VersionLines(i)' = VersionLines(i) \cup
                  (IF "app_ver" \in l.keys /\ l.vers # <<>> THEN {Len(lines) + 1} ELSE {})
           /\ PluginLines(i)' = PluginLines(i) \cup
                  (IF IsPluginLine(l) /\ l.value # Null /\ HasPluginsLine(i)
                   THEN {Len(lines) + 1} ELSE {})
           /\ HasPluginsLine(i)' <=> HasPluginsLine(i) \/ l.keys = {"plugins"}
<1> DEFINE n == Len(lines) + 1
<1>1. /\ \A j \in DOMAIN lines : lines'[j] = lines[j] /\ j \in Nat /\ j < n
      /\ DOMAIN lines' = DOMAIN lines \cup {n} /\ n \notin DOMAIN lines /\ n \in Nat
      /\ lines'[n] = l
    OBVIOUS
<1>2. AppLines' = AppLines /\ n \in BlockLines(i)'
    BY LineKeepsBlocks
<1>3. \A j : j \in BlockLines(i)' <=> j \in BlockLines(i) \/ j = n
    BY <1>1, <1>2 DEF BlockLines
<1>4. BlockLines(i)' = BlockLines(i) \cup {n}
    BY <1>3
<1>5. \A j \in BlockLines(i) : lines'[j] = lines[j] /\ j \in Nat /\ j < n /\ j # n
    BY <1>1 DEF BlockLines
<1>6. VersionLines(i)' = VersionLines(i) \cup
          (IF "app_ver" \in l.keys /\ l.vers # <<>> THEN {n} ELSE {})
    BY <1>1, <1>4, <1>5 DEF VersionLines
<1>7. (\E k \in BlockLines(i)' : k < n /\ lines'[k].keys = {"plugins"}) <=> HasPluginsLine(i)
    <2>1. HasPluginsLine(i) <=> \E k \in BlockLines(i) : lines[k].keys = {"plugins"}
        BY DEF HasPluginsLine
    <2>2. ~(n < n)
        BY <1>1
    <2> QED BY <2>1, <2>2, <1>4, <1>5
<1>8. ASSUME NEW j \in BlockLines(i)
      PROVE  (\E k \in BlockLines(i)' : k < j /\ lines'[k].keys = {"plugins"}) <=>
             (\E k \in BlockLines(i) : k < j /\ lines[k].keys = {"plugins"})
    <2>1. ~(n < j)
        BY <1>1, <1>5
    <2> QED BY <2>1, <1>4, <1>5
<1>9. ASSUME NEW j
      PROVE  j \in PluginLines(i)' <=>
                 \/ j \in PluginLines(i)
                 \/ IsPluginLine(l) /\ l.value # Null /\ HasPluginsLine(i) /\ j = n
    <2>1. CASE j = n
        BY <2>1, <1>1, <1>2, <1>5, <1>7 DEF PluginLines, IsPluginLine
    <2>2. CASE j # n
        BY <2>2, <1>3, <1>5, <1>8 DEF PluginLines, IsPluginLine
    <2> QED BY <2>1, <2>2
<1>10. PluginLines(i)' = PluginLines(i) \cup
          (IF IsPluginLine(l) /\ l.value # Null /\ HasPluginsLine(i) THEN {n} ELSE {})
    BY <1>9
<1>11. HasPluginsLine(i)' <=> HasPluginsLine(i) \/ l.keys = {"plugins"}
    <2>1. HasPluginsLine(i)' <=> \E k \in BlockLines(i)' : lines'[k].keys = {"plugins"}
        BY DEF HasPluginsLine
    <2>2. HasPluginsLine(i) <=> \E k \in BlockLines(i) : lines[k].keys = {"plugins"}
        BY DEF HasPluginsLine
    <2> QED BY <2>1, <2>2, <1>1, <1>4, <1>5
<1> QED BY <1>4, <1>6, <1>10, <1>11
LEMMA InitWhole == Init => Whole
<1>1. Init => Blocks
    BY InitBlocks
<1>2. Init => pc = "start" /\ lines = <<>> /\ tried = <<>> /\ queue = <<>>
    BY DEF Init
<1> QED BY <1>1, <1>2 DEF Whole

\* A line that is no "- app:" line.
LEMMA LineWhole ==
    ASSUME Whole, pc = "reading", NEW l \in scenario.lines, ~l.app,
           lines' = Append(lines, l),
           VersionLine(l) \/ PluginsLine(l) \/ PluginLine(l) \/ OtherLine(l)
    PROVE  Whole'
<1> DEFINE n == Len(lines) + 1
<1>1. lines \in Seq(scenario.lines) /\ Blocks'
    BY LineBlocks DEF Whole, Blocks, FileTypes
<1>2. UNCHANGED <<pc, hasConfig, queue, pending, scenario, tried>>
    BY DEF VersionLine, PluginsLine, PluginLine, OtherLine
<1>3. AppLines' = AppLines
    BY <1>1, LineKeepsBlocks
<1>4. /\ \A j \in DOMAIN lines : lines'[j] = lines[j] /\ j \in Nat /\ j < n
      /\ lines'[n] = l /\ n \in Nat
    BY <1>1
<1>5. ASSUME hasConfig, ~scenario.mallocMayFail
      PROVE  \E i \in AppLines' :
                 /\ Newest(i)' /\ Is(config, i)' /\ (inPlugins' <=> HasPluginsLine(i)')
                 /\ ListsOf(lines', tried', WantedBut(i)')
    <2>1. PICK i \in AppLines :
              /\ Newest(i) /\ Is(config, i) /\ (inPlugins <=> HasPluginsLine(i))
              /\ ListsOf(lines, tried, WantedBut(i))
        BY <1>5 DEF Whole
    <2>2. Newest(i)'
        BY <1>3, <2>1 DEF Newest
    <2>3. WantedBut(i)' = WantedBut(i)
        <3>1. \A k \in AppLines \ {i} : ~Newest(k)
            BY <1>4, <2>1 DEF Newest, AppLines
        <3>2. \A k \in AppLines \ {i} : /\ PluginLines(k)' = PluginLines(k)
                                        /\ NamesTheGame(k)' <=> NamesTheGame(k)
            BY <1>1, <3>1, LineClosesBlocks
        <3> QED BY <1>3, <3>2 DEF WantedBut
    <2>4. ListsOf(lines', tried', WantedBut(i)')
        <3>1. \A j \in WantedBut(i) : lines'[j] = lines[j]
            BY <1>4 DEF WantedBut, PluginLines, BlockLines
        <3> QED BY <1>2, <2>1, <2>3, <3>1, ListsKept
    <2>5. /\ VersionLines(i)' = VersionLines(i) \cup
                 (IF "app_ver" \in l.keys /\ l.vers # <<>> THEN {n} ELSE {})
          /\ PluginLines(i)' = PluginLines(i) \cup
                 (IF IsPluginLine(l) /\ l.value # Null /\ HasPluginsLine(i) THEN {n} ELSE {})
          /\ HasPluginsLine(i)' <=> HasPluginsLine(i) \/ l.keys = {"plugins"}
        BY <1>1, <2>1, LineJoinsBlock
    <2>6. l.keys \subseteq {"app_ver", "plugins"}
        BY DEF Whole, Blocks, FileTypes
    <2>7. inPlugins' <=> HasPluginsLine(i)'
        <3>1. CASE PluginsLine(l)
            BY <3>1, <2>5, <2>6 DEF PluginsLine
        <3>2. CASE VersionLine(l) \/ PluginLine(l)
            BY <3>2, <2>1, <2>5 DEF VersionLine, PluginLine, IsPluginLine
        <3>3. CASE OtherLine(l)
            BY <3>3, <1>5, <2>1, <2>5 DEF OtherLine
        <3> QED BY <3>1, <3>2, <3>3
    <2>8. /\ \A j \in VersionLines(i) : lines'[j] = lines[j] /\ j \in Nat /\ j < n
          /\ \A j \in PluginLines(i) : lines'[j] = lines[j] /\ j \in Nat /\ j < n
          /\ lines'[i] = lines[i] /\ PluginLines(i) \in SUBSET Nat
        BY <1>4 DEF VersionLines, PluginLines, BlockLines, AppLines
    <2>9. ListsOf(lines', config.plugins, PluginLines(i))
        BY <2>1, <2>8, ListsKept DEF Is
    <2>10. config.app = lines'[i].value
        BY <2>1, <2>8 DEF Is
    <2>11. ASSUME VersionLines(i)' = VersionLines(i), config'.vers = config.vers
           PROVE  IF VersionLines(i)' = {} THEN config'.vers = <<>>
                  ELSE \E j \in LastVersions(i)' : config'.vers = lines'[j].vers
        <3>1. LastVersions(i)' = LastVersions(i)
            BY <2>11 DEF LastVersions
        <3>2. \A j \in LastVersions(i) : lines'[j] = lines[j]
            BY <2>8 DEF LastVersions
        <3> QED BY <2>1, <2>11, <3>1, <3>2 DEF Is
    <2>12. Is(config, i)'
        <3>1. CASE VersionLine(l)
            <4>1. config' = IF l.vers = <<>> THEN config ELSE [config EXCEPT !.vers = l.vers]
                BY <3>1, <1>5 DEF VersionLine, Survivors
            <4>2. /\ config'.app = config.app /\ config'.plugins = config.plugins
                  /\ config'.vers = IF l.vers = <<>> THEN config.vers ELSE l.vers
                BY <4>1 DEF Whole, Blocks, FileTypes
            <4>3. PluginLines(i)' = PluginLines(i)
                BY <3>1, <2>5 DEF VersionLine, IsPluginLine
            <4>4. CASE l.vers = <<>>
                BY <4>2, <4>3, <4>4, <2>5, <2>9, <2>10, <2>11 DEF Is
            <4>5. CASE l.vers # <<>>
                <5>1. VersionLines(i)' = VersionLines(i) \cup {n}
                    BY <3>1, <4>5, <2>5 DEF VersionLine
                <5>2. n \in LastVersions(i)'
                    BY <5>1, <2>8, <1>4 DEF LastVersions
                <5>3. config'.vers = lines'[n].vers /\ VersionLines(i)' # {}
                    BY <4>2, <4>5, <5>1, <1>4
                <5> QED BY <5>2, <5>3, <4>2, <4>3, <2>9, <2>10 DEF Is
            <4> QED BY <4>4, <4>5
        <3>2. CASE PluginsLine(l) \/ OtherLine(l)
            <4>1. config' = config
                BY <3>2 DEF PluginsLine, OtherLine
            <4>2. PluginLines(i)' = PluginLines(i) /\ VersionLines(i)' = VersionLines(i)
                BY <3>2, <1>5, <2>1, <2>5 DEF PluginsLine, OtherLine, IsPluginLine
            <4> QED BY <4>1, <4>2, <2>9, <2>10, <2>11 DEF Is
        <3>3. CASE PluginLine(l)
            <4>1. config' = IF l.value = Null THEN config
                            ELSE [config EXCEPT !.plugins = Append(config.plugins, l.value)]
                BY <3>3, <1>5 DEF PluginLine, Quoted
            <4>2. /\ config'.app = config.app /\ config'.vers = config.vers
                  /\ config'.plugins = IF l.value = Null THEN config.plugins
                                       ELSE Append(config.plugins, l.value)
                BY <4>1 DEF Whole, Blocks, FileTypes
            <4>3. VersionLines(i)' = VersionLines(i)
                BY <3>3, <2>5 DEF PluginLine, IsPluginLine
            <4>4. CASE l.value = Null
                <5>1. PluginLines(i)' = PluginLines(i)
                    BY <4>4, <2>5
                <5> QED BY <4>2, <4>3, <4>4, <5>1, <2>9, <2>10, <2>11 DEF Is
            <4>5. CASE l.value # Null
                <5>1. PluginLines(i)' = PluginLines(i) \cup {n}
                    BY <3>3, <4>5, <2>1, <2>5 DEF PluginLine
                <5>2. config.plugins \in Seq(Values) /\ l.value \in Values
                    BY DEF Whole, Blocks, FileTypes, Values
                <5>3. ListsOf(lines', <<l.value>>, {n})
                    BY <5>2, <1>4, OneListed
                <5>4. config'.plugins = config.plugins \o <<l.value>>
                    BY <4>2, <4>5, <5>2
                <5>5. <<l.value>> \in Seq(Values) /\ {n} \in SUBSET Nat
                    BY <5>2, <1>4
                <5>6. \A a \in PluginLines(i), b \in {n} : a < b
                    BY <2>8
                <5>7. ListsOf(lines', config.plugins \o <<l.value>>, PluginLines(i) \cup {n})
                    BY <2>8, <2>9, <5>2, <5>3, <5>5, <5>6, ListsJoin
                <5>8. ListsOf(lines', config'.plugins, PluginLines(i)')
                    BY <5>1, <5>4, <5>7
                <5> QED BY <4>2, <4>3, <5>8, <2>10, <2>11 DEF Is
            <4> QED BY <4>4, <4>5
        <3> QED BY <3>1, <3>2, <3>3
    <2> QED BY <1>3, <2>2, <2>4, <2>7, <2>12
<1>6. pc' = "reading" /\ ~hasConfig' => AppLines' = {} /\ tried' = <<>>
    BY <1>2, <1>3 DEF Whole
<1> QED BY <1>1, <1>2, <1>5, <1>6 DEF Whole

\* An "- app:" line begins an empty block.
LEMMA AppLineWhole ==
    ASSUME Whole, pc = "reading", NEW l \in scenario.lines, lines' = Append(lines, l),
           AppLine(l)
    PROVE  Whole'
<1> DEFINE n == Len(lines) + 1
<1>1. lines \in Seq(scenario.lines) /\ Blocks'
    BY AppLineBlocks DEF Whole, Blocks, FileTypes
<1>2. /\ pc' = "loading" /\ l.app /\ Emit
      /\ UNCHANGED <<config, hasConfig, scenario, tried>>
    BY DEF AppLine
<1>3. /\ \A j \in DOMAIN lines : lines'[j] = lines[j] /\ j \in Nat /\ j < n
      /\ DOMAIN lines' = DOMAIN lines \cup {n} /\ lines'[n] = l
    BY <1>1
<1>4. AppLines' = AppLines \cup {n}
    BY <1>2, <1>3 DEF AppLines
<1>5. \A k : k = n => PluginLines(k)' = {}
    <2>1. \A k : k = n => BlockLines(k)' = {}
        BY <1>1, <1>3 DEF BlockLines
    <2> QED BY <2>1 DEF PluginLines
<1>6. \A k \in AppLines : PluginLines(k)' = PluginLines(k) /\ (NamesTheGame(k)' <=> NamesTheGame(k))
    BY <1>1, <1>2, LineClosesBlocks
<1>7. Wanted' = Wanted
    <2>1. \A j : j \in Wanted' <=> \E k \in AppLines' : NamesTheGame(k)' /\ j \in PluginLines(k)'
        BY DEF Wanted
    <2>2. \A j : j \in Wanted <=> \E k \in AppLines : NamesTheGame(k) /\ j \in PluginLines(k)
        BY DEF Wanted
    <2>3. ASSUME NEW j \in Wanted' PROVE j \in Wanted
        <3>1. PICK k \in AppLines' : NamesTheGame(k)' /\ j \in PluginLines(k)'
            BY <2>1
        <3>2. k \in AppLines
            BY <3>1, <1>4, <1>5
        <3> QED BY <3>1, <3>2, <2>2, <1>6
    <2>4. ASSUME NEW j \in Wanted PROVE j \in Wanted'
        <3>1. PICK k \in AppLines : NamesTheGame(k) /\ j \in PluginLines(k)
            BY <2>2
        <3> QED BY <3>1, <2>1, <1>4, <1>6
    <2> QED BY <2>3, <2>4
<1>8. \A j \in Wanted : lines'[j] = lines[j]
    BY <1>3 DEF Wanted, PluginLines, BlockLines
<1>9. ~scenario.mallocMayFail => ListsOf(lines', tried' \o queue', Wanted')
    BY <1>2, <1>7, <1>8, EmitWhole, ListsKept
<1> QED BY <1>1, <1>2, <1>9 DEF Whole

\* The block that begins is the newest line's, and nothing stands in it yet.
LEMMA NextBlockWhole == Whole /\ NextBlock => Whole'
<1> SUFFICES ASSUME Whole, NextBlock PROVE Whole'
    OBVIOUS
<1>1. /\ pc = "loading" /\ pc' = "reading" /\ pending # Null /\ queue = <<>>
      /\ hasConfig' = TRUE /\ inPlugins' = FALSE
      /\ UNCHANGED <<queue, pending, scenario, tried, lines>>
    BY DEF NextBlock
<1>2. Blocks' /\ lines \in Seq(scenario.lines) /\ tried \in Seq(Values)
    BY NextBlockBlocks DEF Whole, Blocks, FileTypes
<1>3. PICK i : i = Len(lines)
    OBVIOUS
<1>4. Newest(i) /\ lines[i] = pending
    BY <1>1, <1>3 DEF Whole, Blocks
<1>5. BlockLines(i) = {} /\ VersionLines(i) = {} /\ PluginLines(i) = {} /\ ~HasPluginsLine(i)
    <2>1. BlockLines(i) = {}
        BY <1>2, <1>3 DEF BlockLines
    <2> QED BY <2>1 DEF VersionLines, PluginLines, HasPluginsLine
<1>6. Wanted = WantedBut(i)
    BY <1>2, <1>4, <1>5, PluginsInOrder
<1>7. ASSUME ~scenario.mallocMayFail
      PROVE  /\ i \in AppLines' /\ Newest(i)' /\ Is(config, i)'
             /\ inPlugins' <=> HasPluginsLine(i)'
             /\ ListsOf(lines', tried', WantedBut(i)')
    <2>1. config' = [app |-> pending.value, vers |-> <<>>, plugins |-> <<>>]
        BY <1>7 DEF NextBlock, Quoted, NoConfig
    <2>2. /\ AppLines' = AppLines /\ BlockLines(i)' = BlockLines(i)
          /\ VersionLines(i)' = VersionLines(i) /\ PluginLines(i)' = PluginLines(i)
        BY <1>1 DEF AppLines, BlockLines, VersionLines, PluginLines, IsPluginLine
    <2>3. Newest(i)' /\ i \in AppLines'
        BY <1>4, <2>2 DEF Newest
    <2>4. Is(config, i)'
        BY <1>1, <1>4, <1>5, <2>1, <2>2, NothingListed DEF Is
    <2>5. WantedBut(i)' = WantedBut(i)
        BY <1>1 DEF WantedBut, AppLines, NamesTheGame, BlockLines, VersionLines,
                    PluginLines, IsPluginLine
    <2>6. tried \o queue = tried
        BY <1>1, <1>2
    <2>7. ListsOf(lines', tried', WantedBut(i)')
        BY <1>1, <1>6, <1>7, <2>5, <2>6 DEF Whole
    <2>8. HasPluginsLine(i)' <=> HasPluginsLine(i)
        BY <1>1, <2>2 DEF HasPluginsLine
    <2> QED BY <1>1, <1>5, <2>3, <2>4, <2>7, <2>8
<1> QED BY <1>1, <1>2, <1>7 DEF Whole

\* A plugin goes from the front of the queue to the end of what has been tried.
LEMMA LoadWhole == Whole /\ LoadPlugin => Whole'
<1> SUFFICES ASSUME Whole, LoadPlugin PROVE Whole'
    OBVIOUS
<1>1. /\ pc = "loading" /\ pc' \in {"loading", "plugin"} /\ queue # <<>>
      /\ tried' = Append(tried, Head(queue)) /\ queue' = Tail(queue)
      /\ UNCHANGED <<scenario, lines>>
    BY DEF LoadPlugin
<1>2. Blocks' /\ queue \in Seq(Values) /\ tried \in Seq(Values)
    BY LoadBlocks DEF Whole, Blocks, FileTypes
<1>3. tried' \o queue' = tried \o queue
    BY <1>1, <1>2
<1>4. Wanted' = Wanted
    BY <1>1 DEF Wanted, AppLines, NamesTheGame, BlockLines, VersionLines, PluginLines,
                IsPluginLine
<1> QED BY <1>1, <1>2, <1>3, <1>4 DEF Whole

\* Nothing that Whole speaks of changes, but for the program's place.
LEMMA QuietWhole ==
    ASSUME Whole, UNCHANGED <<parser, pending, given, queue, tried, lines>>,
           \/ pc' = pc
           \/ pc = "start" /\ pc' \in {"reading", "done"}
           \/ pc = "plugin" /\ pc' = "loading"
    PROVE  Whole'
<1>1. Blocks'
    BY QuietBlocks DEF Whole
<1>2. \A i : /\ (Newest(i)' <=> Newest(i)) /\ (Is(config, i)' <=> Is(config, i))
             /\ (HasPluginsLine(i)' <=> HasPluginsLine(i)) /\ WantedBut(i)' = WantedBut(i)
    BY DEF Newest, Is, LastVersions, HasPluginsLine, WantedBut, AppLines, NamesTheGame,
           BlockLines, VersionLines, PluginLines, IsPluginLine
<1>3. AppLines' = AppLines /\ Wanted' = Wanted
    BY DEF Wanted, AppLines, NamesTheGame, BlockLines, VersionLines, PluginLines, IsPluginLine
<1>4. pc = "start" => AppLines = {} /\ Wanted = {} /\ tried = <<>> /\ ~hasConfig
    BY DEF Whole, Blocks, AppLines, Wanted
<1>5. pc = "start" => ListsOf(lines, tried, Wanted)
    BY <1>4, NothingListed
<1> QED BY <1>1, <1>2, <1>3, <1>4, <1>5 DEF Whole

LEMMA NextWhole == Whole /\ [Next]_vars => Whole'
<1> SUFFICES ASSUME Whole, [Next]_vars PROVE Whole'
    OBVIOUS
<1>1. CASE \E l \in scenario.lines : ProcessLine(l)
    <2>1. PICK l \in scenario.lines : ProcessLine(l)
        BY <1>1
    <2>2. pc = "reading" /\ lines' = Append(lines, l)
        BY <2>1 DEF ProcessLine
    <2>3. CASE AppLine(l)
        BY <2>2, <2>3, AppLineWhole
    <2>4. CASE ~AppLine(l)
        <3>1. /\ VersionLine(l) \/ PluginsLine(l) \/ PluginLine(l) \/ OtherLine(l)
              /\ ~l.app
            BY <2>1, <2>4 DEF ProcessLine, VersionLine, PluginsLine, PluginLine, OtherLine,
                              IsPluginLine
        <3> QED BY <2>2, <3>1, LineWhole
    <2> QED BY <2>3, <2>4
<1>2. CASE Eof
    <2>1. /\ pc = "reading" /\ pc' = "loading" /\ Emit
          /\ UNCHANGED <<scenario, tried, lines>>
        BY <1>2 DEF Eof
    <2>2. Wanted' = Wanted
        BY <2>1 DEF Wanted, AppLines, NamesTheGame, BlockLines, VersionLines, PluginLines,
                    IsPluginLine
    <2>3. Blocks'
        BY <1>2, EofBlocks DEF Whole
    <2>4. ~scenario.mallocMayFail => ListsOf(lines', tried' \o queue', Wanted')
        BY <2>1, <2>2, EmitWhole
    <2> QED BY <2>1, <2>3, <2>4 DEF Whole
<1>3. CASE NextBlock
    BY <1>3, NextBlockWhole
<1>4. CASE Finish
    <2>1. /\ pc = "loading" /\ pc' = "done" /\ queue = <<>>
          /\ UNCHANGED <<scenario, tried, lines>>
        BY <1>4 DEF Finish
    <2>2. Blocks' /\ tried \in Seq(Values)
        BY <1>4, FinishBlocks DEF Whole, Blocks, FileTypes
    <2>3. tried \o queue = tried
        BY <2>1, <2>2
    <2>4. Wanted' = Wanted
        BY <2>1 DEF Wanted, AppLines, NamesTheGame, BlockLines, VersionLines, PluginLines,
                    IsPluginLine
    <2> QED BY <2>1, <2>2, <2>3, <2>4 DEF Whole
<1>5. CASE LoadPlugin
    BY <1>5, LoadWhole
<1>6. CASE Start
    BY <1>6, QuietWhole DEF Start
<1>7. CASE \E a \in Argument : PluginAppends(a)
    BY <1>7, QuietWhole DEF PluginAppends
<1>8. CASE AppendRefused
    BY <1>8, QuietWhole DEF AppendRefused
<1>9. CASE PluginReturns
    BY <1>9, QuietWhole DEF PluginReturns
<1>10. CASE UNCHANGED vars
    BY <1>10, QuietWhole DEF vars
<1> QED BY <1>1, <1>2, <1>3, <1>4, <1>5, <1>6, <1>7, <1>8, <1>9, <1>10, Steps

\* With memory enough, the plugins tried are those of every block that names the game
\* and its version, each exactly once for each time it is listed and in file order,
\* whichever plugins before it fail.
THEOREM ConfiguredIsAlwaysLoaded == Spec => []LoadedAsConfigured
<1>1. Whole => LoadedAsConfigured
    BY ListsAreLists DEF Whole, LoadedAsConfigured
<1> QED BY <1>1, InitWhole, NextWhole, PTL DEF Spec
=============================================================================

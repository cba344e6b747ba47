# Verification of the PS3 game patch and plugin loader

TLA+ models, TLC runs and TLAPS proofs for the usermode plugins in `src/`:
`game_patch_vsh_data` (in the VSH), `game_plugin_bootloader` and `game_patch`
(in the starting game), and the parser and settings code that `game_patch`
shares with the application in which the user manages the patches.

## 1. The system

### Who runs what

```
 VSH: game_patch_vsh_data            game: game_plugin_bootloader
   run_patch  deletes old files,       copy_main_args, reads game_plugins.yml,
              installs the hook        loads the plugins, append_arg
   hook       writes GAME_INFO_PATH          |
              and a CHECK_BYTE file          v
   notify_thread  shows and deletes    game: game_patch (one of the plugins)
              the message file           load_game_info, run_patch: parses
        ^                                the title's .yml line by line,
        |   GAME_PATCH_NOTIFY_MSG_FILE   reads the settings file, writes memory
        +------------------------------- and the message file
                                              ^
 application: parse modes METADATA and ALL,   |
   toggle_patch_state  -----> settings file --+
```

The plugins share no memory with the VSH or the application. They meet in files:

| file | written by | read by |
|---|---|---|
| game info (title id, version) | hook in the VSH, once a launch | game, at start |
| notify message | created by the hook, overwritten or deleted by the game | `notify_thread`, which deletes it |
| patch file `.yml` | outside | application and game, same parser, different modes |
| settings file (hash -> on/off) | application | application and game |
| plugin file `game_plugins.yml` | outside | bootloader |

### Components, their state, operations and what makes them correct

**Patch file parser** (`game_patch/patch.c`, `my_string.h`). State: `ParseContext`
(patch under construction, section flag, patch number, mode-dependent arrays).
Operations: `process_line`, `handle_patch_complete`,
`process_patch_metadata_for_app_ver`, `calculate_patch_hash`. Correct if every
version of every patch gets its own number and all modes compute the same hash for
it.

**run_patch in the game** (low-memory mode). State beyond the context:
`processing_enabled_patch`, `current_meta`, the count of matches. Operations:
open, one line, end of file, message. Correct if only switched-on patches for this
game and binary are applied, every such patch is, and the message file agrees.

**Settings file** (`toggle_patch_state`, `read_patch_state` and the readers and
writer under them). State: the file; during a call, the array in memory. Correct
if it is a map from hashes to switches that loses nothing without a fault, never
mixes switches up with one, and tells game and application the same.

**Hand-over between VSH and game** (`game_patch_vsh_data/prx.cpp`,
`GamePatchInfo.cpp`, the end of `run_patch`). State: two files, four program
counters (start-up, hook, game, poller). Correct if a game learns its own
identity and each message of a game is shown, once.

**Line reader** (`fileReadLine` and its callers' loop). State: file position,
cursor, three byte counts. Correct if the lines are those of the file, and the
loop ends.

**Plugin bootloader** (`game_plugin_bootloader/prx.cpp`, `plugins.c`). State:
current block, program arguments. Correct if exactly the plugins of matching
blocks are loaded in order whatever fails, and the argument list stays ordered,
terminated and inside its 32 slots.

**Patch entries** (`parse_patch_entry`, `apply_patch`, `write_patch`, `append_arg`,
`strtoul`). State: the game's memory and arguments. Correct if an entry puts the
listed value, in the width of its type, at the listed address and nowhere else, or
adds the listed arguments up to the limit, and does either as a whole or not at all.

**String scanners** (`my_string.h`: `trim`, `parse_quoted_string`, `unescape_string`,
`parse_string_list`). No state. Correct if what an author writes between quotes
comes out as what it stands for, quotes, commas, brackets and backslashes included.

**Heap ownership** (`ParseContext` and everything that hangs on it, in three parse
modes, up to `free_parse_context_data`). State: which object each pointer leads to,
and the capacities of the growing arrays. Correct if every object has one owner
whatever allocation failed, and nothing is lost or overrun without a reason.

**Pattern scan and call hook** (`PatternScan`, `patch_call_`, `load_plugin_main`).
State: the VSH's bytes, the stub behind the hook, the place of the scan; the
threads of the VSH execute the patched words meanwhile. Correct if the call that is
patched is the first one the signature fits, and every caller gets to the function
it wanted at every step of the patch.

**Process memory access** (`ReadProcessMemory`, `WriteProcessMemory`). State: one
switch each between the debugger's and PS3MAPI's system calls, that is never turned
back. Correct if an access that succeeds did what it says.

**Detours** (`Detour`, `ImportExportDetour`). State: the code of the hooked functions,
the shared trampoline buffer, the fields of each object. Correct if a call of a
function reaches the latest callback that stands and each callback its original, in
any order of hooking and taking down. It is library code: no plugin makes a detour.

**System call wrappers**, **stdio subset**, **build and test programs**: see section 7.

### What is hard here

- *Interleaving*: two VSH threads, the hook and the game use one message file
  without a lock; the sleeps between them order nothing (`Notify`). The VSH calls
  through the words that `patch_call_` writes (`VshHook`), and the program through
  those that `Hook` writes (`Detour`).
- *Crash and partial failure*: the settings file is truncated and rewritten in
  place; reads that fail look like an empty file; `fclose` is not looked at
  (`PatchState`). Mallocs and reallocs fail (`LowMemRun`, `Bootloader`, `ParseHeap`),
  and the strings of an entry move up into the places of those lost (`PatchEntry`).
  Writes to code fail between two steps of a hook (`VshHook`, `Detour`).
- *One text read as another*: an entry that contains a key is read as a field, the
  strings of an entry move up into the places of those that are lost (`LowMemRun`,
  `PatchEntry`).
- *State that outlives its purpose*: flag and metadata of one patch gate the next
  one's entries (`LowMemRun`); fields and entries of a patch without a title go over to
  the next one (`ModesAgree`); a block's versions could reach the next block
  (`Bootloader`); files of an earlier VSH run and bytes of an older message
  (`Notify`); a system call that failed once is given up for good (`ProcessMemory`).
- *Two computations that must agree*: a hash computed at the `patches:` line in
  the game and at the end of the patch in the application (`ModesAgree`); two
  readers of one file, only one of which checks what it got (`PatchState`).
- *Order of legal calls*: detours of one function taken down in another order than
  they were made (`Detour`); a title line behind the entries of its patch
  (`ParseHeap`).
- *Numbers*: 64 bits narrowed to addresses and values of other widths, in memory
  order (`PatchEntry`); branch offsets of 24 and 14 bits (`VshHook`, `Detour`).
- *Limits*: buffer and line length (`LineReader`), argument slots
  (`Bootloader`), numbers with a stride of 100 (`PatchContext`), the chunks of the
  scan (`VshHook`), the trampoline buffer (`Detour`).
- *Termination*: the reading loop (`LineReader`), the poller (`Notify`), a call
  through the hook (`VshHook`).

`PROJECT.json` lists each hazard at its line, with the properties that would
catch it.

## 2. Modules

| module | models |
|---|---|
| `PatchContext` | operators on the shared part of `ParseContext`: which arm of `process_line` a line takes, its effect, metadata, hash |
| `LowMemRun` (`MCLowMemRun`) | `run_patch` of `game_patch` as a state machine over lines; EXTENDS `PatchContext` |
| `PatchEntry` (`MCPatchEntry`) | one entry of a switched-on patch, from its text to memory and arguments |
| `ModesAgree` (`MCModesAgree`) | the three parse modes on one file; EXTENDS `PatchContext` |
| `ParseHeap` (`MCParseHeap`) | who owns what the three parse modes allocate, to the end of `free_parse_context_data` |
| `Subsequences` | what is left of a list when strings cannot be copied; for `LowMemRun` and `Bootloader` |
| `EnabledMap` | abstract: a map from hashes to `absent`/`on`/`off` that a call changes at one place, or that loses entries if `Lossy` |
| `PatchState` (`MCPatchState`) | settings file and toggle; implements `EnabledMap` by `INSTANCE ... WITH map <- Settings` |
| `Notify` | VSH threads, hook and game around two files |
| `LineReader` | `fileReadLine` and the loop around it, byte by byte |
| `StringScanners` | the scanners of `my_string.h` as operators on bytes |
| `ScannedLines` (`MCScannedLines`) | composes the two: from the bytes of a file to the strings of its lines |
| `Bootloader` (`MCBootloader`) | plugin file, loading, arguments |
| `ProcessMemory` | the kind of console, the outcomes of one access to process memory, and the switch |
| `VshHook` (`MCVshHook`) | `PatternScan` and `patch_call_` in the running VSH; EXTENDS `ProcessMemory` |
| `Detour` (`MCDetour`) | `Hook` step by step, `UnHook`, destructors, lookup by fnid; EXTENDS `ProcessMemory` |
| `*_proofs` | the theorems of section 5 |

How state and actions correspond to the code is in each module's header and in the
comment on each variable and action; `PROJECT.json` maps every definition to
lines. Conventions used everywhere:

- A *line* of a text file is a record of what the parser can tell of it: which key
  texts `strstr` finds in it, the quoted value or `Null`, the list of versions.
  Hence a key that occurs inside an entry, an unquoted value, or a list that is
  empty are ordinary inputs. `ScannedLines` says what the scanners make of the bytes
  of a line.
- A *hash* is the sequence of what FNV is fed with: two hashes are equal exactly
  when number and concatenated strings are; collisions of 32 bits are left out.
- *History variables* say what happened (`applied`, `missed`, `shown`, ...); no
  action reads one except to update history, apart from the bounds on file lines
  and appended arguments, which count with them.
- Operators headed *Mutant* are plausible bugs of the definition that follows
  them. No specification uses them; each is put in place of the original to see
  that the named property notices.

Details of the models that matter for reading the results:

- `LowMemRun`: one action per arm of `process_line`. `PatchesLine` is the whole
  loop over the versions, with both callbacks' effects. Strings handed to
  `strstr` unchecked or stored through a NULL array end in `faulted`. A line loses to
  malloc any of its strings (`Received`), and an entry that loses too many is dropped.
  `KeyArm` notes that an arm which looks for a key anywhere in the line took an entry.
  The settings file is read without failures here; `PatchState` has those.
  `create_parse_context` that runs out of memory leaves NULL arrays and
  `run_patch` goes on, as in the code.
- `PatchEntry`: one action per outcome of an entry line: dropped, write, arguments,
  ignored. A text is the set of type words it begins with and its letters as
  digits; numbers go through `strtoul` digit by digit, modulo the word. The closing
  quote behind an escaped backslash is overlooked as in the code. `write_patch` dumps the
  bytes before it writes them, which brings the game down where it has no memory
  (`alive`); a write may be refused for any reason the kernel has. An argument is cut
  to the size of its buffer. The size of a
  byte is a constant: 2^8 in the program, 2 in the run, where a word still has eight
  bytes and the arms one, two, four and eight.
- `ModesAgree`: one context for all modes, since `process_line` changes it alike;
  a mode that has handed NULL to a string function joins `faulted` and takes no
  further part. `all_patches` is a set, since its elements have different numbers.
  Memory is not short here. Sections of the file are numbered by their "patch:" lines:
  `owner` says in which one an entry stands, `untitled` which have no title. A well-formed
  file has its lines in order; titles and other fields may be missing, which is how
  entries come to another patch (`handle_patch_complete` leaves a patch without a title
  alone).
- `ParseHeap`: objects are numbered. A new one gets the number after the highest that
  is there, so numbers are given out again, and a pointer that was freed may lead to
  another object. The owners are a set: for every pointer that is there, whose it is,
  which of the owner's it is, and where it leads to. Which of the
  six strings of a patch are there is a constant (`Fields`), and so is which of those are
  copied into the metadata without being looked at (`Credits`: name, author, version);
  `strdup` of a missing one is the end of the application, while `str_dup` of the game
  takes NULL. A value without quotes yields NULL. A line is out of its place if its key does not come
  after the key of the line before it (entries may stand anywhere); every further line is measured against its
  own predecessor.
- `PatchState`: the steps are those between which the process may die: decide,
  read again, open (truncates), write, close. What stdio has not flushed is cut
  at any byte. The game's reader is an operator over the file, since game and
  application never run together: `HeadersRead` are the headers it may go by, of which
  the bytes that were not delivered are what the stack held, `StatesRead` the count and
  the array it ends up with, depending on which of its calls fail, and `GameAnswers`
  what `read_patch_state` makes of these.
- `Notify`: every open, write, read, size and unlink is a step of its own. A file
  that is truncated under a reader, replaced between sizing and reading, or deleted
  while it is open (`orphan`), is possible; so are failing hook files, failing game
  writes, and a restart of the VSH at any moment. A message has two parts, the bytes
  every message has and those behind them, each named by its launch: `fileWrite2`
  does not truncate, so the end of a longer message stays behind a shorter one.
- `LineReader`: `text` is what lies between the buffer's start and the cursor.
  Writing outside of the buffer is the terminal state `overrun`. Files come from a
  set; bytes are numbers. What the lines of a file are is said by the places at which
  they end.
- `StringScanners`: allocations succeed and lines fit into `MAX_LINE_LENGTH`, so
  the scanners' own truncation does not happen.
- `Bootloader`: a plugin's `module_start` runs between two loads and may append
  any number of arguments. The argument array's slots start zeroed or stale. Of a
  list of versions any subsequence may survive failing mallocs. Arguments that are too
  long for a slot are cut, and end where the slot's old bytes do (`Buffer`). What is configured is
  said by places, too: the plugin lines of the blocks that name the game, in the order
  of the file.
- `VshHook`: a cell is a byte; the signature is compared at each, with its wild bytes,
  and instructions are four of them. A match need not be at an instruction. A chunk or the original call may not be readable; a write
  may fail. Comparing behind the end of a chunk reads what lies behind the buffer:
  anything. A thread of the VSH executes one branch at a time.
- `Detour`: what a piece of code does is its `Trace`: the plain instructions it
  executes and the place it leaves the known code for, under given condition bits; the
  count register is as the caller passed it, loaded by the code, or lost, since every far
  jump goes through it (`mtctr`), also those that are not taken.
  `Effect` is one word of it, `Course` the recursive function that takes up to `Fuel`
  of them. A jump to a callback ends in the callback. `Hook` is a step for each write;
  calls may come between any two. Functions are whole parts of the program and share no
  words, and the trampoline buffer lies behind the program (`Layout`, `Apart`).
  `OriginalIsReached` compares the trampoline with the words it was made of: both are
  traced on their own, until they go on behind those words or branch elsewhere. What the
  rest of the function does when it branches back into its first words is not claimed.

## 3. Runs

| run | properties | size and bounds |
|---|---|---|
| `LowMemAnyFile` | `AppliedIsEnabled`, `MissedHasCause`, `AppliedIsNotified`, `ExtraNeedsUnmatched` | any order of 10 kinds of line, any string may be lost to malloc, two patches, two matches; 1,156,148 states |
| `ModesWellFormed` | `NumbersIncrease`, `FetchedIsListed`, `AppAndGameAgree`, `EntriesOfOnePatch` | two sections with any fields missing but the binary, at most two versions and three entries; 157,032 states |
| `ParseHeapAll` | `TypeOK`, `OwnedOnce`, `LossHasCause`, `FaultNeedsCause` | three modes, six lines, three fields, one failing allocation or one line out of place; 715,861 states |
| `EntryFaults` | action properties `WrittenAsListed`, `ArgumentsAsListed` | 16 entries in any order and number, at most one lost string in each, failing writes, ten cells, four strings, three argument slots of two characters, no file that has changed both memory and arguments; 7,869 states |
| `SettingsFaults` | `UniqueHashes`, `ReadersAgree`, `ReportedIsStored`; refinement `ImplementsMap` | three hashes, every fault, files cut at every byte, unbounded calls; 179,565 states |
| `NotifyAll` | `ShownWasWritten`, `ShownOnce`, `HookedReadsOwn`, `StaleNeedsOvertaking`; liveness `EventuallyShown` | two VSH runs, three launches; 195,067 states |
| `LineReaderAll` | `LinesAreTheFile`, `PositionAccounted`, `FittingLinesStayInside`, `ScannedAsWritten`; liveness `FittingFilesAreRead` | every file of up to five bytes, alone and at the end of a full buffer, and 6131 lines of strings; 369,962 states |
| `BootAll` | `LoadedAsConfigured`, `TriedIsConfigured`, `ArgumentsIntact` | four scenarios: eight lines for two blocks; six lines for several plugins; five lines with failing mallocs; five lines, three slots, zero to four arguments and three appended, one of the texts too long for a slot; 1,499,186 states |
| `VshHookAll` | `TypeOK`, `ScanFindsFirst`, `NobodyTraps`; liveness `CallsComplete` | images of 36 or 40 bytes, three kinds of console, two placements; 480,255 states |
| `DetourAll` | `DetourTypeOK`, `EntryReachesTop`, `OriginalIsReached`, `BufferHolds`, `SafeWithoutHen` | three detours of two functions, three hooks, one failing write; 278,233 states |
| `EntryWidth`, `LineReaderReturn` | `NamedWidthWritten`, `CallsReturn`: violated | see section 4 |

The type invariants of the other modules are theorems (section 5) and are not checked
a second time.

Deadlock is not checked where the program ends (parsers, start-up of the hook, a game
that an entry brings down) or waits for a user at a bound (`Notify`, `Detour`); it is
checked for `SettingsFaults`, where a next toggle is always possible.

### Why the bounds are enough

- *LowMemRun*: what is carried from patch to patch is one flag, one metadata
  record and the number, so two patches show every hand-over. Two matches
  suffice because only `count > 0` is tested. The settings files are all sets of
  at most two of the hashes two complete patches can have. Lists have two
  versions in either order: first and later match are both there. A patch that lost its
  match to malloc has the other version alone and may be switched on under that: the flag
  that outlives an earlier patch does open the gate for it. One entry ends in
  "name:". (The theorems remove all these bounds.)
- *EntryFaults*: an entry depends on earlier ones through memory and arguments only,
  and an entry changes one of the two and does not read the other: a file goes no
  further once it has changed both (the constraint `OneKind`).
  The entries have every arm, values that fit, are narrowed, are negative and go
  round, addresses that are decimal, hexadecimal, narrowed and not the game's, and
  strings that are missing, too many, empty, unquoted or end in a backslash. With
  bytes of one bit, narrowing loses bits at every width. One lost string moves all
  later ones; a second only drops entries of fewer strings.
- *ModesWellFormed*: what a section leaves behind goes to the next one, so two sections
  show every hand-over; titles, names, authors and versions may be missing in either; two
  titles, one of them the wanted one; three entries, so that either section can have more
  than one.
- *ParseHeapAll*: of the six strings there are the two that are looked into and one that
  is only copied; the others go the way of that one (the theorems are about any choice of
  them). Arrays of one slot grow at their second element; six lines are a
  whole patch with its entry, or as much of one as gives any array a second element. One trouble at a time: a failing
  allocation, or a line out of its place, so that each violation has one cause to name.
- *SettingsFaults*: three hashes give the argument, an earlier and a later
  neighbour in the array. Sizes are the real ones, 12 bytes of header and five for a
  state. The number of calls is not bounded: the state space is finite because a hash is
  stored once.
- *Notify*: two boots for files left behind; three launches, for a message that is
  overwritten by a second game while `notify_thread` is busy with that of a first.
- *LineReader*: five bytes hold `\r` and `\n` in every relation to three
  characters, and behind a filler they cross the end of the buffer at every place.
  The strings are all spellings of at most two bytes, with every kind of escape and
  every byte the scanners look for; lists have up to three of them, one more than the
  array takes.
- *Bootloader*: eight lines are two whole blocks of four; six, a block of two plugins
  and what may follow. What a lost string leaves behind shows in the next block, and the
  shortest two blocks have five lines. Three slots, with zero to four initial arguments
  and three appended ones, give every relation to the limit of 32.
- *VshHook*: a signature of three words whose middle one is wild and the others in half,
  as in the code, in chunks of five, over nine words and one behind the module: every
  position relative to a chunk, a cut by two chunks, and by the end. Two starts of the
  signature give a first, a later, an overlapping and a false one, and, half a word on,
  one across the instructions. The plugin is in reach of a branch or not. Consoles offer either kind of system call, or both.
- *Detour*: the functions have a backward, a forward, a linked, an absolute and a
  counting branch and one that loads the count register among their first words. Three
  detours give two on one function and one on the other, or three on one. The buffer holds two trampolines of the
  greatest length and not three.

### Fairness

- `Notify`: weak fairness of start-up, hook, game start and poller separately.
  The VSH threads are loops with sleeps that the scheduler runs; a launch passes
  through the hook synchronously; a started game runs its plugin before its
  own entry. Launches, exits and restarts are the user's and are not fair.
- `LineReader`: weak fairness of the reading loop, a single running thread. A
  failing read is allowed and never relied upon.
- `VshHook`: weak fairness of the start-up thread and of a VSH thread that is under
  way. Nobody has to call.
- All other specifications are safety only.

## 4. Disagreements between code and text

Two runs look for a violation; each shows behaviour of the code that its own
text contradicts.

| run | what the code does |
|---|---|
| `EntryWidth` | `bytes16`, `bytes32` and `bytes64` begin with `byte`, are taken by the first arm, and write one byte (`patch.c:1143`) |
| `LineReaderReturn` | a file whose last byte is a return never leaves `fileReadLine` (`file.c:235`) |

`FittingFilesAreRead` bounds the second one, and `WrittenAsListed` covers every type
that no earlier arm takes.

What else the models show of the code is bounded by properties that hold: each names
the circumstance without which it does not happen.

- `processing_enabled_patch` is never reset: entries of a patch for another version
  are applied after an enabled match, when that patch is switched on too
  (`patch.c:424-436`). `ExtraNeedsUnmatched`: not without a patch that does not match.
- `current_meta` is the first version's: an enabled patch whose matching version is
  not the first in its list is reported, and not applied (`patch.c:437`). An entry that
  contains "name:" or another key is taken for a field (`patch.c:361`), and one that
  loses strings to malloc is dropped (`patch.c:452`). `MissedHasCause`: entries of an
  enabled match are left out for one of these three reasons.
- The entries of a patch without a title, and its fields, go over to the next patch
  (`patch.c:233`): `EntriesOfOnePatch` and `AppAndGameAgree`, only from such a patch.
- The game's reader of the settings file takes any non-empty read for a header, and a
  failing malloc leaves it with a count and no array, which is walked (`patch.c:952`,
  `patch.c:960`). `ReadersAgree`: with whole headers and memory it answers what the
  application's reader answers, or finds nothing.
- An entry whose address is not mapped brings the game down, since the bytes are dumped
  before the write that would fail (`patch.c:1109`, `WrittenAsListed`).
- `UnHook` after a failed save writes 16 zero bytes over the function
  (`Detour.cpp:275`); `EntryReachesTop` then says nothing of it.
- The end of an older, longer message is shown behind a shorter one, or a message is
  cut. `ShownWasWritten`: only if the launch went past the hook, or the message took
  the place of a shorter one between size and read. A message of the previous VSH
  run is shown only if the poller finds it before `make_folders` deletes it
  (`StaleNeedsOvertaking`).
- In a list, strings behind one that ends in an escaped backslash are lost
  (`ScannedAsWritten`).
- A match of the signature that two chunks share, or that ends with the module, is
  overlooked; one that reaches over the end of a chunk is compared with what lies
  behind the buffer (`ScanFindsFirst`).
- If the original call cannot be read, hook and stub end up calling each other; if
  the stub cannot be written, it stays a trap, which a thread reaches only if
  PS3MAPI then wrote the call (`CallsComplete`, `NobodyTraps`).
- Detours that are not taken down latest first bring back a callback that is gone;
  first words that branch to one another or into the buffer, or that load the count
  register or count with it, do not survive the move (`Relocatable`);
  nothing is ever given back to the trampoline buffer, and its end is not looked at
  (`EntryReachesTop`, `OriginalIsReached`, `BufferHolds`).
- The application's parser hands NULL to `strdup` for a patch without name, author or
  version string (`patch.c:186`), and uses NULL for one without `app_bin` or `app_ver`; it
  writes behind an array that could not be made longer (`FaultNeedsCause`); the array
  of versions of each finished patch is never freed (`LossHasCause`).

Seen while reading, and visible in the models without a property of their own:
`strtoul` wraps where its comment promises `ULONG_MAX` (`lv2_stdio.h:259`), and a
negative hexadecimal number reads as zero (`ToUlong`); `bufferSize` of `fileReadLine`
is not used, its `bytesWritten` adds up over all lines, and the message counts
matches rather than applied patches.

## 5. Theorems

Proved by TLAPS for every value of the constants that satisfies the named
assumptions, in modules that EXTEND the model; `Hooks_proofs` extends `VshHook` and
`Detour`, `Patches_proofs` extends `LowMemRun` and `PatchEntry`. No theorem has a
hypothesis of its own.

| theorem | property | argument |
|---|---|---|
| `Patches_proofs!TypeCorrect` | `TypeOK` | inductive; rests on lemmas about the operators of `PatchContext` |
| `AppliedOnlyEnabled`, `AppliedKeepsMessage`, `StrayNeedsUnmatched` | `AppliedIsEnabled`, `AppliedIsNotified`, `ExtraNeedsUnmatched` | `Gates /\ Safety` is inductive |
| `MissedAlwaysHasCause` | `MissedHasCause` | `FirstSpeaksForAll` is inductive |
| `EntryAlwaysTyped` | `EntryTypeOK` | inductive; what `strtoul` returns is a word (`ToUlongTyped`) |
| `WritesAlwaysAsListed` | `WrittenAsListed` | `ToUlongOfNumber`, `BytesRead`, `WidthAsNamed`, `TooFewLeft` |
| `ArgumentsAlwaysAsListed` | `ArgumentsAsListed` | `ListedIsTaken`, `AppendedParams`, from `EntryTypeOK` |
| `ModesAgree_proofs!NumbersAreUnique` | `NumbersIncrease`, on any file | `Numbered` |
| `FetchedIsAlwaysListed` | `FetchedIsListed`, on any file | `Collected` |
| `AppAndGameAlwaysAgree`, `EntriesAreItsOwn` | `AppAndGameAgree`, `EntriesOfOnePatch`, on well-formed files | `WellFormed` |
| `PatchState_proofs!TypeCorrect`, `NoDuplicates` | `TypeOK`, `UniqueHashes` | `IInv == TypeOK /\ UniqueHashes /\ InCall` |
| `CallsAreAllOrNothing`, `ReportsAreStored` | `AllOrNothing`, `ReportedIsStored` | from `IInv` |
| `ReadersAlwaysAgree` | `ReadersAgree` | from `TypeOK`: what a file is, whole or cut (`GameFacts`) |
| `FileImplementsMap` | `ImplementsMap` | initial states and steps map to `EnabledMap`, from `IInv` |
| `Notify_proofs!TypeCorrect` | `TypeOK` | `Shape` |
| `ShownMessagesAreReal`, `HookedGamesKnowThemselves`, `MessagesAreShownOnce`, `StaleOnlyIfOvertaken` | `ShownWasWritten`, `HookedReadsOwn`, `ShownOnce`, `StaleNeedsOvertaking` | `Silent` and `Sourced`, `Identity`, `Once`, `Fresh` |
| `LineReader_proofs!TypeCorrect`, `CountIsPosition` | `TypeOK`, `PositionAccounted` | `Books` |
| `LinesAreAlwaysTheFile`, `FittingLinesAlwaysStayInside` | `LinesAreTheFile`, `FittingLinesStayInside` | `CutInv == Books /\ Standing /\ UnderWay` |
| `Bootloader_proofs!ArgumentsStayIntact` | `ArgumentsIntact` | `ArgumentsInv` |
| `OnlyConfiguredIsTried` | `TriedIsConfigured` | `Blocks` |
| `ConfiguredIsAlwaysLoaded` | `LoadedAsConfigured` | `Whole` |
| `ParseHeap_proofs!HeapIsWhole` | the invariant itself | `HeapInv == Types /\ Memory /\ Faults` |
| `HeapAlwaysTyped`, `AlwaysOwnedOnce`, `LossAlwaysHasCause`, `FaultsAlwaysHaveCause` | `TypeOK`, `OwnedOnce`, `LossHasCause`, `FaultNeedsCause` | from `HeapInv` |
| `Hooks_proofs!TypeCorrect` | `TypeOK` of `VshHook` | `Typed` |
| `FirstMatchIsFound` | `ScanFindsFirst` | `Scan` |
| `TrapsAreNeverReached` | `NobodyTraps` | `Guarded` |
| `SafeAlwaysWithoutHen` | `SafeWithoutHen` of `Detour` | `OffForGood` |
| `DetourAlwaysTyped`, `BufferAlwaysHolds` | `DetourTypeOK`, `BufferHolds` | `DetourInv == OffForGood /\ Shapes /\ Behind` |
| `EntriesAlwaysStand` | the invariant itself: what lies at a hooked function | `Layered`, on top of `DetourInv` |
| `TopIsAlwaysReached` | `EntryReachesTop` | `Around`, with `Layered`; a far jump does what it is for |
| `OriginalIsAlwaysReached` | `OriginalIsReached` | `Trampled`, with both; a moved word does what it did |

Why the invariants have to be stronger than what they imply:

- `Gates`: flag and metadata survive their patch. The flag must still stand for
  *some* reported, enabled match, the metadata for a switched-on hash, and as long
  as every patch matched, the flag is about the patch being read.
- `FirstSpeaksForAll`: while only first versions match, the only wanted version is
  the one `current_meta` is about, so both gates are open; then only what happens to the
  entry line itself, a key in it or a failing malloc, can keep an entry out.
- `Numbered`: every listed number is below that of the patch under construction,
  which needs at most `MAX_APP_VERS <= 100` versions (`ModesAssumption`).
- `Collected`: the listed sequence is what the completed patches' metadata are, one
  after the other, and what is fetched is computed from the same records.
- `WellFormed`: a title in the context is that of the section being read. From its
  "patches:" to the next "patch:" nothing of the patch changes, so the hashes looked up at
  the first line are the ones listed at the second (`Hashes`); every entry line of the
  section is kept, and what is kept besides stood in sections without a title (`Entries`).
- `InCall`: between the two reads, the array and the file during a call relate to
  the settings when it began; the array in memory has the argument at the new
  value and the rest at the old one or lost.
- `Silent`: a launch that may still write its message has left no trace anywhere.
- `Sourced`: a text in the file is one that was written, or the parts of two, the
  second of which is older; and what the poller sized as short was short.
- `Identity`: from the moment the hook has written the game's identity, no
  deletion of start-up can come any more.
- `Once`: a shown message is followed by the deletion of the file before the
  poller looks again, and a message is never written a second time.
- `Fresh`: after the deletion, what lies in the file and in the poller's buffer was
  written in this run of the VSH.
- `Books`: bytes counted by finished and current calls add up to the position.
- `Standing`: the count stands at the end of a line, and one line was handed over for
  every end up to there. `UnderWay`: what is in the buffer is what the file has since
  then, without an end of a line among it; so the next end is the next line's.
- `ArgumentsInv`: the relation of `argc`, slots, own and appended arguments, with
  the empty slot behind them.
- `Blocks`: the configuration under construction stands in the block of the last
  "- app:" line; while plugins are loaded that line is the last one read, so the next
  configuration begins with it; queued plugins are configured already.
- `Whole`: as long as no malloc fails, the configuration is that of the newest "- app:"
  line, and what was tried are the configured lines before it, no more and no less;
  tried and queued together are, while plugins are loaded. `Blocks` says only that
  nothing else is there, not that nothing is missing.
- `HeapInv`: no object has two holders among the pointers that are there, every pointer
  leads to an object, and no array of versions that was forgotten is held (`Good`);
  as long as nothing else was lost, every other object has a holder (`Covered`). What
  `free_parse_context_data` frees is exactly that. `Fits`: the context's capacity is the
  array's size until an array could not be had or made longer, so that nothing is
  written behind it before. A copy of the metadata is as many objects as there are
  `Credits` and three more; one of them may fail only where its string is missing or
  memory ran out.
- `Scan`: no chunk that was read before the current one holds a match inside; memory is
  what it was at the start until the scan is over, so nothing that is found was written by
  `patch_call_`.
- `Guarded`: as long as the stub is a trap, no word of the VSH leads to hook or stub,
  unless the jump could not be written and PS3MAPI is there.
- `OffForGood`: without PS3MAPI a write fails only when the switch is on, and then
  all later ones do; so once a write of a `Hook` has failed, its jump is not written
  either. `WriteProcessMemory` was made to fall back; that it never goes back is what
  makes this safe.
- `Behind`: what is used of the trampoline buffer and what the `Hook` under way may
  still write are together no more than the longest trampoline for each hook, and
  what lies behind is still zero.
- `Layered`: an object that hooks a function has the words that its latest layer
  covers, its function's own or the jump of the layer below, until something on this
  function goes wrong; a `Hook` under way, the words it is going to cover. Hence the
  detour that is taken down, if it is the latest, puts back what the next one needs.
- `Around`: memory is the program and the room for trampolines, and words of the
  program that belong to no function are as they were.
- `Trampled`: the trampoline of an object whose `base` is known holds, word for word, the
  relocated words that it was made of, and the jump behind them, from the object's
  descriptor on, and is part of what is used (`Complete`); the one under way holds
  the words copied so far (`UnderWay`). No later write comes there, since `used` never
  goes back and functions lie elsewhere.

Assumptions: `ContextAssumption`, `LineAssumption`, `ModesAssumption`,
`FaultAssumption`, `NotifyAssumption`, `ReaderAssumption`, `BootAssumption` and
`HeapAssumption` give constants their types, say that a patch has at least a title and
`app_bin` among the strings that may be there, keep `Null` apart from the strings, keep
the special bytes apart from the ordinary ones, and bound versions by the stride.
`VshAssumption` does the same, and says that the plugin is loaded where the VSH neither
has code nor calls.
`EntryAssumption` gives the texts of an entry their letters, says which words of
`apply_patch` a text can begin with (of two words one goes on from the other, which
only `byte` and the `bytes` types do), and lets a byte have any size from two values on.
(`ListAssumption` belongs to a module that is only model-checked.)

`DetourAssumption` (`Layout`) and `ApartAssumption` (`Apart`) say that functions are
whole parts of the program and share no words, and that buffer and callbacks lie
elsewhere: two hooked functions that share words would spoil each other's in the code,
too. `ImageAssumption` says that the program before any hook consists of plain
instructions, loads of the count register, returns and branches, each with its target. TLC checks them on `DetourAll`.

How the proofs deal with data: a reference that would be computed from a file by
recursion is said by places in the file and their ranks instead (`LineEnds`, `Wanted`),
owners are a set instead of a flattened sequence, and where a least element is needed
it comes from the well-foundedness of the natural numbers. That the recursive `Course`
meets its equation (`CourseRows`) is proved by a minimal counterexample. What code does
is then a matter of lemmas on execution, a word (`PlainRuns`, `ReturnRuns`,
`BranchRuns`), a far jump (`FarRuns`) or a piece of a trampoline (`PieceRuns`) at a
time, all of them for a count register that nothing was loaded into (`Unloaded`); a trampoline has four pieces and a way back, so the words it runs through are
fewer than `Fuel`.

`PatchEntry`'s operators on texts are recursive functions on the length: that such a
function exists is one lemma (`Recursion`), from which each of them is shown to go as
its definition says (`KeptRows`, `StringsRows`, `ArgsRows`, `AccRows`, `MagRows`,
`BigRows`, `PowerRows`), and what they compute follows by an induction over a set of
numbers (`Upwards`).

What is behind `WritesAlwaysAsListed`: going round at every digit comes to the same as
going round once at the end (`Rounds`), whatever letters stand before the digits and
count for nothing, so a listed number is read as itself modulo the word, also a negative
one (`ToUlongOfNumber`). A lower power of the byte's size divides the word
(`PowerSplits`), so narrowing commutes with that (`ValueNarrowed`); and the bytes of a
number, read back in order, are the number modulo the power (`BytesRead`). The arm taken
has the width of the name unless the name begins with `byte` (`WidthAsNamed`), and an
entry with exactly three strings that loses one is dropped (`TooFewLeft`).

## 6. Model-checked only

- Liveness: `EventuallyShown`, `FittingFilesAreRead`, `CallsComplete`. Outside of the
  prover's reach.
- `ScannedAsWritten`: the scanners are recursive operators, which the prover does not
  take.

Every other property of a passing run is a theorem of section 5.

## 7. Not modelled, and the plan

Left out, each with its reason:

- Register-level system call wrappers and the formatting of the stdio subset: no
  state of their own, and no property depends on the text.
- The build programs, the program that prints its arguments and the vendored signing
  tool: not part of the running system. Log output.
- `free_patch_data`, which nobody calls, and `GetHookInfo`, which is only declared.
- The list of plugins on the heap (`plugins.c`): as in `ParseHeap`, with one array.
- The wrappers `get_all_patches` and `get_metadata`: they open the file and return
  what the context holds, which is in `ModesAgree` and `ParseHeap`.
- Failures of the game's reader of the settings file while it parses a patch file:
  `LowMemRun` takes the switches as given, `PatchState` says what such a reader can answer.
- Registers other than the count register, and what far jumps leave on the stack: a plain
  word of `Detour` stands for any use of them.
- `module_stop` of the VSH plugin, which leaves hook and polling thread in place
  while the module is unloaded: `Notify`'s threads live until the VSH restarts.
- A thread that stands inside the first four words of a function when they are
  replaced: in `Detour` a call is one step. (That the function is redirected before
  the object has its descriptor, `Detour.cpp:265`, is modelled, and so is the import
  lookup that walks the table of exports, `Detour.cpp:363`.)
- What `module_start` of the second plugin prints of the original argument array:
  reads of memory the models do not hold.

Not done of what was planned: a composition of `Notify`, `Bootloader`, `LowMemRun` and
`PatchEntry`, from the launch to the message on the screen; the plugin parser's memory.

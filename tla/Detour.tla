-------------------------------- MODULE Detour --------------------------------
(***************************************************************************)
(* Detour and ImportExportDetour: a function is redirected to a callback by *)
(* a jump over its first words; the words are kept in the object, and a     *)
(* copy with its branches relocated, the trampoline, lets the callback go   *)
(* on to the original.  One thread makes and takes down detours, a step of  *)
(* Hook at a time; at every step other threads may call the functions, and  *)
(* callbacks their originals.                                              *)
(*                                                                         *)
(* Memory is a function from addresses to instructions.  What a piece of    *)
(* code does is its Trace.                                                 *)
(***************************************************************************)
EXTENDS ProcessMemory, Integers, Sequences, FiniteSets, SequencesExt

CONSTANTS
    Detours,      \* objects
    ByFnid,       \* those that are ImportExportDetours
    Callback,     \* fnCallback of each object
    Functions,    \* addresses that are hooked
    Image,        \* the program before any hook
    Table,        \* the stubs at segment15[0x984 / 4]
    Names,        \* <<library, fnid>> that an ImportExportDetour may ask for
    Trampolines,  \* address of s_TrampolineBuffer
    Capacity,     \* its size in words
    Bits,         \* width of a branch's offset, by opcode
    Conditions,   \* bits of the condition register
    MaxHooks, MaxFailures   \* bounds of the model

VARIABLES
    code,         \* memory: the program, the trampolines and what lies behind them
    used,         \* s_TrampolineSize
    detour,       \* the fields of every object, or NoObject
    hooking,      \* the call of Hook that is under way
    useHen,       \* of WriteProcessMemory
    \* history
    layers,       \* detours of each function, the latest last
    messy,        \* functions on which detours were not taken down latest first, or
                  \* that a Hook could not redirect
    torn,         \* functions redirected by a Hook of which another write had failed
    base,         \* the code an object's trampoline stands for, 0 if it is not known
    hooks, failures

console == <<kernel, code, useHen, failures>>
history == <<layers, messy, torn, base>>
detourVars == <<console, used, detour, hooking, history, hooks>>

\* Mutant: the size of the jump that keeps the register.
HookSizeKeeping == 6

\* In words: the two kinds of far jump.
HookSize == 4
FarSize == 6

\* Four branches and the way back.
LongestTrampoline == 30

\* s_TrampolineBuffer and what lies behind it.
Room == Trampolines .. Trampolines + MaxHooks * LongestTrampoline

\* The functions are whole parts of the program, those in the table among them; buffer
\* and callbacks lie elsewhere.
Layout ==
    /\ Trampolines \in Nat /\ Capacity \in Nat /\ MaxHooks \in Nat
    /\ \A a \in DOMAIN Image : a \in Nat /\ a + 1 < Trampolines
    /\ \A f \in Functions : f \in Nat /\ f .. f + HookSize - 1 \subseteq DOMAIN Image
    /\ \A d \in Detours : Callback[d] \notin DOMAIN Image \cup Room
    /\ DOMAIN Table \subseteq Nat
    /\ \A i \in DOMAIN Table : \A j \in DOMAIN Table[i].stubs :
          Table[i].stubs[j].func \in Functions

ASSUME DetourAssumption == Layout

\* No two of them share a word.
Apart == \A f, g \in Functions : f # g => f + HookSize <= g \/ g + HookSize <= f

ASSUME ApartAssumption == Apart

-----------------------------------------------------------------------------
\* Instructions.  One of them loads the count register.
Plain(id) == [op |-> "plain", id |-> id]
LoadCount(id) == [op |-> "load", id |-> id]
Return == [op |-> "return"]

\* A word that was never written.
Zeros == [op |-> "zeros"]

\* What the constructor leaves: m_OriginalInstructions are zeros.
NoObject == [made |-> FALSE, addr |-> 0, len |-> 0,
             saved |-> <<Zeros, Zeros, Zeros, Zeros>>, start |-> 0, opd |-> 0]
Idle == [by |-> "none"]

\* b, bl, ba, and bc, bdnz: an offset of a branch is stored in Bits[op] bits.
Branch(op, offset, cond, link, absolute) ==
    [op |-> op, offset |-> offset % 2 ^ Bits[op], cond |-> cond, link |-> link,
     absolute |-> absolute]

Signed(offset, width) ==
    IF offset < 2 ^ (width - 1) THEN offset ELSE offset - 2 ^ width

\* Where the branch at a leads.
Goal(word, a) == IF word.absolute THEN word.offset ELSE a + Signed(word.offset, Bits[word.op])

ASSUME ImageAssumption ==
    \A a \in DOMAIN Image :
        /\ Image[a].op \in {"plain", "load", "return", "b", "bc"}
        /\ Image[a].op \in {"b", "bc"} =>
              Goal(Image[a], a) \in Int /\ {Image[a].link, Image[a].absolute} \subseteq BOOLEAN

\* JumpWithOptions: one instruction after the other, with or without keeping the
\* register.
Far(target, cond, link, keep) ==
    LET size == IF keep THEN FarSize ELSE HookSize
    IN  [n \in 1 .. size |-> [op |-> "far", part |-> n, size |-> size, target |-> target,
                              cond |-> cond, link |-> link]]

Jump(target, keep) == Far(target, "always", FALSE, keep)

\* Mutant: conditional branches are taken for as wide as the others.
RelocateBranchWide(word, a) ==
    IF word.absolute THEN <<word>>
    ELSE Far(a + Signed(word.offset, Bits["b"]), word.cond, word.link, TRUE)

\* RelocateBranch: an absolute branch is copied, a relative one becomes a jump to
\* where it led.
RelocateBranch(word, a) ==
    IF word.absolute THEN <<word>>
    ELSE Far(Goal(word, a), word.cond, word.link, TRUE)

\* RelocateCode
Relocate(word, a) ==
    IF word.op \in {"b", "bc"} THEN RelocateBranch(word, a) ELSE <<word>>

\* What a piece of code does with the count register: it is as it was passed, it was
\* loaded, or the mtctr of a far jump has overwritten it.
Register == {"passed", "loaded", "lost"}

\* What a processor does that comes to address a, to the part-th word of a far jump if
\* it is in the middle of one, with the count register as r says, and does at other
\* addresses what `then` says: the plain instructions, the calls, where it ends, and
\* whether it takes a loaded register there.  A far jump works only from its first word
\* to its last, and loses the register whether it is taken or not.
Effect(m, c, then, a, part, r) ==
    LET word     == m[a]
        next(q)  == then[a + 1][1][q]
        go(t, q) == IF word.link THEN <<t>> \o next(q) ELSE then[t][1][q]
    IN  IF a \notin DOMAIN m THEN IF r = "loaded" THEN <<a, "count">> ELSE <<a>>
        ELSE IF word.op = "far" /\ word.part = part
             THEN IF part < word.size THEN then[a + 1][part + 1][r]
                  ELSE IF word.cond = "count" THEN <<"garbage">>
                  ELSE IF word.cond \in c THEN go(word.target, "lost") ELSE next("lost")
        ELSE IF part # 1 \/ word.op \in {"far", "zeros"} THEN <<"garbage">>
        ELSE IF word.op = "plain" THEN <<word.id>> \o next(r)
        ELSE IF word.op = "load" THEN <<word.id>> \o next("loaded")
        ELSE IF word.op = "return" THEN <<"return">>
        ELSE IF word.cond = "count" /\ r = "lost" THEN <<"garbage">>
        ELSE IF word.cond \in c THEN go(Goal(word, a), r) ELSE next(r)

Fuel == 60

Addresses == Int \cup {Callback[d] : d \in Detours}

\* When it comes to an address and the conditions in c hold, by the number of words
\* that are looked at.
Course(m, c) ==
    LET run[n \in 0 .. Fuel] ==
            [a \in Addresses |-> [part \in 1 .. FarSize |-> [r \in Register |->
                IF n = 0 THEN <<"...">> ELSE Effect(m, c, run[n - 1], a, part, r)]]]
    IN  run

Trace(m, from, c) == Course(m, c)[Fuel][from][1]["passed"]

Circumstances == {c \cup {"always"} : c \in SUBSET Conditions}

Words(a, n) == [i \in 1 .. n |-> code[a + i - 1]]

Put(a, words) ==
    [x \in DOMAIN code |-> IF x \in a .. a + Len(words) - 1 THEN words[x - a + 1] ELSE code[x]]

-----------------------------------------------------------------------------
\* FindExportByName, FindImportByName: the table is walked as long as the stubs have
\* the size of the kind that is asked for; 0 if nothing is found.
Walked(size) ==
    {i \in DOMAIN Table : \A k \in 1 .. i : Table[k].size = size}

Find(size, lib, fnid) ==
    LET hits == {h \in Walked(size) \X (1 .. 4) :
                    /\ Table[h[1]].name = lib /\ h[2] \in DOMAIN Table[h[1]].stubs
                    /\ Table[h[1]].stubs[h[2]].fnid = fnid}
    IN  IF hits = {} THEN 0
        ELSE LET first == CHOOSE h \in hits : \A k \in hits :
                            h[1] < k[1] \/ (h[1] = k[1] /\ h[2] <= k[2])
             IN  Table[first[1]].stubs[first[2]].func

DetourInit ==
    /\ kernel \in Kernels
    /\ code = [a \in DOMAIN Image \cup Room |-> IF a \in DOMAIN Image THEN Image[a] ELSE Zeros]
    /\ used = 0
    /\ detour = [d \in Detours |-> NoObject]
    /\ hooking = Idle
    /\ useHen = FALSE
    /\ layers = [f \in Functions |-> <<>>]
    /\ messy = {} /\ torn = {}
    /\ base = [d \in Detours |-> 0]
    /\ hooks = 0 /\ failures = 0

\* WriteProcessMemory of other words than the object's.  Nobody looks at the result.
\* At most MaxFailures calls fail that could have succeeded.
Attempt(ok) ==
    \E r \in Results(useHen) :
        /\ r[1] = ok /\ useHen' = r[2]
        /\ IF ok \/ ~\E q \in Results(useHen) : q[1]
           THEN UNCHANGED failures
           ELSE failures < MaxFailures /\ failures' = failures + 1

Write(a, words, ok) ==
    /\ Attempt(ok)
    /\ code' = IF ok THEN Put(a, words) ELSE code
    /\ UNCHANGED kernel

-----------------------------------------------------------------------------
\* The code that a call of f reaches before it is hooked once more.
StandsAt(f) ==
    IF f \in messy \cup torn THEN 0
    ELSE IF layers[f] = <<>> THEN f ELSE Callback[Last(layers[f])]

\* Hook, step by step: the original words are kept (through WriteProcessMemory, too).
Save(d, f) ==
    /\ hooking = Idle /\ hooks < MaxHooks
    /\ \E ok \in BOOLEAN :
          /\ Attempt(ok)
          /\ detour' = [detour EXCEPT ![d] =
                [made |-> TRUE, addr |-> f, len |-> HookSize,
                 saved |-> IF ok THEN Words(f, HookSize) ELSE detour[d].saved,
                 start |-> Trampolines + used, opd |-> detour[d].opd]]
          /\ hooking' = [by |-> d, step |-> 0, ok |-> ok, of |-> StandsAt(f)]
    /\ hooks' = hooks + 1
    /\ UNCHANGED <<kernel, code, used, history>>

\* One word is copied to the trampoline, or the jump that a branch becomes.
CopyWord ==
    /\ hooking # Idle /\ hooking.step < HookSize
    /\ LET a     == detour[hooking.by].addr + hooking.step
           words == Relocate(code[a], a)
       IN  \E ok \in BOOLEAN :
              /\ Write(Trampolines + used, words, ok)
              /\ used' = used + Len(words)
              /\ hooking' = [hooking EXCEPT !.step = @ + 1, !.ok = @ /\ ok]
    /\ UNCHANGED <<detour, history, hooks>>

\* The trampoline goes on behind the words that were copied.
JumpBack ==
    /\ hooking # Idle /\ hooking.step = HookSize
    /\ \E ok \in BOOLEAN :
          /\ Write(Trampolines + used, Jump(detour[hooking.by].addr + HookSize, TRUE), ok)
          /\ used' = used + FarSize
          /\ hooking' = [hooking EXCEPT !.step = @ + 1, !.ok = @ /\ ok]
    /\ UNCHANGED <<detour, history, hooks>>

\* Mutant: the function is redirected by a jump that keeps the register.
RedirectKeeping ==
    /\ hooking # Idle /\ hooking.step = HookSize + 1
    /\ LET d == hooking.by
           f == detour[d].addr
       IN  \E ok \in BOOLEAN :
              /\ Write(f, Jump(Callback[d], TRUE), ok)
              /\ messy' = IF ok THEN messy ELSE messy \cup {f}
              /\ layers' = IF ok THEN [layers EXCEPT ![f] = Append(@, d)] ELSE layers
              /\ torn' = IF ok /\ ~hooking.ok THEN torn \cup {f} ELSE torn
              /\ hooking' = [hooking EXCEPT !.step = @ + 1]
    /\ UNCHANGED <<used, detour, base, hooks>>

\* Now the function is redirected.
Redirect ==
    /\ hooking # Idle /\ hooking.step = HookSize + 1
    /\ LET d == hooking.by
           f == detour[d].addr
       IN  \E ok \in BOOLEAN :
              /\ Write(f, Jump(Callback[d], FALSE), ok)
              /\ messy' = IF ok THEN messy ELSE messy \cup {f}
              /\ layers' = IF ok THEN [layers EXCEPT ![f] = Append(@, d)] ELSE layers
              /\ torn' = IF ok /\ ~hooking.ok THEN torn \cup {f} ELSE torn
              /\ hooking' = [hooking EXCEPT !.step = @ + 1]
    /\ UNCHANGED <<used, detour, base, hooks>>

\* Only then is the descriptor set by which the callback calls the original.
Describe ==
    /\ hooking # Idle /\ hooking.step > HookSize + 1
    /\ detour' = [detour EXCEPT ![hooking.by].opd = detour[hooking.by].start]
    /\ base' = [base EXCEPT ![hooking.by] = IF hooking.ok THEN hooking.of ELSE 0]
    /\ hooking' = Idle
    /\ UNCHANGED <<console, used, layers, messy, torn, hooks>>

-----------------------------------------------------------------------------
\* Detour::Hook, also when the object has hooked something already.
Hook(d, f) == d \notin ByFnid /\ Save(d, f)

\* ImportExportDetour's constructor; its Hook and UnHook do nothing.
HookByFnid(d, size, lib, fnid) ==
    /\ d \in ByFnid /\ ~detour[d].made
    /\ LET f == Find(size, lib, fnid)
       IN  IF f = 0
           THEN /\ hooking = Idle
                /\ detour' = [detour EXCEPT ![d].made = TRUE]
                /\ UNCHANGED <<console, used, hooking, history, hooks>>
           ELSE Save(d, f)

\* What UnHook does to an object that has hooked something.
PutBack(d, after) ==
    /\ hooking = Idle /\ detour[d].len # 0
    /\ LET f     == detour[d].addr
           clean == f \notin torn /\ layers[f] # <<>> /\ Last(layers[f]) = d
       IN  \E ok \in BOOLEAN :
              /\ Write(f, detour[d].saved, ok)
              /\ layers' = IF ok /\ clean THEN [layers EXCEPT ![f] = Front(@)] ELSE layers
              /\ messy' = IF ok /\ ~clean THEN messy \cup {f} ELSE messy
    /\ detour' = [detour EXCEPT ![d] = after]
    /\ UNCHANGED <<used, hooking, torn, hooks>>

\* Mutant: the length is kept.
UnHookKeepingLength(d) ==
    /\ d \notin ByFnid
    /\ PutBack(d, [detour[d] EXCEPT !.addr = 0])
    /\ UNCHANGED base

\* Detour::UnHook
UnHook(d) ==
    /\ d \notin ByFnid
    /\ PutBack(d, [made |-> TRUE, addr |-> 0, len |-> 0, saved |-> detour[d].saved,
                   start |-> detour[d].start, opd |-> detour[d].opd])
    /\ UNCHANGED base

\* The destructor of either class.
Destroy(d) ==
    /\ detour[d].made
    /\ \/ PutBack(d, NoObject)
       \/ /\ hooking = Idle /\ detour[d].len = 0
          /\ detour' = [detour EXCEPT ![d] = NoObject]
          /\ UNCHANGED <<console, used, hooking, layers, messy, torn, hooks>>
    /\ base' = [base EXCEPT ![d] = 0]

DetourNext ==
    \/ \E d \in Detours, f \in Functions : Hook(d, f)
    \/ \E d \in Detours, size \in {"export", "import"}, n \in Names :
          HookByFnid(d, size, n[1], n[2])
    \/ CopyWord \/ JumpBack \/ Redirect \/ Describe
    \/ \E d \in Detours : UnHook(d)
    \/ \E d \in Detours : Destroy(d)

DetourSpec == DetourInit /\ [][DetourNext]_detourVars

-----------------------------------------------------------------------------
DetourTypeOK ==
    /\ used \in Nat
    /\ \A d \in Detours :
          /\ detour[d].made \in BOOLEAN /\ detour[d].len \in {0, HookSize}
          /\ IF detour[d].len = 0 THEN detour[d].addr = 0 ELSE detour[d].addr \in Functions
          /\ Len(detour[d].saved) = HookSize
          /\ detour[d].opd \in {0} \cup Trampolines .. Trampolines + used
    /\ hooking = Idle \/ hooking.by \in Detours
    /\ useHen \in BOOLEAN
    /\ messy \subseteq Functions /\ torn \subseteq Functions

\* At every step of Hook and UnHook a call of a function reaches the callback of the
\* latest detour that stands, and nothing else of the program has changed: without one
\* a function does what it did before any hook.  The exception are functions whose
\* detours were not taken down latest first: an UnHook writes back what it found.
EntryReachesTop ==
    /\ \A f \in Functions \ messy, c \in Circumstances :
          layers[f] # <<>> => Trace(code, f, c) = <<Callback[Last(layers[f])]>>
    /\ \A a \in DOMAIN Image : code[a] # Image[a] =>
          \E f \in Functions : a \in f .. f + HookSize - 1 /\ (f \in messy \/ layers[f] # <<>>)

\* Hook cannot move words that branch to one another or into the buffer, nor any that use
\* the count register: every far jump of the trampoline goes through it, so a branch that
\* counts is lost, relative or behind a relocated one, and so is what the words load for
\* the code behind them.
Relocatable(f) ==
    \A a \in f .. f + HookSize - 1 :
        /\ Image[a].op # "load"
        /\ Image[a].op \in {"b", "bc"} =>
              /\ Image[a].cond # "count"
              /\ Goal(Image[a], a) \notin (f .. f + HookSize - 1) \cup Room

\* The words of the function that is hooked; a callback is code of others.
Moved(of) == [a \in IF of \in Functions THEN of .. of + HookSize - 1 ELSE {} |-> Image[a]]

\* A callback that calls its original gets to what stood there when it was hooked: from
\* the trampoline the first words do what they did, wherever their branches lead, and
\* it goes on behind them, or the callback of the detour below is reached; and that is
\* still so when the detour is down and other trampolines were made.
OriginalIsReached ==
    \A d \in Detours, c \in Circumstances :
        /\ base[d] # 0 /\ used <= Capacity
        /\ base[d] \in Functions => Relocatable(base[d])
        => LET buffer == [a \in DOMAIN code \cap Room |-> code[a]]
           IN  Trace(buffer, detour[d].opd, c) = Trace(Moved(base[d]), base[d], c)

\* Nothing behind the buffer is written as long as it has room for the longest
\* trampoline of every hook that was ever made; nothing is ever given back.
BufferHolds ==
    hooks * LongestTrampoline <= Capacity =>
        \A a \in DOMAIN code : a >= Trampolines + Capacity => code[a] = Zeros

\* Without PS3MAPI a Hook that fails half-way leaves the function alone, since every
\* later write fails as well; with it a function may be led to a callback whose
\* trampoline was never written.
SafeWithoutHen == "hen" \notin kernel => torn = {}
=============================================================================

------------------------------- MODULE VshHook -------------------------------
(***************************************************************************)
(* How the VSH plugin puts its hook into the running VSH: PatternScan looks *)
(* for a signature, chunk by chunk, and patch_call_ redirects the call that *)
(* stands at an offset from it, while the VSH's own threads go on calling.  *)
(*                                                                         *)
(* Memory is bytes; an instruction is four of them at an address divisible  *)
(* by four, which the signature is not compared at only.  The hook          *)
(* load_plugin_main is reached by the patched call and goes on to           *)
(* load_plugin_main_ptr, the stub: a trap until patch_call_ writes a jump   *)
(* to the original function over it.                                        *)
(***************************************************************************)
EXTENDS ProcessMemory, Integers, Sequences, FiniteSets

CONSTANTS
    ByteSize,     \* values of a byte
    BranchOp,     \* the opcode of b and bl
    OffsetBits,   \* width of a branch's offset, counted in words
    Trap,         \* what the stub holds before it is patched
    Chunk,        \* seek_size
    Signature,    \* the bytes of start_plugin_search
    Offset,       \* from the start of the signature to the call
    Images,       \* what the VSH can look like: bytes from Base on, all mapped
    Size,         \* GetVshSize(); the image may go on behind it
    Base,         \* module_base
    Orig,         \* the function the VSH wants to call
    Placements    \* where the plugin is loaded: <<hook, stub>>

VARIABLES
    place,        \* <<dst->addr, original->addr>>
    memory,       \* the VSH's bytes, by address
    stub,         \* the word at original->addr
    pc,           \* of run_patch
    seek,         \* address of the chunk that is read next
    found,        \* what PatternScan returned, 0 for nothing
    original,     \* where the call that was found leads
    readHen, writeHen,   \* the two useHenSyscalls
    at,           \* the address a thread of the VSH is about to execute
    \* history
    vsh,          \* memory before it was patched
    unread,       \* chunks that could not be read
    failed        \* steps of patch_call_ that failed

scanner == <<seek, found>>
patcher == <<original, memory, stub>>
switches == <<readHen, writeHen>>
vars == <<kernel, place, scanner, patcher, pc, switches, at, vsh, unread, failed>>

-----------------------------------------------------------------------------
\* Words, highest byte first.
Byte == 0 .. ByteSize - 1

WordAt(m, a) ==
    ((m[a] * ByteSize + m[a + 1]) * ByteSize + m[a + 2]) * ByteSize + m[a + 3]

BytesOf(word) ==
    <<(word \div (ByteSize * ByteSize * ByteSize)) % ByteSize,
      (word \div (ByteSize * ByteSize)) % ByteSize, (word \div ByteSize) % ByteSize,
      word % ByteSize>>

\* Branches.  A displacement is stored in OffsetBits bits, above the two for absolute
\* and linked ones.
HookEntry == place[1]
Stub == place[2]

Low == 2 ^ (OffsetBits - 1)

\* MAKE_CALL_VALUE and MAKE_JUMP_VALUE keep the low bits of the distance.
Encode(src, dst, link) ==
    BranchOp * (8 * Low) + (((dst - src) \div 4) % (2 * Low)) * 4 + link

\* READ_CALL_OFFSET, and what the processor does.
Target(src, word) ==
    LET disp == (word \div 4) % (2 * Low)
    IN  src + 4 * (IF disp < Low THEN disp ELSE disp - 2 * Low)

IsBranch(word) == word \div (8 * Low) = BranchOp /\ word % 4 < 2

InRange(src, dst) == (dst - src) \div 4 \in -Low .. Low - 1

Load(image) == [a \in Base .. Base + Len(image) - 1 |-> image[a - Base + 1]]

\* The instructions that branch.
Calls(m) == {a \in DOMAIN m : a % 4 = 0 /\ a .. a + 3 \subseteq DOMAIN m /\ IsBranch(WordAt(m, a))}

\* PatternScan's arguments are none that it refuses; the plugin is loaded where the VSH,
\* linked long before, neither calls nor has code.
ASSUME VshAssumption ==
    /\ ByteSize \in Nat \ {0} /\ BranchOp \in Nat /\ Low \in Nat \ {0}
    /\ Trap \in Nat /\ ~IsBranch(Trap)
    /\ Base \in Nat \ {0} /\ Size \in Nat /\ Chunk \in Nat \ {0} /\ Orig \in Nat \ {0}
    /\ Signature \in Seq(Byte) /\ Len(Signature) \in 1 .. Chunk
    /\ Offset \in Nat
    /\ Images \subseteq Seq(Byte)
    /\ Placements \subseteq Nat \X Nat
    /\ \A p \in Placements, image \in Images :
          LET plugin == {p[1], p[2]}
          IN  /\ plugin \cap ({0, Orig} \cup DOMAIN Load(image)) = {}
              /\ \A a \in Calls(Load(image)) : Target(a, WordAt(Load(image), a)) \notin plugin

-----------------------------------------------------------------------------
\* PatternScan.
Width == Len(Signature)

\* "masked by ff"
Wild == ByteSize - 1

Agrees(j, byte) == Signature[j] \in {Wild, byte}

\* The comparison at address a of the chunk at s: cells behind the chunk are
\* whatever lies behind seek_buf.
MayMatch(s, a) ==
    \A j \in 1 .. Width : a + j - 1 < s + Chunk => Agrees(j, memory[a + j - 1])

\* The signature stands at address a of the VSH.
Matches(a) ==
    /\ a .. a + Width - 1 \subseteq DOMAIN vsh
    /\ \A j \in 1 .. Width : Agrees(j, vsh[a + j - 1])

Inside(s, a) == s <= a /\ a + Width <= s + Chunk

\* Mutant: the search in a chunk goes on after a match.
HitsAny(s) ==
    LET sure == {a \in s .. s + Chunk - 1 : Inside(s, a) /\ MayMatch(s, a)}
    IN  IF sure = {} THEN {0} ELSE sure

\* What a chunk that was read can yield: the first match inside of it, else one
\* that reaches over its end, or nothing, as the cells behind decide.
Hits(s) ==
    LET sure == {a \in s .. s + Chunk - 1 : Inside(s, a) /\ MayMatch(s, a)}
        open == {a \in s .. s + Chunk - 1 : ~Inside(s, a) /\ MayMatch(s, a)}
    IN  IF sure = {} THEN open \cup {0} ELSE {a \in sure : \A b \in sure : a <= b}

Readable(s) == s .. s + Chunk - 1 \subseteq DOMAIN memory

Init ==
    /\ kernel \in Kernels /\ place \in Placements
    /\ \E image \in Images : memory = Load(image)
    /\ vsh = memory
    /\ stub = Trap
    /\ pc = "scan" /\ seek = Base /\ found = 0 /\ original = 0
    /\ readHen = FALSE /\ writeHen = FALSE
    /\ at = 0
    /\ unread = {} /\ failed = {}

MoreToScan == seek < Base + Size - Width

\* One chunk that is read: the search ends with the first hit.
ScanChunk ==
    /\ pc = "scan" /\ MoreToScan /\ Readable(seek)
    /\ \E r \in Results(readHen) : r[1] /\ readHen' = r[2]
    /\ \E hit \in Hits(seek) :
          IF hit = 0
          THEN seek' = seek + Chunk /\ UNCHANGED <<pc, found>>
          ELSE /\ found' = hit + Offset
               /\ pc' = "read" /\ seek' = seek
    /\ UNCHANGED <<kernel, place, patcher, writeHen, at, vsh, unread, failed>>

\* Mutant: only one word of a chunk that cannot be read is passed over.
SkipWord ==
    /\ pc = "scan" /\ MoreToScan
    /\ \E r \in Results(readHen) : ~r[1] /\ readHen' = r[2]
    /\ seek' = seek + 4
    /\ unread' = unread \cup {seek}
    /\ UNCHANGED <<kernel, place, pc, found, patcher, writeHen, at, vsh, failed>>

\* A chunk that cannot be read is passed over.
SkipChunk ==
    /\ pc = "scan" /\ MoreToScan
    /\ \E r \in Results(readHen) : ~r[1] /\ readHen' = r[2]
    /\ seek' = seek + Chunk
    /\ unread' = unread \cup {seek}
    /\ UNCHANGED <<kernel, place, pc, found, patcher, writeHen, at, vsh, failed>>

ScanEnds ==
    /\ pc = "scan" /\ ~MoreToScan
    /\ pc' = "done"
    /\ UNCHANGED <<kernel, place, scanner, patcher, switches, at, vsh, unread, failed>>

-----------------------------------------------------------------------------
\* patch_call_.  Results are not looked at.
Site == found
SiteBytes == Site .. Site + 3

\* The word that is there is read and decoded, a call or not; one that cannot be read
\* counts as zero.
ReadOriginal ==
    /\ pc = "read"
    /\ \E r \in Results(readHen) :
          /\ readHen' = r[2]
          /\ r[1] => SiteBytes \subseteq DOMAIN memory
          /\ original' = Target(Site, IF r[1] THEN WordAt(memory, Site) ELSE 0)
          /\ failed' = IF r[1] THEN failed ELSE failed \cup {"read"}
    /\ pc' = "stub"
    /\ UNCHANGED <<kernel, place, scanner, memory, stub, writeHen, at, vsh, unread>>

\* Mutant: the jump leads to the call itself.
WriteStubToSite ==
    /\ pc = "stub"
    /\ \E r \in Results(writeHen) :
          /\ writeHen' = r[2]
          /\ stub' = IF r[1] THEN Encode(Stub, Site, 0) ELSE stub
          /\ failed' = IF r[1] THEN failed ELSE failed \cup {"stub"}
    /\ pc' = "call"
    /\ UNCHANGED <<kernel, place, scanner, original, memory, readHen, at, vsh, unread>>

\* What memory is once the call leads to the hook.
Redirected ==
    [a \in DOMAIN memory |->
        IF a \in SiteBytes THEN BytesOf(Encode(Site, HookEntry, 1))[a - Site + 1] ELSE memory[a]]

\* Mutant: the call is redirected first.
WriteCallFirst ==
    /\ pc = "stub"
    /\ \E r \in Results(writeHen) :
          /\ writeHen' = r[2]
          /\ r[1] => SiteBytes \subseteq DOMAIN memory
          /\ memory' = IF r[1] THEN Redirected ELSE memory
          /\ failed' = IF r[1] THEN failed ELSE failed \cup {"call"}
    /\ pc' = "call"
    /\ UNCHANGED <<kernel, place, scanner, original, stub, readHen, at, vsh, unread>>

\* A jump to the original function replaces the trap.
WriteStub ==
    /\ pc = "stub"
    /\ \E r \in Results(writeHen) :
          /\ writeHen' = r[2]
          /\ stub' = IF r[1] THEN Encode(Stub, original, 0) ELSE stub
          /\ failed' = IF r[1] THEN failed ELSE failed \cup {"stub"}
    /\ pc' = "call"
    /\ UNCHANGED <<kernel, place, scanner, original, memory, readHen, at, vsh, unread>>

\* Only then is the call redirected.
WriteCall ==
    /\ pc = "call"
    /\ \E r \in Results(writeHen) :
          /\ writeHen' = r[2]
          /\ r[1] => SiteBytes \subseteq DOMAIN memory
          /\ memory' = IF r[1] THEN Redirected ELSE memory
          /\ failed' = IF r[1] THEN failed ELSE failed \cup {"call"}
    /\ pc' = "done"
    /\ UNCHANGED <<kernel, place, scanner, original, stub, readHen, at, vsh, unread>>

-----------------------------------------------------------------------------
\* A thread of the VSH.
CallSites == Calls(memory)

\* It comes to a call.
Enter ==
    /\ at = 0
    /\ at' \in CallSites
    /\ UNCHANGED <<kernel, place, scanner, patcher, pc, switches, vsh, unread, failed>>

\* It executes the call, or load_plugin_main, which goes on to its stub once it has
\* written its files, or the stub.
Execute ==
    /\ \/ at \in CallSites /\ at' = Target(at, WordAt(memory, at))
       \/ at = HookEntry /\ at' = Stub
       \/ at = Stub /\ IsBranch(stub) /\ at' = Target(Stub, stub)
       \/ at = Orig /\ at' = 0
    /\ UNCHANGED <<kernel, place, scanner, patcher, pc, switches, vsh, unread, failed>>

RunPatch == ScanChunk \/ SkipChunk \/ ScanEnds \/ ReadOriginal \/ WriteStub \/ WriteCall

Next == RunPatch \/ Enter \/ Execute

Spec == Init /\ [][Next]_vars /\ WF_vars(RunPatch) /\ WF_vars(Execute)

-----------------------------------------------------------------------------
\* Where chunks begin.
Chunks == {Base + n * Chunk : n \in 0 .. Size}

TypeOK ==
    /\ pc \in {"scan", "read", "stub", "call", "done"}
    /\ \A a \in DOMAIN memory : a \in Nat /\ memory[a] \in Byte
    /\ seek \in Chunks
    /\ stub \in Nat /\ found \in Nat /\ original \in Int /\ at \in Int
    /\ readHen \in BOOLEAN /\ writeHen \in BOOLEAN
    /\ unread \subseteq Nat /\ failed \subseteq {"read", "stub", "call"}

\* What PatternScan returns is a true match, at an instruction or not, unless it reaches
\* over the end of its chunk; and no match inside of a chunk that was read comes before it.
FoundIsFirst ==
    found # 0 => LET a == found - Offset IN
        /\ Inside(seek, a) => Matches(a)
        /\ \A s \in Chunks \ unread : \A b \in s .. a - 1 : Inside(s, b) => ~Matches(b)

\* A match is overlooked only if two chunks share it, its chunk could not be read,
\* or it ends with the module: PatternScan does not begin a chunk there.
MissedIsCut ==
    pc = "done" /\ found = 0 =>
        \A s \in Chunks \ unread : \A b \in s .. Base + Size - Width - 1 :
            Inside(s, b) => ~Matches(b)

\* Both: PatternScan finds the first match there is, as far as its chunks let it,
\* on a console where a failing read changes how the next ones are made.
ScanFindsFirst == FoundIsFirst /\ MissedIsCut

\* Nobody is led to a stub that is still a trap, at no point of patch_call_; not even
\* if the jump could not be written, unless PS3MAPI then wrote the call.
NobodyTraps == at = Stub /\ stub = Trap => "stub" \in failed /\ "hen" \in kernel

\* What was replaced is not an instruction or does not call the VSH's function, or one of
\* the two branches does not reach its target.
Misled ==
    /\ found # 0 /\ pc \in {"call", "done"}
    /\ \/ Site % 4 # 0
       \/ original \notin {Orig, Site}
       \/ ~InRange(Site, HookEntry)
       \/ ~InRange(Stub, original)

\* Who calls gets to the original function, through the hook or not and whatever
\* patch_call_ is about to do, unless the original call could not be read (then hook
\* and stub call each other for good) or the stub could not be written.
CallsComplete ==
    at \in CallSites ~> at = Orig \/ Misled \/ failed \cap {"read", "stub"} # {}
=============================================================================

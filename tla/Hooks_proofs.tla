----------------------------- MODULE Hooks_proofs -----------------------------
(***************************************************************************)
(* The two ways in which code is redirected.                               *)
(*                                                                         *)
(* VshHook, for any bytes, chunk and signature and any place of the plugin: *)
(* the scan finds the first match that its chunks let it find, and no      *)
(* thread of the VSH is led to the trap.                                   *)
(*                                                                         *)
(* Detour, for any program, any objects, any number of calls and any       *)
(* accesses that fail: trampolines stay in their buffer as long as it has  *)
(* room for all calls of Hook; without PS3MAPI no function is led to a     *)
(* callback whose trampoline is not whole; a call of a function reaches    *)
(* the callback of its latest detour, and a call of an original what stood *)
(* there when it was hooked.                                               *)
(***************************************************************************)
EXTENDS VshHook, Detour, SequenceTheorems, WellFoundedInduction, TLAPS

\* What bytes and words may be, and where the addresses lie.
Typed ==
    /\ kernel \in Kernels /\ place \in Placements
    /\ \A a \in DOMAIN memory : a \in Nat /\ memory[a] \in Byte
    /\ stub \in Nat
    /\ found \in Nat /\ original \in Int /\ at \in Int
    /\ pc \in {"scan", "read", "stub", "call", "done"}
    /\ readHen \in BOOLEAN /\ writeHen \in BOOLEAN
    /\ unread \subseteq Nat /\ failed \subseteq {"read", "stub", "call"}
    /\ seek \in Chunks

-----------------------------------------------------------------------------
\* Division.
LEMMA DivisionFacts ==
    ASSUME NEW q \in Nat, NEW d \in Nat, NEW r \in Nat, r < d
    PROVE  (q * d + r) \div d = q
<1> DEFINE n == q * d + r
           x == n \div d
           y == n % d
<1>1. d > 0 /\ q * d \in Nat /\ n \in Nat
    OBVIOUS
<1>2. x \in Nat /\ y \in 0 .. d - 1 /\ n = d * x + y
    BY <1>1
<1> HIDE DEF x, y
<1>3. CASE x < q
    <2>1. x + 1 <= q /\ d * (x + 1) = d * x + d
        BY <1>2, <1>3
    <2>2. d * (x + 1) <= d * q
        BY <1>2, <2>1
    <2> QED BY <1>1, <1>2, <2>1, <2>2
<1>4. CASE x > q
    <2>1. q + 1 <= x /\ d * (q + 1) = d * q + d
        BY <1>2, <1>4
    <2>2. d * (q + 1) <= d * x
        BY <1>2, <2>1
    <2> QED BY <1>1, <1>2, <2>1, <2>2
<1>5. CASE x = q
    BY <1>5 DEF x
<1> QED BY <1>2, <1>3, <1>4, <1>5

\* Branches.
LEMMA PlaceFacts ==
    ASSUME Typed
    PROVE  HookEntry \in Nat /\ Stub \in Nat
BY VshAssumption DEF Typed, HookEntry, Stub

\* What is written over a word is a branch.
LEMMA EncodeFacts ==
    ASSUME NEW src \in Int, NEW dst \in Int, NEW link \in {0, 1}
    PROVE  Encode(src, dst, link) \in Nat /\ IsBranch(Encode(src, dst, link))
<1>0. PICK low \in Nat \ {0} : low = Low
    BY VshAssumption
<1>1. PICK x \in Int : x = (dst - src) \div 4
    OBVIOUS
<1>2. PICK k \in 0 .. 2 * low - 1 : k = x % (2 * low)
    OBVIOUS
<1>3. PICK op \in Nat : op = BranchOp
    BY VshAssumption
<1>4. PICK word : word = op * (8 * low) + k * 4 + link
    OBVIOUS
<1>5. Encode(src, dst, link) = word
    BY <1>0, <1>1, <1>2, <1>3, <1>4 DEF Encode
<1>6. op * (8 * low) \in Nat /\ word \in Nat
    BY <1>4
<1>7. word \div (8 * low) = op
    <2>1. PICK d \in Nat : d = 8 * low
        OBVIOUS
    <2>2. PICK r \in Nat : r = k * 4 + link /\ r < d
        BY <2>1
    <2>3. word = op * d + r
        BY <1>4, <2>1, <2>2
    <2>4. (op * d + r) \div d = op
        BY <2>2, DivisionFacts
    <2> QED BY <2>1, <2>3, <2>4
<1>8. word % 4 = link
    <2>1. PICK y \in Nat : y = op * low
        OBVIOUS
    <2>2. op * (8 * low) = 8 * y
        BY <2>1
    <2>3. word = 4 * (2 * y + k) + link
        BY <1>4, <2>2
    <2> QED BY <2>3
<1> QED BY <1>0, <1>3, <1>5, <1>6, <1>7, <1>8 DEF IsBranch

LEMMA StubFacts ==
    ASSUME Typed
    PROVE  Encode(Stub, original, 0) \in Nat /\ IsBranch(Encode(Stub, original, 0))
<1>1. Stub \in Int /\ original \in Int /\ 0 \in {0, 1}
    BY PlaceFacts DEF Typed
<1> QED BY <1>1, EncodeFacts

LEMMA TargetFacts ==
    ASSUME NEW src \in Int, NEW word \in Nat
    PROVE  Target(src, word) \in Int
<1>1. PICK low \in Nat \ {0} : low = Low
    BY VshAssumption
<1>2. PICK disp \in Nat : disp = (word \div 4) % (2 * low)
    OBVIOUS
<1> QED BY <1>1, <1>2 DEF Target

\* Chunks are the multiples of their size, so the next one begins where one ends.
LEMMA ChunkFacts ==
    ASSUME NEW s \in Chunks, NEW t \in Chunks
    PROVE  /\ s \in Nat /\ s >= Base
           /\ s < t + Chunk => s <= t
           /\ s < Base + Size => s + Chunk \in Chunks
<1>1. PICK n \in 0 .. Size : s = Base + n * Chunk
    BY DEF Chunks
<1>2. PICK m \in 0 .. Size : t = Base + m * Chunk
    BY DEF Chunks
<1>3. /\ n \in Nat /\ m \in Nat /\ Size \in Nat
      /\ Base \in Nat /\ Chunk \in Nat /\ Chunk > 0
    BY VshAssumption
<1>4. n * Chunk \in Nat /\ n * Chunk >= n
    BY <1>3
<1>5. s < t + Chunk => s <= t
    <2> SUFFICES ASSUME n > m PROVE s >= t + Chunk
        <3>1. n <= m => n * Chunk <= m * Chunk
            BY <1>3
        <3>2. m * Chunk \in Nat
            BY <1>3
        <3> QED BY <1>1, <1>2, <1>3, <1>4, <3>1, <3>2
    <2>1. n >= m + 1 /\ (m + 1) * Chunk = m * Chunk + Chunk
        BY <1>3
    <2>2. n * Chunk >= (m + 1) * Chunk
        BY <1>3, <2>1
    <2>3. m * Chunk \in Nat
        BY <1>3
    <2> QED BY <1>1, <1>2, <1>3, <1>4, <2>1, <2>2, <2>3
<1>6. s < Base + Size => s + Chunk \in Chunks
    <2> SUFFICES ASSUME s < Base + Size PROVE s + Chunk \in Chunks
        OBVIOUS
    <2>1. n < Size
        BY <1>1, <1>3, <1>4
    <2>2. n + 1 \in 0 .. Size /\ s + Chunk = Base + (n + 1) * Chunk
        BY <1>1, <1>3, <2>1
    <2> QED BY <2>2 DEF Chunks
<1> QED BY <1>1, <1>3, <1>4, <1>5, <1>6

LEMMA SignatureFacts == Width \in Nat /\ Width >= 1
BY VshAssumption DEF Width

LEMMA LoadFacts ==
    ASSUME NEW image \in Images
    PROVE  \A a \in DOMAIN Load(image) : a \in Nat /\ Load(image)[a] \in Byte
<1>1. image \in Seq(Byte) /\ Base \in Nat
    BY VshAssumption
<1>2. DOMAIN Load(image) = Base .. Base + Len(image) - 1
    BY DEF Load
<1> SUFFICES ASSUME NEW a \in Base .. Base + Len(image) - 1
             PROVE  a \in Nat /\ Load(image)[a] \in Byte
    BY <1>2
<1>3. a \in Nat /\ a - Base + 1 \in 1 .. Len(image)
    BY <1>1
<1>4. image[a - Base + 1] \in Byte
    BY <1>1, <1>3
<1>5. Load(image)[a] = image[a - Base + 1]
    BY DEF Load
<1> QED BY <1>3, <1>4, <1>5

\* A word of memory is a number.
LEMMA WordFacts ==
    ASSUME Typed, NEW a \in Int, a .. a + 3 \subseteq DOMAIN memory
    PROVE  WordAt(memory, a) \in Nat
<1>1. a \in DOMAIN memory /\ a + 1 \in DOMAIN memory /\ a + 2 \in DOMAIN memory /\ a + 3 \in DOMAIN memory
    OBVIOUS
<1>2. PICK b0, b1, b2, b3 \in Nat :
          b0 = memory[a] /\ b1 = memory[a + 1] /\ b2 = memory[a + 2] /\ b3 = memory[a + 3]
    <2>1. \A x \in Byte : x \in Nat
        BY VshAssumption DEF Byte
    <2> QED BY <1>1, <2>1 DEF Typed
<1>3. PICK size \in Nat : size = ByteSize
    BY VshAssumption
<1>4. b0 * size + b1 \in Nat
    OBVIOUS
<1>5. (b0 * size + b1) * size + b2 \in Nat
    BY <1>4
<1>6. ((b0 * size + b1) * size + b2) * size + b3 \in Nat
    BY <1>5
<1> QED BY <1>2, <1>3, <1>6 DEF WordAt

LEMMA CallFacts ==
    ASSUME Typed, NEW a \in CallSites
    PROVE  a \in Nat /\ WordAt(memory, a) \in Nat /\ IsBranch(WordAt(memory, a))
<1>1. a \in DOMAIN memory /\ a .. a + 3 \subseteq DOMAIN memory /\ IsBranch(WordAt(memory, a))
    BY DEF CallSites, Calls
<1> QED BY <1>1, WordFacts DEF Typed

\* The bytes that are written.
LEMMA RedirectedFacts ==
    ASSUME Typed
    PROVE  \A a \in DOMAIN Redirected : a \in Nat /\ Redirected[a] \in Byte
<1>1. PICK word \in Nat : word = Encode(Site, HookEntry, 1)
    <2>1. Site \in Int /\ HookEntry \in Int /\ 1 \in {0, 1}
        BY PlaceFacts DEF Typed, Site
    <2>2. Encode(Site, HookEntry, 1) \in Nat
        BY <2>1, EncodeFacts
    <2> QED BY <2>2
<1>2. \A i \in 1 .. 4 : BytesOf(word)[i] \in Byte
    <2>1. PICK size \in Nat \ {0} : size = ByteSize
        BY VshAssumption
    <2>2. ASSUME NEW x \in Nat PROVE x % size \in 0 .. size - 1
        OBVIOUS
    <2>3. size * size \in Nat \ {0} /\ size * size * size \in Nat \ {0}
        <3>1. \A m, n \in Nat \ {0} : m * n \in Nat \ {0}
            OBVIOUS
        <3> QED BY <3>1
    <2>4. /\ word \div (size * size * size) \in Nat /\ word \div (size * size) \in Nat
          /\ word \div size \in Nat
        <3>1. \A n \in Nat \ {0} : word \div n \in Nat
            OBVIOUS
        <3> QED BY <2>3, <3>1
    <2>5. /\ BytesOf(word)[1] = (word \div (size * size * size)) % size
          /\ BytesOf(word)[2] = (word \div (size * size)) % size
          /\ BytesOf(word)[3] = (word \div size) % size
          /\ BytesOf(word)[4] = word % size
        BY <2>1 DEF BytesOf
    <2>6. /\ BytesOf(word)[1] \in 0 .. size - 1 /\ BytesOf(word)[2] \in 0 .. size - 1
          /\ BytesOf(word)[3] \in 0 .. size - 1 /\ BytesOf(word)[4] \in 0 .. size - 1
        BY <2>2, <2>4, <2>5
    <2> TAKE i \in 1 .. 4
    <2>7. i = 1 \/ i = 2 \/ i = 3 \/ i = 4
        OBVIOUS
    <2> QED BY <2>1, <2>6, <2>7 DEF Byte
<1> SUFFICES ASSUME NEW a \in DOMAIN memory
             PROVE  a \in Nat /\ Redirected[a] \in Byte
    BY DEF Redirected
<1>3. a \in Nat /\ memory[a] \in Byte /\ Site \in Nat
    BY DEF Typed, Site
<1>4. a \in SiteBytes => a - Site + 1 \in 1 .. 4
    BY <1>3 DEF SiteBytes
<1>5. Redirected[a] = IF a \in SiteBytes THEN BytesOf(word)[a - Site + 1] ELSE memory[a]
    BY <1>1 DEF Redirected
<1> QED BY <1>2, <1>3, <1>4, <1>5

LEMMA TypedInit == Init => Typed
<1> SUFFICES ASSUME Init PROVE Typed
    OBVIOUS
<1>1. \A a \in DOMAIN memory : a \in Nat /\ memory[a] \in Byte
    BY LoadFacts DEF Init
<1>2. seek \in Chunks
    <2>1. seek = Base + 0 * Chunk /\ 0 \in 0 .. Size
        BY VshAssumption DEF Init
    <2> QED BY <2>1 DEF Chunks
<1>3. kernel \in Kernels /\ place \in Placements /\ stub = Trap
    BY DEF Init
<1>4. /\ found = 0 /\ original = 0 /\ at = 0 /\ pc = "scan"
      /\ readHen = FALSE /\ writeHen = FALSE /\ unread = {} /\ failed = {}
    BY DEF Init
<1>5. /\ stub \in Nat
      /\ found \in Nat /\ original \in Int /\ at \in Int
      /\ pc \in {"scan", "read", "stub", "call", "done"}
    BY <1>3, <1>4, VshAssumption
<1>6. /\ readHen \in BOOLEAN /\ writeHen \in BOOLEAN
      /\ unread \subseteq Nat /\ failed \subseteq {"read", "stub", "call"}
    BY <1>4
<1> QED BY <1>1, <1>2, <1>3, <1>5, <1>6 DEF Typed

\* The next chunk.
LEMMA NextChunk ==
    ASSUME Typed, MoreToScan
    PROVE  seek \in Nat /\ seek + Chunk \in Chunks
<1>1. seek \in Chunks /\ seek \in Nat
    BY ChunkFacts DEF Typed
<1>2. seek < Base + Size
    BY <1>1, SignatureFacts, VshAssumption DEF MoreToScan
<1> QED BY <1>1, <1>2, ChunkFacts

\* Hits lie in the chunk.
LEMMA HitFacts ==
    ASSUME NEW s \in Nat, NEW hit \in Hits(s)
    PROVE  hit = 0 \/ hit \in s .. s + Chunk - 1
BY DEF Hits

LEMMA TypedStep == Typed /\ [Next]_vars => Typed'
<1> SUFFICES ASSUME Typed, [Next]_vars PROVE Typed'
    OBVIOUS
<1>1. CASE ScanChunk
    <2>1. /\ UNCHANGED <<kernel, place, memory, stub, original, at, writeHen, unread, failed>>
          /\ pc = "scan" /\ MoreToScan
        BY <1>1 DEF ScanChunk, patcher
    <2>2. readHen' \in BOOLEAN
        BY <1>1 DEF ScanChunk, Results
    <2>3. PICK hit \in Hits(seek) :
              IF hit = 0 THEN seek' = seek + Chunk /\ UNCHANGED <<pc, found>>
              ELSE found' = hit + Offset /\ pc' = "read" /\ seek' = seek
        BY <1>1 DEF ScanChunk
    <2>4. seek \in Nat /\ seek' \in Chunks
        BY <2>1, <2>3, NextChunk DEF Typed
    <2>5. found' \in Nat /\ pc' \in {"scan", "read"}
        <3>1. hit = 0 \/ hit \in seek .. seek + Chunk - 1
            BY <2>4, HitFacts
        <3>2. hit \in Nat /\ Offset \in Nat
            BY <2>4, <3>1, VshAssumption
        <3>3. hit + Offset \in Nat
            BY <3>2
        <3>4. CASE hit = 0
            <4>1. found' = found /\ pc' = "scan"
                BY <2>1, <2>3, <3>4
            <4>2. found \in Nat
                BY DEF Typed
            <4> QED BY <4>1, <4>2
        <3>5. CASE hit # 0
            BY <2>3, <3>3, <3>5
        <3> QED BY <3>4, <3>5
    <2> QED BY <2>1, <2>2, <2>4, <2>5 DEF Typed
<1>2. CASE SkipChunk
    <2>1. /\ UNCHANGED <<kernel, place, memory, stub, original, at, writeHen, failed, pc, found>>
          /\ MoreToScan /\ seek' = seek + Chunk /\ unread' = unread \cup {seek}
        BY <1>2 DEF SkipChunk, patcher
    <2>2. readHen' \in BOOLEAN
        BY <1>2 DEF SkipChunk, Results
    <2> QED BY <2>1, <2>2, NextChunk DEF Typed
<1>3. CASE ScanEnds
    BY <1>3 DEF ScanEnds, scanner, patcher, switches, Typed
<1>4. CASE ReadOriginal
    <2>1. /\ UNCHANGED <<kernel, place, memory, stub, at, writeHen, unread, seek, found>>
          /\ pc' = "stub"
        BY <1>4 DEF ReadOriginal, scanner
    <2>2. readHen' \in BOOLEAN /\ failed' \subseteq {"read", "stub", "call"}
        BY <1>4 DEF ReadOriginal, Results, Typed
    <2>3. original' \in Int
        <3>1. PICK r \in Results(readHen) :
                  /\ r[1] => SiteBytes \subseteq DOMAIN memory
                  /\ original' = Target(Site, IF r[1] THEN WordAt(memory, Site) ELSE 0)
            BY <1>4 DEF ReadOriginal
        <3>2. Site \in Int
            BY DEF Typed, Site
        <3>3. CASE ~r[1]
            BY <3>1, <3>2, <3>3, TargetFacts
        <3>4. CASE r[1]
            <4>1. WordAt(memory, Site) \in Nat
                BY <3>1, <3>2, <3>4, WordFacts DEF SiteBytes
            <4> QED BY <3>1, <3>2, <3>4, <4>1, TargetFacts
        <3> QED BY <3>3, <3>4
    <2> QED BY <2>1, <2>2, <2>3 DEF Typed
<1>5. CASE WriteStub
    <2>1. /\ UNCHANGED <<kernel, place, memory, original, at, readHen, unread, seek, found>>
          /\ pc' = "call"
        BY <1>5 DEF WriteStub, scanner
    <2>2. writeHen' \in BOOLEAN /\ failed' \subseteq {"read", "stub", "call"}
        BY <1>5 DEF WriteStub, Results, Typed
    <2>3. stub' \in Nat
        <3>1. Encode(Stub, original, 0) \in Nat
            BY StubFacts
        <3> QED BY <1>5, <3>1 DEF WriteStub, Typed
    <2> QED BY <2>1, <2>2, <2>3 DEF Typed
<1>6. CASE WriteCall
    <2>1. /\ UNCHANGED <<kernel, place, stub, original, at, readHen, unread, seek, found>>
          /\ pc' = "done"
        BY <1>6 DEF WriteCall, scanner
    <2>2. writeHen' \in BOOLEAN /\ failed' \subseteq {"read", "stub", "call"}
        BY <1>6 DEF WriteCall, Results, Typed
    <2>3. \A a \in DOMAIN memory' : a \in Nat /\ memory'[a] \in Byte
        <3>1. memory' = memory \/ memory' = Redirected
            BY <1>6 DEF WriteCall
        <3> QED BY <3>1, RedirectedFacts DEF Typed
    <2> QED BY <2>1, <2>2, <2>3 DEF Typed
<1>7. CASE Enter
    <2>1. at' \in CallSites
        BY <1>7 DEF Enter
    <2>2. at' \in Int
        BY <2>1, CallFacts
    <2> QED BY <1>7, <2>2 DEF Enter, scanner, patcher, switches, Typed
<1>8. CASE Execute
    <2>1. at' \in Int
        <3>1. CASE at \in CallSites /\ at' = Target(at, WordAt(memory, at))
            <4>1. WordAt(memory, at) \in Nat
                BY <3>1, CallFacts
            <4> QED BY <3>1, <4>1, TargetFacts DEF Typed
        <3>2. CASE at = Stub /\ IsBranch(stub) /\ at' = Target(Stub, stub)
            <4>1. stub \in Nat
                BY DEF Typed
            <4> QED BY <3>2, <4>1, TargetFacts, PlaceFacts
        <3>3. CASE at = HookEntry /\ at' = Stub
            BY <3>3, PlaceFacts
        <3>4. CASE at = Orig /\ at' = 0
            BY <3>4
        <3> QED BY <1>8, <3>1, <3>2, <3>3, <3>4 DEF Execute
    <2> QED BY <1>8, <2>1 DEF Execute, scanner, patcher, switches, Typed
<1>9. CASE UNCHANGED vars
    BY <1>9 DEF vars, scanner, patcher, switches, Typed
<1> QED BY <1>1, <1>2, <1>3, <1>4, <1>5, <1>6, <1>7, <1>8, <1>9 DEF Next, RunPatch

\* The hook is put up without a word, an address or a switch going wrong (TypeOK).
THEOREM TypeCorrect == Spec => []TypeOK
<1>1. Typed => TypeOK
    BY DEF Typed, TypeOK
<1> QED BY <1>1, TypedInit, TypedStep, PTL DEF Spec

-----------------------------------------------------------------------------
\* Nobody in the VSH is at the plugin or on the way to it.
Clean ==
    /\ at \notin {HookEntry, Stub}
    /\ \A a \in CallSites : a \notin {HookEntry, Stub} /\ Target(a, WordAt(memory, a)) \notin {HookEntry, Stub}
    /\ {0, Orig} \cap {HookEntry, Stub} = {}

\* The call may lead to the hook only once the stub is a jump; if the jump could not
\* be written, only PS3MAPI can still write the call.
Guarded ==
    /\ pc = "call" /\ stub = Trap => "stub" \in failed /\ writeHen
    /\ stub = Trap => ("stub" \in failed /\ "hen" \in kernel) \/ Clean

LEMMA GuardedInit == Init => Guarded
<1> SUFFICES ASSUME Init PROVE Guarded
    OBVIOUS
<1>1. PICK image \in Images : memory = Load(image)
    BY DEF Init
<1>2. place \in Placements /\ at = 0 /\ pc = "scan"
    BY DEF Init
<1> DEFINE plugin == {place[1], place[2]}
<1>3. /\ plugin \cap ({0, Orig} \cup DOMAIN Load(image)) = {}
      /\ \A a \in Calls(Load(image)) : Target(a, WordAt(Load(image), a)) \notin plugin
    BY <1>2, VshAssumption
<1>4. Clean
    <2>1. CallSites = Calls(Load(image)) /\ CallSites \subseteq DOMAIN Load(image)
        BY <1>1 DEF CallSites, Calls
    <2>2. plugin = {HookEntry, Stub}
        BY DEF HookEntry, Stub
    <2> QED BY <1>1, <1>2, <1>3, <2>1, <2>2 DEF Clean
<1> QED BY <1>2, <1>4 DEF Guarded

\* What leaves place, memory and the thread alone leaves them clean.
LEMMA CleanKept ==
    ASSUME Clean, UNCHANGED <<place, memory, at>>
    PROVE  Clean'
BY DEF Clean, CallSites, HookEntry, Stub

LEMMA GuardedStep == Typed /\ Guarded /\ [Next]_vars => Guarded'
<1> SUFFICES ASSUME Typed, Guarded, [Next]_vars PROVE Guarded'
    OBVIOUS
<1>1. ASSUME pc \notin {"stub", "call"}, pc' # "call",
             UNCHANGED <<kernel, place, memory, stub, at>>,
             failed \subseteq failed'
      PROVE  Guarded'
    BY <1>1, CleanKept DEF Guarded
<1>2. CASE ScanChunk
    BY <1>1, <1>2 DEF ScanChunk, patcher
<1>3. CASE SkipChunk
    BY <1>1, <1>3 DEF SkipChunk, patcher
<1>4. CASE ScanEnds
    BY <1>1, <1>4 DEF ScanEnds, patcher
<1>5. CASE ReadOriginal
    BY <1>1, <1>5 DEF ReadOriginal
<1>6. CASE WriteStub
    <2>1. UNCHANGED <<kernel, place, memory, at>> /\ failed \subseteq failed'
        BY <1>6 DEF WriteStub
    <2>2. PICK r \in Results(writeHen) :
              /\ writeHen' = r[2]
              /\ stub' = IF r[1] THEN Encode(Stub, original, 0) ELSE stub
              /\ failed' = IF r[1] THEN failed ELSE failed \cup {"stub"}
        BY <1>6 DEF WriteStub
    <2>3. CASE r[1]
        <3>1. IsBranch(stub')
            BY <2>2, <2>3, StubFacts
        <3>2. stub' # Trap
            BY <3>1, VshAssumption
        <3> QED BY <3>2 DEF Guarded
    <2>4. CASE ~r[1]
        <3>1. stub' = stub /\ "stub" \in failed' /\ writeHen'
            BY <2>2, <2>4 DEF Results
        <3> QED BY <2>1, <3>1, CleanKept DEF Guarded
    <2> QED BY <2>3, <2>4
<1>7. CASE WriteCall
    <2>1. UNCHANGED <<kernel, place, stub, at>> /\ failed \subseteq failed'
        BY <1>7 DEF WriteCall
    <2>2. pc = "call" /\ pc' = "done"
        BY <1>7 DEF WriteCall
    <2>3. PICK r \in Results(writeHen) :
              memory' = IF r[1] THEN Redirected ELSE memory
        BY <1>7 DEF WriteCall
    <2>4. CASE r[1] /\ stub = Trap
        <3>1. "stub" \in failed /\ writeHen
            BY <2>2, <2>4 DEF Guarded
        <3>2. "hen" \in kernel
            BY <2>3, <2>4, <3>1 DEF Results
        <3> QED BY <2>1, <2>2, <3>1, <3>2 DEF Guarded
    <2>5. CASE ~r[1]
        BY <2>1, <2>2, <2>3, <2>5, CleanKept DEF Guarded
    <2>6. CASE stub # Trap
        BY <2>1, <2>2, <2>6 DEF Guarded
    <2> QED BY <2>4, <2>5, <2>6
<1>8. CASE Enter \/ Execute
    <2>1. UNCHANGED <<kernel, place, memory, stub, pc, writeHen, failed>>
        BY <1>8 DEF Enter, Execute, patcher, switches
    <2>2. ASSUME stub = Trap, Clean PROVE at' \notin {HookEntry, Stub}
        <3>1. CASE Enter
            BY <2>2, <3>1 DEF Enter, Clean
        <3>2. CASE Execute
            <4>1. ~IsBranch(stub)
                BY <2>2, VshAssumption
            <4> QED BY <2>2, <3>2, <4>1 DEF Execute, Clean
        <3> QED BY <1>8, <3>1, <3>2
    <2>3. ASSUME stub = Trap, Clean PROVE Clean'
        BY <2>1, <2>2, <2>3 DEF Clean, CallSites, HookEntry, Stub
    <2> QED BY <2>1, <2>3 DEF Guarded
<1>9. CASE UNCHANGED vars
    BY <1>9, CleanKept DEF vars, patcher, switches, Guarded
<1> QED BY <1>2, <1>3, <1>4, <1>5, <1>6, <1>7, <1>8, <1>9 DEF Next, RunPatch

\* No thread of the VSH is led to the stub while that is a trap, whatever is written
\* and whatever fails (NobodyTraps).
THEOREM TrapsAreNeverReached == Spec => []NobodyTraps
<1>1. Guarded => NobodyTraps
    BY DEF Guarded, NobodyTraps, Clean
<1> QED BY <1>1, TypedInit, TypedStep, GuardedInit, GuardedStep, PTL DEF Spec

-----------------------------------------------------------------------------
\* No match inside of chunk s.
Without(s) == \A b \in Nat : Inside(s, b) => ~Matches(b)

\* While it scans, PatternScan has found nothing in the chunks that it read.
Scan ==
    /\ pc = "scan" => /\ found = 0
                      /\ \A s \in Chunks \ unread : s < seek => Without(s)
    /\ pc \in {"read", "stub", "call"} => found # 0
    /\ pc # "done" => memory = vsh
    /\ FoundIsFirst /\ MissedIsCut

LEMMA ScanInit == Init => Scan
<1> SUFFICES ASSUME Init PROVE Scan
    OBVIOUS
<1>1. pc = "scan" /\ found = 0 /\ seek = Base /\ memory = vsh
    BY DEF Init
<1>2. \A s \in Chunks : ~(s < seek)
    <2>1. \A s \in Chunks : s \in Nat /\ s >= Base
        BY ChunkFacts
    <2> QED BY <1>1, <2>1, VshAssumption
<1> QED BY <1>1, <1>2 DEF Scan, FoundIsFirst, MissedIsCut

\* A match inside of a chunk that was read is among its sure hits, and they are matches.
LEMMA SureHits ==
    ASSUME NEW s \in Nat, Readable(s), NEW b \in Nat, Inside(s, b), memory = vsh
    PROVE  /\ b \in s .. s + Chunk - 1
           /\ MayMatch(s, b) <=> Matches(b)
<1>1. /\ Width \in Nat /\ Width >= 1 /\ Chunk \in Nat
      /\ s <= b /\ b + Width <= s + Chunk
    BY SignatureFacts, VshAssumption DEF Inside
<1>2. b \in s .. s + Chunk - 1 /\ b .. b + Width - 1 \subseteq s .. s + Chunk - 1
    BY <1>1
<1>3. \A j \in 1 .. Width : b + j - 1 < s + Chunk
    BY <1>1
<1> QED BY <1>2, <1>3 DEF MayMatch, Matches, Readable

\* What a chunk that was read yields: nothing, and then no match is inside of it; or the
\* first match, or a hit that reaches over its end.
LEMMA HitIsFirst ==
    ASSUME NEW s \in Nat, s > 0, Readable(s), NEW hit \in Hits(s), memory = vsh
    PROVE  /\ hit = 0 => Without(s)
           /\ hit # 0 => /\ hit \in s .. s + Chunk - 1
                         /\ Inside(s, hit) => Matches(hit)
                         /\ \A b \in Nat : Inside(s, b) /\ b < hit => ~Matches(b)
<1> DEFINE sure == {a \in s .. s + Chunk - 1 : Inside(s, a) /\ MayMatch(s, a)}
<1>0. Chunk \in Nat
    BY VshAssumption
<1>1. \A b \in Nat : Inside(s, b) /\ Matches(b) => b \in sure
    BY SureHits
<1>2. \A b \in sure : b \in Nat /\ b >= s /\ Inside(s, b) /\ Matches(b)
    BY <1>0, SureHits
<1>3. CASE sure = {}
    <2>1. hit = 0 \/ (hit \in s .. s + Chunk - 1 /\ ~Inside(s, hit))
        BY <1>3 DEF Hits
    <2> QED BY <1>1, <1>3, <2>1 DEF Without
<1>4. CASE sure # {}
    <2>1. hit \in sure /\ \A b \in sure : hit <= b
        BY <1>4 DEF Hits
    <2>2. hit \in Nat /\ hit # 0 /\ Matches(hit)
        BY <1>2, <2>1
    <2>3. \A b \in Nat : Inside(s, b) /\ b < hit => ~Matches(b)
        BY <1>1, <2>1, <2>2
    <2> QED BY <2>1, <2>2, <2>3
<1> QED BY <1>3, <1>4

LEMMA ScanStep == Typed /\ Scan /\ [Next]_vars => Scan'
<1> SUFFICES ASSUME Typed, Scan, [Next]_vars PROVE Scan'
    OBVIOUS
<1>0. /\ seek \in Chunks /\ seek \in Nat /\ seek > 0
      /\ Width \in Nat /\ Width >= 1 /\ Offset \in Nat /\ found \in Nat
      /\ Base \in Nat /\ Size \in Nat /\ Chunk \in Nat
    BY ChunkFacts, SignatureFacts, VshAssumption DEF Typed
<1>1. ASSUME UNCHANGED <<pc, memory, vsh, seek, found, unread>> PROVE Scan'
    BY <1>1 DEF Scan, FoundIsFirst, MissedIsCut, Matches, Without
<1>2. CASE ScanChunk
    <2>1. pc = "scan" /\ Readable(seek) /\ UNCHANGED <<memory, vsh, unread>> /\ memory = vsh
        BY <1>2 DEF ScanChunk, patcher, Scan
    <2>2. PICK hit \in Hits(seek) :
              IF hit = 0 THEN seek' = seek + Chunk /\ UNCHANGED <<pc, found>>
              ELSE found' = hit + Offset /\ pc' = "read" /\ seek' = seek
        BY <1>2 DEF ScanChunk
    <2>3. /\ hit = 0 => Without(seek)
          /\ hit # 0 => /\ hit \in seek .. seek + Chunk - 1
                        /\ Inside(seek, hit) => Matches(hit)
                        /\ \A b \in Nat : Inside(seek, b) /\ b < hit => ~Matches(b)
        BY <1>0, <2>1, HitIsFirst
    <2>4. \A b : Matches(b)' <=> Matches(b)
        BY <2>1 DEF Matches
    <2>5. CASE hit = 0
        <3>1. /\ seek' = seek + Chunk /\ pc' = "scan" /\ found' = 0
            BY <2>1, <2>2, <2>5 DEF Scan
        <3>2. ASSUME NEW s \in Chunks \ unread, s < seek + Chunk PROVE Without(s)
            <4>1. s <= seek /\ s \in Nat
                BY <1>0, <3>2, ChunkFacts
            <4> QED BY <1>0, <2>1, <2>3, <2>5, <4>1 DEF Scan
        <3> QED BY <2>1, <2>4, <3>1, <3>2 DEF Scan, Without, FoundIsFirst, MissedIsCut
    <2>6. CASE hit # 0
        <3>1. found' = hit + Offset /\ pc' = "read" /\ seek' = seek
            BY <2>2, <2>6
        <3>2. hit \in Nat /\ found' # 0 /\ found' - Offset = hit
            BY <1>0, <2>3, <2>6, <3>1
        <3>3. ASSUME NEW s \in Chunks \ unread, NEW b \in s .. hit - 1, Inside(s, b)
              PROVE  ~Matches(b)
            <4>1. s \in Nat /\ b \in Nat /\ s <= b /\ b < hit
                BY <3>2, ChunkFacts
            <4>2. s < seek + Chunk
                BY <1>0, <2>3, <2>6, <4>1
            <4>3. s <= seek
                BY <1>0, <4>2, ChunkFacts
            <4>4. CASE s = seek
                BY <2>3, <2>6, <3>3, <4>1, <4>4
            <4>5. CASE s < seek
                BY <2>1, <3>3, <4>1, <4>5 DEF Scan, Without
            <4> QED BY <1>0, <4>1, <4>3, <4>4, <4>5
        <3>4. FoundIsFirst'
            BY <2>1, <2>3, <2>4, <2>6, <3>1, <3>2, <3>3 DEF FoundIsFirst
        <3> QED BY <2>1, <3>1, <3>2, <3>4 DEF Scan, MissedIsCut
    <2> QED BY <2>5, <2>6
<1>3. CASE SkipChunk
    <2>1. /\ pc = "scan" /\ UNCHANGED <<pc, memory, vsh, found>>
          /\ seek' = seek + Chunk /\ unread' = unread \cup {seek}
        BY <1>3 DEF SkipChunk, patcher
    <2>2. ASSUME NEW s \in Chunks \ unread', s < seek + Chunk PROVE Without(s)
        <3>1. s <= seek /\ s # seek /\ s \in Nat
            BY <1>0, <2>1, <2>2, ChunkFacts
        <3> QED BY <1>0, <2>1, <3>1 DEF Scan
    <2>3. \A b : Matches(b)' <=> Matches(b)
        BY <2>1 DEF Matches
    <2> QED BY <2>1, <2>2, <2>3 DEF Scan, Without, FoundIsFirst, MissedIsCut
<1>4. CASE ScanEnds
    <2>1. /\ pc = "scan" /\ pc' = "done" /\ UNCHANGED <<memory, vsh, seek, found, unread>>
          /\ ~(seek < Base + Size - Width)
        BY <1>4 DEF ScanEnds, scanner, patcher, MoreToScan
    <2>2. ASSUME NEW s \in Chunks \ unread, NEW b \in s .. Base + Size - Width - 1, Inside(s, b)
          PROVE  ~Matches(b)
        <3>1. s \in Nat /\ b \in Nat /\ s < seek
            BY <1>0, <2>1, ChunkFacts
        <3> QED BY <2>1, <2>2, <3>1 DEF Scan, Without
    <2>3. \A b : Matches(b)' <=> Matches(b)
        BY <2>1 DEF Matches
    <2> QED BY <2>1, <2>2, <2>3 DEF Scan, FoundIsFirst, MissedIsCut
<1>5. CASE ReadOriginal \/ WriteStub
    <2>1. /\ pc \in {"read", "stub"} /\ pc' \in {"stub", "call"}
          /\ UNCHANGED <<memory, vsh, seek, found, unread>>
        BY <1>5 DEF ReadOriginal, WriteStub, scanner
    <2> QED BY <2>1 DEF Scan, FoundIsFirst, MissedIsCut, Matches
<1>6. CASE WriteCall
    <2>1. pc = "call" /\ pc' = "done" /\ UNCHANGED <<vsh, seek, found, unread>>
        BY <1>6 DEF WriteCall, scanner
    <2> QED BY <2>1 DEF Scan, FoundIsFirst, MissedIsCut, Matches
<1>7. CASE Enter \/ Execute
    BY <1>1, <1>7 DEF Enter, Execute, scanner, patcher
<1>8. CASE UNCHANGED vars
    BY <1>1, <1>8 DEF vars, scanner, patcher
<1> QED BY <1>2, <1>3, <1>4, <1>5, <1>6, <1>7, <1>8 DEF Next, RunPatch

\* PatternScan finds the first match there is, but for those that its chunks cut or
\* that it cannot read, and putting up the hook does not change that (ScanFindsFirst).
THEOREM FirstMatchIsFound == Spec => []ScanFindsFirst
<1>1. Scan => ScanFindsFirst
    BY DEF Scan, ScanFindsFirst
<1> QED BY <1>1, TypedInit, TypedStep, ScanInit, ScanStep, PTL DEF Spec

-----------------------------------------------------------------------------
(***************************************************************************)
(* Detours.                                                                *)
(***************************************************************************)
\* A call of Hook.
IsHooking(h) ==
    /\ h = [by |-> h.by, step |-> h.step, ok |-> h.ok, of |-> h.of]
    /\ h.by \in Detours /\ h.step \in 0 .. HookSize + 2 /\ h.ok \in BOOLEAN

\* Without PS3MAPI a write fails only once the switch is on, and then all do.
OffForGood ==
    /\ SafeWithoutHen
    /\ hooking # Idle => IsHooking(hooking)
    /\ "hen" \notin kernel /\ hooking # Idle /\ ~hooking.ok => useHen

LEMMA AttemptFacts ==
    ASSUME NEW ok \in BOOLEAN, Attempt(ok)
    PROVE  /\ useHen' \in BOOLEAN
           /\ ~ok => useHen'
           /\ "hen" \notin kernel /\ useHen => ~ok /\ useHen'
<1>1. PICK r \in Results(useHen) : r[1] = ok /\ useHen' = r[2]
    BY DEF Attempt
<1>2. /\ r[1] \in BOOLEAN /\ r[2] \in BOOLEAN
      /\ ~r[2] => r[1] /\ ~useHen /\ "dbg" \in kernel
      /\ r[1] /\ r[2] => "hen" \in kernel
    BY <1>1 DEF Results
<1> QED BY <1>1, <1>2

\* An object, with a trampoline that lies below a place.
IsObject(o, top) ==
    /\ o = [made |-> o.made, addr |-> o.addr, len |-> o.len, saved |-> o.saved,
            start |-> o.start, opd |-> o.opd]
    /\ o.made \in BOOLEAN /\ o.len \in {0, HookSize}
    /\ IF o.len = 0 THEN o.addr = 0 ELSE o.addr \in Functions
    /\ Len(o.saved) = HookSize
    /\ {o.start, o.opd} \subseteq {0} \cup Trampolines .. top

Shapes ==
    /\ used \in Nat /\ hooks \in Nat /\ useHen \in BOOLEAN
    /\ DOMAIN detour = Detours
    /\ \A d \in Detours : IsObject(detour[d], Trampolines + used)
    /\ hooking # Idle => detour[hooking.by].len = HookSize
    /\ messy \subseteq Functions /\ torn \subseteq Functions

\* What the call of Hook that is under way may still write to the buffer.
Left == IF hooking = Idle \/ hooking.step > HookSize THEN 0
        ELSE (HookSize - hooking.step) * FarSize + FarSize

\* The buffer is written from one end to the other, and every call of Hook takes at most
\* its share of it.
Behind ==
    /\ used + Left <= hooks * LongestTrampoline
    /\ \A a \in DOMAIN code : a \in Nat /\ (a >= Trampolines + used => code[a] = Zeros)

DetourInv == OffForGood /\ Shapes /\ Behind

LEMMA Sizes == HookSize = 4 /\ FarSize = 6 /\ LongestTrampoline = 30
BY DEF HookSize, FarSize, LongestTrampoline

LEMMA FarLength ==
    ASSUME NEW target, NEW cond, NEW link
    PROVE  /\ Len(Far(target, cond, link, TRUE)) = 6
           /\ Len(Far(target, cond, link, FALSE)) = 4
<1>1. ASSUME NEW n \in Nat, NEW keep \in BOOLEAN, n = IF keep THEN 6 ELSE 4
      PROVE  Len(Far(target, cond, link, keep)) = n
    <2> DEFINE far == [k \in 1 .. n |-> [op |-> "far", part |-> k, size |-> n, target |-> target,
                                         cond |-> cond, link |-> link]]
    <2>1. Far(target, cond, link, keep) = far
        BY <1>1, Sizes DEF Far
    <2>2. far \in [1 .. n -> {far[k] : k \in 1 .. n}]
        OBVIOUS
    <2> HIDE DEF far
    <2>3. Len(far) = n
        BY <2>2
    <2> QED BY <2>1, <2>3
<1> QED BY <1>1

LEMMA RelocateLength ==
    ASSUME NEW word, NEW a
    PROVE  Len(Relocate(word, a)) \in 1 .. 6
<1>1. Len(<<word>>) = 1
    OBVIOUS
<1>2. \/ Relocate(word, a) = <<word>>
      \/ \E t : Relocate(word, a) = Far(t, word.cond, word.link, TRUE)
    BY DEF Relocate, RelocateBranch
<1>3. \A t : Len(Far(t, word.cond, word.link, TRUE)) = 6
    BY FarLength
<1>4. CASE Relocate(word, a) = <<word>>
    BY <1>1, <1>4
<1>5. CASE \E t : Relocate(word, a) = Far(t, word.cond, word.link, TRUE)
    <2>1. PICK t : Relocate(word, a) = Far(t, word.cond, word.link, TRUE)
        BY <1>5
    <2>2. Len(Relocate(word, a)) = 6
        BY <1>3, <2>1
    <2> QED BY <2>2
<1> QED BY <1>2, <1>4, <1>5

\* Words that are put somewhere leave the others alone.
LEMMA PutFacts ==
    ASSUME \A x \in DOMAIN code : x \in Nat, NEW a \in Nat, NEW words, Len(words) \in Nat
    PROVE  /\ DOMAIN Put(a, words) = DOMAIN code
           /\ \A x \in DOMAIN code : x < a \/ x >= a + Len(words) => Put(a, words)[x] = code[x]
BY DEF Put

\* A set of numbers has a least one.
LEMMA LeastOf ==
    ASSUME NEW S \in SUBSET Nat, S # {}
    PROVE  \E x \in S : \A y \in S : x <= y
<1>1. IsWellFoundedOn(OpToRel(<, Nat), Nat)
    BY NatLessThanWellFounded
<1>2. PICK x \in S : \A y \in S : ~(<<y, x>> \in OpToRel(<, Nat))
    BY <1>1, WFMin
<1>3. \A y \in S : ~(y < x)
    BY <1>2 DEF OpToRel
<1> QED BY <1>3

\* The first stub of a name, if there is one.
LEMMA FindsFunction ==
    ASSUME NEW size, NEW lib, NEW fnid
    PROVE  Find(size, lib, fnid) = 0 \/ Find(size, lib, fnid) \in Functions
<1> DEFINE hits == {h \in Walked(size) \X (1 .. 4) :
                       /\ Table[h[1]].name = lib /\ h[2] \in DOMAIN Table[h[1]].stubs
                       /\ Table[h[1]].stubs[h[2]].fnid = fnid}
           First(h) == \A k \in hits : h[1] < k[1] \/ (h[1] = k[1] /\ h[2] <= k[2])
           first == CHOOSE h \in hits : First(h)
<1>1. Find(size, lib, fnid) = IF hits = {} THEN 0 ELSE Table[first[1]].stubs[first[2]].func
    BY DEF Find
<1>2. \A h \in hits : /\ h[1] \in DOMAIN Table /\ h[1] \in Nat /\ h[2] \in Nat
                      /\ h[2] \in DOMAIN Table[h[1]].stubs
    BY DetourAssumption DEF Layout, Walked
<1>3. ASSUME hits # {} PROVE \E h \in hits : First(h)
    <2> HIDE DEF hits
    <2> DEFINE rows == {h[1] : h \in hits}
    <2>1. rows \in SUBSET Nat /\ rows # {}
        BY <1>2, <1>3
    <2>2. PICK i \in rows : \A j \in rows : i <= j
        BY <2>1, LeastOf
    <2> DEFINE places == {h[2] : h \in {k \in hits : k[1] = i}}
    <2>3. places \in SUBSET Nat /\ places # {}
        BY <1>2
    <2>4. PICK m \in places : \A n \in places : m <= n
        BY <2>3, LeastOf
    <2>5. PICK h \in hits : h[1] = i /\ h[2] = m
        OBVIOUS
    <2>6. \A k \in hits : h[1] < k[1] \/ (h[1] = k[1] /\ h[2] <= k[2])
        <3> SUFFICES ASSUME NEW k \in hits, ~(h[1] < k[1])
                     PROVE  h[1] = k[1] /\ h[2] <= k[2]
            OBVIOUS
        <3>1. h[1] = k[1]
            <4>1. k[1] \in rows /\ k[1] \in Nat /\ h[1] \in Nat
                BY <1>2
            <4> QED BY <2>2, <2>5, <4>1
        <3>2. k[2] \in places
            BY <2>5, <3>1
        <3> QED BY <2>4, <2>5, <3>1, <3>2
    <2> QED BY <2>6
<1>4. hits # {} => first \in hits
    <2> HIDE DEF hits
    <2> QED BY <1>3
<1> HIDE DEF first, hits
<1> QED BY <1>1, <1>2, <1>4, DetourAssumption DEF Layout

-----------------------------------------------------------------------------
LEMMA DetourStarts == DetourInit => DetourInv
<1> SUFFICES ASSUME DetourInit PROVE DetourInv
    OBVIOUS
<1>1. /\ used = 0 /\ detour = [d \in Detours |-> NoObject] /\ hooking = Idle
      /\ useHen = FALSE /\ messy = {} /\ torn = {} /\ hooks = 0
      /\ code = [a \in DOMAIN Image \cup Room |->
                    IF a \in DOMAIN Image THEN Image[a] ELSE Zeros]
    BY DEF DetourInit
<1>2. OffForGood
    BY <1>1 DEF OffForGood, SafeWithoutHen
<1>3. Shapes /\ Behind
    <2>1. Trampolines \in Nat /\ \A a \in DOMAIN Image : a \in Nat /\ a < Trampolines
        BY DetourAssumption DEF Layout
    <2>2. IsObject(NoObject, Trampolines + used)
        <3>1. Len(<<Zeros, Zeros, Zeros, Zeros>>) = HookSize
            BY Sizes
        <3> QED BY <3>1 DEF IsObject, NoObject
    <2>3. Shapes
        BY <1>1, <2>2 DEF Shapes
    <2>4. /\ \A a \in DOMAIN code : a \in DOMAIN Image \/ a \in Room
          /\ \A a \in DOMAIN code : a \notin DOMAIN Image => code[a] = Zeros
        BY <1>1
    <2>5. \A a \in DOMAIN code : a \in Nat /\ (a >= Trampolines + used => code[a] = Zeros)
        BY <1>1, <2>1, <2>4 DEF Room
    <2>6. used + Left <= hooks * LongestTrampoline
        BY <1>1, Sizes DEF Left
    <2> QED BY <2>3, <2>5, <2>6 DEF Behind
<1> QED BY <1>2, <1>3 DEF DetourInv

-----------------------------------------------------------------------------
\* How the call of Hook goes on.
LEMMA HookingNext ==
    ASSUME IsHooking(hooking), NEW ok \in BOOLEAN, hooking.step <= HookSize + 1,
           \/ hooking' = [hooking EXCEPT !.step = @ + 1, !.ok = @ /\ ok]
           \/ hooking' = [hooking EXCEPT !.step = @ + 1] /\ ok
    PROVE  /\ IsHooking(hooking') /\ hooking'.by = hooking.by /\ hooking'.step = hooking.step + 1
           /\ hooking'.ok = (hooking.ok /\ ok)
<1> DEFINE b == hooking.by
           s == hooking.step
           o == hooking.ok
           f == hooking.of
<1>1. /\ hooking = [by |-> b, step |-> s, ok |-> o, of |-> f]
      /\ b \in Detours /\ s \in 0 .. HookSize + 2 /\ o \in BOOLEAN /\ s <= HookSize + 1
    BY DEF IsHooking
<1> HIDE DEF b, s, o, f
<1>2. hooking' = [by |-> b, step |-> s + 1, ok |-> (o /\ ok), of |-> f]
    <2>1. CASE hooking' = [hooking EXCEPT !.step = @ + 1, !.ok = @ /\ ok]
        BY <1>1, <2>1
    <2>2. CASE hooking' = [hooking EXCEPT !.step = @ + 1] /\ ok
        BY <1>1, <2>2
    <2> QED BY <2>1, <2>2
<1>3. s + 1 \in 0 .. HookSize + 2 /\ (o /\ ok) \in BOOLEAN
    BY <1>1, Sizes
<1> QED BY <1>1, <1>2, <1>3 DEF IsHooking, b, s, o, f

LEMMA OffStep == OffForGood /\ [DetourNext]_detourVars => OffForGood'
<1> SUFFICES ASSUME OffForGood, [DetourNext]_detourVars PROVE OffForGood'
    OBVIOUS
<1> USE DEF OffForGood, SafeWithoutHen
<1>1. ASSUME UNCHANGED <<kernel, hooking, useHen, torn>> PROVE OffForGood'
    BY <1>1
<1>2. ASSUME NEW d \in Detours, NEW f, Save(d, f) PROVE OffForGood'
    <2>1. PICK ok \in BOOLEAN :
              /\ Attempt(ok)
              /\ hooking' = [by |-> d, step |-> 0, ok |-> ok, of |-> StandsAt(f)]
        BY <1>2 DEF Save
    <2>2. UNCHANGED <<kernel, torn>>
        BY <1>2 DEF Save, history
    <2>3. IsHooking(hooking') /\ hooking'.ok = ok
        BY <2>1, Sizes DEF IsHooking
    <2> QED BY <2>1, <2>2, <2>3, AttemptFacts
<1>3. ASSUME CopyWord \/ JumpBack PROVE OffForGood'
    <2>1. PICK ok \in BOOLEAN :
              /\ Attempt(ok)
              /\ hooking' = [hooking EXCEPT !.step = @ + 1, !.ok = @ /\ ok]
        BY <1>3 DEF CopyWord, JumpBack, Write
    <2>2. /\ UNCHANGED <<kernel, torn>> /\ hooking # Idle /\ hooking.step <= HookSize + 1
        <3>1. CASE CopyWord
            BY <3>1, Sizes DEF CopyWord, Write, history, IsHooking
        <3>2. CASE JumpBack
            BY <3>2, Sizes DEF JumpBack, Write, history, IsHooking
        <3> QED BY <1>3, <3>1, <3>2
    <2>3. IsHooking(hooking') /\ hooking'.ok = (hooking.ok /\ ok)
        BY <2>1, <2>2, HookingNext
    <2>4. ~hooking'.ok => ~hooking.ok \/ ~ok
        BY <2>3
    <2> QED BY <2>1, <2>2, <2>3, <2>4, AttemptFacts
<1>4. ASSUME Redirect PROVE OffForGood'
    <2> DEFINE f == detour[hooking.by].addr
    <2>1. PICK ok \in BOOLEAN :
              /\ Attempt(ok)
              /\ torn' = IF ok /\ ~hooking.ok THEN torn \cup {f} ELSE torn
              /\ hooking' = [hooking EXCEPT !.step = @ + 1]
        BY <1>4 DEF Redirect, Write
    <2> HIDE DEF f
    <2>2. /\ UNCHANGED kernel /\ hooking # Idle /\ hooking.step <= HookSize + 1
        BY <1>4, Sizes DEF Redirect, Write
    <2>3. IsHooking(hooking') /\ hooking'.ok = (hooking.ok /\ TRUE)
        BY <2>1, <2>2, HookingNext
    <2>4. ~hooking'.ok => ~hooking.ok
        BY <2>3
    <2>5. "hen" \notin kernel /\ ~hooking.ok => ~ok /\ useHen'
        BY <2>1, <2>2, AttemptFacts
    <2>6. "hen" \notin kernel => torn' = {}
        BY <2>1, <2>5
    <2> QED BY <2>2, <2>3, <2>4, <2>5, <2>6
<1>5. CASE Describe
    BY <1>5 DEF Describe, console
<1>6. ASSUME NEW d, NEW after, PutBack(d, after) PROVE OffForGood'
    BY <1>6 DEF PutBack, Write
<1>7. CASE UNCHANGED detourVars
    BY <1>1, <1>7 DEF detourVars, console, history
<1>8. ASSUME NEW d \in Detours, NEW f \in Functions, Hook(d, f) PROVE OffForGood'
    BY <1>2, <1>8 DEF Hook
<1>9. ASSUME NEW d \in Detours, NEW size, NEW lib, NEW fnid, HookByFnid(d, size, lib, fnid)
      PROVE  OffForGood'
    <2>1. CASE Find(size, lib, fnid) = 0
        BY <1>1, <1>9, <2>1 DEF HookByFnid, console, history
    <2>2. CASE Find(size, lib, fnid) # 0
        BY <1>2, <1>9, <2>2 DEF HookByFnid
    <2> QED BY <2>1, <2>2
<1>10. ASSUME NEW d \in Detours, UnHook(d) PROVE OffForGood'
    BY <1>6, <1>10 DEF UnHook
<1>11. ASSUME NEW d \in Detours, Destroy(d) PROVE OffForGood'
    BY <1>1, <1>6, <1>11 DEF Destroy, console
<1> QED BY <1>3, <1>4, <1>5, <1>7, <1>8, <1>9, <1>10, <1>11 DEF DetourNext

-----------------------------------------------------------------------------
\* Objects.
LEMMA ObjectFields ==
    ASSUME NEW o, NEW top, IsObject(o, top), NEW s, NEW b
    PROVE  /\ [o EXCEPT !.made = b] =
                  [made |-> b, addr |-> o.addr, len |-> o.len, saved |-> o.saved,
                   start |-> o.start, opd |-> o.opd]
           /\ [o EXCEPT !.opd = s] =
                  [made |-> o.made, addr |-> o.addr, len |-> o.len, saved |-> o.saved,
                   start |-> o.start, opd |-> s]
<1> DEFINE m == o.made
           a == o.addr
           n == o.len
           w == o.saved
           t == o.start
           p == o.opd
           l == [made |-> m, addr |-> a, len |-> n, saved |-> w, start |-> t, opd |-> p]
<1>1. o = l
    BY DEF IsObject
<1> HIDE DEF m, a, n, w, t, p
<1>2. [l EXCEPT !.made = b] =
          [made |-> b, addr |-> a, len |-> n, saved |-> w, start |-> t, opd |-> p]
    OBVIOUS
<1>3. [l EXCEPT !.opd = s] =
          [made |-> m, addr |-> a, len |-> n, saved |-> w, start |-> t, opd |-> s]
    OBVIOUS
<1> HIDE DEF l
<1> QED BY <1>1, <1>2, <1>3 DEF m, a, n, w, t, p

LEMMA IntervalGrows ==
    ASSUME NEW t \in Nat, NEW u \in Nat, NEW v \in Nat, u <= v
    PROVE  t .. t + u \subseteq t .. t + v
OBVIOUS

LEMMA ObjectsStep ==
    ASSUME Shapes, NEW d \in Detours, NEW o, IsObject(o, Trampolines + used),
           detour' = [detour EXCEPT ![d] = o], used' = used
    PROVE  /\ DOMAIN detour' = Detours /\ detour'[d] = o
           /\ \A e \in Detours : IsObject(detour'[e], Trampolines + used')
BY DEF Shapes

\* The buffer grows.
LEMMA ObjectsStay ==
    ASSUME Shapes, detour' = detour, used' \in Nat, used <= used'
    PROVE  \A e \in Detours : IsObject(detour'[e], Trampolines + used')
<1>1. Trampolines \in Nat /\ used \in Nat
    BY DetourAssumption DEF Layout, Shapes
<1>2. Trampolines .. Trampolines + used \subseteq Trampolines .. Trampolines + used'
    BY <1>1, IntervalGrows
<1>3. \A e \in Detours : IsObject(detour[e], Trampolines + used)
    BY DEF Shapes
<1> QED BY <1>2, <1>3 DEF IsObject

\* A write that ends before the rest of the buffer leaves the rest alone.
LEMMA RestStays ==
    ASSUME Shapes, Behind, NEW a \in Nat, NEW words, Len(words) \in Nat,
           NEW ok \in BOOLEAN, code' = IF ok THEN Put(a, words) ELSE code,
           used' \in Nat, used <= used', a + Len(words) <= Trampolines + used'
    PROVE  \A x \in DOMAIN code' :
              x \in Nat /\ (x >= Trampolines + used' => code'[x] = Zeros)
<1>1. Trampolines \in Nat /\ used \in Nat
    BY DetourAssumption DEF Layout, Shapes
<1>2. \A x \in DOMAIN code : x \in Nat /\ (x >= Trampolines + used => code[x] = Zeros)
    BY DEF Behind
<1>3. /\ DOMAIN Put(a, words) = DOMAIN code
      /\ \A x \in DOMAIN code : x < a \/ x >= a + Len(words) => Put(a, words)[x] = code[x]
    BY <1>2, PutFacts
<1>4. /\ DOMAIN code' = DOMAIN code
      /\ \A x \in DOMAIN code : x >= a + Len(words) => code'[x] = code[x]
    BY <1>3
<1> QED
    <2> SUFFICES ASSUME NEW x \in DOMAIN code
                 PROVE  x \in Nat /\ (x >= Trampolines + used' => code'[x] = Zeros)
        BY <1>4
    <2>1. x \in Nat
        BY <1>2
    <2>2. ASSUME x >= Trampolines + used' PROVE code'[x] = Zeros
        <3>1. x >= Trampolines + used /\ x >= a + Len(words)
            BY <1>1, <2>1, <2>2
        <3> QED BY <1>2, <1>4, <3>1
    <2> QED BY <2>1, <2>2

\* The words that Hook keeps, and those it puts over a function.
LEMMA WordsLength == \A f : Len(Words(f, HookSize)) = HookSize
<1> SUFFICES ASSUME NEW f PROVE Len(Words(f, HookSize)) = HookSize
    OBVIOUS
<1> DEFINE words == [i \in 1 .. 4 |-> code[f + i - 1]]
<1>1. Words(f, HookSize) = words
    BY Sizes DEF Words
<1>2. words \in [1 .. 4 -> {words[i] : i \in 1 .. 4}]
    OBVIOUS
<1> HIDE DEF words
<1>3. Len(words) = 4
    BY <1>2
<1> QED BY <1>1, <1>3, Sizes

LEMMA FunctionsAreBelow ==
    ASSUME NEW f \in Functions
    PROVE  f \in Nat /\ f + 4 <= Trampolines
<1>1. f \in Nat /\ f .. f + HookSize - 1 \subseteq DOMAIN Image /\ Trampolines \in Nat
    BY DetourAssumption DEF Layout
<1>2. f + 3 \in DOMAIN Image
    BY <1>1, Sizes
<1>3. f + 3 < Trampolines
    BY <1>2, DetourAssumption DEF Layout
<1> QED BY <1>1, <1>3

-----------------------------------------------------------------------------
LEMMA SaveStep ==
    ASSUME Shapes, Behind, NEW d \in Detours, NEW f \in Functions, Save(d, f)
    PROVE  Shapes' /\ Behind'
<1>0. /\ used \in Nat /\ hooks \in Nat /\ messy \subseteq Functions /\ torn \subseteq Functions
      /\ IsObject(detour[d], Trampolines + used) /\ DOMAIN detour = Detours
    BY DEF Shapes
<1>1. PICK ok \in BOOLEAN :
          /\ Attempt(ok)
          /\ detour' = [detour EXCEPT ![d] =
                [made |-> TRUE, addr |-> f, len |-> HookSize,
                 saved |-> IF ok THEN Words(f, HookSize) ELSE detour[d].saved,
                 start |-> Trampolines + used, opd |-> detour[d].opd]]
          /\ hooking' = [by |-> d, step |-> 0, ok |-> ok, of |-> StandsAt(f)]
    BY DEF Save
<1>2. /\ hooking = Idle /\ hooks' = hooks + 1
      /\ UNCHANGED <<code, used, messy, torn>>
    BY DEF Save, history
<1> DEFINE b == IF ok THEN Words(f, HookSize) ELSE detour[d].saved
           s == Trampolines + used
           o == [made |-> TRUE, addr |-> f, len |-> HookSize, saved |-> b,
                 start |-> s, opd |-> detour[d].opd]
<1>3. detour' = [detour EXCEPT ![d] = o]
    BY <1>1
<1>4. IsObject(o, Trampolines + used)
    <2>1. Len(b) = HookSize
        BY <1>0, WordsLength DEF IsObject
    <2>2. detour[d].opd \in {0} \cup Trampolines .. Trampolines + used
        BY <1>0 DEF IsObject
    <2>3. s \in Trampolines .. Trampolines + used
        BY <1>0, DetourAssumption DEF Layout
    <2> HIDE DEF b, s
    <2> QED BY <2>1, <2>2, <2>3, Sizes DEF IsObject
<1> HIDE DEF o
<1>5. /\ DOMAIN detour' = Detours /\ detour'[d] = o
      /\ \A e \in Detours : IsObject(detour'[e], Trampolines + used')
    BY <1>2, <1>3, <1>4, ObjectsStep
<1>6. detour'[hooking'.by].len = HookSize
    BY <1>1, <1>5 DEF o
<1>7. useHen' \in BOOLEAN
    BY <1>1, AttemptFacts
<1>8. Shapes'
    BY <1>0, <1>2, <1>5, <1>6, <1>7 DEF Shapes
<1>9. used' + Left' <= hooks' * LongestTrampoline
    <2>1. Left = 0 /\ Left' \in {0, 30}
        BY <1>1, <1>2, Sizes DEF Left
    <2>2. used <= hooks * 30
        BY <1>0, <2>1, Sizes DEF Behind
    <2>3. (hooks + 1) * 30 = hooks * 30 + 30
        BY <1>0
    <2>4. hooks' * LongestTrampoline = hooks * 30 + 30
        BY <1>2, <2>3, Sizes
    <2>5. used' + Left' <= used + 30
        <3>1. used' = used /\ used \in Nat
            BY <1>0, <1>2
        <3>2. CASE Left' = 0
            BY <3>1, <3>2
        <3>3. CASE Left' = 30
            BY <3>1, <3>3
        <3> QED BY <2>1, <3>2, <3>3
    <2>6. used + 30 <= hooks * 30 + 30
        BY <1>0, <2>2
    <2>7. used' + Left' \in Int /\ hooks * 30 \in Int
        BY <1>0, <1>2, <2>1
    <2> QED BY <1>0, <2>4, <2>5, <2>6, <2>7
<1> QED BY <1>2, <1>8, <1>9 DEF Behind

LEMMA TheyAdd ==
    ASSUME NEW u \in Int, NEW v \in Int, NEW l \in Int, NEW m \in Int,
           v <= u + 6, 6 + m <= l
    PROVE  v + m <= u + l
OBVIOUS

LEMMA CopyWordStep ==
    ASSUME OffForGood, Shapes, Behind, CopyWord \/ JumpBack
    PROVE  Shapes' /\ Behind'
<1>0. /\ used \in Nat /\ hooks \in Nat /\ messy \subseteq Functions /\ torn \subseteq Functions
      /\ DOMAIN detour = Detours /\ Trampolines \in Nat
    BY DetourAssumption DEF Shapes, Layout
<1>1. /\ hooking # Idle /\ hooking.step \in 0 .. 4
      /\ UNCHANGED <<detour, messy, torn, hooks>>
    <2>0. hooking # Idle => hooking.step \in 0 .. HookSize + 2
        BY DEF OffForGood, IsHooking
    <2>1. CASE CopyWord
        <3>1. /\ hooking # Idle /\ hooking.step <= HookSize
              /\ UNCHANGED <<detour, messy, torn, hooks>>
            <4>1. hooking # Idle /\ UNCHANGED <<detour, messy, torn, hooks>>
                BY <2>1 DEF CopyWord, history
            <4>2. hooking.step < HookSize
                BY <2>1 DEF CopyWord
            <4>3. hooking.step <= HookSize
                BY <2>0, <4>1, <4>2, Sizes
            <4> QED BY <4>1, <4>3
        <3> QED BY <2>0, <3>1, Sizes
    <2>2. CASE JumpBack
        <3>1. /\ hooking # Idle /\ hooking.step <= HookSize
              /\ UNCHANGED <<detour, messy, torn, hooks>>
            <4>1. hooking # Idle /\ UNCHANGED <<detour, messy, torn, hooks>>
                BY <2>2 DEF JumpBack, history
            <4>2. hooking.step = HookSize
                BY <2>2 DEF JumpBack
            <4>3. hooking.step <= HookSize
                BY <2>0, <4>1, <4>2, Sizes
            <4> QED BY <4>1, <4>3
        <3> QED BY <2>0, <3>1, Sizes
    <2> QED BY <2>1, <2>2
<1>2. IsHooking(hooking)
    BY <1>1 DEF OffForGood
<1>3. \E ok \in BOOLEAN : \E words :
          /\ Len(words) \in 1 .. 6
          /\ Attempt(ok)
          /\ code' = IF ok THEN Put(Trampolines + used, words) ELSE code
          /\ used' = used + Len(words)
          /\ hooking' = [hooking EXCEPT !.step = @ + 1, !.ok = @ /\ ok]
    <2>1. CASE CopyWord
        <3> DEFINE a == detour[hooking.by].addr + hooking.step
                   words == Relocate(code[a], a)
        <3>1. /\ used' = used + Len(words)
              /\ \E ok \in BOOLEAN :
                    /\ Attempt(ok)
                    /\ code' = IF ok THEN Put(Trampolines + used, words) ELSE code
                    /\ hooking' = [hooking EXCEPT !.step = @ + 1, !.ok = @ /\ ok]
            BY <2>1 DEF CopyWord, Write
        <3>2. Len(words) \in 1 .. 6
            BY RelocateLength
        <3> HIDE DEF words
        <3> QED BY <3>1, <3>2
    <2>2. CASE JumpBack
        <3> DEFINE words == Jump(detour[hooking.by].addr + HookSize, TRUE)
        <3>1. /\ used' = used + 6
              /\ \E ok \in BOOLEAN :
                    /\ Attempt(ok)
                    /\ code' = IF ok THEN Put(Trampolines + used, words) ELSE code
                    /\ hooking' = [hooking EXCEPT !.step = @ + 1, !.ok = @ /\ ok]
            BY <2>2, Sizes DEF JumpBack, Write
        <3>2. Len(words) = 6
            BY FarLength DEF Jump
        <3> HIDE DEF words
        <3>3. Len(words) \in 1 .. 6 /\ used' = used + Len(words)
            BY <3>1, <3>2
        <3> QED BY <3>1, <3>3
    <2> QED BY <2>1, <2>2
<1>4. PICK ok \in BOOLEAN : \E words :
          /\ Len(words) \in 1 .. 6
          /\ Attempt(ok)
          /\ code' = IF ok THEN Put(Trampolines + used, words) ELSE code
          /\ used' = used + Len(words)
          /\ hooking' = [hooking EXCEPT !.step = @ + 1, !.ok = @ /\ ok]
    BY <1>3
<1>5. PICK words :
          /\ Len(words) \in 1 .. 6
          /\ Attempt(ok)
          /\ code' = IF ok THEN Put(Trampolines + used, words) ELSE code
          /\ used' = used + Len(words)
          /\ hooking' = [hooking EXCEPT !.step = @ + 1, !.ok = @ /\ ok]
    BY <1>4
<1>6. Len(words) \in Nat /\ used' \in Nat /\ used <= used' /\ used' <= used + 6
    <2> DEFINE n == Len(words)
    <2>1. n \in 1 .. 6 /\ used' = used + n /\ used \in Nat
        BY <1>0, <1>5
    <2> HIDE DEF n
    <2>2. n \in Nat /\ used' \in Nat /\ used <= used' /\ used' <= used + 6
        BY <2>1
    <2> QED BY <2>2 DEF n
<1>7. hooking'.by = hooking.by /\ hooking'.step = hooking.step + 1
    <2>1. hooking.step <= HookSize + 1
        BY <1>1, Sizes
    <2> QED BY <1>2, <1>5, <2>1, HookingNext
<1>8. \A e \in Detours : IsObject(detour'[e], Trampolines + used')
    BY <1>1, <1>6, ObjectsStay
<1>9. useHen' \in BOOLEAN
    BY <1>5, AttemptFacts
<1>10. detour'[hooking'.by].len = HookSize
    BY <1>1, <1>7 DEF Shapes
<1>11. Shapes'
    BY <1>0, <1>1, <1>6, <1>8, <1>9, <1>10 DEF Shapes
<1>12. \A x \in DOMAIN code' : x \in Nat /\ (x >= Trampolines + used' => code'[x] = Zeros)
    <2> DEFINE a == Trampolines + used
    <2>1. a \in Nat /\ a + Len(words) <= Trampolines + used'
        BY <1>0, <1>5, <1>6
    <2>2. code' = IF ok THEN Put(a, words) ELSE code
        BY <1>5
    <2> HIDE DEF a
    <2> QED BY <1>6, <2>1, <2>2, RestStays
<1>13. used' + Left' <= hooks' * LongestTrampoline
    <2> DEFINE s == hooking.step
    <2>1. s \in 0 .. 4 /\ hooking'.step = s + 1
        BY <1>1, <1>7
    <2>2. Left = (4 - s) * 6 + 6
        BY <1>1, <2>1, Sizes DEF Left
    <2>3. \/ Left' = 0
          \/ s + 1 <= 4 /\ Left' = (4 - (s + 1)) * 6 + 6
        BY <1>1, <2>1, Sizes DEF Left
    <2> HIDE DEF s
    <2>4. Left' \in Int /\ Left \in Int /\ 6 + Left' <= Left
        <3>1. CASE Left' = 0
            BY <2>1, <2>2, <3>1
        <3>2. CASE s + 1 <= 4 /\ Left' = (4 - (s + 1)) * 6 + 6
            BY <2>1, <2>2, <3>2
        <3> QED BY <2>3, <3>1, <3>2
    <2>5. used + Left <= hooks * 30 /\ hooks * 30 \in Int
        BY <1>0, Sizes DEF Behind
    <2>6. used' + Left' <= used + Left
        <3>1. /\ used \in Int /\ used' \in Int /\ used' <= used + 6
            BY <1>0, <1>6
        <3> DEFINE l == Left
                   m == Left'
        <3>2. l \in Int /\ m \in Int /\ 6 + m <= l
            BY <2>4
        <3> HIDE DEF l, m
        <3>3. used' + m <= used + l
            BY <3>1, <3>2, TheyAdd
        <3> QED BY <3>3 DEF l, m
    <2>7. hooks' * LongestTrampoline = hooks * 30
        BY <1>1, Sizes
    <2>8. used' + Left' \in Int /\ used + Left \in Int
        BY <1>0, <1>6, <2>4
    <2> QED BY <2>5, <2>6, <2>7, <2>8
<1> QED BY <1>11, <1>12, <1>13 DEF Behind

\* What is left of a call when nothing is written to the buffer.
LEMMA LeftStays ==
    ASSUME Behind, UNCHANGED <<used, hooks>>, Left' = Left
    PROVE  used' + Left' <= hooks' * LongestTrampoline
BY DEF Behind

LEMMA RedirectStep ==
    ASSUME OffForGood, Shapes, Behind, Redirect
    PROVE  Shapes' /\ Behind'
<1> DEFINE d == hooking.by
           f == detour[d].addr
           words == Jump(Callback[d], FALSE)
<1>0. /\ used \in Nat /\ hooks \in Nat /\ messy \subseteq Functions /\ torn \subseteq Functions
      /\ DOMAIN detour = Detours /\ Trampolines \in Nat
    BY DetourAssumption DEF Shapes, Layout
<1>1. /\ hooking # Idle /\ hooking.step = HookSize + 1
      /\ UNCHANGED <<used, detour, hooks>>
    BY DEF Redirect
<1>2. PICK ok \in BOOLEAN :
          /\ Attempt(ok)
          /\ code' = IF ok THEN Put(f, words) ELSE code
          /\ messy' = IF ok THEN messy ELSE messy \cup {f}
          /\ torn' = IF ok /\ ~hooking.ok THEN torn \cup {f} ELSE torn
          /\ hooking' = [hooking EXCEPT !.step = @ + 1]
    BY DEF Redirect, Write
<1>3. d \in Detours /\ IsHooking(hooking)
    BY <1>1 DEF OffForGood, IsHooking
<1>4. f \in Functions
    BY <1>1, <1>3, Sizes DEF Shapes, IsObject
<1>5. Len(words) = 4
    BY FarLength DEF Jump
<1>6. hooking'.by = d /\ hooking'.step = hooking.step + 1
    <2>1. hooking.step <= HookSize + 1
        BY <1>1, Sizes
    <2>2. hooking' = [hooking EXCEPT !.step = @ + 1] /\ TRUE
        BY <1>2
    <2> QED BY <1>3, <2>1, <2>2, HookingNext
<1> HIDE DEF words
<1>7. f \in Nat /\ f + 4 <= Trampolines
    BY <1>4, FunctionsAreBelow
<1> HIDE DEF f
<1>8. \A x \in DOMAIN code' : x \in Nat /\ (x >= Trampolines + used' => code'[x] = Zeros)
    <2>1. Len(words) \in Nat /\ used' \in Nat /\ used <= used'
        BY <1>0, <1>1, <1>5
    <2>2. f + Len(words) <= Trampolines + used'
        BY <1>0, <1>1, <1>5, <1>7
    <2>3. code' = IF ok THEN Put(f, words) ELSE code
        BY <1>2
    <2> QED BY <1>7, <2>1, <2>2, <2>3, RestStays
<1>9. \A e \in Detours : IsObject(detour'[e], Trampolines + used')
    BY <1>1 DEF Shapes
<1>10. useHen' \in BOOLEAN
    BY <1>2, AttemptFacts
<1>11. detour'[hooking'.by].len = HookSize
    BY <1>1, <1>6 DEF Shapes
<1>12. messy' \subseteq Functions /\ torn' \subseteq Functions
    BY <1>0, <1>2, <1>4
<1>13. Shapes'
    BY <1>0, <1>1, <1>9, <1>10, <1>11, <1>12 DEF Shapes
<1>14. Left' = Left
    <2>1. hooking.step > HookSize /\ hooking'.step > HookSize
        BY <1>1, <1>6, Sizes
    <2> QED BY <2>1 DEF Left
<1>15. used' + Left' <= hooks' * LongestTrampoline
    BY <1>1, <1>14, LeftStays
<1> QED BY <1>8, <1>13, <1>15 DEF Behind

\* An object changes and nothing is written.
LEMMA QuietStep ==
    ASSUME Shapes, Behind, UNCHANGED <<code, used, messy, torn, hooks>>,
           useHen' \in BOOLEAN, NEW d \in Detours, NEW o, IsObject(o, Trampolines + used),
           detour' = [detour EXCEPT ![d] = o],
           hooking' = Idle, Left = 0
    PROVE  Shapes' /\ Behind'
<1>1. /\ DOMAIN detour' = Detours
      /\ \A e \in Detours : IsObject(detour'[e], Trampolines + used')
    BY ObjectsStep
<1>2. Shapes'
    BY <1>1 DEF Shapes
<1>3. used' + Left' <= hooks' * LongestTrampoline
    <2>1. Left' = Left
        BY DEF Left
    <2> QED BY <2>1, LeftStays
<1> QED BY <1>2, <1>3 DEF Behind

LEMMA DescribeStep ==
    ASSUME OffForGood, Shapes, Behind, Describe
    PROVE  Shapes' /\ Behind'
<1> DEFINE d == hooking.by
           o == detour[d]
           n == [made |-> o.made, addr |-> o.addr, len |-> o.len, saved |-> o.saved,
                 start |-> o.start, opd |-> o.start]
<1>1. /\ hooking # Idle /\ hooking.step > HookSize + 1 /\ hooking' = Idle
      /\ detour' = [detour EXCEPT ![d].opd = o.start]
      /\ UNCHANGED <<code, useHen, used, messy, torn, hooks>>
    BY DEF Describe, console
<1>2. d \in Detours /\ hooking.step \in Nat
    BY <1>1, Sizes DEF OffForGood, IsHooking
<1>3. IsObject(o, Trampolines + used) /\ useHen \in BOOLEAN
    BY <1>2 DEF Shapes
<1>4. detour' = [detour EXCEPT ![d] = n]
    <2>1. [o EXCEPT !.opd = o.start] = n
        BY <1>3, ObjectFields
    <2> HIDE DEF n
    <2> QED BY <1>1, <2>1
<1>5. IsObject(n, Trampolines + used)
    BY <1>3 DEF IsObject
<1>6. Left = 0
    BY <1>1, <1>2, Sizes DEF Left
<1> HIDE DEF n, d
<1> QED BY <1>1, <1>2, <1>3, <1>4, <1>5, <1>6, QuietStep

LEMMA PutBackStep ==
    ASSUME Shapes, Behind, NEW d \in Detours, NEW after,
           IsObject(after, Trampolines + used), PutBack(d, after)
    PROVE  Shapes' /\ Behind'
<1> DEFINE f == detour[d].addr
           words == detour[d].saved
           clean == f \notin torn /\ layers[f] # <<>> /\ Last(layers[f]) = d
<1>0. /\ used \in Nat /\ hooks \in Nat /\ messy \subseteq Functions /\ torn \subseteq Functions
      /\ Trampolines \in Nat /\ IsObject(detour[d], Trampolines + used)
    BY DetourAssumption DEF Shapes, Layout
<1>1. /\ hooking = Idle /\ detour[d].len # 0
      /\ detour' = [detour EXCEPT ![d] = after]
      /\ UNCHANGED <<used, hooking, torn, hooks>>
    BY DEF PutBack
<1>2. PICK ok \in BOOLEAN :
          /\ Attempt(ok)
          /\ code' = IF ok THEN Put(f, words) ELSE code
          /\ messy' = IF ok /\ ~clean THEN messy \cup {f} ELSE messy
    BY DEF PutBack, Write
<1> HIDE DEF clean
<1>3. f \in Functions /\ Len(words) = 4
    BY <1>0, <1>1, Sizes DEF IsObject
<1>4. f \in Nat /\ f + 4 <= Trampolines
    BY <1>3, FunctionsAreBelow
<1> HIDE DEF f, words
<1>5. \A x \in DOMAIN code' : x \in Nat /\ (x >= Trampolines + used' => code'[x] = Zeros)
    <2>1. Len(words) \in Nat /\ used' \in Nat /\ used <= used'
        BY <1>0, <1>1, <1>3
    <2>2. f + Len(words) <= Trampolines + used'
        <3>1. f + Len(words) <= f + 4
            <4>1. CASE Len(words) = 0
                BY <1>4, <4>1
            <4>2. CASE Len(words) = 4
                BY <1>4, <4>2
            <4> QED BY <1>3, <4>1, <4>2
        <3> QED BY <1>0, <1>1, <1>3, <1>4, <3>1
    <2>3. code' = IF ok THEN Put(f, words) ELSE code
        BY <1>2
    <2> QED BY <1>4, <2>1, <2>2, <2>3, RestStays
<1>6. /\ DOMAIN detour' = Detours
      /\ \A e \in Detours : IsObject(detour'[e], Trampolines + used')
    BY <1>1, ObjectsStep
<1>7. messy' \subseteq Functions /\ torn' \subseteq Functions /\ useHen' \in BOOLEAN
    BY <1>0, <1>1, <1>2, <1>3, AttemptFacts
<1>8. Shapes'
    BY <1>0, <1>1, <1>6, <1>7 DEF Shapes
<1>9. used' + Left' <= hooks' * LongestTrampoline
    <2>1. Left' = Left
        BY <1>1 DEF Left
    <2> QED BY <1>1, <2>1, LeftStays
<1> QED BY <1>5, <1>8, <1>9 DEF Behind

LEMMA UnmadeIsObject ==
    ASSUME NEW top
    PROVE  IsObject(NoObject, top)
<1>1. Len(<<Zeros, Zeros, Zeros, Zeros>>) = HookSize
    BY Sizes
<1> QED BY <1>1 DEF IsObject, NoObject

LEMMA ShapesStep == DetourInv /\ [DetourNext]_detourVars => Shapes' /\ Behind'
<1> SUFFICES ASSUME DetourInv, [DetourNext]_detourVars PROVE Shapes' /\ Behind'
    OBVIOUS
<1>0. OffForGood /\ Shapes /\ Behind
    BY DEF DetourInv
<1>1. CASE UNCHANGED detourVars
    <2>1. UNCHANGED <<code, used, detour, hooking, useHen, messy, torn, hooks>>
        BY <1>1 DEF detourVars, console, history
    <2>2. Left' = Left
        BY <2>1 DEF Left
    <2>3. Shapes'
        BY <1>0, <2>1 DEF Shapes
    <2> QED BY <1>0, <2>1, <2>2, <2>3 DEF Behind
<1>2. ASSUME NEW d \in Detours, NEW f \in Functions, Hook(d, f) PROVE Shapes' /\ Behind'
    BY <1>0, <1>2, SaveStep DEF Hook
<1>3. ASSUME NEW d \in Detours, NEW size, NEW lib, NEW fnid, HookByFnid(d, size, lib, fnid)
      PROVE  Shapes' /\ Behind'
    <2>1. CASE Find(size, lib, fnid) = 0
        <3> DEFINE o == detour[d]
                   n == [made |-> TRUE, addr |-> o.addr, len |-> o.len, saved |-> o.saved,
                         start |-> o.start, opd |-> o.opd]
        <3>1. /\ hooking = Idle /\ detour' = [detour EXCEPT ![d].made = TRUE]
              /\ UNCHANGED <<code, useHen, used, hooking, messy, torn, hooks>>
            BY <1>3, <2>1 DEF HookByFnid, console, history
        <3>2. IsObject(o, Trampolines + used) /\ useHen \in BOOLEAN
            BY <1>0 DEF Shapes
        <3>3. detour' = [detour EXCEPT ![d] = n]
            <4>1. [o EXCEPT !.made = TRUE] = n
                BY <3>2, ObjectFields
            <4> HIDE DEF n
            <4> QED BY <3>1, <4>1
        <3>4. IsObject(n, Trampolines + used)
            BY <3>2 DEF IsObject
        <3>5. Left = 0
            BY <3>1 DEF Left
        <3> HIDE DEF n, o
        <3> QED BY <1>0, <3>1, <3>2, <3>3, <3>4, <3>5, QuietStep
    <2>2. CASE Find(size, lib, fnid) # 0
        <3>1. Save(d, Find(size, lib, fnid))
            BY <1>3, <2>2 DEF HookByFnid
        <3>2. Find(size, lib, fnid) \in Functions
            BY <2>2, FindsFunction
        <3> QED BY <1>0, <3>1, <3>2, SaveStep
    <2> QED BY <2>1, <2>2
<1>4. CASE CopyWord \/ JumpBack
    BY <1>0, <1>4, CopyWordStep
<1>5. CASE Redirect
    BY <1>0, <1>5, RedirectStep
<1>6. CASE Describe
    BY <1>0, <1>6, DescribeStep
<1>7. ASSUME NEW d \in Detours, UnHook(d) PROVE Shapes' /\ Behind'
    <2> DEFINE o == detour[d]
               after == [made |-> TRUE, addr |-> 0, len |-> 0, saved |-> o.saved,
                         start |-> o.start, opd |-> o.opd]
    <2>1. PutBack(d, after)
        BY <1>7 DEF UnHook
    <2>2. IsObject(o, Trampolines + used)
        BY <1>0 DEF Shapes
    <2>3. IsObject(after, Trampolines + used)
        BY <2>2 DEF IsObject
    <2> HIDE DEF after
    <2> QED BY <1>0, <2>1, <2>3, PutBackStep
<1>8. ASSUME NEW d \in Detours, Destroy(d) PROVE Shapes' /\ Behind'
    <2>1. IsObject(NoObject, Trampolines + used)
        BY UnmadeIsObject
    <2>2. CASE PutBack(d, NoObject)
        BY <1>0, <2>1, <2>2, PutBackStep
    <2>3. CASE ~PutBack(d, NoObject)
        <3>1. /\ hooking = Idle /\ detour' = [detour EXCEPT ![d] = NoObject]
              /\ UNCHANGED <<code, useHen, used, hooking, messy, torn, hooks>>
            BY <1>8, <2>3 DEF Destroy, console
        <3>2. Left = 0
            BY <3>1 DEF Left
        <3>3. useHen' \in BOOLEAN
            BY <1>0, <3>1 DEF Shapes
        <3> QED BY <1>0, <2>1, <3>1, <3>2, <3>3, QuietStep
    <2> QED BY <2>2, <2>3
<1> QED BY <1>1, <1>2, <1>3, <1>4, <1>5, <1>6, <1>7, <1>8 DEF DetourNext

-----------------------------------------------------------------------------
LEMMA DetourStep == DetourInv /\ [DetourNext]_detourVars => DetourInv'
<1> SUFFICES ASSUME DetourInv, [DetourNext]_detourVars PROVE DetourInv'
    OBVIOUS
<1>1. OffForGood'
    BY OffStep DEF DetourInv
<1>2. Shapes' /\ Behind'
    BY ShapesStep
<1> QED BY <1>1, <1>2 DEF DetourInv

LEMMA DetourTypes == DetourInv => DetourTypeOK
<1> SUFFICES ASSUME DetourInv PROVE DetourTypeOK
    OBVIOUS
<1>1. OffForGood /\ Shapes
    BY DEF DetourInv
<1>2. \A d \in Detours : IsObject(detour[d], Trampolines + used)
    BY <1>1 DEF Shapes
<1>3. ASSUME NEW d \in Detours
      PROVE  /\ detour[d].made \in BOOLEAN /\ detour[d].len \in {0, HookSize}
             /\ IF detour[d].len = 0 THEN detour[d].addr = 0 ELSE detour[d].addr \in Functions
             /\ Len(detour[d].saved) = HookSize
             /\ detour[d].opd \in {0} \cup Trampolines .. Trampolines + used
    BY <1>2 DEF IsObject
<1>4. hooking = Idle \/ hooking.by \in Detours
    BY <1>1 DEF OffForGood, IsHooking
<1> QED BY <1>1, <1>3, <1>4 DEF DetourTypeOK, Shapes

LEMMA DetourHolds == DetourInv => BufferHolds
<1> SUFFICES ASSUME DetourInv, hooks * LongestTrampoline <= Capacity,
                    NEW a \in DOMAIN code, a >= Trampolines + Capacity
             PROVE  code[a] = Zeros
    BY DEF BufferHolds
<1>1. OffForGood /\ Shapes /\ Behind
    BY DEF DetourInv
<1>2. /\ used \in Nat /\ hooks \in Nat /\ Trampolines \in Nat /\ Capacity \in Nat /\ a \in Nat
    BY <1>1, DetourAssumption DEF Shapes, Behind, Layout
<1>3. used + Left <= hooks * 30 /\ hooks * 30 <= Capacity
    BY <1>1, Sizes DEF Behind
<1>4. Left \in Nat
    <2>1. hooking # Idle => hooking.step \in 0 .. 6
        BY <1>1, Sizes DEF OffForGood, IsHooking
    <2>2. CASE hooking = Idle
        BY <2>2 DEF Left
    <2>3. CASE hooking # Idle /\ hooking.step > 4
        BY <2>3, Sizes DEF Left
    <2>4. CASE hooking # Idle /\ hooking.step \in 0 .. 4
        <3> DEFINE s == hooking.step
        <3>1. Left = (4 - s) * 6 + 6
            BY <2>4, Sizes DEF Left
        <3>2. s \in 0 .. 4
            BY <2>4
        <3> HIDE DEF s
        <3> QED BY <3>1, <3>2
    <2> QED BY <2>1, <2>2, <2>3, <2>4
<1>5. used <= Capacity
    <2> DEFINE l == Left
               m == hooks * 30
    <2>1. l \in Nat /\ m \in Nat /\ used + l <= m /\ m <= Capacity
        BY <1>2, <1>3, <1>4
    <2> HIDE DEF l, m
    <2> QED BY <1>2, <2>1
<1>6. a >= Trampolines + used
    BY <1>2, <1>5
<1> QED BY <1>1, <1>6 DEF Behind

\* Whatever image and layout: without PS3MAPI no function is led to a callback whose
\* trampoline was not written as a whole, whichever accesses fail (Detour::Hook and
\* WriteProcessMemory).
THEOREM SafeAlwaysWithoutHen == DetourSpec => []SafeWithoutHen
<1>1. DetourInv => SafeWithoutHen
    BY DEF DetourInv, OffForGood
<1> QED BY DetourStarts, DetourStep, <1>1, PTL DEF DetourSpec

\* Wherever the functions lie in the program and the buffer behind it: objects, the call of
\* Hook that is under way and the marks of functions keep their types.
THEOREM DetourAlwaysTyped == DetourSpec => []DetourTypeOK
<1>1. DetourInv => DetourTypeOK
    BY DetourTypes
<1> QED BY DetourStarts, DetourStep, <1>1, PTL DEF DetourSpec

\* And Hook never writes behind s_TrampolineBuffer as long as the buffer has room for
\* the longest trampoline of every call of Hook that was ever made.
THEOREM BufferAlwaysHolds == DetourSpec => []BufferHolds
<1>1. DetourInv => BufferHolds
    BY DetourHolds
<1> QED BY DetourStarts, DetourStep, <1>1, PTL DEF DetourSpec

-----------------------------------------------------------------------------
(***************************************************************************)
(* What stands where a function begins.                                    *)
(***************************************************************************)
\* What the k-th detour on a stack s of detours of f covers: f's own words, or the jump
\* of the detour below.
Own(f) == [i \in 1 .. 4 |-> Image[f + i - 1]]
Under(f, s, k) == IF k = 0 THEN Own(f) ELSE Jump(Callback[s[k]], FALSE)

EntriesStand ==
    \A f \in Functions \ messy :
        Words(f, HookSize) = Under(f, layers[f], Len(layers[f]))

\* The latest place of a detour on a stack.
Latest(d, s, k) == k \in 1 .. Len(s) /\ s[k] = d /\ \A j \in 1 .. Len(s) : j > k => s[j] # d

\* An object has the words that its latest detour covers.
Keeps(d) ==
    LET f == detour[d].addr
    IN  f \notin messy \cup torn =>
            \A k \in Nat : Latest(d, layers[f], k) => detour[d].saved = Under(f, layers[f], k - 1)

\* The call of Hook for d has not redirected the function yet.
Pending(d) == hooking # Idle /\ hooking.by = d /\ hooking.step <= HookSize + 1

\* It has the words that it will cover.
KeepsTop(d) ==
    LET f == detour[d].addr
    IN  hooking.ok /\ f \notin messy \cup torn =>
            detour[d].saved = Under(f, layers[f], Len(layers[f]))

Layered ==
    /\ layers \in [Functions -> Seq(Detours)]
    /\ DOMAIN Image \subseteq DOMAIN code
    /\ EntriesStand
    /\ \A d \in Detours : detour[d].len # 0 =>
          /\ ~Pending(d) => Keeps(d)
          /\ Pending(d) => KeepsTop(d)

LEMMA UnderShape ==
    ASSUME NEW f, NEW s, NEW k
    PROVE  Len(Under(f, s, k)) = 4 /\ Under(f, s, k) = [i \in 1 .. 4 |-> Under(f, s, k)[i]]
<1>1. CASE k = 0
    <2>1. Under(f, s, k) = Own(f)
        BY <1>1 DEF Under
    <2>2. Own(f) = [i \in 1 .. 4 |-> Own(f)[i]]
        BY DEF Own
    <2>3. Len(Own(f)) = 4
        <3> DEFINE w == Own(f)
        <3>1. w \in [1 .. 4 -> {w[i] : i \in 1 .. 4}]
            BY <2>2
        <3> HIDE DEF w
        <3>2. Len(w) = 4
            BY <3>1
        <3> QED BY <3>2 DEF w
    <2> QED BY <2>1, <2>2, <2>3
<1>2. CASE k # 0
    <2> DEFINE w == Jump(Callback[s[k]], FALSE)
    <2>1. Under(f, s, k) = w
        BY <1>2 DEF Under
    <2>2. Len(w) = 4
        BY FarLength DEF Jump
    <2>3. w = [i \in 1 .. 4 |-> w[i]]
        BY Sizes DEF Jump, Far
    <2> HIDE DEF w
    <2> QED BY <2>1, <2>2, <2>3
<1> QED BY <1>1, <1>2

\* Stacks.
LEMMA Pushed ==
    ASSUME NEW s \in Seq(Detours), NEW d \in Detours, NEW f
    PROVE  /\ Append(s, d) \in Seq(Detours) /\ Len(Append(s, d)) = Len(s) + 1
           /\ Under(f, Append(s, d), Len(s) + 1) = Jump(Callback[d], FALSE)
           /\ \A k \in Nat : Latest(d, Append(s, d), k) => k = Len(s) + 1
           /\ \A e \in Detours \ {d} : \A k \in Nat :
                 Latest(e, Append(s, d), k) => k \in 1 .. Len(s) /\ Latest(e, s, k)
<1> DEFINE t == Append(s, d)
           n == Len(s)
<1>1. /\ t \in Seq(Detours) /\ Len(t) = n + 1 /\ n \in Nat
      /\ \A k \in 1 .. n : t[k] = s[k]
      /\ t[n + 1] = d
    OBVIOUS
<1> HIDE DEF t, n
<1>3. Under(f, t, n + 1) = Jump(Callback[d], FALSE)
    <2>1. n + 1 # 0 /\ t[n + 1] = d
        BY <1>1
    <2> QED BY <2>1 DEF Under
<1>4. ASSUME NEW k \in Nat, Latest(d, t, k) PROVE k = n + 1
    BY <1>1, <1>4 DEF Latest
<1>5. ASSUME NEW e \in Detours \ {d}, NEW k \in Nat, Latest(e, t, k)
      PROVE  k \in 1 .. n /\ Latest(e, s, k)
    <2>1. k \in 1 .. n
        BY <1>1, <1>5 DEF Latest
    <2>2. Latest(e, s, k)
        BY <1>1, <1>5, <2>1 DEF Latest, n
    <2> QED BY <2>1, <2>2
<1> QED BY <1>1, <1>3, <1>4, <1>5 DEF t, n

LEMMA PushedBelow ==
    ASSUME NEW s \in Seq(Detours), NEW d \in Detours, NEW f, NEW k \in 0 .. Len(s)
    PROVE  Under(f, Append(s, d), k) = Under(f, s, k)
<1>1. k = 0 \/ Append(s, d)[k] = s[k]
    OBVIOUS
<1> QED BY <1>1 DEF Under

LEMMA Popped ==
    ASSUME NEW s \in Seq(Detours), s # <<>>, NEW f
    PROVE  /\ Front(s) \in Seq(Detours) /\ Len(Front(s)) = Len(s) - 1 /\ Len(s) \in Nat \ {0}
           /\ \A k \in 0 .. Len(s) - 1 : Under(f, Front(s), k) = Under(f, s, k)
           /\ \A d : Last(s) = d => Latest(d, s, Len(s))
           /\ \A e \in Detours \ {Last(s)} : \A k \in Nat :
                 Latest(e, Front(s), k) => k \in 1 .. Len(s) - 1 /\ Latest(e, s, k)
<1> DEFINE n == Len(s)
           t == Front(s)
<1>1. n \in Nat \ {0} /\ Last(s) = s[n]
    BY DEF Last
<1>2. /\ t \in Seq(Detours) /\ Len(t) = n - 1
      /\ \A k \in 1 .. n - 1 : t[k] = s[k]
    <2>1. t = SubSeq(s, 1, n - 1)
        BY DEF Front
    <2>2. \A i \in 1 .. n - 1 : s[i] \in Detours
        BY <1>1
    <2> HIDE DEF t
    <2>3. 1 \in 1 .. n + 1 /\ n - 1 \in 0 .. n /\ s \in Seq(Detours)
        BY <1>1
    <2>4. t \in Seq(Detours)
        BY <2>1, <2>3, SubSeqProperties
    <2>5. Len(t) = n - 1
        <3>1. Len(SubSeq(s, 1, n - 1)) = IF 1 <= n - 1 THEN (n - 1) - 1 + 1 ELSE 0
            BY <2>3, SubSeqProperties
        <3>2. n \in Nat \ {0}
            BY <1>1
        <3> HIDE DEF n
        <3>3. (IF 1 <= n - 1 THEN (n - 1) - 1 + 1 ELSE 0) = n - 1
            BY <3>2
        <3> QED BY <2>1, <3>1, <3>3
    <2>6. ASSUME NEW k \in 1 .. n - 1 PROVE t[k] = s[k]
        <3>1. k \in 1 .. (n - 1) - 1 + 1 /\ 1 + k - 1 = k
            BY <1>1
        <3>2. SubSeq(s, 1, n - 1)[k] = s[1 + k - 1]
            <4>1. \A i \in 1 .. (n - 1) - 1 + 1 : SubSeq(s, 1, n - 1)[i] = s[1 + i - 1]
                BY <2>3, SubSeqProperties
            <4> QED BY <3>1, <4>1
        <3> QED BY <2>1, <3>1, <3>2
    <2> QED BY <2>4, <2>5, <2>6
<1> HIDE DEF t
<1>3. ASSUME NEW k \in 0 .. n - 1 PROVE Under(f, t, k) = Under(f, s, k)
    <2>1. k = 0 \/ t[k] = s[k]
        BY <1>1, <1>2
    <2> QED BY <2>1 DEF Under
<1>4. \A d : Last(s) = d => Latest(d, s, n)
    BY <1>1 DEF Latest
<1>5. ASSUME NEW e \in Detours \ {Last(s)}, NEW k \in Nat, Latest(e, t, k)
      PROVE  k \in 1 .. n - 1 /\ Latest(e, s, k)
    <2>1. k \in 1 .. n - 1 /\ s[k] = e
        BY <1>1, <1>2, <1>5 DEF Latest
    <2>2. ASSUME NEW j \in 1 .. n, j > k PROVE s[j] # e
        <3>1. CASE j = n
            BY <1>1, <3>1
        <3>2. CASE j # n
            BY <1>1, <1>2, <1>5, <2>2, <3>2 DEF Latest
        <3> QED BY <3>1, <3>2
    <2> QED BY <1>1, <2>1, <2>2 DEF Latest
<1> QED BY <1>1, <1>2, <1>3, <1>4, <1>5 DEF t, n

\* A write elsewhere.
LEMMA Elsewhere ==
    ASSUME Behind, DOMAIN Image \subseteq DOMAIN code, NEW f \in Functions,
           NEW a \in Nat, NEW words, Len(words) \in Nat, f + 4 <= a \/ a + Len(words) <= f,
           NEW ok \in BOOLEAN, code' = IF ok THEN Put(a, words) ELSE code
    PROVE  Words(f, HookSize)' = Words(f, HookSize)
<1>1. /\ \A x \in DOMAIN code : x \in Nat
      /\ f \in Nat /\ f .. f + 3 \subseteq DOMAIN code
    <2>1. f \in Nat /\ f .. f + HookSize - 1 \subseteq DOMAIN Image
        BY DetourAssumption DEF Layout
    <2>2. f + HookSize - 1 = f + 3
        BY <2>1, Sizes
    <2> QED BY <2>1, <2>2 DEF Behind
<1>2. \A x \in DOMAIN code : x < a \/ x >= a + Len(words) => code'[x] = code[x]
    BY <1>1, PutFacts
<1>3. ASSUME NEW i \in 1 .. 4 PROVE code'[f + i - 1] = code[f + i - 1]
    <2> DEFINE x == f + i - 1
               n == Len(words)
    <2>1. x \in f .. f + 3 /\ (f + 4 <= a => x < a) /\ (a + n <= f => x >= a + n)
        BY <1>1
    <2>2. x \in DOMAIN code /\ (x < a \/ x >= a + Len(words))
        BY <1>1, <2>1
    <2> HIDE DEF x
    <2>3. code'[x] = code[x]
        BY <1>2, <2>2
    <2> QED BY <2>3 DEF x
<1>4. [i \in 1 .. 4 |-> code'[f + i - 1]] = [i \in 1 .. 4 |-> code[f + i - 1]]
    BY <1>3
<1> QED BY <1>4, Sizes DEF Words, HookSize

\* A write of four words to a function.
LEMMA Here ==
    ASSUME DOMAIN Image \subseteq DOMAIN code, NEW f \in Functions,
           NEW words, Len(words) = 4, words = [i \in 1 .. 4 |-> words[i]],
           code' = Put(f, words)
    PROVE  Words(f, HookSize)' = words
<1>1. f \in Nat /\ f .. f + 3 \subseteq DOMAIN code
    <2>1. f \in Nat /\ f .. f + HookSize - 1 \subseteq DOMAIN Image
        BY DetourAssumption DEF Layout
    <2>2. f + HookSize - 1 = f + 3
        BY <2>1, Sizes
    <2> QED BY <2>1, <2>2
<1>2. ASSUME NEW i \in 1 .. 4 PROVE code'[f + i - 1] = words[i]
    <2> DEFINE x == f + i - 1
    <2>1. x \in f .. f + 3 /\ x - f + 1 = i
        BY <1>1
    <2>2. x \in DOMAIN code /\ x \in f .. f + Len(words) - 1
        BY <1>1, <2>1
    <2> HIDE DEF x
    <2>3. code'[x] = words[x - f + 1]
        BY <2>2 DEF Put
    <2> QED BY <2>1, <2>3 DEF x
<1>3. [i \in 1 .. 4 |-> code'[f + i - 1]] = [i \in 1 .. 4 |-> words[i]]
    BY <1>2
<1> QED BY <1>3, Sizes DEF Words, HookSize

LEMMA DomainStays ==
    ASSUME NEW a, NEW words, NEW ok \in BOOLEAN,
           code' = IF ok THEN Put(a, words) ELSE code
    PROVE  DOMAIN code' = DOMAIN code
BY DEF Put

-----------------------------------------------------------------------------
LEMMA InitLayered == DetourInit => Layered
<1> SUFFICES ASSUME DetourInit PROVE Layered
    OBVIOUS
<1>1. /\ code = [a \in DOMAIN Image \cup Room |->
                    IF a \in DOMAIN Image THEN Image[a] ELSE Zeros]
      /\ detour = [d \in Detours |-> NoObject] /\ layers = [f \in Functions |-> <<>>]
    BY DEF DetourInit
<1>2. layers \in [Functions -> Seq(Detours)] /\ \A f \in Functions : Len(layers[f]) = 0
    BY <1>1
<1>3. DOMAIN Image \subseteq DOMAIN code /\ \A a \in DOMAIN Image : code[a] = Image[a]
    BY <1>1
<1>4. EntriesStand
    <2> SUFFICES ASSUME NEW f \in Functions
                 PROVE  Words(f, HookSize) = Under(f, layers[f], Len(layers[f]))
        BY DEF EntriesStand
    <2>1. ASSUME NEW i \in 1 .. 4 PROVE code[f + i - 1] = Image[f + i - 1]
        <3>1. f \in Nat /\ f .. f + 3 \subseteq DOMAIN Image
            BY Sizes, DetourAssumption DEF Layout
        <3>2. f + i - 1 \in f .. f + 3
            BY <3>1
        <3> QED BY <1>3, <3>1, <3>2
    <2>2. [i \in 1 .. 4 |-> code[f + i - 1]] = Own(f)
        BY <2>1 DEF Own
    <2> QED BY <1>2, <2>2, Sizes DEF Words, Under
<1>5. \A d \in Detours : detour[d].len = 0
    BY <1>1 DEF NoObject
<1> QED BY <1>2, <1>3, <1>4, <1>5 DEF Layered

\* What an object keeps stays what it is while nobody touches it and its function.
LEMMA KeepsAlike ==
    ASSUME NEW e \in Detours, Keeps(e), NEW f, detour[e].addr = f, detour'[e].addr = f,
           NEW w, detour[e].saved = w, detour'[e].saved = w,
           messy \subseteq messy', torn \subseteq torn', NEW s, layers[f] = s, layers'[f] = s
    PROVE  Keeps(e)'
<1>1. ASSUME f \notin messy' \cup torn', NEW k \in Nat, Latest(e, s, k)
      PROVE  w = Under(f, s, k - 1)
    BY <1>1 DEF Keeps
<1> QED BY <1>1 DEF Keeps, Latest, Under

LEMMA KeepsStays ==
    ASSUME NEW e \in Detours, Keeps(e), detour'[e] = detour[e],
           messy \subseteq messy', torn \subseteq torn',
           layers'[detour[e].addr] = layers[detour[e].addr]
    PROVE  Keeps(e)'
<1>1. PICK f : detour[e].addr = f
    OBVIOUS
<1>2. PICK w : detour[e].saved = w
    OBVIOUS
<1>3. PICK s : layers[f] = s
    OBVIOUS
<1> QED BY <1>1, <1>2, <1>3, KeepsAlike

\* Nothing is put over a function.
LEMMA EntriesStay ==
    ASSUME EntriesStand, UNCHANGED layers, messy \subseteq messy',
           \A f \in Functions : Words(f, HookSize)' = Words(f, HookSize)
    PROVE  EntriesStand'
BY DEF EntriesStand, Under

LEMMA SaveLayered ==
    ASSUME Shapes, Layered, NEW d \in Detours, NEW f \in Functions, Save(d, f)
    PROVE  Layered'
<1>1. PICK ok \in BOOLEAN :
          /\ detour' = [detour EXCEPT ![d] =
                [made |-> TRUE, addr |-> f, len |-> HookSize,
                 saved |-> IF ok THEN Words(f, HookSize) ELSE detour[d].saved,
                 start |-> Trampolines + used, opd |-> detour[d].opd]]
          /\ hooking' = [by |-> d, step |-> 0, ok |-> ok, of |-> StandsAt(f)]
    BY DEF Save
<1>2. hooking = Idle /\ UNCHANGED <<code, layers, messy, torn>>
    BY DEF Save, history
<1>3. /\ detour'[d].addr = f /\ (ok => detour'[d].saved = Words(f, HookSize))
      /\ \A e \in Detours \ {d} : detour'[e] = detour[e]
    BY <1>1 DEF Shapes
<1>4. EntriesStand'
    BY <1>2 DEF Layered, EntriesStand, Words, Under
<1>5. ASSUME NEW e \in Detours, detour'[e].len # 0, ~Pending(e)' PROVE Keeps(e)'
    <2>1. e # d
        BY <1>1, <1>5, Sizes DEF Pending, Idle
    <2>2. ~Pending(e) /\ detour'[e] = detour[e]
        BY <1>2, <1>3, <2>1 DEF Pending
    <2>3. Keeps(e)
        BY <1>5, <2>2 DEF Layered
    <2> QED BY <1>2, <2>2, <2>3, KeepsStays
<1>6. ASSUME NEW e \in Detours, Pending(e)' PROVE KeepsTop(e)'
    <2>1. e = d /\ hooking'.ok = ok
        BY <1>1, <1>6 DEF Pending
    <2>2. ASSUME ok, f \notin messy \cup torn
          PROVE  detour'[d].saved = Under(f, layers[f], Len(layers[f]))
        BY <1>3, <2>2 DEF Layered, EntriesStand
    <2> QED BY <1>2, <1>3, <2>1, <2>2 DEF KeepsTop, Under
<1> QED BY <1>2, <1>4, <1>5, <1>6 DEF Layered

LEMMA MoveLayered ==
    ASSUME OffForGood, Shapes, Behind, Layered, CopyWord \/ JumpBack
    PROVE  Layered'
<1>1. \E ok \in BOOLEAN : \E words :
          /\ Len(words) \in Nat
          /\ code' = IF ok THEN Put(Trampolines + used, words) ELSE code
          /\ hooking' = [hooking EXCEPT !.step = @ + 1, !.ok = @ /\ ok]
    <2>1. CASE CopyWord
        <3> DEFINE a == detour[hooking.by].addr + hooking.step
                   words == Relocate(code[a], a)
        <3>1. \E ok \in BOOLEAN :
                  /\ code' = IF ok THEN Put(Trampolines + used, words) ELSE code
                  /\ hooking' = [hooking EXCEPT !.step = @ + 1, !.ok = @ /\ ok]
            BY <2>1 DEF CopyWord, Write
        <3>2. Len(words) \in Nat
            <4>1. Len(words) \in 1 .. 6
                BY RelocateLength
            <4> HIDE DEF words
            <4> QED BY <4>1
        <3> HIDE DEF words
        <3> QED BY <3>1, <3>2
    <2>2. CASE JumpBack
        <3> DEFINE words == Jump(detour[hooking.by].addr + HookSize, TRUE)
        <3>1. \E ok \in BOOLEAN :
                  /\ code' = IF ok THEN Put(Trampolines + used, words) ELSE code
                  /\ hooking' = [hooking EXCEPT !.step = @ + 1, !.ok = @ /\ ok]
            BY <2>2 DEF JumpBack, Write
        <3>2. Len(words) = 6
            BY FarLength DEF Jump
        <3> HIDE DEF words
        <3>3. Len(words) \in Nat
            BY <3>2
        <3> QED BY <3>1, <3>3
    <2> QED BY <2>1, <2>2
<1>2. PICK ok \in BOOLEAN : \E words :
          /\ Len(words) \in Nat
          /\ code' = IF ok THEN Put(Trampolines + used, words) ELSE code
          /\ hooking' = [hooking EXCEPT !.step = @ + 1, !.ok = @ /\ ok]
    BY <1>1
<1>3. PICK words :
          /\ Len(words) \in Nat
          /\ code' = IF ok THEN Put(Trampolines + used, words) ELSE code
          /\ hooking' = [hooking EXCEPT !.step = @ + 1, !.ok = @ /\ ok]
    BY <1>2
<1>4. hooking # Idle /\ hooking.step <= 4 /\ UNCHANGED <<detour, layers, messy, torn>>
    <2>0. hooking # Idle => hooking.step \in 0 .. 6
        BY Sizes DEF OffForGood, IsHooking
    <2>1. CASE CopyWord
        <3>1. hooking # Idle /\ UNCHANGED <<detour, layers, messy, torn>>
            BY <2>1 DEF CopyWord, history
        <3>2. hooking.step < 4
            BY <2>1, <3>1, Sizes DEF CopyWord
        <3> QED BY <2>0, <3>1, <3>2
    <2>2. CASE JumpBack
        <3>1. hooking # Idle /\ UNCHANGED <<detour, layers, messy, torn>>
            BY <2>2 DEF JumpBack, history
        <3>2. hooking.step = 4
            BY <2>2, <3>1, Sizes DEF JumpBack
        <3> QED BY <2>0, <3>1, <3>2
    <2> QED BY <2>1, <2>2
<1>5. IsHooking(hooking)
    BY <1>4 DEF OffForGood
<1>6. /\ IsHooking(hooking') /\ hooking'.by = hooking.by /\ hooking'.step = hooking.step + 1
      /\ hooking'.ok = (hooking.ok /\ ok)
    <2>1. hooking.step <= HookSize + 1
        BY <1>4, <1>5, Sizes DEF IsHooking
    <2> QED BY <1>3, <1>5, <2>1, HookingNext
<1>7. hooking' # Idle
    BY <1>3, <1>5 DEF IsHooking, Idle
<1>8. ASSUME NEW f \in Functions PROVE Words(f, HookSize)' = Words(f, HookSize)
    <2> DEFINE a == Trampolines + used
    <2>1. a \in Nat /\ f + 4 <= a
        <3>1. f \in Nat /\ f + 4 <= Trampolines /\ Trampolines \in Nat /\ used \in Nat
            BY FunctionsAreBelow, DetourAssumption DEF Layout, Shapes
        <3> QED BY <3>1
    <2>2. code' = IF ok THEN Put(a, words) ELSE code
        BY <1>3
    <2> HIDE DEF a
    <2> QED BY <1>3, <2>1, <2>2, Elsewhere DEF Layered
<1>9. DOMAIN code' = DOMAIN code
    BY <1>3, DomainStays
<1>10. EntriesStand'
    BY <1>4, <1>8, EntriesStay DEF Layered
<1>11. ASSUME NEW e \in Detours PROVE Pending(e)' <=> Pending(e)
    <2>1. hooking.step <= HookSize + 1 /\ hooking'.step <= HookSize + 1
        BY <1>4, <1>5, <1>6, Sizes DEF IsHooking
    <2> QED BY <1>4, <1>6, <1>7, <2>1, Sizes DEF Pending, HookSize
<1>12. ASSUME NEW e \in Detours, detour'[e].len # 0, ~Pending(e)' PROVE Keeps(e)'
    <2>1. Keeps(e)
        BY <1>4, <1>11, <1>12 DEF Layered
    <2> QED BY <1>4, <2>1, KeepsStays
<1>13. ASSUME NEW e \in Detours, detour'[e].len # 0, Pending(e)' PROVE KeepsTop(e)'
    <2>1. KeepsTop(e)
        BY <1>4, <1>11, <1>13 DEF Layered
    <2>2. hooking'.ok => hooking.ok
        BY <1>6
    <2> QED BY <1>4, <2>1, <2>2 DEF KeepsTop, Under
<1> QED BY <1>4, <1>9, <1>10, <1>12, <1>13 DEF Layered

LEMMA KeepsThen ==
    ASSUME NEW e \in Detours, NEW f, NEW t, detour[e].addr = f, detour'[e] = detour[e],
           layers'[f] = t,
           \A k \in Nat : f \notin messy' \cup torn' /\ Latest(e, t, k) =>
              detour[e].saved = Under(f, t, k - 1)
    PROVE  Keeps(e)'
BY DEF Keeps, Latest, Under

LEMMA RedirectLayered ==
    ASSUME OffForGood, Shapes, Behind, Layered, Redirect
    PROVE  Layered'
<1>1. hooking # Idle /\ hooking.step = 5 /\ UNCHANGED detour
    BY Sizes DEF Redirect
<1>2. IsHooking(hooking)
    BY <1>1 DEF OffForGood
<1>3. PICK d \in Detours : hooking.by = d
    BY <1>2 DEF IsHooking
<1>4. detour[d].addr \in Functions /\ detour[d].len # 0
    BY <1>1, <1>3, Sizes DEF Shapes, IsObject
<1>5. PICK f \in Functions : detour[d].addr = f
    BY <1>4
<1>6. layers \in [Functions -> Seq(Detours)]
    BY DEF Layered
<1>7. PICK s \in Seq(Detours) : layers[f] = s
    BY <1>6
<1> DEFINE words == Jump(Callback[d], FALSE)
<1>8. PICK ok \in BOOLEAN :
          /\ code' = IF ok THEN Put(f, words) ELSE code
          /\ messy' = IF ok THEN messy ELSE messy \cup {f}
          /\ layers' = IF ok THEN [layers EXCEPT ![f] = Append(@, d)] ELSE layers
          /\ torn' = IF ok /\ ~hooking.ok THEN torn \cup {f} ELSE torn
          /\ hooking' = [hooking EXCEPT !.step = @ + 1]
    BY <1>3, <1>5 DEF Redirect, Write
<1>9. \A e \in Detours : ~Pending(e)'
    <2>1. hooking.step <= HookSize + 1
        BY <1>1, Sizes
    <2>2. hooking' = [hooking EXCEPT !.step = @ + 1] /\ TRUE
        BY <1>8
    <2>3. hooking'.step = hooking.step + 1
        BY <1>2, <2>1, <2>2, HookingNext
    <2>4. hooking'.step = 6
        BY <1>1, <2>3
    <2> QED BY <2>4, Sizes DEF Pending, HookSize
<1>10. /\ Len(words) = 4 /\ words = [i \in 1 .. 4 |-> words[i]]
       /\ \A e \in Detours : Pending(e) <=> e = d
    <2>1. Len(words) = 4
        BY FarLength DEF Jump
    <2>2. words = [i \in 1 .. 4 |-> words[i]]
        <3>1. words = Under(f, <<d>>, 1)
            BY DEF Under
        <3> HIDE DEF words
        <3> QED BY <3>1, UnderShape
    <2>3. \A e \in Detours : Pending(e) <=> e = d
        BY <1>1, <1>3, Sizes DEF Pending
    <2> QED BY <2>1, <2>2, <2>3
<1> HIDE DEF words
<1>11. f \in Nat /\ DOMAIN Image \subseteq DOMAIN code /\ DOMAIN code' = DOMAIN code
    BY <1>8, DomainStays, DetourAssumption DEF Layout, Layered
<1>12. ASSUME NEW g \in Functions \ {f} PROVE Words(g, HookSize)' = Words(g, HookSize)
    <2>1. g + 4 <= f \/ f + Len(words) <= g
        BY <1>10, <1>12, Sizes, ApartAssumption DEF Apart
    <2>2. Len(words) \in Nat
        BY <1>10
    <2> QED BY <1>8, <1>11, <1>12, <2>1, <2>2, Elsewhere
<1>13. CASE ~ok
    <2>1. /\ code' = code /\ layers' = layers /\ messy' = messy \cup {f} /\ torn' = torn
        BY <1>8, <1>13
    <2>2. EntriesStand'
        BY <2>1 DEF Layered, EntriesStand, Words, Under
    <2>3. ASSUME NEW e \in Detours, detour'[e].len # 0 PROVE Keeps(e)'
        <3>1. CASE e = d
            BY <1>1, <1>5, <2>1, <3>1 DEF Keeps
        <3>2. CASE e # d
            <4>1. Keeps(e)
                BY <1>1, <1>10, <2>3, <3>2 DEF Layered
            <4> QED BY <1>1, <2>1, <4>1, KeepsStays
        <3> QED BY <3>1, <3>2
    <2> QED BY <1>6, <1>9, <1>11, <2>1, <2>2, <2>3 DEF Layered
<1>14. CASE ok
    <2>1. /\ code' = Put(f, words) /\ messy' = messy /\ torn \subseteq torn'
          /\ layers' = [layers EXCEPT ![f] = Append(s, d)] /\ (~hooking.ok => f \in torn')
        BY <1>7, <1>8, <1>14
    <2>2. /\ layers'[f] = Append(s, d) /\ (\A g \in Functions \ {f} : layers'[g] = layers[g])
          /\ DOMAIN layers' = Functions
        BY <1>6, <2>1
    <2> DEFINE t == Append(s, d)
               n == Len(s)
    <2>3. /\ t \in Seq(Detours) /\ Len(t) = n + 1 /\ n \in Nat
          /\ \A k \in 0 .. n : Under(f, t, k) = Under(f, s, k)
          /\ Under(f, t, n + 1) = words
          /\ \A k \in Nat : Latest(d, t, k) => k = n + 1
          /\ \A e \in Detours \ {d} : \A k \in Nat :
                Latest(e, t, k) => k \in 1 .. n /\ Latest(e, s, k)
        <3>1. n \in Nat
            OBVIOUS
        <3>2. t \in Seq(Detours) /\ Len(t) = n + 1
            OBVIOUS
        <3>6. \A k \in 0 .. n : Under(f, t, k) = Under(f, s, k)
            BY PushedBelow
        <3>3. Under(f, t, n + 1) = words
            BY Pushed DEF words
        <3>4. \A k \in Nat : Latest(d, t, k) => k = n + 1
            BY Pushed
        <3>5. \A e \in Detours \ {d} : \A k \in Nat :
                  Latest(e, t, k) => k \in 1 .. n /\ Latest(e, s, k)
            BY Pushed
        <3> HIDE DEF t, n
        <3> QED BY <3>1, <3>2, <3>3, <3>4, <3>5, <3>6
    <2>8. layers'[f] = t
        BY <2>2
    <2> HIDE DEF t, n
    <2>4. layers' \in [Functions -> Seq(Detours)]
        BY <1>6, <2>1, <2>3 DEF t
    <2>5. Words(f, HookSize)' = words
        BY <1>10, <1>11, <2>1, Here
    <2>6. EntriesStand'
        <3> SUFFICES ASSUME NEW g \in Functions, g \notin messy
                     PROVE  Words(g, HookSize)' = Under(g, layers'[g], Len(layers'[g]))
            BY <2>1 DEF EntriesStand, Under
        <3>1. CASE g = f
            BY <2>2, <2>3, <2>5, <3>1 DEF t
        <3>2. CASE g # f
            <4>1. Words(g, HookSize) = Under(g, layers[g], Len(layers[g]))
                BY <3>2 DEF Layered, EntriesStand
            <4> QED BY <1>12, <2>2, <3>2, <4>1
        <3> QED BY <3>1, <3>2
    <2>7. ASSUME NEW e \in Detours, detour'[e].len # 0 PROVE Keeps(e)'
        <3>1. CASE e = d
            <4>1. KeepsTop(d)
                BY <1>1, <1>10, <2>7, <3>1 DEF Layered
            <4>2. ASSUME f \notin messy' \cup torn', NEW k \in Nat, Latest(d, t, k)
                  PROVE  detour[d].saved = Under(f, t, k - 1)
                <5>1. k = n + 1 /\ k - 1 = n /\ n \in 0 .. n
                    BY <2>3, <4>2
                <5>2. detour[d].saved = Under(f, s, n)
                    BY <1>5, <1>7, <2>1, <4>1, <4>2 DEF KeepsTop, n
                <5> QED BY <2>3, <5>1, <5>2
            <4> QED BY <1>1, <1>5, <2>8, <3>1, <4>2, KeepsThen
        <3>2. CASE e # d /\ detour[e].addr # f
            <4>1. Keeps(e) /\ detour'[e] = detour[e] /\ detour[e].addr \in Functions
                BY <1>1, <1>10, <2>7, <3>2 DEF Layered, Shapes, IsObject
            <4>2. layers'[detour[e].addr] = layers[detour[e].addr]
                BY <2>2, <3>2, <4>1
            <4> QED BY <2>1, <4>1, <4>2, KeepsStays
        <3>3. CASE e # d /\ detour[e].addr = f
            <4>1. Keeps(e) /\ detour'[e] = detour[e]
                BY <1>1, <1>10, <2>7, <3>3 DEF Layered
            <4>2. ASSUME f \notin messy' \cup torn', NEW k \in Nat, Latest(e, t, k)
                  PROVE  detour[e].saved = Under(f, t, k - 1)
                <5>1. k \in 1 .. n /\ Latest(e, s, k) /\ k - 1 \in 0 .. n
                    BY <2>3, <3>3, <4>2
                <5>2. detour[e].saved = Under(f, s, k - 1)
                    BY <1>7, <2>1, <3>3, <4>1, <4>2, <5>1 DEF Keeps
                <5> QED BY <2>3, <5>1, <5>2
            <4> QED BY <2>8, <3>3, <4>1, <4>2, KeepsThen
        <3> QED BY <3>1, <3>2, <3>3
    <2> QED BY <1>9, <1>11, <2>4, <2>6, <2>7 DEF Layered
<1> QED BY <1>13, <1>14

\* An object changes that is or was not hooked, or changes in nothing that counts here.
LEMMA QuietLayered ==
    ASSUME Layered, UNCHANGED <<code, layers, messy, torn>>, NEW d \in Detours,
           hooking = Idle \/ hooking.step = 6, hooking' = Idle,
           \A e \in Detours \ {d} : detour'[e] = detour[e],
           \/ detour'[d].len = 0
           \/ /\ detour[d].len # 0 /\ detour'[d].addr = detour[d].addr
              /\ detour'[d].saved = detour[d].saved
    PROVE  Layered'
<1>1. EntriesStand'
    <2>1. \A f \in Functions : Words(f, HookSize)' = Words(f, HookSize)
        BY DEF Words
    <2> QED BY <2>1, EntriesStay DEF Layered
<1>2. ASSUME NEW e \in Detours PROVE ~Pending(e) /\ ~Pending(e)'
    BY Sizes DEF Pending
<1>3. ASSUME NEW e \in Detours, detour'[e].len # 0 PROVE Keeps(e)'
    <2>1. CASE e = d
        <3>1. Keeps(d)
            BY <1>2, <1>3, <2>1 DEF Layered
        <3>2. detour'[d].addr = detour[d].addr /\ detour'[d].saved = detour[d].saved
            BY <1>3, <2>1
        <3>3. PICK f : detour[d].addr = f
            OBVIOUS
        <3>4. PICK w : detour[d].saved = w
            OBVIOUS
        <3>5. PICK s : layers[f] = s
            OBVIOUS
        <3> QED BY <2>1, <3>1, <3>2, <3>3, <3>4, <3>5, KeepsAlike
    <2>2. CASE e # d
        <3>1. Keeps(e) /\ detour'[e] = detour[e]
            BY <1>2, <1>3, <2>2 DEF Layered
        <3> QED BY <3>1, KeepsStays
    <2> QED BY <2>1, <2>2
<1> QED BY <1>1, <1>2, <1>3 DEF Layered

LEMMA PutBackLayered ==
    ASSUME Shapes, Behind, Layered, NEW d \in Detours, NEW after,
           after.len = 0, PutBack(d, after)
    PROVE  Layered'
<1>1. /\ hooking = Idle /\ detour[d].len # 0 /\ detour' = [detour EXCEPT ![d] = after]
      /\ UNCHANGED <<hooking, torn>>
    BY DEF PutBack
<1>2. detour'[d].len = 0 /\ \A e \in Detours \ {d} : detour'[e] = detour[e]
    BY <1>1 DEF Shapes
<1>3. detour[d].addr \in Functions /\ Len(detour[d].saved) = 4
    BY <1>1, Sizes DEF Shapes, IsObject
<1>4. PICK f \in Functions : detour[d].addr = f
    BY <1>3
<1>5. layers \in [Functions -> Seq(Detours)]
    BY DEF Layered
<1>6. PICK s \in Seq(Detours) : layers[f] = s
    BY <1>5
<1>7. PICK words : detour[d].saved = words
    OBVIOUS
<1>8. PICK clean \in BOOLEAN : clean <=> f \notin torn /\ layers[f] # <<>> /\ Last(layers[f]) = d
    OBVIOUS
<1>9. PICK ok \in BOOLEAN :
          /\ code' = IF ok THEN Put(f, words) ELSE code
          /\ layers' = IF ok /\ clean THEN [layers EXCEPT ![f] = Front(@)] ELSE layers
          /\ messy' = IF ok /\ ~clean THEN messy \cup {f} ELSE messy
    BY <1>4, <1>7, <1>8 DEF PutBack, Write
<1>10. \A e \in Detours : ~Pending(e) /\ ~Pending(e)'
    BY <1>1 DEF Pending
<1>11. f \in Nat /\ DOMAIN Image \subseteq DOMAIN code /\ DOMAIN code' = DOMAIN code
    BY <1>9, DomainStays, DetourAssumption DEF Layout, Layered
<1>12. ASSUME NEW g \in Functions \ {f} PROVE Words(g, HookSize)' = Words(g, HookSize)
    <2>1. Len(words) \in Nat /\ (g + 4 <= f \/ f + Len(words) <= g)
        <3> DEFINE n == Len(words)
        <3>1. n = 0 \/ n = 4
            BY <1>3, <1>7
        <3>2. f \in Nat /\ g \in Nat /\ (g + 4 <= f \/ f + 4 <= g)
            BY <1>12, Sizes, DetourAssumption, ApartAssumption DEF Apart, Layout
        <3> HIDE DEF n
        <3>3. n \in Nat /\ (g + 4 <= f \/ f + n <= g)
            BY <3>1, <3>2
        <3> QED BY <3>3 DEF n
    <2> QED BY <1>9, <1>11, <1>12, <2>1, Elsewhere
<1>13. CASE ~(ok /\ clean)
    <2>1. layers' = layers /\ messy \subseteq messy' /\ (ok => f \in messy')
        BY <1>9, <1>13
    <2>2. EntriesStand'
        <3> SUFFICES ASSUME NEW g \in Functions, g \notin messy'
                     PROVE  Words(g, HookSize)' = Under(g, layers[g], Len(layers[g]))
            BY <2>1 DEF EntriesStand, Under
        <3>1. Words(g, HookSize) = Under(g, layers[g], Len(layers[g]))
            BY <2>1 DEF Layered, EntriesStand
        <3>2. CASE ok
            BY <1>12, <2>1, <3>1, <3>2
        <3>3. CASE ~ok
            <4>1. code' = code
                BY <1>9, <3>3
            <4> QED BY <3>1, <4>1 DEF Words
        <3> QED BY <3>2, <3>3
    <2>3. ASSUME NEW e \in Detours, detour'[e].len # 0 PROVE Keeps(e)'
        <3>1. Keeps(e) /\ detour'[e] = detour[e]
            BY <1>2, <1>10, <2>3 DEF Layered
        <3> QED BY <1>1, <2>1, <3>1, KeepsStays
    <2> QED BY <1>5, <1>10, <1>11, <2>1, <2>2, <2>3 DEF Layered
<1>14. CASE ok /\ clean
    <2>1. /\ code' = Put(f, words) /\ messy' = messy
          /\ layers' = [layers EXCEPT ![f] = Front(s)]
          /\ f \notin torn /\ s # <<>> /\ Last(s) = d
        BY <1>6, <1>8, <1>9, <1>14
    <2>2. /\ layers'[f] = Front(s) /\ (\A g \in Functions \ {f} : layers'[g] = layers[g])
          /\ DOMAIN layers' = Functions
        BY <1>5, <2>1
    <2>3. /\ Front(s) \in Seq(Detours) /\ Len(Front(s)) = Len(s) - 1 /\ Len(s) \in Nat \ {0}
          /\ \A k \in 0 .. Len(s) - 1 : Under(f, Front(s), k) = Under(f, s, k)
          /\ Latest(d, s, Len(s))
          /\ \A e \in Detours \ {d} : \A k \in Nat :
                Latest(e, Front(s), k) => k \in 1 .. Len(s) - 1 /\ Latest(e, s, k)
        BY <2>1, Popped
    <2> DEFINE t == Front(s)
               n == Len(s)
    <2> HIDE DEF t, n
    <2>4. /\ layers' \in [Functions -> Seq(Detours)] /\ layers'[f] = t
        BY <1>5, <2>1, <2>2, <2>3 DEF t
    <2>5. Len(t) = n - 1 /\ n \in Nat \ {0}
        BY <2>3 DEF t, n
    <2>6. ASSUME f \notin messy PROVE words = Under(f, t, n - 1)
        <3>1. Keeps(d)
            BY <1>1, <1>10 DEF Layered
        <3>2. Latest(d, s, n)
            BY <2>3 DEF n
        <3>3. words = Under(f, s, n - 1)
            BY <1>4, <1>6, <1>7, <2>1, <2>5, <2>6, <3>1, <3>2 DEF Keeps
        <3>4. Under(f, t, n - 1) = Under(f, s, n - 1)
            BY <2>3, <2>5 DEF t, n
        <3> QED BY <3>3, <3>4
    <2>7. EntriesStand'
        <3> SUFFICES ASSUME NEW g \in Functions, g \notin messy
                     PROVE  Words(g, HookSize)' = Under(g, layers'[g], Len(layers'[g]))
            BY <2>1 DEF EntriesStand, Under
        <3>1. CASE g = f
            <4>1. words = Under(f, t, n - 1)
                BY <2>6, <3>1
            <4>2. Len(words) = 4 /\ words = [i \in 1 .. 4 |-> words[i]]
                BY <4>1, UnderShape
            <4>3. Words(f, HookSize)' = words
                BY <1>11, <2>1, <4>2, Here
            <4> QED BY <2>4, <2>5, <3>1, <4>1, <4>3
        <3>2. CASE g # f
            <4>1. Words(g, HookSize) = Under(g, layers[g], Len(layers[g]))
                BY <3>2 DEF Layered, EntriesStand
            <4> QED BY <1>12, <2>2, <3>2, <4>1
        <3> QED BY <3>1, <3>2
    <2>8. ASSUME NEW e \in Detours, detour'[e].len # 0 PROVE Keeps(e)'
        <3>1. Keeps(e) /\ detour'[e] = detour[e] /\ e # d
            BY <1>2, <1>10, <2>8 DEF Layered
        <3>2. CASE detour[e].addr # f
            <4>1. detour[e].addr \in Functions
                BY <2>8, <3>1 DEF Shapes, IsObject
            <4>2. layers'[detour[e].addr] = layers[detour[e].addr]
                BY <2>2, <3>2, <4>1
            <4> QED BY <1>1, <2>1, <3>1, <4>2, KeepsStays
        <3>3. CASE detour[e].addr = f
            <4>1. ASSUME f \notin messy' \cup torn', NEW k \in Nat, Latest(e, t, k)
                  PROVE  detour[e].saved = Under(f, t, k - 1)
                <5>1. k \in 1 .. Len(s) - 1 /\ Latest(e, s, k)
                    BY <2>3, <3>1, <4>1 DEF t
                <5>2. k - 1 \in 0 .. Len(s) - 1
                    BY <2>3, <5>1
                <5>3. detour[e].saved = Under(f, s, k - 1)
                    BY <1>1, <1>6, <2>1, <3>1, <3>3, <4>1, <5>1 DEF Keeps
                <5> QED BY <2>3, <5>2, <5>3 DEF t
            <4> QED BY <2>4, <3>1, <3>3, <4>1, KeepsThen
        <3> QED BY <3>2, <3>3
    <2> QED BY <1>10, <1>11, <2>4, <2>7, <2>8 DEF Layered
<1> QED BY <1>13, <1>14

LEMMA LayeredStep ==
    ASSUME DetourInv, Layered, [DetourNext]_detourVars
    PROVE  Layered'
<1>0. OffForGood /\ Shapes /\ Behind
    BY DEF DetourInv
<1>1. CASE UNCHANGED detourVars
    <2>1. UNCHANGED <<code, detour, hooking, layers, messy, torn>>
        BY <1>1 DEF detourVars, console, history
    <2>2. EntriesStand'
        BY <2>1 DEF Layered, EntriesStand, Words, Under
    <2>3. ASSUME NEW e \in Detours, detour'[e].len # 0, ~Pending(e)' PROVE Keeps(e)'
        <3>1. Keeps(e)
            BY <2>1, <2>3 DEF Layered, Pending
        <3> QED BY <2>1, <3>1, KeepsStays
    <2>4. ASSUME NEW e \in Detours, detour'[e].len # 0, Pending(e)' PROVE KeepsTop(e)'
        <3>1. KeepsTop(e)
            BY <2>1, <2>4 DEF Layered, Pending
        <3> QED BY <2>1, <3>1 DEF KeepsTop, Under
    <2> QED BY <2>1, <2>2, <2>3, <2>4 DEF Layered
<1>2. ASSUME NEW d \in Detours, NEW f \in Functions, Hook(d, f) PROVE Layered'
    BY <1>0, <1>2, SaveLayered DEF Hook
<1>3. ASSUME NEW d \in Detours, NEW size, NEW lib, NEW fnid, HookByFnid(d, size, lib, fnid)
      PROVE  Layered'
    <2>1. CASE Find(size, lib, fnid) = 0
        <3> DEFINE o == detour[d]
        <3>1. /\ hooking = Idle /\ detour' = [detour EXCEPT ![d].made = TRUE]
              /\ UNCHANGED <<code, hooking, layers, messy, torn>>
            BY <1>3, <2>1 DEF HookByFnid, console, history
        <3>2. IsObject(o, Trampolines + used) /\ DOMAIN detour = Detours
            BY <1>0 DEF Shapes
        <3>3. [o EXCEPT !.made = TRUE] =
                  [made |-> TRUE, addr |-> o.addr, len |-> o.len, saved |-> o.saved,
                   start |-> o.start, opd |-> o.opd]
            BY <3>2, ObjectFields
        <3>4. detour'[d] = [o EXCEPT !.made = TRUE]
            BY <3>1, <3>2
        <3>5. detour'[d].len = o.len /\ detour'[d].addr = o.addr /\ detour'[d].saved = o.saved
            BY <3>3, <3>4
        <3>6. \A e \in Detours \ {d} : detour'[e] = detour[e]
            BY <3>1, <3>2
        <3> QED BY <3>1, <3>5, <3>6, QuietLayered
    <2>2. CASE Find(size, lib, fnid) # 0
        <3>1. Save(d, Find(size, lib, fnid))
            BY <1>3, <2>2 DEF HookByFnid
        <3>2. Find(size, lib, fnid) \in Functions
            BY <2>2, FindsFunction
        <3> QED BY <1>0, <3>1, <3>2, SaveLayered
    <2> QED BY <2>1, <2>2
<1>4. CASE CopyWord \/ JumpBack
    BY <1>0, <1>4, MoveLayered
<1>5. CASE Redirect
    BY <1>0, <1>5, RedirectLayered
<1>6. CASE Describe
    <2>1. /\ hooking # Idle /\ hooking.step > HookSize + 1 /\ hooking' = Idle
          /\ UNCHANGED <<code, layers, messy, torn>>
          /\ detour' = [detour EXCEPT ![hooking.by].opd = detour[hooking.by].start]
        BY <1>6 DEF Describe, console
    <2>2. PICK d \in Detours : hooking.by = d
        BY <1>0, <2>1 DEF OffForGood, IsHooking
    <2>3. hooking.step \in 0 .. 6 /\ hooking.step > 5
        BY <1>0, <2>1, Sizes DEF OffForGood, IsHooking
    <2> DEFINE o == detour[d]
    <2>4. IsObject(o, Trampolines + used) /\ DOMAIN detour = Detours /\ o.len # 0
        BY <1>0, <2>1, <2>2, Sizes DEF Shapes
    <2>5. [o EXCEPT !.opd = o.start] =
              [made |-> o.made, addr |-> o.addr, len |-> o.len, saved |-> o.saved,
               start |-> o.start, opd |-> o.start]
        BY <2>4, ObjectFields
    <2>6. detour'[d] = [o EXCEPT !.opd = o.start]
        BY <2>1, <2>2, <2>4
    <2>7. detour'[d].addr = o.addr /\ detour'[d].saved = o.saved
        BY <2>5, <2>6
    <2>8. \A e \in Detours \ {d} : detour'[e] = detour[e]
        BY <2>1, <2>2, <2>4
    <2>9. hooking.step = 6
        BY <2>3
    <2> QED BY <2>1, <2>4, <2>7, <2>8, <2>9, QuietLayered
<1>7. ASSUME NEW d \in Detours, UnHook(d) PROVE Layered'
    <2> DEFINE after == [made |-> TRUE, addr |-> 0, len |-> 0, saved |-> detour[d].saved,
                         start |-> detour[d].start, opd |-> detour[d].opd]
    <2>1. PutBack(d, after) /\ after.len = 0
        BY <1>7 DEF UnHook
    <2> HIDE DEF after
    <2> QED BY <1>0, <2>1, PutBackLayered
<1>8. ASSUME NEW d \in Detours, Destroy(d) PROVE Layered'
    <2>1. NoObject.len = 0
        BY DEF NoObject
    <2>2. CASE PutBack(d, NoObject)
        BY <1>0, <2>1, <2>2, PutBackLayered
    <2>3. CASE ~PutBack(d, NoObject)
        <3>1. /\ hooking = Idle /\ detour' = [detour EXCEPT ![d] = NoObject]
              /\ UNCHANGED <<code, hooking, layers, messy, torn>>
            BY <1>8, <2>3 DEF Destroy, console
        <3>2. /\ detour'[d].len = 0
              /\ \A e \in Detours \ {d} : detour'[e] = detour[e]
            BY <1>0, <2>1, <3>1 DEF Shapes
        <3> QED BY <3>1, <3>2, QuietLayered
    <2> QED BY <2>2, <2>3
<1> QED BY <1>1, <1>2, <1>3, <1>4, <1>5, <1>6, <1>7, <1>8 DEF DetourNext

-----------------------------------------------------------------------------
\* Whatever the program, wherever its functions lie, and whichever accesses fail: on every
\* function whose detours were taken down latest first stand its own words if none is left,
\* or the jump to the callback of the latest, at every step of Detour::Hook and UnHook.  It
\* is what EntryReachesTop needs of the memory, without what a piece of code does.
THEOREM EntriesAlwaysStand == DetourSpec => []EntriesStand
<1>1. DetourInit => DetourInv /\ Layered
    BY DetourStarts, InitLayered
<1>2. (DetourInv /\ Layered) /\ [DetourNext]_detourVars => (DetourInv /\ Layered)'
    BY DetourStep, LayeredStep
<1>3. Layered => EntriesStand
    BY DEF Layered
<1> QED BY <1>1, <1>2, <1>3, PTL DEF DetourSpec

-----------------------------------------------------------------------------
(***************************************************************************)
(* What a piece of code does.                                              *)
(***************************************************************************)
\* One row of a course: what n words say, if what n - 1 words say is given.
Row(m, c, n, before) ==
    [a \in Addresses |-> [part \in 1 .. FarSize |-> [r \in Register |->
        IF n = 0 THEN <<"...">> ELSE Effect(m, c, before, a, part, r)]]]

LEMMA CourseRows ==
    ASSUME NEW m, NEW c, NEW n \in 1 .. Fuel
    PROVE  Course(m, c)[n] = Row(m, c, n, Course(m, c)[n - 1])
<1> DEFINE Rows(g, k) ==
        g = [i \in 0 .. k |-> IF i = 0 THEN Row(m, c, 0, <<>>) ELSE Row(m, c, i, g[i - 1])]
<1>0. Fuel \in Nat
    BY DEF Fuel
<1>1. \A k \in Nat : \E g : Rows(g, k)
    <2> DEFINE Bad == {k \in Nat : ~\E g : Rows(g, k)}
    <2>1. SUFFICES ASSUME Bad # {} PROVE FALSE
        OBVIOUS
    <2>2. PICK k \in Bad : \A j \in Bad : k <= j
        BY <2>1, LeastOf
    <2>3. k # 0
        <3> DEFINE g == [i \in 0 .. 0 |-> Row(m, c, 0, <<>>)]
        <3>1. g = [i \in 0 .. 0 |-> IF i = 0 THEN Row(m, c, 0, <<>>) ELSE Row(m, c, i, g[i - 1])]
            OBVIOUS
        <3>2. Rows(g, 0)
            BY <3>1
        <3> QED BY <3>2
    <2>4. PICK g : Rows(g, k - 1)
        BY <2>2, <2>3
    <2> DEFINE h == [i \in 0 .. k |-> IF i = k THEN Row(m, c, k, g[k - 1]) ELSE g[i]]
    <2>5. \A i \in 0 .. k : h[i] = IF i = 0 THEN Row(m, c, 0, <<>>) ELSE Row(m, c, i, h[i - 1])
        <3> TAKE i \in 0 .. k
        <3>1. CASE i = k
            BY <2>3, <3>1
        <3>2. CASE i # k
            <4>1. i \in 0 .. k - 1 /\ h[i] = g[i]
                BY <3>2
            <4>2. g[i] = IF i = 0 THEN Row(m, c, 0, <<>>) ELSE Row(m, c, i, g[i - 1])
                <5> HIDE DEF h
                <5> QED BY <2>4, <4>1
            <4>3. i # 0 => h[i - 1] = g[i - 1]
                BY <4>1
            <4> HIDE DEF h
            <4> QED BY <4>1, <4>2, <4>3
        <3> QED BY <3>1, <3>2
    <2>6. h = [i \in 0 .. k |-> h[i]]
        OBVIOUS
    <2> HIDE DEF h
    <2>7. Rows(h, k)
        BY <2>5, <2>6
    <2> QED BY <2>7
<1>2. Course(m, c) = CHOOSE g : g = [i \in 0 .. Fuel |->
            [a \in Addresses |-> [part \in 1 .. FarSize |-> [r \in Register |->
                IF i = 0 THEN <<"...">> ELSE Effect(m, c, g[i - 1], a, part, r)]]]]
    BY DEF Course
<1>3. \A i, before : Row(m, c, 0, before) = Row(m, c, 0, <<>>)
    BY DEF Row
<1>4. Course(m, c) = CHOOSE g : g = [i \in 0 .. Fuel |-> Row(m, c, i, g[i - 1])]
    BY <1>2 DEF Row
<1>5. \E g : g = [i \in 0 .. Fuel |-> Row(m, c, i, g[i - 1])]
    <2>1. PICK g : Rows(g, Fuel)
        BY <1>0, <1>1
    <2>2. \A i \in 0 .. Fuel : g[i] = Row(m, c, i, g[i - 1])
        BY <2>1, <1>3
    <2>3. g = [i \in 0 .. Fuel |-> g[i]]
        BY <2>1
    <2>4. g = [i \in 0 .. Fuel |-> Row(m, c, i, g[i - 1])]
        BY <2>2, <2>3
    <2> QED BY <2>4
<1>6. Course(m, c) = [i \in 0 .. Fuel |-> Row(m, c, i, Course(m, c)[i - 1])]
    <2> DEFINE Q(g) == g = [i \in 0 .. Fuel |-> Row(m, c, i, g[i - 1])]
    <2>1. Course(m, c) = CHOOSE g : Q(g)
        BY <1>4
    <2>2. \E g : Q(g)
        BY <1>5
    <2> HIDE DEF Q
    <2>3. Q(Course(m, c))
        BY <2>1, <2>2
    <2> QED BY <2>3 DEF Q
<1> QED BY <1>6, <1>0

LEMMA CourseEffect ==
    ASSUME NEW m, NEW c, NEW n \in 1 .. Fuel, NEW a \in Addresses, NEW part \in 1 .. FarSize,
           NEW r \in Register
    PROVE  Course(m, c)[n][a][part][r] = Effect(m, c, Course(m, c)[n - 1], a, part, r)
<1>1. Course(m, c)[n] = Row(m, c, n, Course(m, c)[n - 1])
    BY CourseRows
<1>2. n # 0
    OBVIOUS
<1> HIDE DEF Course
<1> QED BY <1>1, <1>2 DEF Row

LEMMA IntIsAddress == \A a \in Int : a \in Addresses
BY DEF Addresses

\* What is done from the beginning of a word on.
From(m, c, n, a, r) == Course(m, c)[n][a][1][r]

\* Nothing that was loaded is in the count register.
Unloaded == {"passed", "lost"}

LEMMA RegisterFacts == Unloaded \subseteq Register /\ "loaded" \notin Unloaded
                       /\ "lost" \in Unloaded /\ "passed" \in Unloaded
BY DEF Unloaded, Register

\* Code of others.
LEMMA CourseLeaves ==
    ASSUME NEW m, NEW c, NEW n \in 1 .. Fuel, NEW a \in Addresses, a \notin DOMAIN m,
           NEW r \in Unloaded
    PROVE  From(m, c, n, a, r) = <<a>>
<1>1. 1 \in 1 .. FarSize
    BY DEF FarSize
<1>2. Course(m, c)[n][a][1][r] = Effect(m, c, Course(m, c)[n - 1], a, 1, r)
    BY <1>1, CourseEffect, RegisterFacts
<1>3. Effect(m, c, Course(m, c)[n - 1], a, 1, r) = <<a>>
    BY RegisterFacts DEF Effect
<1> QED BY <1>2, <1>3 DEF From

\* One word of a far jump.
LEMMA FarWord ==
    ASSUME NEW m, NEW c, NEW n \in 1 .. Fuel, NEW a \in Int, NEW k \in 1 .. FarSize,
           a \in DOMAIN m, NEW size \in {4, 6}, k < size, NEW t, NEW cond, NEW link,
           NEW r \in Register,
           m[a] = [op |-> "far", part |-> k, size |-> size, target |-> t, cond |-> cond,
                   link |-> link]
    PROVE  Course(m, c)[n][a][k][r] = Course(m, c)[n - 1][a + 1][k + 1][r]
<1>1. Course(m, c)[n][a][k][r] = Effect(m, c, Course(m, c)[n - 1], a, k, r)
    BY CourseEffect, IntIsAddress
<1>2. m[a].op = "far" /\ m[a].part = k /\ m[a].size = size
    OBVIOUS
<1> HIDE DEF Course
<1> QED BY <1>1, <1>2 DEF Effect

LEMMA FarEnd ==
    ASSUME NEW m, NEW c, NEW n \in 1 .. Fuel, NEW a \in Int, NEW size \in {4, 6},
           a \in DOMAIN m, NEW t, NEW cond, NEW link \in BOOLEAN, cond # "count",
           NEW r \in Register,
           m[a] = [op |-> "far", part |-> size, size |-> size, target |-> t, cond |-> cond,
                   link |-> link]
    PROVE  Course(m, c)[n][a][size][r] =
              IF cond \notin c THEN Course(m, c)[n - 1][a + 1][1]["lost"]
              ELSE IF link THEN <<t>> \o Course(m, c)[n - 1][a + 1][1]["lost"]
              ELSE Course(m, c)[n - 1][t][1]["lost"]
<1>0. size \in 1 .. FarSize
    BY DEF FarSize
<1>1. Course(m, c)[n][a][size][r] = Effect(m, c, Course(m, c)[n - 1], a, size, r)
    BY <1>0, CourseEffect, IntIsAddress
<1>2. /\ m[a].op = "far" /\ m[a].part = size /\ m[a].size = size /\ m[a].target = t
      /\ m[a].cond = cond /\ m[a].link = link
    OBVIOUS
<1>3. ~(size < size)
    OBVIOUS
<1> HIDE DEF Course
<1> QED BY <1>1, <1>2, <1>3 DEF Effect

\* The words of a far jump lie at a.
LiesFar(m, a, size, t, cond, link) ==
    /\ a \in Int /\ size \in {4, 6} /\ cond # "count" /\ link \in BOOLEAN
    /\ \A k \in 1 .. size :
          /\ a + k - 1 \in DOMAIN m
          /\ m[a + k - 1] = [op |-> "far", part |-> k, size |-> size, target |-> t,
                             cond |-> cond, link |-> link]

\* A branch to t under a condition.
Taken(c, cond, link, t, next, there) ==
    IF cond \notin c THEN next ELSE IF link THEN <<t>> \o next ELSE there

\* A far jump as a whole.
Jumps(m, c, n, a, size, t, cond, link) ==
    \A r \in Register :
        From(m, c, n, a, r) =
            Taken(c, cond, link, t, From(m, c, n - size, a + size, "lost"),
                  From(m, c, n - size, t, "lost"))

LEMMA FarRuns ==
    ASSUME NEW m, NEW c, NEW size, NEW n \in size .. Fuel, NEW a, NEW t, NEW cond, NEW link,
           LiesFar(m, a, size, t, cond, link)
    PROVE  Jumps(m, c, n, a, size, t, cond, link)
<1>s. SUFFICES ASSUME NEW r \in Register
      PROVE  From(m, c, n, a, r) =
                 Taken(c, cond, link, t, From(m, c, n - size, a + size, "lost"),
                       From(m, c, n - size, t, "lost"))
    BY DEF Jumps
<1> DEFINE C == Course(m, c)
<1>0. Fuel \in Nat /\ FarSize = 6
    BY DEF Fuel, FarSize
<1>a. a \in Int /\ size \in {4, 6} /\ cond # "count" /\ link \in BOOLEAN
    BY DEF LiesFar
<1>1. ASSUME NEW k \in 1 .. size - 1
      PROVE  C[n - (k - 1)][a + (k - 1)][k][r] = C[n - k][a + k][k + 1][r]
    <2> DEFINE i == n - (k - 1)
               b == a + (k - 1)
    <2>1. i \in 1 .. Fuel /\ b \in Int /\ k \in 1 .. FarSize /\ k < size
        BY <1>0, <1>a
    <2>2. /\ b \in DOMAIN m
          /\ m[b] = [op |-> "far", part |-> k, size |-> size, target |-> t,
                     cond |-> cond, link |-> link]
        <3>1. k \in 1 .. size /\ b = a + k - 1
            BY <1>a
        <3> QED BY <3>1 DEF LiesFar
    <2>3. i - 1 = n - k /\ b + 1 = a + k
        BY <1>0, <1>a
    <2> HIDE DEF i, b
    <2>4. Course(m, c)[i][b][k][r] = Course(m, c)[i - 1][b + 1][k + 1][r]
        BY <1>a, <2>1, <2>2, FarWord
    <2> QED BY <2>3, <2>4 DEF i, b
<1>2. C[n][a][1][r] = C[n - (size - 1)][a + (size - 1)][size][r]
    <2>1. C[n][a][1][r] = C[n - 1][a + 1][2][r]
        <3>1. n - (1 - 1) = n /\ a + (1 - 1) = a /\ 1 \in 1 .. size - 1 /\ 1 + 1 = 2
            BY <1>0, <1>a
        <3> HIDE DEF C
        <3> QED BY <1>1, <3>1
    <2>2. ASSUME NEW k \in 2 .. size - 1 PROVE C[n - (k - 1)][a + (k - 1)][k][r] = C[n - k][a + k][k + 1][r]
        <3>1. k \in 1 .. size - 1
            BY <1>a
        <3> HIDE DEF C
        <3> QED BY <1>1, <3>1
    <2> HIDE DEF C
    <2>3. C[n - 1][a + 1][2][r] = C[n - 2][a + 2][3][r]
        <3>1. 2 \in 2 .. size - 1 /\ 2 - 1 = 1 /\ 2 + 1 = 3
            BY <1>a
        <3> QED BY <2>2, <3>1
    <2>4. C[n - 2][a + 2][3][r] = C[n - 3][a + 3][4][r]
        <3>1. 3 \in 2 .. size - 1 /\ 3 - 1 = 2 /\ 3 + 1 = 4
            BY <1>a
        <3> QED BY <2>2, <3>1
    <2>5. size = 6 => C[n - 3][a + 3][4][r] = C[n - 4][a + 4][5][r]
        <3>1. size = 6 => 4 \in 2 .. size - 1 /\ 4 - 1 = 3 /\ 4 + 1 = 5
            BY <1>a
        <3> QED BY <2>2, <3>1
    <2>6. size = 6 => C[n - 4][a + 4][5][r] = C[n - 5][a + 5][6][r]
        <3>1. size = 6 => 5 \in 2 .. size - 1 /\ 5 - 1 = 4 /\ 5 + 1 = 6
            BY <1>a
        <3> QED BY <2>2, <3>1
    <2> QED BY <1>a, <2>1, <2>3, <2>4, <2>5, <2>6
<1>3. C[n - (size - 1)][a + (size - 1)][size][r] =
              IF cond \notin c THEN C[n - size][a + size][1]["lost"]
              ELSE IF link THEN <<t>> \o C[n - size][a + size][1]["lost"]
              ELSE C[n - size][t][1]["lost"]
    <2> DEFINE i == n - (size - 1)
               b == a + (size - 1)
    <2>1. i \in 1 .. Fuel /\ b \in Int /\ i - 1 = n - size /\ b + 1 = a + size
        BY <1>0, <1>a
    <2>2. /\ b \in DOMAIN m
          /\ m[b] = [op |-> "far", part |-> size, size |-> size, target |-> t,
                     cond |-> cond, link |-> link]
        <3>1. size \in 1 .. size /\ b = a + size - 1
            BY <1>a
        <3> QED BY <3>1 DEF LiesFar
    <2> HIDE DEF i, b
    <2>3. Course(m, c)[i][b][size][r] =
              IF cond \notin c THEN Course(m, c)[i - 1][b + 1][1]["lost"]
              ELSE IF link THEN <<t>> \o Course(m, c)[i - 1][b + 1][1]["lost"]
              ELSE Course(m, c)[i - 1][t][1]["lost"]
        BY <1>a, <2>1, <2>2, FarEnd
    <2> QED BY <2>1, <2>3 DEF i, b
<1> HIDE DEF C
<1>4. C[n][a][1][r] =
              IF cond \notin c THEN C[n - size][a + size][1]["lost"]
              ELSE IF link THEN <<t>> \o C[n - size][a + size][1]["lost"]
              ELSE C[n - size][t][1]["lost"]
    BY <1>2, <1>3
<1> QED BY <1>4 DEF C, From, Taken

-----------------------------------------------------------------------------
\* The other words.
LEMMA PlainRuns ==
    ASSUME NEW m, NEW c, NEW n \in 1 .. Fuel, NEW a \in Int, a \in DOMAIN m,
           m[a].op = "plain", NEW r \in Register
    PROVE  From(m, c, n, a, r) = <<m[a].id>> \o From(m, c, n - 1, a + 1, r)
<1> DEFINE then == Course(m, c)[n - 1]
<1>1. From(m, c, n, a, r) = Effect(m, c, then, a, 1, r)
    BY CourseEffect, IntIsAddress DEF FarSize, From
<1> HIDE DEF then
<1>2. Effect(m, c, then, a, 1, r) = <<m[a].id>> \o then[a + 1][1][r]
    BY DEF Effect
<1> QED BY <1>1, <1>2 DEF then, From

LEMMA ReturnRuns ==
    ASSUME NEW m, NEW c, NEW n \in 1 .. Fuel, NEW a \in Int, a \in DOMAIN m,
           m[a].op = "return", NEW r \in Register
    PROVE  From(m, c, n, a, r) = <<"return">>
<1> DEFINE then == Course(m, c)[n - 1]
<1>1. From(m, c, n, a, r) = Effect(m, c, then, a, 1, r)
    BY CourseEffect, IntIsAddress DEF FarSize, From
<1> HIDE DEF then
<1>2. Effect(m, c, then, a, 1, r) = <<"return">>
    BY DEF Effect
<1> QED BY <1>1, <1>2 DEF then, From

\* A branch to code of others.
LEMMA BranchRuns ==
    ASSUME NEW m, NEW c, NEW n \in 2 .. Fuel, NEW a \in Int, a \in DOMAIN m,
           m[a].op \in {"b", "bc"}, NEW x, m[a].cond = x, x # "count",
           NEW l \in BOOLEAN, m[a].link = l,
           NEW g \in Int, Goal(m[a], a) = g, g \notin DOMAIN m, NEW r \in Unloaded
    PROVE  From(m, c, n, a, r) =
              Taken(c, x, l, g, From(m, c, n - 1, a + 1, r),
                    <<g>>)
<1> DEFINE then == Course(m, c)[n - 1]
<1>0. Fuel \in Nat /\ n - 1 \in 1 .. Fuel /\ n \in 1 .. Fuel
    BY DEF Fuel
<1>1. From(m, c, n, a, r) = Effect(m, c, then, a, 1, r)
    BY <1>0, CourseEffect, IntIsAddress, RegisterFacts DEF FarSize, From
<1>2. then[g][1][r] = <<g>>
    BY <1>0, CourseLeaves, IntIsAddress DEF From
<1> HIDE DEF then
<1>3. Effect(m, c, then, a, 1, r) =
              IF x \notin c THEN then[a + 1][1][r]
              ELSE IF l THEN <<g>> \o then[a + 1][1][r]
              ELSE then[g][1][r]
    BY DEF Effect
<1> QED BY <1>1, <1>2, <1>3 DEF then, From, Taken

\* Words that lie at a.
LiesAt(m, a, words) ==
    \A k \in 1 .. Len(words) : a + k - 1 \in DOMAIN m /\ m[a + k - 1] = words[k]

\* A word that works elsewhere, too.
Movable(w, a, m, mi) ==
    /\ w.op \in {"plain", "return", "b", "bc"}
    /\ w.op \in {"b", "bc"} =>
          /\ Goal(w, a) \in Int /\ Goal(w, a) \notin DOMAIN m /\ Goal(w, a) \notin DOMAIN mi
          /\ w.link \in BOOLEAN /\ w.absolute \in BOOLEAN
          /\ w.cond # "count"

\* Two pieces of code do the same, with n and i words to look at, whether or not one has
\* lost the count register.
Alike(m, mi, c, n, q, i, a) ==
    \A r, s \in Unloaded : From(m, c, n, q, r) = From(mi, c, i, a, s)

\* What a word of a prologue does at f's place in the program and what its relocated form
\* does at q in the buffer are the same if what follows is.
LEMMA PieceRuns ==
    ASSUME NEW m, NEW mi, NEW c, NEW n \in 7 .. Fuel, NEW i \in 2 .. Fuel,
           NEW a \in Int, NEW q \in Int, NEW w,
           a \in DOMAIN mi, mi[a] = w, Movable(w, a, m, mi),
           LiesAt(m, q, Relocate(w, a)), NEW len, len = Len(Relocate(w, a)),
           Alike(m, mi, c, n - len, q + len, i - 1, a + 1)
    PROVE  Alike(m, mi, c, n, q, i, a)
<1>s. SUFFICES ASSUME NEW r \in Unloaded, NEW s \in Unloaded
      PROVE  From(m, c, n, q, r) = From(mi, c, i, a, s)
    BY DEF Alike
<1>r. r \in Register /\ s \in Register /\ "lost" \in Unloaded
    BY RegisterFacts
<1>t. \A v \in Unloaded : From(m, c, n - len, q + len, v) = From(mi, c, i - 1, a + 1, s)
    BY DEF Alike
<1>0. Fuel \in Nat /\ i \in 1 .. Fuel /\ n \in 2 .. Fuel /\ n \in 1 .. Fuel
    BY DEF Fuel
<1>1. /\ w.op \in {"plain", "return"} => Relocate(w, a) = <<w>>
      /\ w.op \in {"b", "bc"} /\ w.absolute = TRUE => Relocate(w, a) = <<w>>
    BY DEF Relocate, RelocateBranch
<1>2. Relocate(w, a) = <<w>> =>
          /\ q \in DOMAIN m /\ m[q] = w
          /\ From(m, c, n - 1, q + 1, r) = From(mi, c, i - 1, a + 1, s)
    <2>1. Len(<<w>>) = 1 /\ <<w>>[1] = w /\ 1 \in 1 .. 1 /\ q + 1 - 1 = q
        OBVIOUS
    <2> QED BY <1>t, <2>1 DEF LiesAt
<1>3. CASE w.op = "plain"
    <2>0. PICK id : id = w.id
        OBVIOUS
    <2>1. From(m, c, n, q, r) = <<id>> \o From(m, c, n - 1, q + 1, r)
        <3>1. n \in 1 .. Fuel /\ q \in Int /\ q \in DOMAIN m /\ m[q].op = "plain" /\ m[q].id = id
            BY <1>0, <1>1, <1>2, <1>3, <2>0
        <3>2. r \in Register
            BY <1>r
        <3>3. From(m, c, n, q, r) = <<m[q].id>> \o From(m, c, n - 1, q + 1, r)
            BY <3>1, <3>2, PlainRuns
        <3> QED BY <3>1, <3>3
    <2>2. From(mi, c, i, a, s) = <<id>> \o From(mi, c, i - 1, a + 1, s)
        <3>1. i \in 1 .. Fuel /\ a \in Int /\ a \in DOMAIN mi /\ mi[a].op = "plain" /\ mi[a].id = id
            BY <1>0, <1>3, <2>0
        <3>2. s \in Register
            BY <1>r
        <3>3. From(mi, c, i, a, s) = <<mi[a].id>> \o From(mi, c, i - 1, a + 1, s)
            BY <3>1, <3>2, PlainRuns
        <3> QED BY <3>1, <3>3
    <2> QED BY <1>1, <1>2, <1>3, <2>1, <2>2
<1>4. CASE w.op = "return"
    <2>1. From(m, c, n, q, r) = <<"return">>
        BY <1>0, <1>1, <1>2, <1>4, <1>r, ReturnRuns
    <2>2. From(mi, c, i, a, s) = <<"return">>
        BY <1>0, <1>4, <1>r, ReturnRuns
    <2> QED BY <2>1, <2>2
<1>5. CASE w.op \in {"b", "bc"} /\ w.absolute = TRUE
    <2>0. PICK g, x, l : g = Goal(w, a) /\ x = w.cond /\ l = w.link
        OBVIOUS
    <2>1. Goal(w, q) = g
        BY <1>5, <2>0 DEF Goal
    <2>2. g \in Int /\ g \notin DOMAIN m /\ g \notin DOMAIN mi /\ l \in BOOLEAN /\ x # "count"
        BY <1>5, <2>0 DEF Movable
    <2>3. From(m, c, n, q, r) =
              Taken(c, x, l, g, From(m, c, n - 1, q + 1, r), <<g>>)
        <3>1. /\ q \in DOMAIN m /\ m[q].op \in {"b", "bc"} /\ m[q].cond = x /\ m[q].link = l
              /\ Goal(m[q], q) = g
            BY <1>1, <1>2, <1>5, <2>0, <2>1
        <3> QED BY <1>0, <2>2, <3>1, BranchRuns
    <2>4. From(mi, c, i, a, s) =
              Taken(c, x, l, g, From(mi, c, i - 1, a + 1, s), <<g>>)
        <3>1. /\ mi[a].op \in {"b", "bc"} /\ mi[a].cond = x /\ mi[a].link = l
              /\ Goal(mi[a], a) = g
            BY <1>5, <2>0
        <3> QED BY <2>2, <3>1, BranchRuns
    <2>5. From(m, c, n - 1, q + 1, r) = From(mi, c, i - 1, a + 1, s)
        BY <1>1, <1>2, <1>5
    <2> QED BY <2>3, <2>4, <2>5
<1>6. CASE w.op \in {"b", "bc"} /\ w.absolute = FALSE
    <2>0. PICK g, x, l : g = Goal(w, a) /\ x = w.cond /\ l = w.link
        OBVIOUS
    <2>1. Relocate(w, a) = Far(g, x, l, TRUE)
        BY <1>6, <2>0 DEF Relocate, RelocateBranch
    <2>2. Len(Far(g, x, l, TRUE)) = 6
        BY FarLength
    <2>4. /\ g \in Int /\ g \in Addresses /\ g \notin DOMAIN m /\ g \notin DOMAIN mi
          /\ l \in BOOLEAN /\ x # "count"
        BY <1>6, <2>0, IntIsAddress DEF Movable
    <2>3. LiesFar(m, q, 6, g, x, l)
        <3>1. ASSUME NEW k \in 1 .. 6
              PROVE  Far(g, x, l, TRUE)[k] =
                        [op |-> "far", part |-> k, size |-> 6, target |-> g, cond |-> x, link |-> l]
            BY DEF Far, FarSize
        <3>2. LiesAt(m, q, Far(g, x, l, TRUE))
            BY <2>1
        <3>3. \A k \in 1 .. 6 : q + k - 1 \in DOMAIN m /\ m[q + k - 1] = Far(g, x, l, TRUE)[k]
            BY <2>2, <3>2 DEF LiesAt
        <3>4. q \in Int /\ 6 \in {4, 6} /\ x # "count" /\ l \in BOOLEAN
            BY <2>4
        <3> QED BY <3>1, <3>3, <3>4 DEF LiesFar
    <2>5. From(m, c, n - 6, q + 6, "lost") = From(mi, c, i - 1, a + 1, s)
        <3>1. "lost" \in Unloaded
            BY <1>r
        <3>2. len = 6
            BY <2>1, <2>2
        <3> QED BY <1>t, <3>1, <3>2
    <2>6. n - 6 \in 1 .. Fuel /\ n \in 6 .. Fuel /\ 6 \in {4, 6}
        BY <1>0
    <2>7. From(m, c, n - 6, g, "lost") = <<g>>
        BY <1>r, <2>4, <2>6, CourseLeaves
    <2>8. From(m, c, n, q, r) =
                  Taken(c, x, l, g, From(m, c, n - 6, q + 6, "lost"),
                    From(m, c, n - 6, g, "lost"))
        <3>1. Jumps(m, c, n, q, 6, g, x, l)
            BY <2>3, <2>6, FarRuns
        <3> QED BY <1>r, <3>1 DEF Jumps
    <2>9. From(mi, c, i, a, s) =
                  Taken(c, x, l, g, From(mi, c, i - 1, a + 1, s), <<g>>)
        <3>1. /\ mi[a].op \in {"b", "bc"} /\ mi[a].cond = x /\ mi[a].link = l
              /\ Goal(mi[a], a) = g
            BY <1>6, <2>0
        <3> QED BY <2>4, <3>1, BranchRuns
    <2> QED BY <2>5, <2>7, <2>8, <2>9
<1> QED BY <1>3, <1>4, <1>5, <1>6 DEF Movable

-----------------------------------------------------------------------------
(***************************************************************************)
(* What steps write.                                                       *)
(***************************************************************************)
WritesFunction ==
    \/ code' = code
    \/ \E f \in Functions : \E words : Len(words) = 4 /\ code' = Put(f, words)

WritesBuffer ==
    \E words : /\ Len(words) \in 1 .. 6 /\ used' = used + Len(words)
               /\ code' = code \/ code' = Put(Trampolines + used, words)

LEMMA MoveWrites ==
    ASSUME OffForGood, CopyWord \/ JumpBack
    PROVE  WritesBuffer
<1>1. CASE CopyWord
    <2> DEFINE a == detour[hooking.by].addr + hooking.step
               words == Relocate(code[a], a)
    <2>1. /\ used' = used + Len(words)
          /\ code' = code \/ code' = Put(Trampolines + used, words)
        BY <1>1 DEF CopyWord, Write
    <2>2. Len(words) \in 1 .. 6
        BY RelocateLength
    <2> HIDE DEF words
    <2> QED BY <2>1, <2>2 DEF WritesBuffer
<1>2. CASE JumpBack
    <2> DEFINE words == Jump(detour[hooking.by].addr + HookSize, TRUE)
    <2>1. /\ used' = used + 6
          /\ code' = code \/ code' = Put(Trampolines + used, words)
        BY <1>2, Sizes DEF JumpBack, Write
    <2>2. Len(words) = 6
        BY FarLength DEF Jump
    <2> HIDE DEF words
    <2>3. Len(words) \in 1 .. 6 /\ used' = used + Len(words)
        BY <2>1, <2>2
    <2> QED BY <2>1, <2>3 DEF WritesBuffer
<1> QED BY <1>1, <1>2

LEMMA PutBackWrites ==
    ASSUME Shapes, NEW d \in Detours, NEW after, PutBack(d, after)
    PROVE  WritesFunction
<1>1. detour[d].len # 0 /\ (code' = code \/ code' = Put(detour[d].addr, detour[d].saved))
    BY DEF PutBack, Write
<1>2. detour[d].addr \in Functions /\ Len(detour[d].saved) = 4
    BY <1>1, Sizes DEF Shapes, IsObject
<1> QED BY <1>1, <1>2 DEF WritesFunction

LEMMA RedirectWrites ==
    ASSUME OffForGood, Shapes, Redirect
    PROVE  WritesFunction
<1> DEFINE d == hooking.by
           words == Jump(Callback[d], FALSE)
<1>1. hooking # Idle /\ (code' = code \/ code' = Put(detour[d].addr, words))
    BY DEF Redirect, Write
<1>2. d \in Detours
    BY <1>1 DEF OffForGood, IsHooking
<1>3. detour[d].addr \in Functions
    BY <1>1, <1>2, Sizes DEF Shapes, IsObject
<1>4. Len(words) = 4
    BY FarLength DEF Jump
<1> HIDE DEF words, d
<1> QED BY <1>1, <1>3, <1>4 DEF WritesFunction

LEMMA StepWrites ==
    ASSUME DetourInv, [DetourNext]_detourVars
    PROVE  WritesFunction \/ CopyWord \/ JumpBack
<1>0. OffForGood /\ Shapes
    BY DEF DetourInv
<1>1. CASE UNCHANGED detourVars
    BY <1>1 DEF detourVars, console, WritesFunction
<1>2. ASSUME NEW d \in Detours, NEW f, Save(d, f) PROVE code' = code
    BY <1>2 DEF Save
<1>3. ASSUME NEW d \in Detours, NEW f \in Functions, Hook(d, f) PROVE WritesFunction
    BY <1>2, <1>3 DEF Hook, WritesFunction
<1>4. ASSUME NEW d \in Detours, NEW size, NEW lib, NEW fnid, HookByFnid(d, size, lib, fnid)
      PROVE  WritesFunction
    BY <1>2, <1>4 DEF HookByFnid, console, WritesFunction
<1>5. CASE Redirect
    BY <1>0, <1>5, RedirectWrites
<1>6. CASE Describe
    BY <1>6 DEF Describe, console, WritesFunction
<1>7. ASSUME NEW d \in Detours, UnHook(d) PROVE WritesFunction
    BY <1>0, <1>7, PutBackWrites DEF UnHook
<1>8. ASSUME NEW d \in Detours, Destroy(d) PROVE WritesFunction
    <2>1. CASE PutBack(d, NoObject)
        BY <1>0, <2>1, PutBackWrites
    <2>2. CASE ~PutBack(d, NoObject)
        BY <1>8, <2>2 DEF Destroy, console, WritesFunction
    <2> QED BY <2>1, <2>2
<1> QED BY <1>1, <1>3, <1>4, <1>5, <1>6, <1>7, <1>8 DEF DetourNext

\* A function's first words.
Covered(a) == \E f \in Functions : a \in f .. f + 3

LEMMA FunctionWritten ==
    ASSUME Behind, WritesFunction
    PROVE  /\ DOMAIN code' = DOMAIN code
           /\ \A x \in DOMAIN code : x >= Trampolines \/ ~Covered(x) => code'[x] = code[x]
<1>1. CASE code' = code
    BY <1>1
<1>2. CASE code' # code
    <2>1. PICK f \in Functions : \E words : Len(words) = 4 /\ code' = Put(f, words)
        BY <1>2 DEF WritesFunction
    <2>2. PICK words : Len(words) = 4 /\ code' = Put(f, words)
        BY <2>1
    <2>3. PICK n \in {4} : n = Len(words)
        BY <2>2
    <2>4. f \in Nat /\ f + 4 <= Trampolines /\ Trampolines \in Nat
        BY FunctionsAreBelow, DetourAssumption DEF Layout
    <2>5. /\ DOMAIN Put(f, words) = DOMAIN code
          /\ \A x \in DOMAIN code : x < f \/ x >= f + n => Put(f, words)[x] = code[x]
        BY <2>3, <2>4, PutFacts DEF Behind
    <2>6. ASSUME NEW x \in DOMAIN code, x >= Trampolines \/ ~Covered(x)
          PROVE  x < f \/ x >= f + n
        <3>1. x \in Nat /\ (x >= Trampolines \/ x \notin f .. f + 3)
            BY <2>6 DEF Behind, Covered
        <3>2. x < f \/ x >= f + 4
            BY <2>4, <3>1
        <3>3. f + n <= f + 4 /\ f + n \in Nat
            <4>1. n = 0 \/ n = 4
                BY <2>3
            <4> QED BY <2>4, <4>1
        <3> QED BY <2>4, <3>1, <3>2, <3>3
    <2> QED BY <2>2, <2>5, <2>6
<1> QED BY <1>1, <1>2

LEMMA BufferWritten ==
    ASSUME Shapes, Behind, WritesBuffer
    PROVE  /\ DOMAIN code' = DOMAIN code
           /\ \A x \in DOMAIN code : x < Trampolines + used => code'[x] = code[x]
<1>1. PICK words : /\ Len(words) \in 1 .. 6
                   /\ code' = code \/ code' = Put(Trampolines + used, words)
    BY DEF WritesBuffer
<1>2. PICK n \in 1 .. 6 : n = Len(words)
    BY <1>1
<1>3. PICK a \in Nat : a = Trampolines + used
    BY DetourAssumption DEF Shapes, Layout
<1>4. /\ DOMAIN Put(a, words) = DOMAIN code
      /\ \A x \in DOMAIN code : x < a \/ x >= a + n => Put(a, words)[x] = code[x]
    BY <1>2, PutFacts DEF Behind
<1> QED BY <1>1, <1>3, <1>4

\* Where memory is, and that the program is what it was apart from the functions' first words.
Around ==
    /\ DOMAIN code = DOMAIN Image \cup Room
    /\ \A a \in DOMAIN Image : ~Covered(a) => code[a] = Image[a]

LEMMA InitAround == DetourInit => Around
BY DEF DetourInit, Around

LEMMA AroundStep ==
    ASSUME DetourInv, Around, [DetourNext]_detourVars
    PROVE  Around'
<1>0. OffForGood /\ Shapes /\ Behind
    BY DEF DetourInv
<1>1. ASSUME DOMAIN code' = DOMAIN code,
             \A a \in DOMAIN Image : ~Covered(a) => code'[a] = code[a]
      PROVE  Around'
    BY <1>1 DEF Around, Covered
<1>2. CASE WritesFunction
    <2>1. DOMAIN Image \subseteq DOMAIN code
        BY DEF Around
    <2> QED BY <1>0, <1>1, <1>2, <2>1, FunctionWritten
<1>3. CASE CopyWord \/ JumpBack
    <2>1. \A a \in DOMAIN Image : a \in DOMAIN code /\ a < Trampolines + used
        <3>1. Trampolines \in Nat /\ used \in Nat
            BY <1>0, DetourAssumption DEF Layout, Shapes
        <3>2. \A a \in DOMAIN Image : a \in Nat /\ a + 1 < Trampolines
            BY DetourAssumption DEF Layout
        <3>3. \A a \in DOMAIN Image : a \in DOMAIN code
            BY DEF Around
        <3> QED BY <3>1, <3>2, <3>3
    <2>2. WritesBuffer
        BY <1>0, <1>3, MoveWrites
    <2> QED BY <1>0, <1>1, <2>1, <2>2, BufferWritten
<1> QED BY <1>2, <1>3, StepWrites

-----------------------------------------------------------------------------
LEMMA TraceIs ==
    ASSUME NEW m, NEW a, NEW c
    PROVE  Trace(m, a, c) = From(m, c, Fuel, a, "passed")
BY DEF Trace, From

\* What a jump to a callback does.
LEMMA CallbackRuns ==
    ASSUME NEW m, NEW c \in Circumstances, NEW n \in 5 .. Fuel, NEW a \in Int, NEW t \in Addresses,
           t \notin DOMAIN m, LiesFar(m, a, 4, t, "always", FALSE)
    PROVE  From(m, c, n, a, "passed") = <<t>>
<1>0. Fuel \in Nat /\ n - 4 \in 1 .. Fuel /\ n \in 4 .. Fuel
    BY DEF Fuel
<1>1. "always" \in c
    BY DEF Circumstances
<1>2. Jumps(m, c, n, a, 4, t, "always", FALSE)
    BY <1>0, FarRuns
<1>3. From(m, c, n - 4, t, "lost") = <<t>>
    BY <1>0, CourseLeaves, RegisterFacts
<1>4. "passed" \in Register
    BY RegisterFacts
<1> QED BY <1>1, <1>2, <1>3, <1>4 DEF Jumps, Taken

LEMMA JumpLies ==
    ASSUME NEW a \in Int, NEW t, \A i \in 1 .. 4 : a + i - 1 \in DOMAIN code,
           Words(a, HookSize) = Jump(t, FALSE)
    PROVE  LiesFar(code, a, 4, t, "always", FALSE)
<1>1. ASSUME NEW i \in 1 .. 4
      PROVE  code[a + i - 1] = [op |-> "far", part |-> i, size |-> 4, target |-> t,
                                cond |-> "always", link |-> FALSE]
    <2>1. Words(a, HookSize)[i] = code[a + i - 1]
        BY Sizes DEF Words, HookSize
    <2>2. Jump(t, FALSE)[i] = [op |-> "far", part |-> i, size |-> 4, target |-> t,
                               cond |-> "always", link |-> FALSE]
        BY Sizes DEF Jump, Far
    <2> QED BY <2>1, <2>2
<1> QED BY <1>1 DEF LiesFar

LEMMA TopIsReached ==
    ASSUME Layered, Around
    PROVE  EntryReachesTop
<1>1. ASSUME NEW f \in Functions, f \notin messy, NEW c \in Circumstances, layers[f] # <<>>
      PROVE  Trace(code, f, c) = <<Callback[Last(layers[f])]>>
    <2>1. PICK s \in Seq(Detours) : layers[f] = s
        BY DEF Layered
    <2>2. PICK d \in Detours : d = Last(s) /\ d = s[Len(s)] /\ Len(s) # 0
        BY <1>1, <2>1 DEF Last
    <2>3. Words(f, HookSize) = Jump(Callback[d], FALSE)
        BY <1>1, <2>1, <2>2 DEF Layered, EntriesStand, Under
    <2>4. f \in Int /\ \A i \in 1 .. 4 : f + i - 1 \in DOMAIN code
        <3>1. f \in Nat /\ f .. f + 3 \subseteq DOMAIN Image
            BY Sizes, DetourAssumption DEF Layout
        <3> QED BY <3>1 DEF Around
    <2>5. PICK t : t = Callback[d]
        OBVIOUS
    <2>6. t \in Addresses /\ t \notin DOMAIN code
        BY <2>5, DetourAssumption DEF Addresses, Layout, Around
    <2>7. LiesFar(code, f, 4, t, "always", FALSE)
        BY <2>3, <2>4, <2>5, JumpLies
    <2>8. Fuel \in 5 .. Fuel
        BY DEF Fuel
    <2>9. From(code, c, Fuel, f, "passed") = <<t>>
        BY <2>4, <2>6, <2>7, <2>8, CallbackRuns
    <2> QED BY <2>1, <2>2, <2>5, <2>9, TraceIs
<1>2. ASSUME NEW a \in DOMAIN Image, code[a] # Image[a]
      PROVE  \E f \in Functions : a \in f .. f + HookSize - 1 /\ (f \in messy \/ layers[f] # <<>>)
    <2>1. PICK f \in Functions : a \in f .. f + 3
        BY <1>2 DEF Around, Covered
    <2>2. f \in Nat /\ f + HookSize - 1 = f + 3
        BY Sizes, DetourAssumption DEF Layout
    <2>3. ASSUME f \notin messy, layers[f] = <<>> PROVE FALSE
        <3>1. Words(f, HookSize) = Own(f)
            <4>1. Len(<<>>) = 0
                OBVIOUS
            <4>2. Words(f, HookSize) = Under(f, <<>>, Len(<<>>))
                BY <2>3 DEF Layered, EntriesStand
            <4> QED BY <4>1, <4>2 DEF Under
        <3>2. PICK i \in 1 .. 4 : f + i - 1 = a
            <4>1. a - f + 1 \in 1 .. 4 /\ f + (a - f + 1) - 1 = a
                BY <2>1, <2>2
            <4> QED BY <4>1
        <3>3. Words(f, HookSize)[i] = code[a]
            BY <3>2, Sizes DEF Words, HookSize
        <3>4. Own(f)[i] = Image[a]
            BY <3>2 DEF Own
        <3> QED BY <1>2, <3>1, <3>3, <3>4
    <2> QED BY <2>1, <2>2, <2>3
<1> QED BY <1>1, <1>2 DEF EntryReachesTop

\* Whatever the program, wherever its functions lie and whichever accesses fail: at every
\* step of Detour::Hook and UnHook, a call of a function whose detours were taken down
\* latest first reaches the callback of the latest, and only words that a detour covers
\* are not the program's.
THEOREM TopIsAlwaysReached == DetourSpec => []EntryReachesTop
<1>1. DetourInit => DetourInv /\ Layered /\ Around
    BY DetourStarts, InitLayered, InitAround
<1>2. (DetourInv /\ Layered /\ Around) /\ [DetourNext]_detourVars => (DetourInv /\ Layered /\ Around)'
    BY DetourStep, LayeredStep, AroundStep
<1>3. Layered /\ Around => EntryReachesTop
    BY TopIsReached
<1> QED BY <1>1, <1>2, <1>3, PTL DEF DetourSpec

-----------------------------------------------------------------------------
(***************************************************************************)
(* What stands in the buffer.                                              *)
(***************************************************************************)
\* The pieces of the trampoline of a function at f whose first words were src: each of
\* them as it is moved, and the jump behind them.
Piece(src, f, k) == IF k = 5 THEN Jump(f + 4, TRUE) ELSE Relocate(src[k], f + k - 1)

\* The first n of them lie one behind the other from a to b.
Spread(m, src, f, n, a, b) ==
    \E p \in [0 .. n -> a .. b] :
        /\ p[0] = a /\ p[n] = b
        /\ \A k \in 1 .. n : /\ p[k] = p[k - 1] + Len(Piece(src, f, k))
                             /\ LiesAt(m, p[k - 1], Piece(src, f, k))

\* A call of f reaches the code `of`, and so these words are f's.
Stands(of, f) == f \in Functions /\ (of = f \/ of \in {Callback[e] : e \in Detours})
First(of, f) == IF of = f THEN Own(f) ELSE Jump(of, FALSE)

\* A trampoline for that code from a place in the buffer on.
Goes(m, of, start, f, top) ==
    /\ Stands(of, f) /\ start \in Trampolines .. top
    /\ \E b \in start .. top : Spread(m, First(of, f), f, 5, start, b)

Complete(d) ==
    base[d] # 0 => \E f : Goes(code, base[d], detour[d].opd, f, Trampolines + used)

\* The trampoline of a call of Hook, as far as it has got.
Going(m, step, of, start, saved, f, top) ==
    /\ start \in Trampolines .. top
    /\ Spread(m, saved, f, IF step = 6 THEN 5 ELSE step, start, top)
    /\ step <= 5 => saved = [i \in 1 .. 4 |-> m[f + i - 1]]
    /\ of # 0 => Stands(of, f) /\ saved = First(of, f)

UnderWay ==
    LET o == detour[hooking.by]
    IN  hooking # Idle /\ hooking.ok =>
            Going(code, hooking.step, hooking.of, o.start, o.saved, o.addr, Trampolines + used)

Trampled ==
    /\ hooks <= MaxHooks /\ DOMAIN base = Detours
    /\ UnderWay
    /\ \A d \in Detours : Complete(d)

LEMMA PieceLength ==
    ASSUME NEW src, NEW f, NEW k
    PROVE  Len(Piece(src, f, k)) \in 1 .. 6
<1>1. CASE k = 5
    <2>1. Len(Jump(f + 4, TRUE)) = 6
        BY FarLength DEF Jump
    <2>2. Len(Piece(src, f, k)) = 6
        BY <1>1, <2>1 DEF Piece
    <2> QED BY <2>2
<1>2. CASE k # 5
    <2>1. Piece(src, f, k) = Relocate(src[k], f + k - 1)
        BY <1>2 DEF Piece
    <2> QED BY <2>1, RelocateLength
<1> QED BY <1>1, <1>2

LEMMA SpreadStays ==
    ASSUME NEW m, NEW m2, NEW src, NEW f, NEW n \in 0 .. 5, NEW a \in Nat, NEW b \in Nat,
           Spread(m, src, f, n, a, b),
           \A x \in a .. b - 1 : x \in DOMAIN m => x \in DOMAIN m2 /\ m2[x] = m[x]
    PROVE  Spread(m2, src, f, n, a, b)
<1>1. PICK p \in [0 .. n -> a .. b] :
          /\ p[0] = a /\ p[n] = b
          /\ \A k \in 1 .. n : /\ p[k] = p[k - 1] + Len(Piece(src, f, k))
                               /\ LiesAt(m, p[k - 1], Piece(src, f, k))
    BY DEF Spread
<1>2. ASSUME NEW k \in 1 .. n PROVE LiesAt(m2, p[k - 1], Piece(src, f, k))
    <2>1. PICK words : words = Piece(src, f, k)
        OBVIOUS
    <2>2. PICK l \in 1 .. 6 : l = Len(words)
        BY <2>1, PieceLength
    <2>3. PICK q \in a .. b : q = p[k - 1]
        <3>1. k - 1 \in 0 .. n
            OBVIOUS
        <3> QED BY <3>1
    <2>4. q + l \in a .. b
        <3>1. p[k] \in a .. b /\ p[k] = q + l
            BY <1>1, <2>1, <2>2, <2>3
        <3> QED BY <3>1
    <2>5. LiesAt(m, q, words)
        BY <1>1, <2>1, <2>3
    <2>6. ASSUME NEW i \in 1 .. l PROVE q + i - 1 \in DOMAIN m2 /\ m2[q + i - 1] = words[i]
        <3>1. q + i - 1 \in a .. b - 1
            BY <2>4
        <3>2. q + i - 1 \in DOMAIN m /\ m[q + i - 1] = words[i]
            BY <2>2, <2>5 DEF LiesAt
        <3> QED BY <3>1, <3>2
    <2>7. LiesAt(m2, q, words)
        BY <2>2, <2>6 DEF LiesAt
    <2> QED BY <2>1, <2>3, <2>7
<1> QED BY <1>1, <1>2 DEF Spread

LEMMA SpreadBegins ==
    ASSUME NEW m, NEW src, NEW f, NEW a \in Nat
    PROVE  Spread(m, src, f, 0, a, a)
<1> DEFINE p == [k \in 0 .. 0 |-> a]
<1>1. p \in [0 .. 0 -> a .. a] /\ p[0] = a
    OBVIOUS
<1> HIDE DEF p
<1>2. \A k \in 1 .. 0 : FALSE
    OBVIOUS
<1> QED BY <1>1, <1>2 DEF Spread

LEMMA SpreadGrows ==
    ASSUME NEW m, NEW src, NEW f, NEW n \in 0 .. 4, NEW a \in Nat, NEW b \in Nat, a <= b,
           Spread(m, src, f, n, a, b), NEW words, words = Piece(src, f, n + 1),
           LiesAt(m, b, words), NEW l, l = Len(words)
    PROVE  Spread(m, src, f, n + 1, a, b + l)
<1>0. l \in 1 .. 6
    BY PieceLength
<1>1. PICK p \in [0 .. n -> a .. b] :
          /\ p[0] = a /\ p[n] = b
          /\ \A k \in 1 .. n : /\ p[k] = p[k - 1] + Len(Piece(src, f, k))
                               /\ LiesAt(m, p[k - 1], Piece(src, f, k))
    BY DEF Spread
<1> DEFINE q == [k \in 0 .. n + 1 |-> IF k = n + 1 THEN b + l ELSE p[k]]
<1>2. q \in [0 .. n + 1 -> a .. b + l]
    <2>1. \A k \in 0 .. n : p[k] \in a .. b + l
        BY <1>0
    <2> QED BY <1>0, <2>1
<1>3. /\ q[n + 1] = b + l
      /\ \A k \in 0 .. n : q[k] = p[k]
    OBVIOUS
<1> HIDE DEF q
<1>4. q[0] = a
    <2>1. 0 \in 0 .. n
        OBVIOUS
    <2> QED BY <1>1, <1>3, <2>1
<1>5. ASSUME NEW k \in 1 .. n + 1
      PROVE  /\ q[k] = q[k - 1] + Len(Piece(src, f, k))
             /\ LiesAt(m, q[k - 1], Piece(src, f, k))
    <2>1. k - 1 \in 0 .. n /\ q[k - 1] = p[k - 1]
        BY <1>3
    <2>2. CASE k = n + 1
        <3>1. k - 1 = n /\ q[k - 1] = b
            BY <1>1, <2>1, <2>2
        <3> QED BY <1>3, <2>2, <3>1
    <2>3. CASE k # n + 1
        <3>1. k \in 1 .. n /\ q[k] = p[k]
            BY <1>3, <2>3
        <3> QED BY <1>1, <2>1, <3>1
    <2> QED BY <2>2, <2>3
<1> QED BY <1>2, <1>3, <1>4, <1>5 DEF Spread

\* What was written lies where it was written.
LEMMA PutLies ==
    ASSUME NEW a \in Nat, NEW words, NEW l \in Nat, l = Len(words),
           \A x \in a .. a + l - 1 : x \in DOMAIN code
    PROVE  LiesAt(Put(a, words), a, words)
<1>1. ASSUME NEW i \in 1 .. l
      PROVE  a + i - 1 \in DOMAIN Put(a, words) /\ Put(a, words)[a + i - 1] = words[i]
    <2>1. PICK x \in a .. a + l - 1 : x = a + i - 1 /\ x - a + 1 = i
        <3>1. a + i - 1 \in a .. a + l - 1 /\ (a + i - 1) - a + 1 = i
            OBVIOUS
        <3> QED BY <3>1
    <2>2. x \in DOMAIN code /\ x \in a .. a + Len(words) - 1
        OBVIOUS
    <2>3. Put(a, words)[x] = words[x - a + 1] /\ x \in DOMAIN Put(a, words)
        BY <2>2 DEF Put
    <2> QED BY <2>1, <2>3
<1> QED BY <1>1 DEF LiesAt

\* What is in the buffer stays there.
LEMMA BufferKept ==
    ASSUME DetourInv, [DetourNext]_detourVars
    PROVE  \A x \in DOMAIN code : x >= Trampolines /\ x < Trampolines + used =>
              x \in DOMAIN code' /\ code'[x] = code[x]
<1>0. OffForGood /\ Shapes /\ Behind
    BY DEF DetourInv
<1>1. CASE WritesFunction
    BY <1>0, <1>1, FunctionWritten
<1>2. CASE CopyWord \/ JumpBack
    BY <1>0, <1>2, MoveWrites, BufferWritten
<1> QED BY <1>1, <1>2, StepWrites

LEMMA GoesOn ==
    ASSUME DetourInv, [DetourNext]_detourVars, NEW of, NEW start, NEW f,
           Goes(code, of, start, f, Trampolines + used), used' \in Nat, used <= used'
    PROVE  Goes(code', of, start, f, Trampolines + used')
<1>1. Trampolines \in Nat /\ used \in Nat
    BY DetourAssumption DEF DetourInv, Shapes, Layout
<1>2. /\ Stands(of, f) /\ start \in Trampolines .. Trampolines + used
      /\ \E b \in start .. Trampolines + used : Spread(code, First(of, f), f, 5, start, b)
    BY DEF Goes
<1>3. PICK b \in start .. Trampolines + used : Spread(code, First(of, f), f, 5, start, b)
    BY <1>2
<1>4. start \in Nat /\ b \in Nat /\ 5 \in 0 .. 5
    BY <1>1, <1>2
<1>5. \A x \in start .. b - 1 : x \in DOMAIN code => x \in DOMAIN code' /\ code'[x] = code[x]
    <2>1. \A x \in start .. b - 1 : x >= Trampolines /\ x < Trampolines + used
        BY <1>1, <1>2
    <2> QED BY <2>1, BufferKept
<1>6. Spread(code', First(of, f), f, 5, start, b)
    BY <1>3, <1>4, <1>5, SpreadStays
<1>7. b \in start .. Trampolines + used' /\ start \in Trampolines .. Trampolines + used'
    <2>1. Trampolines .. Trampolines + used \subseteq Trampolines .. Trampolines + used'
        BY <1>1, IntervalGrows
    <2>2. b \in Trampolines .. Trampolines + used /\ b >= start
        BY <1>1, <1>2
    <2>3. b \in Trampolines .. Trampolines + used'
        BY <2>1, <2>2
    <2>4. start \in Trampolines .. Trampolines + used'
        BY <1>2, <2>1
    <2> QED BY <1>4, <2>2, <2>3, <2>4
<1> QED BY <1>2, <1>6, <1>7 DEF Goes

LEMMA CompleteStays ==
    ASSUME DetourInv, [DetourNext]_detourVars, NEW d \in Detours, Complete(d),
           base'[d] # 0 => base'[d] = base[d] /\ detour'[d].opd = detour[d].opd,
           used' \in Nat, used <= used'
    PROVE  Complete(d)'
<1>1. SUFFICES ASSUME base'[d] # 0
               PROVE  \E f : Goes(code', base'[d], detour'[d].opd, f, Trampolines + used')
    BY DEF Complete
<1>2. PICK f : Goes(code, base[d], detour[d].opd, f, Trampolines + used)
    BY <1>1 DEF Complete
<1>3. Goes(code', base[d], detour[d].opd, f, Trampolines + used')
    BY <1>2, GoesOn
<1> QED BY <1>1, <1>3

-----------------------------------------------------------------------------
LEMMA SaveTrampled ==
    ASSUME DetourInv, Layered, Trampled, NEW d \in Detours, NEW f \in Functions, Save(d, f)
    PROVE  UnderWay' /\ hooks' <= MaxHooks
<1>1. PICK ok \in BOOLEAN :
          /\ detour' = [detour EXCEPT ![d] =
                [made |-> TRUE, addr |-> f, len |-> HookSize,
                 saved |-> IF ok THEN Words(f, HookSize) ELSE detour[d].saved,
                 start |-> Trampolines + used, opd |-> detour[d].opd]]
          /\ hooking' = [by |-> d, step |-> 0, ok |-> ok, of |-> StandsAt(f)]
    BY DEF Save
<1>2. hooks < MaxHooks /\ hooks' = hooks + 1 /\ UNCHANGED <<code, used, layers, messy, torn>>
    BY DEF Save, history
<1>3. hooks' <= MaxHooks
    BY <1>2, DetourAssumption DEF Layout, DetourInv, Shapes
<1>4. PICK top \in Nat : top = Trampolines + used /\ top >= Trampolines /\ Trampolines \in Nat
    BY DetourAssumption DEF Layout, DetourInv, Shapes
<1>5. PICK of : of = StandsAt(f)
    OBVIOUS
<1>6. hooking'.by = d /\ hooking'.step = 0 /\ hooking'.ok = ok /\ hooking'.of = of
    BY <1>1, <1>5
<1>7. /\ detour'[d].addr = f /\ detour'[d].start = top
      /\ ok = TRUE => detour'[d].saved = Words(f, HookSize)
    BY <1>1, <1>4 DEF DetourInv, Shapes
<1>8. PICK words : words = Words(f, HookSize)
    OBVIOUS
<1>9. words = [i \in 1 .. 4 |-> code[f + i - 1]]
    BY <1>8, Sizes DEF Words, HookSize
<1>10. ASSUME of # 0 PROVE Stands(of, f) /\ words = First(of, f)
    <2>1. f \notin messy /\ of = IF layers[f] = <<>> THEN f ELSE Callback[Last(layers[f])]
        BY <1>5, <1>10 DEF StandsAt
    <2>2. words = Under(f, layers[f], Len(layers[f]))
        BY <1>8, <2>1 DEF Layered, EntriesStand
    <2>3. CASE layers[f] = <<>>
        <3>1. Len(<<>>) = 0
            OBVIOUS
        <3> QED BY <2>1, <2>2, <2>3, <3>1 DEF Stands, First, Under
    <2>4. CASE layers[f] # <<>>
        <3>1. PICK s \in Seq(Detours) : layers[f] = s
            BY DEF Layered
        <3>2. PICK e \in Detours : e = Last(s) /\ e = s[Len(s)] /\ Len(s) # 0
            BY <2>4, <3>1 DEF Last
        <3>3. words = Jump(Callback[e], FALSE) /\ of = Callback[e]
            BY <2>1, <2>2, <2>4, <3>1, <3>2 DEF Under
        <3>4. of # f
            <4>1. f \in Nat /\ f .. f + 3 \subseteq DOMAIN Image /\ Callback[e] \notin DOMAIN Image
                BY Sizes, DetourAssumption DEF Layout
            <4>2. f \in DOMAIN Image
                BY <4>1
            <4> QED BY <3>3, <4>1, <4>2
        <3> QED BY <3>3, <3>4 DEF Stands, First
    <2> QED BY <2>3, <2>4
<1>11. Going(code, 0, of, top, words, f, top)
    <2>1. Spread(code, words, f, 0, top, top)
        BY SpreadBegins
    <2>2. top \in Trampolines .. top
        BY <1>4
    <2> QED BY <1>9, <1>10, <2>1, <2>2 DEF Going
<1>12. ok = TRUE => UnderWay'
    <2> SUFFICES ASSUME ok = TRUE
                 PROVE  Going(code', hooking'.step, hooking'.of, detour'[d].start, detour'[d].saved,
                              detour'[d].addr, Trampolines + used')
        BY <1>6 DEF UnderWay
    <2> QED BY <1>2, <1>4, <1>6, <1>7, <1>8, <1>11
<1>13. ok = FALSE => UnderWay'
    BY <1>6 DEF UnderWay
<1> QED BY <1>3, <1>12, <1>13

\* One piece more.
LEMMA MoveTrampled ==
    ASSUME DetourInv, Layered, Around, Trampled, CopyWord \/ JumpBack
    PROVE  UnderWay'
<1>0. OffForGood /\ Shapes /\ Behind
    BY DEF DetourInv
<1>1. hooking # Idle /\ UNCHANGED <<detour, hooks>>
    BY DEF CopyWord, JumpBack
<1>2. IsHooking(hooking)
    BY <1>0, <1>1 DEF OffForGood
<1>3. PICK d \in Detours : hooking.by = d
    BY <1>2 DEF IsHooking
<1>4. PICK f \in Functions : detour[d].addr = f
    BY <1>0, <1>1, <1>3, Sizes DEF Shapes, IsObject
<1>5. PICK saved, start, of : saved = detour[d].saved /\ start = detour[d].start /\ of = hooking.of
    OBVIOUS
<1>6. PICK step \in 0 .. 4 : step = hooking.step
    <2>0. hooking.step \in 0 .. 6
        BY <1>2, Sizes DEF IsHooking
    <2>1. CASE CopyWord
        <3>1. hooking.step < 4
            BY <2>1, Sizes DEF CopyWord
        <3> QED BY <2>0, <3>1
    <2>2. CASE JumpBack
        <3>1. hooking.step = 4
            BY <2>2, Sizes DEF JumpBack
        <3> QED BY <2>0, <3>1
    <2> QED BY <2>1, <2>2
<1>7. PICK words : words = IF step = 4 THEN Jump(f + 4, TRUE) ELSE Relocate(code[f + step], f + step)
    OBVIOUS
<1>8. PICK ok \in BOOLEAN :
          /\ code' = IF ok THEN Put(Trampolines + used, words) ELSE code
          /\ used' = used + Len(words)
          /\ hooking' = [hooking EXCEPT !.step = @ + 1, !.ok = @ /\ ok]
    <2>1. CASE CopyWord
        <3>1. step # 4
            <4>1. hooking.step < 4
                BY <2>1, Sizes DEF CopyWord
            <4> QED BY <1>6, <4>1
        <3>2. words = Relocate(code[f + step], f + step)
            BY <1>7, <3>1
        <3> QED BY <1>3, <1>4, <1>6, <2>1, <3>2 DEF CopyWord, Write
    <2>2. CASE JumpBack
        <3>1. step = 4
            BY <1>6, <2>2, Sizes DEF JumpBack
        <3>2. words = Jump(f + 4, TRUE) /\ Len(words) = 6
            BY <1>7, <3>1, FarLength DEF Jump
        <3>3. HookSize = 4 /\ FarSize = 6
            BY Sizes
        <3> QED BY <1>3, <1>4, <1>6, <2>2, <3>2, <3>3 DEF JumpBack, Write
    <2> QED BY <2>1, <2>2
<1>9. /\ hooking'.by = d /\ hooking'.step = step + 1 /\ hooking'.of = of
      /\ hooking'.ok = (hooking.ok /\ ok)
    <2>1. hooking.step <= HookSize + 1
        BY <1>6, Sizes
    <2>2. hooking'.of = of
        BY <1>2, <1>5, <1>8 DEF IsHooking
    <2> QED BY <1>2, <1>3, <1>6, <1>8, <2>1, <2>2, HookingNext
<1>10. CASE hooking.ok /\ ok
    <2>1. Going(code, step, of, start, saved, f, Trampolines + used)
        BY <1>1, <1>3, <1>4, <1>5, <1>6, <1>10 DEF Trampled, UnderWay
    <2>2. PICK top \in Nat : top = Trampolines + used /\ Trampolines \in Nat /\ used \in Nat
        BY <1>0, DetourAssumption DEF Layout, Shapes
    <2>3. PICK l \in 1 .. 6 : l = Len(words)
        <3>1. CASE step = 4
            <4>1. Len(words) = 6
                BY <1>7, <3>1, FarLength DEF Jump
            <4> QED BY <4>1
        <3>2. CASE step # 4
            BY <1>7, <3>2, RelocateLength
        <3> QED BY <3>1, <3>2
    <2>4. /\ start \in Trampolines .. top /\ start \in Nat /\ start <= top
          /\ Spread(code, saved, f, step, start, top)
          /\ saved = [i \in 1 .. 4 |-> code[f + i - 1]]
          /\ of # 0 => Stands(of, f) /\ saved = First(of, f)
        <3>1. step # 6 /\ step <= 5
            OBVIOUS
        <3>2. /\ start \in Trampolines .. top
              /\ Spread(code, saved, f, step, start, top)
              /\ saved = [i \in 1 .. 4 |-> code[f + i - 1]]
              /\ of # 0 => Stands(of, f) /\ saved = First(of, f)
            BY <2>1, <2>2, <3>1 DEF Going
        <3> QED BY <2>2, <3>2
    <2>5. code' = Put(top, words) /\ Trampolines + used' = top + l
        BY <1>8, <1>10, <2>2, <2>3
    <2>6. words = Piece(saved, f, step + 1)
        <3>1. CASE step = 4
            <4>1. step + 1 = 5
                BY <3>1
            <4> QED BY <1>7, <3>1, <4>1 DEF Piece
        <3>2. CASE step # 4
            <4>1. step + 1 # 5 /\ step + 1 \in 1 .. 4
                BY <3>2
            <4>2. f \in Nat /\ f + (step + 1) - 1 = f + step
                BY FunctionsAreBelow
            <4>3. saved[step + 1] = code[f + step]
                BY <2>4, <4>1, <4>2
            <4> QED BY <1>7, <3>2, <4>1, <4>2, <4>3 DEF Piece
        <3> QED BY <3>1, <3>2
    <2>7. \A x \in top .. top + l - 1 : x \in DOMAIN code
        <3>1. Left = (4 - step) * 6 + 6
            BY <1>1, <1>6, Sizes DEF Left
        <3>2. Left \in Nat /\ Left >= 6
            BY <3>1
        <3>3. used + Left <= hooks * 30 /\ hooks \in Nat /\ hooks <= MaxHooks /\ MaxHooks \in Nat
            BY <1>0, Sizes, DetourAssumption DEF Behind, Shapes, Trampled, Layout
        <3>4. hooks * 30 <= MaxHooks * 30 /\ hooks * 30 \in Nat /\ MaxHooks * 30 \in Nat
            BY <3>3
        <3>5. PICK most \in Nat : most = MaxHooks * 30
            BY <3>4
        <3>6. used + 6 <= most
            BY <2>2, <3>2, <3>3, <3>4, <3>5
        <3>7. \A x \in top .. top + l - 1 : x \in Trampolines .. Trampolines + most
            BY <2>2, <3>6
        <3>8. Trampolines .. Trampolines + most \subseteq DOMAIN code
            BY <3>5, Sizes DEF Around, Room
        <3> QED BY <3>7, <3>8
    <2>8. LiesAt(code', top, words)
        <3>1. l \in Nat
            OBVIOUS
        <3> QED BY <2>3, <2>5, <2>7, <3>1, PutLies
    <2>9. \A x \in DOMAIN code : x < top => x \in DOMAIN code' /\ code'[x] = code[x]
        BY <1>0, <2>2, MoveWrites, BufferWritten
    <2>10. Spread(code', saved, f, step, start, top)
        <3>1. step \in 0 .. 5
            OBVIOUS
        <3>2. \A x \in start .. top - 1 : x \in DOMAIN code => x \in DOMAIN code' /\ code'[x] = code[x]
            BY <2>4, <2>9
        <3> QED BY <2>4, <3>1, <3>2, SpreadStays
    <2>11. Spread(code', saved, f, step + 1, start, top + l)
        BY <2>3, <2>4, <2>6, <2>8, <2>10, SpreadGrows
    <2>12. saved = [i \in 1 .. 4 |-> code'[f + i - 1]]
        <3>1. ASSUME NEW i \in 1 .. 4 PROVE code'[f + i - 1] = code[f + i - 1]
            <4>1. f \in Nat /\ f + 4 <= Trampolines /\ f .. f + 3 \subseteq DOMAIN Image
                BY FunctionsAreBelow, Sizes, DetourAssumption DEF Layout
            <4>2. f + i - 1 \in f .. f + 3 /\ f + i - 1 < top
                BY <2>2, <4>1
            <4>3. f + i - 1 \in DOMAIN code
                BY <4>1, <4>2 DEF Around
            <4> QED BY <2>9, <4>2, <4>3
        <3> QED BY <2>4, <3>1
    <2>13. Going(code', step + 1, of, start, saved, f, top + l)
        <3>1. start \in Trampolines .. top + l
            BY <2>2, <2>4
        <3>2. step + 1 # 6 /\ step + 1 <= 5
            OBVIOUS
        <3> QED BY <2>4, <2>11, <2>12, <3>1, <3>2 DEF Going
    <2> QED BY <1>1, <1>3, <1>4, <1>5, <1>9, <2>5, <2>13 DEF UnderWay
<1>11. CASE ~(hooking.ok /\ ok)
    BY <1>9, <1>11 DEF UnderWay
<1> QED BY <1>10, <1>11

LEMMA RedirectTrampled ==
    ASSUME DetourInv, Trampled, Redirect
    PROVE  UnderWay'
<1>0. OffForGood /\ Shapes /\ Behind
    BY DEF DetourInv
<1>1. hooking # Idle /\ hooking.step = 5 /\ UNCHANGED <<detour, used>>
    BY Sizes DEF Redirect
<1>2. IsHooking(hooking) /\ hooking' = [hooking EXCEPT !.step = @ + 1] /\ TRUE
    BY <1>0, <1>1 DEF OffForGood, Redirect
<1>3. PICK d \in Detours : hooking.by = d
    BY <1>2 DEF IsHooking
<1>4. PICK f, saved, start, of : /\ saved = detour[d].saved /\ start = detour[d].start
                                 /\ f = detour[d].addr /\ of = hooking.of
    OBVIOUS
<1>5. hooking'.by = d /\ hooking'.step = 6 /\ hooking'.of = of /\ hooking'.ok = hooking.ok
    BY <1>1, <1>2, <1>3, <1>4 DEF IsHooking
<1>6. CASE hooking.ok
    <2>1. PICK top \in Nat : top = Trampolines + used /\ Trampolines \in Nat
        BY <1>0, DetourAssumption DEF Layout, Shapes
    <2>2. Going(code, 5, of, start, saved, f, top)
        BY <1>1, <1>3, <1>4, <1>6, <2>1 DEF Trampled, UnderWay
    <2>3. /\ start \in Trampolines .. top /\ Spread(code, saved, f, 5, start, top)
          /\ of # 0 => Stands(of, f) /\ saved = First(of, f)
        BY <2>2 DEF Going
    <2>4. \A x \in start .. top - 1 : x \in DOMAIN code => x \in DOMAIN code' /\ code'[x] = code[x]
        <3>1. \A x \in DOMAIN code : x >= Trampolines => x \in DOMAIN code' /\ code'[x] = code[x]
            BY <1>0, RedirectWrites, FunctionWritten
        <3>2. \A x \in start .. top - 1 : x >= Trampolines
            BY <2>1, <2>3
        <3> QED BY <3>1, <3>2
    <2>5. Spread(code', saved, f, 5, start, top)
        <3>1. start \in Nat /\ 5 \in 0 .. 5
            BY <2>1, <2>3
        <3> QED BY <2>1, <2>3, <2>4, <3>1, SpreadStays
    <2>6. Going(code', 6, of, start, saved, f, top)
        <3>1. ~(6 <= 5)
            OBVIOUS
        <3> QED BY <2>3, <2>5, <3>1 DEF Going
    <2> QED BY <1>1, <1>4, <1>5, <2>1, <2>6 DEF UnderWay
<1>7. CASE ~hooking.ok
    BY <1>5, <1>7 DEF UnderWay
<1> QED BY <1>6, <1>7

LEMMA DescribeTrampled ==
    ASSUME DetourInv, Trampled, Describe
    PROVE  UnderWay' /\ \A d \in Detours : Complete(d)'
<1>0. OffForGood /\ Shapes /\ Behind
    BY DEF DetourInv
<1>1. /\ hooking # Idle /\ hooking.step > 5 /\ hooking' = Idle
      /\ UNCHANGED <<code, used>>
      /\ detour' = [detour EXCEPT ![hooking.by].opd = detour[hooking.by].start]
      /\ base' = [base EXCEPT ![hooking.by] = IF hooking.ok THEN hooking.of ELSE 0]
    BY Sizes DEF Describe, console
<1>2. UnderWay'
    BY <1>1 DEF UnderWay
<1>3. IsHooking(hooking)
    BY <1>0, <1>1 DEF OffForGood
<1>4. PICK d \in Detours : hooking.by = d
    BY <1>3 DEF IsHooking
<1>5. hooking.step = 6
    BY <1>1, <1>3, Sizes DEF IsHooking
<1>6. PICK start, saved, f, of, top : /\ saved = detour[d].saved /\ start = detour[d].start
                                      /\ f = detour[d].addr /\ of = hooking.of
                                      /\ top = Trampolines + used
    OBVIOUS
<1>7. DOMAIN base = Detours /\ DOMAIN detour = Detours
    BY <1>0 DEF Trampled, Shapes
<1>8. detour'[d].opd = start /\ base'[d] = IF hooking.ok THEN of ELSE 0
    <2> DEFINE o == detour[d]
    <2>1. IsObject(o, Trampolines + used)
        BY <1>0 DEF Shapes
    <2>2. [o EXCEPT !.opd = o.start] =
              [made |-> o.made, addr |-> o.addr, len |-> o.len, saved |-> o.saved,
               start |-> o.start, opd |-> o.start]
        BY <2>1, ObjectFields
    <2>3. detour'[d] = [o EXCEPT !.opd = o.start]
        BY <1>1, <1>4, <1>7
    <2>4. detour'[d].opd = start
        BY <1>6, <2>2, <2>3
    <2> QED BY <1>1, <1>4, <1>6, <1>7, <2>4
<1>9. Complete(d)'
    <2>1. SUFFICES ASSUME base'[d] # 0
                   PROVE  \E g : Goes(code', base'[d], detour'[d].opd, g, Trampolines + used')
        BY DEF Complete
    <2>2. hooking.ok /\ of # 0 /\ base'[d] = of
        BY <1>8, <2>1
    <2>3. Going(code, 6, of, start, saved, f, top)
        BY <1>1, <1>4, <1>5, <1>6, <2>2 DEF Trampled, UnderWay
    <2>4. /\ start \in Trampolines .. top /\ Spread(code, saved, f, 5, start, top)
          /\ Stands(of, f) /\ saved = First(of, f)
        BY <2>2, <2>3 DEF Going
    <2>5. top \in start .. top
        <3>1. Trampolines \in Nat /\ top \in Nat
            BY <1>0, <1>6, DetourAssumption DEF Layout, Shapes
        <3> QED BY <2>4, <3>1
    <2>6. Goes(code, of, start, f, top)
        BY <2>4, <2>5 DEF Goes
    <2> QED BY <1>1, <1>6, <1>8, <2>2, <2>6
<1>10. ASSUME NEW e \in Detours \ {d} PROVE Complete(e)'
    <2>1. detour'[e] = detour[e] /\ base'[e] = base[e]
        BY <1>1, <1>4, <1>7
    <2> QED BY <1>1, <2>1 DEF Trampled, Complete
<1> QED BY <1>2, <1>9, <1>10

\* Steps while no call of Hook is under way.
LEMMA IdleTrampled ==
    ASSUME hooking' = Idle
    PROVE  UnderWay'
BY DEF UnderWay

LEMMA InitTrampled == DetourInit => Trampled
<1> SUFFICES ASSUME DetourInit PROVE Trampled
    OBVIOUS
<1>1. hooks <= MaxHooks
    BY DetourAssumption DEF DetourInit, Layout
<1>2. /\ hooking = Idle /\ base = [d \in Detours |-> 0]
    BY DEF DetourInit
<1> QED BY <1>1, <1>2 DEF Trampled, UnderWay, Complete

LEMMA TrampledStep ==
    ASSUME DetourInv, Layered, Around, Trampled, [DetourNext]_detourVars
    PROVE  Trampled'
<1>0. OffForGood /\ Shapes /\ Behind /\ DetourInv'
    BY DetourStep DEF DetourInv
<1>1. used' \in Nat /\ used \in Nat /\ used <= used'
    <2>1. used' \in Nat /\ used \in Nat
        BY <1>0 DEF DetourInv, Shapes
    <2>2. CASE CopyWord \/ JumpBack
        <3>1. PICK words : Len(words) \in 1 .. 6 /\ used' = used + Len(words)
            BY <1>0, <2>2, MoveWrites DEF WritesBuffer
        <3>2. PICK l \in 1 .. 6 : l = Len(words)
            BY <3>1
        <3> QED BY <2>1, <3>1, <3>2
    <2>3. CASE ~(CopyWord \/ JumpBack)
        <3>1. used' = used
            BY <2>3 DEF DetourNext, Hook, HookByFnid, Save, Redirect, Describe, UnHook, Destroy,
                        PutBack, detourVars
        <3> QED BY <2>1, <3>1
    <2> QED BY <2>2, <2>3
<1>2. ASSUME UnderWay', hooks' <= MaxHooks, DOMAIN base' = Detours,
             \A d \in Detours : base'[d] # 0 =>
                base'[d] = base[d] /\ detour'[d].opd = detour[d].opd
      PROVE  Trampled'
    <2>1. \A d \in Detours : Complete(d)'
        BY <1>1, <1>2, CompleteStays DEF Trampled
    <2> QED BY <1>2, <2>1 DEF Trampled
<1>3. ASSUME UnderWay', UNCHANGED <<hooks, base>>, 
             \A d \in Detours : detour'[d].opd = detour[d].opd
      PROVE  Trampled'
    BY <1>2, <1>3 DEF Trampled
<1>4. CASE UNCHANGED detourVars
    <2>1. UNCHANGED <<code, used, detour, hooking, hooks, base>>
        BY <1>4 DEF detourVars, console, history
    <2>2. UnderWay'
        BY <2>1 DEF Trampled, UnderWay
    <2> QED BY <1>3, <2>1, <2>2
<1>5. ASSUME NEW d \in Detours, NEW f \in Functions, Save(d, f) PROVE Trampled'
    <2>1. UnderWay' /\ hooks' <= MaxHooks /\ base' = base
        BY <1>5, SaveTrampled DEF Save, history
    <2>2. PICK n : n.opd = detour[d].opd /\ detour' = [detour EXCEPT ![d] = n]
        <3>1. PICK ok \in BOOLEAN : detour' = [detour EXCEPT ![d] =
                [made |-> TRUE, addr |-> f, len |-> HookSize,
                 saved |-> IF ok THEN Words(f, HookSize) ELSE detour[d].saved,
                 start |-> Trampolines + used, opd |-> detour[d].opd]]
            BY <1>5 DEF Save
        <3> DEFINE n == [made |-> TRUE, addr |-> f, len |-> HookSize,
                         saved |-> IF ok THEN Words(f, HookSize) ELSE detour[d].saved,
                         start |-> Trampolines + used, opd |-> detour[d].opd]
        <3>2. n.opd = detour[d].opd
            OBVIOUS
        <3> QED BY <3>1, <3>2
    <2>3. \A e \in Detours : detour'[e].opd = detour[e].opd
        BY <1>0, <2>2 DEF Shapes
    <2> QED BY <1>2, <2>1, <2>3 DEF Trampled
<1>6. ASSUME NEW d \in Detours, NEW f \in Functions, Hook(d, f) PROVE Trampled'
    BY <1>5, <1>6 DEF Hook
<1>7. ASSUME NEW d \in Detours, NEW size, NEW lib, NEW fnid, HookByFnid(d, size, lib, fnid)
      PROVE  Trampled'
    <2>1. CASE Find(size, lib, fnid) = 0
        <3> DEFINE o == detour[d]
        <3>1. /\ hooking = Idle /\ detour' = [detour EXCEPT ![d].made = TRUE]
              /\ UNCHANGED <<hooking, hooks, base>>
            BY <1>7, <2>1 DEF HookByFnid, console, history
        <3>2. IsObject(o, Trampolines + used) /\ DOMAIN detour = Detours
            BY <1>0 DEF Shapes
        <3>3. [o EXCEPT !.made = TRUE] =
                  [made |-> TRUE, addr |-> o.addr, len |-> o.len, saved |-> o.saved,
                   start |-> o.start, opd |-> o.opd]
            BY <3>2, ObjectFields
        <3>4. detour'[d] = [o EXCEPT !.made = TRUE]
            BY <3>1, <3>2
        <3>5. detour'[d].opd = o.opd
            BY <3>3, <3>4
        <3>6. \A e \in Detours \ {d} : detour'[e] = detour[e]
            BY <3>1, <3>2
        <3>7. \A e \in Detours : detour'[e].opd = detour[e].opd
            BY <3>5, <3>6
        <3>8. UnderWay'
            BY <3>1, IdleTrampled
        <3> QED BY <1>3, <3>1, <3>7, <3>8
    <2>2. CASE Find(size, lib, fnid) # 0
        BY <1>5, <1>7, <2>2, FindsFunction DEF HookByFnid
    <2> QED BY <2>1, <2>2
<1>8. CASE CopyWord \/ JumpBack
    <2>1. UNCHANGED <<detour, hooks, base>>
        BY <1>8 DEF CopyWord, JumpBack, history
    <2>2. UnderWay'
        BY <1>8, MoveTrampled
    <2> QED BY <1>3, <2>1, <2>2
<1>9. CASE Redirect
    <2>1. UNCHANGED <<detour, hooks, base>>
        BY <1>9 DEF Redirect
    <2>2. UnderWay'
        BY <1>9, RedirectTrampled
    <2> QED BY <1>3, <2>1, <2>2
<1>10. CASE Describe
    <2>1. UnderWay' /\ \A d \in Detours : Complete(d)'
        BY <1>10, DescribeTrampled
    <2>2. hooks' = hooks /\ DOMAIN base' = DOMAIN base
        BY <1>10 DEF Describe
    <2> QED BY <2>1, <2>2 DEF Trampled
<1>11. ASSUME NEW d \in Detours, UnHook(d) PROVE Trampled'
    <2> DEFINE o == [made |-> TRUE, addr |-> 0, len |-> 0, saved |-> detour[d].saved,
                     start |-> detour[d].start, opd |-> detour[d].opd]
    <2>1. /\ hooking' = Idle /\ UNCHANGED <<hooks, base>>
          /\ detour' = [detour EXCEPT ![d] = o]
        BY <1>11 DEF UnHook, PutBack
    <2>2. o.opd = detour[d].opd
        OBVIOUS
    <2> HIDE DEF o
    <2>3. \A e \in Detours : detour'[e].opd = detour[e].opd
        BY <1>0, <2>1, <2>2 DEF Shapes
    <2> QED BY <1>3, <2>1, <2>3, IdleTrampled
<1>12. ASSUME NEW d \in Detours, Destroy(d) PROVE Trampled'
    <2>1. /\ hooking' = Idle /\ hooks' = hooks /\ base' = [base EXCEPT ![d] = 0]
          /\ detour' = [detour EXCEPT ![d] = NoObject]
        BY <1>12 DEF Destroy, PutBack
    <2>2. /\ DOMAIN base' = Detours /\ base'[d] = 0
          /\ \A e \in Detours \ {d} : base'[e] = base[e] /\ detour'[e] = detour[e]
        BY <1>0, <2>1 DEF Trampled, Shapes
    <2>3. hooks' <= MaxHooks
        BY <2>1 DEF Trampled
    <2> QED BY <1>2, <2>1, <2>2, <2>3, IdleTrampled
<1> QED BY <1>4, <1>6, <1>7, <1>8, <1>9, <1>10, <1>11, <1>12 DEF DetourNext

-----------------------------------------------------------------------------
(***************************************************************************)
(* What the code in the buffer does.                                       *)
(***************************************************************************)
\* Two pieces of code do the same, given enough words to look at.
Same(m, mi, c, q, a, enough, enoughi) ==
    \A n \in enough .. Fuel, i \in enoughi .. Fuel : Alike(m, mi, c, n, q, i, a)

LEMMA StepBack ==
    ASSUME NEW m, NEW mi, NEW c, NEW a \in Int, NEW q \in Int, NEW w,
           a \in DOMAIN mi, mi[a] = w, Movable(w, a, m, mi),
           LiesAt(m, q, Relocate(w, a)), NEW len, len = Len(Relocate(w, a)),
           NEW n0 \in Nat \ {0}, NEW i0 \in Nat \ {0},
           Same(m, mi, c, q + len, a + 1, n0, i0)
    PROVE  Same(m, mi, c, q, a, n0 + 6, i0 + 1)
<1>0. Fuel \in Nat
    BY DEF Fuel
<1>1. len \in 1 .. 6
    BY RelocateLength
<1>2. ASSUME NEW n \in n0 + 6 .. Fuel, NEW i \in i0 + 1 .. Fuel
      PROVE  Alike(m, mi, c, n, q, i, a)
    <2>1. n \in 7 .. Fuel /\ i \in 2 .. Fuel /\ n - len \in n0 .. Fuel /\ i - 1 \in i0 .. Fuel
        <3>1. n \in 7 .. Fuel
            BY <1>0
        <3>2. i \in 2 .. Fuel /\ i - 1 \in i0 .. Fuel
            BY <1>0
        <3>3. n - len \in n0 .. Fuel
            <4>1. PICK l \in 1 .. 6 : l = len
                BY <1>1
            <4>2. n - l \in n0 .. Fuel
                BY <1>0
            <4> QED BY <4>1, <4>2
        <3> QED BY <3>1, <3>2, <3>3
    <2>2. Alike(m, mi, c, n - len, q + len, i - 1, a + 1)
        BY <2>1 DEF Same
    <2> QED BY <2>1, <2>2, PieceRuns
<1> QED BY <1>2 DEF Same

\* The buffer as memory of its own.
Buffer == [a \in DOMAIN code \cap Room |-> code[a]]

LEMMA BufferSpread ==
    ASSUME Shapes, Around, NEW src, NEW f, NEW a \in Trampolines .. Trampolines + used,
           NEW b \in a .. Trampolines + used, Spread(code, src, f, 5, a, b)
    PROVE  Spread(Buffer, src, f, 5, a, b)
<1>1. Trampolines \in Nat /\ used \in Nat
    BY DetourAssumption DEF Layout, Shapes
<1>2. ASSUME NEW x \in a .. b - 1, x \in DOMAIN code
      PROVE  x \in DOMAIN Buffer /\ Buffer[x] = code[x]
    <2>1. x >= Trampolines /\ x \in Nat
        BY <1>1
    <2>2. x \notin DOMAIN Image
        <3>1. \A y \in DOMAIN Image : y \in Nat /\ y + 1 < Trampolines
            BY DetourAssumption DEF Layout
        <3> QED BY <1>1, <2>1, <3>1
    <2>3. x \in Room
        BY <1>2, <2>2 DEF Around
    <2> QED BY <1>2, <2>3 DEF Buffer
<1>3. a \in Nat /\ b \in Nat /\ 5 \in 0 .. 5
    BY <1>1
<1> QED BY <1>2, <1>3, SpreadStays

\* The jump behind the words.
LEMMA BackRuns ==
    ASSUME NEW m, NEW mi, NEW c \in Circumstances, NEW q \in Int, NEW a \in Int,
           a \notin DOMAIN m, a \notin DOMAIN mi, LiesAt(m, q, Jump(a, TRUE))
    PROVE  Same(m, mi, c, q, a, 7, 1)
<1>0. Fuel \in Nat
    BY DEF Fuel
<1>1. Len(Jump(a, TRUE)) = 6
    BY FarLength DEF Jump
<1>2. ASSUME NEW k \in 1 .. 6
      PROVE  Jump(a, TRUE)[k] = [op |-> "far", part |-> k, size |-> 6, target |-> a,
                                 cond |-> "always", link |-> FALSE]
    BY Sizes DEF Jump, Far
<1>3. LiesFar(m, q, 6, a, "always", FALSE)
    BY <1>1, <1>2 DEF LiesFar, LiesAt
<1>4. ASSUME NEW n \in 7 .. Fuel, NEW i \in 1 .. Fuel
      PROVE  Alike(m, mi, c, n, q, i, a)
    <2>s. SUFFICES ASSUME NEW r \in Unloaded, NEW s \in Unloaded
          PROVE  From(m, c, n, q, r) = From(mi, c, i, a, s)
        BY DEF Alike
    <2>1. n \in 6 .. Fuel /\ n - 6 \in 1 .. Fuel /\ r \in Register /\ "lost" \in Unloaded
        BY <1>0, RegisterFacts
    <2>2. Jumps(m, c, n, q, 6, a, "always", FALSE)
        BY <1>3, <2>1, FarRuns
    <2>3. "always" \in c
        BY DEF Circumstances
    <2>4. From(m, c, n, q, r) = From(m, c, n - 6, a, "lost")
        BY <2>1, <2>2, <2>3 DEF Jumps, Taken
    <2>5. From(m, c, n - 6, a, "lost") = <<a>> /\ From(mi, c, i, a, s) = <<a>>
        BY <2>1, IntIsAddress, CourseLeaves
    <2> QED BY <2>4, <2>5
<1> QED BY <1>4 DEF Same

\* From a on code does what the code `of` did.
Does(m, a, of, c) == Trace(m, a, c) = Trace(Moved(of), of, c)

\* A trampoline over the jump to a callback.
LEMMA OverCallback ==
    ASSUME NEW m, DOMAIN m \subseteq Room, NEW c \in Circumstances, NEW e \in Detours,
           NEW f \in Functions, NEW a \in Nat, NEW b \in Nat,
           Spread(m, Jump(Callback[e], FALSE), f, 5, a, b)
    PROVE  Does(m, a, Callback[e], c)
<1>1. PICK t : t = Callback[e]
    OBVIOUS
<1>2. t \in Addresses /\ t \notin DOMAIN Image /\ t \notin DOMAIN m
    BY <1>1, DetourAssumption DEF Layout, Addresses
<1>3. t \notin Functions
    <2>1. \A g \in Functions : g \in DOMAIN Image
        <3>1. \A g \in Functions : g \in Nat /\ g .. g + 3 \subseteq DOMAIN Image
            BY Sizes, DetourAssumption DEF Layout
        <3> QED BY <3>1
    <2> QED BY <1>2, <2>1
<1>4. PICK src : src = Jump(t, FALSE)
    OBVIOUS
<1>5. ASSUME NEW k \in 1 .. 4
      PROVE  /\ src[k] = [op |-> "far", part |-> k, size |-> 4, target |-> t,
                          cond |-> "always", link |-> FALSE]
             /\ Piece(src, f, k) = <<src[k]>>
    <2>1. src[k] = [op |-> "far", part |-> k, size |-> 4, target |-> t,
                    cond |-> "always", link |-> FALSE]
        BY <1>4, Sizes DEF Jump, Far
    <2>2. src[k].op = "far" /\ k # 5
        BY <2>1
    <2> QED BY <2>1, <2>2 DEF Piece, Relocate
<1>6. PICK p \in [0 .. 5 -> a .. b] :
          /\ p[0] = a /\ p[5] = b
          /\ \A k \in 1 .. 5 : /\ p[k] = p[k - 1] + Len(Piece(src, f, k))
                               /\ LiesAt(m, p[k - 1], Piece(src, f, k))
    BY <1>1, <1>4 DEF Spread
<1>7. ASSUME NEW k \in 1 .. 4
      PROVE  p[k] = p[k - 1] + 1 /\ p[k - 1] \in DOMAIN m /\ m[p[k - 1]] = src[k]
    <2>1. Len(<<src[k]>>) = 1 /\ <<src[k]>>[1] = src[k] /\ k \in 1 .. 5
        OBVIOUS
    <2>2. LiesAt(m, p[k - 1], <<src[k]>>) /\ p[k] = p[k - 1] + 1
        BY <1>5, <1>6, <2>1
    <2>3. p[k - 1] \in Int
        <3>1. k - 1 \in 0 .. 5
            OBVIOUS
        <3>2. p[k - 1] \in a .. b
            BY <1>6, <3>1
        <3> QED BY <3>2
    <2>4. p[k - 1] + 1 - 1 = p[k - 1] /\ 1 \in 1 .. 1
        BY <2>3
    <2> QED BY <2>1, <2>2, <2>4 DEF LiesAt
<1>8. \A k \in 1 .. 4 : p[k - 1] = a + k - 1
    <2>1. p[1] = p[0] + 1 /\ p[2] = p[1] + 1 /\ p[3] = p[2] + 1
        <3>1. 1 \in 1 .. 4 /\ 2 \in 1 .. 4 /\ 3 \in 1 .. 4 /\ 1 - 1 = 0 /\ 2 - 1 = 1 /\ 3 - 1 = 2
            OBVIOUS
        <3> QED BY <1>7, <3>1
    <2>2. p[0] = a /\ p[1] = a + 1 /\ p[2] = a + 2 /\ p[3] = a + 3
        BY <1>6, <2>1
    <2> QED BY <2>2
<1>9. LiesFar(m, a, 4, t, "always", FALSE)
    BY <1>5, <1>7, <1>8 DEF LiesFar
<1>10. Fuel \in 5 .. Fuel /\ Fuel \in 1 .. Fuel
    BY DEF Fuel
<1>11. From(m, c, Fuel, a, "passed") = <<t>>
    <2>1. a \in Int
        OBVIOUS
    <2>2. t \in Addresses /\ t \notin DOMAIN m /\ Fuel \in 5 .. Fuel
        BY <1>2, <1>10
    <2> QED BY <1>9, <2>1, <2>2, CallbackRuns
<1>12. From(Moved(t), c, Fuel, t, "passed") = <<t>>
    <2>1. t \notin DOMAIN Moved(t)
        BY <1>3 DEF Moved
    <2> QED BY <1>2, <1>10, <2>1, CourseLeaves, RegisterFacts
<1> QED BY <1>1, <1>11, <1>12, TraceIs DEF Does

\* A trampoline over a function's own words.
LEMMA OverOwn ==
    ASSUME NEW m, DOMAIN m \subseteq Room, NEW c \in Circumstances,
           NEW f \in Functions, Relocatable(f), NEW a \in Nat, NEW b \in Nat,
           Spread(m, Own(f), f, 5, a, b)
    PROVE  Does(m, a, f, c)
<1> DEFINE mi == Moved(f)
<1>0. /\ f \in Nat /\ f .. f + 3 \subseteq DOMAIN Image /\ f + HookSize - 1 = f + 3
      /\ Trampolines \in Nat /\ \A x \in DOMAIN Image : x + 1 < Trampolines
    BY Sizes, DetourAssumption DEF Layout
<1>1. DOMAIN mi = f .. f + 3 /\ \A x \in f .. f + 3 : mi[x] = Image[x]
    BY <1>0 DEF Moved
<1>2. f + 4 \notin DOMAIN m /\ f + 4 \notin DOMAIN mi
    <2>1. f + 3 \in DOMAIN Image /\ f + 3 + 1 = f + 4
        BY <1>0
    <2>2. f + 4 < Trampolines
        BY <1>0, <2>1
    <2>3. f + 4 \notin Room
        BY <1>0, <2>2 DEF Room
    <2> QED BY <1>0, <1>1, <2>3
<1>3. PICK p \in [0 .. 5 -> a .. b] :
          /\ p[0] = a /\ p[5] = b
          /\ \A k \in 1 .. 5 : /\ p[k] = p[k - 1] + Len(Piece(Own(f), f, k))
                               /\ LiesAt(m, p[k - 1], Piece(Own(f), f, k))
    BY DEF Spread
<1>4. \A k \in 0 .. 5 : p[k] \in Int
    <2>1. \A k \in 0 .. 5 : p[k] \in a .. b
        BY <1>3
    <2> QED BY <2>1
<1>5. ASSUME NEW x \in f .. f + 3 PROVE Movable(Image[x], x, m, mi)
    <2>1. x \in DOMAIN Image
        BY <1>0
    <2>2. PICK w : w = Image[x]
        OBVIOUS
    <2>3. /\ w.op \in {"plain", "load", "return", "b", "bc"}
          /\ w.op \in {"b", "bc"} =>
                Goal(w, x) \in Int /\ w.link \in BOOLEAN /\ w.absolute \in BOOLEAN
        BY <2>1, <2>2, ImageAssumption
    <2>4. /\ w.op # "load"
          /\ w.op \in {"b", "bc"} =>
                w.cond # "count" /\ Goal(w, x) \notin (f .. f + 3) \cup Room
        BY <1>0, <2>2 DEF Relocatable
    <2>5. w.op \in {"b", "bc"} => Goal(w, x) \notin DOMAIN m /\ Goal(w, x) \notin DOMAIN mi
        BY <1>1, <2>4
    <2> HIDE DEF mi
    <2>6. Movable(w, x, m, mi)
        BY <2>3, <2>4, <2>5 DEF Movable
    <2> QED BY <2>2, <2>6
<1> HIDE DEF mi
<1>6. Same(m, mi, c, p[4], f + 4, 7, 1)
    <2>1. 5 \in 1 .. 5 /\ 5 - 1 = 4
        OBVIOUS
    <2>2. LiesAt(m, p[4], Piece(Own(f), f, 5))
        BY <1>3, <2>1
    <2>3. Piece(Own(f), f, 5) = Jump(f + 4, TRUE)
        BY DEF Piece
    <2>4. p[4] \in Int /\ f + 4 \in Int
        BY <1>0, <1>4
    <2> QED BY <1>2, <2>2, <2>3, <2>4, BackRuns
<1>7. ASSUME NEW k \in 1 .. 4, NEW n0 \in Nat \ {0}, NEW i0 \in Nat \ {0},
             Same(m, mi, c, p[k], f + k, n0, i0)
      PROVE  Same(m, mi, c, p[k - 1], f + (k - 1), n0 + 6, i0 + 1)
    <2>1. PICK x \in f .. f + 3 : x = f + (k - 1) /\ x = f + k - 1 /\ x + 1 = f + k
        BY <1>0
    <2>2. PICK w : w = Image[x]
        OBVIOUS
    <2>3. Piece(Own(f), f, k) = Relocate(w, x)
        <3>1. k # 5 /\ Own(f)[k] = w
            BY <2>1, <2>2 DEF Own
        <3> QED BY <2>1, <3>1 DEF Piece
    <2>4. PICK q \in Int : q = p[k - 1]
        BY <1>4
    <2>5. PICK len : len = Len(Relocate(w, x))
        OBVIOUS
    <2>6. p[k] = q + len /\ LiesAt(m, q, Relocate(w, x))
        <3>1. k \in 1 .. 5
            OBVIOUS
        <3> QED BY <1>3, <2>3, <2>4, <2>5, <3>1
    <2>7. x \in Int /\ x \in DOMAIN mi /\ mi[x] = w /\ Movable(w, x, m, mi)
        <3>1. x \in Int
            BY <1>0
        <3>2. x \in DOMAIN mi /\ mi[x] = w
            BY <1>1, <2>2
        <3>3. Movable(w, x, m, mi)
            BY <1>5, <2>2
        <3> QED BY <3>1, <3>2, <3>3
    <2>8. Same(m, mi, c, q + len, x + 1, n0, i0)
        BY <1>7, <2>1, <2>6
    <2>9. Same(m, mi, c, q, x, n0 + 6, i0 + 1)
        BY <2>5, <2>6, <2>7, <2>8, StepBack
    <2> QED BY <2>1, <2>4, <2>9
<1>8. Same(m, mi, c, p[0], f, 31, 5)
    <2>1. Same(m, mi, c, p[3], f + 3, 13, 2)
        <3>1. 4 \in 1 .. 4 /\ 4 - 1 = 3 /\ 7 + 6 = 13 /\ 1 + 1 = 2
            OBVIOUS
        <3>2. Same(m, mi, c, p[4 - 1], f + (4 - 1), 7 + 6, 1 + 1)
            BY <1>6, <1>7
        <3> QED BY <3>1, <3>2
    <2>2. Same(m, mi, c, p[2], f + 2, 19, 3)
        <3>1. 3 \in 1 .. 4 /\ 3 - 1 = 2 /\ 13 + 6 = 19 /\ 2 + 1 = 3
            OBVIOUS
        <3>2. Same(m, mi, c, p[3 - 1], f + (3 - 1), 13 + 6, 2 + 1)
            BY <1>7, <2>1
        <3> QED BY <3>1, <3>2
    <2>3. Same(m, mi, c, p[1], f + 1, 25, 4)
        <3>1. 2 \in 1 .. 4 /\ 2 - 1 = 1 /\ 19 + 6 = 25 /\ 3 + 1 = 4
            OBVIOUS
        <3>2. Same(m, mi, c, p[2 - 1], f + (2 - 1), 19 + 6, 3 + 1)
            BY <1>7, <2>2
        <3> QED BY <3>1, <3>2
    <2>4. Same(m, mi, c, p[0], f + 0, 31, 5)
        <3>1. 1 \in 1 .. 4 /\ 1 - 1 = 0 /\ 25 + 6 = 31 /\ 4 + 1 = 5
            OBVIOUS
        <3>2. Same(m, mi, c, p[1 - 1], f + (1 - 1), 25 + 6, 4 + 1)
            BY <1>7, <2>3
        <3> QED BY <3>1, <3>2
    <2>5. f + 0 = f
        BY <1>0
    <2> QED BY <2>4, <2>5
<1>9. Fuel \in 31 .. Fuel /\ Fuel \in 5 .. Fuel
    BY DEF Fuel
<1>10. From(m, c, Fuel, a, "passed") = From(mi, c, Fuel, f, "passed")
    BY <1>3, <1>8, <1>9, RegisterFacts DEF Same, Alike
<1> QED BY <1>10, TraceIs DEF mi, Does

LEMMA OriginalReached ==
    ASSUME Shapes, Around, Trampled
    PROVE  OriginalIsReached
<1>1. ASSUME NEW d \in Detours, NEW c \in Circumstances, base[d] # 0,
             base[d] \in Functions => Relocatable(base[d])
      PROVE  Does(Buffer, detour[d].opd, base[d], c)
    <2>1. PICK of, a : of = base[d] /\ a = detour[d].opd
        OBVIOUS
    <2>2. PICK f : Goes(code, of, a, f, Trampolines + used)
        BY <1>1, <2>1 DEF Trampled, Complete
    <2>3. /\ f \in Functions /\ (of = f \/ of \in {Callback[e] : e \in Detours})
          /\ a \in Trampolines .. Trampolines + used
          /\ \E b \in a .. Trampolines + used : Spread(code, First(of, f), f, 5, a, b)
        BY <2>2 DEF Goes, Stands
    <2>4. PICK b \in a .. Trampolines + used : Spread(code, First(of, f), f, 5, a, b)
        BY <2>3
    <2>5. a \in Nat /\ b \in Nat
        BY <2>3, DetourAssumption DEF Layout, Shapes
    <2>6. Spread(Buffer, First(of, f), f, 5, a, b)
        BY <2>3, <2>4, BufferSpread
    <2>7. DOMAIN Buffer \subseteq Room
        BY DEF Buffer
    <2>8. CASE of = f
        <3>1. Relocatable(f) /\ First(of, f) = Own(f)
            BY <1>1, <2>1, <2>3, <2>8 DEF First
        <3>2. Spread(Buffer, Own(f), f, 5, a, b)
            BY <2>6, <3>1
        <3>3. Does(Buffer, a, f, c)
            BY <2>3, <2>5, <2>7, <3>1, <3>2, OverOwn
        <3> QED BY <2>1, <2>8, <3>3
    <2>9. CASE of # f
        <3>1. PICK e \in Detours : of = Callback[e]
            BY <2>3, <2>9
        <3>2. Spread(Buffer, Jump(Callback[e], FALSE), f, 5, a, b)
            BY <2>6, <2>9, <3>1 DEF First
        <3>3. Does(Buffer, a, Callback[e], c)
            <4>1. PICK m : m = Buffer
                OBVIOUS
            <4>2. f \in Functions /\ DOMAIN m \subseteq Room
                BY <2>3, <2>7, <4>1
            <4>3. Spread(m, Jump(Callback[e], FALSE), f, 5, a, b)
                BY <3>2, <4>1
            <4>4. Does(m, a, Callback[e], c)
                BY <2>5, <4>2, <4>3, OverCallback
            <4> QED BY <4>1, <4>4
        <3> QED BY <2>1, <3>1, <3>3
    <2> QED BY <2>8, <2>9
<1> QED BY <1>1 DEF OriginalIsReached, Buffer, Does

\* Whatever the program, wherever its functions lie, and whichever accesses fail: a callback
\* that calls its original through an object whose Hook went through gets to what the
\* function's first words did, if they can be moved (Relocatable: not if they use the count
\* register), or to the callback of the detour below, under every
\* condition; later detours, their removal and other trampolines do not change that.
THEOREM OriginalIsAlwaysReached == DetourSpec => []OriginalIsReached
<1>1. DetourInit => DetourInv /\ Layered /\ Around /\ Trampled
    BY DetourStarts, InitLayered, InitAround, InitTrampled
<1>2. (DetourInv /\ Layered /\ Around /\ Trampled) /\ [DetourNext]_detourVars
          => (DetourInv /\ Layered /\ Around /\ Trampled)'
    BY DetourStep, LayeredStep, AroundStep, TrampledStep
<1>3. DetourInv /\ Layered /\ Around /\ Trampled => OriginalIsReached
    BY OriginalReached DEF DetourInv
<1> QED BY <1>1, <1>2, <1>3, PTL DEF DetourSpec
=============================================================================

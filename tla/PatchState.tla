------------------------------ MODULE PatchState ------------------------------
(***************************************************************************)
(* The settings file of a title, game_patch/patch.c: toggle_patch_state as *)
(* the managing application runs it, over stdio, and read_patch_state as   *)
(* the game runs it, over file.c. The file is a header with a magic, a     *)
(* version and a count, and one PatchState for each hash. A toggle reads   *)
(* it twice, changes the array in memory, truncates the file and writes    *)
(* everything again; what stdio has not flushed when the application dies, *)
(* or what fclose fails to flush, is missing from the end of the file.     *)
(*                                                                         *)
(* Application and game never run at the same time on the console, so the  *)
(* game's reader is an operator over the file and not a process.           *)
(***************************************************************************)
EXTENDS Naturals, Sequences

CONSTANTS
    Hash,          \* the patch hashes of the title
    ReadFaults,    \* reading may fail: fopen, fread or malloc
    WriteFaults,   \* fopen for writing, realloc or fwrite may fail
    CloseFaults,   \* fclose may fail to flush: its result is not looked at
    Crashes        \* the application may be killed at any point

ASSUME FaultAssumption ==
    {ReadFaults, WriteFaults, CloseFaults, Crashes} \subseteq BOOLEAN

VARIABLES
    pc,      \* where toggle_patch_state is: "idle", "reread", "open", "write", "close"
    file,    \* the settings file
    hash,    \* the argument of the call in progress, or of the last one
    target,  \* the value it writes
    states,  \* the array in memory
    result,  \* what the last call returned: "on", "off", "failed"; or "none", "crashed"
    before,  \* history: the status of every hash when the call began
    flushed  \* history: the last fclose after a write flushed everything

vars == <<pc, file, hash, target, states, result, before, flushed>>

-----------------------------------------------------------------------------
\* A file: whether it exists, how many of its bytes are on the disk, and the
\* array its writer set out to store. PatchStateFileHeader and PatchState are
\* packed: three words, and a word and a byte.

PatchStates == Seq([hash: Hash, on: BOOLEAN])

HeaderSize == 12
StateSize == 5

SizeFor(n) == HeaderSize + n * StateSize

NoFile == [exists |-> FALSE, size |-> 0, states |-> <<>>]
EmptyFile == [exists |-> TRUE, size |-> 0, states |-> <<>>]

\* What write_patch_states_internal puts on the disk when it is not cut short.
FileOf(s) == [exists |-> TRUE, size |-> SizeFor(Len(s)), states |-> s]

\* What may be there when it is: any number of its first bytes.
CutFiles(s) ==
    {EmptyFile} \cup {[FileOf(s) EXCEPT !.size = b] : b \in 1 .. SizeFor(Len(s))}

HeaderIsCut(f) == f.exists /\ f.size \in 1 .. HeaderSize - 1

\* read_patch_states_internal of the application: all the states or none.
ReadStates(f) ==
    IF f.exists /\ f.size >= SizeFor(Len(f.states)) THEN f.states ELSE <<>>

\* The loops over the array stop at the first state with the hash.
FirstAt(s, h, i) == s[i].hash = h /\ \A j \in DOMAIN s : j < i => s[j].hash # h

Status(s, h) ==
    IF \E i \in DOMAIN s : FirstAt(s, h, i) /\ s[i].on THEN "on"
    ELSE IF \E i \in DOMAIN s : s[i].hash = h THEN "off" ELSE "absent"

StatusMap(s) == [h \in Hash |-> Status(s, h)]

\* Mutant: a state is always appended.
WithStateAppended(s, h, v) == Append(s, [hash |-> h, on |-> v])

\* write_patch_state: change the state of h, or append one.
WithState(s, h, v) ==
    IF \E i \in DOMAIN s : s[i].hash = h
    THEN [i \in DOMAIN s |-> IF FirstAt(s, h, i) THEN [hash |-> h, on |-> v] ELSE s[i]]
    ELSE Append(s, [hash |-> h, on |-> v])

\* The calls of the game's reader that may fail: fileOpen or fileSize, the two
\* fileRead, malloc.
GameCalls == {"open", "header", "malloc", "states"}

\* The header it goes by: any non-empty read is taken for a whole header, and what
\* was not delivered is what the stack holds (1 stands for any count but 0).
HeadersRead(f) ==
    IF HeaderIsCut(f) THEN [valid: {TRUE, f.size >= 8}, count: {0, 1}]
    ELSE {[valid |-> TRUE, count |-> Len(f.states)]}

Nothing == [count |-> 0, array |-> <<>>]

\* Mutant: a short read of the states frees the array and keeps the count.
StatesReadKeepingCount(f, head, failing) ==
    IF ~head.valid \/ head.count = 0 THEN Nothing
    ELSE [count |-> head.count,
          array |-> IF \/ {"malloc", "states"} \cap failing # {}
                       \/ f.size < SizeFor(head.count)
                    THEN <<>> ELSE f.states]

\* Count and array (NULL is <<>>) once the header is there: the count is set
\* before malloc, which may refuse, and reset only when the second read is short.
StatesRead(f, head, failing) ==
    IF ~head.valid \/ head.count = 0 THEN Nothing
    ELSE IF "malloc" \in failing THEN [count |-> head.count, array |-> <<>>]
    ELSE IF "states" \in failing \/ f.size < SizeFor(head.count) THEN Nothing
    ELSE [count |-> head.count, array |-> f.states]

\* read_patch_states_internal of the game; a count from the stack may be too
\* large for malloc.
GameReads(f, failing) ==
    IF ~f.exists \/ f.size = 0 \/ {"open", "header"} \cap failing # {} THEN {Nothing}
    ELSE {StatesRead(f, head, failing \cup refused) :
              head \in HeadersRead(f),
              refused \in IF HeaderIsCut(f) THEN SUBSET {"malloc"} ELSE {{}}}

\* The answers of read_patch_state in the game: a NULL array with a count is walked.
GameAnswers(f, h, failing) ==
    {IF r.array = <<>> /\ r.count # 0 THEN "fault" ELSE Status(r.array, h) :
        r \in GameReads(f, failing)}

-----------------------------------------------------------------------------
Init ==
    /\ pc = "idle"
    /\ file = NoFile
    /\ hash \in Hash
    /\ target = FALSE
    /\ states = <<>>
    /\ result = "none"
    /\ before = StatusMap(<<>>)
    /\ flushed = TRUE

\* The arrays a read may come up with.
Reads == {ReadStates(file)} \cup IF ReadFaults THEN {<<>>} ELSE {}

\* Mutant: the toggle writes what it read.
ToggleNothing(h) ==
    /\ pc = "idle"
    /\ \E s \in Reads : target' = (Status(s, h) = "on")
    /\ pc' = "reread"
    /\ hash' = h
    /\ result' = "none"
    /\ before' = StatusMap(ReadStates(file))
    /\ UNCHANGED <<file, states, flushed>>

\* toggle_patch_state(h): read_patch_state decides the new value; a hash that is
\* absent, or could not be read, is switched on.
Toggle(h) ==
    /\ pc = "idle"
    /\ \E s \in Reads : target' = (Status(s, h) # "on")
    /\ pc' = "reread"
    /\ hash' = h
    /\ result' = "none"
    /\ before' = StatusMap(ReadStates(file))
    /\ UNCHANGED <<file, states, flushed>>

\* write_patch_state reads the file again and changes the array.
Reread ==
    /\ pc = "reread"
    /\ \E s \in Reads : states' = WithState(s, hash, target)
    /\ pc' = "open"
    /\ UNCHANGED <<file, hash, target, result, before, flushed>>

Return(r) == pc' = "idle" /\ result' = r

\* realloc or fopen fails: the file keeps its contents.
OpenFails ==
    /\ pc = "open" /\ WriteFaults
    /\ Return("failed")
    /\ UNCHANGED <<file, hash, target, states, before, flushed>>

\* fopen(filename, "wb") truncates the file.
Open ==
    /\ pc = "open"
    /\ pc' = "write"
    /\ file' = EmptyFile
    /\ UNCHANGED <<hash, target, states, result, before, flushed>>

\* Header and states go to stdio's buffer, and to the file as far as it likes.
Write ==
    /\ pc = "write"
    /\ pc' = "close"
    /\ UNCHANGED <<file, hash, target, states, result, before, flushed>>

\* Mutant: the result of write_patch_state is not looked at.
WriteFailsUnseen ==
    /\ pc = "write" /\ WriteFaults
    /\ file' \in CutFiles(states)
    /\ Return(IF target THEN "on" ELSE "off")
    /\ UNCHANGED <<hash, target, states, before, flushed>>

\* One of the two fwrite calls comes up short.
WriteFails ==
    /\ pc = "write" /\ WriteFaults
    /\ file' \in CutFiles(states)
    /\ Return("failed")
    /\ UNCHANGED <<hash, target, states, before, flushed>>

\* fclose flushes; the toggle reports the new value whatever fclose says.
Close ==
    /\ pc = "close"
    /\ \/ flushed' = TRUE /\ file' = FileOf(states)
       \/ CloseFaults /\ flushed' = FALSE /\ file' \in CutFiles(states)
    /\ Return(IF target THEN "on" ELSE "off")
    /\ UNCHANGED <<hash, target, states, before>>

\* The application dies; what was flushed so far stays.
Crash ==
    /\ Crashes /\ pc # "idle"
    /\ file' \in IF pc \in {"write", "close"} THEN CutFiles(states) ELSE {file}
    /\ Return("crashed")
    /\ UNCHANGED <<hash, target, states, before, flushed>>

Next ==
    \/ \E h \in Hash : Toggle(h)
    \/ Reread \/ Open \/ OpenFails \/ Write \/ WriteFails \/ Close \/ Crash

Spec == Init /\ [][Next]_vars

-----------------------------------------------------------------------------
TypeOK ==
    /\ pc \in {"idle", "reread", "open", "write", "close"}
    /\ file \in [exists: BOOLEAN, size: Nat, states: PatchStates]
    /\ hash \in Hash
    /\ target \in BOOLEAN
    /\ states \in PatchStates
    /\ result \in {"none", "on", "off", "failed", "crashed"}
    /\ before \in [Hash -> {"absent", "on", "off"}]
    /\ flushed \in BOOLEAN

UniqueIn(s) == \A i, j \in DOMAIN s : s[i].hash = s[j].hash => i = j

\* No hash occurs twice in the array or the file, through any sequence of
\* toggles, failures and crashes: the loops that stop at the first match never
\* leave a second, contradicting state behind.
UniqueHashes == UniqueIn(states) /\ UniqueIn(file.states)

\* Where a call stands between two of them, the settings are still the old ones
\* until the file is closed; afterwards they are what the file says.
Settings == IF pc = "idle" THEN StatusMap(ReadStates(file)) ELSE before

\* A call that reports "on" or "off" has stored it, whatever reads and writes
\* failed on the way and in the calls before, unless its own fclose did not flush:
\* that is the one failure that goes unnoticed. The application reads it back, and
\* so does the game as long as nothing fails there.
ReportedIsStored ==
    pc = "idle" /\ result \in {"on", "off"} /\ flushed =>
        /\ Status(ReadStates(file), hash) = result
        /\ GameAnswers(file, hash, {}) = {result}

\* However a call ends, a hash other than its argument is as before or lost, and
\* the argument is as before, lost, or at the value being written: a file that
\* was cut never mixes up the states.
AllOrNothing ==
    \A h \in Hash :
        Settings[h] \in {before[h], "absent"} \cup
            IF h = hash THEN {IF target THEN "on" ELSE "off"} ELSE {}

\* Whatever bytes a toggle leaves behind, and whatever fails while the game reads
\* them: the game gives the application's answer, or it finds nothing because a
\* call of its own failed, or it breaks down for want of memory or on a header
\* that was cut. It never finds a patch enabled that the application shows as
\* disabled, and never walks an array it did not get.
ReadersAgree ==
    \A h \in Hash, failing \in SUBSET GameCalls :
        \A answer \in GameAnswers(file, h, failing) :
            \/ answer = Status(ReadStates(file), h)
            \/ answer = "absent" /\ failing # {}
            \/ answer = "fault" /\ ("malloc" \in failing \/ HeaderIsCut(file))

\* The file implements the map it stands for; losses only where faults are.
Map == INSTANCE EnabledMap WITH
           map <- Settings,
           Lossy <- ReadFaults \/ WriteFaults \/ CloseFaults \/ Crashes

ImplementsMap == Map!Spec
=============================================================================

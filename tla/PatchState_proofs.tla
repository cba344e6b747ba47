--------------------------- MODULE PatchState_proofs ---------------------------
(***************************************************************************)
(* For any set of hashes and any combination of faults: the settings file  *)
(* never holds a hash twice, and it implements EnabledMap.                 *)
(***************************************************************************)
EXTENDS PatchState, SequenceTheorems, TLAPS

State == [hash: Hash, on: BOOLEAN]
Word(v) == IF v THEN "on" ELSE "off"

-----------------------------------------------------------------------------
\* The array is a sequence of states.
LEMMA ArrayFacts ==
    ASSUME NEW s \in PatchStates
    PROVE  /\ s \in Seq(State)
           /\ DOMAIN s = 1 .. Len(s) /\ Len(s) \in Nat
           /\ \A i \in DOMAIN s : s[i] \in State
<1>1. s \in Seq(State) BY DEF PatchStates, State
<1>2. DOMAIN s = 1 .. Len(s) /\ Len(s) \in Nat BY <1>1, LenProperties
<1> QED BY <1>1, <1>2, ElementOfSeq

\* In an array without duplicates the state found is the only one of its hash.
LEMMA StatusFacts ==
    ASSUME NEW s \in PatchStates, UniqueIn(s), NEW h
    PROVE  /\ \A i \in DOMAIN s : s[i].hash = h => Status(s, h) = Word(s[i].on)
           /\ (\A i \in DOMAIN s : s[i].hash # h) => Status(s, h) = "absent"
<1>0. /\ DOMAIN s = 1 .. Len(s) /\ Len(s) \in Nat
      /\ \A i \in DOMAIN s : s[i] \in State
    BY ArrayFacts
<1>1. ASSUME NEW i \in DOMAIN s, s[i].hash = h
      PROVE  Status(s, h) = Word(s[i].on)
    <2>1. FirstAt(s, h, i)
        BY <1>0, <1>1 DEF FirstAt, UniqueIn
    <2>2. \A k \in DOMAIN s : FirstAt(s, h, k) => k = i
        BY <1>1 DEF FirstAt, UniqueIn
    <2>3. CASE s[i].on
        <3>1. \E k \in DOMAIN s : FirstAt(s, h, k) /\ s[k].on BY <2>1, <2>3
        <3> QED BY <2>3, <3>1 DEF Status, Word
    <2>4. CASE ~s[i].on
        <3>1. ~\E k \in DOMAIN s : FirstAt(s, h, k) /\ s[k].on BY <2>2, <2>4
        <3>2. \E k \in DOMAIN s : s[k].hash = h BY <1>1
        <3> QED BY <2>4, <3>1, <3>2 DEF Status, Word
    <2> QED BY <2>3, <2>4
<1>2. ASSUME \A i \in DOMAIN s : s[i].hash # h PROVE Status(s, h) = "absent"
    BY <1>2 DEF Status, FirstAt
<1> QED BY <1>1, <1>2

\* Every hash has one of the three statuses; the empty array has them all absent.
LEMMA StatusRange ==
    /\ \A s, h : Status(s, h) \in {"absent", "on", "off"}
    /\ \A h : Status(<<>>, h) = "absent"
BY DEF Status, FirstAt

\* write_patch_state's change of the array: no duplicate arises, the hash gets
\* its value, the others keep theirs.
LEMMA WithStateFacts ==
    ASSUME NEW s \in PatchStates, UniqueIn(s), NEW h \in Hash, NEW v \in BOOLEAN
    PROVE  LET t == WithState(s, h, v) IN
           /\ t \in PatchStates
           /\ UniqueIn(t)
           /\ Status(t, h) = Word(v)
           /\ \A k \in Hash \ {h} : Status(t, k) = Status(s, k)
<1> DEFINE t == WithState(s, h, v)
<1>0. /\ DOMAIN s = 1 .. Len(s) /\ Len(s) \in Nat
      /\ \A i \in DOMAIN s : s[i] \in State
    BY ArrayFacts
<1>1. [hash |-> h, on |-> v] \in State BY DEF State
<1>2. CASE \E i \in DOMAIN s : s[i].hash = h
    <2>1. PICK p \in DOMAIN s : s[p].hash = h BY <1>2
    <2>2. \A i \in DOMAIN s : FirstAt(s, h, i) <=> i = p
        BY <1>0, <2>1 DEF FirstAt, UniqueIn
    <2>3. t = [i \in DOMAIN s |-> IF i = p THEN [hash |-> h, on |-> v] ELSE s[i]]
        BY <1>2, <2>2 DEF WithState
    <2>4. DOMAIN t = DOMAIN s BY <2>3
    <2>5. \A i \in DOMAIN s : t[i] \in State BY <1>0, <1>1, <2>3
    <2>6. t \in Seq(State)
        <3>1. t = [i \in 1 .. Len(s) |-> t[i]] BY <1>0, <2>3
        <3>2. t \in [1 .. Len(s) -> State] BY <1>0, <2>3, <2>5
        <3> QED BY <1>0, <3>2
    <2>7. \A i \in DOMAIN s : t[i].hash = s[i].hash BY <2>1, <2>3
    <2>8. UniqueIn(t) BY <2>4, <2>7 DEF UniqueIn
    <2>9. t \in PatchStates BY <2>6 DEF PatchStates, State
    <2>10. t[p].hash = h /\ t[p].on = v BY <2>1, <2>3
    <2> HIDE DEF t
    <2>11. Status(t, h) = Word(v) BY <2>1, <2>4, <2>8, <2>9, <2>10, StatusFacts
    <2>12. ASSUME NEW k \in Hash \ {h} PROVE Status(t, k) = Status(s, k)
        <3>1. CASE \E i \in DOMAIN s : s[i].hash = k
            <4>1. PICK i \in DOMAIN s : s[i].hash = k BY <3>1
            <4>2. t[i] = s[i] BY <2>1, <2>3, <4>1
            <4>3. Status(s, k) = Word(s[i].on) BY <4>1, StatusFacts
            <4>4. Status(t, k) = Word(t[i].on)
                BY <2>4, <2>8, <2>9, <4>1, <4>2, StatusFacts
            <4> QED BY <4>2, <4>3, <4>4
        <3>2. CASE ~\E i \in DOMAIN s : s[i].hash = k
            <4>1. Status(s, k) = "absent" BY <3>2, StatusFacts
            <4>2. \A i \in DOMAIN t : t[i].hash # k BY <2>4, <2>7, <3>2
            <4>3. Status(t, k) = "absent" BY <2>8, <2>9, <4>2, StatusFacts
            <4> QED BY <4>1, <4>3
        <3> QED BY <3>1, <3>2
    <2> QED BY <2>8, <2>9, <2>11, <2>12 DEF t
<1>3. CASE ~\E i \in DOMAIN s : s[i].hash = h
    <2>1. t = Append(s, [hash |-> h, on |-> v]) BY <1>3 DEF WithState
    <2>2. s \in Seq(State) BY DEF PatchStates, State
    <2>3. /\ t \in Seq(State)
          /\ DOMAIN t = 1 .. Len(s) + 1
          /\ \A i \in 1 .. Len(s) : t[i] = s[i]
          /\ t[Len(s) + 1] = [hash |-> h, on |-> v]
        BY <1>0, <1>1, <2>1, <2>2
    <2> HIDE DEF t
    <2>4. t \in PatchStates BY <2>3 DEF PatchStates, State
    <2>5. \A i \in DOMAIN t : i \in DOMAIN s \/ i = Len(s) + 1 BY <1>0, <2>3
    <2>6. UniqueIn(t)
        <3> SUFFICES ASSUME NEW i \in DOMAIN t, NEW j \in DOMAIN t,
                            t[i].hash = t[j].hash
                     PROVE  i = j
            BY DEF UniqueIn
        <3>1. t[Len(s) + 1].hash = h BY <2>3
        <3>2. CASE i \in DOMAIN s /\ j \in DOMAIN s
            BY <1>0, <2>3, <3>2 DEF UniqueIn
        <3>3. CASE i \in DOMAIN s /\ j = Len(s) + 1
            BY <1>0, <1>3, <2>3, <3>1, <3>3
        <3>4. CASE i = Len(s) + 1 /\ j \in DOMAIN s
            BY <1>0, <1>3, <2>3, <3>1, <3>4
        <3> QED BY <2>5, <3>2, <3>3, <3>4
    <2>7. Status(t, h) = Word(v)
        <3>1. Len(s) + 1 \in DOMAIN t BY <1>0, <2>3
        <3>2. t[Len(s) + 1].hash = h /\ t[Len(s) + 1].on = v BY <2>3
        <3> QED BY <2>4, <2>6, <3>1, <3>2, StatusFacts
    <2>8. ASSUME NEW k \in Hash \ {h} PROVE Status(t, k) = Status(s, k)
        <3>1. CASE \E i \in DOMAIN s : s[i].hash = k
            <4>1. PICK i \in DOMAIN s : s[i].hash = k BY <3>1
            <4>2. t[i] = s[i] /\ i \in DOMAIN t BY <1>0, <2>3, <4>1
            <4>3. Status(s, k) = Word(s[i].on) BY <4>1, StatusFacts
            <4>4. Status(t, k) = Word(t[i].on) BY <2>4, <2>6, <4>1, <4>2, StatusFacts
            <4> QED BY <4>2, <4>3, <4>4
        <3>2. CASE ~\E i \in DOMAIN s : s[i].hash = k
            <4>1. Status(s, k) = "absent" BY <3>2, StatusFacts
            <4>2. \A i \in DOMAIN t : t[i].hash # k
                BY <1>0, <2>3, <2>5, <3>2
            <4>3. Status(t, k) = "absent" BY <2>4, <2>6, <4>2, StatusFacts
            <4> QED BY <4>1, <4>3
        <3> QED BY <3>1, <3>2
    <2> QED BY <2>4, <2>6, <2>7, <2>8 DEF t
<1> QED BY <1>2, <1>3

\* A file cut short reads as the whole array or as nothing.
LEMMA CutFacts ==
    ASSUME NEW s \in PatchStates, UniqueIn(s), NEW f \in CutFiles(s) \cup {FileOf(s)}
    PROVE  /\ f \in [exists: BOOLEAN, size: Nat, states: PatchStates]
           /\ UniqueIn(f.states)
           /\ ReadStates(f) \in {<<>>, s}
           /\ f = FileOf(s) => ReadStates(f) = s
<1>0. Len(s) \in Nat /\ SizeFor(Len(s)) \in Nat
    BY ArrayFacts DEF SizeFor, HeaderSize, StateSize
<1>1. <<>> \in PatchStates /\ UniqueIn(<<>>) /\ Len(<<>>) = 0
    BY DEF PatchStates, UniqueIn
<1>2. CASE f = EmptyFile
    BY <1>0, <1>1, <1>2 DEF EmptyFile, NoFile, ReadStates, FileOf, SizeFor, HeaderSize, StateSize
<1>3. CASE f = FileOf(s)
    BY <1>0, <1>3 DEF FileOf, ReadStates
<1>4. ASSUME NEW b \in 1 .. SizeFor(Len(s)), f = [FileOf(s) EXCEPT !.size = b]
      PROVE  /\ f = [exists |-> TRUE, size |-> b, states |-> s]
             /\ ReadStates(f) \in {<<>>, s}
             /\ f = FileOf(s) => ReadStates(f) = s
    <2>1. f = [exists |-> TRUE, size |-> b, states |-> s] BY <1>4 DEF FileOf
    <2>2. ReadStates(f) = IF b >= SizeFor(Len(s)) THEN s ELSE <<>>
        BY <2>1 DEF ReadStates
    <2>3. f = FileOf(s) => b >= SizeFor(Len(s)) BY <1>0, <2>1 DEF FileOf
    <2> QED BY <2>1, <2>2, <2>3
<1>5. f = EmptyFile => /\ f \in [exists: BOOLEAN, size: Nat, states: PatchStates]
                       /\ f.states = <<>>
    <2>1. EmptyFile = [exists |-> TRUE, size |-> 0, states |-> <<>>]
        BY DEF EmptyFile
    <2> QED BY <1>1, <2>1
<1>6. FileOf(s) \in [exists: BOOLEAN, size: Nat, states: PatchStates] /\ FileOf(s).states = s
    BY <1>0 DEF FileOf
<1>7. CASE f = EmptyFile BY <1>1, <1>2, <1>5, <1>7
<1>8. CASE f = FileOf(s) BY <1>3, <1>6, <1>8
<1>9. CASE \E b \in 1 .. SizeFor(Len(s)) : f = [FileOf(s) EXCEPT !.size = b]
    <2>1. PICK b \in 1 .. SizeFor(Len(s)) : f = [FileOf(s) EXCEPT !.size = b] BY <1>9
    <2>2. /\ f = [exists |-> TRUE, size |-> b, states |-> s]
          /\ ReadStates(f) \in {<<>>, s}
          /\ f = FileOf(s) => ReadStates(f) = s
        BY <1>4, <2>1
    <2>3. b \in Nat BY <1>0, <2>1
    <2> QED BY <2>2, <2>3
<1> QED BY <1>7, <1>8, <1>9 DEF CutFiles

-----------------------------------------------------------------------------
Lossy == ReadFaults \/ WriteFaults \/ CloseFaults \/ Crashes

\* The call in progress: what it was told to write, what it has in memory, and
\* the file that is empty from fopen to fclose.
InCall ==
    /\ pc # "idle" =>
        /\ target \/ before[hash] = "on"
        /\ ~Lossy => (target <=> before[hash] # "on")
    /\ pc \in {"reread", "open"} => before = StatusMap(ReadStates(file))
    /\ pc \in {"write", "close"} => file = EmptyFile
    /\ pc \in {"open", "write", "close"} =>
        /\ Status(states, hash) = Word(target)
        /\ \A h \in Hash \ {hash} :
            /\ Status(states, h) \in {before[h], "absent"}
            /\ ~Lossy => Status(states, h) = before[h]

IInv == TypeOK /\ UniqueHashes /\ InCall

LEMMA ReadsFacts ==
    ASSUME TypeOK, UniqueHashes
    PROVE  /\ ReadStates(file) \in PatchStates /\ UniqueIn(ReadStates(file))
           /\ \A s \in Reads : /\ s \in PatchStates /\ UniqueIn(s)
                               /\ s = ReadStates(file) \/ s = <<>>
                               /\ ~Lossy => s = ReadStates(file)
<1>1. <<>> \in PatchStates /\ UniqueIn(<<>>) BY DEF PatchStates, UniqueIn
<1>2. ReadStates(file) = file.states \/ ReadStates(file) = <<>>
    BY DEF ReadStates
<1>3. ReadStates(file) \in PatchStates /\ UniqueIn(ReadStates(file))
    BY <1>1, <1>2 DEF TypeOK, UniqueHashes
<1> QED BY <1>1, <1>3 DEF Reads, Lossy

LEMMA IInvInit == Init => IInv
<1> SUFFICES ASSUME Init PROVE IInv
    OBVIOUS
<1>1. <<>> \in PatchStates /\ UniqueIn(<<>>) BY DEF PatchStates, UniqueIn
<1>2. StatusMap(<<>>) \in [Hash -> {"absent", "on", "off"}]
    BY StatusRange DEF StatusMap
<1>3. TypeOK BY <1>1, <1>2 DEF Init, TypeOK, NoFile
<1>4. UniqueHashes BY <1>1 DEF Init, UniqueHashes, NoFile
<1>5. InCall BY DEF Init, InCall
<1> QED BY <1>3, <1>4, <1>5 DEF IInv

\* The steps that end a call leave nothing to show but the file.
LEMMA ReturnStep ==
    ASSUME IInv, pc' = "idle", result' \in {"on", "off", "failed", "crashed"},
           flushed' \in BOOLEAN, UNCHANGED <<hash, target, states, before>>,
           file' = file \/ file' \in CutFiles(states) \cup {FileOf(states)}
    PROVE  IInv'
<1> USE DEF IInv
<1>1. states \in PatchStates /\ UniqueIn(states) BY DEF TypeOK, UniqueHashes
<1>2. /\ file' \in [exists: BOOLEAN, size: Nat, states: PatchStates]
      /\ UniqueIn(file'.states)
    <2>1. CASE file' = file BY <2>1 DEF TypeOK, UniqueHashes
    <2>2. CASE file' \in CutFiles(states) \cup {FileOf(states)}
        BY <1>1, <2>2, CutFacts
    <2> QED BY <2>1, <2>2
<1>3. TypeOK' BY <1>2 DEF TypeOK
<1>4. UniqueHashes' BY <1>1, <1>2 DEF UniqueHashes
<1>5. InCall' BY DEF InCall
<1> QED BY <1>3, <1>4, <1>5

LEMMA IInvStep == IInv /\ [Next]_vars => IInv'
<1> SUFFICES ASSUME IInv, [Next]_vars PROVE IInv'
    OBVIOUS
<1> USE DEF IInv
<1>1. ASSUME NEW h \in Hash, Toggle(h) PROVE IInv'
    <2> DEFINE now == StatusMap(ReadStates(file))
    <2>1. PICK s \in Reads : target' = (Status(s, h) # "on") BY <1>1 DEF Toggle
    <2>2. /\ pc' = "reread" /\ hash' = h /\ result' = "none" /\ before' = now
          /\ file' = file /\ states' = states /\ flushed' = flushed
        BY <1>1 DEF Toggle
    <2>3. now \in [Hash -> {"absent", "on", "off"}] /\ now[h] = Status(ReadStates(file), h)
        BY StatusRange DEF StatusMap
    <2>4. target' \in BOOLEAN BY <2>1
    <2>5. TypeOK' BY <2>2, <2>3, <2>4 DEF TypeOK
    <2>6. UniqueHashes' BY <2>2 DEF UniqueHashes
    <2>7. target' \/ now[h] = "on"
        <3>1. s = ReadStates(file) \/ s = <<>> BY ReadsFacts
        <3>2. Status(<<>>, h) # "on" BY StatusRange
        <3> QED BY <2>1, <2>3, <3>1, <3>2
    <2>8. ~Lossy => (target' <=> now[h] # "on")
        BY <2>1, <2>3, ReadsFacts
    <2>9. InCall' BY <2>2, <2>7, <2>8 DEF InCall, Lossy
    <2> QED BY <2>5, <2>6, <2>9
<1>2. CASE Reread
    <2>1. PICK s \in Reads : states' = WithState(s, hash, target) BY <1>2 DEF Reread
    <2>2. /\ pc = "reread" /\ pc' = "open"
          /\ UNCHANGED <<file, hash, target, result, before, flushed>>
        BY <1>2 DEF Reread
    <2>3. s \in PatchStates /\ UniqueIn(s) BY ReadsFacts
    <2>4. hash \in Hash /\ target \in BOOLEAN BY DEF TypeOK
    <2>5. /\ states' \in PatchStates /\ UniqueIn(states')
          /\ Status(states', hash) = Word(target)
          /\ \A k \in Hash \ {hash} : Status(states', k) = Status(s, k)
        BY <2>1, <2>3, <2>4, WithStateFacts
    <2>6. before = StatusMap(ReadStates(file)) BY <2>2 DEF InCall
    <2>7. ASSUME NEW k \in Hash \ {hash}
          PROVE  /\ Status(states', k) \in {before[k], "absent"}
                 /\ ~Lossy => Status(states', k) = before[k]
        <3>1. before[k] = Status(ReadStates(file), k) BY <2>6 DEF StatusMap
        <3>2. s = ReadStates(file) \/ s = <<>> BY ReadsFacts
        <3>3. ~Lossy => s = ReadStates(file) BY ReadsFacts
        <3>4. Status(<<>>, k) = "absent" BY StatusRange
        <3> QED BY <2>5, <3>1, <3>2, <3>3, <3>4
    <2>8. TypeOK' BY <2>2, <2>5 DEF TypeOK
    <2>9. UniqueHashes' BY <2>2, <2>5 DEF UniqueHashes
    <2>10. InCall' BY <2>2, <2>5, <2>6, <2>7 DEF InCall, Lossy
    <2> QED BY <2>8, <2>9, <2>10
<1>3. CASE OpenFails
    BY <1>3, ReturnStep DEF OpenFails, Return, TypeOK
<1>4. CASE Open
    <2>1. EmptyFile \in CutFiles(states) BY DEF CutFiles
    <2>2. states \in PatchStates /\ UniqueIn(states) BY DEF TypeOK, UniqueHashes
    <2>3. file' = EmptyFile /\ pc = "open" /\ pc' = "write"
          /\ UNCHANGED <<hash, target, states, result, before, flushed>>
        BY <1>4 DEF Open
    <2>4. /\ file' \in [exists: BOOLEAN, size: Nat, states: PatchStates]
          /\ UniqueIn(file'.states)
        BY <2>1, <2>2, <2>3, CutFacts
    <2>5. TypeOK' BY <2>3, <2>4 DEF TypeOK
    <2>6. UniqueHashes' BY <2>2, <2>3, <2>4 DEF UniqueHashes
    <2>7. InCall' BY <2>3 DEF InCall, Lossy
    <2> QED BY <2>5, <2>6, <2>7
<1>5. CASE Write
    BY <1>5 DEF Write, TypeOK, UniqueHashes, InCall, Lossy
<1>6. CASE WriteFails
    BY <1>6, ReturnStep DEF WriteFails, Return, TypeOK
<1>7. CASE Close
    BY <1>7, ReturnStep DEF Close, Return
<1>8. CASE Crash
    BY <1>8, ReturnStep DEF Crash, Return, TypeOK
<1>9. CASE UNCHANGED vars
    BY <1>9 DEF vars, TypeOK, UniqueHashes, InCall, Lossy
<1> QED BY <1>1, <1>2, <1>3, <1>4, <1>5, <1>6, <1>7, <1>8, <1>9 DEF Next

\* The invariant of the toggle, faults included.
THEOREM Invariance == Spec => []IInv
BY IInvInit, IInvStep, PTL DEF Spec

\* Types are respected through any sequence of toggles, failures and crashes.
THEOREM TypeCorrect == Spec => []TypeOK
<1>1. IInv => TypeOK BY DEF IInv
<1> QED BY <1>1, Invariance, PTL

\* Through any sequence of toggles, failures and crashes, neither the array in
\* memory nor the settings file holds two states for one hash.
THEOREM NoDuplicates == Spec => []UniqueHashes
<1>1. IInv => UniqueHashes BY DEF IInv
<1> QED BY <1>1, Invariance, PTL

-----------------------------------------------------------------------------
\* What the file says after a call ended: all it said before, nothing, or the
\* array in memory.
LEMMA EndOfCall ==
    ASSUME IInv, pc # "idle", pc' = "idle",
           \/ pc \in {"reread", "open"} /\ file' = file
           \/ pc \in {"write", "close"} /\ file' \in CutFiles(states) \cup {FileOf(states)}
    PROVE  \/ StatusMap(ReadStates(file'))  = before
           \/ StatusMap(ReadStates(file')) = StatusMap(<<>>)
           \/ pc \in {"write", "close"} /\ StatusMap(ReadStates(file')) = StatusMap(states)
<1>1. CASE pc \in {"reread", "open"} /\ file' = file
    BY <1>1 DEF IInv, InCall
<1>2. CASE pc \in {"write", "close"} /\ file' \in CutFiles(states) \cup {FileOf(states)}
    <2>1. states \in PatchStates /\ UniqueIn(states)
        BY DEF IInv, TypeOK, UniqueHashes
    <2>2. ReadStates(file') \in {<<>>, states} BY <1>2, <2>1, CutFacts
    <2> QED BY <1>2, <2>2
<1> QED BY <1>1, <1>2

\* Each action that ends a call is one of these.
LEMMA EndingActions ==
    ASSUME TypeOK, OpenFails \/ WriteFails \/ Close \/ Crash
    PROVE  /\ pc # "idle" /\ pc' = "idle"
           /\ UNCHANGED <<hash, target, states, before>>
           /\ \/ pc \in {"reread", "open"} /\ file' = file
              \/ pc \in {"write", "close"} /\ file' \in CutFiles(states) \cup {FileOf(states)}
<1>1. CASE OpenFails BY <1>1 DEF OpenFails, Return
<1>2. CASE WriteFails BY <1>2 DEF WriteFails, Return
<1>3. CASE Close BY <1>3 DEF Close, Return
<1>4. CASE Crash BY <1>4 DEF Crash, Return, TypeOK
<1> QED BY <1>1, <1>2, <1>3, <1>4

\* While a call runs, and when it begins, the settings are those it found.
LEMMA StepKeepsSettings ==
    ASSUME IInv, \/ \E h \in Hash : Toggle(h)
                 \/ Reread \/ Open \/ Write
    PROVE  Settings' = Settings /\ pc' # "idle"
<1>1. ASSUME NEW h \in Hash, Toggle(h) PROVE Settings' = Settings /\ pc' # "idle"
    BY <1>1 DEF Toggle, Settings
<1>2. CASE Reread BY <1>2 DEF Reread, Settings
<1>3. CASE Open BY <1>3 DEF Open, Settings
<1>4. CASE Write BY <1>4 DEF Write, Settings
<1> QED BY <1>1, <1>2, <1>3, <1>4

\* However a call ends, the other hashes are as before or lost, and its own is as
\* before, lost, or at the value it wrote.
THEOREM CallsAreAllOrNothing == Spec => []AllOrNothing
<1>1. Init => AllOrNothing
    <2> SUFFICES ASSUME Init PROVE AllOrNothing
        OBVIOUS
    <2>1. ReadStates(file) = <<>> BY DEF Init, ReadStates, NoFile
    <2>2. Settings = before BY <2>1 DEF Init, Settings
    <2> QED BY <2>2 DEF AllOrNothing
<1>2. IInv /\ AllOrNothing /\ [Next]_vars => AllOrNothing'
    <2> SUFFICES ASSUME IInv, AllOrNothing, [Next]_vars PROVE AllOrNothing'
        OBVIOUS
    <2>1. ASSUME \E h \in Hash : Toggle(h) PROVE AllOrNothing'
        <3>1. Settings' = before'
            BY <2>1, StepKeepsSettings DEF Settings
        <3> QED BY <3>1 DEF AllOrNothing
    <2>2. CASE Reread \/ Open \/ Write
        <3>1. Settings' = before' BY <2>2, StepKeepsSettings DEF Settings
        <3> QED BY <3>1 DEF AllOrNothing
    <2>3. CASE OpenFails \/ WriteFails \/ Close \/ Crash
        <3>1. /\ pc # "idle" /\ pc' = "idle"
              /\ UNCHANGED <<hash, target, states, before>>
            BY <2>3, EndingActions DEF IInv
        <3>2. Settings' = StatusMap(ReadStates(file')) BY <3>1 DEF Settings
        <3>3. \/ Settings' = before
              \/ Settings' = StatusMap(<<>>)
              \/ pc \in {"write", "close"} /\ Settings' = StatusMap(states)
            BY <2>3, <3>1, <3>2, EndingActions, EndOfCall DEF IInv
        <3>4. \A h \in Hash : StatusMap(<<>>)[h] = "absent"
            BY StatusRange DEF StatusMap
        <3>5. pc \in {"write", "close"} =>
                \A h \in Hash :
                    StatusMap(states)[h] \in {before[h], "absent"} \cup
                        IF h = hash THEN {Word(target)} ELSE {}
            BY DEF IInv, InCall, StatusMap
        <3> QED BY <3>1, <3>3, <3>4, <3>5 DEF AllOrNothing, Word
    <2>4. CASE UNCHANGED vars
        BY <2>4 DEF vars, AllOrNothing, Settings
    <2> QED BY <2>1, <2>2, <2>3, <2>4 DEF Next
<1> QED BY <1>1, <1>2, Invariance, PTL DEF Spec

-----------------------------------------------------------------------------
\* The end of a call is a toggle of its hash, or a loss, of the abstract map.
LEMMA EndIsMapStep ==
    ASSUME IInv, OpenFails \/ WriteFails \/ Close \/ Crash
    PROVE  Map!Next \/ Settings' = Settings
<1>1. /\ pc # "idle" /\ pc' = "idle"
      /\ UNCHANGED <<hash, target, states, before>>
      /\ \/ pc \in {"reread", "open"} /\ file' = file
         \/ pc \in {"write", "close"} /\ file' \in CutFiles(states) \cup {FileOf(states)}
    BY EndingActions DEF IInv
<1>2. Settings = before /\ Settings' = StatusMap(ReadStates(file'))
    BY <1>1 DEF Settings
<1>3. /\ hash \in Hash /\ target \in BOOLEAN
      /\ before \in [Hash -> {"absent", "on", "off"}]
    BY DEF IInv, TypeOK
<1>4. CASE Settings' = before BY <1>2, <1>4
<1>5. CASE Settings' = StatusMap(<<>>) /\ Lossy
    <2>1. Settings' = [h \in Hash |-> IF h \in Hash THEN "absent" ELSE Settings[h]]
        BY <1>5, StatusRange DEF StatusMap
    <2>2. Hash \in Map!Losses BY <1>5 DEF Map!Losses, Lossy
    <2> QED BY <2>1, <2>2 DEF Map!Next, Map!Lose, Map!Without
<1>6. CASE Settings' = StatusMap(states) /\ pc \in {"write", "close"}
    <2> DEFINE D == {h \in Hash :
                        \/ h # hash /\ Status(states, h) # before[h]
                        \/ h = hash /\ target /\ before[h] = "on"}
               m == [h \in Hash |-> IF h \in D THEN "absent" ELSE before[h]]
    <2>1. /\ target \/ before[hash] = "on"
          /\ ~Lossy => (target <=> before[hash] # "on")
          /\ Status(states, hash) = Word(target)
          /\ \A h \in Hash \ {hash} :
                /\ Status(states, h) \in {before[h], "absent"}
                /\ ~Lossy => Status(states, h) = before[h]
        BY <1>6 DEF IInv, InCall
    <2>2. D \in Map!Losses
        <3>1. CASE Lossy BY <3>1 DEF Map!Losses, Lossy
        <3>2. CASE ~Lossy
            <4>1. D = {} BY <2>1, <3>2
            <4> QED BY <3>2, <4>1 DEF Map!Losses, Lossy
        <3> QED BY <3>1, <3>2
    <2>3. \A h \in Hash \ {hash} : m[h] = Status(states, h)
        <3> SUFFICES ASSUME NEW h \in Hash \ {hash} PROVE m[h] = Status(states, h)
            OBVIOUS
        <3>1. Status(states, h) \in {before[h], "absent"} /\ h # hash BY <2>1
        <3>2. h \in D <=> Status(states, h) # before[h] BY <3>1
        <3>3. m[h] = IF h \in D THEN "absent" ELSE before[h] OBVIOUS
        <3> HIDE DEF D, m
        <3> QED BY <3>1, <3>2, <3>3
    <2>4. Map!Flip(m[hash]) = Word(target)
        <3>1. CASE target BY <1>3, <3>1 DEF Map!Flip, Word
        <3>2. CASE ~target BY <1>3, <2>1, <3>2 DEF Map!Flip, Word
        <3> QED BY <3>1, <3>2
    <2>5. StatusMap(states) = [m EXCEPT ![hash] = Map!Flip(m[hash])]
        <3>1. \A h \in Hash : StatusMap(states)[h] = [m EXCEPT ![hash] = Map!Flip(m[hash])][h]
            BY <1>3, <2>1, <2>3, <2>4 DEF StatusMap
        <3>2. DOMAIN StatusMap(states) = Hash BY DEF StatusMap
        <3>3. StatusMap(states) = [h \in Hash |-> StatusMap(states)[h]]
            BY DEF StatusMap
        <3> HIDE DEF m
        <3>4. DOMAIN m = Hash BY DEF m
        <3>5. [m EXCEPT ![hash] = Map!Flip(m[hash])]
                = [h \in Hash |-> [m EXCEPT ![hash] = Map!Flip(m[hash])][h]]
            BY <3>4
        <3> QED BY <3>1, <3>3, <3>5
    <2>6. m = Map!Without(D) BY <1>2 DEF Map!Without
    <2>7. Settings' = [Map!Without(D) EXCEPT ![hash] = Map!Flip(Map!Without(D)[hash])]
        BY <1>6, <2>5, <2>6
    <2>8. Map!Toggle(hash) BY <2>2, <2>7 DEF Map!Toggle
    <2> QED BY <1>3, <2>8 DEF Map!Next
<1>7. ASSUME ~Lossy PROVE Settings' = StatusMap(states) /\ pc \in {"write", "close"}
    <2>1. CASE Close
        <3>1. file' = FileOf(states) /\ pc = "close"
            BY <1>7, <2>1 DEF Close, Lossy
        <3>2. states \in PatchStates /\ UniqueIn(states)
            BY DEF IInv, TypeOK, UniqueHashes
        <3>3. ReadStates(file') = states BY <3>1, <3>2, CutFacts
        <3> QED BY <1>2, <3>1, <3>3
    <2>2. CASE OpenFails \/ WriteFails \/ Crash
        BY <1>7, <2>2 DEF OpenFails, WriteFails, Crash, Lossy
    <2> QED BY <2>1, <2>2
<1>8. \/ Settings' = before
      \/ Settings' = StatusMap(<<>>)
      \/ pc \in {"write", "close"} /\ Settings' = StatusMap(states)
    BY <1>1, <1>2, EndOfCall
<1> QED BY <1>4, <1>5, <1>6, <1>7, <1>8

\* The settings file implements the map of switches: without faults every call is
\* a toggle; with faults some switches may be lost, but none is ever switched on
\* without a toggle of its own hash.
THEOREM FileImplementsMap == Spec => ImplementsMap
<1>1. Init => Map!Init
    <2> SUFFICES ASSUME Init PROVE Map!Init
        OBVIOUS
    <2>1. ReadStates(file) = <<>> BY DEF Init, ReadStates, NoFile
    <2> QED BY <2>1, StatusRange DEF Init, Map!Init, Settings, StatusMap
<1>2. IInv /\ [Next]_vars => [Map!Next]_Settings
    <2> SUFFICES ASSUME IInv, [Next]_vars PROVE Map!Next \/ Settings' = Settings
        OBVIOUS
    <2>1. CASE \E h \in Hash : Toggle(h) BY <2>1, StepKeepsSettings
    <2>2. CASE Reread \/ Open \/ Write BY <2>2, StepKeepsSettings
    <2>3. CASE OpenFails \/ WriteFails \/ Close \/ Crash BY <2>3, EndIsMapStep
    <2>4. CASE UNCHANGED vars BY <2>4 DEF vars, Settings
    <2> QED BY <2>1, <2>2, <2>3, <2>4 DEF Next
<1> QED BY <1>1, <1>2, Invariance, PTL DEF Spec, ImplementsMap, Map!Spec
-----------------------------------------------------------------------------
-----------------------------------------------------------------------------
\* Neither reader finds anything in a file that is not whole: the game's answers
\* are the application's, or have a cause.
LEMMA GameFacts ==
    ASSUME TypeOK, NEW h \in Hash, NEW failing \in SUBSET GameCalls,
           NEW answer \in GameAnswers(file, h, failing)
    PROVE  \/ answer = Status(ReadStates(file), h)
           \/ answer = "absent" /\ failing # {}
           \/ answer = "fault" /\ ("malloc" \in failing \/ HeaderIsCut(file))
<1> DEFINE n == Len(file.states)
<1>0. /\ file.exists \in BOOLEAN /\ file.size \in Nat /\ file.states \in PatchStates
      /\ n \in Nat
    BY ArrayFacts DEF TypeOK
<1>1. Status(<<>>, h) = "absent" BY StatusRange
<1>2. PICK r \in GameReads(file, failing) :
        answer = IF r.array = <<>> /\ r.count # 0 THEN "fault" ELSE Status(r.array, h)
    BY DEF GameAnswers
<1>3. CASE ~file.exists \/ file.size = 0 \/ {"open", "header"} \cap failing # {}
    <2>1. r = Nothing BY <1>2, <1>3 DEF GameReads
    <2>2. answer = "absent" BY <1>1, <1>2, <2>1 DEF Nothing
    <2>3. CASE ~file.exists \/ file.size = 0
        <3>1. ReadStates(file) = <<>>
            BY <1>0, <2>3 DEF ReadStates, SizeFor, HeaderSize, StateSize
        <3> QED BY <1>1, <2>2, <3>1
    <2> QED BY <1>3, <2>2, <2>3
<1>4. CASE ~(~file.exists \/ file.size = 0 \/ {"open", "header"} \cap failing # {})
    <2>1. PICK head \in HeadersRead(file),
               refused \in IF HeaderIsCut(file) THEN SUBSET {"malloc"} ELSE {{}} :
            r = StatesRead(file, head, failing \cup refused)
        BY <1>2, <1>4 DEF GameReads
    <2>2. CASE HeaderIsCut(file)
        <3>1. head.count \in {0, 1} BY <2>1, <2>2 DEF HeadersRead
        <3>2. file.size < SizeFor(1) /\ file.size < SizeFor(n)
            BY <1>0, <2>2 DEF HeaderIsCut, SizeFor, HeaderSize, StateSize
        <3>3. ReadStates(file) = <<>> BY <1>0, <3>2 DEF ReadStates, SizeFor, HeaderSize, StateSize
        <3>4. r = Nothing \/ (r.array = <<>> /\ r.count # 0)
            <4>1. CASE ~head.valid \/ head.count = 0 BY <2>1, <4>1 DEF StatesRead
            <4>2. CASE ~(~head.valid \/ head.count = 0)
                <5>1. head.count = 1 BY <3>1, <4>2
                <5>2. CASE "malloc" \in failing \cup refused
                    <6>1. r = [count |-> head.count, array |-> <<>>]
                        BY <2>1, <4>2, <5>2 DEF StatesRead
                    <6> QED BY <5>1, <6>1
                <5>3. CASE "malloc" \notin failing \cup refused
                    BY <2>1, <3>2, <4>2, <5>1, <5>3 DEF StatesRead
                <5> QED BY <5>2, <5>3
            <4> QED BY <4>1, <4>2
        <3>5. answer \in {"absent", "fault"} BY <1>1, <1>2, <3>4 DEF Nothing
        <3> QED BY <1>1, <2>2, <3>3, <3>5
    <2>3. CASE ~HeaderIsCut(file)
        <3>1. head.valid /\ head.count = n /\ r = StatesRead(file, head, failing)
            <4>1. refused = {} /\ failing \cup refused = failing BY <2>1, <2>3
            <4>2. head = [valid |-> TRUE, count |-> n] BY <2>1, <2>3 DEF HeadersRead
            <4> QED BY <2>1, <4>1, <4>2
        <3>2. CASE n = 0
            <4>1. file.states = <<>> BY <1>0, <3>2, EmptySeq DEF PatchStates
            <4>2. r = Nothing BY <3>1, <3>2 DEF StatesRead
            <4>3. ReadStates(file) = <<>> BY <4>1 DEF ReadStates
            <4> QED BY <1>2, <4>2, <4>3 DEF Nothing
        <3>3. CASE n # 0 /\ "malloc" \in failing
            <4>1. r = [count |-> n, array |-> <<>>] BY <3>1, <3>3 DEF StatesRead
            <4>2. answer = "fault" BY <1>2, <3>3, <4>1
            <4> QED BY <3>3, <4>2
        <3>4. CASE n # 0 /\ "malloc" \notin failing
                   /\ ("states" \in failing \/ file.size < SizeFor(n))
            <4>1. r = Nothing BY <3>1, <3>4 DEF StatesRead
            <4>2. answer = "absent" BY <1>1, <1>2, <4>1 DEF Nothing
            <4>3. file.size < SizeFor(n) => ReadStates(file) = <<>>
                BY <1>0 DEF ReadStates, SizeFor, HeaderSize, StateSize
            <4> QED BY <1>1, <3>4, <4>2, <4>3
        <3>5. CASE n # 0 /\ "malloc" \notin failing
                   /\ "states" \notin failing /\ ~(file.size < SizeFor(n))
            <4>1. r = [count |-> n, array |-> file.states] BY <3>1, <3>5 DEF StatesRead
            <4>2. file.states # <<>> BY <3>5
            <4>3. answer = Status(file.states, h) BY <1>2, <4>1, <4>2
            <4>4. ReadStates(file) = file.states
                BY <1>0, <1>4, <3>5 DEF ReadStates, SizeFor, HeaderSize, StateSize
            <4> QED BY <4>3, <4>4
        <3> QED BY <3>2, <3>3, <3>4, <3>5
    <2> QED BY <2>2, <2>3
<1> QED BY <1>3, <1>4

\* The game reads a file written out in full as the application does.
LEMMA GameReadsWhole ==
    ASSUME NEW s \in PatchStates, s # <<>>, NEW h
    PROVE  GameAnswers(FileOf(s), h, {}) = {Status(s, h)}
<1> DEFINE f == FileOf(s)
           head == [valid |-> TRUE, count |-> Len(s)]
<1>1. Len(s) \in Nat /\ Len(s) # 0
    BY ArrayFacts, EmptySeq DEF PatchStates
<1>2. f.exists /\ f.size = SizeFor(Len(s)) /\ f.states = s BY DEF FileOf
<1>3. f.size \in Nat /\ f.size > HeaderSize
    BY <1>1, <1>2 DEF SizeFor, HeaderSize, StateSize
<1> HIDE DEF f
<1>4. ~HeaderIsCut(f) BY <1>3 DEF HeaderIsCut, HeaderSize
<1>5. HeadersRead(f) = {head} BY <1>2, <1>4 DEF HeadersRead
<1>6. StatesRead(f, head, {}) = [count |-> Len(s), array |-> s]
    BY <1>1, <1>2, <1>3 DEF StatesRead
<1>7. GameReads(f, {}) = {StatesRead(f, head, {})}
    <2>1. f.exists /\ f.size # 0 BY <1>2, <1>3 DEF HeaderSize
    <2>2. GameReads(f, {}) = {StatesRead(f, g, {} \cup refused) :
                                  g \in HeadersRead(f), refused \in {{}}}
        BY <1>4, <2>1 DEF GameReads
    <2>3. {} \cup {} = {} OBVIOUS
    <2> HIDE DEF head
    <2> QED BY <1>5, <2>2, <2>3
<1>8. GameAnswers(f, h, {}) = {Status(s, h)}
    <2> DEFINE r == [count |-> Len(s), array |-> s]
    <2>1. GameReads(f, {}) = {r} BY <1>6, <1>7
    <2>2. ~(r.array = <<>> /\ r.count # 0) /\ r.array = s OBVIOUS
    <2> HIDE DEF r
    <2> QED BY <2>1, <2>2 DEF GameAnswers
<1> QED BY <1>8 DEF f

\* A call that reports a value and whose fclose flushed has stored it
\* (ReportedIsStored), however the reads before it and the calls before that went,
\* and the game reads that value.
THEOREM ReportsAreStored == Spec => []ReportedIsStored
<1>1. Init => ReportedIsStored
    BY DEF Init, ReportedIsStored
<1>2. IInv /\ ReportedIsStored /\ [Next]_vars => ReportedIsStored'
    <2> SUFFICES ASSUME IInv, ReportedIsStored, [Next]_vars PROVE ReportedIsStored'
        OBVIOUS
    <2>1. ASSUME \E h \in Hash : Toggle(h) PROVE ReportedIsStored'
        BY <2>1 DEF Toggle, ReportedIsStored
    <2>2. CASE Reread \/ Open \/ Write
        BY <2>2 DEF Reread, Open, Write, ReportedIsStored
    <2>3. CASE OpenFails \/ WriteFails \/ Crash
        BY <2>3 DEF OpenFails, WriteFails, Crash, Return, ReportedIsStored
    <2>4. CASE Close
        <3>1. CASE flushed' = FALSE BY <3>1 DEF ReportedIsStored
        <3>2. CASE file' = FileOf(states)
            <4>1. /\ pc = "close" /\ UNCHANGED <<hash, target>>
                  /\ result' = Word(target)
                BY <2>4 DEF Close, Return, Word
            <4>2. states \in PatchStates /\ UniqueIn(states)
                BY DEF IInv, TypeOK, UniqueHashes
            <4>3. ReadStates(file') = states
                BY <3>2, <4>2, CutFacts
            <4>4. Status(states, hash) = Word(target)
                BY <4>1 DEF IInv, InCall
            <4>5. states # <<>> BY <4>4, StatusRange DEF Word
            <4>6. GameAnswers(file', hash', {}) = {Word(target)}
                BY <3>2, <4>1, <4>2, <4>4, <4>5, GameReadsWhole
            <4> QED BY <4>1, <4>3, <4>4, <4>6 DEF ReportedIsStored
        <3> QED BY <2>4, <3>1, <3>2 DEF Close
    <2>5. CASE UNCHANGED vars
        BY <2>5 DEF vars, ReportedIsStored
    <2> QED BY <2>1, <2>2, <2>3, <2>4, <2>5 DEF Next
<1> QED BY <1>1, <1>2, Invariance, PTL DEF Spec

\* Whatever bytes the faults left of the file and whatever fails while the game
\* reads them, its answer is the application's or has a cause of its own
\* (ReadersAgree).
THEOREM ReadersAlwaysAgree == Spec => []ReadersAgree
<1>1. TypeOK => ReadersAgree BY GameFacts DEF ReadersAgree
<1> QED BY <1>1, TypeCorrect, PTL
=============================================================================

-------------------------- MODULE LineReader_proofs --------------------------
(***************************************************************************)
(* The reader keeps its books for files and buffers of any size.           *)
(***************************************************************************)
EXTENDS LineReader, SequenceTheorems, FiniteSetTheorems, TLAPS

\* What the counters have to do with the position, in every state.
Books ==
    /\ file \in Seq(Byte)
    /\ pos \in 0 .. Len(file)
    /\ pc \in {"loop", "read", "done", "failed", "overrun"}
    /\ text \in Seq(Character)
    /\ isReturn \in BOOLEAN
    /\ bytesRead \in 0 .. pos
    /\ bytesWritten \in 0 .. pos
    /\ total \in 0 .. pos
    /\ PositionAccounted

LEMMA BooksInit == Init => Books
<1> SUFFICES ASSUME Init PROVE Books
    OBVIOUS
<1>1. file \in Seq(Byte)
    BY ReaderAssumption DEF Init
<1>2. Len(file) \in Nat
    BY <1>1, LenProperties
<1>3. text \in Seq(Character)
    BY EmptySeq DEF Init
<1>4. isReturn \in BOOLEAN
    BY DEF Init
<1>5. /\ pos = 0 /\ pc = "loop"
      /\ bytesRead = 0 /\ bytesWritten = 0 /\ total = 0
    BY DEF Init
<1> QED BY <1>1, <1>2, <1>3, <1>4, <1>5 DEF Books, PositionAccounted

LEMMA BooksStep == Books /\ [Next]_vars => Books'
<1> SUFFICES ASSUME Books, [Next]_vars PROVE Books'
    OBVIOUS
<1> USE DEF Books, PositionAccounted
<1>0. Len(file) \in Nat
    BY LenProperties
<1>1. CASE Call
    <2>1. text' \in Seq(Character) /\ isReturn' \in BOOLEAN
        BY <1>1, EmptySeq DEF Call
    <2>2. /\ pc = "loop" /\ pc' = "read"
          /\ bytesRead' = 0
          /\ UNCHANGED <<file, pos, bytesWritten, total>>
        BY <1>1 DEF Call
    <2> QED BY <1>0, <2>1, <2>2
<1>2. CASE LoopEnds
    BY <1>2 DEF LoopEnds
<1>3. CASE ReadFails
    BY <1>3 DEF ReadFails
<1>4. CASE ReadByte
    <2>1. /\ pc = "read" /\ pos < Len(file) /\ file' = file
          /\ pos' = pos + 1 /\ bytesRead' = bytesRead + 1
        BY <1>4 DEF ReadByte
    <2>2. file[pos + 1] \in Byte
        BY <2>1, ElementOfSeq
    <2>3. CASE file[pos + 1] = CR
        <3>1. isReturn' = TRUE /\ UNCHANGED <<pc, text, bytesWritten, total>>
            BY <1>4, <2>3 DEF ReadByte, CR, LF
        <3> QED BY <1>0, <2>1, <3>1
    <2>4. CASE file[pos + 1] = LF
        <3>1. Return(bytesRead + 1) /\ UNCHANGED <<text, isReturn, bytesWritten>>
            BY <1>4, <2>4 DEF ReadByte, CR, LF
        <3>2. pc' = "loop" /\ total' = total + bytesRead + 1
            BY <3>1 DEF Return
        <3> QED BY <1>0, <2>1, <3>1, <3>2
    <2>5. CASE file[pos + 1] \in Character
        <3>1. /\ text' = Append(text, file[pos + 1])
              /\ isReturn' = FALSE
              /\ bytesWritten' = bytesWritten + 1
              /\ UNCHANGED <<pc, total>>
            BY <1>4, <2>5 DEF ReadByte, Character
        <3>2. text' \in Seq(Character)
            BY <2>5, <3>1, AppendProperties
        <3>3. isReturn' \in BOOLEAN
            BY <3>1
        <3>4. bytesWritten' = bytesWritten + 1 /\ UNCHANGED <<pc, total>>
            BY <3>1
        <3> QED BY <1>0, <2>1, <3>2, <3>3, <3>4
    <2> QED BY <2>2, <2>3, <2>4, <2>5 DEF Character
<1>5. CASE ReadEof
    <2>1. CASE isReturn /\ UNCHANGED <<pc, total>>
        BY <1>5, <2>1 DEF ReadEof
    <2>2. CASE Return(bytesRead)
        BY <1>5, <2>2 DEF ReadEof, Return
    <2> QED BY <1>5, <2>1, <2>2 DEF ReadEof
<1>6. CASE Overrun
    BY <1>6 DEF Overrun
<1>7. CASE UNCHANGED vars
    BY <1>7 DEF vars
<1> QED BY <1>1, <1>2, <1>3, <1>4, <1>5, <1>6, <1>7 DEF Next, Progress

\* The counters of the loop and of fileReadLine stay within the file.
THEOREM TypeCorrect == Spec => []TypeOK
<1>1. Books => TypeOK
    BY DEF Books, TypeOK
<1> QED BY <1>1, BooksInit, BooksStep, PTL DEF Spec

\* The sum of the bytes read is the position in the file (PositionAccounted), so
\* the loop stops exactly at the end of a file of any size.
THEOREM CountIsPosition == Spec => []PositionAccounted
<1>1. Books => PositionAccounted
    BY DEF Books
<1> QED BY <1>1, BooksInit, BooksStep, PTL DEF Spec

-----------------------------------------------------------------------------
(***************************************************************************)
(* Which lines are handed over.                                            *)
(***************************************************************************)

\* A place behind all others takes the next rank and leaves theirs.
LEMMA LastRank ==
    ASSUME NEW S \in SUBSET Nat, IsFiniteSet(S), NEW n \in Nat, \A x \in S : x < n
    PROVE  /\ Cardinality(S \cup {n}) = Cardinality(S) + 1
           /\ Rank(S \cup {n}, n) = Cardinality(S) + 1
           /\ \A x \in S : Rank(S \cup {n}, x) = Rank(S, x)
<1>1. n \notin S
    OBVIOUS
<1>2. Cardinality(S \cup {n}) = Cardinality(S) + 1
    BY <1>1, FS_AddElement
<1>3. {y \in S \cup {n} : y <= n} = S \cup {n}
    <2>1. \A y \in S \cup {n} : y <= n
        OBVIOUS
    <2> QED BY <2>1
<1>4. \A x \in S : {y \in S \cup {n} : y <= x} = {y \in S : y <= x}
    OBVIOUS
<1> QED BY <1>2, <1>3, <1>4 DEF Rank

\* The ranks of a finite set of places go from 1 to its size.
LEMMA RankBounds ==
    ASSUME NEW S \in SUBSET Nat, IsFiniteSet(S), NEW x \in S
    PROVE  /\ Cardinality(S) \in Nat
           /\ Rank(S, x) \in 1 .. Cardinality(S)
           /\ \A y \in S : y < x => Rank(S, y) < Rank(S, x)
<1> DEFINE upTo(y) == {z \in S : z <= y}
<1>1. \A y : IsFiniteSet(upTo(y)) /\ Cardinality(upTo(y)) \in Nat
             /\ Cardinality(upTo(y)) <= Cardinality(S)
    BY FS_Subset, FS_CardinalityType
<1>2. Cardinality(S) \in Nat
    BY FS_CardinalityType
<1>3. Cardinality(upTo(x)) # 0
    <2>1. x \in upTo(x)
        OBVIOUS
    <2> QED BY <1>1, <2>1, FS_EmptySet
<1>4. ASSUME NEW y \in S, y < x PROVE Cardinality(upTo(y)) < Cardinality(upTo(x))
    <2>1. upTo(y) \subseteq upTo(x) /\ x \notin upTo(y) /\ x \in upTo(x)
        <3>1. \A z \in S : z <= y => z <= x
            BY <1>4
        <3>2. ~(x <= y) /\ x <= x
            BY <1>4
        <3>3. upTo(y) \subseteq upTo(x)
            BY <3>1
        <3> QED BY <3>2, <3>3
    <2>2. /\ Cardinality(upTo(y)) <= Cardinality(upTo(x))
          /\ Cardinality(upTo(y)) = Cardinality(upTo(x)) => upTo(y) = upTo(x)
        BY <1>1, <2>1, FS_Subset
    <2>3. Cardinality(upTo(y)) # Cardinality(upTo(x))
        BY <2>1, <2>2
    <2> HIDE DEF upTo
    <2> QED BY <1>1, <2>2, <2>3
<1>5. Rank(S, x) = Cardinality(upTo(x)) /\ \A y : Rank(S, y) = Cardinality(upTo(y))
    BY DEF Rank
<1> HIDE DEF upTo
<1>6. Cardinality(upTo(x)) \in 1 .. Cardinality(S)
    BY <1>1, <1>2, <1>3
<1> QED BY <1>2, <1>4, <1>5, <1>6

\* One more byte behind a line that spells the places before it.
LEMMA SpellsMore ==
    ASSUME NEW line \in Seq(Character), NEW S \in SUBSET Nat, IsFiniteSet(S),
           Spells(line, S), NEW n \in Nat, \A x \in S : x < n, file[n] \in Character
    PROVE  Spells(Append(line, file[n]), S \cup {n})
<1>1. /\ Cardinality(S \cup {n}) = Cardinality(S) + 1
      /\ Rank(S \cup {n}, n) = Cardinality(S) + 1
      /\ \A x \in S : Rank(S \cup {n}, x) = Rank(S, x)
    BY LastRank
<1>2. Len(line) = Cardinality(S) /\ \A i \in S : line[Rank(S, i)] = file[i]
    BY DEF Spells
<1>3. \A i \in S : Rank(S, i) \in 1 .. Len(line)
    BY <1>2, RankBounds
<1>4. /\ Len(Append(line, file[n])) = Len(line) + 1
      /\ Append(line, file[n])[Len(line) + 1] = file[n]
      /\ \A k \in 1 .. Len(line) : Append(line, file[n])[k] = line[k]
    BY AppendProperties
<1> QED BY <1>1, <1>2, <1>3, <1>4 DEF Spells

LEMMA NothingSpelled == Spells(<<>>, {})
BY FS_EmptySet DEF Spells

\* The ends of the lines of a file.
LEMMA EndsOfLines ==
    ASSUME file \in Seq(Byte)
    PROVE  /\ Len(file) \in Nat
           /\ LineEnds \in SUBSET (1 .. Len(file))
           /\ IsFiniteSet(LineEnds)
           /\ Len(file) # 0 => Len(file) \in LineEnds
<1>1. Len(file) \in Nat /\ DOMAIN file = 1 .. Len(file)
    BY LenProperties
<1>2. LineEnds \in SUBSET (1 .. Len(file))
    BY <1>1 DEF LineEnds
<1>3. IsFiniteSet(LineEnds)
    <2>1. IsFiniteSet(1 .. Len(file))
        BY <1>1, FS_Interval
    <2> QED BY <1>2, <2>1, FS_Subset
<1> QED BY <1>1, <1>2, <1>3 DEF LineEnds

\* The places of characters in a stretch of the file.
Characters(s, e) == {i \in s + 1 .. e : file[i] \in Character}

LEMMA CharactersFinite ==
    ASSUME NEW s \in Nat, NEW e \in Nat
    PROVE  Characters(s, e) \in SUBSET Nat /\ IsFiniteSet(Characters(s, e))
<1>1. IsFiniteSet(s + 1 .. e)
    BY FS_Interval
<1>2. Characters(s, e) \subseteq s + 1 .. e
    BY DEF Characters
<1> QED BY <1>1, <1>2, FS_Subset

\* Where the line that begins behind total ends, if nothing up to pos ends it.
LEMMA LineBehind ==
    ASSUME file \in Seq(Byte), NEW t \in Nat, t = 0 \/ t \in LineEnds,
           NEW e \in LineEnds, t < e, \A x \in LineEnds : t < x => e <= x
    PROVE  /\ TextOfLine(e) = Characters(t, e)
           /\ Rank(LineEnds, e) = Rank(LineEnds, t) + 1
<1>1. LineEnds \in SUBSET Nat /\ IsFiniteSet(LineEnds) /\ e \in Nat
    BY EndsOfLines
<1>2. ASSUME NEW i \in 1 .. e
      PROVE  (\A x \in LineEnds : x < e => x < i) <=> i \in t + 1 .. e
    <2>1. \A x \in LineEnds : x < e => x <= t
        BY <1>1
    <2>2. t \in LineEnds /\ (\A x \in LineEnds : x < e => x < i) => t < i
        OBVIOUS
    <2>3. t < i => \A x \in LineEnds : x < e => x < i
        BY <1>1, <2>1
    <2> QED BY <1>1, <2>2, <2>3
<1>3. TextOfLine(e) = Characters(t, e)
    <2>1. t + 1 .. e \subseteq 1 .. e
        BY <1>1
    <2> QED BY <1>2, <2>1 DEF TextOfLine, Characters
<1> DEFINE before == {y \in LineEnds : y <= t}
<1>4. {y \in LineEnds : y <= e} = before \cup {e} /\ e \notin before
    <2>1. \A y \in LineEnds : y <= e <=> y <= t \/ y = e
        BY <1>1
    <2>2. ~(e <= t)
        BY <1>1
    <2> QED BY <2>1, <2>2
<1>5. IsFiniteSet(before)
    BY <1>1, FS_Subset
<1>6. Cardinality(before \cup {e}) = Cardinality(before) + 1
    BY <1>4, <1>5, FS_AddElement
<1> QED BY <1>3, <1>4, <1>6 DEF Rank

-----------------------------------------------------------------------------
\* Where the loop stands: total ends a line, the lines up to there are handed over,
\* and text holds what was read of the next.
Standing ==
    /\ total = 0 \/ total \in LineEnds
    /\ lines \in Seq(Seq(Character))
    /\ Len(lines) = Rank(LineEnds, total)
    /\ \A e \in LineEnds : e <= total => IsLine(lines[Rank(LineEnds, e)], e)
    /\ pc = "done" => total = Len(file)

\* How the line under way goes on: no end of a line was passed, and without an
\* overrun the text is what stands between.
UnderWay ==
    pc = "read" =>
        /\ total < Len(file)
        /\ Spells(text, Characters(total, pos))
        /\ \A i \in total + 1 .. pos : file[i] # LF

CutInv == Books /\ Standing /\ UnderWay

LEMMA CutInit == Init => CutInv
<1> SUFFICES ASSUME Init PROVE CutInv
    OBVIOUS
<1>1. Books
    BY BooksInit
<1>2. file \in Seq(Byte) /\ total = 0 /\ lines = <<>> /\ pc = "loop"
    BY <1>1 DEF Init, Books
<1>3. \A e \in LineEnds : ~(e <= 0)
    BY <1>2, EndsOfLines
<1>4. Rank(LineEnds, 0) = 0
    <2>1. {y \in LineEnds : y <= 0} = {}
        BY <1>3
    <2> QED BY <2>1, FS_EmptySet DEF Rank
<1>5. lines \in Seq(Seq(Character)) /\ Len(lines) = 0
    BY <1>2
<1> QED BY <1>1, <1>2, <1>3, <1>4, <1>5 DEF CutInv, Standing, UnderWay

\* The file does not change, and so do its lines.
LEMMA FileStays ==
    ASSUME file' = file
    PROVE  /\ LineEnds' = LineEnds
           /\ \A line, e : IsLine(line, e)' = IsLine(line, e)
           /\ \A line, S : Spells(line, S)' = Spells(line, S)
           /\ \A s, e : Characters(s, e)' = Characters(s, e)
<1>1. LineEnds' = LineEnds
    BY DEF LineEnds
<1>2. \A line, e : IsLine(line, e)' = IsLine(line, e)
    BY <1>1 DEF IsLine, Spells, TextOfLine, Rank, LineEnds
<1>3. \A line, S : Spells(line, S)' = Spells(line, S)
    BY DEF Spells, Rank
<1>4. \A s, e : Characters(s, e)' = Characters(s, e)
    BY DEF Characters
<1> QED BY <1>1, <1>2, <1>3, <1>4

\* A line is handed over when its end is reached.
LEMMA HandedOver ==
    ASSUME CutInv, pc = "read", NEW e \in LineEnds, total < e,
           \A x \in LineEnds : total < x => e <= x,
           Spells(text, Characters(total, e)),
           pc' = "loop", total' = e, lines' = Append(lines, text), file' = file
    PROVE  Standing'
<1>1. /\ file \in Seq(Byte) /\ total \in Nat /\ text \in Seq(Character)
      /\ lines \in Seq(Seq(Character)) /\ Len(lines) = Rank(LineEnds, total)
      /\ \A x \in LineEnds : x <= total => IsLine(lines[Rank(LineEnds, x)], x)
      /\ total = 0 \/ total \in LineEnds
    <2>1. Len(file) \in Nat
        BY LenProperties DEF CutInv, Books
    <2> QED BY <2>1 DEF CutInv, Books, Standing
<1>2. TextOfLine(e) = Characters(total, e) /\ Rank(LineEnds, e) = Rank(LineEnds, total) + 1
    BY <1>1, LineBehind
<1>3. LineEnds \in SUBSET Nat /\ IsFiniteSet(LineEnds) /\ e \in Nat
    BY <1>1, EndsOfLines
<1>4. /\ lines' \in Seq(Seq(Character))
      /\ Len(lines') = Len(lines) + 1
      /\ lines'[Len(lines) + 1] = text
      /\ \A k \in 1 .. Len(lines) : lines'[k] = lines[k]
    BY <1>1, AppendProperties
<1>5. IsLine(lines'[Rank(LineEnds, e)], e)
    BY <1>1, <1>2, <1>4 DEF IsLine
<1>6. ASSUME NEW x \in LineEnds, x <= total PROVE IsLine(lines'[Rank(LineEnds, x)], x)
    <2>1. total \in LineEnds
        BY <1>1, <1>6, EndsOfLines
    <2>2. Rank(LineEnds, x) \in 1 .. Len(lines)
        <3>1. Rank(LineEnds, x) \in Nat \ {0} /\ Rank(LineEnds, total) \in Nat
            BY <1>3, <2>1, RankBounds
        <3>2. x # total => Rank(LineEnds, x) < Rank(LineEnds, total)
            BY <1>1, <1>3, <1>6, <2>1, RankBounds
        <3> QED BY <1>1, <3>1, <3>2
    <2> QED BY <1>1, <1>4, <1>6, <2>2
<1>7. \A x \in LineEnds : x <= e => x <= total \/ x = e
    BY <1>1, <1>3
<1>8. LineEnds' = LineEnds /\ \A line, x : IsLine(line, x)' = IsLine(line, x)
    BY FileStays
<1> QED BY <1>1, <1>2, <1>4, <1>5, <1>6, <1>7, <1>8 DEF Standing

\* What the invariant says of the state in which a byte is read.
LEMMA Reading ==
    ASSUME CutInv, pc = "read"
    PROVE  /\ file \in Seq(Byte) /\ Len(file) \in Nat
           /\ pos \in 0 .. Len(file) /\ total \in 0 .. pos /\ bytesRead \in Nat
           /\ total + bytesRead = pos /\ total < Len(file)
           /\ text \in Seq(Character) /\ Spells(text, Characters(total, pos))
           /\ \A x \in LineEnds : total < x => pos < x \/ x = Len(file)
<1>1. /\ file \in Seq(Byte) /\ Len(file) \in Nat
      /\ pos \in 0 .. Len(file) /\ total \in 0 .. pos /\ bytesRead \in 0 .. pos
      /\ total + bytesRead = pos /\ text \in Seq(Character)
    BY LenProperties DEF CutInv, Books, PositionAccounted
<1>2. /\ total < Len(file) /\ Spells(text, Characters(total, pos))
      /\ \A i \in total + 1 .. pos : file[i] # LF
    BY DEF CutInv, UnderWay
<1>3. ASSUME NEW x \in LineEnds, total < x, x # Len(file) PROVE pos < x
    <2>1. x \in Nat /\ file[x] = LF
        BY <1>1, <1>3 DEF LineEnds
    <2>2. x \notin total + 1 .. pos
        BY <1>2, <2>1
    <2> QED BY <1>1, <1>3, <2>1, <2>2
<1> QED BY <1>1, <1>2, <1>3

\* As long as no line is handed over, nothing changes about those that were.
LEMMA StandingKept ==
    ASSUME Standing, UNCHANGED <<file, total, lines>>, pc' # "done"
    PROVE  Standing'
BY FileStays DEF Standing

LEMMA ReadByteCuts ==
    ASSUME CutInv, ReadByte, Books'
    PROVE  CutInv'
<1>1. /\ pc = "read" /\ pos < Len(file) /\ file' = file
      /\ pos' = pos + 1 /\ bytesRead' = bytesRead + 1
    BY DEF ReadByte
<1> DEFINE n == pos + 1
<1>2. /\ file \in Seq(Byte) /\ Len(file) \in Nat
      /\ pos \in 0 .. Len(file) /\ total \in 0 .. pos /\ bytesRead \in Nat
      /\ total + bytesRead = pos /\ total < Len(file)
      /\ text \in Seq(Character) /\ Spells(text, Characters(total, pos))
      /\ \A x \in LineEnds : total < x => pos < x \/ x = Len(file)
    BY <1>1, Reading
<1>3. n \in 1 .. Len(file) /\ file[n] \in Byte
    BY <1>1, <1>2, ElementOfSeq
<1>4. \A i \in total + 1 .. pos : file[i] # LF
    BY <1>1 DEF CutInv, UnderWay
<1>5. Standing
    BY DEF CutInv
<1>6. \A i \in total + 1 .. n : i \in total + 1 .. pos \/ i = n
    BY <1>2
<1>7. /\ file[n] \notin Character => Characters(total, n) = Characters(total, pos)
      /\ file[n] \in Character => Characters(total, n) = Characters(total, pos) \cup {n}
    <2>1. total + 1 .. n = (total + 1 .. pos) \cup {n}
        BY <1>2
    <2> QED BY <2>1 DEF Characters
<1>8. CASE file[n] = CR
    <2>1. isReturn' = TRUE /\ UNCHANGED <<pc, text, total, lines>>
        BY <1>8 DEF ReadByte, CR, LF
    <2>2. Standing'
        BY <1>1, <1>5, <2>1, StandingKept
    <2>3. file[n] # LF /\ file[n] \notin Character
        BY <1>8 DEF CR, LF, Character
    <2>4. Spells(text, Characters(total, pos))'
        BY <1>1, <1>2, <1>7, <2>1, <2>3, FileStays
    <2>5. UnderWay'
        BY <1>1, <1>2, <1>4, <1>6, <2>1, <2>3, <2>4 DEF UnderWay
    <2> QED BY <2>2, <2>5 DEF CutInv
<1>9. CASE file[n] = LF
    <2>1. Return(bytesRead + 1) /\ UNCHANGED <<text, isReturn, bytesWritten>>
        BY <1>9 DEF ReadByte, CR, LF
    <2>2. /\ pc' = "loop" /\ total' = total + (bytesRead + 1) /\ lines' = Append(lines, text)
        BY <1>2, <2>1 DEF Return
    <2>3. total' = n
        BY <1>2, <2>2
    <2>4. n \in LineEnds /\ total < n
        BY <1>2, <1>3, <1>9, LenProperties DEF LineEnds
    <2>5. \A x \in LineEnds : total < x => n <= x
        BY <1>1, <1>2, EndsOfLines
    <2>6. Spells(text, Characters(total, n))
        BY <1>2, <1>7, <1>9 DEF Character
    <2>7. Standing'
        BY <1>1, <2>2, <2>3, <2>4, <2>5, <2>6, HandedOver
    <2>8. UnderWay'
        BY <2>2 DEF UnderWay
    <2> QED BY <2>7, <2>8 DEF CutInv
<1>10. CASE file[n] \in Character
    <2>1. text' = Append(text, file[n]) /\ UNCHANGED <<pc, total, lines>>
        BY <1>10 DEF ReadByte, Character
    <2>2. Standing'
        BY <1>1, <1>5, <2>1, StandingKept
    <2>3. Spells(Append(text, file[n]), Characters(total, pos) \cup {n})
        <3>1. /\ Characters(total, pos) \in SUBSET Nat /\ IsFiniteSet(Characters(total, pos))
            BY <1>2, CharactersFinite
        <3>2. \A x \in Characters(total, pos) : x < n
            BY <1>2 DEF Characters
        <3>3. n \in Nat
            BY <1>2
        <3> HIDE DEF n
        <3> QED BY <1>2, <1>10, <3>1, <3>2, <3>3, SpellsMore
    <2>4. Spells(text, Characters(total, pos))'
        BY <1>1, <1>7, <1>10, <2>1, <2>3, FileStays
    <2>5. file[n] # LF
        BY <1>10 DEF Character
    <2>6. UnderWay'
        BY <1>1, <1>2, <1>4, <1>6, <2>1, <2>4, <2>5 DEF UnderWay
    <2> QED BY <2>2, <2>6 DEF CutInv
<1> QED BY <1>3, <1>8, <1>9, <1>10 DEF Character

LEMMA CutStep == CutInv /\ [Next]_vars => CutInv'
<1> SUFFICES ASSUME CutInv, [Next]_vars PROVE CutInv'
    OBVIOUS
<1>0. Books' /\ Books /\ Standing /\ UnderWay
    BY BooksStep DEF CutInv
<1>1. CASE Call
    <2>1. /\ pc = "loop" /\ pc' = "read" /\ total < Len(file) /\ text' = <<>>
          /\ UNCHANGED <<file, pos, total, lines>>
        BY <1>1 DEF Call
    <2>2. total = pos /\ pos \in Nat
        <3>1. Len(file) \in Nat
            BY <1>0, LenProperties DEF Books
        <3> QED BY <1>0, <2>1, <3>1 DEF Books, PositionAccounted
    <2>3. (total + 1 .. pos)' = {}
        BY <2>1, <2>2
    <2>4. Characters(total, pos)' = {}
        BY <2>3 DEF Characters
    <2>5. Spells(text, Characters(total, pos))'
        BY <2>1, <2>4, FS_EmptySet DEF Spells
    <2>6. UnderWay'
        BY <2>1, <2>3, <2>5 DEF UnderWay
    <2> QED BY <1>0, <2>1, <2>6, StandingKept DEF CutInv
<1>2. CASE LoopEnds
    <2>1. /\ total >= Len(file) /\ pc' = "done"
          /\ UNCHANGED <<file, pos, total, lines>>
        BY <1>2 DEF LoopEnds
    <2>2. total = Len(file)
        <3>1. Len(file) \in Nat
            BY <1>0, LenProperties DEF Books
        <3> QED BY <1>0, <2>1, <3>1 DEF Books
    <2>3. Standing'
        BY <1>0, <2>1, <2>2, FileStays DEF Standing
    <2> QED BY <1>0, <2>1, <2>3 DEF CutInv, UnderWay
<1>3. CASE ReadFails
    BY <1>0, <1>3, StandingKept DEF ReadFails, CutInv, UnderWay
<1>4. CASE ReadByte
    BY <1>0, <1>4, ReadByteCuts
<1>5. CASE ReadEof
    <2>1. /\ pc = "read" /\ pos = Len(file) /\ UNCHANGED <<file, pos, text, isReturn>>
        BY <1>5 DEF ReadEof
    <2>2. CASE UNCHANGED <<pc, total, lines>>
        BY <1>0, <2>1, <2>2, StandingKept, FileStays DEF CutInv, UnderWay
    <2>3. CASE Return(bytesRead)
        <3>1. /\ file \in Seq(Byte) /\ Len(file) \in Nat /\ bytesRead \in Nat /\ total \in Nat
              /\ total + bytesRead = Len(file) /\ total < Len(file)
              /\ Spells(text, Characters(total, Len(file)))
              /\ \A x \in LineEnds : total < x => pos < x \/ x = Len(file)
            BY <2>1, Reading
        <3>5. \A x \in LineEnds : total < x => Len(file) <= x
            BY <2>1, <3>1, EndsOfLines
        <3>2. /\ pc' = "loop" /\ total' = Len(file) /\ lines' = Append(lines, text)
            BY <2>3, <3>1 DEF Return
        <3>3. Len(file) \in LineEnds
            BY <3>1, EndsOfLines
        <3>4. Standing'
            BY <2>1, <3>1, <3>2, <3>3, <3>5, HandedOver
        <3> QED BY <1>0, <3>2, <3>4 DEF CutInv, UnderWay
    <2> QED BY <1>5, <2>2, <2>3 DEF ReadEof
<1>6. CASE Overrun
    BY <1>0, <1>6, StandingKept DEF Overrun, CutInv, UnderWay
<1>7. CASE UNCHANGED vars
    <2>1. UNCHANGED <<file, pos, pc, text, total, lines>>
        BY <1>7 DEF vars
    <2>2. Standing'
        BY <1>0, <2>1, FileStays DEF Standing
    <2>3. UnderWay'
        BY <1>0, <2>1, FileStays DEF UnderWay
    <2> QED BY <1>0, <2>2, <2>3 DEF CutInv
<1> QED BY <1>1, <1>2, <1>3, <1>4, <1>5, <1>6, <1>7 DEF Next, Progress

\* The lines handed over are those of the file, for files of any bytes and any length,
\* whatever lines are longer than the buffer, until the reader leaves it.
THEOREM LinesAreAlwaysTheFile == Spec => []LinesAreTheFile
<1>1. CutInv => LinesAreTheFile
    <2> SUFFICES ASSUME CutInv PROVE LinesAreTheFile
        OBVIOUS
    <2>1. /\ file \in Seq(Byte) /\ total \in Nat
          /\ Len(lines) = Rank(LineEnds, total)
          /\ pc = "done" => total = Len(file)
          /\ total = 0 \/ total \in LineEnds
          /\ \A e \in LineEnds : e <= total => IsLine(lines[Rank(LineEnds, e)], e)
        BY LenProperties DEF CutInv, Books, Standing
    <2>2. /\ LineEnds \in SUBSET Nat /\ IsFiniteSet(LineEnds) /\ Len(file) \in Nat
          /\ \A e \in LineEnds : e \in Nat /\ ~(e <= 0) /\ e <= Len(file)
        BY <2>1, EndsOfLines
    <2>3. Rank(LineEnds, total) <= Cardinality(LineEnds)
        BY <2>2, FS_Subset DEF Rank
    <2>4. ASSUME NEW e \in LineEnds, Rank(LineEnds, e) <= Len(lines)
          PROVE  IsLine(lines[Rank(LineEnds, e)], e)
        <3>1. Rank(LineEnds, e) \in Nat \ {0}
            BY <2>2, RankBounds
        <3>2. total \in LineEnds
            <4>1. {y \in LineEnds : y <= 0} = {}
                BY <2>2
            <4>2. Rank(LineEnds, 0) = 0
                BY <4>1, FS_EmptySet DEF Rank
            <4> QED BY <2>1, <2>4, <3>1, <4>2
        <3>3. Rank(LineEnds, total) \in Nat /\ (total < e => Rank(LineEnds, total) < Rank(LineEnds, e))
            BY <2>1, <2>2, <3>2, RankBounds
        <3>4. ~(total < e)
            BY <2>1, <2>4, <3>1, <3>3
        <3>5. e <= total
            BY <2>1, <2>2, <3>4
        <3> QED BY <2>1, <3>5
    <2>5. total = Len(file) => Len(lines) = Cardinality(LineEnds)
        <3>1. total = Len(file) => {y \in LineEnds : y <= total} = LineEnds
            BY <2>2
        <3>2. Len(lines) = Cardinality({y \in LineEnds : y <= total})
            BY <2>1 DEF Rank
        <3> QED BY <3>1, <3>2
    <2> QED BY <2>1, <2>3, <2>4, <2>5 DEF LinesAreTheFile
<1> QED BY <1>1, CutInit, CutStep, PTL DEF Spec

-----------------------------------------------------------------------------
\* Every set of numbers has a least element.
LEMMA Least ==
    ASSUME NEW T \in SUBSET Nat, T # {}
    PROVE  \E x \in T : \A y \in T : x <= y
<1>1. IsWellFoundedOn(OpToRel(<, Nat), Nat)
    BY NatLessThanWellFounded
<1>2. PICK x \in T : \A y \in T : ~(<<y, x>> \in OpToRel(<, Nat))
    BY <1>1, WFMin
<1>3. \A y \in T : ~(y < x)
    BY <1>2 DEF OpToRel
<1>4. x \in Nat /\ \A y \in T : y \in Nat
    OBVIOUS
<1> QED BY <1>3, <1>4

\* While a line that fits is read there is room for its end of string.
LEMMA RoomIsLeft ==
    ASSUME CutInv, pc = "read", LinesFit
    PROVE  ~Overrun
<1>1. /\ file \in Seq(Byte) /\ Len(file) \in Nat
      /\ pos \in 0 .. Len(file) /\ total \in 0 .. pos /\ total < Len(file)
      /\ text \in Seq(Character) /\ Spells(text, Characters(total, pos))
      /\ \A x \in LineEnds : total < x => pos < x \/ x = Len(file)
    BY Reading
<1>2. LineEnds \in SUBSET (1 .. Len(file)) /\ Len(file) \in LineEnds
    BY <1>1, EndsOfLines
<1>3. PICK e \in {x \in LineEnds : total < x} : \A x \in LineEnds : total < x => e <= x
    <2> DEFINE T == {x \in LineEnds : total < x}
    <2>1. T \in SUBSET Nat
        <3>1. \A x \in LineEnds : x \in Nat
            BY <1>1, <1>2
        <3> QED BY <3>1
    <2>2. Len(file) \in T
        BY <1>1, <1>2
    <2>3. \E x \in T : \A y \in T : x <= y
        <3> HIDE DEF T
        <3> QED BY <2>1, <2>2, Least
    <2> QED BY <2>3
<1>4. total = 0 \/ total \in LineEnds
    BY DEF CutInv, Standing
<1>5. TextOfLine(e) = Characters(total, e)
    BY <1>1, <1>3, <1>4, LineBehind
<1>6. Len(text) = Cardinality(Characters(total, pos))
    BY <1>1 DEF Spells
<1>7. e \in Nat /\ pos <= e
    BY <1>1, <1>2, <1>3
<1>8. /\ Cardinality(Characters(total, pos)) \in Nat
      /\ Cardinality(Characters(total, e)) \in Nat
      /\ Cardinality(Characters(total, pos)) <= Cardinality(Characters(total, e))
    <2>1. Characters(total, pos) \subseteq Characters(total, e)
        BY <1>1, <1>7 DEF Characters
    <2>2. IsFiniteSet(Characters(total, e)) /\ IsFiniteSet(Characters(total, pos))
        BY <1>1, <1>7, CharactersFinite
    <2> QED BY <2>1, <2>2, FS_Subset, FS_CardinalityType
<1>9. Cardinality(TextOfLine(e)) + (IF file[e] = LF THEN 1 ELSE 2) <= BufferSize
    BY <1>3 DEF LinesFit
<1>10. Len(text) < BufferSize
    BY <1>5, <1>6, <1>8, <1>9, ReaderAssumption
<1>11. ASSUME pos = Len(file) PROVE Len(text) + 1 < BufferSize
    <2>1. e = Len(file)
        BY <1>1, <1>2, <1>3, <1>11
    <2>2. file[e] # LF
        BY <1>1, <1>11, <2>1 DEF CutInv, UnderWay
    <2> QED BY <1>5, <1>6, <1>8, <1>9, <2>2, ReaderAssumption
<1>12. Len(text) \in Nat /\ BufferSize \in Nat
    BY <1>1, LenProperties, ReaderAssumption
<1> QED BY <1>10, <1>11, <1>12 DEF Overrun

\* The unchecked cursor stays inside a buffer of any size as long as the lines of the
\* file fit, which holds for every file and every pattern of returns.
THEOREM FittingLinesAlwaysStayInside == Spec => []FittingLinesStayInside
<1> DEFINE Inv == CutInv /\ FittingLinesStayInside
<1>1. Init => Inv
    BY CutInit DEF Init, FittingLinesStayInside
<1>2. Inv /\ [Next]_vars => Inv'
    <2> SUFFICES ASSUME Inv, [Next]_vars PROVE FittingLinesStayInside'
        BY CutStep
    <2>1. file' = file
        BY DEF Next, Progress, vars, Call, LoopEnds, ReadFails, ReadByte, ReadEof, Overrun
    <2>2. LinesFit' = LinesFit
        BY <2>1 DEF LinesFit, LineEnds, TextOfLine
    <2>3. CASE Overrun
        <3>1. pc = "read"
            BY <2>3 DEF Overrun
        <3> QED BY <2>2, <2>3, <3>1, RoomIsLeft DEF FittingLinesStayInside
    <2>4. CASE UNCHANGED pc
        BY <2>2, <2>4 DEF FittingLinesStayInside
    <2>5. CASE pc' # "overrun"
        BY <2>5 DEF FittingLinesStayInside
    <2>6. Overrun \/ UNCHANGED pc \/ pc' # "overrun"
        BY DEF Next, Progress, vars, Call, LoopEnds, ReadFails, ReadByte, ReadEof, Return, Overrun
    <2> QED BY <2>3, <2>4, <2>5, <2>6
<1>3. Inv => FittingLinesStayInside
    OBVIOUS
<1> QED BY <1>1, <1>2, <1>3, PTL DEF Spec
=============================================================================

------------------------------ MODULE LineReader ------------------------------
(***************************************************************************)
(* How the plugin reads its text files: fileReadLine of game_patch/lib/    *)
(* file.c, one byte per fileRead, and the loop around it that              *)
(* parse_patch_file, parse_patch_file_low_mem and parse_plugin share: it   *)
(* zeroes line, reads one line into it, adds up the bytes read until they  *)
(* are the size of the file, and hands every line to process_line.         *)
(*                                                                         *)
(* A byte is its number: CR, LF, or an ordinary character.                  *)
(***************************************************************************)
EXTENDS Naturals, Sequences, FiniteSets, SequencesExt

CONSTANTS
    Files,       \* the files that may be read
    BufferSize,  \* sizeof(line)
    ReadFaults   \* fileRead may fail

CR == 13
LF == 10
Byte == 0 .. 255
Character == Byte \ {CR, LF}

ASSUME ReaderAssumption ==
    /\ Files \subseteq Seq(Byte)
    /\ BufferSize \in Nat \ {0}
    /\ ReadFaults \in BOOLEAN

VARIABLES
    file,          \* the bytes of the file; the reader does not change them
    pos,           \* the position of the handle
    pc,            \* "loop", "read", "done", "failed" (a read did), or
                   \* "overrun": outside of line
    text,          \* line[0 .. bufferCursor - 1]
    isReturn,      \* *bufferCursor holds a '\r' just read, else it is 0
    bytesRead,     \* bufread
    bytesWritten,  \* bufread2
    total,         \* bufread_add
    lines          \* history: the lines given to process_line

vars == <<file, pos, pc, text, isReturn, bytesRead, bytesWritten, total, lines>>

Init ==
    /\ file \in Files
    /\ pos = 0
    /\ pc = "loop"
    /\ text = <<>> /\ isReturn = FALSE
    /\ bytesRead = 0 /\ bytesWritten = 0 /\ total = 0
    /\ lines = <<>>

\* Mutant: *bytesRead is cleared no more than *bytesWritten is.
CallKeepsCount ==
    /\ pc = "loop" /\ total < Len(file)
    /\ pc' = "read"
    /\ text' = <<>> /\ isReturn' = FALSE
    /\ UNCHANGED <<file, pos, bytesRead, bytesWritten, total, lines>>

\* Mutant: bufferCursor is not set back to the start of line.
CallKeepsCursor ==
    /\ pc = "loop" /\ total < Len(file)
    /\ pc' = "read"
    /\ bytesRead' = 0
    /\ UNCHANGED <<file, pos, text, isReturn, bytesWritten, total, lines>>

\* The loop goes round: line is zeroed and fileReadLine clears *bytesRead, but
\* not *bytesWritten.
Call ==
    /\ pc = "loop" /\ total < Len(file)
    /\ pc' = "read"
    /\ text' = <<>> /\ isReturn' = FALSE
    /\ bytesRead' = 0
    /\ UNCHANGED <<file, pos, bytesWritten, total, lines>>

LoopEnds ==
    /\ pc = "loop" /\ total >= Len(file)
    /\ pc' = "done"
    /\ UNCHANGED <<file, pos, text, isReturn, bytesRead, bytesWritten, total, lines>>

\* fileReadLine returns and the caller takes the line; one that came from no
\* byte at all ends the loop.
Return(count) ==
    IF count = 0 THEN pc' = "done" /\ UNCHANGED <<total, lines>>
    ELSE pc' = "loop" /\ total' = total + count /\ lines' = Append(lines, text)

\* fileRead fails: the bytes read so far are dropped and the loop ends.
ReadFails ==
    /\ pc = "read" /\ ReadFaults
    /\ pc' = "failed"
    /\ UNCHANGED <<file, pos, text, isReturn, bytesRead, bytesWritten, total, lines>>

\* Mutant: a return is an ordinary character.
ReadByteKeepsReturn ==
    /\ pc = "read" /\ pos < Len(file) /\ Len(text) < BufferSize
    /\ pos' = pos + 1
    /\ bytesRead' = bytesRead + 1
    /\ IF file[pos + 1] = LF
       THEN Return(bytesRead + 1) /\ UNCHANGED <<text, bytesWritten>>
       ELSE /\ text' = Append(text, file[pos + 1])
            /\ bytesWritten' = bytesWritten + 1
            /\ UNCHANGED <<pc, total, lines>>
    /\ UNCHANGED <<file, isReturn>>

\* fileRead puts the next byte at bufferCursor, without a look at bufferSize.
ReadByte ==
    /\ pc = "read" /\ pos < Len(file) /\ Len(text) < BufferSize
    /\ pos' = pos + 1
    /\ bytesRead' = bytesRead + 1
    /\ CASE file[pos + 1] = CR ->
              isReturn' = TRUE /\ UNCHANGED <<pc, text, bytesWritten, total, lines>>
         [] file[pos + 1] = LF ->
              Return(bytesRead + 1) /\ UNCHANGED <<text, isReturn, bytesWritten>>
         [] OTHER ->
              /\ text' = Append(text, file[pos + 1])
              /\ isReturn' = FALSE
              /\ bytesWritten' = bytesWritten + 1
              /\ UNCHANGED <<pc, total, lines>>
    /\ UNCHANGED file

\* Mutant: the end of the file is not seen without a byte.
ReadEofUnseen ==
    /\ pc = "read" /\ pos = Len(file) /\ Len(text) < BufferSize
    /\ UNCHANGED vars

\* At the end of the file fileRead succeeds with no byte and leaves the cell. The
\* test for '\r' comes first; the end of string goes one cell further.
ReadEof ==
    /\ pc = "read" /\ pos = Len(file) /\ Len(text) < BufferSize
    /\ \/ isReturn /\ UNCHANGED <<pc, total, lines>>
       \/ ~isReturn /\ Len(text) + 1 < BufferSize /\ Return(bytesRead)
    /\ UNCHANGED <<file, pos, text, isReturn, bytesRead, bytesWritten>>

\* A byte, or the end of string, goes behind the last cell of line.
Overrun ==
    /\ pc = "read"
    /\ \/ Len(text) >= BufferSize
       \/ pos = Len(file) /\ ~isReturn /\ Len(text) + 1 >= BufferSize
    /\ pc' = "overrun"
    /\ UNCHANGED <<file, pos, text, isReturn, bytesRead, bytesWritten, total, lines>>

Progress == Call \/ LoopEnds \/ ReadByte \/ ReadEof \/ Overrun

Next == Progress \/ ReadFails

\* The thread that reads the file is scheduled; no read has to fail.
Spec == Init /\ [][Next]_vars /\ WF_vars(Progress)

-----------------------------------------------------------------------------
TypeOK ==
    /\ pos \in 0 .. Len(file)
    /\ pc \in {"loop", "read", "done", "failed", "overrun"}
    /\ text \in Seq(Character)
    /\ isReturn \in BOOLEAN
    /\ bytesRead \in 0 .. Len(file) /\ bytesWritten \in 0 .. Len(file)
    /\ total \in 0 .. Len(file)

\* The reference, in places of the file: a line ends at every newline and at the end
\* of the file.
LineEnds == {i \in DOMAIN file : file[i] = LF} \cup ({Len(file)} \ {0})

\* Its text: what stands before its end, but not before an earlier one, without '\r'.
TextOfLine(e) ==
    {i \in 1 .. e : file[i] \in Character /\ \A x \in LineEnds : x < e => x < i}

\* Which one x is of the places in S.
Rank(S, x) == Cardinality({y \in S : y <= x})

\* The bytes at the places in S, in order.
Spells(line, S) ==
    Len(line) = Cardinality(S) /\ \A i \in S : line[Rank(S, i)] = file[i]

IsLine(line, e) == Spells(line, TextOfLine(e))

\* The lines handed to process_line are the lines of the file, in order, none
\* skipped, doubled or mixed with leftovers of another; unless a read failed it
\* is all of them in the end.
LinesAreTheFile ==
    /\ Len(lines) <= Cardinality(LineEnds)
    /\ \A e \in LineEnds :
          Rank(LineEnds, e) <= Len(lines) => IsLine(lines[Rank(LineEnds, e)], e)
    /\ pc = "done" => Len(lines) = Cardinality(LineEnds)

\* The loop's own count is the position in the file, so it stops at its end and
\* not one call earlier or later.
PositionAccounted ==
    /\ pc = "loop" => total = pos
    /\ pc \in {"read", "overrun"} => total + bytesRead = pos

\* A line fits with its end of string; an unterminated last line needs one more
\* cell, because its end of string is written one cell too far.
LinesFit ==
    \A e \in LineEnds :
        Cardinality(TextOfLine(e)) + (IF file[e] = LF THEN 1 ELSE 2) <= BufferSize

\* A file whose lines fit is read without leaving the buffer: the unchecked
\* cursor is safe exactly that far.
FittingLinesStayInside == LinesFit => pc # "overrun"

\* A file whose lines fit and whose last byte is not a '\r' is read to its end,
\* whatever combination of returns, newlines and characters it holds, or to the
\* read that fails.
FittingFilesAreRead ==
    (pc = "loop" /\ LinesFit /\ (file = <<>> \/ Last(file) # CR))
        ~> pc \in {"done", "failed"}

\* "skip return" (file.c): a return is skipped like any other byte, so every call
\* comes to an end.
CallsReturn == pc = "read" ~> pc # "read"
=============================================================================

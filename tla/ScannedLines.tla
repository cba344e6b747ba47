----------------------------- MODULE ScannedLines -----------------------------
(***************************************************************************)
(* From the bytes of a file to the strings of its lines: fileReadLine and  *)
(* the loop around it (LineReader) hand a line to process_line, which      *)
(* takes it apart with the scanners of my_string.h.                        *)
(***************************************************************************)
EXTENDS LineReader, StringScanners

CONSTANTS
    MaxItems,   \* MAX_APP_VERS
    Meaning     \* what the texts between quotes in Files stand for

ASSUME ListAssumption ==
    /\ MaxItems \in Nat
    /\ \A m \in DOMAIN Meaning : 0 \notin ToSet(Meaning[m])

\* process_line at "app_ver:": the strings of a list, or the first one.
AppVersions(line) ==
    LET trimmed == Trim(line)
        single == ParseQuotedString(trimmed)
    IN  IF IsCommentOrEmpty(line) THEN <<>>
        ELSE IF IsListValue(trimmed) THEN ParseStringList(trimmed, MaxItems)
        ELSE IF single = Null THEN <<>> ELSE <<single>>

-----------------------------------------------------------------------------
\* The reference: a backslash escapes the next byte unless it is escaped itself, that
\* is, if an even number of them stands right before it; the quotes that are not
\* escaped open and close strings in turn.
Escapes(s, i) ==
    /\ s[i] = Backslash
    /\ (i - 1 - Max({j \in 0 .. i - 1 : j = 0 \/ At(s, j) # Backslash})) % 2 = 0

Quotes(s) ==
    SelectSeq([i \in DOMAIN s |-> i],
              LAMBDA i : s[i] = Quote /\ ~(i > 1 /\ Escapes(s, i - 1)))

Contents(s) ==
    LET quotes == Quotes(s)
    IN  [k \in 1 .. Len(quotes) \div 2 |-> SubSeq(s, quotes[2 * k - 1] + 1, quotes[2 * k] - 1)]

\* The first string of a list that may be lost: the one behind a string that ends in an
\* escaped backslash, or that string itself if it is the last.
FirstLost(contents) ==
    LET slashed == {k \in DOMAIN contents : contents[k] # <<>> /\ Last(contents[k]) = Backslash}
    IN  IF slashed = {} THEN Len(contents) + 1
        ELSE Min({Min(slashed) + 1, Len(contents)})

\* Every string that is written into a line comes out of the file as what it stands for,
\* quotes, commas, brackets and backslashes included, up to the limit of the array; only
\* behind a string of a list that ends in an escaped backslash may strings be lost.
ScannedAsWritten ==
    lines # <<>> /\ Colon \in ToSet(Last(lines)) =>
        LET line == Last(lines)
            contents == Contents(line)
            scanned == AppVersions(line)
            lost == IF IsListValue(line) THEN FirstLost(contents) ELSE Len(contents) + 1
        IN  /\ \A k \in 1 .. Min({lost - 1, MaxItems}) :
                    k <= Len(scanned) /\ scanned[k] = Meaning[contents[k]]
            /\ lost > Len(contents) => Len(scanned) = Min({Len(contents), MaxItems})
=============================================================================

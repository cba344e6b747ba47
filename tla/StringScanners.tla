---------------------------- MODULE StringScanners ----------------------------
(***************************************************************************)
(* The scanners of game_patch/my_string.h, through which every string of a *)
(* patch file or a plugin file goes.  A C string is the sequence of its    *)
(* bytes, without the zero that ends it.  Allocations succeed: who drops a *)
(* string that cannot be copied is in PatchEntry, Bootloader and ParseHeap. *)
(***************************************************************************)
EXTENDS Naturals, Sequences, SequencesExt

Space == 9 .. 13 \cup {32}            \* isspace
Quote == 34
Hash == 35
Comma == 44
Colon == 58
Open == 91
Backslash == 92
Close == 93
LetterX == 120

Null == <<0>>                         \* NULL: no C string holds a zero

\* The byte at i; behind the last one there is the zero.
At(s, i) == IF i <= Len(s) THEN s[i] ELSE 0

\* The first place from i on with a byte that is not in bytes, and the first one
\* with byte c: the end of s if there is none.
Past(s, i, bytes) == Min({j \in i .. Len(s) : s[j] \notin bytes} \cup {Len(s) + 1})
Find(s, i, c) == Min({j \in i .. Len(s) : s[j] = c} \cup {Len(s) + 1})

IsCommentOrEmpty(line) == At(line, Past(line, 1, Space)) \in {Hash, 0}

Trim(s) ==
    LET ink == {i \in DOMAIN s : s[i] \notin Space}
    IN  IF ink = {} THEN <<>> ELSE SubSeq(s, Min(ink), Max(ink))

IsListValue(s) ==
    Colon \in ToSet(s) /\ At(s, Past(s, Find(s, 1, Colon) + 1, Space)) = Open

-----------------------------------------------------------------------------
\* The value of a digit, 16 if it is none.
Digit(c) ==
    CASE c \in 48 .. 57  -> c - 48
      [] c \in 97 .. 102 -> c - 87
      [] c \in 65 .. 70  -> c - 55
      [] OTHER           -> 16

\* The digits of a numeric escape, at most limit of them from i on.
Digits(s, i, base, limit) ==
    LET other == {j \in i .. i + limit - 1 : Digit(At(s, j)) >= base}
    IN  SubSeq(s, i, Min(other \cup {i + limit}) - 1)

\* (char)value
ValueOf(digits, base) == FoldLeft(LAMBDA v, c : v * base + Digit(c), 0, digits) % 256

\* \n \t \r \b \f \v \a stand for a control character, any other byte for itself.
Control == [c \in {110, 116, 114, 98, 102, 118, 97} |->
                CASE c = 110 -> 10 [] c = 116 -> 9 [] c = 114 -> 13 [] c = 98 -> 8
                  [] c = 102 -> 12 [] c = 118 -> 11 [] c = 97 -> 7]

\* unescape_char: the byte that the text at i stands for, and the place behind it.
UnescapeChar(s, i) ==
    LET c == At(s, i + 1)
        octal == Digits(s, i + 1, 8, 3)
        hex == Digits(s, i + 2, 16, 2)
    IN  CASE s[i] # Backslash                 -> [byte |-> s[i], next |-> i + 1]
          [] s[i] = Backslash /\ octal # <<>> ->
                [byte |-> ValueOf(octal, 8), next |-> i + 1 + Len(octal)]
          [] s[i] = Backslash /\ c = LetterX  ->
                [byte |-> IF hex = <<>> THEN LetterX ELSE ValueOf(hex, 16),
                 next |-> i + 2 + Len(hex)]
          [] OTHER ->
                [byte |-> IF c \in DOMAIN Control THEN Control[c] ELSE c, next |-> i + 2]

\* unescape_string; an escaped zero ends the result.
UnescapeString(s) ==
    LET from[i \in 1 .. Len(s) + 2] ==
            IF i > Len(s) THEN <<>>
            ELSE <<UnescapeChar(s, i).byte>> \o from[UnescapeChar(s, i).next]
    IN  SubSeq(from[1], 1, Find(from[1], 1, 0) - 1)

-----------------------------------------------------------------------------
\* Mutant: an escaped quote closes the string.
ClosingQuoteAny(s, i) == Find(s, i, Quote)

\* parse_quoted_string: the quote that closes the string whose text begins at i.
ClosingQuote(s, i) ==
    LET from[j \in i .. Len(s) + 2] ==
            IF j > Len(s) THEN Len(s) + 1
            ELSE IF s[j] = Backslash /\ j < Len(s) THEN from[j + 2]
            ELSE IF s[j] = Quote THEN j ELSE from[j + 1]
    IN  from[i]

ParseQuotedString(s) ==
    LET start == Find(s, 1, Quote) + 1
    IN  IF start > Len(s) \/ ClosingQuote(s, start) > Len(s) THEN Null
        ELSE UnescapeString(SubSeq(s, start, ClosingQuote(s, start) - 1))

\* parse_string_list: the bracket that closes the list whose text begins at i.
ListEnd(s, i) ==
    LET from[j \in i .. Len(s) + 2, inQuote \in BOOLEAN] ==
            IF j > Len(s) THEN Len(s) + 1
            ELSE IF s[j] = Backslash /\ j < Len(s) THEN from[j + 2, inQuote]
            ELSE IF s[j] = Quote THEN from[j + 1, ~inQuote]
            ELSE IF s[j] = Close /\ ~inQuote THEN j ELSE from[j + 1, inQuote]
    IN  from[i, FALSE]

\* Where it takes the string with text from i on to end: at a quote that does not
\* stand behind a backslash, even an escaped one.
ItemEnd(s, i) ==
    LET from[j \in i .. Len(s) + 2] ==
            IF j > Len(s) THEN Len(s) + 1
            ELSE IF s[j] = Quote /\ s[j - 1] # Backslash THEN j
            ELSE IF s[j] = Backslash /\ j < Len(s) THEN from[j + 2] ELSE from[j + 1]
    IN  from[i]

\* Its strings: what comes before the next comma is passed over after each of them.
Items(s) ==
    LET from[i \in 1 .. Len(s) + 2] ==
            LET p == Past(s, i, Space)
                end == ItemEnd(s, p + 1)
                item == ParseQuotedString(SubSeq(s, p, end))
            IN  IF p > Len(s) THEN <<>>
                ELSE IF s[p] # Quote THEN from[Find(s, p, Comma) + 1]
                ELSE IF end > Len(s) THEN <<>>
                ELSE (IF item = Null THEN <<>> ELSE <<item>>)
                        \o from[Find(s, end + 1, Comma) + 1]
    IN  from[1]

ParseStringList(s, maxItems) ==
    LET start == Find(s, 1, Open) + 1
        items == Items(SubSeq(s, start, ListEnd(s, start) - 1))
    IN  IF start > Len(s) \/ ListEnd(s, start) > Len(s) THEN <<>>
        ELSE SubSeq(items, 1, IF Len(items) < maxItems THEN Len(items) ELSE maxItems)
=============================================================================

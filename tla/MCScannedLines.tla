---------------------------- MODULE MCScannedLines ----------------------------
(***************************************************************************)
(* Small files for ScannedLines: all of up to five bytes, alone and behind *)
(* a filler that takes them to the end of the buffer, and lines with lists *)
(* of strings that need escapes.                                           *)
(***************************************************************************)
EXTENDS ScannedLines

\* a, b, '\r', '\n'
Short == BoundedSeq({97, 98, CR, LF}, 5)
Filler == [i \in 1 .. BufferSize - 3 |-> 97]

\* How a byte may be written in a string: plain, or as an escape.
Spelled ==
    {<<<<97>>, 97>>, <<<<Comma>>, Comma>>, <<<<Close>>, Close>>,
     <<<<Backslash, Quote>>, Quote>>, <<<<Backslash, Backslash>>, Backslash>>,
     <<<<Backslash, 110>>, 10>>, <<<<Backslash, LetterX, 52, 49>>, 65>>,
     <<<<Backslash, 49, 48, 49>>, 65>>}

Spelling(string) == FlattenSeq([i \in DOMAIN string |-> string[i][1]])
Strings == BoundedSeq(Spelled, 2)
Letters == BoundedSeq(Spelled, 1)

Quoted(string) == <<Quote>> \o Spelling(string) \o <<Quote>>
List(strings) ==
    <<Open>> \o FlattenSeq([i \in DOMAIN strings |->
                    (IF i = 1 THEN <<>> ELSE <<Comma, 32>>) \o Quoted(strings[i])]) \o <<Close>>
Key == <<32, 107, Colon>>

ListLines ==
    {Key \o List(<<s, t>>) : s, t \in Strings}
        \cup {Key \o List(<<s, t, u>>) : s, t, u \in Letters}
        \cup {Key \o Quoted(s) : s \in Strings}

MCMeaning ==
    [spelled \in {Spelling(s) : s \in Strings} |->
        LET string == CHOOSE s \in Strings : Spelling(s) = spelled
        IN  [i \in DOMAIN string |-> string[i][2]]]

MCFiles ==
    Short \cup {Filler \o s : s \in Short} \cup {line \o <<LF>> : line \in ListLines}
=============================================================================

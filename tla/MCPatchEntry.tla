---------------------------- MODULE MCPatchEntry ----------------------------
(***************************************************************************)
(* Small entries for PatchEntry: bytes of one bit, so that a word has      *)
(* eight bits.                                                             *)
(***************************************************************************)
EXTENDS PatchEntry

Type(words) == [words |-> words, letters |-> <<Other>>]
Number(letters) == [words |-> {}, letters |-> letters]

Byte == Type({"byte"})
Bytes8 == Type({"byte", "bytes8"})
Bytes16 == Type({"byte", "bytes16"})
Be16 == Type({"be16"})
Be32 == Type({"be32"})
Be64 == Type({"be64"})
AppendArgType == Type({"append_arg"})
EmptyText == Number(<<>>)
Word == Number(<<Other, 1>>)

Two == Number(<<2>>)
Eleven == Number(<<1, 1>>)
HexThree == Number(<<0, LetterX, 3>>)
HexD == Number(<<0, LetterX, 13>>)
MinusThree == Number(<<Minus, 3>>)
MinusHex == Number(<<Minus, 0, LetterX, 3>>)
Wide == Number(<<3, 0, 1>>)

MCText == {Byte, Bytes8, Bytes16, Be16, Be32, Be64, AppendArgType, EmptyText, Word,
           Two, Eleven, HexThree, HexD, MinusThree, MinusHex, Wide}
MCCell == 0 .. 9

Quoted(t) == [quoted |-> TRUE, slash |-> FALSE, text |-> t]
Slashed(t) == [quoted |-> TRUE, slash |-> TRUE, text |-> t]
Bare(t) == [quoted |-> FALSE, slash |-> FALSE, text |-> t]
QuotedAll(texts) == [i \in DOMAIN texts |-> Quoted(texts[i])]

\* Every arm; values that are narrowed, negative, out of range or go round; addresses
\* that are decimal, hexadecimal, narrowed or not the game's; strings that are missing,
\* too many, not quoted, empty, or end in a backslash.
MCLines ==
    {QuotedAll(<<Byte, Two, Wide>>), QuotedAll(<<Bytes8, Two, HexD>>),
     QuotedAll(<<Byte, HexD, MinusHex>>), QuotedAll(<<Bytes16, Two, HexD>>),
     QuotedAll(<<Be16, Two, HexD>>), QuotedAll(<<Be32, HexThree, MinusThree, Word>>),
     QuotedAll(<<Be32, Eleven, HexD>>), QuotedAll(<<Be64, Two, MinusThree>>),
     QuotedAll(<<Byte, Two>>), QuotedAll(<<Word, Two, HexD>>),
     <<Quoted(Byte), Bare(Word), Quoted(Two), Quoted(HexD)>>,
     QuotedAll(<<AppendArgType, Word, EmptyText>>),
     QuotedAll(<<AppendArgType, EmptyText, Word, Two>>),
     QuotedAll(<<AppendArgType, HexD, Two, Word, Two>>),
     <<Quoted(AppendArgType), Slashed(Word), Quoted(Two), Quoted(Word)>>,
     <<Quoted(AppendArgType), Quoted(Two), Quoted(Word), Slashed(Word)>>}

\* A free list, and one that is longer than any append_arg makes.
MCInitialArgs == {<<Word.letters>>, [i \in 1 .. 4 |-> Word.letters]}

\* An entry changes memory or arguments; no file goes on that has changed both.
OneKind == mem = [a \in Cell |-> 0] \/ args \in InitialArgs
=============================================================================

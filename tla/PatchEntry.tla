------------------------------ MODULE PatchEntry ------------------------------
(***************************************************************************)
(* What one entry of a switched-on patch does to the game:                 *)
(*                                                                         *)
(*     - [ "type", "address", "value" ]    a write to memory               *)
(*     - [ "append_arg", "a", "b", ... ]   arguments for the game          *)
(*                                                                         *)
(* parse_patch_entry, the check for three strings, apply_patch with the    *)
(* number conversions of lv2_stdio.h, append_arg and free_patch_entry, as  *)
(* process_line and entry_callback run them on one line. LowMemRun says    *)
(* which entries are applied; this module says what applying them means.   *)
(*                                                                         *)
(* A text is what the code can tell of it: the words of apply_patch that   *)
(* it begins with ("append_arg" is compared as a whole), and its letters   *)
(* as strtoul reads them: 0 .. 35 for '0' .. '9', 'a' .. 'z'.              *)
(***************************************************************************)
EXTENDS Integers, Sequences, FiniteSets, SequencesExt

CONSTANTS
    Text,         \* the texts that entries may hold
    Lines,        \* the entries: sequences of tokens
    ByteSize,     \* 2^8
    AddressSpace, \* 2^32, the values of uintptr_t
    Cell,         \* the addresses of the game's memory
    MaxParams,    \* MAX_PATCH_PARAMS
    MaxArgs,      \* max_args
    MaxArgBuf,    \* max_arg_buf, the characters kept of an argument
    InitialArgs,  \* argument lists the game may have before
    MaxLost       \* bound on the strings of an entry whose malloc fails

Other == 36      Space == 37      Plus == 38      Minus == 39
LetterX == 33
MinParams == 3                    \* MIN_PATCH_PARAMS

\* ByteSize to the n.
Power[n \in 0 .. 8] == IF n = 0 THEN 1 ELSE ByteSize * Power[n - 1]

WordSize == Power[8]              \* the values of unsigned long

\* The arms of apply_patch that write, in code order.
WriteArms ==
    <<[words |-> {"bytes8", "byte"}, width |-> 1],
      [words |-> {"bytes16", "be16"}, width |-> 2],
      [words |-> {"bytes32", "be32"}, width |-> 4],
      [words |-> {"bytes64", "be64"}, width |-> 8]>>

Words == (UNION {WriteArms[i].words : i \in DOMAIN WriteArms}) \cup {"append_arg"}

\* What a text may begin with: of two words one goes on from the other.
Beginnings ==
    {{}} \cup {{w} : w \in Words}
         \cup {{"byte", w} : w \in {"bytes8", "bytes16", "bytes32", "bytes64"}}

\* An argument, as it lies in its buffer.
Arg == Seq(0 .. Minus)

\* A token between two commas. A quoted one may end in an escaped backslash.
Token == [quoted : BOOLEAN, slash : BOOLEAN, text : Text]

ASSUME EntryAssumption ==
    /\ Text \subseteq [words : Beginnings, letters : Seq(0 .. Minus)]
    /\ Lines \subseteq Seq(Token)
    /\ ByteSize \in Nat \ {0, 1} /\ AddressSpace \in Nat \ {0}
    /\ Cell \subseteq 0 .. AddressSpace - 1
    /\ MaxParams \in Nat /\ MaxParams >= MinParams
    /\ MaxArgs \in Nat /\ MaxArgBuf \in Nat
    /\ InitialArgs \subseteq Seq(Arg)
    /\ MaxLost \in Nat

VARIABLES
    mem,      \* the bytes of the game
    hasArgs,  \* g_args is set
    args,     \* the arguments in *g_args
    alive,    \* the game has not been brought down
    last      \* history: the last entry, and what failed in it

entryVars == <<mem, hasArgs, args, alive, last>>

-----------------------------------------------------------------------------
\* parse_patch_entry comes to the n-th token: `taken` are the places of the strings it
\* has, `open` is the place of one whose closing quote was overlooked because the token
\* ends in a backslash. The opening quote of the next one closes it, and that is skipped.
NextToken(line, n, before) ==
    IF ~line[n].quoted THEN before
    ELSE IF before.open # 0
         THEN [taken |-> before.taken \cup {before.open}, open |-> 0]
    ELSE IF line[n].slash THEN [taken |-> before.taken, open |-> n]
    ELSE [taken |-> before.taken \cup {n}, open |-> 0]

\* A string that is not closed at the end is lost.
Strings(line) ==
    LET upto[n \in 0 .. Len(line)] ==
            IF n = 0 THEN [taken |-> {}, open |-> 0] ELSE NextToken(line, n, upto[n - 1])
    IN  upto[Len(line)].taken

\* The elements of s at the places in S, in order.
Kept(s, S) ==
    LET upto[n \in 0 .. Len(s)] ==
            IF n = 0 THEN <<>>
            ELSE IF n \in S THEN Append(upto[n - 1], s[n]) ELSE upto[n - 1]
    IN  upto[Len(s)]

TextsOf(line) == [n \in 1 .. Len(line) |-> line[n].text]

FirstOf(s, n) == SubSeq(s, 1, IF Len(s) < n THEN Len(s) ELSE n)

\* A string whose malloc fails takes no place: the next one moves up. At most
\* MAX_PATCH_PARAMS are taken.
Params(line, lost) == FirstOf(Kept(TextsOf(line), Strings(line) \ lost), MaxParams)

-----------------------------------------------------------------------------
\* How many letters at the beginning of s are in letters.
Leading(s, letters) ==
    CHOOSE n \in 0 .. Len(s) : /\ \A i \in 1 .. n : s[i] \in letters
                               /\ n < Len(s) => s[n + 1] \notin letters

IsHex(s) == Len(s) >= 2 /\ s[1] = 0 /\ s[2] = LetterX
Base(s) == IF IsHex(s) THEN 16 ELSE 10

\* What strtoul has behind the spaces, and its digits: the first letter that is no digit
\* ends them, and a sign keeps a 0x behind it from being seen.
Body(s) == SubSeq(s, Leading(s, {Space}) + 1, Len(s))
Signed(s) == Body(s) # <<>> /\ Body(s)[1] \in {Plus, Minus}
Rest(s) == SubSeq(Body(s), IF Signed(s) THEN 2 ELSE IF IsHex(s) THEN 3 ELSE 1, Len(Body(s)))
Digits(s) == SubSeq(Rest(s), 1, Leading(Rest(s), 0 .. Base(s) - 1))

\* The value goes round modulo 2^64.
Accumulated(digits, base) ==
    LET upto[n \in 0 .. Len(digits)] ==
            IF n = 0 THEN 0 ELSE (upto[n - 1] * base + digits[n]) % WordSize
    IN  upto[Len(digits)]

\* string_to_uint and string_to_int: strtoul in base 16 or 10.
ToUlong(s) ==
    LET result == Accumulated(Digits(s), Base(s))
    IN  IF Signed(s) /\ Body(s)[1] = Minus /\ result # WordSize - 1
        THEN (WordSize - result) % WordSize ELSE result

\* Mutant: val is an int64_t in every arm, of which the first bytes are written.
BytesOfLong(n, width) ==
    [i \in 0 .. width - 1 |-> (n \div Power[7 - i]) % ByteSize]

\* The value narrowed to int8_t .. int64_t, as it lies in memory: big endian.
Bytes(n, width) ==
    [i \in 0 .. width - 1 |-> (n \div Power[width - 1 - i]) % ByteSize]

WithBytes(m, addr, bytes) ==
    [a \in Cell |-> IF a - addr \in DOMAIN bytes THEN bytes[a - addr] ELSE m[a]]

\* hex_dump can read all the bytes that are to be overwritten.
Readable(addr, width) == addr .. addr + width - 1 \subseteq Cell

\* The arm a type ends in: the first one of whose words it begins with.
ArmsOf(type) == {i \in DOMAIN WriteArms : WriteArms[i].words \cap type.words # {}}
WidthOf(type) == WriteArms[CHOOSE i \in ArmsOf(type) : \A j \in ArmsOf(type) : i <= j].width

-----------------------------------------------------------------------------
IsEmpty(text) == text.letters = <<>>

\* strncpy keeps the first max_arg_buf characters.
Buffer(text) == FirstOf(text.letters, MaxArgBuf)

AppendArg(as, text) == IF Len(as) >= MaxArgs THEN as ELSE Append(as, Buffer(text))

\* Mutant: the loop starts behind the first argument.
AppendParamsFromThird(as, params) ==
    LET upto[n \in 0 .. Len(params)] ==
            IF n = 0 THEN as
            ELSE IF n <= 2 \/ IsEmpty(params[n]) THEN upto[n - 1]
            ELSE AppendArg(upto[n - 1], params[n])
    IN  upto[Len(params)]

\* The strings after the type that are not empty, one append_arg each; the loop
\* goes on when one is refused.
AppendParams(as, params) ==
    LET upto[n \in 0 .. Len(params)] ==
            IF n = 0 THEN as
            ELSE IF n = 1 \/ IsEmpty(params[n]) THEN upto[n - 1]
            ELSE AppendArg(upto[n - 1], params[n])
    IN  upto[Len(params)]

-----------------------------------------------------------------------------
EntryInit ==
    /\ mem = [a \in Cell |-> 0]
    /\ hasArgs \in BOOLEAN
    /\ args \in InitialArgs
    /\ alive = TRUE
    /\ last = [line |-> <<>>, lost |-> {}, refused |-> FALSE]

Lost(line) == {lost \in SUBSET Strings(line) : Cardinality(lost) <= MaxLost}

Remember(line, lost, refused) ==
    last' = [line |-> line, lost |-> lost, refused |-> refused]

\* Fewer than three strings: the entry is freed and nothing is called.
Dropped(line, lost) ==
    /\ Len(Params(line, lost)) < MinParams
    /\ Remember(line, lost, FALSE)
    /\ UNCHANGED <<mem, hasArgs, args, alive>>

\* write_patch: hex_dump reads the bytes, and an address without memory brings the
\* game down. WriteProcessMemory writes all bytes or, refused by both system calls,
\* none (nor does anything happen without a process id); its status is not looked at.
\* The address is narrowed to uintptr_t.
Writes(line, lost) ==
    LET params == Params(line, lost)
        addr == ToUlong(params[2].letters) % AddressSpace
        width == WidthOf(params[1])
    IN  /\ Len(params) >= MinParams
        /\ ArmsOf(params[1]) # {}
        /\ \/ /\ Readable(addr, width)
              /\ mem' = WithBytes(mem, addr, Bytes(ToUlong(params[3].letters), width))
              /\ Remember(line, lost, FALSE)
              /\ UNCHANGED alive
           \/ /\ ~Readable(addr, width)
              /\ alive' = FALSE
              /\ Remember(line, lost, FALSE)
              /\ UNCHANGED mem
           \/ /\ Remember(line, lost, TRUE)
              /\ UNCHANGED <<mem, alive>>
        /\ UNCHANGED <<hasArgs, args>>

Appends(line, lost) ==
    LET params == Params(line, lost)
    IN  /\ Len(params) >= MinParams
        /\ ArmsOf(params[1]) = {}
        /\ hasArgs /\ "append_arg" \in params[1].words
        /\ args' = AppendParams(args, params)
        /\ Remember(line, lost, FALSE)
        /\ UNCHANGED <<mem, hasArgs, alive>>

\* No arm of apply_patch takes the type, or there is no g_args.
Ignored(line, lost) ==
    LET params == Params(line, lost)
    IN  /\ Len(params) >= MinParams
        /\ ArmsOf(params[1]) = {}
        /\ ~(hasArgs /\ "append_arg" \in params[1].words)
        /\ Remember(line, lost, FALSE)
        /\ UNCHANGED <<mem, hasArgs, args, alive>>

EntryNext ==
    /\ alive
    /\ \E line \in Lines : \E lost \in Lost(line) :
          \/ Dropped(line, lost)
          \/ Writes(line, lost)
          \/ Appends(line, lost)
          \/ Ignored(line, lost)

EntrySpec == EntryInit /\ [][EntryNext]_entryVars

-----------------------------------------------------------------------------
\* Memory holds bytes at the game's addresses; the arguments are texts.
EntryTypeOK ==
    /\ mem \in [Cell -> 0 .. ByteSize - 1]
    /\ hasArgs \in BOOLEAN
    /\ args \in Seq(Arg)
    /\ alive \in BOOLEAN

\* What a reader of the line makes of it: its quoted texts, and the numbers in
\* them, exactly.
Listed(line) == Kept(TextsOf(line), {i \in DOMAIN line : line[i].quoted})

Magnitude(s) ==
    LET upto[n \in 0 .. Len(s)] ==
            IF n = 0 THEN 0
            ELSE IF s[n] < Base(s) THEN upto[n - 1] * Base(s) + s[n] ELSE upto[n - 1]
    IN  upto[Len(s)]

Value(s) == IF s[1] = Minus THEN - Magnitude(s) ELSE Magnitude(s)

\* A decimal number, perhaps negative, or a hexadecimal one without a sign, that
\* strtoul can hold.
IsNumber(s) ==
    /\ \/ s # <<>> /\ \A i \in DOMAIN s : s[i] < 10 \/ (i = 1 /\ Len(s) > 1 /\ s[i] = Minus)
       \/ Len(s) > 2 /\ IsHex(s) /\ \A i \in 3 .. Len(s) : s[i] < 16
    /\ Magnitude(s) < WordSize - 1

\* The width in the name of a type.
NamedWidth(type) ==
    LET named == {i \in DOMAIN WriteArms : WriteArms[i].words \cap (type.words \ {"byte"}) # {}}
    IN  IF named = {} THEN 1 ELSE WriteArms[CHOOSE i \in named : TRUE].width

IsWrite(texts) ==
    /\ Len(texts) >= MinParams
    /\ texts[1].words \ {"append_arg"} # {}
    /\ IsNumber(texts[2].letters) /\ Value(texts[2].letters) \in 0 .. AddressSpace - 1
    /\ IsNumber(texts[3].letters)

\* The bytes at addr, as a number.
BigEndian(m, addr, width) ==
    LET upto[n \in 0 .. width] ==
            IF n = 0 THEN 0 ELSE upto[n - 1] * ByteSize + m[addr + n - 1]
    IN  upto[width]

\* Reading the listed address back in the width of the type's name gives the listed
\* value, and no other byte has changed; an address without memory ends the game.
AsListed(texts) ==
    LET addr == Value(texts[2].letters)
        width == NamedWidth(texts[1])
    IN  IF ~Readable(addr, width) THEN mem' = mem /\ ~alive'
        ELSE /\ alive'
             /\ BigEndian(mem', addr, width) = Value(texts[3].letters) % Power[width]
             /\ \A a \in Cell \ (addr .. addr + width - 1) : mem'[a] = mem[a]

Done == last'.lost = {} /\ ~last'.refused
Intact(line) == \A i \in DOMAIN line : ~line[i].slash

\* apply_patch: an entry writes the listed value at the listed address, narrowed
\* and in memory order, touches no other byte, and is done as a whole or not at all;
\* it brings the game down just when the game has no memory there.
\* That also holds of an entry with exactly three strings when malloc fails for
\* some: what is left is too short to be taken for another entry.
WrittenAsListed ==
    [][LET texts == Listed(last'.line)
       IN  /\ IsWrite(texts) /\ Intact(last'.line)
           /\ "byte" \notin texts[1].words \/ NamedWidth(texts[1]) = 1
           => /\ Done => AsListed(texts)
              /\ Len(texts) = MinParams => mem' = mem \/ AsListed(texts)]_entryVars

\* append_arg from an entry: the arguments there were stay, what comes behind them
\* is what the entry lists, in order and up to the limit, each with as many of its
\* characters as a buffer holds, and all of it if no string was lost. Writes to
\* memory never change the arguments.
ArgumentsAsListed ==
    [][LET texts == Listed(last'.line)
           shown == FirstOf(texts, MaxParams)
           added == Kept(shown, {i \in 2 .. Len(shown) : ~IsEmpty(shown[i])})
           room == IF Len(args) < MaxArgs THEN MaxArgs - Len(args) ELSE 0
           taken == FirstOf(added, room)
           isAppend == Len(texts) >= MinParams /\ "append_arg" \in texts[1].words /\ hasArgs
       IN  /\ IsPrefix(args, args')
           /\ args' # args => Len(args') <= MaxArgs /\ mem' = mem
           /\ last'.lost = {} /\ Intact(last'.line) =>
                  args' = IF isAppend
                          THEN args \o [i \in 1 .. Len(taken) |->
                                           FirstOf(taken[i].letters, MaxArgBuf)]
                          ELSE args]_entryVars

\* "isZero(strncmp2(type, "bytes16"))" (patch.c:1149) and the arms after it: a type
\* with a width in its name writes that many bytes.
NamedWidthWritten ==
    [][LET texts == Listed(last'.line)
       IN  IsWrite(texts) /\ Intact(last'.line) /\ Done
           => AsListed(texts)]_entryVars
=============================================================================

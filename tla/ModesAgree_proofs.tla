--------------------------- MODULE ModesAgree_proofs ---------------------------
(***************************************************************************)
(* patch_number identifies a version of a patch, on every file; and on     *)
(* well-formed files the three modes agree on hashes and entries.          *)
(***************************************************************************)
EXTENDS ModesAgree, SequenceTheorems, TLAPS

-----------------------------------------------------------------------------
(***************************************************************************)
(* The shared part of the context.                                         *)
(***************************************************************************)
\* A patch always has at least one version slot, and they are numbered from 1.
LEMMA SlotsDomain ==
    ASSUME NEW c \in Context
    PROVE  \E n \in Nat \ {0} : DOMAIN VersionSlots(c) = 1 .. n
<1>1. CASE c.vers = <<>>
    <2>1. DOMAIN VersionSlots(c) = 1 .. 1
        BY <1>1 DEF VersionSlots
    <2> QED BY <2>1
<1>2. CASE c.vers # <<>>
    <2>1. c.vers \in Seq(AppVersion) BY DEF Context
    <2>2. Len(c.vers) \in Nat \ {0} BY <1>2, <2>1
    <2>3. DOMAIN VersionSlots(c) = 1 .. Len(c.vers)
        BY <1>2, <2>1 DEF VersionSlots
    <2> QED BY <2>2, <2>3
<1> QED BY <1>1, <1>2

\* A new context has the right shape.
LEMMA NewType == \A alloc \in BOOLEAN : NewContext(alloc) \in Context
BY DEF NewContext, Context, NoFields

\* Completing a patch gives a context, outside the entries if it had a title.
LEMMA CompleteType ==
    ASSUME NEW c \in Context, NEW alloc \in BOOLEAN
    PROVE  /\ CompletePatch(c, alloc) \in Context
           /\ c.fields["title"] # Null => ~CompletePatch(c, alloc).inPatches
           /\ c.fields["title"] = Null => CompletePatch(c, alloc) = c
<1>1. NewContext(alloc) \in Context BY NewType
<1>2. c.num + 1 \in Nat BY DEF Context
<1>3. [NewContext(alloc) EXCEPT !.num = c.num + 1] \in Context
    BY <1>1, <1>2 DEF Context
<1>4. ~[NewContext(alloc) EXCEPT !.num = c.num + 1].inPatches
    BY DEF NewContext
<1> QED BY <1>1, <1>3, <1>4 DEF CompletePatch

\* process_line keeps the shape of the context.
LEMMA AfterType ==
    ASSUME NEW c \in Context, NEW alloc \in BOOLEAN,
           NEW l, l.value \in StringValue \cup {Null}, l.vers \in Seq(AppVersion)
    PROVE  ContextAfter(c, l, alloc) \in Context
<1>2. CASE LineKey(l) = "patch"
    <2>1. ContextAfter(c, l, alloc) = CompletePatch(c, alloc)
        BY <1>2 DEF ContextAfter, StringField
    <2> QED BY <2>1, CompleteType
<1>3. CASE LineKey(l) \in StringField
    <2>1. ContextAfter(c, l, alloc) = [c EXCEPT !.fields[LineKey(l)] = l.value]
        BY <1>3 DEF ContextAfter, StringField
    <2>2. [c.fields EXCEPT ![LineKey(l)] = l.value]
            \in [StringField -> StringValue \cup {Null}]
        BY <1>3 DEF Context
    <2>3. [c EXCEPT !.fields = [c.fields EXCEPT ![LineKey(l)] = l.value]] \in Context
        BY <2>2 DEF Context
    <2>4. [c EXCEPT !.fields[LineKey(l)] = l.value]
            = [c EXCEPT !.fields = [c.fields EXCEPT ![LineKey(l)] = l.value]]
        BY DEF Context
    <2> QED BY <2>1, <2>3, <2>4
<1>4. CASE LineKey(l) = "app_ver"
    <2>1. ContextAfter(c, l, alloc) = IF c.verArray THEN [c EXCEPT !.vers = l.vers] ELSE c
        BY <1>4 DEF ContextAfter, StringField
    <2>2. [c EXCEPT !.vers = l.vers] \in Context BY DEF Context
    <2> QED BY <2>1, <2>2
<1>5. CASE LineKey(l) = "patches"
    <2>1. ContextAfter(c, l, alloc) = [c EXCEPT !.inPatches = TRUE]
        BY <1>5 DEF ContextAfter, StringField
    <2>2. [c EXCEPT !.inPatches = TRUE] \in Context BY DEF Context
    <2> QED BY <2>1, <2>2
<1>6. CASE LineKey(l) \notin {"patch", "app_ver", "patches"} \cup StringField
    <2>1. ContextAfter(c, l, alloc) = c BY <1>6 DEF ContextAfter
    <2> QED BY <2>1
<1> QED BY <1>2, <1>3, <1>4, <1>5, <1>6
-----------------------------------------------------------------------------
\* The listed numbers increase and stay below those the patch under construction
\* will get; a version list never has more items than NumberStride.
Numbered ==
    /\ ctx \in Context
    /\ Len(ctx.vers) <= MaxAppVers
    /\ \E S : listed \in Seq(S)
    /\ \A i \in DOMAIN listed : /\ listed[i].number \in Nat
                                /\ listed[i].number < ctx.num * NumberStride
    /\ NumbersIncrease

\* The numbers one patch gives its versions: consecutive, within its stride.
LEMMA MetaNumbers ==
    ASSUME NEW c \in Context, Len(c.vers) <= MaxAppVers, NEW T
    PROVE  LET ms == Metas(c, T) IN
           /\ \E S : ms \in Seq(S)
           /\ \A i \in DOMAIN ms :
                /\ i \in Nat /\ ms[i].number \in Nat
                /\ ms[i].number = c.num * NumberStride + (i - 1)
                /\ ms[i].number < (c.num + 1) * NumberStride
<1> DEFINE ms == Metas(c, T)
<1>1. PICK n \in 1 .. MaxAppVers : DOMAIN VersionSlots(c) = 1 .. n
    <2>1. CASE c.vers = <<>>
        BY <2>1, ModesAssumption DEF VersionSlots, NumberStride
    <2>2. CASE c.vers # <<>>
        <3>1. c.vers \in Seq(AppVersion) BY DEF Context
        <3>2. Len(c.vers) \in Nat \ {0} BY <2>2, <3>1
        <3>3. DOMAIN VersionSlots(c) = 1 .. Len(c.vers)
            BY <2>2, <3>1 DEF VersionSlots
        <3>4. Len(c.vers) \in 1 .. MaxAppVers
            BY <3>2, ModesAssumption DEF NumberStride
        <3> QED BY <3>3, <3>4
    <2> QED BY <2>1, <2>2
<1>2. n \in Nat /\ n <= 100 /\ c.num \in Nat
    BY <1>1, ModesAssumption DEF NumberStride, Context
<1>3. ms = [i \in 1 .. n |-> MetaAt(c, T, i)] BY <1>1 DEF Metas
<1>4. ms \in Seq({MetaAt(c, T, i) : i \in 1 .. n}) BY <1>2, <1>3
<1>5. ASSUME NEW i \in DOMAIN ms
      PROVE  /\ i \in Nat /\ ms[i].number \in Nat
             /\ ms[i].number = c.num * NumberStride + (i - 1)
             /\ ms[i].number < (c.num + 1) * NumberStride
    <2>1. i \in 1 .. n /\ ms[i] = MetaAt(c, T, i) BY <1>3
    <2>2. ms[i].number = c.num * 100 + (i - 1)
        BY <2>1 DEF MetaAt, Number, NumberStride
    <2> QED BY <1>2, <2>1, <2>2 DEF NumberStride
<1> HIDE DEF ms
<1>6. /\ \E S : ms \in Seq(S)
      /\ \A i \in DOMAIN ms :
                /\ i \in Nat /\ ms[i].number \in Nat
                /\ ms[i].number = c.num * NumberStride + (i - 1)
                /\ ms[i].number < (c.num + 1) * NumberStride
    BY <1>4, <1>5
<1> QED BY <1>6 DEF ms

\* Completing a patch keeps the numbering.
LEMMA CompleteStep == Numbered /\ Complete => Numbered'
<1> SUFFICES ASSUME Numbered, Complete PROVE Numbered'
    OBVIOUS
<1>1. CASE ctx.fields["title"] = Null
    BY <1>1 DEF Complete, Numbered, NumbersIncrease
<1>0. ctx.fields["title"] # Null =>
          /\ ctx' = CompletePatch(ctx, TRUE)
          /\ listed' = listed \/ listed' = listed \o Metas(ctx, NoneOn)
    BY DEF Complete
<1>2. CASE ctx.fields["title"] # Null /\ listed' = listed \o Metas(ctx, NoneOn)
    <2> DEFINE ms == Metas(ctx, NoneOn)
               all2 == listed \o ms
               low == ctx.num * NumberStride
    <2>1. listed' = all2 /\ ctx' = CompletePatch(ctx, TRUE)
        BY <1>0, <1>2
    <2>2. ctx \in Context /\ ctx.num \in Nat BY DEF Numbered, Context
    <2>3. /\ \E S : ms \in Seq(S)
          /\ \A i \in DOMAIN ms :
                /\ i \in Nat /\ ms[i].number \in Nat
                /\ ms[i].number = low + (i - 1)
                /\ ms[i].number < (ctx.num + 1) * NumberStride
        BY <2>2, MetaNumbers DEF Numbered
    <2>4. PICK S1 : listed \in Seq(S1) BY DEF Numbered
    <2>5. PICK S2 : ms \in Seq(S2) BY <2>3
    <2> HIDE DEF ms
    <2> DEFINE S == S1 \cup S2
    <2>6. listed \in Seq(S) /\ ms \in Seq(S) BY <2>4, <2>5, SeqMonotonic
    <2> HIDE DEF S
    <2>7. /\ all2 \in Seq(S)
          /\ Len(all2) = Len(listed) + Len(ms)
          /\ \A i \in 1 .. Len(listed) + Len(ms) :
                all2[i] = IF i <= Len(listed) THEN listed[i] ELSE ms[i - Len(listed)]
        BY <2>6, ConcatProperties
    <2>8. /\ Len(listed) \in Nat /\ DOMAIN listed = 1 .. Len(listed)
          /\ Len(ms) \in Nat /\ DOMAIN ms = 1 .. Len(ms)
          /\ DOMAIN all2 = 1 .. Len(all2)
        BY <2>6, <2>7, LenProperties
    <2>9. low \in Nat /\ (ctx.num + 1) * NumberStride = low + 100
        BY <2>2 DEF NumberStride
    <2> HIDE DEF all2, low
    <2>10. ASSUME NEW i \in DOMAIN all2
           PROVE  \/ i \in DOMAIN listed /\ all2[i] = listed[i]
                  \/ /\ i - Len(listed) \in DOMAIN ms /\ i > Len(listed)
                     /\ all2[i] = ms[i - Len(listed)]
        BY <2>7, <2>8
    <2>11. \A i \in DOMAIN listed : listed[i].number \in Nat /\ listed[i].number < low
        BY DEF Numbered, low
    <2>12. \A i \in DOMAIN all2 : all2[i].number \in Nat /\ all2[i].number < low + 100
        <3> SUFFICES ASSUME NEW i \in DOMAIN all2
                     PROVE  all2[i].number \in Nat /\ all2[i].number < low + 100
            OBVIOUS
        <3> QED BY <2>3, <2>9, <2>10, <2>11
    <2>13. ASSUME NEW i \in DOMAIN all2, NEW j \in DOMAIN all2, i < j
           PROVE  all2[i].number < all2[j].number
        <3>0. i \in Nat /\ j \in Nat /\ Len(listed) \in Nat BY <2>7, <2>8
        <3>1. CASE i \in DOMAIN listed /\ j \in DOMAIN listed
            <4>1. i <= Len(listed) /\ j <= Len(listed) BY <2>8, <3>1
            <4>2. all2[i] = listed[i] /\ all2[j] = listed[j] BY <2>10, <4>1
            <4> QED BY <2>13, <3>1, <4>2 DEF Numbered, NumbersIncrease
        <3>2. CASE i \in DOMAIN listed /\ j \notin DOMAIN listed
            <4>1. all2[i].number < low
                <5>1. i <= Len(listed) BY <2>8, <3>2
                <5> QED BY <2>10, <2>11, <3>2, <5>1
            <4>2. all2[j].number \in Nat /\ all2[j].number >= low
                BY <2>3, <2>9, <2>10, <3>2
            <4>3. all2[i].number \in Nat BY <2>12
            <4> QED BY <2>9, <4>1, <4>2, <4>3
        <3>3. CASE i \notin DOMAIN listed
            <4>1. j \notin DOMAIN listed BY <2>8, <2>13, <3>0, <3>3, <2>7
            <4>2. all2[i].number = low + (i - Len(listed) - 1)
                BY <2>3, <2>10, <3>3
            <4>3. all2[j].number = low + (j - Len(listed) - 1)
                BY <2>3, <2>10, <4>1
            <4> QED BY <2>9, <2>13, <3>0, <4>2, <4>3
        <3> QED BY <3>1, <3>2, <3>3
    <2>14. ctx' \in Context /\ ctx'.num = ctx.num + 1 /\ ctx'.vers = <<>>
        <3>1. ctx' = [NewContext(TRUE) EXCEPT !.num = ctx.num + 1]
            BY <1>2, <2>1 DEF CompletePatch
        <3>2. ctx' \in Context BY <2>1, <2>2, CompleteType
        <3> QED BY <3>1, <3>2 DEF NewContext
    <2>15. Len(ctx'.vers) <= MaxAppVers
        BY <2>14, ModesAssumption DEF NumberStride
    <2>16. ctx'.num * NumberStride = low + 100 BY <2>9, <2>14
    <2> QED BY <2>1, <2>7, <2>12, <2>13, <2>14, <2>15, <2>16 DEF Numbered, NumbersIncrease
<1>3. CASE ctx.fields["title"] # Null /\ listed' = listed
    <2>1. ctx' = [NewContext(TRUE) EXCEPT !.num = ctx.num + 1]
        BY <1>0, <1>3 DEF CompletePatch
    <2>2. ctx \in Context /\ ctx.num \in Nat BY DEF Numbered, Context
    <2>3. ctx' \in Context BY <1>0, <1>3, <2>2, CompleteType
    <2>4. ctx'.num = ctx.num + 1 /\ ctx'.vers = <<>>
        BY <2>1 DEF NewContext
    <2>5. Len(ctx'.vers) <= MaxAppVers
        BY <2>4, ModesAssumption DEF NumberStride
    <2>6. ctx.num * 100 < ctx'.num * 100
        BY <2>2, <2>4
    <2>7. \A i \in DOMAIN listed : /\ listed[i].number \in Nat
                                   /\ listed[i].number < ctx'.num * 100
        BY <2>2, <2>4, <2>6 DEF Numbered, NumberStride
    <2> QED BY <1>3, <2>3, <2>5, <2>7 DEF Numbered, NumbersIncrease, NumberStride
<1> QED BY <1>0, <1>1, <1>2, <1>3

\* A line that does not complete a patch leaves the number and the list alone.
LEMMA LineStep ==
    ASSUME Numbered, NEW l \in Line, LineKey(l) # "patch",
           ctx' = ContextAfter(ctx, l, TRUE), UNCHANGED listed
    PROVE  Numbered'
<1>1. /\ l.value \in StringValue \cup {Null} /\ l.vers \in Seq(AppVersion)
      /\ Len(l.vers) <= MaxAppVers
    BY ModesAssumption
<1>2. ctx \in Context BY DEF Numbered
<1>3. ctx' \in Context BY <1>1, <1>2, AfterType
<1>4. /\ ctx'.num = ctx.num
      /\ ctx'.vers = ctx.vers \/ ctx'.vers = l.vers
    BY <1>2 DEF ContextAfter, Context, StringField
<1>5. Len(ctx'.vers) <= MaxAppVers BY <1>1, <1>4 DEF Numbered
<1> QED BY <1>3, <1>4, <1>5 DEF Numbered, NumbersIncrease

\* Two versions of patches of one file never get the same number, and the list
\* the application shows keeps the order of the file.
THEOREM NumbersAreUnique == Spec => []NumbersIncrease
<1>1. Init => Numbered
    <2> SUFFICES ASSUME Init PROVE Numbered
        OBVIOUS
    <2>1. ctx \in Context /\ ctx.vers = <<>>
        <3>1. ctx \in Context BY NewType DEF Init
        <3> QED BY <3>1 DEF Init, NewContext
    <2>2. Len(ctx.vers) <= MaxAppVers BY <2>1, ModesAssumption DEF NumberStride
    <2>3. listed = <<>> /\ DOMAIN listed = {} BY DEF Init
    <2>4. \E S : listed \in Seq(S)
        <3>1. listed \in Seq(Nat) BY <2>3
        <3> QED BY <3>1
    <2> QED BY <2>1, <2>2, <2>3, <2>4 DEF Numbered, NumbersIncrease
<1>2. Numbered /\ [Next]_vars => Numbered'
    <2> SUFFICES ASSUME Numbered, [Next]_vars PROVE Numbered'
        OBVIOUS
    <2>1. ASSUME NEW l \in Line, ProcessLine(l) PROVE Numbered'
        <3>1. CASE PatchLine(l) BY <3>1, CompleteStep DEF PatchLine
        <3>2. CASE FieldLine(l)
            BY <3>2, LineStep DEF FieldLine, StringField
        <3>3. CASE PatchesLine(l) BY <3>3, LineStep DEF PatchesLine
        <3>4. CASE EntryLine(l)
            BY <3>4 DEF EntryLine, Numbered, NumbersIncrease
        <3> QED BY <2>1, <3>1, <3>2, <3>3, <3>4 DEF ProcessLine
    <2>2. CASE Eof BY <2>2, CompleteStep DEF Eof
    <2>3. CASE UNCHANGED vars
        BY <2>3 DEF vars, Numbered, NumbersIncrease
    <2> QED BY <2>1, <2>2, <2>3 DEF Next
<1>3. Numbered => NumbersIncrease BY DEF Numbered
<1> QED BY <1>1, <1>2, <1>3, PTL DEF Spec

-----------------------------------------------------------------------------
(***************************************************************************)
(* The list and the sets computed from the same metadata.                  *)
(***************************************************************************)
LEMMA MetasSeq ==
    ASSUME NEW c \in Context, NEW T
    PROVE  Metas(c, T) \in Seq({Metas(c, T)[i] : i \in DOMAIN Metas(c, T)})
<1>1. PICK n \in Nat \ {0} : DOMAIN VersionSlots(c) = 1 .. n
    BY SlotsDomain
<1>2. Metas(c, T) = [i \in 1 .. n |-> MetaAt(c, T, i)]
    BY <1>1 DEF Metas
<1> DEFINE R == {Metas(c, T)[i] : i \in 1 .. n}
<1>3. \A i \in 1 .. n : Metas(c, T)[i] \in R
    OBVIOUS
<1>4. DOMAIN Metas(c, T) = 1 .. n
    BY <1>2
<1> HIDE DEF R
<1>5. Metas(c, T) \in [1 .. n -> R]
    BY <1>2, <1>3, <1>4
<1>6. Metas(c, T) \in Seq(R)
    BY <1>1, <1>5
<1> QED BY <1>4, <1>6 DEF R

\* What a concatenation holds.
Joined(u, s, t) == u = s \o t

LEMMA ConcatElements ==
    ASSUME NEW A, NEW s \in Seq(A), NEW t \in Seq(A), NEW u, Joined(u, s, t)
    PROVE  /\ \A i \in DOMAIN u : \/ \E j \in DOMAIN s : s[j] = u[i]
                                  \/ \E j \in DOMAIN t : t[j] = u[i]
           /\ \A j \in DOMAIN s : \E i \in DOMAIN u : u[i] = s[j]
           /\ \A j \in DOMAIN t : \E i \in DOMAIN u : u[i] = t[j]
<1>1. /\ Len(u) = Len(s) + Len(t)
      /\ \A i \in 1 .. Len(s) + Len(t) :
            u[i] = IF i <= Len(s) THEN s[i] ELSE t[i - Len(s)]
    BY ConcatProperties DEF Joined
<1>2. /\ Len(s) \in Nat /\ DOMAIN s = 1 .. Len(s)
      /\ Len(t) \in Nat /\ DOMAIN t = 1 .. Len(t)
      /\ DOMAIN u = 1 .. Len(s) + Len(t)
    BY <1>1, ConcatProperties, LenProperties DEF Joined
<1>3. ASSUME NEW i \in DOMAIN u
      PROVE  (\E j \in DOMAIN s : s[j] = u[i]) \/ (\E j \in DOMAIN t : t[j] = u[i])
    <2>1. CASE i <= Len(s)
        BY <2>1, <1>1, <1>2
    <2>2. CASE ~(i <= Len(s))
        <3>1. i - Len(s) \in DOMAIN t /\ u[i] = t[i - Len(s)]
            BY <2>2, <1>1, <1>2
        <3> QED BY <3>1
    <2> QED BY <2>1, <2>2
<1>4. ASSUME NEW j \in DOMAIN s PROVE \E i \in DOMAIN u : u[i] = s[j]
    <2>1. j \in DOMAIN u /\ u[j] = s[j]
        BY <1>1, <1>2
    <2> QED BY <2>1
<1>5. ASSUME NEW j \in DOMAIN t PROVE \E i \in DOMAIN u : u[i] = t[j]
    <2>1. j + Len(s) \in DOMAIN u /\ u[j + Len(s)] = t[j]
        BY <1>1, <1>2
    <2> QED BY <2>1
<1> QED BY <1>3, <1>4, <1>5

\* What PARSE_MODE_METADATA adds to its list when a patch is over.
LEMMA ListedGrows ==
    ASSUME ctx \in Context, NEW S, listed \in Seq(S), Complete,
           ctx.fields["title"] # Null, "metadata" \notin faulted'
    PROVE  LET ms == Metas(ctx, NoneOn) IN
           /\ \E T : listed' \in Seq(T)
           /\ \A i \in DOMAIN listed' : \/ \E j \in DOMAIN listed : listed[j] = listed'[i]
                                       \/ \E j \in DOMAIN ms : ms[j] = listed'[i]
           /\ \A j \in DOMAIN listed : \E i \in DOMAIN listed' : listed'[i] = listed[j]
           /\ \A j \in DOMAIN ms : \E i \in DOMAIN listed' : listed'[i] = ms[j]
<1>1. listed' = listed \o Metas(ctx, NoneOn)
    BY DEF Complete
<1>2. Metas(ctx, NoneOn) \in Seq({Metas(ctx, NoneOn)[i] : i \in DOMAIN Metas(ctx, NoneOn)})
    BY MetasSeq
<1> DEFINE ms == Metas(ctx, NoneOn)
           R == {ms[i] : i \in DOMAIN ms}
<1>3. ms \in Seq(R)
    BY <1>2
<1> HIDE DEF ms, R
<1>4. listed' = listed \o ms
    BY <1>1 DEF ms
<1>5. /\ \E T : listed' \in Seq(T)
      /\ \A i \in DOMAIN listed' : \/ \E j \in DOMAIN listed : listed[j] = listed'[i]
                                  \/ \E j \in DOMAIN ms : ms[j] = listed'[i]
      /\ \A j \in DOMAIN listed : \E i \in DOMAIN listed' : listed'[i] = listed[j]
      /\ \A j \in DOMAIN ms : \E i \in DOMAIN listed' : listed'[i] = ms[j]
    <2>1. PICK u : u = listed'
        OBVIOUS
    <2>2. PICK v : v = listed
        OBVIOUS
    <2>3. PICK w : w = ms
        OBVIOUS
    <2>4. PICK T : T = S \cup R
        OBVIOUS
    <2>5. v \in Seq(T) /\ w \in Seq(T) /\ Joined(u, v, w) /\ u \in Seq(T)
        <3>1. v \in Seq(T) /\ w \in Seq(T) /\ u = v \o w
            BY <1>3, <1>4, <2>1, <2>2, <2>3, <2>4, SeqMonotonic
        <3> QED BY <3>1, ConcatProperties DEF Joined
    <2>6. /\ \A i \in DOMAIN u : \/ \E j \in DOMAIN v : v[j] = u[i]
                                \/ \E j \in DOMAIN w : w[j] = u[i]
          /\ \A j \in DOMAIN v : \E i \in DOMAIN u : u[i] = v[j]
          /\ \A j \in DOMAIN w : \E i \in DOMAIN u : u[i] = w[j]
        BY <2>5, ConcatElements
    <2> QED BY <2>1, <2>2, <2>3, <2>4, <2>5, <2>6
<1> QED BY <1>5 DEF ms

-----------------------------------------------------------------------------
\* What the two modes of the application collect, on any file.
Collected ==
    /\ ctx \in Context
    /\ \E S : listed \in Seq(S)
    /\ FetchedIsListed

LEMMA CompleteCollects == Collected /\ Complete => Collected'
<1> SUFFICES ASSUME Collected, Complete PROVE Collected'
    OBVIOUS
<1>1. CASE ctx.fields["title"] = Null
    BY <1>1 DEF Complete, Collected, FetchedIsListed
<1>2. CASE ctx.fields["title"] # Null
    <2> DEFINE ms == Metas(ctx, NoneOn)
    <2>1. /\ ctx' = CompletePatch(ctx, TRUE) /\ faulted \subseteq faulted'
          /\ "metadata" \in faulted' => listed' = listed
          /\ all' = all \/ all' = all \cup Fetched
        BY <1>2 DEF Complete
    <2>2. ctx' \in Context
        BY <2>1, CompleteType DEF Collected
    <2>3. PICK S : listed \in Seq(S)
        BY DEF Collected
    <2>4. CASE "metadata" \in faulted'
        <3>1. \E T : listed' \in Seq(T)
            BY <2>1, <2>3, <2>4
        <3> QED BY <2>2, <2>4, <3>1 DEF Collected, FetchedIsListed
    <2>5. CASE "metadata" \notin faulted'
        <3>1. /\ \E T : listed' \in Seq(T)
              /\ \A j \in DOMAIN listed : \E i \in DOMAIN listed' : listed'[i] = listed[j]
              /\ \A j \in DOMAIN ms : \E i \in DOMAIN listed' : listed'[i] = ms[j]
            BY <1>2, <2>3, <2>5, ListedGrows DEF Collected
        <3>2. ASSUME NEW p \in all'
              PROVE  \E i \in DOMAIN listed' : listed'[i] = p.meta /\ listed'[i].matches
            <4>1. CASE p \in all
                <5>1. PICK i \in DOMAIN listed : listed[i] = p.meta /\ listed[i].matches
                    BY <2>1, <2>5, <4>1 DEF Collected, FetchedIsListed
                <5>2. \E j \in DOMAIN listed' : listed'[j] = listed[i]
                    BY <3>1
                <5> QED BY <5>1, <5>2
            <4>2. CASE p \in Fetched
                <5>1. PICK k \in DOMAIN ms : ms[k].matches /\ p.meta = ms[k]
                    BY <4>2 DEF Fetched
                <5>2. \E j \in DOMAIN listed' : listed'[j] = ms[k]
                    BY <3>1
                <5> QED BY <5>1, <5>2
            <4> QED BY <2>1, <3>2, <4>1, <4>2
        <3> QED BY <2>2, <3>1, <3>2 DEF Collected, FetchedIsListed
    <2> QED BY <2>4, <2>5
<1> QED BY <1>1, <1>2

\* On every file, what the application fetches with its entries is a match it lists
\* as well, unless the listing has broken down.
THEOREM FetchedIsAlwaysListed == Spec => []FetchedIsListed
<1>1. Init => Collected
    <2> SUFFICES ASSUME Init PROVE Collected
        OBVIOUS
    <2>1. ctx \in Context
        BY NewType DEF Init
    <2>2. listed \in Seq(Nat) /\ all = {}
        BY DEF Init
    <2> QED BY <2>1, <2>2 DEF Collected, FetchedIsListed
<1>2. Collected /\ [Next]_vars => Collected'
    <2> SUFFICES ASSUME Collected, [Next]_vars PROVE Collected'
        OBVIOUS
    <2>1. ASSUME NEW l \in Line, ProcessLine(l) PROVE Collected'
        <3>0. l.value \in StringValue \cup {Null} /\ l.vers \in Seq(AppVersion)
            BY ModesAssumption
        <3>1. CASE PatchLine(l) BY <3>1, CompleteCollects DEF PatchLine
        <3>2. CASE FieldLine(l)
            BY <3>0, <3>2, AfterType DEF FieldLine, Collected, FetchedIsListed
        <3>3. CASE PatchesLine(l)
            <4>1. /\ ctx' = ContextAfter(ctx, l, TRUE) /\ UNCHANGED <<listed, all>>
                  /\ faulted \subseteq faulted'
                BY <3>3 DEF PatchesLine
            <4> QED BY <3>0, <4>1, AfterType DEF Collected, FetchedIsListed
        <3>4. CASE EntryLine(l)
            BY <3>4 DEF EntryLine, Collected, FetchedIsListed
        <3> QED BY <2>1, <3>1, <3>2, <3>3, <3>4 DEF ProcessLine
    <2>2. CASE Eof BY <2>2, CompleteCollects DEF Eof
    <2>3. CASE UNCHANGED vars
        BY <2>3 DEF vars, Collected, FetchedIsListed
    <2> QED BY <2>1, <2>2, <2>3 DEF Next
<1>3. Collected => FetchedIsListed BY DEF Collected
<1> QED BY <1>1, <1>2, <1>3, PTL DEF Spec

-----------------------------------------------------------------------------
(***************************************************************************)
(* Well-formed files.  A title in the context is that of the section being *)
(* read, and between its "patches:" and the next "patch:" the patch does   *)
(* not change: what the game looks up and which entries it has are those   *)
(* of the patch that will be complete.  A section without a title changes  *)
(* the context of the next one, but is on record as untitled.              *)
(***************************************************************************)
OwnHashes == {Metas(ctx, NoneOn)[i].hash : i \in DOMAIN Metas(ctx, NoneOn)}
ListedHashes == {listed[i].hash : i \in DOMAIN listed}
Sound == faulted \cap {"metadata", "game"} = {}

\* The section being read and the context.
Sections ==
    /\ ctx \in Context
    /\ ctx.fields["title"] # Null <=> "title" \in heard
    /\ ctx.fields["title"] # Null => titled = mark
    /\ "patches" \in heard => ctx.inPatches
    /\ "patches" \in heard /\ "title" \notin heard => mark \in untitled

\* Every entry line of the section is in current_entries, and the others there are
\* of untitled sections.
Entries ==
    /\ mark \in Nat
    /\ owner \in Seq(Nat) /\ entries \in Seq(Nat)
    /\ \A k \in DOMAIN owner :
          /\ owner[k] <= mark
          /\ owner[k] = mark => /\ "patches" \in heard
                                /\ \E i \in DOMAIN entries : entries[i] = k
    /\ \A i \in DOMAIN entries : /\ entries[i] \in DOMAIN owner
                                 /\ owner[entries[i]] \in {mark} \cup untitled
    /\ \A p \in all : /\ p.of \in Nat /\ p.of < mark
                      /\ \A i \in DOMAIN p.entries : p.entries[i] \in DOMAIN owner

\* What the game has looked up.
Hashes ==
    /\ ListedHashes \subseteq queried
    /\ "patches" \in heard => OwnHashes \subseteq queried
    /\ untitled = {} =>
          queried = ListedHashes \cup (IF "patches" \in heard THEN OwnHashes ELSE {})

Reading ==
    /\ \E S : listed \in Seq(S)
    /\ Sections
    /\ Entries
    /\ Sound => Hashes

WellFormed ==
    /\ pc \in {"reading", "done"}
    /\ pc = "reading" => Reading
    /\ AppAndGameAgree
    /\ EntriesOfOnePatch

LEMMA InitWellFormed == Init => WellFormed
<1> SUFFICES ASSUME Init PROVE WellFormed
    OBVIOUS
<1>1. /\ listed = <<>> /\ all = {} /\ queried = {} /\ mark = 0 /\ owner = <<>>
      /\ entries = <<>> /\ pc = "reading" /\ heard = {} /\ ctx = NewContext(TRUE)
      /\ untitled = {}
    BY DEF Init
<1>2. ctx \in Context /\ ctx.fields["title"] = Null
    BY <1>1, NewType DEF NewContext, NoFields, StringField
<1>3. listed \in Seq(Nat) /\ owner \in Seq(Nat) /\ entries \in Seq(Nat)
    BY <1>1
<1>4. Sections BY <1>1, <1>2 DEF Sections
<1>5. Entries BY <1>1, <1>3 DEF Entries
<1>6. ListedHashes = {} BY <1>1 DEF ListedHashes
<1>7. Hashes BY <1>1, <1>6 DEF Hashes
<1>8. Reading BY <1>3, <1>4, <1>5, <1>7 DEF Reading
<1>9. AppAndGameAgree /\ EntriesOfOnePatch
    BY <1>1 DEF AppAndGameAgree, EntriesOfOnePatch
<1> QED BY <1>1, <1>8, <1>9 DEF WellFormed

\* The hash of a version, as the game computes it.
LEMMA HashesAreOwn == OwnHashes = {CalculateHash(ctx, i) : i \in DOMAIN VersionSlots(ctx)}
BY DEF OwnHashes, Metas, MetaAt

\* Agreement at the end of a file follows from what was looked up before.
LEMMA AgreeAtEnd ==
    ASSUME Sound => /\ ListedHashes \subseteq queried
                    /\ untitled = {} => queried = ListedHashes
    PROVE  AppAndGameAgree
BY DEF AppAndGameAgree, Sound, ListedHashes

\* A section without a title leaves everything to the next one.
LEMMA UntitledWellFormed ==
    ASSUME WellFormed, pc = "reading", ctx.fields["title"] = Null,
           UNCHANGED <<ctx, listed, entries, all, faulted>>,
           UNCHANGED <<queried, owner, titled, untitled>>,
           "patches" \in heard \/ heard = {},
           \/ pc' = "reading" /\ mark' = mark + 1 /\ heard' = {}
           \/ pc' = "done" /\ mark' = mark /\ heard' = heard
    PROVE  WellFormed'
<1>1. Sections /\ Entries /\ (Sound => Hashes) /\ \E S : listed \in Seq(S)
    BY DEF WellFormed, Reading
<1>2. "title" \notin heard BY <1>1 DEF Sections
<1>3. EntriesOfOnePatch' BY DEF WellFormed, EntriesOfOnePatch
<1>4. ListedHashes' = ListedHashes /\ OwnHashes' = OwnHashes /\ Sound' = Sound
    BY DEF ListedHashes, OwnHashes, Sound
<1>5. untitled = {} => "patches" \notin heard
    BY <1>1, <1>2 DEF Sections
<1>6. Sound => /\ ListedHashes \subseteq queried
               /\ untitled = {} => queried = ListedHashes
    BY <1>1, <1>5 DEF Hashes
<1>7. CASE pc' = "reading"
    <2>1. mark' = mark + 1 /\ heard' = {} BY <1>7
    <2>2. Sections' BY <1>1, <1>2, <2>1 DEF Sections
    <2>3. Entries'
        <3>1. mark' \in Nat /\ mark < mark' BY <1>1, <2>1 DEF Entries
        <3>2. \A k \in DOMAIN owner : owner[k] \in Nat /\ owner[k] < mark'
            BY <1>1, <2>1 DEF Entries
        <3>3. \A i \in DOMAIN entries : owner[entries[i]] \in untitled
            BY <1>1, <1>2 DEF Entries, Sections
        <3>4. \A p \in all : p.of \in Nat /\ p.of < mark'
            BY <1>1, <2>1 DEF Entries
        <3> QED BY <1>1, <3>1, <3>2, <3>3, <3>4 DEF Entries
    <2>4. Sound' => Hashes' BY <1>4, <1>6, <2>1 DEF Hashes
    <2>5. Reading' BY <1>1, <2>2, <2>3, <2>4 DEF Reading
    <2>6. AppAndGameAgree' BY <1>7 DEF AppAndGameAgree
    <2> QED BY <1>3, <1>7, <2>5, <2>6 DEF WellFormed
<1>8. CASE pc' = "done"
    <2>1. AppAndGameAgree' BY <1>4, <1>6, AgreeAtEnd DEF AppAndGameAgree, Sound, ListedHashes
    <2> QED BY <1>3, <1>8, <2>1 DEF WellFormed
<1> QED BY <1>7, <1>8

\* What is listed when a titled patch is over are the hashes that were looked up.
LEMMA CompleteLists ==
    ASSUME ctx \in Context, NEW S, listed \in Seq(S), Complete,
           ctx.fields["title"] # Null
    PROVE  /\ \E T : listed' \in Seq(T)
           /\ Sound' => Sound /\ ListedHashes' = ListedHashes \cup OwnHashes
<1> DEFINE ms == Metas(ctx, NoneOn)
<1>1. /\ faulted \subseteq faulted'
      /\ "metadata" \in faulted' => listed' = listed
    BY DEF Complete
<1>2. CASE "metadata" \in faulted'
    BY <1>1, <1>2 DEF Sound
<1>3. CASE "metadata" \notin faulted'
    <2>1. /\ \E T : listed' \in Seq(T)
          /\ \A i \in DOMAIN listed' : \/ \E j \in DOMAIN listed : listed[j] = listed'[i]
                                      \/ \E j \in DOMAIN ms : ms[j] = listed'[i]
          /\ \A j \in DOMAIN listed : \E i \in DOMAIN listed' : listed'[i] = listed[j]
          /\ \A j \in DOMAIN ms : \E i \in DOMAIN listed' : listed'[i] = ms[j]
        BY <1>3, ListedGrows
    <2> HIDE DEF ms
    <2>2. {listed'[i].hash : i \in DOMAIN listed'}
            = {listed[i].hash : i \in DOMAIN listed} \cup {ms[i].hash : i \in DOMAIN ms}
        BY <2>1
    <2>3. ListedHashes' = ListedHashes \cup OwnHashes
        BY <2>2 DEF ListedHashes, OwnHashes, ms
    <2> QED BY <1>1, <2>1, <2>3 DEF Sound
<1> QED BY <1>2, <1>3

\* A patch with a title that is over takes its own entries along.
LEMMA TitledWellFormed ==
    ASSUME WellFormed, pc = "reading", Complete, ctx.fields["title"] # Null,
           UNCHANGED <<queried, owner, titled, untitled>>,
           "patches" \in heard \/ heard = {},
           \/ pc' = "reading" /\ mark' = mark + 1 /\ heard' = {}
           \/ pc' = "done" /\ mark' = mark /\ heard' = heard
    PROVE  WellFormed'
<1>1. Sections /\ Entries /\ (Sound => Hashes) /\ \E S : listed \in Seq(S)
    BY DEF WellFormed, Reading
<1>2. /\ ctx' = CompletePatch(ctx, TRUE) /\ entries' = <<>>
      /\ all' = all \/ all' = all \cup Fetched
    BY DEF Complete
<1>3. "patches" \in heard /\ "title" \in heard /\ titled = mark
    BY <1>1 DEF Sections
<1>4. /\ \E T : listed' \in Seq(T)
      /\ Sound' => Sound /\ ListedHashes' = ListedHashes \cup OwnHashes
    BY <1>1, CompleteLists DEF Sections
<1>5. Sound' => /\ ListedHashes' \subseteq queried'
                /\ untitled' = {} => queried' = ListedHashes'
    BY <1>1, <1>3, <1>4 DEF Hashes
<1>6. \A p \in Fetched : p.entries = entries /\ p.of = mark
    BY <1>3 DEF Fetched
<1>7. EntriesOfOnePatch'
    <2> SUFFICES ASSUME NEW p \in all'
                 PROVE  /\ \A k \in DOMAIN owner : owner[k] = p.of =>
                              \E i \in DOMAIN p.entries : p.entries[i] = k
                        /\ \A i \in DOMAIN p.entries :
                              owner[p.entries[i]] \in {p.of} \cup untitled
        BY DEF EntriesOfOnePatch
    <2>1. CASE p \in all
        BY <2>1 DEF WellFormed, EntriesOfOnePatch
    <2>2. CASE p \in Fetched
        BY <1>1, <1>6, <2>2 DEF Entries
    <2> QED BY <1>2, <2>1, <2>2
<1>8. CASE pc' = "reading"
    <2>1. mark' = mark + 1 /\ heard' = {} BY <1>8
    <2>2. Sections'
        <3>1. ctx' \in Context BY <1>1, <1>2, CompleteType DEF Sections
        <3>2. ctx'.fields["title"] = Null
            BY <1>2 DEF CompletePatch, NewContext, NoFields, StringField
        <3> QED BY <2>1, <3>1, <3>2 DEF Sections
    <2>3. Entries'
        <3>1. mark' \in Nat /\ mark < mark' BY <1>1, <2>1 DEF Entries
        <3>2. \A k \in DOMAIN owner : owner[k] \in Nat /\ owner[k] < mark'
            BY <1>1, <2>1 DEF Entries
        <3>3. \A p \in all' : /\ p.of \in Nat /\ p.of < mark'
                              /\ \A i \in DOMAIN p.entries : p.entries[i] \in DOMAIN owner
            BY <1>1, <1>2, <1>6, <2>1 DEF Entries
        <3>4. entries' \in Seq(Nat) /\ DOMAIN entries' = {} BY <1>2
        <3> QED BY <1>1, <3>1, <3>2, <3>3, <3>4 DEF Entries
    <2>4. Sound' => Hashes' BY <1>5, <2>1 DEF Hashes
    <2>5. Reading' BY <1>4, <2>2, <2>3, <2>4 DEF Reading
    <2>6. AppAndGameAgree' BY <1>8 DEF AppAndGameAgree
    <2> QED BY <1>7, <1>8, <2>5, <2>6 DEF WellFormed
<1>9. CASE pc' = "done"
    <2>1. AppAndGameAgree' BY <1>5, AgreeAtEnd DEF AppAndGameAgree, Sound, ListedHashes
    <2> QED BY <1>7, <1>9, <2>1 DEF WellFormed
<1> QED BY <1>8, <1>9

LEMMA CompleteWellFormed ==
    ASSUME WellFormed, pc = "reading", Complete,
           UNCHANGED <<queried, owner, titled, untitled>>,
           "patches" \in heard \/ heard = {},
           \/ pc' = "reading" /\ mark' = mark + 1 /\ heard' = {}
           \/ pc' = "done" /\ mark' = mark /\ heard' = heard
    PROVE  WellFormed'
<1>1. CASE ctx.fields["title"] = Null
    <2>1. UNCHANGED <<ctx, listed, entries, all, faulted>>
        BY <1>1 DEF Complete
    <2> QED BY <1>1, <2>1, UntitledWellFormed
<1>2. CASE ctx.fields["title"] # Null
    BY <1>2, TitledWellFormed
<1> QED BY <1>1, <1>2

\* Lines that leave the entries and the lists alone.
LEMMA KeptWellFormed ==
    ASSUME WellFormed, pc = "reading", Sections', Sound' => Sound /\ Hashes',
           UNCHANGED <<pc, listed, entries, all, mark, owner>>,
           heard \subseteq heard', untitled \subseteq untitled'
    PROVE  WellFormed'
<1>1. Entries' BY DEF WellFormed, Reading, Entries
<1>2. EntriesOfOnePatch' BY DEF WellFormed, EntriesOfOnePatch
<1>3. AppAndGameAgree' BY DEF AppAndGameAgree
<1> QED BY <1>1, <1>2, <1>3 DEF WellFormed, Reading

LEMMA FieldWellFormed ==
    ASSUME WellFormed, NEW l \in Line, FieldLine(l), WellPlaced(l), pc = "reading"
    PROVE  WellFormed'
<1>1. /\ ctx' = ContextAfter(ctx, l, TRUE)
      /\ titled' = IF LineKey(l) = "title" THEN mark ELSE titled
      /\ heard' = heard \cup ({LineKey(l)} \ {"titleid", "none"})
      /\ UNCHANGED <<pc, listed, entries, all, faulted, queried, mark, owner, untitled>>
    BY DEF FieldLine
<1>2. Sections /\ (Sound => Hashes) BY DEF WellFormed, Reading
<1>3. ctx' \in Context
    BY <1>1, <1>2, AfterType, ModesAssumption DEF Sections
<1>4. ListedHashes' = ListedHashes /\ Sound' = Sound
    BY <1>1 DEF ListedHashes, Sound
<1>5. CASE LineKey(l) \in StringField \cup {"app_ver"}
    <2>1. "patches" \notin heard /\ "patches" \notin heard'
        BY <1>1, <1>5 DEF WellPlaced, StringField
    <2>2. CASE LineKey(l) = "title"
        <3>1. l.value # Null BY <2>2 DEF WellPlaced, StringField
        <3>2. ctx'.fields["title"] # Null
            BY <1>1, <1>2, <2>2, <3>1 DEF ContextAfter, StringField, Sections, Context
        <3> QED BY <1>1, <1>2, <1>3, <1>4, <2>1, <2>2, <3>2, KeptWellFormed
                DEF Sections, Hashes
    <2>3. CASE LineKey(l) # "title"
        <3>1. ctx'.fields["title"] = ctx.fields["title"]
            BY <1>1, <1>2, <1>5, <2>3 DEF ContextAfter, StringField, Sections, Context
        <3>2. Sections' BY <1>1, <1>2, <1>3, <2>1, <2>3, <3>1 DEF Sections
        <3>3. Sound' => Sound /\ Hashes' BY <1>1, <1>2, <1>4, <2>1 DEF Hashes
        <3> QED BY <1>1, <3>2, <3>3, KeptWellFormed
    <2> QED BY <2>2, <2>3
<1>6. CASE LineKey(l) \in {"titleid", "none"}
    <2>1. ctx' = ctx /\ heard' = heard /\ titled' = titled
        BY <1>1, <1>6 DEF ContextAfter, StringField
    <2>2. OwnHashes' = OwnHashes BY <2>1 DEF OwnHashes
    <2>3. Sections' BY <1>1, <1>2, <2>1 DEF Sections
    <2>4. Sound' => Sound /\ Hashes' BY <1>1, <1>2, <1>4, <2>1, <2>2 DEF Hashes
    <2> QED BY <1>1, <2>1, <2>3, <2>4, KeptWellFormed
<1> QED BY <1>5, <1>6 DEF FieldLine

LEMMA PatchesWellFormed ==
    ASSUME WellFormed, NEW l \in Line, PatchesLine(l), WellPlaced(l), pc = "reading"
    PROVE  WellFormed'
<1>1. /\ LineKey(l) = "patches"
      /\ ctx' = ContextAfter(ctx, l, TRUE)
      /\ faulted' = faulted \cup IF MetaFaults(ctx) THEN {"game"} ELSE {}
      /\ queried' = IF "game" \in faulted' THEN queried
                    ELSE queried \cup {CalculateHash(ctx, i) : i \in DOMAIN VersionSlots(ctx)}
      /\ untitled' = IF "title" \in heard THEN untitled ELSE untitled \cup {mark}
      /\ heard' = heard \cup {"patches"}
      /\ UNCHANGED <<pc, listed, entries, all, mark, owner, titled>>
    BY DEF PatchesLine, PatchesHeard
<1>2. Sections /\ (Sound => Hashes) BY DEF WellFormed, Reading
<1>3. "patches" \notin heard
    BY <1>1 DEF WellPlaced, StringField
<1>4. ctx' = [ctx EXCEPT !.inPatches = TRUE]
    BY <1>1 DEF ContextAfter, StringField
<1>5. /\ ctx' \in Context /\ ctx'.inPatches
      /\ ctx'.num = ctx.num /\ ctx'.fields = ctx.fields /\ ctx'.vers = ctx.vers
    <2>1. ctx' \in Context
        BY <1>1, <1>2, AfterType, ModesAssumption DEF Sections
    <2> QED BY <1>2, <1>4, <2>1 DEF Sections, Context
<1>6. Sections' BY <1>1, <1>2, <1>5 DEF Sections
<1>7. VersionSlots(ctx') = VersionSlots(ctx)
    BY <1>5 DEF VersionSlots
<1>8. \A i : CalculateHash(ctx', i) = CalculateHash(ctx, i)
    BY <1>5, <1>7 DEF CalculateHash, Number
<1>9. OwnHashes' = OwnHashes
    <2>1. {CalculateHash(ctx', i) : i \in DOMAIN VersionSlots(ctx')}
            = {CalculateHash(ctx, i) : i \in DOMAIN VersionSlots(ctx)}
        BY <1>7, <1>8
    <2>2. OwnHashes' = {CalculateHash(ctx', i) : i \in DOMAIN VersionSlots(ctx')}
        BY DEF OwnHashes, Metas, MetaAt
    <2> QED BY <2>1, <2>2, HashesAreOwn
<1>10. Sound' => Sound /\ Hashes'
    <2>1. Sound' => "game" \notin faulted' /\ Sound
        BY <1>1 DEF Sound
    <2>2. Sound' => queried' = queried \cup OwnHashes
        BY <1>1, <2>1, HashesAreOwn
    <2>3. ListedHashes' = ListedHashes
        BY <1>1 DEF ListedHashes
    <2>4. untitled' = {} => untitled = {} BY <1>1
    <2> QED BY <1>1, <1>2, <1>3, <1>9, <2>1, <2>2, <2>3, <2>4 DEF Hashes
<1>11. heard \subseteq heard' /\ untitled \subseteq untitled'
    BY <1>1
<1> QED BY <1>1, <1>6, <1>10, <1>11, KeptWellFormed

LEMMA EntryWellFormed ==
    ASSUME WellFormed, NEW l \in Line, EntryLine(l), WellPlaced(l), pc = "reading"
    PROVE  WellFormed'
<1>1. /\ LineKey(l) = "entry"
      /\ owner' = Append(owner, mark)
      /\ entries' = IF ctx.inPatches THEN Append(entries, Len(owner')) ELSE entries
      /\ UNCHANGED <<pc, ctx, listed, all, faulted, queried, mark, titled, untitled, heard>>
    BY DEF EntryLine
<1>2. Sections /\ Entries /\ (Sound => Hashes) /\ \E S : listed \in Seq(S)
    BY DEF WellFormed, Reading
<1>3. "patches" \in heard /\ ctx.inPatches
    BY <1>1, <1>2 DEF WellPlaced, StringField, Sections
<1> DEFINE n == Len(owner) + 1
<1>4. /\ n \in Nat /\ DOMAIN owner' = DOMAIN owner \cup {n} /\ n \notin DOMAIN owner
      /\ owner'[n] = mark /\ \A k \in DOMAIN owner : owner'[k] = owner[k]
      /\ owner' \in Seq(Nat) /\ Len(owner') = n
    BY <1>1, <1>2 DEF Entries
<1> DEFINE m == Len(entries) + 1
<1>5. /\ DOMAIN entries' = DOMAIN entries \cup {m} /\ m \notin DOMAIN entries
      /\ entries'[m] = n /\ \A i \in DOMAIN entries : entries'[i] = entries[i]
      /\ entries' \in Seq(Nat)
    BY <1>1, <1>2, <1>3, <1>4 DEF Entries
<1> HIDE DEF n, m
<1>6. Entries'
    <2>1. \A k \in DOMAIN owner' :
              /\ owner'[k] <= mark
              /\ owner'[k] = mark => \E i \in DOMAIN entries' : entries'[i] = k
        BY <1>2, <1>4, <1>5 DEF Entries
    <2>2. \A i \in DOMAIN entries' : /\ entries'[i] \in DOMAIN owner'
                                     /\ owner'[entries'[i]] \in {mark} \cup untitled
        BY <1>2, <1>4, <1>5 DEF Entries
    <2>3. \A p \in all : /\ p.of \in Nat /\ p.of < mark
                         /\ \A i \in DOMAIN p.entries : p.entries[i] \in DOMAIN owner'
        BY <1>2, <1>4 DEF Entries
    <2> QED BY <1>1, <1>2, <1>3, <1>4, <1>5, <2>1, <2>2, <2>3 DEF Entries
<1>7. EntriesOfOnePatch'
    <2> SUFFICES ASSUME NEW p \in all
                 PROVE  /\ \A k \in DOMAIN owner' : owner'[k] = p.of =>
                              \E i \in DOMAIN p.entries : p.entries[i] = k
                        /\ \A i \in DOMAIN p.entries :
                              owner'[p.entries[i]] \in {p.of} \cup untitled
        BY <1>1 DEF EntriesOfOnePatch
    <2>1. p.of \in Nat /\ p.of < mark /\ mark \in Nat
          /\ \A i \in DOMAIN p.entries : p.entries[i] \in DOMAIN owner
        BY <1>2 DEF Entries
    <2> QED BY <1>4, <2>1 DEF WellFormed, EntriesOfOnePatch
<1>8. ListedHashes' = ListedHashes /\ Sound' = Sound /\ OwnHashes' = OwnHashes
    BY <1>1 DEF ListedHashes, Sound, OwnHashes
<1>9. Sections' BY <1>1, <1>2 DEF Sections
<1>10. Sound' => Hashes' BY <1>1, <1>2, <1>8 DEF Hashes
<1>11. Reading' BY <1>1, <1>2, <1>6, <1>9, <1>10 DEF Reading
<1>12. AppAndGameAgree' BY <1>1 DEF AppAndGameAgree
<1> QED BY <1>1, <1>7, <1>11, <1>12 DEF WellFormed

LEMMA NextWellFormed == WellFormed /\ [WellFormedNext]_vars => WellFormed'
<1> SUFFICES ASSUME WellFormed, [WellFormedNext]_vars PROVE WellFormed'
    OBVIOUS
<1>1. ASSUME NEW l \in Line, WellPlaced(l), ProcessLine(l) PROVE WellFormed'
    <2>0. pc = "reading"
        BY <1>1 DEF ProcessLine
    <2>1. CASE PatchLine(l)
        <3>1. /\ LineKey(l) = "patch" /\ Complete /\ mark' = mark + 1 /\ heard' = {}
              /\ UNCHANGED <<pc, queried, owner, titled, untitled>>
            BY <2>1 DEF PatchLine
        <3>2. "patches" \in heard \/ heard = {}
            BY <1>1, <3>1 DEF WellPlaced, StringField
        <3> QED BY <2>0, <3>1, <3>2, CompleteWellFormed
    <2>2. CASE FieldLine(l) BY <1>1, <2>0, <2>2, FieldWellFormed
    <2>3. CASE PatchesLine(l) BY <1>1, <2>0, <2>3, PatchesWellFormed
    <2>4. CASE EntryLine(l) BY <1>1, <2>0, <2>4, EntryWellFormed
    <2> QED BY <1>1, <2>1, <2>2, <2>3, <2>4 DEF ProcessLine
<1>2. CASE ("patches" \in heard \/ heard = {}) /\ Eof
    BY <1>2, CompleteWellFormed DEF Eof, lines
<1>3. CASE UNCHANGED vars
    <2>1. ListedHashes' = ListedHashes /\ Sound' = Sound /\ OwnHashes' = OwnHashes
        BY <1>3 DEF vars, ListedHashes, Sound, OwnHashes
    <2>2. /\ Sections' = Sections /\ Entries' = Entries
          /\ AppAndGameAgree' = AppAndGameAgree /\ EntriesOfOnePatch' = EntriesOfOnePatch
        BY <1>3 DEF vars, lines, Sections, Entries, AppAndGameAgree, EntriesOfOnePatch
    <2>3. Hashes' = Hashes BY <1>3, <2>1 DEF vars, lines, Hashes
    <2> QED BY <1>3, <2>1, <2>2, <2>3 DEF vars, WellFormed, Reading
<1> QED BY <1>1, <1>2, <1>3 DEF WellFormedNext

\* On a well-formed file on which neither breaks down, the game looks up every hash
\* the application lists, and no other if every section has its title.
THEOREM AppAndGameAlwaysAgree == WellFormedSpec => []AppAndGameAgree
<1>1. WellFormed => AppAndGameAgree
    BY DEF WellFormed
<1> QED BY <1>1, InitWellFormed, NextWellFormed, PTL DEF WellFormedSpec

\* On a well-formed file, a fetched patch has all the entries of its own section,
\* and others only from sections without a title.
THEOREM EntriesAreItsOwn == WellFormedSpec => []EntriesOfOnePatch
<1>1. WellFormed => EntriesOfOnePatch
    BY DEF WellFormed
<1> QED BY <1>1, InitWellFormed, NextWellFormed, PTL DEF WellFormedSpec
=============================================================================

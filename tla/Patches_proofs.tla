--------------------------- MODULE Patches_proofs ---------------------------
(***************************************************************************)
(* Theorems about the patches of a file: LowMemRun, which entries are      *)
(* applied, and PatchEntry, what applying one does to the game; for every  *)
(* patch file, every settings file, every entry and every value of the     *)
(* constants.                                                              *)
(***************************************************************************)
EXTENDS LowMemRun, PatchEntry, SequenceTheorems, FiniteSetTheorems, WellFoundedInduction,
        TLAPS

-----------------------------------------------------------------------------
(***************************************************************************)
(* The shared part of the context.                                         *)
(***************************************************************************)
\* A patch always has at least one version slot, and they are numbered from 1.
LEMMA SlotsDomain ==
    ASSUME NEW c \in Context
    PROVE  \E n \in Nat \ {0} : DOMAIN VersionSlots(c) = 1 .. n
<1>1. CASE c.vers = <<>>
    <2>1. DOMAIN VersionSlots(c) = 1 .. 1
        BY <1>1 DEF VersionSlots
    <2> QED BY <2>1
<1>2. CASE c.vers # <<>>
    <2>1. c.vers \in Seq(AppVersion) BY DEF Context
    <2>2. Len(c.vers) \in Nat \ {0} BY <1>2, <2>1
    <2>3. DOMAIN VersionSlots(c) = 1 .. Len(c.vers)
        BY <1>2, <2>1 DEF VersionSlots
    <2> QED BY <2>2, <2>3
<1> QED BY <1>1, <1>2

\* The metadata records of a patch: one for each slot, enabled only under a hash
\* that is switched on, with Boolean flags.
LEMMA MetasFacts ==
    ASSUME NEW c \in Context, NEW S
    PROVE  /\ DOMAIN Metas(c, S) = DOMAIN VersionSlots(c)
           /\ 1 \in DOMAIN Metas(c, S)
           /\ \A i \in DOMAIN Metas(c, S) :
                /\ Metas(c, S)[i].matches \in BOOLEAN
                /\ Metas(c, S)[i].enabled \in BOOLEAN
                /\ Metas(c, S)[i].enabled => Metas(c, S)[i].hash \in S
<1>1. DOMAIN Metas(c, S) = DOMAIN VersionSlots(c) BY DEF Metas
<1>2. 1 \in DOMAIN Metas(c, S) BY <1>1, SlotsDomain
<1>3. ASSUME NEW i \in DOMAIN Metas(c, S)
      PROVE  /\ Metas(c, S)[i].matches \in BOOLEAN
             /\ Metas(c, S)[i].enabled \in BOOLEAN
             /\ Metas(c, S)[i].enabled => Metas(c, S)[i].hash \in S
    <2>1. Metas(c, S)[i] = MetaAt(c, S, i) BY <1>3 DEF Metas
    <2> QED BY <2>1 DEF MetaAt, MatchesGame
<1> QED BY <1>1, <1>2, <1>3

\* Counting the slots with some mark: a natural number, 0 only when there is none.
LEMMA MatchingCount ==
    ASSUME NEW c \in Context, NEW S, NEW M \in SUBSET DOMAIN Metas(c, S)
    PROVE  /\ Cardinality(M) \in Nat
           /\ M # {} => Cardinality(M) > 0
<1>1. PICK n \in Nat \ {0} : DOMAIN VersionSlots(c) = 1 .. n BY SlotsDomain
<1>2. M \subseteq 1 .. n BY <1>1, MetasFacts
<1>3. IsFiniteSet(1 .. n) BY <1>1, FS_Interval
<1>4. IsFiniteSet(M) BY <1>2, <1>3, FS_Subset
<1>5. Cardinality(M) \in Nat BY <1>4, FS_CardinalityType
<1>6. M # {} => Cardinality(M) # 0 BY <1>4, FS_EmptySet
<1> QED BY <1>5, <1>6

\* A new context has the right shape.
LEMMA NewType == \A alloc \in BOOLEAN : NewContext(alloc) \in Context
BY DEF NewContext, Context, NoFields

\* Completing a patch gives a context, outside the entries if it had a title.
LEMMA CompleteType ==
    ASSUME NEW c \in Context, NEW alloc \in BOOLEAN
    PROVE  /\ CompletePatch(c, alloc) \in Context
           /\ c.fields["title"] # Null => ~CompletePatch(c, alloc).inPatches
           /\ c.fields["title"] = Null => CompletePatch(c, alloc) = c
<1>1. NewContext(alloc) \in Context BY NewType
<1>2. c.num + 1 \in Nat BY DEF Context
<1>3. [NewContext(alloc) EXCEPT !.num = c.num + 1] \in Context
    BY <1>1, <1>2 DEF Context
<1>4. ~[NewContext(alloc) EXCEPT !.num = c.num + 1].inPatches
    BY DEF NewContext
<1> QED BY <1>1, <1>3, <1>4 DEF CompletePatch

\* process_line keeps the shape of the context.
LEMMA AfterType ==
    ASSUME NEW c \in Context, NEW alloc \in BOOLEAN,
           NEW l, l.value \in StringValue \cup {Null}, l.vers \in Seq(AppVersion)
    PROVE  ContextAfter(c, l, alloc) \in Context
<1>2. CASE LineKey(l) = "patch"
    <2>1. ContextAfter(c, l, alloc) = CompletePatch(c, alloc)
        BY <1>2 DEF ContextAfter, StringField
    <2> QED BY <2>1, CompleteType
<1>3. CASE LineKey(l) \in StringField
    <2>1. ContextAfter(c, l, alloc) = [c EXCEPT !.fields[LineKey(l)] = l.value]
        BY <1>3 DEF ContextAfter, StringField
    <2>2. [c.fields EXCEPT ![LineKey(l)] = l.value]
            \in [StringField -> StringValue \cup {Null}]
        BY <1>3 DEF Context
    <2>3. [c EXCEPT !.fields = [c.fields EXCEPT ![LineKey(l)] = l.value]] \in Context
        BY <2>2 DEF Context
    <2>4. [c EXCEPT !.fields[LineKey(l)] = l.value]
            = [c EXCEPT !.fields = [c.fields EXCEPT ![LineKey(l)] = l.value]]
        BY DEF Context
    <2> QED BY <2>1, <2>3, <2>4
<1>4. CASE LineKey(l) = "app_ver"
    <2>1. ContextAfter(c, l, alloc) = IF c.verArray THEN [c EXCEPT !.vers = l.vers] ELSE c
        BY <1>4 DEF ContextAfter, StringField
    <2>2. [c EXCEPT !.vers = l.vers] \in Context BY DEF Context
    <2> QED BY <2>1, <2>2
<1>5. CASE LineKey(l) = "patches"
    <2>1. ContextAfter(c, l, alloc) = [c EXCEPT !.inPatches = TRUE]
        BY <1>5 DEF ContextAfter, StringField
    <2>2. [c EXCEPT !.inPatches = TRUE] \in Context BY DEF Context
    <2> QED BY <2>1, <2>2
<1>6. CASE LineKey(l) \notin {"patch", "app_ver", "patches"} \cup StringField
    <2>1. ContextAfter(c, l, alloc) = c BY <1>6 DEF ContextAfter
    <2> QED BY <2>1
<1> QED BY <1>2, <1>3, <1>4, <1>5, <1>6
-----------------------------------------------------------------------------
USE DEF StringField

\* The lists a parser can make of a list hold nothing else.
LEMMA SubsequencesTyped ==
    ASSUME NEW S, NEW vs \in Seq(S), NEW s \in Subsequences(vs)
    PROVE  s \in Seq(S)
<1>1. PICK n \in 0 .. Len(vs) : s \in {[k \in 1 .. n |-> vs[p[k]]] : p \in Places(n, vs)}
    BY DEF Subsequences
<1>2. PICK p \in Places(n, vs) : s = [k \in 1 .. n |-> vs[p[k]]]
    BY <1>1
<1>3. \A k \in 1 .. n : vs[p[k]] \in S BY <1>2 DEF Places
<1>4. n \in Nat BY <1>1
<1> QED BY <1>2, <1>3, <1>4

\* A line that lost strings is still read by the same arm.
LEMMA ReceivedFacts ==
    ASSUME NEW l \in Line, NEW r \in Received(l)
    PROVE  /\ r.value \in StringValue \cup {Null}
           /\ r.vers \in Seq(AppVersion)
           /\ LineKey(r) = LineKey(l)
<1>1. CASE ~MallocMayFail
    BY <1>1, LineAssumption DEF Received
<1>2. CASE MallocMayFail
    <2>1. \E v \in {l.value, Null} : r \in Copies(l, v)
        BY <1>2 DEF Received
    <2>2. PICK v \in {l.value, Null}, vs \in Subsequences(l.vers) :
              r = [l EXCEPT !.value = v, !.vers = vs]
        BY <2>1 DEF Copies
    <2>3. /\ r.value = v /\ r.vers = vs
          /\ r.top = l.top /\ r.keys = l.keys /\ r.entry = l.entry
        BY <2>2, LineAssumption
    <2>4. l.vers \in Seq(AppVersion) BY LineAssumption
    <2>5. vs \in Seq(AppVersion) BY <2>4, SubsequencesTyped
    <2> QED BY <2>2, <2>3, <2>5, LineAssumption DEF LineKey
<1> QED BY <1>1, <1>2

\* The context after any line of the file is a context, and a field leaves
\* in_patches_section alone.
LEMMA LineType ==
    ASSUME NEW c \in Context, NEW l \in Line, NEW alloc \in BOOLEAN
    PROVE  ContextAfter(c, l, alloc) \in Context
<1>1. l.value \in StringValue \cup {Null} /\ l.vers \in Seq(AppVersion)
    BY LineAssumption
<1> QED BY <1>1, AfterType

LEMMA FieldKeepsSection ==
    ASSUME TypeOK, NEW l \in Line, FieldLine(l)
    PROVE  ctx' \in Context /\ ctx'.inPatches = ctx.inPatches
<1>1. PICK r \in Received(l) : ctx' = ContextAfter(ctx, r, TRUE)
    BY DEF FieldLine
<1>2. /\ r.value \in StringValue \cup {Null} /\ r.vers \in Seq(AppVersion)
      /\ LineKey(r) \in StringField \cup {"app_ver", "none"}
    BY ReceivedFacts DEF FieldLine
<1>3. ctx \in Context BY DEF TypeOK
<1>4. ctx' \in Context BY <1>1, <1>2, <1>3, AfterType
<1>5. ctx'.inPatches = ctx.inPatches
    BY <1>1, <1>2, <1>3 DEF ContextAfter, Context
<1> QED BY <1>4, <1>5

LEMMA TypeInit == Init => TypeOK
<1> SUFFICES ASSUME Init PROVE TypeOK
    OBVIOUS
<1>1. ctx \in Context BY NewType DEF Init
<1>2. NoMeta.matches \in BOOLEAN /\ NoMeta.enabled \in BOOLEAN BY DEF NoMeta
<1> QED BY <1>1, <1>2 DEF Init, TypeOK

\* Type correctness is inductive by itself.
LEMMA TypeStep == TypeOK /\ [Next]_vars => TypeOK'
<1> SUFFICES ASSUME TypeOK, [Next]_vars PROVE TypeOK'
    OBVIOUS
<1> USE DEF TypeOK
<1>a. Alloc \subseteq BOOLEAN BY DEF Alloc
<1>1. CASE Open
    BY <1>1, <1>a, NewType DEF Open, history
<1>2. ASSUME NEW l \in Line, ProcessLine(l) PROVE TypeOK'
    <2>0. pc = "reading" BY <1>2 DEF ProcessLine
    <2>0a. l.entry \in BOOLEAN /\ ctx.inPatches \in BOOLEAN
        BY LineAssumption DEF Context
    <2>0b. KeyArm(l) => keyed' \in BOOLEAN /\ short' \in BOOLEAN
        BY <2>0a DEF KeyArm
    <2>1. CASE TitleIdLine(l) BY <2>0b, <2>1 DEF TitleIdLine
    <2>2. CASE PatchLine(l) BY <2>0b, <2>2, <1>a, LineType DEF PatchLine
    <2>3. CASE FieldLine(l) BY <2>0b, <2>3, FieldKeepsSection DEF FieldLine
    <2>4. CASE PatchesLine(l)
        <3> DEFINE ms == Metas(ctx, on)
                   matching == {i \in DOMAIN ms : ms[i].matches}
        <3>1. /\ pc' = pc /\ titleArray' = titleArray /\ notify' = notify
              /\ ctx' = ContextAfter(ctx, l, TRUE)
              /\ count' = count + Cardinality(matching)
              /\ processing' = ProcessingAfter(ms, processing)
              /\ meta' = ms[1]
              /\ later' \in BOOLEAN /\ keyed' \in BOOLEAN /\ short' \in BOOLEAN
            BY <2>0b, <2>4 DEF PatchesLine
        <3>2. Cardinality(matching) \in Nat BY MatchingCount
        <3>3. processing' \in BOOLEAN
            <4>1. ASSUME NEW i \in matching PROVE ms[i].enabled \in BOOLEAN
                BY MetasFacts
            <4> QED BY <3>1, <4>1 DEF ProcessingAfter
        <3>4. meta'.matches \in BOOLEAN /\ meta'.enabled \in BOOLEAN
            BY <3>1, MetasFacts
        <3>5. ctx' \in Context BY <3>1, LineType
        <3>6. count' \in Nat BY <3>1, <3>2
        <3> QED BY <3>1, <3>3, <3>4, <3>5, <3>6
    <2>5. CASE PatchesFault(l) BY <2>5 DEF PatchesFault, history
    <2>6. CASE EntryLine(l) BY <2>0a, <2>6, <1>a DEF EntryLine, run
    <2> QED BY <1>2, <2>1, <2>2, <2>3, <2>4, <2>5, <2>6 DEF ProcessLine
<1>3. CASE Eof
    BY <1>3, <1>a, CompleteType DEF Eof, history
<1>4. CASE Notify
    BY <1>4 DEF Notify, history
<1>5. CASE UNCHANGED vars
    BY <1>5 DEF vars, run, history
<1> QED BY <1>1, <1>2, <1>3, <1>4, <1>5 DEF Next

\* run_patch keeps its variables within their types on every file.
THEOREM TypeCorrect == Spec => []TypeOK
BY TypeInit, TypeStep, PTL DEF Spec

-----------------------------------------------------------------------------
LEMMA GatesInit == Init => Gates /\ Safety
BY DEF Init, Gates, Safety, NoMeta, NewContext, OnlyEnabledHashes,
       AppliedNeedsEnabledMatch, AppliedIsNotified, ExtraNeedsUnmatched

\* "patches:" re-establishes the link between the flag and the reported matches.
LEMMA PatchesLineStep ==
    ASSUME TypeOK, Gates, NEW l \in Line, pc = "reading", PatchesLine(l)
    PROVE  Gates' /\ seen \subseteq seen'
<1> DEFINE ms == Metas(ctx, on)
           matching == {i \in DOMAIN ms : ms[i].matches}
<1> USE DEF TypeOK
<1>1. /\ count' = count + Cardinality(matching)
      /\ processing' = ProcessingAfter(ms, processing)
      /\ meta' = ms[1]
      /\ seen' = seen \cup EnabledMatches(ms)
      /\ wanted' = EnabledMatches(ms)
      /\ unmatched' = (unmatched \/ matching = {})
      /\ pc' = pc /\ notify' = notify /\ on' = on
    BY DEF PatchesLine
<1>2. meta'.enabled => meta'.hash \in on' BY <1>1, MetasFacts
<1>3. Cardinality(matching) \in Nat /\ (matching # {} => Cardinality(matching) > 0)
    BY MatchingCount
<1>4. seen' # {} => count' > 0
    <2>1. CASE matching = {}
        <3>1. seen' = seen BY <1>1, <2>1 DEF EnabledMatches
        <3> QED BY <3>1, <1>1, <1>3 DEF Gates
    <2>2. CASE matching # {} BY <1>1, <1>3, <2>2
    <2> QED BY <2>1, <2>2
<1>5. ASSUME matching # {}, processing'
      PROVE  seen' \cap on' # {} /\ wanted' # {}
    <2>1. PICK i \in matching : ms[i].enabled
        BY <1>1, <1>5 DEF ProcessingAfter
    <2>2. ms[i].hash \in on BY <2>1, MetasFacts
    <2>3. ms[i].hash \in EnabledMatches(ms) BY <2>1 DEF EnabledMatches
    <2> QED BY <1>1, <2>2, <2>3
<1>6. CASE matching # {}
    BY <1>1, <1>2, <1>4, <1>5, <1>6 DEF Gates
<1>7. CASE matching = {}
    <2>1. processing' = processing BY <1>1, <1>7 DEF ProcessingAfter
    <2>2. seen' = seen BY <1>1, <1>7 DEF EnabledMatches
    <2>3. unmatched' BY <1>1, <1>7
    <2> QED BY <1>1, <1>2, <1>4, <2>1, <2>2, <2>3 DEF Gates
<1> QED BY <1>1, <1>6, <1>7

\* Lines that leave the flag, the metadata and the history alone.
LEMMA QuietStep ==
    ASSUME TypeOK, Gates, Safety,
           UNCHANGED <<processing, meta, count, on, applied, seen, extra, unmatched>>,
           UNCHANGED notify, notify = "none",
           ctx'.inPatches => ctx.inPatches /\ wanted' = wanted
    PROVE  Gates' /\ Safety'
<1>1. Safety'
    BY DEF Safety, OnlyEnabledHashes, AppliedNeedsEnabledMatch,
           AppliedIsNotified, ExtraNeedsUnmatched
<1>2. (ctx'.inPatches /\ processing' /\ ~unmatched') => wanted' # {}
    BY DEF Gates
<1> QED BY <1>1, <1>2 DEF Gates

LEMMA GatesStep == TypeOK /\ Gates /\ Safety /\ [Next]_vars => Gates' /\ Safety'
<1> SUFFICES ASSUME TypeOK, Gates, Safety, [Next]_vars PROVE Gates' /\ Safety'
    OBVIOUS
<1>0. pc # "done" => notify = "none" BY DEF Gates
<1>a. Alloc \subseteq BOOLEAN BY LineAssumption DEF Alloc
<1>b. ctx \in Context BY DEF TypeOK
<1>1. CASE Open
    <2>1. ~ctx'.inPatches BY <1>1 DEF Open, NewContext
    <2> QED BY <1>0, <1>1, <2>1, QuietStep DEF Open, history
<1>2. ASSUME NEW l \in Line, ProcessLine(l) PROVE Gates' /\ Safety'
    <2>0. pc = "reading" /\ notify = "none" BY <1>0, <1>2 DEF ProcessLine
    <2>1. CASE TitleIdLine(l)
        BY <2>0, <2>1, QuietStep DEF TitleIdLine
    <2>2. CASE PatchLine(l)
        <3>1. PICK alloc \in BOOLEAN : ctx' = CompletePatch(ctx, alloc)
            BY <1>a, <2>2 DEF PatchLine, ContextAfter
        <3>2. ctx'.inPatches => ctx.inPatches /\ wanted' = wanted
            BY <1>b, <2>2, <3>1, CompleteType DEF PatchLine
        <3> QED BY <2>0, <2>2, <3>2, QuietStep DEF PatchLine
    <2>3. CASE FieldLine(l)
        BY <2>0, <2>3, FieldKeepsSection, QuietStep DEF FieldLine
    <2>4. CASE PatchesLine(l)
        <3>1. Gates' /\ seen \subseteq seen' BY <2>0, <2>4, PatchesLineStep
        <3>2. UNCHANGED <<notify, on, applied, extra>> BY <2>4 DEF PatchesLine
        <3>3. unmatched => unmatched' BY <2>4 DEF PatchesLine
        <3> QED BY <2>0, <3>1, <3>2, <3>3
                DEF Safety, OnlyEnabledHashes, AppliedNeedsEnabledMatch,
                    AppliedIsNotified, ExtraNeedsUnmatched
    <2>5. CASE PatchesFault(l)
        BY <2>0, <2>5, QuietStep DEF PatchesFault, history
    <2>6. CASE EntryLine(l)
        <3> DEFINE applies == ctx.inPatches /\ processing /\ meta.enabled
        <3>1. Gates' BY <2>6 DEF EntryLine, run, Gates
        <3>2. OnlyEnabledHashes'
            BY <2>6 DEF EntryLine, Gates, Safety, OnlyEnabledHashes
        <3>3. AppliedNeedsEnabledMatch'
            BY <2>6 DEF EntryLine, Gates, Safety, AppliedNeedsEnabledMatch
        <3>4. AppliedIsNotified'
            BY <2>0, <2>6 DEF EntryLine, run, AppliedIsNotified
        <3>5. ExtraNeedsUnmatched'
            BY <2>6 DEF EntryLine, Gates, Safety, ExtraNeedsUnmatched
        <3> QED BY <3>1, <3>2, <3>3, <3>4, <3>5 DEF Safety
    <2> QED BY <1>2, <2>1, <2>2, <2>3, <2>4, <2>5, <2>6 DEF ProcessLine
<1>3. CASE Eof
    <2>1. PICK alloc \in BOOLEAN : ctx' = CompletePatch(ctx, alloc)
        BY <1>a, <1>3 DEF Eof
    <2>2. ctx'.inPatches => ctx.inPatches /\ wanted' = wanted
        BY <1>b, <1>3, <2>1, CompleteType DEF Eof, history
    <2> QED BY <1>0, <1>3, <2>2, QuietStep DEF Eof, history
<1>4. CASE Notify
    <2>1. UNCHANGED <<ctx, processing, meta, count, on, applied, seen, wanted,
                      extra, unmatched>>
        BY <1>4 DEF Notify, history
    <2>2. pc' = "done" /\ (notify' \in {"deleted", "kept"} => count = 0)
        BY <1>4 DEF Notify, TypeOK
    <2>3. Gates' BY <2>1, <2>2 DEF Gates
    <2>4. notify' \in {"deleted", "kept"} => applied' = {}
        BY <2>1, <2>2 DEF Gates, Safety, AppliedNeedsEnabledMatch
    <2> QED BY <2>1, <2>3, <2>4
            DEF Safety, OnlyEnabledHashes, AppliedNeedsEnabledMatch,
                AppliedIsNotified, ExtraNeedsUnmatched
<1>5. CASE UNCHANGED vars
    BY <1>5 DEF vars, run, history, Gates, Safety, OnlyEnabledHashes,
            AppliedNeedsEnabledMatch, AppliedIsNotified, ExtraNeedsUnmatched
<1> QED BY <1>1, <1>2, <1>3, <1>4, <1>5 DEF Next

\* The gates and the four safety invariants, together inductive with TypeOK.
THEOREM GatesHold == Spec => [](Gates /\ Safety)
<1>1. Init => Gates /\ Safety BY GatesInit
<1>2. TypeOK /\ (Gates /\ Safety) /\ [Next]_vars => (Gates /\ Safety)'
    BY GatesStep
<1> QED BY <1>1, <1>2, TypeCorrect, PTL DEF Spec

\* On any file, run_patch writes to the game only under hashes that the settings
\* file switches on, and only after a patch that matches and is enabled was
\* reported, although the flag it left is never reset.
THEOREM AppliedOnlyEnabled == Spec => []AppliedIsEnabled
<1>1. Gates /\ Safety => AppliedIsEnabled BY DEF Safety, AppliedIsEnabled
<1> QED BY <1>1, GatesHold, PTL

\* The message file is given up only by a run that applied nothing.
THEOREM AppliedKeepsMessage == Spec => []AppliedIsNotified
<1>1. Gates /\ Safety => AppliedIsNotified BY DEF Safety
<1> QED BY <1>1, GatesHold, PTL

\* Entries of a patch without an enabled match are applied only in a file with a
\* patch that does not match the game.
THEOREM StrayNeedsUnmatched == Spec => []ExtraNeedsUnmatched
<1>1. Gates /\ Safety => ExtraNeedsUnmatched BY DEF Safety
<1> QED BY <1>1, GatesHold, PTL

-----------------------------------------------------------------------------
\* As long as only first versions match, a wanted version is the first one, so that
\* the flag and current_meta are both set from it.
LEMMA FirstPatchesLine ==
    ASSUME NEW l \in Line, PatchesLine(l), ~later'
    PROVE  /\ ~later
           /\ wanted' # {} => processing' /\ meta'.enabled
<1> DEFINE ms == Metas(ctx, on)
           matching == {i \in DOMAIN ms : ms[i].matches}
<1>1. /\ processing' = ProcessingAfter(ms, processing)
      /\ meta' = ms[1]
      /\ wanted' = EnabledMatches(ms)
      /\ later' = (later \/ \E i \in matching : i # 1)
    BY DEF PatchesLine
<1>2. ~later /\ \A i \in DOMAIN ms : ms[i].matches => i = 1
    BY <1>1
<1> SUFFICES ASSUME wanted' # {} PROVE processing' /\ meta'.enabled
    BY <1>2
<1>3. PICK i \in DOMAIN ms : ms[i].matches /\ ms[i].enabled
    BY <1>1 DEF EnabledMatches
<1>4. i = 1 BY <1>2, <1>3
<1>5. matching = {1} BY <1>2, <1>3, <1>4
<1>6. processing' BY <1>1, <1>3, <1>4, <1>5 DEF ProcessingAfter
<1> QED BY <1>1, <1>3, <1>4, <1>6

\* An arm that looks for a key leaves out an entry only by taking it.
LEMMA KeyArmTakes ==
    ASSUME NEW l, KeyArm(l), ~keyed', ~short'
    PROVE  ~keyed /\ ~short /\ (missed' <=> missed)
BY DEF KeyArm

\* Lines other than "patches:" and entries, and the steps around the parser.
LEMMA FirstQuiet ==
    ASSUME FirstSpeaksForAll, UNCHANGED <<processing, meta, later>>,
           ~keyed' /\ ~short' => ~keyed /\ ~short /\ (missed' <=> missed),
           ctx'.inPatches => ctx.inPatches /\ wanted' = wanted
    PROVE  FirstSpeaksForAll'
BY DEF FirstSpeaksForAll

\* A file whose version lists name the game's version first or never has every
\* entry of every enabled matching patch applied, unless an entry holds a key text
\* or memory runs out while one is read.
THEOREM MissedAlwaysHasCause == Spec => []MissedHasCause
<1>1. Init => FirstSpeaksForAll
    BY DEF Init, FirstSpeaksForAll, NewContext
<1>2. TypeOK /\ FirstSpeaksForAll /\ [Next]_vars => FirstSpeaksForAll'
    <2> SUFFICES ASSUME TypeOK, FirstSpeaksForAll, [Next]_vars
                 PROVE  FirstSpeaksForAll'
        OBVIOUS
    <2>a. Alloc \subseteq BOOLEAN BY LineAssumption DEF Alloc
    <2>b. ctx \in Context BY DEF TypeOK
    <2>1. CASE Open
        <3>1. ~ctx'.inPatches BY <2>1 DEF Open, NewContext
        <3> QED BY <2>1, <3>1, FirstQuiet DEF Open, history
    <2>2. ASSUME NEW l \in Line, ProcessLine(l) PROVE FirstSpeaksForAll'
        <3>1. CASE TitleIdLine(l)
            BY <3>1, KeyArmTakes, FirstQuiet DEF TitleIdLine
        <3>2. CASE PatchLine(l)
            <4>1. PICK alloc \in BOOLEAN : ctx' = CompletePatch(ctx, alloc)
                BY <2>a, <3>2 DEF PatchLine, ContextAfter
            <4>2. ctx'.inPatches => ctx.inPatches /\ wanted' = wanted
                BY <2>b, <3>2, <4>1, CompleteType DEF PatchLine
            <4> QED BY <3>2, <4>2, KeyArmTakes, FirstQuiet DEF PatchLine
        <3>3. CASE FieldLine(l)
            BY <3>3, FieldKeepsSection, KeyArmTakes, FirstQuiet DEF FieldLine
        <3>4. CASE PatchesLine(l)
            <4>1. ~keyed' /\ ~short' => ~keyed /\ ~short /\ (missed' <=> missed)
                BY <3>4, KeyArmTakes DEF PatchesLine
            <4> QED BY <3>4, <4>1, FirstPatchesLine DEF FirstSpeaksForAll
        <3>5. CASE PatchesFault(l)
            BY <3>5, FirstQuiet DEF PatchesFault, history
        <3>6. CASE EntryLine(l)
            BY <2>a, <3>6 DEF EntryLine, run, FirstSpeaksForAll
        <3> QED BY <2>2, <3>1, <3>2, <3>3, <3>4, <3>5, <3>6 DEF ProcessLine
    <2>3. CASE Eof
        <3>1. PICK alloc \in BOOLEAN : ctx' = CompletePatch(ctx, alloc)
            BY <2>a, <2>3 DEF Eof
        <3>2. ctx'.inPatches => ctx.inPatches /\ wanted' = wanted
            BY <2>b, <2>3, <3>1, CompleteType DEF Eof, history
        <3> QED BY <2>3, <3>2, FirstQuiet DEF Eof, history
    <2>4. CASE Notify
        BY <2>4, FirstQuiet DEF Notify, history
    <2>5. CASE UNCHANGED vars
        BY <2>5, FirstQuiet DEF vars, run, history
    <2> QED BY <2>1, <2>2, <2>3, <2>4, <2>5 DEF Next
<1>3. FirstSpeaksForAll => MissedHasCause BY DEF FirstSpeaksForAll, MissedHasCause
<1> QED BY <1>1, <1>2, <1>3, TypeCorrect, PTL DEF Spec

-----------------------------------------------------------------------------
(***************************************************************************)
(* Recursive functions of a number.                                        *)
(***************************************************************************)
\* A set of numbers has a least one.
LEMMA LeastOf ==
    ASSUME NEW S \in SUBSET Nat, S # {}
    PROVE  \E x \in S : \A y \in S : x <= y
<1>1. IsWellFoundedOn(OpToRel(<, Nat), Nat)
    BY NatLessThanWellFounded
<1>2. PICK x \in S : \A y \in S : ~(<<y, x>> \in OpToRel(<, Nat))
    BY <1>1, WFMin
<1>3. \A y \in S : ~(y < x)
    BY <1>2 DEF OpToRel
<1> QED BY <1>3

\* What holds of 0, and of a number if of the one before it, holds of all.
LEMMA Upwards ==
    ASSUME NEW N \in Nat, NEW S, 0 \in S, \A n \in 1 .. N : n - 1 \in S => n \in S
    PROVE  \A n \in 0 .. N : n \in S
<1> DEFINE Bad == {n \in 0 .. N : n \notin S}
<1>1. SUFFICES ASSUME Bad # {} PROVE FALSE
    OBVIOUS
<1>2. PICK k \in Bad : \A n \in Bad : k <= n
    <2>1. Bad \in SUBSET Nat
        OBVIOUS
    <2> HIDE DEF Bad
    <2> QED BY <1>1, <2>1, LeastOf
<1>3. k # 0 /\ k \in 1 .. N
    BY <1>2
<1>4. k - 1 \notin Bad
    BY <1>2, <1>3
<1> QED BY <1>2, <1>3, <1>4

\* A function that is given by its first value and by how each value follows from the
\* one before it does exist.
Steps(N, V, base, step) == N \in Nat /\ base \in V /\ step \in [1 .. N -> [V -> V]]

Stepwise(N, V, base, step) ==
    \E f \in [0 .. N -> V] : f[0] = base /\ \A n \in 1 .. N : f[n] = step[n][f[n - 1]]

LEMMA Recursion ==
    ASSUME NEW N, NEW V, NEW base, NEW step, Steps(N, V, base, step)
    PROVE  Stepwise(N, V, base, step)
<1>0. N \in Nat /\ base \in V /\ step \in [1 .. N -> [V -> V]]
    BY DEF Steps
<1> DEFINE Upto(k, f) == f[0] = base /\ \A n \in 1 .. k : f[n] = step[n][f[n - 1]]
           Good == {k \in 0 .. N : \E f \in [0 .. k -> V] : Upto(k, f)}
<1> USE <1>0
<1>1. 0 \in Good
    <2> DEFINE f == [n \in 0 .. 0 |-> base]
    <2>1. f \in [0 .. 0 -> V] /\ Upto(0, f)
        OBVIOUS
    <2>2. 0 \in 0 .. N
        OBVIOUS
    <2> HIDE DEF f
    <2> QED BY <2>1, <2>2
<1>2. ASSUME NEW k \in 1 .. N, k - 1 \in Good PROVE k \in Good
    <2>1. PICK f \in [0 .. k - 1 -> V] : Upto(k - 1, f)
        BY <1>2
    <2> DEFINE g == [n \in 0 .. k |-> IF n = k THEN step[k][f[k - 1]] ELSE f[n]]
    <2>2. step[k][f[k - 1]] \in V
        OBVIOUS
    <2>3. g \in [0 .. k -> V]
        BY <2>2
    <2>4. g[0] = base
        BY <2>1
    <2>5. ASSUME NEW n \in 1 .. k PROVE g[n] = step[n][g[n - 1]]
        <3>1. g[n - 1] = f[n - 1]
            OBVIOUS
        <3>2. CASE n = k
            BY <3>1, <3>2
        <3>3. CASE n # k
            <4>1. n \in 1 .. k - 1 /\ g[n] = f[n]
                BY <3>3
            <4>2. f[n] = step[n][f[n - 1]]
                BY <2>1, <4>1
            <4> HIDE DEF g
            <4> QED BY <3>1, <4>1, <4>2
        <3> QED BY <3>2, <3>3
    <2> HIDE DEF g
    <2>6. Upto(k, g) /\ k \in 0 .. N
        BY <2>4, <2>5
    <2> HIDE DEF Upto
    <2> QED BY <2>3, <2>6
<1> HIDE DEF Good
<1>3. \A n \in 1 .. N : n - 1 \in Good => n \in Good
    BY <1>2
<1>4. N \in 0 .. N
    OBVIOUS
<1>5. N \in Good
    BY <1>1, <1>3, <1>4, Upwards
<1> QED BY <1>5 DEF Good, Stepwise

-----------------------------------------------------------------------------
(***************************************************************************)
(* The elements of a sequence at some places.                              *)
(***************************************************************************)
\* What Kept has of the first n elements.
KeptUpto(s, S) ==
    CHOOSE f : f = [n \in 0 .. Len(s) |->
        IF n = 0 THEN <<>> ELSE IF n \in S THEN Append(f[n - 1], s[n]) ELSE f[n - 1]]

\* That function exists, so Kept goes as its definition says, element by element.
LEMMA KeptRows ==
    ASSUME NEW T, NEW s \in Seq(T), NEW S
    PROVE  /\ Kept(s, S) = KeptUpto(s, S)[Len(s)]
           /\ KeptUpto(s, S)[0] = <<>>
           /\ \A n \in 1 .. Len(s) :
                 KeptUpto(s, S)[n] = IF n \in S THEN Append(KeptUpto(s, S)[n - 1], s[n])
                                     ELSE KeptUpto(s, S)[n - 1]
<1> DEFINE N == Len(s)
           V == Seq(T)
           step == [n \in 1 .. N |-> [x \in V |-> IF n \in S THEN Append(x, s[n]) ELSE x]]
           Q(f) == f = [n \in 0 .. N |->
                       IF n = 0 THEN <<>>
                       ELSE IF n \in S THEN Append(f[n - 1], s[n]) ELSE f[n - 1]]
<1>1. N \in Nat /\ <<>> \in V /\ step \in [1 .. N -> [V -> V]]
    <2>1. ASSUME NEW n \in 1 .. N, NEW x \in V
          PROVE  (IF n \in S THEN Append(x, s[n]) ELSE x) \in V
        OBVIOUS
    <2> QED BY <2>1
<1>2. \A n \in 1 .. N : \A x \in V : step[n][x] = IF n \in S THEN Append(x, s[n]) ELSE x
    OBVIOUS
<1> HIDE DEF step
<1>3. PICK f \in [0 .. N -> V] : f[0] = <<>> /\ \A n \in 1 .. N : f[n] = step[n][f[n - 1]]
    <2> DEFINE base == <<>>
    <2>1. N \in Nat /\ base \in V /\ step \in [1 .. N -> [V -> V]]
        BY <1>1
    <2> HIDE DEF N, V, base
    <2>2. Steps(N, V, base, step)
        BY <2>1 DEF Steps
    <2>3. Stepwise(N, V, base, step)
        BY <2>2, Recursion
    <2> QED BY <2>3 DEF base, Stepwise
<1>4. \A n \in 1 .. N : f[n] = IF n \in S THEN Append(f[n - 1], s[n]) ELSE f[n - 1]
    <2> TAKE n \in 1 .. N
    <2>1. f[n - 1] \in V
        BY <1>1
    <2> QED BY <1>2, <1>3, <2>1
<1>5. Q(f)
    <2>1. f = [n \in 0 .. N |-> f[n]]
        OBVIOUS
    <2>2. \A n \in 0 .. N : f[n] =
              IF n = 0 THEN <<>> ELSE IF n \in S THEN Append(f[n - 1], s[n]) ELSE f[n - 1]
        <3> TAKE n \in 0 .. N
        <3>1. CASE n = 0
            BY <1>3, <3>1
        <3>2. CASE n # 0
            <4>1. n \in 1 .. N
                BY <1>1, <3>2
            <4> QED BY <1>4, <3>2, <4>1
        <3> QED BY <3>1, <3>2
    <2> QED BY <2>1, <2>2
<1>6. KeptUpto(s, S) = CHOOSE g : Q(g)
    BY DEF KeptUpto
<1>7. Q(KeptUpto(s, S))
    <2> HIDE DEF Q
    <2> QED BY <1>5, <1>6
<1>8. Kept(s, S) = KeptUpto(s, S)[Len(s)]
    BY DEF Kept, KeptUpto
<1> HIDE DEF KeptUpto
<1>9. \A n \in 0 .. N : KeptUpto(s, S)[n] =
          IF n = 0 THEN <<>> ELSE IF n \in S THEN Append(KeptUpto(s, S)[n - 1], s[n])
                             ELSE KeptUpto(s, S)[n - 1]
    BY <1>7
<1> QED BY <1>1, <1>8, <1>9

\* What is kept of a sequence is a sequence of the same things.
LEMMA KeptTyped ==
    ASSUME NEW T, NEW s \in Seq(T), NEW S
    PROVE  /\ \A n \in 0 .. Len(s) : KeptUpto(s, S)[n] \in Seq(T)
           /\ Kept(s, S) \in Seq(T)
<1> DEFINE Good == {n \in 0 .. Len(s) : KeptUpto(s, S)[n] \in Seq(T)}
<1>0. Len(s) \in Nat
    OBVIOUS
<1>1. 0 \in Good
    <2>1. KeptUpto(s, S)[0] = <<>>
        BY KeptRows
    <2>2. <<>> \in Seq(T) /\ 0 \in 0 .. Len(s)
        BY <1>0
    <2> QED BY <2>1, <2>2
<1>2. ASSUME NEW n \in 1 .. Len(s), n - 1 \in Good PROVE n \in Good
    <2>1. KeptUpto(s, S)[n] = IF n \in S THEN Append(KeptUpto(s, S)[n - 1], s[n])
                              ELSE KeptUpto(s, S)[n - 1]
        BY KeptRows
    <2>2. KeptUpto(s, S)[n - 1] \in Seq(T) /\ s[n] \in T
        BY <1>2
    <2>3. KeptUpto(s, S)[n] \in Seq(T)
        BY <2>1, <2>2
    <2> QED BY <2>3
<1>3. \A n \in 1 .. Len(s) : n - 1 \in Good => n \in Good
    BY <1>2
<1>4. \A n \in 0 .. Len(s) : n \in Good
    <2> HIDE DEF Good
    <2> QED BY <1>0, <1>1, <1>3, Upwards
<1>5. Kept(s, S) = KeptUpto(s, S)[Len(s)]
    BY KeptRows
<1> QED BY <1>0, <1>4, <1>5

\* With fewer places less is kept.
LEMMA KeptFewer ==
    ASSUME NEW T, NEW s \in Seq(T), NEW R, NEW S \in SUBSET R, NEW i \in 1 .. Len(s),
           i \in R \ S
    PROVE  Len(Kept(s, S)) < Len(Kept(s, R))
<1> DEFINE a(n) == Len(KeptUpto(s, S)[n])
           b(n) == Len(KeptUpto(s, R)[n])
           Good == {n \in 0 .. Len(s) : a(n) <= b(n) /\ (n >= i => a(n) < b(n))}
<1>0. Len(s) \in Nat
    OBVIOUS
<1>1. 0 \in Good
    <2>1. a(0) = 0 /\ b(0) = 0
        BY KeptRows
    <2> QED BY <1>0, <2>1
<1>2. ASSUME NEW n \in 1 .. Len(s), n - 1 \in Good PROVE n \in Good
    <2>1. /\ a(n) = IF n \in S THEN a(n - 1) + 1 ELSE a(n - 1)
          /\ b(n) = IF n \in R THEN b(n - 1) + 1 ELSE b(n - 1)
          /\ a(n - 1) \in Nat /\ b(n - 1) \in Nat
        <3>1. /\ KeptUpto(s, S)[n] = IF n \in S THEN Append(KeptUpto(s, S)[n - 1], s[n])
                                      ELSE KeptUpto(s, S)[n - 1]
              /\ KeptUpto(s, R)[n] = IF n \in R THEN Append(KeptUpto(s, R)[n - 1], s[n])
                                      ELSE KeptUpto(s, R)[n - 1]
            BY KeptRows
        <3>2. n - 1 \in 0 .. Len(s)
            BY <1>0
        <3>3. KeptUpto(s, S)[n - 1] \in Seq(T) /\ KeptUpto(s, R)[n - 1] \in Seq(T)
            BY <3>2, KeptTyped
        <3> QED BY <3>1, <3>3
    <2>2. a(n - 1) <= b(n - 1) /\ (n - 1 >= i => a(n - 1) < b(n - 1))
        BY <1>2
    <2> HIDE DEF a, b
    <2>3. a(n) <= b(n)
        BY <2>1, <2>2
    <2>4. ASSUME n >= i PROVE a(n) < b(n)
        <3>1. CASE n = i
            BY <2>1, <2>2, <3>1
        <3>2. CASE n # i
            <4>1. n - 1 >= i
                BY <2>4, <3>2
            <4> QED BY <2>1, <2>2, <4>1
        <3> QED BY <3>1, <3>2
    <2> QED BY <2>3, <2>4
<1>3. \A n \in 1 .. Len(s) : n - 1 \in Good => n \in Good
    BY <1>2
<1>4. Len(s) \in Good
    <2>1. Len(s) \in 0 .. Len(s)
        BY <1>0
    <2> HIDE DEF Good
    <2>2. \A n \in 0 .. Len(s) : n \in Good
        BY <1>0, <1>1, <1>3, Upwards
    <2> QED BY <2>1, <2>2
<1>5. Kept(s, S) = KeptUpto(s, S)[Len(s)] /\ Kept(s, R) = KeptUpto(s, R)[Len(s)]
    BY KeptRows
<1> QED BY <1>4, <1>5

-----------------------------------------------------------------------------
(***************************************************************************)
(* The strings of an entry.                                                *)
(***************************************************************************)
\* What parse_patch_entry has of the first n tokens.
StringsUpto(line) ==
    CHOOSE f : f = [n \in 0 .. Len(line) |->
        IF n = 0 THEN [taken |-> {}, open |-> 0] ELSE NextToken(line, n, f[n - 1])]

\* The states of the scan.
Scanned == [taken : SUBSET Nat, open : Nat]

\* The state of the scan stays one.
LEMMA NextTokenTyped ==
    ASSUME NEW line, NEW n \in Nat, NEW before \in Scanned
    PROVE  NextToken(line, n, before) \in Scanned
<1>1. before.taken \in SUBSET Nat /\ before.open \in Nat
    BY DEF Scanned
<1>2. ASSUME NEW t \in SUBSET Nat, NEW o \in Nat PROVE [taken |-> t, open |-> o] \in Scanned
    BY DEF Scanned
<1>3. before.taken \cup {before.open} \in SUBSET Nat /\ before.taken \cup {n} \in SUBSET Nat
    BY <1>1
<1> QED BY <1>1, <1>2, <1>3 DEF NextToken

\* Strings goes as its definition says, token by token.
LEMMA StringsRows ==
    ASSUME NEW line \in Seq(Token)
    PROVE  /\ Strings(line) = StringsUpto(line)[Len(line)].taken
           /\ StringsUpto(line)[0] = [taken |-> {}, open |-> 0]
           /\ \A n \in 1 .. Len(line) :
                 StringsUpto(line)[n] = NextToken(line, n, StringsUpto(line)[n - 1])
<1> DEFINE N == Len(line)
           base == [taken |-> {}, open |-> 0]
           step == [n \in 1 .. N |-> [x \in Scanned |-> NextToken(line, n, x)]]
           Q(f) == f = [n \in 0 .. N |-> IF n = 0 THEN base ELSE NextToken(line, n, f[n - 1])]
<1>1. N \in Nat /\ base \in Scanned /\ step \in [1 .. N -> [Scanned -> Scanned]]
    <2>1. \A n \in 1 .. N : \A x \in Scanned : NextToken(line, n, x) \in Scanned
        BY NextTokenTyped
    <2>2. base \in Scanned
        BY DEF Scanned
    <2> QED BY <2>1, <2>2
<1>2. \A n \in 1 .. N : \A x \in Scanned : step[n][x] = NextToken(line, n, x)
    OBVIOUS
<1> HIDE DEF step, base
<1>3. PICK f \in [0 .. N -> Scanned] : f[0] = base /\ \A n \in 1 .. N : f[n] = step[n][f[n - 1]]
    <2>1. Steps(N, Scanned, base, step)
        BY <1>1 DEF Steps
    <2> QED BY <2>1, Recursion DEF Stepwise
<1>4. \A n \in 1 .. N : f[n] = NextToken(line, n, f[n - 1])
    <2> TAKE n \in 1 .. N
    <2>1. f[n - 1] \in Scanned
        BY <1>1
    <2> QED BY <1>2, <1>3, <2>1
<1>5. Q(f)
    <2>1. f = [n \in 0 .. N |-> f[n]]
        OBVIOUS
    <2>2. \A n \in 0 .. N : f[n] = IF n = 0 THEN base ELSE NextToken(line, n, f[n - 1])
        <3> TAKE n \in 0 .. N
        <3>1. n # 0 => n \in 1 .. N
            BY <1>1
        <3> QED BY <1>3, <1>4, <3>1
    <2> QED BY <2>1, <2>2
<1>6. StringsUpto(line) = CHOOSE g : Q(g)
    BY DEF StringsUpto, base
<1>7. Q(StringsUpto(line))
    <2> HIDE DEF Q
    <2> QED BY <1>5, <1>6
<1>8. Strings(line) = StringsUpto(line)[Len(line)].taken
    BY DEF Strings, StringsUpto
<1> HIDE DEF StringsUpto
<1>9. \A n \in 0 .. N : StringsUpto(line)[n] =
          IF n = 0 THEN base ELSE NextToken(line, n, StringsUpto(line)[n - 1])
    BY <1>7
<1> QED BY <1>1, <1>8, <1>9 DEF base

\* Places of the line are taken; without a backslash at the end of a token it is those of
\* all that are quoted.
LEMMA StringsArePlaces ==
    ASSUME NEW line \in Seq(Token)
    PROVE  /\ Strings(line) \subseteq 1 .. Len(line)
           /\ Intact(line) => Strings(line) = {i \in DOMAIN line : line[i].quoted}
<1> DEFINE F(n) == StringsUpto(line)[n]
           Good == {n \in 0 .. Len(line) :
                       /\ F(n).taken \subseteq 1 .. n /\ F(n).open \in 0 .. n
                       /\ Intact(line) => /\ F(n).taken = {i \in 1 .. n : line[i].quoted}
                                          /\ F(n).open = 0}
<1>0. Len(line) \in Nat /\ DOMAIN line = 1 .. Len(line)
    OBVIOUS
<1>1. 0 \in Good
    <2>1. F(0).taken = {} /\ F(0).open = 0
        BY StringsRows
    <2>2. 0 \in 0 .. Len(line)
        BY <1>0
    <2> HIDE DEF F
    <2> QED BY <2>1, <2>2
<1>2. ASSUME NEW n \in 1 .. Len(line), n - 1 \in Good PROVE n \in Good
    <2>1. F(n) = NextToken(line, n, F(n - 1))
        BY StringsRows
    <2> HIDE DEF F
    <2>2. /\ F(n - 1).taken \subseteq 1 .. n - 1 /\ F(n - 1).open \in 0 .. n - 1
          /\ Intact(line) => /\ F(n - 1).taken = {i \in 1 .. n - 1 : line[i].quoted}
                             /\ F(n - 1).open = 0
        BY <1>2
    <2>3. /\ F(n).taken = IF ~line[n].quoted THEN F(n - 1).taken
                          ELSE IF F(n - 1).open # 0 THEN F(n - 1).taken \cup {F(n - 1).open}
                          ELSE IF line[n].slash THEN F(n - 1).taken
                          ELSE F(n - 1).taken \cup {n}
          /\ F(n).open = IF ~line[n].quoted THEN F(n - 1).open
                         ELSE IF F(n - 1).open # 0 THEN 0
                         ELSE IF line[n].slash THEN n ELSE 0
        BY <2>1 DEF NextToken
    <2>4. F(n).taken \subseteq 1 .. n /\ F(n).open \in 0 .. n
        BY <2>2, <2>3
    <2>5. ASSUME Intact(line)
          PROVE  F(n).taken = {i \in 1 .. n : line[i].quoted} /\ F(n).open = 0
        <3>1. ~line[n].slash
            BY <1>0, <2>5 DEF Intact
        <3>2. F(n - 1).taken = {i \in 1 .. n - 1 : line[i].quoted} /\ F(n - 1).open = 0
            BY <2>2, <2>5
        <3>3. F(n).open = 0
            BY <2>3, <3>1, <3>2
        <3>4. F(n).taken = IF line[n].quoted THEN F(n - 1).taken \cup {n} ELSE F(n - 1).taken
            BY <2>3, <3>1, <3>2
        <3> QED BY <3>2, <3>3, <3>4
    <2> QED BY <2>4, <2>5
<1>3. \A n \in 1 .. Len(line) : n - 1 \in Good => n \in Good
    BY <1>2
<1>4. Len(line) \in Good
    <2>1. Len(line) \in 0 .. Len(line)
        BY <1>0
    <2> HIDE DEF Good
    <2>2. \A n \in 0 .. Len(line) : n \in Good
        BY <1>0, <1>1, <1>3, Upwards
    <2> QED BY <2>1, <2>2
<1>5. Strings(line) = F(Len(line)).taken
    BY StringsRows
<1> QED BY <1>0, <1>4, <1>5

-----------------------------------------------------------------------------
(***************************************************************************)
(* The arguments.                                                          *)
(***************************************************************************)
\* The first n of a sequence.
LEMMA FirstOfFacts ==
    ASSUME NEW T, NEW s \in Seq(T), NEW n \in Nat
    PROVE  /\ FirstOf(s, n) \in Seq(T)
           /\ Len(FirstOf(s, n)) = IF Len(s) < n THEN Len(s) ELSE n
           /\ \A i \in 1 .. Len(FirstOf(s, n)) : FirstOf(s, n)[i] = s[i]
           /\ Len(s) <= n => FirstOf(s, n) = s
<1> DEFINE m == IF Len(s) < n THEN Len(s) ELSE n
<1>1. m \in 0 .. Len(s)
    OBVIOUS
<1>2. FirstOf(s, n) = SubSeq(s, 1, m)
    BY DEF FirstOf
<1> HIDE DEF m
<1>3. /\ SubSeq(s, 1, m) \in Seq(T) /\ Len(SubSeq(s, 1, m)) = m
      /\ \A i \in 1 .. m : SubSeq(s, 1, m)[i] = s[i]
    BY <1>1
<1>4. m = Len(s) => SubSeq(s, 1, m) = s
    BY <1>1
<1> QED BY <1>2, <1>3, <1>4 DEF m

\* One more element is among the first n, or not.
LEMMA FirstOfAppend ==
    ASSUME NEW T, NEW s \in Seq(T), NEW e \in T, NEW n \in Nat
    PROVE  FirstOf(Append(s, e), n) =
              IF Len(s) < n THEN Append(FirstOf(s, n), e) ELSE FirstOf(s, n)
<1> DEFINE t == Append(s, e)
<1>1. t \in Seq(T) /\ Len(t) = Len(s) + 1 /\ \A i \in 1 .. Len(s) : t[i] = s[i]
    OBVIOUS
<1>2. CASE Len(s) < n
    <2>1. FirstOf(t, n) = t
        <3>1. Len(t) <= n
            BY <1>1, <1>2
        <3> HIDE DEF t
        <3> QED BY <1>1, <3>1, FirstOfFacts
    <2>2. FirstOf(s, n) = s
        BY <1>2, FirstOfFacts
    <2> QED BY <1>2, <2>1, <2>2
<1>3. CASE ~(Len(s) < n)
    <2>1. /\ FirstOf(t, n) \in Seq(T) /\ FirstOf(s, n) \in Seq(T)
          /\ Len(FirstOf(t, n)) = n /\ Len(FirstOf(s, n)) = n
        <3> HIDE DEF t
        <3> QED BY <1>1, <1>3, FirstOfFacts
    <2>2. ASSUME NEW i \in 1 .. n PROVE FirstOf(t, n)[i] = FirstOf(s, n)[i]
        <3>1. t[i] = s[i]
            BY <1>1, <1>3
        <3> HIDE DEF t
        <3>2. FirstOf(t, n)[i] = t[i] /\ FirstOf(s, n)[i] = s[i]
            BY <1>1, <2>1, FirstOfFacts
        <3> QED BY <3>1, <3>2
    <2> HIDE DEF t
    <2>3. FirstOf(t, n) = FirstOf(s, n)
        BY <2>1, <2>2, SeqEqual
    <2> QED BY <1>3, <2>3 DEF t
<1> QED BY <1>2, <1>3

\* What AppendParams has after the first n strings.
ArgsUpto(old, params) ==
    CHOOSE f : f = [n \in 0 .. Len(params) |->
        IF n = 0 THEN old
        ELSE IF n = 1 \/ IsEmpty(params[n]) THEN f[n - 1]
        ELSE AppendArg(f[n - 1], params[n])]

ArgsRow(old, params, n) ==
    ArgsUpto(old, params)[n] =
        IF n = 1 \/ IsEmpty(params[n]) THEN ArgsUpto(old, params)[n - 1]
        ELSE AppendArg(ArgsUpto(old, params)[n - 1], params[n])

\* What strncpy leaves of a text is a string of letters.
LEMMA BufferTyped == \A t \in Text : Buffer(t) \in Arg
<1> TAKE t \in Text
<1>1. t.letters \in Arg /\ MaxArgBuf \in Nat
    BY EntryAssumption DEF Arg
<1> QED BY <1>1, FirstOfFacts DEF Buffer, Arg

\* The texts of s as they lie in their buffers.
Buffers(s) == [i \in 1 .. Len(s) |-> Buffer(s[i])]

LEMMA BuffersFacts ==
    ASSUME NEW s \in Seq(Text)
    PROVE  /\ Buffers(s) \in Seq(Arg) /\ Len(Buffers(s)) = Len(s)
           /\ \A e \in Text : Buffers(Append(s, e)) = Append(Buffers(s), Buffer(e))
<1>1. Len(s) \in Nat /\ \A i \in 1 .. Len(s) : s[i] \in Text
    OBVIOUS
<1>2. \A i \in 1 .. Len(s) : Buffer(s[i]) \in Arg
    BY <1>1, BufferTyped
<1>3. Buffers(s) \in Seq(Arg) /\ Len(Buffers(s)) = Len(s)
    BY <1>1, <1>2 DEF Buffers
<1>4. ASSUME NEW e \in Text PROVE Buffers(Append(s, e)) = Append(Buffers(s), Buffer(e))
    <2> DEFINE t == Append(s, e)
               r == Append(Buffers(s), Buffer(e))
    <2>1. t \in Seq(Text) /\ Len(t) = Len(s) + 1 /\ t[Len(s) + 1] = e
          /\ \A i \in 1 .. Len(s) : t[i] = s[i]
        OBVIOUS
    <2>2. Buffer(e) \in Arg
        BY BufferTyped
    <2>3. /\ r \in Seq(Arg) /\ Len(r) = Len(s) + 1
          /\ r[Len(s) + 1] = Buffer(e) /\ \A i \in 1 .. Len(s) : r[i] = Buffers(s)[i]
        BY <1>3, <2>2
    <2> HIDE DEF t, r
    <2>4. Buffers(t) \in Seq(Arg) /\ Len(Buffers(t)) = Len(s) + 1
          /\ \A i \in 1 .. Len(s) + 1 : Buffers(t)[i] = Buffer(t[i])
        <3>1. \A i \in 1 .. Len(t) : t[i] \in Text
            BY <2>1
        <3>2. \A i \in 1 .. Len(t) : Buffer(t[i]) \in Arg
            BY <3>1, BufferTyped
        <3> QED BY <1>1, <2>1, <3>2 DEF Buffers
    <2>5. \A i \in 1 .. Len(s) : Buffers(s)[i] = Buffer(s[i])
        BY DEF Buffers
    <2>6. \A i \in 1 .. Len(s) + 1 : Buffers(t)[i] = r[i]
        <3> TAKE i \in 1 .. Len(s) + 1
        <3>1. CASE i = Len(s) + 1
            BY <1>1, <2>1, <2>3, <2>4, <3>1
        <3>2. CASE i \in 1 .. Len(s)
            BY <2>1, <2>3, <2>4, <2>5, <3>2
        <3> QED BY <1>1, <3>1, <3>2
    <2>7. Buffers(t) = r
        BY <2>3, <2>4, <2>6, SeqEqual
    <2> QED BY <2>7 DEF t, r
<1> QED BY <1>3, <1>4

\* AppendParams goes as its definition says, string by string.
LEMMA ArgsRows ==
    ASSUME NEW old \in Seq(Arg), NEW params \in Seq(Text)
    PROVE  /\ AppendParams(old, params) = ArgsUpto(old, params)[Len(params)]
           /\ ArgsUpto(old, params)[0] = old
           /\ \A n \in 1 .. Len(params) : ArgsRow(old, params, n)
<1> DEFINE N == Len(params)
           V == Seq(Arg)
           G(n, x) == IF n = 1 \/ IsEmpty(params[n]) THEN x ELSE AppendArg(x, params[n])
           step == [n \in 1 .. N |-> [x \in V |-> G(n, x)]]
           Q(f) == f = [n \in 0 .. N |-> IF n = 0 THEN old ELSE G(n, f[n - 1])]
<1>1. N \in Nat /\ old \in V /\ step \in [1 .. N -> [V -> V]]
    <2>1. ASSUME NEW n \in 1 .. N, NEW x \in V PROVE G(n, x) \in V
        <3>1. params[n] \in Text
            OBVIOUS
        <3>2. Buffer(params[n]) \in Arg
            BY <3>1, BufferTyped
        <3> QED BY <3>2 DEF AppendArg
    <2> HIDE DEF G
    <2> QED BY <2>1
<1>2. \A n \in 1 .. N : \A x \in V : step[n][x] = G(n, x)
    OBVIOUS
<1> HIDE DEF step
<1>3. PICK f \in [0 .. N -> V] : f[0] = old /\ \A n \in 1 .. N : f[n] = step[n][f[n - 1]]
    <2> HIDE DEF N, V, G
    <2>1. Steps(N, V, old, step)
        BY <1>1 DEF Steps
    <2>2. Stepwise(N, V, old, step)
        BY <2>1, Recursion
    <2> QED BY <2>2 DEF Stepwise
<1>4. \A n \in 1 .. N : f[n] = G(n, f[n - 1])
    <2> TAKE n \in 1 .. N
    <2>1. f[n - 1] \in V
        BY <1>1
    <2> HIDE DEF G
    <2> QED BY <1>2, <1>3, <2>1
<1>6. ArgsUpto(old, params) = CHOOSE g : Q(g)
    BY DEF ArgsUpto
<1>8. AppendParams(old, params) = ArgsUpto(old, params)[Len(params)]
    BY DEF AppendParams, ArgsUpto
<1> HIDE DEF G, ArgsUpto
<1>5. Q(f)
    <2>1. f = [n \in 0 .. N |-> f[n]]
        OBVIOUS
    <2>2. \A n \in 0 .. N : f[n] = IF n = 0 THEN old ELSE G(n, f[n - 1])
        <3> TAKE n \in 0 .. N
        <3>1. n # 0 => n \in 1 .. N
            BY <1>1
        <3> QED BY <1>3, <1>4, <3>1
    <2> QED BY <2>1, <2>2
<1>7. Q(ArgsUpto(old, params))
    <2> HIDE DEF Q
    <2> QED BY <1>5, <1>6
<1>9. \A n \in 0 .. N : ArgsUpto(old, params)[n] =
          IF n = 0 THEN old ELSE G(n, ArgsUpto(old, params)[n - 1])
    BY <1>7
<1>10. \A n \in 1 .. N : n # 0 /\ n \in 0 .. N
    BY <1>1
<1>11. ArgsUpto(old, params)[0] = old
    <2>1. 0 \in 0 .. N
        BY <1>1
    <2> QED BY <1>9, <2>1
<1>12. \A n \in 1 .. N : ArgsRow(old, params, n)
    BY <1>9, <1>10 DEF G, ArgsRow
<1> QED BY <1>8, <1>11, <1>12

\* An element put behind two sequences is put behind the second one.
LEMMA AppendBehind ==
    ASSUME NEW r \in Seq(Arg), NEW s \in Seq(Arg), NEW e \in Arg
    PROVE  Append(r \o s, e) = r \o Append(s, e)
<1>1. /\ Append(r \o s, e) \in Seq(Arg) /\ r \o Append(s, e) \in Seq(Arg)
      /\ Len(Append(r \o s, e)) = Len(r) + Len(s) + 1
      /\ Len(r \o Append(s, e)) = Len(r) + Len(s) + 1
    OBVIOUS
<1>2. \A i \in 1 .. Len(r) + Len(s) + 1 : Append(r \o s, e)[i] = (r \o Append(s, e))[i]
    OBVIOUS
<1> DEFINE a == Append(r \o s, e)
           b == r \o Append(s, e)
<1> HIDE DEF a, b
<1>3. a = b
    BY <1>1, <1>2, SeqEqual DEF a, b
<1> QED BY <1>3 DEF a, b

\* How many arguments may be added.
ArgRoom(old) == IF Len(old) < MaxArgs THEN MaxArgs - Len(old) ELSE 0

\* The arguments there were stay, and behind them come the first of those that are not
\* empty.
LEMMA AppendedParams ==
    ASSUME NEW old \in Seq(Arg), NEW params \in Seq(Text)
    PROVE  AppendParams(old, params) =
              old \o Buffers(FirstOf(
                  Kept(params, {i \in 2 .. Len(params) : ~IsEmpty(params[i])}), ArgRoom(old)))
<1> DEFINE S == {i \in 2 .. Len(params) : ~IsEmpty(params[i])}
           room == ArgRoom(old)
           K(n) == KeptUpto(params, S)[n]
           A(n) == ArgsUpto(old, params)[n]
           Good == {n \in 0 .. Len(params) : A(n) = old \o Buffers(FirstOf(K(n), room))}
<1>0. /\ Len(params) \in Nat /\ room \in Nat /\ MaxArgs \in Nat /\ Len(old) \in Nat
      /\ room = IF Len(old) < MaxArgs THEN MaxArgs - Len(old) ELSE 0
    <2>1. MaxArgs \in Nat
        BY EntryAssumption
    <2>2. Len(old) \in Nat /\ Len(params) \in Nat
        OBVIOUS
    <2> QED BY <2>1, <2>2 DEF ArgRoom
<1>a. \A n \in 1 .. Len(params) : n \in S <=> ~(n = 1 \/ IsEmpty(params[n]))
    OBVIOUS
<1> HIDE DEF S, room
<1>1. 0 \in Good
    <2>1. A(0) = old
        BY ArgsRows
    <2>0. K(0) = <<>>
        BY KeptRows
    <2>2. FirstOf(K(0), room) = <<>>
        <3>1. <<>> \in Seq(Text) /\ Len(<<>>) = 0
            OBVIOUS
        <3> HIDE DEF K
        <3> QED BY <1>0, <2>0, <3>1, FirstOfFacts
    <2>3. 0 \in 0 .. Len(params) /\ old \o <<>> = old
        BY <1>0
    <2>4. Buffers(<<>>) = <<>>
        <3>1. <<>> \in Seq(Text) /\ Len(<<>>) = 0
            OBVIOUS
        <3>2. Buffers(<<>>) \in Seq(Arg) /\ Len(Buffers(<<>>)) = 0
            BY <3>1, BuffersFacts
        <3> QED BY <3>2, EmptySeq
    <2> HIDE DEF A, K
    <2> QED BY <2>0, <2>1, <2>2, <2>3, <2>4
<1>2. ASSUME NEW n \in 1 .. Len(params), n - 1 \in Good PROVE n \in Good
    <2>1. A(n) = IF n = 1 \/ IsEmpty(params[n]) THEN A(n - 1)
                 ELSE AppendArg(A(n - 1), params[n])
        <3>1. ArgsRow(old, params, n)
            BY ArgsRows
        <3> QED BY <3>1 DEF ArgsRow
    <2>2. K(n) = IF n \in S THEN Append(K(n - 1), params[n]) ELSE K(n - 1)
        BY KeptRows
    <2>3. K(n - 1) \in Seq(Text) /\ params[n] \in Text
        <3>1. n - 1 \in 0 .. Len(params)
            BY <1>0
        <3> QED BY <3>1, KeptTyped
    <2>4. A(n - 1) = old \o Buffers(FirstOf(K(n - 1), room))
        BY <1>2
    <2> HIDE DEF A, K
    <2> DEFINE x == FirstOf(K(n - 1), room)
    <2>5. x \in Seq(Text) /\ Len(x) = IF Len(K(n - 1)) < room THEN Len(K(n - 1)) ELSE room
        BY <1>0, <2>3, FirstOfFacts
    <2>9. Buffers(x) \in Seq(Arg) /\ Len(Buffers(x)) = Len(x) /\ Buffer(params[n]) \in Arg
          /\ Buffers(Append(x, params[n])) = Append(Buffers(x), Buffer(params[n]))
        <3> HIDE DEF x
        <3> QED BY <2>3, <2>5, BuffersFacts, BufferTyped
    <2>6. Len(old \o Buffers(x)) = Len(old) + Len(x)
        <3> DEFINE y == Buffers(x)
        <3>1. old \in Seq(Arg) /\ y \in Seq(Arg) /\ Len(y) = Len(x)
            BY <2>9
        <3> HIDE DEF y
        <3>2. Len(old \o y) = Len(old) + Len(y)
            BY <3>1
        <3> QED BY <3>1, <3>2 DEF y
    <2>7. CASE n \notin S
        <3>1. A(n) = A(n - 1) /\ K(n) = K(n - 1)
            BY <1>a, <2>1, <2>2, <2>7
        <3> QED BY <2>4, <3>1
    <2>8. CASE n \in S
        <3>1. A(n) = AppendArg(old \o Buffers(x), params[n]) /\ K(n) = Append(K(n - 1), params[n])
            BY <1>a, <2>1, <2>2, <2>4, <2>8
        <3>2. FirstOf(Append(K(n - 1), params[n]), room) =
                  IF Len(K(n - 1)) < room THEN Append(x, params[n]) ELSE x
            <4> DEFINE k == K(n - 1)
            <4>1. k \in Seq(Text) /\ params[n] \in Text /\ room \in Nat
                BY <1>0, <2>3
            <4> HIDE DEF k
            <4>2. FirstOf(Append(k, params[n]), room) =
                      IF Len(k) < room THEN Append(FirstOf(k, room), params[n])
                                       ELSE FirstOf(k, room)
                BY ONLY <4>1, FirstOfAppend
            <4> QED BY ONLY <4>2 DEF k, x
        <3> HIDE DEF x
        <3>3. Len(K(n - 1)) \in Nat
            BY <2>3
        <3>4. CASE Len(K(n - 1)) < room
            <4>1. ~(Len(old \o Buffers(x)) >= MaxArgs)
                BY <1>0, <2>5, <2>6, <3>3, <3>4
            <4>2. A(n) = Append(old \o Buffers(x), Buffer(params[n]))
                BY <3>1, <4>1 DEF AppendArg
            <4>3. Append(old \o Buffers(x), Buffer(params[n])) = old \o Buffers(Append(x, params[n]))
                <5>1. Append(old \o Buffers(x), Buffer(params[n]))
                          = old \o Append(Buffers(x), Buffer(params[n]))
                    BY ONLY <2>9, old \in Seq(Arg), AppendBehind
                <5> QED BY <2>9, <5>1
            <4>4. FirstOf(K(n), room) = Append(x, params[n])
                BY <3>1, <3>2, <3>4
            <4>5. A(n) = old \o Buffers(FirstOf(K(n), room)) /\ n \in 0 .. Len(params)
                BY <4>2, <4>3, <4>4
            <4> QED BY <4>5
        <3>5. CASE ~(Len(K(n - 1)) < room)
            <4>1. Len(old \o Buffers(x)) >= MaxArgs
                BY <1>0, <2>5, <2>6, <3>3, <3>5
            <4>2. A(n) = old \o Buffers(x)
                BY <3>1, <4>1 DEF AppendArg
            <4>3. FirstOf(K(n), room) = x
                BY <3>1, <3>2, <3>5
            <4> QED BY <4>2, <4>3
        <3> QED BY <3>4, <3>5
    <2> QED BY <2>7, <2>8
<1>3. \A n \in 1 .. Len(params) : n - 1 \in Good => n \in Good
    BY <1>2
<1>4. Len(params) \in Good
    <2>1. Len(params) \in 0 .. Len(params)
        BY <1>0
    <2> HIDE DEF Good
    <2>2. \A n \in 0 .. Len(params) : n \in Good
        BY <1>0, <1>1, <1>3, Upwards
    <2> QED BY <2>1, <2>2
<1>5. AppendParams(old, params) = A(Len(params)) /\ Kept(params, S) = K(Len(params))
    BY ArgsRows, KeptRows
<1> QED BY <1>4, <1>5 DEF S, room

\* The arguments there were are still first, and what is added stays within the limit.
LEMMA AppendedTyped ==
    ASSUME NEW old \in Seq(Arg), NEW params \in Seq(Text)
    PROVE  LET new == AppendParams(old, params)
           IN  /\ new \in Seq(Arg) /\ IsPrefix(old, new)
               /\ new # old => Len(new) <= MaxArgs
<1> DEFINE S == {i \in 2 .. Len(params) : ~IsEmpty(params[i])}
           first == FirstOf(Kept(params, S), ArgRoom(old))
           more == Buffers(first)
<1>1. Kept(params, S) \in Seq(Text)
    BY KeptTyped
<1>2. MaxArgs \in Nat /\ Len(old) \in Nat /\ ArgRoom(old) \in Nat
    BY EntryAssumption DEF ArgRoom
<1>3. more \in Seq(Arg) /\ Len(more) <= ArgRoom(old)
    <2> HIDE DEF S
    <2>1. /\ first \in Seq(Text)
          /\ Len(first) = IF Len(Kept(params, S)) < ArgRoom(old)
                         THEN Len(Kept(params, S)) ELSE ArgRoom(old)
        BY <1>1, <1>2, FirstOfFacts
    <2>2. Len(Kept(params, S)) \in Nat
        BY <1>1
    <2> HIDE DEF first
    <2>3. more \in Seq(Arg) /\ Len(more) = Len(first)
        BY <2>1, BuffersFacts
    <2> HIDE DEF more
    <2> QED BY <1>2, <2>1, <2>2, <2>3
<1>4. AppendParams(old, params) = old \o more
    BY AppendedParams
<1> HIDE DEF first, more
<1>5. old \o more \in Seq(Arg) /\ Len(old \o more) = Len(old) + Len(more)
    BY <1>3
<1>6. IsPrefix(old, old \o more)
    BY <1>3 DEF IsPrefix
<1>7. old \o more # old => Len(old \o more) <= MaxArgs
    <2>1. CASE ArgRoom(old) = 0
        <3>1. Len(more) = 0
            BY <1>3, <2>1
        <3>2. more = <<>>
            BY <1>3, <3>1
        <3> QED BY <3>2
    <2>2. CASE ArgRoom(old) # 0
        <3>1. ArgRoom(old) = MaxArgs - Len(old)
            BY <2>2 DEF ArgRoom
        <3>2. Len(more) \in Nat
            BY <1>3
        <3> QED BY <1>2, <1>3, <1>5, <3>1, <3>2
    <2> QED BY <2>1, <2>2
<1> QED BY <1>4, <1>5, <1>6, <1>7

-----------------------------------------------------------------------------
(***************************************************************************)
(* Division.                                                               *)
(***************************************************************************)
\* Quotient and remainder.
LEMMA DivMod ==
    ASSUME NEW n \in Int, NEW b \in Nat \ {0}
    PROVE  /\ n \div b \in Int /\ n % b \in 0 .. b - 1
           /\ n = b * (n \div b) + (n % b)
           /\ n >= 0 => n \div b \in Nat
<1>1. n \div b \in Int /\ n % b \in 0 .. b - 1
    OBVIOUS
<1>2. n % b = n - b * (n \div b)
    OBVIOUS
<1>3. n >= 0 => n \div b \in Nat
    OBVIOUS
<1>4. b * (n \div b) \in Int
    OBVIOUS
<1> DEFINE q == b * (n \div b)
           r == n % b
<1> HIDE DEF q, r
<1>5. n = q + r
    BY <1>1, <1>2, <1>4 DEF q, r
<1>6. n = b * (n \div b) + (n % b)
    BY <1>5 DEF q, r
<1> QED BY <1>1, <1>3, <1>6

\* They are the only ones.
LEMMA DivUnique ==
    ASSUME NEW b \in Nat \ {0}, NEW q \in Int, NEW r \in 0 .. b - 1
    PROVE  (b * q + r) \div b = q /\ (b * q + r) % b = r
OBVIOUS

\* Multiples of the modulus do not matter.
LEMMA ModAdd ==
    ASSUME NEW b \in Nat \ {0}, NEW t \in Int, NEW y \in Int
    PROVE  (b * t + y) % b = y % b
<1> DEFINE q == y \div b
           r == y % b
<1>1. q \in Int /\ r \in 0 .. b - 1 /\ y = b * q + r
    BY DivMod
<1> HIDE DEF q, r
<1>2. b * t + y = b * (t + q) + r
    BY <1>1
<1>3. t + q \in Int
    BY <1>1
<1>4. (b * (t + q) + r) % b = r
    BY <1>1, <1>3, DivUnique
<1> QED BY <1>2, <1>4 DEF r

\* A number with one more digit.
Longer(x, b, d) == x * b + d

\* It makes no difference if the number has gone round before it gets the digit.
SameRound(w, x, b, d) == Longer(x % w, b, d) % w = Longer(x, b, d) % w

\* A digit more, before or after going round.
LEMMA ModStep ==
    ASSUME NEW w \in Nat \ {0}, NEW x \in Nat, NEW b \in Nat, NEW d \in Nat
    PROVE  SameRound(w, x, b, d)
<1> DEFINE q == x \div w
           r == x % w
<1>1. q \in Int /\ r \in Int /\ x = w * q + r
    BY DivMod
<1> HIDE DEF q, r
<1>2. x * b + d = w * (q * b) + (r * b + d)
    BY <1>1
<1>3. q * b \in Int /\ r * b + d \in Int
    BY <1>1
<1> DEFINE t == q * b
           y == r * b + d
<1> HIDE DEF t, y
<1>4. (w * t + y) % w = y % w
    BY <1>3, ModAdd DEF t, y
<1>5. (r * b + d) % w = (x * b + d) % w
    BY <1>2, <1>4 DEF t, y
<1> QED BY ONLY <1>5 DEF r, Longer, SameRound

\* The lowest digit, and what is above it.
LEMMA ModPair ==
    ASSUME NEW m \in Nat, NEW b \in Nat \ {0}, NEW p \in Nat \ {0}
    PROVE  ((m \div b) % p) * b + (m % b) = m % (p * b)
<1> DEFINE q == m \div b
           r == m % b
           t == q \div p
           u == q % p
<1>1. q \in Nat /\ r \in 0 .. b - 1 /\ m = b * q + r
    <2>1. m \in Int /\ m >= 0
        OBVIOUS
    <2> QED BY ONLY <2>1, b \in Nat \ {0}, DivMod
<1>2. t \in Int /\ u \in 0 .. p - 1 /\ q = p * t + u
    <2> HIDE DEF q
    <2> QED BY <1>1, DivMod
<1> HIDE DEF q, r, t, u
<1>3. m = (p * b) * t + (u * b + r)
    BY <1>1, <1>2
<1>4. p * b \in Nat \ {0}
    OBVIOUS
<1>5. u * b + r \in 0 .. p * b - 1
    <2>1. u * b <= (p - 1) * b
        BY <1>2
    <2>2. (p - 1) * b = p * b - b
        OBVIOUS
    <2>3. u * b \in Nat /\ p * b \in Nat
        BY <1>2
    <2> DEFINE ub == u * b
               pb == p * b
    <2> HIDE DEF ub, pb
    <2>4. ub <= pb - b /\ ub \in Nat /\ pb \in Nat
        BY <2>1, <2>2, <2>3 DEF ub, pb
    <2>5. ub + r \in 0 .. pb - 1
        BY <1>1, <2>4
    <2> QED BY <2>5 DEF ub, pb
<1> DEFINE pb == p * b
           ur == u * b + r
<1> HIDE DEF pb, ur
<1>6. (pb * t + ur) % pb = ur
    BY <1>2, <1>4, <1>5, DivUnique DEF pb, ur
<1>7. m % (p * b) = u * b + r
    BY <1>3, <1>6 DEF pb, ur
<1> QED BY <1>7 DEF q, r, t, u

\* Dividing twice.
LEMMA DivDiv ==
    ASSUME NEW n \in Nat, NEW b \in Nat \ {0}, NEW c \in Nat \ {0}
    PROVE  (n \div b) \div c = n \div (b * c)
OBVIOUS

\* The rest by a divisor of the divisor.
LEMMA ModMod ==
    ASSUME NEW n \in Int, NEW p \in Nat \ {0}, NEW k \in Nat \ {0}
    PROVE  (n % (p * k)) % p = n % p
<1> DEFINE w == p * k
           q == n \div w
           r == n % w
<1>1. w \in Nat \ {0}
    OBVIOUS
<1>2. q \in Int /\ r \in Int /\ n = w * q + r
    <2> HIDE DEF w
    <2> QED BY <1>1, DivMod
<1> HIDE DEF q, r
<1>3. n = p * (k * q) + r /\ k * q \in Int
    BY <1>2
<1> HIDE DEF w
<1> DEFINE t == k * q
<1> HIDE DEF t
<1>4. (p * t + r) % p = r % p
    BY <1>2, <1>3, ModAdd DEF t
<1> QED BY <1>3, <1>4 DEF t, r, w

-----------------------------------------------------------------------------
(***************************************************************************)
(* Bytes of a number.                                                      *)
(***************************************************************************)
\* Power goes as its definition says; powers are positive.
LEMMA PowerRows ==
    /\ Power[0] = 1
    /\ \A n \in 1 .. 8 : Power[n] = ByteSize * Power[n - 1]
    /\ \A n \in 0 .. 8 : Power[n] \in Nat \ {0}
<1> DEFINE V == Nat \ {0}
           step == [n \in 1 .. 8 |-> [x \in V |-> ByteSize * x]]
           Q(f) == f = [n \in 0 .. 8 |-> IF n = 0 THEN 1 ELSE ByteSize * f[n - 1]]
<1>0. ByteSize \in Nat \ {0, 1}
    BY EntryAssumption
<1>1. step \in [1 .. 8 -> [V -> V]]
    <2>1. \A x \in V : ByteSize * x \in V
        BY <1>0
    <2> QED BY <2>1
<1>2. \A n \in 1 .. 8 : \A x \in V : step[n][x] = ByteSize * x
    OBVIOUS
<1> HIDE DEF step
<1>3. PICK f \in [0 .. 8 -> V] : f[0] = 1 /\ \A n \in 1 .. 8 : f[n] = step[n][f[n - 1]]
    <2> DEFINE N == 8
               base == 1
    <2>1. N \in Nat /\ base \in V /\ step \in [1 .. N -> [V -> V]]
        BY <1>1
    <2> HIDE DEF N, V, base
    <2>2. Stepwise(N, V, base, step)
        BY <2>1, Recursion DEF Steps
    <2> QED BY <2>2 DEF N, base, Stepwise
<1>4. \A n \in 1 .. 8 : f[n] = ByteSize * f[n - 1]
    <2> TAKE n \in 1 .. 8
    <2>1. f[n - 1] \in V
        OBVIOUS
    <2> QED BY <1>2, <1>3, <2>1
<1>5. Q(f)
    <2>1. f = [n \in 0 .. 8 |-> f[n]]
        OBVIOUS
    <2>2. \A n \in 0 .. 8 : f[n] = IF n = 0 THEN 1 ELSE ByteSize * f[n - 1]
        <3> TAKE n \in 0 .. 8
        <3>1. n # 0 => n \in 1 .. 8
            OBVIOUS
        <3> QED BY <1>3, <1>4, <3>1
    <2> QED BY <2>1, <2>2
<1>6. Power = CHOOSE g : Q(g)
    BY DEF Power
<1> HIDE DEF Q
<1>7. Q(Power)
    BY <1>5, <1>6
<1>8. Power[0] = 1 /\ \A n \in 1 .. 8 : Power[n] = ByteSize * Power[n - 1]
    <2>1. Power = [n \in 0 .. 8 |-> IF n = 0 THEN 1 ELSE ByteSize * Power[n - 1]]
        BY <1>7 DEF Q
    <2> DEFINE P == Power
    <2> HIDE DEF P
    <2>2. P = [n \in 0 .. 8 |-> IF n = 0 THEN 1 ELSE ByteSize * P[n - 1]]
        BY <2>1 DEF P
    <2>3. \A n \in 0 .. 8 : P[n] = IF n = 0 THEN 1 ELSE ByteSize * P[n - 1]
        BY <2>2
    <2>4. P[0] = 1 /\ \A n \in 1 .. 8 : P[n] = ByteSize * P[n - 1]
        BY <2>3
    <2> QED BY <2>4 DEF P
<1>9. \A n \in 0 .. 8 : Power[n] \in Nat \ {0}
    <2> DEFINE Good == {n \in 0 .. 8 : Power[n] \in Nat \ {0}}
    <2>1. 0 \in Good
        BY <1>8
    <2>2. ASSUME NEW n \in 1 .. 8, n - 1 \in Good PROVE n \in Good
        <3>1. Power[n] = ByteSize * Power[n - 1] /\ Power[n - 1] \in Nat \ {0}
            BY <1>8, <2>2
        <3> QED BY <1>0, <3>1
    <2> HIDE DEF Good
    <2>3. \A n \in 1 .. 8 : n - 1 \in Good => n \in Good
        BY <2>2
    <2>4. \A n \in 0 .. 8 : n \in Good
        BY <2>1, <2>3, Upwards
    <2> QED BY <2>4 DEF Good
<1> QED BY <1>8, <1>9

\* A power is a multiple of every lower one.
LEMMA PowerSplits ==
    ASSUME NEW k \in 0 .. 8, NEW n \in 0 .. 8, k <= n
    PROVE  Power[n] = Power[k] * Power[n - k]
<1> DEFINE Good == {i \in 0 .. n - k : Power[k + i] = Power[k] * Power[i]}
<1>1. 0 \in Good
    <2>1. Power[0] = 1 /\ Power[k] \in Nat
        BY PowerRows
    <2> QED BY <2>1
<1>2. ASSUME NEW i \in 1 .. n - k, i - 1 \in Good PROVE i \in Good
    <2>1. i \in 1 .. 8 /\ k + i \in 1 .. 8 /\ i - 1 \in 0 .. 8 /\ k + (i - 1) = (k + i) - 1
        OBVIOUS
    <2>2. Power[i] = ByteSize * Power[i - 1] /\ Power[k + i] = ByteSize * Power[(k + i) - 1]
        BY <2>1, PowerRows
    <2>3. Power[(k + i) - 1] = Power[k] * Power[i - 1]
        BY <1>2, <2>1
    <2>4. ByteSize \in Nat /\ Power[k] \in Nat /\ Power[i - 1] \in Nat
        BY <2>1, PowerRows, EntryAssumption
    <2> DEFINE a == Power[k]
               c == Power[i - 1]
    <2> HIDE DEF a, c
    <2>5. ByteSize * (a * c) = a * (ByteSize * c)
        BY <2>4 DEF a, c
    <2>6. Power[k + i] = Power[k] * Power[i]
        BY <2>2, <2>3, <2>5 DEF a, c
    <2> QED BY <2>6
<1>3. n - k \in Good
    <2>1. \A i \in 1 .. n - k : i - 1 \in Good => i \in Good
        BY <1>2
    <2>2. n - k \in Nat /\ n - k \in 0 .. n - k
        OBVIOUS
    <2> HIDE DEF Good
    <2> QED BY <1>1, <2>1, <2>2, Upwards
<1>4. k + (n - k) = n
    OBVIOUS
<1> QED BY <1>3, <1>4

-----------------------------------------------------------------------------
(***************************************************************************)
(* Numbers.                                                                *)
(***************************************************************************)
\* A word has values.
LEMMA WordFacts == WordSize \in Nat \ {0}
BY PowerRows DEF WordSize

\* What strtoul is given.
Letters == Seq(0 .. Minus)

\* The letters that Leading counts, and the one that ends them.
LEMMA LeadingFacts ==
    ASSUME NEW T, NEW s \in Seq(T), NEW letters
    PROVE  /\ Leading(s, letters) \in 0 .. Len(s)
           /\ \A i \in 1 .. Leading(s, letters) : s[i] \in letters
           /\ Leading(s, letters) < Len(s) => s[Leading(s, letters) + 1] \notin letters
<1> DEFINE Q(n) == /\ \A i \in 1 .. n : s[i] \in letters
                   /\ n < Len(s) => s[n + 1] \notin letters
           ends == {n \in 0 .. Len(s) : n < Len(s) => s[n + 1] \notin letters}
<1>0. Len(s) \in Nat
    OBVIOUS
<1>1. PICK n \in ends : \A m \in ends : n <= m
    <2>1. Len(s) \in ends /\ ends \in SUBSET Nat
        BY <1>0
    <2> HIDE DEF ends
    <2>2. ends # {}
        BY <2>1
    <2> QED BY <2>1, <2>2, LeastOf
<1>2. \A i \in 1 .. n : s[i] \in letters
    <2> SUFFICES ASSUME NEW i \in 1 .. n, s[i] \notin letters PROVE FALSE
        OBVIOUS
    <2>1. i - 1 \in 0 .. Len(s) /\ (i - 1) + 1 = i /\ i - 1 < n
        BY <1>0
    <2>2. i - 1 \in ends
        BY <2>1
    <2> QED BY <1>1, <2>1, <2>2
<1>3. n \in 0 .. Len(s) /\ Q(n)
    BY <1>2
<1>4. Leading(s, letters) = CHOOSE m \in 0 .. Len(s) : Q(m)
    BY DEF Leading
<1> HIDE DEF Q
<1>5. Leading(s, letters) \in 0 .. Len(s) /\ Q(Leading(s, letters))
    BY <1>3, <1>4
<1> QED BY <1>5 DEF Q

\* A text is read in base 10 or 16.
LEMMA BaseFacts == \A s : Base(s) \in {10, 16}
BY DEF Base

\* What Accumulated has after the first n digits.
AccUpto(digits, base) ==
    CHOOSE f : f = [n \in 0 .. Len(digits) |->
        IF n = 0 THEN 0 ELSE (f[n - 1] * base + digits[n]) % WordSize]

\* Accumulated goes as its definition says, digit by digit.
LEMMA AccRows ==
    ASSUME NEW digits \in Seq(Nat), NEW base \in Nat
    PROVE  /\ Accumulated(digits, base) = AccUpto(digits, base)[Len(digits)]
           /\ AccUpto(digits, base)[0] = 0
           /\ \A n \in 1 .. Len(digits) : AccUpto(digits, base)[n] =
                 (AccUpto(digits, base)[n - 1] * base + digits[n]) % WordSize
<1> DEFINE N == Len(digits)
           V == Nat
           G(n, x) == (x * base + digits[n]) % WordSize
           step == [n \in 1 .. N |-> [x \in V |-> G(n, x)]]
           Q(f) == f = [n \in 0 .. N |-> IF n = 0 THEN 0 ELSE G(n, f[n - 1])]
<1>1. N \in Nat /\ 0 \in V /\ step \in [1 .. N -> [V -> V]]
    <2>1. ASSUME NEW n \in 1 .. N, NEW x \in V PROVE G(n, x) \in V
        <3>1. digits[n] \in Nat
            OBVIOUS
        <3>2. x * base + digits[n] \in Int
            BY <3>1
        <3> DEFINE y == x * base + digits[n]
        <3> HIDE DEF y
        <3>3. y \in Int /\ WordSize \in Nat \ {0}
            BY <3>2, WordFacts DEF y
        <3>4. y % WordSize \in 0 .. WordSize - 1
            BY <3>3, DivMod
        <3>5. y % WordSize \in Nat
            BY <3>3, <3>4
        <3> QED BY <3>5 DEF y
    <2>2. N \in Nat /\ 0 \in V
        OBVIOUS
    <2> HIDE DEF G, V, N
    <2>3. step \in [1 .. N -> [V -> V]]
        BY <2>1
    <2> HIDE DEF step
    <2> QED BY <2>2, <2>3
<1>2. \A n \in 1 .. N : \A x \in V : step[n][x] = G(n, x)
    OBVIOUS
<1> HIDE DEF step
<1>3. PICK f \in [0 .. N -> V] : f[0] = 0 /\ \A n \in 1 .. N : f[n] = step[n][f[n - 1]]
    <2> DEFINE first == 0
    <2>0. N \in Nat /\ first \in V /\ step \in [1 .. N -> [V -> V]]
        BY <1>1
    <2> HIDE DEF N, V, G, first
    <2>1. Steps(N, V, first, step)
        BY <2>0 DEF Steps
    <2>2. Stepwise(N, V, first, step)
        BY <2>1, Recursion
    <2> QED BY <2>2 DEF Stepwise, first
<1>4. \A n \in 1 .. N : f[n] = G(n, f[n - 1])
    <2> TAKE n \in 1 .. N
    <2>1. f[n - 1] \in V
        <3>1. n - 1 \in 0 .. N
            BY <1>1
        <3> HIDE DEF N, V
        <3> QED BY <3>1
    <2> HIDE DEF G
    <2> QED BY <1>2, <1>3, <2>1
<1>6. AccUpto(digits, base) = CHOOSE g : Q(g)
    BY DEF AccUpto
<1>8. Accumulated(digits, base) = AccUpto(digits, base)[Len(digits)]
    BY DEF Accumulated, AccUpto
<1> HIDE DEF G, AccUpto
<1>5. Q(f)
    <2>1. f = [n \in 0 .. N |-> f[n]]
        OBVIOUS
    <2>2. \A n \in 0 .. N : f[n] = IF n = 0 THEN 0 ELSE G(n, f[n - 1])
        <3> TAKE n \in 0 .. N
        <3>1. n # 0 => n \in 1 .. N
            BY <1>1
        <3> QED BY <1>3, <1>4, <3>1
    <2> QED BY <2>1, <2>2
<1>7. Q(AccUpto(digits, base))
    <2> HIDE DEF Q
    <2> QED BY <1>5, <1>6
<1>9. \A n \in 0 .. N : AccUpto(digits, base)[n] =
          IF n = 0 THEN 0 ELSE G(n, AccUpto(digits, base)[n - 1])
    BY <1>7
<1>10. \A n \in 1 .. N : n # 0 /\ n \in 0 .. N
    BY <1>1
<1>11. AccUpto(digits, base)[0] = 0
    <2>1. 0 \in 0 .. N
        BY <1>1
    <2> QED BY <1>9, <2>1
<1>12. \A n \in 1 .. N : AccUpto(digits, base)[n] = G(n, AccUpto(digits, base)[n - 1])
    BY <1>9, <1>10
<1> QED BY <1>8, <1>11, <1>12 DEF G

\* What Magnitude has after the first n letters.
MagUpto(s) ==
    CHOOSE f : f = [n \in 0 .. Len(s) |->
        IF n = 0 THEN 0
        ELSE IF s[n] < Base(s) THEN f[n - 1] * Base(s) + s[n] ELSE f[n - 1]]

\* Magnitude goes as its definition says, letter by letter.
LEMMA MagRows ==
    ASSUME NEW s \in Seq(Nat)
    PROVE  /\ Magnitude(s) = MagUpto(s)[Len(s)]
           /\ MagUpto(s)[0] = 0
           /\ \A n \in 1 .. Len(s) : MagUpto(s)[n] =
                 IF s[n] < Base(s) THEN MagUpto(s)[n - 1] * Base(s) + s[n] ELSE MagUpto(s)[n - 1]
           /\ \A n \in 0 .. Len(s) : MagUpto(s)[n] \in Nat
<1> DEFINE N == Len(s)
           V == Nat
           G(n, x) == IF s[n] < Base(s) THEN x * Base(s) + s[n] ELSE x
           step == [n \in 1 .. N |-> [x \in V |-> G(n, x)]]
           Q(f) == f = [n \in 0 .. N |-> IF n = 0 THEN 0 ELSE G(n, f[n - 1])]
<1>1. N \in Nat /\ 0 \in V /\ step \in [1 .. N -> [V -> V]]
    <2>1. ASSUME NEW n \in 1 .. N, NEW x \in V PROVE G(n, x) \in V
        <3>1. s[n] \in Nat /\ Base(s) \in Nat
            BY BaseFacts
        <3> QED BY <3>1
    <2>2. N \in Nat /\ 0 \in V
        OBVIOUS
    <2> HIDE DEF G, V, N
    <2>3. step \in [1 .. N -> [V -> V]]
        BY <2>1
    <2> HIDE DEF step
    <2> QED BY <2>2, <2>3
<1>2. \A n \in 1 .. N : \A x \in V : step[n][x] = G(n, x)
    OBVIOUS
<1> HIDE DEF step
<1>3. PICK f \in [0 .. N -> V] : f[0] = 0 /\ \A n \in 1 .. N : f[n] = step[n][f[n - 1]]
    <2> DEFINE first == 0
    <2>0. N \in Nat /\ first \in V /\ step \in [1 .. N -> [V -> V]]
        BY <1>1
    <2> HIDE DEF N, V, G, first
    <2>1. Steps(N, V, first, step)
        BY <2>0 DEF Steps
    <2>2. Stepwise(N, V, first, step)
        BY <2>1, Recursion
    <2> QED BY <2>2 DEF Stepwise, first
<1>4. \A n \in 1 .. N : f[n] = G(n, f[n - 1])
    <2> TAKE n \in 1 .. N
    <2>1. f[n - 1] \in V
        <3>1. n - 1 \in 0 .. N
            BY <1>1
        <3> HIDE DEF N, V
        <3> QED BY <3>1
    <2> HIDE DEF G
    <2> QED BY <1>2, <1>3, <2>1
<1>6. MagUpto(s) = CHOOSE g : Q(g)
    BY DEF MagUpto
<1>8. Magnitude(s) = MagUpto(s)[Len(s)]
    BY DEF Magnitude, MagUpto
<1> HIDE DEF G, MagUpto
<1>5. Q(f)
    <2>1. f = [n \in 0 .. N |-> f[n]]
        OBVIOUS
    <2>2. \A n \in 0 .. N : f[n] = IF n = 0 THEN 0 ELSE G(n, f[n - 1])
        <3> TAKE n \in 0 .. N
        <3>1. n # 0 => n \in 1 .. N
            BY <1>1
        <3> QED BY <1>3, <1>4, <3>1
    <2> QED BY <2>1, <2>2
<1>7. Q(MagUpto(s))
    <2> HIDE DEF Q
    <2> QED BY <1>5, <1>6
<1>9. \A n \in 0 .. N : MagUpto(s)[n] = IF n = 0 THEN 0 ELSE G(n, MagUpto(s)[n - 1])
    BY <1>7
<1>10. \A n \in 1 .. N : n # 0 /\ n \in 0 .. N
    BY <1>1
<1>11. MagUpto(s)[0] = 0
    <2>1. 0 \in 0 .. N
        BY <1>1
    <2> QED BY <1>9, <2>1
<1>12. \A n \in 1 .. N : MagUpto(s)[n] = G(n, MagUpto(s)[n - 1])
    BY <1>9, <1>10
<1>13. \A n \in 0 .. N : MagUpto(s)[n] \in Nat
    <2> DEFINE Good == {n \in 0 .. N : MagUpto(s)[n] \in Nat}
    <2>1. 0 \in Good
        BY <1>1, <1>11
    <2>2. ASSUME NEW n \in 1 .. N, n - 1 \in Good PROVE n \in Good
        <3>1. MagUpto(s)[n - 1] \in Nat /\ s[n] \in Nat /\ Base(s) \in Nat
            BY <2>2, BaseFacts
        <3>2. MagUpto(s)[n] = G(n, MagUpto(s)[n - 1])
            BY <1>12
        <3> DEFINE x == MagUpto(s)[n - 1]
        <3>3. G(n, x) \in Nat
            <4> HIDE DEF x
            <4>1. x \in Nat
                BY <3>1 DEF x
            <4> QED BY <3>1, <4>1 DEF G
        <3> QED BY <1>10, <3>2, <3>3
    <2> HIDE DEF Good
    <2>3. \A n \in 1 .. N : n - 1 \in Good => n \in Good
        BY <2>2
    <2> HIDE DEF N
    <2>4. \A n \in 0 .. N : n \in Good
        BY <1>1, <2>1, <2>3, Upwards
    <2> QED BY <2>4 DEF Good
<1> QED BY <1>8, <1>11, <1>12, <1>13 DEF G

\* Going round at every digit comes to the same as going round once, at the end: what is
\* accumulated over the digits behind the first k letters, which count for nothing.
LEMMA Rounds ==
    ASSUME NEW s \in Seq(Nat), NEW k \in 0 .. Len(s), MagUpto(s)[k] = 0,
           \A i \in k + 1 .. Len(s) : s[i] < Base(s),
           NEW digits \in Seq(Nat), Len(digits) = Len(s) - k,
           \A n \in 1 .. Len(digits) : digits[n] = s[k + n]
    PROVE  Accumulated(digits, Base(s)) = Magnitude(s) % WordSize
<1> DEFINE A(n) == AccUpto(digits, Base(s))[n]
           M(n) == MagUpto(s)[n]
           b == Base(s)
           Good == {n \in 0 .. Len(digits) : A(n) = M(k + n) % WordSize}
<1>0. /\ Len(s) \in Nat /\ Len(digits) \in Nat /\ b \in Nat /\ WordSize \in Nat \ {0}
      /\ \A n \in 0 .. Len(s) : M(n) \in Nat
    <2>1. \A n \in 0 .. Len(s) : M(n) \in Nat
        BY MagRows
    <2>2. b \in Nat
        <3>1. b \in {10, 16}
            BY ONLY BaseFacts
        <3> HIDE DEF b
        <3> QED BY ONLY <3>1
    <2>3. Len(s) \in Nat /\ Len(digits) \in Nat
        OBVIOUS
    <2> HIDE DEF M, b
    <2> QED BY <2>1, <2>2, <2>3, WordFacts
<1>1. 0 \in Good
    <2>1. A(0) = 0
        BY <1>0, AccRows
    <2>2. k + 0 = k /\ 0 % WordSize = 0
        <3>1. (WordSize * 0 + 0) % WordSize = 0
            BY <1>0, DivUnique
        <3>2. WordSize * 0 + 0 = 0
            BY <1>0
        <3> QED BY <3>1, <3>2
    <2> HIDE DEF A
    <2> QED BY <1>0, <2>1, <2>2
<1>2. ASSUME NEW n \in 1 .. Len(digits), n - 1 \in Good PROVE n \in Good
    <2>1. A(n) = (A(n - 1) * b + digits[n]) % WordSize
        BY <1>0, AccRows
    <2>2. /\ k + n \in 1 .. Len(s) /\ k + n \in k + 1 .. Len(s) /\ (k + n) - 1 = k + (n - 1)
          /\ k + (n - 1) \in 0 .. Len(s)
        BY <1>0
    <2>3. M(k + n) = M(k + (n - 1)) * b + s[k + n]
        BY <2>2, MagRows
    <2>4. digits[n] = s[k + n] /\ digits[n] \in Nat /\ M(k + (n - 1)) \in Nat
        <3>1. digits[n] = s[k + n]
            OBVIOUS
        <3>3. digits[n] \in Nat
            BY ONLY digits \in Seq(Nat), n \in 1 .. Len(digits)
        <3>2. M(k + (n - 1)) \in Nat
            BY <1>0, <2>2
        <3> QED BY <3>1, <3>2, <3>3
    <2>5. A(n - 1) = M(k + (n - 1)) % WordSize
        BY <1>2
    <2> HIDE DEF A, M, b
    <2>6. A(n) = M(k + n) % WordSize
        <3> DEFINE x == M(k + (n - 1))
                   d == digits[n]
        <3>1. x \in Nat /\ d \in Nat
            BY <2>4
        <3> HIDE DEF x, d
        <3>2. SameRound(WordSize, x, b, d)
            <4>1. WordSize \in Nat \ {0} /\ b \in Nat
                BY <1>0
            <4> QED BY ONLY <3>1, <4>1, ModStep
        <3>3. A(n) = Longer(x % WordSize, b, d) % WordSize
            BY ONLY <2>1, <2>5 DEF x, d, Longer
        <3>4. M(k + n) = Longer(x, b, d)
            BY ONLY <2>3, <2>4 DEF x, d, Longer
        <3> QED BY ONLY <3>2, <3>3, <3>4 DEF SameRound
    <2> QED BY <2>6 DEF A, M
<1>3. Len(digits) \in Good
    <2>1. \A n \in 1 .. Len(digits) : n - 1 \in Good => n \in Good
        BY <1>2
    <2>2. Len(digits) \in 0 .. Len(digits)
        BY <1>0
    <2> HIDE DEF Good
    <2> QED BY <1>0, <1>1, <2>1, <2>2, Upwards
<1>4. k + Len(digits) = Len(s)
    BY <1>0
<1>5. Accumulated(digits, Base(s)) = A(Len(digits)) /\ Magnitude(s) = M(Len(s))
    BY <1>0, AccRows, MagRows
<1> QED BY <1>3, <1>4, <1>5

\* What is left of s behind its first k elements.
LEMMA Behind ==
    ASSUME NEW T, NEW s \in Seq(T), NEW k \in Nat
    PROVE  /\ SubSeq(s, k + 1, Len(s)) \in Seq(T)
           /\ Len(SubSeq(s, k + 1, Len(s))) = IF k <= Len(s) THEN Len(s) - k ELSE 0
           /\ \A i \in 1 .. Len(s) - k : SubSeq(s, k + 1, Len(s))[i] = s[k + i]
<1>1. k \in Nat /\ Len(s) \in Nat
    OBVIOUS
<1>2. \A i \in k + 1 .. Len(s) : s[i] \in T
    OBVIOUS
<1> DEFINE m == k + 1
           n == Len(s)
           t == SubSeq(s, m, n)
<1>3. /\ t \in Seq(T)
      /\ Len(t) = IF m <= n THEN n - m + 1 ELSE 0
      /\ \A i \in 1 .. n - m + 1 : t[i] = s[m + i - 1]
    <2>1. m \in Int /\ n \in Int /\ \A i \in m .. n : s[i] \in T
        BY <1>1, <1>2
    <2> HIDE DEF m, n
    <2> QED BY <2>1, SubSeqProperties
<1> HIDE DEF t
<1>4. \A i \in 1 .. Len(s) - k : t[i] = s[k + i]
    <2> TAKE i \in 1 .. Len(s) - k
    <2>1. i \in 1 .. n - m + 1 /\ m + i - 1 = k + i
        BY <1>1
    <2> HIDE DEF m, n
    <2> QED BY <1>3, <2>1
<1>5. Len(t) = IF k <= Len(s) THEN Len(s) - k ELSE 0
    BY <1>1, <1>3
<1> QED BY <1>3, <1>4, <1>5 DEF t

\* Of a text that starts with no space, the whole is read.
LEMMA BodyOf ==
    ASSUME NEW s \in Letters, s # <<>>, s[1] # Space
    PROVE  Body(s) = s
<1>1. Leading(s, {Space}) = 0
    <2> DEFINE k == Leading(s, {Space})
    <2>1. k \in 0 .. Len(s) /\ \A i \in 1 .. k : s[i] \in {Space}
        BY LeadingFacts DEF Letters
    <2> HIDE DEF k
    <2>2. Len(s) \in Nat
        BY DEF Letters
    <2>3. 1 \notin 1 .. k
        BY ONLY <2>1, s[1] # Space
    <2>4. k = 0
        BY ONLY <2>1, <2>2, <2>3
    <2> QED BY <2>4 DEF k
<1>2. SubSeq(s, 1, Len(s)) = s
    BY DEF Letters
<1>3. Leading(s, {Space}) + 1 = 1
    BY <1>1
<1> QED BY <1>2, <1>3 DEF Body

\* Letters are numbers.
LEMMA LettersAreNumbers == \A t \in Letters : t \in Seq(Nat)
<1> TAKE t \in Letters
<1> DEFINE T == 0 .. Minus
<1>1. T \subseteq Nat
    BY DEF Minus
<1>2. t \in Seq(T)
    BY DEF Letters
<1> HIDE DEF T
<1>3. Len(t) \in Nat /\ t = [i \in 1 .. Len(t) |-> t[i]]
    BY <1>2
<1>4. \A i \in 1 .. Len(t) : t[i] \in Nat
    <2> TAKE i \in 1 .. Len(t)
    <2>1. t[i] \in T
        BY <1>2
    <2> QED BY <1>1, <2>1
<1> QED BY <1>3, <1>4

\* The digits are numbers below the base.
LEMMA DigitsTyped ==
    ASSUME NEW s \in Letters
    PROVE  Body(s) \in Letters /\ Rest(s) \in Letters /\ Digits(s) \in Seq(Nat)
<1>1. Body(s) \in Letters
    <2>1. Leading(s, {Space}) \in 0 .. Len(s)
        BY LeadingFacts DEF Letters
    <2>2. Leading(s, {Space}) \in Nat
        BY <2>1
    <2> QED BY <2>2, Behind DEF Body, Letters
<1>2. Rest(s) \in Letters
    <2> DEFINE k == IF Signed(s) THEN 1 ELSE IF IsHex(s) THEN 2 ELSE 0
    <2>1. k \in Nat /\ k + 1 = IF Signed(s) THEN 2 ELSE IF IsHex(s) THEN 3 ELSE 1
        OBVIOUS
    <2> HIDE DEF k
    <2>2. Rest(s) = SubSeq(Body(s), k + 1, Len(Body(s)))
        BY <2>1 DEF Rest
    <2> QED BY <1>1, <2>1, <2>2, Behind DEF Letters
<1>3. Digits(s) \in Letters
    <2> DEFINE r == Rest(s)
               n == Leading(r, 0 .. Base(s) - 1)
    <2>1. r \in Seq(0 .. Minus) /\ n \in 0 .. Len(r)
        BY <1>2, LeadingFacts DEF Letters
    <2>2. Digits(s) = SubSeq(r, 1, n)
        BY DEF Digits
    <2> HIDE DEF r, n
    <2> DEFINE T == 0 .. Minus
    <2>3. SubSeq(r, 1, n) \in Seq(T)
        <3>1. r \in Seq(T)
            BY <2>1
        <3> HIDE DEF T
        <3> QED BY <2>1, <3>1
    <2> QED BY <2>2, <2>3 DEF Letters
<1> QED BY <1>1, <1>2, <1>3, LettersAreNumbers

\* Whatever the letters, strtoul gives a word.
LEMMA ToUlongTyped ==
    ASSUME NEW s \in Letters
    PROVE  ToUlong(s) \in 0 .. WordSize - 1
<1> DEFINE d == Digits(s)
           b == Base(s)
           r == Accumulated(d, b)
<1>1. d \in Seq(Nat) /\ b \in Nat
    BY DigitsTyped, BaseFacts
<1>0. WordSize \in Nat \ {0}
    BY WordFacts
<1>2. r \in 0 .. WordSize - 1
    <2> HIDE DEF d, b
    <2> DEFINE A(n) == AccUpto(d, b)[n]
               Good == {n \in 0 .. Len(d) : A(n) \in 0 .. WordSize - 1}
    <2>0. Len(d) \in Nat
        BY <1>1
    <2>1. 0 \in Good
        <3>1. A(0) = 0
            BY <1>1, AccRows
        <3> HIDE DEF A
        <3> QED BY <1>0, <2>0, <3>1
    <2>2. ASSUME NEW n \in 1 .. Len(d), n - 1 \in Good PROVE n \in Good
        <3>1. A(n) = (A(n - 1) * b + d[n]) % WordSize
            BY <1>1, AccRows
        <3>2. A(n - 1) \in Nat /\ d[n] \in Nat
            BY <1>0, <1>1, <2>2
        <3> DEFINE x == A(n - 1)
                   c == d[n]
        <3> HIDE DEF x, c
        <3>3. x * b + c \in Int
            BY <1>1, <3>2 DEF x, c
        <3>4. (x * b + c) % WordSize \in 0 .. WordSize - 1
            BY <1>0, <3>3, DivMod
        <3>5. A(n) \in 0 .. WordSize - 1
            BY <3>1, <3>4 DEF x, c
        <3>6. n \in 0 .. Len(d)
            BY <2>0
        <3> QED BY <3>5, <3>6
    <2>3. Len(d) \in Good
        <3>1. \A n \in 1 .. Len(d) : n - 1 \in Good => n \in Good
            BY <2>2
        <3>2. Len(d) \in 0 .. Len(d)
            BY <2>0
        <3> HIDE DEF Good
        <3> QED BY <2>0, <2>1, <3>1, <3>2, Upwards
    <2>4. r = A(Len(d))
        BY <1>1, AccRows
    <2> QED BY <2>3, <2>4
<1>3. ToUlong(s) = IF Signed(s) /\ Body(s)[1] = Minus /\ r # WordSize - 1
                   THEN (WordSize - r) % WordSize ELSE r
    BY DEF ToUlong
<1> HIDE DEF r
<1>4. WordSize - r \in Int
    BY <1>0, <1>2
<1> DEFINE y == WordSize - r
<1> HIDE DEF y
<1>5. y % WordSize \in 0 .. WordSize - 1
    BY <1>0, <1>4, DivMod DEF y
<1> QED BY <1>2, <1>3, <1>5 DEF y

\* All of it is digits.
LEMMA AllDigits ==
    ASSUME NEW s \in Letters, \A i \in 1 .. Len(Rest(s)) : Rest(s)[i] < Base(s)
    PROVE  Digits(s) = Rest(s)
<1> DEFINE r == Rest(s)
           D == 0 .. Base(s) - 1
           n == Leading(r, D)
<1>1. r \in Seq(0 .. Minus) /\ Len(r) \in Nat
    BY DigitsTyped DEF Letters
<1>2. \A i \in 1 .. Len(r) : r[i] \in D
    <2> TAKE i \in 1 .. Len(r)
    <2>1. r[i] \in 0 .. Minus
        <3> DEFINE T == 0 .. Minus
        <3>1. r \in Seq(T)
            BY <1>1
        <3> HIDE DEF r, T
        <3>2. r[i] \in T
            BY <3>1
        <3> QED BY <3>2 DEF T
    <2>2. Base(s) \in Nat
        BY BaseFacts
    <2> QED BY <2>1, <2>2
<1> HIDE DEF r, D
<1>3. n \in 0 .. Len(r) /\ (n < Len(r) => r[n + 1] \notin D)
    BY <1>1, LeadingFacts
<1> HIDE DEF n
<1>4. n = Len(r)
    BY <1>1, <1>2, <1>3
<1>5. SubSeq(r, 1, Len(r)) = r
    BY <1>1
<1>6. Digits(s) = SubSeq(r, 1, n)
    BY DEF Digits, n, r, D
<1> QED BY <1>4, <1>5, <1>6 DEF r

\* strtoul gives a number that the entry lists, going round once if it is negative.
LEMMA ToUlongOfNumber ==
    ASSUME NEW s \in Letters, IsNumber(s)
    PROVE  Value(s) \in Int /\ ToUlong(s) = Value(s) % WordSize
<1> DEFINE w == WordSize
           Mag == Magnitude(s)
<1>0. /\ w \in Nat \ {0} /\ s \in Seq(Nat) /\ Len(s) \in Nat
      /\ \A i \in 1 .. Len(s) : s[i] \in Nat
    <2>1. s \in Seq(Nat)
        BY LettersAreNumbers
    <2>2. Len(s) \in Nat /\ \A i \in 1 .. Len(s) : s[i] \in Nat
        BY <2>1
    <2> QED BY <2>1, <2>2, WordFacts
<1>1. Mag \in Nat /\ Mag < w - 1
    <2>1. Mag \in Nat
        BY <1>0, MagRows
    <2> QED BY <2>1 DEF IsNumber
<1>2. Mag % w = Mag
    <2> HIDE DEF w, Mag
    <2>1. w * 0 + Mag = Mag /\ Mag \in 0 .. w - 1
        BY <1>0, <1>1
    <2> QED BY <1>0, <2>1, DivUnique
<1>3. Value(s) = IF s[1] = Minus THEN - Mag ELSE Mag
    BY DEF Value
<1> DEFINE Whole == s # <<>> /\ \A i \in DOMAIN s :
                        s[i] < 10 \/ (i = 1 /\ Len(s) > 1 /\ s[i] = Minus)
           Hex == Len(s) > 2 /\ IsHex(s) /\ \A i \in 3 .. Len(s) : s[i] < 16
<1>4. Whole \/ Hex
    BY DEF IsNumber
<1> HIDE DEF w, Mag
\* It is read from its first letter on, or from the one behind the sign or the 0x.
<1>5. ASSUME NEW k \in 0 .. Len(s), MagUpto(s)[k] = 0, s # <<>>, s[1] # Space,
             \A i \in k + 1 .. Len(s) : s[i] < Base(s),
             k + 1 = IF Signed(s) THEN 2 ELSE IF IsHex(s) THEN 3 ELSE 1
      PROVE  Accumulated(Digits(s), Base(s)) = Mag
    <2> DEFINE r == SubSeq(s, k + 1, Len(s))
    <2>1. Rest(s) = r
        BY <1>5, BodyOf DEF Rest
    <2>2. Len(r) = Len(s) - k /\ \A i \in 1 .. Len(s) - k : r[i] = s[k + i]
        <3>1. k \in Nat /\ k <= Len(s)
            BY <1>0
        <3> QED BY <1>0, <3>1, Behind
    <2> HIDE DEF r
    <2>3. \A i \in 1 .. Len(r) : r[i] < Base(s)
        <3> TAKE i \in 1 .. Len(r)
        <3>1. k + i \in k + 1 .. Len(s) /\ i \in 1 .. Len(s) - k
            BY <1>0, <2>2
        <3> QED BY <1>5, <2>2, <3>1
    <2>4. Digits(s) = r
        BY <2>1, <2>3, AllDigits
    <2>5. r \in Seq(Nat)
        BY <2>4, DigitsTyped
    <2>6. Accumulated(r, Base(s)) = Magnitude(s) % WordSize
        BY <1>0, <1>5, <2>2, <2>5, Rounds
    <2> QED BY <1>2, <2>4, <2>6 DEF Mag, w
<1>6. MagUpto(s)[0] = 0
    BY <1>0, MagRows
<1>7. CASE Whole /\ s[1] # Minus
    <2>1. 1 \in DOMAIN s /\ Len(s) >= 1 /\ s # <<>>
        BY <1>0, <1>7
    <2>2. s[1] < 10 /\ \A i \in 1 .. Len(s) : s[i] < 10
        BY <1>0, <1>7, <2>1
    <2>3. ~IsHex(s) /\ Base(s) = 10
        <3>1. ~IsHex(s)
            BY <1>0, <2>2 DEF IsHex, LetterX
        <3> QED BY <3>1 DEF Base
    <2>4. s[1] # Space /\ s[1] # Plus /\ s[1] # Minus
        BY <2>2, <1>0, <2>1 DEF Space, Plus, Minus
    <2>5. Body(s) = s
        BY <2>1, <2>4, BodyOf
    <2>6. ~Signed(s)
        BY <2>4, <2>5 DEF Signed
    <2>7. Accumulated(Digits(s), Base(s)) = Mag
        <3>1. /\ 0 \in 0 .. Len(s) /\ 0 + 1 = 1
              /\ \A i \in 0 + 1 .. Len(s) : s[i] < Base(s)
            BY <1>0, <2>2, <2>3
        <3> QED BY <1>5, <1>6, <2>1, <2>3, <2>4, <2>6, <3>1
    <2>8. ToUlong(s) = Mag
        BY <2>6, <2>7 DEF ToUlong
    <2> QED BY <1>1, <1>2, <1>3, <1>7, <2>8 DEF w
<1>8. CASE Whole /\ s[1] = Minus
    <2>1. 1 \in DOMAIN s /\ Len(s) > 1 /\ s # <<>>
        <3>1. 1 \in DOMAIN s /\ s # <<>>
            BY <1>0, <1>8
        <3> QED BY <1>8, <3>1 DEF Minus
    <2>2. \A i \in 2 .. Len(s) : s[i] < 10
        BY <1>0, <1>8
    <2>3. ~IsHex(s) /\ Base(s) = 10
        <3>1. ~IsHex(s)
            BY <1>8 DEF IsHex, Minus
        <3> QED BY <3>1 DEF Base
    <2>4. s[1] # Space
        BY <1>8 DEF Space, Minus
    <2>5. Body(s) = s
        BY <2>1, <2>4, BodyOf
    <2>6. Signed(s) /\ Body(s)[1] = Minus
        BY <1>8, <2>1, <2>5 DEF Signed
    <2>7. MagUpto(s)[1] = 0
        <3>1. 1 \in 1 .. Len(s) /\ ~(s[1] < Base(s)) /\ 1 - 1 = 0
            BY <1>0, <1>8, <2>1, <2>3 DEF Minus
        <3> QED BY <1>0, <1>6, <3>1, MagRows
    <2>8. Accumulated(Digits(s), Base(s)) = Mag
        <3>1. /\ 1 \in 0 .. Len(s) /\ 1 + 1 = 2
              /\ \A i \in 1 + 1 .. Len(s) : s[i] < Base(s)
            BY <1>0, <2>1, <2>2, <2>3
        <3> QED BY <1>5, <2>1, <2>4, <2>6, <2>7, <3>1
    <2>9. ToUlong(s) = (w - Mag) % w
        BY <1>1, <2>6, <2>8 DEF ToUlong, w
    <2>10. (w * 1 + (- Mag)) % w = (- Mag) % w
        <3> DEFINE y == - Mag
                   t == 1
        <3>1. y \in Int /\ t \in Int /\ w \in Nat \ {0}
            BY <1>0, <1>1
        <3> HIDE DEF y, t
        <3>2. (w * t + y) % w = y % w
            BY ONLY <3>1, ModAdd
        <3> QED BY <3>2 DEF y, t
    <2>11. w * 1 + (- Mag) = w - Mag
        BY <1>0, <1>1
    <2> QED BY <1>1, <1>3, <1>8, <2>9, <2>10, <2>11 DEF w
<1>9. CASE Hex
    <2>1. Len(s) > 2 /\ s[1] = 0 /\ s[2] = LetterX /\ IsHex(s) /\ Base(s) = 16 /\ s # <<>>
        BY <1>0, <1>9 DEF IsHex, Base
    <2>2. s[1] # Space /\ s[1] # Minus /\ s[1] # Plus
        BY <2>1 DEF Space, Minus, Plus
    <2>3. Body(s) = s
        BY <2>1, <2>2, BodyOf
    <2>4. ~Signed(s)
        BY <2>2, <2>3 DEF Signed
    <2>5. MagUpto(s)[2] = 0
        <3>1. 1 \in 1 .. Len(s) /\ 2 \in 1 .. Len(s) /\ 1 - 1 = 0 /\ 2 - 1 = 1
            BY <1>0, <2>1
        <3>2. MagUpto(s)[1] = MagUpto(s)[0] * Base(s) + s[1]
            BY <1>0, <2>1, <3>1, MagRows
        <3>3. MagUpto(s)[1] = 0
            BY <1>6, <2>1, <3>2
        <3>4. ~(s[2] < Base(s))
            BY <2>1 DEF LetterX
        <3> QED BY <1>0, <3>1, <3>3, <3>4, MagRows
    <2>6. Accumulated(Digits(s), Base(s)) = Mag
        <3>1. /\ 2 \in 0 .. Len(s) /\ 2 + 1 = 3
              /\ \A i \in 2 + 1 .. Len(s) : s[i] < Base(s)
            BY <1>0, <1>9, <2>1
        <3> QED BY <1>5, <2>1, <2>2, <2>4, <2>5, <3>1
    <2>7. ToUlong(s) = Mag
        BY <2>4, <2>6 DEF ToUlong
    <2> QED BY <1>1, <1>2, <1>3, <2>2, <2>7 DEF w
<1> QED BY <1>4, <1>7, <1>8, <1>9

\* What BigEndian has after the first n bytes.
BigUpto(m, addr, width) ==
    CHOOSE f : f = [n \in 0 .. width |->
        IF n = 0 THEN 0 ELSE f[n - 1] * ByteSize + m[addr + n - 1]]

\* The bytes at addr are numbers.
Numeric(m, addr, width) == \A n \in 1 .. width : m[addr + n - 1] \in Nat

\* BigEndian goes as its definition says, byte by byte.
LEMMA BigRows ==
    ASSUME NEW width \in Nat, NEW m, NEW addr \in Nat, Numeric(m, addr, width)
    PROVE  /\ BigEndian(m, addr, width) = BigUpto(m, addr, width)[width]
           /\ BigUpto(m, addr, width)[0] = 0
           /\ \A n \in 1 .. width : BigUpto(m, addr, width)[n] =
                 BigUpto(m, addr, width)[n - 1] * ByteSize + m[addr + n - 1]
<1> DEFINE N == width
           V == Nat
           G(n, x) == x * ByteSize + m[addr + n - 1]
           step == [n \in 1 .. N |-> [x \in V |-> G(n, x)]]
           Q(f) == f = [n \in 0 .. N |-> IF n = 0 THEN 0 ELSE G(n, f[n - 1])]
<1>1. N \in Nat /\ 0 \in V /\ step \in [1 .. N -> [V -> V]]
    <2>1. ASSUME NEW n \in 1 .. N, NEW x \in V PROVE G(n, x) \in V
        <3>1. m[addr + n - 1] \in Nat /\ ByteSize \in Nat
            BY EntryAssumption DEF Numeric
        <3> QED BY <3>1
    <2>2. N \in Nat /\ 0 \in V
        OBVIOUS
    <2> HIDE DEF G, V, N
    <2>3. step \in [1 .. N -> [V -> V]]
        BY <2>1
    <2> HIDE DEF step
    <2> QED BY <2>2, <2>3
<1>2. \A n \in 1 .. N : \A x \in V : step[n][x] = G(n, x)
    OBVIOUS
<1> HIDE DEF step
<1>3. PICK f \in [0 .. N -> V] : f[0] = 0 /\ \A n \in 1 .. N : f[n] = step[n][f[n - 1]]
    <2> DEFINE first == 0
    <2>0. N \in Nat /\ first \in V /\ step \in [1 .. N -> [V -> V]]
        BY <1>1
    <2> HIDE DEF N, V, G, first
    <2>1. Steps(N, V, first, step)
        BY <2>0 DEF Steps
    <2>2. Stepwise(N, V, first, step)
        BY <2>1, Recursion
    <2> QED BY <2>2 DEF Stepwise, first
<1>4. \A n \in 1 .. N : f[n] = G(n, f[n - 1])
    <2> TAKE n \in 1 .. N
    <2>1. f[n - 1] \in V
        <3>1. n - 1 \in 0 .. N
            BY <1>1
        <3> HIDE DEF N, V
        <3> QED BY <3>1
    <2> HIDE DEF G
    <2> QED BY <1>2, <1>3, <2>1
<1>6. BigUpto(m, addr, width) = CHOOSE g : Q(g)
    BY DEF BigUpto
<1>8. BigEndian(m, addr, width) = BigUpto(m, addr, width)[width]
    BY DEF BigEndian, BigUpto
<1> HIDE DEF G, BigUpto
<1>5. Q(f)
    <2>1. f = [n \in 0 .. N |-> f[n]]
        OBVIOUS
    <2>2. \A n \in 0 .. N : f[n] = IF n = 0 THEN 0 ELSE G(n, f[n - 1])
        <3> TAKE n \in 0 .. N
        <3>1. n # 0 => n \in 1 .. N
            BY <1>1
        <3> QED BY <1>3, <1>4, <3>1
    <2> QED BY <2>1, <2>2
<1>7. Q(BigUpto(m, addr, width))
    <2> HIDE DEF Q
    <2> QED BY <1>5, <1>6
<1>9. \A n \in 0 .. N : BigUpto(m, addr, width)[n] =
          IF n = 0 THEN 0 ELSE G(n, BigUpto(m, addr, width)[n - 1])
    BY <1>7
<1>10. \A n \in 1 .. N : n # 0 /\ n \in 0 .. N
    BY <1>1
<1>11. BigUpto(m, addr, width)[0] = 0
    <2>1. 0 \in 0 .. N
        BY <1>1
    <2> QED BY <1>9, <2>1
<1>12. \A n \in 1 .. N :
          BigUpto(m, addr, width)[n] = G(n, BigUpto(m, addr, width)[n - 1])
    BY <1>9, <1>10
<1> QED BY <1>8, <1>11, <1>12 DEF G

\* The bytes of n, read back in order, are what of n fits in them.
LEMMA BytesRead ==
    ASSUME NEW n \in Nat, NEW width \in 0 .. 8, NEW m, NEW addr \in Nat,
           \A i \in 0 .. width - 1 :
               m[addr + i] = (n \div Power[width - 1 - i]) % ByteSize
    PROVE  BigEndian(m, addr, width) = n % Power[width]
<1> DEFINE b == ByteSize
           U(k) == BigUpto(m, addr, width)[k]
           Good == {k \in 0 .. width : U(k) = (n \div Power[width - k]) % Power[k]}
<1>0. b \in Nat \ {0}
    BY EntryAssumption
<1>a. \A k \in 0 .. 8 : Power[k] \in Nat \ {0}
    BY PowerRows
<1>b. \A k \in 1 .. width : m[addr + k - 1] = (n \div Power[width - k]) % b
    <2> TAKE k \in 1 .. width
    <2>1. k - 1 \in 0 .. width - 1 /\ addr + k - 1 = addr + (k - 1)
          /\ width - 1 - (k - 1) = width - k
        OBVIOUS
    <2> QED BY <2>1
<1>c. \A k \in 1 .. width : m[addr + k - 1] \in Nat
    <2> TAKE k \in 1 .. width
    <2> DEFINE p == Power[width - k]
    <2>1. p \in Nat \ {0}
        <3>1. width - k \in 0 .. 8
            OBVIOUS
        <3> QED BY <1>a, <3>1
    <2> HIDE DEF p
    <2>2. n \div p \in Int
        BY <2>1, DivMod
    <2> DEFINE q == n \div p
    <2> HIDE DEF q
    <2>3. q % b \in 0 .. b - 1
        <3>1. q \in Int
            BY <2>2 DEF q
        <3> HIDE DEF b
        <3> QED BY ONLY <1>0, <3>1, DivMod
    <2>4. q % b \in Nat
        BY <1>0, <2>3
    <2> QED BY <1>b, <2>4 DEF p, q
<1>d. /\ BigEndian(m, addr, width) = U(width) /\ U(0) = 0
      /\ \A k \in 1 .. width : U(k) = U(k - 1) * b + m[addr + k - 1]
    <2>1. width \in Nat
        OBVIOUS
    <2>2. addr \in Nat /\ Numeric(m, addr, width)
        BY <1>c DEF Numeric
    <2>3. /\ BigEndian(m, addr, width) = BigUpto(m, addr, width)[width]
          /\ BigUpto(m, addr, width)[0] = 0
          /\ \A k \in 1 .. width : BigUpto(m, addr, width)[k] =
                 BigUpto(m, addr, width)[k - 1] * ByteSize + m[addr + k - 1]
        BY ONLY <2>1, <2>2, BigRows
    <2> QED BY ONLY <2>3
<1>1. 0 \in Good
    <2>1. Power[0] = 1
        BY PowerRows
    <2> DEFINE x == n \div Power[width - 0]
    <2>2. x \in Int
        <3>1. Power[width - 0] \in Nat \ {0}
            BY <1>a
        <3> QED BY <3>1, DivMod
    <2> HIDE DEF x
    <2>3. x % 1 = 0
        BY <2>2
    <2> QED BY <1>d, <2>1, <2>3 DEF x
<1>2. ASSUME NEW k \in 1 .. width, k - 1 \in Good PROVE k \in Good
    <2> DEFINE p == Power[width - k]
               q == Power[k - 1]
               y == n \div p
    <2>1. /\ width - k \in 0 .. 8 /\ k - 1 \in 0 .. 8 /\ k \in 1 .. 8
          /\ width - (k - 1) \in 1 .. 8 /\ (width - (k - 1)) - 1 = width - k
        OBVIOUS
    <2>2. p \in Nat \ {0} /\ q \in Nat \ {0}
        BY <1>a, <2>1
    <2>3. Power[k] = b * q /\ Power[width - (k - 1)] = b * p
        BY <2>1, PowerRows
    <2>4. U(k - 1) = (n \div (b * p)) % q
        BY <1>2, <2>3
    <2>5. U(k) = U(k - 1) * b + (y % b)
        BY <1>b, <1>d
    <2> HIDE DEF p, q, U, b
    <2>6. n \div (b * p) = y \div b
        <3>1. (n \div p) \div b = n \div (p * b)
            BY <1>0, <2>2, DivDiv
        <3>2. p * b = b * p
            BY <1>0, <2>2
        <3> QED BY <3>1, <3>2
    <2>7. y \in Nat
        BY <2>2, DivMod
    <2> HIDE DEF y
    <2>8. ((y \div b) % q) * b + (y % b) = y % (q * b)
        BY <1>0, <2>2, <2>7, ModPair
    <2>9. q * b = b * q
        BY <1>0, <2>2
    <2>10. U(k) = y % Power[k]
        BY <2>3, <2>4, <2>5, <2>6, <2>8, <2>9
    <2> QED BY <2>10 DEF U, y, p
<1>3. width \in Good
    <2>1. \A k \in 1 .. width : k - 1 \in Good => k \in Good
        BY <1>2
    <2>2. width \in 0 .. width /\ width \in Nat
        OBVIOUS
    <2> HIDE DEF Good
    <2> QED BY <1>1, <2>1, <2>2, Upwards
<1>4. n \div Power[width - width] = n
    <2>1. Power[width - width] = 1
        BY PowerRows
    <2> QED BY <2>1
<1> QED BY <1>3, <1>4, <1>d

\* What of a listed value fits in some bytes is what of the value read fits in them.
LEMMA ValueNarrowed ==
    ASSUME NEW s \in Letters, IsNumber(s), NEW width \in 0 .. 8
    PROVE  ToUlong(s) % Power[width] = Value(s) % Power[width]
<1> DEFINE v == Value(s)
           p == Power[width]
           k == Power[8 - width]
<1>1. v \in Int /\ ToUlong(s) = v % WordSize
    BY ToUlongOfNumber
<1>2. 8 - width \in 0 .. 8 /\ 8 \in 0 .. 8 /\ width <= 8
    OBVIOUS
<1>3. p \in Nat \ {0} /\ k \in Nat \ {0}
    BY <1>2, PowerRows
<1>4. WordSize = p * k
    BY <1>2, PowerSplits DEF WordSize
<1> HIDE DEF v, p, k
<1>5. (v % (p * k)) % p = v % p
    BY <1>1, <1>3, ModMod
<1> QED BY <1>1, <1>4, <1>5 DEF v, p

\* A listed address is read as it is listed.
LEMMA AddressRead ==
    ASSUME NEW s \in Letters, IsNumber(s), Value(s) \in 0 .. AddressSpace - 1
    PROVE  ToUlong(s) % AddressSpace = Value(s)
<1> DEFINE v == Value(s)
<1>0. AddressSpace \in Nat \ {0} /\ WordSize \in Nat \ {0}
    BY EntryAssumption, WordFacts
<1>1. v \in Nat /\ v < AddressSpace
    BY <1>0
<1>2. v < WordSize
    <2>1. Magnitude(s) \in Nat
        BY LettersAreNumbers, MagRows
    <2>2. Magnitude(s) < WordSize - 1
        BY DEF IsNumber
    <2>3. v = Magnitude(s) \/ v = - Magnitude(s)
        BY DEF Value
    <2> HIDE DEF v
    <2> QED BY <1>0, <1>1, <2>1, <2>2, <2>3
<1>3. ToUlong(s) = v % WordSize
    BY ToUlongOfNumber
<1> HIDE DEF v
<1>4. \A b \in Nat \ {0} : v < b => v % b = v
    <2> TAKE b \in Nat \ {0}
    <2> HAVE v < b
    <2>1. v \in 0 .. b - 1 /\ b * 0 + v = v
        BY <1>1
    <2> QED BY <2>1, DivUnique
<1>5. v % WordSize = v /\ v % AddressSpace = v
    BY <1>0, <1>1, <1>2, <1>4
<1> QED BY <1>3, <1>5 DEF v

\* The arms of apply_patch, one by one.
LEMMA ArmFacts ==
    /\ DOMAIN WriteArms = 1 .. 4
    /\ WriteArms[1].words = {"bytes8", "byte"} /\ WriteArms[1].width = 1
    /\ WriteArms[2].words = {"bytes16", "be16"} /\ WriteArms[2].width = 2
    /\ WriteArms[3].words = {"bytes32", "be32"} /\ WriteArms[3].width = 4
    /\ WriteArms[4].words = {"bytes64", "be64"} /\ WriteArms[4].width = 8
BY DEF WriteArms

\* An arm that is the only one is the first one.
LEMMA OnlyArm ==
    ASSUME NEW type, NEW k \in 1 .. 4, ArmsOf(type) = {k}
    PROVE  WidthOf(type) = WriteArms[k].width
<1> DEFINE Q(i) == \A j \in ArmsOf(type) : i <= j
<1>1. Q(k)
    OBVIOUS
<1>2. k \in ArmsOf(type) /\ \A i \in ArmsOf(type) : i = k
    OBVIOUS
<1>3. (CHOOSE i \in ArmsOf(type) : Q(i)) = k
    <2> HIDE DEF Q
    <2> QED BY <1>1, <1>2
<1> QED BY <1>3 DEF WidthOf

\* The width in a name, when one arm has the name.
LEMMA OnlyNamed ==
    ASSUME NEW type, NEW k,
           {i \in DOMAIN WriteArms :
               WriteArms[i].words \cap (type.words \ {"byte"}) # {}} = {k}
    PROVE  NamedWidth(type) = WriteArms[k].width
<1> DEFINE named == {i \in DOMAIN WriteArms :
                        WriteArms[i].words \cap (type.words \ {"byte"}) # {}}
<1>1. named = {k}
    OBVIOUS
<1>2. NamedWidth(type) = IF named = {} THEN 1 ELSE WriteArms[CHOOSE i \in named : TRUE].width
    BY DEF NamedWidth
<1> HIDE DEF named
<1>3. (CHOOSE i \in named : TRUE) = k
    BY <1>1
<1> QED BY <1>1, <1>2, <1>3

\* The width of a type whose name does not hide it.
LEMMA WidthAsNamed ==
    ASSUME NEW type \in Text, type.words \ {"append_arg"} # {},
           "byte" \notin type.words \/ NamedWidth(type) = 1
    PROVE  /\ ArmsOf(type) # {} /\ WidthOf(type) = NamedWidth(type)
           /\ WidthOf(type) \in {1, 2, 4, 8}
<1> DEFINE named == {i \in DOMAIN WriteArms :
                        WriteArms[i].words \cap (type.words \ {"byte"}) # {}}
           Fit(k, w) == WriteArms[k].words \cap {w} # {} /\
                        \A i \in 1 .. 4 : i # k => WriteArms[i].words \cap {w} = {}
<1>1. type.words \in Beginnings
    BY EntryAssumption
<1>2. DOMAIN WriteArms = 1 .. 4
    BY ArmFacts
<1>3. Fit(1, "bytes8") /\ Fit(1, "byte") /\ Fit(2, "bytes16") /\ Fit(2, "be16")
      /\ Fit(3, "bytes32") /\ Fit(3, "be32") /\ Fit(4, "bytes64") /\ Fit(4, "be64")
    BY ArmFacts
<1> HIDE DEF Fit
<1>4. ASSUME NEW k \in 1 .. 4, NEW w, Fit(k, w), w # "byte", type.words = {w}
      PROVE  ArmsOf(type) = {k} /\ named = {k}
    <2>1. ArmsOf(type) = {k}
        BY <1>2, <1>4 DEF ArmsOf, Fit
    <2>2. type.words \ {"byte"} = {w}
        BY <1>4
    <2>3. named = {k}
        BY <1>2, <1>4, <2>2 DEF Fit
    <2> QED BY <2>1, <2>3
<1>5. ASSUME NEW k \in 1 .. 4, ArmsOf(type) = {k}, named = {k}
      PROVE  /\ ArmsOf(type) # {} /\ WidthOf(type) = NamedWidth(type)
             /\ WidthOf(type) \in {1, 2, 4, 8}
    <2>1. WidthOf(type) = WriteArms[k].width /\ NamedWidth(type) = WriteArms[k].width
        BY <1>5, OnlyArm, OnlyNamed
    <2>2. WriteArms[k].width \in {1, 2, 4, 8}
        BY ArmFacts
    <2> QED BY <1>5, <2>1, <2>2
<1>6. CASE type.words = {"byte"}
    <2>1. ArmsOf(type) = {1}
        BY <1>2, <1>3, <1>6 DEF ArmsOf, Fit
    <2>2. type.words \ {"byte"} = {}
        BY <1>6
    <2>3. NamedWidth(type) = 1
        BY <2>2 DEF NamedWidth
    <2> QED BY <2>1, <2>3, OnlyArm, ArmFacts
<1>7. ASSUME NEW w \in Words, w # "byte", type.words = {w}
      PROVE  /\ ArmsOf(type) # {} /\ WidthOf(type) = NamedWidth(type)
             /\ WidthOf(type) \in {1, 2, 4, 8}
    <2>1. w # "append_arg"
        BY <1>7
    <2>2. \E k \in 1 .. 4 : w \in WriteArms[k].words
        <3>1. w \in UNION {WriteArms[i].words : i \in DOMAIN WriteArms}
            <4> DEFINE U == {WriteArms[i].words : i \in DOMAIN WriteArms}
            <4>1. Words = (UNION U) \cup {"append_arg"}
                BY DEF Words
            <4>2. w \in Words
                OBVIOUS
            <4> HIDE DEF U
            <4>3. w \in UNION U
                BY ONLY <2>1, <4>1, <4>2
            <4> QED BY <4>3 DEF U
        <3>2. \E i \in DOMAIN WriteArms : w \in WriteArms[i].words
            BY ONLY <3>1
        <3> QED BY ONLY <1>2, <3>2
    <2>3. \E k \in 1 .. 4 : Fit(k, w)
        <3>1. w \in {"bytes8", "byte", "bytes16", "be16", "bytes32", "be32", "bytes64", "be64"}
            BY <2>2, ArmFacts
        <3> QED BY <1>3, <3>1
    <2> QED BY <1>4, <1>5, <1>7, <2>3
<1>8. ASSUME NEW w \in {"bytes8", "bytes16", "bytes32", "bytes64"}, type.words = {"byte", w}
      PROVE  /\ ArmsOf(type) # {} /\ WidthOf(type) = NamedWidth(type)
             /\ WidthOf(type) \in {1, 2, 4, 8}
    <2>1. type.words \ {"byte"} = {w}
        BY <1>8
    <2>2. PICK k \in 1 .. 4 : Fit(k, w) /\ (k = 1 <=> w = "bytes8")
        BY <1>3
    <2>3. named = {k}
        BY <1>2, <2>1, <2>2 DEF Fit
    <2>4. NamedWidth(type) = WriteArms[k].width
        BY <2>3, OnlyNamed
    <2>5. k = 1
        <3>1. NamedWidth(type) = 1
            BY <1>8
        <3>2. WriteArms[k].width = 1
            BY ONLY <2>4, <3>1
        <3> QED BY ONLY k \in 1 .. 4, <3>2, ArmFacts
    <2>6. ArmsOf(type) = {1}
        BY <1>2, <1>3, <1>8, <2>2, <2>5 DEF ArmsOf, Fit
    <2> HIDE DEF named
    <2> QED BY <1>5, <2>3, <2>5, <2>6
<1>9. type.words # {}
    OBVIOUS
<1> QED BY <1>1, <1>6, <1>7, <1>8, <1>9 DEF Beginnings

-----------------------------------------------------------------------------
(***************************************************************************)
(* Entries.                                                                *)
(***************************************************************************)
\* What is listed, and what is taken, are texts.
LEMMA TextsTyped ==
    ASSUME NEW line \in Lines
    PROVE  /\ line \in Seq(Token) /\ TextsOf(line) \in Seq(Text)
           /\ Listed(line) \in Seq(Text)
           /\ \A S : Params(line, S) \in Seq(Text)
<1>1. line \in Seq(Token)
    BY EntryAssumption
<1>2. TextsOf(line) \in Seq(Text)
    <2>1. Len(line) \in Nat
        BY <1>1
    <2>2. \A n \in 1 .. Len(line) : line[n].text \in Text
        <3> TAKE n \in 1 .. Len(line)
        <3>1. line[n] \in Token
            BY <1>1
        <3> QED BY <3>1 DEF Token
    <2> QED BY <2>1, <2>2 DEF TextsOf
<1>3. \A S : Kept(TextsOf(line), S) \in Seq(Text)
    BY <1>2, KeptTyped
<1>4. MaxParams \in Nat
    BY EntryAssumption
<1>5. \A S : Params(line, S) \in Seq(Text)
    BY <1>3, <1>4, FirstOfFacts DEF Params
<1> QED BY <1>1, <1>2, <1>3, <1>5 DEF Listed

\* When no malloc fails and no text ends in a backslash, the parser takes the texts that
\* are listed, up to the limit.
LEMMA ListedIsTaken ==
    ASSUME NEW line \in Lines, Intact(line)
    PROVE  Params(line, {}) = FirstOf(Listed(line), MaxParams)
<1>1. Strings(line) = {i \in DOMAIN line : line[i].quoted}
    BY TextsTyped, StringsArePlaces
<1>2. Strings(line) \ {} = Strings(line)
    OBVIOUS
<1> QED BY <1>1, <1>2 DEF Params, Listed

\* No arm that writes takes a type that begins with "append_arg".
LEMMA AppendIsNoWrite ==
    ASSUME NEW type \in Text, "append_arg" \in type.words
    PROVE  ArmsOf(type) = {}
<1>1. type.words \in Beginnings
    BY EntryAssumption
<1>2. type.words = {"append_arg"}
    <2>1. CASE type.words = {}
        BY <2>1
    <2>2. ASSUME NEW w \in Words, type.words = {w} PROVE type.words = {"append_arg"}
        BY <2>2
    <2>3. ASSUME NEW w \in {"bytes8", "bytes16", "bytes32", "bytes64"},
                 type.words = {"byte", w}
          PROVE  FALSE
        BY <2>3
    <2> QED BY <1>1, <2>1, <2>2, <2>3 DEF Beginnings
<1>3. \A i \in DOMAIN WriteArms : "append_arg" \notin WriteArms[i].words
    BY DEF WriteArms
<1> QED BY <1>2, <1>3 DEF ArmsOf

\* A list is a prefix of itself.
LEMMA PrefixOfItself == \A r \in Seq(Arg) : IsPrefix(r, r)
BY DEF IsPrefix

\* An arm that writes has one of four widths.
LEMMA WidthTyped ==
    ASSUME NEW type, ArmsOf(type) # {}
    PROVE  WidthOf(type) \in {1, 2, 4, 8}
<1> DEFINE Q(i) == \A j \in ArmsOf(type) : i <= j
<1>1. ArmsOf(type) \subseteq 1 .. 4
    BY ArmFacts DEF ArmsOf
<1>2. ArmsOf(type) \in SUBSET Nat
    BY <1>1
<1>3. PICK k \in ArmsOf(type) : Q(k)
    BY <1>2, LeastOf
<1>4. WidthOf(type) = WriteArms[CHOOSE i \in ArmsOf(type) : Q(i)].width
    BY DEF WidthOf
<1> HIDE DEF Q
<1>5. (CHOOSE i \in ArmsOf(type) : Q(i)) \in 1 .. 4
    BY <1>1, <1>3
<1>6. \A i \in 1 .. 4 : WriteArms[i].width \in {1, 2, 4, 8}
    BY ArmFacts
<1> QED BY <1>4, <1>5, <1>6

\* Writing bytes over bytes leaves bytes.
LEMMA WithBytesTyped ==
    ASSUME NEW m \in [Cell -> 0 .. ByteSize - 1], NEW addr, NEW n \in Nat,
           NEW width \in {1, 2, 4, 8}
    PROVE  WithBytes(m, addr, Bytes(n, width)) \in [Cell -> 0 .. ByteSize - 1]
<1> DEFINE bytes == Bytes(n, width)
<1>1. DOMAIN bytes = 0 .. width - 1
      /\ \A i \in 0 .. width - 1 : bytes[i] = (n \div Power[width - 1 - i]) % ByteSize
    BY DEF Bytes
<1> HIDE DEF bytes
<1>2. \A i \in DOMAIN bytes : bytes[i] \in 0 .. ByteSize - 1
    <2> TAKE i \in DOMAIN bytes
    <2>1. i \in 0 .. width - 1
        BY <1>1
    <2>a. width - 1 - i \in 0 .. 8
        BY ONLY <2>1, width \in {1, 2, 4, 8}
    <2> DEFINE p == Power[width - 1 - i]
               q == n \div p
    <2>2. p \in Nat \ {0}
        BY <2>a, PowerRows
    <2> HIDE DEF p
    <2>3. q \in Int
        BY <2>2, DivMod
    <2>4. ByteSize \in Nat \ {0}
        BY EntryAssumption
    <2> HIDE DEF q
    <2>5. q % ByteSize \in 0 .. ByteSize - 1
        BY <2>3, <2>4, DivMod
    <2> QED BY <1>1, <2>1, <2>5 DEF p, q
<1>3. \A a \in Cell : (IF a - addr \in DOMAIN bytes THEN bytes[a - addr] ELSE m[a])
                      \in 0 .. ByteSize - 1
    BY <1>2
<1>4. WithBytes(m, addr, bytes) =
          [a \in Cell |-> IF a - addr \in DOMAIN bytes THEN bytes[a - addr] ELSE m[a]]
    BY DEF WithBytes
<1>5. WithBytes(m, addr, bytes) \in [Cell -> 0 .. ByteSize - 1]
    BY <1>3, <1>4
<1> QED BY <1>5 DEF bytes

\* Memory holds bytes at the game's addresses and the arguments are texts, whatever the
\* entries are and whichever strings are lost.
THEOREM EntryAlwaysTyped == EntrySpec => []EntryTypeOK
<1>1. EntryInit => EntryTypeOK
    <2>1. ByteSize \in Nat \ {0} /\ InitialArgs \subseteq Seq(Arg)
        BY EntryAssumption
    <2>2. 0 \in 0 .. ByteSize - 1
        BY <2>1
    <2> HIDE DEF EntryTypeOK
    <2> SUFFICES ASSUME EntryInit PROVE EntryTypeOK
        OBVIOUS
    <2>3. mem \in [Cell -> 0 .. ByteSize - 1]
        BY <2>2 DEF EntryInit
    <2> QED BY <2>1, <2>3 DEF EntryInit, EntryTypeOK
<1>2. EntryTypeOK /\ [EntryNext]_entryVars => EntryTypeOK'
    <2> SUFFICES ASSUME EntryTypeOK, [EntryNext]_entryVars PROVE EntryTypeOK'
        OBVIOUS
    <2>1. ASSUME NEW line \in Lines, NEW lost \in Lost(line), Appends(line, lost)
          PROVE  EntryTypeOK'
        <3>1. args' = AppendParams(args, Params(line, lost)) /\ UNCHANGED <<mem, hasArgs, alive>>
            BY <2>1 DEF Appends
        <3>2. Params(line, lost) \in Seq(Text) /\ args \in Seq(Arg)
            BY TextsTyped DEF EntryTypeOK
        <3>3. args' \in Seq(Arg)
            BY <3>1, <3>2, AppendedTyped
        <3> QED BY <3>1, <3>3 DEF EntryTypeOK
    <2>2. ASSUME NEW line \in Lines, NEW lost \in Lost(line), Writes(line, lost)
          PROVE  EntryTypeOK'
        <3> DEFINE params == Params(line, lost)
                   value == ToUlong(params[3].letters)
        <3>1. /\ ArmsOf(params[1]) # {} /\ Len(params) >= 3 /\ UNCHANGED <<hasArgs, args>>
              /\ alive' \in BOOLEAN
            BY <2>2 DEF Writes, MinParams, EntryTypeOK
        <3>2. value \in Nat
            <4>1. params \in Seq(Text)
                BY TextsTyped
            <4> HIDE DEF params
            <4>2. params[3] \in Text
                BY <3>1, <4>1
            <4>3. Text \subseteq [words : Beginnings, letters : Letters]
                BY EntryAssumption DEF Letters
            <4>4. value \in 0 .. WordSize - 1
                BY <4>2, <4>3, ToUlongTyped
            <4> QED BY <4>4, WordFacts
        <3>3. \/ UNCHANGED mem
              \/ mem' = WithBytes(mem, ToUlong(params[2].letters) % AddressSpace,
                                  Bytes(value, WidthOf(params[1])))
            BY <2>2 DEF Writes
        <3> HIDE DEF params, value
        <3>4. mem \in [Cell -> 0 .. ByteSize - 1]
            BY DEF EntryTypeOK
        <3>5. mem' \in [Cell -> 0 .. ByteSize - 1]
            BY <3>1, <3>2, <3>3, <3>4, WidthTyped, WithBytesTyped
        <3> QED BY <3>1, <3>5 DEF EntryTypeOK
    <2>3. ASSUME UNCHANGED <<mem, hasArgs, args, alive>> PROVE EntryTypeOK'
        BY <2>3 DEF EntryTypeOK
    <2> QED BY <2>1, <2>2, <2>3 DEF EntryNext, Dropped, Ignored, entryVars
<1> QED BY <1>1, <1>2, PTL DEF EntrySpec

\* What one entry does to the arguments.
ArgumentsStep(line, lost) ==
    LET texts == Listed(line)
        shown == FirstOf(texts, MaxParams)
        added == Kept(shown, {i \in 2 .. Len(shown) : ~IsEmpty(shown[i])})
        room == IF Len(args) < MaxArgs THEN MaxArgs - Len(args) ELSE 0
        taken == FirstOf(added, room)
        isAppend == Len(texts) >= MinParams /\ "append_arg" \in texts[1].words /\ hasArgs
    IN  /\ IsPrefix(args, args')
        /\ args' # args => Len(args') <= MaxArgs /\ mem' = mem
        /\ lost = {} /\ Intact(line) =>
               args' = IF isAppend
                       THEN args \o [i \in 1 .. Len(taken) |->
                                        FirstOf(taken[i].letters, MaxArgBuf)]
                       ELSE args

\* The first of the texts that are taken is the first of the listed ones, and there are
\* three of the one if there are of the other.
LEMMA ShownFacts ==
    ASSUME NEW line \in Lines
    PROVE  LET texts == Listed(line)
               shown == FirstOf(texts, MaxParams)
           IN  /\ Len(shown) >= MinParams <=> Len(texts) >= MinParams
               /\ Len(texts) >= MinParams => shown[1] = texts[1] /\ texts[1] \in Text
<1> DEFINE texts == Listed(line)
           shown == FirstOf(texts, MaxParams)
<1>1. texts \in Seq(Text) /\ MaxParams \in Nat /\ MaxParams >= 3
    BY TextsTyped, EntryAssumption DEF MinParams
<1> HIDE DEF texts
<1>2. /\ Len(shown) = IF Len(texts) < MaxParams THEN Len(texts) ELSE MaxParams
      /\ \A i \in 1 .. Len(shown) : shown[i] = texts[i]
    BY <1>1, FirstOfFacts
<1> HIDE DEF shown
<1>3. Len(texts) \in Nat
    BY <1>1
<1>4. Len(texts) >= 3 => Len(shown) >= 3 /\ 1 \in 1 .. Len(shown) /\ texts[1] \in Text
    BY <1>1, <1>2, <1>3
<1>5. Len(shown) >= 3 => Len(texts) >= 3
    BY <1>1, <1>2, <1>3
<1> QED BY <1>2, <1>4, <1>5 DEF texts, shown, MinParams

\* Each of the four things that an entry can come to keeps to ArgumentsStep.
LEMMA EntryArguments ==
    ASSUME EntryTypeOK, NEW line \in Lines, NEW lost \in Lost(line),
           \/ Dropped(line, lost)
           \/ Writes(line, lost)
           \/ Appends(line, lost)
           \/ Ignored(line, lost)
    PROVE  ArgumentsStep(line, lost)
<1> DEFINE texts == Listed(line)
           shown == FirstOf(texts, MaxParams)
           added == Kept(shown, {i \in 2 .. Len(shown) : ~IsEmpty(shown[i])})
           room == IF Len(args) < MaxArgs THEN MaxArgs - Len(args) ELSE 0
           taken == FirstOf(added, room)
           isAppend == Len(texts) >= MinParams /\ "append_arg" \in texts[1].words /\ hasArgs
           params == Params(line, lost)
<1>1. args \in Seq(Arg) /\ params \in Seq(Text) /\ shown \in Seq(Text)
    <2>1. MaxParams \in Nat
        BY EntryAssumption
    <2> QED BY <2>1, TextsTyped, FirstOfFacts DEF EntryTypeOK
<1>2. room = ArgRoom(args)
    BY DEF ArgRoom
<1>3. lost = {} /\ Intact(line) => params = shown
    BY ListedIsTaken
<1>4. /\ Len(shown) >= MinParams <=> Len(texts) >= MinParams
      /\ Len(texts) >= MinParams => shown[1] = texts[1] /\ texts[1] \in Text
    BY ShownFacts
<1>5. IsPrefix(args, args)
    BY <1>1, PrefixOfItself
<1>6. AppendParams(args, shown) = args \o Buffers(taken)
    BY <1>1, <1>2, AppendedParams
<1>7. isAppend => ArmsOf(shown[1]) = {} /\ "append_arg" \in shown[1].words
    BY <1>4, AppendIsNoWrite
<1>8. Len(shown) >= MinParams /\ hasArgs /\ "append_arg" \in shown[1].words => isAppend
    BY <1>4
<1>9. /\ IsPrefix(args, AppendParams(args, params))
      /\ AppendParams(args, params) # args => Len(AppendParams(args, params)) <= MaxArgs
    BY <1>1, AppendedTyped
<1> HIDE DEF added, room, taken, params, shown, texts
<1> DEFINE Goal == /\ IsPrefix(args, args')
                   /\ args' # args => Len(args') <= MaxArgs /\ mem' = mem
                   /\ lost = {} /\ Intact(line) =>
                          args' = IF isAppend THEN args \o Buffers(taken) ELSE args
<1>10. ASSUME Appends(line, lost) PROVE Goal
    <2>1. /\ Len(params) >= MinParams /\ hasArgs /\ "append_arg" \in params[1].words
          /\ args' = AppendParams(args, params) /\ mem' = mem
        BY <1>10 DEF Appends, params
    <2>2. lost = {} /\ Intact(line) => isAppend /\ args' = args \o Buffers(taken)
        BY <1>3, <1>6, <1>8, <2>1
    <2> HIDE DEF isAppend
    <2> QED BY <1>9, <2>1, <2>2
<1>11. ASSUME ~Appends(line, lost) PROVE Goal
    <2>1. args' = args
        BY <1>11 DEF Dropped, Writes, Ignored
    <2>2. lost = {} /\ Intact(line) => ~isAppend
        <3> SUFFICES ASSUME lost = {}, Intact(line), isAppend PROVE FALSE
            OBVIOUS
        <3>1. params = shown /\ Len(params) >= MinParams /\ ArmsOf(params[1]) = {}
              /\ "append_arg" \in params[1].words /\ hasArgs
            BY <1>3, <1>4, <1>7
        <3>2. ~(Len(params) < MinParams)
            <4>1. Len(params) \in Nat
                BY <1>1
            <4> QED BY <3>1, <4>1 DEF MinParams
        <3> QED BY <1>11, <3>1, <3>2 DEF Dropped, Writes, Ignored, params
    <2> HIDE DEF isAppend
    <2> QED BY <1>5, <2>1, <2>2
<1>12. Goal
    BY <1>10, <1>11
<1> QED BY <1>12 DEF ArgumentsStep, Buffers, Buffer, texts, shown, added, room, taken

\* patch.c, append_arg and the loop in apply_patch: whatever the entry, its tokens, and
\* the strings whose malloc fails, the arguments the game had stay first and in order, at
\* most MaxArgs are reached by adding, and an entry that lost nothing adds exactly the
\* texts it lists that are not empty, in order, up to the limit; no write changes them.
THEOREM ArgumentsAlwaysAsListed == EntrySpec => ArgumentsAsListed
<1>1. EntryTypeOK /\ [EntryNext]_entryVars
      => [ArgumentsStep(last'.line, last'.lost)]_entryVars
    <2> SUFFICES ASSUME EntryTypeOK, EntryNext
                 PROVE  ArgumentsStep(last'.line, last'.lost)
        OBVIOUS
    <2>0. PICK line \in Lines : \E lost \in Lost(line) :
              \/ Dropped(line, lost)
              \/ Writes(line, lost)
              \/ Appends(line, lost)
              \/ Ignored(line, lost)
        BY DEF EntryNext
    <2>1. PICK lost \in Lost(line) :
              \/ Dropped(line, lost)
              \/ Writes(line, lost)
              \/ Appends(line, lost)
              \/ Ignored(line, lost)
        BY <2>0
    <2>2. last'.line = line /\ last'.lost = lost
        BY <2>1 DEF Dropped, Writes, Appends, Ignored, Remember
    <2>3. ArgumentsStep(line, lost)
        BY <2>1, EntryArguments
    <2> QED BY <2>2, <2>3
<1>2. [][ArgumentsStep(last'.line, last'.lost)]_entryVars => ArgumentsAsListed
    BY PTL DEF ArgumentsAsListed, ArgumentsStep
<1> QED BY <1>1, <1>2, EntryAlwaysTyped, PTL DEF EntrySpec

\* What one entry does to memory, and whether something in it failed.
WrittenStep(line, lost, done) ==
    LET texts == Listed(line)
    IN  /\ IsWrite(texts) /\ Intact(line)
        /\ "byte" \notin texts[1].words \/ NamedWidth(texts[1]) = 1
        => /\ done => AsListed(texts)
           /\ Len(texts) = MinParams => mem' = mem \/ AsListed(texts)

\* The bytes written are read back as they are listed, and no other byte changes.
LEMMA WriteIsAsListed ==
    ASSUME NEW texts \in Seq(Text), IsWrite(texts),
           "byte" \notin texts[1].words \/ NamedWidth(texts[1]) = 1,
           IF Readable(ToUlong(texts[2].letters) % AddressSpace, WidthOf(texts[1]))
           THEN /\ alive'
                /\ mem' = WithBytes(mem, ToUlong(texts[2].letters) % AddressSpace,
                                    Bytes(ToUlong(texts[3].letters), WidthOf(texts[1])))
           ELSE mem' = mem /\ ~alive'
    PROVE  AsListed(texts)
<1> DEFINE width == WidthOf(texts[1])
           addr == Value(texts[2].letters)
           value == ToUlong(texts[3].letters)
           bytes == Bytes(value, width)
<1>1. /\ texts[1] \in Text /\ texts[2].letters \in Letters /\ texts[3].letters \in Letters
      /\ texts[1].words \ {"append_arg"} # {}
      /\ IsNumber(texts[2].letters) /\ addr \in 0 .. AddressSpace - 1
      /\ IsNumber(texts[3].letters)
    <2>1. /\ Len(texts) >= 3 /\ texts[1].words \ {"append_arg"} # {}
          /\ IsNumber(texts[2].letters) /\ addr \in 0 .. AddressSpace - 1
          /\ IsNumber(texts[3].letters)
        BY DEF IsWrite, MinParams
    <2>2. 1 \in 1 .. Len(texts) /\ 2 \in 1 .. Len(texts) /\ 3 \in 1 .. Len(texts)
        BY <2>1
    <2>3. \A i \in 1 .. Len(texts) : texts[i] \in Text /\ texts[i].letters \in Letters
        <3> TAKE i \in 1 .. Len(texts)
        <3>1. texts[i] \in Text
            OBVIOUS
        <3>2. Text \subseteq [words : Beginnings, letters : Letters]
            BY EntryAssumption DEF Letters
        <3> QED BY <3>1, <3>2
    <2> QED BY <2>1, <2>2, <2>3
<1>2. width = NamedWidth(texts[1]) /\ width \in {1, 2, 4, 8}
    BY <1>1, WidthAsNamed
<1>3. ToUlong(texts[2].letters) % AddressSpace = addr
    BY <1>1, AddressRead
<1>0. ASSUME ~Readable(addr, width) PROVE AsListed(texts)
    BY <1>0, <1>2, <1>3 DEF AsListed
<1> SUFFICES ASSUME Readable(addr, width) PROVE AsListed(texts)
    BY <1>0
<1>4. mem' = WithBytes(mem, addr, bytes) /\ Readable(addr, width) /\ alive'
    BY <1>3
<1>5. value % Power[width] = Value(texts[3].letters) % Power[width] /\ value \in Nat
    <2>1. width \in 0 .. 8
        BY <1>2
    <2>2. value \in 0 .. WordSize - 1
        BY <1>1, ToUlongTyped
    <2>3. value \in Nat
        BY <2>2, WordFacts
    <2> HIDE DEF width
    <2> QED BY <1>1, <2>1, <2>3, ValueNarrowed
<1> HIDE DEF width, addr, value
<1>6. DOMAIN bytes = 0 .. width - 1
      /\ \A i \in 0 .. width - 1 : bytes[i] = (value \div Power[width - 1 - i]) % ByteSize
    BY DEF Bytes
<1> HIDE DEF bytes
<1>7. addr \in Nat /\ width \in Nat /\ width \in 0 .. 8
      /\ Cell \subseteq Int /\ addr .. addr + width - 1 \subseteq Cell
    <2>1. addr \in Nat
        BY <1>1, EntryAssumption
    <2>2. Cell \subseteq Int
        BY EntryAssumption
    <2> QED BY <1>2, <1>4, <2>1, <2>2 DEF Readable
<1>8. \A a \in Cell : mem'[a] = IF a - addr \in 0 .. width - 1 THEN bytes[a - addr] ELSE mem[a]
    BY <1>4, <1>6 DEF WithBytes
<1>9. \A i \in 0 .. width - 1 : mem'[addr + i] = (value \div Power[width - 1 - i]) % ByteSize
    <2> TAKE i \in 0 .. width - 1
    <2>1. addr + i \in Cell /\ (addr + i) - addr = i
        BY <1>7
    <2>2. mem'[addr + i] = bytes[i]
        BY <1>8, <2>1
    <2> QED BY <1>6, <2>2
<1>10. \A a \in Cell \ (addr .. addr + width - 1) : mem'[a] = mem[a]
    <2> TAKE a \in Cell \ (addr .. addr + width - 1)
    <2>1. a \in Cell /\ ~(a - addr \in 0 .. width - 1)
        BY <1>7
    <2> QED BY <1>8, <2>1
<1>11. BigEndian(mem', addr, width) = value % Power[width]
    <2> DEFINE m == mem'
    <2>1. \A i \in 0 .. width - 1 : m[addr + i] = (value \div Power[width - 1 - i]) % ByteSize
        BY <1>9
    <2> HIDE DEF m
    <2>2. BigEndian(m, addr, width) = value % Power[width]
        BY <1>5, <1>7, <2>1, BytesRead
    <2> QED BY <2>2 DEF m
<1>12. BigEndian(mem', addr, width) = Value(texts[3].letters) % Power[width]
    BY <1>5, <1>11
<1> QED BY <1>2, <1>4, <1>10, <1>12 DEF AsListed, addr

\* An entry with exactly three strings of which malloc fails for one is dropped.
LEMMA TooFewLeft ==
    ASSUME NEW line \in Lines, NEW lost \in Lost(line), lost # {}, Intact(line),
           Len(Listed(line)) = MinParams
    PROVE  Len(Params(line, lost)) < MinParams
<1> DEFINE texts == TextsOf(line)
           R == Strings(line)
           S == R \ lost
           kept == Kept(texts, S)
<1>1. /\ line \in Seq(Token) /\ texts \in Seq(Text) /\ Len(texts) = Len(line)
      /\ MaxParams \in Nat /\ MaxParams >= 3
    <2>1. line \in Seq(Token) /\ texts \in Seq(Text)
        BY TextsTyped
    <2>2. Len(texts) = Len(line)
        <3>1. Len(line) \in Nat
            BY <2>1
        <3> QED BY <3>1 DEF TextsOf
    <2> QED BY <2>1, <2>2, EntryAssumption DEF MinParams
<1>2. lost \subseteq R /\ R \subseteq 1 .. Len(line)
    BY <1>1, StringsArePlaces DEF Lost
<1>3. PICK i \in lost : TRUE
    OBVIOUS
<1>4. i \in 1 .. Len(texts) /\ i \in R \ S /\ S \in SUBSET R
    BY <1>1, <1>2, <1>3
<1>5. Kept(texts, R) = Listed(line)
    <2>1. R = {j \in DOMAIN line : line[j].quoted}
        BY <1>1, StringsArePlaces
    <2> QED BY <2>1 DEF Listed
<1>6. Len(kept) < Len(Kept(texts, R))
    <2> HIDE DEF texts, R, S
    <2> QED BY <1>1, <1>4, KeptFewer
<1>7. kept \in Seq(Text)
    BY <1>1, KeptTyped
<1>8. Params(line, lost) = FirstOf(kept, MaxParams)
    BY DEF Params
<1> HIDE DEF kept
<1>9. Len(Params(line, lost)) = IF Len(kept) < MaxParams THEN Len(kept) ELSE MaxParams
    BY <1>1, <1>7, <1>8, FirstOfFacts
<1>10. Len(kept) \in Nat /\ Len(kept) < 3
    <2>1. Len(kept) \in Nat
        BY <1>7
    <2>2. Len(Kept(texts, R)) = 3
        BY <1>5 DEF MinParams
    <2>3. Len(kept) < 3
        BY <1>6, <2>2 DEF kept
    <2> QED BY <2>1, <2>3
<1> QED BY <1>1, <1>9, <1>10 DEF MinParams

\* What a write that is not refused comes to.
WriteOutcome(params) ==
    IF Readable(ToUlong(params[2].letters) % AddressSpace, WidthOf(params[1]))
    THEN /\ alive'
         /\ mem' = WithBytes(mem, ToUlong(params[2].letters) % AddressSpace,
                             Bytes(ToUlong(params[3].letters), WidthOf(params[1])))
    ELSE mem' = mem /\ ~alive'

LEMMA WritesOutcome ==
    ASSUME alive, NEW line, NEW lost, Writes(line, lost)
    PROVE  /\ last'.refused => mem' = mem
           /\ ~last'.refused => WriteOutcome(Params(line, lost))
<1> DEFINE params == Params(line, lost)
           addr == ToUlong(params[2].letters) % AddressSpace
           width == WidthOf(params[1])
           bytes == Bytes(ToUlong(params[3].letters), width)
<1>1. \/ /\ Readable(addr, width) /\ mem' = WithBytes(mem, addr, bytes)
         /\ Remember(line, lost, FALSE) /\ alive' = alive
      \/ /\ ~Readable(addr, width) /\ alive' = FALSE /\ mem' = mem
         /\ Remember(line, lost, FALSE)
      \/ Remember(line, lost, TRUE) /\ mem' = mem
    BY DEF Writes
<1>2. Remember(line, lost, FALSE) => last'.refused = FALSE
    BY DEF Remember
<1>3. Remember(line, lost, TRUE) => last'.refused = TRUE
    BY DEF Remember
<1>4. WriteOutcome(params) <=> IF Readable(addr, width)
                               THEN alive' /\ mem' = WithBytes(mem, addr, bytes)
                               ELSE mem' = mem /\ ~alive'
    BY DEF WriteOutcome
<1> HIDE DEF params, addr, width, bytes
<1>5. CASE /\ Readable(addr, width) /\ mem' = WithBytes(mem, addr, bytes)
           /\ Remember(line, lost, FALSE) /\ alive' = alive
    <2>1. alive'
        BY <1>5, Zenon
    <2> QED BY <1>2, <1>4, <1>5, <2>1, Zenon DEF params
<1>6. CASE /\ ~Readable(addr, width) /\ alive' = FALSE /\ mem' = mem
           /\ Remember(line, lost, FALSE)
    BY <1>2, <1>4, <1>6, Zenon DEF params
<1>7. CASE Remember(line, lost, TRUE) /\ mem' = mem
    BY <1>3, <1>7, Zenon
<1> QED BY <1>1, <1>5, <1>6, <1>7

\* Each of the four things that an entry can come to keeps to WrittenStep.
LEMMA EntryWrites ==
    ASSUME alive, NEW line \in Lines, NEW lost \in Lost(line),
           \/ Dropped(line, lost)
           \/ Writes(line, lost)
           \/ Appends(line, lost)
           \/ Ignored(line, lost)
    PROVE  WrittenStep(line, lost, lost = {} /\ ~last'.refused)
<1> DEFINE texts == Listed(line)
           shown == FirstOf(texts, MaxParams)
           Goal == /\ lost = {} /\ ~last'.refused => AsListed(texts)
                   /\ Len(texts) = MinParams => mem' = mem \/ AsListed(texts)
<1> SUFFICES ASSUME IsWrite(texts), Intact(line),
                    "byte" \notin texts[1].words \/ NamedWidth(texts[1]) = 1
             PROVE  Goal
    BY DEF WrittenStep
<1>1. texts \in Seq(Text) /\ MaxParams \in Nat /\ MaxParams >= 3 /\ Len(texts) >= 3
    BY TextsTyped, EntryAssumption DEF MinParams, IsWrite
<1>2. lost = {} => Params(line, lost) = shown
    BY ListedIsTaken
<1>3. Len(shown) >= 3 /\ shown[1] = texts[1] /\ shown[2] = texts[2] /\ shown[3] = texts[3]
    <2> HIDE DEF texts
    <2>1. /\ Len(shown) = IF Len(texts) < MaxParams THEN Len(texts) ELSE MaxParams
          /\ \A i \in 1 .. Len(shown) : shown[i] = texts[i]
        BY <1>1, FirstOfFacts
    <2>2. Len(texts) \in Nat
        BY <1>1
    <2> HIDE DEF shown
    <2>3. /\ Len(shown) >= 3
          /\ 1 \in 1 .. Len(shown) /\ 2 \in 1 .. Len(shown) /\ 3 \in 1 .. Len(shown)
        BY <1>1, <2>1, <2>2
    <2> QED BY <2>1, <2>3
<1>4. ArmsOf(texts[1]) # {}
    <2>1. texts[1] \in Text
        <3> HIDE DEF texts
        <3>1. 1 \in 1 .. Len(texts)
            BY <1>1
        <3> QED BY <1>1, <3>1
    <2>2. texts[1].words \ {"append_arg"} # {}
        BY DEF IsWrite
    <2> QED BY <2>1, <2>2, WidthAsNamed
<1>5. mem' = mem \/ Writes(line, lost)
    BY DEF Dropped, Appends, Ignored
<1>6. ASSUME Writes(line, lost), lost = {}, ~last'.refused PROVE AsListed(texts)
    <2>1. Params(line, lost) = shown
        BY <1>2, <1>6
    <2>3. WriteOutcome(Params(line, lost))
        BY <1>6, WritesOutcome
    <2>2. IF Readable(ToUlong(texts[2].letters) % AddressSpace, WidthOf(texts[1]))
          THEN /\ alive'
               /\ mem' = WithBytes(mem, ToUlong(texts[2].letters) % AddressSpace,
                                   Bytes(ToUlong(texts[3].letters), WidthOf(texts[1])))
          ELSE mem' = mem /\ ~alive'
        <3> HIDE DEF texts, shown
        <3> QED BY <1>3, <2>1, <2>3 DEF WriteOutcome
    <2> HIDE DEF texts
    <2> QED BY <1>1, <2>2, WriteIsAsListed
<1>7. ASSUME lost = {} PROVE Writes(line, lost)
    <2>1. Params(line, lost) = shown
        BY <1>2, <1>7
    <2>2. ArmsOf(Params(line, lost)[1]) # {} /\ ~(Len(Params(line, lost)) < MinParams)
        <3>1. Len(shown) \in Nat
            BY <1>1, FirstOfFacts
        <3> HIDE DEF texts, shown
        <3> QED BY <1>3, <1>4, <2>1, <3>1 DEF MinParams
    <2> QED BY <2>2 DEF Dropped, Appends, Ignored
<1>8. ASSUME Writes(line, lost), last'.refused PROVE mem' = mem
    BY <1>8, WritesOutcome
<1>9. ASSUME lost # {}, Len(texts) = MinParams PROVE mem' = mem
    <2>1. Len(Params(line, lost)) < MinParams
        BY <1>9, TooFewLeft
    <2>2. ~Writes(line, lost)
        <3>1. Params(line, lost) \in Seq(Text)
            BY TextsTyped
        <3>2. Len(Params(line, lost)) \in Nat
            BY <3>1
        <3>3. ~(Len(Params(line, lost)) >= MinParams)
            BY <2>1, <3>2 DEF MinParams
        <3> QED BY <3>3 DEF Writes
    <2> QED BY <1>5, <2>2
<1> HIDE DEF texts
<1> QED BY <1>5, <1>6, <1>7, <1>8, <1>9

\* patch.c, apply_patch, write_patch and lv2_stdio.h, strtoul: whatever the entry lists as
\* an address and a value, in whatever base and with whatever sign, an entry that is done
\* has written exactly the value, narrowed, at exactly the address, in memory order, and
\* touched no other byte; one that is not done has written nothing or all of it, also
\* when malloc fails for some of exactly three strings.
THEOREM WritesAlwaysAsListed == EntrySpec => WrittenAsListed
<1>1. [EntryNext]_entryVars
      => [WrittenStep(last'.line, last'.lost, last'.lost = {} /\ ~last'.refused)]_entryVars
    <2> SUFFICES ASSUME EntryNext
                 PROVE  WrittenStep(last'.line, last'.lost, last'.lost = {} /\ ~last'.refused)
        OBVIOUS
    <2>0. PICK line \in Lines : \E lost \in Lost(line) :
              \/ Dropped(line, lost)
              \/ Writes(line, lost)
              \/ Appends(line, lost)
              \/ Ignored(line, lost)
        BY DEF EntryNext
    <2>1. PICK lost \in Lost(line) :
              \/ Dropped(line, lost)
              \/ Writes(line, lost)
              \/ Appends(line, lost)
              \/ Ignored(line, lost)
        BY <2>0
    <2>2. last'.line = line /\ last'.lost = lost
        BY <2>1 DEF Dropped, Writes, Appends, Ignored, Remember
    <2>3. WrittenStep(line, lost, lost = {} /\ ~last'.refused)
        <3>1. alive
            BY DEF EntryNext
        <3> QED BY <2>1, <3>1, EntryWrites
    <2> QED BY <2>2, <2>3
<1>2. [][WrittenStep(last'.line, last'.lost, last'.lost = {} /\ ~last'.refused)]_entryVars
      => WrittenAsListed
    BY PTL DEF WrittenAsListed, WrittenStep, Done
<1> QED BY <1>1, <1>2, PTL DEF EntrySpec
=============================================================================

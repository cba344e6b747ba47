--------------------------- MODULE ParseHeap_proofs ---------------------------
(***************************************************************************)
(* Who owns the memory of a ParseContext, for every file, every number of   *)
(* lines and of failing mallocs, and arrays of every size.                 *)
(***************************************************************************)
EXTENDS ParseHeap, WellFoundedInduction, TLAPS

USE HeapAssumption DEF arrays, patch, gathered, file, history

-----------------------------------------------------------------------------
(***************************************************************************)
(* malloc.                                                                 *)
(***************************************************************************)
LEMMA Highest ==
    ASSUME NEW K \in Nat, NEW S \in SUBSET (0 .. K), S # {}
    PROVE  \E x \in S : \A y \in S : x >= y
<1> DEFINE T == {K - x : x \in S}
<1>1. T \in SUBSET Nat /\ T # {}
    <2>1. \A x \in S : K - x \in Nat
        OBVIOUS
    <2> QED BY <2>1
<1>2. IsWellFoundedOn(OpToRel(<, Nat), Nat)
    BY NatLessThanWellFounded
<1> HIDE DEF T
<1>3. PICK m \in T : \A y \in T : ~(<<y, m>> \in OpToRel(<, Nat))
    BY <1>1, <1>2, WFMin
<1>4. \A y \in T : ~(y < m)
    BY <1>1, <1>3 DEF OpToRel
<1> USE DEF T
<1>5. PICK x \in S : m = K - x
    OBVIOUS
<1>6. \A y \in S : ~(K - y < K - x)
    BY <1>4, <1>5
<1>7. \A y \in S : y \in Int /\ x \in Int
    OBVIOUS
<1> QED BY <1>6, <1>7

\* The objects of h are numbered from 1 on.
Numbered(h) == \E K \in Nat : DOMAIN h \subseteq 1 .. K

LEMMA TopIsHighest ==
    ASSUME NEW h, Numbered(h)
    PROVE  Top(h) \in Nat /\ \A x \in DOMAIN h : x \in Nat /\ x > 0 /\ x <= Top(h)
<1>1. PICK K \in Nat : DOMAIN h \subseteq 1 .. K
    BY DEF Numbered
<1>2. PICK x \in {0} \cup DOMAIN h : \A y \in {0} \cup DOMAIN h : x >= y
    <2>1. {0} \cup DOMAIN h \in SUBSET (0 .. K) /\ {0} \cup DOMAIN h # {}
        BY <1>1
    <2> QED BY <2>1, Highest
<1>3. Top(h) \in {0} \cup DOMAIN h /\ \A y \in {0} \cup DOMAIN h : Top(h) >= y
    BY <1>2 DEF Top, Max
<1> QED BY <1>1, <1>3

\* o adds its objects to h and leaves the others as they are.
Adds(h, o) ==
    /\ o.ids \in Seq(Nat)
    /\ \A i \in DOMAIN o.ids : o.ids[i] # 0 => o.ids[i] \notin DOMAIN h
    /\ \A i, j \in DOMAIN o.ids : o.ids[i] = o.ids[j] /\ o.ids[i] # 0 => i = j
    /\ DOMAIN o.heap = DOMAIN h \cup Ids(o.ids)
    /\ \A x \in DOMAIN h : o.heap[x] = h[x]
    /\ Numbered(o.heap)
    /\ o.fails \in {0, 1} /\ (o.fails = 1 => failures < MaxFailures)

LEMMA GotAdds ==
    ASSUME NEW h, Numbered(h), NEW n \in Nat, NEW texts, DOMAIN texts = 1 .. n,
           NEW ok \in SUBSET (1 .. n),
           NEW fails \in {0, 1}, fails = 1 => failures < MaxFailures,
           NEW o, o = Got(h, texts, ok, fails)
    PROVE  /\ Adds(h, o) /\ o.fails = fails
           /\ DOMAIN o.ids = 1 .. n /\ Len(o.ids) = n
           /\ \A i \in 1 .. n : IF i \in ok THEN o.ids[i] # 0 /\ o.heap[o.ids[i]] = texts[i]
                                ELSE o.ids[i] = 0
<1>1. /\ o.ids = [i \in 1 .. n |-> IF i \in ok THEN Top(h) + i ELSE 0]
      /\ o.heap = [x \in DOMAIN h \cup {Top(h) + i : i \in ok} |->
                      IF x \in DOMAIN h THEN h[x] ELSE texts[x - Top(h)]]
      /\ o.fails = fails
    BY DEF Got
<1>2. Top(h) \in Nat /\ \A x \in DOMAIN h : x \in Nat /\ x > 0 /\ x <= Top(h)
    BY TopIsHighest
<1>3. \A i \in ok : /\ i \in Nat /\ i > 0 /\ Top(h) + i \in Nat /\ Top(h) + i > 0
                    /\ Top(h) + i \notin DOMAIN h /\ (Top(h) + i) - Top(h) = i
    BY <1>2
<1>4. o.ids \in Seq(Nat) /\ DOMAIN o.ids = 1 .. n /\ Len(o.ids) = n
    <2>1. o.ids \in [1 .. n -> Nat]
        BY <1>1, <1>3
    <2> QED BY <2>1
<1>5. \A i \in 1 .. n : /\ i \in ok => o.ids[i] = Top(h) + i /\ o.ids[i] # 0
                        /\ i \notin ok => o.ids[i] = 0
    BY <1>1, <1>3
<1>6. Ids(o.ids) = {Top(h) + i : i \in ok}
    <2>1. \A x \in Ids(o.ids) : x \in {Top(h) + i : i \in ok}
        BY <1>4, <1>5 DEF Ids
    <2>2. \A i \in ok : Top(h) + i \in Ids(o.ids)
        BY <1>4, <1>5 DEF Ids
    <2> QED BY <2>1, <2>2
<1>7. DOMAIN o.heap = DOMAIN h \cup Ids(o.ids) /\ \A x \in DOMAIN h : o.heap[x] = h[x]
    BY <1>1, <1>6
<1>8. \A i \in ok : o.heap[Top(h) + i] = texts[i]
    BY <1>1, <1>3
<1>9. Numbered(o.heap)
    <2>1. \A x \in DOMAIN o.heap : x \in 1 .. Top(h) + n
        BY <1>1, <1>2, <1>3
    <2>2. Top(h) + n \in Nat
        BY <1>2
    <2> QED BY <2>1, <2>2 DEF Numbered
<1>10. \A i \in DOMAIN o.ids : o.ids[i] # 0 => o.ids[i] \notin DOMAIN h
    BY <1>3, <1>4, <1>5
<1>11. \A i, j \in DOMAIN o.ids : o.ids[i] = o.ids[j] /\ o.ids[i] # 0 => i = j
    <2> SUFFICES ASSUME NEW i \in 1 .. n, NEW j \in 1 .. n, o.ids[i] = o.ids[j], o.ids[i] # 0
                 PROVE  i = j
        BY <1>4
    <2>1. i \in ok /\ j \in ok
        BY <1>5
    <2>2. Top(h) + i = Top(h) + j
        BY <2>1, <1>5
    <2> QED BY <2>2, <1>2
<1>12. Adds(h, o)
    BY <1>1, <1>4, <1>7, <1>9, <1>10, <1>11 DEF Adds
<1>13. \A i \in ok : o.heap[o.ids[i]] = texts[i]
    BY <1>5, <1>8
<1> QED BY <1>1, <1>4, <1>5, <1>12, <1>13

\* malloc of one object after the other: an object is missing because nothing was asked
\* for, or because it failed.
LEMMA OutcomesAdd ==
    ASSUME NEW h, Numbered(h), NEW n \in Nat, NEW texts, DOMAIN texts = 1 .. n,
           NEW o \in Outcomes(h, texts)
    PROVE  /\ Adds(h, o) /\ DOMAIN o.ids = 1 .. n /\ Len(o.ids) = n
           /\ \A i \in 1 .. n :
                 /\ o.ids[i] # 0 => texts[i] # "none" /\ o.heap[o.ids[i]] = texts[i]
                 /\ o.ids[i] = 0 => texts[i] = "none" \/ o.fails = 1
<1> DEFINE wanted == {i \in 1 .. n : texts[i] # "none"}
<1>1. \/ o = Got(h, texts, wanted, 0)
      \/ failures < MaxFailures /\ \E i \in wanted : o = Got(h, texts, wanted \ {i}, 1)
    BY DEF Outcomes
<1>2. CASE o = Got(h, texts, wanted, 0)
    <2>1. wanted \in SUBSET (1 .. n)
        OBVIOUS
    <2>2. /\ Adds(h, o) /\ DOMAIN o.ids = 1 .. n /\ Len(o.ids) = n
          /\ \A i \in 1 .. n : IF i \in wanted THEN o.ids[i] # 0 /\ o.heap[o.ids[i]] = texts[i]
                               ELSE o.ids[i] = 0
        BY <1>2, <2>1, GotAdds
    <2> QED BY <2>2
<1>3. CASE failures < MaxFailures /\ \E i \in wanted : o = Got(h, texts, wanted \ {i}, 1)
    <2>1. PICK k \in wanted : o = Got(h, texts, wanted \ {k}, 1)
        BY <1>3
    <2> DEFINE ok == wanted \ {k}
    <2>2. ok \in SUBSET (1 .. n)
        OBVIOUS
    <2>3. /\ Adds(h, o) /\ DOMAIN o.ids = 1 .. n /\ Len(o.ids) = n /\ o.fails = 1
          /\ \A i \in 1 .. n : IF i \in ok THEN o.ids[i] # 0 /\ o.heap[o.ids[i]] = texts[i]
                               ELSE o.ids[i] = 0
        BY <1>3, <2>1, <2>2, GotAdds
    <2> QED BY <2>3
<1> QED BY <1>1, <1>2, <1>3

\* A pointer that is there, and one that is not.
LEMMA OutcomesHit ==
    ASSUME NEW h, Numbered(h), NEW n \in Nat, NEW texts, DOMAIN texts = 1 .. n,
           NEW o \in Outcomes(h, texts), NEW i \in 1 .. n, o.ids[i] # 0
    PROVE  texts[i] # "none" /\ o.heap[o.ids[i]] = texts[i]
BY OutcomesAdd

LEMMA OutcomesMiss ==
    ASSUME NEW h, Numbered(h), NEW n \in Nat, NEW texts, DOMAIN texts = 1 .. n,
           NEW o \in Outcomes(h, texts), NEW i \in 1 .. n, o.ids[i] = 0
    PROVE  texts[i] = "none" \/ o.fails = 1
BY OutcomesAdd

\* A list of strings holds no NULL.
LEMMA GatheredAdds ==
    ASSUME NEW h, Numbered(h), NEW T, NEW texts \in Seq(T), NEW o \in Gathered(h, texts)
    PROVE  /\ Adds(h, o)
           /\ \A i \in DOMAIN o.ids : o.ids[i] # 0 /\ o.heap[o.ids[i]] \in T
<1>1. ASSUME NEW ts \in Seq(T), NEW fails \in {0, 1}, fails = 1 => failures < MaxFailures,
             o = Whole(h, ts, fails)
      PROVE  /\ Adds(h, o)
             /\ \A i \in DOMAIN o.ids : o.ids[i] # 0 /\ o.heap[o.ids[i]] \in T
    <2>1. Len(ts) \in Nat /\ DOMAIN ts = 1 .. Len(ts) /\ \A i \in 1 .. Len(ts) : ts[i] \in T
        OBVIOUS
    <2>2. o = Got(h, ts, 1 .. Len(ts), fails)
        BY <1>1, <2>1 DEF Whole
    <2>3. /\ Adds(h, o) /\ DOMAIN o.ids = 1 .. Len(ts)
          /\ \A i \in 1 .. Len(ts) : o.ids[i] # 0 /\ o.heap[o.ids[i]] = ts[i]
        BY <1>1, <2>1, <2>2, GotAdds
    <2> QED BY <2>1, <2>3
<1>2. \/ o = Whole(h, texts, 0)
      \/ failures < MaxFailures /\ \E i \in DOMAIN texts : o = Whole(h, RemoveAt(texts, i), 1)
    BY DEF Gathered
<1>3. \A i \in DOMAIN texts : RemoveAt(texts, i) \in Seq(T)
    BY DEF RemoveAt
<1> QED BY <1>1, <1>2, <1>3
-----------------------------------------------------------------------------
(***************************************************************************)
(* Owners.  O is a set of holders, h a heap and F the objects nobody holds  *)
(* any more but that are known to be lost.                                 *)
(***************************************************************************)
Sound(O, h, F) ==
    /\ Numbered(h)
    /\ \A o \in O : o[4] \in DOMAIN h /\ o[4] \notin F
    /\ \A o, p \in O : o[4] = p[4] => o = p
    /\ F \subseteq DOMAIN h

Covered(O, h, F) == \A x \in DOMAIN h : x \in F \/ \E o \in O : o[4] = x

\* Holders are added, each of an object of its own that was not there.
LEMMA Adding ==
    ASSUME NEW O, NEW h, NEW F, Sound(O, h, F), NEW N, NEW P, NEW g, Numbered(g),
           \A p \in P : p \in O \/ p \in N, DOMAIN h \subseteq DOMAIN g,
           \A p \in N : p[4] \in DOMAIN g \ DOMAIN h,
           \A p, q \in N : p[4] = q[4] => p = q
    PROVE  Sound(P, g, F)
BY DEF Sound

LEMMA AddingCovers ==
    ASSUME NEW O, NEW h, NEW F, Covered(O, h, F), NEW N, NEW P, NEW g,
           \A p : p \in O \/ p \in N => p \in P,
           \A x \in DOMAIN g : x \in DOMAIN h \/ \E p \in N : p[4] = x
    PROVE  Covered(P, g, F)
BY DEF Covered

\* Objects are freed, and nobody that is left holds one of them.
LEMMA Dropping ==
    ASSUME NEW O, NEW h, NEW F, Sound(O, h, F), NEW P, NEW G,
           \A p \in P : p \in O /\ p[4] \notin G, \A x \in G : x \notin F
    PROVE  Sound(P, Free(h, G), F)
<1>1. DOMAIN Free(h, G) = DOMAIN h \ G
    BY DEF Free
<1>2. Numbered(Free(h, G))
    BY <1>1 DEF Sound, Numbered
<1> QED BY <1>1, <1>2 DEF Sound

LEMMA DroppingCovers ==
    ASSUME NEW O, NEW h, NEW F, Covered(O, h, F), NEW P, NEW G,
           \A o \in O : o \in P \/ o[4] \in G
    PROVE  Covered(P, Free(h, G), F)
<1>1. DOMAIN Free(h, G) = DOMAIN h \ G
    BY DEF Free
<1> QED BY <1>1 DEF Covered

\* Owners, of any context.
Own(arr, f, t, v, e, m, ls, as) ==
    Held("context", 0, arr) \cup Held("patch", 0, f) \cup Held("titleids", 0, t)
        \cup Held("versions", 0, v) \cup Held("entries", 0, e) \cup Held("meta", 0, m)
        \cup (UNION {Held("listed", k, ls[k]) : k \in DOMAIN ls})
        \cup (UNION {Held("all", k, as[k]) : k \in DOMAIN as})

LEMMA OwnersAre == Owners = Own(array, fields, titleids, vers, entries, currentMeta, listed, all)
BY DEF Owners, Own

LEMMA InOwn ==
    ASSUME NEW arr, NEW f, NEW t, NEW v, NEW e, NEW m, NEW ls, NEW as, NEW x
    PROVE  x \in Own(arr, f, t, v, e, m, ls, as) <=>
               \/ x \in Held("context", 0, arr) \/ x \in Held("patch", 0, f)
               \/ x \in Held("titleids", 0, t) \/ x \in Held("versions", 0, v)
               \/ x \in Held("entries", 0, e) \/ x \in Held("meta", 0, m)
               \/ \E k \in DOMAIN ls : x \in Held("listed", k, ls[k])
               \/ \E k \in DOMAIN as : x \in Held("all", k, as[k])
BY DEF Own

\* A holder is told by who it is and by its place.
LEMMA InHeld ==
    ASSUME NEW w, NEW k, NEW s, NEW x
    PROVE  /\ x \in Held(w, k, s) <=> \E i \in DOMAIN s : s[i] # 0 /\ x = <<w, k, i, s[i]>>
           /\ x \in Held(w, k, s) => x[1] = w /\ x[2] = k /\ x[4] \in Ids(s)
           /\ \A y \in Ids(s) : \E z \in Held(w, k, s) : z[4] = y
<1>1. x \in Held(w, k, s) <=> \E i \in DOMAIN s : s[i] # 0 /\ x = <<w, k, i, s[i]>>
    BY DEF Held
<1>2. ASSUME x \in Held(w, k, s) PROVE x[1] = w /\ x[2] = k /\ x[4] \in Ids(s)
    <2>1. PICK i \in DOMAIN s : s[i] # 0 /\ x = <<w, k, i, s[i]>>
        BY <1>1, <1>2
    <2>2. x[1] = w /\ x[2] = k /\ x[4] = s[i]
        BY <2>1
    <2> QED BY <2>1, <2>2 DEF Ids
<1>3. ASSUME NEW y \in Ids(s) PROVE \E z \in Held(w, k, s) : z[4] = y
    <2>1. PICK i \in DOMAIN s : s[i] = y /\ y # 0
        BY DEF Ids
    <2>2. <<w, k, i, s[i]>> \in Held(w, k, s)
        BY <2>1 DEF Held
    <2>3. <<w, k, i, s[i]>>[4] = s[i]
        OBVIOUS
    <2> QED BY <2>1, <2>2, <2>3
<1> QED BY <1>1, <1>2, <1>3

\* The holders of the new objects of o, in a list of w that has n elements already.
New(w, k, n, ids) == {<<w, k, n + i, ids[i]>> : i \in {j \in DOMAIN ids : ids[j] # 0}}

LEMMA HeldIsNew ==
    ASSUME NEW w, NEW k, NEW h, NEW o, Adds(h, o)
    PROVE  Held(w, k, o.ids) = New(w, k, 0, o.ids)
<1>1. DOMAIN o.ids \subseteq Nat
    BY DEF Adds
<1>2. \A i \in DOMAIN o.ids : 0 + i = i
    BY <1>1
<1> QED BY <1>2 DEF Held, New

LEMMA InNew ==
    ASSUME NEW w, NEW k, NEW n \in Nat, NEW h, NEW o, Adds(h, o)
    PROVE  /\ \A p \in New(w, k, n, o.ids) :
                 p[1] = w /\ p[2] = k /\ p[4] \in Ids(o.ids) /\ p[4] \in DOMAIN o.heap \ DOMAIN h
           /\ \A p, q \in New(w, k, n, o.ids) : p[4] = q[4] => p = q
           /\ Held(w, k, o.ids) = New(w, k, 0, o.ids)
<1>1. DOMAIN o.ids \subseteq Nat
    BY DEF Adds
<1>2. \A p \in New(w, k, n, o.ids) : \E i \in DOMAIN o.ids :
          o.ids[i] # 0 /\ p = <<w, k, n + i, o.ids[i]>>
    BY DEF New
<1>3. \A p \in New(w, k, n, o.ids) :
          p[1] = w /\ p[2] = k /\ p[4] \in Ids(o.ids) /\ p[4] \in DOMAIN o.heap \ DOMAIN h
    BY <1>2 DEF Adds, Ids
<1>4. ASSUME NEW p \in New(w, k, n, o.ids), NEW q \in New(w, k, n, o.ids), p[4] = q[4]
      PROVE  p = q
    <2>1. PICK i \in DOMAIN o.ids : o.ids[i] # 0 /\ p = <<w, k, n + i, o.ids[i]>>
        BY <1>2
    <2>2. PICK j \in DOMAIN o.ids : o.ids[j] # 0 /\ q = <<w, k, n + j, o.ids[j]>>
        BY <1>2
    <2>3. i = j
        BY <1>4, <2>1, <2>2 DEF Adds
    <2> QED BY <2>1, <2>2, <2>3
<1>6. Held(w, k, o.ids) = New(w, k, 0, o.ids)
    <2>1. \A i \in DOMAIN o.ids : 0 + i = i
        BY <1>1
    <2> QED BY <2>1 DEF Held, New
<1> QED BY <1>3, <1>4, <1>6

LEMMA NewHolds ==
    ASSUME NEW w, NEW k, NEW n, NEW ids, NEW x \in Ids(ids)
    PROVE  \E p \in New(w, k, n, ids) : p[4] = x
<1>1. PICK i \in DOMAIN ids : ids[i] = x /\ x # 0
    BY DEF Ids
<1>2. <<w, k, n + i, ids[i]>> \in New(w, k, n, ids)
    BY <1>1 DEF New
<1>3. <<w, k, n + i, ids[i]>>[4] = ids[i]
    OBVIOUS
<1> QED BY <1>1, <1>2, <1>3

\* A list that is added to.
LEMMA HeldLonger ==
    ASSUME NEW w, NEW k, NEW s \in Seq(Nat), NEW t \in Seq(Nat)
    PROVE  \A x : x \in Held(w, k, s \o t) <=> x \in Held(w, k, s) \/ x \in New(w, k, Len(s), t)
<1>1. /\ DOMAIN s = 1 .. Len(s) /\ DOMAIN t = 1 .. Len(t) /\ DOMAIN (s \o t) = 1 .. Len(s) + Len(t)
      /\ Len(s) \in Nat /\ Len(t) \in Nat
      /\ \A i \in 1 .. Len(s) : i \in DOMAIN (s \o t) /\ (s \o t)[i] = s[i]
      /\ \A i \in 1 .. Len(t) : Len(s) + i \in DOMAIN (s \o t) /\ (s \o t)[Len(s) + i] = t[i]
      /\ \A i \in DOMAIN (s \o t) : i \in 1 .. Len(s) \/ \E j \in 1 .. Len(t) : i = Len(s) + j
    <2>1. Len(s) \in Nat /\ Len(t) \in Nat /\ Len(s \o t) = Len(s) + Len(t)
          /\ DOMAIN s = 1 .. Len(s) /\ DOMAIN t = 1 .. Len(t)
          /\ DOMAIN (s \o t) = 1 .. Len(s) + Len(t)
        OBVIOUS
    <2>2. \A i \in 1 .. Len(s) + Len(t) : i \notin 1 .. Len(s) =>
              i - Len(s) \in 1 .. Len(t) /\ i = Len(s) + (i - Len(s))
        BY <2>1
    <2>3. \A i \in DOMAIN (s \o t) : i \in 1 .. Len(s) \/ \E j \in 1 .. Len(t) : i = Len(s) + j
        BY <2>1, <2>2
    <2>4. /\ \A i \in 1 .. Len(s) : i \in DOMAIN (s \o t) /\ (s \o t)[i] = s[i]
          /\ \A i \in 1 .. Len(t) : Len(s) + i \in DOMAIN (s \o t) /\ (s \o t)[Len(s) + i] = t[i]
        OBVIOUS
    <2> QED BY <2>1, <2>3, <2>4
<1> DEFINE u == s \o t
<1> HIDE DEF u
<1>2. /\ \A i \in 1 .. Len(s) : i \in DOMAIN u /\ u[i] = s[i]
      /\ \A i \in 1 .. Len(t) : Len(s) + i \in DOMAIN u /\ u[Len(s) + i] = t[i]
      /\ \A i \in DOMAIN u : i \in 1 .. Len(s) \/ \E j \in 1 .. Len(t) : i = Len(s) + j
    BY <1>1 DEF u
<1>3. ASSUME NEW x PROVE x \in Held(w, k, u) <=> x \in Held(w, k, s) \/ x \in New(w, k, Len(s), t)
    <2>1. x \in Held(w, k, u) <=> \E i \in DOMAIN u : u[i] # 0 /\ x = <<w, k, i, u[i]>>
        BY DEF Held
    <2>2. x \in Held(w, k, s) <=> \E i \in 1 .. Len(s) : s[i] # 0 /\ x = <<w, k, i, s[i]>>
        BY <1>1 DEF Held
    <2>3. x \in New(w, k, Len(s), t) <=>
              \E i \in 1 .. Len(t) : t[i] # 0 /\ x = <<w, k, Len(s) + i, t[i]>>
        BY <1>1 DEF New
    <2>4. ASSUME NEW i \in DOMAIN u, u[i] # 0, x = <<w, k, i, u[i]>>
          PROVE  \/ \E j \in 1 .. Len(s) : s[j] # 0 /\ x = <<w, k, j, s[j]>>
                 \/ \E j \in 1 .. Len(t) : t[j] # 0 /\ x = <<w, k, Len(s) + j, t[j]>>
        BY <1>2, <2>4
    <2>5. ASSUME NEW i \in 1 .. Len(s), s[i] # 0, x = <<w, k, i, s[i]>>
          PROVE  \E j \in DOMAIN u : u[j] # 0 /\ x = <<w, k, j, u[j]>>
        BY <1>2, <2>5
    <2>6. ASSUME NEW i \in 1 .. Len(t), t[i] # 0, x = <<w, k, Len(s) + i, t[i]>>
          PROVE  \E j \in DOMAIN u : u[j] # 0 /\ x = <<w, k, j, u[j]>>
        BY <1>2, <2>6
    <2> QED BY <2>1, <2>2, <2>3, <2>4, <2>5, <2>6
<1> QED BY <1>3 DEF u
-----------------------------------------------------------------------------
(***************************************************************************)
(* A heap that is as it should be: O are the holders, F the arrays of       *)
(* versions that are lost, v the one that is not.                          *)
(***************************************************************************)
Good(O, h, F, v) ==
    /\ Sound(O, h, F)
    /\ \A x \in F : h[x] = "versions"
    /\ v # 0 => v \in DOMAIN h /\ h[v] = "versions"
    /\ \A x \in DOMAIN h : h[x] # "none"

Yields(h, o) == Adds(h, o) /\ \A x \in Ids(o.ids) : o.heap[x] # "none"

LEMMA OutcomesYield ==
    ASSUME NEW h, Numbered(h), NEW n \in Nat, NEW texts, DOMAIN texts = 1 .. n,
           NEW o \in Outcomes(h, texts)
    PROVE  Yields(h, o)
<1>1. /\ Adds(h, o) /\ DOMAIN o.ids = 1 .. n
      /\ \A i \in 1 .. n : o.ids[i] # 0 => texts[i] # "none" /\ o.heap[o.ids[i]] = texts[i]
    BY OutcomesAdd
<1> QED BY <1>1 DEF Yields, Ids

LEMMA GatheredYield ==
    ASSUME NEW h, Numbered(h), NEW T, "none" \notin T, NEW texts \in Seq(T),
           NEW o \in Gathered(h, texts)
    PROVE  Yields(h, o)
<1>1. Adds(h, o) /\ \A i \in DOMAIN o.ids : o.ids[i] # 0 /\ o.heap[o.ids[i]] \in T
    BY GatheredAdds
<1> QED BY <1>1 DEF Yields, Ids

\* New objects, each with one new holder.
LEMMA GoodAdds ==
    ASSUME NEW O, NEW h, NEW F, NEW v, Good(O, h, F, v), NEW o, Yields(h, o), NEW N,
           \A p \in N : p[4] \in Ids(o.ids), \A p, q \in N : p[4] = q[4] => p = q,
           NEW P, \A p \in P : p \in O \/ p \in N
    PROVE  Good(P, o.heap, F, v)
<1>1. /\ DOMAIN o.heap = DOMAIN h \cup Ids(o.ids) /\ Numbered(o.heap)
      /\ \A x \in DOMAIN h : o.heap[x] = h[x]
    BY DEF Yields, Adds
<1>2. \A x \in Ids(o.ids) : x \notin DOMAIN h /\ o.heap[x] # "none"
    BY DEF Yields, Adds, Ids
<1>3. Sound(P, o.heap, F)
    <2>1. \A p \in N : p[4] \in DOMAIN o.heap \ DOMAIN h
        BY <1>1, <1>2
    <2>2. Sound(O, h, F) /\ Numbered(o.heap) /\ DOMAIN h \subseteq DOMAIN o.heap
        BY <1>1 DEF Good
    <2> QED BY <2>1, <2>2, Adding
<1> QED BY <1>1, <1>2, <1>3 DEF Good, Sound

LEMMA CoveredAdds ==
    ASSUME NEW O, NEW h, NEW F, Covered(O, h, F), NEW o, Yields(h, o), NEW N,
           \A x \in Ids(o.ids) : \E p \in N : p[4] = x,
           NEW P, \A p : p \in O \/ p \in N => p \in P
    PROVE  Covered(P, o.heap, F)
<1>1. DOMAIN o.heap = DOMAIN h \cup Ids(o.ids)
    BY DEF Yields, Adds
<1> QED BY <1>1, AddingCovers

\* The same, for objects that are held in a list.
LEMMA GoodList ==
    ASSUME NEW O, NEW h, NEW F, NEW v, Good(O, h, F, v), NEW o, Yields(h, o),
           NEW w, NEW k, NEW n \in Nat,
           NEW P, \A p \in P : p \in O \/ p \in New(w, k, n, o.ids)
    PROVE  Good(P, o.heap, F, v)
<1> DEFINE N == New(w, k, n, o.ids)
<1>1. Adds(h, o)
    BY DEF Yields
<1>2. /\ \A p \in N : p[4] \in Ids(o.ids)
      /\ \A p, q \in N : p[4] = q[4] => p = q
    BY <1>1, InNew
<1>3. \A p \in P : p \in O \/ p \in N
    OBVIOUS
<1> HIDE DEF N
<1> QED BY <1>2, <1>3, GoodAdds

LEMMA CoveredList ==
    ASSUME NEW O, NEW h, NEW F, Covered(O, h, F), NEW o, Yields(h, o),
           NEW w, NEW k, NEW n \in Nat,
           NEW P, \A p : p \in O \/ p \in New(w, k, n, o.ids) => p \in P
    PROVE  Covered(P, o.heap, F)
<1> DEFINE N == New(w, k, n, o.ids)
<1>2. \A x \in Ids(o.ids) : \E p \in N : p[4] = x
    BY NewHolds
<1>3. \A p : p \in O \/ p \in N => p \in P
    OBVIOUS
<1> HIDE DEF N
<1> QED BY <1>2, <1>3, CoveredAdds

\* Objects are freed that nobody who is left holds.
LEMMA GoodFree ==
    ASSUME NEW O, NEW h, NEW F, NEW v, Good(O, h, F, v), NEW G, \A x \in G : x \notin F,
           v \notin G, NEW P, \A p \in P : p \in O /\ p[4] \notin G
    PROVE  Good(P, Free(h, G), F, v)
<1>1. Sound(O, h, F)
    BY DEF Good
<1>2. Sound(P, Free(h, G), F)
    BY <1>1, Dropping
<1>3. /\ DOMAIN Free(h, G) = DOMAIN h \ G
      /\ \A x \in DOMAIN h \ G : Free(h, G)[x] = h[x]
    BY DEF Free
<1> QED BY <1>2, <1>3 DEF Good, Sound

\* realloc: an array of the context is where it was, or is a new object.
ArrayTypes(arr, cap, slots) ==
    arr \in [Arrays -> Nat] /\ cap \in [Growing -> Nat] /\ slots \in [Growing -> Nat]

LEMMA GrowthTypes ==
    ASSUME ArrayTypes(array, capacity, room), NEW h, Numbered(h), NEW a \in Growing,
           NEW held, NEW g \in Growth(h, a, held)
    PROVE  /\ ArrayTypes(g.array, g.capacity, g.room)
           /\ g.fails \in {0, 1} /\ g.ok \in BOOLEAN /\ (~g.ok => g.fails = 1 /\ g.array = array)
           /\ \A b \in Arrays \ {a} : g.array[b] = array[b]
           /\ \A b \in Growing \ {a} : g.capacity[b] = capacity[b] /\ g.room[b] = room[b]
<1>1. Top(h) \in Nat
    BY TopIsHighest
<1> DEFINE place == IF array[a] = 0 THEN Top(h) + 1 ELSE array[a]
           doubled == [capacity EXCEPT ![a] = 2 * @]
<1>2. place \in Nat /\ doubled \in [Growing -> Nat] /\ a \in Arrays
    BY <1>1 DEF ArrayTypes, Arrays
<1>3. \/ /\ g.ok = TRUE /\ g.fails = 0
         /\ g.array = array /\ g.capacity = capacity /\ g.room = room
      \/ /\ g.ok = TRUE /\ g.fails = 0 /\ g.capacity = doubled
         /\ g.array = [array EXCEPT ![a] = place] /\ g.room = [room EXCEPT ![a] = doubled[a]]
      \/ /\ g.ok = FALSE /\ g.fails = 1 /\ g.heap = h
         /\ g.capacity = doubled /\ g.array = array /\ g.room = room
    BY DEF Growth
<1> HIDE DEF place, doubled
<1>4. CASE g.array = array /\ g.capacity = capacity /\ g.room = room
    BY <1>3, <1>4
<1>5. CASE g.capacity = doubled /\ g.array = array /\ g.room = room
    <2>1. \A b \in Growing \ {a} : doubled[b] = capacity[b]
        BY DEF doubled, ArrayTypes
    <2> QED BY <1>2, <1>3, <1>5, <2>1 DEF ArrayTypes
<1>6. CASE /\ g.ok = TRUE /\ g.fails = 0 /\ g.capacity = doubled
           /\ g.array = [array EXCEPT ![a] = place] /\ g.room = [room EXCEPT ![a] = doubled[a]]
    <2>1. \A b \in Growing \ {a} : doubled[b] = capacity[b]
        BY DEF doubled, ArrayTypes
    <2>2. g.array \in [Arrays -> Nat] /\ \A b \in Arrays \ {a} : g.array[b] = array[b]
        BY <1>2, <1>6 DEF ArrayTypes
    <2>3. g.room \in [Growing -> Nat] /\ \A b \in Growing \ {a} : g.room[b] = room[b]
        BY <1>2, <1>6 DEF ArrayTypes
    <2> QED BY <1>2, <1>6, <2>1, <2>2, <2>3 DEF ArrayTypes
<1> QED BY <1>3, <1>4, <1>5, <1>6

LEMMA GrowthGood ==
    ASSUME ArrayTypes(array, capacity, room), NEW a \in Growing, NEW held,
           NEW O, NEW h, NEW F, Good(O, h, F, array["versions"]),
           \A p \in Held("context", 0, array) : p \in O,
           NEW g \in Growth(h, a, held), g.ok
    PROVE  /\ \A P : (\A p \in P : p \in O \/ p \in Held("context", 0, g.array)) =>
                         Good(P, g.heap, F, g.array["versions"])
           /\ \A P : Covered(O, h, F) /\ (\A p : p \in O \/ p \in Held("context", 0, g.array) => p \in P) =>
                         Covered(P, g.heap, F)
           /\ Numbered(g.heap)
<1> DEFINE place == IF array[a] = 0 THEN Top(h) + 1 ELSE array[a]
<1>1. Numbered(h) /\ Top(h) \in Nat /\ \A x \in DOMAIN h : x \in Nat /\ x > 0 /\ x <= Top(h)
    BY TopIsHighest DEF Good, Sound
<1>2. a \in Arrays /\ a # "versions" /\ a # "none" /\ "versions" \in Arrays /\ DOMAIN array = Arrays
    BY DEF ArrayTypes, Arrays, Growing
<1>3. \/ g.heap = h /\ g.array = array
      \/ /\ g.heap = [x \in DOMAIN h \cup {place} |-> IF x = place THEN a ELSE h[x]]
         /\ g.array = [array EXCEPT ![a] = place]
    <2>1. CASE held < capacity[a]
        BY <2>1 DEF Growth
    <2>2. CASE ~(held < capacity[a])
        BY <2>2 DEF Growth
    <2> QED BY <2>1, <2>2
<1>4. CASE g.heap = h /\ g.array = array
    <2>1. ASSUME NEW P, \A p \in P : p \in O \/ p \in Held("context", 0, g.array)
          PROVE  Good(P, g.heap, F, g.array["versions"])
        <3>1. \A p \in P : p \in O
            BY <1>4, <2>1
        <3> QED BY <3>1, <1>4 DEF Good, Sound
    <2>2. ASSUME NEW P, Covered(O, h, F),
                 \A p : p \in O \/ p \in Held("context", 0, g.array) => p \in P
          PROVE  Covered(P, g.heap, F)
        BY <1>4, <2>2 DEF Covered
    <2> QED BY <2>1, <2>2, <1>1, <1>4
<1>5. CASE array[a] # 0 /\ ~(g.heap = h /\ g.array = array)
    <2>1. /\ place = array[a] /\ g.array = array
          /\ g.heap = [x \in DOMAIN h \cup {place} |-> IF x = place THEN a ELSE h[x]]
        <3>1. [array EXCEPT ![a] = array[a]] = array
            BY <1>2 DEF ArrayTypes
        <3> QED BY <3>1, <1>3, <1>5
    <2>2. <<"context", 0, a, array[a]>> \in Held("context", 0, array)
        BY <1>2, <1>5, InHeld
    <2>3. array[a] \in DOMAIN h /\ array[a] \notin F
        <3>1. <<"context", 0, a, array[a]>>[4] = array[a]
            OBVIOUS
        <3> QED BY <2>2, <3>1 DEF Good, Sound
    <2>4. array["versions"] # array[a]
        <3> SUFFICES ASSUME array["versions"] = array[a] PROVE FALSE
            OBVIOUS
        <3>1. <<"context", 0, "versions", array["versions"]>> \in Held("context", 0, array)
            BY <1>2, <1>5, InHeld
        <3>2. <<"context", 0, "versions", array["versions"]>> = <<"context", 0, a, array[a]>>
            <4>1. /\ <<"context", 0, "versions", array["versions"]>>[4] = array["versions"]
                  /\ <<"context", 0, a, array[a]>>[4] = array[a]
                OBVIOUS
            <4> QED BY <2>2, <3>1, <4>1 DEF Good, Sound
        <3> QED BY <3>2, <1>2
    <2>5. DOMAIN g.heap = DOMAIN h /\ \A x \in DOMAIN h : g.heap[x] = IF x = array[a] THEN a ELSE h[x]
        <3> HIDE DEF place
        <3>1. DOMAIN h \cup {place} = DOMAIN h
            BY <2>1, <2>3
        <3> QED BY <2>1, <3>1
    <2>6. Numbered(g.heap)
        BY <1>1, <2>5 DEF Numbered
    <2>7. ASSUME NEW P, \A p \in P : p \in O \/ p \in Held("context", 0, g.array)
          PROVE  Good(P, g.heap, F, g.array["versions"])
        <3>1. \A p \in P : p \in O
            BY <2>1, <2>7
        <3>2. Sound(P, g.heap, F)
            BY <3>1, <2>5, <2>6 DEF Good, Sound
        <3> QED BY <3>2, <1>2, <2>1, <2>3, <2>4, <2>5 DEF Good, Sound
    <2>8. ASSUME NEW P, Covered(O, h, F),
                 \A p : p \in O \/ p \in Held("context", 0, g.array) => p \in P
          PROVE  Covered(P, g.heap, F)
        BY <2>5, <2>8 DEF Covered
    <2> QED BY <2>6, <2>7, <2>8
<1>6. CASE array[a] = 0 /\ ~(g.heap = h /\ g.array = array)
    <2>1. /\ place = Top(h) + 1 /\ place \notin DOMAIN h /\ place \in Nat /\ place # 0
          /\ g.array = [array EXCEPT ![a] = place]
          /\ g.heap = [x \in DOMAIN h \cup {place} |-> IF x = place THEN a ELSE h[x]]
        BY <1>1, <1>3, <1>6
    <2> HIDE DEF place
    <2> DEFINE new == <<"context", 0, a, place>>
    <2>2. new[4] = place
        OBVIOUS
    <2>3. DOMAIN g.array = Arrays /\ \A b \in Arrays : g.array[b] = IF b = a THEN place ELSE array[b]
        BY <1>2, <2>1 DEF ArrayTypes
    <2>4. \A p : p \in Held("context", 0, g.array) <=> p \in Held("context", 0, array) \/ p = new
        <3>1. \A p : p \in Held("context", 0, g.array) <=>
                         \E b \in Arrays : g.array[b] # 0 /\ p = <<"context", 0, b, g.array[b]>>
            BY <2>3 DEF Held
        <3>2. \A p : p \in Held("context", 0, array) <=>
                         \E b \in Arrays : array[b] # 0 /\ p = <<"context", 0, b, array[b]>>
            BY <1>2 DEF Held
        <3>3. g.array[a] = place /\ place # 0 /\ a \in Arrays /\ array[a] = 0
              /\ \A b \in Arrays : b # a => g.array[b] = array[b]
            BY <2>1, <2>3, <1>2, <1>6
        <3>4. ASSUME NEW p \in Held("context", 0, g.array)
              PROVE  p \in Held("context", 0, array) \/ p = new
            <4>1. PICK b \in Arrays : g.array[b] # 0 /\ p = <<"context", 0, b, g.array[b]>>
                BY <3>1, <3>4
            <4>2. CASE b = a
                BY <4>1, <4>2, <3>3
            <4>3. CASE b # a
                BY <4>1, <4>3, <3>2, <3>3
            <4> QED BY <4>2, <4>3
        <3>5. ASSUME NEW p \in Held("context", 0, array) PROVE p \in Held("context", 0, g.array)
            BY <3>1, <3>2, <3>3
        <3>6. new \in Held("context", 0, g.array)
            BY <3>1, <3>3
        <3> QED BY <3>4, <3>5, <3>6
    <2>5. /\ DOMAIN g.heap = DOMAIN h \cup {place}
          /\ \A x \in DOMAIN h : g.heap[x] = h[x]
          /\ g.heap[place] = a
        BY <2>1
    <2>6. Numbered(g.heap)
        <3>1. \A x \in DOMAIN g.heap : x \in 1 .. Top(h) + 1
            BY <1>1, <2>1, <2>5
        <3> QED BY <3>1, <1>1 DEF Numbered
    <2> HIDE DEF new
    <2>7. ASSUME NEW P, \A p \in P : p \in O \/ p \in Held("context", 0, g.array)
          PROVE  Good(P, g.heap, F, g.array["versions"])
        <3>1. \A p \in P : p \in O \/ p \in {new}
            BY <2>4, <2>7
        <3>2. Sound(O, h, F)
            BY DEF Good
        <3>3. \A p \in {new} : p[4] \in DOMAIN g.heap \ DOMAIN h
            BY <2>1, <2>2, <2>5
        <3>4. DOMAIN h \subseteq DOMAIN g.heap /\ \A p, q \in {new} : p[4] = q[4] => p = q
            BY <2>5
        <3>5. Sound(P, g.heap, F)
            BY <3>1, <3>2, <3>3, <3>4, <2>6, Adding
        <3> QED BY <3>5, <1>2, <2>3, <2>5 DEF Good, Sound
    <2>8. ASSUME NEW P, Covered(O, h, F),
                 \A p : p \in O \/ p \in Held("context", 0, g.array) => p \in P
          PROVE  Covered(P, g.heap, F)
        <3>1. new \in P
            BY <2>4, <2>8
        <3> QED BY <3>1, <2>2, <2>5, <2>8 DEF Covered
    <2> QED BY <2>6, <2>7, <2>8
<1> QED BY <1>4, <1>5, <1>6
-----------------------------------------------------------------------------
(***************************************************************************)
(* The inductive invariant.                                                *)
(***************************************************************************)
Types ==
    /\ mode \in {"all", "low", "metadata"}
    /\ pc \in {"reading", "completing", "closing", "asking", "done", "freed", "crashed",
               "overrun"}
    /\ at \in Nat
    /\ pc \in {"reading", "done", "freed"} => at = 0
    /\ pc \in {"completing", "closing", "asking"} => at > 0
    /\ ArrayTypes(array, capacity, room)
    /\ fields \in [Fields -> Nat]
    /\ vers \in Seq(Nat) /\ \A i \in DOMAIN vers : vers[i] # 0
    /\ titleids \in Seq(Nat) /\ entries \in Seq(Nat) /\ count \in Nat
    /\ all \in Seq(Seq(Nat)) /\ listed \in Seq(Seq(Nat)) /\ currentMeta \in Seq(Nat)
    /\ lost \subseteq {"overwritten", "short", "unmatched"}
    /\ grown \in BOOLEAN /\ failures \in 0 .. MaxFailures

\* Every object is held by one holder or known to be lost; as long as nothing else
\* was lost, there are no others.
Memory ==
    /\ Numbered(heap) /\ forgotten \subseteq Nat \ {0}
    /\ Running => Good(Owners, heap, forgotten, array["versions"])
    /\ Running /\ lost = {} => Covered(Owners, heap, forgotten)
    /\ pc = "freed" => \A x \in forgotten : heap[x] = "versions"
    /\ pc = "freed" /\ lost = {} => DOMAIN heap = forgotten

\* An array is there, as long as the context says, and long enough.
Fits(a, n) ==
    array[a] # 0 /\ room[a] = capacity[a] /\ capacity[a] > 0 /\ n <= room[a]

Faults ==
    /\ ~grown => failures > 0
    /\ Running /\ array["titleids"] = 0 => failures > 0
    /\ Running /\ grown /\ mode = "all" => Fits("all", Len(all)) /\ Fits("entries", count)
    /\ Running /\ grown /\ mode = "metadata" => Fits("metadata", Len(listed))
    /\ Completing => fields["title"] # 0
    /\ FaultNeedsCause

HeapInv == Types /\ Memory /\ Faults

\* The holders of a context hold numbers.
LEMMA OwnersHoldNumbers == Types => Owned \subseteq Nat \ {0}
<1> SUFFICES ASSUME Types, NEW o \in Owners PROVE o[4] \in Nat \ {0}
    BY DEF Owned
<1>1. \A w, k, s : o \in Held(w, k, s) /\ (\A i \in DOMAIN s : s[i] \in Nat) => o[4] \in Nat \ {0}
    <2> SUFFICES ASSUME NEW w, NEW k, NEW s, o \in Held(w, k, s), \A i \in DOMAIN s : s[i] \in Nat
                 PROVE  o[4] \in Nat \ {0}
        OBVIOUS
    <2>1. o[4] \in Ids(s)
        BY InHeld
    <2> QED BY <2>1 DEF Ids
<1>2. /\ \A i \in DOMAIN array : array[i] \in Nat
      /\ \A i \in DOMAIN fields : fields[i] \in Nat
      /\ \A i \in DOMAIN titleids : titleids[i] \in Nat
      /\ \A i \in DOMAIN vers : vers[i] \in Nat
      /\ \A i \in DOMAIN entries : entries[i] \in Nat
      /\ \A i \in DOMAIN currentMeta : currentMeta[i] \in Nat
    BY DEF Types, ArrayTypes
<1>3. /\ \A k \in DOMAIN listed : listed[k] \in Seq(Nat)
      /\ \A k \in DOMAIN all : all[k] \in Seq(Nat)
    BY DEF Types
<1>4. /\ \A k \in DOMAIN listed : \A i \in DOMAIN listed[k] : listed[k][i] \in Nat
      /\ \A k \in DOMAIN all : \A i \in DOMAIN all[k] : all[k][i] \in Nat
    BY <1>3
<1>5. \/ o \in Held("context", 0, array) \/ o \in Held("patch", 0, fields)
      \/ o \in Held("titleids", 0, titleids) \/ o \in Held("versions", 0, vers)
      \/ o \in Held("entries", 0, entries) \/ o \in Held("meta", 0, currentMeta)
      \/ \E k \in DOMAIN listed : o \in Held("listed", k, listed[k])
      \/ \E k \in DOMAIN all : o \in Held("all", k, all[k])
    BY OwnersAre, InOwn
<1> QED BY <1>1, <1>2, <1>4, <1>5

LEMMA HeapInvImplies == HeapInv => TypeOK /\ OwnedOnce /\ LossHasCause /\ FaultNeedsCause
<1> SUFFICES ASSUME HeapInv PROVE TypeOK /\ OwnedOnce /\ LossHasCause /\ FaultNeedsCause
    OBVIOUS
<1>1. Types /\ Memory /\ Faults
    BY DEF HeapInv
<1>2. DOMAIN heap \subseteq Nat \ {0}
    BY <1>1 DEF Memory, Numbered
<1>3. TypeOK
    BY <1>1, <1>2, OwnersHoldNumbers DEF Types, Memory, TypeOK, ArrayTypes
<1>4. OwnedOnce
    BY <1>1 DEF OwnedOnce, Owned, Memory, Good, Sound
<1>5. LossHasCause
    <2>1. ASSUME lost = {}, Running
          PROVE  DOMAIN heap \ Owned = forgotten /\ \A x \in forgotten : heap[x] = "versions"
        <3>1. /\ \A o \in Owners : o[4] \in DOMAIN heap /\ o[4] \notin forgotten
              /\ forgotten \subseteq DOMAIN heap
              /\ \A x \in DOMAIN heap : x \in forgotten \/ \E o \in Owners : o[4] = x
              /\ \A x \in forgotten : heap[x] = "versions"
            BY <1>1, <2>1 DEF Memory, Good, Sound, Covered
        <3>2. \A x : x \in Owned <=> \E o \in Owners : o[4] = x
            BY DEF Owned
        <3> QED BY <3>1, <3>2
    <2>2. ASSUME lost = {}, pc = "freed"
          PROVE  DOMAIN heap = forgotten /\ \A x \in forgotten : heap[x] = "versions"
        BY <1>1, <2>2 DEF Memory
    <2>3. pc = "freed" => ~Running /\ DOMAIN heap \ {} = DOMAIN heap
        BY DEF Running
    <2> QED BY <2>1, <2>2, <2>3 DEF LossHasCause
<1> QED BY <1>1, <1>3, <1>4, <1>5 DEF Faults

-----------------------------------------------------------------------------
\* create_parse_context.
LEMMA ArraysWanted ==
    ASSUME NEW m \in {"all", "low", "metadata"}
    PROVE  /\ Wanted(m) = IF m = "all" THEN <<"titleids", "versions", "all", "entries">>
                          ELSE IF m = "metadata" THEN <<"titleids", "versions", "metadata">>
                          ELSE <<"titleids", "versions">>
           /\ Len(Wanted(m)) \in 2 .. 4
           /\ \A i \in 1 .. Len(Wanted(m)) : Wanted(m)[i] \in Arrays /\ Wanted(m)[i] # "none"
           /\ \A i, j \in 1 .. Len(Wanted(m)) : Wanted(m)[i] = Wanted(m)[j] => i = j
<1>1. CASE m = "all"
    <2>1. Wanted(m) = <<"titleids", "versions", "all", "entries">>
        BY <1>1 DEF Wanted
    <2> QED BY <1>1, <2>1 DEF Arrays, Growing
<1>2. CASE m = "metadata"
    <2>1. Wanted(m) = <<"titleids", "versions", "metadata">>
        BY <1>2 DEF Wanted
    <2> QED BY <1>2, <2>1 DEF Arrays, Growing
<1>3. CASE m = "low"
    BY <1>3 DEF Wanted, Arrays, Growing
<1> QED BY <1>1, <1>2, <1>3

LEMMA InitHeap == Init => HeapInv
<1> SUFFICES ASSUME Init PROVE HeapInv
    OBVIOUS
<1>1. mode \in {"all", "low", "metadata"}
    BY DEF Init
<1> DEFINE W == Wanted(mode)
           n == Len(W)
<1>2. PICK k \in 0 .. n :
          /\ failures = IF k = n THEN 0 ELSE 1
          /\ failures <= MaxFailures
          /\ array = Obtained(mode, IF k = 1 THEN 0 ELSE k)
          /\ heap = [x \in Ids(array) |-> W[x]]
          /\ capacity = [a \in Growing |->
                            IF \E i \in 1 .. k + 1 : i \in DOMAIN W /\ W[i] = a
                            THEN Room ELSE 0]
          /\ room = [a \in Growing |-> IF array[a] = 0 THEN 0 ELSE Room]
    BY DEF Init
<1>3. /\ n \in 2 .. 4 /\ W[1] = "titleids" /\ W[2] = "versions"
      /\ \A i \in 1 .. n : W[i] \in Arrays /\ W[i] # "none"
      /\ \A i, j \in 1 .. n : W[i] = W[j] => i = j
      /\ DOMAIN W = 1 .. n
      /\ mode = "all" => n = 4 /\ W[3] = "all" /\ W[4] = "entries"
      /\ mode = "metadata" => n = 3 /\ W[3] = "metadata"
    BY <1>1, ArraysWanted
<1> DEFINE l == IF k = 1 THEN 0 ELSE k
<1> HIDE DEF W, n
<1>4. l \in 0 .. n
    BY <1>3
<1> HIDE DEF l
<1>5. /\ DOMAIN array = Arrays
      /\ \A a \in Arrays : \/ array[a] \in 1 .. l /\ W[array[a]] = a
                           \/ array[a] = 0 /\ \A i \in 1 .. l : W[i] # a
    <2>1. array = [a \in Arrays |-> IF \E i \in 1 .. l : W[i] = a
                                    THEN CHOOSE i \in 1 .. l : W[i] = a ELSE 0]
        BY <1>2 DEF Obtained, W, l
    <2> QED BY <2>1
<1>6. \A a, b \in Arrays : array[a] = array[b] /\ array[a] # 0 => a = b
    BY <1>5
<1>7. Ids(array) \subseteq 1 .. n /\ \A x \in Ids(array) : array[W[x]] = x /\ W[x] \in Arrays
    BY <1>3, <1>4, <1>5 DEF Ids
<1>8. /\ fields = NoFields /\ vers = <<>> /\ titleids = <<>> /\ entries = <<>> /\ count = 0
      /\ all = <<>> /\ listed = <<>> /\ currentMeta = NoMeta /\ pc = "reading" /\ at = 0
      /\ forgotten = {} /\ lost = {} /\ grown = (failures = 0)
    BY DEF Init
<1>9. \A x : x \in Owners <=> x \in Held("context", 0, array)
    <2>1. \A w, i, x : x \notin Held(w, i, <<>>)
        BY DEF Held
    <2>2. \A x : x \notin Held("patch", 0, NoFields) /\ x \notin Held("meta", 0, NoMeta)
        BY DEF Held, NoFields, NoMeta
    <2>3. DOMAIN <<>> = {}
        OBVIOUS
    <2> QED BY <1>8, <2>1, <2>2, <2>3, OwnersAre, InOwn
<1>10. Types
    <2>1. ArrayTypes(array, capacity, room)
        <3>1. array \in [Arrays -> Nat]
            BY <1>2, <1>4, <1>5 DEF Obtained
        <3> QED BY <1>2, <3>1 DEF ArrayTypes
    <2>2. fields \in [Fields -> Nat] /\ currentMeta \in Seq(Nat)
        BY <1>8 DEF NoFields, NoMeta
    <2>3. failures \in 0 .. MaxFailures
        BY <1>2
    <2> QED BY <1>1, <1>8, <2>1, <2>2, <2>3 DEF Types
<1>11. \A x \in Ids(array) : heap[x] = W[x] /\ heap[x] # "none"
    BY <1>2, <1>3, <1>7
<1>12. DOMAIN heap = Ids(array)
    BY <1>2
<1>13. Good(Owners, heap, forgotten, array["versions"])
    <2>1. Numbered(heap)
        BY <1>3, <1>7, <1>12 DEF Numbered
    <2>2. \A o \in Owners : o[4] \in DOMAIN heap
        BY <1>9, <1>12, InHeld
    <2>3. ASSUME NEW o \in Owners, NEW p \in Owners, o[4] = p[4] PROVE o = p
        <3>1. PICK a \in Arrays : array[a] # 0 /\ o = <<"context", 0, a, array[a]>>
            BY <1>5, <1>9 DEF Held
        <3>2. PICK b \in Arrays : array[b] # 0 /\ p = <<"context", 0, b, array[b]>>
            BY <1>5, <1>9 DEF Held
        <3>3. array[a] = array[b]
            BY <2>3, <3>1, <3>2
        <3>4. a = b
            BY <3>1, <3>3, <1>6
        <3> QED BY <3>1, <3>2, <3>4
    <2>4. array["versions"] # 0 => array["versions"] \in DOMAIN heap /\ heap[array["versions"]] = "versions"
        BY <1>5, <1>11, <1>12 DEF Ids, Arrays
    <2> QED BY <2>1, <2>2, <2>3, <2>4, <1>8, <1>11, <1>12 DEF Good, Sound
<1>14. Covered(Owners, heap, forgotten)
    BY <1>9, <1>12, InHeld DEF Covered
<1>15. Memory
    BY <1>8, <1>13, <1>14 DEF Memory, Good, Sound
<1>16. Faults
    <2>1. failures = 0 => k = n /\ l = n
        BY <1>2, <1>3 DEF l
    <2>2. \A a \in Growing, i \in 1 .. n : failures = 0 /\ W[i] = a => Fits(a, 0)
        <3> SUFFICES ASSUME NEW a \in Growing, NEW i \in 1 .. n, failures = 0, W[i] = a
                     PROVE  Fits(a, 0)
            OBVIOUS
        <3>1. a \in Arrays /\ array[a] # 0 /\ array[a] \in Nat
            BY <2>1, <1>3, <1>5 DEF Arrays
        <3>2. i \in 1 .. k + 1 /\ i \in DOMAIN W
            BY <2>1, <1>3
        <3>3. capacity[a] = Room /\ room[a] = Room
            BY <1>2, <3>1, <3>2
        <3> QED BY <3>1, <3>3 DEF Fits
    <2>3. array["titleids"] = 0 => failures > 0
        <3>1. "titleids" \in Arrays
            BY DEF Arrays
        <3>2. failures = 0 => 1 \in 1 .. l /\ W[1] = "titleids"
            BY <2>1, <1>3
        <3>3. failures = 0 => array["titleids"] # 0
            BY <3>1, <3>2, <1>5
        <3> QED BY <3>3, <1>2
    <2>7. grown <=> failures = 0
        BY <1>8
    <2>4. mode = "all" /\ grown => Fits("all", 0) /\ Fits("entries", 0)
        <3>1. mode = "all" => /\ 3 \in 1 .. n /\ W[3] = "all" /\ "all" \in Growing
                              /\ 4 \in 1 .. n /\ W[4] = "entries" /\ "entries" \in Growing
            BY <1>3 DEF Growing
        <3> QED BY <3>1, <2>2, <2>7
    <2>5. mode = "metadata" /\ grown => Fits("metadata", 0)
        <3>1. mode = "metadata" => 3 \in 1 .. n /\ W[3] = "metadata" /\ "metadata" \in Growing
            BY <1>3 DEF Growing
        <3> QED BY <3>1, <2>2, <2>7
    <2>6. ~grown => failures > 0
        BY <1>2, <2>7
    <2> QED BY <1>8, <2>3, <2>4, <2>5, <2>6
            DEF Faults, Completing, FaultNeedsCause, OverrunNeedsFailure, CrashNeedsCause
<1> QED BY <1>10, <1>15, <1>16 DEF HeapInv
-----------------------------------------------------------------------------
(***************************************************************************)
(* The steps.                                                              *)
(***************************************************************************)
LEMMA InOwners ==
    \A x : x \in Owners <=>
        \/ x \in Held("context", 0, array) \/ x \in Held("patch", 0, fields)
        \/ x \in Held("titleids", 0, titleids) \/ x \in Held("versions", 0, vers)
        \/ x \in Held("entries", 0, entries) \/ x \in Held("meta", 0, currentMeta)
        \/ \E k \in DOMAIN listed : x \in Held("listed", k, listed[k])
        \/ \E k \in DOMAIN all : x \in Held("all", k, all[k])
BY OwnersAre, InOwn

LEMMA InOwnersNext ==
    \A x : x \in Owners' <=>
        \/ x \in Held("context", 0, array') \/ x \in Held("patch", 0, fields')
        \/ x \in Held("titleids", 0, titleids') \/ x \in Held("versions", 0, vers')
        \/ x \in Held("entries", 0, entries') \/ x \in Held("meta", 0, currentMeta')
        \/ \E k \in DOMAIN listed' : x \in Held("listed", k, listed'[k])
        \/ \E k \in DOMAIN all' : x \in Held("all", k, all'[k])
<1>1. Owners' = Own(array', fields', titleids', vers', entries', currentMeta', listed', all')
    BY DEF Owners, Own
<1> QED BY <1>1, InOwn

LEMMA NothingHeld ==
    /\ \A w, k, x : x \notin Held(w, k, <<>>)
    /\ \A w, k, x : x \notin Held(w, k, NoFields) /\ x \notin Held(w, k, NoMeta)
BY DEF Held, NoFields, NoMeta

\* Nothing but the parser's place changes.
LEMMA QuietStep ==
    ASSUME HeapInv, Running, pc' \in {"reading", "completing", "closing", "asking", "done"},
           UNCHANGED <<mode, heap, arrays, fields, vers, titleids, gathered, all, listed,
                       currentMeta, history, failures>>,
           at' \in Nat, pc' \in {"reading", "done"} => at' = 0,
           pc' \in {"completing", "closing", "asking"} => at' > 0,
           Completing' => fields["title"] # 0
    PROVE  HeapInv'
<1>1. Types /\ Memory /\ Faults
    BY DEF HeapInv
<1>2. Types'
    BY <1>1 DEF Types
<1>3. Owners' = Owners
    BY InOwners, InOwnersNext
<1>4. Running'
    BY DEF Running
<1>5. Memory'
    BY <1>1, <1>3, <1>4 DEF Memory
<1>6. Faults'
    BY <1>1, <1>4 DEF Faults, Fits, FaultNeedsCause, OverrunNeedsFailure, CrashNeedsCause
<1> QED BY <1>2, <1>5, <1>6 DEF HeapInv

\* The parser comes to grief: the heap is no longer spoken of.
LEMMA FaultStep ==
    ASSUME HeapInv, pc' \in {"crashed", "overrun"}, UNCHANGED <<heap, forgotten>>, Types',
           ~grown' => failures' > 0, FaultNeedsCause'
    PROVE  HeapInv'
<1>1. Memory
    BY DEF HeapInv
<1>2. ~Running' /\ ~Completing' /\ pc' # "freed"
    BY DEF Running, Completing
<1>3. Memory'
    BY <1>1, <1>2 DEF Memory
<1>4. Faults'
    BY <1>2 DEF Faults
<1> QED BY <1>3, <1>4 DEF HeapInv

\* A line that stores a list or a string: N are the new holders, which take the place of
\* the holders Old.
LEMMA Stored ==
    ASSUME Memory, Running, Running', UNCHANGED <<array, forgotten>>,
           NEW o, Yields(heap, o), heap' = o.heap, NEW N, NEW Old,
           \A p \in N : p[4] \in Ids(o.ids), \A p, q \in N : p[4] = q[4] => p = q,
           \A x \in Ids(o.ids) : \E p \in N : p[4] = x,
           \A p \in Owners' : p \in Owners \/ p \in N,
           \A p : (p \in Owners /\ p \notin Old) \/ p \in N => p \in Owners',
           lost' = {} => lost = {} /\ \A p \in Owners : p \notin Old
    PROVE  Memory'
<1>1. Good(Owners, heap, forgotten, array["versions"])
    BY DEF Memory
<1>2. Good(Owners', o.heap, forgotten, array["versions"])
    BY <1>1, GoodAdds
<1>3. ASSUME lost' = {} PROVE Covered(Owners', o.heap, forgotten)
    <2>1. Covered(Owners, heap, forgotten)
        BY <1>3 DEF Memory
    <2>2. \A p : p \in Owners \/ p \in N => p \in Owners'
        BY <1>3
    <2> QED BY <2>1, <2>2, CoveredAdds
<1>4. Numbered(heap') /\ pc' # "freed"
    BY DEF Yields, Adds, Running
<1> QED BY <1>2, <1>3, <1>4 DEF Memory

\* The same, for what is held in a list.
LEMMA StoredList ==
    ASSUME Memory, Running, Running', UNCHANGED <<array, forgotten>>,
           NEW o, Yields(heap, o), heap' = o.heap, NEW w, NEW k, NEW n \in Nat, NEW Old,
           \A p \in Owners' : p \in Owners \/ p \in New(w, k, n, o.ids),
           \A p : (p \in Owners /\ p \notin Old) \/ p \in New(w, k, n, o.ids) => p \in Owners',
           lost' = {} => lost = {} /\ \A p \in Owners : p \notin Old
    PROVE  Memory'
<1> DEFINE N == New(w, k, n, o.ids)
<1>1. Adds(heap, o)
    BY DEF Yields
<1>2. /\ \A p \in N : p[4] \in Ids(o.ids)
      /\ \A p, q \in N : p[4] = q[4] => p = q
    BY <1>1, InNew
<1>3. \A x \in Ids(o.ids) : \E p \in N : p[4] = x
    BY NewHolds
<1>4. /\ \A p \in Owners' : p \in Owners \/ p \in N
      /\ \A p : (p \in Owners /\ p \notin Old) \/ p \in N => p \in Owners'
    OBVIOUS
<1> HIDE DEF N
<1> QED BY <1>2, <1>3, <1>4, Stored

LEMMA TitleidStep == HeapInv /\ TitleidLine => HeapInv'
<1> SUFFICES ASSUME HeapInv, TitleidLine PROVE HeapInv'
    OBVIOUS
<1>1. Types /\ Memory /\ Faults
    BY DEF HeapInv
<1>2. /\ pc = "reading"
      /\ UNCHANGED <<mode, at, arrays, fields, vers, gathered, all, listed, currentMeta,
                     forgotten, grown>>
    BY DEF TitleidLine, ReadLine
<1>3. CASE array["titleids"] = 0
    <2>1. pc' = "crashed" /\ UNCHANGED <<heap, titleids, lost, failures>>
        BY <1>3 DEF TitleidLine
    <2>2. Types'
        BY <1>1, <1>2, <2>1 DEF Types
    <2>3. failures > 0
        BY <1>1, <1>2, <1>3 DEF Faults, Running
    <2>4. FaultNeedsCause'
        BY <2>1, <2>3 DEF FaultNeedsCause, OverrunNeedsFailure, CrashNeedsCause
    <2> QED BY <1>2, <2>1, <2>2, <2>3, <2>4, FaultStep
<1>4. CASE array["titleids"] # 0
    <2>1. PICK o \in Gathered(heap, <<"text">>) :
              /\ Took(o) /\ titleids' = o.ids /\ pc' = pc
              /\ lost' = IF titleids = <<>> THEN lost ELSE lost \cup {"overwritten"}
        BY <1>4 DEF TitleidLine
    <2>2. Yields(heap, o)
        <3>1. <<"text">> \in Seq({"text"}) /\ "none" \notin {"text"} /\ Numbered(heap)
            BY <1>1 DEF Memory
        <3> QED BY <3>1, GatheredYield
    <2>3. /\ heap' = o.heap /\ failures' = failures + o.fails /\ o.fails \in {0, 1}
          /\ (o.fails = 1 => failures < MaxFailures) /\ o.ids \in Seq(Nat)
        BY <2>1, <2>2 DEF Took, Yields, Adds
    <2>4. Types'
        <3>1. failures' \in 0 .. MaxFailures
            BY <1>1, <2>3, HeapAssumption DEF Types
        <3> QED BY <1>1, <1>2, <2>1, <2>3, <3>1 DEF Types
    <2>5. Running /\ Running'
        BY <1>2, <2>1 DEF Running
    <2>6. Held("titleids", 0, titleids') = New("titleids", 0, 0, o.ids)
        BY <2>1, <2>2, InNew DEF Yields
    <2>7. /\ \A p \in Owners' : p \in Owners \/ p \in New("titleids", 0, 0, o.ids)
          /\ \A p : (p \in Owners /\ p \notin Held("titleids", 0, titleids))
                        \/ p \in New("titleids", 0, 0, o.ids) => p \in Owners'
        BY <1>2, <2>6, InOwners, InOwnersNext
    <2>8. lost' = {} => lost = {} /\ \A p \in Owners : p \notin Held("titleids", 0, titleids)
        BY <2>1, NothingHeld
    <2>9. Memory'
        BY <1>1, <1>2, <2>2, <2>3, <2>5, <2>7, <2>8, StoredList
    <2>10. Faults'
        BY <1>1, <1>2, <2>1, <2>3, <2>5
           DEF Faults, Fits, Completing, FaultNeedsCause, OverrunNeedsFailure, CrashNeedsCause,
               Types
    <2> QED BY <2>4, <2>9, <2>10 DEF HeapInv
<1> QED BY <1>3, <1>4

LEMMA VersionsStep ==
    ASSUME HeapInv, NEW texts \in VersionLists, VersionsLine(texts)
    PROVE  HeapInv'
<1>1. Types /\ Memory /\ Faults
    BY DEF HeapInv
<1>2. /\ pc = "reading" /\ pc' = pc
      /\ UNCHANGED <<mode, at, arrays, fields, titleids, gathered, all, listed, currentMeta,
                     forgotten, grown>>
    BY DEF VersionsLine, ReadLine
<1>3. Running /\ Running' /\ ~Completing'
    BY <1>2 DEF Running, Completing
<1>4. CASE array["versions"] = 0
    <2>1. UNCHANGED <<heap, vers, lost, failures>>
        BY <1>4 DEF VersionsLine
    <2> QED BY <1>1, <1>2, <1>3, <2>1, QuietStep DEF Types
<1>5. CASE array["versions"] # 0
    <2>1. PICK o \in Gathered(heap, texts) :
              /\ Took(o) /\ vers' = o.ids
              /\ lost' = IF vers = <<>> THEN lost ELSE lost \cup {"overwritten"}
        BY <1>5 DEF VersionsLine
    <2>2. Yields(heap, o) /\ \A i \in DOMAIN o.ids : o.ids[i] # 0
        <3>1. texts \in Seq({"hit", "miss"}) /\ "none" \notin {"hit", "miss"} /\ Numbered(heap)
            BY <1>1 DEF Memory
        <3> QED BY <3>1, GatheredYield, GatheredAdds
    <2>3. /\ heap' = o.heap /\ failures' = failures + o.fails /\ o.fails \in {0, 1}
          /\ (o.fails = 1 => failures < MaxFailures) /\ o.ids \in Seq(Nat)
        BY <2>1, <2>2 DEF Took, Yields, Adds
    <2>4. Types'
        <3>1. failures \in 0 .. MaxFailures /\ MaxFailures \in Nat
              /\ lost \subseteq {"overwritten", "short", "unmatched"}
            BY <1>1, HeapAssumption DEF Types
        <3>2. failures' \in 0 .. MaxFailures
            BY <2>3, <3>1
        <3>3. lost' \subseteq {"overwritten", "short", "unmatched"}
            BY <2>1, <3>1
        <3>4. vers' \in Seq(Nat) /\ \A i \in DOMAIN vers' : vers'[i] # 0
            BY <2>1, <2>2, <2>3
        <3> QED BY <1>1, <1>2, <3>2, <3>3, <3>4 DEF Types
    <2>6. Held("versions", 0, vers') = New("versions", 0, 0, o.ids)
        <3>1. Adds(heap, o)
            BY <2>2 DEF Yields
        <3>2. Held("versions", 0, o.ids) = New("versions", 0, 0, o.ids)
            BY <3>1, HeldIsNew
        <3> QED BY <3>2, <2>1
    <2>7. /\ \A p \in Owners' : p \in Owners \/ p \in New("versions", 0, 0, o.ids)
          /\ \A p : (p \in Owners /\ p \notin Held("versions", 0, vers))
                        \/ p \in New("versions", 0, 0, o.ids) => p \in Owners'
        BY <1>2, <2>6, InOwners, InOwnersNext
    <2>8. lost' = {} => lost = {} /\ \A p \in Owners : p \notin Held("versions", 0, vers)
        BY <2>1, NothingHeld
    <2>9. Memory'
        BY <1>1, <1>2, <1>3, <2>2, <2>3, <2>7, <2>8, StoredList
    <2>10. Faults'
        BY <1>1, <1>2, <1>3, <2>1, <2>3
           DEF Faults, Fits, FaultNeedsCause, OverrunNeedsFailure, CrashNeedsCause, Types
    <2> QED BY <2>4, <2>9, <2>10 DEF HeapInv
<1> QED BY <1>4, <1>5

LEMMA FieldStep ==
    ASSUME HeapInv, NEW f \in Fields, NEW text \in {"none", "text", "hit", "miss"}, FieldLine(f, text)
    PROVE  HeapInv'
<1>1. Types /\ Memory /\ Faults
    BY DEF HeapInv
<1>2. /\ pc = "reading" /\ pc' = pc
      /\ UNCHANGED <<mode, at, arrays, vers, titleids, gathered, all, listed, currentMeta,
                     forgotten, grown>>
    BY DEF FieldLine, ReadLine
<1>3. Running /\ Running' /\ ~Completing'
    BY <1>2 DEF Running, Completing
<1>4. PICK o \in Outcomes(heap, <<text>>) :
          /\ Took(o) /\ fields' = [fields EXCEPT ![f] = o.ids[1]]
          /\ lost' = IF fields[f] = 0 THEN lost ELSE lost \cup {"overwritten"}
    BY DEF FieldLine
<1>5. Yields(heap, o) /\ DOMAIN o.ids = 1 .. 1
    <2>1. Numbered(heap) /\ 1 \in Nat /\ DOMAIN <<text>> = 1 .. 1
        BY <1>1 DEF Memory
    <2>2. Yields(heap, o)
        BY <2>1, OutcomesYield
    <2>3. DOMAIN o.ids = 1 .. 1
        BY <2>1, OutcomesAdd
    <2> QED BY <2>2, <2>3
<1>6. /\ heap' = o.heap /\ failures' = failures + o.fails /\ o.fails \in {0, 1}
      /\ (o.fails = 1 => failures < MaxFailures) /\ o.ids \in Seq(Nat) /\ o.ids[1] \in Nat
    BY <1>4, <1>5 DEF Took, Yields, Adds
<1>7. Types'
    <2>1. failures \in 0 .. MaxFailures /\ MaxFailures \in Nat
          /\ lost \subseteq {"overwritten", "short", "unmatched"} /\ fields \in [Fields -> Nat]
        BY <1>1, HeapAssumption DEF Types
    <2>2. failures' \in 0 .. MaxFailures
        BY <1>6, <2>1
    <2>3. lost' \subseteq {"overwritten", "short", "unmatched"}
        BY <1>4, <2>1
    <2>4. fields' \in [Fields -> Nat]
        BY <1>4, <1>6, <2>1
    <2> QED BY <1>1, <1>2, <2>2, <2>3, <2>4 DEF Types
<1> DEFINE new == <<"patch", 0, f, o.ids[1]>>
           N == IF o.ids[1] = 0 THEN {} ELSE {new}
           Old == {p \in Owners : p[1] = "patch" /\ p[3] = f}
<1>8. new[4] = o.ids[1] /\ new[1] = "patch" /\ new[3] = f
    OBVIOUS
<1>9. \A x : x \in Ids(o.ids) <=> x = o.ids[1] /\ x # 0
    BY <1>5 DEF Ids
<1>10. /\ \A p \in N : p[4] \in Ids(o.ids)
       /\ \A p, q \in N : p[4] = q[4] => p = q
       /\ \A x \in Ids(o.ids) : \E p \in N : p[4] = x
    BY <1>8, <1>9
<1>11. /\ \A p : p \in Held("patch", 0, fields') <=>
                     \E g \in Fields : fields'[g] # 0 /\ p = <<"patch", 0, g, fields'[g]>>
       /\ \A p : p \in Held("patch", 0, fields) <=>
                     \E g \in Fields : fields[g] # 0 /\ p = <<"patch", 0, g, fields[g]>>
       /\ \A g \in Fields : fields'[g] = IF g = f THEN o.ids[1] ELSE fields[g]
    BY <1>1, <1>4 DEF Types, Held
<1>12. \A p \in Held("patch", 0, fields') : p \in Held("patch", 0, fields) \/ p \in N
    <2> SUFFICES ASSUME NEW p \in Held("patch", 0, fields')
                 PROVE  p \in Held("patch", 0, fields) \/ p \in N
        OBVIOUS
    <2>1. PICK g \in Fields : fields'[g] # 0 /\ p = <<"patch", 0, g, fields'[g]>>
        BY <1>11
    <2>2. CASE g = f
        BY <2>1, <2>2, <1>11
    <2>3. CASE g # f
        BY <2>1, <2>3, <1>11
    <2> QED BY <2>2, <2>3
<1>13. \A p : p \in N \/ (p \in Held("patch", 0, fields) /\ p[3] # f) =>
                  p \in Held("patch", 0, fields')
    <2>1. ASSUME NEW p \in Held("patch", 0, fields), p[3] # f PROVE p \in Held("patch", 0, fields')
        <3>1. PICK g \in Fields : fields[g] # 0 /\ p = <<"patch", 0, g, fields[g]>>
            BY <1>11
        <3>2. g # f
            BY <2>1, <3>1
        <3> QED BY <3>1, <3>2, <1>11
    <2>2. ASSUME NEW p \in N PROVE p \in Held("patch", 0, fields')
        <3>1. p = new /\ o.ids[1] # 0 /\ fields'[f] = o.ids[1]
            BY <1>11
        <3> QED BY <3>1, <1>11
    <2> QED BY <2>1, <2>2
<1> HIDE DEF N, new
<1>14. \A p \in Held("patch", 0, fields) : p[1] = "patch"
    BY InHeld
<1>15. /\ \A p \in Owners' : p \in Owners \/ p \in N
       /\ \A p : (p \in Owners /\ p \notin Old) \/ p \in N => p \in Owners'
    <2>1. \A p : p \in Owners /\ p \notin Old => ~(p \in Held("patch", 0, fields) /\ p[3] = f)
        BY <1>14
    <2> HIDE DEF Old
    <2> QED BY <2>1, <1>2, <1>12, <1>13, InOwners, InOwnersNext
<1>16. lost' = {} => lost = {} /\ \A p \in Owners : p \notin Old
    <2> SUFFICES ASSUME lost' = {}, NEW p \in Owners, p \in Old PROVE FALSE
        BY <1>4
    <2>1. fields[f] = 0 /\ p[1] = "patch" /\ p[3] = f
        BY <1>4
    <2>2. p \in Held("patch", 0, fields)
        <3>1. \A w, k, s : p \in Held(w, k, s) => p[1] = w
            BY InHeld
        <3> QED BY <2>1, <3>1, InOwners
    <2>3. PICK g \in Fields : fields[g] # 0 /\ p = <<"patch", 0, g, fields[g]>>
        BY <1>11, <2>2
    <2> QED BY <2>1, <2>3
<1> HIDE DEF Old
<1>17. Memory'
    BY <1>1, <1>2, <1>3, <1>5, <1>6, <1>10, <1>15, <1>16, Stored
<1>18. Faults'
    BY <1>1, <1>2, <1>3, <1>4, <1>6
       DEF Faults, Fits, FaultNeedsCause, OverrunNeedsFailure, CrashNeedsCause, Types
<1> QED BY <1>7, <1>17, <1>18 DEF HeapInv
LEMMA PlaceStep ==
    ASSUME HeapInv, PatchesLine \/ PatchLine \/ Eof \/ Asked \/ PassOver \/ UNCHANGED vars
    PROVE  HeapInv'
<1>1. Types /\ Memory /\ Faults
    BY DEF HeapInv
<1>2. CASE UNCHANGED vars
    <2>1. UNCHANGED <<mode, pc, at, heap, array, capacity, room, fields, vers, inPatches, titleids,
                      entries, count, all, listed, currentMeta, forgotten, lost, grown, failures>>
        BY <1>2 DEF vars
    <2>2. Types'
        BY <1>1, <2>1 DEF Types
    <2>3. Owners' = Owners
        BY <2>1, InOwners, InOwnersNext
    <2>4. Memory'
        BY <1>1, <2>1, <2>3 DEF Memory, Running
    <2>5. Faults'
        BY <1>1, <2>1 DEF Faults, Fits, Running, Completing, FaultNeedsCause, OverrunNeedsFailure,
                          CrashNeedsCause
    <2> QED BY <2>2, <2>4, <2>5 DEF HeapInv
<1>3. CASE PatchesLine
    <2>1. /\ pc = "reading" /\ at = 0
          /\ (pc' = "asking" /\ at' = 1) \/ (pc' = pc /\ at' = at)
          /\ UNCHANGED <<mode, heap, arrays, fields, vers, titleids, gathered, all, listed,
                         currentMeta, history, failures>>
        <3>1. pc = "reading" /\ at = 0
            BY <1>1, <1>3 DEF PatchesLine, ReadLine, Types
        <3> QED BY <3>1, <1>3 DEF PatchesLine
    <2> QED BY <2>1, QuietStep DEF Running, Completing
<1>4. CASE PatchLine
    <2>1. /\ pc = "reading" /\ at = 0
          /\ IF fields["title"] = 0 THEN pc' = pc /\ at' = at ELSE pc' = "completing" /\ at' = 1
          /\ UNCHANGED <<mode, heap, arrays, fields, vers, titleids, gathered, all, listed,
                         currentMeta, history, failures>>
        BY <1>1, <1>4 DEF PatchLine, Types
    <2> QED BY <2>1, QuietStep DEF Running, Completing
<1>5. CASE Eof
    <2>1. /\ pc = "reading" /\ at = 0
          /\ IF fields["title"] = 0 THEN pc' = "done" /\ at' = at ELSE pc' = "closing" /\ at' = 1
          /\ UNCHANGED <<mode, heap, arrays, fields, vers, titleids, gathered, all, listed,
                         currentMeta, history, failures>>
        BY <1>1, <1>5 DEF Eof, Types
    <2> QED BY <2>1, QuietStep DEF Running, Completing
<1>6. CASE Asked
    <2>1. /\ pc = "asking" /\ pc' = "reading" /\ at' = 0
          /\ UNCHANGED <<mode, heap, arrays, fields, vers, titleids, gathered, all, listed,
                         currentMeta, history, failures>>
        BY <1>6 DEF Asked
    <2> QED BY <2>1, QuietStep DEF Running, Completing
<1>7. CASE PassOver
    <2>1. /\ pc \in {"completing", "closing"} /\ pc' = pc /\ at' = at + 1 /\ at \in Nat
          /\ fields["title"] # 0
          /\ UNCHANGED <<mode, heap, arrays, fields, vers, titleids, gathered, all, listed,
                         currentMeta, history, failures>>
        BY <1>1, <1>7 DEF PassOver, Completing, Types, Faults
    <2> QED BY <2>1, QuietStep DEF Running, Completing
<1> QED BY <1>2, <1>3, <1>4, <1>5, <1>6, <1>7

\* The strings of a metadata, one after the other.
Copies == Len(Credits) + 3

LEMMA CreditFacts ==
    /\ Credits \in Seq(Fields) /\ Len(Credits) \in Nat /\ DOMAIN Credits = 1 .. Len(Credits)
    /\ "title" \in Fields /\ "app_bin" \in Fields
    /\ \A i \in DOMAIN Credits : Credits[i] \in Fields
BY HeapAssumption

\* They are asked for.
LEMMA CopiedYield ==
    ASSUME NEW h, Numbered(h), NEW v, NEW o \in Outcomes(h, Copied(v))
    PROVE  /\ Yields(h, o) /\ DOMAIN o.ids = 1 .. Copies /\ Len(o.ids) = Copies
           /\ o.ids \in Seq(Nat)
           /\ o.fails \in {0, 1} /\ (o.fails = 1 => failures < MaxFailures)
           /\ o.ids[1] = 0 => TextOf(fields["title"]) = "none" \/ o.fails = 1
           /\ o.ids[2] = 0 => TextOf(fields["app_bin"]) = "none" \/ o.fails = 1
<1> DEFINE few == <<TextOf(fields["title"]), TextOf(fields["app_bin"]), TextOf(v)>>
           more == [i \in DOMAIN Credits |-> TextOf(fields[Credits[i]])]
           texts == Copied(v)
<1>1. Copies \in Nat /\ 1 \in 1 .. Copies /\ 2 \in 1 .. Copies
    BY CreditFacts DEF Copies
<1>2. DOMAIN texts = 1 .. Copies /\ texts[1] = few[1] /\ texts[2] = few[2]
    <2>1. Len(few) = 3 /\ Len(more) = Len(Credits) /\ texts = few \o more
        BY CreditFacts DEF Copied
    <2>2. \A i \in 1 .. Len(few) + Len(more) :
              texts[i] = IF i <= Len(few) THEN few[i] ELSE more[i - Len(few)]
        BY <2>1
    <2>3. DOMAIN texts = 1 .. Len(few) + Len(more)
        BY <2>1
    <2> HIDE DEF few, more, texts
    <2> QED BY <2>1, <2>2, <2>3, CreditFacts DEF Copies
<1>3. few[1] = TextOf(fields["title"]) /\ few[2] = TextOf(fields["app_bin"])
    OBVIOUS
<1> HIDE DEF texts, few
<1>4. o \in Outcomes(h, texts)
    BY DEF texts
<1>5. PICK n \in Nat : n = Copies
    BY <1>1
<1>6. DOMAIN texts = 1 .. n
    BY <1>2, <1>5
<1>7. Yields(h, o)
    BY <1>4, <1>6, OutcomesYield
<1>8. DOMAIN o.ids = 1 .. n /\ Len(o.ids) = n
    BY <1>4, <1>6, OutcomesAdd
<1>9. ASSUME NEW i \in 1 .. n, o.ids[i] = 0 PROVE texts[i] = "none" \/ o.fails = 1
    BY <1>4, <1>6, <1>9, OutcomesMiss
<1>10. /\ o.ids[1] = 0 => few[1] = "none" \/ o.fails = 1
       /\ o.ids[2] = 0 => few[2] = "none" \/ o.fails = 1
    BY <1>1, <1>2, <1>5, <1>9
<1> QED BY <1>3, <1>5, <1>7, <1>8, <1>10 DEF Yields, Adds

\* The text of a field that is there is one.
LEMMA FieldText ==
    ASSUME Types, Memory, Running, NEW f \in Fields, TextOf(fields[f]) = "none"
    PROVE  fields[f] = 0
<1> SUFFICES ASSUME fields[f] # 0 PROVE FALSE
    OBVIOUS
<1>1. <<"patch", 0, f, fields[f]>> \in Held("patch", 0, fields)
    BY DEF Held, Types
<1>2. <<"patch", 0, f, fields[f]>>[4] = fields[f]
    OBVIOUS
<1>3. fields[f] \in DOMAIN heap /\ heap[fields[f]] # "none"
    BY <1>1, <1>2, InOwners DEF Memory, Good, Sound
<1> QED BY <1>3 DEF TextOf

\* The array of versions is none of the others, nor one of the strings.
LEMMA VersionsArrayApart ==
    ASSUME Good(Owners, heap, forgotten, array["versions"]), ArrayTypes(array, capacity, room),
           NEW w, w # "context", NEW k, NEW s, NEW p \in Owners, p \in Held(w, k, s)
    PROVE  p[4] # array["versions"]
<1> SUFFICES ASSUME p[4] = array["versions"] PROVE FALSE
    OBVIOUS
<1> DEFINE q == <<"context", 0, "versions", array["versions"]>>
<1>1. p[1] = w /\ p[4] \in Ids(s) /\ p[4] # 0
    BY InHeld DEF Ids
<1>2. q \in Held("context", 0, array)
    BY <1>1, InHeld DEF ArrayTypes, Arrays
<1>3. q[4] = array["versions"] /\ q[1] = "context"
    OBVIOUS
<1> HIDE DEF q
<1>4. q \in Owners
    BY <1>2, InOwners
<1> QED BY <1>1, <1>3, <1>4 DEF Good, Sound

LEMMA AskStep == ASSUME HeapInv, Ask \/ ReaderFails PROVE HeapInv'
<1>1. Types /\ Memory /\ Faults
    BY DEF HeapInv
<1>2. pc = "asking" /\ Running /\ at > 0 /\ at \in Nat
    BY <1>1 DEF Ask, ReaderFails, Running, Types
<1>3. CASE ReaderFails
    <2>1. /\ pc' = "crashed" /\ failures' = failures + 1 /\ failures < MaxFailures
          /\ UNCHANGED <<mode, at, heap, array, capacity, room, fields, vers, inPatches, titleids,
                         entries, count, all, listed, currentMeta, forgotten, lost, grown>>
        BY <1>3 DEF ReaderFails, Crash
    <2>2. Types' /\ failures' > 0
        BY <1>1, <2>1 DEF Types
    <2>3. FaultNeedsCause'
        BY <2>1, <2>2 DEF FaultNeedsCause, OverrunNeedsFailure, CrashNeedsCause
    <2> QED BY <2>1, <2>2, <2>3, FaultStep
<1>4. CASE Ask
    <2>1. PICK o \in Outcomes(heap, Copied(Slots[at])) :
              /\ failures' = failures + o.fails
              /\ IF o.ids[2] = 0 THEN Crash
                 ELSE /\ Kept(o.heap, o.ids)
                      /\ at' = at + 1
                      /\ UNCHANGED <<mode, pc, arrays, patch, titleids, gathered, all, listed,
                                     history, file>>
        BY <1>4 DEF Ask
    <2>2. /\ Yields(heap, o) /\ DOMAIN o.ids = 1 .. Copies /\ Len(o.ids) = Copies /\ o.ids \in Seq(Nat)
          /\ o.fails \in {0, 1} /\ (o.fails = 1 => failures < MaxFailures)
          /\ o.ids[2] = 0 => TextOf(fields["app_bin"]) = "none" \/ o.fails = 1
        <3>1. Numbered(heap)
            BY <1>1 DEF Memory
        <3> QED BY <3>1, CopiedYield
    <2>5. /\ failures' \in 0 .. MaxFailures /\ failures' >= failures
          /\ o.fails = 1 => failures' > 0
        <3>1. failures \in 0 .. MaxFailures /\ MaxFailures \in Nat
            BY <1>1, HeapAssumption DEF Types
        <3> QED BY <2>1, <2>2, <3>1
    <2>3. CASE o.ids[2] = 0
        <3>1. /\ pc' = "crashed"
              /\ UNCHANGED <<mode, at, heap, array, capacity, room, fields, vers, inPatches,
                             titleids, entries, count, all, listed, currentMeta, forgotten, lost,
                             grown>>
            BY <2>1, <2>3 DEF Crash
        <3>2. Types'
            BY <1>1, <2>5, <3>1 DEF Types
        <3>3. fields["app_bin"] = 0 \/ o.fails = 1
            BY <1>1, <1>2, <2>2, <2>3, FieldText, CreditFacts
        <3>4. FaultNeedsCause'
            BY <3>1, <2>5, <3>3 DEF FaultNeedsCause, OverrunNeedsFailure, CrashNeedsCause
        <3>5. ~grown' => failures' > 0
            <4>1. failures' >= failures /\ failures \in Nat
                BY <1>1, <2>5, HeapAssumption DEF Types
            <4>2. failures > 0 => failures' > 0
                BY <2>5, <4>1, HeapAssumption
            <4> QED BY <1>1, <3>1, <4>2 DEF Faults
        <3> QED BY <3>1, <3>2, <3>4, <3>5, FaultStep
    <2>4. CASE o.ids[2] # 0
        <3>1. /\ Kept(o.heap, o.ids) /\ at' = at + 1
              /\ UNCHANGED <<mode, pc, array, capacity, room, fields, vers, inPatches, titleids,
                             entries, count, all, listed, forgotten, lost, grown>>
            BY <2>1, <2>4
        <3>2. Running' /\ ~Completing'
            BY <1>2, <3>1 DEF Running, Completing
        <3>3. Types'
            <4>1. currentMeta' \in Seq(Nat)
                BY <1>1, <2>2, <3>1 DEF Kept, Types
            <4> QED BY <1>1, <1>2, <2>5, <3>1, <4>1 DEF Types
        <3>4. Faults'
            BY <1>1, <1>2, <2>1, <2>2, <3>1, <3>2
               DEF Faults, Fits, FaultNeedsCause, OverrunNeedsFailure, CrashNeedsCause, Types
        <3> DEFINE N == New("meta", 0, 0, o.ids)
                   P == Owners \cup N
        <3>5. Good(Owners, heap, forgotten, array["versions"])
            BY <1>1, <1>2 DEF Memory
        <3>6. Good(P, o.heap, forgotten, array["versions"])
            <4>1. \A p \in P : p \in Owners \/ p \in New("meta", 0, 0, o.ids)
                OBVIOUS
            <4>2. 0 \in Nat
                OBVIOUS
            <4> HIDE DEF P, N
            <4> QED BY <2>2, <3>5, <4>1, <4>2, GoodList
        <3>7. lost = {} => Covered(P, o.heap, forgotten)
            <4>1. \A p : p \in Owners \/ p \in New("meta", 0, 0, o.ids) => p \in P
                OBVIOUS
            <4>2. lost = {} => Covered(Owners, heap, forgotten)
                BY <1>1, <1>2 DEF Memory
            <4>3. 0 \in Nat
                OBVIOUS
            <4> HIDE DEF P, N
            <4> QED BY <2>2, <4>1, <4>2, <4>3, CoveredList
        <3>8. Held("meta", 0, o.ids) = N /\ \A p \in N : p[4] \in Ids(o.ids) /\ p[4] \notin DOMAIN heap
            <4>1. Adds(heap, o) /\ 0 \in Nat
                BY <2>2 DEF Yields
            <4>2. Held("meta", 0, o.ids) = N
                BY <4>1, HeldIsNew
            <4> QED BY <4>1, <4>2, InNew
        <3>9. /\ \A p \in Owners : p[4] \in DOMAIN heap
              /\ array["versions"] # 0 => array["versions"] \in DOMAIN heap
              /\ \A x \in forgotten : x \in DOMAIN heap
              /\ \A p, q \in Owners : p[4] = q[4] => p = q
            BY <3>5 DEF Good, Sound
        <3>10. \A w, k, s, p : p \in Held(w, k, s) => p[1] = w /\ p[4] \in Ids(s)
            BY InHeld
        <3>11. \A p : p \in Owners' <=> (p \in Owners /\ p \notin Held("meta", 0, currentMeta))
                                            \/ p \in Held("meta", 0, currentMeta')
            <4>1. \A p : p \in Held("meta", 0, currentMeta) => p[1] = "meta"
                BY <3>10
            <4>2. \A p : p \in Held("context", 0, array) \/ p \in Held("patch", 0, fields)
                          \/ p \in Held("titleids", 0, titleids) \/ p \in Held("versions", 0, vers)
                          \/ p \in Held("entries", 0, entries)
                          \/ (\E k \in DOMAIN listed : p \in Held("listed", k, listed[k]))
                          \/ (\E k \in DOMAIN all : p \in Held("all", k, all[k]))
                              => p[1] # "meta"
                BY <3>10
            <4> QED BY <3>1, <4>1, <4>2, InOwners, InOwnersNext
        <3>12. CASE at = 1
            <4> DEFINE G == Ids(currentMeta)
            <4>1. currentMeta' = o.ids /\ heap' = Free(o.heap, G)
                BY <3>1, <3>12 DEF Kept
            <4>2. \A x \in G : \E p \in Owners : p \in Held("meta", 0, currentMeta) /\ p[4] = x
                BY InHeld, InOwners
            <4>3. \A x \in G : x \in DOMAIN heap /\ x \notin forgotten
                BY <3>5, <4>2 DEF Good, Sound
            <4>4. array["versions"] \notin G
                <5>1. ArrayTypes(array, capacity, room)
                    BY <1>1 DEF Types
                <5>2. \A p \in Owners : p \in Held("meta", 0, currentMeta) => p[4] # array["versions"]
                    BY <3>5, <5>1, VersionsArrayApart
                <5> QED BY <4>2, <5>2
            <4>5. \A p \in Owners' : p \in P /\ p[4] \notin G
                <5> SUFFICES ASSUME NEW p \in Owners' PROVE p \in P /\ p[4] \notin G
                    OBVIOUS
                <5>1. CASE p \in Owners /\ p \notin Held("meta", 0, currentMeta)
                    BY <3>9, <4>2, <5>1
                <5>2. CASE p \in N
                    BY <3>8, <4>3, <5>2
                <5> QED BY <3>8, <3>11, <4>1, <5>1, <5>2
            <4>6. \A p \in P : p \in Owners' \/ p[4] \in G
                BY <3>8, <3>10, <3>11, <4>1
            <4> HIDE DEF P, N, G
            <4>7. Good(Owners', heap', forgotten, array["versions"])
                BY <3>6, <4>1, <4>3, <4>4, <4>5, GoodFree
            <4>8. lost = {} => Covered(Owners', heap', forgotten)
                BY <3>7, <4>1, <4>6, DroppingCovers
            <4> QED BY <1>1, <1>2, <3>1, <3>2, <3>3, <3>4, <4>7, <4>8
                    DEF HeapInv, Memory, Good, Sound, Running
        <3>13. CASE at # 1
            <4> DEFINE G == Ids(o.ids)
            <4>1. currentMeta' = currentMeta /\ heap' = Free(o.heap, G)
                BY <3>1, <3>13 DEF Kept
            <4>2. \A x \in G : x \notin DOMAIN heap
                BY <2>2 DEF Yields, Adds, Ids
            <4>3. 0 \notin G
                BY DEF Ids
            <4>4. Owners' = Owners
                BY <3>1, <4>1, InOwners, InOwnersNext
            <4>5. \A p \in Owners' : p \in P /\ p[4] \notin G
                BY <3>9, <4>2, <4>4
            <4>6. \A p \in P : p \in Owners' \/ p[4] \in G
                BY <3>8, <4>4
            <4>9. array["versions"] \notin G /\ \A x \in G : x \notin forgotten
                BY <3>9, <4>2, <4>3
            <4> HIDE DEF P, N, G
            <4>7. Good(Owners', heap', forgotten, array["versions"])
                BY <3>6, <4>1, <4>5, <4>9, GoodFree
            <4>8. lost = {} => Covered(Owners', heap', forgotten)
                BY <3>7, <4>1, <4>6, DroppingCovers
            <4> QED BY <1>1, <1>2, <3>1, <3>2, <3>3, <3>4, <4>7, <4>8
                    DEF HeapInv, Memory, Good, Sound, Running
        <3> QED BY <3>12, <3>13
    <2> QED BY <2>3, <2>4
<1> QED BY <1>3, <1>4
\* One more fits into an array that was made longer.
LEMMA GrowthFits ==
    ASSUME ArrayTypes(array, capacity, room), NEW h, Numbered(h), NEW a \in Growing,
           NEW held \in Nat, Fits(a, held), NEW g \in Growth(h, a, held), g.ok
    PROVE  /\ g.array[a] # 0 /\ g.room[a] = g.capacity[a] /\ g.capacity[a] > 0
           /\ held < g.room[a] /\ held + 1 <= g.room[a]
<1> DEFINE doubled == [capacity EXCEPT ![a] = 2 * @]
           place == IF array[a] = 0 THEN Top(h) + 1 ELSE array[a]
<1>1. \/ /\ held < capacity[a]
         /\ g.array = array /\ g.capacity = capacity /\ g.room = room
      \/ /\ ~(held < capacity[a]) /\ g.capacity = doubled
         /\ g.array = [array EXCEPT ![a] = place] /\ g.room = [room EXCEPT ![a] = doubled[a]]
    BY DEF Growth
<1>2. /\ array[a] # 0 /\ place = array[a] /\ a \in Arrays /\ doubled[a] = 2 * capacity[a]
      /\ room[a] = capacity[a] /\ capacity[a] > 0 /\ held <= capacity[a]
      /\ capacity[a] \in Nat
    BY DEF Fits, ArrayTypes, Arrays
<1> HIDE DEF doubled, place
<1>3. CASE held < capacity[a] /\ g.array = array /\ g.capacity = capacity /\ g.room = room
    BY <1>2, <1>3
<1>4. CASE /\ ~(held < capacity[a]) /\ g.capacity = doubled
           /\ g.array = [array EXCEPT ![a] = place] /\ g.room = [room EXCEPT ![a] = doubled[a]]
    <2>1. g.array[a] = place /\ g.room[a] = doubled[a]
        BY <1>2, <1>4 DEF ArrayTypes
    <2> QED BY <1>2, <1>4, <2>1
<1> QED BY <1>1, <1>3, <1>4

\* No holder is lost by it.
LEMMA GrowthHolds ==
    ASSUME ArrayTypes(array, capacity, room), NEW h, NEW a \in Growing, NEW held,
           NEW g \in Growth(h, a, held), NEW p \in Held("context", 0, array)
    PROVE  p \in Held("context", 0, g.array)
<1> DEFINE place == IF array[a] = 0 THEN Top(h) + 1 ELSE array[a]
<1>1. g.array = array \/ g.array = [array EXCEPT ![a] = place]
    BY DEF Growth
<1>2. PICK b \in Arrays : array[b] # 0 /\ p = <<"context", 0, b, array[b]>>
    BY DEF Held, ArrayTypes
<1>3. g.array[b] = array[b] /\ b \in DOMAIN g.array
    BY <1>1, <1>2 DEF ArrayTypes
<1> QED BY <1>2, <1>3, InHeld

\* Why a list is written outside its array, or into none.
LEMMA GrowthFaults ==
    ASSUME Types, Running, mode # "low", NEW a \in Growing, NEW held \in Nat,
           NEW h, Numbered(h), NEW g \in Growth(h, a, held), g.ok,
           grown => Fits(a, held), ~grown => failures > 0, held >= g.room[a],
           grown' = (grown /\ g.ok), mode' = mode, failures' >= failures, failures' \in Nat,
           pc' \in {"crashed", "overrun"}
    PROVE  FaultNeedsCause' /\ (~grown' => failures' > 0)
<1>1. ~grown
    <2> SUFFICES ASSUME grown PROVE FALSE
        OBVIOUS
    <2>1. held < g.room[a] /\ ArrayTypes(g.array, g.capacity, g.room) /\ ArrayTypes(array, capacity, room)
        BY GrowthFits, GrowthTypes DEF Types
    <2>2. g.room[a] \in Nat
        BY <2>1 DEF ArrayTypes
    <2> QED BY <2>1, <2>2
<1>2. ~grown' /\ failures \in Nat /\ failures > 0 /\ failures' > 0
    BY <1>1 DEF Types
<1> QED BY <1>2 DEF FaultNeedsCause, OverrunNeedsFailure, CrashNeedsCause

\* An array is made longer, and objects are added before and after: O are the holders
\* after that.
LEMMA GrownOwners ==
    ASSUME ArrayTypes(array, capacity, room), NEW a \in Growing, NEW held,
           NEW O, NEW h, NEW F, Good(O, h, F, array["versions"]),
           \A p \in Held("context", 0, array) : p \in O,
           NEW g \in Growth(h, a, held), g.ok,
           NEW P, \A p : p \in P <=> p \in O \/ p \in Held("context", 0, g.array)
    PROVE  /\ Good(P, g.heap, F, g.array["versions"])
           /\ Covered(O, h, F) => Covered(P, g.heap, F)
           /\ Numbered(g.heap)
<1>1. \A p \in P : p \in O \/ p \in Held("context", 0, g.array)
    OBVIOUS
<1>2. \A p : p \in O \/ p \in Held("context", 0, g.array) => p \in P
    OBVIOUS
<1> QED BY <1>1, <1>2, GrowthGood

LEMMA EntryStep ==
    ASSUME HeapInv, NEW n \in 1 .. MaxParams, EntryLine(n)
    PROVE  HeapInv'
<1>1. Types /\ Memory /\ Faults
    BY DEF HeapInv
<1>2. /\ pc = "reading"
      /\ UNCHANGED <<mode, at, fields, vers, inPatches, titleids, all, listed, currentMeta, forgotten>>
    BY DEF EntryLine, ReadLine
<1>3. Running /\ Numbered(heap)
    BY <1>1, <1>2 DEF Running, Memory
<1>4. PICK o \in Gathered(heap, [i \in 1 .. n |-> "text"]) :
          \/ /\ Took(o)
             /\ lost' = lost \cup {"short"}
             /\ UNCHANGED <<pc, arrays, gathered, grown>>
          \/ /\ mode # "all"
             /\ failures' = failures + o.fails
             /\ UNCHANGED <<pc, heap, arrays, gathered, lost, grown>>
          \/ /\ mode = "all"
             /\ \E g \in Growth(o.heap, "entries", count) :
                   /\ failures' = failures + o.fails + g.fails
                   /\ failures' <= MaxFailures
                   /\ Grew(g)
                   /\ grown' = (grown /\ g.ok)
                   /\ \/ ~g.ok /\ UNCHANGED <<pc, heap, gathered>>
                      \/ /\ g.ok /\ count < g.room["entries"]
                         /\ entries' = entries \o o.ids /\ count' = count + 1
                         /\ heap' = g.heap
                         /\ UNCHANGED pc
                      \/ /\ g.ok /\ count >= g.room["entries"]
                         /\ pc' = IF g.array["entries"] = 0 THEN "crashed" ELSE "overrun"
                         /\ UNCHANGED <<heap, gathered>>
             /\ UNCHANGED lost
    BY DEF EntryLine
<1>5. Yields(heap, o)
    <2>1. [i \in 1 .. n |-> "text"] \in Seq({"text"}) /\ "none" \notin {"text"}
        <3>1. n \in Nat
            BY DEF HeapAssumption
        <3>2. [i \in 1 .. n |-> "text"] \in [1 .. n -> {"text"}]
            OBVIOUS
        <3> QED BY <3>1, <3>2
    <2> QED BY <2>1, <1>3, GatheredYield
<1>6. /\ Adds(heap, o) /\ o.ids \in Seq(Nat) /\ o.fails \in {0, 1} /\ Numbered(o.heap)
      /\ (o.fails = 1 => failures < MaxFailures) /\ failures \in 0 .. MaxFailures
    BY <1>1, <1>5 DEF Yields, Adds, Types
<1>7. CASE /\ Took(o)
           /\ lost' = lost \cup {"short"}
           /\ UNCHANGED <<pc, arrays, gathered, grown>>
    <2>1. /\ heap' = o.heap /\ failures' = failures + o.fails /\ lost' # {}
          /\ UNCHANGED <<pc, array, capacity, room, entries, count, grown>>
        BY <1>7 DEF Took
    <2>2. failures' \in 0 .. MaxFailures /\ failures' >= failures
        BY <1>6, <2>1
    <2>3. Types'
        BY <1>1, <1>2, <1>7, <2>1, <2>2 DEF Types
    <2>4. Owners' = Owners
        BY <1>2, <2>1, InOwners, InOwnersNext
    <2>5. Good(Owners', heap', forgotten, array["versions"])
        <3>1. Good(Owners, heap, forgotten, array["versions"])
            BY <1>1, <1>3 DEF Memory
        <3> DEFINE N == {}
        <3>2. /\ \A p \in N : p[4] \in Ids(o.ids)
              /\ \A p, q \in N : p[4] = q[4] => p = q
              /\ \A p \in Owners' : p \in Owners \/ p \in N
            BY <2>4
        <3> HIDE DEF N
        <3> QED BY <1>5, <2>1, <3>1, <3>2, GoodAdds
    <2>6. Memory'
        BY <1>1, <1>2, <1>6, <2>1, <2>5 DEF Memory, Running
    <2>7. Faults'
        BY <1>1, <1>2, <1>3, <1>6, <2>1, <2>2
           DEF Faults, Fits, Running, Completing, FaultNeedsCause, OverrunNeedsFailure,
               CrashNeedsCause
    <2> QED BY <2>3, <2>6, <2>7 DEF HeapInv
<1>8. CASE /\ mode # "all"
           /\ failures' = failures + o.fails
           /\ UNCHANGED <<pc, heap, arrays, gathered, lost, grown>>
    <2>1. UNCHANGED <<pc, heap, array, capacity, room, entries, count, lost, grown>>
        BY <1>8
    <2>2. failures' \in 0 .. MaxFailures /\ failures' >= failures
        BY <1>6, <1>8
    <2>3. Types'
        BY <1>1, <1>2, <2>1, <2>2 DEF Types
    <2>4. Owners' = Owners
        BY <1>2, <2>1, InOwners, InOwnersNext
    <2>5. Memory'
        BY <1>1, <1>2, <2>1, <2>4 DEF Memory, Running
    <2>6. Faults'
        BY <1>1, <1>2, <1>3, <1>6, <2>1, <2>2
           DEF Faults, Fits, Running, Completing, FaultNeedsCause, OverrunNeedsFailure,
               CrashNeedsCause
    <2> QED BY <2>3, <2>5, <2>6 DEF HeapInv
<1>9. ASSUME mode = "all", UNCHANGED lost, NEW g \in Growth(o.heap, "entries", count),
             failures' = failures + o.fails + g.fails, failures' <= MaxFailures,
             Grew(g), grown' = (grown /\ g.ok),
             \/ ~g.ok /\ UNCHANGED <<pc, heap, gathered>>
             \/ /\ g.ok /\ count < g.room["entries"]
                /\ entries' = entries \o o.ids /\ count' = count + 1
                /\ heap' = g.heap
                /\ UNCHANGED pc
             \/ /\ g.ok /\ count >= g.room["entries"]
                /\ pc' = IF g.array["entries"] = 0 THEN "crashed" ELSE "overrun"
                /\ UNCHANGED <<heap, gathered>>
      PROVE  HeapInv'
    <2>1. /\ ArrayTypes(array, capacity, room) /\ count \in Nat /\ "entries" \in Growing
          /\ entries \in Seq(Nat)
        BY <1>1 DEF Types, Growing
    <2>2. /\ ArrayTypes(g.array, g.capacity, g.room)
          /\ g.fails \in {0, 1} /\ g.ok \in BOOLEAN /\ (~g.ok => g.fails = 1 /\ g.array = array)
          /\ \A b \in Arrays \ {"entries"} : g.array[b] = array[b]
          /\ \A b \in Growing \ {"entries"} : g.capacity[b] = capacity[b] /\ g.room[b] = room[b]
        BY <1>6, <1>9, <2>1, GrowthTypes
    <2>3. /\ array' = g.array /\ capacity' = g.capacity /\ room' = g.room
          /\ grown' \in BOOLEAN
        BY <1>1, <1>9, <2>2 DEF Grew, Types
    <2>4. /\ failures' \in 0 .. MaxFailures /\ failures' >= failures /\ failures' \in Nat
          /\ ~grown' => failures' > 0
        <3>1. failures' \in 0 .. MaxFailures /\ failures' >= failures /\ failures' \in Nat
            BY <1>6, <1>9, <2>2
        <3>2. ~grown => failures > 0
            BY <1>1 DEF Faults
        <3>3. ~g.ok => failures' > 0
            BY <1>6, <1>9, <2>2
        <3>4. ~grown' => ~grown \/ ~g.ok
            BY <1>9
        <3>5. failures \in Nat
            BY <1>6
        <3> QED BY <3>1, <3>2, <3>3, <3>4, <3>5
    <2>5. grown => Fits("entries", count) /\ Fits("all", Len(all))
        BY <1>1, <1>3, <1>9 DEF Faults
    <2>6. grown /\ g.ok => /\ g.array["entries"] # 0 /\ g.room["entries"] = g.capacity["entries"]
                           /\ g.capacity["entries"] > 0 /\ count + 1 <= g.room["entries"]
        BY <1>6, <1>9, <2>1, <2>5, GrowthFits
    <2>7. /\ g.array["all"] = array["all"] /\ g.array["titleids"] = array["titleids"]
          /\ g.array["versions"] = array["versions"]
          /\ g.capacity["all"] = capacity["all"] /\ g.room["all"] = room["all"]
        BY <2>2 DEF Arrays, Growing
    <2>8. CASE ~g.ok /\ UNCHANGED <<pc, heap, gathered>>
        <3>1. UNCHANGED <<pc, heap, array, entries, count, lost>> /\ ~grown'
            BY <1>9, <2>2, <2>3, <2>8
        <3>2. Types'
            BY <1>1, <1>2, <2>2, <2>3, <2>4, <3>1 DEF Types
        <3>3. Owners' = Owners
            BY <1>2, <3>1, InOwners, InOwnersNext
        <3>4. Memory'
            BY <1>1, <1>2, <3>1, <3>3 DEF Memory, Running
        <3>5. Faults'
            BY <1>1, <1>2, <1>3, <2>4, <3>1
               DEF Faults, Running, Completing, FaultNeedsCause, OverrunNeedsFailure,
                   CrashNeedsCause
        <3> QED BY <3>2, <3>4, <3>5 DEF HeapInv
    <2>9. CASE /\ g.ok /\ count >= g.room["entries"]
               /\ pc' = IF g.array["entries"] = 0 THEN "crashed" ELSE "overrun"
               /\ UNCHANGED <<heap, gathered>>
        <3>1. UNCHANGED <<heap, entries, count, lost>> /\ pc' \in {"crashed", "overrun"}
            BY <1>9, <2>9
        <3>2. Types'
            BY <1>1, <1>2, <2>2, <2>3, <2>4, <3>1 DEF Types
        <3>3. FaultNeedsCause' /\ (~grown' => failures' > 0)
            BY <1>1, <1>2, <1>3, <1>6, <1>9, <2>1, <2>4, <2>5, <2>9, <3>1, GrowthFaults DEF Faults
        <3> QED BY <1>2, <3>1, <3>2, <3>3, FaultStep
    <2>10. CASE /\ g.ok /\ count < g.room["entries"]
                /\ entries' = entries \o o.ids /\ count' = count + 1
                /\ heap' = g.heap
                /\ UNCHANGED pc
        <3>1. entries' \in Seq(Nat) /\ count' \in Nat
            BY <1>6, <2>1, <2>10
        <3>2. Types'
            BY <1>1, <1>2, <1>9, <2>2, <2>3, <2>4, <2>10, <3>1 DEF Types
        <3>3. Running' /\ ~Completing' /\ pc' = "reading"
            BY <1>2, <2>10 DEF Running, Completing
        <3>4. Faults'
            <4>1. grown' => Fits("all", Len(all))' /\ Fits("entries", count)'
                BY <1>2, <1>9, <2>3, <2>5, <2>6, <2>7, <2>10 DEF Fits
            <4>2. array'["titleids"] = 0 => failures' > 0
                BY <1>1, <1>3, <1>6, <2>3, <2>4, <2>7 DEF Faults
            <4>3. mode' = "all"
                BY <1>2, <1>9
            <4> QED BY <2>4, <3>3, <4>1, <4>2, <4>3
                    DEF Faults, FaultNeedsCause, OverrunNeedsFailure, CrashNeedsCause
        <3> DEFINE N == New("entries", 0, Len(entries), o.ids)
                   O == Owners \cup N
        <3>5. Good(O, o.heap, forgotten, array["versions"])
            <4>1. \A p \in O : p \in Owners \/ p \in New("entries", 0, Len(entries), o.ids)
                OBVIOUS
            <4>2. Len(entries) \in Nat
                BY <2>1
            <4>3. Good(Owners, heap, forgotten, array["versions"])
                BY <1>1, <1>3 DEF Memory
            <4> HIDE DEF O, N
            <4> QED BY <1>5, <4>1, <4>2, <4>3, GoodList
        <3>6. lost = {} => Covered(O, o.heap, forgotten)
            <4>1. \A p : p \in Owners \/ p \in New("entries", 0, Len(entries), o.ids) => p \in O
                OBVIOUS
            <4>2. Len(entries) \in Nat
                BY <2>1
            <4>3. lost = {} => Covered(Owners, heap, forgotten)
                BY <1>1, <1>3 DEF Memory
            <4> HIDE DEF O, N
            <4> QED BY <1>5, <4>1, <4>2, <4>3, CoveredList
        <3>7. \A p \in Held("context", 0, array) : p \in O
            BY InOwners
        <3>8. \A p \in Held("context", 0, array) : p \in Held("context", 0, g.array)
            BY <1>9, <2>1, GrowthHolds
        <3>9. \A p : p \in Held("entries", 0, entries') <=>
                         p \in Held("entries", 0, entries) \/ p \in N
            BY <1>6, <2>1, <2>10, HeldLonger
        <3> HIDE DEF N
        <3>10. \A p : p \in Owners' <=> p \in O \/ p \in Held("context", 0, g.array)
            BY <1>2, <2>3, <3>8, <3>9, InOwners, InOwnersNext
        <3> HIDE DEF O
        <3>11. /\ Good(Owners', g.heap, forgotten, g.array["versions"])
               /\ Covered(O, o.heap, forgotten) => Covered(Owners', g.heap, forgotten)
               /\ Numbered(g.heap)
            BY <1>9, <2>1, <2>10, <3>5, <3>7, <3>10, GrownOwners
        <3>12. Memory'
            BY <1>1, <1>2, <1>9, <2>3, <2>10, <3>3, <3>6, <3>11 DEF Memory
        <3> QED BY <3>2, <3>4, <3>12 DEF HeapInv
    <2> QED BY <1>9, <2>8, <2>9, <2>10
<1> QED BY <1>4, <1>7, <1>8, <1>9
\* One more element of a list of lists.
LEMMA HeldAppended ==
    ASSUME NEW w, NEW s \in Seq(Seq(Nat)), NEW t \in Seq(Nat), NEW x
    PROVE  (\E k \in DOMAIN Append(s, t) : x \in Held(w, k, Append(s, t)[k])) <=>
               \/ \E k \in DOMAIN s : x \in Held(w, k, s[k])
               \/ x \in Held(w, Len(s) + 1, t)
<1> DEFINE u == Append(s, t)
<1>1. /\ DOMAIN s = 1 .. Len(s) /\ DOMAIN u = 1 .. Len(s) + 1 /\ Len(s) \in Nat
      /\ \A k \in 1 .. Len(s) : u[k] = s[k]
      /\ u[Len(s) + 1] = t
    OBVIOUS
<1> HIDE DEF u
<1>2. ASSUME NEW k \in DOMAIN u, x \in Held(w, k, u[k])
      PROVE  (\E j \in DOMAIN s : x \in Held(w, j, s[j])) \/ x \in Held(w, Len(s) + 1, t)
    <2>1. k \in 1 .. Len(s) \/ k = Len(s) + 1
        BY <1>1
    <2> QED BY <1>1, <1>2, <2>1
<1>3. ASSUME NEW k \in DOMAIN s, x \in Held(w, k, s[k])
      PROVE  \E j \in DOMAIN u : x \in Held(w, j, u[j])
    <2>1. k \in DOMAIN u /\ u[k] = s[k]
        BY <1>1
    <2> QED BY <1>3, <2>1
<1>4. ASSUME x \in Held(w, Len(s) + 1, t) PROVE \E j \in DOMAIN u : x \in Held(w, j, u[j])
    <2>1. Len(s) + 1 \in DOMAIN u
        BY <1>1
    <2> QED BY <1>1, <1>4, <2>1
<1> QED BY <1>2, <1>3, <1>4 DEF u

\* What a list holds when it is new.
LEMMA HeldNew ==
    ASSUME NEW w, NEW k, NEW t \in Seq(Nat)
    PROVE  Held(w, k, t) = New(w, k, 0, t)
<1>1. \A i \in DOMAIN t : 0 + i = i
    OBVIOUS
<1> QED BY <1>1 DEF Held, New

\* A version that is none.
LEMMA NoVersion ==
    ASSUME Types, at > 0, at <= Len(Slots), Slots[at] = 0
    PROVE  vers = <<>>
BY DEF Types, Slots

\* What str_dup of the application fails on.
LEMMA IncompleteCause ==
    ASSUME Types, at > 0, at <= Len(Slots), fields["title"] # 0, Incomplete
    PROVE  fields["app_bin"] = 0 \/ vers = <<>> \/ \E i \in DOMAIN Credits : fields[Credits[i]] = 0
<1>1. CASE Slots[at] = 0
    BY <1>1, NoVersion
<1> QED BY <1>1 DEF Incomplete

LEMMA UnmatchedStep == ASSUME HeapInv, Unmatched PROVE HeapInv'
<1>1. Types /\ Memory /\ Faults
    BY DEF HeapInv
<1>2. /\ Completing /\ Running /\ mode = "all" /\ at > 0 /\ at \in Nat /\ at <= Len(Slots)
      /\ UNCHANGED <<mode, array, capacity, room, fields, vers, inPatches, titleids, entries, count,
                     all, listed, currentMeta, forgotten, grown>>
    BY <1>1 DEF Unmatched, Completing, Running, Types
<1>3. PICK o \in Outcomes(heap, Copied(Slots[at])) :
          /\ failures' = failures + o.fails
          /\ IF Incomplete \/ 0 \in {o.ids[1], o.ids[2]}
             THEN pc' = "crashed" /\ UNCHANGED <<at, heap, lost>>
             ELSE /\ heap' = o.heap
                  /\ lost' = lost \cup {"unmatched"}
                  /\ at' = at + 1 /\ UNCHANGED pc
    BY DEF Unmatched
<1>4. /\ Yields(heap, o) /\ DOMAIN o.ids = 1 .. Copies /\ Len(o.ids) = Copies /\ o.ids \in Seq(Nat)
      /\ o.fails \in {0, 1} /\ (o.fails = 1 => failures < MaxFailures)
      /\ o.ids[1] = 0 => TextOf(fields["title"]) = "none" \/ o.fails = 1
      /\ o.ids[2] = 0 => TextOf(fields["app_bin"]) = "none" \/ o.fails = 1
    <2>1. Numbered(heap)
        BY <1>1 DEF Memory
    <2> QED BY <2>1, CopiedYield
<1>5. /\ failures' \in 0 .. MaxFailures /\ failures' >= failures /\ failures \in Nat
      /\ o.fails = 1 => failures' > 0
    <2>1. failures \in 0 .. MaxFailures
        BY <1>1 DEF Types
    <2> QED BY <2>1, <1>3, <1>4
<1>6. ~grown' => failures' > 0
    BY <1>1, <1>2, <1>5 DEF Faults
<1>7. CASE Incomplete \/ 0 \in {o.ids[1], o.ids[2]}
    <2>1. pc' = "crashed" /\ UNCHANGED <<at, heap, lost>>
        BY <1>3, <1>7
    <2>2. Types'
        BY <1>1, <1>2, <1>5, <2>1 DEF Types
    <2>3. fields["title"] # 0 /\ "title" \in Fields /\ "app_bin" \in Fields
        BY <1>1, <1>2, CreditFacts DEF Faults
    <2>4. \/ failures' > 0 \/ fields["app_bin"] = 0 \/ vers = <<>>
          \/ \E i \in DOMAIN Credits : fields[Credits[i]] = 0
        <3>1. CASE Incomplete
            BY <1>1, <1>2, <2>3, <3>1, IncompleteCause
        <3>2. CASE o.ids[1] = 0
            BY <1>1, <1>2, <1>4, <1>5, <2>3, <3>2, FieldText
        <3>3. CASE o.ids[2] = 0
            BY <1>1, <1>2, <1>4, <1>5, <2>3, <3>3, FieldText
        <3> QED BY <1>7, <3>1, <3>2, <3>3
    <2>5. FaultNeedsCause'
        BY <1>2, <2>1, <2>4 DEF FaultNeedsCause, OverrunNeedsFailure, CrashNeedsCause
    <2> QED BY <1>2, <1>6, <2>1, <2>2, <2>5, FaultStep
<1>8. CASE ~(Incomplete \/ 0 \in {o.ids[1], o.ids[2]})
    <2>1. /\ heap' = o.heap /\ lost' = lost \cup {"unmatched"}
          /\ at' = at + 1 /\ pc' = pc
        BY <1>3, <1>8
    <2>2. Types'
        BY <1>1, <1>2, <1>5, <2>1 DEF Types
    <2>3. Owners' = Owners
        BY <1>2, InOwners, InOwnersNext
    <2>4. Good(Owners', heap', forgotten, array["versions"])
        <3>1. Good(Owners, heap, forgotten, array["versions"])
            BY <1>1, <1>2 DEF Memory
        <3> DEFINE N == {}
        <3>2. /\ \A p \in N : p[4] \in Ids(o.ids)
              /\ \A p, q \in N : p[4] = q[4] => p = q
              /\ \A p \in Owners' : p \in Owners \/ p \in N
            BY <2>3
        <3> HIDE DEF N
        <3> QED BY <1>4, <2>1, <3>1, <3>2, GoodAdds
    <2>5. Running' /\ Completing'
        BY <1>2, <2>1 DEF Running, Completing
    <2>6. Memory'
        BY <1>1, <1>2, <2>1, <2>4, <2>5 DEF Memory, Good, Sound, Running
    <2>7. Faults'
        BY <1>1, <1>2, <1>5, <1>6, <2>1, <2>5
           DEF Faults, Fits, FaultNeedsCause, OverrunNeedsFailure, CrashNeedsCause, Running
    <2> QED BY <2>2, <2>6, <2>7 DEF HeapInv
<1> QED BY <1>7, <1>8

LEMMA ListStep == ASSUME HeapInv, List PROVE HeapInv'
<1>1. Types /\ Memory /\ Faults
    BY DEF HeapInv
<1>2. /\ Completing /\ Running /\ mode = "metadata" /\ at > 0 /\ at \in Nat /\ at <= Len(Slots)
      /\ UNCHANGED <<mode, fields, vers, inPatches, titleids, entries, count, all, currentMeta,
                     forgotten, lost>>
    BY <1>1 DEF List, Completing, Running, Types
<1>3. PICK g \in Growth(heap, "metadata", Len(listed)) :
          /\ Grew(g)
          /\ grown' = (grown /\ g.ok)
          /\ \/ /\ ~g.ok
                /\ failures' = failures + 1 /\ failures' <= MaxFailures
                /\ GiveUp
                /\ UNCHANGED <<heap, listed>>
             \/ /\ g.ok /\ Len(listed) >= g.room["metadata"]
                /\ pc' = IF g.array["metadata"] = 0 THEN "crashed" ELSE "overrun"
                /\ UNCHANGED <<at, heap, listed, failures>>
             \/ /\ g.ok /\ Len(listed) < g.room["metadata"]
                /\ \E o \in Outcomes(g.heap, Copied(Slots[at])) :
                      /\ failures' = failures + o.fails
                      /\ IF Incomplete \/ o.ids[2] = 0
                         THEN pc' = "crashed" /\ UNCHANGED <<at, heap, listed>>
                         ELSE /\ heap' = o.heap
                              /\ listed' = Append(listed, o.ids)
                              /\ at' = at + 1 /\ UNCHANGED pc
    BY DEF List
<1>4. /\ ArrayTypes(array, capacity, room) /\ "metadata" \in Growing /\ Numbered(heap)
      /\ listed \in Seq(Seq(Nat)) /\ Len(listed) \in Nat /\ failures \in 0 .. MaxFailures
    BY <1>1 DEF Types, Growing, Memory
<1>5. /\ ArrayTypes(g.array, g.capacity, g.room)
      /\ g.fails \in {0, 1} /\ g.ok \in BOOLEAN /\ (~g.ok => g.fails = 1 /\ g.array = array)
      /\ \A b \in Arrays \ {"metadata"} : g.array[b] = array[b]
    BY <1>4, GrowthTypes
<1>6. /\ array' = g.array /\ capacity' = g.capacity /\ room' = g.room
      /\ grown' \in BOOLEAN /\ (grown' <=> grown /\ g.ok)
    BY <1>1, <1>3, <1>5 DEF Grew, Types
<1>7. grown => Fits("metadata", Len(listed))
    BY <1>1, <1>2 DEF Faults
<1>8. grown /\ g.ok => /\ g.array["metadata"] # 0 /\ g.room["metadata"] = g.capacity["metadata"]
                       /\ g.capacity["metadata"] > 0 /\ Len(listed) + 1 <= g.room["metadata"]
    BY <1>4, <1>7, GrowthFits
<1>9. g.array["titleids"] = array["titleids"] /\ g.array["versions"] = array["versions"]
    BY <1>5 DEF Arrays, Growing
<1>10. ~grown => failures > 0
    BY <1>1 DEF Faults
<1>11. CASE /\ ~g.ok
            /\ failures' = failures + 1 /\ failures' <= MaxFailures
            /\ GiveUp
            /\ UNCHANGED <<heap, listed>>
    <2>1. /\ UNCHANGED <<heap, array, listed>> /\ ~grown' /\ failures' \in 0 .. MaxFailures
          /\ failures' > 0
        BY <1>4, <1>5, <1>6, <1>11
    <2>2. pc' \in {"reading", "done"} /\ at' = 0
        BY <1>11 DEF GiveUp, Over
    <2>3. Types'
        BY <1>1, <1>2, <1>5, <1>6, <2>1, <2>2 DEF Types
    <2>4. Owners' = Owners
        BY <1>2, <2>1, InOwners, InOwnersNext
    <2>5. Running' /\ ~Completing' /\ pc' # "freed" /\ pc' # "overrun" /\ pc' # "crashed"
        BY <2>2 DEF Running, Completing
    <2>6. Memory'
        BY <1>1, <1>2, <2>1, <2>4, <2>5 DEF Memory
    <2>7. Faults'
        BY <2>1, <2>5 DEF Faults, FaultNeedsCause, OverrunNeedsFailure, CrashNeedsCause
    <2> QED BY <2>3, <2>6, <2>7 DEF HeapInv
<1>12. CASE /\ g.ok /\ Len(listed) >= g.room["metadata"]
            /\ pc' = IF g.array["metadata"] = 0 THEN "crashed" ELSE "overrun"
            /\ UNCHANGED <<at, heap, listed, failures>>
    <2>1. UNCHANGED <<at, heap, listed, failures>> /\ pc' \in {"crashed", "overrun"}
        BY <1>12
    <2>2. Types'
        BY <1>1, <1>2, <1>5, <1>6, <2>1 DEF Types
    <2>3. FaultNeedsCause' /\ (~grown' => failures' > 0)
        <3>1. failures' >= failures /\ failures' \in Nat
            BY <1>4, <2>1
        <3> QED BY <1>1, <1>2, <1>3, <1>4, <1>7, <1>10, <1>12, <2>1, <3>1, GrowthFaults
    <2> QED BY <1>2, <2>1, <2>2, <2>3, FaultStep
<1>13. ASSUME g.ok, Len(listed) < g.room["metadata"],
              NEW o \in Outcomes(g.heap, Copied(Slots[at])),
              failures' = failures + o.fails,
              IF Incomplete \/ o.ids[2] = 0
              THEN pc' = "crashed" /\ UNCHANGED <<at, heap, listed>>
              ELSE /\ heap' = o.heap
                   /\ listed' = Append(listed, o.ids)
                   /\ at' = at + 1 /\ UNCHANGED pc
       PROVE  HeapInv'
    <2> DEFINE O == Owners \cup Held("context", 0, g.array)
    <2>1. Good(Owners, heap, forgotten, array["versions"])
        BY <1>1, <1>2 DEF Memory
    <2>2. \A p \in Held("context", 0, array) : p \in Owners /\ p \in Held("context", 0, g.array)
        BY <1>4, InOwners, GrowthHolds
    <2>3. \A p : p \in O <=> p \in Owners \/ p \in Held("context", 0, g.array)
        OBVIOUS
    <2> HIDE DEF O
    <2>4. /\ Good(O, g.heap, forgotten, g.array["versions"])
          /\ Covered(Owners, heap, forgotten) => Covered(O, g.heap, forgotten)
          /\ Numbered(g.heap)
        BY <1>4, <1>13, <2>1, <2>2, <2>3, GrownOwners
    <2>5. /\ Yields(g.heap, o) /\ DOMAIN o.ids = 1 .. Copies /\ o.ids \in Seq(Nat)
          /\ o.fails \in {0, 1} /\ (o.fails = 1 => failures < MaxFailures)
          /\ o.ids[2] = 0 => TextOf(fields["app_bin"]) = "none" \/ o.fails = 1
        BY <1>13, <2>4, CopiedYield
    <2>6. /\ failures' \in 0 .. MaxFailures /\ failures' >= failures /\ failures \in Nat
          /\ o.fails = 1 => failures' > 0
        BY <1>4, <1>13, <2>5
    <2>7. ~grown' => failures' > 0
        BY <1>6, <1>10, <1>13, <2>6
    <2>8. CASE Incomplete \/ o.ids[2] = 0
        <3>1. pc' = "crashed" /\ UNCHANGED <<at, heap, listed>>
            BY <1>13, <2>8
        <3>2. Types'
            BY <1>1, <1>2, <1>5, <1>6, <2>6, <3>1 DEF Types
        <3>3. \/ failures' > 0 \/ fields["app_bin"] = 0 \/ vers = <<>>
              \/ \E i \in DOMAIN Credits : fields[Credits[i]] = 0
            <4>1. CASE Incomplete
                <5>1. fields["title"] # 0
                    BY <1>1, <1>2 DEF Faults
                <5> QED BY <1>1, <1>2, <4>1, <5>1, IncompleteCause
            <4>2. CASE o.ids[2] = 0
                BY <1>1, <1>2, <2>5, <2>6, <4>2, FieldText, CreditFacts
            <4> QED BY <2>8, <4>1, <4>2
        <3>4. FaultNeedsCause'
            BY <1>2, <3>1, <3>3 DEF FaultNeedsCause, OverrunNeedsFailure, CrashNeedsCause
        <3> QED BY <1>2, <2>7, <3>1, <3>2, <3>4, FaultStep
    <2>9. CASE ~(Incomplete \/ o.ids[2] = 0)
        <3>1. /\ heap' = o.heap /\ listed' = Append(listed, o.ids)
              /\ at' = at + 1 /\ pc' = pc
            BY <1>13, <2>9
        <3>2. listed' \in Seq(Seq(Nat)) /\ Len(listed') = Len(listed) + 1
            BY <1>4, <2>5, <3>1
        <3>3. Types'
            <4>1. at' \in Nat /\ at' > 0
                <5>1. at \in Nat
                    BY <1>1 DEF Types
                <5> QED BY <3>1, <5>1
            <4> QED BY <1>1, <1>2, <1>5, <1>6, <2>6, <3>1, <3>2, <4>1 DEF Types
        <3>4. Running' /\ Completing' /\ pc' # "freed" /\ pc' # "overrun" /\ pc' # "crashed"
            BY <1>2, <3>1 DEF Running, Completing
        <3>5. Faults'
            <4>1. grown' => Fits("metadata", Len(listed))'
                BY <1>6, <1>8, <3>2 DEF Fits
            <4>2. fields'["title"] # 0 /\ mode' = "metadata"
                BY <1>1, <1>2 DEF Faults
            <4>3. array'["titleids"] = 0 => failures' > 0
                BY <1>1, <1>2, <1>6, <1>9, <2>6 DEF Faults
            <4> QED BY <2>7, <3>4, <4>1, <4>2, <4>3
                    DEF Faults, FaultNeedsCause, OverrunNeedsFailure, CrashNeedsCause
        <3> DEFINE K == Len(listed) + 1
        <3>6. Held("listed", K, o.ids) = New("listed", K, 0, o.ids)
            BY <2>5, HeldNew
        <3>7. \A p : (\E k \in DOMAIN listed' : p \in Held("listed", k, listed'[k])) <=>
                         \/ \E k \in DOMAIN listed : p \in Held("listed", k, listed[k])
                         \/ p \in New("listed", K, 0, o.ids)
            <4>1. \A p : (\E k \in DOMAIN Append(listed, o.ids) :
                               p \in Held("listed", k, Append(listed, o.ids)[k])) <=>
                             \/ \E k \in DOMAIN listed : p \in Held("listed", k, listed[k])
                             \/ p \in Held("listed", K, o.ids)
                BY <1>4, <2>5, HeldAppended
            <4> QED BY <3>1, <3>6, <4>1
        <3> HIDE DEF K
        <3>8. \A p : p \in Owners' <=> p \in O \/ p \in New("listed", K, 0, o.ids)
            <4> DEFINE N == New("listed", K, 0, o.ids)
            <4>1. \A p : (\E k \in DOMAIN listed' : p \in Held("listed", k, listed'[k])) <=>
                             \/ \E k \in DOMAIN listed : p \in Held("listed", k, listed[k])
                             \/ p \in N
                BY <3>7
            <4> HIDE DEF N
            <4>2. \A p : p \in Owners' <=> p \in O \/ p \in N
                BY <1>2, <1>6, <2>2, <2>3, <4>1, InOwners, InOwnersNext
            <4> QED BY <4>2 DEF N
        <3>9. 0 \in Nat /\ \A p \in Owners' : p \in O \/ p \in New("listed", K, 0, o.ids)
            BY <3>8
        <3>10. Good(Owners', heap', forgotten, array'["versions"])
            BY <1>6, <2>4, <2>5, <3>1, <3>9, GoodList
        <3>11. \A p : p \in O \/ p \in New("listed", K, 0, o.ids) => p \in Owners'
            BY <3>8
        <3>12. lost = {} => Covered(Owners', heap', forgotten)
            <4>1. lost = {} => Covered(O, g.heap, forgotten)
                BY <1>1, <1>2, <2>4 DEF Memory
            <4> QED BY <2>5, <3>1, <3>9, <3>11, <4>1, CoveredList
        <3>13. Memory'
            BY <1>1, <1>2, <3>4, <3>10, <3>12 DEF Memory, Good, Sound
        <3> QED BY <3>3, <3>5, <3>13 DEF HeapInv
    <2> QED BY <2>8, <2>9
<1> QED BY <1>3, <1>11, <1>12, <1>13
\* The array of versions of a patch that is over: its holder is given up.
LEMMA Forgetting ==
    ASSUME NEW O, NEW h, NEW F, NEW v, Good(O, h, F, v), NEW q, q[4] = v, v # 0 => q \in O,
           NEW P, \A p : p \in P <=> p \in O /\ p # q, NEW E, E = F \cup ({v} \ {0})
    PROVE  /\ Good(P, h, E, 0)
           /\ Covered(O, h, F) => Covered(P, h, E)
<1>1. \A x : x \in E <=> x \in F \/ (x = v /\ v # 0)
    OBVIOUS
<1>2. /\ Numbered(h) /\ F \subseteq DOMAIN h
      /\ \A o \in O : o[4] \in DOMAIN h /\ o[4] \notin F
      /\ \A o, p \in O : o[4] = p[4] => o = p
      /\ \A x \in F : h[x] = "versions"
      /\ v # 0 => v \in DOMAIN h /\ h[v] = "versions"
      /\ \A x \in DOMAIN h : h[x] # "none"
    BY DEF Good, Sound
<1>3. \A p \in P : p \in O /\ p # q /\ p[4] \notin E
    BY <1>1, <1>2
<1>4. E \subseteq DOMAIN h /\ \A x \in E : h[x] = "versions"
    BY <1>1, <1>2
<1>5. Good(P, h, E, 0)
    BY <1>2, <1>3, <1>4 DEF Good, Sound
<1>6. ASSUME Covered(O, h, F), NEW x \in DOMAIN h PROVE x \in E \/ \E p \in P : p[4] = x
    <2>1. CASE x \in F
        BY <2>1, <1>1
    <2>2. CASE \E o \in O : o[4] = x
        <3>1. PICK o \in O : o[4] = x
            BY <2>2
        <3>2. CASE o = q
            <4>1. x # 0
                BY <1>2 DEF Numbered
            <4> QED BY <3>1, <3>2, <4>1, <1>1
        <3>3. CASE o # q
            BY <3>1, <3>3
        <3> QED BY <3>2, <3>3
    <2> QED BY <1>6, <2>1, <2>2 DEF Covered
<1> QED BY <1>5, <1>6 DEF Covered

LEMMA CompleteStep == ASSUME HeapInv, CompleteEnds PROVE HeapInv'
<1>1. Types /\ Memory /\ Faults
    BY DEF HeapInv
<1>2. /\ Completing /\ Running
      /\ entries' = <<>> /\ count' = 0 /\ fields' = NoFields /\ vers' = <<>>
      /\ pc' \in {"reading", "done"} /\ at' = 0
      /\ forgotten' = forgotten \cup ({array["versions"]} \ {0})
      /\ UNCHANGED <<mode, capacity, room, titleids, all, listed, currentMeta, lost, grown>>
    BY DEF CompleteEnds, Completing, Running, Over
<1>3. PICK o \in Outcomes(Free(heap, Strings), <<"versions">>) :
          Took(o) /\ array' = [array EXCEPT !["versions"] = o.ids[1]]
    BY DEF CompleteEnds
<1> DEFINE v == array["versions"]
           q == <<"context", 0, "versions", v>>
           h == Free(heap, Strings)
           O1 == {p \in Owners : p[1] \notin {"patch", "versions", "entries"}}
           O2 == {p \in O1 : p # q}
<1>4. Good(Owners, heap, forgotten, v)
    BY <1>1, <1>2 DEF Memory
<1>5. \A w, k, s, p : p \in Held(w, k, s) => p[1] = w /\ p[4] \in Ids(s)
    BY InHeld
<1>6. \A x \in Strings : \E p \in Owners : p[4] = x /\ p[1] \in {"patch", "versions", "entries"}
    <2>1. \A w, k, s : \A x \in Ids(s) : \E z \in Held(w, k, s) : z[4] = x
        BY InHeld
    <2>2. \A x \in Ids(fields) : \E p \in Owners : p[4] = x /\ p[1] = "patch"
        BY <2>1, <1>5, InOwners
    <2>3. \A x \in Ids(vers) : \E p \in Owners : p[4] = x /\ p[1] = "versions"
        BY <2>1, <1>5, InOwners
    <2>4. \A x \in Ids(entries) : \E p \in Owners : p[4] = x /\ p[1] = "entries"
        BY <2>1, <1>5, InOwners
    <2> QED BY <2>2, <2>3, <2>4 DEF Strings
<1>7. ArrayTypes(array, capacity, room) /\ DOMAIN array = Arrays /\ "versions" \in Arrays
    BY <1>1 DEF Types, ArrayTypes, Arrays
<1>8. q[4] = v /\ q[1] = "context" /\ (v # 0 => q \in Held("context", 0, array) /\ q \in Owners)
    <2>1. v # 0 => q \in Held("context", 0, array)
        BY <1>7, InHeld
    <2> QED BY <2>1, InOwners
<1>9. \A p \in O1 : p \in Owners /\ p[4] \notin Strings
    <2> SUFFICES ASSUME NEW p \in O1, p[4] \in Strings PROVE FALSE
        OBVIOUS
    <2>1. PICK z \in Owners : z[4] = p[4] /\ z[1] \in {"patch", "versions", "entries"}
        BY <1>6
    <2>2. z = p
        BY <2>1, <1>4 DEF Good, Sound
    <2> QED BY <2>1, <2>2
<1>10. v \notin Strings /\ \A x \in Strings : x \notin forgotten
    <2>1. \A x \in Strings : x \notin forgotten /\ x # 0
        BY <1>6, <1>4 DEF Strings, Ids, Good, Sound
    <2>2. ASSUME v \in Strings PROVE FALSE
        <3>1. PICK z \in Owners : z[4] = v /\ z[1] \in {"patch", "versions", "entries"}
            BY <1>6, <2>2
        <3>2. v # 0
            BY <2>1, <2>2
        <3>3. z = q
            BY <1>4, <1>8, <3>1, <3>2 DEF Good, Sound
        <3> QED BY <1>8, <3>1, <3>3
    <2> QED BY <2>1, <2>2
<1>11. \A p : p \in O1 <=> p \in Owners /\ p[1] \notin {"patch", "versions", "entries"}
    OBVIOUS
<1>12. \A p : p \in O2 <=> p \in O1 /\ p # q
    OBVIOUS
<1>13. \A p : p \in Owners => p \in O1 \/ p[4] \in Strings
    <2> SUFFICES ASSUME NEW p \in Owners, p[1] \in {"patch", "versions", "entries"}
                 PROVE  p[4] \in Strings
        OBVIOUS
    <2>1. p \in Held("patch", 0, fields) \/ p \in Held("versions", 0, vers)
              \/ p \in Held("entries", 0, entries)
        BY <1>5, InOwners
    <2> QED BY <2>1, <1>5 DEF Strings
<1>14. v # 0 => q \in O1
    BY <1>8, <1>11
<1> HIDE DEF O1, O2, h, q, v
<1>15. /\ Good(O1, h, forgotten, v)
       /\ Covered(Owners, heap, forgotten) => Covered(O1, h, forgotten)
    <2>1. Good(O1, Free(heap, Strings), forgotten, v)
        BY <1>4, <1>9, <1>10, GoodFree
    <2>2. Covered(Owners, heap, forgotten) => Covered(O1, Free(heap, Strings), forgotten)
        BY <1>13, DroppingCovers
    <2> QED BY <2>1, <2>2 DEF h
<1>16. /\ Good(O2, h, forgotten', 0)
       /\ Covered(O1, h, forgotten) => Covered(O2, h, forgotten')
    <2>1. forgotten' = forgotten \cup ({v} \ {0})
        BY <1>2 DEF v
    <2> QED BY <1>8, <1>12, <1>14, <1>15, <2>1, Forgetting
<1>17. /\ Yields(h, o) /\ DOMAIN o.ids = 1 .. 1 /\ o.ids \in Seq(Nat)
       /\ o.fails \in {0, 1} /\ (o.fails = 1 => failures < MaxFailures)
       /\ o.ids[1] # 0 => o.heap[o.ids[1]] = "versions"
    <2>1. /\ Numbered(h) /\ 1 \in Nat /\ DOMAIN <<"versions">> = 1 .. 1
          /\ o \in Outcomes(h, <<"versions">>)
        BY <1>3, <1>16 DEF h, Good, Sound
    <2>2. Yields(h, o)
        BY <2>1, OutcomesYield
    <2> DEFINE texts == <<"versions">>
    <2> HIDE DEF texts
    <2>3. /\ DOMAIN o.ids = 1 .. 1
          /\ \A i \in 1 .. 1 : o.ids[i] # 0 => o.heap[o.ids[i]] = texts[i]
        <3>1. o \in Outcomes(h, texts) /\ Numbered(h)
            BY <2>1 DEF texts
        <3>2. PICK n \in Nat : n = 1
            BY <2>1
        <3>3. DOMAIN texts = 1 .. n
            BY <2>1, <3>2 DEF texts
        <3>4. DOMAIN o.ids = 1 .. n
            BY <3>1, <3>3, OutcomesAdd
        <3>5. ASSUME NEW i \in 1 .. n, o.ids[i] # 0 PROVE o.heap[o.ids[i]] = texts[i]
            BY <3>1, <3>3, <3>5, OutcomesHit
        <3> QED BY <3>2, <3>4, <3>5
    <2>4. o.ids[1] # 0 => o.heap[o.ids[1]] = "versions"
        BY <2>3 DEF texts
    <2> QED BY <2>2, <2>3, <2>4 DEF Yields, Adds
<1>18. /\ heap' = o.heap /\ failures' = failures + o.fails /\ failures \in 0 .. MaxFailures
       /\ o.ids[1] \in Nat
    <2>1. heap' = o.heap /\ failures' = failures + o.fails
        BY <1>3 DEF Took
    <2>2. failures \in 0 .. MaxFailures
        BY <1>1 DEF Types
    <2>3. o.ids \in Seq(Nat) /\ DOMAIN o.ids = 1 .. 1 => o.ids[1] \in Nat
        OBVIOUS
    <2> QED BY <1>17, <2>1, <2>2, <2>3
<1>19. failures' \in 0 .. MaxFailures /\ failures' >= failures
    BY <1>17, <1>18
<1>20. /\ array' \in [Arrays -> Nat] /\ array'["versions"] = o.ids[1]
       /\ \A a \in Arrays : a # "versions" => array'[a] = array[a]
    BY <1>3, <1>7, <1>18 DEF ArrayTypes
<1>21. Types'
    <2>1. ArrayTypes(array, capacity, room)' /\ fields' \in [Fields -> Nat]
        BY <1>2, <1>7, <1>20 DEF ArrayTypes, NoFields
    <2> QED BY <1>1, <1>2, <1>19, <2>1 DEF Types
<1>22. Running' /\ ~Completing' /\ pc' # "freed" /\ pc' # "overrun" /\ pc' # "crashed"
    BY <1>2 DEF Running, Completing
<1>23. Faults'
    <2>1. grown' /\ mode' = "all" => Fits("all", Len(all))' /\ Fits("entries", count)'
        <3>1. /\ "all" \in Arrays /\ "entries" \in Arrays /\ "entries" \in Growing
              /\ "all" # "versions" /\ "entries" # "versions"
            BY DEF Arrays, Growing
        <3>2. grown /\ mode = "all" => Fits("all", Len(all)) /\ Fits("entries", count)
            BY <1>1, <1>2 DEF Faults
        <3>3. room["entries"] \in Nat
            BY <1>7, <3>1 DEF ArrayTypes
        <3> QED BY <1>2, <1>20, <3>1, <3>2, <3>3 DEF Fits
    <2>2. grown' /\ mode' = "metadata" => Fits("metadata", Len(listed))'
        <3>1. "metadata" \in Arrays /\ "metadata" # "versions"
            BY DEF Arrays, Growing
        <3>2. grown /\ mode = "metadata" => Fits("metadata", Len(listed))
            BY <1>1, <1>2 DEF Faults
        <3> QED BY <1>2, <1>20, <3>1, <3>2 DEF Fits
    <2>3. array'["titleids"] = 0 => failures' > 0
        <3>1. "titleids" \in Arrays /\ "titleids" # "versions"
            BY DEF Arrays
        <3>2. array["titleids"] = 0 => failures > 0
            BY <1>1, <1>2 DEF Faults
        <3> QED BY <1>17, <1>18, <1>20, <3>1, <3>2
    <2>4. ~grown' => failures' > 0
        BY <1>1, <1>2, <1>17, <1>18 DEF Faults
    <2> QED BY <1>22, <2>1, <2>2, <2>3, <2>4
            DEF Faults, FaultNeedsCause, OverrunNeedsFailure, CrashNeedsCause
<1> DEFINE new == <<"context", 0, "versions", o.ids[1]>>
           N == IF o.ids[1] = 0 THEN {} ELSE {new}
<1>24. \A x : x \in Ids(o.ids) <=> x = o.ids[1] /\ x # 0
    BY <1>17 DEF Ids
<1>25. new[4] = o.ids[1] /\ new[1] = "context" /\ new[3] = "versions" /\ q[3] = "versions"
    BY DEF q
<1>26. /\ \A p \in N : p[4] \in Ids(o.ids)
       /\ \A p, z \in N : p[4] = z[4] => p = z
       /\ \A x \in Ids(o.ids) : \E p \in N : p[4] = x
    BY <1>24, <1>25
<1>27. \A p : p \in Held("context", 0, array') <=>
                  (p \in Held("context", 0, array) /\ p # q) \/ p \in N
    <2>1. \A p : p \in Held("context", 0, array') <=>
                     \E a \in Arrays : array'[a] # 0 /\ p = <<"context", 0, a, array'[a]>>
        BY <1>20 DEF Held
    <2>2. \A p : p \in Held("context", 0, array) <=>
                     \E a \in Arrays : array[a] # 0 /\ p = <<"context", 0, a, array[a]>>
        BY <1>7 DEF Held
    <2>3. ASSUME NEW p \in Held("context", 0, array')
          PROVE  (p \in Held("context", 0, array) /\ p # q) \/ p \in N
        <3>1. PICK a \in Arrays : array'[a] # 0 /\ p = <<"context", 0, a, array'[a]>>
            BY <2>1, <2>3
        <3>2. CASE a = "versions"
            BY <3>1, <3>2, <1>20
        <3>3. CASE a # "versions"
            <4>1. p[3] = a
                BY <3>1
            <4> QED BY <3>1, <3>3, <4>1, <1>20, <1>25, <2>2
        <3> QED BY <3>2, <3>3
    <2>4. ASSUME NEW p \in Held("context", 0, array), p # q PROVE p \in Held("context", 0, array')
        <3>1. PICK a \in Arrays : array[a] # 0 /\ p = <<"context", 0, a, array[a]>>
            BY <2>2, <2>4
        <3>2. a # "versions"
            BY <2>4, <3>1 DEF q, v
        <3> QED BY <3>1, <3>2, <1>20, <2>1
    <2>5. ASSUME NEW p \in N PROVE p \in Held("context", 0, array')
        BY <1>7, <1>20, <2>1
    <2> QED BY <2>3, <2>4, <2>5
<1> HIDE DEF N, new
<1>28. \A p : p \in Owners' <=> p \in O2 \/ p \in N
    <2>1. \A p : p \notin Held("patch", 0, fields') /\ p \notin Held("versions", 0, vers')
                     /\ p \notin Held("entries", 0, entries')
        BY <1>2, NothingHeld
    <2>2. q[1] = "context"
        BY <1>8
    <2>3. \A p : p \in Owners' <=>
                     \/ p \in Held("context", 0, array') \/ p \in Held("titleids", 0, titleids)
                     \/ p \in Held("meta", 0, currentMeta)
                     \/ \E k \in DOMAIN listed : p \in Held("listed", k, listed[k])
                     \/ \E k \in DOMAIN all : p \in Held("all", k, all[k])
        BY <1>2, <2>1, InOwnersNext
    <2>4. \A p : p \in O1 <=>
                     \/ p \in Held("context", 0, array) \/ p \in Held("titleids", 0, titleids)
                     \/ p \in Held("meta", 0, currentMeta)
                     \/ \E k \in DOMAIN listed : p \in Held("listed", k, listed[k])
                     \/ \E k \in DOMAIN all : p \in Held("all", k, all[k])
        BY <1>5, <1>11, InOwners
    <2>5. \A p : p = q => p \notin Held("titleids", 0, titleids) /\ p \notin Held("meta", 0, currentMeta)
                     /\ (\A k \in DOMAIN listed : p \notin Held("listed", k, listed[k]))
                     /\ (\A k \in DOMAIN all : p \notin Held("all", k, all[k]))
        BY <1>5, <2>2
    <2> QED BY <1>12, <1>27, <2>3, <2>4, <2>5
<1>29. Good(Owners', heap', forgotten', array'["versions"])
    <2>1. \A p \in Owners' : p \in O2 \/ p \in N
        BY <1>28
    <2>2. Good(Owners', o.heap, forgotten', 0)
        BY <1>16, <1>17, <1>26, <2>1, GoodAdds
    <2>3. o.ids[1] # 0 => o.ids[1] \in DOMAIN o.heap
        BY <1>17, <1>24 DEF Yields, Adds
    <2> QED BY <1>17, <1>18, <1>20, <2>2, <2>3 DEF Good
<1>30. lost = {} => Covered(Owners', heap', forgotten')
    <2>1. \A p : p \in O2 \/ p \in N => p \in Owners'
        BY <1>28
    <2>2. lost = {} => Covered(O2, h, forgotten')
        BY <1>1, <1>2, <1>15, <1>16 DEF Memory
    <2> QED BY <1>17, <1>18, <1>26, <2>1, <2>2, CoveredAdds
<1>31. forgotten' \subseteq Nat \ {0}
    <2>1. array["versions"] \in Nat /\ forgotten \subseteq Nat \ {0}
        BY <1>1, <1>7 DEF Memory, ArrayTypes
    <2> QED BY <1>2, <2>1
<1>32. Memory'
    BY <1>2, <1>22, <1>29, <1>30, <1>31 DEF Memory, Good, Sound
<1> QED BY <1>21, <1>23, <1>32 DEF HeapInv

\* free_parse_context_data.
LEMMA FreeStep == ASSUME HeapInv, FreeContext PROVE HeapInv'
<1>1. Types /\ Memory /\ Faults
    BY DEF HeapInv
<1>2. /\ pc = "done" /\ pc' = "freed" /\ heap' = Free(heap, Owned)
      /\ UNCHANGED <<mode, at, array, capacity, room, fields, vers, inPatches, titleids, entries,
                     count, all, listed, currentMeta, forgotten, lost, grown, failures>>
    BY DEF FreeContext
<1>3. Running /\ ~Running' /\ ~Completing'
    BY <1>2 DEF Running, Completing
<1>4. Types'
    BY <1>1, <1>2 DEF Types
<1>5. Faults'
    BY <1>1, <1>2, <1>3 DEF Faults, FaultNeedsCause, OverrunNeedsFailure, CrashNeedsCause
<1>6. /\ DOMAIN heap' = DOMAIN heap \ Owned
      /\ \A x \in DOMAIN heap \ Owned : heap'[x] = heap[x]
    BY <1>2 DEF Free
<1>7. Good(Owners, heap, forgotten, array["versions"])
    BY <1>1, <1>3 DEF Memory
<1>8. \A x \in forgotten : x \in DOMAIN heap \ Owned /\ heap[x] = "versions"
    BY <1>7 DEF Good, Sound, Owned
<1>9. lost = {} => \A x \in DOMAIN heap \ Owned : x \in forgotten
    BY <1>1, <1>3 DEF Memory, Covered, Owned
<1>10. Numbered(heap')
    BY <1>1, <1>6 DEF Memory, Numbered
<1>11. lost' = {} => DOMAIN heap' = forgotten'
    BY <1>2, <1>6, <1>8, <1>9
<1>12. Memory'
    BY <1>1, <1>2, <1>3, <1>6, <1>8, <1>10, <1>11 DEF Memory
<1> QED BY <1>4, <1>5, <1>12 DEF HeapInv
LEMMA FetchStep == ASSUME HeapInv, Fetch PROVE HeapInv'
<1>1. Types /\ Memory /\ Faults
    BY DEF HeapInv
<1>2. /\ Completing /\ Running /\ mode = "all" /\ at > 0 /\ at \in Nat
      /\ UNCHANGED <<mode, fields, vers, inPatches, titleids, entries, count, listed, currentMeta,
                     forgotten, lost>>
    BY <1>1 DEF Fetch, Completing, Running, Types
<1>0. PICK o \in Outcomes(heap, Copied(Slots[at])) :
          \E g \in Growth(o.heap, "all", Len(all)) :
              /\ Grew(g)
              /\ grown' = (grown /\ g.ok)
              /\ \/ /\ ~g.ok
                    /\ failures' = failures + o.fails + 1 /\ failures' <= MaxFailures
                    /\ GiveUp
                    /\ UNCHANGED <<heap, all>>
                 \/ /\ g.ok /\ Len(all) >= g.room["all"]
                    /\ failures' = failures + o.fails
                    /\ pc' = IF g.array["all"] = 0 THEN "crashed" ELSE "overrun"
                    /\ UNCHANGED <<at, heap, all>>
                 \/ /\ g.ok /\ Len(all) < g.room["all"]
                    /\ \E e \in Outcomes(g.heap, [i \in 1 .. Len(entries) + 1 |->
                                                    IF i = 1 THEN "entries" ELSE "text"]) :
                          /\ failures' = failures + o.fails + e.fails
                          /\ failures' <= MaxFailures
                          /\ IF e.ids[1] = 0 /\ count > 0
                             THEN pc' = "crashed" /\ UNCHANGED <<at, heap, all>>
                             ELSE /\ heap' = e.heap
                                  /\ all' = Append(all, o.ids \o e.ids)
                                  /\ at' = at + 1 /\ UNCHANGED pc
    BY DEF Fetch
<1>3. PICK g \in Growth(o.heap, "all", Len(all)) :
          /\ Grew(g)
          /\ grown' = (grown /\ g.ok)
          /\ \/ /\ ~g.ok
                /\ failures' = failures + o.fails + 1 /\ failures' <= MaxFailures
                /\ GiveUp
                /\ UNCHANGED <<heap, all>>
             \/ /\ g.ok /\ Len(all) >= g.room["all"]
                /\ failures' = failures + o.fails
                /\ pc' = IF g.array["all"] = 0 THEN "crashed" ELSE "overrun"
                /\ UNCHANGED <<at, heap, all>>
             \/ /\ g.ok /\ Len(all) < g.room["all"]
                /\ \E e \in Outcomes(g.heap, [i \in 1 .. Len(entries) + 1 |->
                                                IF i = 1 THEN "entries" ELSE "text"]) :
                      /\ failures' = failures + o.fails + e.fails
                      /\ failures' <= MaxFailures
                      /\ IF e.ids[1] = 0 /\ count > 0
                         THEN pc' = "crashed" /\ UNCHANGED <<at, heap, all>>
                         ELSE /\ heap' = e.heap
                              /\ all' = Append(all, o.ids \o e.ids)
                              /\ at' = at + 1 /\ UNCHANGED pc
    BY <1>0
<1>4. /\ ArrayTypes(array, capacity, room) /\ "all" \in Growing /\ Numbered(heap)
      /\ all \in Seq(Seq(Nat)) /\ Len(all) \in Nat /\ failures \in 0 .. MaxFailures
      /\ entries \in Seq(Nat) /\ Len(entries) \in Nat
    BY <1>1 DEF Types, Growing, Memory
<1>5. /\ Yields(heap, o) /\ DOMAIN o.ids = 1 .. Copies /\ Len(o.ids) = Copies /\ o.ids \in Seq(Nat)
      /\ o.fails \in {0, 1} /\ (o.fails = 1 => failures < MaxFailures) /\ Numbered(o.heap)
    BY <1>4, CopiedYield DEF Yields, Adds
<1>6. /\ ArrayTypes(g.array, g.capacity, g.room)
      /\ g.fails \in {0, 1} /\ g.ok \in BOOLEAN /\ (~g.ok => g.fails = 1 /\ g.array = array)
      /\ \A b \in Arrays \ {"all"} : g.array[b] = array[b]
      /\ \A b \in Growing \ {"all"} : g.capacity[b] = capacity[b] /\ g.room[b] = room[b]
    BY <1>4, <1>5, GrowthTypes
<1>7. /\ array' = g.array /\ capacity' = g.capacity /\ room' = g.room
      /\ grown' \in BOOLEAN /\ (grown' <=> grown /\ g.ok)
    BY <1>1, <1>3, <1>6 DEF Grew, Types
<1>8. grown => Fits("all", Len(all)) /\ Fits("entries", count)
    BY <1>1, <1>2 DEF Faults
<1>9. grown /\ g.ok => /\ g.array["all"] # 0 /\ g.room["all"] = g.capacity["all"]
                       /\ g.capacity["all"] > 0 /\ Len(all) + 1 <= g.room["all"]
    BY <1>4, <1>5, <1>8, GrowthFits
<1>10. /\ g.array["titleids"] = array["titleids"] /\ g.array["versions"] = array["versions"]
       /\ g.array["entries"] = array["entries"]
       /\ g.capacity["entries"] = capacity["entries"] /\ g.room["entries"] = room["entries"]
    BY <1>6 DEF Arrays, Growing
<1>11. (~grown => failures > 0) /\ (array["titleids"] = 0 => failures > 0) /\ fields["title"] # 0
    BY <1>1, <1>2 DEF Faults
<1>12. CASE /\ ~g.ok
            /\ failures' = failures + o.fails + 1 /\ failures' <= MaxFailures
            /\ GiveUp
            /\ UNCHANGED <<heap, all>>
    <2>1. /\ UNCHANGED <<heap, array, all>> /\ ~grown' /\ failures' \in 0 .. MaxFailures
          /\ failures' > 0
        BY <1>4, <1>5, <1>6, <1>7, <1>12
    <2>2. pc' \in {"reading", "done"} /\ at' = 0
        BY <1>12 DEF GiveUp, Over
    <2>3. Types'
        BY <1>1, <1>2, <1>6, <1>7, <2>1, <2>2 DEF Types
    <2>4. Owners' = Owners
        BY <1>2, <2>1, InOwners, InOwnersNext
    <2>5. Running' /\ ~Completing' /\ pc' # "freed" /\ pc' # "overrun" /\ pc' # "crashed"
        BY <2>2 DEF Running, Completing
    <2>6. Memory'
        BY <1>1, <1>2, <2>1, <2>4, <2>5 DEF Memory
    <2>7. Faults'
        BY <2>1, <2>5 DEF Faults, FaultNeedsCause, OverrunNeedsFailure, CrashNeedsCause
    <2> QED BY <2>3, <2>6, <2>7 DEF HeapInv
<1>13. CASE /\ g.ok /\ Len(all) >= g.room["all"]
            /\ failures' = failures + o.fails
            /\ pc' = IF g.array["all"] = 0 THEN "crashed" ELSE "overrun"
            /\ UNCHANGED <<at, heap, all>>
    <2>1. UNCHANGED <<at, heap, all>> /\ pc' \in {"crashed", "overrun"}
        BY <1>13
    <2>2. failures' \in 0 .. MaxFailures /\ failures' >= failures /\ failures' \in Nat
        BY <1>4, <1>5, <1>13
    <2>3. Types'
        BY <1>1, <1>2, <1>6, <1>7, <2>1, <2>2 DEF Types
    <2>4. FaultNeedsCause' /\ (~grown' => failures' > 0)
        BY <1>1, <1>2, <1>3, <1>4, <1>5, <1>8, <1>11, <1>13, <2>1, <2>2, GrowthFaults
    <2> QED BY <1>2, <2>1, <2>3, <2>4, FaultStep
<1>14. ASSUME g.ok, Len(all) < g.room["all"],
              NEW e \in Outcomes(g.heap, [i \in 1 .. Len(entries) + 1 |->
                                            IF i = 1 THEN "entries" ELSE "text"]),
              failures' = failures + o.fails + e.fails, failures' <= MaxFailures,
              IF e.ids[1] = 0 /\ count > 0
              THEN pc' = "crashed" /\ UNCHANGED <<at, heap, all>>
              ELSE /\ heap' = e.heap
                   /\ all' = Append(all, o.ids \o e.ids)
                   /\ at' = at + 1 /\ UNCHANGED pc
       PROVE  HeapInv'
    <2> DEFINE K == Len(all) + 1
               M == New("all", K, 0, o.ids)
               N == New("all", K, Len(o.ids), e.ids)
               O1 == Owners \cup M
               O2 == O1 \cup Held("context", 0, g.array)
    <2>1. Good(Owners, heap, forgotten, array["versions"])
        BY <1>1, <1>2 DEF Memory
    <2>2. \A p \in Held("context", 0, array) : p \in Owners /\ p \in Held("context", 0, g.array)
        BY <1>4, InOwners, GrowthHolds
    <2>3. (\A p : p \in O1 <=> p \in Owners \/ p \in M) /\ 0 \in Nat /\ Len(o.ids) \in Nat
        BY <1>5
    <2>4. \A p : p \in O2 <=> p \in O1 \/ p \in Held("context", 0, g.array)
        OBVIOUS
    <2> HIDE DEF O1, O2
    <2>5. Good(O1, o.heap, forgotten, array["versions"])
        BY <1>5, <2>1, <2>3, GoodList
    <2>6. lost = {} => Covered(O1, o.heap, forgotten)
        <3>1. lost = {} => Covered(Owners, heap, forgotten)
            BY <1>1, <1>2 DEF Memory
        <3> QED BY <1>5, <2>3, <3>1, CoveredList
    <2>7. /\ Good(O2, g.heap, forgotten, g.array["versions"])
          /\ Covered(O1, o.heap, forgotten) => Covered(O2, g.heap, forgotten)
          /\ Numbered(g.heap)
        <3>1. \A p \in Held("context", 0, array) : p \in O1
            BY <2>2, <2>3
        <3> QED BY <1>4, <1>14, <2>4, <2>5, <3>1, GrownOwners
    <2> DEFINE texts == [i \in 1 .. Len(entries) + 1 |-> IF i = 1 THEN "entries" ELSE "text"]
    <2>8. DOMAIN texts = 1 .. Len(entries) + 1 /\ Len(entries) + 1 \in Nat /\ texts[1] # "none"
          /\ 1 \in 1 .. Len(entries) + 1 /\ e \in Outcomes(g.heap, texts)
        BY <1>4
    <2> HIDE DEF texts
    <2>9. /\ Yields(g.heap, e) /\ e.ids \in Seq(Nat) /\ e.fails \in {0, 1}
          /\ e.ids[1] = 0 => e.fails = 1
        <3>1. Yields(g.heap, e)
            BY <2>7, <2>8, OutcomesYield
        <3>2. ASSUME NEW i \in 1 .. Len(entries) + 1, e.ids[i] = 0
              PROVE  texts[i] = "none" \/ e.fails = 1
            BY <2>7, <2>8, <3>2, OutcomesMiss
        <3> QED BY <2>8, <3>1, <3>2 DEF Yields, Adds
    <2>10. /\ failures' \in 0 .. MaxFailures /\ failures' >= failures /\ failures \in Nat
           /\ e.fails = 1 => failures' > 0
        BY <1>4, <1>5, <1>14, <2>9
    <2>11. ~grown' => failures' > 0
        BY <1>7, <1>11, <1>14, <2>10
    <2>12. CASE e.ids[1] = 0 /\ count > 0
        <3>1. pc' = "crashed" /\ UNCHANGED <<at, heap, all>>
            BY <1>14, <2>12
        <3>2. Types'
            BY <1>1, <1>2, <1>6, <1>7, <2>10, <3>1 DEF Types
        <3>3. FaultNeedsCause'
            BY <2>9, <2>10, <2>12, <3>1 DEF FaultNeedsCause, OverrunNeedsFailure, CrashNeedsCause
        <3> QED BY <1>2, <2>11, <3>1, <3>2, <3>3, FaultStep
    <2>13. CASE ~(e.ids[1] = 0 /\ count > 0)
        <3>1. /\ heap' = e.heap /\ all' = Append(all, o.ids \o e.ids)
              /\ at' = at + 1 /\ pc' = pc
            BY <1>14, <2>13
        <3>2. o.ids \o e.ids \in Seq(Nat)
            BY <1>5, <2>9
        <3>3. all' \in Seq(Seq(Nat)) /\ Len(all') = Len(all) + 1
            BY <1>4, <3>1, <3>2
        <3>4. Types'
            BY <1>1, <1>2, <1>6, <1>7, <2>10, <3>1, <3>3 DEF Types
        <3>5. Running' /\ Completing' /\ pc' # "freed" /\ pc' # "overrun" /\ pc' # "crashed"
            BY <1>2, <3>1 DEF Running, Completing
        <3>6. Faults'
            <4>1. grown' => Fits("all", Len(all))' /\ Fits("entries", count)'
                BY <1>2, <1>7, <1>8, <1>9, <1>10, <3>3 DEF Fits
            <4>2. fields'["title"] # 0 /\ mode' = "all"
                BY <1>2, <1>11
            <4>3. array'["titleids"] = 0 => failures' > 0
                BY <1>7, <1>10, <1>11, <2>10
            <4> QED BY <2>11, <3>5, <4>1, <4>2, <4>3
                    DEF Faults, FaultNeedsCause, OverrunNeedsFailure, CrashNeedsCause
        <3>7. \A p : p \in Held("all", K, o.ids \o e.ids) <=> p \in M \/ p \in N
            <4>1. Held("all", K, o.ids) = M
                BY <1>5, HeldNew
            <4>2. \A p : p \in Held("all", K, o.ids \o e.ids) <=>
                             p \in Held("all", K, o.ids) \/ p \in New("all", K, Len(o.ids), e.ids)
                BY <1>5, <2>9, HeldLonger
            <4> QED BY <1>5, <4>1, <4>2
        <3>8. \A p : (\E k \in DOMAIN all' : p \in Held("all", k, all'[k])) <=>
                         (\E k \in DOMAIN all : p \in Held("all", k, all[k])) \/ p \in M \/ p \in N
            <4> DEFINE t == o.ids \o e.ids
            <4>1. t \in Seq(Nat) /\ all' = Append(all, t)
                BY <3>1, <3>2
            <4>2. \A p : p \in Held("all", K, t) <=> p \in M \/ p \in N
                BY <3>7
            <4> HIDE DEF t, M, N
            <4>3. \A p : (\E k \in DOMAIN Append(all, t) : p \in Held("all", k, Append(all, t)[k])) <=>
                             \/ \E k \in DOMAIN all : p \in Held("all", k, all[k])
                             \/ p \in Held("all", K, t)
                BY <1>4, <4>1, HeldAppended
            <4> QED BY <4>1, <4>2, <4>3
        <3> HIDE DEF K, M
        <3>9. \A p : p \in Owners' <=> p \in O2 \/ p \in N
            <4> HIDE DEF N
            <4> QED BY <1>2, <1>7, <2>2, <2>3, <2>4, <3>8, InOwners, InOwnersNext
        <3>10. \A p \in Owners' : p \in O2 \/ p \in New("all", K, Len(o.ids), e.ids)
            BY <3>9
        <3>11. \A p : p \in O2 \/ p \in New("all", K, Len(o.ids), e.ids) => p \in Owners'
            BY <3>9
        <3> HIDE DEF N
        <3>12. Good(Owners', heap', forgotten, array'["versions"])
            BY <1>7, <2>3, <2>7, <2>9, <3>1, <3>10, GoodList
        <3>13. lost = {} => Covered(Owners', heap', forgotten)
            BY <2>3, <2>6, <2>7, <2>9, <3>1, <3>11, CoveredList
        <3>14. Memory'
            BY <1>1, <1>2, <3>5, <3>12, <3>13 DEF Memory, Good, Sound
        <3> QED BY <3>4, <3>6, <3>14 DEF HeapInv
    <2> QED BY <2>12, <2>13
<1> QED BY <1>3, <1>12, <1>13, <1>14

LEMMA NextHeap == HeapInv /\ [Next]_vars => HeapInv'
<1> SUFFICES ASSUME HeapInv, [Next]_vars PROVE HeapInv'
    OBVIOUS
<1>1. ASSUME NEW f \in Fields, NEW text \in Values(f), FieldLine(f, text) PROVE HeapInv'
    <2>1. text \in {"none", "text", "hit", "miss"}
        BY DEF Values
    <2> QED BY <1>1, <2>1, FieldStep
<1> QED BY <1>1, PlaceStep, TitleidStep, VersionsStep, EntryStep, AskStep, ListStep,
           UnmatchedStep, FetchStep, CompleteStep, FreeStep DEF Next
-----------------------------------------------------------------------------
THEOREM HeapIsWhole == Spec => []HeapInv
BY InitHeap, NextHeap, PTL DEF Spec

\* The pointers of the context are numbers of objects, and the parser is where it can be.
THEOREM HeapAlwaysTyped == Spec => []TypeOK
BY HeapIsWhole, HeapInvImplies, PTL

\* While the parser runs, every pointer that free_parse_context_data will free leads to
\* an object that is there, and no two to the same one, whichever malloc or realloc
\* failed on the way and in whatever order the lines came.
THEOREM AlwaysOwnedOnce == Spec => []OwnedOnce
BY HeapIsWhole, HeapInvImplies, PTL

\* What is lost when the context is freed is the array of versions of each patch that
\* was completed, unless a field stood twice, an entry was too short, or a patch of
\* another title listed the game's version.
THEOREM LossAlwaysHasCause == Spec => []LossHasCause
BY HeapIsWhole, HeapInvImplies, PTL

\* An array is overrun only after one could not be had or made longer, and never in the
\* game; a NULL pointer is used only if memory ran out, or the patch has no app_bin or, in
\* the application, no version or not each of the Credits: a name, an author, a version.
THEOREM FaultsAlwaysHaveCause == Spec => []FaultNeedsCause
BY HeapIsWhole, HeapInvImplies, PTL
=============================================================================
